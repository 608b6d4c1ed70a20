------------------------------ MODULE SymRegs ------------------------------
(***************************************************************************)
(* How the static analysis of the user program keeps a register and its    *)
(* parts: set_target_symbol, which every instruction ends with, and        *)
(* analyze_operator, with which it starts.  The map from places to symbols *)
(* has an entry of its own for rax, eax, ax, ah and al, so a write to one  *)
(* of them must bring the others up to date.                               *)
(*                                                                         *)
(* A symbol is a number or a name with taints; a name carries pointers to  *)
(* the symbols of its parts, which a write of the whole puts into the      *)
(* entries of the parts.  Registers are followed one at a time, with one   *)
(* place in memory through which a symbol comes back into the register.    *)
(*                                                                         *)
(* A 64-bit value has four digits, of two bits each, that stand for byte   *)
(* 0, byte 1, bytes 2-3 and bytes 4-7: the parts of a register are its     *)
(* first 1, 2, 3 or 4 digits, and the second byte.  A number has all four, *)
(* in whatever place it is kept: the code cuts it off only for the others. *)
(***************************************************************************)
EXTENDS Integers, Sequences

CONSTANTS
  Taints,     \* taints of memory the analysed code reads
  Registers,  \* the 16 registers, by the names of their 64 bits
  MaxWrites   \* writes that are followed, for each register

HighByte == {"rax", "rcx", "rdx", "rbx"}

ASSUME SymRegsAssumption ==
  /\ Taints # {} /\ HighByte \subseteq Registers
  /\ MaxWrites \in [Registers -> Nat]

VARIABLES
  reg,     \* the register followed
  parts,   \* _addr_symbol_map at the register's parts
  mem,     \* a symbol in memory, with what is known of its origin
  crashed, \* a null pointer was followed
  writes,  \* writes so far
  val,     \* history: the digits the processor would hold, where known
  bent,    \* history: for each part the digits it is known to keep wrong
  due,     \* history: for each part the taints of its last wide and last write
  trust    \* history: 2 for a part whose symbol has the parts' own symbols,
           \* 1 if it has older ones or lacks them, 0 for a part that was
           \* taken from a symbol of trust 1

symVars == <<reg, parts, mem, crashed, writes, val, bent, due, trust>>

Null == [null |-> TRUE]
Unknown == 4

Width == [r64 |-> 4, r32 |-> 3, r16 |-> 2, rh |-> 1, rl |-> 1]
Digits == [r64 |-> 1 .. 4, r32 |-> 1 .. 3, r16 |-> 1 .. 2, rh |-> {2}, rl |-> {1}]
PartsOf(r) == DOMAIN Width \ (IF r \in HighByte THEN {} ELSE {"rh"})
Wide == {"r64", "r32", "r16"}

(* The parts that P is inside of, and those inside it.                     *)
Above(P) == {Q \in DOMAIN parts : Digits[P] \subseteq Digits[Q] /\ Q # P}
Below(P) == {Q \in DOMAIN parts : Digits[Q] \subseteq Digits[P] /\ Q # P}

---------------------------------------------------------------------------
(* Symbols.  t is _taine_effect_vector; mul is the mark of a product or a  *)
(* left shift, which matters here in symbols of one byte only; p64 to pl   *)
(* are _size_64_symbol to _size_xl_symbol.                                 *)
Number(n) == [num |-> TRUE, n |-> n, t |-> {}, mul |-> FALSE,
              p64 |-> Null, p32 |-> Null, p16 |-> Null, ph |-> Null, pl |-> Null]
Zero == Number(<<0, 0, 0, 0>>)
Name(t) == [Number(<<>>) EXCEPT !.num = FALSE, !.t = t]

\* A mutant of Whole.
WholeWithoutWord(t) ==
  LET b == Name(t)
      w == [b EXCEPT !.ph = b, !.pl = b]
      q == [w EXCEPT !.p32 = w]
  IN <<b, w, w, q>>
(* generate_symbol_for_addr: a new name with all its parts, by its width.  *)
Whole(t) ==
  LET b == Name(t)
      w == [b EXCEPT !.ph = b, !.pl = b]
      d == [w EXCEPT !.p16 = w]
      q == [d EXCEPT !.p32 = d]
  IN <<b, w, d, q>>

(* The text of a number is written unsigned and read signed: from 2^63 on  *)
(* the number is taken for the largest signed one.                         *)
Saturates(s) == s.n[4] >= 2
to_int(s) == IF Saturates(s) THEN <<3, 3, 3, 1>> ELSE s.n

\* A mutant of PutLow.
PutLowClears(s, x, v, w) == Number([i \in 1 .. 4 |-> IF i <= v THEN to_int(x)[i] ELSE 0])

(* A number's lowest w digits, its second byte, and the number in a place  *)
(* of width w with another, of width v, in place of its lowest digits or,  *)
(* of one byte, of its second byte.                                        *)
Low(s, w) == Number([i \in 1 .. 4 |-> IF i <= w THEN to_int(s)[i] ELSE 0])
High(s) == Number(<<to_int(s)[2], 0, 0, 0>>)
PutLow(s, x, v, w) ==
  Number([i \in 1 .. 4 |-> IF i <= v THEN to_int(x)[i] ELSE IF i <= w THEN to_int(s)[i] ELSE 0])
PutHigh(s, x, w) ==
  Number([i \in 1 .. 4 |-> IF i = 2 THEN to_int(x)[1] ELSE IF i <= w THEN to_int(s)[i] ELSE 0])

(* Names made of a name one size smaller: copies, with it as their part.   *)
WithByte(s) == [s EXCEPT !.ph = Zero, !.pl = s]
WithWord(s) == [s EXCEPT !.p16 = s]
WithDouble(s) == [s EXCEPT !.p32 = s]

(* What an instruction may write to a part of width w.  x.d, x.wrong,      *)
(* x.due and x.trust are what the history has of the symbol x.s: its       *)
(* digits, those its parts have wrong, its taints and its trust; a number  *)
(* that an instruction came to is taken at its word.  Constants come       *)
(* sign-extended to 64 bits; names for what memory or an operation holds   *)
(* come with all their parts.                                              *)
Immediates(w) == {Number([i \in 1 .. 4 |-> d]) : d \in {0, 1}}
                   \cup {Number([i \in 1 .. 4 |-> IF i <= w THEN 2 ELSE 3])}
Loaded(w) == {Whole(t)[w] : t \in {{}} \cup {{u} : u \in Taints}}
Products(w) == IF w = 1 THEN {[s EXCEPT !.mul = TRUE] : s \in Loaded(1)} ELSE {}
Only(t) == [wide |-> t, last |-> t]
Guess(s, w) == [i \in 1 .. w |-> IF s.num THEN s.n[i] ELSE Unknown]
Wrong(s) == IF s.num /\ Saturates(s) THEN 1 .. 4 ELSE {}
Result(s, w, k) ==
  [s |-> s, d |-> Guess(s, w), wrong |-> Wrong(s), due |-> Only(s.t), trust |-> k]
Fetched(w) == {m \in mem : Len(m.d) = w}
NamesOf(items) == {x \in items : ~x.s.num}

(* A byte or more shifted out to the left: the lowest byte is zero, in the *)
(* symbols of the parts too, except in that of ax in that of eax.          *)
ShiftedOut(s) ==
  LET zero(p) == IF p = Null THEN p ELSE [p EXCEPT !.pl = Zero]
  IN [s EXCEPT !.mul = TRUE, !.pl = Zero, !.p16 = zero(@), !.p32 = zero(@)]
Shifted(w) ==
  {[Result(ShiftedOut(s), w, 2) EXCEPT !.d[1] = 0] : s \in {Whole({t})[w] : t \in Taints}}

(* movzx, cwde, movsxd and cdqe of a name of width v: a wider name with    *)
(* that one as its part, and zeros or a sign above it.                     *)
Extend(s, v, w) ==
  CASE v = 1 /\ w = 3 -> WithWord(WithByte(s))
    [] v = 1 /\ w = 4 -> WithDouble(WithWord(WithByte(s)))
    [] v = 2 /\ w = 3 -> WithWord(s)
    [] v = 2 /\ w = 4 -> WithDouble(WithWord(s))
    [] v = 3 /\ w = 4 -> WithDouble(s)
Fills == {<<1, 3, 0>>, <<1, 4, 0>>, <<2, 3, 0>>, <<2, 4, 0>>, <<2, 3, Unknown>>, <<3, 4, Unknown>>}
Extended(w) ==
  UNION {{[x EXCEPT !.s = Extend(x.s, f[1], w),
                    !.d = [i \in 1 .. w |-> IF i <= f[1] THEN x.d[i] ELSE f[3]]] :
            x \in NamesOf(Fetched(f[1]))} : f \in {g \in Fills : g[2] = w}}

(* Results without symbols for all of their parts: and with a constant,    *)
(* bswap of 64 bits, and movzx and cbw of a byte to ax.                    *)
LessTrust(k) == IF k = 0 THEN 0 ELSE 1
ByteIn(x, ph, digit) ==
  [x EXCEPT !.s.ph = ph, !.d = <<x.d[1], digit>>, !.trust = LessTrust(@)]
Partial(w) ==
  CASE w = 4 -> {Result(Name({}), 4, 1)} \cup {Result(Whole({t})[3], 4, 1) : t \in Taints}
    [] w = 3 -> {Result(Name({}), 3, 1)}
    [] w = 2 -> {Result(Name({}), 2, 1)} \cup
                UNION {{ByteIn(x, Zero, 0), ByteIn(x, Name({}), Unknown)} :
                          x \in NamesOf(Fetched(1))}
    [] w = 1 -> {}

Sources(w) ==
  {Result(s, w, 2) : s \in Immediates(w) \cup Loaded(w) \cup Products(w)}
    \cup Shifted(w) \cup Fetched(w) \cup Extended(w) \cup Partial(w)

(* The registers the kernel sent, or names in their place.                 *)
init_state_machine ==
  /\ val \in {[i \in 1 .. 4 |-> 0], [i \in 1 .. 4 |-> 2]}
  /\ parts = [P \in PartsOf(reg) |->
                Number([i \in 1 .. 4 |-> IF i <= Width[P] THEN val[i] ELSE 0])]

init_state_machine_symbol ==
  /\ parts = [P \in PartsOf(reg) |-> Whole({})[Width[P]]]
  /\ val = [i \in 1 .. 4 |-> Unknown]

SymInit ==
  /\ reg \in Registers /\ mem = {} /\ crashed = FALSE /\ writes = 0
  /\ init_state_machine \/ init_state_machine_symbol
  /\ bent = [P \in PartsOf(reg) |-> {}]
  /\ due = [P \in PartsOf(reg) |-> Only({})]
  /\ trust = [P \in PartsOf(reg) |-> 2]

---------------------------------------------------------------------------
(* History of a write of x to P.  A write of 32 bits is one of 64 to the   *)
(* processor; one of 16 bits replaces the taints of the whole register, as *)
(* the code means it to.                                                   *)
Written(P) == IF P = "r32" THEN {"r32", "r64"} ELSE {P}

(* The digits that the code gets wrong when it puts a number x into a      *)
(* number Q: those whose conversion saturates, those above 32 bits, which  *)
(* it keeps, and the second byte, which it writes for the first.           *)
WrongIn(Q, P, x) ==
  ((bent[Q] \cup Wrong(parts[Q])) \ Digits[P]) \cup (x.wrong \cap Digits[P])
    \cup (CASE P = "rl" -> {1, 2} [] P = "r32" -> {4} [] OTHER -> {})

Record(P, x) ==
  LET over == {Q \in DOMAIN parts : Digits[Q] \cap Digits[P] # {}}
      all == x.due.wide \cup x.due.last
  IN /\ val' = [i \in 1 .. 4 |->
          CASE i \in Digits[P] -> x.d[IF P = "rh" THEN 1 ELSE i]
            [] P = "r32" /\ i = 4 -> 0
            [] OTHER -> val[i]]
     /\ bent' = [Q \in DOMAIN parts |->
          CASE Q \in Below(P) -> x.wrong
            [] Q \in Above(P) /\ x.s.num /\ parts[Q].num -> WrongIn(Q, P, x)
            [] Q \notin over -> bent[Q]
            [] OTHER -> {}]
     /\ due' = [Q \in DOMAIN parts |->
          CASE Q = P -> x.due
            [] Q \in over \ {P} /\ P \in Wide -> Only(all)
            [] Q \in over \ {P} /\ P \notin Wide -> [wide |-> due[Q].wide, last |-> all]
            [] OTHER -> due[Q]]
     /\ trust' = [Q \in DOMAIN parts |->
          CASE Q \in Written(P) -> x.trust
            [] Q \in Below(P) -> IF x.trust = 2 THEN 2 ELSE 0
            [] Q \in Above(P) \ Written(P) -> IF 0 \in {trust[Q], x.trust} THEN 0 ELSE 1
            [] OTHER -> trust[Q]]

(* A write of x to P that looks at the entries in "seen" and leaves "new". *)
Write(P, x, seen, new) ==
  /\ ~crashed /\ writes < MaxWrites[reg]
  /\ writes' = writes + 1
  /\ IF \E Q \in seen : parts[Q] = Null
     THEN crashed' = TRUE /\ UNCHANGED <<parts, val, bent, due, trust>>
     ELSE /\ parts' = [Q \in DOMAIN parts |-> new[Q]]
          /\ Record(P, x)
          /\ UNCHANGED crashed
  /\ UNCHANGED <<reg, mem>>

---------------------------------------------------------------------------
(* 64 bits: the parts of the symbol become the entries of the parts.       *)
Write64(x) ==
  LET s == x.s IN
  Write("r64", x, {},
    IF s.num
    THEN [r64 |-> s, r32 |-> Low(s, 3), r16 |-> Low(s, 2), rh |-> High(s), rl |-> Low(s, 1)]
    ELSE [r64 |-> s, r32 |-> s.p32, r16 |-> s.p16, rh |-> s.ph, rl |-> s.pl])

(* 32 bits.  keep: in the case of edi the new name remembers the old.      *)
Below32(s) ==
  IF s.num THEN [p16 |-> Low(s, 2), ph |-> High(s), pl |-> Low(s, 1)]
           ELSE [p16 |-> s.p16, ph |-> s.ph, pl |-> s.pl]

Base(s, pointer) == IF pointer = Null THEN s ELSE pointer

Write32With(x, keep) ==
  LET s == x.s
      b == Below32(s)
      r64 == [Name(s.t) EXCEPT !.p32 = s, !.p16 = b.p16, !.ph = b.ph, !.pl = b.pl]
  IN Write("r32", x, {"r64"},
       [r64 |-> IF s.num /\ parts.r64.num THEN PutLow(parts.r64, s, 3, 4)
                ELSE IF s.num /\ keep
                THEN [r64 EXCEPT !.p64 = Base(parts.r64, parts.r64.p64)]
                ELSE r64,
        r32 |-> s, r16 |-> b.p16, rh |-> b.ph, rl |-> b.pl])

Write32(x) == Write32With(x, FALSE)
Write32Keep(x) == Write32With(x, TRUE)

(* 16 bits.  new_size_4_symbol stays null when eax holds a number, and the *)
(* second byte of a name in ax is not its 16 bits.                         *)
Write16(x) ==
  LET s == x.s
      ph == IF s.num THEN High(s) ELSE s.ph
      pl == IF s.num THEN Low(s, 1) ELSE s.pl
      new4 == [Name(s.t) EXCEPT !.p16 = s, !.ph = ph, !.pl = pl]
      merge4 == s.num /\ parts.r32.num
      new8 == [Name(s.t) EXCEPT !.p32 = IF merge4 THEN Null ELSE new4,
                                !.p16 = IF s.num THEN s ELSE s.p16,
                                !.ph = ph, !.pl = pl]
  IN Write("r16", x, IF s.num THEN {"r64", "r32"} ELSE {},
       [r64 |-> IF s.num /\ parts.r64.num THEN PutLow(parts.r64, s, 2, 4) ELSE new8,
        r32 |-> IF merge4 THEN PutLow(parts.r32, s, 2, 3) ELSE new4,
        r16 |-> s, rh |-> ph, rl |-> pl])

(* 8 bits, into names: each gets a new name with the taints of both, which *)
(* remembers the name below the byte writes.                               *)
Base2 == Base(parts.r16, parts.r16.p16)
Base4 == Base(parts.r32, parts.r32.p32)
Base8 == Base(parts.r64, parts.r64.p64)

\* A mutant of Fresh8.
Fresh8Forgets(s, p32, p16, ph, pl) ==
  [Name(s.t) EXCEPT !.p64 = Base8, !.p32 = p32, !.p16 = p16, !.ph = ph, !.pl = pl]
Fresh2(s, ph, pl) ==
  [Name(s.t \cup Base2.t) EXCEPT !.p16 = Base2, !.ph = ph, !.pl = pl]
Fresh4(s, p16, ph, pl) ==
  [Name(s.t \cup Base4.t) EXCEPT !.p32 = Base4, !.p16 = p16, !.ph = ph, !.pl = pl]
Fresh8(s, p32, p16, ph, pl) ==
  [Name(s.t \cup Base8.t) EXCEPT !.p64 = Base8, !.p32 = p32, !.p16 = p16,
                                 !.ph = ph, !.pl = pl]

(* A number: numbers take it in as their second byte, whichever byte was   *)
(* written; a name in ax is left as it is, only the copies of it are new.  *)
PutByte(s, x, w) == PutHigh(s, x, w)

Write8Number(P, x, ph(_), pl(_)) ==
  LET s == x.s
      new2 == IF parts.r16.num THEN Null ELSE Fresh2(s, ph(parts.r16), pl(parts.r16))
      new4 == IF parts.r32.num THEN Null ELSE Fresh4(s, new2, ph(parts.r32), pl(parts.r32))
      new8 == Fresh8(s, new4, new2, ph(parts.r64), pl(parts.r64))
  IN Write(P, x, {"r64", "r32", "r16"},
       [parts EXCEPT ![P] = s,
          !.r16 = IF @.num THEN PutByte(@, s, 2) ELSE @,
          !.r32 = IF @.num THEN PutByte(@, s, 3) ELSE new4,
          !.r64 = IF @.num THEN PutByte(@, s, 4) ELSE new8])

(* A name.  From ah, ax gets a new name, and rax keeps the old ax in it.   *)
Write8Name(P, x, ph(_), pl(_)) ==
  LET s == x.s
      new2 == Fresh2(s, ph(parts.r16), pl(parts.r16))
      new4 == Fresh4(s, new2, ph(parts.r32), pl(parts.r32))
      in8 == IF P = "rh" THEN parts.r16 ELSE new2
  IN Write(P, x, {"r64", "r32", "r16"},
       [parts EXCEPT ![P] = s, !.r16 = new2, !.r32 = new4,
          !.r64 = Fresh8(s, new4, in8, ph(parts.r64), pl(parts.r64))])

(* A product or shifted byte written to ah sets a mark in the name of eax  *)
(* before that name exists.                                                *)
MarkBeforeName(x) ==
  /\ ~crashed /\ writes < MaxWrites[reg] /\ x.s.mul
  /\ crashed' = TRUE /\ writes' = writes + 1
  /\ UNCHANGED <<reg, parts, mem, val, bent, due, trust>>

Write8High(x) ==
  LET ph(old) == x.s
      pl(old) == old.pl
  IN IF x.s.num THEN Write8Number("rh", x, ph, pl)
     ELSE IF x.s.mul THEN MarkBeforeName(x)
     ELSE Write8Name("rh", x, ph, pl)

Write8Low(x) ==
  LET ph(old) == old.ph
      pl(old) == x.s
  IN IF x.s.num THEN Write8Number("rl", x, ph, pl) ELSE Write8Name("rl", x, ph, pl)

---------------------------------------------------------------------------
(* The cases of set_target_symbol, one for each name of a register.        *)
SetRAX(x) == reg = "rax" /\ Write64(x)
SetRCX(x) == reg = "rcx" /\ Write64(x)
SetRDX(x) == reg = "rdx" /\ Write64(x)
SetRBX(x) == reg = "rbx" /\ Write64(x)
SetRSI(x) == reg = "rsi" /\ Write64(x)
SetRDI(x) == reg = "rdi" /\ Write64(x)
SetRSP(x) == reg = "rsp" /\ Write64(x)
SetRBP(x) == reg = "rbp" /\ Write64(x)
SetR8(x) == reg = "r8" /\ Write64(x)
SetR9(x) == reg = "r9" /\ Write64(x)
SetR10(x) == reg = "r10" /\ Write64(x)
SetR11(x) == reg = "r11" /\ Write64(x)
SetR12(x) == reg = "r12" /\ Write64(x)
SetR13(x) == reg = "r13" /\ Write64(x)
SetR14(x) == reg = "r14" /\ Write64(x)
SetR15(x) == reg = "r15" /\ Write64(x)

SetEAX(x) == reg = "rax" /\ Write32(x)
SetECX(x) == reg = "rcx" /\ Write32(x)
SetEDX(x) == reg = "rdx" /\ Write32(x)
SetEBX(x) == reg = "rbx" /\ Write32(x)
SetESI(x) == reg = "rsi" /\ Write32(x)
SetEDI(x) == reg = "rdi" /\ Write32Keep(x)
SetEBP(x) == reg = "rbp" /\ Write32(x)
SetESP(x) == reg = "rsp" /\ Write32(x)
SetR8D(x) == reg = "r8" /\ Write32(x)
SetR9D(x) == reg = "r9" /\ Write32(x)
SetR10D(x) == reg = "r10" /\ Write32(x)
SetR11D(x) == reg = "r11" /\ Write32(x)
SetR12D(x) == reg = "r12" /\ Write32(x)
SetR13D(x) == reg = "r13" /\ Write32(x)
SetR14D(x) == reg = "r14" /\ Write32(x)
SetR15D(x) == reg = "r15" /\ Write32(x)

SetAX(x) == reg = "rax" /\ Write16(x)
SetCX(x) == reg = "rcx" /\ Write16(x)
SetDX(x) == reg = "rdx" /\ Write16(x)
SetBX(x) == reg = "rbx" /\ Write16(x)
SetSI(x) == reg = "rsi" /\ Write16(x)
SetDI(x) == reg = "rdi" /\ Write16(x)
SetSP(x) == reg = "rsp" /\ Write16(x)
SetBP(x) == reg = "rbp" /\ Write16(x)
SetR8W(x) == reg = "r8" /\ Write16(x)
SetR9W(x) == reg = "r9" /\ Write16(x)
SetR10W(x) == reg = "r10" /\ Write16(x)
SetR11W(x) == reg = "r11" /\ Write16(x)
SetR12W(x) == reg = "r12" /\ Write16(x)
SetR13W(x) == reg = "r13" /\ Write16(x)
SetR14W(x) == reg = "r14" /\ Write16(x)
SetR15W(x) == reg = "r15" /\ Write16(x)

SetAH(x) == reg = "rax" /\ Write8High(x)
SetCH(x) == reg = "rcx" /\ Write8High(x)
SetDH(x) == reg = "rdx" /\ Write8High(x)
SetBH(x) == reg = "rbx" /\ Write8High(x)

SetAL(x) == reg = "rax" /\ Write8Low(x)
SetCL(x) == reg = "rcx" /\ Write8Low(x)
SetDL(x) == reg = "rdx" /\ Write8Low(x)
SetBL(x) == reg = "rbx" /\ Write8Low(x)
SetSIL(x) == reg = "rsi" /\ Write8Low(x)
SetDIL(x) == reg = "rdi" /\ Write8Low(x)
SetSPL(x) == reg = "rsp" /\ Write8Low(x)
SetBPL(x) == reg = "rbp" /\ Write8Low(x)
SetR8B(x) == reg = "r8" /\ Write8Low(x)
SetR9B(x) == reg = "r9" /\ Write8Low(x)
SetR10B(x) == reg = "r10" /\ Write8Low(x)
SetR11B(x) == reg = "r11" /\ Write8Low(x)
SetR12B(x) == reg = "r12" /\ Write8Low(x)
SetR13B(x) == reg = "r13" /\ Write8Low(x)
SetR14B(x) == reg = "r14" /\ Write8Low(x)
SetR15B(x) == reg = "r15" /\ Write8Low(x)

(* An instruction that writes a register.                                  *)
Set64 ==
  \E x \in Sources(4) :
     \/ SetRAX(x) \/ SetRCX(x) \/ SetRDX(x) \/ SetRBX(x) \/ SetRSI(x) \/ SetRDI(x)
     \/ SetRSP(x) \/ SetRBP(x) \/ SetR8(x) \/ SetR9(x) \/ SetR10(x) \/ SetR11(x)
     \/ SetR12(x) \/ SetR13(x) \/ SetR14(x) \/ SetR15(x)
Set32 ==
  \E x \in Sources(3) :
     \/ SetEAX(x) \/ SetECX(x) \/ SetEDX(x) \/ SetEBX(x) \/ SetESI(x) \/ SetEDI(x)
     \/ SetEBP(x) \/ SetESP(x) \/ SetR8D(x) \/ SetR9D(x) \/ SetR10D(x) \/ SetR11D(x)
     \/ SetR12D(x) \/ SetR13D(x) \/ SetR14D(x) \/ SetR15D(x)
Set16 ==
  \E x \in Sources(2) :
     \/ SetAX(x) \/ SetCX(x) \/ SetDX(x) \/ SetBX(x) \/ SetSI(x) \/ SetDI(x)
     \/ SetSP(x) \/ SetBP(x) \/ SetR8W(x) \/ SetR9W(x) \/ SetR10W(x) \/ SetR11W(x)
     \/ SetR12W(x) \/ SetR13W(x) \/ SetR14W(x) \/ SetR15W(x)
SetHigh ==
  \E x \in Sources(1) :
     \/ SetAH(x) \/ SetCH(x) \/ SetDH(x) \/ SetBH(x)
Set8 ==
  \E x \in Sources(1) :
     \/ SetAL(x) \/ SetCL(x) \/ SetDL(x) \/ SetBL(x) \/ SetSIL(x) \/ SetDIL(x)
     \/ SetSPL(x) \/ SetBPL(x) \/ SetR8B(x) \/ SetR9B(x) \/ SetR10B(x) \/ SetR11B(x)
     \/ SetR12B(x) \/ SetR13B(x) \/ SetR14B(x) \/ SetR15B(x)

(* A register as an operand: for an entry that is null analyze_operator    *)
(* makes up an untainted name.                                             *)
Operand(P) == IF parts[P] = Null THEN Whole({})[Width[P]] ELSE parts[P]

(* The case of any place that is not a register, with a part of the        *)
(* register as the source.  A number in memory is taken at its word.       *)
SetMemory(P) ==
  LET s == Operand(P)
  IN /\ ~crashed /\ writes < MaxWrites[reg]
     /\ writes' = writes + 1
     /\ parts' = [parts EXCEPT ![P] = s]
     /\ mem' = {[s |-> s,
                 d |-> [i \in 1 .. Width[P] |->
                         IF s.num THEN s.n[i] ELSE val[IF P = "rh" THEN 2 ELSE i]],
                 wrong |-> IF s.num THEN Wrong(s) ELSE UNION {bent[Q] : Q \in Below(P)},
                 due |-> IF s.num THEN Only({}) ELSE due[P],
                 trust |-> IF s.num THEN 2 ELSE trust[P]]}
     /\ UNCHANGED <<reg, crashed, val, bent, due, trust>>

SymNext ==
  \/ Set64 \/ Set32 \/ Set16 \/ SetHigh \/ Set8
  \/ \E P \in DOMAIN parts : SetMemory(P)

SymSpec == SymInit /\ [][SymNext]_symVars

---------------------------------------------------------------------------
(* A part that holds a number holds the register's digits, whatever was    *)
(* written to the register and its parts in whatever order - except where  *)
(* the code is known to go wrong: the parts of a number of 2^63 or more,   *)
(* and what is merged with one, are those of the largest signed number; a  *)
(* number written to the low byte is put in the second byte's place; bits  *)
(* 32-63 survive a 32-bit write; and an entry may come from a symbol that  *)
(* has older parts.  A number that is written to a place is right there.   *)
NumbersAreTrue ==
  \A P \in DOMAIN parts :
    trust[P] > 0 /\ parts[P] # Null /\ parts[P].num =>
      \A i \in Digits[P] \ bent[P] : parts[P].n[IF P = "rh" THEN 1 ELSE i] = val[i]

(* A name carries the taints of what was last written to its part or into  *)
(* it, and of the last wide write: this is all that decides whether an     *)
(* address built from it is a leak.  Taints of earlier byte writes are     *)
(* lost, and a null entry loses them all.                                  *)
TaintKept ==
  \A P \in DOMAIN parts :
    trust[P] > 0 /\ parts[P] # Null /\ ~parts[P].num =>
      due[P].wide \cup due[P].last \subseteq parts[P].t

(* An entry is null, so that the next write of a byte follows a null       *)
(* pointer and the next read makes up an untainted name, only after one of *)
(* two things: a symbol came back whose parts were written after it, or an *)
(* instruction made a result without all of its parts (movzx and cbw of a  *)
(* byte to ax, bswap of 64 bits, and with a constant).                     *)
HolesAreKnown ==
  /\ \A P \in DOMAIN parts : parts[P] = Null => trust[P] = 0
  /\ parts.r64 # Null
=============================================================================
