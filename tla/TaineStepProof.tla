--------------------------- MODULE TaineStepProof ---------------------------
(***************************************************************************)
(* The words, masks, bit runs and the heap log of TaineStep implement the  *)
(* places by name of TaineStore, for every size of the simulated stack and *)
(* every program.                                                          *)
(***************************************************************************)
EXTENDS TaineStep, SequenceTheorems, TLAPS

Span(pos, len) == (pos - len) .. (pos - 1)

-----------------------------------------------------------------------------
(***************************************************************************)
(* The maps of the stack.                                                  *)
(***************************************************************************)

\* A byte's place in the map, and back (set_stack_bit's >> 3 and & 7).
LEMMA PlaceOfByte ==
  ASSUME NEW b \in Nat
  PROVE  /\ b \div 8 \in Nat /\ b % 8 \in 0 .. 7 /\ b = 8 * (b \div 8) + (b % 8)
OBVIOUS

\* No other byte has that place.
LEMMA ByteOfPlace ==
  ASSUME NEW w \in Nat, NEW k \in 0 .. 7
  PROVE  (8 * w + k) \div 8 = w /\ (8 * w + k) % 8 = k
OBVIOUS

\* The bits of set_stack_bit's two words are the len bytes below pos.
LEMMA RunIsSpan ==
  ASSUME NEW pos \in Nat, NEW len \in 1 .. 8, pos >= 8, NEW b \in Nat
  PROVE  b % 8 \in RunBits(pos, len, b \div 8) <=> b \in Span(pos, len)
<1> DEFINE o == pos - len
           f == o \div 8
           n == o % 8
           w == b \div 8
           k == b % 8
<1>1. o \in Nat /\ f \in Nat /\ n \in 0 .. 7 /\ o = 8 * f + n
  BY PlaceOfByte
<1>2. w \in Nat /\ k \in 0 .. 7 /\ b = 8 * w + k
  BY PlaceOfByte
<1>3. RunBits(pos, len, w) =
        IF 8 - n < len
        THEN IF w = f THEN Shifted(8 - n, n)
             ELSE IF w = f + 1 THEN Low(len + n - 8) ELSE {}
        ELSE IF w = f THEN Shifted(len, n) ELSE {}
  BY <1>1, <1>2 DEF RunBits, Crosses, First, Inline
<1>4. b \in Span(pos, len) <=> o <= b /\ b < o + len
  BY <1>1 DEF Span
<1> HIDE DEF o, f, n, w, k
<1>5. k \in RunBits(pos, len, w) <=>
        IF 8 - n < len
        THEN \/ w = f /\ k >= n /\ k - n < 8 - n
             \/ w = f + 1 /\ k < len + n - 8
        ELSE w = f /\ k >= n /\ k - n < len
  BY <1>1, <1>2, <1>3 DEF Shifted, Low
<1>6. (o <= b /\ b < o + len) <=>
        IF 8 - n < len
        THEN \/ w = f /\ k >= n /\ k - n < 8 - n
             \/ w = f + 1 /\ k < len + n - 8
        ELSE w = f /\ k >= n /\ k - n < len
  BY <1>1, <1>2
<1>7. QED
  BY <1>4, <1>5, <1>6 DEF w, k

LEMMA MapWord ==
  ASSUME NEW b \in Bytes
  PROVE  b \div 8 \in Words /\ b \in Nat
<1>1. Half \in Nat /\ Half % 8 = 0  BY TaineStepAssumption
<1>2. b \in Nat /\ b < 2 * Half  BY <1>1 DEF Bytes
<1>3. b \div 8 \in Nat /\ b % 8 \in 0 .. 7 /\ b = 8 * (b \div 8) + (b % 8)
  BY <1>2, PlaceOfByte
<1>4. Half = 8 * (Half \div 8) /\ Half \div 8 \in Nat /\ Half \div 4 = 2 * (Half \div 8)
  BY <1>1
<1> QED  BY <1>2, <1>3, <1>4 DEF Words

\* A place is a word of the map and a bit of it.
LEMMA WordByte ==
  ASSUME NEW w \in Words, NEW k \in 0 .. 7
  PROVE  /\ 8 * w + k \in Bytes /\ w \in Nat
         /\ (8 * w + k) \div 8 = w /\ (8 * w + k) % 8 = k
<1>1. Half \in Nat /\ Half % 8 = 0  BY TaineStepAssumption
<1>4. Half = 8 * (Half \div 8) /\ Half \div 8 \in Nat /\ Half \div 4 = 2 * (Half \div 8)
  BY <1>1
<1>2. w \in Nat /\ w < 2 * (Half \div 8)  BY <1>4 DEF Words
<1> QED  BY <1>2, <1>4, ByteOfPlace DEF Bytes

LEMMA RunIsBits ==
  ASSUME NEW pos \in 8 .. 2 * Half, NEW len \in 1 .. 8, NEW w
  PROVE  RunBits(pos, len, w) \subseteq 0 .. 7
<1>1. Half \in Nat  BY TaineStepAssumption
<1>2. pos - len \in Nat  BY <1>1
<1>3. (pos - len) % 8 \in 0 .. 7  BY <1>2
<1>4. Inline(pos, len) \in 0 .. 7  BY <1>3 DEF Inline
<1>5. Low(len + Inline(pos, len) - 8) \subseteq 0 .. 7  BY <1>4 DEF Low
<1>6. \A n, by : Shifted(n, by) \subseteq 0 .. 7  BY DEF Shifted
<1>7. CASE Crosses(pos, len)  BY <1>5, <1>6, <1>7 DEF RunBits
<1>8. CASE ~Crosses(pos, len)  BY <1>6, <1>8 DEF RunBits
<1> QED  BY <1>7, <1>8

\* set_stack_bit, unset_stack_bit and get_stack_bit are the union with, the
\* difference from and the test against the operand's bytes.
LEMMA MapOps ==
  ASSUME NEW map \in Maps, NEW pos \in 8 .. 2 * Half, NEW len \in 1 .. 8
  PROVE  /\ SetBits(map, pos, len) \in Maps
         /\ UnsetBits(map, pos, len) \in Maps
         /\ InMap(SetBits(map, pos, len)) = InMap(map) \cup Span(pos, len)
         /\ InMap(UnsetBits(map, pos, len)) = InMap(map) \ Span(pos, len)
         /\ GetBits(map, pos, len) <=> Span(pos, len) \cap InMap(map) # {}
<1>1. Half \in Nat  BY TaineStepAssumption
<1>2. pos \in Nat /\ pos >= 8  BY <1>1
<1>3. Span(pos, len) \subseteq Bytes  BY <1>1 DEF Span, Bytes
<1>4. \A w \in Words : map[w] \subseteq 0 .. 7  BY DEF Maps
<1>5. \A w : RunBits(pos, len, w) \subseteq 0 .. 7  BY RunIsBits
<1>6. \A b \in Bytes : /\ b \div 8 \in Words
                       /\ b % 8 \in RunBits(pos, len, b \div 8) <=> b \in Span(pos, len)
  BY <1>2, MapWord, RunIsSpan
<1>7. SetBits(map, pos, len) \in Maps  BY <1>4, <1>5 DEF SetBits, Maps
<1>8. UnsetBits(map, pos, len) \in Maps  BY <1>4 DEF UnsetBits, Maps
<1>9. InMap(SetBits(map, pos, len)) = InMap(map) \cup Span(pos, len)
  BY <1>3, <1>6 DEF InMap, SetBits
<1>10. InMap(UnsetBits(map, pos, len)) = InMap(map) \ Span(pos, len)
  BY <1>3, <1>6 DEF InMap, UnsetBits
<1>11. GetBits(map, pos, len) <=> Span(pos, len) \cap InMap(map) # {}
  <2>1. ASSUME NEW w \in Words, NEW k \in map[w], k \in RunBits(pos, len, w)
        PROVE  8 * w + k \in Span(pos, len) \cap InMap(map)
    <3>1. k \in 0 .. 7  BY <1>4, <2>1
    <3>2. /\ 8 * w + k \in Bytes
          /\ (8 * w + k) \div 8 = w /\ (8 * w + k) % 8 = k
      BY <3>1, WordByte
    <3> QED  BY <2>1, <3>2, <1>6 DEF InMap
  <2>2. ASSUME NEW b \in Span(pos, len) \cap InMap(map)
        PROVE  /\ b \div 8 \in Words
               /\ b % 8 \in map[b \div 8] \cap RunBits(pos, len, b \div 8)
    BY <1>6, <2>2 DEF InMap
  <2> QED  BY <2>1, <2>2 DEF GetBits
<1> QED  BY <1>7, <1>8, <1>9, <1>10, <1>11

-----------------------------------------------------------------------------
(***************************************************************************)
(* The words of the registers.                                             *)
(***************************************************************************)
Named == Regs \ {"rcx"}

LEMMA MaskOf ==
  /\ Mask["rax"] = 0 .. 3 /\ Mask["rcx"] = 4 .. 7
  /\ Mask["rdx"] = 8 .. 11 /\ Mask["rbx"] = 12 .. 15
  /\ Mask["rsp"] = {4} /\ Mask["rbp"] = {5} /\ Mask["rsi"] = {6} /\ Mask["rdi"] = {7}
  /\ Mask["r8"] = {24} /\ Mask["r9"] = {25} /\ Mask["r10"] = {26} /\ Mask["r11"] = {27}
  /\ Mask["r12"] = {28} /\ Mask["r13"] = {29} /\ Mask["r14"] = {30} /\ Mask["r15"] = {31}
BY DEF Mask

\* Named registers share no bit, and rcx is the bits of the four.
LEMMA MaskFacts ==
  /\ \A r \in Regs : Mask[r] \subseteq 0 .. 31 /\ Mask[r] # {}
  /\ \A r \in Named : Mask[r] # {} /\ Store!NamesOf(r) = {r}
  /\ \A r, q \in Named : r # q => Mask[r] \cap Mask[q] = {}
  /\ Mask["rcx"] = UNION {Mask[q] : q \in Store!NamesOf("rcx")}
  /\ Store!NamesOf("rcx") \subseteq Named
  /\ Store!Names = Named
<1>1. \A r \in Regs : Mask[r] \subseteq 0 .. 31 /\ Mask[r] # {}
  BY MaskOf DEF Regs
<1>2. \A r, q \in Named : r # q => Mask[r] \cap Mask[q] = {}
  <2> TAKE r, q \in Named
  <2>1. r \in {"rax", "rdx", "rbx"} \/ \E b \in {4, 5, 6, 7, 24, 25, 26, 27, 28, 29, 30, 31} : Mask[r] = {b}
    BY MaskOf DEF Named, Regs
  <2> QED  BY MaskOf DEF Named, Regs
<1>3. \A r \in Named : Store!NamesOf(r) = {r}
  BY DEF Store!NamesOf, Named
<1>4. Store!NamesOf("rcx") = {"rsp", "rbp", "rsi", "rdi"}
  BY DEF Store!NamesOf
<1>5. Mask["rcx"] = UNION {Mask[q] : q \in {"rsp", "rbp", "rsi", "rdi"}}
  BY MaskOf
<1>6. Store!Names = Named
  BY DEF Store!Names, Named, Regs
<1>7. {"rsp", "rbp", "rsi", "rdi"} \subseteq Named
  BY DEF Named, Regs
<1> QED  BY <1>1, <1>2, <1>3, <1>4, <1>5, <1>6, <1>7 DEF Named

ByReg(w) == {r \in Regs \ {"rcx"} : GetRegister(w, r)}

\* get_register_taine_by_num finds a mark exactly when a name of the register
\* is marked.
LEMMA RegisterRead ==
  ASSUME NEW w \in SUBSET (0 .. 31), NEW r \in Regs
  PROVE  GetRegister(w, r) <=> Store!NamesOf(r) \cap ByReg(w) # {}
<1>1. CASE r = "rcx"
  BY <1>1, MaskFacts DEF GetRegister, ByReg, Named
<1>2. CASE r # "rcx"
  BY <1>2, MaskFacts DEF GetRegister, ByReg, Named
<1> QED  BY <1>1, <1>2

\* set_ and unset_register_taine_by_num mark and clear the register's names.
LEMMA RegisterWrite ==
  ASSUME NEW w \in SUBSET (0 .. 31), NEW r \in Regs, NEW c \in BOOLEAN
  PROVE  /\ SetRegister(w, r, c) \in SUBSET (0 .. 31)
         /\ ByReg(SetRegister(w, r, c)) = Store!AddIf(c, ByReg(w), Store!NamesOf(r))
<1>1. SetRegister(w, r, c) \in SUBSET (0 .. 31)
  BY MaskFacts DEF SetRegister
<1>2. \A q \in Named : Mask[q] \cap Mask[r] # {} <=> q \in Store!NamesOf(r)
  <2>1. CASE r = "rcx"
    <3>1. \A q \in Named : q \in Store!NamesOf(r) => Mask[q] \subseteq Mask[r] /\ Mask[q] # {}
      BY <2>1, MaskFacts
    <3>2. \A q \in Named : Mask[q] \cap Mask[r] # {} => q \in Store!NamesOf(r)
      BY <2>1, MaskFacts
    <3> QED  BY <3>1, <3>2
  <2>2. CASE r # "rcx"
    BY <2>2, MaskFacts DEF Named
  <2> QED  BY <2>1, <2>2
<1>3. \A q \in Named : q \in Store!NamesOf(r) => Mask[q] \subseteq Mask[r]
  BY MaskFacts DEF Named
<1>4. \A q \in Named : Mask[q] # {}
  BY MaskFacts
<1>7. Store!NamesOf(r) \subseteq Named
  BY MaskFacts DEF Named
<1>5. CASE c
  <2>1. \A q \in Named :
          (w \cup Mask[r]) \cap Mask[q] # {}
            <=> w \cap Mask[q] # {} \/ q \in Store!NamesOf(r)
    BY <1>2
  <2>2. ByReg(w \cup Mask[r]) = ByReg(w) \cup Store!NamesOf(r)
    BY <1>7, <2>1 DEF ByReg, GetRegister, Named
  <2> QED  BY <1>1, <1>5, <2>2 DEF SetRegister, Store!AddIf
<1>6. CASE ~c
  BY <1>2, <1>3, <1>4, <1>6 DEF SetRegister, ByReg, GetRegister, Store!AddIf, Named
<1> QED  BY <1>1, <1>5, <1>6

-----------------------------------------------------------------------------
(***************************************************************************)
(* The heap log.                                                           *)
(***************************************************************************)
Entries == [at : HeapAddrs, taint : BOOLEAN, unsure : BOOLEAN]

\* An appended entry adds its mark unless an entry before it hides it.
LEMMA HeapWrite ==
  ASSUME NEW heap \in Seq(Entries), NEW e \in Entries, NEW a \in HeapAddrs
  PROVE  /\ Append(heap, e) \in Seq(Entries)
         /\ HeapTaint(Append(heap, e), a)
              <=> HeapTaint(heap, a) \/ (e.at = a /\ e.taint /\ ~HeapShut(heap, a))
         /\ HeapShut(Append(heap, e), a)
              <=> HeapShut(heap, a) \/ (e.at = a /\ e.unsure)
<1> DEFINE n == Len(heap)
           new == Append(heap, e)
<1>1. /\ n \in Nat /\ Len(new) = n + 1 /\ new \in Seq(Entries)
      /\ \A k \in 1 .. n : new[k] = heap[k]
      /\ new[n + 1] = e
  OBVIOUS
<1> HIDE DEF n, new
<1>2. HeapShut(new, a) <=> HeapShut(heap, a) \/ (e.at = a /\ e.unsure)
  BY <1>1 DEF HeapShut, n
<1>3. HeapTaint(new, a) => HeapTaint(heap, a) \/ (e.at = a /\ e.taint /\ ~HeapShut(heap, a))
  <2> SUFFICES ASSUME NEW k \in 1 .. n + 1, new[k].at = a, new[k].taint,
                      \A x \in 1 .. k - 1 : new[x].at = a => ~new[x].unsure
               PROVE  HeapTaint(heap, a) \/ (e.at = a /\ e.taint /\ ~HeapShut(heap, a))
    BY <1>1 DEF HeapTaint
  <2>1. CASE k = n + 1
    <3>1. ~HeapShut(heap, a)  BY <1>1, <2>1 DEF HeapShut, n
    <3> QED  BY <1>1, <2>1, <3>1
  <2>2. CASE k \in 1 .. n
    <3>1. \A x \in 1 .. k - 1 : x \in 1 .. n  BY <1>1, <2>2
    <3> QED  BY <1>1, <2>2, <3>1 DEF HeapTaint, n
  <2> QED  BY <1>1, <2>1, <2>2
<1>4. HeapTaint(heap, a) => HeapTaint(new, a)
  <2> SUFFICES ASSUME NEW k \in 1 .. n, heap[k].at = a, heap[k].taint,
                      \A x \in 1 .. k - 1 : heap[x].at = a => ~heap[x].unsure
               PROVE  HeapTaint(new, a)
    BY DEF HeapTaint, n
  <2>1. \A x \in 1 .. k - 1 : x \in 1 .. n  BY <1>1
  <2>2. k \in 1 .. n + 1  BY <1>1
  <2> QED  BY <1>1, <2>1, <2>2 DEF HeapTaint
<1>5. ASSUME e.at = a, e.taint, ~HeapShut(heap, a)
      PROVE  HeapTaint(new, a)
  <2>1. n + 1 \in 1 .. Len(new) /\ new[n + 1] = e  BY <1>1
  <2>2. \A x \in 1 .. (n + 1) - 1 : new[x].at = a => ~new[x].unsure
    BY <1>1, <1>5 DEF HeapShut, n
  <2> QED  BY <1>5, <2>1, <2>2 DEF HeapTaint
<1> QED  BY <1>1, <1>2, <1>3, <1>4, <1>5 DEF new

-----------------------------------------------------------------------------
(***************************************************************************)
(* Operands.                                                               *)
(***************************************************************************)
Shape == [regs : SUBSET (0 .. 31), set : Maps, taines : Maps, unsure : Maps,
          heap : Seq(Entries), rflags : SUBSET Flags, rflags_unsure : SUBSET Flags]

\* exec_cwd_and looks at less than the whole of rax: no instruction marks only
\* the part that it does not look at.
RaxWhole(w) == w \cap (0 .. 3) # {} => {0, 1} \subseteq w

Good(x) == x \in Shape /\ RaxWhole(x.regs)

LEMMA OperandKinds ==
  ASSUME NEW o \in Operands
  PROVE  \/ o.kind = "reg" /\ o.r \in Regs
         \/ o.kind \in {"imm", "none"}
         \/ /\ o.kind = "stack" /\ o.at \in 8 .. 2 * Half /\ o.len \in 1 .. 8
            /\ o.via \in SUBSET Regs
         \/ o.kind = "heap" /\ o.at \in HeapAddrs /\ o.via \in SUBSET Regs
BY DEF Operands

LEMMA ByNameFields ==
  ASSUME NEW x
  PROVE  /\ ByName(x).regs = ByReg(x.regs)
         /\ ByName(x).bytes = InMap(x.taines)
         /\ ByName(x).written = InMap(x.set)
         /\ ByName(x).vague = InMap(x.unsure)
         /\ ByName(x).hot = {a \in HeapAddrs : HeapTaint(x.heap, a)}
         /\ ByName(x).shut = {a \in HeapAddrs : HeapShut(x.heap, a)}
         /\ ByName(x).ftaint = x.rflags
         /\ ByName(x).funsure = x.rflags_unsure
BY DEF ByName, ByReg

LEMMA AddressRead ==
  ASSUME NEW x \in Shape, NEW o, o.via \in SUBSET Regs
  PROVE  TaintedAddress(x, o) <=> Store!HotAddress(ByName(x), o)
<1>1. x.regs \in SUBSET (0 .. 31)  BY DEF Shape
<1>2. \A r \in o.via : GetRegister(x.regs, r) <=> Store!NamesOf(r) \cap ByName(x).regs # {}
  BY <1>1, RegisterRead, ByNameFields
<1> QED  BY <1>2 DEF TaintedAddress, Store!HotAddress, Store!HotReg

LEMMA ResultEqual ==
  ASSUME NEW a \in BOOLEAN, NEW b \in BOOLEAN, NEW c \in BOOLEAN, NEW d \in BOOLEAN,
         a <=> c, b <=> d
  PROVE  /\ [taint |-> a, unsure |-> b] = [taint |-> c, unsure |-> d]
         /\ [taint |-> a, unsure |-> b] \in Results
<1>1. a = c /\ b = d  OBVIOUS
<1> QED  BY <1>1 DEF Results

\* analyze_source_operator finds the marks of the operand's places.
LEMMA OperandRead ==
  ASSUME NEW x \in Shape, NEW o \in Operands
  PROVE  /\ AnalyzeSource(x, o) = Store!Look(ByName(x), o)
         /\ AnalyzeSource(x, o) \in Results
<1>1. CASE o.kind = "reg"
  <2>1. x.regs \in SUBSET (0 .. 31) /\ o.r \in Regs  BY <1>1, OperandKinds DEF Shape
  <2>2. GetRegister(x.regs, o.r) <=> Store!HotReg(ByName(x), o.r)
    BY <2>1, RegisterRead, ByNameFields DEF Store!HotReg
  <2>3. GetRegister(x.regs, o.r) \in BOOLEAN /\ Store!HotReg(ByName(x), o.r) \in BOOLEAN
    BY DEF GetRegister, Store!HotReg
  <2> DEFINE a == GetRegister(x.regs, o.r)
             b == Store!HotReg(ByName(x), o.r)
  <2>4. AnalyzeSource(x, o) = [taint |-> a, unsure |-> FALSE]
    BY <1>1 DEF AnalyzeSource
  <2>5. Store!Look(ByName(x), o) = [taint |-> b, unsure |-> FALSE]
    BY <1>1 DEF Store!Look
  <2>6. a \in BOOLEAN /\ b \in BOOLEAN /\ (a <=> b)  BY <2>2, <2>3
  <2> HIDE DEF a, b
  <2> QED  BY <2>4, <2>5, <2>6, ResultEqual
<1>2. CASE o.kind \in {"imm", "none"}
  BY <1>2 DEF AnalyzeSource, Store!Look, Nothing, Store!Clean, Results
<1>3. CASE o.kind = "stack"
  <2>1. /\ o.at \in 8 .. 2 * Half /\ o.len \in 1 .. 8 /\ o.via \in SUBSET Regs
        /\ x.set \in Maps /\ x.taines \in Maps /\ x.unsure \in Maps
    BY <1>3, OperandKinds DEF Shape
  <2>2. Span(o.at, o.len) = Store!Span(o)  BY DEF Span, Store!Span
  <2>7. \A map \in Maps :
          GetBits(map, o.at, o.len) <=> Store!Span(o) \cap InMap(map) # {}
    <3> TAKE map \in Maps
    <3>1. GetBits(map, o.at, o.len) <=> Span(o.at, o.len) \cap InMap(map) # {}
      <4>1. o.at \in 8 .. 2 * Half /\ o.len \in 1 .. 8  BY <2>1
      <4> QED  BY ONLY <4>1, MapOps, map \in Maps
    <3> QED  BY <2>2, <3>1
  <2> DEFINE S == Store!Span(o)
             B == ByName(x)
  <2>3. /\ GetBits(x.set, o.at, o.len) <=> S \cap B.written # {}
        /\ GetBits(x.taines, o.at, o.len) <=> S \cap B.bytes # {}
        /\ GetBits(x.unsure, o.at, o.len) <=> S \cap B.vague # {}
    BY <2>1, <2>7, ByNameFields
  <2>4. TaintedAddress(x, o) <=> Store!HotAddress(B, o)
    BY <2>1, AddressRead
  <2>5. AnalyzeStack(x, o) = Store!ReadStack(B, o) /\ AnalyzeStack(x, o) \in Results
    <3>1. /\ GetBits(x.set, o.at, o.len) \in BOOLEAN
          /\ GetBits(x.taines, o.at, o.len) \in BOOLEAN
          /\ GetBits(x.unsure, o.at, o.len) \in BOOLEAN
          /\ TaintedAddress(x, o) \in BOOLEAN /\ Store!HotAddress(B, o) \in BOOLEAN
      BY DEF GetBits, TaintedAddress, Store!HotAddress
    <3> HIDE DEF S, B
    <3>2. CASE GetBits(x.set, o.at, o.len)
      <4>1. AnalyzeStack(x, o)
              = [taint |-> TaintedAddress(x, o) \/ GetBits(x.taines, o.at, o.len),
                 unsure |-> GetBits(x.unsure, o.at, o.len)]
        BY <3>2 DEF AnalyzeStack
      <4>2. Store!ReadStack(B, o)
              = [taint |-> Store!HotAddress(B, o) \/ S \cap B.bytes # {},
                 unsure |-> S \cap B.vague # {}]
        BY <3>2, <2>3 DEF Store!ReadStack, S
      <4>3. (TaintedAddress(x, o) \/ GetBits(x.taines, o.at, o.len))
              <=> (Store!HotAddress(B, o) \/ S \cap B.bytes # {})
        BY <2>3, <2>4
      <4> QED  BY <4>1, <4>2, <4>3, <2>3, <3>1, ResultEqual DEF Results
    <3>3. CASE ~GetBits(x.set, o.at, o.len)
      BY <3>3, <2>3 DEF AnalyzeStack, Store!ReadStack, S, Results
    <3> QED  BY <3>2, <3>3
  <2> QED  BY <1>3, <2>5 DEF AnalyzeSource, Store!Look
<1>4. CASE o.kind = "heap"
  <2>1. o.at \in HeapAddrs /\ o.via \in SUBSET Regs  BY <1>4, OperandKinds
  <2>2. TaintedAddress(x, o) <=> Store!HotAddress(ByName(x), o)
    BY <2>1, AddressRead
  <2>3. HeapTaint(x.heap, o.at) <=> o.at \in ByName(x).hot
    BY <2>1, ByNameFields
  <2>4. /\ TaintedAddress(x, o) \in BOOLEAN /\ Store!HotAddress(ByName(x), o) \in BOOLEAN
        /\ HeapTaint(x.heap, o.at) \in BOOLEAN
    BY DEF TaintedAddress, Store!HotAddress, HeapTaint
  <2> DEFINE a == TaintedAddress(x, o) \/ HeapTaint(x.heap, o.at)
             b == Store!HotAddress(ByName(x), o) \/ o.at \in ByName(x).hot
  <2>5. AnalyzeSource(x, o) = [taint |-> a, unsure |-> TRUE]
    BY <1>4 DEF AnalyzeSource, AnalyzeHeap
  <2>6. Store!Look(ByName(x), o) = [taint |-> b, unsure |-> TRUE]
    BY <1>4 DEF Store!Look, Store!ReadHeap
  <2>7. a \in BOOLEAN /\ b \in BOOLEAN /\ (a <=> b)  BY <2>2, <2>3, <2>4
  <2> HIDE DEF a, b
  <2> QED  BY <2>5, <2>6, <2>7, ResultEqual
<1> QED  BY <1>1, <1>2, <1>3, <1>4, OperandKinds

-----------------------------------------------------------------------------
(***************************************************************************)
(* Writes.  ByName takes a structure field by field.                       *)
(***************************************************************************)
StateFields(regs, bytes, written, vague, hot, shut, ftaint, funsure) ==
  [regs |-> regs, bytes |-> bytes, written |-> written, vague |-> vague,
   hot |-> hot, shut |-> shut, ftaint |-> ftaint, funsure |-> funsure]

\* A structure, and the state it stands for, with some fields written.
PutRegs(x, a) == [x EXCEPT !.regs = a]
PutMaps(x, a, b, c) == [x EXCEPT !.set = a, !.taines = b, !.unsure = c]
PutHeap(x, a) == [x EXCEPT !.heap = a]
PutBoth(x, a, b) == [x EXCEPT !.rflags = a, !.rflags_unsure = b]

NamesPut(s0, a) == [s0 EXCEPT !.regs = a]
BytesPut(s0, a, b, c) == [s0 EXCEPT !.written = a, !.bytes = b, !.vague = c]
HeapPut(s0, a, b) == [s0 EXCEPT !.hot = a, !.shut = b]
FlagsPut(s0, a, b) == [s0 EXCEPT !.ftaint = a, !.funsure = b]

Hot(heap) == {h \in HeapAddrs : HeapTaint(heap, h)}
Shut(heap) == {h \in HeapAddrs : HeapShut(heap, h)}

LEMMA NamesPutIs ==
  ASSUME NEW r, NEW y, NEW w, NEW v, NEW h, NEW u, NEW f, NEW g, NEW a
  PROVE  NamesPut(StateFields(r, y, w, v, h, u, f, g), a) = StateFields(a, y, w, v, h, u, f, g)
BY DEF StateFields, NamesPut

LEMMA BytesPutIs ==
  ASSUME NEW r, NEW y, NEW w, NEW v, NEW h, NEW u, NEW f, NEW g, NEW a, NEW b, NEW c
  PROVE  BytesPut(StateFields(r, y, w, v, h, u, f, g), a, b, c) = StateFields(r, b, a, c, h, u, f, g)
<1>1. [StateFields(r, y, w, v, h, u, f, g) EXCEPT !.written = a]
        = StateFields(r, y, a, v, h, u, f, g)
  BY DEF StateFields
<1>2. [StateFields(r, y, a, v, h, u, f, g) EXCEPT !.bytes = b]
        = StateFields(r, b, a, v, h, u, f, g)
  BY DEF StateFields
<1>3. [StateFields(r, b, a, v, h, u, f, g) EXCEPT !.vague = c]
        = StateFields(r, b, a, c, h, u, f, g)
  BY DEF StateFields
<1>4. BytesPut(StateFields(r, y, w, v, h, u, f, g), a, b, c)
        = [[[StateFields(r, y, w, v, h, u, f, g) EXCEPT !.written = a] EXCEPT !.bytes = b] EXCEPT !.vague = c]
  BY DEF BytesPut
<1> QED  BY <1>1, <1>2, <1>3, <1>4

LEMMA HeapPutIs ==
  ASSUME NEW r, NEW y, NEW w, NEW v, NEW h, NEW u, NEW f, NEW g, NEW a, NEW b
  PROVE  HeapPut(StateFields(r, y, w, v, h, u, f, g), a, b) = StateFields(r, y, w, v, a, b, f, g)
<1>1. [StateFields(r, y, w, v, h, u, f, g) EXCEPT !.hot = a]
        = StateFields(r, y, w, v, a, u, f, g)
  BY DEF StateFields
<1>2. [StateFields(r, y, w, v, a, u, f, g) EXCEPT !.shut = b]
        = StateFields(r, y, w, v, a, b, f, g)
  BY DEF StateFields
<1>3. HeapPut(StateFields(r, y, w, v, h, u, f, g), a, b)
        = [[StateFields(r, y, w, v, h, u, f, g) EXCEPT !.hot = a] EXCEPT !.shut = b]
  BY DEF HeapPut
<1> QED  BY <1>1, <1>2, <1>3

LEMMA FlagsPutIs ==
  ASSUME NEW r, NEW y, NEW w, NEW v, NEW h, NEW u, NEW f, NEW g, NEW a, NEW b
  PROVE  FlagsPut(StateFields(r, y, w, v, h, u, f, g), a, b) = StateFields(r, y, w, v, h, u, a, b)
<1>1. [StateFields(r, y, w, v, h, u, f, g) EXCEPT !.ftaint = a]
        = StateFields(r, y, w, v, h, u, a, g)
  BY DEF StateFields
<1>2. [StateFields(r, y, w, v, h, u, a, g) EXCEPT !.funsure = b]
        = StateFields(r, y, w, v, h, u, a, b)
  BY DEF StateFields
<1>3. FlagsPut(StateFields(r, y, w, v, h, u, f, g), a, b)
        = [[StateFields(r, y, w, v, h, u, f, g) EXCEPT !.ftaint = a] EXCEPT !.funsure = b]
  BY DEF FlagsPut
<1> QED  BY <1>1, <1>2, <1>3

LEMMA ByNameIs ==
  ASSUME NEW x
  PROVE  ByName(x) =
           StateFields(ByReg(x.regs), InMap(x.taines), InMap(x.set), InMap(x.unsure),
                       Hot(x.heap), Shut(x.heap), x.rflags, x.rflags_unsure)
BY DEF ByName, StateFields, ByReg, Hot, Shut

LEMMA RegsWritten ==
  ASSUME NEW x \in Shape, NEW a
  PROVE  ByName(PutRegs(x, a)) = NamesPut(ByName(x), ByReg(a))
<1> DEFINE y == PutRegs(x, a)
<1>1. /\ y.regs = a /\ y.taines = x.taines /\ y.set = x.set /\ y.unsure = x.unsure
      /\ y.heap = x.heap /\ y.rflags = x.rflags /\ y.rflags_unsure = x.rflags_unsure
  BY DEF Shape, PutRegs
<1> HIDE DEF y
<1>2. ByName(y) =
        StateFields(ByReg(a), InMap(x.taines), InMap(x.set), InMap(x.unsure),
                    Hot(x.heap), Shut(x.heap), x.rflags, x.rflags_unsure)
  BY <1>1, ByNameIs
<1>3. ByName(y) = NamesPut(ByName(x), ByReg(a))
  BY <1>2, ByNameIs, NamesPutIs
<1> QED  BY <1>3 DEF y

LEMMA MapsWritten ==
  ASSUME NEW x \in Shape, NEW a, NEW b, NEW c
  PROVE  ByName(PutMaps(x, a, b, c)) = BytesPut(ByName(x), InMap(a), InMap(b), InMap(c))
<1> DEFINE y == PutMaps(x, a, b, c)
<1>1. /\ y.regs = x.regs /\ y.taines = b /\ y.set = a /\ y.unsure = c
      /\ y.heap = x.heap /\ y.rflags = x.rflags /\ y.rflags_unsure = x.rflags_unsure
  BY DEF Shape, PutMaps
<1> HIDE DEF y
<1>2. ByName(y) =
        StateFields(ByReg(x.regs), InMap(b), InMap(a), InMap(c),
                    Hot(x.heap), Shut(x.heap), x.rflags, x.rflags_unsure)
  BY <1>1, ByNameIs
<1>3. ByName(y) = BytesPut(ByName(x), InMap(a), InMap(b), InMap(c))
  BY <1>2, ByNameIs, BytesPutIs
<1> QED  BY <1>3 DEF y

LEMMA HeapWritten ==
  ASSUME NEW x \in Shape, NEW a
  PROVE  ByName(PutHeap(x, a)) = HeapPut(ByName(x), Hot(a), Shut(a))
<1> DEFINE y == PutHeap(x, a)
<1>1. /\ y.regs = x.regs /\ y.taines = x.taines /\ y.set = x.set /\ y.unsure = x.unsure
      /\ y.heap = a /\ y.rflags = x.rflags /\ y.rflags_unsure = x.rflags_unsure
  BY DEF Shape, PutHeap
<1> HIDE DEF y
<1>2. ByName(y) =
        StateFields(ByReg(x.regs), InMap(x.taines), InMap(x.set), InMap(x.unsure),
                    Hot(a), Shut(a), x.rflags, x.rflags_unsure)
  BY <1>1, ByNameIs
<1>3. ByName(y) = HeapPut(ByName(x), Hot(a), Shut(a))
  BY <1>2, ByNameIs, HeapPutIs
<1> QED  BY <1>3 DEF y

LEMMA FlagsWritten ==
  ASSUME NEW x \in Shape, NEW a, NEW b
  PROVE  ByName(PutBoth(x, a, b)) = FlagsPut(ByName(x), a, b)
<1> DEFINE y == PutBoth(x, a, b)
<1>1. /\ y.regs = x.regs /\ y.taines = x.taines /\ y.set = x.set /\ y.unsure = x.unsure
      /\ y.heap = x.heap /\ y.rflags = a /\ y.rflags_unsure = b
  BY DEF Shape, PutBoth
<1> HIDE DEF y
<1>2. ByName(y) =
        StateFields(ByReg(x.regs), InMap(x.taines), InMap(x.set), InMap(x.unsure),
                    Hot(x.heap), Shut(x.heap), a, b)
  BY <1>1, ByNameIs
<1>3. ByName(y) = FlagsPut(ByName(x), a, b)
  BY <1>2, ByNameIs, FlagsPutIs
<1> QED  BY <1>3 DEF y

LEMMA ByNameShape ==
  ASSUME NEW x \in Shape
  PROVE  ByName(x) \in Store!State
<1>1. ByReg(x.regs) \subseteq Store!Names
  BY MaskFacts DEF ByReg, Named
<1>2. \A map : InMap(map) \subseteq Bytes  BY DEF InMap
<1>3. x.rflags \subseteq Store!Flags /\ x.rflags_unsure \subseteq Store!Flags
  BY DEF Shape, Store!Flags, Flags
<1> QED  BY <1>1, <1>2, <1>3 DEF ByName, ByReg, Store!State

\* No register's mask takes only a part of rax.
LEMMA RaxStays ==
  ASSUME NEW w \in SUBSET (0 .. 31), RaxWhole(w), NEW r \in Regs, NEW c \in BOOLEAN
  PROVE  RaxWhole(SetRegister(w, r, c))
<1>1. Mask[r] = 0 .. 3 \/ Mask[r] \cap (0 .. 3) = {}
  BY MaskOf DEF Regs
<1> QED  BY <1>1 DEF RaxWhole, SetRegister

LEMMA RegisterStored ==
  ASSUME NEW x, Good(x), NEW o \in Operands, o.kind = "reg", NEW res \in Results
  PROVE  /\ Good([x EXCEPT !.regs = SetRegister(@, o.r, res.taint)])
         /\ ByName([x EXCEPT !.regs = SetRegister(@, o.r, res.taint)])
              = Store!StoreReg(ByName(x), o, res)
<1>1. x \in Shape /\ RaxWhole(x.regs) /\ x.regs \in SUBSET (0 .. 31)
  BY DEF Good, Shape
<1>2. o.r \in Regs /\ res.taint \in BOOLEAN  BY OperandKinds DEF Results
<1> DEFINE w == SetRegister(x.regs, o.r, res.taint)
<1>3. /\ w \in SUBSET (0 .. 31) /\ RaxWhole(w)
      /\ ByReg(w) = Store!AddIf(res.taint, ByReg(x.regs), Store!NamesOf(o.r))
  BY <1>1, <1>2, RegisterWrite, RaxStays
<1> HIDE DEF w
<1>4. Good(PutRegs(x, w))  BY <1>1, <1>3 DEF Good, Shape, PutRegs
<1>5. ByName(PutRegs(x, w)) = Store!StoreReg(ByName(x), o, res)
  <2>1. ByName(PutRegs(x, w)) = NamesPut(ByName(x), ByReg(w))
    BY <1>1, RegsWritten
  <2>2. ByName(x).regs = ByReg(x.regs)  BY ByNameFields
  <2> QED  BY <1>3, <2>1, <2>2 DEF Store!StoreReg, NamesPut
<1> QED  BY <1>4, <1>5 DEF w, PutRegs

LEMMA MapPut ==
  ASSUME NEW map \in Maps, NEW d \in BOOLEAN,
         NEW pos \in 8 .. 2 * Half, NEW len \in 1 .. 8
  PROVE  /\ PutBits(d, map, pos, len) \in Maps
         /\ InMap(PutBits(d, map, pos, len)) = Store!AddIf(d, InMap(map), Span(pos, len))
<1>1. CASE d
  BY <1>1, MapOps DEF PutBits, Store!AddIf
<1>2. CASE ~d
  BY <1>2, MapOps DEF PutBits, Store!AddIf
<1> QED  BY <1>1, <1>2

LEMMA StackStored ==
  ASSUME NEW x, Good(x), NEW o \in Operands, o.kind = "stack", NEW res \in Results
  PROVE  /\ Good(SetStack(x, o, res))
         /\ ByName(SetStack(x, o, res)) = Store!StoreStack(ByName(x), o, res)
<1>1. x \in Shape /\ RaxWhole(x.regs)
      /\ x.set \in Maps /\ x.taines \in Maps /\ x.unsure \in Maps
  BY DEF Good, Shape
<1>2. o.at \in 8 .. 2 * Half /\ o.len \in 1 .. 8 /\ o.via \in SUBSET Regs
      /\ res.taint \in BOOLEAN /\ res.unsure \in BOOLEAN
  BY OperandKinds DEF Results
<1> DEFINE hot == res.taint \/ TaintedAddress(x, o)
           a == SetBits(x.set, o.at, o.len)
           b == PutBits(hot, x.taines, o.at, o.len)
           c == PutBits(res.unsure, x.unsure, o.at, o.len)
<1>3. hot \in BOOLEAN /\ (hot <=> res.taint \/ Store!HotAddress(ByName(x), o))
  BY <1>1, <1>2, AddressRead DEF TaintedAddress
<1>4. Span(o.at, o.len) = Store!Span(o)  BY DEF Span, Store!Span
<1>5. a \in Maps /\ InMap(a) = InMap(x.set) \cup Store!Span(o)
  <2>1. PutBits(TRUE, x.set, o.at, o.len) \in Maps
    BY <1>1, <1>2, MapPut
  <2>2. InMap(PutBits(TRUE, x.set, o.at, o.len))
          = Store!AddIf(TRUE, InMap(x.set), Span(o.at, o.len))
    BY <1>1, <1>2, MapPut
  <2> QED  BY <1>4, <2>1, <2>2 DEF PutBits, Store!AddIf
<1>6. ASSUME NEW map \in Maps, NEW d \in BOOLEAN
      PROVE  /\ PutBits(d, map, o.at, o.len) \in Maps
             /\ InMap(PutBits(d, map, o.at, o.len)) = Store!AddIf(d, InMap(map), Store!Span(o))
  BY <1>2, <1>4, MapPut
<1>7. b \in Maps /\ InMap(b) = Store!AddIf(hot, InMap(x.taines), Store!Span(o))
  BY <1>1, <1>3, <1>6
<1>8. c \in Maps /\ InMap(c) = Store!AddIf(res.unsure, InMap(x.unsure), Store!Span(o))
  BY <1>1, <1>2, <1>6
<1>9. SetStack(x, o, res) = PutMaps(x, a, b, c)
  BY <1>1 DEF SetStack, Shape, PutMaps
<1>10. Store!AddIf(hot, InMap(x.taines), Store!Span(o))
         = Store!AddIf(res.taint \/ Store!HotAddress(ByName(x), o), InMap(x.taines), Store!Span(o))
  BY <1>3 DEF Store!AddIf
<1> HIDE DEF hot, a, b, c
<1>11. Good(PutMaps(x, a, b, c))
  BY <1>1, <1>5, <1>7, <1>8 DEF Good, Shape, PutMaps
<1>12. ByName(PutMaps(x, a, b, c)) = BytesPut(ByName(x), InMap(a), InMap(b), InMap(c))
  BY <1>1, MapsWritten
<1>13. /\ ByName(x).written = InMap(x.set) /\ ByName(x).bytes = InMap(x.taines)
       /\ ByName(x).vague = InMap(x.unsure)
  BY ByNameFields
<1>14. BytesPut(ByName(x), InMap(a), InMap(b), InMap(c)) = Store!StoreStack(ByName(x), o, res)
  BY <1>5, <1>7, <1>8, <1>10, <1>13 DEF Store!StoreStack, BytesPut
<1> QED  BY <1>9, <1>11, <1>12, <1>14

\* Store!StoreHeap without EXCEPT.
LEMMA StoreHeapIs ==
  ASSUME NEW g, g.hot \subseteq HeapAddrs, g.shut \subseteq HeapAddrs,
         NEW o, o.at \in HeapAddrs, NEW res, NEW j, NEW H, NEW S,
         o.at \notin g.shut,
         H = IF res.taint \/ Store!HotAddress(g, o) \/ j.taint
             THEN g.hot \cup {o.at} ELSE g.hot,
         S = IF res.unsure \/ j.unsure THEN g.shut \cup {o.at} ELSE g.shut
  PROVE  Store!StoreHeap(g, o, res, j) = HeapPut(g, H, S)
BY DEF Store!StoreHeap, HeapPut

LEMMA HeapStored ==
  ASSUME NEW x, Good(x), NEW o \in Operands, o.kind = "heap", NEW res \in Results,
         NEW j \in Results
  PROVE  /\ Good(SetHeap(x, o, res, j))
         /\ ByName(SetHeap(x, o, res, j)) = Store!StoreHeap(ByName(x), o, res, j)
<1>1. x \in Shape /\ RaxWhole(x.regs) /\ x.heap \in Seq(Entries)
  BY DEF Good, Shape
<1>2. /\ o.at \in HeapAddrs /\ o.via \in SUBSET Regs
      /\ res.taint \in BOOLEAN /\ res.unsure \in BOOLEAN
      /\ j.taint \in BOOLEAN /\ j.unsure \in BOOLEAN
  BY OperandKinds DEF Results
<1> DEFINE et == res.taint \/ TaintedAddress(x, o) \/ j.taint
           eu == res.unsure \/ j.unsure
           e == [at |-> o.at, taint |-> et, unsure |-> eu]
           heap == Append(x.heap, e)
           B == ByName(x)
<1>3. et \in BOOLEAN /\ eu \in BOOLEAN
  BY <1>2 DEF TaintedAddress
<1>4. et <=> res.taint \/ Store!HotAddress(B, o) \/ j.taint
  BY <1>1, <1>2, AddressRead
<1>5. e \in Entries /\ e.at = o.at /\ (e.taint <=> et) /\ (e.unsure <=> eu)
  <2> HIDE DEF et, eu
  <2> QED  BY <1>2, <1>3 DEF Entries
<1>6. SetHeap(x, o, res, j) = PutHeap(x, heap)
  BY <1>1 DEF SetHeap, PutHeap, Shape
<1> HIDE DEF e, et, eu, B
<1>7. /\ heap \in Seq(Entries)
      /\ \A a \in HeapAddrs :
           /\ HeapTaint(heap, a) <=> HeapTaint(x.heap, a) \/ (e.at = a /\ e.taint /\ ~HeapShut(x.heap, a))
           /\ HeapShut(heap, a) <=> HeapShut(x.heap, a) \/ (e.at = a /\ e.unsure)
  BY <1>1, <1>2, <1>5, HeapWrite
<1> HIDE DEF heap
<1>8. Good(PutHeap(x, heap))
  BY <1>1, <1>7 DEF Good, Shape, PutHeap
<1>9. ByName(PutHeap(x, heap)) = HeapPut(B, Hot(heap), Shut(heap))
  BY <1>1, HeapWritten DEF B
<1>10. B.hot = Hot(x.heap) /\ B.shut = Shut(x.heap)
  BY ByNameFields DEF B, Hot, Shut
<1>11. CASE o.at \in B.shut
  <2>1. Hot(heap) = B.hot
    BY <1>5, <1>7, <1>10, <1>11 DEF Hot, Shut
  <2>2. Shut(heap) = B.shut
    BY <1>5, <1>7, <1>10, <1>11 DEF Shut
  <2>3. B = StateFields(ByReg(x.regs), InMap(x.taines), InMap(x.set), InMap(x.unsure),
                        Hot(x.heap), Shut(x.heap), x.rflags, x.rflags_unsure)
    BY ByNameIs DEF B
  <2>4. HeapPut(B, Hot(heap), Shut(heap)) = B
    BY <1>10, <2>1, <2>2, <2>3, HeapPutIs
  <2>5. Store!StoreHeap(B, o, res, j) = B  BY <1>11 DEF Store!StoreHeap
  <2> QED  BY <1>6, <1>8, <1>9, <2>4, <2>5 DEF B
<1>12. CASE o.at \notin B.shut
  <2>1. Hot(heap) = IF res.taint \/ Store!HotAddress(B, o) \/ j.taint
                    THEN B.hot \cup {o.at} ELSE B.hot
    <3>1. CASE et
      BY <1>2, <1>4, <1>5, <1>7, <1>10, <1>12, <3>1 DEF Hot, Shut
    <3>2. CASE ~et
      BY <1>2, <1>4, <1>5, <1>7, <1>10, <1>12, <3>2 DEF Hot, Shut
    <3> QED  BY <3>1, <3>2
  <2>2. Shut(heap) = IF res.unsure \/ j.unsure THEN B.shut \cup {o.at} ELSE B.shut
    <3>1. CASE eu
      BY <1>2, <1>5, <1>7, <1>10, <3>1 DEF Shut, eu
    <3>2. CASE ~eu
      BY <1>2, <1>5, <1>7, <1>10, <3>2 DEF Shut, eu
    <3> QED  BY <3>1, <3>2
  <2>3. B.hot \subseteq HeapAddrs /\ B.shut \subseteq HeapAddrs
    BY <1>10 DEF Hot, Shut
  <2>4. Store!StoreHeap(B, o, res, j) = HeapPut(B, Hot(heap), Shut(heap))
    BY <1>2, <1>12, <2>1, <2>2, <2>3, StoreHeapIs
  <2> QED  BY <1>6, <1>8, <1>9, <2>4 DEF B
<1> QED  BY <1>11, <1>12

\* set_dest_operator marks the operand's places.
LEMMA OperandWrite ==
  ASSUME NEW x, Good(x), NEW o \in Operands, NEW res \in Results, NEW j \in Results
  PROVE  /\ Good(SetDest(x, o, res, j))
         /\ ByName(SetDest(x, o, res, j)) = Store!Store(ByName(x), o, res, j)
<1>1. CASE o.kind = "reg"
  BY <1>1, RegisterStored DEF SetDest, Store!Store
<1>2. CASE o.kind \in {"imm", "none"}
  BY <1>2 DEF SetDest, Store!Store
<1>3. CASE o.kind = "stack"
  BY <1>3, StackStored DEF SetDest, Store!Store
<1>4. CASE o.kind = "heap"
  BY <1>4, HeapStored DEF SetDest, Store!Store
<1> QED  BY <1>1, <1>2, <1>3, <1>4, OperandKinds

-----------------------------------------------------------------------------
(***************************************************************************)
(* Instructions.                                                           *)
(***************************************************************************)

\* The two names for adding up two results, and for a result of nothing.
LEMMA SameResults ==
  ASSUME NEW a \in Results, NEW b \in Results
  PROVE  /\ Both(a, b) = Store!Either(a, b) /\ Both(a, b) \in Results
         /\ Nothing = Store!Clean /\ Nothing \in Results
<1>1. Both(a, b) = Store!Either(a, b)  BY DEF Both, Store!Either
<1>2. Nothing = Store!Clean /\ Nothing \in Results
  BY DEF Nothing, Store!Clean, Results
<1>3. Both(a, b) \in Results  BY DEF Both, Results
<1> QED  BY <1>1, <1>2, <1>3

LEMMA SumRead ==
  ASSUME NEW x, Good(x), NEW i, i.src \in Operands, i.dst \in Operands
  PROVE  /\ Both(AnalyzeSource(x, i.dst), AnalyzeSource(x, i.src)) = Store!Sum(ByName(x), i)
         /\ Both(AnalyzeSource(x, i.dst), AnalyzeSource(x, i.src)) \in Results
<1>1. x \in Shape  BY DEF Good
<1>2. /\ AnalyzeSource(x, i.dst) = Store!Look(ByName(x), i.dst)
      /\ AnalyzeSource(x, i.src) = Store!Look(ByName(x), i.src)
      /\ AnalyzeSource(x, i.dst) \in Results /\ AnalyzeSource(x, i.src) \in Results
  BY <1>1, OperandRead
<1> QED  BY <1>2, SameResults DEF Store!Sum

\* The bits and masks of the flags.
LEMMA MarksSet ==
  ASSUME NEW x, Good(x), NEW fs \in SUBSET Flags, NEW res \in Results
  PROVE  /\ Good(SetMarks(x, fs, res))
         /\ ByName(SetMarks(x, fs, res)) = Store!SetFlags(ByName(x), fs, res)
<1>1. x \in Shape /\ RaxWhole(x.regs) /\ x.rflags \subseteq Flags /\ x.rflags_unsure \subseteq Flags
  BY DEF Good, Shape
<1> DEFINE a == PutFlags(res.taint, x.rflags, fs)
           b == PutFlags(res.unsure, x.rflags_unsure, fs)
<1>2. /\ a = Store!AddIf(res.taint, x.rflags, fs)
      /\ b = Store!AddIf(res.unsure, x.rflags_unsure, fs)
  BY DEF PutFlags, Store!AddIf
<1>3. a \subseteq Flags /\ b \subseteq Flags
  BY <1>1 DEF PutFlags
<1>4. SetMarks(x, fs, res) = PutBoth(x, a, b)
  BY <1>1 DEF SetMarks, PutBoth, Shape
<1> HIDE DEF a, b
<1>5. Good(PutBoth(x, a, b))
  BY <1>1, <1>3 DEF Good, Shape, PutBoth
<1>6. ByName(PutBoth(x, a, b)) = FlagsPut(ByName(x), a, b)
  BY <1>1, FlagsWritten
<1>7. ByName(x).ftaint = x.rflags /\ ByName(x).funsure = x.rflags_unsure
  BY ByNameFields
<1>8. FlagsPut(ByName(x), a, b) = Store!SetFlags(ByName(x), fs, res)
  BY <1>2, <1>7 DEF FlagsPut, Store!SetFlags
<1> QED  BY <1>4, <1>5, <1>6, <1>8

\* exec_cwd_and: what it looks at is the mark of rax, and what it sets makes
\* the mark of rax, or of rdx, found.
LEMMA Widened ==
  ASSUME NEW x, Good(x), NEW op \in {"cdqe", "cdq", "cwde", "cwd", "cqo"}
  PROVE  /\ Good(Widen(x, op))
         /\ ByName(Widen(x, op))
              = Store!Spread(ByName(x), IF op \in {"cdqe", "cwde"} THEN "rax" ELSE "rdx")
<1>1. x \in Shape /\ RaxWhole(x.regs) /\ x.regs \subseteq 0 .. 31
  BY DEF Good, Shape
<1> DEFINE r == IF op \in {"cdqe", "cwde"} THEN "rax" ELSE "rdx"
           from == WidenFrom[op]
           to == WidenTo[op]
           w == x.regs \cup to
<1>2. /\ {0, 1} \subseteq from /\ from \subseteq 0 .. 3
      /\ to # {} /\ to \subseteq Mask[r] /\ to \subseteq 0 .. 31
      /\ to \cap (0 .. 3) # {} => {0, 1} \subseteq to
  BY MaskOf DEF WidenFrom, WidenTo
<1>3. r \in Named /\ "rax" \in Named /\ Mask["rax"] = 0 .. 3
  BY MaskOf DEF Named, Regs
<1> HIDE DEF r, from, to
<1>4. x.regs \cap from # {} <=> GetRegister(x.regs, "rax")
  BY <1>1, <1>2, <1>3 DEF RaxWhole, GetRegister
<1>5. x.regs \cap from # {} <=> Store!HotReg(ByName(x), "rax")
  <2>1. "rax" \in Regs  BY <1>3 DEF Named
  <2>2. GetRegister(x.regs, "rax") <=> Store!NamesOf("rax") \cap ByReg(x.regs) # {}
    BY <1>1, <2>1, RegisterRead
  <2> QED  BY <1>4, <2>2, ByNameFields DEF Store!HotReg
<1>6. CASE x.regs \cap from # {}
  <2>1. Widen(x, op) = PutRegs(x, w)
    BY <1>1, <1>6 DEF Widen, PutRegs, from, to, Shape
  <2>2. w \subseteq 0 .. 31 /\ RaxWhole(w)
    BY <1>1, <1>2 DEF RaxWhole
  <2>3. ByReg(w) = ByReg(x.regs) \cup {r}
    <3>1. \A q \in Named : q # r => to \cap Mask[q] = {}
      BY <1>2, <1>3, MaskFacts
    <3>2. to \cap Mask[r] # {}  BY <1>2
    <3>3. \A q \in Named : w \cap Mask[q] # {} <=> x.regs \cap Mask[q] # {} \/ q = r
      BY <3>1, <3>2
    <3> HIDE DEF w
    <3> QED  BY <1>3, <3>3 DEF ByReg, GetRegister, Named
  <2> HIDE DEF w
  <2>4. Good(PutRegs(x, w))  BY <1>1, <2>2 DEF Good, Shape, PutRegs
  <2>5. ByName(PutRegs(x, w)) = NamesPut(ByName(x), ByReg(w))
    BY <1>1, RegsWritten
  <2>6. ByName(x).regs = ByReg(x.regs)  BY ByNameFields
  <2>7. NamesPut(ByName(x), ByReg(w)) = Store!Spread(ByName(x), r)
    BY <1>5, <1>6, <2>3, <2>6 DEF NamesPut, Store!Spread
  <2> QED  BY <2>1, <2>4, <2>5, <2>7 DEF r
<1>7. CASE x.regs \cap from = {}
  <2>1. Widen(x, op) = x  BY <1>7 DEF Widen, from
  <2>2. Store!Spread(ByName(x), r) = ByName(x)  BY <1>5, <1>7 DEF Store!Spread
  <2> QED  BY <2>1, <2>2 DEF r
<1> QED  BY <1>6, <1>7

LEMMA SetByteSame ==
  ASSUME NEW cc, NEW val, NEW taint, NEW unsure
  PROVE  /\ SetByte(cc, val, taint, unsure) \in Results
         /\ SetByte(cc, val, taint, unsure) = Store!SetByte(cc, val, taint, unsure)
<1>1. SetReads(cc) = Store!SetReads(cc)
  BY DEF SetReads, Store!SetReads
<1>2. SureLess(val, unsure) <=> Store!SureLess(val, unsure)
  BY DEF SureLess, SignIsOverflow, Store!SureLess, Store!SignIsOverflow
<1>3. Sure1("zf", val, unsure) <=> Store!Sure1("zf", val, unsure)
  BY DEF Sure1, Store!Sure1
<1>4. /\ SetUnsure(cc, val, unsure) \in BOOLEAN
      /\ Store!SetUnsure(cc, val, unsure) \in BOOLEAN
      /\ SetUnsure(cc, val, unsure) <=> Store!SetUnsure(cc, val, unsure)
  BY <1>1, <1>2, <1>3 DEF SetUnsure, Store!SetUnsure
<1> DEFINE a == SetReads(cc) \cap taint # {}
           u == SetUnsure(cc, val, unsure)
           c == Store!SetUnsure(cc, val, unsure)
<1>5. SetByte(cc, val, taint, unsure) = [taint |-> a, unsure |-> u]
  BY DEF SetByte
<1>6. Store!SetByte(cc, val, taint, unsure) = [taint |-> a, unsure |-> c]
  BY <1>1 DEF Store!SetByte
<1>7. a \in BOOLEAN /\ u \in BOOLEAN /\ c \in BOOLEAN /\ (u <=> c)
  BY <1>4
<1> HIDE DEF a, u, c
<1> QED  BY <1>5, <1>6, <1>7, ResultEqual

Instruction(i) ==
  /\ i.op \in Ops /\ i.src \in Operands /\ i.dst \in Operands
  /\ i.cc \in SetNames /\ i.val \in SUBSET Flags

\* symbolic_execution_one_step does to the places what Effect says.
LEMMA StepEffect ==
  ASSUME NEW x, Good(x), NEW i, Instruction(i), NEW j \in Results
  PROVE  /\ Good(OneStep(x, i, j))
         /\ ByName(OneStep(x, i, j)) = Store!Effect(ByName(x), i, j)
<1> DEFINE src == AnalyzeSource(x, i.src)
           dst == AnalyzeSource(x, i.dst)
           B == ByName(x)
<1>1. i.src \in Operands /\ i.dst \in Operands /\ x \in Shape
  BY DEF Instruction, Good
<1>2. /\ src = Store!Look(B, i.src) /\ src \in Results
      /\ dst = Store!Look(B, i.dst) /\ dst \in Results
  BY <1>1, OperandRead
<1>3. Both(dst, src) = Store!Sum(B, i) /\ Both(dst, src) \in Results
  BY <1>1, SumRead
<1>4. Nothing = Store!Clean /\ Nothing \in Results
  BY <1>2, SameResults
<1> HIDE DEF src, dst, B
<1>5. CASE i.op = "mov"
  <2>1. OneStep(x, i, j) = SetDest(x, i.src, src, j)
    BY <1>5 DEF OneStep, WidenFrom, Mov, src
  <2>2. Store!Effect(B, i, j) = Store!Store(B, i.src, Store!Look(B, i.src), j)
    BY <1>5 DEF Store!Effect
  <2> QED  BY <1>1, <1>2, <2>1, <2>2, OperandWrite DEF B
<1>6. CASE i.op = "push"
  <2> DEFINE res == IF i.src.kind \in {"reg", "none"} THEN Both(src, j) ELSE src
  <2>1. OneStep(x, i, j) = SetDest(x, i.dst, res, j)
    BY <1>6 DEF OneStep, WidenFrom, Push, src
  <2>2. Store!Effect(B, i, j) = Store!Store(B, i.dst, Store!Pushed(B, i, j), j)
    BY <1>6 DEF Store!Effect
  <2>3. res = Store!Pushed(B, i, j) /\ res \in Results
    BY <1>2, SameResults DEF Store!Pushed
  <2> HIDE DEF res
  <2> QED  BY <1>1, <2>1, <2>2, <2>3, OperandWrite DEF B
<1>7. CASE i.op \in {"pop", "imul3"}
  <2>1. OneStep(x, i, j) = SetDest(x, i.dst, src, j)
    BY <1>7 DEF OneStep, WidenFrom, Load, src
  <2>2. Store!Effect(B, i, j) = Store!Store(B, i.dst, Store!Look(B, i.src), j)
    BY <1>7 DEF Store!Effect
  <2> QED  BY <1>1, <1>2, <2>1, <2>2, OperandWrite DEF B
<1>8. CASE i.op = "xchg"
  <2> DEFINE y == SetDest(x, i.src, dst, j)
  <2>1. OneStep(x, i, j) = SetDest(y, i.dst, src, j)
    BY <1>8 DEF OneStep, WidenFrom, Xchg, src, dst
  <2>2. Store!Effect(B, i, j)
          = Store!Store(Store!Store(B, i.src, dst, j), i.dst, src, j)
    BY <1>2, <1>8 DEF Store!Effect, Store!Swap
  <2>3. Good(y) /\ ByName(y) = Store!Store(B, i.src, dst, j)
    BY <1>1, <1>2, OperandWrite DEF B
  <2> HIDE DEF y
  <2>4. /\ Good(SetDest(y, i.dst, src, j))
        /\ ByName(SetDest(y, i.dst, src, j)) = Store!Store(ByName(y), i.dst, src, j)
    BY <1>1, <1>2, <2>3, OperandWrite
  <2> QED  BY <2>1, <2>2, <2>3, <2>4 DEF B
<1>9. CASE i.op = "arith"
  <2>1. OneStep(x, i, j) = SetDest(x, i.dst, Both(dst, src), j)
    BY <1>9 DEF OneStep, WidenFrom, Combine, src, dst
  <2>2. Store!Effect(B, i, j) = Store!Store(B, i.dst, Store!Sum(B, i), j)
    BY <1>9 DEF Store!Effect
  <2> QED  BY <1>1, <1>3, <2>1, <2>2, OperandWrite DEF B
<1>10. CASE i.op = "or"
  <2> DEFINE res == Both(dst, src)
             y == SetDest(x, i.dst, res, j)
  <2>1. OneStep(x, i, j) = SetDest(y, i.dst, res, j)
    BY <1>10 DEF OneStep, WidenFrom, Or, src, dst
  <2>2. Store!Effect(B, i, j) = Store!Store(Store!Store(B, i.dst, res, j), i.dst, res, j)
    BY <1>3, <1>10 DEF Store!Effect
  <2>5. res \in Results  BY <1>3
  <2> HIDE DEF res
  <2>3. Good(y) /\ ByName(y) = Store!Store(B, i.dst, res, j)
    BY <1>1, <2>5, OperandWrite DEF B
  <2> HIDE DEF y
  <2>4. /\ Good(SetDest(y, i.dst, res, j))
        /\ ByName(SetDest(y, i.dst, res, j)) = Store!Store(ByName(y), i.dst, res, j)
    BY <1>1, <2>3, <2>5, OperandWrite
  <2> QED  BY <2>1, <2>2, <2>3, <2>4 DEF B
<1>11. CASE i.op = "imul0"
  <2>1. OneStep(x, i, j) = SetDest(x, i.dst, Nothing, j)
    BY <1>11 DEF OneStep, WidenFrom, ImulZero
  <2>2. Store!Effect(B, i, j) = Store!Store(B, i.dst, Store!Clean, j)
    BY <1>11 DEF Store!Effect
  <2> QED  BY <1>1, <1>4, <2>1, <2>2, OperandWrite DEF B
<1>12. CASE i.op \in {"cdqe", "cdq", "cwde", "cwd", "cqo"}
  <2>1. OneStep(x, i, j) = Widen(x, i.op)
    BY <1>12 DEF OneStep, WidenFrom
  <2>2. Store!Effect(B, i, j)
          = Store!Spread(B, IF i.op \in {"cdqe", "cwde"} THEN "rax" ELSE "rdx")
    BY <1>12 DEF Store!Effect
  <2> QED  BY <1>12, <2>1, <2>2, Widened DEF B
<1>13. CASE i.op = "cmp"
  <2>1. OneStep(x, i, j) = SetMarks(x, Flags, Both(dst, src))
    BY <1>13 DEF OneStep, Cmp, src, dst, WidenFrom
  <2>2. Store!Effect(B, i, j) = Store!SetFlags(B, Flags, Store!Sum(B, i))
    BY <1>13 DEF Store!Effect, Store!Flags, Flags
  <2> QED  BY <1>3, <2>1, <2>2, MarksSet DEF B
<1>14. CASE i.op = "test"
  <2> DEFINE res == Both(dst, src)
             f1 == {"cf", "of"}
             f2 == {"zf", "sf", "pf"}
             y == SetMarks(x, f1, Nothing)
  <2>1. OneStep(x, i, j) = SetMarks(y, f2, res)
    BY <1>14 DEF OneStep, Test, src, dst, WidenFrom
  <2>2. Store!Effect(B, i, j) = Store!SetFlags(Store!SetFlags(B, f1, Nothing), f2, res)
    BY <1>3, <1>4, <1>14 DEF Store!Effect
  <2>3. f1 \in SUBSET Flags /\ f2 \in SUBSET Flags  BY DEF Flags
  <2>4. res \in Results  BY <1>3
  <2> HIDE DEF res, f1, f2
  <2>5. Good(y) /\ ByName(y) = Store!SetFlags(B, f1, Nothing)
    BY <1>4, <2>3, MarksSet DEF B
  <2> HIDE DEF y
  <2>6. /\ Good(SetMarks(y, f2, res))
        /\ ByName(SetMarks(y, f2, res)) = Store!SetFlags(ByName(y), f2, res)
    BY <2>3, <2>4, <2>5, MarksSet
  <2> QED  BY <2>1, <2>2, <2>5, <2>6 DEF B
<1>15. CASE i.op = "clc"
  <2>1. OneStep(x, i, j) = SetMarks(x, {"cf"}, Nothing)
    BY <1>15 DEF OneStep, ClearCarry, WidenFrom
  <2>2. Store!Effect(B, i, j) = Store!SetFlags(B, {"cf"}, Store!Clean)
    BY <1>15 DEF Store!Effect
  <2>3. {"cf"} \in SUBSET Flags  BY DEF Flags
  <2> QED  BY <1>4, <2>1, <2>2, <2>3, MarksSet DEF B
<1>16. CASE i.op = "setcc"
  <2> DEFINE res == SetByte(i.cc, i.val, x.rflags, x.rflags_unsure)
  <2>1. OneStep(x, i, j) = SetDest(x, i.dst, res, j)
    BY <1>16 DEF OneStep, Setcc, WidenFrom
  <2>2. /\ res \in Results
        /\ res = Store!SetByte(i.cc, i.val, x.rflags, x.rflags_unsure)
    BY SetByteSame
  <2>3. B.ftaint = x.rflags /\ B.funsure = x.rflags_unsure
    BY ByNameFields DEF B
  <2>4. Store!Effect(B, i, j)
          = Store!Store(B, i.dst, Store!SetByte(i.cc, i.val, B.ftaint, B.funsure), j)
    BY <1>16 DEF Store!Effect
  <2> HIDE DEF res
  <2>5. Store!Effect(B, i, j) = Store!Store(B, i.dst, res, j)
    BY <2>2, <2>3, <2>4
  <2> QED  BY <1>1, <2>1, <2>2, <2>5, OperandWrite DEF B
<1> QED
  BY <1>5, <1>6, <1>7, <1>8, <1>9, <1>10, <1>11, <1>12, <1>13, <1>14, <1>15, <1>16
     DEF Instruction, Ops, B

-----------------------------------------------------------------------------
(***************************************************************************)
(* The branches.                                                           *)
(***************************************************************************)
LEMMA SingleOf ==
  /\ DOMAIN Single = {1, 2, 3, 5, 6, 9}
  /\ Single[1] = "of" /\ Single[2] = "cf" /\ Single[3] = "zf"
  /\ Single[5] = "sf" /\ Single[6] = "pf" /\ Single[9] = "cf"
BY DEF Single

\* What each branch depends on.
LEMMA ConditionOf ==
  ASSUME NEW v
  PROVE  /\ \A t \in {1, 2, 3, 5, 6, 9} : Condition(t, v) <=> Single[t] \in v
         /\ Condition(4, v) <=> "cf" \notin v /\ "zf" \notin v
         /\ Condition(7, v) <=> ("sf" \in v <=> "of" \notin v)
         /\ Condition(8, v) <=> "zf" \notin v /\ ("sf" \in v <=> "of" \in v)
         /\ \A t \in 1 .. 9 : Condition(-t, v) <=> ~Condition(t, v)
         /\ \A t \in FlagBranches : Condition(t, v) \in BOOLEAN
<1>1. Holds(4, v) <=> "cf" \notin v /\ "zf" \notin v  BY DEF Holds
<1>2. Holds(7, v) <=> ("sf" \in v <=> "of" \notin v)  BY DEF Holds
<1>3. Holds(8, v) <=> "zf" \notin v /\ ("sf" \in v <=> "of" \in v)  BY DEF Holds
<1>4. \A t \in {1, 2, 3, 5, 6, 9} : Holds(t, v) <=> Single[t] \in v
  <2>1. /\ Holds(1, v) <=> "of" \in v
        /\ Holds(2, v) <=> "cf" \in v
        /\ Holds(3, v) <=> "zf" \in v
        /\ Holds(5, v) <=> "sf" \in v
        /\ Holds(6, v) <=> "pf" \in v
        /\ Holds(9, v) <=> "cf" \in v
    BY DEF Holds
  <2> QED  BY <2>1, SingleOf
<1>5. \A t \in 1 .. 9 : Condition(t, v) <=> Holds(t, v)  BY DEF Condition
<1>6. \A t \in 1 .. 9 : Condition(-t, v) <=> ~Holds(t, v)
  <2> TAKE t \in 1 .. 9
  <2>1. -(-t) = t /\ ~(-t > 0)  OBVIOUS
  <2> QED  BY <2>1 DEF Condition
<1>7. \A t \in FlagBranches : Condition(t, v) \in BOOLEAN
  <2>1. \A n \in 1 .. 9 : Holds(n, v) \in BOOLEAN
    <3>1. /\ Holds(1, v) \in BOOLEAN /\ Holds(2, v) \in BOOLEAN /\ Holds(3, v) \in BOOLEAN
      BY DEF Holds
    <3>2. /\ Holds(4, v) \in BOOLEAN /\ Holds(5, v) \in BOOLEAN /\ Holds(6, v) \in BOOLEAN
      BY DEF Holds
    <3>3. /\ Holds(7, v) \in BOOLEAN /\ Holds(8, v) \in BOOLEAN /\ Holds(9, v) \in BOOLEAN
      BY DEF Holds
    <3>4. \A n \in {1, 2, 3, 4, 5, 6, 7, 8, 9} : Holds(n, v) \in BOOLEAN
      BY <3>1, <3>2, <3>3
    <3>5. 1 .. 9 = {1, 2, 3, 4, 5, 6, 7, 8, 9}  OBVIOUS
    <3> QED  BY <3>4, <3>5
  <2>2. \A t \in FlagBranches : t > 0 => t \in 1 .. 9  BY DEF FlagBranches
  <2> QED  BY <2>1, <2>2 DEF Condition
<1> QED  BY <1>1, <1>2, <1>3, <1>4, <1>5, <1>6, <1>7

LEMMA ReadOf ==
  /\ \A t \in {1, 2, 3, 5, 6, 9} : Read(t) = {Single[t]}
  /\ Read(4) = {"cf", "zf"} /\ Read(7) = {"sf", "of"} /\ Read(8) = {"zf", "sf", "of"}
  /\ \A t \in 1 .. 9 : Read(-t) = Read(t)
<1>1. \A t \in {1, 2, 3, 5, 6, 9} : Read(t) = {Single[t]} /\ Read(-t) = {Single[t]}
  <2> TAKE t \in {1, 2, 3, 5, 6, 9}
  <2>1. -(-t) = t /\ -t \notin DOMAIN Single /\ t \in DOMAIN Single  BY SingleOf
  <2> QED  BY <2>1 DEF Read
<1>2. /\ Read(4) = {"cf", "zf"} /\ Read(7) = {"sf", "of"} /\ Read(8) = {"zf", "sf", "of"}
      /\ Read(-4) = {"cf", "zf"} /\ Read(-7) = {"sf", "of"} /\ Read(-8) = {"zf", "sf", "of"}
  BY SingleOf DEF Read
<1>3. \A t \in 1 .. 9 : t \in {1, 2, 3, 5, 6, 9} \/ t = 4 \/ t = 7 \/ t = 8  OBVIOUS
<1> QED  BY <1>1, <1>2, <1>3

\* Values that agree on the flags judge_attack reads give the same condition,
\* and each of those flags alone decides it when no other is set.
LEMMA ReadDecides ==
  ASSUME NEW t \in FlagBranches
  PROVE  /\ \A v, w : v \cap Read(t) = w \cap Read(t) => (Condition(t, v) <=> Condition(t, w))
         /\ \A f \in Read(t) : Condition(t, {}) # Condition(t, {f})
         /\ Read(t) \subseteq Flags
<1>1. ASSUME NEW n \in 1 .. 9
      PROVE  /\ \A v, w : v \cap Read(n) = w \cap Read(n) => (Condition(n, v) <=> Condition(n, w))
             /\ \A f \in Read(n) : ~(Condition(n, {}) <=> Condition(n, {f}))
             /\ Read(n) \subseteq Flags
  <2>1. CASE n \in {1, 2, 3, 5, 6, 9}
    <3>1. Read(n) = {Single[n]} /\ \A v : Condition(n, v) <=> Single[n] \in v
      BY <2>1, ReadOf, ConditionOf
    <3>2. Single[n] \in Flags  BY <2>1, SingleOf DEF Flags
    <3> QED  BY <3>1, <3>2
  <2>2. CASE n = 4
    <3>1. Read(n) = {"cf", "zf"} /\ \A v : Condition(n, v) <=> "cf" \notin v /\ "zf" \notin v
      BY <2>2, ReadOf, ConditionOf
    <3> QED  BY <3>1 DEF Flags
  <2>3. CASE n = 7
    <3>1. Read(n) = {"sf", "of"} /\ \A v : Condition(n, v) <=> ("sf" \in v <=> "of" \notin v)
      BY <2>3, ReadOf, ConditionOf
    <3> QED  BY <3>1 DEF Flags
  <2>4. CASE n = 8
    <3>1. /\ Read(n) = {"zf", "sf", "of"}
          /\ \A v : Condition(n, v) <=> "zf" \notin v /\ ("sf" \in v <=> "of" \in v)
      BY <2>4, ReadOf, ConditionOf
    <3> QED  BY <3>1 DEF Flags
  <2>5. n \in {1, 2, 3, 5, 6, 9} \/ n = 4 \/ n = 7 \/ n = 8  OBVIOUS
  <2> QED  BY <2>1, <2>2, <2>3, <2>4, <2>5
<1>2. PICK n \in 1 .. 9 : t = n \/ t = -n
  <2>1. t \in 1 .. 9 \/ t \in -9 .. -1  BY DEF FlagBranches
  <2>2. t \in -9 .. -1 => -t \in 1 .. 9 /\ t = -(-t)  OBVIOUS
  <2> QED  BY <2>1, <2>2
<1>3. /\ Read(t) = Read(n)
      /\ \A v : Condition(t, v) \in BOOLEAN
      /\ \/ \A v : Condition(t, v) <=> Condition(n, v)
         \/ \A v : Condition(t, v) <=> ~Condition(n, v)
  BY <1>2, ReadOf, ConditionOf
<1> QED  BY <1>1, <1>3

\* judge_attack reports a branch exactly when the marked flags alone can turn
\* it round.
LEMMA JudgeIsDepends ==
  ASSUME NEW t \in FlagBranches, NEW taint \in SUBSET Flags
  PROVE  JudgeAttack(t, taint) <=> DependsOn(t, taint)
<1>1. ASSUME NEW f \in Read(t) \cap taint PROVE DependsOn(t, taint)
  <2>1. {f} \in Completions({}, taint)  BY DEF Completions
  <2>2. Condition(t, {}) # Condition(t, {f})  BY ReadDecides
  <2> QED  BY <2>1, <2>2 DEF DependsOn
<1>2. ASSUME Read(t) \cap taint = {}, NEW val \in SUBSET Flags, NEW w \in Completions(val, taint)
      PROVE  Condition(t, val) = Condition(t, w)
  <2>1. PICK u \in SUBSET taint : w = (val \ taint) \cup u  BY DEF Completions
  <2>2. val \cap Read(t) = w \cap Read(t)  BY <1>2, <2>1
  <2>3. Condition(t, val) <=> Condition(t, w)  BY <2>2, ReadDecides
  <2>4. Condition(t, val) \in BOOLEAN /\ Condition(t, w) \in BOOLEAN  BY ConditionOf
  <2> QED  BY <2>3, <2>4
<1> QED  BY <1>1, <1>2 DEF JudgeAttack, DependsOn

\* What the flags may be when those in unsure are not known: the known ones
\* as they are, and the others as it pleases.
LEMMA CompletionOf ==
  ASSUME NEW val \in SUBSET Flags, NEW unsure \in SUBSET Flags
  PROVE  /\ \A w \in Completions(val, unsure) : \A f : f \notin unsure => (f \in w <=> f \in val)
         /\ \A u \in SUBSET unsure : (val \ unsure) \cup u \in Completions(val, unsure)
         /\ val \ unsure \in Completions(val, unsure)
         /\ \A f \in unsure :
              /\ (val \ unsure) \cup {f} \in Completions(val, unsure)
              /\ f \notin val \ unsure
<1>1. (val \ unsure) \cup {} = val \ unsure  OBVIOUS
<1>2. {} \in SUBSET unsure /\ \A f \in unsure : {f} \in SUBSET unsure  OBVIOUS
<1>3. \A u \in SUBSET unsure : (val \ unsure) \cup u \in Completions(val, unsure)
  BY DEF Completions
<1>4. \A w \in Completions(val, unsure) : \A f : f \notin unsure => (f \in w <=> f \in val)
  BY DEF Completions
<1>5. val \ unsure \in Completions(val, unsure)  BY <1>1, <1>2, <1>3
<1>6. \A f \in unsure : (val \ unsure) \cup {f} \in Completions(val, unsure)  BY <1>2, <1>3
<1>7. \A f \in unsure : f \notin val \ unsure  OBVIOUS
<1> QED  BY <1>3, <1>4, <1>5, <1>6, <1>7

\* An answer that every value settles, or that two values leave open.
LEMMA AnswerYes ==
  ASSUME NEW t \in FlagBranches, NEW val, NEW unsure, val \ unsure \in Completions(val, unsure),
         Answer(t, val, unsure) = 1, \A w \in Completions(val, unsure) : Condition(t, w)
  PROVE  AnswerIsCondition(t, val, unsure)
<1>1. \A w : Condition(t, w) \in BOOLEAN  BY ConditionOf
<1>2. {Condition(t, w) : w \in Completions(val, unsure)} = {TRUE}  BY <1>1
<1> QED  BY <1>2 DEF AnswerIsCondition

LEMMA AnswerNo ==
  ASSUME NEW t \in FlagBranches, NEW val, NEW unsure, val \ unsure \in Completions(val, unsure),
         Answer(t, val, unsure) = -1, \A w \in Completions(val, unsure) : ~Condition(t, w)
  PROVE  AnswerIsCondition(t, val, unsure)
<1>1. \A w : Condition(t, w) \in BOOLEAN  BY ConditionOf
<1>2. \A w \in Completions(val, unsure) : Condition(t, w) = FALSE  BY <1>1
<1>3. {Condition(t, w) : w \in Completions(val, unsure)} = {FALSE}  BY <1>2, Zenon
<1> QED  BY <1>3 DEF AnswerIsCondition

LEMMA AnswerOpen ==
  ASSUME NEW t \in FlagBranches, NEW val, NEW unsure, Answer(t, val, unsure) = 0,
         \E w \in Completions(val, unsure) : Condition(t, w),
         \E w \in Completions(val, unsure) : ~Condition(t, w)
  PROVE  AnswerIsCondition(t, val, unsure)
<1> DEFINE outcomes == {Condition(t, w) : w \in Completions(val, unsure)}
<1>1. \A w : Condition(t, w) \in BOOLEAN  BY ConditionOf
<1>2. TRUE \in outcomes /\ FALSE \in outcomes
  <2>1. PICK y \in Completions(val, unsure) : Condition(t, y) = TRUE  BY <1>1
  <2>2. PICK n \in Completions(val, unsure) : Condition(t, n) = FALSE  BY <1>1
  <2> QED  BY <2>1, <2>2, Zenon
<1>3. outcomes # {TRUE} /\ outcomes # {FALSE}  BY <1>2
<1> QED  BY <1>3 DEF AnswerIsCondition

\* A branch on one flag, and the negations of CF: only there is the negation
\* of the macro the negation of the flag.
LEMMA SingleAnswers ==
  ASSUME NEW t \in {1, 2, 3, 5, 6, 9, -2, -9}, NEW val \in SUBSET Flags, NEW unsure \in SUBSET Flags
  PROVE  AnswerIsCondition(t, val, unsure)
<1> DEFINE v == val \ unsure
<1>1. v \in Completions(val, unsure)  BY CompletionOf
<1>2. CASE t > 0
  <2>1. t \in {1, 2, 3, 5, 6, 9} /\ t \in FlagBranches  BY <1>2 DEF FlagBranches
  <2> DEFINE f == Single[t]
  <2>2. Answer(t, val, unsure) = IF f \in unsure THEN 0 ELSE IF f \in val THEN 1 ELSE -1
    BY <2>1, SingleOf DEF Answer, AnswerSingle, Open
  <2>3. \A w : Condition(t, w) <=> f \in w  BY <2>1, ConditionOf
  <2> HIDE DEF f
  <2>4. CASE f \in unsure
    <3>1. Condition(t, v \cup {f}) /\ ~Condition(t, v)  BY <2>3, <2>4
    <3>2. v \cup {f} \in Completions(val, unsure)  BY <2>4, CompletionOf
    <3> HIDE DEF v
    <3> QED  BY <1>1, <2>1, <2>2, <2>4, <3>1, <3>2, AnswerOpen
  <2>5. CASE f \notin unsure
    <3>0. \A w \in Completions(val, unsure) : \A g : g \notin unsure => (g \in w <=> g \in val)
      BY CompletionOf
    <3>1. \A w \in Completions(val, unsure) : Condition(t, w) <=> f \in val
      BY <2>3, <2>5, <3>0
    <3> QED  BY <1>1, <2>1, <2>2, <2>5, <3>1, AnswerYes, AnswerNo
  <2> QED  BY <2>4, <2>5
<1>3. CASE t < 0
  <2>1. t \in {-2, -9} /\ t \in FlagBranches  BY <1>3 DEF FlagBranches
  <2>2. Answer(t, val, unsure) = IF "cf" \in unsure THEN 0 ELSE IF "cf" \notin val THEN 1 ELSE -1
    <3>1. NotGet("cf", val) <=> "cf" \notin val  BY DEF NotGet, Bit
    <3>2. -t \in DOMAIN Single /\ t \notin DOMAIN Single /\ Single[-t] = "cf"  BY <2>1, SingleOf
    <3> QED  BY <3>1, <3>2 DEF Answer, AnswerNotSingle, Open
  <2>3. \A w : Condition(t, w) <=> "cf" \notin w
    <3>1. \A w : (Condition(-2, w) <=> ~Condition(2, w)) /\ (Condition(-9, w) <=> ~Condition(9, w))
      BY ConditionOf
    <3>2. \A w : (Condition(2, w) <=> "cf" \in w) /\ (Condition(9, w) <=> "cf" \in w)
      BY ConditionOf, SingleOf
    <3> QED  BY <2>1, <3>1, <3>2
  <2>4. CASE "cf" \in unsure
    <3>1. ~Condition(t, v \cup {"cf"}) /\ Condition(t, v)  BY <2>3, <2>4
    <3>2. v \cup {"cf"} \in Completions(val, unsure)  BY <2>4, CompletionOf
    <3> HIDE DEF v
    <3> QED  BY <1>1, <2>1, <2>2, <2>4, <3>1, <3>2, AnswerOpen
  <2>5. CASE "cf" \notin unsure
    <3>0. \A w \in Completions(val, unsure) : \A g : g \notin unsure => (g \in w <=> g \in val)
      BY CompletionOf
    <3>1. \A w \in Completions(val, unsure) : Condition(t, w) <=> "cf" \notin val
      BY <2>3, <2>5, <3>0
    <3> QED  BY <1>1, <2>1, <2>2, <2>5, <3>1, AnswerYes, AnswerNo
  <2> QED  BY <2>4, <2>5
<1> QED  BY <1>2, <1>3

LEMMA AboveAnswers ==
  ASSUME NEW val \in SUBSET Flags, NEW unsure \in SUBSET Flags
  PROVE  AnswerIsCondition(4, val, unsure)
<1> DEFINE v == val \ unsure
           C == Completions(val, unsure)
<1>1. Answer(4, val, unsure) = AnswerA(val, unsure)  BY SingleOf DEF Answer
<1>2. \A w : Condition(4, w) <=> "cf" \notin w /\ "zf" \notin w  BY ConditionOf
<1>3. 4 \in FlagBranches  BY DEF FlagBranches
<1>4. v \in C /\ \A w \in C : \A f : f \notin unsure => (f \in w <=> f \in val)
  BY CompletionOf
<1>5. CASE Sure1("cf", val, unsure) \/ Sure1("zf", val, unsure)
  <2>1. Answer(4, val, unsure) = -1  BY <1>1, <1>5 DEF AnswerA
  <2>2. \A w \in C : ~Condition(4, w)  BY <1>2, <1>4, <1>5 DEF Sure1
  <2> QED  BY <1>3, <1>4, <2>1, <2>2, AnswerNo
<1>6. CASE /\ ~Sure1("cf", val, unsure) /\ ~Sure1("zf", val, unsure)
           /\ {"cf", "zf"} \cap unsure # {}
  <2>1. Answer(4, val, unsure) = 0  BY <1>1, <1>6 DEF AnswerA, Open
  <2>2. Condition(4, v)  BY <1>2, <1>6 DEF Sure1
  <2>3. PICK f \in {"cf", "zf"} : f \in unsure  BY <1>6
  <2>4. ~Condition(4, v \cup {f})  BY <1>2, <2>3
  <2>5. v \cup {f} \in C  BY <2>3, CompletionOf
  <2> HIDE DEF v
  <2> QED  BY <1>3, <1>4, <2>1, <2>2, <2>4, <2>5, AnswerOpen
<1>7. CASE /\ ~Sure1("cf", val, unsure) /\ ~Sure1("zf", val, unsure)
           /\ {"cf", "zf"} \cap unsure = {}
  <2>1. Answer(4, val, unsure) = 1  BY <1>1, <1>7 DEF AnswerA, Open
  <2>2. \A w \in C : Condition(4, w)
    <3>1. "cf" \notin unsure /\ "zf" \notin unsure /\ "cf" \notin val /\ "zf" \notin val
      BY <1>7 DEF Sure1
    <3> HIDE DEF C
    <3> QED  BY <1>2, <1>4, <3>1
  <2> QED  BY <1>3, <1>4, <2>1, <2>2, AnswerYes
<1> QED  BY <1>5, <1>6, <1>7

\* A flag that SF = OF depends on is not known: they may be equal, without
\* setting any other, and may differ.
LEMMA SignOpen ==
  ASSUME NEW val \in SUBSET Flags, NEW unsure \in SUBSET Flags, {"sf", "of"} \cap unsure # {}
  PROVE  /\ \E w \in Completions(val, unsure) :
              ("sf" \in w <=> "of" \in w) /\ ("zf" \in w => "zf" \in val \ unsure)
         /\ \E w \in Completions(val, unsure) : ~("sf" \in w <=> "of" \in w)
<1>1. PICK f \in {"sf", "of"} : f \in unsure  OBVIOUS
<1> DEFINE v == val \ unsure
           w == (val \ unsure) \cup {f}
<1>2. v \in Completions(val, unsure) /\ w \in Completions(val, unsure)  BY <1>1, CompletionOf
<1>3. f \notin v /\ f \in w /\ \A g : g # f => (g \in w <=> g \in v)  BY <1>1
<1>4. ("zf" \in v => "zf" \in val \ unsure) /\ ("zf" \in w => "zf" \in val \ unsure)
  OBVIOUS
<1> HIDE DEF v, w
<1>5. ("sf" \in v <=> "of" \in v) <=> ~("sf" \in w <=> "of" \in w)  BY <1>3
<1> QED  BY <1>2, <1>4, <1>5

\* jnl and jng: the cases of the negations.
LEMMA TwoNegated ==
  ASSUME NEW val, NEW unsure
  PROVE  /\ Answer(-7, val, unsure) = AnswerNl(val, unsure)
         /\ Answer(-8, val, unsure) = AnswerNg(val, unsure)
<1>1. ASSUME NEW n \in {7, 8}
      PROVE  Answer(-n, val, unsure) = IF n = 7 THEN AnswerNl(val, unsure)
                                                ELSE AnswerNg(val, unsure)
  <2>1. -(-n) = n /\ n \notin DOMAIN Single /\ -n \notin DOMAIN Single  BY SingleOf
  <2> QED  BY <2>1 DEF Answer
<1> QED  BY <1>1

LEMMA LessAnswers ==
  ASSUME NEW t \in {7, -7}, NEW val \in SUBSET Flags, NEW unsure \in SUBSET Flags
  PROVE  AnswerIsCondition(t, val, unsure)
<1> DEFINE C == Completions(val, unsure)
           equal(w) == "sf" \in w <=> "of" \in w
<1>1. t \in FlagBranches  BY DEF FlagBranches
<1>2. /\ Answer(7, val, unsure) = AnswerL(val, unsure)
      /\ Answer(-7, val, unsure) = AnswerNl(val, unsure)
  <2>1. Answer(7, val, unsure) = AnswerL(val, unsure)  BY SingleOf DEF Answer
  <2>2. Answer(-7, val, unsure) = AnswerNl(val, unsure)  BY TwoNegated
  <2> QED  BY <2>1, <2>2
<1>3. SignIsOverflow(val) <=> equal(val)  BY DEF SignIsOverflow
<1>4. /\ \A w : Condition(7, w) <=> ~equal(w)
      /\ \A w : Condition(-7, w) <=> equal(w)
  <2>1. \A w : (Condition(7, w) <=> ~equal(w)) /\ (Condition(-7, w) <=> ~Condition(7, w))
    BY ConditionOf
  <2> QED  BY <2>1
<1>5. val \ unsure \in C  BY CompletionOf
<1>6. CASE {"sf", "of"} \cap unsure # {}
  <2>1. Answer(t, val, unsure) = 0
    BY <1>2, <1>6 DEF AnswerL, AnswerNl, Open
  <2>2. (\E w \in C : equal(w)) /\ (\E w \in C : ~equal(w))  BY <1>6, SignOpen
  <2> HIDE DEF equal, C
  <2>3. (\E w \in C : Condition(t, w)) /\ (\E w \in C : ~Condition(t, w))  BY <1>4, <2>2
  <2> QED  BY <1>1, <2>1, <2>3, AnswerOpen DEF C
<1>7. CASE {"sf", "of"} \cap unsure = {}
  <2>1. /\ AnswerL(val, unsure) = IF equal(val) THEN -1 ELSE 1
        /\ AnswerNl(val, unsure) = IF equal(val) THEN 1 ELSE -1
    BY <1>3, <1>7 DEF AnswerL, AnswerNl, Open
  <2>2. \A w \in C : equal(w) <=> equal(val)
    <3>1. "sf" \notin unsure /\ "of" \notin unsure  BY <1>7
    <3>2. \A w \in C : \A f : f \notin unsure => (f \in w <=> f \in val)  BY CompletionOf
    <3> HIDE DEF C
    <3> QED  BY <3>1, <3>2
  <2> HIDE DEF equal, C
  <2>3. \/ Answer(t, val, unsure) = 1 /\ \A w \in C : Condition(t, w)
        \/ Answer(t, val, unsure) = -1 /\ \A w \in C : ~Condition(t, w)
    BY <1>2, <1>4, <2>1, <2>2
  <2> QED  BY <1>1, <1>5, <2>3, AnswerYes, AnswerNo DEF C
<1> QED  BY <1>6, <1>7

LEMMA GreaterAnswers ==
  ASSUME NEW t \in {8, -8}, NEW val \in SUBSET Flags, NEW unsure \in SUBSET Flags
  PROVE  AnswerIsCondition(t, val, unsure)
<1> DEFINE C == Completions(val, unsure)
           sure == Sure1("zf", val, unsure) \/ SureLess(val, unsure)
           open == {"zf", "sf", "of"} \cap unsure # {}
           greater(w) == "zf" \notin w /\ ("sf" \in w <=> "of" \in w)
<1>1. t \in FlagBranches  BY DEF FlagBranches
<1>2. /\ Answer(8, val, unsure) = IF sure THEN -1 ELSE IF open THEN 0 ELSE 1
      /\ Answer(-8, val, unsure) = IF sure THEN 1 ELSE IF open THEN 0 ELSE -1
  <2>1. Answer(8, val, unsure) = AnswerG(val, unsure)  BY SingleOf DEF Answer
  <2>2. Answer(-8, val, unsure) = AnswerNg(val, unsure)  BY TwoNegated
  <2> QED  BY <2>1, <2>2 DEF AnswerG, AnswerNg, Open
<1>3. /\ \A w : Condition(8, w) <=> greater(w)
      /\ \A w : Condition(-8, w) <=> ~greater(w)
  <2>1. \A w : (Condition(8, w) <=> greater(w)) /\ (Condition(-8, w) <=> ~Condition(8, w))
    BY ConditionOf
  <2> QED  BY <2>1
<1>4. SureLess(val, unsure) <=> "sf" \notin unsure /\ "of" \notin unsure
                                /\ ~("sf" \in val <=> "of" \in val)
  BY DEF SureLess, SignIsOverflow
<1>5. Sure1("zf", val, unsure) <=> "zf" \notin unsure /\ "zf" \in val  BY DEF Sure1
<1>6. val \ unsure \in C /\ \A w \in C : \A f : f \notin unsure => (f \in w <=> f \in val)
  BY CompletionOf
<1>7. CASE sure
  <2>1. \A w \in C : ~greater(w)
    <3> HIDE DEF C
    <3> QED  BY <1>4, <1>5, <1>6, <1>7
  <2> HIDE DEF greater, C
  <2>2. \/ Answer(t, val, unsure) = 1 /\ \A w \in C : Condition(t, w)
        \/ Answer(t, val, unsure) = -1 /\ \A w \in C : ~Condition(t, w)
    BY <1>2, <1>3, <1>7, <2>1
  <2> QED  BY <1>1, <1>6, <2>2, AnswerYes, AnswerNo DEF C
<1>8. CASE ~sure /\ open
  <2>1. \E w \in C : greater(w)
    <3>1. CASE {"sf", "of"} \cap unsure # {}
      <4>1. "zf" \notin val \ unsure  BY <1>5, <1>8
      <4> QED  BY <3>1, <4>1, SignOpen
    <3>2. CASE {"sf", "of"} \cap unsure = {}
      <4>1. greater(val \ unsure)  BY <1>4, <1>5, <1>8, <3>2
      <4> QED  BY <1>6, <4>1
    <3> QED  BY <3>1, <3>2
  <2>2. \E w \in C : ~greater(w)
    <3>1. CASE "zf" \in unsure
      <4>1. (val \ unsure) \cup {"zf"} \in C  BY <3>1, CompletionOf
      <4>2. "zf" \in (val \ unsure) \cup {"zf"}  OBVIOUS
      <4> QED  BY <4>1, <4>2
    <3>2. CASE {"sf", "of"} \cap unsure # {}
      BY <3>2, SignOpen
    <3> QED  BY <1>8, <3>1, <3>2
  <2> HIDE DEF greater, sure, open, C
  <2>3. (\E w \in C : Condition(t, w)) /\ (\E w \in C : ~Condition(t, w))
    BY <1>3, <2>1, <2>2
  <2>4. Answer(t, val, unsure) = 0  BY <1>2, <1>8
  <2> QED  BY <1>1, <2>3, <2>4, AnswerOpen DEF C
<1>9. CASE ~sure /\ ~open
  <2>1. \A w \in C : greater(w)
    <3>1. "zf" \notin unsure /\ "sf" \notin unsure /\ "of" \notin unsure  BY <1>9
    <3>2. greater(val)  BY <1>4, <1>5, <1>9, <3>1
    <3> HIDE DEF C
    <3> QED  BY <1>6, <3>1, <3>2
  <2> HIDE DEF greater, sure, open, C
  <2>2. \/ Answer(t, val, unsure) = 1 /\ \A w \in C : Condition(t, w)
        \/ Answer(t, val, unsure) = -1 /\ \A w \in C : ~Condition(t, w)
    BY <1>2, <1>3, <1>9, <2>1
  <2> QED  BY <1>1, <1>6, <2>2, AnswerYes, AnswerNo DEF C
<1> QED  BY <1>7, <1>8, <1>9

LEMMA AnswersRight ==
  ASSUME NEW unsure \in SUBSET Flags PROVE Right(unsure)
<1> SUFFICES ASSUME NEW t \in RightBranches, NEW val \in SUBSET Flags
             PROVE  AnswerIsCondition(t, val, unsure)
  BY DEF Right
<1>1. t \in {1, 2, 3, 5, 6, 9, -2, -9} \/ t = 4 \/ t \in {7, -7} \/ t \in {8, -8}
  BY DEF RightBranches
<1> QED  BY <1>1, SingleAnswers, AboveAnswers, LessAnswers, GreaterAnswers

-----------------------------------------------------------------------------
(***************************************************************************)
(* The path.                                                               *)
(***************************************************************************)

\* Only whole registers start marked.
LEMMA GoodAtStart == Init => Good(m)
<1> SUFFICES ASSUME NEW x \in Start, NEW a \in Leftovers, NEW b \in Leftovers,
                    NEW c \in Leftovers, m = Fresh(x, a, b, c)
             PROVE  Good(m)
  BY DEF Init
<1>1. a \in Maps /\ b \in Maps /\ c \in Maps  BY TaineStepAssumption
<1>2. /\ x.regs \subseteq 0 .. 31 /\ RaxWhole(x.regs)
      /\ x.rflags \subseteq Flags /\ x.rflags_unsure = {} /\ x.heap = <<>>
  <2>1. CASE x = Marked({}, Flags)
    BY <2>1 DEF Marked, RaxWhole
  <2>2. CASE \E r \in Regs : x = Marked(Mask[r], {})
    <3>1. PICK r \in Regs : x = Marked(Mask[r], {})  BY <2>2
    <3>2. Mask[r] = 0 .. 3 \/ Mask[r] \cap (0 .. 3) = {}  BY MaskOf DEF Regs
    <3>3. Mask[r] \subseteq 0 .. 31  BY MaskFacts
    <3>4. x.regs = Mask[r] /\ x.rflags = {} /\ x.rflags_unsure = {} /\ x.heap = <<>>
      BY <3>1 DEF Marked
    <3>5. RaxWhole(Mask[r])
      <4>1. CASE Mask[r] = 0 .. 3
        <5>1. {0, 1} \subseteq 0 .. 3  OBVIOUS
        <5> QED  BY <4>1, <5>1 DEF RaxWhole
      <4>2. CASE Mask[r] \cap (0 .. 3) = {}  BY <4>2 DEF RaxWhole
      <4> QED  BY <3>2, <4>1, <4>2
    <3>6. RaxWhole(x.regs)  BY <3>4, <3>5
    <3> QED  BY <3>3, <3>4, <3>6
  <2> QED  BY <2>1, <2>2 DEF Start
<1>3. <<>> \in Seq(Entries)  OBVIOUS
<1> QED  BY <1>1, <1>2, <1>3 DEF Good, Shape, Fresh

LEMMA GoodAtStep ==
  ASSUME Good(m), [Next]_vars
  PROVE  Good(m') /\ [Store!Next]_(ByName(m))
<1>1. CASE UNCHANGED vars
  BY <1>1 DEF vars
<1>2. ASSUME NEW i \in Program, NEW j \in Junk, Exec(i, j)
      PROVE  Good(m') /\ Store!Next
  <2>1. Instruction(i) /\ j \in Results
    BY TaineStepAssumption DEF Instruction
  <2>2. m' = OneStep(m, i, j)  BY <1>2 DEF Exec
  <2>3. Good(m') /\ ByName(m') = Store!Effect(ByName(m), i, j)
    BY <2>1, <2>2, StepEffect
  <2> QED  BY <2>3 DEF Store!Next
<1> QED  BY <1>1, <1>2 DEF Next

\* The structures keep their shape along every path: the words and maps stay
\* within their bits, the log holds entries, and the mark of rax is never
\* only in the bits exec_cwd_and does not look at.
THEOREM StructuresStayGood == Spec => []Good(m)
<1>1. Good(m) /\ [Next]_vars => Good(m)'  BY GoodAtStep
<1> QED  BY GoodAtStart, <1>1, PTL DEF Spec

\* symbolic_execution_one_step implements the places by name, for every size
\* of the stack, every program and whatever fresh memory holds.
THEOREM StepImplementsStore == Spec => ImplementsStore
<1>1. Init => Store!Init
  <2> SUFFICES ASSUME Init PROVE ByName(m) \in Store!State
    BY DEF Store!Init
  <2> QED  BY GoodAtStart, ByNameShape DEF Good
<1>2. Good(m) /\ [Next]_vars => [Store!Next]_(ByName(m))  BY GoodAtStep
<1> QED  BY <1>1, <1>2, StructuresStayGood, PTL DEF Spec, ImplementsStore, Store!Spec

\* Whatever has run on the path, judge_attack reports the branch that was
\* missed exactly when the flags a secret has reached can turn it round.
THEOREM JudgedByWhatItDependsOn == Spec => []JudgesWhatItDependsOn
<1>1. Good(m) => JudgesWhatItDependsOn
  <2> SUFFICES ASSUME Good(m), NEW t \in FlagBranches
               PROVE  JudgeAttack(t, m.rflags) <=> m.rflags \in Turning[t]
    BY DEF JudgesWhatItDependsOn
  <2>1. m.rflags \in SUBSET Flags  BY DEF Good, Shape
  <2>2. Turning[t] = {taint \in SUBSET Flags : DependsOn(t, taint)}  BY DEF Turning
  <2> QED  BY <2>1, <2>2, JudgeIsDepends
<1> QED  BY <1>1, StructuresStayGood, PTL

\* Whatever has run on the path, analyze_branch_instruction takes and leaves
\* the right branches as their condition says, and forks at no other than an
\* open one.
THEOREM AnswersAreSettled == Spec => []AnswersSettled
<1>1. Good(m) => AnswersSettled
  <2> SUFFICES ASSUME Good(m) PROVE AnswersSettled  OBVIOUS
  <2>1. m.rflags_unsure \in SUBSET Flags  BY DEF Good, Shape
  <2> QED  BY <2>1, AnswersRight DEF AnswersSettled, AnsweredRight
<1> QED  BY <1>1, StructuresStayGood, PTL
=============================================================================
