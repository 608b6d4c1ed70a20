----------------------------- MODULE TaineStore -----------------------------
(***************************************************************************)
(* What the kernel module's simulation of one path promises to keep, by    *)
(* name: which registers and which bytes of the simulated stack a secret   *)
(* has reached, which bytes have been written, which of those hold a value *)
(* that is not known, the same for the heap's addresses, and the flags.    *)
(*                                                                         *)
(* The memory a place is kept in does not appear.  rcx has no place of its *)
(* own: it is the four registers rsp, rbp, rsi and rdi.                    *)
(***************************************************************************)
EXTENDS TaineFlags

CONSTANTS
  Bytes,        \* the bytes of the simulated stack
  HeapAddrs,    \* addresses that are not on it
  Program,      \* instructions of the disassembled code
  Junk          \* what memory that nobody has written may hold

Names == {"rax", "rdx", "rbx", "rsp", "rbp", "rsi", "rdi",
          "r8", "r9", "r10", "r11", "r12", "r13", "r14", "r15"}

NamesOf(r) == IF r = "rcx" THEN {"rsp", "rbp", "rsi", "rdi"} ELSE {r}

VARIABLE s

State == [regs : SUBSET Names,
          bytes : SUBSET Bytes, written : SUBSET Bytes, vague : SUBSET Bytes,
          hot : SUBSET HeapAddrs, shut : SUBSET HeapAddrs,
          ftaint : SUBSET Flags, funsure : SUBSET Flags]

Span(o) == (o.at - o.len) .. (o.at - 1)

HotReg(st, r) == NamesOf(r) \cap st.regs # {}

HotAddress(st, o) == \E r \in o.via : HotReg(st, r)

Clean == [taint |-> FALSE, unsure |-> FALSE]

\* Bytes nobody has written hold nothing known, and no secret either.
ReadStack(st, o) ==
  IF Span(o) \cap st.written = {} THEN [taint |-> FALSE, unsure |-> TRUE]
  ELSE [taint |-> HotAddress(st, o) \/ Span(o) \cap st.bytes # {},
        unsure |-> Span(o) \cap st.vague # {}]

ReadHeap(st, o) ==
  [taint |-> HotAddress(st, o) \/ o.at \in st.hot, unsure |-> TRUE]

Look(st, o) ==
  CASE o.kind = "reg" -> [taint |-> HotReg(st, o.r), unsure |-> FALSE]
    [] o.kind = "stack" -> ReadStack(st, o)
    [] o.kind = "heap" -> ReadHeap(st, o)
    [] OTHER -> Clean

AddIf(c, set, new) == IF c THEN set \cup new ELSE set \ new

StoreReg(st, o, res) ==
  [st EXCEPT !.regs = AddIf(res.taint, @, NamesOf(o.r))]

StoreStack(st, o, res) ==
  [st EXCEPT !.written = @ \cup Span(o),
             !.bytes = AddIf(res.taint \/ HotAddress(st, o), @, Span(o)),
             !.vague = AddIf(res.unsure, @, Span(o))]

\* A heap address is only ever marked; once a value that is not known has
\* been written to it, later marks are not seen.
StoreHeap(st, o, res, j) ==
  IF o.at \in st.shut THEN st
  ELSE [st EXCEPT
          !.hot = IF res.taint \/ HotAddress(st, o) \/ j.taint
                  THEN @ \cup {o.at} ELSE @,
          !.shut = IF res.unsure \/ j.unsure THEN @ \cup {o.at} ELSE @]

Store(st, o, res, j) ==
  CASE o.kind = "reg" -> StoreReg(st, o, res)
    [] o.kind = "stack" -> StoreStack(st, o, res)
    [] o.kind = "heap" -> StoreHeap(st, o, res, j)
    [] OTHER -> st

Either(a, b) ==
  [taint |-> a.taint \/ b.taint, unsure |-> a.unsure \/ b.unsure]

SetFlags(st, fs, res) ==
  [st EXCEPT !.ftaint = AddIf(res.taint, @, fs),
             !.funsure = AddIf(res.unsure, @, fs)]

Swap(st, i, j) ==
  Store(Store(st, i.src, Look(st, i.dst), j), i.dst, Look(st, i.src), j)

Pushed(st, i, j) ==
  IF i.src.kind \in {"reg", "none"}
  THEN Either(Look(st, i.src), j) ELSE Look(st, i.src)

Sum(st, i) == Either(Look(st, i.dst), Look(st, i.src))

\* The sign of rax spreads over the place, when rax is marked.
Spread(st, r) ==
  IF HotReg(st, "rax") THEN [st EXCEPT !.regs = @ \cup {r}] ELSE st

Effect(st, i, j) ==
  CASE i.op = "mov" -> Store(st, i.src, Look(st, i.src), j)
    [] i.op = "push" -> Store(st, i.dst, Pushed(st, i, j), j)
    [] i.op \in {"pop", "imul3"} -> Store(st, i.dst, Look(st, i.src), j)
    [] i.op = "xchg" -> Swap(st, i, j)
    [] i.op = "arith" -> Store(st, i.dst, Sum(st, i), j)
    [] i.op = "or" -> Store(Store(st, i.dst, Sum(st, i), j), i.dst, Sum(st, i), j)
    [] i.op = "imul0" -> Store(st, i.dst, Clean, j)
    [] i.op \in {"cdqe", "cwde"} -> Spread(st, "rax")
    [] i.op \in {"cdq", "cwd", "cqo"} -> Spread(st, "rdx")
    [] i.op = "cmp" -> SetFlags(st, Flags, Sum(st, i))
    [] i.op = "test" ->
         SetFlags(SetFlags(st, {"cf", "of"}, Clean), {"zf", "sf", "pf"}, Sum(st, i))
    [] i.op = "clc" -> SetFlags(st, {"cf"}, Clean)
    [] i.op = "setcc" ->
         Store(st, i.dst, SetByte(i.cc, i.val, st.ftaint, st.funsure), j)

Init == s \in State

Next == \E i \in Program, j \in Junk : s' = Effect(s, i, j)

Spec == Init /\ [][Next]_s
=============================================================================
