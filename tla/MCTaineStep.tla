----------------------------- MODULE MCTaineStep -----------------------------
(***************************************************************************)
(* A stack of 32 bytes (window 8 .. 32), one heap address, operands that   *)
(* lie in one byte of the map, fill one, cross one and touch both ends.    *)
(***************************************************************************)
EXTENDS TaineStep

Reg(r) == [kind |-> "reg", r |-> r]
Stack(at, len, via) == [kind |-> "stack", at |-> at, len |-> len, via |-> via]
Heap(via) == [kind |-> "heap", at |-> "h", via |-> via]
Imm == [kind |-> "imm"]

Plain == {Reg("rax"), Reg("rcx"), Reg("rsi"), Reg("r8")}
Memory == {Stack(20, 8, {}), Stack(16, 1, {"rsi"}), Stack(8, 8, {}),
           Stack(32, 4, {"rsp", "rax"}), Heap({}), Heap({"rsi"})}
Slot == Stack(24, 8, {"rsp"})

Ins(op, dst, src) == [op |-> op, dst |-> dst, src |-> src, cc |-> "o", val |-> {}]

Pairs == {<<Reg("rcx"), Reg("r8")>>, <<Reg("rax"), Stack(20, 8, {})>>,
          <<Stack(16, 1, {"rsi"}), Reg("rsi")>>, <<Reg("rsi"), Heap({})>>,
          <<Heap({"rsi"}), Reg("rax")>>}

MCProgram ==
  {Ins("mov", Reg("r8"), x) : x \in {Reg("rcx")} \cup Memory}
  \cup {Ins("push", Slot, x) : x \in {Reg("rax"), Reg("rcx"), Imm, Heap({})}}
  \cup {Ins("pop", x, Slot) : x \in Plain \cup Memory}
  \cup {Ins(op, p[1], p[2]) : op \in {"xchg", "arith", "cmp", "test"}, p \in Pairs}
  \cup {Ins("or", x, Reg("r8")) : x \in {Stack(32, 4, {"rsp", "rax"}), Heap({})}}
  \cup {Ins("imul0", Reg("rcx"), Imm), Ins("imul3", Reg("rax"), Stack(8, 8, {}))}
  \cup {Ins(op, Imm, Imm) : op \in {"cdqe", "cdq", "cwde", "cwd", "cqo", "clc"}}
  \cup {[Ins("setcc", Reg("rax"), Imm) EXCEPT !.cc = c] : c \in {"e", "be", "nle", "l"}}

MCJunk == {[taint |-> FALSE, unsure |-> FALSE], [taint |-> TRUE, unsure |-> FALSE],
           [taint |-> FALSE, unsure |-> TRUE]}

MCLeftovers == {[w \in Words |-> IF w = 1 THEN {} ELSE {1, 4}]}
=============================================================================
