------------------------------ MODULE TaineStep ------------------------------
(***************************************************************************)
(* One path of the kernel module's symbolic execution, an instruction at a *)
(* time (symbolic_execution_one_step and what it calls), in the words and  *)
(* bit maps the program keeps: which registers, bytes of the simulated     *)
(* stack, heap addresses and flags the missed load has reached.            *)
(*                                                                         *)
(* Values are left out: an instruction's memory operand comes with the     *)
(* place its address has at that moment, any of those the Program names.   *)
(* `at' is rbp_offset + offset, the index one past the operand's highest   *)
(* byte in the maps; addresses whose offset is not in -504 .. 512 go to    *)
(* the heap log.  An instruction is the kind of work its mnemonic selects; *)
(* those that select none (shifts, xor, cmov, lea, mul, div, nop, a lock   *)
(* prefix) move no taint and are not listed.                               *)
(***************************************************************************)
EXTENDS TaineFlags, Sequences

CONSTANTS
  Half,        \* SIMULATION_STACK_SIZE / 2 (512)
  HeapSize,    \* entries of the heap log (128)
  HeapAddrs, Program, Junk, Leftovers,
  MaxSteps     \* MAX_SYMBOLIC_EXECUTION_DEEPTH (50)

Regs == {"rax", "rcx", "rdx", "rbx", "rsp", "rbp", "rsi", "rdi",
         "r8", "r9", "r10", "r11", "r12", "r13", "r14", "r15"}

Words == 0 .. (Half \div 4) - 1

Maps == [Words -> SUBSET (0 .. 7)]

Operands ==
  [kind : {"reg"}, r : Regs] \cup [kind : {"imm", "none"}]
  \cup [kind : {"stack"}, at : 8 .. 2 * Half, len : {1, 2, 4, 8}, via : SUBSET Regs]
  \cup [kind : {"heap"}, at : HeapAddrs, via : SUBSET Regs]

Ops == {"mov", "push", "pop", "xchg", "arith", "or", "imul0", "imul3",
        "cdqe", "cdq", "cwde", "cwd", "cqo", "cmp", "test", "clc", "setcc"}

Results == [taint : BOOLEAN, unsure : BOOLEAN]

\* The maps' bytes are one per eight bytes of the stack.  The Program is any
\* set of instructions; Junk and Leftovers are what fresh memory may hold.
ASSUME TaineStepAssumption ==
  /\ Half \in Nat /\ Half % 8 = 0 /\ Half >= 8
  /\ HeapSize \in Nat /\ MaxSteps \in Nat
  /\ \A i \in Program :
       /\ i.op \in Ops
       /\ i.src \in Operands /\ i.dst \in Operands
       /\ i.cc \in SetNames /\ i.val \in SUBSET Flags
  /\ Junk \subseteq Results
  /\ Leftovers \subseteq Maps

VARIABLES
  m,        \* the four structures: register map, stack, heap and flags
  steps     \* limitaition

vars == <<m, steps>>

-----------------------------------------------------------------------------
(***************************************************************************)
(* Registers: registers_can_break, and `registers' as bits 16 .. 31.       *)
(***************************************************************************)
Mask == [rax |-> 0 .. 3, rcx |-> 4 .. 7, rdx |-> 8 .. 11, rbx |-> 12 .. 15,
         rsp |-> {4}, rbp |-> {5}, rsi |-> {6}, rdi |-> {7},
         r8 |-> {24}, r9 |-> {25}, r10 |-> {26}, r11 |-> {27},
         r12 |-> {28}, r13 |-> {29}, r14 |-> {30}, r15 |-> {31}]

GetRegister(w, r) == w \cap Mask[r] # {}

SetRegister(w, r, taint) == IF taint THEN w \cup Mask[r] ELSE w \ Mask[r]

(***************************************************************************)
(* The maps of the simulated stack: a run of len bits ending before pos,   *)
(* split over two bytes where it crosses one.                              *)
(***************************************************************************)
Low(n) == 0 .. n - 1                    \* map[n]

Shifted(n, by) == {b \in 0 .. 7 : b >= by /\ b - by < n}   \* map[n] << by

First(pos, len) == (pos - len) \div 8

Inline(pos, len) == (pos - len) % 8

Crosses(pos, len) == 8 - Inline(pos, len) < len

\* The bits of byte w of the map that the run takes.
RunBits(pos, len, w) ==
  IF Crosses(pos, len)
  THEN CASE w = First(pos, len) ->
              Shifted(8 - Inline(pos, len), Inline(pos, len))
         [] w = First(pos, len) + 1 -> Low(len + Inline(pos, len) - 8)
         [] OTHER -> {}
  ELSE IF w = First(pos, len) THEN Shifted(len, Inline(pos, len)) ELSE {}

SetBits(map, pos, len) == [w \in Words |-> map[w] \cup RunBits(pos, len, w)]

\* A mutant: the part of the run beyond the first byte stays.
UnsetFirst(map, pos, len) ==
  [w \in Words |->
     IF w = First(pos, len) THEN map[w] \ RunBits(pos, len, w) ELSE map[w]]

UnsetBits(map, pos, len) == [w \in Words |-> map[w] \ RunBits(pos, len, w)]

GetBits(map, pos, len) == \E w \in Words : map[w] \cap RunBits(pos, len, w) # {}

PutBits(c, map, pos, len) ==
  IF c THEN SetBits(map, pos, len) ELSE UnsetBits(map, pos, len)

-----------------------------------------------------------------------------
(***************************************************************************)
(* Operands: what is read from one and written to one.  A result carries   *)
(* the taint and whether its value is unknown; registers are never unknown *)
(* since set_dest_operator does not mark them.                             *)
(***************************************************************************)
Nothing == [taint |-> FALSE, unsure |-> FALSE]

TaintedAddress(mm, o) == \E r \in o.via : GetRegister(mm.regs, r)

\* The search stops at the first entry whose value is unknown.
HeapTaint(heap, at) ==
  \E k \in 1 .. Len(heap) :
    /\ heap[k].at = at /\ heap[k].taint
    /\ \A n \in 1 .. k - 1 : heap[n].at = at => ~heap[n].unsure

\* Whatever the log holds, the value is left unknown at its end.
AnalyzeHeap(mm, o) ==
  [taint |-> TaintedAddress(mm, o) \/ HeapTaint(mm.heap, o.at), unsure |-> TRUE]

AnalyzeStack(mm, o) ==
  IF GetBits(mm.set, o.at, o.len)
  THEN [taint |-> TaintedAddress(mm, o) \/ GetBits(mm.taines, o.at, o.len),
        unsure |-> GetBits(mm.unsure, o.at, o.len)]
  ELSE [taint |-> FALSE, unsure |-> TRUE]

AnalyzeSource(mm, o) ==
  CASE o.kind = "reg" -> [taint |-> GetRegister(mm.regs, o.r), unsure |-> FALSE]
    [] o.kind = "stack" -> AnalyzeStack(mm, o)
    [] o.kind = "heap" -> AnalyzeHeap(mm, o)
    [] OTHER -> Nothing

\* A slot of the log is taken over as it is: the marks are only ever set.
SetHeap(mm, o, res, j) ==
  [mm EXCEPT !.heap =
     Append(@, [at |-> o.at,
                taint |-> res.taint \/ TaintedAddress(mm, o) \/ j.taint,
                unsure |-> res.unsure \/ j.unsure])]

SetStack(mm, o, res) ==
  [mm EXCEPT !.set = SetBits(@, o.at, o.len),
             !.taines = PutBits(res.taint \/ TaintedAddress(mm, o), @, o.at, o.len),
             !.unsure = PutBits(res.unsure, @, o.at, o.len)]

SetDest(mm, o, res, j) ==
  CASE o.kind = "reg" -> [mm EXCEPT !.regs = SetRegister(@, o.r, res.taint)]
    [] o.kind = "stack" -> SetStack(mm, o, res)
    [] o.kind = "heap" -> SetHeap(mm, o, res, j)
    [] OTHER -> mm

-----------------------------------------------------------------------------
(***************************************************************************)
(* The instructions.                                                       *)
(***************************************************************************)
Both(a, b) == [taint |-> a.taint \/ b.taint, unsure |-> a.unsure \/ b.unsure]

\* mov, movzx, movsx: what is read from Operand2 is written back to Operand2.
Mov(mm, i, j) == SetDest(mm, i.src, AnalyzeSource(mm, i.src), j)

\* The result is not cleared first, and only a constant or a memory operand
\* sets it as a whole.  i.dst is the place rsp points to.
Push(mm, i, j) ==
  LET res == AnalyzeSource(mm, i.src)
  IN  SetDest(mm, i.dst,
              IF i.src.kind \in {"reg", "none"} THEN Both(res, j) ELSE res, j)

\* pop, and imul with three operands: Operand1 takes the other's taint.
Load(mm, i, j) == SetDest(mm, i.dst, AnalyzeSource(mm, i.src), j)

Xchg(mm, i, j) ==
  LET one == AnalyzeSource(mm, i.dst)
      two == AnalyzeSource(mm, i.src)
  IN  SetDest(SetDest(mm, i.src, one, j), i.dst, two, j)

\* compute_operator and logic_al_operator, as far as marks go: add, adc, inc,
\* sub, sbb, dec, neg, imul with two operands, not, and.
Combine(mm, i, j) ==
  SetDest(mm, i.dst, Both(AnalyzeSource(mm, i.dst), AnalyzeSource(mm, i.src)), j)

\* or runs the code of xor after its own, on the operands read before.
Or(mm, i, j) ==
  LET res == Both(AnalyzeSource(mm, i.dst), AnalyzeSource(mm, i.src))
  IN  SetDest(SetDest(mm, i.dst, res, j), i.dst, res, j)

\* imul by the constant 0.
ImulZero(mm, i, j) == SetDest(mm, i.dst, Nothing, j)

\* exec_cwd_and: the bits of rax looked at, and those set.
WidenFrom == [cdqe |-> 0 .. 2, cdq |-> 0 .. 2, cwde |-> 0 .. 1,
              cwd |-> 0 .. 1, cqo |-> 0 .. 3]

WidenTo == [cdqe |-> 0 .. 3, cdq |-> 8 .. 10, cwde |-> 0 .. 2,
            cwd |-> 8 .. 9, cqo |-> 8 .. 11]

Widen(mm, op) ==
  IF mm.regs \cap WidenFrom[op] # {}
  THEN [mm EXCEPT !.regs = @ \cup WidenTo[op]] ELSE mm

PutFlags(c, fs, new) == IF c THEN fs \cup new ELSE fs \ new

SetMarks(mm, new, res) ==
  [mm EXCEPT !.rflags = PutFlags(res.taint, @, new),
             !.rflags_unsure = PutFlags(res.unsure, @, new)]

Cmp(mm, i) ==
  SetMarks(mm, Flags, Both(AnalyzeSource(mm, i.dst), AnalyzeSource(mm, i.src)))

\* test_set_flag
Test(mm, i) ==
  SetMarks(SetMarks(mm, {"cf", "of"}, Nothing), {"zf", "sf", "pf"},
           Both(AnalyzeSource(mm, i.dst), AnalyzeSource(mm, i.src)))

\* clc and stc
ClearCarry(mm) == SetMarks(mm, {"cf"}, Nothing)

Setcc(mm, i, j) ==
  SetDest(mm, i.dst, SetByte(i.cc, i.val, mm.rflags, mm.rflags_unsure), j)

OneStep(mm, i, j) ==
  CASE i.op = "mov" -> Mov(mm, i, j)
    [] i.op = "push" -> Push(mm, i, j)
    [] i.op \in {"pop", "imul3"} -> Load(mm, i, j)
    [] i.op = "xchg" -> Xchg(mm, i, j)
    [] i.op = "arith" -> Combine(mm, i, j)
    [] i.op = "or" -> Or(mm, i, j)
    [] i.op = "imul0" -> ImulZero(mm, i, j)
    [] i.op \in DOMAIN WidenFrom -> Widen(mm, i.op)
    [] i.op = "cmp" -> Cmp(mm, i)
    [] i.op = "test" -> Test(mm, i)
    [] i.op = "clc" -> ClearCarry(mm)
    [] i.op = "setcc" -> Setcc(mm, i, j)

-----------------------------------------------------------------------------
\* updata_register_taine_map marks the registers of the load that missed, or
\* the flags when it is a compare.
Marked(regs, flags) ==
  [regs |-> regs, rflags |-> flags, rflags_unsure |-> {}, heap |-> <<>>]

Start == {Marked(Mask[r], {}) : r \in Regs} \cup {Marked({}, Flags)}

Fresh(x, set, taines, unsure) ==
  [regs |-> x.regs, rflags |-> x.rflags, rflags_unsure |-> x.rflags_unsure,
   heap |-> x.heap, set |-> set, taines |-> taines, unsure |-> unsure]

\* symbolic_execution_prepare does not clear the maps of the stack.
Init ==
  /\ \E x \in Start, a, b, c \in Leftovers : m = Fresh(x, a, b, c)
  /\ steps = 0

Exec(i, j) ==
  /\ steps < MaxSteps
  /\ Len(m.heap) + 2 <= HeapSize
  /\ m' = OneStep(m, i, j)
  /\ steps' = steps + 1

Next == \E i \in Program, j \in Junk : Exec(i, j)

Spec == Init /\ [][Next]_vars

-----------------------------------------------------------------------------
(***************************************************************************)
(* Properties.                                                             *)
(***************************************************************************)
Bytes == 0 .. 2 * Half - 1

InMap(map) == {b \in Bytes : b % 8 \in map[b \div 8]}

\* An entry of the log for the address whose value is unknown.
HeapShut(heap, at) ==
  \E k \in 1 .. Len(heap) : heap[k].at = at /\ heap[k].unsure

ByName(mm) ==
  [regs |-> {r \in Regs \ {"rcx"} : GetRegister(mm.regs, r)},
   bytes |-> InMap(mm.taines), written |-> InMap(mm.set), vague |-> InMap(mm.unsure),
   hot |-> {a \in HeapAddrs : HeapTaint(mm.heap, a)},
   shut |-> {a \in HeapAddrs : HeapShut(mm.heap, a)},
   ftaint |-> mm.rflags, funsure |-> mm.rflags_unsure]

Store == INSTANCE TaineStore WITH s <- ByName(m)

\* The words, masks, bit runs and the log keep exactly the marks of the places
\* by name: no instruction loses or moves the mark of a place it does not
\* write, also where an operand crosses a byte of the map or reaches its ends.
ImplementsStore == Store!Spec

\* The branch that ends the missed path is reported exactly when the marked
\* flags alone can turn it round: judge_attack reads the flags the condition
\* depends on, no fewer and no more.
Turning == [t \in FlagBranches |-> {taint \in SUBSET Flags : DependsOn(t, taint)}]

JudgesWhatItDependsOn ==
  \A t \in FlagBranches : JudgeAttack(t, m.rflags) <=> m.rflags \in Turning[t]

\* Branches whose answer is right whatever the flags hold: all but jna and
\* the negations of a single flag other than CF.
RightBranches == {1, 2, 3, 4, 5, 6, 7, 8, 9, -2, -7, -8, -9}

\* What analyze_branch_instruction answers on the path is what the condition
\* is for every value of the flags that are not known: it forks exactly when
\* both outcomes are left.
Right(unsure) ==
  \A t \in RightBranches, val \in SUBSET Flags : AnswerIsCondition(t, val, unsure)

AnsweredRight == {unsure \in SUBSET Flags : Right(unsure)}

AnswersSettled == m.rflags_unsure \in AnsweredRight

\* "JNE ZF=0" (pebs_taine_tool.c:444): a jne is taken when ZF is known and 0.
JneTaken ==
  \A val \in SUBSET Flags :
    "zf" \notin m.rflags_unsure /\ "zf" \notin val
      => Answer(-3, val, m.rflags_unsure) = 1
=============================================================================
