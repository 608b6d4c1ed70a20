------------------------------ MODULE Explore -------------------------------
(***************************************************************************)
(* The symbolic execution of a piece of code that a branch miss ended:     *)
(* symbolic_execution_prepare and the recursive symbolic_execution.  A     *)
(* frame follows the code from an instruction on; a conditional branch     *)
(* whose flags are not known is followed on both sides, one of them (for a *)
(* branch back, both) by a recursive call on a copy of the simulated       *)
(* registers, stack and heap.                                              *)
(*                                                                         *)
(* What an instruction does to the simulated values is left open: a plain  *)
(* one may end the path, and a branch is decided, undecided or has a       *)
(* target outside the code as it pleases.  Kept are the frames, their      *)
(* limits, and the copies: eight buffers of stack and heap, called one     *)
(* simulation, and the symbolic text of the registers beside them.         *)
(***************************************************************************)
EXTENDS Integers, Sequences, FiniteSets

CONSTANTS
  MaxSize,   \* instructions that the code may have
  MaxDepth,  \* MAX_SYMBOLIC_EXECUTION_DEEPTH
  MaxCycle   \* MAX_CYCLE_EXECUTION_DEEPTH

ASSUME ExploreAssumption ==
  MaxSize \in Nat \ {0} /\ MaxDepth \in Nat \ {0} /\ MaxCycle \in Nat \ {0}

VARIABLES
  size,     \* disassemble_info->size
  branch,   \* the instructions that are branches
  frames,   \* the calls of symbolic_execution under way, the last one on top
  phase,    \* "load", "prepare", "explore", "done"
  result,   \* what symbolic_execution_prepare returns
  sims,     \* simulations allocated and not freed
  texts,    \* symbolic texts allocated and not freed
  fault,    \* "none", "null": a copy from NULL, "wild": kvfree of no buffer of ours
  judged,   \* history: judge_attack has found an attack
  dropped   \* history: forks left without freeing their copies

exploreVars == <<size, branch, frames, phase, result, sims, texts, fault, judged, dropped>>

(* A call: index, limitaition and cycle; what it does - "run" on, wait for *)
(* the side ahead ("fwd"), for the instructions after a branch back        *)
(* ("fall") or for its target ("back"), or has returned 0 ("none") or 1    *)
(* ("attack") - and that target; of the values it works on, the            *)
(* instruction that ran on them last, whether their symbolic pointer is    *)
(* set, and whether an undecided branch was met on them (history).         *)
Waiting == {"fwd", "fall", "back"}
Returned == {"none", "attack"}
Frame == [at : Nat, lim : Nat, cyc : Nat, mode : {"run"} \cup Waiting \cup Returned,
          to : Nat, last : Nat, text : BOOLEAN, forked : BOOLEAN]

Call(at, lim, cyc, last, text, forked) ==
  [at |-> at, lim |-> lim, cyc |-> cyc, mode |-> "run", to |-> 0,
   last |-> last, text |-> text, forked |-> forked]

Depth == Len(frames)
Top == frames[Depth]
SetTop(f) == frames' = [frames EXCEPT ![Depth] = f]
Return(mode) == SetTop([Top EXCEPT !.mode = mode])

ExploreInit ==
  /\ size = 0 /\ branch = {}
  /\ frames = <<>> /\ phase = "load" /\ result = 0
  /\ sims = 0 /\ texts = 0 /\ fault = "none" /\ judged = FALSE /\ dropped = 0
-----------------------------------------------------------------------------
(* The disassembler leaves n instructions, one of them a branch or not.    *)
Load(n) ==
  /\ phase = "load"
  /\ phase' = "prepare"
  /\ size' = n /\ branch' \in SUBSET (0 .. n - 1)
  /\ UNCHANGED <<frames, result, sims, texts, fault, judged, dropped>>

(* symbolic_execution_prepare gives up: no memory, or the first            *)
(* instruction loads nothing that could be tainted.                        *)
PrepareFails ==
  /\ phase = "prepare" /\ fault = "none"
  /\ phase' = "done"
  /\ UNCHANGED <<size, branch, frames, result, sims, texts, fault, judged, dropped>>

(* Without a buffer for the stack it frees the heap's pointers as well,    *)
(* which are not set yet.                                                  *)
PrepareFreesWild ==
  /\ phase = "prepare" /\ fault = "none"
  /\ fault' = "wild"
  /\ UNCHANGED <<size, branch, frames, phase, result, sims, texts, judged, dropped>>

(* The first call starts behind the instruction that missed the cache.     *)
Prepare ==
  /\ phase = "prepare" /\ fault = "none"
  /\ phase' = "explore"
  /\ frames' = <<Call(1, 0, 0, 0, TRUE, FALSE)>>
  /\ sims' = 1 /\ texts' = 1
  /\ UNCHANGED <<size, branch, result, fault, judged, dropped>>

Finish ==
  /\ phase = "explore" /\ Depth = 1 /\ Top.mode \in Returned
  /\ phase' = "done" /\ frames' = <<>>
  /\ result' = IF Top.mode = "attack" THEN 1 ELSE 0
  /\ sims' = sims - 1
  /\ texts' = texts - (IF Top.text THEN 1 ELSE 0)
  /\ UNCHANGED <<size, branch, fault, judged, dropped>>
-----------------------------------------------------------------------------
(* The loop of symbolic_execution.                                         *)
InLoop == Top.lim < MaxDepth /\ Top.at < size /\ Top.cyc < MaxCycle
Running == phase = "explore" /\ fault = "none" /\ Top.mode = "run"
AtBranch == Running /\ InLoop /\ Top.at \in branch /\ Top.at # size - 1

LeaveLoop ==
  /\ Running /\ ~InLoop
  /\ Return("none")
  /\ UNCHANGED <<size, branch, phase, result, sims, texts, fault, judged, dropped>>

Goto(at) == [Top EXCEPT !.at = at, !.lim = @ + 1, !.last = Top.at]

(* symbolic_execution_one_step of a plain instruction.                     *)
Step ==
  /\ Running /\ InLoop /\ Top.at \notin branch
  /\ \/ SetTop(Goto(Top.at + 1))
     \/ Return("none")
  /\ UNCHANGED <<size, branch, phase, result, sims, texts, fault, judged, dropped>>

(* The code ends with the branch that was missed: judge_attack.            *)
Judge ==
  /\ Running /\ InLoop /\ Top.at \in branch /\ Top.at = size - 1
  /\ \/ Return("attack") /\ judged' = TRUE
     \/ Return("none") /\ UNCHANGED judged
  /\ UNCHANGED <<size, branch, phase, result, sims, texts, fault, dropped>>

(* Not taken: the next instruction runs here, with its result ignored, and *)
(* the loop comes to it again.                                             *)
NotTaken ==
  /\ AtBranch
  /\ SetTop([Goto(Top.at + 1) EXCEPT !.last = Top.at + 1])
  /\ UNCHANGED <<size, branch, phase, result, sims, texts, fault, judged, dropped>>

(* Taken, or a jump: to an instruction of the code other than the first.   *)
Taken ==
  /\ AtBranch
  /\ \/ \E new \in 1 .. size - 1 : SetTop(Goto(new))
     \/ Return("none")
  /\ UNCHANGED <<size, branch, phase, result, sims, texts, fault, judged, dropped>>

(* A call or a return ends the path.                                       *)
CallOrRet ==
  /\ AtBranch
  /\ Return("none")
  /\ UNCHANGED <<size, branch, phase, result, sims, texts, fault, judged, dropped>>
-----------------------------------------------------------------------------
(* Undecided.  copy_simulation_info fails: what it allocated is freed, and *)
(* so is the symbolic text of the source.                                  *)
CopyFails ==
  /\ AtBranch
  /\ SetTop([Top EXCEPT !.mode = "none", !.text = FALSE, !.forked = TRUE])
  /\ texts' = texts - (IF Top.text THEN 1 ELSE 0)
  /\ UNCHANGED <<size, branch, phase, result, sims, fault, judged, dropped>>

(* It fails before the heap's or the registers' pointers of the copy are   *)
(* set, and frees them as they are.                                        *)
CopyFreesWild ==
  /\ AtBranch
  /\ fault' = "wild"
  /\ UNCHANGED <<size, branch, frames, phase, result, sims, texts, judged, dropped>>

(* The symbolic text of the source has been freed: memcpy from NULL.       *)
CopyFromNull ==
  /\ AtBranch /\ ~Top.text
  /\ fault' = "null"
  /\ UNCHANGED <<size, branch, frames, phase, result, sims, texts, judged, dropped>>

(* Copied, but the target is not known or not in the code: return 0, with  *)
(* the copies still allocated.                                             *)
ForkDropped ==
  /\ AtBranch /\ Top.text
  /\ SetTop([Top EXCEPT !.mode = "none", !.forked = TRUE])
  /\ sims' = sims + 1 /\ texts' = texts + 1 /\ dropped' = dropped + 1
  /\ UNCHANGED <<size, branch, phase, result, fault, judged>>

Forked(mode, to) ==
  [Top EXCEPT !.mode = mode, !.to = to, !.last = Top.at, !.forked = TRUE]
Push(f, g) == frames' = Append([frames EXCEPT ![Depth] = f], g)

\* A mutant of ForkFwd.
FwdWithoutText(new) ==
  /\ AtBranch /\ Top.text
  /\ new \in Top.at + 1 .. size - 1
  /\ Push(Forked("fwd", new), Call(new, Top.lim + 1, Top.cyc, Top.at, FALSE, FALSE))
  /\ sims' = sims + 1 /\ texts' = texts + 1
  /\ UNCHANGED <<size, branch, phase, result, fault, judged, dropped>>
(* A branch ahead: its target first.                                       *)
ForkFwd(new) ==
  /\ AtBranch /\ Top.text
  /\ new \in Top.at + 1 .. size - 1
  /\ Push(Forked("fwd", new), Call(new, Top.lim + 1, Top.cyc, Top.at, TRUE, FALSE))
  /\ sims' = sims + 1 /\ texts' = texts + 1
  /\ UNCHANGED <<size, branch, phase, result, fault, judged, dropped>>

\* A mutant of ForkBack.
BackAgain(new) ==
  /\ AtBranch /\ Top.text
  /\ new \in 0 .. Top.at
  /\ Push(Forked("fall", new), Call(Top.at, Top.lim, Top.cyc, Top.at, TRUE, FALSE))
  /\ sims' = sims + 1 /\ texts' = texts + 1
  /\ UNCHANGED <<size, branch, phase, result, fault, judged, dropped>>
(* A branch back: first the instructions after it, and limitaition stays.  *)
ForkBack(new) ==
  /\ AtBranch /\ Top.text
  /\ new \in 0 .. Top.at
  /\ Push(Forked("fall", new), Call(Top.at + 1, Top.lim, Top.cyc, Top.at, TRUE, FALSE))
  /\ sims' = sims + 1 /\ texts' = texts + 1
  /\ UNCHANGED <<size, branch, phase, result, fault, judged, dropped>>
-----------------------------------------------------------------------------
(* A recursive call has returned to its caller.                            *)
Child == Top
Caller == frames[Depth - 1]
Back == phase = "explore" /\ fault = "none" /\ Depth > 1 /\ Child.mode \in Returned
Below(f) == frames' = [SubSeq(frames, 1, Depth - 1) EXCEPT ![Depth - 1] = f]

(* free_simulation_info of the copied stack and heap, but of the caller's  *)
(* own symbolic text.                                                      *)
FreeCopy ==
  /\ sims' = sims - 1
  /\ texts' = texts - (IF Caller.text THEN 1 ELSE 0)

(* An attack is handed up.                                                 *)
HandUpAttack ==
  /\ Back /\ Child.mode = "attack"
  /\ Below([Caller EXCEPT !.mode = "attack", !.text = FALSE])
  /\ FreeCopy
  /\ UNCHANGED <<size, branch, phase, result, fault, judged, dropped>>

\* A mutant of FwdFoundNothing.
FwdFoundSharing ==
  /\ Back /\ Child.mode = "none" /\ Caller.mode = "fwd"
  /\ Below([Caller EXCEPT !.mode = "run", !.at = @ + 1, !.lim = @ + 1, !.text = FALSE,
                          !.last = Child.last])
  /\ FreeCopy
  /\ UNCHANGED <<size, branch, phase, result, fault, judged, dropped>>
\* A mutant of FwdFoundNothing.
FwdFoundKeeping ==
  /\ Back /\ Child.mode = "none" /\ Caller.mode = "fwd"
  /\ Below([Caller EXCEPT !.mode = "run", !.at = @ + 1, !.lim = @ + 1, !.text = FALSE])
  /\ UNCHANGED <<size, branch, phase, result, sims, texts, fault, judged, dropped>>
(* Nothing ahead: on with the instructions after the branch.               *)
FwdFoundNothing ==
  /\ Back /\ Child.mode = "none" /\ Caller.mode = "fwd"
  /\ Below([Caller EXCEPT !.mode = "run", !.at = @ + 1, !.lim = @ + 1, !.text = FALSE])
  /\ FreeCopy
  /\ UNCHANGED <<size, branch, phase, result, fault, judged, dropped>>

\* A mutant of FallFoundNothing.
FallIgnoresResult ==
  /\ Back /\ Caller.mode = "fall"
  /\ frames' = [frames EXCEPT
       ![Depth - 1] = [Caller EXCEPT !.mode = "back"],
       ![Depth] = Call(Caller.to, Caller.lim + 1, Caller.cyc + 1,
                       Child.last, Child.text, Child.forked)]
  /\ UNCHANGED <<size, branch, phase, result, sims, texts, fault, judged, dropped>>
(* Nothing after a branch back: to its target, on the copy that the first  *)
(* call has worked on.                                                     *)
FallFoundNothing ==
  /\ Back /\ Child.mode = "none" /\ Caller.mode = "fall"
  /\ frames' = [frames EXCEPT
       ![Depth - 1] = [Caller EXCEPT !.mode = "back"],
       ![Depth] = Call(Caller.to, Caller.lim + 1, Caller.cyc + 1,
                       Child.last, Child.text, Child.forked)]
  /\ UNCHANGED <<size, branch, phase, result, sims, texts, fault, judged, dropped>>

(* Nothing there either: return 0, with the copies still allocated.        *)
BackFoundNothing ==
  /\ Back /\ Child.mode = "none" /\ Caller.mode = "back"
  /\ Below([Caller EXCEPT !.mode = "none"])
  /\ dropped' = dropped + 1
  /\ UNCHANGED <<size, branch, phase, result, sims, texts, fault, judged>>
-----------------------------------------------------------------------------
Fork == \E new \in 0 .. size - 1 : ForkFwd(new) \/ ForkBack(new)
HandUp == HandUpAttack \/ FwdFoundNothing \/ FallFoundNothing \/ BackFoundNothing

Execute ==
  \/ PrepareFails \/ PrepareFreesWild \/ Prepare \/ Finish
  \/ LeaveLoop \/ Step \/ Judge \/ NotTaken \/ Taken \/ CallOrRet
  \/ CopyFails \/ CopyFreesWild \/ CopyFromNull \/ ForkDropped \/ Fork
  \/ HandUp

ExploreNext == (\E n \in 1 .. MaxSize : Load(n)) \/ Execute

ExploreSpec == ExploreInit /\ [][ExploreNext]_exploreVars
-----------------------------------------------------------------------------
ExploreTypeOK ==
  /\ size \in 0 .. MaxSize /\ branch \in SUBSET (0 .. size - 1)
  /\ frames \in Seq(Frame)
  /\ phase \in {"load", "prepare", "explore", "done"}
  /\ phase = "explore" <=> frames # <<>>
  /\ result \in {0, 1} /\ sims \in Int /\ texts \in Int /\ dropped \in Nat
  /\ fault \in {"none", "null", "wild"} /\ judged \in BOOLEAN

(* The values that a frame works on come from the instruction that the     *)
(* code runs before, by falling through or by a branch.  The exceptions    *)
(* are the source's: the instruction after a branch not taken, which runs  *)
(* twice, and the target of an undecided branch back, which starts on what *)
(* the other side has left (symbolic_execution).                           *)
Follows(f) == f.at = f.last + 1 \/ f.last \in branch
RunsTwice(f) == f.at = f.last /\ f.at - 1 \in branch
TakesUpCopy(i) ==
  i > 1 /\ frames[i - 1].mode = "back"
  /\ frames[i].at = frames[i - 1].to /\ frames[i].lim = frames[i - 1].lim + 1
OwnPath ==
  \A i \in 1 .. Depth :
    frames[i].mode = "run" => Follows(frames[i]) \/ RunsTwice(frames[i]) \/ TakesUpCopy(i)

(* An attack found in any of the calls is what prepare returns, and no     *)
(* call runs an instruction after it was found.                            *)
AttackIsHandedUp ==
  /\ judged => \A i \in 1 .. Depth : frames[i].mode # "run"
  /\ phase = "done" => (result = 1 <=> judged)

(* The simulations allocated are those of the calls under way and those    *)
(* that the return statements behind a copy forget; and every symbolic     *)
(* pointer that is set points to a live text.                              *)
ForksOpen == {i \in 1 .. Depth : frames[i].mode \in Waiting}
CopiesAccounted ==
  /\ fault = "none" =>
       sims = Cardinality(ForksOpen) + dropped + (IF phase = "explore" THEN 1 ELSE 0)
  /\ texts >= Cardinality({i \in 1 .. Depth : frames[i].text})

(* A symbolic pointer that is not set is of values that met an undecided   *)
(* branch before, and only the copy for a second one reads from NULL       *)
(* (free_simulation_info gets the caller's registers).                     *)
NullIsSecondFork ==
  /\ \A i \in 1 .. Depth : frames[i].mode = "run" /\ ~frames[i].text => frames[i].forked
  /\ fault = "null" => Top.forked

(* Every call is farther in limitaition and index than its caller, so that *)
(* they are never more than limits and instructions allow - though not the *)
(* fifty that limitaition alone would.                                     *)
Position(f) == f.lim * MaxSize + f.at
CallsAdvance ==
  /\ \A i \in 1 .. Depth : frames[i].at <= size /\ frames[i].lim <= MaxDepth
  /\ \A i \in 1 .. Depth : Position(frames[i]) >= i
  /\ \A i \in 2 .. Depth : Position(frames[i]) > Position(frames[i - 1])
=============================================================================
