-------------------------- MODULE TaineAnalyzeProof --------------------------
(***************************************************************************)
(* Proofs about pebs_taine_analyze and the symbolic execution it runs, for *)
(* codes of every length, every bound on depth and cycles, every page and  *)
(* list size.  First the calls of symbolic_execution, then the copies they *)
(* make, then the analysis of a record, which takes their steps.           *)
(***************************************************************************)
EXTENDS TaineAnalyze, FiniteSetTheorems, TLAPS

(* What holds of every call, whatever is above it.                         *)
CallInv(f) ==
  /\ f.at <= size /\ f.lim <= MaxDepth
  /\ ~f.text => f.forked
  /\ f.mode \in Waiting =>
       /\ f.at < size /\ f.to < size /\ f.lim < MaxDepth
       /\ f.at \in branch /\ f.last = f.at /\ f.forked

Comes(fs, i) ==
  \/ Follows(fs[i]) \/ RunsTwice(fs[i])
  \/ i > 1 /\ fs[i - 1].mode = "back" /\ fs[i].at = fs[i - 1].to
     /\ fs[i].lim = fs[i - 1].lim + 1

(* The calls under way: only the one on top does not wait.                 *)
StackInv(fs) ==
  /\ fs \in Seq(Frame)
  /\ \A i \in 1 .. Len(fs) :
       /\ CallInv(fs[i]) /\ Position(fs[i]) >= i
       /\ i < Len(fs) => fs[i].mode \in Waiting
       /\ fs[i].mode = "run" => Comes(fs, i)
  /\ \A i \in 2 .. Len(fs) : Position(fs[i]) > Position(fs[i - 1])

PhaseInv ==
  /\ phase \in {"load", "prepare"} => ~judged /\ result = 0
  /\ phase = "explore" => (judged <=> Top.mode = "attack") /\ result = 0
  /\ phase = "done" => (result = 1 <=> judged)
  /\ phase \in {"load", "done"} => fault = "none"
  /\ fault = "null" => phase = "explore" /\ Top.forked
  /\ fault # "none" /\ phase = "explore" => Top.mode = "run"

ExploreInv ==
  /\ ExploreTypeOK
  /\ phase = "load" \/ size > 0
  /\ StackInv(frames)
  /\ PhaseInv
-----------------------------------------------------------------------------
(* A call that moves on, returns or is left waiting keeps its place.       *)
LEMMA PositionNat ==
  ASSUME NEW f \in Frame PROVE Position(f) \in Nat
<1>1. f.lim \in Nat /\ f.at \in Nat /\ MaxSize \in Nat  BY ExploreAssumption DEF Frame
<1>2. \A a, b \in Nat : a * b \in Nat  OBVIOUS
<1> QED  BY <1>1, <1>2 DEF Position

LEMMA LaterLimit ==
  ASSUME NEW f \in Frame, NEW g \in Frame, g.lim = f.lim + 1, f.at < size, size \in 0 .. MaxSize
  PROVE  Position(g) > Position(f)
<1>1. f.lim \in Nat /\ f.at \in Nat /\ g.at \in Nat /\ MaxSize \in Nat
  BY ExploreAssumption DEF Frame
<1>2. \A a, b \in Nat : (a + 1) * b = a * b + b /\ a * b \in Nat  OBVIOUS
<1>3. g.lim * MaxSize = f.lim * MaxSize + MaxSize /\ f.lim * MaxSize \in Nat  BY <1>1, <1>2
<1> QED  BY <1>1, <1>3 DEF Position

LEMMA LaterIndex ==
  ASSUME NEW f \in Frame, NEW g \in Frame, g.lim = f.lim, g.at >= f.at
  PROVE  Position(g) >= Position(f) /\ (g.at > f.at => Position(g) > Position(f))
<1>1. f.lim \in Nat /\ f.at \in Nat /\ g.at \in Nat /\ MaxSize \in Nat
  BY ExploreAssumption DEF Frame
<1>2. \A a, b \in Nat : a * b \in Nat  OBVIOUS
<1> QED  BY <1>1, <1>2 DEF Position

LEMMA SeqReplaced ==
  ASSUME NEW S, NEW s \in Seq(S), NEW n \in 1 .. Len(s), NEW x \in S
  PROVE  /\ [s EXCEPT ![n] = x] \in Seq(S) /\ Len([s EXCEPT ![n] = x]) = Len(s)
         /\ [s EXCEPT ![n] = x][n] = x
         /\ \A i \in 1 .. Len(s) : i # n => [s EXCEPT ![n] = x][i] = s[i]
OBVIOUS

LEMMA SeqExtended ==
  ASSUME NEW S, NEW s \in Seq(S), NEW x \in S
  PROVE  /\ Append(s, x) \in Seq(S) /\ Len(Append(s, x)) = Len(s) + 1
         /\ Append(s, x)[Len(s) + 1] = x
         /\ \A i \in 1 .. Len(s) : Append(s, x)[i] = s[i]
OBVIOUS

(* The top call is replaced.                                               *)
LEMMA TopReplaced ==
  ASSUME NEW fs, StackInv(fs), Len(fs) > 0,
         NEW g \in Frame, CallInv(g), Position(g) >= Position(fs[Len(fs)]),
         g.mode = "run" => Follows(g) \/ RunsTwice(g)
  PROVE  StackInv([fs EXCEPT ![Len(fs)] = g])
<1> DEFINE n == Len(fs)
           gs == [fs EXCEPT ![n] = g]
<1>1. fs \in Seq(Frame) /\ n \in Nat \ {0}  BY DEF StackInv
<1>a. n \in 1 .. Len(fs)  BY <1>1
<1>2. gs \in Seq(Frame) /\ Len(gs) = n  BY <1>1, <1>a, SeqReplaced
<1>3. gs[n] = g /\ \A i \in 1 .. n : i # n => gs[i] = fs[i]  BY <1>1, <1>a, SeqReplaced
<1> HIDE DEF gs
<1>b. \A i \in 1 .. n : fs[i] \in Frame /\ gs[i] \in Frame  BY <1>1, <1>2
<1>4. \A i \in 1 .. n : fs[i] \in Frame /\ Position(fs[i]) \in Nat /\ Position(gs[i]) \in Nat
  BY <1>b, PositionNat
<1>5. ASSUME NEW i \in 1 .. n
      PROVE /\ CallInv(gs[i]) /\ Position(gs[i]) >= i
            /\ i < n => gs[i].mode \in Waiting
            /\ gs[i].mode = "run" => Comes(gs, i)
  <2>1. CASE i = n
    <3>1. Position(fs[n]) >= n  BY <1>1 DEF StackInv
    <3> QED  BY <1>1, <1>3, <1>4, <2>1, <3>1 DEF Comes
  <2>2. CASE i # n
    <3>1. gs[i] = fs[i] /\ fs[i].mode \in Waiting  BY <1>1, <1>3, <2>2 DEF StackInv
    <3>2. fs[i].mode # "run"  BY <3>1 DEF Waiting
    <3> QED  BY <1>1, <3>1, <3>2 DEF StackInv
  <2> QED  BY <2>1, <2>2
<1>6. ASSUME NEW i \in 2 .. n PROVE Position(gs[i]) > Position(gs[i - 1])
  <2>1. gs[i - 1] = fs[i - 1] /\ Position(fs[i]) > Position(fs[i - 1])
    BY <1>1, <1>3 DEF StackInv
  <2>2. CASE i = n
    <3>1. Position(g) >= Position(fs[i]) /\ gs[i] = g  BY <1>3, <2>2
    <3>2. Position(g) \in Nat /\ Position(fs[i]) \in Nat /\ Position(fs[i - 1]) \in Nat
      BY <1>1, <1>4, PositionNat
    <3> QED  BY <2>1, <3>1, <3>2
  <2>3. CASE i # n  BY <1>3, <2>1, <2>3
  <2> QED  BY <2>2, <2>3
<1>7. StackInv(gs)  BY <1>2, <1>5, <1>6 DEF StackInv
<1> QED  BY <1>7 DEF gs

(* A call is made.                                                         *)
LEMMA CallMade ==
  ASSUME NEW fs, StackInv(fs), Len(fs) > 0,
         NEW f \in Frame, CallInv(f), f.mode \in Waiting, Position(f) = Position(fs[Len(fs)]),
         NEW g \in Frame, CallInv(g), Position(g) > Position(f),
         Follows(g) \/ (f.mode = "back" /\ g.at = f.to /\ g.lim = f.lim + 1)
  PROVE  StackInv(Append([fs EXCEPT ![Len(fs)] = f], g))
<1> DEFINE n == Len(fs)
           hs == [fs EXCEPT ![n] = f]
           gs == Append(hs, g)
<1>1. fs \in Seq(Frame) /\ n \in Nat \ {0}  BY DEF StackInv
<1>2. f.mode # "run" /\ Position(f) \in Nat /\ Position(g) \in Nat
  BY PositionNat DEF Waiting
<1>3. StackInv(hs)
  <2>1. Position(f) >= Position(fs[Len(fs)])  BY <1>2
  <2> QED  BY <1>2, <2>1, TopReplaced
<1>4. hs \in Seq(Frame) /\ Len(hs) = n /\ hs[n] = f  BY <1>1, SeqReplaced
<1> HIDE DEF hs
<1>5. gs \in Seq(Frame) /\ Len(gs) = n + 1 /\ gs[n + 1] = g
      /\ \A i \in 1 .. n : gs[i] = hs[i]
  BY <1>1, <1>4, SeqExtended
<1> HIDE DEF gs
<1>6. ASSUME NEW i \in 1 .. n + 1
      PROVE /\ CallInv(gs[i]) /\ Position(gs[i]) >= i
            /\ i < n + 1 => gs[i].mode \in Waiting
            /\ gs[i].mode = "run" => Comes(gs, i)
  <2>1. CASE i = n + 1
    <3>1. Position(f) >= n  BY <1>1, <1>3, <1>4 DEF StackInv
    <3>2. Position(g) >= n + 1  BY <1>1, <1>2, <3>1
    <3>3. Comes(gs, n + 1)  BY <1>1, <1>4, <1>5 DEF Comes
    <3> QED  BY <1>1, <1>5, <2>1, <3>2, <3>3
  <2>2. CASE i # n + 1
    <3>1. i \in 1 .. n /\ gs[i] = hs[i]  BY <1>1, <1>5, <2>2
    <3>2. hs[i].mode \in Waiting
      <4>1. CASE i = n  BY <1>4, <4>1
      <4>2. CASE i # n  BY <1>1, <1>3, <1>4, <3>1, <4>2 DEF StackInv
      <4> QED  BY <4>1, <4>2
    <3>3. hs[i].mode # "run"  BY <3>2 DEF Waiting
    <3> QED  BY <1>3, <1>4, <3>1, <3>2, <3>3 DEF StackInv
  <2> QED  BY <2>1, <2>2
<1>7. ASSUME NEW i \in 2 .. n + 1 PROVE Position(gs[i]) > Position(gs[i - 1])
  <2>1. CASE i = n + 1  BY <1>1, <1>4, <1>5, <2>1
  <2>2. CASE i # n + 1
    <3>1. i \in 2 .. n /\ gs[i] = hs[i] /\ gs[i - 1] = hs[i - 1]  BY <1>1, <1>5, <2>2
    <3> QED  BY <1>3, <1>4, <3>1 DEF StackInv
  <2> QED  BY <2>1, <2>2
<1>8. StackInv(gs)  BY <1>5, <1>6, <1>7 DEF StackInv
<1> QED  BY <1>8 DEF gs, hs

(* The top call is gone.                                                   *)
LEMMA CallGone ==
  ASSUME NEW fs, StackInv(fs), Len(fs) > 1
  PROVE  /\ StackInv(SubSeq(fs, 1, Len(fs) - 1))
         /\ Len(SubSeq(fs, 1, Len(fs) - 1)) = Len(fs) - 1
         /\ SubSeq(fs, 1, Len(fs) - 1)[Len(fs) - 1] = fs[Len(fs) - 1]
<1> DEFINE n == Len(fs) - 1
           gs == SubSeq(fs, 1, n)
<1>1. fs \in Seq(Frame) /\ n \in Nat \ {0} /\ Len(fs) = n + 1  BY DEF StackInv
<1>2. gs \in Seq(Frame) /\ Len(gs) = n /\ \A i \in 1 .. n : gs[i] = fs[i]  BY <1>1
<1>3. ASSUME NEW i \in 1 .. n
      PROVE /\ CallInv(gs[i]) /\ Position(gs[i]) >= i
            /\ i < n => gs[i].mode \in Waiting
            /\ gs[i].mode = "run" => Comes(gs, i)
  <2>1. gs[i] = fs[i] /\ i \in 1 .. Len(fs) /\ i < Len(fs)  BY <1>1, <1>2
  <2>2. fs[i].mode \in Waiting /\ CallInv(fs[i]) /\ Position(fs[i]) >= i  BY <2>1 DEF StackInv
  <2>3. fs[i].mode # "run"  BY <2>2 DEF Waiting
  <2> QED  BY <2>1, <2>2, <2>3
<1>4. ASSUME NEW i \in 2 .. n PROVE Position(gs[i]) > Position(gs[i - 1])
  BY <1>1, <1>2 DEF StackInv
<1>5. StackInv(gs)  BY <1>2, <1>3, <1>4 DEF StackInv
<1> QED  BY <1>1, <1>2, <1>5
-----------------------------------------------------------------------------
(* From a stack to the next: the conditions on the rest of the state.      *)
LEMMA NextStack ==
  ASSUME ExploreInv, phase = "explore", fault = "none",
         NEW gs, StackInv(gs), Len(gs) > 0, frames' = gs,
         UNCHANGED <<size, branch, phase, result, fault>>,
         judged' \in BOOLEAN, judged' <=> gs[Len(gs)].mode = "attack",
         sims' \in Int, texts' \in Int, dropped' \in Nat
  PROVE  ExploreInv'
<1>1. StackInv(frames)'
  BY DEF StackInv, CallInv, Comes, Follows, RunsTwice, Position
<1>2. gs \in Seq(Frame) /\ gs # <<>>  BY DEF StackInv
<1>3. ExploreTypeOK'
  <2>1. size' \in 0 .. MaxSize /\ branch' \in SUBSET (0 .. size' - 1)
    BY DEF ExploreInv, ExploreTypeOK
  <2>2. frames' \in Seq(Frame)  BY <1>2
  <2>3. phase' \in {"load", "prepare", "explore", "done"} /\ (phase' = "explore" <=> frames' # <<>>)
    BY <1>2
  <2>4. result' \in {0, 1}  BY DEF ExploreInv, ExploreTypeOK
  <2>5. fault' \in {"none", "null", "wild"}  BY DEF ExploreInv, ExploreTypeOK
  <2> QED  BY <2>1, <2>2, <2>3, <2>4, <2>5 DEF ExploreTypeOK
<1>4. PhaseInv'
  <2>1. Top' = gs[Len(gs)]  BY DEF Top, Depth
  <2>2. result' = 0  BY DEF ExploreInv, PhaseInv
  <2> QED  BY <2>1, <2>2 DEF PhaseInv
<1> QED  BY <1>1, <1>3, <1>4 DEF ExploreInv

LEMMA TopFacts ==
  ASSUME ExploreInv, phase = "explore"
  PROVE  /\ frames \in Seq(Frame) /\ Depth \in Nat \ {0} /\ Depth = Len(frames)
         /\ Top = frames[Len(frames)] /\ Top \in Frame /\ CallInv(Top)
         /\ StackInv(frames) /\ Len(frames) > 0
         /\ size \in 0 .. MaxSize /\ size > 0
         /\ sims \in Int /\ texts \in Int /\ dropped \in Nat /\ judged \in BOOLEAN
         /\ judged <=> Top.mode = "attack"
<1>1. frames \in Seq(Frame) /\ frames # <<>>  BY DEF ExploreInv, ExploreTypeOK
<1>2. Depth \in Nat \ {0} /\ Depth = Len(frames)  BY <1>1 DEF Depth
<1>3. Top = frames[Len(frames)] /\ Top \in Frame  BY <1>1, <1>2 DEF Top
<1>4. StackInv(frames)  BY DEF ExploreInv
<1>5. CallInv(Top)  BY <1>1, <1>2, <1>3, <1>4 DEF StackInv
<1>6. size > 0 /\ size \in 0 .. MaxSize  BY DEF ExploreInv, ExploreTypeOK
<1>7. judged \in BOOLEAN /\ sims \in Int /\ texts \in Int /\ dropped \in Nat
  BY DEF ExploreInv, ExploreTypeOK
<1>8. judged <=> Top.mode = "attack"  BY DEF ExploreInv, PhaseInv
<1> QED  BY <1>1, <1>2, <1>3, <1>4, <1>5, <1>6, <1>7, <1>8

LEMMA TopSet ==
  ASSUME ExploreInv, phase = "explore", fault = "none",
         NEW g \in Frame, SetTop(g), CallInv(g), Position(g) >= Position(Top),
         g.mode = "run" => Follows(g) \/ RunsTwice(g),
         UNCHANGED <<size, branch, phase, result, fault>>,
         judged' \in BOOLEAN, judged' <=> g.mode = "attack",
         sims' \in Int, texts' \in Int, dropped' \in Nat
  PROVE  ExploreInv'
<1> DEFINE gs == [frames EXCEPT ![Len(frames)] = g]
<1>1. StackInv(gs)  BY TopFacts, TopReplaced
<1>2. Len(gs) = Len(frames) /\ gs[Len(frames)] = g
  BY TopFacts, SeqReplaced
<1>3. frames' = gs  BY TopFacts DEF SetTop
<1> HIDE DEF gs
<1> QED  BY <1>1, <1>2, <1>3, TopFacts, NextStack

(* The call on top runs: it returns, or moves on.                          *)
LEMMA TopReturns ==
  ASSUME ExploreInv, Running,
         NEW g \in Frame, SetTop(g), g.mode \in Returned, g.at = Top.at, g.lim = Top.lim,
         g.text \/ g.forked,
         UNCHANGED <<size, branch, phase, result, fault>>,
         judged' \in BOOLEAN, judged' <=> g.mode = "attack",
         sims' \in Int, texts' \in Int, dropped' \in Nat
  PROVE  ExploreInv'
<1>1. phase = "explore" /\ fault = "none"  BY DEF Running
<1>2. Top \in Frame /\ CallInv(Top)  BY <1>1, TopFacts
<1>3. CallInv(g) /\ g.mode # "run"  BY <1>2 DEF CallInv, Waiting, Returned
<1>4. Position(g) >= Position(Top)  BY <1>2, PositionNat DEF Position
<1> QED  BY <1>1, <1>3, <1>4, TopSet

LEMMA TopMoves ==
  ASSUME ExploreInv, Running, InLoop,
         NEW g \in Frame, SetTop(g), g.mode = "run", g.at <= size, g.lim = Top.lim + 1,
         g.text = Top.text, g.forked = Top.forked, Follows(g) \/ RunsTwice(g),
         UNCHANGED <<size, branch, phase, result, fault, judged, sims, texts, dropped>>
  PROVE  ExploreInv'
<1>1. phase = "explore" /\ fault = "none" /\ Top.mode = "run"  BY DEF Running
<1>2. Top \in Frame /\ CallInv(Top) /\ Top.lim \in Nat  BY <1>1, TopFacts DEF Frame
<1>3. Top.lim < MaxDepth /\ Top.at < size  BY DEF InLoop
<1>4. CallInv(g)
  <2>1. g.lim <= MaxDepth  BY <1>2, <1>3, ExploreAssumption
  <2> QED  BY <1>2, <2>1 DEF CallInv, Waiting
<1>5. Position(g) >= Position(Top)
  <2>1. Position(g) > Position(Top)  BY <1>1, <1>2, <1>3, TopFacts, LaterLimit
  <2> QED  BY <1>2, <2>1, PositionNat
<1>6. judged' \in BOOLEAN /\ (judged' <=> g.mode = "attack")
      /\ sims' \in Int /\ texts' \in Int /\ dropped' \in Nat
  BY <1>1, TopFacts
<1> QED  BY <1>1, <1>4, <1>5, <1>6, TopSet

(* The frames of the actions.                                              *)
LEMMA ReturnedFrame ==
  ASSUME NEW f \in Frame, NEW mode \in Returned
  PROVE  /\ [f EXCEPT !.mode = mode] \in Frame
         /\ [f EXCEPT !.mode = mode].mode = mode
         /\ [f EXCEPT !.mode = mode].at = f.at /\ [f EXCEPT !.mode = mode].lim = f.lim
         /\ [f EXCEPT !.mode = mode].text = f.text /\ [f EXCEPT !.mode = mode].forked = f.forked
BY DEF Frame, Returned

LEMMA ReturnExplores ==
  ASSUME ExploreInv, Running, NEW mode \in Returned, Return(mode),
         UNCHANGED <<size, branch, phase, result, fault, sims, texts, dropped>>,
         judged' \in BOOLEAN, judged' <=> mode = "attack"
  PROVE  ExploreInv'
<1> DEFINE g == [Top EXCEPT !.mode = mode]
<1>1. phase = "explore" /\ fault = "none"  BY DEF Running
<1>2. Top \in Frame /\ CallInv(Top) /\ Top.text \in BOOLEAN  BY <1>1, TopFacts DEF Frame
<1>3. g \in Frame /\ g.mode = mode /\ g.at = Top.at /\ g.lim = Top.lim
      /\ g.text = Top.text /\ g.forked = Top.forked
  BY <1>2, ReturnedFrame
<1>4. SetTop(g)  BY DEF Return
<1>5. sims' \in Int /\ texts' \in Int /\ dropped' \in Nat  BY <1>1, TopFacts
<1>6. Top.text \/ Top.forked  BY <1>2 DEF CallInv
<1> HIDE DEF g
<1>7. g.text \/ g.forked  BY <1>3, <1>6
<1> QED  BY <1>3, <1>4, <1>5, <1>7, TopReturns

LEMMA GotoExplores ==
  ASSUME ExploreInv, Running, InLoop, NEW at \in Nat, at <= size,
         at = Top.at + 1 \/ Top.at \in branch, SetTop(Goto(at)),
         UNCHANGED <<size, branch, phase, result, fault, judged, sims, texts, dropped>>
  PROVE  ExploreInv'
<1>1. phase = "explore" /\ Top.mode = "run"  BY DEF Running
<1>2. Top \in Frame /\ Top.lim + 1 \in Nat
  <2>1. Top \in Frame  BY <1>1, TopFacts
  <2>2. Top.lim \in Nat  BY <2>1 DEF Frame
  <2> QED  BY <2>1, <2>2
<1> DEFINE g == Goto(at)
<1>3. g \in Frame  BY <1>2 DEF Goto, Frame
<1>4. g.mode = "run" /\ g.at = at /\ g.lim = Top.lim + 1 /\ g.last = Top.at
      /\ g.text = Top.text /\ g.forked = Top.forked
  BY <1>1, <1>2 DEF Goto, Frame
<1>5. SetTop(g)  OBVIOUS
<1> HIDE DEF g
<1>6. Follows(g)  BY <1>4 DEF Follows
<1>7. g.at <= size  BY <1>4
<1> QED  BY <1>3, <1>4, <1>5, <1>6, <1>7, TopMoves

LEMMA NotTakenExplores ==
  ASSUME ExploreInv, NotTaken PROVE ExploreInv'
<1> DEFINE g == [Goto(Top.at + 1) EXCEPT !.last = Top.at + 1]
<1>1. Running /\ InLoop /\ Top.at \in branch /\ Top.at < size  BY DEF NotTaken, AtBranch, InLoop
<1>2. phase = "explore" /\ Top.mode = "run"  BY <1>1 DEF Running
<1>3. Top \in Frame /\ Top.lim + 1 \in Nat /\ Top.at \in Nat /\ size \in Nat
  <2>1. Top \in Frame /\ size \in Nat  BY <1>2, TopFacts
  <2>2. Top.lim \in Nat /\ Top.at \in Nat  BY <2>1 DEF Frame
  <2> QED  BY <2>1, <2>2
<1>4. g \in Frame
  <2>1. \A at \in Nat : [Goto(at) EXCEPT !.last = at] \in Frame  BY <1>3 DEF Goto, Frame
  <2> QED  BY <1>3, <2>1
<1>5. g.mode = "run" /\ g.at = Top.at + 1 /\ g.lim = Top.lim + 1 /\ g.last = Top.at + 1
      /\ g.text = Top.text /\ g.forked = Top.forked
  BY <1>2, <1>3 DEF Goto, Frame
<1>6. SetTop(g) /\ UNCHANGED <<size, branch, phase, result, fault, judged, sims, texts, dropped>>
  BY DEF NotTaken
<1> HIDE DEF g
<1>7. RunsTwice(g) /\ g.at <= size
  <2>1. g.at - 1 = Top.at  BY <1>3, <1>5
  <2> QED  BY <1>1, <1>3, <1>5, <2>1 DEF RunsTwice
<1> QED  BY <1>1, <1>4, <1>5, <1>6, <1>7, TopMoves

LEMMA LoopExplores ==
  ASSUME ExploreInv, LeaveLoop \/ Step \/ Judge \/ NotTaken \/ Taken \/ CallOrRet
  PROVE  ExploreInv'
<1>1. Running
  BY DEF LeaveLoop, Step, Judge, NotTaken, Taken, CallOrRet, AtBranch
<1>2. phase = "explore" /\ Top.mode = "run"  BY <1>1 DEF Running
<1>3. Top \in Frame /\ Top.at \in Nat /\ size \in Nat  BY <1>2, TopFacts DEF Frame
<1>4. judged = FALSE  BY <1>2, TopFacts
<1>5. ASSUME Return("none"),
             UNCHANGED <<size, branch, phase, result, sims, texts, fault, judged, dropped>>
      PROVE  ExploreInv'
  BY <1>1, <1>4, <1>5, ReturnExplores DEF Returned
<1>6. CASE LeaveLoop  BY <1>5, <1>6 DEF LeaveLoop
<1>7. CASE Step
  <2>1. InLoop /\ Top.at + 1 \in Nat /\ Top.at + 1 <= size  BY <1>3, <1>7 DEF Step, InLoop
  <2>2. CASE SetTop(Goto(Top.at + 1))  BY <1>1, <1>7, <2>1, <2>2, GotoExplores DEF Step
  <2>3. CASE Return("none")  BY <1>5, <1>7, <2>3 DEF Step
  <2> QED  BY <1>7, <2>2, <2>3 DEF Step
<1>8. CASE Judge
  <2>1. CASE Return("attack") /\ judged' = TRUE
    BY <1>1, <1>8, <2>1, ReturnExplores DEF Judge, Returned
  <2>2. CASE Return("none") /\ UNCHANGED judged  BY <1>5, <1>8, <2>2 DEF Judge
  <2> QED  BY <1>8, <2>1, <2>2 DEF Judge
<1>9. CASE NotTaken  BY <1>9, NotTakenExplores
<1>10. CASE Taken
  <2>1. InLoop /\ Top.at \in branch  BY <1>10 DEF Taken, AtBranch
  <2>2. CASE \E new \in 1 .. size - 1 : SetTop(Goto(new))
    <3>1. PICK new \in 1 .. size - 1 : SetTop(Goto(new))  BY <2>2
    <3>2. new \in Nat /\ new <= size  BY <1>3
    <3> QED  BY <1>1, <1>10, <2>1, <3>1, <3>2, GotoExplores DEF Taken
  <2>3. CASE Return("none")  BY <1>5, <1>10, <2>3 DEF Taken
  <2> QED  BY <1>10, <2>2, <2>3 DEF Taken
<1>11. CASE CallOrRet  BY <1>5, <1>11 DEF CallOrRet
<1> QED  BY <1>6, <1>7, <1>8, <1>9, <1>10, <1>11

(* The ends of a path at a fork that is not made.                          *)
LEMMA NoForkExplores ==
  ASSUME ExploreInv, CopyFails \/ CopyFreesWild \/ CopyFromNull \/ ForkDropped
  PROVE  ExploreInv'
<1>1. AtBranch /\ Running /\ phase = "explore" /\ Top.mode = "run" /\ fault = "none"
  BY DEF CopyFails, CopyFreesWild, CopyFromNull, ForkDropped, AtBranch, Running
<1>2. Top \in Frame /\ sims \in Int /\ texts \in Int /\ dropped \in Nat /\ judged = FALSE
      /\ CallInv(Top)
  BY <1>1, TopFacts
<1>3. ASSUME NEW text \in BOOLEAN,
             SetTop([Top EXCEPT !.mode = "none", !.text = text, !.forked = TRUE]),
             UNCHANGED <<size, branch, phase, result, fault, judged>>,
             sims' \in Int, texts' \in Int, dropped' \in Nat
      PROVE  ExploreInv'
  <2> DEFINE g == [Top EXCEPT !.mode = "none", !.text = text, !.forked = TRUE]
  <2>1. g \in Frame /\ g.mode = "none" /\ g.at = Top.at /\ g.lim = Top.lim /\ g.forked
    BY <1>2 DEF Frame, Returned
  <2>2. SetTop(g)  BY <1>3
  <2> HIDE DEF g
  <2> QED  BY <1>1, <1>2, <1>3, <2>1, <2>2, TopReturns DEF Returned
<1>4. CASE CopyFails
  <2>1. texts' \in Int /\ sims' \in Int /\ dropped' \in Nat  BY <1>2, <1>4 DEF CopyFails
  <2> QED  BY <1>3, <1>4, <2>1 DEF CopyFails
<1>5. CASE ForkDropped
  <2>1. texts' \in Int /\ sims' \in Int /\ dropped' \in Nat  BY <1>2, <1>5 DEF ForkDropped
  <2>2. [Top EXCEPT !.mode = "none", !.forked = TRUE]
          = [Top EXCEPT !.mode = "none", !.text = TRUE, !.forked = TRUE]
    BY <1>2, <1>5 DEF Frame, ForkDropped
  <2> QED  BY <1>3, <1>5, <2>1, <2>2 DEF ForkDropped
<1>6. ASSUME fault' \in {"wild", "null"}, fault' = "null" => Top.forked,
             UNCHANGED <<size, branch, frames, phase, result, sims, texts, judged, dropped>>
      PROVE  ExploreInv'
  <2>1. Top' = Top  BY <1>6 DEF Top, Depth
  <2>2. PhaseInv'  BY <1>1, <1>6, <2>1 DEF ExploreInv, PhaseInv
  <2>3. ExploreTypeOK'  BY <1>6 DEF ExploreInv, ExploreTypeOK
  <2>4. StackInv(frames)'
    BY <1>6 DEF ExploreInv, StackInv, CallInv, Comes, Follows, RunsTwice, Position
  <2> QED  BY <1>6, <2>2, <2>3, <2>4 DEF ExploreInv
<1>7. CASE CopyFreesWild  BY <1>6, <1>7 DEF CopyFreesWild
<1>8. CASE CopyFromNull
  <2>1. Top.forked  BY <1>2, <1>8 DEF CopyFromNull, CallInv
  <2> QED  BY <1>6, <1>8, <2>1 DEF CopyFromNull
<1> QED  BY <1>4, <1>5, <1>7, <1>8
-----------------------------------------------------------------------------
(* A fork: the call on top waits for another.                              *)
LEMMA ForkExplores ==
  ASSUME ExploreInv, NEW new \in 0 .. size - 1, ForkFwd(new) \/ ForkBack(new)
  PROVE  ExploreInv'
<1>1. AtBranch /\ Top.text /\ UNCHANGED <<size, branch, phase, result, fault, judged, dropped>>
      /\ sims' = sims + 1 /\ texts' = texts + 1
  BY DEF ForkFwd, ForkBack
<1>2. phase = "explore" /\ fault = "none" /\ Top.mode = "run" /\ InLoop /\ Top.at \in branch
      /\ Top.at # size - 1
  BY <1>1 DEF AtBranch, Running
<1>3. Top \in Frame /\ CallInv(Top) /\ size \in Nat /\ new \in Nat /\ new < size
  BY <1>2, TopFacts
<1>4. Top.at \in Nat /\ Top.lim \in Nat /\ Top.cyc \in Nat /\ Top.at < size /\ Top.lim < MaxDepth
  BY <1>2, <1>3 DEF Frame, InLoop
<1>5. ASSUME NEW mode \in {"fwd", "fall"}, NEW at \in Nat, NEW lim \in Nat,
             Push(Forked(mode, new), Call(at, lim, Top.cyc, Top.at, TRUE, FALSE)),
             at <= size, (lim = Top.lim + 1 \/ (lim = Top.lim /\ at > Top.at))
      PROVE  ExploreInv'
  <2> DEFINE f == Forked(mode, new)
             g == Call(at, lim, Top.cyc, Top.at, TRUE, FALSE)
             hs == [frames EXCEPT ![Len(frames)] = f]
             gs == Append(hs, g)
  <2>1. f \in Frame /\ g \in Frame  BY <1>3, <1>4 DEF Forked, Call, Frame, Waiting
  <2>2. /\ f.mode = mode /\ f.at = Top.at /\ f.lim = Top.lim
        /\ f.to = new /\ f.last = Top.at /\ f.forked
    BY <1>3 DEF Forked, Frame
  <2>3. g.mode = "run" /\ g.at = at /\ g.lim = lim /\ g.last = Top.at /\ g.text
    BY DEF Call
  <2>a. Push(f, g)  BY <1>5
  <2> HIDE DEF f, g
  <2>4. frames' = gs  BY <1>2, <2>a, TopFacts DEF Push
  <2>5. CallInv(f) /\ f.mode \in Waiting  BY <1>2, <1>3, <1>4, <2>2 DEF CallInv, Waiting
  <2>6. CallInv(g)
    <3>1. lim <= MaxDepth  BY <1>4, <1>5, ExploreAssumption
    <3> QED  BY <1>5, <2>3, <3>1 DEF CallInv, Waiting
  <2>7. Position(f) = Position(Top)  BY <2>2 DEF Position
  <2>8. Position(g) > Position(f)
    <3>1. CASE lim = Top.lim + 1
      BY <1>2, <1>4, <2>1, <2>2, <2>3, <3>1, TopFacts, LaterLimit
    <3>2. CASE lim = Top.lim /\ at > Top.at
      BY <1>4, <2>1, <2>2, <2>3, <3>2, LaterIndex
    <3> QED  BY <1>5, <3>1, <3>2
  <2>9. Follows(g)  BY <1>2, <2>3 DEF Follows
  <2>10. StackInv(gs)  BY <1>2, <2>1, <2>5, <2>6, <2>7, <2>8, <2>9, TopFacts, CallMade
  <2>11. Len(gs) = Len(frames) + 1 /\ gs[Len(gs)] = g /\ Len(gs) > 0
    <3>1. hs \in Seq(Frame) /\ Len(hs) = Len(frames)
      BY <1>2, <2>1, TopFacts, SeqReplaced
    <3> HIDE DEF hs
    <3>2. gs \in Seq(Frame) /\ Len(gs) = Len(frames) + 1 /\ gs[Len(frames) + 1] = g
      BY <2>1, <3>1, SeqExtended
    <3> QED  BY <1>2, <3>2, TopFacts
  <2> HIDE DEF gs
  <2>12. judged' \in BOOLEAN /\ (judged' <=> gs[Len(gs)].mode = "attack")
         /\ sims' \in Int /\ texts' \in Int /\ dropped' \in Nat
    BY <1>1, <1>2, <2>3, <2>11, TopFacts
  <2> QED  BY <1>1, <1>2, <2>4, <2>10, <2>11, <2>12, NextStack
<1>6. CASE ForkFwd(new)
  <2>1. Push(Forked("fwd", new), Call(new, Top.lim + 1, Top.cyc, Top.at, TRUE, FALSE))
    BY <1>6 DEF ForkFwd
  <2>2. new <= size /\ Top.lim + 1 \in Nat  BY <1>3, <1>4
  <2> QED  BY <1>3, <1>5, <2>1, <2>2
<1>7. CASE ForkBack(new)
  <2>1. Push(Forked("fall", new), Call(Top.at + 1, Top.lim, Top.cyc, Top.at, TRUE, FALSE))
    BY <1>7 DEF ForkBack
  <2>2. Top.at + 1 <= size /\ Top.at + 1 > Top.at /\ Top.at + 1 \in Nat  BY <1>3, <1>4
  <2> QED  BY <1>4, <1>5, <2>1, <2>2
<1> QED  BY <1>6, <1>7

LEMMA BelowTop ==
  ASSUME ExploreInv, Back
  PROVE  /\ phase = "explore" /\ fault = "none" /\ Depth \in Nat /\ Depth > 1
         /\ Caller = frames[Len(frames) - 1] /\ Caller \in Frame /\ CallInv(Caller)
         /\ Caller.mode \in Waiting /\ Child \in Frame /\ CallInv(Child)
<1>1. phase = "explore" /\ fault = "none" /\ Depth > 1  BY DEF Back
<1>2. Depth \in Nat /\ Depth = Len(frames) /\ frames \in Seq(Frame) /\ StackInv(frames)
      /\ Top \in Frame /\ CallInv(Top)
  BY <1>1, TopFacts
<1>3. Caller = frames[Len(frames) - 1]  BY <1>2 DEF Caller
<1>4. Len(frames) - 1 \in 1 .. Len(frames) /\ Len(frames) - 1 < Len(frames)  BY <1>1, <1>2
<1>5. Caller \in Frame  BY <1>2, <1>3, <1>4
<1>6. CallInv(Caller) /\ Caller.mode \in Waiting  BY <1>2, <1>3, <1>4 DEF StackInv
<1> QED  BY <1>1, <1>2, <1>3, <1>5, <1>6 DEF Child

(* The call on top is gone and its caller goes on as g.                    *)
LEMMA BelowExplores ==
  ASSUME ExploreInv, Back, NEW g \in Frame, Below(g), CallInv(g), Position(g) >= Position(Caller),
         g.mode = "run" => Follows(g) \/ RunsTwice(g),
         g.mode = "attack" <=> Child.mode = "attack",
         UNCHANGED <<size, branch, phase, result, fault, judged>>,
         sims' \in Int, texts' \in Int, dropped' \in Nat
  PROVE  ExploreInv'
<1> DEFINE fs == SubSeq(frames, 1, Len(frames) - 1)
           gs == [fs EXCEPT ![Len(fs)] = g]
<1>1. phase = "explore" /\ fault = "none" /\ Len(frames) > 1 /\ Len(frames) \in Nat
      /\ StackInv(frames) /\ Caller = frames[Len(frames) - 1] /\ Depth = Len(frames)
  BY BelowTop, TopFacts
<1>2. StackInv(fs) /\ Len(fs) = Len(frames) - 1 /\ fs[Len(fs)] = Caller  BY <1>1, CallGone
<1>3. frames' = gs  BY <1>1, <1>2 DEF Below
<1> HIDE DEF fs
<1>4. Len(fs) > 0 /\ Len(fs) \in 1 .. Len(fs) /\ fs \in Seq(Frame)  BY <1>1, <1>2 DEF StackInv
<1>5. StackInv(gs)  BY <1>2, <1>4, TopReplaced
<1>6. Len(gs) = Len(fs) /\ gs[Len(fs)] = g  BY <1>4, SeqReplaced
<1> HIDE DEF gs
<1>7. judged' \in BOOLEAN /\ (judged' <=> gs[Len(gs)].mode = "attack")
  BY <1>1, <1>6, TopFacts DEF Child
<1> QED  BY <1>1, <1>3, <1>4, <1>5, <1>6, <1>7, NextStack

LEMMA HandUpAttackExplores ==
  ASSUME ExploreInv, HandUpAttack PROVE ExploreInv'
<1> DEFINE g == [Caller EXCEPT !.mode = "attack", !.text = FALSE]
<1>1. Back /\ Child.mode = "attack" /\ Below(g) /\ FreeCopy
      /\ UNCHANGED <<size, branch, phase, result, fault, judged, dropped>>
  BY DEF HandUpAttack
<1>2. phase = "explore" /\ Caller \in Frame /\ CallInv(Caller) /\ Caller.mode \in Waiting
  BY <1>1, BelowTop
<1>3. g \in Frame /\ g.mode = "attack" /\ g.at = Caller.at /\ g.lim = Caller.lim
      /\ g.forked = Caller.forked
  BY <1>2 DEF Frame, Returned
<1>4. sims' \in Int /\ texts' \in Int /\ dropped' \in Nat  BY <1>1, <1>2, TopFacts DEF FreeCopy
<1> HIDE DEF g
<1>5. CallInv(g)  BY <1>2, <1>3 DEF CallInv, Waiting
<1>6. Position(g) >= Position(Caller)  BY <1>2, <1>3, PositionNat DEF Position
<1> QED  BY <1>1, <1>3, <1>4, <1>5, <1>6, BelowExplores

LEMMA FwdFoundExplores ==
  ASSUME ExploreInv, FwdFoundNothing PROVE ExploreInv'
<1> DEFINE g == [Caller EXCEPT !.mode = "run", !.at = @ + 1, !.lim = @ + 1, !.text = FALSE]
<1>1. Back /\ Child.mode = "none" /\ Below(g) /\ FreeCopy
      /\ UNCHANGED <<size, branch, phase, result, fault, judged, dropped>>
  BY DEF FwdFoundNothing
<1>2. phase = "explore" /\ Caller \in Frame /\ CallInv(Caller) /\ Caller.mode \in Waiting
      /\ size \in 0 .. MaxSize
  BY <1>1, BelowTop, TopFacts
<1>3. Caller.at \in Nat /\ Caller.lim \in Nat /\ Caller.at + 1 \in Nat /\ Caller.lim + 1 \in Nat
      /\ Caller.at < size /\ Caller.lim < MaxDepth /\ Caller.last = Caller.at /\ Caller.forked
  BY <1>2 DEF Frame, CallInv
<1>4. g \in Frame /\ g.mode = "run" /\ g.at = Caller.at + 1 /\ g.lim = Caller.lim + 1
      /\ g.forked = Caller.forked /\ g.last = Caller.last
  BY <1>2, <1>3 DEF Frame
<1>5. sims' \in Int /\ texts' \in Int /\ dropped' \in Nat  BY <1>1, <1>2, TopFacts DEF FreeCopy
<1> HIDE DEF g
<1>6. CallInv(g)
  <2>1. g.at <= size /\ g.lim <= MaxDepth  BY <1>2, <1>3, <1>4, ExploreAssumption
  <2> QED  BY <1>3, <1>4, <2>1 DEF CallInv, Waiting
<1>7. Position(g) >= Position(Caller)
  <2>1. Position(g) > Position(Caller)  BY <1>2, <1>3, <1>4, LaterLimit
  <2> QED  BY <1>2, <1>4, <2>1, PositionNat
<1>8. Follows(g)  BY <1>3, <1>4 DEF Follows
<1> QED  BY <1>1, <1>4, <1>5, <1>6, <1>7, <1>8, BelowExplores

LEMMA BackFoundExplores ==
  ASSUME ExploreInv, BackFoundNothing PROVE ExploreInv'
<1> DEFINE g == [Caller EXCEPT !.mode = "none"]
<1>1. Back /\ Child.mode = "none" /\ Below(g) /\ dropped' = dropped + 1
      /\ UNCHANGED <<size, branch, phase, result, sims, texts, fault, judged>>
  BY DEF BackFoundNothing
<1>2. phase = "explore" /\ Caller \in Frame /\ CallInv(Caller)  BY <1>1, BelowTop
<1>3. g \in Frame /\ g.mode = "none" /\ g.at = Caller.at /\ g.lim = Caller.lim
      /\ g.forked = Caller.forked /\ g.text = Caller.text
  BY <1>2, ReturnedFrame DEF Returned
<1>4. sims' \in Int /\ texts' \in Int /\ dropped' \in Nat  BY <1>1, <1>2, TopFacts
<1> HIDE DEF g
<1>5. CallInv(g)  BY <1>2, <1>3 DEF CallInv, Waiting
<1>6. Position(g) >= Position(Caller)  BY <1>2, <1>3, PositionNat DEF Position
<1> QED  BY <1>1, <1>3, <1>4, <1>5, <1>6, BelowExplores

LEMMA SeqTwoReplaced ==
  ASSUME NEW S, NEW s \in Seq(S), Len(s) > 1, NEW x \in S, NEW y \in S
  PROVE  [s EXCEPT ![Len(s) - 1] = x, ![Len(s)] = y]
           = Append([SubSeq(s, 1, Len(s) - 1) EXCEPT ![Len(s) - 1] = x], y)
<1> DEFINE n == Len(s)
           l == [s EXCEPT ![n - 1] = x, ![n] = y]
           t == SubSeq(s, 1, n - 1)
           u == [t EXCEPT ![n - 1] = x]
           r == Append(u, y)
<1>1. n \in Nat /\ n > 1 /\ n - 1 \in 1 .. n /\ n \in 1 .. n  OBVIOUS
<1>2. l \in Seq(S) /\ Len(l) = n /\ l[n] = y /\ l[n - 1] = x
      /\ \A i \in 1 .. n : i < n - 1 => l[i] = s[i]
  BY <1>1
<1>3. t \in Seq(S) /\ Len(t) = n - 1 /\ \A i \in 1 .. n - 1 : t[i] = s[i]  BY <1>1
<1> HIDE DEF l, t
<1>4. u \in Seq(S) /\ Len(u) = n - 1 /\ u[n - 1] = x
      /\ \A i \in 1 .. n - 1 : i < n - 1 => u[i] = s[i]
  BY <1>1, <1>3
<1> HIDE DEF u
<1>5. r \in Seq(S) /\ Len(r) = n /\ r[n] = y /\ \A i \in 1 .. n - 1 : r[i] = u[i]
  BY <1>1, <1>4
<1> HIDE DEF r
<1>6. \A i \in 1 .. n : l[i] = r[i]
  <2> TAKE i \in 1 .. n
  <2>1. CASE i = n  BY <1>2, <1>5, <2>1
  <2>2. CASE i = n - 1
    <3>1. i \in 1 .. n - 1  BY <1>1, <2>2
    <3> QED  BY <1>2, <1>4, <1>5, <2>2, <3>1
  <2>3. CASE i < n - 1
    <3>1. i \in 1 .. n - 1  BY <1>1, <2>3
    <3>2. l[i] = s[i]  BY <1>2, <2>3
    <3>3. u[i] = s[i]  BY <1>4, <2>3, <3>1
    <3>4. r[i] = u[i]  BY <1>5, <3>1
    <3> QED  BY <3>2, <3>3, <3>4
  <2> QED  BY <1>1, <2>1, <2>2, <2>3
<1>7. l = r  BY <1>2, <1>5, <1>6
<1> QED  BY <1>7 DEF l, r, u, t

LEMMA FallFoundExplores ==
  ASSUME ExploreInv, FallFoundNothing PROVE ExploreInv'
<1> DEFINE f == [Caller EXCEPT !.mode = "back"]
           g == Call(Caller.to, Caller.lim + 1, Caller.cyc + 1,
                     Child.last, Child.text, Child.forked)
           fs == SubSeq(frames, 1, Len(frames) - 1)
           hs == [fs EXCEPT ![Len(fs)] = f]
           gs == Append(hs, g)
<1>1. Back /\ Child.mode = "none"
      /\ UNCHANGED <<size, branch, phase, result, sims, texts, fault, judged, dropped>>
  BY DEF FallFoundNothing
<1>2. phase = "explore" /\ fault = "none" /\ Caller \in Frame /\ CallInv(Caller)
      /\ Caller.mode \in Waiting /\ Child \in Frame /\ CallInv(Child)
      /\ Caller = frames[Len(frames) - 1]
  BY <1>1, BelowTop
<1>3. Len(frames) > 1 /\ Depth = Len(frames) /\ frames \in Seq(Frame) /\ StackInv(frames)
      /\ Len(frames) \in Nat /\ size \in 0 .. MaxSize
  BY <1>1, <1>2, BelowTop, TopFacts
<1>4. Caller.at \in Nat /\ Caller.lim \in Nat /\ Caller.cyc \in Nat /\ Caller.to \in Nat
      /\ Caller.at < size /\ Caller.to < size /\ Caller.lim < MaxDepth /\ Caller.forked
      /\ Caller.at \in branch /\ Caller.last = Caller.at
      /\ Child.last \in Nat /\ Child.text \in BOOLEAN /\ Child.forked \in BOOLEAN
      /\ (Child.text \/ Child.forked)
  BY <1>2 DEF Frame, CallInv
<1>5. f \in Frame /\ f.mode = "back" /\ f.at = Caller.at /\ f.lim = Caller.lim
      /\ f.to = Caller.to /\ f.forked = Caller.forked /\ f.last = Caller.last
  BY <1>2 DEF Frame, Waiting
<1>6. g \in Frame /\ g.mode = "run" /\ g.at = Caller.to /\ g.lim = Caller.lim + 1
      /\ g.text = Child.text /\ g.forked = Child.forked
  BY <1>4 DEF Call, Frame
<1>7. frames' = [frames EXCEPT ![Len(frames) - 1] = f, ![Len(frames)] = g]
  BY <1>3 DEF FallFoundNothing
<1> HIDE DEF f, g
<1>8. frames' = Append([fs EXCEPT ![Len(frames) - 1] = f], g)
  BY <1>3, <1>5, <1>6, <1>7, SeqTwoReplaced
<1>9. StackInv(fs) /\ Len(fs) = Len(frames) - 1 /\ fs[Len(fs)] = Caller
  BY <1>2, <1>3, CallGone
<1>10. frames' = gs  BY <1>8, <1>9
<1> HIDE DEF fs
<1>11. Len(fs) > 0 /\ Len(fs) \in 1 .. Len(fs) /\ fs \in Seq(Frame)  BY <1>3, <1>9 DEF StackInv
<1>12. CallInv(f) /\ f.mode \in Waiting  BY <1>2, <1>4, <1>5 DEF CallInv, Waiting
<1>13. CallInv(g)
  <2>1. g.at <= size /\ g.lim <= MaxDepth  BY <1>3, <1>4, <1>6, ExploreAssumption
  <2> QED  BY <1>4, <1>6, <2>1 DEF CallInv, Waiting
<1>14. Position(f) = Position(fs[Len(fs)])  BY <1>5, <1>9 DEF Position
<1>15. Position(g) > Position(f)  BY <1>3, <1>4, <1>5, <1>6, LaterLimit
<1>16. g.at = f.to /\ g.lim = f.lim + 1  BY <1>5, <1>6
<1>17. StackInv(gs)
  BY <1>5, <1>6, <1>9, <1>11, <1>12, <1>13, <1>14, <1>15, <1>16, CallMade
<1>18. Len(gs) > 0 /\ gs[Len(gs)] = g
  <2>1. hs \in Seq(Frame) /\ Len(hs) = Len(fs)  BY <1>5, <1>11, SeqReplaced
  <2> HIDE DEF hs
  <2>2. gs \in Seq(Frame) /\ Len(gs) = Len(fs) + 1 /\ gs[Len(fs) + 1] = g
    BY <1>6, <2>1, SeqExtended
  <2> QED  BY <1>11, <2>2
<1> HIDE DEF gs
<1>19. judged' \in BOOLEAN /\ (judged' <=> gs[Len(gs)].mode = "attack")
       /\ sims' \in Int /\ texts' \in Int /\ dropped' \in Nat
  BY <1>1, <1>2, <1>6, <1>18, TopFacts DEF Child
<1> QED  BY <1>1, <1>2, <1>10, <1>17, <1>18, <1>19, NextStack
-----------------------------------------------------------------------------
(* Before the exploration and behind it there are no calls.                *)
LEMMA NoCalls == StackInv(<<>>)
<1>1. <<>> \in Seq(Frame) /\ Len(<<>>) = 0  OBVIOUS
<1>2. \A i \in 1 .. Len(<<>>) : FALSE  BY <1>1
<1>3. \A i \in 2 .. Len(<<>>) : FALSE  BY <1>1
<1> QED  BY <1>1, <1>2, <1>3 DEF StackInv

LEMMA OutsideExplores ==
  ASSUME ExploreInv, frames = <<>>, UNCHANGED <<frames, judged>>,
         ExploreTypeOK', phase' # "explore", phase' = "load" \/ size' > 0, PhaseInv'
  PROVE  ExploreInv'
<1>1. StackInv(frames)'  BY NoCalls DEF StackInv, CallInv, Comes, Follows, RunsTwice, Position
<1> QED  BY <1>1 DEF ExploreInv

LEMMA PrepareExplores ==
  ASSUME ExploreInv, PrepareFails \/ PrepareFreesWild \/ Prepare \/ Finish
  PROVE  ExploreInv'
<1>1. CASE PrepareFails \/ PrepareFreesWild
  <2>1. phase = "prepare" /\ fault = "none" /\ frames = <<>> /\ ~judged /\ result = 0 /\ size > 0
    BY <1>1 DEF PrepareFails, PrepareFreesWild, ExploreInv, ExploreTypeOK, PhaseInv
  <2>2. /\ UNCHANGED <<size, branch, frames, result, sims, texts, judged, dropped>>
        /\ (phase' = "done" /\ fault' = "none") \/ (phase' = "prepare" /\ fault' = "wild")
    <3>1. CASE PrepareFails  BY <2>1, <3>1 DEF PrepareFails
    <3>2. CASE PrepareFreesWild  BY <2>1, <3>2 DEF PrepareFreesWild
    <3> QED  BY <1>1, <3>1, <3>2
  <2>3. ExploreTypeOK'  BY <2>1, <2>2 DEF ExploreInv, ExploreTypeOK
  <2>4. PhaseInv'  BY <2>1, <2>2 DEF PhaseInv
  <2> QED  BY <2>1, <2>2, <2>3, <2>4, OutsideExplores
<1>2. CASE Prepare
  <2> DEFINE g == Call(1, 0, 0, 0, TRUE, FALSE)
  <2>1. phase = "prepare" /\ fault = "none" /\ ~judged /\ result = 0 /\ size > 0
        /\ size \in 0 .. MaxSize
    BY <1>2 DEF Prepare, ExploreInv, ExploreTypeOK, PhaseInv
  <2>2. phase' = "explore" /\ frames' = <<g>> /\ sims' = 1 /\ texts' = 1
        /\ UNCHANGED <<size, branch, result, fault, judged, dropped>>
    BY <1>2 DEF Prepare
  <2>3. g \in Frame /\ g.mode = "run" /\ g.at = 1 /\ g.lim = 0 /\ g.last = 0 /\ g.text
    BY DEF Call, Frame
  <2> HIDE DEF g
  <2>4. <<g>> \in Seq(Frame) /\ Len(<<g>>) = 1 /\ <<g>>[1] = g  BY <2>3
  <2>5. CallInv(g) /\ Position(g) >= 1 /\ Follows(g)
    <3>1. MaxSize \in Nat /\ 0 * MaxSize = 0  BY ExploreAssumption
    <3> QED  BY <2>1, <2>3, <3>1, ExploreAssumption DEF CallInv, Waiting, Position, Follows
  <2>6. StackInv(<<g>>)
    <3>1. \A i \in 1 .. Len(<<g>>) : i = 1 /\ ~(i < Len(<<g>>)) /\ <<g>>[i] = g  BY <2>4
    <3>2. \A i \in 2 .. Len(<<g>>) : FALSE  BY <2>4
    <3> QED  BY <2>4, <2>5, <3>1, <3>2 DEF StackInv, Comes
  <2>7. StackInv(frames)'
    BY <2>2, <2>6 DEF StackInv, CallInv, Comes, Follows, RunsTwice, Position
  <2>8. Top' = g /\ frames' \in Seq(Frame) /\ frames' # <<>>  BY <2>2, <2>4 DEF Top, Depth
  <2>9. ExploreTypeOK'  BY <2>1, <2>2, <2>8 DEF ExploreInv, ExploreTypeOK
  <2>10. PhaseInv'  BY <2>1, <2>2, <2>3, <2>8 DEF PhaseInv
  <2> QED  BY <2>1, <2>2, <2>7, <2>9, <2>10 DEF ExploreInv
<1>3. CASE Finish
  <2>1. phase = "explore" /\ Top.mode \in Returned /\ phase' = "done" /\ frames' = <<>>
        /\ result' = (IF Top.mode = "attack" THEN 1 ELSE 0)
        /\ sims' = sims - 1 /\ texts' = texts - (IF Top.text THEN 1 ELSE 0)
        /\ UNCHANGED <<size, branch, fault, judged, dropped>>
    BY <1>3 DEF Finish
  <2>2. (judged <=> Top.mode = "attack") /\ size > 0 /\ fault = "none"
        /\ sims \in Int /\ texts \in Int
    BY <2>1, TopFacts DEF ExploreInv, PhaseInv, ExploreTypeOK, Returned
  <2>3. StackInv(frames)'
    BY <2>1, NoCalls DEF StackInv, CallInv, Comes, Follows, RunsTwice, Position
  <2>4. frames' \in Seq(Frame)  BY <2>3 DEF StackInv
  <2>5. sims' \in Int /\ texts' \in Int /\ result' \in {0, 1}  BY <2>1, <2>2
  <2>6. ExploreTypeOK'  BY <2>1, <2>4, <2>5 DEF ExploreInv, ExploreTypeOK
  <2>7. PhaseInv'  BY <2>1, <2>2 DEF PhaseInv
  <2> QED  BY <2>1, <2>2, <2>3, <2>6, <2>7 DEF ExploreInv
<1> QED  BY <1>1, <1>2, <1>3

LEMMA LoadExplores ==
  ASSUME ExploreInv, NEW n \in 1 .. MaxSize, Load(n)
  PROVE  ExploreInv'
<1>1. phase = "load" /\ frames = <<>> /\ ~judged /\ result = 0 /\ fault = "none"
  BY DEF Load, ExploreInv, ExploreTypeOK, PhaseInv
<1>2. phase' = "prepare" /\ size' = n /\ branch' \in SUBSET (0 .. n - 1)
      /\ UNCHANGED <<frames, result, sims, texts, fault, judged, dropped>>
  BY DEF Load
<1>3. n \in 0 .. MaxSize /\ n > 0  BY ExploreAssumption
<1>4. ExploreTypeOK'  BY <1>1, <1>2, <1>3 DEF ExploreInv, ExploreTypeOK
<1>5. PhaseInv'  BY <1>1, <1>2 DEF PhaseInv
<1> QED  BY <1>1, <1>2, <1>3, <1>4, <1>5, OutsideExplores

LEMMA ExploreStarts == ExploreInit => ExploreInv
<1> SUFFICES ASSUME ExploreInit PROVE ExploreInv  OBVIOUS
<1> USE DEF ExploreInit
<1>1. StackInv(frames)  BY NoCalls
<1>2. 0 \in 0 .. MaxSize /\ frames \in Seq(Frame)  BY ExploreAssumption
<1>3. ExploreTypeOK
  <2>1. size \in 0 .. MaxSize /\ branch \in SUBSET (0 .. size - 1)  BY <1>2
  <2>2. result \in {0, 1} /\ sims \in Int /\ texts \in Int /\ dropped \in Nat  OBVIOUS
  <2>3. judged \in BOOLEAN  OBVIOUS
  <2> QED  BY <1>2, <2>1, <2>2, <2>3, Zenon DEF ExploreTypeOK
<1>4. PhaseInv  BY DEF PhaseInv
<1> QED  BY <1>1, <1>3, <1>4 DEF ExploreInv

LEMMA ExecuteKeeps == ExploreInv /\ Execute => ExploreInv'
<1> SUFFICES ASSUME ExploreInv, Execute PROVE ExploreInv'  OBVIOUS
<1>1. CASE PrepareFails \/ PrepareFreesWild \/ Prepare \/ Finish  BY <1>1, PrepareExplores
<1>2. CASE LeaveLoop \/ Step \/ Judge \/ NotTaken \/ Taken \/ CallOrRet  BY <1>2, LoopExplores
<1>3. CASE CopyFails \/ CopyFreesWild \/ CopyFromNull \/ ForkDropped  BY <1>3, NoForkExplores
<1>4. CASE Fork  BY <1>4, ForkExplores DEF Fork
<1>5. CASE HandUp
  BY <1>5, HandUpAttackExplores, FwdFoundExplores, FallFoundExplores, BackFoundExplores DEF HandUp
<1> QED  BY <1>1, <1>2, <1>3, <1>4, <1>5 DEF Execute

LEMMA ExploreStutters == ExploreInv /\ UNCHANGED exploreVars => ExploreInv'
<1> SUFFICES ASSUME ExploreInv, UNCHANGED exploreVars PROVE ExploreInv'  OBVIOUS
<1> USE DEF exploreVars
<1>1. ExploreTypeOK'  BY DEF ExploreInv, ExploreTypeOK
<1>2. StackInv(frames)'
  BY DEF ExploreInv, StackInv, CallInv, Comes, Follows, RunsTwice, Position
<1>3. Top' = Top  BY DEF Top, Depth
<1>4. PhaseInv'  BY <1>3 DEF ExploreInv, PhaseInv
<1> QED  BY <1>1, <1>2, <1>4 DEF ExploreInv

LEMMA ExploreKeeps == ExploreInv /\ [ExploreNext]_exploreVars => ExploreInv'
BY LoadExplores, ExecuteKeeps, ExploreStutters DEF ExploreNext

(* What the invariant says of the exploration.                             *)
LEMMA InvOfCalls ==
  ExploreInv => ExploreTypeOK /\ OwnPath /\ AttackIsHandedUp /\ NullIsSecondFork /\ CallsAdvance
<1> SUFFICES ASSUME ExploreInv
             PROVE ExploreTypeOK /\ OwnPath /\ AttackIsHandedUp /\ NullIsSecondFork /\ CallsAdvance
  OBVIOUS
<1>1. ExploreTypeOK /\ StackInv(frames) /\ PhaseInv  BY DEF ExploreInv
<1>2. Depth = Len(frames) /\ Depth \in Nat /\ frames \in Seq(Frame)
  BY <1>1 DEF Depth, ExploreTypeOK
<1>3. OwnPath  BY <1>1, <1>2 DEF OwnPath, StackInv, Comes, TakesUpCopy
<1>4. CallsAdvance  BY <1>1, <1>2 DEF CallsAdvance, StackInv, CallInv
<1>5. NullIsSecondFork
  BY <1>1, <1>2 DEF NullIsSecondFork, StackInv, CallInv, PhaseInv
<1>6. AttackIsHandedUp
  <2>1. ASSUME judged, NEW i \in 1 .. Depth PROVE frames[i].mode # "run"
    <3>1. phase = "explore"
      <4>1. frames # <<>>  BY <1>2, <2>1
      <4> QED  BY <1>1, <4>1 DEF ExploreTypeOK
    <3>2. CASE i = Depth  BY <1>1, <2>1, <3>1, <3>2 DEF PhaseInv, Top
    <3>3. CASE i # Depth
      <4>1. frames[i].mode \in Waiting  BY <1>1, <1>2, <3>3 DEF StackInv
      <4> QED  BY <4>1 DEF Waiting
    <3> QED  BY <3>2, <3>3
  <2>2. phase = "done" => (result = 1 <=> judged)  BY <1>1 DEF PhaseInv
  <2> QED  BY <2>1, <2>2 DEF AttackIsHandedUp
<1> QED  BY <1>1, <1>3, <1>4, <1>5, <1>6
-----------------------------------------------------------------------------
(* The copies.  Only the call on top is not waiting, so that there is a    *)
(* simulation for every call and for every fork that was dropped; and      *)
(* every pointer to a symbolic text has a text of its own.                 *)
Texts == {i \in 1 .. Depth : frames[i].text}
CopyInv ==
  /\ phase = "explore" => Top.mode \notin Waiting
  /\ phase \in {"load", "prepare"} => dropped = 0
  /\ sims = Depth + dropped
  /\ texts >= Cardinality(Texts)

LEMMA TextsFinite ==
  ASSUME ExploreInv
  PROVE  IsFiniteSet(Texts) /\ Cardinality(Texts) \in Nat
<1>1. Depth \in Nat  BY DEF ExploreInv, ExploreTypeOK, Depth
<1>2. IsFiniteSet(1 .. Depth)  BY <1>1, FS_Interval
<1>3. IsFiniteSet(Texts)  BY <1>2, FS_Subset DEF Texts
<1> QED  BY <1>3, FS_CardinalityType

(* A text less, and one more.                                              *)
LEMMA OneLess ==
  ASSUME NEW S, IsFiniteSet(S), NEW T, T \subseteq S, NEW x, x \notin T
  PROVE  Cardinality(T) <= Cardinality(S) - (IF x \in S THEN 1 ELSE 0)
<1>1. Cardinality(S) \in Nat /\ Cardinality(T) \in Nat  BY FS_CardinalityType, FS_Subset
<1>2. CASE x \in S
  <2>1. IsFiniteSet(S \ {x}) /\ Cardinality(S \ {x}) = Cardinality(S) - 1
    BY <1>2, FS_RemoveElement
  <2>2. T \subseteq S \ {x}  OBVIOUS
  <2>3. Cardinality(T) <= Cardinality(S \ {x})  BY <2>1, <2>2, FS_Subset
  <2> QED  BY <1>2, <2>1, <2>3
<1>3. CASE x \notin S
  <2>1. Cardinality(T) <= Cardinality(S)  BY FS_Subset
  <2> QED  BY <1>1, <1>3, <2>1
<1> QED  BY <1>2, <1>3

LEMMA OneMore ==
  ASSUME NEW S, IsFiniteSet(S), NEW x
  PROVE  Cardinality(S \cup {x}) <= Cardinality(S) + 1
<1>1. Cardinality(S) \in Nat  BY FS_CardinalityType
<1>2. Cardinality(S \cup {x}) = IF x \in S THEN Cardinality(S) ELSE Cardinality(S) + 1
  BY FS_AddElement
<1> QED  BY <1>1, <1>2

(* What the ways to change the stack do to the texts.                      *)
LEMMA TopTexts ==
  ASSUME ExploreInv, phase = "explore", NEW g \in Frame, SetTop(g)
  PROVE  /\ Depth' = Depth /\ Top' = g
         /\ Texts' = IF g.text THEN Texts \cup {Depth} ELSE Texts \ {Depth}
<1>1. /\ frames' = [frames EXCEPT ![Depth] = g] /\ frames \in Seq(Frame)
      /\ Depth \in 1 .. Len(frames) /\ Depth = Len(frames)
  BY TopFacts DEF SetTop
<1>2. Len(frames') = Depth /\ frames'[Depth] = g
      /\ \A i \in 1 .. Depth : i # Depth => frames'[i] = frames[i]
  BY <1>1, SeqReplaced
<1>3. Depth' = Depth /\ Top' = g  BY <1>2 DEF Depth, Top
<1> QED  BY <1>1, <1>2, <1>3 DEF Texts

LEMMA PushTexts ==
  ASSUME ExploreInv, phase = "explore", NEW f \in Frame, NEW g \in Frame, Push(f, g),
         f.text = Top.text
  PROVE  /\ Depth' = Depth + 1 /\ Top' = g
         /\ Texts' \subseteq Texts \cup {Depth + 1}
<1>1. /\ frames' = Append([frames EXCEPT ![Depth] = f], g) /\ frames \in Seq(Frame)
      /\ Depth \in 1 .. Len(frames) /\ Depth = Len(frames)
  BY TopFacts DEF Push
<1> DEFINE hs == [frames EXCEPT ![Depth] = f]
<1>2. hs \in Seq(Frame) /\ Len(hs) = Depth /\ hs[Depth] = f
      /\ \A i \in 1 .. Depth : i # Depth => hs[i] = frames[i]
  BY <1>1, SeqReplaced
<1>3. frames' = Append(hs, g)  BY <1>1
<1> HIDE DEF hs
<1>4. Len(frames') = Depth + 1 /\ frames'[Depth + 1] = g
      /\ \A i \in 1 .. Depth : frames'[i] = hs[i]
  BY <1>2, <1>3, SeqExtended
<1>5. Depth' = Depth + 1 /\ Top' = g  BY <1>4 DEF Depth, Top
<1>6. \A i \in 1 .. Depth : frames'[i].text = frames[i].text
  BY <1>1, <1>2, <1>4 DEF Top
<1> QED  BY <1>1, <1>5, <1>6 DEF Texts

LEMMA BelowTexts ==
  ASSUME ExploreInv, Back, NEW g \in Frame, Below(g), g.text => Caller.text
  PROVE  /\ Depth' = Depth - 1 /\ Top' = g
         /\ Texts' \subseteq Texts
         /\ ~g.text => Depth - 1 \notin Texts'
         /\ Caller.text <=> Depth - 1 \in Texts
<1>1. /\ frames' = [SubSeq(frames, 1, Depth - 1) EXCEPT ![Depth - 1] = g]
      /\ frames \in Seq(Frame) /\ Depth = Len(frames) /\ Depth \in Nat /\ Depth > 1
      /\ Caller = frames[Depth - 1] /\ Caller \in Frame
  BY BelowTop, TopFacts DEF Below, Caller
<1>2. PICK n \in Nat : n = Depth - 1 /\ n > 0  BY <1>1
<1> DEFINE fs == SubSeq(frames, 1, n)
<1>3. fs \in Seq(Frame) /\ Len(fs) = n /\ \A i \in 1 .. n : fs[i] = frames[i]
  BY <1>1, <1>2
<1>4. frames' = [fs EXCEPT ![n] = g]  BY <1>1, <1>2
<1> HIDE DEF fs
<1>5. n \in 1 .. Len(fs)  BY <1>2, <1>3
<1>6. Len(frames') = n /\ frames'[n] = g /\ \A i \in 1 .. n : i # n => frames'[i] = fs[i]
  BY <1>3, <1>4, <1>5, SeqReplaced
<1>7. Depth' = n /\ Top' = g  BY <1>6 DEF Depth, Top
<1>8. \A i \in Texts' : i \in 1 .. n /\ frames'[i].text  BY <1>7 DEF Texts
<1>9. Texts' \subseteq Texts  BY <1>1, <1>2, <1>3, <1>6, <1>8 DEF Texts
<1>10. ~g.text => n \notin Texts'  BY <1>6, <1>8
<1>11. Caller.text <=> n \in Texts  BY <1>1, <1>2 DEF Texts
<1> QED  BY <1>2, <1>7, <1>9, <1>10, <1>11

(* The call on top is replaced: it gives up its text, if at all.           *)
LEMMA TopCopies ==
  ASSUME ExploreInv, CopyInv, phase = "explore", UNCHANGED phase, NEW g \in Frame, SetTop(g),
         g.mode \notin Waiting, g.text => Top.text, texts' \in Int,
         texts' >= texts - (IF Top.text /\ ~g.text THEN 1 ELSE 0),
         \/ UNCHANGED <<sims, dropped>>
         \/ sims' = sims + 1 /\ dropped' = dropped + 1
  PROVE  CopyInv'
<1>1. Depth' = Depth /\ Top' = g
      /\ Texts' = IF g.text THEN Texts \cup {Depth} ELSE Texts \ {Depth}
  BY TopTexts
<1>2. Depth \in Nat /\ Depth > 0 /\ sims \in Int /\ texts \in Int /\ dropped \in Nat
      /\ Top.text \in BOOLEAN /\ g.text \in BOOLEAN
  BY TopFacts DEF Frame
<1>3. Depth \in Texts <=> Top.text  BY <1>2 DEF Texts, Top
<1>4. IsFiniteSet(Texts) /\ Cardinality(Texts) \in Nat  BY TextsFinite
<1>5. texts' >= Cardinality(Texts')
  <2>1. CASE g.text
    <3>1. Texts' = Texts  BY <1>1, <1>3, <2>1
    <3> QED  BY <1>2, <1>4, <2>1, <3>1 DEF CopyInv
  <2>2. CASE ~g.text
    <3>1. Texts' = Texts \ {Depth}  BY <1>1, <2>2
    <3>2. Cardinality(Texts') = IF Depth \in Texts THEN Cardinality(Texts) - 1
                                                  ELSE Cardinality(Texts)
      BY <1>4, <3>1, FS_RemoveElement
    <3> QED  BY <1>2, <1>3, <1>4, <2>2, <3>2 DEF CopyInv
  <2> QED  BY <2>1, <2>2
<1>6. sims' = Depth' + dropped'
  <2>1. sims = Depth + dropped  BY DEF CopyInv
  <2> QED  BY <1>1, <1>2, <2>1
<1> QED  BY <1>1, <1>5, <1>6 DEF CopyInv

(* The call on top is gone: the text of its caller is freed, or stays.     *)
LEMMA BelowCopies ==
  ASSUME ExploreInv, CopyInv, Back, UNCHANGED phase,
         NEW g \in Frame, Below(g), g.mode \notin Waiting,
         \/ texts' = texts /\ g.text = Caller.text
         \/ texts' = texts - (IF Caller.text THEN 1 ELSE 0) /\ ~g.text,
         \/ sims' = sims - 1 /\ UNCHANGED dropped
         \/ sims' = sims /\ dropped' = dropped + 1
  PROVE  CopyInv'
<1>1. Depth' = Depth - 1 /\ Top' = g /\ Texts' \subseteq Texts
      /\ (~g.text => Depth - 1 \notin Texts') /\ (Caller.text <=> Depth - 1 \in Texts)
  BY BelowTexts
<1>2. phase = "explore" /\ Depth \in Nat /\ sims \in Int /\ texts \in Int /\ dropped \in Nat
  BY BelowTop, TopFacts
<1>3. IsFiniteSet(Texts) /\ Cardinality(Texts) \in Nat  BY TextsFinite
<1>4. Cardinality(Texts') \in Nat /\ Cardinality(Texts') <= Cardinality(Texts)
  BY <1>1, <1>3, FS_Subset, FS_CardinalityType
<1>5. texts' >= Cardinality(Texts')
  <2>1. CASE texts' = texts  BY <1>2, <1>3, <1>4, <2>1 DEF CopyInv
  <2>2. CASE texts' = texts - (IF Caller.text THEN 1 ELSE 0) /\ ~g.text
    <3>1. PICK x \in Int : x = Depth - 1  BY <1>2
    <3>2. x \notin Texts' /\ (Caller.text <=> x \in Texts)  BY <1>1, <2>2, <3>1
    <3>3. Cardinality(Texts') <= Cardinality(Texts) - (IF x \in Texts THEN 1 ELSE 0)
      BY <1>1, <1>3, <3>2, OneLess
    <3> QED  BY <1>2, <1>3, <1>4, <2>2, <3>2, <3>3 DEF CopyInv
  <2> QED  BY <2>1, <2>2
<1>6. sims' = Depth' + dropped'
  <2>1. sims = Depth + dropped  BY DEF CopyInv
  <2> QED  BY <1>1, <1>2, <2>1
<1> QED  BY <1>1, <1>2, <1>5, <1>6 DEF CopyInv

(* The actions, in the order of the model.                                 *)
LEMMA LoopCopies ==
  ASSUME ExploreInv, CopyInv, LeaveLoop \/ Step \/ Judge \/ NotTaken \/ Taken \/ CallOrRet
  PROVE  CopyInv'
<1>1. Running /\ UNCHANGED <<phase, sims, texts, dropped>>
  BY DEF LeaveLoop, Step, Judge, NotTaken, Taken, CallOrRet, AtBranch
<1>2. phase = "explore" /\ Top.mode = "run"  BY <1>1 DEF Running
<1>3. Top \in Frame /\ Top.text \in BOOLEAN /\ Top.lim + 1 \in Nat /\ Top.at + 1 \in Nat
      /\ size \in Nat /\ sims \in Int /\ texts \in Int /\ dropped \in Nat
  <2>1. Top \in Frame /\ size \in Nat /\ sims \in Int /\ texts \in Int /\ dropped \in Nat
    BY <1>2, TopFacts
  <2>2. Top.text \in BOOLEAN /\ Top.lim \in Nat /\ Top.at \in Nat  BY <2>1 DEF Frame
  <2> QED  BY <2>1, <2>2
<1>4. ASSUME NEW g \in Frame, SetTop(g), g.mode \notin Waiting, g.text = Top.text
      PROVE  CopyInv'
  <2>1. texts' >= texts - (IF Top.text /\ ~g.text THEN 1 ELSE 0) /\ texts' \in Int
    BY <1>1, <1>3, <1>4
  <2> QED  BY <1>1, <1>2, <1>4, <2>1, TopCopies
<1>5. ASSUME NEW mode \in Returned, Return(mode) PROVE CopyInv'
  <2> DEFINE g == [Top EXCEPT !.mode = mode]
  <2>1. g \in Frame /\ g.mode = mode /\ g.text = Top.text  BY <1>3, ReturnedFrame
  <2>2. SetTop(g)  BY <1>5 DEF Return
  <2> HIDE DEF g
  <2> QED  BY <1>4, <2>1, <2>2 DEF Waiting, Returned
<1>6. ASSUME NEW at \in Nat, SetTop(Goto(at)) PROVE CopyInv'
  <2> DEFINE g == Goto(at)
  <2>1. g \in Frame /\ g.mode = "run" /\ g.text = Top.text  BY <1>2, <1>3 DEF Goto, Frame
  <2>2. SetTop(g)  BY <1>6
  <2> HIDE DEF g
  <2> QED  BY <1>4, <2>1, <2>2 DEF Waiting
<1>7. "none" \in Returned /\ "attack" \in Returned  BY DEF Returned
<1>8. CASE LeaveLoop  BY <1>5, <1>7, <1>8 DEF LeaveLoop
<1>9. CASE Step  BY <1>3, <1>5, <1>6, <1>7, <1>9 DEF Step
<1>10. CASE Judge  BY <1>5, <1>7, <1>10 DEF Judge
<1>11. CASE NotTaken
  <2> DEFINE g == [Goto(Top.at + 1) EXCEPT !.last = Top.at + 1]
  <2>1. g \in Frame
    <3>1. \A at \in Nat : [Goto(at) EXCEPT !.last = at] \in Frame  BY <1>3 DEF Goto, Frame
    <3> QED  BY <1>3, <3>1
  <2>2. g.mode = "run" /\ g.text = Top.text  BY <1>2, <1>3 DEF Goto, Frame
  <2>3. SetTop(g)  BY <1>11 DEF NotTaken
  <2> HIDE DEF g
  <2> QED  BY <1>4, <2>1, <2>2, <2>3 DEF Waiting
<1>12. CASE Taken
  <2>1. CASE \E new \in 1 .. size - 1 : SetTop(Goto(new))
    <3>1. PICK new \in 1 .. size - 1 : SetTop(Goto(new))  BY <2>1
    <3>2. new \in Nat  BY <1>3
    <3> QED  BY <1>6, <3>1, <3>2
  <2> QED  BY <1>5, <1>7, <1>12, <2>1 DEF Taken
<1>13. CASE CallOrRet  BY <1>5, <1>7, <1>13 DEF CallOrRet
<1> QED  BY <1>8, <1>9, <1>10, <1>11, <1>12, <1>13

LEMMA NoForkCopies ==
  ASSUME ExploreInv, CopyInv, CopyFails \/ CopyFreesWild \/ CopyFromNull \/ ForkDropped
  PROVE  CopyInv'
<1>1. phase = "explore" /\ UNCHANGED phase
  BY DEF CopyFails, CopyFreesWild, CopyFromNull, ForkDropped, AtBranch, Running
<1>2. Top \in Frame /\ Top.text \in BOOLEAN /\ sims \in Int /\ texts \in Int /\ dropped \in Nat
  BY <1>1, TopFacts DEF Frame
<1>3. CASE CopyFails
  <2> DEFINE g == [Top EXCEPT !.mode = "none", !.text = FALSE, !.forked = TRUE]
  <2>1. g \in Frame /\ g.mode \notin Waiting /\ ~g.text  BY <1>2 DEF Frame, Returned, Waiting
  <2>2. SetTop(g) /\ texts' = texts - (IF Top.text THEN 1 ELSE 0)
        /\ UNCHANGED <<sims, dropped>>
    BY <1>3 DEF CopyFails
  <2> HIDE DEF g
  <2>3. texts' >= texts - (IF Top.text /\ ~g.text THEN 1 ELSE 0) /\ texts' \in Int
    BY <1>2, <2>1, <2>2
  <2> QED  BY <1>1, <2>1, <2>2, <2>3, TopCopies
<1>4. CASE ForkDropped
  <2> DEFINE g == [Top EXCEPT !.mode = "none", !.forked = TRUE]
  <2>1. g \in Frame /\ g.mode \notin Waiting /\ g.text = Top.text
    BY <1>2 DEF Frame, Returned, Waiting
  <2>2. SetTop(g) /\ sims' = sims + 1 /\ texts' = texts + 1 /\ dropped' = dropped + 1
    BY <1>4 DEF ForkDropped
  <2> HIDE DEF g
  <2>3. texts' >= texts - (IF Top.text /\ ~g.text THEN 1 ELSE 0) /\ texts' \in Int
    BY <1>2, <2>1, <2>2
  <2> QED  BY <1>1, <2>1, <2>2, <2>3, TopCopies
<1>5. CASE CopyFreesWild \/ CopyFromNull
  <2>1. UNCHANGED <<frames, phase, sims, texts, dropped>>
    BY <1>5 DEF CopyFreesWild, CopyFromNull
  <2> QED  BY <2>1 DEF CopyInv, Texts, Depth, Top
<1> QED  BY <1>3, <1>4, <1>5

LEMMA ForkCopies ==
  ASSUME ExploreInv, CopyInv, NEW new \in 0 .. size - 1, ForkFwd(new) \/ ForkBack(new)
  PROVE  CopyInv'
<1>1. /\ phase = "explore" /\ phase' = phase
      /\ sims' = sims + 1 /\ texts' = texts + 1 /\ dropped' = dropped
  BY DEF ForkFwd, ForkBack, AtBranch, Running
<1>2. Top \in Frame /\ sims \in Int /\ texts \in Int /\ dropped \in Nat /\ Depth \in Nat
      /\ new \in Nat
  BY <1>1, TopFacts
<1>3. Top.at + 1 \in Nat /\ Top.lim + 1 \in Nat /\ Top.lim \in Nat /\ Top.at \in Nat
      /\ Top.cyc \in Nat
  BY <1>2 DEF Frame
<1>4. PICK mode \in {"fwd", "fall"}, at \in Nat, lim \in Nat :
        Push(Forked(mode, new), Call(at, lim, Top.cyc, Top.at, TRUE, FALSE))
  BY <1>2, <1>3 DEF ForkFwd, ForkBack
<1> DEFINE f == Forked(mode, new)
           g == Call(at, lim, Top.cyc, Top.at, TRUE, FALSE)
<1>5. f \in Frame /\ f.text = Top.text  BY <1>2, <1>3, <1>4 DEF Forked, Frame, Waiting
<1>6. g \in Frame /\ g.mode = "run"  BY <1>3, <1>4 DEF Call, Frame
<1>7. Push(f, g)  BY <1>4
<1> HIDE DEF f, g
<1>8. Depth' = Depth + 1 /\ Top' = g /\ Texts' \subseteq Texts \cup {Depth + 1}
  BY <1>1, <1>5, <1>6, <1>7, PushTexts
<1>9. texts' >= Cardinality(Texts')
  <2>1. IsFiniteSet(Texts) /\ Cardinality(Texts) \in Nat  BY TextsFinite
  <2>2. PICK x \in Nat : x = Depth + 1  BY <1>2
  <2>3. Cardinality(Texts \cup {x}) <= Cardinality(Texts) + 1  BY <2>1, OneMore
  <2>4. IsFiniteSet(Texts \cup {x}) /\ Texts' \subseteq Texts \cup {x}
    BY <1>8, <2>1, <2>2, FS_AddElement
  <2>5. Cardinality(Texts') <= Cardinality(Texts \cup {x}) /\ IsFiniteSet(Texts')
    BY <2>4, FS_Subset
  <2>6. Cardinality(Texts') \in Nat /\ Cardinality(Texts \cup {x}) \in Nat
    BY <2>4, <2>5, FS_CardinalityType
  <2>7. texts >= Cardinality(Texts)  BY DEF CopyInv
  <2> QED  BY <1>1, <1>2, <2>1, <2>3, <2>5, <2>6, <2>7
<1>10. sims' = Depth' + dropped'
  <2>1. sims = Depth + dropped  BY DEF CopyInv
  <2> QED  BY <1>1, <1>2, <1>8, <2>1
<1> QED  BY <1>1, <1>6, <1>8, <1>9, <1>10 DEF CopyInv, Waiting

LEMMA FreeCopies ==
  ASSUME ExploreInv, CopyInv, HandUpAttack \/ FwdFoundNothing
  PROVE  CopyInv'
<1>1. Back /\ FreeCopy /\ UNCHANGED <<phase, dropped>>  BY DEF HandUpAttack, FwdFoundNothing
<1>2. Caller \in Frame  BY <1>1, BelowTop
<1>3. Caller.at + 1 \in Nat /\ Caller.lim + 1 \in Nat  BY <1>2 DEF Frame
<1>4. ASSUME NEW g \in Frame, Below(g), g.mode \notin Waiting, ~g.text PROVE CopyInv'
  <2>1. texts' = texts - (IF Caller.text THEN 1 ELSE 0) /\ sims' = sims - 1
    BY <1>1 DEF FreeCopy
  <2> QED  BY <1>1, <1>4, <2>1, BelowCopies
<1>5. CASE HandUpAttack
  <2> DEFINE g == [Caller EXCEPT !.mode = "attack", !.text = FALSE]
  <2>1. g \in Frame /\ g.mode \notin Waiting /\ ~g.text  BY <1>2 DEF Frame, Returned, Waiting
  <2>2. Below(g)  BY <1>5 DEF HandUpAttack
  <2> HIDE DEF g
  <2> QED  BY <1>4, <2>1, <2>2
<1>6. CASE FwdFoundNothing
  <2> DEFINE g == [Caller EXCEPT !.mode = "run", !.at = @ + 1, !.lim = @ + 1, !.text = FALSE]
  <2>1. g \in Frame /\ g.mode \notin Waiting /\ ~g.text  BY <1>2, <1>3 DEF Frame, Waiting
  <2>2. Below(g)  BY <1>6 DEF FwdFoundNothing
  <2> HIDE DEF g
  <2> QED  BY <1>4, <2>1, <2>2
<1> QED  BY <1>5, <1>6

LEMMA BackFoundCopies == ASSUME ExploreInv, CopyInv, BackFoundNothing PROVE CopyInv'
<1> DEFINE g == [Caller EXCEPT !.mode = "none"]
<1>1. Back /\ Below(g) /\ dropped' = dropped + 1 /\ UNCHANGED <<phase, sims, texts>>
  BY DEF BackFoundNothing
<1>2. Caller \in Frame  BY <1>1, BelowTop
<1>3. g \in Frame /\ g.mode \notin Waiting /\ g.text = Caller.text
  BY <1>2, ReturnedFrame DEF Returned, Waiting
<1> HIDE DEF g
<1> QED  BY <1>1, <1>3, BelowCopies

(* The second call takes over what the first has worked on.                *)
LEMMA FallFoundCopies == ASSUME ExploreInv, CopyInv, FallFoundNothing PROVE CopyInv'
<1> DEFINE f == [Caller EXCEPT !.mode = "back"]
           g == Call(Caller.to, Caller.lim + 1, Caller.cyc + 1,
                     Child.last, Child.text, Child.forked)
<1>1. Back /\ frames' = [frames EXCEPT ![Depth - 1] = f, ![Depth] = g]
      /\ UNCHANGED <<phase, sims, texts, dropped>>
  BY DEF FallFoundNothing
<1>2. Caller \in Frame /\ Child \in Frame /\ Caller = frames[Depth - 1] /\ Child = frames[Depth]
      /\ frames \in Seq(Frame) /\ Depth = Len(frames) /\ Depth \in Nat /\ Depth > 1
  BY <1>1, BelowTop, TopFacts DEF Child
<1>3. f.text = Caller.text  BY <1>2 DEF Frame
<1>4. g.text = Child.text /\ g.mode = "run"  BY DEF Call
<1> HIDE DEF f, g
<1>5. Len(frames') = Depth /\ frames'[Depth] = g /\ frames'[Depth - 1] = f
      /\ \A i \in 1 .. Depth : i # Depth /\ i # Depth - 1 => frames'[i] = frames[i]
  BY <1>1, <1>2
<1>6. \A i \in 1 .. Depth : frames'[i].text = frames[i].text  BY <1>2, <1>3, <1>4, <1>5
<1>7. Depth' = Depth /\ Top' = g  BY <1>5 DEF Depth, Top
<1>8. Texts' = Texts  BY <1>6, <1>7 DEF Texts
<1> QED  BY <1>1, <1>4, <1>7, <1>8 DEF CopyInv, Waiting

(* Before the exploration and behind it.                                   *)
LEMMA PrepareCopies ==
  ASSUME ExploreInv, CopyInv, PrepareFails \/ PrepareFreesWild \/ Prepare \/ Finish
  PROVE  CopyInv'
<1>1. sims = Depth + dropped /\ dropped \in Nat /\ sims \in Int /\ texts \in Int
      /\ texts >= Cardinality(Texts)
  BY DEF CopyInv, ExploreInv, ExploreTypeOK
<1>2. CASE PrepareFails \/ PrepareFreesWild
  <2>1. UNCHANGED <<frames, sims, texts, dropped>> /\ phase = "prepare" /\ phase' # "explore"
    BY <1>2 DEF PrepareFails, PrepareFreesWild
  <2> QED  BY <2>1 DEF CopyInv, Texts, Depth
<1>3. CASE Prepare
  <2> DEFINE g == Call(1, 0, 0, 0, TRUE, FALSE)
  <2>1. frames' = <<g>> /\ sims' = 1 /\ texts' = 1 /\ dropped' = dropped /\ frames = <<>>
    BY <1>3 DEF Prepare, ExploreInv, ExploreTypeOK
  <2>2. g.mode = "run"  BY DEF Call
  <2> HIDE DEF g
  <2>3. Len(frames') = 1 /\ frames'[1] = g /\ Len(frames) = 0  BY <2>1
  <2>4. Depth' = 1 /\ Top' = g /\ Depth = 0  BY <2>3 DEF Depth, Top
  <2>5. phase = "prepare" /\ phase' = "explore"  BY <1>3 DEF Prepare
  <2>6. dropped = 0  BY <2>5 DEF CopyInv
  <2>7. \A i \in Texts' : i = 1  BY <2>4 DEF Texts
  <2>8. Cardinality(Texts') <= 1 /\ Cardinality(Texts') \in Nat
    <3>1. IsFiniteSet({1}) /\ Cardinality({1}) = 1  BY FS_Singleton
    <3>2. Texts' \subseteq {1}  BY <2>7
    <3> QED  BY <3>1, <3>2, FS_Subset, FS_CardinalityType
  <2>9. texts' >= Cardinality(Texts') /\ sims' = Depth' + dropped'
    BY <2>1, <2>4, <2>6, <2>8
  <2> QED  BY <2>2, <2>4, <2>5, <2>9 DEF CopyInv, Waiting
<1>4. CASE Finish
  <2>1. Top.text \in BOOLEAN /\ Depth = 1 /\ frames' = <<>> /\ phase' = "done"
        /\ sims' = sims - 1 /\ dropped' = dropped
        /\ texts' = texts - (IF Top.text THEN 1 ELSE 0)
    BY <1>4, TopFacts DEF Finish, Frame
  <2>2. Depth' = 0 /\ Texts' = {}  BY <2>1 DEF Depth, Texts
  <2>3. Cardinality(Texts') = 0  BY <2>2, FS_EmptySet
  <2>4. Depth \in Texts <=> Top.text  BY <2>1 DEF Texts, Top
  <2>5. texts' >= 0
    <3>1. IsFiniteSet(Texts) /\ Cardinality(Texts) \in Nat  BY TextsFinite
    <3>2. Cardinality({}) = 0  BY FS_EmptySet
    <3>3. Cardinality({}) <= Cardinality(Texts) - (IF 1 \in Texts THEN 1 ELSE 0)
      BY <3>1, OneLess
    <3> QED  BY <1>1, <2>1, <2>4, <3>1, <3>2, <3>3
  <2>6. sims' = Depth' + dropped'  BY <1>1, <2>1, <2>2
  <2> QED  BY <2>1, <2>3, <2>5, <2>6 DEF CopyInv
<1> QED  BY <1>2, <1>3, <1>4

LEMMA CopiesStart == ExploreInit => CopyInv
<1> SUFFICES ASSUME ExploreInit PROVE CopyInv  OBVIOUS
<1>1. frames = <<>> /\ sims = 0 /\ texts = 0 /\ dropped = 0 /\ phase = "load"  BY DEF ExploreInit
<1>2. Depth = 0 /\ Texts = {}  BY <1>1 DEF Depth, Texts
<1>3. Cardinality(Texts) = 0  BY <1>2, FS_EmptySet
<1> QED  BY <1>1, <1>2, <1>3 DEF CopyInv

LEMMA CopiesKeep ==
  ASSUME ExploreInv, CopyInv,
         Execute \/ (\E n \in 1 .. MaxSize : Load(n)) \/ UNCHANGED exploreVars
  PROVE  CopyInv'
<1>1. CASE PrepareFails \/ PrepareFreesWild \/ Prepare \/ Finish  BY <1>1, PrepareCopies
<1>2. CASE LeaveLoop \/ Step \/ Judge \/ NotTaken \/ Taken \/ CallOrRet  BY <1>2, LoopCopies
<1>3. CASE CopyFails \/ CopyFreesWild \/ CopyFromNull \/ ForkDropped  BY <1>3, NoForkCopies
<1>4. CASE Fork  BY <1>4, ForkCopies DEF Fork
<1>5. CASE HandUp  BY <1>5, FreeCopies, FallFoundCopies, BackFoundCopies DEF HandUp
<1>6. CASE \E n \in 1 .. MaxSize : Load(n)
  <2>1. phase = "load" /\ phase' = "prepare" /\ UNCHANGED <<frames, sims, texts, dropped>>
    BY <1>6 DEF Load
  <2> QED  BY <2>1 DEF CopyInv, Texts, Depth
<1>7. CASE UNCHANGED exploreVars  BY <1>7 DEF exploreVars, CopyInv, Texts, Depth, Top
<1> QED  BY <1>1, <1>2, <1>3, <1>4, <1>5, <1>6, <1>7 DEF Execute

(* The forks that are open are all the calls but the one on top.           *)
LEMMA InvOfCopies == ExploreInv /\ CopyInv => CopiesAccounted
<1> SUFFICES ASSUME ExploreInv, CopyInv PROVE CopiesAccounted  OBVIOUS
<1>1. Depth = Len(frames) /\ Depth \in Nat /\ dropped \in Nat /\ sims = Depth + dropped
      /\ (phase = "explore" <=> frames # <<>>) /\ frames \in Seq(Frame)
  BY DEF Depth, ExploreInv, ExploreTypeOK, CopyInv
<1>2. CASE phase = "explore"
  <2>1. Depth > 0  BY <1>1, <1>2
  <2>2. PICK n \in Nat : n = Depth - 1  BY <1>1, <2>1
  <2>3. \A i \in 1 .. Depth : frames[i].mode \in Waiting <=> i < Depth
    <3> TAKE i \in 1 .. Depth
    <3>1. i < Depth => frames[i].mode \in Waiting  BY <1>1 DEF ExploreInv, StackInv
    <3>2. i = Depth => frames[i].mode \notin Waiting  BY <1>2 DEF CopyInv, Top
    <3> QED  BY <1>1, <3>1, <3>2
  <2>4. ForksOpen = 1 .. n  BY <1>1, <2>2, <2>3 DEF ForksOpen
  <2>5. Cardinality(ForksOpen) = n  BY <2>2, <2>4, FS_Interval
  <2> QED  BY <1>1, <1>2, <2>2, <2>5 DEF CopiesAccounted, CopyInv, Texts
<1>3. CASE phase # "explore"
  <2>1. Depth = 0 /\ ForksOpen = {}  BY <1>1, <1>3 DEF ForksOpen
  <2>2. Cardinality(ForksOpen) = 0  BY <2>1, FS_EmptySet
  <2> QED  BY <1>1, <1>3, <2>1, <2>2 DEF CopiesAccounted, CopyInv, Texts
<1> QED  BY <1>2, <1>3
-----------------------------------------------------------------------------
(* The analysis of a record.                                               *)
Listing == {"enter", "pages", "pin", "data", "info", "decode"}

(* Until the branch is in it the list has room for it; what was found goes *)
(* out once, at the end.                                                   *)
AnalyzeInv ==
  /\ TypeOK /\ ExploreInv /\ JudgesMissedBranch
  /\ pc \in Listing => index <= ListSize
  /\ pc \notin {"release", "end"} => sent = 0
-----------------------------------------------------------------------------
LEMMA AnalyzeStarts == Init => AnalyzeInv
<1> SUFFICES ASSUME Init PROVE AnalyzeInv  OBVIOUS
<1>1. ExploreInv  BY ExploreStarts DEF Init
<1>2. pc = "enter" /\ start \in Starts /\ sub \in Subs /\ held = {}  BY DEF Init
<1>3. pos = 0 /\ last = 0 /\ index = 0 /\ sent = 0 /\ index <= ListSize /\ index \in 0 .. MaxSize
  BY ExploreAssumption DEF Init, ListSize
<1>4. oops \in BOOLEAN  BY DEF Init
<1>5. TypeOK
  <2>1. pos \in Nat /\ last \in Nat /\ sent \in 0 .. 1  BY <1>3
  <2>2. pc \in {"enter", "pages", "pin", "data", "info", "decode", "run", "release", "end"}
    BY <1>2
  <2>3. held \subseteq {"pages", "pin", "data", "info"}  BY <1>2
  <2> QED  BY <1>1, <1>2, <1>3, <1>4, <2>1, <2>2, <2>3, Zenon DEF TypeOK, ExploreInv
<1>6. JudgesMissedBranch  BY <1>2 DEF JudgesMissedBranch
<1> QED  BY <1>1, <1>2, <1>3, <1>5, <1>6 DEF AnalyzeInv

(* A step that goes on without touching the list or what was found.        *)
LEMMA GoingKeeps ==
  ASSUME AnalyzeInv,
         NEW from \in Listing \cup {"release"},
         NEW to \in Listing \cup {"release", "end"}, Goes(from, to),
         to \in Listing => from \in Listing,
         pos' \in Nat, last' \in Nat, index' \in 0 .. MaxSize,
         to \in Listing => index' <= ListSize, oops' \in BOOLEAN,
         held' \subseteq {"pages", "pin", "data", "info"},
         UNCHANGED <<sent, exploreVars>>
  PROVE  AnalyzeInv'
<1>1. ExploreInv'  BY ExploreStutters DEF AnalyzeInv
<1>2. pc = from /\ pc' = to /\ start' = start /\ sub' = sub  BY DEF Goes
<1>3. pc' \in {"enter", "pages", "pin", "data", "info", "decode", "run", "release", "end"}
      /\ pc' # "run"
  BY <1>2 DEF Listing
<1>4. start' \in Starts /\ sub' \in Subs /\ sent' \in 0 .. 1  BY <1>2 DEF AnalyzeInv, TypeOK
<1>5. TypeOK'  BY <1>1, <1>3, <1>4, Zenon DEF TypeOK, ExploreInv
<1>6. JudgesMissedBranch'  BY <1>3 DEF JudgesMissedBranch
<1>7. pc' \notin {"release", "end"} => sent' = 0
  <2>1. to \notin {"release", "end"} => from \notin {"release", "end"}  BY DEF Listing
  <2> QED  BY <1>2, <2>1 DEF AnalyzeInv
<1> QED  BY <1>1, <1>2, <1>5, <1>6, <1>7 DEF AnalyzeInv

LEMMA SameKeeps ==
  ASSUME AnalyzeInv,
         NEW from \in Listing \cup {"release"},
         NEW to \in Listing \cup {"release", "end"}, Goes(from, to),
         to \in Listing => from \in Listing,
         Same, held' \subseteq {"pages", "pin", "data", "info"}
  PROVE  AnalyzeInv'
<1>1. pos' \in Nat /\ last' \in Nat /\ index' \in 0 .. MaxSize /\ oops' \in BOOLEAN
  BY DEF Same, AnalyzeInv, TypeOK
<1>2. from \in Listing => index <= ListSize  BY DEF AnalyzeInv, Goes
<1> QED  BY <1>1, <1>2, GoingKeeps DEF Same

LEMMA GettingKeeps ==
  ASSUME AnalyzeInv,
         Refuse \/ Accept \/ AllocPages \/ NoMemory \/ GetUserPages \/ AllocData \/ AllocInfo
         \/ Undecodable \/ Release
  PROVE  AnalyzeInv'
<1>1. held \subseteq {"pages", "pin", "data", "info"}  BY DEF AnalyzeInv, TypeOK
<1>2. CASE Refuse  BY <1>1, <1>2, SameKeeps DEF Refuse, Listing
<1>3. CASE Accept  BY <1>1, <1>3, SameKeeps DEF Accept, Listing
<1>4. CASE AllocPages  BY <1>1, <1>4, SameKeeps DEF AllocPages, Listing
<1>5. CASE NoMemory  BY <1>1, <1>5, SameKeeps DEF NoMemory, Listing
<1>6. CASE GetUserPages  BY <1>1, <1>6, SameKeeps DEF GetUserPages, Listing
<1>7. CASE AllocData  BY <1>1, <1>7, SameKeeps DEF AllocData, Listing
<1>8. CASE AllocInfo  BY <1>1, <1>8, SameKeeps DEF AllocInfo, Listing
<1>9. CASE Undecodable  BY <1>1, <1>9, SameKeeps DEF Undecodable, Listing
<1>10. CASE Release  BY <1>10, SameKeeps DEF Release, Listing
<1> QED  BY <1>2, <1>3, <1>4, <1>5, <1>6, <1>7, <1>8, <1>9, <1>10

LEMMA DecodingKeeps ==
  ASSUME AnalyzeInv, NoData \/ Decode
  PROVE  AnalyzeInv'
<1>1. held \subseteq {"pages", "pin", "data", "info"} /\ pos \in Nat /\ last \in Nat
      /\ index \in 0 .. MaxSize /\ oops \in BOOLEAN
  BY DEF AnalyzeInv, TypeOK
<1>2. CASE NoData
  <2>1. /\ Goes("data", "data") /\ oops' = TRUE
        /\ UNCHANGED <<held, pos, last, index, sent, exploreVars>>
    BY <1>2 DEF NoData
  <2>2. index <= ListSize  BY <2>1 DEF AnalyzeInv, Goes, Listing
  <2> QED  BY <1>1, <2>1, <2>2, GoingKeeps DEF Listing
<1>3. CASE Decode
  <2>1. Goes("decode", "decode") /\ index' = index + 1 /\ last' = pos
        /\ UNCHANGED <<held, oops, sent, exploreVars>>
    BY <1>3 DEF Decode
  <2>2. pos' \in Nat
    <3>1. PICK len \in 1 .. MaxLen : pos' = pos + len  BY <1>3 DEF Decode
    <3>2. MaxLen \in Nat  BY AnalyzeAssumption
    <3> QED  BY <1>1, <3>1, <3>2
  <2>3. index' <= ListSize /\ index' \in 0 .. MaxSize
    <3>1. ~(index >= ListSize)  BY <1>3 DEF Decode, AtEnd
    <3> QED  BY <1>1, <2>1, <3>1, ExploreAssumption DEF ListSize
  <2> QED  BY <1>1, <2>1, <2>2, <2>3, GoingKeeps DEF Listing
<1> QED  BY <1>2, <1>3

LEMMA DecodeBranchKeeps == ASSUME AnalyzeInv, DecodeBranch PROVE AnalyzeInv'
<1>1. Goes("decode", "run") /\ last' = pos /\ index' = index + 1 /\ Load(index + 1)
      /\ AtEnd /\ UNCHANGED <<held, pos, sent>>
  BY DEF DecodeBranch
<1>2. index \in 0 .. MaxSize /\ index <= ListSize /\ pos \in Nat /\ sent = 0
      /\ pc' = "run" /\ UNCHANGED <<start, sub>>
  BY <1>1 DEF AnalyzeInv, TypeOK, Goes, Listing
<1>3. index + 1 \in 1 .. MaxSize  BY <1>2, ExploreAssumption DEF ListSize
<1>4. ExploreInv'  BY <1>1, <1>3, LoadExplores DEF AnalyzeInv
<1>5. oops' \in BOOLEAN  BY DEF DecodeBranch
<1>6. TypeOK'
  <2>1. index' \in 0 .. MaxSize /\ last' \in Nat /\ pos' \in Nat /\ sent' \in 0 .. 1
    BY <1>1, <1>2, <1>3
  <2>2. start' \in Starts /\ sub' \in Subs /\ held' \subseteq {"pages", "pin", "data", "info"}
    BY <1>1, <1>2 DEF AnalyzeInv, TypeOK
  <2> QED  BY <1>2, <1>4, <1>5, <2>1, <2>2, Zenon DEF TypeOK, ExploreInv
<1>7. JudgesMissedBranch'
  <2>1. CASE pos = sub  BY <1>1, <1>2, <2>1 DEF JudgesMissedBranch
  <2>2. CASE index >= ListSize
    BY <1>1, <1>2, <2>2, ExploreAssumption DEF JudgesMissedBranch, ListSize
  <2> QED  BY <1>1, <2>1, <2>2 DEF AtEnd
<1> QED  BY <1>1, <1>2, <1>4, <1>6, <1>7 DEF AnalyzeInv, Listing

LEMMA RunKeeps == ASSUME AnalyzeInv, Run PROVE AnalyzeInv'
<1>1. ExploreInv'  BY ExecuteKeeps DEF Run, AnalyzeInv
<1>2. UNCHANGED outerVars  BY DEF Run
<1>3. TypeOK'  BY <1>1, <1>2 DEF AnalyzeInv, TypeOK, ExploreInv, outerVars
<1>4. JudgesMissedBranch'  BY <1>2 DEF AnalyzeInv, JudgesMissedBranch, outerVars, ListSize
<1> QED  BY <1>1, <1>2, <1>3, <1>4 DEF AnalyzeInv, outerVars, ListSize

LEMMA SendKeeps == ASSUME AnalyzeInv, Send PROVE AnalyzeInv'
<1>1. Goes("run", "release") /\ sent' = sent + result
      /\ UNCHANGED <<held, pos, last, index, oops, exploreVars>>
  BY DEF Send
<1>2. sent = 0 /\ pc' = "release" /\ UNCHANGED <<start, sub>>  BY <1>1 DEF AnalyzeInv, Goes
<1>3. ExploreInv'  BY <1>1, ExploreStutters DEF AnalyzeInv
<1>4. sent' \in 0 .. 1  BY <1>1, <1>2 DEF AnalyzeInv, TypeOK, ExploreTypeOK
<1>5. TypeOK'  BY <1>1, <1>2, <1>3, <1>4 DEF AnalyzeInv, TypeOK, ExploreInv
<1> QED  BY <1>2, <1>3, <1>5 DEF AnalyzeInv, JudgesMissedBranch, Listing

LEMMA AnalyzeKeeps == AnalyzeInv /\ [Next]_vars => AnalyzeInv'
<1> SUFFICES ASSUME AnalyzeInv, [Next]_vars PROVE AnalyzeInv'  OBVIOUS
<1>1. CASE UNCHANGED vars
  <2>1. ExploreInv'  BY <1>1, ExploreStutters DEF AnalyzeInv, vars
  <2>2. TypeOK'  BY <1>1, <2>1 DEF AnalyzeInv, TypeOK, ExploreInv, vars, outerVars
  <2> QED  BY <1>1, <2>1, <2>2 DEF AnalyzeInv, JudgesMissedBranch, vars, outerVars, ListSize
<1>2. CASE Next
  BY <1>2, GettingKeeps, DecodingKeeps, DecodeBranchKeeps, RunKeeps, SendKeeps DEF Next
<1> QED  BY <1>1, <1>2
-----------------------------------------------------------------------------
(* What is held until the code is read, and what has been sent when it is  *)
(* given back.                                                             *)
HeldInv ==
  /\ pc \in {"enter", "pages"} => held = {}
  /\ pc = "pin" => held = {"pages"}
  /\ pc \in Listing => phase = "load"
  /\ pc \in {"release", "end"} => phase \in {"load", "done"} /\ sent = result
  /\ pc = "end" => held = {} \/ (held = {"pages"} /\ phase = "load")

CleanInv == AnalyzeInv /\ CopyInv /\ HeldInv

LEMMA CleanStarts == Init => CleanInv
<1> SUFFICES ASSUME Init PROVE CleanInv  OBVIOUS
<1>1. AnalyzeInv /\ CopyInv  BY AnalyzeStarts, CopiesStart DEF Init
<1>2. HeldInv  BY DEF HeldInv, Init, ExploreInit, Listing
<1> QED  BY <1>1, <1>2 DEF CleanInv

LEMMA HeldKeeps == ASSUME CleanInv, Next PROVE HeldInv'
<1>1. (pc \in Listing => phase = "load" /\ sent = 0)
      /\ (phase = "load" => result = 0)
      /\ (pc \in {"enter", "pages"} => held = {}) /\ (pc = "pin" => held = {"pages"})
      /\ (pc = "run" => sent = 0)
      /\ (pc = "release" => phase \in {"load", "done"} /\ sent = result)
  BY DEF CleanInv, HeldInv, AnalyzeInv, ExploreInv, PhaseInv, Listing
<1>2. CASE Refuse \/ Accept
  <2>1. pc = "enter" /\ pc' \in {"pages", "end"} /\ UNCHANGED <<held, phase, sent, result>>
    BY <1>2 DEF Refuse, Accept, Goes, Same, exploreVars
  <2> QED  BY <1>1, <2>1 DEF HeldInv, Listing
<1>3. CASE AllocPages
  <2>1. pc = "pages" /\ UNCHANGED <<phase, sent, result>>
        /\ \/ pc' = "pin" /\ held' = held \cup {"pages"}
           \/ pc' = "end" /\ held' = held
    BY <1>3 DEF AllocPages, Goes, Same, exploreVars
  <2> QED  BY <1>1, <2>1 DEF HeldInv, Listing
<1>4. CASE NoMemory \/ GetUserPages
  <2>1. pc = "pin" /\ UNCHANGED <<phase, sent, result>>
        /\ \/ pc' = "end" /\ held' = held
           \/ pc' = "data"
           \/ pc' = "end" /\ held' = held \ {"pages"}
    BY <1>4 DEF NoMemory, GetUserPages, Goes, Same, exploreVars
  <2> QED  BY <1>1, <2>1 DEF HeldInv, Listing
<1>5. CASE AllocData \/ NoData
  <2>1. pc = "data" /\ pc' \in {"info", "data"} /\ UNCHANGED phase
    BY <1>5 DEF AllocData, NoData, Goes, Same, exploreVars
  <2> QED  BY <1>1, <2>1 DEF HeldInv, Listing
<1>6. CASE AllocInfo
  <2>1. pc = "info" /\ (pc' = "decode" \/ (pc' = "end" /\ held' = {}))
        /\ UNCHANGED <<phase, sent, result>>
    BY <1>6 DEF AllocInfo, Goes, Same, exploreVars
  <2> QED  BY <1>1, <2>1 DEF HeldInv, Listing
<1>7. CASE Decode \/ Undecodable
  <2>1. pc = "decode" /\ pc' \in {"decode", "release"} /\ UNCHANGED <<phase, sent, result>>
    BY <1>7 DEF Decode, Undecodable, Goes, Same, exploreVars
  <2> QED  BY <1>1, <2>1 DEF HeldInv, Listing
<1>8. CASE DecodeBranch \/ Run
  <2>1. pc' = "run"  BY <1>8 DEF DecodeBranch, Run, Goes, outerVars
  <2> QED  BY <2>1 DEF HeldInv, Listing
<1>9. CASE Send
  <2>1. pc = "run" /\ pc' = "release" /\ phase = "done" /\ sent' = sent + result
        /\ UNCHANGED <<phase, result>>
    BY <1>9 DEF Send, Goes, exploreVars
  <2>2. sent' = result
    <3>1. result \in Int  BY DEF CleanInv, AnalyzeInv, ExploreInv, ExploreTypeOK
    <3> QED  BY <1>1, <2>1, <3>1
  <2> QED  BY <2>1, <2>2 DEF HeldInv, Listing
<1>10. CASE Release
  <2>1. pc = "release" /\ pc' = "end" /\ held' = {} /\ UNCHANGED <<phase, sent, result>>
    BY <1>10 DEF Release, Goes, Same, exploreVars
  <2> QED  BY <1>1, <2>1 DEF HeldInv, Listing
<1> QED  BY <1>2, <1>3, <1>4, <1>5, <1>6, <1>7, <1>8, <1>9, <1>10 DEF Next

LEMMA CleanKeeps == CleanInv /\ [Next]_vars => CleanInv'
<1> SUFFICES ASSUME CleanInv, [Next]_vars PROVE CleanInv'  OBVIOUS
<1>1. AnalyzeInv'  BY AnalyzeKeeps DEF CleanInv
<1>2. CASE UNCHANGED vars
  <2>1. CopyInv'  BY <1>2, CopiesKeep DEF CleanInv, AnalyzeInv, vars
  <2>2. HeldInv'  BY <1>2 DEF CleanInv, HeldInv, vars, outerVars, exploreVars
  <2> QED  BY <1>1, <2>1, <2>2 DEF CleanInv
<1>3. CASE Next
  <2>1. UNCHANGED exploreVars \/ (\E n \in 1 .. MaxSize : Load(n)) \/ Execute
    <3>1. CASE DecodeBranch
      <4>1. Load(index + 1) /\ pc = "decode"  BY <3>1 DEF DecodeBranch, Goes
      <4>2. index \in 0 .. MaxSize /\ index <= ListSize
        BY <4>1 DEF CleanInv, AnalyzeInv, TypeOK, Listing
      <4>3. index + 1 \in 1 .. MaxSize  BY <4>2, ExploreAssumption DEF ListSize
      <4> QED  BY <4>1, <4>3
    <3>2. CASE Run  BY <3>2 DEF Run
    <3>3. CASE ~DecodeBranch /\ ~Run
      BY <1>3, <3>3 DEF Next, Refuse, Accept, AllocPages, NoMemory, GetUserPages, AllocData,
        NoData, AllocInfo, Decode, Undecodable, Send, Release, Same
    <3> QED  BY <3>1, <3>2, <3>3
  <2>2. CopyInv'  BY <2>1, CopiesKeep DEF CleanInv, AnalyzeInv
  <2> QED  BY <1>1, <1>3, <2>2, HeldKeeps DEF CleanInv
<1> QED  BY <1>2, <1>3

LEMMA InvOfTheEnd == CleanInv => EndsClean
<1> SUFFICES ASSUME CleanInv, pc = "end"
             PROVE  /\ held = {} \/ (held = {"pages"} /\ phase = "load")
                    /\ sims = dropped /\ (sent = 1 <=> judged)
  BY DEF EndsClean
<1>1. phase \in {"load", "done"} /\ sent = result
      /\ (held = {} \/ (held = {"pages"} /\ phase = "load"))
  BY DEF CleanInv, HeldInv
<1>2. sent = 1 <=> judged
  <2>1. PhaseInv  BY DEF CleanInv, AnalyzeInv, ExploreInv
  <2> QED  BY <1>1, <2>1 DEF PhaseInv
<1>3. sims = dropped
  <2>1. frames = <<>> /\ dropped \in Nat /\ sims = Depth + dropped
    BY <1>1 DEF CleanInv, CopyInv, AnalyzeInv, ExploreInv, ExploreTypeOK
  <2>2. Depth = 0  BY <2>1 DEF Depth
  <2> QED  BY <2>1, <2>2
<1> QED  BY <1>1, <1>2, <1>3
-----------------------------------------------------------------------------
LEMMA AnalyzeInvariant == Spec => []AnalyzeInv
BY AnalyzeStarts, AnalyzeKeeps, PTL DEF Spec

LEMMA CleanInvariant == Spec => []CleanInv
BY CleanStarts, CleanKeeps, PTL DEF Spec

(* The state of an analysis is always what the code's types and limits     *)
(* say: the list has at most one entry more than its array, one message    *)
(* goes out, a call is given an instruction and a limit (pebs_taine_       *)
(* analyze).                                                               *)
THEOREM AnalysisTypeCorrect == Spec => []TypeOK
<1>1. AnalyzeInv => TypeOK  BY DEF AnalyzeInv
<1> QED  BY <1>1, AnalyzeInvariant, PTL

(* No instruction is executed on values that come from elsewhere than the  *)
(* code before it, but where the source does so (symbolic_execution).      *)
THEOREM EveryPathIsOwn == Spec => []OwnPath
<1>1. AnalyzeInv => OwnPath  BY InvOfCalls DEF AnalyzeInv
<1> QED  BY <1>1, AnalyzeInvariant, PTL

(* An attack that any call finds is the result, and ends the exploration.  *)
THEOREM EveryAttackIsHandedUp == Spec => []AttackIsHandedUp
<1>1. AnalyzeInv => AttackIsHandedUp  BY InvOfCalls DEF AnalyzeInv
<1> QED  BY <1>1, AnalyzeInvariant, PTL

(* Only the copy for the second undecided branch of a path reads from NULL *)
(* (copy_simulation_info).                                                 *)
THEOREM FirstForkIsSafe == Spec => []NullIsSecondFork
<1>1. AnalyzeInv => NullIsSecondFork  BY InvOfCalls DEF AnalyzeInv
<1> QED  BY <1>1, AnalyzeInvariant, PTL

(* The calls advance: at most MaxDepth * MaxSize + MaxSize of them nest    *)
(* (symbolic_execution).                                                   *)
THEOREM RecursionIsBounded == Spec => []CallsAdvance
<1>1. AnalyzeInv => CallsAdvance  BY InvOfCalls DEF AnalyzeInv
<1> QED  BY <1>1, AnalyzeInvariant, PTL

(* The branch that was missed is the one that is judged, unless the list   *)
(* was overrun (disassemble_code).                                         *)
THEOREM MissedBranchIsJudged == Spec => []JudgesMissedBranch
<1>1. AnalyzeInv => JudgesMissedBranch  BY DEF AnalyzeInv
<1> QED  BY <1>1, AnalyzeInvariant, PTL

(* The copies allocated are those of the calls under way and those that a  *)
(* return forgot, and no symbolic pointer that is set points to a text     *)
(* that was freed (copy_simulation_info, free_simulation_info).            *)
THEOREM CopiesAreAccounted == Spec => []CopiesAccounted
<1>1. CleanInv => CopiesAccounted  BY InvOfCopies DEF CleanInv, AnalyzeInv
<1> QED  BY <1>1, CleanInvariant, PTL

(* An analysis that ends gives back all that it held, but the array of     *)
(* pages of a process without memory and the copies of dropped forks, and  *)
(* has sent the code if and only if an attack was found                    *)
(* (pebs_taine_analyze).                                                   *)
THEOREM AnalysisEndsClean == Spec => []EndsClean
<1>1. CleanInv => EndsClean  BY InvOfTheEnd
<1> QED  BY <1>1, CleanInvariant, PTL
=============================================================================
