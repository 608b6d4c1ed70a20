-------------------------- MODULE SampleScanProof --------------------------
(***************************************************************************)
(* Proofs about the scan of the debug store, for stores of every size and  *)
(* every content.                                                          *)
(***************************************************************************)
EXTENDS SampleScan, TLAPS

(* What holds at every iteration: p1 is never more than one behind p2, and *)
(* the pairs above p2 are written, the newest first.                       *)
CursorInv ==
  pc = "scan" => p2 \in 0 .. Len(store) /\ p1 >= p2 - 1
PairsAbove == {k \in 2 .. Len(store) : k > p2 /\ IsPair(k)}
WrittenInv ==
  pc = "scan" =>
    /\ Found = PairsAbove
    /\ \A i, j \in DOMAIN written : i < j => written[i].at > written[j].at
OwnerInv ==
  /\ pc = "scan" => hooked
  /\ pc = "user" => written = <<>>
  /\ emptied => hooked /\ \A k \in 1 .. Len(store) : store[k].who = cur
  /\ \A i \in DOMAIN written : written[i].pid = cur
ScanInv == TypeOK /\ CursorInv /\ WrittenInv /\ OwnerInv

(* An iteration that writes nothing moves p2 past a record that ends no    *)
(* pair.                                                                   *)
LEMMA NoPairAtCursor ==
  ASSUME TypeOK, CursorInv, pc = "scan", More, ~IsPair(p2),
         p2' = p2 - 1, UNCHANGED store
  PROVE  PairsAbove' = PairsAbove
<1>1. \A k \in 2 .. Len(store) : (k > p2 - 1 /\ IsPair(k)) <=> (k > p2 /\ IsPair(k))
  <2> TAKE k \in 2 .. Len(store)
  <2>1. CASE k = p2  BY <2>1
  <2>2. CASE k # p2  BY <2>2 DEF TypeOK
  <2> QED  BY <2>1, <2>2
<1>2. \A k : IsPair(k)' <=> IsPair(k)  BY DEF IsPair, Near
<1> QED  BY <1>1, <1>2 DEF PairsAbove

LEMMA PairAtCursor ==
  ASSUME TypeOK, CursorInv, pc = "scan", More, IsPair(p2),
         p2' = p2 - 1, UNCHANGED store
  PROVE  PairsAbove' = PairsAbove \cup {p2}
<1>1. p2 \in 2 .. Len(store)  BY DEF TypeOK, CursorInv, More
<1>2. \A k \in 2 .. Len(store) : k > p2 - 1 <=> (k > p2 \/ k = p2)  BY DEF TypeOK
<1>3. \A k : IsPair(k)' <=> IsPair(k)  BY DEF IsPair, Near
<1> QED  BY <1>1, <1>2, <1>3 DEF PairsAbove

LEMMA InitInv == Init => ScanInv
<1> SUFFICES ASSUME Init PROVE ScanInv  OBVIOUS
<1>1. Len(store) = 0 /\ DOMAIN written = {}  BY DEF Init
<1>2. TypeOK
  <2>1. store \in Seq(Record)  BY DEF Init
  <2>2. written \in Seq([pid : Procs, at : Nat])  BY DEF Init
  <2>3. Len(store) <= Size  BY <1>1, SampleAssumption
  <2>4. hooked \in BOOLEAN /\ emptied \in BOOLEAN /\ cur \in Procs  BY Zenon DEF Init
  <2>5. pc \in {"user", "scan"} /\ p1 \in Int /\ p2 \in Int  BY SMT DEF Init
  <2> QED  BY <2>1, <2>2, <2>3, <2>4, <2>5 DEF TypeOK
<1> QED  BY <1>1, <1>2 DEF Init, ScanInv, CursorInv, WrittenInv, OwnerInv

-----------------------------------------------------------------------------
LEMMA SampleInv ==
  ASSUME ScanInv, NEW s \in Samples, Sample(s)
  PROVE  ScanInv'
<1> DEFINE r == [event |-> s.event, hit |-> s.hit, gap |-> s.gap, who |-> cur]
<1>1. r \in Record  BY SampleAssumption DEF ScanInv, TypeOK, Record, Events
<1>2. store \in Seq(Record) /\ store' = Append(store, r)  BY DEF ScanInv, TypeOK, Sample
<1>3. /\ store' \in Seq(Record) /\ Len(store') = Len(store) + 1
      /\ \A k \in 1 .. Len(store) : store'[k] = store[k]
      /\ store'[Len(store) + 1] = r
  BY <1>1, <1>2
<1>4. Len(store) \in Nat /\ Len(store) < Size  BY <1>2 DEF Sample
<1>5. TypeOK'  BY <1>3, <1>4, SampleAssumption DEF ScanInv, TypeOK, Sample
<1>6. pc' = "user" /\ pc = "user"  BY DEF Sample
<1>7. OwnerInv'
  <2>1. ASSUME emptied' PROVE \A k \in 1 .. Len(store') : store'[k].who = cur'
    BY <2>1, <1>3, <1>4 DEF ScanInv, OwnerInv, Sample
  <2> QED  BY <2>1, <1>6 DEF ScanInv, OwnerInv, Sample
<1> QED  BY <1>5, <1>6, <1>7 DEF ScanInv, CursorInv, WrittenInv

LEMMA EnterInv == ASSUME ScanInv, Enter PROVE ScanInv'
<1>1. Len(store) \in Nat  BY DEF ScanInv, TypeOK
<1>2. TypeOK' /\ CursorInv'  BY <1>1 DEF ScanInv, TypeOK, CursorInv, Enter
<1>3. WrittenInv'
  <2>1. written' = <<>> /\ Found' = {}  BY DEF Enter, Found
  <2>2. PairsAbove' = {}  BY <1>1 DEF Enter, PairsAbove
  <2> QED  BY <2>1, <2>2 DEF WrittenInv
<1>4. OwnerInv'  BY DEF ScanInv, OwnerInv, Enter
<1> QED  BY <1>2, <1>3, <1>4 DEF ScanInv

LEMMA SkipInv == ASSUME ScanInv, SkipRecord PROVE ScanInv'
<1>1. TypeOK' /\ CursorInv'  BY DEF ScanInv, TypeOK, CursorInv, SkipRecord, More
<1>2. ~IsPair(p2)  BY DEF SkipRecord, IsPair
<1>3. PairsAbove' = PairsAbove
  BY <1>2, NoPairAtCursor DEF ScanInv, SkipRecord
<1>4. WrittenInv'  BY <1>3 DEF ScanInv, WrittenInv, SkipRecord, Found
<1>5. OwnerInv'  BY DEF ScanInv, OwnerInv, SkipRecord
<1> QED  BY <1>1, <1>4, <1>5 DEF ScanInv

LEMMA ExamineInv == ASSUME ScanInv, Examine PROVE ScanInv'
<1>1. /\ p1 \in Int /\ p2 \in Nat /\ p2 > 1 /\ p2 <= Len(store)
      /\ p2' = p2 - 1 /\ p1' = p2 - 1 /\ UNCHANGED <<store, cur, hooked, emptied, pc>>
      /\ pc = "scan"
  BY DEF ScanInv, TypeOK, CursorInv, Examine, More
<1>2. CursorInv'  BY <1>1 DEF CursorInv
<1>3. CASE ~IsPair(p2)
  <2>1. written' = written  BY <1>3 DEF Examine
  <2>2. PairsAbove' = PairsAbove
    BY <1>1, <1>3, NoPairAtCursor DEF ScanInv, Examine
  <2>3. TypeOK'  BY <1>1, <2>1 DEF ScanInv, TypeOK
  <2>4. WrittenInv'  BY <1>1, <2>1, <2>2 DEF ScanInv, WrittenInv, Found
  <2>5. OwnerInv'  BY <1>1, <2>1 DEF ScanInv, OwnerInv
  <2> QED  BY <1>2, <2>3, <2>4, <2>5 DEF ScanInv
<1>4. CASE IsPair(p2)
  <2> DEFINE w == [pid |-> cur, at |-> p2]
  <2>1. w \in [pid : Procs, at : Nat] /\ written \in Seq([pid : Procs, at : Nat])
    BY <1>1 DEF ScanInv, TypeOK
  <2>2. written' = Append(written, w)  BY <1>4 DEF Examine
  <2>3. /\ written' \in Seq([pid : Procs, at : Nat])
        /\ Len(written) \in Nat /\ Len(written') = Len(written) + 1
        /\ DOMAIN written = 1 .. Len(written) /\ DOMAIN written' = 1 .. Len(written) + 1
        /\ \A i \in 1 .. Len(written) : written'[i] = written[i]
        /\ written'[Len(written) + 1] = w
    BY <2>1, <2>2
  <2>4. Found' = Found \cup {p2}
    <3>1. \A x : x \in Found' <=> (x \in Found \/ x = p2)
      BY <2>3 DEF Found
    <3> QED  BY <3>1
  <2>5. PairsAbove' = PairsAbove \cup {p2}
    BY <1>1, <1>4, PairAtCursor DEF ScanInv, Examine
  <2>6. \A i \in DOMAIN written : written[i].at > p2
    <3> TAKE i \in DOMAIN written
    <3>1. written[i].at \in Found  BY DEF Found
    <3>2. written[i].at \in PairsAbove  BY <1>1, <3>1 DEF ScanInv, WrittenInv
    <3> QED  BY <3>2 DEF PairsAbove
  <2>7. \A i, j \in DOMAIN written' : i < j => written'[i].at > written'[j].at
    <3> SUFFICES ASSUME NEW i \in DOMAIN written', NEW j \in DOMAIN written', i < j
                 PROVE  written'[i].at > written'[j].at
      OBVIOUS
    <3>1. i \in 1 .. Len(written)  BY <2>3
    <3>2. CASE j = Len(written) + 1  BY <2>3, <2>6, <3>1, <3>2
    <3>3. CASE j \in 1 .. Len(written)
      BY <1>1, <2>3, <3>1, <3>3 DEF ScanInv, WrittenInv
    <3> QED  BY <2>3, <3>2, <3>3
  <2>8. WrittenInv'
    <3>1. Found' = PairsAbove'  BY <1>1, <2>4, <2>5 DEF ScanInv, WrittenInv
    <3> QED  BY <2>7, <3>1 DEF WrittenInv
  <2>9. TypeOK'  BY <1>1, <2>3 DEF ScanInv, TypeOK
  <2>10. OwnerInv'
    <3>1. \A i \in DOMAIN written' : written'[i].pid = cur
      BY <2>3 DEF ScanInv, OwnerInv
    <3> QED  BY <1>1, <3>1 DEF ScanInv, OwnerInv
  <2> QED  BY <1>2, <2>8, <2>9, <2>10 DEF ScanInv
<1> QED  BY <1>3, <1>4

LEMMA LeaveInv == ASSUME ScanInv, NEW p \in Procs, Leave(p) PROVE ScanInv'
<1>1. store' = <<>> /\ Len(store') = 0 /\ written' = <<>> /\ pc' = "user"
  BY DEF Leave
<1>2. TypeOK'  BY <1>1, SampleAssumption DEF ScanInv, TypeOK, Leave
<1>3. OwnerInv'  BY <1>1 DEF ScanInv, OwnerInv, Leave
<1> QED  BY <1>1, <1>2, <1>3 DEF ScanInv, CursorInv, WrittenInv

LEMMA HookInv ==
  ASSUME ScanInv, SetHook \/ \E p \in Procs : Switch(p)
  PROVE  ScanInv'
<1>1. CASE SetHook
  <2>1. /\ UNCHANGED <<cur, store, emptied, pc, p1, p2, written>>
        /\ hooked' = TRUE
    BY <1>1 DEF SetHook
  <2>2. PairsAbove' = PairsAbove /\ Found' = Found
    BY <2>1 DEF PairsAbove, Found, IsPair, Near
  <2> QED  BY <2>1, <2>2 DEF ScanInv, TypeOK, CursorInv, WrittenInv, OwnerInv
<1>2. CASE \E p \in Procs : Switch(p)
  <2> PICK p \in Procs : Switch(p)  BY <1>2
  <2>1. pc = "user" /\ pc' = "user" /\ ~hooked /\ ~emptied /\ written = <<>>
    BY DEF Switch, ScanInv, OwnerInv
  <2>2. TypeOK'  BY DEF Switch, ScanInv, TypeOK
  <2>3. OwnerInv'  BY <2>1 DEF Switch, ScanInv, OwnerInv
  <2> QED  BY <2>1, <2>2, <2>3 DEF ScanInv, CursorInv, WrittenInv
<1> QED  BY <1>1, <1>2

LEMMA NextInv == ScanInv /\ [Next]_vars => ScanInv'
<1> SUFFICES ASSUME ScanInv, [Next]_vars PROVE ScanInv'  OBVIOUS
<1>1. CASE \E s \in Samples : Sample(s)
  BY <1>1, SampleInv
<1>2. CASE SetHook \/ \E p \in Procs : Switch(p)  BY <1>2, HookInv
<1>3. CASE Enter  BY <1>3, EnterInv
<1>4. CASE SkipRecord  BY <1>4, SkipInv
<1>5. CASE Examine  BY <1>5, ExamineInv
<1>6. CASE \E p \in Procs : Leave(p)  BY <1>6, LeaveInv
<1>7. CASE UNCHANGED vars
  <2>1. PairsAbove' = PairsAbove /\ Found' = Found
    BY <1>7 DEF vars, PairsAbove, Found, IsPair, Near
  <2> QED  BY <1>7, <2>1 DEF vars, ScanInv, TypeOK, CursorInv, WrittenInv, OwnerInv
<1> QED  BY <1>1, <1>2, <1>3, <1>4, <1>5, <1>6, <1>7 DEF Next, Handler

LEMMA Inductive == Spec => []ScanInv
<1> QED  BY InitInv, NextInv, PTL DEF Spec

-----------------------------------------------------------------------------
(* The store never holds more than fits, and every variable has its type.  *)
THEOREM ScanTypeCorrect == Spec => []TypeOK
<1>1. ScanInv => TypeOK  BY DEF ScanInv
<1> QED  BY <1>1, Inductive, PTL

(* pebs_record_handler's loop finds every pair of the store and nothing    *)
(* else, in order, whatever events the store holds.                        *)
THEOREM ScanFindsAll == Spec => []ScanIsComplete
<1>1. ScanInv => ScanIsComplete
  <2> SUFFICES ASSUME ScanInv, pc = "scan", ~More
               PROVE  /\ Found = {k \in 2 .. Len(store) : IsPair(k)}
                      /\ \A i, j \in DOMAIN written : i < j => written[i].at > written[j].at
    BY DEF ScanIsComplete
  <2>1. p2 <= 1  BY DEF ScanInv, TypeOK, CursorInv, More
  <2>2. PairsAbove = {k \in 2 .. Len(store) : IsPair(k)}
    BY <2>1 DEF ScanInv, TypeOK, PairsAbove
  <2> QED  BY <2>2 DEF ScanInv, WrittenInv
<1> QED  BY <1>1, Inductive, PTL

(* Once a handler has emptied the store, a pair is charged to the process  *)
(* both of its records were taken from.                                    *)
THEOREM PairsHaveTheirOwner == Spec => []ChargedToItsOwner
<1>1. ScanInv => ChargedToItsOwner
  <2> SUFFICES ASSUME ScanInv, emptied, NEW i \in DOMAIN written
               PROVE  /\ store[written[i].at].who = written[i].pid
                      /\ store[written[i].at - 1].who = written[i].pid
    BY DEF ChargedToItsOwner
  <2>1. CASE pc = "user"  BY <2>1 DEF ScanInv, OwnerInv
  <2>2. CASE pc = "scan"
    <3>1. written[i].at \in PairsAbove  BY <2>2 DEF ScanInv, WrittenInv, Found
    <3>2. written[i].at \in 2 .. Len(store)  BY <3>1 DEF PairsAbove
    <3> QED  BY <3>2 DEF ScanInv, OwnerInv
  <2> QED  BY <2>1, <2>2 DEF ScanInv, TypeOK
<1> QED  BY <1>1, Inductive, PTL
=============================================================================
