--------------------------- MODULE TaineListProof ---------------------------
(***************************************************************************)
(* Proofs about the list of analysed code, for lists and entries of every  *)
(* size.                                                                   *)
(***************************************************************************)
EXTENDS TaineList, FiniteSetTheorems, SequenceTheorems, TLAPS

(* A set of naturals has a smallest one: of the segments 0 .. x that end   *)
(* in it, one contains no other.                                           *)
LEMMA MinIsLeast ==
  ASSUME NEW S \in SUBSET Nat, S # {}
  PROVE  Min(S) \in S /\ \A y \in S : Min(S) <= y
<1> DEFINE T == {0 .. x : x \in S}
           R == StrictSubsetOrdering(Nat)
<1>1. T \subseteq FiniteSubsetsOf(Nat)
  <2>1. \A x \in S : IsFiniteSet(0 .. x)  BY FS_Interval
  <2> QED  BY <2>1 DEF FiniteSubsetsOf
<1>2. T # {}  OBVIOUS
<1>3. IsWellFoundedOn(R, FiniteSubsetsOf(Nat))  BY FS_StrictSubsetOrderingWellFounded
<1>4. PICK t \in T : \A u \in T : ~(<<u, t>> \in R)
  <2> HIDE DEF T, R
  <2> QED  BY <1>1, <1>2, <1>3, WFMin
<1>5. PICK x \in S : t = 0 .. x  OBVIOUS
<1>6. ASSUME NEW y \in S PROVE x <= y
  <2>1. ~(<<0 .. y, 0 .. x>> \in R)  BY <1>4, <1>5
  <2>2. ~(0 .. y \subseteq 0 .. x /\ 0 .. y # 0 .. x)  BY <2>1 DEF StrictSubsetOrdering
  <2>3. CASE y < x
    <3>1. x \in 0 .. x /\ x \notin 0 .. y  BY <2>3
    <3>2. 0 .. y \subseteq 0 .. x  BY <2>3
    <3> QED  BY <3>1, <3>2, <2>2
  <2> QED  BY <2>3
<1> QED  BY <1>6 DEF Min

LEMMA MinIsIn ==
  ASSUME NEW S \in SUBSET Nat, S # {}
  PROVE  Min(S) \in S
BY MinIsLeast

(* Of the smallest values f takes on S there is a first.                   *)
LEMMA FirstLeastIsLeast ==
  ASSUME NEW S \in SUBSET Nat, S # {}, NEW f, \A i \in S : f[i] \in Nat
  PROVE  FirstLeast(f, S) \in S /\ \A i \in S : f[FirstLeast(f, S)] <= f[i]
<1> DEFINE V == {f[i] : i \in S}
<1>1. V \in SUBSET Nat /\ V # {}  OBVIOUS
<1>2. Min(V) \in V /\ \A v \in V : Min(V) <= v
  <2> HIDE DEF V
  <2> QED  BY <1>1, MinIsLeast
<1>3. PICK l \in S : \A i \in S : f[l] <= f[i]  BY <1>2
<1> DEFINE T == {i \in S : f[i] = f[l]}
<1>4. T \in SUBSET Nat /\ T # {}  BY <1>3
<1>5. Min(T) \in T /\ \A t \in T : Min(T) <= t
  <2> HIDE DEF T
  <2> QED  BY <1>4, MinIsLeast
<1>6. PICK k \in S : /\ f[k] = f[l]
                     /\ \A t \in S : f[t] = f[l] => k <= t
  BY <1>5
<1>7. \A i \in S : f[k] < f[i] \/ (f[k] = f[i] /\ k <= i)
  <2> TAKE i \in S
  <2>1. f[k] \in Nat /\ f[i] \in Nat /\ f[k] <= f[i]  BY <1>3, <1>6
  <2>2. CASE f[i] = f[l]  BY <2>1, <2>2, <1>6
  <2>3. CASE f[i] # f[l]  BY <2>1, <2>3, <1>6
  <2> QED  BY <2>2, <2>3
<1>8. PICK m \in S : /\ m = FirstLeast(f, S)
                     /\ \A i \in S : f[m] < f[i] \/ (f[m] = f[i] /\ m <= i)
  BY <1>6, <1>7 DEF FirstLeast
<1>9. \A i \in S : f[m] <= f[i]
  <2> TAKE i \in S
  <2>1. f[m] \in Nat /\ f[i] \in Nat  OBVIOUS
  <2> QED  BY <2>1, <1>8
<1> QED  BY <1>8, <1>9

-----------------------------------------------------------------------------
(* A record the thread holds is of a pid that is alive, or was when the    *)
(* thread looked.                                                          *)
HeldAlive == rec # NoRec => rec[1] \in alive \cup flux
ListInv == TypeOK /\ HeldAlive /\ ListedWasAnalysed /\ OneEntryPerPid

Code == [code : Codes, num : 1 .. MaxNum]
Entry == [pid : Pids \cup {0}, total_num : 0 .. MaxNum, addr : Seq(Code)]

LEMMA EntryType ==
  ASSUME TypeOK, NEW i \in 0 .. MaxPid - 1
  PROVE  info[i] \in Entry /\ Len(info[i].addr) <= MaxAddr
BY DEF TypeOK, Entry, Code

LEMMA CountType ==
  /\ \A n \in 0 .. MaxNum : Count(n) \in 0 .. MaxNum
  /\ \A n \in 1 .. MaxNum : Count(n) \in 1 .. MaxNum
BY SizesAssumption DEF Count

LEMMA AddrType == \A c \in Codes : Addr(c) \in Code
BY SizesAssumption DEF Addr, Code

LEMMA EntriesInList == TypeOK => Entries \subseteq 0 .. MaxPid - 1
BY SizesAssumption DEF TypeOK, Entries

LEMMA VisibleIsIn ==
  ASSUME TypeOK, NEW pid, NEW D, Visible(pid, D) # {}
  PROVE  Min(Visible(pid, D)) \in Entries /\ info[Min(Visible(pid, D))].pid = pid
<1>1. Visible(pid, D) \in SUBSET Nat  BY DEF Visible, Entries, TypeOK
<1>2. Min(Visible(pid, D)) \in Visible(pid, D)  BY <1>1, MinIsIn
<1> QED  BY <1>2 DEF Visible

LEMMA InitInv == Init => ListInv
<1> SUFFICES ASSUME Init PROVE ListInv  OBVIOUS
<1>1. [pid : {0}, total_num : 0 .. 1, addr : {<<>>}] \subseteq Entry
  <2> SUFFICES ASSUME NEW e \in [pid : {0}, total_num : 0 .. 1, addr : {<<>>}]
               PROVE  e \in Entry
    OBVIOUS
  <2>1. e.addr = <<>> /\ <<>> \in Seq(Code)  BY EmptySeq
  <2>2. e.total_num \in 0 .. MaxNum /\ e.pid \in Pids \cup {0}  BY SizesAssumption
  <2>3. e = [pid |-> e.pid, total_num |-> e.total_num, addr |-> e.addr]  OBVIOUS
  <2> QED  BY <2>1, <2>2, <2>3 DEF Entry
<1>2. info \in [0 .. MaxPid - 1 -> Entry]  BY <1>1 DEF Init
<1>3. \A i \in 0 .. MaxPid - 1 : Len(info[i].addr) <= MaxAddr
  <2> TAKE i \in 0 .. MaxPid - 1
  <2>1. info[i].addr = <<>>  BY DEF Init
  <2> QED  BY <2>1, SizesAssumption
<1>4. TypeOK  BY <1>2, <1>3, SizesAssumption DEF TypeOK, Init, Entry, Code
<1>5. Entries = {}  BY DEF Init, Entries
<1> QED  BY <1>4, <1>5 DEF ListInv, Init, HeldAlive, ListedWasAnalysed, OneEntryPerPid

-----------------------------------------------------------------------------
LEMMA DieInv == ASSUME ListInv, NEW pid \in Pids, Die(pid) PROVE ListInv'
<1>1. TypeOK'  BY DEF ListInv, TypeOK, Die
<1>2. HeldAlive'  BY DEF ListInv, HeldAlive, Die
<1> QED  BY <1>1, <1>2 DEF ListInv, ListedWasAnalysed, OneEntryPerPid, Die, Entries

LEMMA SpawnInv == ASSUME ListInv, NEW pid \in Pids, Spawn(pid) PROVE ListInv'
<1>1. TypeOK'  BY DEF ListInv, TypeOK, Spawn
<1>2. HeldAlive'  BY DEF ListInv, HeldAlive, Spawn
<1> QED  BY <1>1, <1>2 DEF ListInv, ListedWasAnalysed, OneEntryPerPid, Spawn, Entries

LEMMA TakeUpInv ==
  ASSUME ListInv, NEW pid \in Pids, NEW code \in Codes, TakeUp(pid, code)
  PROVE  ListInv'
<1>1. TypeOK'  BY DEF ListInv, TypeOK, TakeUp
<1>2. HeldAlive'  BY DEF HeldAlive, TakeUp
<1> QED  BY <1>1, <1>2 DEF ListInv, ListedWasAnalysed, OneEntryPerPid, TakeUp, Entries

-----------------------------------------------------------------------------
(* The search.                                                             *)
LEMMA HeldType == ASSUME TypeOK, rec # NoRec PROVE rec[1] \in Pids /\ rec[2] \in Codes
BY DEF TypeOK

(* What the search changes besides the list.                               *)
LEMMA AnswerType ==
  ASSUME TypeOK, rec # NoRec,
         Analyse \/ (rec' = NoRec /\ raced' = raced \cup (flux \cap {rec[1]})
                     /\ UNCHANGED <<alive, flux, analysed>>)
  PROVE  /\ alive' \subseteq Pids /\ flux' \subseteq Pids
         /\ rec' \in (Pids \X Codes) \cup {NoRec}
         /\ analysed' \subseteq Pids \X Codes /\ raced' \subseteq Pids
         /\ HeldAlive' /\ raced \subseteq raced' /\ analysed \subseteq analysed'
BY DEF TypeOK, Analyse, HeldAlive, NoRec

(* Counting a code leaves the codes as they are.                           *)
CountCode(a, k) == [a EXCEPT ![k].num = Count(@)]
LEMMA CountCodeType ==
  ASSUME NEW a \in Seq(Code), NEW k
  PROVE  /\ CountCode(a, k) \in Seq(Code) /\ Len(CountCode(a, k)) = Len(a)
         /\ \A j \in 1 .. Len(a) : CountCode(a, k)[j].code = a[j].code
<1>1. CASE k \in 1 .. Len(a)
  <2>1. a[k] \in Code  BY <1>1
  <2>2. Count(a[k].num) \in 1 .. MaxNum  BY <2>1, CountType DEF Code
  <2> DEFINE e == [a[k] EXCEPT !.num = Count(@)]
  <2>3. e \in Code /\ e.code = a[k].code  BY <2>1, <2>2 DEF Code
  <2>4. CountCode(a, k) = [a EXCEPT ![k] = e]  BY DEF CountCode
  <2> HIDE DEF e
  <2> QED  BY <1>1, <2>3, <2>4, ExceptSeq
<1>2. CASE k \notin 1 .. Len(a)
  <2>1. a = [j \in 1 .. Len(a) |-> a[j]]  OBVIOUS
  <2>2. CountCode(a, k) = a  BY <1>2, <2>1 DEF CountCode
  <2> QED  BY <2>2
<1> QED  BY <1>1, <1>2

LEMMA FoundInv == ASSUME ListInv, NEW D \in SeenDead, Found(D) PROVE ListInv'
<1>1. PICK i, k :
        /\ i = Min(Visible(rec[1], D))
        /\ info' = [info EXCEPT ![i].total_num = Count(@), ![i].addr[k].num = Count(@)]
  BY Zenon DEF Found
<1>2. i \in Entries /\ i \in 0 .. MaxPid - 1
  BY <1>1, VisibleIsIn, EntriesInList DEF ListInv, Found
<1>3. info \in [0 .. MaxPid - 1 -> Entry]  BY DEF ListInv, TypeOK, Entry, Code
<1>4. info[i].addr \in Seq(Code) /\ Len(info[i].addr) <= MaxAddr
  BY <1>2, EntryType DEF ListInv, Entry
<1> DEFINE b == CountCode(info[i].addr, k)
<1>5. /\ b \in Seq(Code) /\ Len(b) = Len(info[i].addr)
      /\ \A j \in 1 .. Len(b) : b[j].code = info[i].addr[j].code
  BY <1>4, CountCodeType
<1>6. info' = [info EXCEPT ![i].total_num = Count(@), ![i].addr = b]
  BY <1>1, <1>2, <1>3 DEF CountCode, Entry
<1>7. /\ info' \in [0 .. MaxPid - 1 -> Entry]
      /\ info'[i].pid = info[i].pid /\ info'[i].addr = b
      /\ \A j \in 0 .. MaxPid - 1 : j # i => info'[j] = info[j]
  <2>1. Count(info[i].total_num) \in 0 .. MaxNum  BY <1>2, <1>3, CountType DEF Entry
  <2> HIDE DEF b
  <2> QED  BY <2>1, <1>2, <1>3, <1>5, <1>6 DEF Entry
<1> HIDE DEF b
<1>8. /\ rec # NoRec /\ UNCHANGED <<num, alive, flux, analysed>>
      /\ rec' = NoRec /\ raced' = raced \cup (flux \cap {rec[1]})
  BY DEF Found
<1>9. TypeOK' /\ HeldAlive'
  <2>1. \A j \in 0 .. MaxPid - 1 : Len(info'[j].addr) <= MaxAddr
    BY <1>4, <1>5, <1>7, EntryType DEF ListInv
  <2> QED  BY <2>1, <1>7, <1>8, AnswerType DEF ListInv, TypeOK, Entry, Code
<1>10. Entries' = Entries /\ Entries \subseteq 0 .. MaxPid - 1
  BY <1>8, EntriesInList DEF Entries, ListInv
<1>11. ListedWasAnalysed'
  <2> SUFFICES ASSUME NEW j \in Entries, NEW n \in DOMAIN info'[j].addr
               PROVE  <<info'[j].pid, info'[j].addr[n].code>> \in analysed
    BY <1>8, <1>10 DEF ListedWasAnalysed
  <2>1. CASE j = i
    <3>1. n \in DOMAIN info[i].addr /\ info'[j].addr[n].code = info[i].addr[n].code
      BY <2>1, <1>4, <1>5, <1>7
    <3> QED  BY <2>1, <3>1, <1>7 DEF ListInv, ListedWasAnalysed
  <2>2. CASE j # i
    <3>1. info'[j] = info[j]  BY <2>2, <1>7, <1>10
    <3> QED  BY <3>1 DEF ListInv, ListedWasAnalysed
  <2> QED  BY <2>1, <2>2
<1>12. OneEntryPerPid'
  <2>1. \A j \in Entries : info'[j].pid = info[j].pid  BY <1>7, <1>10
  <2> QED  BY <2>1, <1>8, <1>10 DEF ListInv, OneEntryPerPid
<1> QED  BY <1>9, <1>11, <1>12 DEF ListInv

(* The code sequence of the pid's entry after a code was added.            *)
Added(a, k, c) == IF Len(a) < MaxAddr THEN Append(a, c) ELSE [a EXCEPT ![k] = c]
LEMMA AddedCodes ==
  ASSUME NEW a \in Seq(Code), Len(a) <= MaxAddr, NEW k, NEW c \in Code
  PROVE  /\ Added(a, k, c) \in Seq(Code) /\ Len(Added(a, k, c)) <= MaxAddr
         /\ \A j \in 1 .. Len(Added(a, k, c)) :
              \/ Added(a, k, c)[j] = c
              \/ j \in 1 .. Len(a) /\ Added(a, k, c)[j] = a[j]
<1> SUFFICES ASSUME NEW b, b = Added(a, k, c)
             PROVE  /\ b \in Seq(Code) /\ Len(b) <= MaxAddr
                    /\ \A j \in 1 .. Len(b) :
                         b[j] = c \/ (j \in 1 .. Len(a) /\ b[j] = a[j])
  OBVIOUS
<1>1. CASE Len(a) < MaxAddr
  <2>1. b = Append(a, c)  BY <1>1 DEF Added
  <2>2. /\ b \in Seq(Code) /\ Len(b) = Len(a) + 1 /\ b[Len(a) + 1] = c
        /\ \A j \in 1 .. Len(a) : b[j] = a[j]
    BY <2>1
  <2>3. Len(a) \in Nat /\ Len(a) + 1 <= MaxAddr  BY <1>1, SizesAssumption
  <2>4. \A j \in 1 .. Len(b) : j = Len(a) + 1 \/ j \in 1 .. Len(a)  BY <2>2, <2>3
  <2> QED  BY <2>2, <2>3, <2>4
<1>2. CASE ~(Len(a) < MaxAddr) /\ k \in 1 .. Len(a)
  <2>1. b = [a EXCEPT ![k] = c]  BY <1>2 DEF Added
  <2> QED  BY <2>1, <1>2, ExceptSeq
<1>3. CASE ~(Len(a) < MaxAddr) /\ k \notin 1 .. Len(a)
  <2>1. a = [j \in 1 .. Len(a) |-> a[j]]  OBVIOUS
  <2>2. b = a  BY <1>3, <2>1 DEF Added
  <2> QED  BY <2>2
<1> QED  BY <1>1, <1>2, <1>3

LEMMA AddCodeInv == ASSUME ListInv, NEW D \in SeenDead, AddCode(D) PROVE ListInv'
<1>1. PICK i, k :
        /\ i = Min(Visible(rec[1], D))
        /\ info' = [info EXCEPT ![i].total_num = Count(@),
                                ![i].addr = IF Len(info[i].addr) < MaxAddr
                                            THEN Append(info[i].addr, Addr(rec[2]))
                                            ELSE [info[i].addr EXCEPT ![k] = Addr(rec[2])]]
  BY Zenon DEF AddCode
<1> DEFINE b == Added(info[i].addr, k, Addr(rec[2]))
<1>2. /\ i \in Entries /\ i \in 0 .. MaxPid - 1 /\ info[i].pid = rec[1]
  BY <1>1, VisibleIsIn, EntriesInList DEF ListInv, AddCode
<1>3. info \in [0 .. MaxPid - 1 -> Entry]  BY DEF ListInv, TypeOK, Entry, Code
<1>4. info[i].addr \in Seq(Code) /\ Len(info[i].addr) <= MaxAddr
  BY <1>2, EntryType DEF ListInv, Entry
<1>5. /\ rec # NoRec /\ rec[1] \in Pids /\ rec[2] \in Codes
      /\ Addr(rec[2]) \in Code /\ Addr(rec[2]).code = rec[2] /\ rec = <<rec[1], rec[2]>>
  <2>1. rec # NoRec  BY DEF AddCode
  <2>2. rec \in Pids \X Codes  BY <2>1 DEF ListInv, TypeOK
  <2> QED  BY <2>1, <2>2, AddrType DEF Addr
<1>6. /\ b \in Seq(Code) /\ Len(b) <= MaxAddr
      /\ \A j \in 1 .. Len(b) :
            b[j] = Addr(rec[2]) \/ (j \in 1 .. Len(info[i].addr) /\ b[j] = info[i].addr[j])
  BY <1>4, <1>5, AddedCodes
<1>7. info' = [info EXCEPT ![i].total_num = Count(@), ![i].addr = b]  BY Zenon, <1>1 DEF Added
<1> HIDE DEF b
<1>8. /\ info' \in [0 .. MaxPid - 1 -> Entry]
      /\ info'[i].pid = info[i].pid /\ info'[i].addr = b
      /\ \A j \in 0 .. MaxPid - 1 : j # i => info'[j] = info[j]
  <2>1. Count(info[i].total_num) \in 0 .. MaxNum  BY <1>2, <1>3, CountType DEF Entry
  <2> QED  BY <2>1, <1>2, <1>3, <1>6, <1>7 DEF Entry
<1>9. Analyse /\ UNCHANGED num /\ analysed' = analysed \cup {rec}
  BY DEF AddCode, Analyse
<1>10. TypeOK' /\ HeldAlive'
  <2>1. \A j \in 0 .. MaxPid - 1 : Len(info'[j].addr) <= MaxAddr
    BY <1>6, <1>8, EntryType DEF ListInv
  <2> QED  BY <2>1, <1>5, <1>8, <1>9, AnswerType DEF ListInv, TypeOK, Entry, Code
<1>11. Entries' = Entries /\ Entries \subseteq 0 .. MaxPid - 1
  BY <1>9, EntriesInList DEF Entries, ListInv
<1>12. ListedWasAnalysed'
  <2> SUFFICES ASSUME NEW j \in Entries, NEW n \in DOMAIN info'[j].addr
               PROVE  <<info'[j].pid, info'[j].addr[n].code>> \in analysed'
    BY <1>11 DEF ListedWasAnalysed
  <2>1. CASE j = i
    <3>1. n \in 1 .. Len(b) /\ info'[j].addr[n] = b[n] /\ info'[j].pid = rec[1]
      BY <2>1, <1>2, <1>6, <1>8
    <3>2. CASE b[n] = Addr(rec[2])  BY <3>1, <3>2, <1>5, <1>9
    <3>3. CASE n \in 1 .. Len(info[i].addr) /\ b[n] = info[i].addr[n]
      <4>1. i \in Entries /\ n \in DOMAIN info[i].addr  BY <3>3, <1>2, <1>4
      <4>2. <<info[i].pid, info[i].addr[n].code>> \in analysed
        BY <4>1 DEF ListInv, ListedWasAnalysed
      <4> QED  BY <4>2, <3>1, <3>3, <1>2, <1>9
    <3> QED  BY <3>1, <3>2, <3>3, <1>6
  <2>2. CASE j # i
    <3>1. info'[j] = info[j]  BY <2>2, <1>8, <1>11
    <3> QED  BY <3>1, <1>9 DEF ListInv, ListedWasAnalysed
  <2> QED  BY <2>1, <2>2
<1>13. OneEntryPerPid'
  <2>1. \A j \in Entries : info'[j].pid = info[j].pid  BY <1>8, <1>11
  <2>2. raced \subseteq raced'  BY <1>9 DEF Analyse
  <2> QED  BY <2>1, <2>2, <1>11 DEF ListInv, OneEntryPerPid
<1> QED  BY <1>10, <1>12, <1>13 DEF ListInv

(* An entry is given away only if every entry of the pid looked dead: the  *)
(* pid, alive when the thread looked, was in flux.                         *)
LEMMA GiveInv ==
  ASSUME ListInv, NEW D \in SeenDead, NEW i,
         rec # NoRec, Visible(rec[1], D) = {}, Give(i, rec[1], rec[2]), Analyse,
         num' = num \/ (i = num /\ num < MaxPid /\ num' = num + 1)
  PROVE  ListInv'
<1> DEFINE new == [info[i] EXCEPT !.pid = rec[1], !.addr = <<Addr(rec[2])>>]
<1>1. info \in [0 .. MaxPid - 1 -> Entry]  BY DEF ListInv, TypeOK, Entry, Code
<1>2. /\ rec[1] \in Pids /\ rec[2] \in Codes /\ rec = <<rec[1], rec[2]>>
      /\ Addr(rec[2]) \in Code /\ Addr(rec[2]).code = rec[2]
  <2>1. rec \in Pids \X Codes  BY DEF ListInv, TypeOK
  <2> QED  BY <2>1, AddrType DEF Addr
<1>3. /\ <<Addr(rec[2])>> \in Seq(Code) /\ Len(<<Addr(rec[2])>>) = 1
      /\ DOMAIN <<Addr(rec[2])>> = {1} /\ <<Addr(rec[2])>>[1] = Addr(rec[2])
  BY <1>2
<1>4. i \in 0 .. MaxPid - 1 =>
        /\ info'[i] \in Entry /\ info'[i].pid = rec[1] /\ info'[i].addr = <<Addr(rec[2])>>
  BY <1>1, <1>2, <1>3 DEF Give, Entry
<1>5. /\ info' \in [0 .. MaxPid - 1 -> Entry]
      /\ \A j \in 0 .. MaxPid - 1 : j # i => info'[j] = info[j]
  BY <1>1, <1>4 DEF Give
<1>6. num \in 0 .. MaxPid /\ num' \in 0 .. MaxPid
  BY SizesAssumption DEF ListInv, TypeOK
<1>7. /\ Entries' \subseteq 0 .. MaxPid - 1
      /\ \A j \in Entries' : j \in Entries \/ j = i
  <2>1. Entries' = 0 .. num' - 1 /\ Entries = 0 .. num - 1  BY DEF Entries
  <2>2. CASE num' = num  BY <2>1, <2>2, <1>6, SizesAssumption
  <2>3. CASE i = num /\ num' = num + 1  BY <2>1, <2>3, <1>6, SizesAssumption
  <2> QED  BY <2>2, <2>3
<1>8. TypeOK' /\ HeldAlive'
  <2>1. \A j \in 0 .. MaxPid - 1 : Len(info'[j].addr) <= MaxAddr
    <3> TAKE j \in 0 .. MaxPid - 1
    <3>1. CASE j = i
      <4>1. Len(info'[j].addr) = 1  BY <3>1, <1>3, <1>4
      <4> QED  BY <4>1, SizesAssumption
    <3>2. CASE j # i  BY <3>2, <1>5, EntryType DEF ListInv
    <3> QED  BY <3>1, <3>2
  <2> QED  BY <2>1, <1>5, <1>6, AnswerType DEF ListInv, TypeOK, Entry, Code
<1>9. analysed' = analysed \cup {rec} /\ raced' = raced \cup (flux \cap {rec[1]})
  BY DEF Analyse
<1>10. ListedWasAnalysed'
  <2> SUFFICES ASSUME NEW j \in Entries', NEW n \in DOMAIN info'[j].addr
               PROVE  <<info'[j].pid, info'[j].addr[n].code>> \in analysed'
    BY DEF ListedWasAnalysed
  <2>1. j \in 0 .. MaxPid - 1  BY <1>7
  <2>2. CASE j = i
    <3>1. n = 1 /\ info'[j].addr[n] = Addr(rec[2]) /\ info'[j].pid = rec[1]
      BY <2>1, <2>2, <1>3, <1>4
    <3> QED  BY <3>1, <1>2, <1>9
  <2>3. CASE j # i
    <3>1. info'[j] = info[j] /\ j \in Entries  BY <2>1, <2>3, <1>5, <1>7
    <3> QED  BY <3>1, <1>9 DEF ListInv, ListedWasAnalysed
  <2> QED  BY <2>2, <2>3
(* Another entry of the same pid was passed over as dead.                  *)
<1>11. ASSUME NEW j \in Entries, info[j].pid = rec[1] PROVE rec[1] \in flux
  <2>1. j \in D  BY <1>11 DEF Visible
  <2>2. rec[1] \in alive \cup flux  BY DEF ListInv, HeldAlive
  <2> QED  BY <2>1, <2>2, <1>11 DEF SeenDead
<1>12. OneEntryPerPid'
  <2> SUFFICES ASSUME NEW j \in Entries', NEW k \in Entries', j # k,
                      info'[j].pid = info'[k].pid
               PROVE  info'[j].pid \in raced'
    BY DEF OneEntryPerPid
  <2>1. j \in 0 .. MaxPid - 1 /\ k \in 0 .. MaxPid - 1  BY <1>7
  <2>2. CASE j # i /\ k # i
    <3>1. /\ j \in Entries /\ k \in Entries
          /\ info'[j] = info[j] /\ info'[k] = info[k]
      BY <2>1, <2>2, <1>5, <1>7
    <3> QED  BY <3>1, <1>9 DEF ListInv, OneEntryPerPid
  <2>3. CASE j = i
    <3>1. k \in Entries /\ info'[k] = info[k] /\ info'[j].pid = rec[1]
      BY <2>1, <2>3, <1>4, <1>5, <1>7
    <3> QED  BY <3>1, <1>9, <1>11
  <2>4. CASE k = i
    <3>1. j \in Entries /\ info'[j] = info[j] /\ info'[k].pid = rec[1]
      BY <2>1, <2>4, <1>4, <1>5, <1>7
    <3> QED  BY <3>1, <1>9, <1>11
  <2> QED  BY <2>2, <2>3, <2>4
<1> QED  BY <1>8, <1>10, <1>12 DEF ListInv

-----------------------------------------------------------------------------
LEMMA NextInv == ListInv /\ [Next]_vars => ListInv'
<1> SUFFICES ASSUME ListInv, [Next]_vars PROVE ListInv'  OBVIOUS
<1>1. ASSUME NEW pid \in Pids, Die(pid) \/ Spawn(pid) PROVE ListInv'
  BY <1>1, DieInv, SpawnInv
<1>2. ASSUME NEW pid \in Pids, NEW code \in Codes, TakeUp(pid, code) PROVE ListInv'
  BY <1>2, TakeUpInv
<1>3. ASSUME NEW D \in SeenDead, Found(D) \/ AddCode(D) PROVE ListInv'
  BY <1>3, FoundInv, AddCodeInv
<1>4. ASSUME NEW D \in SeenDead, ReuseDead(D) PROVE ListInv'
  BY <1>4, GiveInv DEF ReuseDead
<1>5. ASSUME NEW D \in SeenDead, Grow(D) PROVE ListInv'
  BY <1>5, GiveInv DEF Grow
<1>6. ASSUME NEW D \in SeenDead, Evict(D) PROVE ListInv'
  BY <1>6, GiveInv DEF Evict
<1>7. CASE UNCHANGED vars
  <2>1. TypeOK' /\ HeldAlive'  BY <1>7 DEF ListInv, TypeOK, HeldAlive, vars
  <2> QED  BY <2>1, <1>7 DEF ListInv, ListedWasAnalysed, OneEntryPerPid, Entries, vars
<1> QED  BY <1>1, <1>2, <1>3, <1>4, <1>5, <1>6, <1>7 DEF Next, InsertAndSearch

(* Every value keeps its type: no entry holds more codes than it has room  *)
(* for, and the list no more entries.                                      *)
THEOREM ListTypeCorrect == Spec => []TypeOK
<1>1. ListInv => TypeOK  BY DEF ListInv
<1> QED  BY <1>1, InitInv, NextInv, PTL DEF Spec

(* A record the list answers for was analysed under its own pid, however   *)
(* entries changed hands.                                                  *)
THEOREM KnownWasAnalysed == Spec => []ListedWasAnalysed
<1>1. ListInv => ListedWasAnalysed  BY DEF ListInv
<1> QED  BY <1>1, InitInv, NextInv, PTL DEF Spec

(* Two entries of one pid come only from a death or birth during a search. *)
THEOREM SecondEntryNeedsRace == Spec => []OneEntryPerPid
<1>1. ListInv => OneEntryPerPid  BY DEF ListInv
<1> QED  BY <1>1, InitInv, NextInv, PTL DEF Spec

-----------------------------------------------------------------------------
(* What a step does to the entries.                                        *)
Untouched == \A i \in Entries : info'[i] = info[i]

LEMMA FoundKeepsCodes ==
  ASSUME ListInv, NEW D \in SeenDead, Found(D), NEW j \in Entries
  PROVE  /\ info'[j].pid = info[j].pid /\ DOMAIN info'[j].addr = DOMAIN info[j].addr
         /\ \A n \in DOMAIN info[j].addr : info'[j].addr[n].code = info[j].addr[n].code
<1>1. PICK i, k :
        info' = [info EXCEPT ![i].total_num = Count(@), ![i].addr[k].num = Count(@)]
  BY Zenon DEF Found
<1>2. j \in 0 .. MaxPid - 1 /\ info \in [0 .. MaxPid - 1 -> Entry]
  BY EntriesInList DEF ListInv, TypeOK, Entry, Code
<1>3. info[j] \in Entry /\ info[j].addr \in Seq(Code)  BY <1>2 DEF Entry
<1>4. CASE j = i
  <2> DEFINE b == CountCode(info[j].addr, k)
  <2>1. info' = [info EXCEPT ![j].total_num = Count(@), ![j].addr = b]
    BY <1>1, <1>2, <1>4 DEF CountCode, Entry
  <2>2. /\ b \in Seq(Code) /\ Len(b) = Len(info[j].addr)
        /\ \A n \in 1 .. Len(info[j].addr) : b[n].code = info[j].addr[n].code
    BY <1>3, CountCodeType
  <2> HIDE DEF b
  <2>3. info'[j].pid = info[j].pid /\ info'[j].addr = b  BY <1>2, <1>3, <2>1 DEF Entry
  <2> QED  BY <1>3, <2>2, <2>3
<1>5. CASE j # i  BY <1>1, <1>2, <1>5
<1> QED  BY <1>4, <1>5

(* The codes a of an entry become b.                                       *)
KeepsAll(a, b) == DOMAIN a \subseteq DOMAIN b /\ \A n \in DOMAIN a : b[n] = a[n]
LosesOne(a, b) ==
  /\ Len(a) = MaxAddr /\ DOMAIN a = DOMAIN b
  /\ \E l \in DOMAIN a :
       \A n \in DOMAIN a : a[l].num <= a[n].num /\ (n # l => b[n] = a[n])

(* A full entry that gets a code loses one of those least met.             *)
LEMMA AddCodeLosesLeast ==
  ASSUME ListInv, NEW D \in SeenDead, AddCode(D), NEW j \in Entries
  PROVE  /\ info'[j].pid = info[j].pid
         /\ KeepsAll(info[j].addr, info'[j].addr) \/ LosesOne(info[j].addr, info'[j].addr)
<1> DEFINE L(a) == FirstLeast([n \in DOMAIN a |-> a[n].num], DOMAIN a)
           R(a) == IF Len(a) < MaxAddr THEN Append(a, Addr(rec[2]))
                                       ELSE [a EXCEPT ![L(a)] = Addr(rec[2])]
<1>1. PICK i : info' = [info EXCEPT ![i].total_num = Count(@), ![i].addr = R(info[i].addr)]
  BY Zenon DEF AddCode
<1>2. j \in 0 .. MaxPid - 1 /\ info \in [0 .. MaxPid - 1 -> Entry]
  BY EntriesInList DEF ListInv, TypeOK, Entry, Code
<1>3. /\ info[j] \in Entry /\ info[j].addr \in Seq(Code)
      /\ Len(info[j].addr) <= MaxAddr /\ Len(info[j].addr) \in Nat
  BY <1>2, EntryType DEF ListInv, Entry
<1>4. CASE j = i
  <2>1. info' = [info EXCEPT ![j].total_num = Count(@), ![j].addr = R(info[j].addr)]
    BY <1>1, <1>4
  <2>2. info'[j].pid = info[j].pid /\ info'[j].addr = R(info[j].addr)
    <3> HIDE DEF R
    <3> QED  BY <2>1, <1>2, <1>3 DEF Entry
  <2> SUFFICES ASSUME NEW a, a = info[j].addr, NEW b, b = info'[j].addr
               PROVE  KeepsAll(a, b) \/ LosesOne(a, b)
    BY <2>2
  <2>3. CASE Len(a) < MaxAddr
    <3>1. b = Append(a, Addr(rec[2]))  BY <2>2, <2>3
    <3> QED  BY <1>3, <3>1 DEF KeepsAll
  <2>4. CASE ~(Len(a) < MaxAddr)
    <3>1. Len(a) = MaxAddr /\ MaxAddr # 0  BY <1>3, <2>4, SizesAssumption
    <3>2. DOMAIN a = 1 .. Len(a) /\ \A n \in 1 .. Len(a) : a[n] \in Code  BY <1>3
    <3> DEFINE f == [n \in DOMAIN a |-> a[n].num]
    <3>3. \A n \in DOMAIN a : f[n] = a[n].num /\ f[n] \in Nat  BY <3>2 DEF Code
    <3>4. DOMAIN a \in SUBSET Nat /\ DOMAIN a # {}  BY <1>3, <3>1, <3>2
    <3>5. /\ FirstLeast(f, DOMAIN a) \in DOMAIN a
          /\ \A n \in DOMAIN a : f[FirstLeast(f, DOMAIN a)] <= f[n]
      <4> HIDE DEF f
      <4> QED  BY <3>3, <3>4, FirstLeastIsLeast
    <3>6. PICK l : l = L(a) /\ l \in DOMAIN a /\ \A n \in DOMAIN a : a[l].num <= a[n].num
      BY <3>3, <3>5
    <3>7. b = [a EXCEPT ![l] = Addr(rec[2])]  BY <2>2, <2>4, <3>6
    <3>8. DOMAIN b = DOMAIN a /\ \A n \in DOMAIN a : n # l => b[n] = a[n]  BY <3>7
    <3> QED  BY <3>1, <3>6, <3>8 DEF LosesOne
  <2> QED  BY <2>3, <2>4
<1>5. CASE j # i
  <2>1. info'[j] = info[j]  BY <1>1, <1>2, <1>5
  <2> QED  BY <2>1 DEF KeepsAll
<1> QED  BY <1>4, <1>5

(* An entry is given away by a record of another pid, which finds it dead  *)
(* or finds no dead one in a list that is full.                            *)
LEMMA GiveTakesDeadOrFull ==
  ASSUME ListInv, NEW D \in SeenDead, ReuseDead(D) \/ Grow(D) \/ Evict(D),
         NEW j \in Entries
  PROVE  \/ info'[j] = info[j]
         \/ info[j].pid \notin alive \ flux
         \/ /\ info'[j].pid # info[j].pid /\ num = MaxPid
            /\ \A i \in Entries : info[i].pid \in alive \cup flux
<1>1. j \in 0 .. MaxPid - 1 /\ info \in [0 .. MaxPid - 1 -> Entry]
  BY EntriesInList DEF ListInv, TypeOK, Entry, Code
<1>2. ASSUME NEW i, Give(i, rec[1], rec[2])
      PROVE  (j # i => info'[j] = info[j]) /\ (j = i => info'[j].pid = rec[1])
  BY <1>1, <1>2 DEF Give, Entry
<1>3. CASE ReuseDead(D)
  <2>1. D \in SUBSET Nat /\ D # {}  BY <1>3 DEF ReuseDead, SeenDead, Entries, ListInv, TypeOK
  <2>2. Min(D) \in D  BY <2>1, MinIsIn
  <2>3. CASE j = Min(D)  BY <2>2, <2>3 DEF SeenDead
  <2>4. CASE j # Min(D)  BY <1>2, <1>3, <2>4 DEF ReuseDead
  <2> QED  BY <2>3, <2>4
<1>4. CASE Grow(D)
  <2>1. j # num  BY DEF Entries, ListInv, TypeOK
  <2> QED  BY <1>2, <1>4, <2>1 DEF Grow
<1>5. CASE Evict(D)
  <2>1. num = MaxPid /\ D = {} /\ Visible(rec[1], D) = {}  BY <1>5 DEF Evict
  <2>2. \A i \in Entries : info[i].pid \in alive \cup flux  BY <2>1 DEF SeenDead
  <2>3. info[j].pid # rec[1]  BY <2>1 DEF Visible
  <2> QED  BY <1>2, <1>5, <2>1, <2>2, <2>3 DEF Evict
<1> QED  BY <1>3, <1>4, <1>5

LEMMA OthersLeaveEntries ==
  ASSUME ListInv,
         \/ \E pid \in Pids : Die(pid) \/ Spawn(pid)
         \/ \E pid \in Pids, code \in Codes : TakeUp(pid, code)
         \/ UNCHANGED vars
  PROVE  Untouched
BY DEF Die, Spawn, TakeUp, vars, Untouched

(* A pid that lives loses its entry only when the list is full of pids     *)
(* that live or may be found alive.                                        *)
THEOREM LiveKeepsEntry == Spec => LiveLosesOnlyWhenFull
<1>1. ListInv /\ [Next]_vars => LosesWhenFull
  <2> SUFFICES ASSUME ListInv, [Next]_vars, NEW i \in Entries,
                      info'[i].pid # info[i].pid, info[i].pid \in alive \ flux
               PROVE  num = MaxPid /\ \A j \in Entries : info[j].pid \in alive \cup flux
    BY DEF LosesWhenFull
  <2>1. ~Untouched  BY DEF Untouched
  <2>2. ASSUME NEW D \in SeenDead, Found(D) \/ AddCode(D) PROVE FALSE
    BY <2>2, FoundKeepsCodes, AddCodeLosesLeast
  <2>3. PICK D \in SeenDead : ReuseDead(D) \/ Grow(D) \/ Evict(D)
    BY <2>1, <2>2, OthersLeaveEntries DEF Next, InsertAndSearch
  <2>4. info'[i] # info[i]  OBVIOUS
  <2> QED  BY <2>3, <2>4, GiveTakesDeadOrFull
<1> QED  BY <1>1, InitInv, NextInv, PTL DEF Spec, LiveLosesOnlyWhenFull

(* While a pid lives and keeps its entry it forgets a code only when the   *)
(* entry is full, one at a time, and none met more often than one it keeps.*)
THEOREM ForgetsLeastHit == Spec => LosesLeastHit
<1> DEFINE
  Kept(old, new) == {k \in DOMAIN old \cap DOMAIN new : old[k].code = new[k].code}
  Lost(old, new) == DOMAIN old \ Kept(old, new)
  Least(old, new) ==
    Lost(old, new) # {} =>
      /\ Len(old) = MaxAddr /\ Cardinality(Lost(old, new)) = 1
      /\ \A k \in Kept(old, new), l \in Lost(old, new) : old[l].num <= old[k].num
<1>1. ListInv /\ [Next]_vars => LosesOneOfLeast
  <2> SUFFICES ASSUME ListInv, [Next]_vars, NEW i \in Entries,
                      info[i].pid \in alive \ flux, info[i].pid = info'[i].pid
               PROVE  Least(info[i].addr, info'[i].addr)
    BY DEF LosesOneOfLeast
  <2>1. CASE info'[i] = info[i]
    <3>1. Lost(info[i].addr, info'[i].addr) = {}  BY <2>1
    <3> QED  BY <3>1
  <2>2. ASSUME NEW D \in SeenDead, Found(D) PROVE Least(info[i].addr, info'[i].addr)
    <3>1. Lost(info[i].addr, info'[i].addr) = {}  BY <2>2, FoundKeepsCodes
    <3> QED  BY <3>1
  <2>3. ASSUME NEW D \in SeenDead, AddCode(D) PROVE Least(info[i].addr, info'[i].addr)
    <3> SUFFICES ASSUME NEW a, a = info[i].addr, NEW b, b = info'[i].addr,
                        Lost(a, b) # {}
                 PROVE  /\ Len(a) = MaxAddr /\ Cardinality(Lost(a, b)) = 1
                        /\ \A k \in Kept(a, b), l \in Lost(a, b) : a[l].num <= a[k].num
      OBVIOUS
    <3>1. KeepsAll(a, b) \/ LosesOne(a, b)  BY <2>3, AddCodeLosesLeast
    <3>2. LosesOne(a, b)  BY <3>1 DEF KeepsAll
    <3>3. PICK l \in DOMAIN a : \A n \in DOMAIN a :
            a[l].num <= a[n].num /\ (n # l => b[n] = a[n])
      BY <3>2 DEF LosesOne
    <3>4. Lost(a, b) = {l}  BY <3>2, <3>3 DEF LosesOne
    <3>5. Cardinality(Lost(a, b)) = 1
      <4> HIDE DEF Lost
      <4> QED  BY <3>4, FS_Singleton
    <3>6. \A k \in Kept(a, b), n \in Lost(a, b) : a[n].num <= a[k].num
      <4>1. Kept(a, b) \subseteq DOMAIN a  OBVIOUS
      <4> HIDE DEF Lost, Kept
      <4> QED  BY <3>3, <3>4, <4>1
    <3> HIDE DEF Lost, Kept
    <3> QED  BY <3>2, <3>5, <3>6 DEF LosesOne
  <2>4. ASSUME NEW D \in SeenDead, ReuseDead(D) \/ Grow(D) \/ Evict(D)
        PROVE  Least(info[i].addr, info'[i].addr)
    BY <2>1, <2>4, GiveTakesDeadOrFull
  <2> QED
    BY <2>1, <2>2, <2>3, <2>4, OthersLeaveEntries DEF Next, InsertAndSearch, Untouched
<1> QED  BY <1>1, InitInv, NextInv, PTL DEF Spec, LosesLeastHit
=============================================================================
