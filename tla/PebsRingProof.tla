---------------------------- MODULE PebsRingProof ----------------------------
(***************************************************************************)
(* Proofs about the per-CPU record rings and the table of seen code, for   *)
(* every number of CPUs, every size of ring and table, and all processes   *)
(* and codes.                                                              *)
(***************************************************************************)
EXTENDS PebsRing, FiniteSetTheorems, TLAPS

(* The record a handler holds; until it is entered in the table, a new     *)
(* process is in no slot of the handler's own part, and the slot of an old *)
(* one is still its own, or was taken over by another CPU.                 *)
Job == [pid : Pids, code : Codes, new : BOOLEAN, loc : TableSlots, at : 0 .. A - 1]
MayMark(c) ==
  IF job[c].new
  THEN /\ job[c].loc = <<c, next_pid[c]>> /\ job[c].at = 0
       /\ \A q \in 0 .. P - 1 : table[<<c, q>>].pid # job[c].pid
  ELSE job[c].loc \in recycled \/ table[job[c].loc].pid = job[c].pid
JobInv ==
  /\ job \in [CPUs -> Job \cup {NoJob}]
  /\ \A c \in CPUs : hpc[c] # "idle" =>
       job[c] \in Job /\ pub[c] < MaxRec /\ (hpc[c] = "mark" => MayMark(c))

(* The slots of a part are taken in order, and none is given back.         *)
FillInv ==
  \A c \in CPUs :
    \/ \A q \in 0 .. P - 1 : table[<<c, q>>].pid # NoPid
    \/ \A q \in 0 .. P - 1 : table[<<c, q>>].pid # NoPid <=> q < next_pid[c]

TableInv == TypeOK /\ JobInv /\ FillInv /\ OneSlotPerPart /\ TableIsPublished

(* The indices follow from the numbers of records written and read.        *)
Got(c) == Len(con[c])
IndexInv ==
  /\ \A c \in CPUs :
       /\ write_index[c] = pub[c] % N /\ Got(c) <= pub[c]
       /\ read_index[c] = IF Got(c) = 0 THEN -1 ELSE (Got(c) - 1) % N
  /\ tpc = "copy" => tr = Got(tcpu) % N /\ Got(tcpu) < pub[tcpu]

(* The last N - 1 records published are where they were written, also while*)
(* the next one is copied.                                                 *)
WrittenInv ==
  \A c \in CPUs :
    /\ \A j \in 1 .. pub[c] : pub[c] - j < N - 1 => slots[c][(j - 1) % N] = j
    /\ hpc[c] = "publish" => slots[c][pub[c] % N] = pub[c] + 1

RecordInv == IndexInv /\ WrittenInv

-----------------------------------------------------------------------------
(* Numbers.  A set of naturals has a smallest one: of the segments 0 .. x  *)
(* that end in it, one contains no other.                                  *)
LEMMA MinIsLeast ==
  ASSUME NEW S \in SUBSET Nat, S # {}
  PROVE  Min(S) \in S /\ \A y \in S : Min(S) <= y
<1> DEFINE T == {0 .. x : x \in S}
           R == StrictSubsetOrdering(Nat)
<1>1. T \subseteq FiniteSubsetsOf(Nat)
  <2>1. \A x \in S : IsFiniteSet(0 .. x)  BY FS_Interval
  <2> QED  BY <2>1 DEF FiniteSubsetsOf
<1>2. T # {}  OBVIOUS
<1>3. IsWellFoundedOn(R, FiniteSubsetsOf(Nat))  BY FS_StrictSubsetOrderingWellFounded
<1>4. PICK t \in T : \A u \in T : ~(<<u, t>> \in R)
  <2> HIDE DEF T, R
  <2> QED  BY <1>1, <1>2, <1>3, WFMin
<1>5. PICK x \in S : t = 0 .. x  OBVIOUS
<1>6. ASSUME NEW y \in S PROVE x <= y
  <2>1. ~(<<0 .. y, 0 .. x>> \in R)  BY <1>4, <1>5
  <2>2. ~(0 .. y \subseteq 0 .. x /\ 0 .. y # 0 .. x)  BY <2>1 DEF StrictSubsetOrdering
  <2>3. CASE y < x
    <3>1. x \in 0 .. x /\ x \notin 0 .. y  BY <2>3
    <3>2. 0 .. y \subseteq 0 .. x  BY <2>3
    <3> QED  BY <3>1, <3>2, <2>2
  <2> QED  BY <2>3
<1> QED  BY <1>6 DEF Min

LEMMA ModRange == ASSUME NEW n \in Nat, n > 0, NEW k \in Int PROVE k % n \in 0 .. n - 1
OBVIOUS

-----------------------------------------------------------------------------
(* The table.                                                              *)
Item == [info : Codes \cup {NoCode}, num : 0 .. MaxRec]
Slot == [pid : Pids \cup {NoPid}, buf : [0 .. A - 1 -> Item]]

LEMMA Sizes ==
  /\ NumCpus \in Nat /\ NumCpus > 0 /\ N \in Nat /\ N >= 3
  /\ P \in Nat /\ P > 0 /\ A \in Nat /\ A > 0 /\ MaxRec \in Nat
  /\ 0 \in 0 .. A - 1 /\ 0 \in 0 .. P - 1 /\ 0 \in CPUs
BY SizesAssumption DEF CPUs

LEMMA TableType ==
  ASSUME TypeOK
  PROVE  /\ table \in [TableSlots -> Slot]
         /\ \A l \in TableSlots : table[l].pid \in Pids \cup {NoPid}
         /\ \A l \in TableSlots, i \in 0 .. A - 1 :
              table[l].buf[i] \in Item /\ table[l].buf[i].num \in 0 .. MaxRec
<1>1. table \in [TableSlots -> Slot]  BY DEF TypeOK, Slot, Item
<1>2. \A l \in TableSlots : table[l] \in Slot  BY <1>1
<1> QED  BY <1>1, <1>2 DEF Slot, Item

LEMMA InPart == ASSUME NEW c \in CPUs, NEW q \in 0 .. P - 1 PROVE <<c, q>> \in TableSlots
BY DEF TableSlots

(* The search finds a slot if there is one it can reach: the first of the  *)
(* first CPU that has one.                                                 *)
LEMMA SearchFinds == ASSUME NEW pid, SlotOf(pid) = {} PROVE Reach(pid) = {}
<1> SUFFICES ASSUME Reach(pid) # {} PROVE FALSE  OBVIOUS
<1>1. \A l \in Reach(pid) : /\ l = <<l[1], l[2]>> /\ l[1] \in Nat /\ l[2] \in Nat
  BY Sizes DEF Reach, TableSlots, CPUs
<1> DEFINE C == {l[1] : l \in Reach(pid)}
<1>2. C \in SUBSET Nat /\ C # {}  BY <1>1
<1>3. Min(C) \in C /\ \A x \in C : Min(C) <= x
  <2> HIDE DEF C
  <2> QED  BY <1>2, MinIsLeast
<1>4. PICK k \in Reach(pid) : \A l \in Reach(pid) : k[1] <= l[1]  BY <1>3
<1> DEFINE Q == {l[2] : l \in {m \in Reach(pid) : m[1] = k[1]}}
<1>5. Q \in SUBSET Nat /\ Q # {}  BY <1>1
<1>6. Min(Q) \in Q /\ \A x \in Q : Min(Q) <= x
  <2> HIDE DEF Q
  <2> QED  BY <1>5, MinIsLeast
<1>7. PICK s \in Reach(pid) : /\ s[1] = k[1]
                             /\ \A l \in Reach(pid) : l[1] = k[1] => s[2] <= l[2]
  BY <1>6
<1>8. \A l \in Reach(pid) : ~Before(l, s)
  <2> TAKE l \in Reach(pid)
  <2>1. k[1] <= l[1] /\ l[1] \in Nat /\ l[2] \in Nat /\ s[1] \in Nat /\ s[2] \in Nat
    BY <1>1, <1>4
  <2> QED  BY <2>1, <1>7 DEF Before
<1>9. s \in SlotOf(pid)  BY <1>8 DEF SlotOf
<1> QED  BY <1>9

(* So a process that the search does not find is nowhere.                  *)
LEMMA NotFoundNowhere ==
  ASSUME TypeOK, FillInv, NEW pid \in Pids, SlotOf(pid) = {},
         NEW c \in CPUs, NEW q \in 0 .. P - 1
  PROVE  table[<<c, q>>].pid # pid
<1> SUFFICES ASSUME table[<<c, q>>].pid = pid PROVE FALSE  OBVIOUS
<1>1. pid # NoPid  BY NamesAssumption DEF NoPid
<1>2. \A r \in 0 .. q : r \in 0 .. P - 1 /\ r <= q  BY Sizes
<1>3. next_pid[c] \in Nat /\ q \in Nat  BY Sizes DEF TypeOK
<1>4. \A r \in 0 .. q : table[<<c, r>>].pid # NoPid
  <2>1. CASE \A r \in 0 .. P - 1 : table[<<c, r>>].pid # NoPid  BY <2>1, <1>2
  <2>2. CASE \A r \in 0 .. P - 1 : table[<<c, r>>].pid # NoPid <=> r < next_pid[c]
    <3>1. q < next_pid[c]  BY <2>2, <1>1
    <3>2. \A r \in 0 .. q : r < next_pid[c]  BY <3>1, <1>3
    <3> QED  BY <2>2, <3>2, <1>2
  <2> QED  BY <2>1, <2>2 DEF FillInv
<1>5. <<c, q>> \in Reach(pid)
  <2>1. <<c, q>> \in TableSlots /\ <<c, q>>[1] = c /\ <<c, q>>[2] = q  BY InPart
  <2> QED  BY <2>1, <1>4 DEF Reach
<1> QED  BY <1>5, SearchFinds

LEMMA FoundSlot ==
  ASSUME NEW pid, NEW l \in SlotOf(pid)
  PROVE  l \in TableSlots /\ table[l].pid = pid
BY DEF SlotOf, Reach

LEMMA InsertIn == ASSUME NEW l, NEW i \in InsertAt(l) PROVE i \in 0 .. A - 1
<1>1. CASE FreeIn(l) # {}
  <2>1. FreeIn(l) \in SUBSET Nat /\ FreeIn(l) \subseteq 0 .. A - 1  BY Sizes DEF FreeIn
  <2>2. Min(FreeIn(l)) \in FreeIn(l)  BY <1>1, <2>1, MinIsLeast
  <2>3. i = Min(FreeIn(l))  BY <1>1 DEF InsertAt
  <2> QED  BY <2>1, <2>2, <2>3
<1>2. CASE FreeIn(l) = {}  BY <1>2 DEF InsertAt, Victims
<1> QED  BY <1>1, <1>2

(* A slot without a process has no code.                                   *)
LEMMA EmptySlot ==
  ASSUME TableInv, NEW l \in TableSlots, l \notin recycled, table[l].pid = NoPid,
         NEW i \in 0 .. A - 1
  PROVE  table[l].buf[i].num = 0
<1>1. ~InFlight(NoPid, table[l].buf[i].info)
  BY NamesAssumption DEF InFlight, TableInv, JobInv, Job, NoPid
<1>2. <<NoPid, table[l].buf[i].info>> \notin known
  BY NamesAssumption DEF TableInv, TypeOK, NoPid
<1>3. ~(table[l].buf[i].num > 0)  BY <1>1, <1>2 DEF TableInv, TableIsPublished
<1> QED  BY <1>3, TableType DEF TableInv

-----------------------------------------------------------------------------
(* The steps, and the table.                                               *)
LEMMA TableStarts == Init => TableInv
<1> SUFFICES ASSUME Init PROVE TableInv  OBVIOUS
<1>1. TypeOK
  <2>1. table \in [TableSlots -> Slot]
    <3>1. Empty \in Item  BY Sizes DEF Empty, Item, NoCode
    <3> QED  BY <3>1 DEF Init, Slot
  <2>2. /\ read_index \in [CPUs -> -1 .. N - 1] /\ write_index \in [CPUs -> Index]
        /\ slots \in [CPUs -> [Index -> 0 .. MaxRec]] /\ next_pid \in [CPUs -> 0 .. P - 1]
    BY Sizes DEF Init, Index
  <2>3. /\ hpc \in [CPUs -> {"idle", "mark", "write", "publish"}] /\ tpc \in {"idle", "copy"}
        /\ tcpu \in CPUs /\ tr \in Index
    BY Sizes DEF Init, Index
  <2>4. pub \in [CPUs -> 0 .. MaxRec] /\ con \in [CPUs -> Seq(0 .. MaxRec)]
    BY Sizes DEF Init
  <2>5. known \subseteq Pids \X Codes /\ recycled \subseteq TableSlots  BY DEF Init
  <2> QED  BY <2>1, <2>2, <2>3, <2>4, <2>5 DEF TypeOK, Slot, Item
<1>2. \A l \in TableSlots : table[l].pid = NoPid  BY DEF Init
<1>3. JobInv  BY DEF Init, JobInv
<1>4. FillInv
  <2> SUFFICES ASSUME NEW c \in CPUs, NEW q \in 0 .. P - 1
               PROVE  table[<<c, q>>].pid # NoPid <=> q < next_pid[c]
    BY DEF FillInv
  <2>1. table[<<c, q>>].pid = NoPid /\ next_pid[c] = 0  BY <1>2, InPart DEF Init
  <2> QED  BY <2>1, Sizes
<1>5. OneSlotPerPart  BY <1>2 DEF OneSlotPerPart
<1>6. TableIsPublished
  <2>1. \A l \in TableSlots, i \in 0 .. A - 1 : table[l].buf[i].num = 0  BY DEF Init, Empty
  <2> QED  BY <2>1 DEF TableIsPublished
<1> QED  BY <1>1, <1>3, <1>4, <1>5, <1>6 DEF TableInv

(* Steps that leave the table alone.                                       *)
LEMMA TableKept ==
  ASSUME TableInv, TypeOK', UNCHANGED <<table, next_pid, recycled, job, known>>,
         \A c \in CPUs : pub'[c] = pub[c],
         \A c \in CPUs : \/ hpc'[c] = hpc[c]
                         \/ hpc[c] = "write" /\ hpc'[c] = "publish"
  PROVE  TableInv'
<1>1. JobInv'
  <2>1. \A c \in CPUs : MayMark(c)' = MayMark(c)  BY DEF MayMark
  <2>2. \A c \in CPUs : hpc'[c] # "idle" =>
          hpc[c] # "idle" /\ (hpc'[c] = "mark" => hpc[c] = "mark")
    OBVIOUS
  <2> QED  BY <2>1, <2>2 DEF JobInv, TableInv
<1>2. FillInv'  BY DEF FillInv, TableInv
<1>3. OneSlotPerPart'  BY DEF OneSlotPerPart, TableInv
<1>4. \A pid, code : InFlight(pid, code)' = InFlight(pid, code)
  BY DEF InFlight
<1>5. TableIsPublished'  BY <1>4 DEF TableIsPublished, TableInv
<1> QED  BY <1>1, <1>2, <1>3, <1>5 DEF TableInv

LEMMA ThreadKeepsTable == ASSUME TableInv, Thread PROVE TableInv'
<1>1. Len(con[tcpu]) \in Nat /\ slots[tcpu][tr] \in 0 .. MaxRec /\ con[tcpu] \in Seq(0 .. MaxRec)
  BY DEF TableInv, TypeOK
<1>2. TypeOK'
  <2>1. CASE Look
    <3>1. tr' = (read_index[tcpu] + 1) % N /\ read_index[tcpu] + 1 \in Int
      <4>1. tcpu \in CPUs /\ read_index \in [CPUs -> -1 .. N - 1]  BY DEF TableInv, TypeOK
      <4>2. read_index[tcpu] + 1 \in Int  BY <4>1, Sizes
      <4> QED  BY <2>1, <4>2 DEF Look
    <3>2. tr' \in Index  BY <3>1, Sizes, ModRange DEF Index
    <3> QED  BY <2>1, <3>2 DEF Look, TableInv, TypeOK, ringVars, tableVars, history
  <2>2. CASE NextCpu
    <3>1. tcpu' = (tcpu + 1) % NumCpus /\ tcpu + 1 \in Int
      BY <2>2, Sizes DEF NextCpu, TableInv, TypeOK, CPUs
    <3>2. tcpu' \in CPUs  BY <3>1, Sizes, ModRange DEF CPUs
    <3> QED  BY <2>2, <3>2 DEF NextCpu, TableInv, TypeOK, ringVars, tableVars, history
  <2>3. CASE Consume
    <3>1. con' \in [CPUs -> Seq(0 .. MaxRec)]
      <4>1. Append(con[tcpu], slots[tcpu][tr]) \in Seq(0 .. MaxRec)  BY <1>1
      <4> QED  BY <2>3, <4>1 DEF Consume, TableInv, TypeOK
    <3>2. read_index' \in [CPUs -> -1 .. N - 1]
      <4>1. tr \in -1 .. N - 1  BY Sizes DEF TableInv, TypeOK, Index
      <4> QED  BY <2>3, <4>1 DEF Consume, TableInv, TypeOK
    <3> QED  BY <2>3, <3>1, <3>2 DEF Consume, TableInv, TypeOK, tableVars
  <2> QED  BY <2>1, <2>2, <2>3 DEF Thread
<1> QED
  BY <1>2, TableKept DEF Thread, Look, NextCpu, Consume, ringVars, tableVars, history

LEMMA WriteSlotKeepsTable == ASSUME TableInv, NEW c \in CPUs, WriteSlot(c) PROVE TableInv'
<1>1. pub[c] + 1 \in 0 .. MaxRec /\ write_index[c] \in Index
  <2>1. pub[c] < MaxRec  BY DEF WriteSlot, TableInv, JobInv
  <2>2. pub[c] \in 0 .. MaxRec /\ write_index[c] \in Index  BY DEF TableInv, TypeOK
  <2> QED  BY <2>1, <2>2, Sizes
<1>2. slots' \in [CPUs -> [Index -> 0 .. MaxRec]]
  BY <1>1 DEF WriteSlot, TableInv, TypeOK
<1>3. hpc' \in [CPUs -> {"idle", "mark", "write", "publish"}]
  BY DEF WriteSlot, TableInv, TypeOK
<1>4. TypeOK'  BY <1>2, <1>3 DEF WriteSlot, TableInv, TypeOK, tableVars, thread, history
<1>5. \A d \in CPUs : hpc'[d] = hpc[d] \/ (hpc[d] = "write" /\ hpc'[d] = "publish")
  BY DEF WriteSlot, TableInv, TypeOK
<1> QED  BY <1>4, <1>5, TableKept DEF WriteSlot, tableVars, thread, history

(* The count in a table entry: the code was there.                         *)
LEMMA SuppressKeepsTable ==
  ASSUME TableInv, NEW c \in CPUs, NEW pid \in Pids, NEW code \in Codes, Suppress(c, pid, code)
  PROVE  TableInv'
<1>1. PICK l \in SlotOf(pid) :
        /\ MayMatch(l, code) # {} /\ table[l].buf[0].num < MaxRec
        /\ table' = [table EXCEPT ![l].buf[0].num = @ + 1]
  BY DEF Suppress
<1>2. UNCHANGED <<ringVars, next_pid, recycled, hpc, job, thread, history>>  BY DEF Suppress
<1>3. l \in TableSlots  BY FoundSlot
<1>4. table \in [TableSlots -> Slot] /\ table[l] \in Slot  BY <1>3, TableType DEF TableInv
<1>5. table[l].buf[0].num # 0
  <2>1. PICK i \in MayMatch(l, code) : TRUE  BY <1>1
  <2>2. 0 \in 0 .. i  BY Sizes DEF MayMatch
  <2> QED  BY <2>1, <2>2, Sizes DEF MayMatch, Nums
<1>6. /\ table' \in [TableSlots -> Slot]
      /\ \A m \in TableSlots : table'[m].pid = table[m].pid
      /\ \A m \in TableSlots, i \in 0 .. A - 1 :
           /\ table'[m].buf[i].info = table[m].buf[i].info
           /\ table'[m].buf[i].num > 0 => table[m].buf[i].num > 0
  <2> DEFINE e == [table[l].buf[0] EXCEPT !.num = @ + 1]
             b == [table[l].buf EXCEPT ![0] = e]
             s == [table[l] EXCEPT !.buf = b]
  <2>1. /\ table[l].buf \in [0 .. A - 1 -> Item] /\ table[l].buf[0] \in Item
        /\ table[l].buf[0].num \in 0 .. MaxRec
    BY <1>4, Sizes DEF Slot, Item
  <2>2. table[l].buf[0].num + 1 \in 0 .. MaxRec /\ table[l].buf[0].num > 0
    <3>1. PICK k \in 0 .. MaxRec : k = table[l].buf[0].num  BY <2>1
    <3>2. k > 0 /\ k < MaxRec  BY <1>1, <1>5, <2>1, <3>1, Sizes
    <3>3. k + 1 \in 0 .. MaxRec  BY <3>2, Sizes
    <3> QED  BY <3>1, <3>2, <3>3
  <2>3. e \in Item /\ e.info = table[l].buf[0].info  BY <2>1, <2>2 DEF Item
  <2>4. table' = [table EXCEPT ![l] = s]  BY <1>1
  <2> HIDE DEF e
  <2>5. /\ b \in [0 .. A - 1 -> Item] /\ b[0] = e
        /\ \A i \in 0 .. A - 1 : i # 0 => b[i] = table[l].buf[i]
    BY <2>1, <2>3, Sizes
  <2> HIDE DEF b
  <2>6. s \in Slot /\ s.pid = table[l].pid /\ s.buf = b  BY <1>4, <2>5 DEF Slot
  <2> HIDE DEF s
  <2>7. /\ table' \in [TableSlots -> Slot] /\ table'[l] = s
        /\ \A m \in TableSlots : m # l => table'[m] = table[m]
    BY <1>3, <1>4, <2>4, <2>6
  <2> QED  BY <2>2, <2>3, <2>5, <2>6, <2>7
<1>7. TypeOK'
  BY <1>2, <1>6 DEF TableInv, TypeOK, Slot, Item, ringVars, thread, history
<1>8. JobInv'
  <2>1. ASSUME NEW d \in CPUs, hpc[d] = "mark" PROVE MayMark(d)'
    <3>1. job[d] \in Job /\ job[d].loc \in TableSlots  BY <2>1 DEF TableInv, JobInv, Job
    <3>2. \A r \in 0 .. P - 1 : table'[<<d, r>>].pid = table[<<d, r>>].pid  BY <1>6, InPart
    <3>3. table'[job[d].loc].pid = table[job[d].loc].pid  BY <1>6, <3>1
    <3>4. MayMark(d)  BY <2>1 DEF TableInv, JobInv
    <3> QED  BY <1>2, <3>2, <3>3, <3>4 DEF MayMark
  <2> QED  BY <1>2, <2>1 DEF TableInv, JobInv, history
<1>9. FillInv'
  <2>1. \A d \in CPUs, q \in 0 .. P - 1 : table'[<<d, q>>].pid = table[<<d, q>>].pid
    BY <1>6, InPart
  <2> QED  BY <1>2, <2>1 DEF TableInv, FillInv
<1>10. OneSlotPerPart'  BY <1>6 DEF TableInv, OneSlotPerPart
<1>11. TableIsPublished'
  <2>1. \A p, k : InFlight(p, k)' = InFlight(p, k)  BY <1>2 DEF InFlight
  <2> QED  BY <1>2, <1>6, <2>1 DEF TableInv, TableIsPublished, history
<1> QED  BY <1>7, <1>8, <1>9, <1>10, <1>11 DEF TableInv

LEMMA BeginKeepsTable ==
  ASSUME TableInv, NEW c \in CPUs, NEW pid \in Pids, NEW code \in Codes,
         NEW new \in BOOLEAN, NEW loc \in TableSlots, NEW at \in 0 .. A - 1,
         Begin(c, pid, code, new, loc, at),
         IF new THEN /\ loc = <<c, next_pid[c]>> /\ at = 0
                     /\ \A q \in 0 .. P - 1 : table[<<c, q>>].pid # pid
                ELSE table[loc].pid = pid
  PROVE  TableInv'
<1> DEFINE j == [pid |-> pid, code |-> code, new |-> new, loc |-> loc, at |-> at]
<1>1. /\ hpc[c] = "idle" /\ pub[c] < MaxRec
      /\ hpc' = [hpc EXCEPT ![c] = "mark"] /\ job' = [job EXCEPT ![c] = j]
      /\ UNCHANGED <<ringVars, tableVars, thread, history>>
  BY DEF Begin
<1>2. j \in Job /\ j.pid = pid /\ j.new = new /\ j.loc = loc /\ j.at = at  BY DEF Job
<1> HIDE DEF j
<1>3. TypeOK'  BY <1>1 DEF TableInv, TypeOK, ringVars, tableVars, thread, history
<1>4. /\ hpc'[c] = "mark" /\ job'[c] = j
      /\ \A d \in CPUs : d # c => hpc'[d] = hpc[d] /\ job'[d] = job[d]
  BY <1>1 DEF TableInv, TypeOK, JobInv
<1>5. JobInv'
  <2>1. job' \in [CPUs -> Job \cup {NoJob}]  BY <1>1, <1>2 DEF TableInv, JobInv
  <2>2. ASSUME NEW d \in CPUs, d # c, hpc[d] = "mark" PROVE MayMark(d)'
    <3>1. MayMark(d)  BY <2>2 DEF TableInv, JobInv
    <3> QED  BY <1>1, <1>4, <2>2, <3>1 DEF MayMark, tableVars
  <2>3. MayMark(c)'  BY <1>1, <1>2, <1>4 DEF MayMark, tableVars
  <2> QED  BY <1>1, <1>2, <1>4, <2>1, <2>2, <2>3 DEF TableInv, JobInv, history
<1>6. FillInv'  BY <1>1 DEF TableInv, FillInv, tableVars
<1>7. OneSlotPerPart'  BY <1>1 DEF TableInv, OneSlotPerPart, tableVars
<1>8. TableIsPublished'
  <2>1. ASSUME NEW p, NEW k, InFlight(p, k) PROVE InFlight(p, k)'
    BY <1>1, <1>4, <2>1 DEF InFlight
  <2> QED  BY <1>1, <2>1 DEF TableInv, TableIsPublished, tableVars, history
<1> QED  BY <1>3, <1>5, <1>6, <1>7, <1>8 DEF TableInv

LEMMA BeginCodeKeepsTable ==
  ASSUME TableInv, NEW c \in CPUs, NEW pid \in Pids, NEW code \in Codes, BeginCode(c, pid, code)
  PROVE  TableInv'
<1>1. PICK l \in SlotOf(pid) : \E i \in InsertAt(l) : Begin(c, pid, code, FALSE, l, i)
  BY DEF BeginCode
<1>2. PICK i \in InsertAt(l) : Begin(c, pid, code, FALSE, l, i)  BY <1>1
<1>3. l \in TableSlots /\ table[l].pid = pid /\ i \in 0 .. A - 1  BY FoundSlot, InsertIn
<1> QED  BY <1>2, <1>3, BeginKeepsTable

LEMMA BeginPidKeepsTable ==
  ASSUME TableInv, NEW c \in CPUs, NEW pid \in Pids, NEW code \in Codes, BeginPid(c, pid, code)
  PROVE  TableInv'
<1>1. SlotOf(pid) = {} /\ Begin(c, pid, code, TRUE, <<c, next_pid[c]>>, 0)  BY DEF BeginPid
<1>2. next_pid[c] \in 0 .. P - 1  BY DEF TableInv, TypeOK
<1>3. <<c, next_pid[c]>> \in TableSlots  BY <1>2, InPart
<1>4. \A q \in 0 .. P - 1 : table[<<c, q>>].pid # pid  BY <1>1, NotFoundNowhere DEF TableInv
<1> QED  BY <1>1, <1>3, <1>4, Sizes, BeginKeepsTable

(* How write_ring_buffer's stores change a slot.                           *)
Stored(f, l, i, e) == [f EXCEPT ![l].buf[i] = e]
StoredNew(f, l, p, i, e) == [f EXCEPT ![l].pid = p, ![l].buf[i] = e]

LEMMA StoreEntry ==
  ASSUME NEW f \in [TableSlots -> Slot], NEW l \in TableSlots, NEW i \in 0 .. A - 1, NEW e
  PROVE  Stored(f, l, i, e)
           = [f EXCEPT ![l] = [pid |-> f[l].pid, buf |-> [f[l].buf EXCEPT ![i] = e]]]
<1>1. PICK b : b = [f[l].buf EXCEPT ![i] = e]  OBVIOUS
<1>2. Stored(f, l, i, e) = [f EXCEPT ![l] = [f[l] EXCEPT !.buf = b]]  BY <1>1 DEF Stored
<1>3. [f[l] EXCEPT !.buf = b] = [pid |-> f[l].pid, buf |-> b]  BY DEF Slot
<1> QED  BY <1>1, <1>2, <1>3

LEMMA StorePidAndEntry ==
  ASSUME NEW f \in [TableSlots -> Slot], NEW l \in TableSlots, NEW i \in 0 .. A - 1,
         NEW p \in Pids, NEW e \in Item
  PROVE  StoredNew(f, l, p, i, e)
           = [f EXCEPT ![l] = [pid |-> p, buf |-> [f[l].buf EXCEPT ![i] = e]]]
<1>1. PICK g : g = [f EXCEPT ![l].pid = p]  OBVIOUS
<1>2. PICK b : b = [g[l].buf EXCEPT ![i] = e]  OBVIOUS
<1>3. StoredNew(f, l, p, i, e) = [g EXCEPT ![l] = [g[l] EXCEPT !.buf = b]]
  BY <1>1, <1>2 DEF StoredNew
<1>4. [f[l] EXCEPT !.pid = p] = [pid |-> p, buf |-> f[l].buf]  BY DEF Slot
<1>5. g = [f EXCEPT ![l] = [pid |-> p, buf |-> f[l].buf]]  BY <1>1, <1>4
<1>6. g[l] = [pid |-> p, buf |-> f[l].buf]  BY <1>5
<1>7. [g[l] EXCEPT !.buf = b] = [pid |-> p, buf |-> b]  BY <1>6
<1>8. [g EXCEPT ![l] = [pid |-> p, buf |-> b]] = [f EXCEPT ![l] = [pid |-> p, buf |-> b]]
  BY <1>5
<1>9. g[l].buf = f[l].buf  BY <1>6
<1> QED  BY <1>2, <1>3, <1>7, <1>8, <1>9

(* The entry is written.  In a slot that is still of its process, or is    *)
(* empty, it is of a code on its way to the ring.                          *)
LEMMA MarkKeepsTable == ASSUME TableInv, NEW c \in CPUs, Mark(c) PROVE TableInv'
<1> DEFINE j == job[c]
           entry == [info |-> j.code, num |-> 1]
           s == [pid |-> IF j.new THEN j.pid ELSE table[j.loc].pid,
                 buf |-> [table[j.loc].buf EXCEPT ![j.at] = entry]]
<1>1. /\ hpc[c] = "mark" /\ hpc' = [hpc EXCEPT ![c] = "write"]
      /\ UNCHANGED <<ringVars, job, thread, history>>
  BY DEF Mark
<1>2. /\ j \in Job /\ pub[c] < MaxRec /\ MayMark(c)
      /\ j.loc \in TableSlots /\ j.at \in 0 .. A - 1 /\ j.pid \in Pids /\ j.code \in Codes
  BY <1>1 DEF TableInv, JobInv, Job
<1>3. table \in [TableSlots -> Slot] /\ table[j.loc] \in Slot
  BY <1>2, TableType DEF TableInv
<1>4. entry \in Item
  <2>1. pub[c] \in 0 .. MaxRec  BY DEF TableInv, TypeOK
  <2>2. 1 \in 0 .. MaxRec  BY <1>2, <2>1, Sizes
  <2> QED  BY <1>2, <2>2 DEF Item
<1>5. /\ s \in Slot /\ s.pid = (IF j.new THEN j.pid ELSE table[j.loc].pid)
      /\ s.buf[j.at] = entry
      /\ \A i \in 0 .. A - 1 : i # j.at => s.buf[i] = table[j.loc].buf[i]
  <2>1. table[j.loc].buf \in [0 .. A - 1 -> Item] /\ table[j.loc].pid \in Pids \cup {NoPid}
    BY <1>3 DEF Slot
  <2> HIDE DEF entry
  <2> QED  BY <1>2, <1>4, <2>1 DEF Slot
<1>6. table' = [table EXCEPT ![j.loc] = s]
  <2>1. CASE j.new
    <3>1. j.at = 0  BY <1>2, <2>1 DEF MayMark
    <3>2. table' = StoredNew(table, j.loc, j.pid, j.at, entry)
      BY <2>1, <3>1 DEF Mark, StoredNew
    <3> HIDE DEF entry
    <3>3. table' = [table EXCEPT ![j.loc] =
                      [pid |-> j.pid, buf |-> [table[j.loc].buf EXCEPT ![j.at] = entry]]]
      <4>1. /\ table \in [TableSlots -> Slot] /\ j.loc \in TableSlots
            /\ j.at \in 0 .. A - 1 /\ j.pid \in Pids /\ entry \in Item
        BY <1>2, <1>3, <1>4
      <4>2. PICK p \in Pids : p = j.pid  BY <4>1
      <4>3. PICK l \in TableSlots : l = j.loc  BY <4>1
      <4>4. PICK i \in 0 .. A - 1 : i = j.at  BY <4>1
      <4>5. PICK e \in Item : e = entry  BY <4>1
      <4>6. StoredNew(table, l, p, i, e) = [table EXCEPT ![l] =
              [pid |-> p, buf |-> [table[l].buf EXCEPT ![i] = e]]]
        BY <4>1, StorePidAndEntry
      <4> QED  BY <3>2, <4>2, <4>3, <4>4, <4>5, <4>6
    <3> QED  BY <2>1, <3>3
  <2>2. CASE ~j.new
    <3>1. table' = Stored(table, j.loc, j.at, entry)  BY <2>2 DEF Mark, Stored
    <3> HIDE DEF entry
    <3>2. table' = [table EXCEPT ![j.loc] =
                      [pid |-> table[j.loc].pid,
                       buf |-> [table[j.loc].buf EXCEPT ![j.at] = entry]]]
      BY <1>2, <1>3, <3>1, StoreEntry
    <3> QED  BY <2>2, <3>2
  <2> QED  BY <2>1, <2>2
<1> HIDE DEF s
<1>7. /\ table' \in [TableSlots -> Slot] /\ table'[j.loc] = s
      /\ \A l \in TableSlots : l # j.loc => table'[l] = table[l]
  BY <1>2, <1>3, <1>5, <1>6
<1>8. /\ recycled \subseteq recycled' /\ recycled' \subseteq TableSlots
      /\ j.new /\ table[j.loc].pid # NoPid => j.loc \in recycled'
  <2>1. recycled \subseteq TableSlots  BY DEF TableInv, TypeOK
  <2> QED  BY <1>2, <2>1 DEF Mark
<1>9. /\ next_pid' \in [CPUs -> 0 .. P - 1]
      /\ \A d \in CPUs : d # c => next_pid'[d] = next_pid[d]
      /\ next_pid'[c] = IF j.new THEN (next_pid[c] + 1) % P ELSE next_pid[c]
  <2>1. next_pid \in [CPUs -> 0 .. P - 1] /\ next_pid[c] + 1 \in Int
    BY DEF TableInv, TypeOK
  <2>2. (next_pid[c] + 1) % P \in 0 .. P - 1  BY <2>1, Sizes, ModRange
  <2>3. CASE j.new
    <3>1. next_pid' = [next_pid EXCEPT ![c] = (@ + 1) % P]  BY <2>3 DEF Mark
    <3> QED  BY <2>1, <2>2, <2>3, <3>1
  <2>4. CASE ~j.new
    <3>1. next_pid' = next_pid  BY <2>4 DEF Mark
    <3> QED  BY <2>1, <2>4, <3>1
  <2> QED  BY <2>3, <2>4
<1>10. TypeOK'
  <2>1. hpc' \in [CPUs -> {"idle", "mark", "write", "publish"}]  BY <1>1 DEF TableInv, TypeOK
  <2> QED
    BY <1>1, <1>7, <1>8, <1>9, <2>1 DEF TableInv, TypeOK, Slot, Item, ringVars, thread, history
<1>11. hpc'[c] = "write" /\ \A d \in CPUs : d # c => hpc'[d] = hpc[d]
  BY <1>1 DEF TableInv, TypeOK
(* Another handler's slot that changes its process is in recycled.         *)
<1>12. JobInv'
  <2>1. ASSUME NEW d \in CPUs, d # c, hpc[d] = "mark" PROVE MayMark(d)'
    <3>1. job[d] \in Job /\ MayMark(d) /\ job[d].pid # NoPid /\ job[d].loc \in TableSlots
      BY <2>1, NamesAssumption DEF TableInv, JobInv, Job, NoPid
    <3>2. CASE job[d].new
      <4>1. ASSUME NEW q \in 0 .. P - 1 PROVE table'[<<d, q>>].pid # job[d].pid
        <5>1. table[<<d, q>>].pid # job[d].pid /\ <<d, q>> \in TableSlots
          BY <3>1, <3>2, InPart DEF MayMark
        <5>2. CASE <<d, q>> = j.loc
          <6>1. ~j.new
            <7>1. j.new => j.loc[1] = c  BY <1>2 DEF MayMark
            <7> QED  BY <2>1, <5>2, <7>1
          <6>2. table'[<<d, q>>].pid = table[<<d, q>>].pid  BY <1>5, <1>7, <5>2, <6>1
          <6> QED  BY <5>1, <6>2
        <5>3. CASE <<d, q>> # j.loc  BY <1>7, <5>1, <5>3
        <5> QED  BY <5>2, <5>3
      <4>2. job[d].loc = <<d, next_pid[d]>> /\ job[d].at = 0  BY <3>1, <3>2 DEF MayMark
      <4> QED  BY <1>1, <1>9, <2>1, <3>2, <4>1, <4>2 DEF MayMark
    <3>3. CASE ~job[d].new
      <4>1. job[d].loc \in recycled \/ table[job[d].loc].pid = job[d].pid
        BY <3>1, <3>3 DEF MayMark
      <4>2. job[d].loc \in recycled' \/ table'[job[d].loc].pid = job[d].pid
        BY <1>5, <1>7, <1>8, <3>1, <4>1
      <4> QED  BY <1>1, <3>3, <4>2 DEF MayMark
    <3> QED  BY <3>2, <3>3
  <2> QED  BY <1>1, <1>11, <2>1 DEF TableInv, JobInv, history
<1>13. FillInv'
  <2> SUFFICES ASSUME NEW d \in CPUs
               PROVE  \/ \A q \in 0 .. P - 1 : table'[<<d, q>>].pid # NoPid
                      \/ \A q \in 0 .. P - 1 : table'[<<d, q>>].pid # NoPid <=> q < next_pid'[d]
    BY DEF FillInv
  <2>1. \/ \A q \in 0 .. P - 1 : table[<<d, q>>].pid # NoPid
        \/ \A q \in 0 .. P - 1 : table[<<d, q>>].pid # NoPid <=> q < next_pid[d]
    BY DEF TableInv, FillInv
  <2>2. CASE ~j.new \/ d # c
    <3>1. \A q \in 0 .. P - 1 : table'[<<d, q>>].pid = table[<<d, q>>].pid
      <4> TAKE q \in 0 .. P - 1
      <4>1. <<d, q>> \in TableSlots  BY InPart
      <4>2. CASE ~j.new  BY <1>5, <1>7, <4>1, <4>2
      <4>3. CASE d # c /\ j.new
        <5>1. j.loc[1] = c  BY <1>2, <4>3 DEF MayMark
        <5>2. <<d, q>> # j.loc  BY <4>3, <5>1
        <5> QED  BY <1>7, <4>1, <5>2
      <4> QED  BY <2>2, <4>2, <4>3
    <3>2. next_pid'[d] = next_pid[d]  BY <1>9, <2>2
    <3> QED  BY <2>1, <3>1, <3>2
  <2>3. CASE j.new /\ d = c
    <3>1. j.loc = <<c, next_pid[c]>> /\ next_pid[c] \in 0 .. P - 1
      BY <1>2, <2>3 DEF MayMark, TableInv, TypeOK
    <3>2. \A q \in 0 .. P - 1 :
            table'[<<c, q>>].pid # NoPid <=> (q = next_pid[c] \/ table[<<c, q>>].pid # NoPid)
      <4> TAKE q \in 0 .. P - 1
      <4>1. <<c, q>> \in TableSlots  BY InPart
      <4>2. CASE q = next_pid[c]
        <5>1. table'[<<c, q>>].pid = j.pid  BY <1>5, <1>7, <2>3, <3>1, <4>2
        <5> QED  BY <1>2, <4>2, <5>1, NamesAssumption DEF NoPid
      <4>3. CASE q # next_pid[c]
        <5>1. <<c, q>> # j.loc  BY <3>1, <4>3
        <5> QED  BY <1>7, <4>1, <4>3, <5>1
      <4> QED  BY <4>2, <4>3
    <3>3. CASE \A q \in 0 .. P - 1 : table[<<c, q>>].pid # NoPid  BY <2>3, <3>2, <3>3
    <3>4. CASE \A q \in 0 .. P - 1 : table[<<c, q>>].pid # NoPid <=> q < next_pid[c]
      <4>1. \A q \in 0 .. P - 1 : table'[<<c, q>>].pid # NoPid <=> q <= next_pid[c]
        BY <3>1, <3>2, <3>4
      <4>2. CASE next_pid[c] = P - 1  BY <2>3, <4>1, <4>2, Sizes
      <4>3. CASE next_pid[c] # P - 1
        <5>1. next_pid[c] + 1 \in 0 .. P - 1  BY <3>1, <4>3, Sizes
        <5>2. (next_pid[c] + 1) % P = next_pid[c] + 1  BY <5>1, Sizes
        <5> QED  BY <1>9, <2>3, <3>1, <4>1, <5>1, <5>2
      <4> QED  BY <4>2, <4>3
    <3> QED  BY <2>1, <2>3, <3>3, <3>4
  <2> QED  BY <2>2, <2>3
<1>14. OneSlotPerPart'
  <2> SUFFICES ASSUME NEW l \in TableSlots, NEW m \in TableSlots, l[1] = m[1],
                      table'[l].pid = table'[m].pid, table'[l].pid # NoPid
               PROVE  l = m
    BY DEF OneSlotPerPart
  <2>1. CASE ~j.new
    <3>1. table'[l].pid = table[l].pid /\ table'[m].pid = table[m].pid  BY <1>5, <1>7, <2>1
    <3> QED  BY <3>1 DEF TableInv, OneSlotPerPart
  <2>2. CASE j.new
    <3>1. ASSUME NEW k \in TableSlots, k[1] = c PROVE table[k].pid # j.pid
      <4>1. k = <<c, k[2]>> /\ k[2] \in 0 .. P - 1  BY <3>1 DEF TableSlots
      <4> QED  BY <1>2, <2>2, <4>1 DEF MayMark
    <3>2. j.loc[1] = c  BY <1>2, <2>2 DEF MayMark
    <3>3. table'[j.loc].pid = j.pid  BY <1>5, <1>7, <2>2
    <3>4. CASE l = j.loc /\ m # j.loc
      <4>1. m[1] = c /\ table[m].pid = j.pid  BY <1>7, <3>2, <3>3, <3>4
      <4> QED  BY <3>1, <4>1
    <3>5. CASE m = j.loc /\ l # j.loc
      <4>1. l[1] = c /\ table[l].pid = j.pid  BY <1>7, <3>2, <3>3, <3>5
      <4> QED  BY <3>1, <4>1
    <3>6. CASE l # j.loc /\ m # j.loc
      <4>1. table'[l] = table[l] /\ table'[m] = table[m]  BY <1>7, <3>6
      <4> QED  BY <4>1 DEF TableInv, OneSlotPerPart
    <3> QED  BY <3>4, <3>5, <3>6
  <2> QED  BY <2>1, <2>2
<1>15. TableIsPublished'
  <2>1. ASSUME NEW p, NEW k, InFlight(p, k) PROVE InFlight(p, k)'
    BY <1>1, <1>11, <2>1 DEF InFlight
  <2>2. \A p, k : p = j.pid /\ k = j.code => InFlight(p, k)'  BY <1>1, <1>11 DEF InFlight
  <2> SUFFICES ASSUME NEW l \in TableSlots, l \notin recycled', NEW i \in 0 .. A - 1,
                      NEW p, NEW k, p = table'[l].pid, k = table'[l].buf[i].info,
                      table'[l].buf[i].num > 0
               PROVE  <<p, k>> \in known \/ InFlight(p, k)'
    BY <1>1 DEF TableIsPublished, history
  <2>3. l \notin recycled  BY <1>8
  <2>4. CASE table'[l].pid = table[l].pid /\ table'[l].buf[i] = table[l].buf[i]
    BY <2>1, <2>3, <2>4 DEF TableInv, TableIsPublished
  <2>5. CASE l # j.loc  BY <1>7, <2>4, <2>5
  <2>6. CASE l = j.loc /\ i = j.at
    <3>1. table'[l].buf[i].info = j.code  BY <1>5, <1>7, <2>6
    <3>2. table'[l].pid = j.pid
      <4>1. CASE j.new  BY <1>5, <1>7, <2>6, <4>1
      <4>2. CASE ~j.new
        <5>1. table[j.loc].pid = j.pid  BY <1>2, <2>3, <2>6, <4>2 DEF MayMark
        <5> QED  BY <1>5, <1>7, <2>6, <4>2, <5>1
      <4> QED  BY <4>1, <4>2
    <3> QED  BY <2>2, <3>1, <3>2
  <2>7. CASE l = j.loc /\ i # j.at
    <3>1. table'[l].buf[i] = table[l].buf[i]  BY <1>5, <1>7, <2>7
    <3>2. CASE j.new
      <4>1. table[l].pid = NoPid  BY <1>8, <2>7, <3>2
      <4>2. table[l].buf[i].num = 0  BY <2>3, <4>1, EmptySlot
      <4> QED  BY <3>1, <4>2
    <3>3. CASE ~j.new
      <4>1. table'[l].pid = table[l].pid  BY <1>5, <1>7, <2>7, <3>3
      <4> QED  BY <2>4, <3>1, <4>1
    <3> QED  BY <3>2, <3>3
  <2> QED  BY <2>5, <2>6, <2>7
<1> QED  BY <1>10, <1>12, <1>13, <1>14, <1>15 DEF TableInv

LEMMA PublishKeepsTable == ASSUME TableInv, NEW c \in CPUs, Publish(c) PROVE TableInv'
<1>1. /\ hpc[c] = "publish" /\ hpc' = [hpc EXCEPT ![c] = "idle"]
      /\ write_index' = [write_index EXCEPT ![c] = (@ + 1) % N]
      /\ pub' = [pub EXCEPT ![c] = @ + 1] /\ job' = [job EXCEPT ![c] = NoJob]
      /\ known' = known \cup {<<job[c].pid, job[c].code>>}
      /\ UNCHANGED <<read_index, slots, tableVars, thread, con>>
  BY DEF Publish
<1>2. job[c] \in Job /\ pub[c] < MaxRec /\ job[c].pid \in Pids /\ job[c].code \in Codes
  BY <1>1 DEF TableInv, JobInv, Job
<1>3. pub[c] + 1 \in 0 .. MaxRec
  <2>1. pub[c] \in 0 .. MaxRec  BY DEF TableInv, TypeOK
  <2> QED  BY <1>2, <2>1, Sizes
<1>4. (write_index[c] + 1) % N \in Index
  <2>1. write_index \in [CPUs -> Index]  BY DEF TableInv, TypeOK
  <2>2. write_index[c] \in 0 .. N - 1  BY <2>1 DEF Index
  <2>3. write_index[c] + 1 \in Int  BY <2>2, Sizes
  <2> QED  BY <2>3, Sizes, ModRange DEF Index
<1>5. TypeOK'
  <2>1. write_index' \in [CPUs -> Index]  BY <1>1, <1>4 DEF TableInv, TypeOK
  <2>2. pub' \in [CPUs -> 0 .. MaxRec]  BY <1>1, <1>3 DEF TableInv, TypeOK
  <2>3. hpc' \in [CPUs -> {"idle", "mark", "write", "publish"}]
    <3>1. hpc \in [CPUs -> {"idle", "mark", "write", "publish"}]  BY DEF TableInv, TypeOK
    <3> QED  BY <1>1, <3>1
  <2>4. known' \subseteq Pids \X Codes
    <3>1. known \subseteq Pids \X Codes  BY DEF TableInv, TypeOK
    <3> QED  BY <1>1, <1>2, <3>1
  <2> QED  BY <1>1, <2>1, <2>2, <2>3, <2>4 DEF TableInv, TypeOK, tableVars, thread
<1>6. /\ hpc'[c] = "idle"
      /\ \A d \in CPUs : d # c => hpc'[d] = hpc[d] /\ job'[d] = job[d] /\ pub'[d] = pub[d]
  BY <1>1 DEF TableInv, TypeOK, JobInv
<1>7. JobInv'
  <2>1. job' \in [CPUs -> Job \cup {NoJob}]  BY <1>1 DEF TableInv, JobInv
  <2>2. ASSUME NEW d \in CPUs, hpc'[d] # "idle"
        PROVE  job'[d] \in Job /\ pub'[d] < MaxRec /\ (hpc'[d] = "mark" => MayMark(d)')
    <3>1. d # c  BY <1>6, <2>2
    <3> QED  BY <1>1, <1>6, <2>2, <3>1 DEF TableInv, JobInv, MayMark, tableVars
  <2> QED  BY <2>1, <2>2 DEF JobInv
<1>8. FillInv'  BY <1>1 DEF TableInv, FillInv, tableVars
<1>9. OneSlotPerPart'  BY <1>1 DEF TableInv, OneSlotPerPart, tableVars
<1>10. TableIsPublished'
  <2>1. ASSUME NEW p, NEW k, InFlight(p, k) PROVE <<p, k>> \in known' \/ InFlight(p, k)'
    <3>1. PICK d \in CPUs : hpc[d] \in {"write", "publish"} /\ job[d].pid = p /\ job[d].code = k
      BY <2>1 DEF InFlight
    <3>2. CASE d = c  BY <1>1, <3>1, <3>2
    <3>3. CASE d # c  BY <1>6, <3>1, <3>3 DEF InFlight
    <3> QED  BY <3>2, <3>3
  <2> QED  BY <1>1, <2>1 DEF TableInv, TableIsPublished, tableVars
<1> QED  BY <1>5, <1>7, <1>8, <1>9, <1>10 DEF TableInv

LEMMA TableStutters == ASSUME TableInv, UNCHANGED vars PROVE TableInv'
<1>1. TypeOK'  BY DEF TableInv, TypeOK, vars
<1> QED  BY <1>1, TableKept DEF vars

LEMMA TableKeeps == TableInv /\ [Next]_vars => TableInv'
<1> SUFFICES ASSUME TableInv, [Next]_vars PROVE TableInv'  OBVIOUS
<1>1. CASE Thread  BY <1>1, ThreadKeepsTable
<1>2. ASSUME NEW c \in CPUs, Handler(c) PROVE TableInv'
  <2>1. ASSUME NEW pid \in Pids, NEW code \in Codes,
               Suppress(c, pid, code) \/ BeginCode(c, pid, code) \/ BeginPid(c, pid, code)
        PROVE  TableInv'
    BY <2>1, SuppressKeepsTable, BeginCodeKeepsTable, BeginPidKeepsTable
  <2> QED
    BY <1>2, <2>1, MarkKeepsTable, WriteSlotKeepsTable, PublishKeepsTable DEF Handler
<1> QED  BY <1>1, <1>2, TableStutters DEF Next

LEMMA TableInvariant == Spec => []TableInv
BY TableStarts, TableKeeps, PTL DEF Spec

(* Indices, entries and records in hand keep their types, however the      *)
(* handlers of all CPUs meet in the table (write_ring_buffer).             *)
THEOREM RingTypeCorrect == Spec => []TypeOK
<1>1. TableInv => TypeOK  BY DEF TableInv
<1> QED  BY <1>1, TableInvariant, PTL

(* With any interleaving of the handlers of all CPUs, a process has at most*)
(* one slot in each part of the table (write_ring_buffer).                 *)
THEOREM OneSlotForEach == Spec => []OneSlotPerPart
<1>1. TableInv => OneSlotPerPart  BY DEF TableInv
<1> QED  BY <1>1, TableInvariant, PTL

(* A code that is withheld from the ring was written to one, or is being   *)
(* written, unless its slot was taken over (write_ring_buffer).            *)
THEOREM WithheldWasWritten == Spec => []TableIsPublished
<1>1. TableInv => TableIsPublished  BY DEF TableInv
<1> QED  BY <1>1, TableInvariant, PTL

-----------------------------------------------------------------------------
(* The rings.  Division with remainder, in the form the provers use.       *)
LEMMA Quotient ==
  ASSUME NEW n \in Nat, n > 0, NEW k \in Nat
  PROVE  \E b \in 0 .. n - 1, p \in Nat : b = k % n /\ k = n * p + b
<1>1. k % n \in 0 .. n - 1 /\ k \div n \in Nat /\ k = n * (k \div n) + (k % n)  OBVIOUS
<1>2. PICK b \in 0 .. n - 1, p \in Nat : b = k % n /\ p = k \div n  BY <1>1
<1> QED  BY <1>1, <1>2

(* No multiple of n lies strictly between 0 and n.                         *)
LEMMA NoMultiple ==
  ASSUME NEW n \in Nat, n > 0, NEW d \in Int, 0 < n * d, n * d < n
  PROVE  FALSE
<1>1. CASE d <= 0
  <2>1. n * d <= 0  BY <1>1, Z3
  <2> QED  BY <2>1
<1>2. CASE d >= 1
  <2>1. n * d >= n  BY <1>2, Z3
  <2> QED  BY <2>1
<1> QED  BY <1>1, <1>2

(* The remainder is the only number below n that leaves a multiple of n.   *)
LEMMA ModUnique ==
  ASSUME NEW n \in Nat, n > 0, NEW k \in Nat, NEW q \in Int, NEW a \in 0 .. n - 1,
         k = n * q + a
  PROVE  k % n = a
<1>1. PICK b \in 0 .. n - 1, p \in Nat : b = k % n /\ k = n * p + b  BY Quotient
<1>2. a - b = n * (p - q) /\ b - a = n * (q - p)  BY <1>1
<1>3. a <= b  BY <1>2, NoMultiple
<1>4. b <= a  BY <1>2, NoMultiple
<1> QED  BY <1>1, <1>3, <1>4

(* The successor of a slot is the slot of the successor.                   *)
LEMMA ModSucc ==
  ASSUME NEW n \in Nat, n > 0, NEW k \in Nat
  PROVE  ((k % n) + 1) % n = (k + 1) % n
<1>1. PICK a \in 0 .. n - 1, p \in Nat : a = k % n /\ k = n * p + a  BY Quotient
<1>2. CASE a = n - 1
  <2>1. k + 1 = n * (p + 1) + 0  BY <1>1, <1>2
  <2>2. (k + 1) % n = 0  BY <2>1, ModUnique
  <2> QED  BY <1>1, <1>2, <2>2
<1>3. CASE a # n - 1
  <2>1. k + 1 = n * p + (a + 1) /\ a + 1 \in 0 .. n - 1  BY <1>1, <1>3
  <2>2. PICK b \in 0 .. n - 1 : b = a + 1  BY <2>1
  <2>3. k + 1 \in Nat /\ k + 1 = n * p + b /\ p \in Int  BY <2>1, <2>2
  <2>4. (k + 1) % n = b  BY <2>3, ModUnique
  <2> QED  BY <1>1, <2>2, <2>4
<1> QED  BY <1>2, <1>3

(* Two records less than one lap apart fall on different slots.            *)
LEMMA ModDistinct ==
  ASSUME NEW n \in Nat, n > 0, NEW j \in Nat, NEW k \in Nat, j < k, k < j + n
  PROVE  j % n # k % n
<1> SUFFICES ASSUME j % n = k % n PROVE FALSE  OBVIOUS
<1>1. PICK a \in 0 .. n - 1, p \in Nat : a = j % n /\ j = n * p + a  BY Quotient
<1>2. PICK b \in 0 .. n - 1, q \in Nat : b = k % n /\ k = n * q + b  BY Quotient
<1>3. k - j = n * (q - p)  BY <1>1, <1>2
<1> QED  BY <1>3, NoMultiple

-----------------------------------------------------------------------------
(* Steps of a handler that leave its ring alone.                           *)
LEMMA QuietHandler ==
  ASSUME TypeOK, NEW c \in CPUs, NEW pid \in Pids, NEW code \in Codes,
         Suppress(c, pid, code) \/ BeginCode(c, pid, code) \/ BeginPid(c, pid, code)
  PROVE  /\ UNCHANGED <<ringVars, thread, history>>
         /\ \A d \in CPUs : /\ hpc'[d] = "publish" => hpc[d] = "publish"
                            /\ hpc'[d] # "idle" => hpc[d] # "idle" \/ ~RingFull(d)
<1>1. hpc \in [CPUs -> {"idle", "mark", "write", "publish"}]  BY DEF TypeOK
<1>2. CASE Suppress(c, pid, code)  BY <1>2 DEF Suppress
<1>3. ASSUME NEW new, NEW loc, NEW at, Begin(c, pid, code, new, loc, at)
      PROVE  /\ UNCHANGED <<ringVars, thread, history>>
             /\ \A d \in CPUs : /\ hpc'[d] = "publish" => hpc[d] = "publish"
                                /\ hpc'[d] # "idle" => hpc[d] # "idle" \/ ~RingFull(d)
  BY <1>1, <1>3 DEF Begin
<1>4. CASE BeginCode(c, pid, code)  BY <1>3, <1>4 DEF BeginCode
<1>5. CASE BeginPid(c, pid, code)  BY <1>3, <1>5 DEF BeginPid
<1> QED  BY <1>2, <1>4, <1>5

LEMMA RecordTypes ==
  ASSUME TypeOK, NEW c \in CPUs
  PROVE  /\ read_index[c] \in -1 .. N - 1 /\ write_index[c] \in 0 .. N - 1
         /\ pub[c] \in Nat /\ con[c] \in Seq(0 .. MaxRec) /\ Got(c) \in Nat
         /\ slots[c] \in [Index -> 0 .. MaxRec]
<1>1. /\ read_index[c] \in -1 .. N - 1 /\ write_index[c] \in 0 .. N - 1
      /\ pub[c] \in 0 .. MaxRec /\ con[c] \in Seq(0 .. MaxRec)
      /\ slots[c] \in [Index -> 0 .. MaxRec]
  BY DEF TypeOK, Index
<1> QED  BY <1>1, Sizes DEF Got

LEMMA RecordStarts == Init => RecordInv
<1> SUFFICES ASSUME Init PROVE RecordInv  OBVIOUS
<1>1. \A c \in CPUs : Got(c) = 0 /\ pub[c] = 0 /\ write_index[c] = 0 /\ read_index[c] = -1
                      /\ hpc[c] = "idle"
  BY DEF Init, Got
<1>2. 0 % N = 0  BY Sizes
<1> QED  BY <1>1, <1>2 DEF RecordInv, IndexInv, WrittenInv, Init

(* A step that moves no index and copies no record.                        *)
LEMMA RecordKept ==
  ASSUME RecordInv, UNCHANGED <<ringVars, pub, con>>,
         \A d \in CPUs : hpc'[d] = "publish" => hpc[d] = "publish",
         tpc' = "copy" => tpc = "copy" /\ UNCHANGED <<tcpu, tr>>
  PROVE  RecordInv'
<1>1. IndexInv'  BY DEF RecordInv, IndexInv, Got, ringVars
<1>2. WrittenInv'  BY DEF RecordInv, WrittenInv, ringVars
<1> QED  BY <1>1, <1>2 DEF RecordInv

LEMMA WriteSlotKeepsRecords ==
  ASSUME TypeOK, RecordInv, NEW c \in CPUs, WriteSlot(c)
  PROVE  RecordInv'
<1>1. /\ hpc[c] = "write" /\ hpc' = [hpc EXCEPT ![c] = "publish"]
      /\ slots' = [slots EXCEPT ![c][write_index[c]] = pub[c] + 1]
      /\ UNCHANGED <<read_index, write_index, tableVars, job, thread, history>>
  BY DEF WriteSlot
<1>2. /\ slots \in [CPUs -> [Index -> 0 .. MaxRec]] /\ write_index[c] \in Index
      /\ write_index[c] = pub[c] % N /\ pub[c] \in Nat
  BY RecordTypes DEF TypeOK, RecordInv, IndexInv
<1>3. /\ \A d \in CPUs : d # c => slots'[d] = slots[d]
      /\ slots'[c][pub[c] % N] = pub[c] + 1
      /\ \A i \in Index : i # pub[c] % N => slots'[c][i] = slots[c][i]
  BY <1>1, <1>2
<1>4. IndexInv'  BY <1>1 DEF RecordInv, IndexInv, Got, thread, history
<1>5. \A d \in CPUs : d # c => (hpc'[d] = "publish" => hpc[d] = "publish")
  BY <1>1 DEF TypeOK
<1>6. ASSUME NEW j \in 1 .. pub[c], pub[c] - j < N - 1
      PROVE  slots'[c][(j - 1) % N] = j
  <2>1. PICK i \in Nat : i = j - 1  BY <1>2, <1>6
  <2>2. i \in Nat /\ pub[c] \in Nat /\ i < pub[c] /\ pub[c] < i + N
    BY <1>2, <1>6, <2>1, Sizes
  <2>3. i % N # pub[c] % N
    <3>1. N \in Nat /\ N > 0  BY Sizes
    <3> QED  BY ONLY <2>2, <3>1, ModDistinct
  <2>4. i % N \in Index  BY <2>1, Sizes, ModRange DEF Index
  <2>5. slots[c][i % N] = j  BY <1>6, <2>1 DEF RecordInv, WrittenInv
  <2> QED  BY <1>3, <2>1, <2>3, <2>4, <2>5
<1>7. WrittenInv'
  <2> SUFFICES ASSUME NEW d \in CPUs
               PROVE  /\ \A j \in 1 .. pub[d] : pub[d] - j < N - 1 => slots'[d][(j - 1) % N] = j
                      /\ hpc'[d] = "publish" => slots'[d][pub[d] % N] = pub[d] + 1
    BY <1>1 DEF WrittenInv, history
  <2>1. CASE d = c  BY <1>3, <1>6, <2>1
  <2>2. CASE d # c  BY <1>3, <1>5, <2>2 DEF RecordInv, WrittenInv
  <2> QED  BY <2>1, <2>2
<1> QED  BY <1>4, <1>7 DEF RecordInv

LEMMA PublishKeepsRecords ==
  ASSUME TypeOK, RecordInv, NEW c \in CPUs, Publish(c)
  PROVE  RecordInv'
<1>1. /\ hpc[c] = "publish" /\ hpc' = [hpc EXCEPT ![c] = "idle"]
      /\ write_index' = [write_index EXCEPT ![c] = (@ + 1) % N]
      /\ pub' = [pub EXCEPT ![c] = @ + 1]
      /\ UNCHANGED <<read_index, slots, tableVars, thread, con>>
  BY DEF Publish
<1>2. /\ write_index \in [CPUs -> Index] /\ pub \in [CPUs -> 0 .. MaxRec]
      /\ hpc \in [CPUs -> {"idle", "mark", "write", "publish"}]
  BY DEF TypeOK
<1>3. /\ pub'[c] = pub[c] + 1 /\ write_index'[c] = (write_index[c] + 1) % N /\ hpc'[c] = "idle"
      /\ \A d \in CPUs : d # c => pub'[d] = pub[d] /\ write_index'[d] = write_index[d]
                                  /\ hpc'[d] = hpc[d]
  BY <1>1, <1>2
<1>4. pub[c] \in Nat /\ write_index[c] = pub[c] % N  BY RecordTypes DEF RecordInv, IndexInv
<1>5. write_index'[c] = (pub[c] + 1) % N
  <2>1. N \in Nat /\ N > 0 /\ pub[c] \in Nat  BY <1>4, Sizes
  <2>2. ((pub[c] % N) + 1) % N = (pub[c] + 1) % N  BY ONLY <2>1, ModSucc
  <2> QED  BY <1>3, <1>4, <2>2
<1>6. \A d \in CPUs : Got(d)' = Got(d) /\ Got(d) \in Nat /\ pub[d] \in Nat
  BY <1>1, RecordTypes DEF Got
<1>7. IndexInv'
  <2>1. ASSUME NEW d \in CPUs
        PROVE  /\ write_index'[d] = pub'[d] % N /\ Got(d)' <= pub'[d]
               /\ read_index'[d] = IF Got(d)' = 0 THEN -1 ELSE (Got(d)' - 1) % N
    BY <1>1, <1>3, <1>5, <1>6 DEF RecordInv, IndexInv
  <2>2. ASSUME tpc' = "copy" PROVE tr' = Got(tcpu)' % N /\ Got(tcpu)' < pub'[tcpu']
    <3>1. tpc = "copy" /\ tr' = tr /\ tcpu' = tcpu /\ tcpu \in CPUs
      BY <1>1, <2>2 DEF thread, TypeOK
    <3>2. tr = Got(tcpu) % N /\ Got(tcpu) < pub[tcpu]  BY <3>1 DEF RecordInv, IndexInv
    <3>3. Got(tcpu)' = Got(tcpu)  BY <1>1, <3>1 DEF Got
    <3>4. CASE tcpu = c  BY <1>3, <1>6, <3>1, <3>2, <3>3, <3>4
    <3>5. CASE tcpu # c  BY <1>3, <3>1, <3>2, <3>3, <3>5
    <3> QED  BY <3>4, <3>5
  <2> QED  BY <2>1, <2>2 DEF IndexInv
<1>8. WrittenInv'
  <2> SUFFICES ASSUME NEW d \in CPUs
               PROVE  /\ \A j \in 1 .. pub'[d] :
                           pub'[d] - j < N - 1 => slots'[d][(j - 1) % N] = j
                      /\ hpc'[d] = "publish" => slots'[d][pub'[d] % N] = pub'[d] + 1
    BY DEF WrittenInv
  <2>1. CASE d # c  BY <1>1, <1>3, <2>1 DEF RecordInv, WrittenInv
  <2>2. CASE d = c
    <3>1. ASSUME NEW j \in 1 .. pub[c] + 1, pub[c] + 1 - j < N - 1
          PROVE  slots[c][(j - 1) % N] = j
      <4>1. CASE j = pub[c] + 1
        <5>1. slots[c][pub[c] % N] = pub[c] + 1  BY <1>1 DEF RecordInv, WrittenInv
        <5>2. j - 1 = pub[c]  BY <1>4, <4>1
        <5> QED  BY <4>1, <5>1, <5>2
      <4>2. CASE j # pub[c] + 1
        <5>1. j \in 1 .. pub[c] /\ pub[c] - j < N - 1  BY <1>4, <3>1, <4>2, Sizes
        <5> QED  BY <5>1 DEF RecordInv, WrittenInv
      <4> QED  BY <4>1, <4>2
    <3>2. pub'[d] = pub[c] + 1 /\ slots'[d] = slots[c] /\ hpc'[d] # "publish"
      BY <1>1, <1>3, <2>2
    <3>3. ASSUME NEW j \in 1 .. pub'[d], pub'[d] - j < N - 1
          PROVE  slots'[d][(j - 1) % N] = j
      <4>1. j \in 1 .. pub[c] + 1 /\ pub[c] + 1 - j < N - 1  BY <1>4, <3>2, <3>3, Sizes
      <4>2. slots[c][(j - 1) % N] = j  BY <3>1, <4>1
      <4> QED  BY <3>2, <4>2
    <3> QED  BY <3>2, <3>3
  <2> QED  BY <2>1, <2>2
<1> QED  BY <1>7, <1>8 DEF RecordInv

LEMMA LookKeepsRecords == ASSUME TypeOK, RecordInv, Look PROVE RecordInv'
<1>1. /\ ~RingEmpty(tcpu) /\ tr' = (read_index[tcpu] + 1) % N /\ tcpu \in CPUs
      /\ UNCHANGED <<ringVars, tableVars, hpc, job, tcpu, history>>
  BY DEF Look, TypeOK
<1>2. Got(tcpu) \in Nat /\ pub[tcpu] \in Nat /\ Got(tcpu) <= pub[tcpu]
      /\ write_index[tcpu] = pub[tcpu] % N
  BY <1>1, RecordTypes DEF RecordInv, IndexInv
<1>3. tr' = Got(tcpu) % N
  <2>1. read_index[tcpu] = IF Got(tcpu) = 0 THEN -1 ELSE (Got(tcpu) - 1) % N
    BY <1>1 DEF RecordInv, IndexInv
  <2>2. CASE Got(tcpu) = 0  BY <1>1, <2>1, <2>2
  <2>3. CASE Got(tcpu) # 0
    <3>1. PICK i \in Nat : i = Got(tcpu) - 1  BY <1>2, <2>3
    <3>2. i \in Nat  BY <3>1
    <3>3. ((i % N) + 1) % N = (i + 1) % N
      <4>1. N \in Nat /\ N > 0  BY Sizes
      <4> QED  BY ONLY <3>2, <4>1, ModSucc
    <3>4. i + 1 = Got(tcpu)  BY <1>2, <3>1
    <3> QED  BY <1>1, <2>1, <2>3, <3>1, <3>3, <3>4
  <2> QED  BY <2>2, <2>3
<1>4. Got(tcpu) < pub[tcpu]  BY <1>1, <1>2, <1>3 DEF RingEmpty
<1>5. \A c \in CPUs : Got(c)' = Got(c)  BY <1>1 DEF Got, history
<1>6. IndexInv'
  <2>1. tr' = Got(tcpu)' % N /\ Got(tcpu)' < pub'[tcpu']
    BY <1>1, <1>3, <1>4, <1>5 DEF Got, history
  <2> QED  BY <1>1, <1>5, <2>1 DEF RecordInv, IndexInv, ringVars, history
<1>7. WrittenInv'  BY <1>1 DEF RecordInv, WrittenInv, ringVars, history
<1> QED  BY <1>6, <1>7 DEF RecordInv

LEMMA ConsumeKeepsRecords == ASSUME TypeOK, RecordInv, Consume PROVE RecordInv'
<1>1. /\ tpc = "copy" /\ tpc' = "idle" /\ tcpu \in CPUs
      /\ con' = [con EXCEPT ![tcpu] = Append(@, slots[tcpu][tr])]
      /\ read_index' = [read_index EXCEPT ![tcpu] = tr]
      /\ UNCHANGED <<write_index, slots, tableVars, hpc, job, tcpu, tr, pub, known>>
  BY DEF Consume, TypeOK
<1>2. Got(tcpu) \in Nat /\ con[tcpu] \in Seq(0 .. MaxRec) /\ slots[tcpu][tr] \in 0 .. MaxRec
      /\ tr = Got(tcpu) % N /\ Got(tcpu) < pub[tcpu] /\ pub[tcpu] \in Nat
  BY <1>1, RecordTypes DEF RecordInv, IndexInv, TypeOK
<1>3. read_index \in [CPUs -> -1 .. N - 1] /\ con \in [CPUs -> Seq(0 .. MaxRec)]
  BY DEF TypeOK
<1>4. con'[tcpu] = Append(con[tcpu], slots[tcpu][tr]) /\ read_index'[tcpu] = tr
      /\ \A c \in CPUs : c # tcpu => con'[c] = con[c] /\ read_index'[c] = read_index[c]
  BY <1>1, <1>3
<1>5. Len(con'[tcpu]) = Got(tcpu) + 1  BY <1>2, <1>4 DEF Got
<1>6. IndexInv'
  <2> SUFFICES ASSUME NEW c \in CPUs
               PROVE  /\ write_index'[c] = pub'[c] % N /\ Len(con'[c]) <= pub'[c]
                      /\ read_index'[c] = IF Len(con'[c]) = 0 THEN -1
                                          ELSE (Len(con'[c]) - 1) % N
    BY <1>1 DEF IndexInv, Got
  <2>1. write_index[c] = pub[c] % N  BY DEF RecordInv, IndexInv
  <2>2. CASE c = tcpu
    <3>1. Len(con'[c]) - 1 = Got(tcpu) /\ Len(con'[c]) # 0  BY <1>2, <1>5, <2>2
    <3>2. Len(con'[c]) <= pub[c]  BY <1>2, <1>5, <2>2
    <3> QED  BY <1>1, <1>2, <1>4, <2>1, <2>2, <3>1, <3>2
  <2>3. CASE c # tcpu
    <3>1. con'[c] = con[c] /\ read_index'[c] = read_index[c]  BY <1>4, <2>3
    <3> QED  BY <1>1, <3>1 DEF RecordInv, IndexInv, Got
  <2> QED  BY <2>2, <2>3
<1>7. WrittenInv'  BY <1>1 DEF RecordInv, WrittenInv
<1> QED  BY <1>6, <1>7 DEF RecordInv

LEMMA NextCpuKeepsRecords == ASSUME TypeOK, RecordInv, NextCpu PROVE RecordInv'
<1>1. /\ UNCHANGED <<ringVars, pub, con, hpc>> /\ tpc' = "idle"  BY DEF NextCpu, history
<1> QED  BY <1>1, RecordKept

LEMMA RecordKeeps ==
  ASSUME TypeOK, RecordInv, [Next]_vars
  PROVE  RecordInv'
<1>1. CASE Thread
  BY <1>1, LookKeepsRecords, ConsumeKeepsRecords, NextCpuKeepsRecords DEF Thread
<1>2. ASSUME NEW c \in CPUs, Handler(c) PROVE RecordInv'
  <2>1. ASSUME NEW pid \in Pids, NEW code \in Codes,
               Suppress(c, pid, code) \/ BeginCode(c, pid, code) \/ BeginPid(c, pid, code)
        PROVE  RecordInv'
    BY <2>1, QuietHandler, RecordKept DEF thread, history
  <2>2. CASE Mark(c)
    <3>1. /\ hpc[c] = "mark" /\ hpc' = [hpc EXCEPT ![c] = "write"]
          /\ UNCHANGED <<ringVars, thread, history>>
      BY <2>2 DEF Mark
    <3>2. \A d \in CPUs : hpc'[d] = "publish" => hpc[d] = "publish"  BY <3>1 DEF TypeOK
    <3> QED  BY <3>1, <3>2, RecordKept DEF thread, history
  <2> QED
    BY <1>2, <2>1, <2>2, WriteSlotKeepsRecords, PublishKeepsRecords DEF Handler
<1>3. CASE UNCHANGED vars  BY <1>3, RecordKept DEF vars, ringVars
<1> QED  BY <1>1, <1>2, <1>3 DEF Next

LEMMA RecordInvariant == Spec => [](TypeOK /\ RecordInv)
<1>1. TableInv => TypeOK  BY DEF TableInv
<1>2. TypeOK /\ RecordInv /\ [Next]_vars => RecordInv'  BY RecordKeeps
<1> QED  BY <1>1, <1>2, TableInvariant, RecordStarts, PTL DEF Spec

-----------------------------------------------------------------------------
LEMMA Lap == ASSUME NEW k \in Nat PROVE \E p \in Nat : k = N * p + (k % N)
<1>1. N \in Nat /\ N > 0  BY Sizes
<1>2. PICK b \in 0 .. N - 1, p \in Nat : b = k % N /\ k = N * p + b
   BY ONLY <1>1, k \in Nat, Quotient
<1>3. k = N * p + (k % N)  BY <1>2
<1> QED  BY <1>2, <1>3

(* What a settled ring holds for the thread.                               *)
LEMMA PendingIs ==
  ASSUME TypeOK, NEW c \in CPUs, Settled(c)
  PROVE  /\ Pending(c) = IF read_index[c] < write_index[c]
                         THEN write_index[c] - read_index[c] - 1
                         ELSE write_index[c] - read_index[c] - 1 + N
         /\ Pending(c) \in 0 .. N - 2
         /\ RingFull(c) <=> Pending(c) = N - 2
         /\ RingEmpty(c) <=> Pending(c) = 0
<1>1. /\ read_index[c] \in 0 .. N - 1 /\ write_index[c] \in 0 .. N - 1
      /\ read_index[c] # write_index[c]
  BY RecordTypes DEF Settled
<1>2. /\ (write_index[c] + 1) % N = IF write_index[c] = N - 1 THEN 0 ELSE write_index[c] + 1
      /\ (read_index[c] + 1) % N = IF read_index[c] = N - 1 THEN 0 ELSE read_index[c] + 1
  BY <1>1, Sizes
<1>3. CASE read_index[c] < write_index[c]
  <2>1. Pending(c) = write_index[c] - read_index[c] - 1  BY <1>1, <1>3, Sizes DEF Pending
  <2>2. RingFull(c) <=> Pending(c) = N - 2  BY <1>1, <1>2, <1>3, <2>1, Sizes DEF RingFull
  <2>3. RingEmpty(c) <=> Pending(c) = 0  BY <1>1, <1>2, <1>3, <2>1, Sizes DEF RingEmpty
  <2> QED  BY <1>1, <1>3, <2>1, <2>2, <2>3, Sizes
<1>4. CASE write_index[c] < read_index[c]
  <2>1. Pending(c) = write_index[c] - read_index[c] - 1 + N  BY <1>1, <1>4, Sizes DEF Pending
  <2> QED  BY <1>1, <1>2, <1>4, <2>1, Sizes DEF RingFull, RingEmpty
<1> QED  BY <1>1, <1>3, <1>4

(* No more waits than was published, and the next record the thread copies *)
(* is the one after those that are gone.                                   *)
LEMMA NextIsAfterGone ==
  ASSUME TypeOK, RecordInv, NEW c \in CPUs, Settled(c)
  PROVE  /\ Gone(c) \in Nat
         /\ Gone(c) % N = (read_index[c] + 1) % N
<1> DEFINE r == read_index[c]
           w == write_index[c]
           d == Pending(c)
<1>1. r \in 0 .. N - 1 /\ w \in 0 .. N - 1 /\ r # w  BY RecordTypes DEF Settled
<1>2. d = IF r < w THEN w - r - 1 ELSE w - r - 1 + N  BY PendingIs
<1>3. /\ pub[c] \in Nat /\ Got(c) \in Nat /\ Got(c) <= pub[c] /\ Got(c) # 0
      /\ pub[c] % N = w /\ (Got(c) - 1) % N = r
  BY <1>1, RecordTypes DEF RecordInv, IndexInv, Settled
<1>4. PICK p \in Nat : pub[c] = N * p + w
  <2>1. PICK p \in Nat : pub[c] = N * p + (pub[c] % N)  BY <1>3, Lap
  <2> QED  BY <1>3, <2>1
<1>5. PICK g \in Nat : Got(c) = N * g + r + 1
  <2>1. PICK k \in Nat : k = Got(c) - 1  BY <1>3
  <2>2. k \in Nat /\ k % N = r  BY <1>3, <2>1
  <2>3. PICK g \in Nat : k = N * g + (k % N)  BY <2>2, Lap
  <2>4. Got(c) = k + 1 /\ k = N * g + r  BY <1>3, <2>1, <2>2, <2>3
  <2>5. Got(c) = N * g + r + 1  BY ONLY <1>1, <2>1, <2>3, <2>4, Sizes
  <2> QED  BY <2>3, <2>5
<1> HIDE DEF r, w, d
<1>6. d <= pub[c]
  <2>1. CASE r < w  BY <1>1, <1>2, <1>3, <1>4, <2>1, Sizes
  <2>2. CASE w < r
    <3>1. CASE p = 0  BY <1>1, <1>3, <1>4, <1>5, <2>2, <3>1, Sizes
    <3>2. CASE p >= 1
      <4>1. N * p >= N  BY <3>2, Sizes, Z3
      <4> QED  BY <1>1, <1>2, <1>3, <1>4, <2>2, <4>1, Sizes
    <3> QED  BY <1>4, <3>1, <3>2
  <2> QED  BY <1>1, <2>1, <2>2, Sizes
<1>7. PICK k \in Nat : k = pub[c] - d  BY <1>1, <1>2, <1>3, <1>6, Sizes
<1>8. k % N = (r + 1) % N
  <2>1. CASE r < w
    <3>1. k = N * p + (r + 1)  BY <1>1, <1>2, <1>3, <1>4, <1>7, <2>1, Sizes
    <3>2. PICK a \in 0 .. N - 1 : a = r + 1  BY <1>1, <2>1, Sizes
    <3>3. k \in Nat /\ p \in Int /\ a \in 0 .. N - 1 /\ k = N * p + a  BY <1>4, <1>7, <3>1, <3>2
    <3>4. k % N = a  BY <3>3, Sizes, ModUnique
    <3> QED  BY <3>2, <3>4, Sizes
  <2>2. CASE w < r /\ r # N - 1
    <3>1. k = N * (p - 1) + (r + 1)  BY <1>1, <1>2, <1>3, <1>4, <1>7, <2>2, Sizes
    <3>2. PICK a \in 0 .. N - 1 : a = r + 1  BY <1>1, <2>2, Sizes
    <3>3. PICK q \in Int : q = p - 1  BY <1>4
    <3>4. k \in Nat /\ q \in Int /\ a \in 0 .. N - 1 /\ k = N * q + a
      BY <1>7, <3>1, <3>2, <3>3
    <3>5. k % N = a  BY <3>4, Sizes, ModUnique
    <3> QED  BY <3>2, <3>5, Sizes
  <2>3. CASE w < r /\ r = N - 1
    <3>1. k = N * p + 0  BY <1>1, <1>2, <1>3, <1>4, <1>7, <2>3, Sizes
    <3>2. PICK a \in 0 .. N - 1 : a = 0  BY Sizes
    <3>3. k \in Nat /\ p \in Int /\ a \in 0 .. N - 1 /\ k = N * p + a  BY <1>4, <1>7, <3>1, <3>2
    <3>4. k % N = a  BY <3>3, Sizes, ModUnique
    <3> QED  BY <2>3, <3>2, <3>4, Sizes
  <2> QED  BY <1>1, <2>1, <2>2, <2>3, Sizes
<1> QED  BY <1>7, <1>8 DEF Gone, r, d

-----------------------------------------------------------------------------
(* Steps and a settled ring: steps that leave its indices and records      *)
(* alone, a read, and a write.                                             *)
LEMMA StaysSettled ==
  ASSUME TypeOK, NEW c \in CPUs, Settled(c),
         UNCHANGED <<read_index[c], write_index[c], pub[c], con[c]>>,
         Reading(c)' => Reading(c) \/ ~RingEmpty(c),
         hpc'[c] # "idle" => hpc[c] # "idle" \/ ~RingFull(c)
  PROVE  Settled(c)' /\ Gone(c)' = Gone(c) /\ con'[c] = con[c]
<1>1. Pending(c)' = Pending(c) /\ (RingFull(c)' <=> RingFull(c))  BY DEF Pending, RingFull
<1>2. Reading(c)' => Pending(c) > 0  BY PendingIs, Sizes DEF Settled
<1> QED  BY <1>1, <1>2 DEF Settled, Gone

LEMMA ReadKeeps ==
  ASSUME TypeOK, TypeOK', RecordInv, NEW c \in CPUs, Settled(c), Consume, tcpu = c
  PROVE  Settled(c)' /\ Gone(c)' = Gone(c) + 1 /\ con'[c] = Append(con[c], Gone(c) + 1)
<1>1. /\ tpc = "copy" /\ tpc' = "idle"
      /\ con' = [con EXCEPT ![c] = Append(@, slots[c][tr])]
      /\ read_index' = [read_index EXCEPT ![c] = tr]
      /\ UNCHANGED <<write_index, slots, hpc, tcpu, tr, pub>>
  BY DEF Consume
<1>2. con'[c] = Append(con[c], slots[c][tr]) /\ read_index'[c] = tr
  BY <1>1 DEF TypeOK
<1>3. /\ read_index[c] \in 0 .. N - 1 /\ write_index[c] \in 0 .. N - 1
      /\ read_index[c] # write_index[c]
      /\ Pending(c) > 0 /\ (hpc[c] # "idle" => Pending(c) # N - 2)
  BY <1>1, RecordTypes, PendingIs DEF Settled, Reading
<1>4. /\ Pending(c) = IF read_index[c] < write_index[c]
                      THEN write_index[c] - read_index[c] - 1
                      ELSE write_index[c] - read_index[c] - 1 + N
      /\ Pending(c) \in 0 .. N - 2
  BY PendingIs
<1>5. tr = (read_index[c] + 1) % N
  <2>1. /\ tr = Got(c) % N /\ Got(c) \in Nat
        /\ read_index[c] = IF Got(c) = 0 THEN -1 ELSE (Got(c) - 1) % N
    BY <1>1, RecordTypes DEF RecordInv, IndexInv
  <2>2. PICK k \in Nat : k = Got(c) - 1  BY <1>3, <2>1
  <2>3. k \in Nat /\ N \in Nat /\ N > 0  BY <2>2, Sizes
  <2>4. ((k % N) + 1) % N = (k + 1) % N  BY ONLY <2>3, ModSucc
  <2>5. k + 1 = Got(c) /\ k % N = read_index[c]  BY <1>3, <2>1, <2>2
  <2> QED  BY <2>1, <2>4, <2>5
<1>6. tr = IF read_index[c] = N - 1 THEN 0 ELSE read_index[c] + 1  BY <1>3, <1>5, Sizes
<1>7. tr \in 0 .. N - 1 /\ tr # write_index[c]  BY <1>3, <1>4, <1>6, Sizes
<1>8. slots[c][tr] = Gone(c) + 1
  <2>1. PICK k \in Nat : k = Gone(c)  BY NextIsAfterGone
  <2>2. k % N = tr  BY <1>5, <2>1, NextIsAfterGone
  <2>3. pub[c] \in Nat /\ k = pub[c] - Pending(c)  BY <2>1, RecordTypes DEF Gone
  <2>4. k + 1 \in 1 .. pub[c] /\ pub[c] - (k + 1) < N - 1 /\ (k + 1) - 1 = k
    BY <1>3, <1>4, <2>1, <2>3, Sizes
  <2>5. slots[c][((k + 1) - 1) % N] = k + 1  BY <2>4 DEF RecordInv, WrittenInv
  <2> QED  BY <2>1, <2>2, <2>4, <2>5
<1>9. Pending(c)' = Pending(c) - 1
  <2>1. Pending(c)' = (write_index[c] - tr - 1) % N  BY <1>1, <1>2 DEF Pending
  <2>2. CASE tr < write_index[c]
    <3>1. write_index[c] - tr - 1 \in 0 .. N - 1  BY <1>3, <1>7, <2>2, Sizes
    <3>2. (write_index[c] - tr - 1) % N = write_index[c] - tr - 1  BY <3>1, Sizes
    <3> QED  BY <1>3, <1>4, <1>6, <2>1, <2>2, <3>2, Sizes
  <2>3. CASE write_index[c] < tr
    <3>1. (write_index[c] - tr - 1) % N = write_index[c] - tr - 1 + N
      BY <1>3, <1>7, <2>3, Sizes
    <3> QED  BY <1>3, <1>4, <1>6, <2>1, <2>3, <3>1, Sizes
  <2> QED  BY <1>3, <1>7, <2>2, <2>3
<1>10. Gone(c)' = Gone(c) + 1
  <2>1. pub[c] \in Nat /\ pub'[c] = pub[c]  BY <1>1, RecordTypes
  <2> QED  BY <1>4, <1>9, <2>1 DEF Gone
<1>11. Settled(c)'
  <2>1. RingFull(c)' <=> (write_index[c] + 1) % N = tr  BY <1>1, <1>2 DEF RingFull
  <2>2. (write_index[c] + 1) % N = IF write_index[c] = N - 1 THEN 0 ELSE write_index[c] + 1
    BY <1>3, Sizes
  <2>3. ~RingFull(c)'  BY <1>3, <1>4, <1>6, <1>7, <2>1, <2>2, Sizes
  <2>4. ~Reading(c)'  BY <1>1 DEF Reading
  <2> QED  BY <1>1, <1>2, <1>7, <2>3, <2>4 DEF Settled
<1> QED  BY <1>2, <1>8, <1>10, <1>11

LEMMA PublishKeeps ==
  ASSUME TypeOK, NEW c \in CPUs, Settled(c), Publish(c)
  PROVE  Settled(c)' /\ Gone(c)' = Gone(c) /\ con'[c] = con[c]
<1>1. /\ hpc[c] = "publish" /\ hpc' = [hpc EXCEPT ![c] = "idle"]
      /\ write_index' = [write_index EXCEPT ![c] = (@ + 1) % N]
      /\ pub' = [pub EXCEPT ![c] = @ + 1]
      /\ UNCHANGED <<read_index, thread, con>>
  BY DEF Publish
<1>2. hpc'[c] = "idle" /\ write_index'[c] = (write_index[c] + 1) % N /\ pub'[c] = pub[c] + 1
  BY <1>1 DEF TypeOK
<1>3. /\ read_index[c] \in 0 .. N - 1 /\ write_index[c] \in 0 .. N - 1
      /\ read_index[c] # write_index[c] /\ pub[c] \in Nat
      /\ ~RingFull(c) /\ Pending(c) # N - 2
  BY <1>1, RecordTypes, PendingIs DEF Settled
<1>4. /\ Pending(c) = IF read_index[c] < write_index[c]
                      THEN write_index[c] - read_index[c] - 1
                      ELSE write_index[c] - read_index[c] - 1 + N
      /\ Pending(c) \in 0 .. N - 2
  BY PendingIs
<1>5. PICK w \in 0 .. N - 1 : /\ w = write_index'[c] /\ w # read_index[c]
                             /\ w = IF write_index[c] = N - 1 THEN 0 ELSE write_index[c] + 1
  BY <1>2, <1>3, Sizes DEF RingFull
<1>6. Pending(c)' = Pending(c) + 1
  <2>1. Pending(c)' = (w - read_index[c] - 1) % N  BY <1>1, <1>5 DEF Pending
  <2>2. CASE read_index[c] < w
    <3>1. w - read_index[c] - 1 \in 0 .. N - 1  BY <1>3, <1>5, <2>2, Sizes
    <3>2. (w - read_index[c] - 1) % N = w - read_index[c] - 1  BY <3>1, Sizes
    <3> QED  BY <1>3, <1>4, <1>5, <2>1, <2>2, <3>2, Sizes
  <2>3. CASE w < read_index[c]
    <3>1. PICK x \in Int : x = w - read_index[c] - 1  BY <1>3, <1>5
    <3>2. x \in -N .. -2  BY <1>3, <1>5, <2>3, <3>1, Sizes
    <3>3. x % N = x + N  BY <3>2, Sizes
    <3> QED  BY <1>3, <1>4, <1>5, <2>1, <2>3, <3>1, <3>3, Sizes
  <2> QED  BY <1>3, <1>5, <2>2, <2>3
<1>7. Gone(c)' = Gone(c)  BY <1>2, <1>3, <1>4, <1>6 DEF Gone
<1>8. Settled(c)'
  <2>1. Pending(c)' > 0  BY <1>4, <1>6
  <2> QED  BY <1>1, <1>2, <1>3, <1>5, <2>1 DEF Settled
<1> QED  BY <1>1, <1>7, <1>8

LEMMA StepKeepsAll ==
  ASSUME TypeOK, TypeOK', RecordInv, [Next]_vars
  PROVE  KeepsAll
<1> SUFFICES ASSUME NEW c \in CPUs, Settled(c)
             PROVE  /\ Settled(c)'
                    /\ \/ Gone(c)' = Gone(c) /\ UNCHANGED con[c]
                       \/ Gone(c)' = Gone(c) + 1 /\ con'[c] = Append(con[c], Gone(c) + 1)
  BY DEF KeepsAll
<1>1. CASE Look
  <2>1. /\ UNCHANGED <<ringVars, hpc, history, tcpu>> /\ ~RingEmpty(tcpu)
    BY <1>1 DEF Look
  <2>2. Reading(c)' => ~RingEmpty(c)  BY <2>1 DEF Reading
  <2> QED  BY <2>1, <2>2, StaysSettled DEF ringVars, history
<1>2. CASE Consume
  <2>1. CASE tcpu = c  BY <1>2, <2>1, ReadKeeps
  <2>2. CASE tcpu # c
    <3>1. /\ read_index' = [read_index EXCEPT ![tcpu] = tr] /\ tpc' = "idle"
          /\ con' = [con EXCEPT ![tcpu] = Append(@, slots[tcpu][tr])]
          /\ UNCHANGED <<write_index, hpc, pub>>
      BY <1>2 DEF Consume
    <3>2. read_index'[c] = read_index[c] /\ con'[c] = con[c] /\ ~Reading(c)'
      BY <2>2, <3>1 DEF TypeOK, Reading
    <3> QED  BY <3>1, <3>2, StaysSettled
  <2> QED  BY <2>1, <2>2
<1>3. CASE NextCpu
  <2>1. UNCHANGED <<ringVars, hpc, history>> /\ tpc' = "idle"  BY <1>3 DEF NextCpu
  <2> QED  BY <2>1, StaysSettled DEF ringVars, history, Reading
<1>4. ASSUME NEW d \in CPUs, Handler(d)
      PROVE  Settled(c)' /\ \/ Gone(c)' = Gone(c) /\ UNCHANGED con[c]
                            \/ Gone(c)' = Gone(c) + 1 /\ con'[c] = Append(con[c], Gone(c) + 1)
  <2>1. ASSUME UNCHANGED <<ringVars, thread, history>>,
               hpc'[c] # "idle" => hpc[c] # "idle" \/ ~RingFull(c)
        PROVE  Settled(c)' /\ Gone(c)' = Gone(c) /\ con'[c] = con[c]
    <3>1. Reading(c)' => Reading(c)  BY <2>1 DEF Reading, thread
    <3> QED  BY <2>1, <3>1, StaysSettled DEF ringVars, history
  <2>2. ASSUME NEW pid \in Pids, NEW code \in Codes,
               Suppress(d, pid, code) \/ BeginCode(d, pid, code) \/ BeginPid(d, pid, code)
        PROVE  Settled(c)' /\ Gone(c)' = Gone(c) /\ con'[c] = con[c]
    BY <2>1, <2>2, QuietHandler
  <2>3. CASE Mark(d)
    <3>1. /\ hpc[d] = "mark" /\ hpc' = [hpc EXCEPT ![d] = "write"]
          /\ UNCHANGED <<ringVars, thread, history>>
      BY <2>3 DEF Mark
    <3>2. hpc'[c] # "idle" => hpc[c] # "idle"  BY <3>1 DEF TypeOK
    <3> QED  BY <2>1, <3>1, <3>2
  <2>4. CASE WriteSlot(d)
    <3>1. /\ hpc[d] = "write" /\ hpc' = [hpc EXCEPT ![d] = "publish"]
          /\ UNCHANGED <<read_index, write_index, thread, history>>
      BY <2>4 DEF WriteSlot
    <3>2. hpc'[c] # "idle" => hpc[c] # "idle"  BY <3>1 DEF TypeOK
    <3>3. Reading(c)' => Reading(c)  BY <3>1 DEF Reading, thread
    <3> QED  BY <3>1, <3>2, <3>3, StaysSettled DEF history
  <2>5. CASE Publish(d)
    <3>1. CASE d = c  BY <2>5, <3>1, PublishKeeps
    <3>2. CASE d # c
      <4>1. /\ hpc' = [hpc EXCEPT ![d] = "idle"] /\ pub' = [pub EXCEPT ![d] = @ + 1]
            /\ write_index' = [write_index EXCEPT ![d] = (@ + 1) % N]
            /\ UNCHANGED <<read_index, thread, con>>
        BY <2>5 DEF Publish
      <4>2. hpc'[c] = hpc[c] /\ pub'[c] = pub[c] /\ write_index'[c] = write_index[c]
        BY <3>2, <4>1 DEF TypeOK
      <4>3. Reading(c)' => Reading(c)  BY <4>1 DEF Reading, thread
      <4> QED  BY <4>1, <4>2, <4>3, StaysSettled
    <3> QED  BY <3>1, <3>2
  <2> QED  BY <1>4, <2>2, <2>3, <2>4, <2>5 DEF Handler
<1>5. CASE UNCHANGED vars
  <2>1. Reading(c)' => Reading(c)  BY <1>5 DEF Reading, vars
  <2> QED  BY <1>5, <2>1, StaysSettled DEF vars
<1> QED  BY <1>1, <1>2, <1>3, <1>4, <1>5 DEF Next, Thread

(* A ring whose indices have once been apart loses no record from then on, *)
(* whatever the handlers of all CPUs and the thread do at the same time:   *)
(* what read_ring_buffer returns is what write_ring_buffer stored next.    *)
THEOREM SettledRingKeepsAll == Spec => SettledKeepsAll
<1>1. (TypeOK /\ RecordInv) /\ (TypeOK /\ RecordInv)' /\ [Next]_vars => KeepsAll
  BY StepKeepsAll
<1> QED  BY <1>1, RecordInvariant, PTL DEF Spec, SettledKeepsAll
=============================================================================
