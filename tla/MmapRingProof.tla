--------------------------- MODULE MmapRingProof ---------------------------
(***************************************************************************)
(* Proofs about the shared message area, for every number of slots, every  *)
(* set of runs of the user program and every number of records.            *)
(***************************************************************************)
EXTENDS MmapRing, SequenceTheorems, TLAPS

-----------------------------------------------------------------------------
(* Positions in a ring of n slots: the proof counts messages with natural  *)
(* numbers and needs to know when two of them fall on the same slot.       *)

(* Division with remainder, in the form the provers use.                   *)
LEMMA DivMod ==
  ASSUME NEW n \in Nat, n > 0, NEW k \in Nat
  PROVE  /\ k % n \in 0 .. n - 1
         /\ k \div n \in Nat
         /\ k = n * (k \div n) + (k % n)
OBVIOUS

(* No multiple of n lies strictly between 0 and n.                         *)
LEMMA NoMultiple ==
  ASSUME NEW n \in Nat, n > 0, NEW d \in Int, NEW a \in Int,
         a = n * d, 0 < a, a < n
  PROVE  FALSE
<1>1. CASE d <= 0
  <2>1. n * d <= 0  BY <1>1, Z3
  <2> QED  BY <2>1
<1>2. CASE d >= 1
  <2>1. n * d >= n  BY <1>2, Z3
  <2> QED  BY <2>1
<1> QED  BY <1>1, <1>2

(* Two positions less than one lap apart fall on different slots.          *)
LEMMA ModDistinct ==
  ASSUME NEW n \in Nat, n > 0, NEW j \in Nat, NEW k \in Nat, j < k, k < j + n
  PROVE  j % n # k % n
<1> DEFINE p == j \div n
           q == k \div n
<1> SUFFICES ASSUME j % n = k % n PROVE FALSE  OBVIOUS
<1>1. j = n * p + (j % n) /\ p \in Nat /\ j % n \in Int  BY DivMod
<1>2. k = n * q + (k % n) /\ q \in Nat  BY DivMod
<1>3. k - j = n * (q - p)  BY <1>1, <1>2
<1> HIDE DEF p, q
<1> QED  BY <1>1, <1>2, <1>3, NoMultiple

(* The successor of a slot is the slot of the successor.                   *)
LEMMA ModSucc ==
  ASSUME NEW n \in Nat, n > 0, NEW k \in Nat
  PROVE  ((k % n) + 1) % n = (k + 1) % n
<1> DEFINE p == k \div n
           q == (k + 1) \div n
           a == k % n
           b == (k + 1) % n
<1>1. k = n * p + a /\ p \in Nat /\ a \in 0 .. n - 1  BY DivMod
<1>2. k + 1 = n * q + b /\ q \in Nat /\ b \in 0 .. n - 1
  <2>1. k + 1 \in Nat  OBVIOUS
  <2> QED  BY ONLY <2>1, DivMod, n \in Nat, n > 0
<1>3. (a + 1) % n = IF a = n - 1 THEN 0 ELSE a + 1  BY <1>1
<1>4. n * (q - p) = (a + 1) - b  BY <1>1, <1>2
<1> HIDE DEF p, q, a, b
<1>5. CASE a + 1 - b > 0 /\ a + 1 - b < n  BY <1>5, <1>1, <1>2, <1>4, NoMultiple
<1>6. CASE b - (a + 1) > 0
  <2>1. n * (p - q) = b - (a + 1)  BY <1>4, <1>1, <1>2
  <2>2. b - (a + 1) < n  BY <1>1, <1>2
  <2> QED  BY <2>1, <2>2, <1>6, <1>1, <1>2, NoMultiple
<1>7. CASE a + 1 = b  BY <1>7, <1>1, <1>2, <1>3
<1>8. CASE a + 1 - b = n  BY <1>8, <1>1, <1>2, <1>3
<1>9. a + 1 - b \in (-n) .. n  BY <1>1, <1>2
<1>10. (a + 1) % n = b  BY <1>1, <1>2, <1>5, <1>6, <1>7, <1>8, <1>9
<1> QED  BY <1>10 DEF a, b

(* One lap further is the same slot.                                       *)
LEMMA ModPeriod ==
  ASSUME NEW n \in Nat, n > 0, NEW k \in Nat
  PROVE  (k + n) % n = k % n
<1> DEFINE p == k \div n
           q == (k + n) \div n
           a == k % n
           b == (k + n) % n
<1>1. k = n * p + a /\ p \in Nat /\ a \in 0 .. n - 1  BY DivMod
<1>2. k + n = n * q + b /\ q \in Nat /\ b \in 0 .. n - 1
  <2>1. k + n \in Nat  OBVIOUS
  <2> QED  BY ONLY <2>1, DivMod, n \in Nat, n > 0
<1>3. n * ((q - p) - 1) = a - b  BY <1>1, <1>2
<1>4. n * ((p - q) + 1) = b - a  BY <1>1, <1>2
<1> HIDE DEF p, q, a, b
<1>5. CASE a - b > 0  BY <1>5, <1>1, <1>2, <1>3, NoMultiple
<1>6. CASE b - a > 0  BY <1>6, <1>1, <1>2, <1>4, NoMultiple
<1>7. b = a  BY <1>1, <1>2, <1>5, <1>6
<1> QED  BY <1>7 DEF a, b
-----------------------------------------------------------------------------
(* The slots of consecutive positions.                                     *)
LEMMA NxtSlot ==
  ASSUME NEW k \in Nat
  PROVE  /\ k % M \in Slots
         /\ Nxt(k % M) = (k + 1) % M
         /\ Nxt(k % M) \in Slots
<1>1. M \in Nat /\ M > 0  BY SlotsAssumption
<1>2. k % M \in Slots  BY <1>1, DivMod DEF Slots
<1>3. Nxt(k % M) = (k + 1) % M  BY <1>1, ModSucc DEF Nxt
<1>4. (k + 1) % M \in Slots
  <2>1. k + 1 \in Nat  OBVIOUS
  <2> QED  BY <1>1, <2>1, DivMod DEF Slots
<1> QED  BY <1>2, <1>3, <1>4

LEMMA NxtType ==
  ASSUME NEW i \in Slots
  PROVE  Nxt(i) \in Slots
BY SlotsAssumption DEF Slots, Nxt

LEMMA SlotsDiffer ==
  ASSUME NEW j \in Nat, NEW k \in Nat, j < k, k < j + M
  PROVE  j % M # k % M
<1>1. M \in Nat /\ M > 0  BY SlotsAssumption
<1> QED  BY <1>1, ModDistinct

-----------------------------------------------------------------------------
(* The ring is full exactly when M - 2 messages wait.                      *)
LEMMA FullMeans ==
  ASSUME IndInv, ~Resetting, ~Full
  PROVE  Len(sent) - Taken <= M - 3
<1> DEFINE T == Taken
           L == Len(sent)
<1>1. L \in Nat /\ T \in Nat /\ T <= L /\ L - T <= M - 2
  BY DEF IndInv, TypeOK, IndexInv, Taken
<1>2. Nxt(write_index) = (L + 2) % M
  <2>1. L + 1 \in Nat /\ (L + 1) + 1 = L + 2  BY <1>1
  <2>2. write_index = (L + 1) % M  BY DEF IndInv, IndexInv
  <2> QED  BY <2>1, <2>2, NxtSlot
<1>3. CASE L - T = M - 2
  <2>1. T + M = L + 2 /\ M \in Nat /\ M > 0  BY <1>1, <1>3, SlotsAssumption
  <2>2. (T + M) % M = T % M  BY <1>1, <2>1, ModPeriod
  <2>3. read_index = T % M  BY DEF IndInv, IndexInv
  <2> QED  BY <1>2, <2>1, <2>2, <2>3 DEF Full
<1> QED  BY <1>1, <1>3, SlotsAssumption

-----------------------------------------------------------------------------
LEMMA InitInv == Init => IndInv
<1> SUFFICES ASSUME Init PROVE IndInv  OBVIOUS
<1>1. 0 % M = 0 /\ 1 % M = 1 /\ 0 \in Slots /\ 1 \in Slots
  BY SlotsAssumption DEF Slots
<1>2. Len(sent) = 0 /\ Len(got) = 0 /\ sent = <<>> /\ got = <<>>  BY DEF Init
<1>3. Taken = 0  BY <1>2 DEF Init, Taken
<1>4. TypeOK
  BY <1>1, <1>2, BoundAssumption DEF Init, TypeOK, Message, NoMessage
<1>5. OneReader /\ SessionInv /\ ReaderInv
  BY DEF Init, OneReader, Active, SessionInv, Resetting, ReaderInv
<1>6. IndexInv  BY <1>1, <1>2, <1>3, SlotsAssumption DEF Init, IndexInv
<1>7. DataInv  BY <1>2 DEF Init, DataInv
<1> QED  BY <1>4, <1>5, <1>6, <1>7 DEF IndInv

(* Steps that leave the indices, the slots and the readers alone.          *)
LEMMA QuietStep ==
  ASSUME IndInv, UNCHANGED <<shared, reader, sent, got>>,
         session' \in {"idle", "on", "stopping"},
         wpc' \in {"idle", "popped", "judged", "copy"}, seq' \in 0 .. MaxMsg,
         SessionInv',
         wpc' \in {"judged", "copy"} /\ ~Resetting => Len(sent) - Taken <= M - 3
  PROVE  IndInv'
<1>1. Taken' = Taken /\ Resetting' = Resetting
  BY DEF reader, Taken, Resetting
<1>2. TypeOK'  BY DEF IndInv, TypeOK, shared, reader
<1>3. OneReader'  BY DEF IndInv, OneReader, Active, reader
<1>4. IndexInv'  BY <1>1 DEF IndInv, IndexInv, shared
<1>5. DataInv'  BY <1>1 DEF IndInv, DataInv, shared
<1>6. ReaderInv'  BY DEF IndInv, ReaderInv, shared, reader
<1> QED  BY <1>2, <1>3, <1>4, <1>5, <1>6 DEF IndInv

LEMMA StepSession ==
  ASSUME IndInv, Stop \/ Stopped
  PROVE  IndInv'
<1>1. SessionInv'
  BY DEF IndInv, SessionInv, Resetting, Stop, Stopped, writer, reader
<1>2. wpc' \in {"judged", "copy"} => wpc \in {"judged", "copy"}
  BY DEF Stop, Stopped, writer
<1>3. CASE wpc # "filled"
  <2>1. wpc' \in {"idle", "popped", "judged", "copy"}
    BY <1>3 DEF IndInv, TypeOK, Stop, Stopped, writer
  <2> QED
    BY <1>1, <1>2, <2>1, QuietStep
    DEF IndInv, TypeOK, IndexInv, Stop, Stopped, writer
<1>4. CASE wpc = "filled"
  <2>1. UNCHANGED <<write_index, read_index, data, wpc, seq, rpc, rw, rr, sent, got>>
    BY DEF Stop, Stopped, shared, writer, reader
  <2>2. session' \in {"idle", "on", "stopping"}  BY DEF Stop, Stopped
  <2>3. Taken' = Taken /\ Resetting' = Resetting  BY <2>1 DEF Taken, Resetting
  <2>4. TypeOK' /\ OneReader' /\ ReaderInv'
    BY <2>1, <2>2 DEF IndInv, TypeOK, OneReader, Active, ReaderInv
  <2>5. IndexInv' /\ DataInv'
    BY <2>1, <2>3 DEF IndInv, IndexInv, DataInv, FillSlot
  <2> QED  BY <1>1, <2>4, <2>5 DEF IndInv
<1> QED  BY <1>3, <1>4

LEMMA StepQuietSender ==
  ASSUME IndInv, Pop \/ Judge \/ Skip \/ Send
  PROVE  IndInv'
<1>1. /\ UNCHANGED <<shared, reader, sent, got, session>>
      /\ wpc' \in {"idle", "popped", "judged", "copy"}
  BY DEF Pop, Judge, Skip, Send
<1>2. seq' \in 0 .. MaxMsg
  BY BoundAssumption DEF IndInv, TypeOK, Pop, Judge, Skip, Send
<1>3. SessionInv'
  BY <1>1 DEF IndInv, TypeOK, SessionInv, Resetting, reader, Pop, Judge, Skip, Send
<1>4. ASSUME wpc' \in {"judged", "copy"}, ~Resetting
      PROVE  Len(sent) - Taken <= M - 3
  <2>1. CASE Judge
    <3>1. ~Full  BY <2>1, <1>4 DEF Judge
    <3> QED  BY <3>1, <1>4, FullMeans
  <2>2. CASE Send  BY <2>2, <1>4 DEF Send, IndInv, IndexInv
  <2> QED  BY <1>4, <2>1, <2>2 DEF Pop, Skip
<1> QED
  <2>1. session' \in {"idle", "on", "stopping"}  BY <1>1 DEF IndInv, TypeOK
  <2> QED  BY <1>1, <1>2, <1>3, <1>4, <2>1, QuietStep

(* While the thread sends, no "r" is being handled.                        *)
LEMMA BusyNotResetting ==
  ASSUME IndInv, wpc # "idle"
  PROVE  ~Resetting /\ seq \in Message
BY DEF IndInv, SessionInv, TypeOK, Message

LEMMA StepFill ==
  ASSUME IndInv, Fill
  PROVE  IndInv'
<1>1. /\ UNCHANGED <<write_index, read_index, session, seq, rpc, rw, rr, sent, got>>
      /\ wpc = "copy" /\ wpc' = "filled" /\ data' = [data EXCEPT ![write_index] = seq]
  BY DEF Fill, reader, FillSlot
<1>2. Taken' = Taken /\ Resetting' = Resetting  BY <1>1 DEF Taken, Resetting
<1>3. ~Resetting /\ seq \in Message  BY <1>1, BusyNotResetting
<1>4. TypeOK'  BY <1>1, <1>3 DEF IndInv, TypeOK
<1>5. OneReader' /\ SessionInv' /\ ReaderInv'
  BY <1>1, <1>2, <1>3 DEF IndInv, OneReader, Active, SessionInv, ReaderInv, Message
<1>6. IndexInv'  BY <1>1, <1>2 DEF IndInv, IndexInv
<1>7. ASSUME NEW k \in Len(got) + 1 .. Len(sent)
      PROVE  data'[k % M] = sent'[k]
  <2>1. Len(got) \in Nat /\ Len(sent) \in Nat  BY DEF IndInv, TypeOK
  <2>2. k \in Nat /\ k < Len(sent) + 1 /\ Len(sent) + 1 < k + M
    BY <1>1, <1>3, <2>1, SlotsAssumption DEF IndInv, IndexInv, Taken
  <2>3. k % M # write_index
    BY <1>3, <2>1, <2>2, SlotsDiffer DEF IndInv, IndexInv
  <2>4. k % M \in Slots  BY <2>2, NxtSlot
  <2> QED  BY <1>1, <1>3, <2>3, <2>4 DEF IndInv, TypeOK, DataInv
<1>8. DataInv'
  BY <1>1, <1>7 DEF DataInv, FillSlot, IndInv, TypeOK
<1> QED  BY <1>4, <1>5, <1>6, <1>8 DEF IndInv

LEMMA StepPublish ==
  ASSUME IndInv, Publish
  PROVE  IndInv'
<1>1. /\ UNCHANGED <<read_index, data, session, seq, rpc, rw, rr, got>>
      /\ wpc = "filled" /\ wpc' = "idle"
      /\ write_index' = Nxt(write_index) /\ sent' = Append(sent, seq)
  BY DEF Publish, reader
<1>2. Taken' = Taken /\ Resetting' = Resetting  BY <1>1 DEF Taken, Resetting
<1>3. ~Resetting /\ seq \in Message  BY <1>1, BusyNotResetting
<1>4. /\ Len(sent) \in Nat /\ Len(got) \in Nat /\ sent \in Seq(Message)
      /\ sent' \in Seq(Message) /\ Len(sent') = Len(sent) + 1
      /\ \A k \in 1 .. Len(sent) : sent'[k] = sent[k]
      /\ sent'[Len(sent) + 1] = seq
  BY <1>1, <1>3 DEF IndInv, TypeOK
<1>5. write_index = (Len(sent) + 1) % M /\ Taken <= Len(sent) /\ Taken \in Nat
      /\ Len(sent) - Taken <= M - 3
  BY <1>1, <1>3, <1>4 DEF IndInv, IndexInv, Taken
<1>6. write_index' \in Slots /\ write_index' = (Len(sent') + 1) % M
  <2>1. Len(sent) + 1 \in Nat /\ Len(sent') + 1 = (Len(sent) + 1) + 1  BY <1>4
  <2> QED  BY <1>1, <1>5, <2>1, NxtSlot
<1>7. TypeOK'  BY <1>1, <1>4, <1>6 DEF IndInv, TypeOK
<1>8. OneReader' /\ SessionInv'
  BY <1>1, <1>2 DEF IndInv, OneReader, Active, SessionInv
<1>9. IndexInv'
  BY <1>1, <1>2, <1>3, <1>4, <1>5, <1>6, SlotsAssumption DEF IndInv, IndexInv
<1>10. DataInv'
  <2>1. data[(Len(sent) + 1) % M] = seq
    BY <1>1, <1>3, <1>5 DEF IndInv, DataInv, FillSlot
  <2>2. ASSUME NEW k \in Len(got) + 1 .. Len(sent')
        PROVE  data[k % M] = sent'[k]
    <3>1. CASE k = Len(sent) + 1  BY <3>1, <2>1, <1>4
    <3>2. CASE k # Len(sent) + 1
      <4>1. k \in Len(got) + 1 .. Len(sent) /\ k \in 1 .. Len(sent)  BY <3>2, <1>4
      <4> QED  BY <4>1, <1>3, <1>4 DEF IndInv, DataInv
    <3> QED  BY <3>1, <3>2
  <2> QED  BY <1>1, <2>2 DEF DataInv
<1>11. ReaderInv'
  <2> SUFFICES ASSUME NEW r \in Readers
               PROVE  /\ rpc[r] \in {"loaded", "take"} =>
                           \E j \in Len(got) .. Len(sent') :
                             rw[r] = (j + 1) % M /\ (rpc[r] = "take" => Len(got) < j)
                      /\ rpc[r] = "take" => rr[r] = read_index
    BY <1>1 DEF ReaderInv
  <2>1. \A j \in Len(got) .. Len(sent) : j \in Len(got) .. Len(sent')  BY <1>4
  <2> QED  BY <2>1 DEF IndInv, ReaderInv
<1> QED  BY <1>7, <1>8, <1>9, <1>10, <1>11 DEF IndInv

-----------------------------------------------------------------------------
(* A run that is started or polling is the only one.                       *)
LEMMA OthersInactive ==
  ASSUME IndInv, NEW r \in Readers, rpc[r] \notin {"off", "done"}
  PROVE  \A q \in Readers : q # r => rpc[q] \in {"off", "done"}
BY DEF IndInv, OneReader, Active

LEMMA StepStart ==
  ASSUME IndInv, NEW r \in Readers, StartReset(r) \/ StartRun(r) \/ Join(r)
  PROVE  IndInv'
<1>1. \A q \in Readers : q # r => rpc[q] \in {"off", "done"}
  <2>1. CASE rpc[r] = "reset"  BY <2>1, OthersInactive
  <2>2. CASE rpc[r] # "reset"  BY <2>2 DEF StartReset, StartRun, Join, Alone
  <2> QED  BY <2>1, <2>2
<1>2. rpc \in [Readers -> {"off", "reset", "poll", "loaded", "take", "copy", "done"}]
  BY DEF IndInv, TypeOK
<1>3. CASE StartReset(r)
  <2>1. /\ UNCHANGED <<read_index, data, session, wpc, seq, rw, rr, sent, got>>
        /\ write_index' = 1 /\ rpc' = [rpc EXCEPT ![r] = "reset"]
        /\ session = "idle"
    BY <1>3 DEF StartReset, writer
  <2>2. Resetting'  BY <2>1, <1>2 DEF Resetting
  <2>3. TypeOK'  BY <2>1, SlotsAssumption DEF IndInv, TypeOK, Slots
  <2>4. OneReader' /\ SessionInv' /\ ReaderInv'
    BY <2>1, <1>1, <1>2 DEF IndInv, OneReader, Active, SessionInv, ReaderInv
  <2> QED  BY <2>1, <2>2, <2>3, <2>4 DEF IndInv, IndexInv, DataInv
<1>4. CASE StartRun(r)
  <2>1. /\ UNCHANGED <<write_index, data, wpc, seq, rw, rr>>
        /\ rpc[r] = "reset" /\ rpc' = [rpc EXCEPT ![r] = "poll"]
        /\ read_index' = 0 /\ session' = "on" /\ sent' = <<>> /\ got' = <<>>
    BY <1>4 DEF StartRun, writer
  <2>2. write_index = 1 /\ wpc = "idle"
    BY <2>1 DEF IndInv, Resetting, SessionInv, IndexInv
  <2>3. ~Resetting'  BY <2>1, <1>1, <1>2 DEF Resetting
  <2>4. Len(sent') = 0 /\ Len(got') = 0  BY <2>1
  <2>5. Taken' = 0  BY <2>1, <2>4, <1>1, <1>2 DEF Taken
  <2>6. TypeOK'  BY <2>1, SlotsAssumption DEF IndInv, TypeOK, Slots
  <2>7. OneReader' /\ SessionInv' /\ ReaderInv'
    BY <2>1, <2>2, <2>3, <1>1, <1>2
    DEF IndInv, OneReader, Active, SessionInv, ReaderInv
  <2>8. 0 % M = 0 /\ 1 % M = 1  BY SlotsAssumption
  <2>9. IndexInv'
    BY <2>1, <2>2, <2>3, <2>4, <2>5, <2>8, SlotsAssumption DEF IndexInv
  <2>10. DataInv'  BY <2>1, <2>2, <2>4 DEF DataInv
  <2> QED  BY <2>6, <2>7, <2>9, <2>10 DEF IndInv
<1>5. CASE Join(r)
  <2>1. /\ UNCHANGED <<write_index, read_index, data, session, wpc, seq, rw, rr, sent, got>>
        /\ rpc[r] = "off" /\ rpc' = [rpc EXCEPT ![r] = "poll"]
    BY <1>5 DEF Join, shared, writer
  <2>2. ~Resetting /\ ~Resetting'  BY <2>1, <1>1, <1>2 DEF Resetting
  <2>3. Taken' = Taken  BY <2>1, <1>1, <1>2 DEF Taken
  <2>4. TypeOK'  BY <2>1 DEF IndInv, TypeOK
  <2>5. OneReader' /\ SessionInv' /\ ReaderInv'
    BY <2>1, <2>2, <1>1, <1>2
    DEF IndInv, OneReader, Active, SessionInv, ReaderInv
  <2>6. IndexInv' /\ DataInv'
    BY <2>1, <2>2, <2>3 DEF IndInv, IndexInv, DataInv, FillSlot
  <2> QED  BY <2>4, <2>5, <2>6 DEF IndInv
<1> QED  BY <1>3, <1>4, <1>5

(* What holds while reader r is inside read_data.                          *)
LEMMA Reading ==
  ASSUME IndInv, NEW r \in Readers, rpc[r] \in {"poll", "loaded", "take", "copy"}
  PROVE  /\ ~Resetting
         /\ \A q \in Readers : q # r => rpc[q] \in {"off", "done"}
         /\ Taken = Len(got) + (IF rpc[r] = "copy" THEN 1 ELSE 0)
         /\ Taken \in Nat /\ Len(sent) \in Nat /\ Len(got) \in Nat
         /\ Taken <= Len(sent) /\ Len(sent) - Taken <= M - 2
         /\ read_index = Taken % M /\ write_index = (Len(sent) + 1) % M
<1>1. \A q \in Readers : q # r => rpc[q] \in {"off", "done"}  BY OthersInactive
<1>2. ~Resetting  BY <1>1 DEF Resetting
<1>3. Len(sent) \in Nat /\ Len(got) \in Nat  BY DEF IndInv, TypeOK
<1>4. Taken = Len(got) + (IF rpc[r] = "copy" THEN 1 ELSE 0)
  BY <1>1 DEF Taken
<1>5. Taken \in Nat  BY <1>3, <1>4
<1> QED  BY <1>1, <1>2, <1>3, <1>4, <1>5 DEF IndInv, IndexInv

(* Steps of a reader that take nothing and leave the shared area alone.    *)
LEMMA StepLook ==
  ASSUME IndInv, NEW r \in Readers,
         LoadWrite(r) \/ LoadRead(r) \/ Quit(r) \/ (Crash(r) /\ rpc[r] # "copy")
  PROVE  IndInv'
<1>1. /\ UNCHANGED <<write_index, read_index, data, session, wpc, seq, sent, got>>
      /\ rpc[r] \in {"poll", "loaded", "take"}
  BY DEF LoadWrite, LoadRead, Quit, Crash, shared, writer
<1>2. PICK st \in {"poll", "loaded", "take", "done"} : rpc' = [rpc EXCEPT ![r] = st]
  BY DEF LoadWrite, LoadRead, Quit, Crash
<1>3. rw' \in [Readers -> Slots] /\ rr' \in [Readers -> Slots]
  BY DEF IndInv, TypeOK, LoadWrite, LoadRead, Quit, Crash
<1>4. rpc \in [Readers -> {"off", "reset", "poll", "loaded", "take", "copy", "done"}]
  BY DEF IndInv, TypeOK
<1>5. /\ \A q \in Readers : q # r => rpc[q] \in {"off", "done"}
      /\ ~Resetting /\ Taken = Len(got)
      /\ Len(sent) \in Nat /\ Len(got) \in Nat /\ Len(got) <= Len(sent)
      /\ read_index = Len(got) % M /\ write_index = (Len(sent) + 1) % M
  BY <1>1, Reading
<1>6. ~Resetting' /\ Taken' = Taken  BY <1>1, <1>2, <1>4, <1>5 DEF Resetting, Taken
<1>7. TypeOK'  BY <1>1, <1>2, <1>3 DEF IndInv, TypeOK
<1>8. OneReader' /\ SessionInv'
  BY <1>1, <1>2, <1>4, <1>5, <1>6 DEF IndInv, OneReader, Active, SessionInv
<1>9. IndexInv' /\ DataInv'
  BY <1>1, <1>5, <1>6 DEF IndInv, IndexInv, DataInv, FillSlot
<1>10. ReaderInv'
  <2>1. CASE LoadWrite(r)
    <3>1. rpc' = [rpc EXCEPT ![r] = "loaded"] /\ rw' = [rw EXCEPT ![r] = write_index] /\ rr' = rr
      BY <2>1 DEF LoadWrite
    <3>2. rw'[r] = (Len(sent) + 1) % M /\ Len(sent) \in Len(got) .. Len(sent)
      BY <3>1, <1>5 DEF IndInv, TypeOK
    <3> QED  BY <3>1, <3>2, <1>1, <1>4, <1>5 DEF ReaderInv
  <2>2. CASE LoadRead(r)
    <3>1. /\ rpc[r] = "loaded" /\ rw' = rw /\ rr' = [rr EXCEPT ![r] = read_index]
          /\ rpc' = [rpc EXCEPT ![r] = IF Nxt(read_index) = rw[r] THEN "poll" ELSE "take"]
      BY <2>2 DEF LoadRead
    <3>2. PICK j \in Len(got) .. Len(sent) : rw[r] = (j + 1) % M
      BY <3>1 DEF IndInv, ReaderInv
    <3>3. Nxt(read_index) = (Len(got) + 1) % M  BY <1>5, NxtSlot
    <3>4. rpc'[r] = "take" => Len(got) < j  BY <3>1, <3>2, <3>3, <1>4, <1>5
    <3>5. rr'[r] = read_index  BY <3>1 DEF IndInv, TypeOK
    <3> QED  BY <3>1, <3>2, <3>4, <3>5, <1>1, <1>4, <1>5 DEF ReaderInv
  <2>3. CASE Quit(r) \/ Crash(r)
    <3>1. rpc' = [rpc EXCEPT ![r] = "done"]  BY <2>3 DEF Quit, Crash
    <3> QED  BY <3>1, <1>4, <1>5 DEF ReaderInv
  <2> QED  BY <2>1, <2>2, <2>3
<1> QED  BY <1>7, <1>8, <1>9, <1>10 DEF IndInv

(* read_index is stored: one more message is taken, and nothing else moves.*)
LEMMA StepTake ==
  ASSUME IndInv, NEW r \in Readers, Take(r)
  PROVE  IndInv'
<1>1. /\ UNCHANGED <<write_index, data, session, wpc, seq, rw, rr, sent, got>>
      /\ rpc[r] = "take" /\ rpc' = [rpc EXCEPT ![r] = "copy"]
      /\ read_index' = Nxt(rr[r])
  BY DEF Take, writer
<1>2. rpc \in [Readers -> {"off", "reset", "poll", "loaded", "take", "copy", "done"}]
  BY DEF IndInv, TypeOK
<1>3. /\ \A q \in Readers : q # r => rpc[q] \in {"off", "done"}
      /\ ~Resetting /\ Taken = Len(got)
      /\ Len(sent) \in Nat /\ Len(got) \in Nat
      /\ read_index = Len(got) % M
  BY <1>1, Reading
<1>4. rr[r] = read_index /\ Len(got) + 1 <= Len(sent)
  <2>1. PICK j \in Len(got) .. Len(sent) : Len(got) < j
    BY <1>1 DEF IndInv, ReaderInv
  <2> QED  BY <1>1, <1>3, <2>1 DEF IndInv, ReaderInv
<1>5. read_index' = (Len(got) + 1) % M /\ read_index' \in Slots
  BY <1>1, <1>3, <1>4, NxtSlot
<1>6. ~Resetting' /\ Taken' = Len(got) + 1
  BY <1>1, <1>2, <1>3 DEF Resetting, Taken
<1>7. TypeOK'  BY <1>1, <1>5 DEF IndInv, TypeOK
<1>8. OneReader' /\ SessionInv' /\ ReaderInv'
  BY <1>1, <1>2, <1>3, <1>6 DEF IndInv, OneReader, Active, SessionInv, ReaderInv
<1>9. IndexInv'
  <2>1. /\ write_index = (Len(sent) + 1) % M
        /\ Len(sent) - Len(got) <= M - 2
        /\ wpc \in {"judged", "copy", "filled"} => Len(sent) - Len(got) <= M - 3
    BY <1>3 DEF IndInv, IndexInv
  <2>2. read_index' = Taken' % M  BY <1>5, <1>6
  <2>3. /\ Taken' <= Len(sent) /\ Len(sent) - Taken' <= M - 2
        /\ wpc \in {"judged", "copy", "filled"} => Len(sent) - Taken' <= M - 3
    BY <1>3, <1>4, <1>6, <2>1, SlotsAssumption
  <2> QED  BY <1>1, <1>6, <2>1, <2>2, <2>3 DEF IndexInv
<1>10. DataInv'  BY <1>1, <1>3, <1>6 DEF IndInv, DataInv, FillSlot
<1> QED  BY <1>7, <1>8, <1>9, <1>10 DEF IndInv

(* What the reader copies is the oldest message not yet taken, although    *)
(* its slot was given back before.                                         *)
LEMMA CopiedMessage ==
  ASSUME IndInv, NEW r \in Readers, rpc[r] = "copy"
  PROVE  /\ Len(got) < Len(sent)
         /\ data[read_index] = sent[Len(got) + 1]
         /\ data[read_index] \in Message
<1>1. /\ ~Resetting /\ Taken = Len(got) + 1 /\ Taken <= Len(sent)
      /\ Len(sent) \in Nat /\ Len(got) \in Nat /\ read_index = Taken % M
  BY Reading
<1>2. Len(got) + 1 \in Len(got) + 1 .. Len(sent) /\ Len(got) + 1 \in 1 .. Len(sent)
  BY <1>1
<1>3. data[read_index] = sent[Len(got) + 1]  BY <1>1, <1>2 DEF IndInv, DataInv
<1>4. sent[Len(got) + 1] \in Message  BY <1>2 DEF IndInv, TypeOK
<1> QED  BY <1>1, <1>3, <1>4

LEMMA StepCopyOut ==
  ASSUME IndInv, NEW r \in Readers, CopyOut(r) \/ (Crash(r) /\ rpc[r] = "copy")
  PROVE  IndInv'
<1>1. /\ UNCHANGED <<write_index, read_index, data, session, wpc, seq, rw, rr, sent>>
      /\ rpc[r] = "copy" /\ got' = Append(got, data[read_index])
  BY DEF CopyOut, Crash, shared, writer
<1>2. PICK st \in {"poll", "done"} : rpc' = [rpc EXCEPT ![r] = st]
  BY DEF CopyOut, Crash
<1>3. rpc \in [Readers -> {"off", "reset", "poll", "loaded", "take", "copy", "done"}]
  BY DEF IndInv, TypeOK
<1>4. /\ \A q \in Readers : q # r => rpc[q] \in {"off", "done"}
      /\ ~Resetting /\ Taken = Len(got) + 1
      /\ Len(sent) \in Nat /\ Len(got) \in Nat
  BY <1>1, Reading
<1>5. got' \in Seq(Message) /\ Len(got') = Len(got) + 1
  BY <1>1, CopiedMessage DEF IndInv, TypeOK
<1>6. ~Resetting' /\ Taken' = Taken
  BY <1>1, <1>2, <1>3, <1>4, <1>5 DEF Resetting, Taken
<1>7. TypeOK'  BY <1>1, <1>2, <1>5 DEF IndInv, TypeOK
<1>8. OneReader' /\ SessionInv' /\ ReaderInv'
  BY <1>1, <1>2, <1>3, <1>4, <1>6
  DEF IndInv, OneReader, Active, SessionInv, ReaderInv
<1>9. IndexInv'  BY <1>1, <1>4, <1>6 DEF IndInv, IndexInv
<1>10. DataInv'
  <2>1. \A k \in Len(got') + 1 .. Len(sent) : k \in Len(got) + 1 .. Len(sent)
    BY <1>4, <1>5
  <2> QED  BY <1>1, <1>4, <2>1 DEF IndInv, DataInv, FillSlot
<1> QED  BY <1>7, <1>8, <1>9, <1>10 DEF IndInv

-----------------------------------------------------------------------------
LEMMA NextInv == IndInv /\ [Next]_vars => IndInv'
<1> SUFFICES ASSUME IndInv, [Next]_vars PROVE IndInv'  OBVIOUS
<1>1. CASE Stop \/ Stopped  BY <1>1, StepSession
<1>2. CASE Pop \/ Judge \/ Skip \/ Send  BY <1>2, StepQuietSender
<1>3. CASE Fill  BY <1>3, StepFill
<1>4. CASE Publish  BY <1>4, StepPublish
<1>5. ASSUME NEW r \in Readers,
             StartReset(r) \/ StartRun(r) \/ Join(r) \/ Poll(r) \/ Quit(r) \/ Crash(r)
      PROVE  IndInv'
  <2>1. CASE StartReset(r) \/ StartRun(r) \/ Join(r)  BY <2>1, StepStart
  <2>2. CASE LoadWrite(r) \/ LoadRead(r) \/ Quit(r)  BY <2>2, StepLook
  <2>3. CASE Take(r)  BY <2>3, StepTake
  <2>4. CASE CopyOut(r)  BY <2>4, StepCopyOut
  <2>5. CASE Crash(r)  BY <2>5, StepLook, StepCopyOut
  <2> QED  BY <1>5, <2>1, <2>2, <2>3, <2>4, <2>5 DEF Poll
<1>6. CASE UNCHANGED vars
  <2>1. Taken' = Taken /\ Resetting' = Resetting
    BY <1>6 DEF vars, Taken, Resetting
  <2> QED
    BY <1>6, <2>1 DEF vars, IndInv, TypeOK, OneReader, Active, SessionInv,
                      IndexInv, DataInv, ReaderInv, FillSlot
<1> QED  BY <1>1, <1>2, <1>3, <1>4, <1>5, <1>6 DEF Next, Sender

(* The inductive invariant holds in every state of the ring.               *)
THEOREM Inductive == Spec => []IndInv
<1> QED  BY InitInv, NextInv, PTL DEF Spec

(* Type correctness: every index names a slot and only messages that were  *)
(* sent are delivered.                                                     *)
THEOREM TypeCorrect == Spec => []TypeOK
<1>1. IndInv => TypeOK  BY DEF IndInv
<1> QED  BY <1>1, Inductive, PTL

(* send_msg_by_mmap never copies into the slot read_data is copying from.  *)
THEOREM RaceFreedom == Spec => []NoDataRace
<1>1. IndInv => NoDataRace
  <2> SUFFICES ASSUME IndInv, NEW r \in Readers, rpc[r] = "copy", wpc = "copy",
                      read_index = FillSlot
               PROVE  FALSE
    BY DEF NoDataRace
  <2>1. /\ ~Resetting /\ Taken \in Nat /\ Len(sent) \in Nat /\ Taken <= Len(sent)
        /\ Len(sent) - Taken <= M - 2
        /\ read_index = Taken % M /\ write_index = (Len(sent) + 1) % M
    BY Reading
  <2>2. Taken < Len(sent) + 1 /\ Len(sent) + 1 < Taken + M
    BY <2>1, SlotsAssumption
  <2>3. Len(sent) + 1 \in Nat  BY <2>1
  <2> QED  BY <2>1, <2>2, <2>3, SlotsDiffer DEF FillSlot
<1> QED  BY <1>1, Inductive, PTL

(* Room found by judge_message_struct_full is still there at               *)
(* send_msg_by_mmap.                                                       *)
THEOREM JudgeIsStable == Spec => []RoomAfterJudge
<1>1. IndInv => RoomAfterJudge
  <2> SUFFICES ASSUME IndInv, wpc = "judged", Full PROVE FALSE  BY DEF RoomAfterJudge
  <2>1. ~Resetting  BY BusyNotResetting
  <2>2. /\ Taken \in Nat /\ Len(sent) \in Nat /\ Taken <= Len(sent)
        /\ Len(sent) - Taken <= M - 3
        /\ read_index = Taken % M /\ write_index = (Len(sent) + 1) % M
    BY <2>1 DEF IndInv, TypeOK, IndexInv, Taken
  <2>3. Nxt(write_index) = (Len(sent) + 2) % M
    <3>1. Len(sent) + 1 \in Nat /\ (Len(sent) + 1) + 1 = Len(sent) + 2  BY <2>2
    <3> QED  BY <2>2, <3>1, NxtSlot
  <2>4. Taken < Len(sent) + 2 /\ Len(sent) + 2 < Taken + M /\ Len(sent) + 2 \in Nat
    BY <2>2, SlotsAssumption
  <2> QED  BY <2>2, <2>3, <2>4, SlotsDiffer DEF Full
<1> QED  BY <1>1, Inductive, PTL

(* The lock-free ring implements the bounded channel: no message is lost,  *)
(* repeated or reordered, and at most M - 1 are on their way.              *)
THEOREM Implementation == Spec => ImplementsChannel
<1>1. Init => Channel!Init  BY DEF Init, Channel!Init
<1>2. IndInv /\ [Next]_vars => [Channel!Next]_Channel!vars
  <2> SUFFICES ASSUME IndInv, Next PROVE Channel!Next \/ UNCHANGED Channel!vars
    BY DEF vars, Channel!vars
  <2>1. CASE Publish
    <3>1. ~Resetting /\ seq \in Message  BY <2>1, BusyNotResetting DEF Publish
    <3>2. Len(sent) - Len(got) < M - 1
      BY <2>1, <3>1, SlotsAssumption DEF Publish, IndInv, IndexInv, Taken, TypeOK
    <3>3. sent' = Append(sent, seq) /\ got' = got  BY <2>1 DEF Publish
    <3>4. Channel!Put(seq)  BY <3>2, <3>3 DEF Channel!Put
    <3> QED  BY <3>1, <3>4 DEF Channel!Next
  <2>2. ASSUME NEW r \in Readers, CopyOut(r) \/ (Crash(r) /\ rpc[r] = "copy")
        PROVE  Channel!Get
    <3>1. rpc[r] = "copy" /\ got' = Append(got, data[read_index]) /\ sent' = sent
      BY <2>2 DEF CopyOut, Crash
    <3> QED  BY <3>1, CopiedMessage DEF Channel!Get
  <2>3. ASSUME NEW r \in Readers, StartRun(r) PROVE Channel!Reset
    BY <2>3 DEF StartRun, Channel!Reset
  <2>4. CASE Stop \/ Stopped \/ Pop \/ Judge \/ Skip \/ Send \/ Fill
    BY <2>4 DEF Stop, Stopped, Pop, Judge, Skip, Send, Fill, Channel!vars
  <2>5. ASSUME NEW r \in Readers,
               \/ StartReset(r) \/ Join(r) \/ LoadWrite(r) \/ LoadRead(r) \/ Take(r)
               \/ Quit(r) \/ (Crash(r) /\ rpc[r] # "copy")
        PROVE  UNCHANGED Channel!vars
    BY <2>5 DEF StartReset, Join, LoadWrite, LoadRead, Take, Quit, Crash, Channel!vars
  <2> QED
    BY <2>1, <2>2, <2>3, <2>4, <2>5 DEF Next, Sender, Poll, Channel!Next
<1> QED
  BY <1>1, <1>2, Inductive, PTL DEF Spec, ImplementsChannel, Channel!Spec
=============================================================================
