------------------------------ MODULE MmapRing ------------------------------
(***************************************************************************)
(* The 24 MiB area the kernel module shares with the user program through  *)
(* mmap: two 32-bit indices and MAX_MESSAGE_NUM_SIZE message slots.  The   *)
(* analysis thread of the kernel module is the only sender; it asks        *)
(* judge_message_struct_full whether there is room, analyses the record,   *)
(* and only later calls send_msg_by_mmap.  The reader is the thread        *)
(* thread_recv_data_by_mmap of a user program, which calls read_data in a  *)
(* loop.  There is no lock: every load and store of an index is a step.    *)
(*                                                                         *)
(* An index is loaded by one 32-bit move and x86 keeps stores in order, so *)
(* a load is one step and the stores of one side are seen in their order.  *)
(***************************************************************************)
EXTENDS Integers, Sequences

CONSTANTS
  M,         \* MAX_MESSAGE_NUM_SIZE, the number of slots
  Readers,   \* the runs of the user program, one polling thread each
  MaxMsg     \* bound: records the analysis thread takes up

ASSUME SlotsAssumption == M \in Nat /\ M >= 3
ASSUME BoundAssumption == MaxMsg \in Nat

VARIABLES
  write_index,  \* *this_dev_messgae_struct.write_index: next slot to fill
  read_index,   \* *this_dev_messgae_struct.read_index: last slot emptied
  data,         \* the slots
  session,      \* "idle" (is_start = 0), "on", "stopping" (need_to_stop = 1)
  wpc,          \* where the analysis thread is
  seq,          \* number of the record taken up last
  rpc,          \* where each reader is
  rw, rr,       \* a reader's local write_index and read_index
  sent, got     \* history: messages published in the session, and taken

shared == <<write_index, read_index, data>>
writer == <<wpc, seq>>
reader == <<rpc, rw, rr>>
vars == <<write_index, read_index, data, session, wpc, seq, rpc, rw, rr,
          sent, got>>

Slots == 0 .. M - 1
NoMessage == 0                \* what a slot holds before the first message
Message == 1 .. MaxMsg        \* a message is the number of its record
\* A mutant of Nxt.
NxtNoWrap(i) == i + 1
Nxt(i) == (i + 1) % M

(* The test both of judge_message_struct_full and of send_msg_by_mmap.     *)
Full == Nxt(write_index) = read_index
\* A mutant of FillSlot.
FillSlotLast == (write_index + M - 1) % M
(* The slot send_msg_by_mmap fills.                                        *)
FillSlot == write_index

Init ==
  /\ write_index = 1 /\ read_index = 0
  /\ data = [i \in Slots |-> NoMessage]
  /\ session = "idle"
  /\ wpc = "idle" /\ seq = 0
  /\ rpc = [r \in Readers |-> "off"]
  /\ rw = [r \in Readers |-> 0] /\ rr = [r \in Readers |-> 0]
  /\ sent = <<>> /\ got = <<>>

-----------------------------------------------------------------------------
(* The session: "start" and "stop" typed in the user program.              *)

(* How the program is used: a run is started when the reader of the run    *)
(* before has ended.                                                       *)
Alone(r) == \A q \in Readers \ {r} : rpc[q] \in {"off", "done"}

(* recv_callback on "r", first store; an "r" with is_start # 0 returns.    *)
StartReset(r) ==
  /\ session = "idle" /\ rpc[r] = "off" /\ Alone(r)
  /\ write_index' = 1
  /\ rpc' = [rpc EXCEPT ![r] = "reset"]
  /\ UNCHANGED <<read_index, data, session, writer, rw, rr, sent, got>>

\* A mutant of StartRun.
StartRunNoReset(r) ==
  /\ rpc[r] = "reset"
  /\ session' = "on" /\ sent' = <<>> /\ got' = <<>>
  /\ rpc' = [rpc EXCEPT ![r] = "poll"]
  /\ UNCHANGED <<write_index, read_index, data, writer, rw, rr>>
(* recv_callback on "r", second store, pebs_mod_init and is_start = 1;     *)
(* send_message returns and the program starts its reader.                 *)
StartRun(r) ==
  /\ rpc[r] = "reset"
  /\ read_index' = 0
  /\ session' = "on" /\ sent' = <<>> /\ got' = <<>>
  /\ rpc' = [rpc EXCEPT ![r] = "poll"]
  /\ UNCHANGED <<write_index, data, writer, rw, rr>>

(* recv_callback on "r" with is_start # 0 returns at once: the run joins a *)
(* session whose reader died without a "stop".                             *)
Join(r) ==
  /\ session # "idle" /\ rpc[r] = "off" /\ Alone(r)
  /\ rpc' = [rpc EXCEPT ![r] = "poll"]
  /\ UNCHANGED <<shared, session, writer, rw, rr, sent, got>>

(* recv_callback on "s": pebs_mod_exit tells the thread to stop ...        *)
Stop ==
  /\ session = "on"
  /\ session' = "stopping"
  /\ UNCHANGED <<shared, writer, reader, sent, got>>

(* ... and kthread_stop returns when the thread has finished its record.   *)
Stopped ==
  /\ session = "stopping" /\ wpc = "idle"
  /\ session' = "idle"
  /\ UNCHANGED <<shared, writer, reader, sent, got>>

-----------------------------------------------------------------------------
(* The analysis thread.                                                    *)

(* need_to_stop is 0 and read_ring_buffer returns a record.                *)
Pop ==
  /\ session = "on" /\ wpc = "idle" /\ seq < MaxMsg
  /\ seq' = seq + 1 /\ wpc' = "popped"
  /\ UNCHANGED <<shared, session, reader, sent, got>>

\* A mutant of Judge.
JudgeNothing ==
  /\ wpc = "popped"
  /\ wpc' = "judged"
  /\ UNCHANGED <<shared, session, seq, reader, sent, got>>
(* judge_message_struct_full: with no room the record is dropped, with     *)
(* room its analysis begins.                                               *)
Judge ==
  /\ wpc = "popped"
  /\ wpc' = IF Full THEN "idle" ELSE "judged"
  /\ UNCHANGED <<shared, session, seq, reader, sent, got>>

(* The process is gone, the record was known, or its analysis ends without *)
(* a message.                                                              *)
Skip ==
  /\ wpc \in {"popped", "judged"}
  /\ wpc' = "idle"
  /\ UNCHANGED <<shared, session, seq, reader, sent, got>>

(* send_msg_by_mmap begins: it tests again and gives up when full.         *)
Send ==
  /\ wpc = "judged"
  /\ wpc' = IF Full THEN "idle" ELSE "copy"
  /\ UNCHANGED <<shared, session, seq, reader, sent, got>>

(* The memcpy into the slot, from wpc = "copy" on, is done.                *)
Fill ==
  /\ wpc = "copy"
  /\ data' = [data EXCEPT ![FillSlot] = seq]
  /\ wpc' = "filled"
  /\ UNCHANGED <<write_index, read_index, session, seq, reader, sent, got>>

(* The store that publishes the message.                                   *)
Publish ==
  /\ wpc = "filled"
  /\ write_index' = Nxt(write_index)
  /\ sent' = Append(sent, seq)
  /\ wpc' = "idle"
  /\ UNCHANGED <<read_index, data, session, seq, reader, got>>

-----------------------------------------------------------------------------
(* read_data, called in a loop by thread_recv_data_by_mmap.                *)

LoadWrite(r) ==
  /\ rpc[r] = "poll"
  /\ rw' = [rw EXCEPT ![r] = write_index]
  /\ rpc' = [rpc EXCEPT ![r] = "loaded"]
  /\ UNCHANGED <<shared, session, writer, rr, sent, got>>

\* A mutant of LoadRead.
LoadReadLate(r) ==
  /\ rpc[r] = "loaded"
  /\ rr' = [rr EXCEPT ![r] = read_index]
  /\ rpc' = [rpc EXCEPT ![r] =
                IF rw[r] \in {Nxt(read_index), Nxt(Nxt(read_index))} THEN "poll" ELSE "take"]
  /\ UNCHANGED <<shared, session, writer, rw, sent, got>>
(* The second load, and the test for "nothing to read".                    *)
LoadRead(r) ==
  /\ rpc[r] = "loaded"
  /\ rr' = [rr EXCEPT ![r] = read_index]
  /\ rpc' = [rpc EXCEPT ![r] = IF Nxt(read_index) = rw[r] THEN "poll" ELSE "take"]
  /\ UNCHANGED <<shared, session, writer, rw, sent, got>>

(* The store of read_index comes BEFORE the message is copied.             *)
Take(r) ==
  /\ rpc[r] = "take"
  /\ read_index' = Nxt(rr[r])
  /\ rpc' = [rpc EXCEPT ![r] = "copy"]
  /\ UNCHANGED <<write_index, data, session, writer, rw, rr, sent, got>>

(* The message is copied from the slot read_index, loaded again, names.    *)
CopyOut(r) ==
  /\ rpc[r] = "copy"
  /\ got' = Append(got, data[read_index])
  /\ rpc' = [rpc EXCEPT ![r] = "poll"]
  /\ UNCHANGED <<shared, session, writer, rw, rr, sent>>

(* Ten seconds after "stop" stop_recv_thread interrupts the loop.          *)
Quit(r) ==
  /\ session = "idle" /\ rpc[r] = "poll"
  /\ rpc' = [rpc EXCEPT ![r] = "done"]
  /\ UNCHANGED <<shared, session, writer, rw, rr, sent, got>>

(* The program is killed; a message it has taken and not copied dies with  *)
(* it.                                                                     *)
Crash(r) ==
  /\ rpc[r] \in {"poll", "loaded", "take", "copy"}
  /\ got' = IF rpc[r] = "copy" THEN Append(got, data[read_index]) ELSE got
  /\ rpc' = [rpc EXCEPT ![r] = "done"]
  /\ UNCHANGED <<shared, session, writer, rw, rr, sent>>

-----------------------------------------------------------------------------
Sender == Pop \/ Judge \/ Skip \/ Send \/ Fill \/ Publish
Poll(r) == LoadWrite(r) \/ LoadRead(r) \/ Take(r) \/ CopyOut(r)

Next ==
  \/ Stop
  \/ Stopped
  \/ Sender
  \/ \E r \in Readers : StartReset(r) \/ StartRun(r) \/ Join(r)
                         \/ Poll(r) \/ Quit(r) \/ Crash(r)

(* The scheduler runs the kernel thread and the reader; nobody has to type *)
(* a command, and an analysis need not send anything.                      *)
Fairness ==
  /\ WF_vars(Judge \/ Skip \/ Send \/ Fill \/ Publish)
  /\ \A r \in Readers : WF_vars(Poll(r))

Spec == Init /\ [][Next]_vars
FairSpec == Spec /\ Fairness

-----------------------------------------------------------------------------
(* Properties.                                                             *)

TypeOK ==
  /\ write_index \in Slots /\ read_index \in Slots
  /\ data \in [Slots -> Message \cup {NoMessage}]
  /\ session \in {"idle", "on", "stopping"}
  /\ wpc \in {"idle", "popped", "judged", "copy", "filled"}
  /\ seq \in 0 .. MaxMsg
  /\ rpc \in [Readers -> {"off", "reset", "poll", "loaded", "take", "copy", "done"}]
  /\ rw \in [Readers -> Slots] /\ rr \in [Readers -> Slots]
  /\ sent \in Seq(Message) /\ got \in Seq(Message)

(* The inductive invariant: the indices are the numbers of the messages    *)
(* published and taken, modulo M, except between the two stores of "r".    *)
Active(r) == rpc[r] \notin {"off", "done"}
Resetting == \E r \in Readers : rpc[r] = "reset"
Taken == Len(got) + (IF \E r \in Readers : rpc[r] = "copy" THEN 1 ELSE 0)

OneReader == \A q, r \in Readers : Active(q) /\ Active(r) => q = r

SessionInv ==
  /\ session = "idle" => wpc = "idle"
  /\ Resetting => session = "idle"
  /\ wpc # "idle" => seq >= 1

IndexInv ==
  /\ Resetting => write_index = 1
  /\ ~Resetting =>
       /\ write_index = (Len(sent) + 1) % M
       /\ read_index = Taken % M
       /\ Taken <= Len(sent)
       /\ Len(sent) - Taken <= M - 2
       /\ wpc \in {"judged", "copy", "filled"} => Len(sent) - Taken <= M - 3

DataInv ==
  ~Resetting =>
    /\ \A k \in Len(got) + 1 .. Len(sent) : data[k % M] = sent[k]
    /\ wpc = "filled" => data[FillSlot] = seq

(* What a reader loaded lies between what is taken and what is published.  *)
ReaderInv ==
  \A r \in Readers :
    /\ rpc[r] \in {"loaded", "take"} =>
         \E j \in Len(got) .. Len(sent) :
           rw[r] = (j + 1) % M /\ (rpc[r] = "take" => Len(got) < j)
    /\ rpc[r] = "take" => rr[r] = read_index

(* The ring's positions, contents and readers agree with what was sent and *)
(* taken, in every step of send_msg_by_mmap, read_data and recv_callback.  *)
IndInv == TypeOK /\ OneReader /\ SessionInv /\ IndexInv /\ DataInv /\ ReaderInv

(* While read_data copies a message out, its read_index already published, *)
(* send_msg_by_mmap is not copying another one into the same slot: the     *)
(* full test keeps the slot read_index names free.                         *)
NoDataRace ==
  \A r \in Readers : ~(rpc[r] = "copy" /\ wpc = "copy" /\ read_index = FillSlot)

(* Room seen by judge_message_struct_full is still there when              *)
(* send_msg_by_mmap tests again, so that no record is entered in the list  *)
(* of analysed code and then loses its message.                            *)
RoomAfterJudge == wpc = "judged" => ~Full

(* The lock-free ring is a bounded channel: each message of a session is   *)
(* obtained once and in order, although read_data gives the slot back      *)
(* before it has copied the message.                                       *)
Channel == INSTANCE BoundedChannel WITH Capacity <- M - 1
ImplementsChannel == Channel!Spec

(* A published message is obtained, unless the reader is told to end:      *)
(* however the sender's steps fall between the reader's loads.             *)
EveryMessageRead ==
  \A k \in Message :
    (Len(sent) >= k) ~> (Len(got) >= k \/ \A r \in Readers : rpc[r] \in {"off", "reset", "done"})
=============================================================================
