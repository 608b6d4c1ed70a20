------------------------------ MODULE PebsRing ------------------------------
(***************************************************************************)
(* The first stage of the pipeline: on every CPU the handler called from   *)
(* pick_next_task writes suspicious records into the ring of that CPU      *)
(* (write_ring_buffer), and the analysis thread empties the rings one      *)
(* after the other (read_ring_buffer).  A table of recently seen code,     *)
(* searched over all CPUs and written without a lock, keeps the handlers   *)
(* from writing the same code again and again.                             *)
(*                                                                         *)
(* A handler runs with interrupts off, so there is one at a time on a CPU; *)
(* handlers of different CPUs and the thread interleave.  The search of    *)
(* the table, the update of the table, the copying of the record and the   *)
(* store of the index are separate steps.                                  *)
(***************************************************************************)
EXTENDS Integers, Sequences, FiniteSetsExt

CONSTANTS
  NumCpus,   \* num_online_cpus(), each with a ring and a part of the table
  N,         \* RING_BUFFER_ITEM_SINGLE_SIZE_NUM, records of a ring
  P,         \* PER_CPU_ANALYZE_RING_BUFFER_SIZE, processes of a table part
  A,         \* PER_CPU_SINGLE_ANALYZE_BUFFER_SIZE, codes of a process
  Pids,      \* processes that run (pid 0 is not recorded)
  Codes,     \* pairs of start and end address
  MaxRec     \* bound: records published on a CPU

ASSUME SizesAssumption ==
  /\ NumCpus \in Nat \ {0}
  /\ N \in Nat /\ N >= 3
  /\ P \in Nat \ {0} /\ A \in Nat \ {0} /\ MaxRec \in Nat
ASSUME NamesAssumption == 0 \notin Pids /\ 0 \notin Codes

VARIABLES
  read_index,   \* buffers.items[cpu].read_index, -1 before the first read
  write_index,  \* buffers.items[cpu].write_index
  slots,        \* the records of each ring, named by their ordinal
  table,        \* ring_buffer[cpu][p]: a pid and its analyze_buffer
  next_pid,     \* per_cpu_buffer_index[cpu]
  hpc,          \* where the handler of each CPU is
  job,          \* its record and the table entry it is going to write
  tpc, tcpu, tr,\* where the thread is, the ring it reads, the slot it copies
  pub,          \* history: records published on each CPU
  con,          \* history: ordinals the thread got from each CPU
  known,        \* history: the <<pid, code>> published so far
  recycled      \* history: table slots taken away from a process

ringVars == <<read_index, write_index, slots>>
tableVars == <<table, next_pid, recycled>>
thread == <<tpc, tcpu, tr>>
history == <<pub, con, known>>
vars == <<read_index, write_index, slots, table, next_pid, hpc, job,
          tpc, tcpu, tr, pub, con, known, recycled>>

CPUs == 0 .. NumCpus - 1
NoPid == 0
NoCode == 0
Index == 0 .. N - 1
TableSlots == CPUs \X (0 .. P - 1)
(* buffer[num = 0] of a fresh or never filled entry.                       *)
Empty == [info |-> NoCode, num |-> 0]
NoJob == [pid |-> NoPid, code |-> NoCode, new |-> FALSE, loc |-> <<>>, at |-> 0]

-----------------------------------------------------------------------------
(* The table.                                                              *)

(* The slots of pid the search can reach: it leaves a CPU's part at the    *)
(* first slot without a process.                                           *)
Reach(pid) ==
  {l \in TableSlots : /\ table[l].pid = pid
                      /\ \A q \in 0 .. l[2] : table[<<l[1], q>>].pid # NoPid}
Before(l, m) == l[1] < m[1] \/ (l[1] = m[1] /\ l[2] < m[2])
\* A mutant of SlotOf.
SlotOfElsewhere(pid) == {l \in Reach(pid) : l[1] # 0 /\ \A m \in Reach(pid) : ~Before(m, l)}
(* The one it finds, the CPUs searched in order.                           *)
SlotOf(pid) == {l \in Reach(pid) : \A m \in Reach(pid) : ~Before(m, l)}

Nums(l) == [i \in 0 .. A - 1 |-> table[l].buf[i].num]
FreeIn(l) == {i \in 0 .. A - 1 : Nums(l)[i] = 0}
(* Entries the comparison with this code reaches.  The flags it also       *)
(* compares are an uninitialised local: any entry may match or not.        *)
MayMatch(l, code) ==
  {i \in 0 .. A - 1 : /\ table[l].buf[i].info = code
                      /\ \A j \in 0 .. i : Nums(l)[j] # 0}
(* The entry to overwrite when none is free: the first of the least used,  *)
(* if it is used less than the first entry (otherwise nothing is written). *)
Victims(l) ==
  {i \in 0 .. A - 1 : /\ Nums(l)[i] < Nums(l)[0]
                      /\ \A j \in 0 .. A - 1 : Nums(l)[j] >= Nums(l)[i]
                      /\ \A j \in 0 .. i - 1 : Nums(l)[j] > Nums(l)[i]}
InsertAt(l) == IF FreeIn(l) # {} THEN {Min(FreeIn(l))} ELSE Victims(l)

-----------------------------------------------------------------------------
(* write_ring_buffer, from the handler of CPU c.                           *)

(* The full test.  Its read_index is the one the handler copied when it    *)
(* was called, -1 until the first record of the ring has been read.        *)
RingFull(c) == (write_index[c] + 1) % N = read_index[c]

Init ==
  /\ read_index = [c \in CPUs |-> -1] /\ write_index = [c \in CPUs |-> 0]
  /\ slots = [c \in CPUs |-> [i \in Index |-> 0]]
  /\ table = [l \in TableSlots |-> [pid |-> NoPid, buf |-> [i \in 0 .. A - 1 |-> Empty]]]
  /\ next_pid = [c \in CPUs |-> 0]
  /\ hpc = [c \in CPUs |-> "idle"] /\ job = [c \in CPUs |-> NoJob]
  /\ tpc = "idle" /\ tcpu = 0 /\ tr = 0
  /\ pub = [c \in CPUs |-> 0] /\ con = [c \in CPUs |-> <<>>]
  /\ known = {} /\ recycled = {}

(* The code is in the table: the handler counts (in the first entry, not   *)
(* in the one that matched) and returns.                                   *)
Suppress(c, pid, code) ==
  /\ hpc[c] = "idle"
  /\ \E l \in SlotOf(pid) :
       /\ MayMatch(l, code) # {}
       /\ table[l].buf[0].num < MaxRec
       /\ table' = [table EXCEPT ![l].buf[0].num = @ + 1]
  /\ UNCHANGED <<ringVars, next_pid, recycled, hpc, job, thread, history>>

(* The search ends with an entry to write, and the ring has room.          *)
Begin(c, pid, code, new, loc, at) ==
  /\ hpc[c] = "idle" /\ pub[c] < MaxRec
  /\ ~RingFull(c)
  /\ hpc' = [hpc EXCEPT ![c] = "mark"]
  /\ job' = [job EXCEPT ![c] =
               [pid |-> pid, code |-> code, new |-> new, loc |-> loc, at |-> at]]
  /\ UNCHANGED <<ringVars, tableVars, thread, history>>

(* The process has a slot; the code is not there, or its flags differ.     *)
BeginCode(c, pid, code) ==
  \E l \in SlotOf(pid) : \E i \in InsertAt(l) : Begin(c, pid, code, FALSE, l, i)

(* The process has no slot: it gets the next one of this CPU.              *)
BeginPid(c, pid, code) ==
  SlotOf(pid) = {} /\ Begin(c, pid, code, TRUE, <<c, next_pid[c]>>, 0)

\* A mutant of Mark.
MarkUnpublished(c) ==
  LET j == job[c] IN
  /\ hpc[c] = "mark"
  /\ table' = [table EXCEPT ![j.loc].pid = j.pid,
                            ![j.loc].buf[j.at] = [info |-> j.code, num |-> 1]]
  /\ hpc' = [hpc EXCEPT ![c] = "idle"]
  /\ UNCHANGED <<ringVars, next_pid, recycled, job, thread, history>>
(* The entry is written.  A slot taken over from another process gets a    *)
(* new pid and first entry, and keeps its other entries.                   *)
Mark(c) ==
  LET j == job[c]
      entry == [info |-> j.code, num |-> 1]
  IN
  /\ hpc[c] = "mark"
  /\ IF j.new
     THEN /\ table' = [table EXCEPT ![j.loc].pid = j.pid, ![j.loc].buf[0] = entry]
          /\ next_pid' = [next_pid EXCEPT ![c] = (@ + 1) % P]
          /\ recycled' = IF table[j.loc].pid = NoPid THEN recycled
                         ELSE recycled \cup {j.loc}
     ELSE /\ table' = [table EXCEPT ![j.loc].buf[j.at] = entry]
          /\ UNCHANGED <<next_pid, recycled>>
  /\ hpc' = [hpc EXCEPT ![c] = "write"]
  /\ UNCHANGED <<ringVars, job, thread, history>>

(* The record has been copied into slot write_index.                       *)
WriteSlot(c) ==
  /\ hpc[c] = "write"
  /\ slots' = [slots EXCEPT ![c][write_index[c]] = pub[c] + 1]
  /\ hpc' = [hpc EXCEPT ![c] = "publish"]
  /\ UNCHANGED <<read_index, write_index, tableVars, job, thread, history>>

(* write_index is stored.                                                  *)
Publish(c) ==
  /\ hpc[c] = "publish"
  /\ write_index' = [write_index EXCEPT ![c] = (@ + 1) % N]
  /\ pub' = [pub EXCEPT ![c] = @ + 1]
  /\ known' = known \cup {<<job[c].pid, job[c].code>>}
  /\ hpc' = [hpc EXCEPT ![c] = "idle"]
  /\ job' = [job EXCEPT ![c] = NoJob]
  /\ UNCHANGED <<read_index, slots, tableVars, thread, con>>

Handler(c) ==
  \/ \E pid \in Pids, code \in Codes :
       Suppress(c, pid, code) \/ BeginCode(c, pid, code) \/ BeginPid(c, pid, code)
  \/ Mark(c)
  \/ WriteSlot(c)
  \/ Publish(c)

-----------------------------------------------------------------------------
(* read_ring_buffer, from thread_analyze_func.                             *)

\* A mutant of RingEmpty.
RingEmptyWhenEqual(c) == read_index[c] = write_index[c]
(* The empty test.                                                         *)
RingEmpty(c) == (read_index[c] + 1) % N = write_index[c]

(* The thread copies the indices and starts to copy the next record.       *)
Look ==
  /\ tpc = "idle" /\ ~RingEmpty(tcpu)
  /\ tr' = (read_index[tcpu] + 1) % N
  /\ tpc' = "copy"
  /\ UNCHANGED <<ringVars, tableVars, hpc, job, tcpu, history>>

\* A mutant of NextCpu.
NextCpuStays ==
  /\ tpc = "idle" /\ RingEmpty(tcpu)
  /\ tcpu' = IF tcpu + 1 < NumCpus THEN tcpu + 1 ELSE tcpu
  /\ UNCHANGED <<ringVars, tableVars, hpc, job, tpc, tr, history>>
(* Nothing to read: the loop goes on to the next CPU.                      *)
NextCpu ==
  /\ tpc = "idle" /\ RingEmpty(tcpu)
  /\ tcpu' = (tcpu + 1) % NumCpus
  /\ UNCHANGED <<ringVars, tableVars, hpc, job, tpc, tr, history>>

(* The record is copied and read_index stored.                             *)
Consume ==
  /\ tpc = "copy"
  /\ con' = [con EXCEPT ![tcpu] = Append(@, slots[tcpu][tr])]
  /\ read_index' = [read_index EXCEPT ![tcpu] = tr]
  /\ tpc' = "idle"
  /\ UNCHANGED <<write_index, slots, tableVars, hpc, job, tcpu, tr, pub, known>>

Thread == Look \/ Consume \/ NextCpu

Next == Thread \/ \E c \in CPUs : Handler(c)

(* A handler runs to its end; the thread runs as long as it is not told to *)
(* stop.                                                                   *)
Fairness ==
  /\ WF_vars(Thread)
  /\ \A c \in CPUs : WF_vars(Mark(c) \/ WriteSlot(c) \/ Publish(c))

Spec == Init /\ [][Next]_vars
FairSpec == Spec /\ Fairness

-----------------------------------------------------------------------------
(* Properties.                                                             *)

TypeOK ==
  /\ read_index \in [CPUs -> -1 .. N - 1] /\ write_index \in [CPUs -> Index]
  /\ slots \in [CPUs -> [Index -> 0 .. MaxRec]]
  /\ table \in [TableSlots -> [pid : Pids \cup {NoPid},
                               buf : [0 .. A - 1 -> [info : Codes \cup {NoCode},
                                                     num : 0 .. MaxRec]]]]
  /\ next_pid \in [CPUs -> 0 .. P - 1]
  /\ hpc \in [CPUs -> {"idle", "mark", "write", "publish"}]
  /\ tpc \in {"idle", "copy"} /\ tcpu \in CPUs /\ tr \in Index
  /\ pub \in [CPUs -> 0 .. MaxRec] /\ con \in [CPUs -> Seq(0 .. MaxRec)]
  /\ known \subseteq Pids \X Codes /\ recycled \subseteq TableSlots

(* Until the first read the full test cannot hold, and a ring that is      *)
(* written round once before that stays open to be overrun while the two   *)
(* indices are equal.  From the first time they are not, with a record     *)
(* waiting for the read that is under way and room for the one that is     *)
(* being written, the ring is settled.                                     *)
Pending(c) == (write_index[c] - read_index[c] - 1) % N
Reading(c) == tpc = "copy" /\ tcpu = c
Settled(c) ==
  /\ read_index[c] >= 0 /\ read_index[c] # write_index[c]
  /\ Reading(c) => Pending(c) > 0
  /\ hpc[c] # "idle" => ~RingFull(c)

(* A settled ring stays settled and loses nothing: the thread gets the     *)
(* records one after the other, none of those published passed over.       *)
Gone(c) == pub[c] - Pending(c)
KeepsAll ==
  \A c \in CPUs : Settled(c) =>
    /\ Settled(c)'
    /\ \/ Gone(c)' = Gone(c) /\ UNCHANGED con[c]
       \/ Gone(c)' = Gone(c) + 1 /\ con'[c] = Append(con[c], Gone(c) + 1)
SettledKeepsAll == [][KeepsAll]_vars

(* A handler enters a process in its own part of the table only when the   *)
(* search found it nowhere: with any interleaving of the CPUs it has at    *)
(* most one slot in each part.                                             *)
OneSlotPerPart ==
  \A l, m \in TableSlots :
    l[1] = m[1] /\ table[l].pid = table[m].pid /\ table[l].pid # NoPid => l = m

(* A code that is in the table, and therefore withheld from the ring, has  *)
(* been written to a ring or is being written - except in a slot that was  *)
(* taken over from another process.                                        *)
InFlight(pid, code) ==
  \E c \in CPUs : /\ hpc[c] \in {"write", "publish"}
                  /\ job[c].pid = pid /\ job[c].code = code
TableIsPublished ==
  \A l \in TableSlots \ recycled, i \in 0 .. A - 1 :
    LET e == table[l].buf[i] IN
    e.num > 0 => <<table[l].pid, e.info>> \in known \/ InFlight(table[l].pid, e.info)

(* What is published in a settled ring is read, whatever the handlers of   *)
(* the other CPUs write meanwhile (MaxRec records at most on each).        *)
SettledIsRead ==
  \A c \in CPUs, k \in 1 .. MaxRec : (Settled(c) /\ pub[c] >= k) ~> (Gone(c) >= k)
=============================================================================
