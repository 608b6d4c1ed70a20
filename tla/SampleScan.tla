----------------------------- MODULE SampleScan -----------------------------
(***************************************************************************)
(* One CPU's debug store and the handler that empties it.  While a process *)
(* runs in user mode the hardware appends records; when the scheduler      *)
(* leaves the process, with the hook set, pebs_record_handler goes through *)
(* the store from the newest record to the oldest, writes every branch     *)
(* miss that directly follows a near cache miss to the ring, in the name   *)
(* of the process that is left, and empties the store.  The counters count *)
(* user mode only, so nothing is added meanwhile.                          *)
(*                                                                         *)
(* A record is its event, whether its address is one of the two that the   *)
(* handler looks for in this process, its distance in time from the record *)
(* before it, and - history - the process it was taken from.               *)
(***************************************************************************)
EXTENDS Integers, Sequences

CONSTANTS
  Procs,  \* processes
  Size,   \* records that fit into the store
  Limit,  \* 300: the greatest distance of the two records of a pair
  Wrap,   \* 2^32: the distance is kept in 32 bits
  Samples \* what the hardware may record: event, hit and gap

ASSUME SampleAssumption ==
  /\ Procs # {} /\ Size \in Nat /\ Limit \in Nat /\ Wrap \in Nat \ {0}
  /\ Samples \subseteq [event : 1 .. 3, hit : BOOLEAN, gap : Nat]

VARIABLES
  cur,      \* the process on the CPU
  store,    \* the records from pebs_base to pebs_index
  hooked,   \* pebs_handler is set
  emptied,  \* history: a handler has emptied the store since sampling began
  pc,       \* "user", or "scan" in the handler
  p1, p2,   \* cur_p_1 and cur_p_2, as positions in the store
  written   \* write_ring_buffer calls of this scan: pid, position of the branch miss

vars == <<cur, store, hooked, emptied, pc, p1, p2, written>>

(* The counter that overflowed, as a bit: 1 or 2, or 3 when both did.      *)
CacheMiss == 1
BranchMiss == 2
Events == 1 .. 3
Record == [event : Events, hit : BOOLEAN, gap : Nat, who : Procs]

Init ==
  /\ cur \in Procs /\ store = <<>> /\ hooked = FALSE /\ emptied = FALSE
  /\ pc = "user" /\ p1 = 0 /\ p2 = 0 /\ written = <<>>

(* The hardware takes a record; a full store takes none.                   *)
Sample(s) ==
  /\ pc = "user" /\ Len(store) < Size
  /\ store' = Append(store, [event |-> s.event, hit |-> s.hit, gap |-> s.gap, who |-> cur])
  /\ UNCHANGED <<cur, hooked, emptied, pc, p1, p2, written>>

(* pebs_mod_init sets the hook some time after the CPU began to sample.    *)
SetHook ==
  /\ ~hooked /\ hooked' = TRUE
  /\ UNCHANGED <<cur, store, emptied, pc, p1, p2, written>>

(* The scheduler takes another process, without a handler.                 *)
Switch(p) ==
  /\ pc = "user" /\ ~hooked
  /\ cur' = p
  /\ UNCHANGED <<store, hooked, emptied, pc, p1, p2, written>>

(* It calls the handler, while the old process is still current.           *)
Enter ==
  /\ pc = "user" /\ hooked
  /\ pc' = "scan"
  /\ p2' = Len(store) /\ p1' = Len(store) - 1
  /\ written' = <<>>
  /\ UNCHANGED <<cur, store, hooked, emptied>>

(* The condition of the loop; p1 is only set again at a branch miss.       *)
More == p2 > 1 /\ p1 >= 1

\* A mutant of SkipRecord.
SkipRecordAndPair ==
  /\ pc = "scan" /\ More
  /\ store[p2].event # BranchMiss
  /\ p2' = p2 - 2
  /\ UNCHANGED <<cur, store, hooked, emptied, pc, p1, written>>
SkipRecord ==
  /\ pc = "scan" /\ More
  /\ store[p2].event # BranchMiss
  /\ p2' = p2 - 1
  /\ UNCHANGED <<cur, store, hooked, emptied, pc, p1, written>>

(* The two records at k and before it are the pattern: a cache miss at the *)
(* one address, shortly before a branch miss at the other.                 *)
Near(k) == store[k].gap % Wrap <= Limit
IsPair(k) ==
  /\ store[k].event = BranchMiss /\ store[k - 1].event = CacheMiss
  /\ store[k].hit /\ store[k - 1].hit
  /\ Near(k)

\* A mutant of Examine.
ExamineStays ==
  /\ pc = "scan" /\ More
  /\ store[p2].event = BranchMiss
  /\ p1' = p2 - 1 /\ p2' = IF IsPair(p2) THEN p1' ELSE p2
  /\ written' = IF IsPair(p2) THEN Append(written, [pid |-> cur, at |-> p2]) ELSE written
  /\ UNCHANGED <<cur, store, hooked, emptied, pc>>
(* A branch miss is compared with the record before it only, and the scan  *)
(* goes on with that one.                                                  *)
Examine ==
  /\ pc = "scan" /\ More
  /\ store[p2].event = BranchMiss
  /\ p1' = p2 - 1 /\ p2' = p1'
  /\ written' = IF IsPair(p2) THEN Append(written, [pid |-> cur, at |-> p2]) ELSE written
  /\ UNCHANGED <<cur, store, hooked, emptied, pc>>

\* A mutant of Leave.
LeaveFull(p) ==
  /\ pc = "scan" /\ ~More
  /\ written' = <<>> /\ p1' = 0 /\ p2' = 0
  /\ pc' = "user" /\ cur' = p /\ emptied' = TRUE
  /\ UNCHANGED <<store, hooked>>
(* The store is emptied and the scheduler switches to p.                   *)
Leave(p) ==
  /\ pc = "scan" /\ ~More
  /\ store' = <<>> /\ written' = <<>> /\ p1' = 0 /\ p2' = 0
  /\ pc' = "user" /\ cur' = p /\ emptied' = TRUE
  /\ UNCHANGED hooked

Handler == SkipRecord \/ Examine \/ \E p \in Procs : Leave(p)

Next ==
  \/ \E s \in Samples : Sample(s)
  \/ SetHook
  \/ \E p \in Procs : Switch(p)
  \/ Enter
  \/ Handler

(* The handler runs with interrupts off.                                   *)
Fairness == WF_vars(Handler)

Spec == Init /\ [][Next]_vars
FairSpec == Spec /\ Fairness

-----------------------------------------------------------------------------
(* Properties.                                                             *)

TypeOK ==
  /\ cur \in Procs /\ store \in Seq(Record) /\ Len(store) <= Size
  /\ hooked \in BOOLEAN /\ emptied \in BOOLEAN
  /\ pc \in {"user", "scan"}
  /\ p1 \in Int /\ p2 \in Int
  /\ written \in Seq([pid : Procs, at : Nat])

(* The scan misses no pair and reports none twice, though the loop tests a *)
(* pointer it does not always move: when it ends, what it has written is   *)
(* exactly the pairs of the store, the newest first.                       *)
Found == {written[i].at : i \in DOMAIN written}
ScanIsComplete ==
  pc = "scan" /\ ~More =>
    /\ Found = {k \in 2 .. Len(store) : IsPair(k)}
    /\ \A i, j \in DOMAIN written : i < j => written[i].at > written[j].at

(* A pair is charged to the process it was taken from, once a handler has  *)
(* emptied the store: what was sampled between the set-up of the CPU and   *)
(* the hook is charged to whoever runs then.                               *)
ChargedToItsOwner ==
  emptied => \A i \in DOMAIN written :
    LET k == written[i].at
    IN  store[k].who = written[i].pid /\ store[k - 1].who = written[i].pid

(* The handler, which keeps the CPU from everything else, ends.            *)
ScanEnds == pc = "scan" ~> pc = "user"
=============================================================================
