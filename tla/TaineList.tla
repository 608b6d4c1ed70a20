------------------------------ MODULE TaineList ------------------------------
(***************************************************************************)
(* The list of code already analysed (taine_mem_list), which the analysis  *)
(* thread asks, through insert_and_search_analyze_list, whether a record   *)
(* is new.  Entries belong to pids; an entry whose process is gone is      *)
(* given to another pid.  Processes die, and pids are used again, at any   *)
(* time, also between the thread's pid_alive test and the search, and      *)
(* while the search is under way.                                          *)
(*                                                                         *)
(* The memory comes from vmalloc and is not cleared: total_num of an entry *)
(* starts with any value, and is never set when an entry changes hands.    *)
(***************************************************************************)
EXTENDS Integers, Sequences, SequencesExt, FiniteSetsExt

CONSTANTS
  MaxPid,    \* TAINE_ANALYZE_LIST_PID_MAX_NUM, entries of the list
  MaxAddr,   \* TAINE_PID_CONTAIN_ADDR_MAX_NUM, codes of an entry
  Pids,
  Codes,     \* pairs of start and end address
  MaxNum,    \* bound of the counters num and total_num
  MaxAnalysed \* bound: different records handed to the analysis

ASSUME SizesAssumption ==
  MaxPid \in Nat \ {0} /\ MaxAddr \in Nat \ {0} /\ MaxNum \in Nat \ {0}
    /\ MaxAnalysed \in Nat

VARIABLES
  info,      \* taine_mem_list.info
  num,       \* taine_mem_list.num, entries in use
  alive,     \* pids that have a task
  flux,      \* pids that died or came to life since the thread looked
  rec,       \* the record the thread holds: <<pid, code>>, or none
  analysed,  \* history: records handed to pebs_taine_analyze
  raced      \* history: pids whose call overlapped their death or birth

vars == <<info, num, alive, flux, rec, analysed, raced>>

Entries == 0 .. num - 1
NoRec == <<>>
Count(n) == IF n < MaxNum THEN n + 1 ELSE n
Addr(code) == [code |-> code, num |-> 1]

(* The first of the smallest values f takes on S.                          *)
FirstLeast(f, S) ==
  CHOOSE i \in S : \A j \in S : f[i] < f[j] \/ (f[i] = f[j] /\ i <= j)

Init ==
  /\ info \in [0 .. MaxPid - 1 -> [pid : {0}, total_num : 0 .. 1, addr : {<<>>}]]
  /\ num = 0
  /\ alive = Pids /\ flux = {}
  /\ rec = NoRec /\ analysed = {} /\ raced = {}

-----------------------------------------------------------------------------
(* The processes (external).                                               *)
Die(pid) ==
  /\ pid \in alive
  /\ alive' = alive \ {pid} /\ flux' = flux \cup {pid}
  /\ UNCHANGED <<info, num, rec, analysed, raced>>

Spawn(pid) ==
  /\ pid \in Pids \ alive
  /\ alive' = alive \cup {pid} /\ flux' = flux \cup {pid}
  /\ UNCHANGED <<info, num, rec, analysed, raced>>

-----------------------------------------------------------------------------
(* thread_analyze_func has a record, and its process is alive.             *)
TakeUp(pid, code) ==
  /\ rec = NoRec /\ Cardinality(analysed) < MaxAnalysed
  /\ pid \in alive
  /\ rec' = <<pid, code>>
  /\ flux' = {}
  /\ UNCHANGED <<info, num, alive, analysed, raced>>

(* The entries whose process the search finds dead: those of dead pids,    *)
(* and for a pid in flux the answer depends on the moment of the look-up.  *)
SeenDead ==
  {D \in SUBSET Entries :
     \A i \in Entries : info[i].pid \notin flux => (i \in D <=> info[i].pid \notin alive)}

\* A mutant of Visible.
VisibleButLast(pid, D) == {i \in (0 .. num - 2) \ D : info[i].pid = pid}
Visible(pid, D) == {i \in Entries \ D : info[i].pid = pid}
Place(i, code) == {k \in DOMAIN info[i].addr : info[i].addr[k].code = code}

(* The pid and the code are found: the entry counts, the answer is 1 and   *)
(* the record is dropped.                                                  *)
Found(D) ==
  LET pid == rec[1]
      code == rec[2]
      i == Min(Visible(pid, D))
  IN
  /\ rec # NoRec /\ Visible(pid, D) # {} /\ Place(i, code) # {}
  /\ info' = [info EXCEPT ![i].total_num = Count(@),
                          ![i].addr[Min(Place(i, code))].num = Count(@)]
  /\ rec' = NoRec
  /\ raced' = raced \cup (flux \cap {pid})
  /\ UNCHANGED <<num, alive, flux, analysed>>

(* The answer is 0 and the record is analysed.                             *)
Analyse ==
  /\ analysed' = analysed \cup {rec}
  /\ rec' = NoRec
  /\ raced' = raced \cup (flux \cap {rec[1]})
  /\ UNCHANGED <<alive, flux>>

\* A mutant of AddCode.
AddCodeAfterFirst(D) ==
  LET i == Min(Visible(rec[1], D))
      addr == info[i].addr
  IN
  /\ rec # NoRec /\ Visible(rec[1], D) # {} /\ Place(i, rec[2]) = {}
  /\ info' = [info EXCEPT ![i].total_num = Count(@),
                          ![i].addr = IF Len(addr) < MaxAddr
                                      THEN Append(addr, Addr(rec[2]))
                                      ELSE [addr EXCEPT ![1] = Addr(rec[2])]]
  /\ UNCHANGED num
  /\ Analyse

(* The pid is found and the code is not: it is added to the entry, or      *)
(* replaces the first of the least counted codes.                          *)
AddCode(D) ==
  LET pid == rec[1]
      code == rec[2]
      i == Min(Visible(pid, D))
      addr == info[i].addr
      least == FirstLeast([k \in DOMAIN addr |-> addr[k].num], DOMAIN addr)
  IN
  /\ rec # NoRec /\ Visible(pid, D) # {} /\ Place(i, code) = {}
  /\ info' = [info EXCEPT ![i].total_num = Count(@),
                          ![i].addr = IF Len(addr) < MaxAddr
                                      THEN Append(addr, Addr(code))
                                      ELSE [addr EXCEPT ![least] = Addr(code)]]
  /\ UNCHANGED num
  /\ Analyse

\* A mutant of Give.
GiveKeepingCodes(i, pid, code) ==
  info' = [info EXCEPT ![i].pid = pid,
                       ![i].addr = IF @ = <<>> THEN <<Addr(code)>>
                                   ELSE [@ EXCEPT ![1] = Addr(code)]]

(* Entry i now belongs to pid, with this code alone.                       *)
Give(i, pid, code) ==
  info' = [info EXCEPT ![i].pid = pid, ![i].addr = <<Addr(code)>>]

(* The pid is not found, and an entry of a dead process is.                *)
ReuseDead(D) ==
  /\ rec # NoRec /\ Visible(rec[1], D) = {} /\ D # {}
  /\ Give(Min(D), rec[1], rec[2])
  /\ UNCHANGED num
  /\ Analyse

(* No entry is free and the list can grow.                                 *)
Grow(D) ==
  /\ rec # NoRec /\ Visible(rec[1], D) = {} /\ D = {} /\ num < MaxPid
  /\ Give(num, rec[1], rec[2])
  /\ num' = num + 1
  /\ Analyse

(* The list is full of live processes: the entry with the smallest         *)
(* total_num is given away, or entry 0 when none of them is below the      *)
(* number of CODES of entry 0, with which the comparison starts.           *)
EvictedEntry ==
  LET total == [i \in Entries |-> info[i].total_num]
      least == FirstLeast(total, Entries)
  IN  IF total[least] = 0 \/ total[least] < Len(info[0].addr) THEN least ELSE 0
\* A mutant of Evict.
EvictBeforeReuse(D) ==
  /\ rec # NoRec /\ Visible(rec[1], D) = {} /\ num = MaxPid
  /\ Give(EvictedEntry, rec[1], rec[2])
  /\ UNCHANGED num
  /\ Analyse
Evict(D) ==
  /\ rec # NoRec /\ Visible(rec[1], D) = {} /\ D = {} /\ num = MaxPid
  /\ Give(EvictedEntry, rec[1], rec[2])
  /\ UNCHANGED num
  /\ Analyse

InsertAndSearch ==
  \E D \in SeenDead :
    Found(D) \/ AddCode(D) \/ ReuseDead(D) \/ Grow(D) \/ Evict(D)

Next ==
  \/ \E pid \in Pids : Die(pid) \/ Spawn(pid)
  \/ \E pid \in Pids, code \in Codes : TakeUp(pid, code)
  \/ InsertAndSearch

Spec == Init /\ [][Next]_vars

-----------------------------------------------------------------------------
(* Properties.                                                             *)

TypeOK ==
  /\ info \in [0 .. MaxPid - 1 -> [pid : Pids \cup {0}, total_num : 0 .. MaxNum,
                                   addr : Seq([code : Codes, num : 1 .. MaxNum])]]
  /\ \A i \in 0 .. MaxPid - 1 : Len(info[i].addr) <= MaxAddr
  /\ num \in 0 .. MaxPid
  /\ alive \subseteq Pids /\ flux \subseteq Pids
  /\ rec \in (Pids \X Codes) \cup {NoRec}
  /\ analysed \subseteq Pids \X Codes /\ raced \subseteq Pids

(* A record is dropped as known only if it was analysed under that pid:    *)
(* whatever entry is given to whom, no code of the pid before is left.     *)
ListedWasAnalysed ==
  \A i \in Entries : \A k \in DOMAIN info[i].addr :
    <<info[i].pid, info[i].addr[k].code>> \in analysed

(* A pid gets a second entry only when a search for it overlapped its own  *)
(* death or birth, and then analyses its code again.                       *)
OneEntryPerPid ==
  \A i, j \in Entries : info[i].pid = info[j].pid /\ i # j => info[i].pid \in raced

(* A pid that does not die meanwhile loses its entry only when the list is *)
(* full and holds no entry of a process that was dead all the time.        *)
LosesWhenFull ==
  \A i \in Entries :
    (info[i].pid)' # info[i].pid /\ info[i].pid \in alive \ flux =>
      /\ num = MaxPid
      /\ \A j \in Entries : info[j].pid \in alive \cup flux
LiveLosesOnlyWhenFull == [][LosesWhenFull]_vars

(* While a pid lives and keeps its entry, a code is forgotten, to be       *)
(* analysed again when it comes back, only if the entry is full, one at a  *)
(* time, and never one met more often than a code that stays.              *)
LosesOneOfLeast ==
  \A i \in Entries :
    LET old == info[i].addr
        new == (info[i].addr)'
        kept == {k \in DOMAIN old \cap DOMAIN new : old[k].code = new[k].code}
        lost == DOMAIN old \ kept
    IN  (info[i].pid \in alive \ flux /\ info[i].pid = (info[i].pid)' /\ lost # {}) =>
          /\ Len(old) = MaxAddr /\ Cardinality(lost) = 1
          /\ \A k \in kept, l \in lost : old[l].num <= old[k].num
LosesLeastHit == [][LosesOneOfLeast]_vars
=============================================================================
