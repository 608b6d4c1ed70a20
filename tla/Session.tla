------------------------------- MODULE Session -------------------------------
(***************************************************************************)
(* The life of the kernel module and of its sessions.  Loading takes five  *)
(* things one after the other; message "r" switches sampling on            *)
(* (pebs_mod_init) and "s" off (pebs_mod_exit), any step of which may      *)
(* fail, while the hook of the scheduler calls the handler on every CPU    *)
(* and the analysis thread runs.                                           *)
(*                                                                         *)
(* recv_callback runs in the process that sends the message.  The code     *)
(* keeps an "s" out while an "r" is under way and an "r" out while an "s"  *)
(* is, because is_start is written last; two of the same kind it does not  *)
(* keep apart, and the model assumes that they do not meet.  A message     *)
(* that is kept out changes nothing here.                                  *)
(*                                                                         *)
(* A use of memory or code that is not there sets fault, and nothing       *)
(* happens after it.                                                       *)
(***************************************************************************)
EXTENDS Integers

CONSTANT NumCpus   \* the CPUs, numbered from 0 and online all the time

ASSUME CpusAssumption == NumCpus \in Nat \ {0}

VARIABLES
  module,    \* "out", "loading" or "in"
  held,      \* what the load has taken: area, chrdev, class, device, netlink
  dangling,  \* a load that failed left pointers to what it gave back
  leftOn,    \* history: the module was unloaded without a stop
  is_start,  \* this_netlink.is_start
  pc,        \* where pebs_mod_init or pebs_mod_exit is
  todo,      \* the CPUs it has not called yet
  hook,      \* pebs_handler; "gone" when the module it pointed into is
  stores,    \* CPUs whose cpu_ds_p is set
  armed,     \* CPUs that sample into a store
  leaked,    \* CPUs with a store nobody can free any more
  rings,     \* alloc_ring_buffer's memory is there
  list,      \* alloc_taine_analyze_list's memory is there
  analyze_pthread,  \* "null", "task" or "error"
  need_to_stop, should_stop,
  hpc, tpc,  \* where the handler of each CPU and the thread are
  orphan,    \* a thread runs in a module that is gone
  unset,     \* history: CPUs whose set-up gave up in this session
  lack,      \* history: what else this session could not get
  fault      \* the first use of what is not there

loader == <<module, held, dangling, leftOn>>
cpuVars == <<stores, armed, leaked, unset>>
memory == <<rings, list, lack>>
threadVars == <<tpc, orphan>>
control == <<is_start, pc, todo, hook, analyze_pthread, need_to_stop, should_stop>>
vars == <<loader, cpuVars, memory, threadVars, control, hpc, fault>>

CPUs == 0 .. NumCpus - 1
Steps == 5

Init ==
  /\ module = "out" /\ held = 0 /\ dangling = FALSE /\ leftOn = FALSE
  /\ is_start = 0 /\ pc = "idle" /\ todo = {} /\ hook = "null"
  /\ stores = {} /\ armed = {} /\ leaked = {} /\ unset = {}
  /\ rings = FALSE /\ list = FALSE /\ lack = {}
  /\ analyze_pthread = "null" /\ need_to_stop = 0 /\ should_stop = FALSE
  /\ hpc = [c \in CPUs |-> "idle"] /\ tpc = "none" /\ orphan = FALSE
  /\ fault = "none"

-----------------------------------------------------------------------------
(* Load and unload.                                                        *)

Acquire ==
  /\ fault = "none" /\ module # "in"
  /\ held' = held + 1
  /\ module' = IF held' = Steps THEN "in" ELSE "loading"
  /\ dangling' = FALSE
  /\ UNCHANGED <<leftOn, cpuVars, memory, threadVars, control, hpc, fault>>

(* Without memory for the area the load succeeds, with nothing.  After any *)
(* later failure all is given back, pointers stay, and the uninitialised   *)
(* result says either.                                                     *)
AcquireFails ==
  /\ fault = "none" /\ module # "in"
  /\ IF held = 0 THEN module' = "in" /\ dangling' = FALSE
                 ELSE module' \in {"in", "out"} /\ dangling' = (module' = "in")
  /\ held' = 0
  /\ UNCHANGED <<leftOn, cpuVars, memory, threadVars, control, hpc, fault>>

(* rmmod, when no process has the device or a socket open; it waits for    *)
(* running handlers.  The variables of the module go with it; what a       *)
(* session holds stays behind.                                             *)
Unload ==
  /\ fault = "none" /\ module = "in" /\ pc = "idle"
  /\ \A c \in CPUs : hpc[c] = "idle"
  /\ module' = "out" /\ held' = 0 /\ UNCHANGED dangling
  /\ fault' = IF dangling THEN "twice" ELSE fault
  /\ leftOn' = (leftOn \/ is_start = 1)
  /\ hook' = IF hook = "null" THEN "null" ELSE "gone"
  /\ orphan' = (orphan \/ tpc # "none") /\ tpc' = "none"
  /\ leaked' = leaked \cup stores /\ stores' = {}
  /\ rings' = FALSE /\ list' = FALSE
  /\ is_start' = 0 /\ analyze_pthread' = "null" /\ need_to_stop' = 0
  /\ UNCHANGED <<armed, unset, lack, pc, todo, should_stop, hpc>>

-----------------------------------------------------------------------------
(* "r": pebs_mod_init.                                                     *)

\* A mutant of Start.
StartKeepsFlag ==
  /\ fault = "none" /\ held = Steps /\ is_start = 0 /\ pc = "idle"
  /\ pc' = "set_up" /\ todo' = CPUs /\ need_to_stop' = need_to_stop
  /\ unset' = {} /\ lack' = {}
  /\ UNCHANGED <<loader, stores, armed, leaked, rings, list, threadVars,
                 is_start, hook, analyze_pthread, should_stop, hpc, fault>>
Start ==
  /\ fault = "none" /\ held = Steps /\ is_start = 0 /\ pc = "idle"
  /\ pc' = "set_up" /\ todo' = CPUs /\ need_to_stop' = 0
  /\ unset' = {} /\ lack' = {}
  /\ UNCHANGED <<loader, stores, armed, leaked, rings, list, threadVars,
                 is_start, hook, analyze_pthread, should_stop, hpc, fault>>

(* pebs_mod_init_each_cpu, called on c by on_each_cpu, once its handler is *)
(* out of the way.                                                         *)
OnCpu(c) ==
  /\ fault = "none" /\ pc = "set_up" /\ c \in todo /\ hpc[c] = "idle"
  /\ todo' = todo \ {c}
  /\ UNCHANGED <<loader, memory, threadVars, is_start, pc, hook, analyze_pthread,
                 need_to_stop, should_stop, hpc, fault>>
SetUp(c) ==
  /\ OnCpu(c) /\ c \notin armed
  /\ stores' = stores \cup {c} /\ armed' = armed \cup {c}
  /\ UNCHANGED <<leaked, unset>>
(* check() finds the counters in use, or there is no memory for the store; *)
(* none for its buffer loses the store.                                    *)
SetUpGivesUp(c) ==
  /\ OnCpu(c)
  /\ unset' = unset \cup {c}
  /\ \/ UNCHANGED leaked
     \/ c \notin armed /\ leaked' = leaked \cup {c}
  /\ UNCHANGED <<stores, armed>>

(* alloc_ring_buffer, both of its pieces or none.                          *)
AllocRings ==
  /\ fault = "none" /\ pc = "set_up" /\ todo = {}
  /\ \/ rings' = TRUE /\ pc' = "list" /\ UNCHANGED lack
     \/ rings' = FALSE /\ pc' = "on" /\ lack' = lack \cup {"rings"}
  /\ UNCHANGED <<loader, cpuVars, list, threadVars, is_start, todo, hook,
                 analyze_pthread, need_to_stop, should_stop, hpc, fault>>

(* alloc_taine_analyze_list, and the rings given back if it fails.         *)
AllocList ==
  /\ fault = "none" /\ pc = "list"
  /\ \/ list' = TRUE /\ pc' = "hook" /\ UNCHANGED <<rings, lack>>
     \/ list' = FALSE /\ rings' = FALSE /\ pc' = "on" /\ lack' = lack \cup {"list"}
  /\ UNCHANGED <<loader, cpuVars, threadVars, is_start, todo, hook,
                 analyze_pthread, need_to_stop, should_stop, hpc, fault>>

SetHook ==
  /\ fault = "none" /\ pc = "hook"
  /\ hook' = "handler" /\ pc' = "thread"
  /\ UNCHANGED <<loader, cpuVars, memory, threadVars, is_start, todo,
                 analyze_pthread, need_to_stop, should_stop, hpc, fault>>

(* kthread_run.                                                            *)
RunThread ==
  /\ fault = "none" /\ pc = "thread" /\ pc' = "on"
  /\ \/ tpc' = "top" /\ analyze_pthread' = "task" /\ UNCHANGED lack
     \/ tpc' = "none" /\ analyze_pthread' = "error" /\ lack' = lack \cup {"thread"}
  /\ UNCHANGED <<loader, cpuVars, rings, list, orphan, is_start, todo, hook,
                 need_to_stop, should_stop, hpc, fault>>

(* The result of pebs_mod_init is not asked.                               *)
Started ==
  /\ fault = "none" /\ pc = "on"
  /\ is_start' = 1 /\ pc' = "idle"
  /\ UNCHANGED <<loader, cpuVars, memory, threadVars, todo, hook, analyze_pthread,
                 need_to_stop, should_stop, hpc, fault>>

-----------------------------------------------------------------------------
(* "s": pebs_mod_exit.                                                     *)

Stop ==
  /\ fault = "none" /\ held = Steps /\ is_start = 1 /\ pc = "idle"
  /\ hook' = "null" /\ pc' = "disarm" /\ todo' = CPUs
  /\ UNCHANGED <<loader, cpuVars, memory, threadVars, is_start, analyze_pthread,
                 need_to_stop, should_stop, hpc, fault>>

(* pebs_mod_exit_each_cpu, in two steps: pebs_reset and the frees.  It is  *)
(* called on one CPU after the other, and waits for the handler there,     *)
(* which has interrupts off.                                               *)
Cur == CHOOSE c \in todo : \A d \in todo : c <= d
\* A mutant of Disarm.
DisarmNothing ==
  /\ fault = "none" /\ pc = "disarm" /\ todo # {} /\ hpc[Cur] = "idle"
  /\ pc' = "free_store"
  /\ UNCHANGED <<loader, cpuVars, memory, threadVars, is_start, todo, hook,
                 analyze_pthread, need_to_stop, should_stop, hpc, fault>>
Disarm ==
  /\ fault = "none" /\ pc = "disarm" /\ todo # {} /\ hpc[Cur] = "idle"
  /\ armed' = armed \ {Cur} /\ pc' = "free_store"
  /\ UNCHANGED <<loader, stores, leaked, unset, memory, threadVars, is_start, todo, hook,
                 analyze_pthread, need_to_stop, should_stop, hpc, fault>>
\* A mutant of FreeStore.
FreeStoreKeepsPointer ==
  /\ fault = "none" /\ pc = "free_store"
  /\ todo' = todo \ {Cur} /\ pc' = "disarm"
  /\ UNCHANGED <<loader, cpuVars, memory, threadVars, is_start, hook,
                 analyze_pthread, need_to_stop, should_stop, hpc, fault>>
FreeStore ==
  /\ fault = "none" /\ pc = "free_store"
  /\ stores' = stores \ {Cur} /\ todo' = todo \ {Cur} /\ pc' = "disarm"
  /\ UNCHANGED <<loader, armed, leaked, unset, memory, threadVars, is_start, hook,
                 analyze_pthread, need_to_stop, should_stop, hpc, fault>>

(* The state of the thread is asked of whatever kthread_run returned; then *)
(* kthread_stop begins.                                                    *)
StopThread ==
  /\ fault = "none" /\ pc = "disarm" /\ todo = {}
  /\ need_to_stop' = 1
  /\ CASE analyze_pthread = "null" -> pc' = "free" /\ UNCHANGED <<should_stop, fault>>
       [] analyze_pthread = "task" -> pc' = "join" /\ should_stop' = TRUE /\ UNCHANGED fault
       [] analyze_pthread = "error" -> fault' = "thread" /\ UNCHANGED <<pc, should_stop>>
  /\ UNCHANGED <<loader, cpuVars, memory, threadVars, is_start, todo, hook,
                 analyze_pthread, hpc>>

\* A mutant of Join.
JoinNoWait ==
  /\ fault = "none" /\ pc = "join"
  /\ pc' = "free" /\ tpc' = (IF tpc = "dead" THEN "none" ELSE tpc)
  /\ analyze_pthread' = "null" /\ should_stop' = FALSE
  /\ UNCHANGED <<loader, cpuVars, memory, orphan, is_start, todo, hook, need_to_stop,
                 hpc, fault>>
(* kthread_stop ends when the thread has.                                  *)
Join ==
  /\ fault = "none" /\ pc = "join" /\ tpc = "dead"
  /\ pc' = "free" /\ tpc' = "none" /\ analyze_pthread' = "null" /\ should_stop' = FALSE
  /\ UNCHANGED <<loader, cpuVars, memory, orphan, is_start, todo, hook, need_to_stop,
                 hpc, fault>>

(* free_ring_buffer and free_taine_analyze_list.                           *)
Free ==
  /\ fault = "none" /\ pc = "free"
  /\ rings' = FALSE /\ list' = FALSE /\ pc' = "off"
  /\ UNCHANGED <<loader, cpuVars, lack, threadVars, is_start, todo, hook,
                 analyze_pthread, need_to_stop, should_stop, hpc, fault>>

(* "exit" is sent, and is_start cleared.                                   *)
Stopped ==
  /\ fault = "none" /\ pc = "off"
  /\ is_start' = 0 /\ pc' = "idle"
  /\ UNCHANGED <<loader, cpuVars, memory, threadVars, todo, hook, analyze_pthread,
                 need_to_stop, should_stop, hpc, fault>>

Command ==
  \/ \E c \in CPUs : SetUp(c) \/ SetUpGivesUp(c)
  \/ AllocRings \/ AllocList \/ SetHook \/ RunThread \/ Started
  \/ Disarm \/ FreeStore \/ StopThread \/ Join \/ Free \/ Stopped

-----------------------------------------------------------------------------
(* pick_next_task on CPU c, with interrupts off from the test of the hook  *)
(* to the end of the handler.                                              *)

Handler(c, from, to, whatsMissing) ==
  /\ fault = "none" /\ hpc[c] = from
  /\ IF whatsMissing = "" THEN hpc' = [hpc EXCEPT ![c] = to] /\ UNCHANGED fault
                          ELSE fault' = whatsMissing /\ UNCHANGED hpc
  /\ UNCHANGED <<loader, cpuVars, memory, threadVars, control>>

CallHook(c) ==
  /\ hook # "null" /\ ~(pc = "free_store" /\ c = Cur)
  /\ Handler(c, "idle", "look", IF hook = "gone" THEN "text" ELSE "")
LookAtStore(c) == Handler(c, "look", "scan", IF c \in stores THEN "" ELSE "store")
WriteRing(c) == Handler(c, "scan", "scan", IF rings THEN "" ELSE "rings")
ResetStore(c) == Handler(c, "scan", "idle", IF c \in stores THEN "" ELSE "store")

HandlerStep(c) == LookAtStore(c) \/ WriteRing(c) \/ ResetStore(c)

-----------------------------------------------------------------------------
(* thread_analyze_func.                                                    *)

ThreadStep(from, to, whatsMissing) ==
  /\ fault = "none" /\ tpc = from
  /\ IF whatsMissing = "" THEN tpc' = to /\ UNCHANGED fault
                          ELSE fault' = whatsMissing /\ UNCHANGED tpc
  /\ UNCHANGED <<loader, cpuVars, memory, control, hpc, orphan>>

\* A mutant of AskShouldStop.
AskShouldStopNever == ThreadStep("top", "scan", "")
AskShouldStop == ThreadStep("top", IF should_stop THEN "dead" ELSE "scan", "")
AskNeedToStop == need_to_stop = 0 /\ ThreadStep("scan", "read", "")
(* A record, or none: then it goes to the next ring and at last to the top.*)
ReadRing == ThreadStep("read", "analyse", IF rings THEN "" ELSE "rings")
FindNothing == ThreadStep("read", "top", "")
Leave == need_to_stop = 1 /\ ThreadStep("scan", "top", "")
SearchList == ThreadStep("analyse", "scan", IF list THEN "" ELSE "list")

Thread ==
  AskShouldStop \/ AskNeedToStop \/ ReadRing \/ FindNothing \/ Leave \/ SearchList

(* A thread whose module is gone runs on.                                  *)
OrphanRuns ==
  /\ fault = "none" /\ orphan /\ fault' = "text"
  /\ UNCHANGED <<loader, cpuVars, memory, threadVars, control, hpc>>

-----------------------------------------------------------------------------
Next ==
  \/ Acquire \/ AcquireFails \/ Unload
  \/ Start \/ Stop \/ Command
  \/ \E c \in CPUs : CallHook(c) \/ HandlerStep(c)
  \/ Thread
  \/ OrphanRuns

(* A command that has begun is carried on, handlers run with interrupts    *)
(* off, and the thread is scheduled.                                       *)
Fairness ==
  /\ WF_vars(Command)
  /\ WF_vars(Thread)
  /\ \A c \in CPUs : WF_vars(LookAtStore(c) \/ ResetStore(c))

Spec == Init /\ [][Next]_vars
FairSpec == Spec /\ Fairness

-----------------------------------------------------------------------------
(* Properties.                                                             *)

TypeOK ==
  /\ module \in {"out", "loading", "in"} /\ held \in 0 .. Steps
  /\ dangling \in BOOLEAN /\ leftOn \in BOOLEAN
  /\ is_start \in {0, 1} /\ need_to_stop \in {0, 1} /\ should_stop \in BOOLEAN
  /\ pc \in {"idle", "set_up", "list", "hook", "thread", "on",
             "disarm", "free_store", "join", "free", "off"}
  /\ todo \subseteq CPUs /\ hook \in {"null", "handler", "gone"}
  /\ stores \subseteq CPUs /\ armed \subseteq CPUs /\ leaked \subseteq CPUs
  /\ unset \subseteq CPUs /\ lack \subseteq {"rings", "list", "thread"}
  /\ rings \in BOOLEAN /\ list \in BOOLEAN
  /\ analyze_pthread \in {"null", "task", "error"}
  /\ hpc \in [CPUs -> {"idle", "look", "scan"}]
  /\ tpc \in {"none", "top", "scan", "read", "analyse", "dead"} /\ orphan \in BOOLEAN
  /\ fault \in {"none", "store", "rings", "list", "thread", "text", "twice"}

(* Nothing freed is used by a handler or by the thread, whatever fails and *)
(* whenever a session is stopped.  What can be hit is what never was: the  *)
(* store of a CPU whose set-up gave up, the thread that was not created;   *)
(* a module removed during a session; and pointers kept by a failed load.  *)
FaultHasCause ==
  /\ fault \notin {"rings", "list"}
  /\ fault = "store" => \E c \in unset : hpc[c] = "look"
  /\ fault = "thread" => "thread" \in lack
  /\ fault = "text" => leftOn
  /\ fault = "twice" => dangling

(* The hardware writes into a store at any time: it is never told of one   *)
(* that is freed.                                                          *)
SamplesIntoStore == armed \subseteq stores \cup leaked

(* A stop undoes the start: with is_start 0 and no command under way there *)
(* is no hook, no sampling, no memory and no thread, whatever failed at    *)
(* the start.  Only the store of a CPU that found no memory for its buffer *)
(* is lost (leaked).                                                       *)
Quiet == pc = "idle" /\ fault = "none" /\ ~leftOn
OffLeavesNothing ==
  Quiet /\ is_start = 0 =>
    /\ hook = "null" /\ armed = {} /\ stores = {} /\ ~rings /\ ~list
    /\ tpc = "none" /\ analyze_pthread = "null"
    /\ \A c \in CPUs : hpc[c] = "idle"

(* The user takes every start to have worked.  What a session really has   *)
(* while it is on is told by what failed at its start, and is one of three *)
(* things, on every CPU that could be set up.  All of it, if nothing did.  *)
(* Without the memory, samples that nobody takes from the stores: no half  *)
(* of the memory, no hook and no thread.  And without the thread, rings    *)
(* that handlers fill and nobody reads; such a session cannot be switched  *)
(* off any more.                                                           *)
Works ==
  /\ hook = "handler" /\ rings /\ list /\ need_to_stop = 0
  /\ analyze_pthread = "task" /\ tpc \notin {"none", "dead"}
OnlySamples ==
  /\ hook = "null" /\ ~rings /\ ~list /\ \A c \in CPUs : hpc[c] = "idle"
  /\ analyze_pthread = "null" /\ tpc = "none"
FillsUnread ==
  /\ hook = "handler" /\ rings /\ list
  /\ analyze_pthread = "error" /\ tpc = "none"
StaysOn == "thread" \in lack /\ ~leftOn => is_start = 1 \/ pc = "on"
OnMatchesWhatFailed ==
  /\ Quiet /\ is_start = 1 =>
       /\ armed = CPUs \ unset /\ stores = armed
       /\ \/ lack = {} /\ Works
          \/ lack \in {{"rings"}, {"list"}} /\ OnlySamples
          \/ lack = {"thread"} /\ FillsUnread
  /\ StaysOn

(* A command ends: handlers get out of the way of the calls on their CPUs, *)
(* and the thread sees that it is to stop, however many records wait.      *)
CommandEnds == pc # "idle" ~> (pc = "idle" \/ fault # "none")
=============================================================================
