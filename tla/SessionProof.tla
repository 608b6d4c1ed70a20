---------------------------- MODULE SessionProof ----------------------------
(***************************************************************************)
(* Proofs about the life of the kernel module and its sessions, for every  *)
(* number of CPUs.                                                         *)
(***************************************************************************)
EXTENDS Session, TLAPS

(* Phases of a session: being set up, switched on, being torn down, off.   *)
SettingUp == pc \in {"set_up", "list", "hook", "thread", "on"}
Running == pc = "idle" /\ is_start = 1
Stopping == pc \in {"disarm", "free_store", "join", "free", "off"}
IsOff == pc = "idle" /\ is_start = 0

PhaseInv ==
  /\ SettingUp => is_start = 0
  /\ Stopping => is_start = 1
  /\ pc \notin {"set_up", "disarm", "free_store"} => todo = {}
  /\ SettingUp \/ Running \/ pc \in {"disarm", "free_store"} => need_to_stop = 0
  /\ should_stop => pc = "join"

(* A load that is not at its end has not taken all.                        *)
LoadInv == module # "in" => held < Steps

(* What a session has of memory.                                           *)
MemoryInv ==
  /\ rings => \/ pc \in {"list", "hook", "thread", "on", "disarm", "free_store", "join", "free"}
              \/ Running
  /\ pc = "list" => rings /\ ~list
  /\ pc \in {"hook", "thread"} => rings /\ list
  /\ pc # "list" => (list <=> rings)
  /\ pc \in {"list", "hook", "thread"} => lack = {}
  /\ pc = "set_up" => lack = {}
  /\ pc = "on" \/ Running => (rings <=> lack \cap {"rings", "list"} = {})
  /\ lack \in {{}, {"rings"}, {"list"}, {"thread"}}

(* The hook is set when memory is there, and is null again when the module *)
(* goes in order.                                                          *)
HookInv ==
  /\ hook = "gone" => leftOn
  /\ hook = "handler" => rings /\ (pc \in {"thread", "on"} \/ Running)
  /\ rings /\ (pc \in {"thread", "on"} \/ Running) => hook = "handler"
  /\ Stopping => hook = "null"

(* No CPU is without a store but those that gave up.                       *)
StoreInv ==
  /\ pc = "set_up" => CPUs \ todo \subseteq stores \cup unset
  /\ (SettingUp /\ pc # "set_up") \/ Running => CPUs \subseteq stores \cup unset
  /\ pc \in {"disarm", "free_store"} => todo \subseteq stores \cup unset
  /\ pc \in {"join", "free", "off"} \/ IsOff => stores = {}
  /\ pc \in {"disarm", "free_store"} => stores \subseteq todo
  /\ pc = "free_store" => Cur \notin armed

(* The same of the sampling, which a module removed during a session       *)
(* leaves on.                                                              *)
ArmedInv ==
  /\ armed \subseteq stores \cup leaked
  /\ ~leftOn =>
       /\ stores \cap unset = {}
       /\ pc # "free_store" => armed = stores
       /\ pc = "set_up" => stores \cap todo = {} /\ unset \cap todo = {}
       /\ pc = "free_store" => armed = stores \ {Cur}

HandlerInv ==
  \A c \in CPUs : hpc[c] # "idle" =>
    /\ rings
    /\ pc \in {"thread", "on", "disarm", "free_store"} \/ Running
    /\ pc \in {"disarm", "free_store"} => c \in todo
    /\ pc = "free_store" => c # Cur
    /\ c \in stores \/ (c \in unset /\ hpc[c] = "look")

ThreadInv ==
  /\ tpc # "none" <=> analyze_pthread = "task"
  /\ tpc # "none" => rings
  /\ analyze_pthread # "null" => pc \in {"on", "disarm", "free_store", "join"} \/ Running
  /\ analyze_pthread = "error" => "thread" \in lack
  /\ pc = "on" \/ Running => (rings /\ "thread" \notin lack => analyze_pthread = "task")
  /\ "thread" \in lack /\ (pc \in {"on", "disarm", "free_store"} \/ Running) =>
       analyze_pthread = "error"
  /\ pc \in {"join", "free", "off"} => "thread" \notin lack
  /\ ~rings => analyze_pthread = "null"
  /\ tpc = "dead" => pc = "join"
  /\ pc = "join" => analyze_pthread = "task"
  /\ orphan => leftOn

(* What holds while nothing has gone wrong.                                *)
Orderly ==
  /\ LoadInv /\ PhaseInv /\ MemoryInv /\ HookInv
  /\ StoreInv /\ ArmedInv /\ HandlerInv /\ ThreadInv

(* It, and what is true of the first thing that goes wrong.                *)
SessionInv ==
  /\ TypeOK /\ FaultHasCause /\ SamplesIntoStore
  /\ fault = "none" => Orderly

(* The tuples of variables are expanded everywhere.                         *)
USE DEF loader, cpuVars, memory, threadVars, control

(* todo says which CPU pebs_mod_exit is at.                                *)
LEMMA CurKept == ASSUME UNCHANGED todo PROVE Cur' = Cur
BY DEF Cur

-----------------------------------------------------------------------------
(* Every action keeps the invariant.                                       *)

LEMMA AcquireKeeps ==
  ASSUME SessionInv, Acquire
  PROVE  SessionInv'
<1>1. TypeOK /\ FaultHasCause /\ SamplesIntoStore /\ Orderly
  BY DEF SessionInv, Acquire
<1>2. dangling' \in BOOLEAN
  BY <1>1 DEF TypeOK, Acquire
<1>3. Cur' = Cur
  BY CurKept DEF Acquire
<1>4. TypeOK'
  BY <1>1, <1>2, <1>3 DEF Orderly, TypeOK, LoadInv, CPUs, Steps, Acquire
<1>5. FaultHasCause'
  BY <1>1, <1>2, <1>3 DEF FaultHasCause, Acquire
<1>6. SamplesIntoStore'
  BY <1>1, <1>2, <1>3 DEF SamplesIntoStore, Acquire
<1>7. ASSUME fault' = "none"
      PROVE  Orderly'
  <2>1. LoadInv'
    BY <1>1, <1>2, <1>3 DEF Orderly, LoadInv, TypeOK, Steps, Acquire
  <2>2. PhaseInv'
    BY <1>1, <1>2, <1>3 DEF Orderly, PhaseInv, SettingUp, Running, Stopping,
      Acquire
  <2>3. MemoryInv'
    BY <1>1, <1>2, <1>3 DEF Orderly, MemoryInv, Running, Acquire
  <2>4. HookInv'
    BY <1>1, <1>2, <1>3 DEF Orderly, HookInv, Running, Stopping, Acquire
  <2>5. StoreInv'
    BY <1>1, <1>2, <1>3 DEF Orderly, StoreInv, SettingUp, Running, IsOff,
      Acquire
  <2>6. ArmedInv'
    BY <1>1, <1>2, <1>3 DEF Orderly, ArmedInv, Acquire
  <2>7. HandlerInv'
    BY <1>1, <1>2, <1>3 DEF Orderly, HandlerInv, Running, Acquire
  <2>8. ThreadInv'
    BY <1>1, <1>2, <1>3 DEF Orderly, ThreadInv, Running, Acquire
  <2> QED
    BY <2>1, <2>2, <2>3, <2>4, <2>5, <2>6, <2>7, <2>8 DEF Orderly
<1> QED
  BY <1>4, <1>5, <1>6, <1>7 DEF SessionInv

LEMMA AcquireFailsKeeps ==
  ASSUME SessionInv, AcquireFails
  PROVE  SessionInv'
<1>1. TypeOK /\ FaultHasCause /\ SamplesIntoStore /\ Orderly
  BY DEF SessionInv, AcquireFails
<1>2. dangling' \in BOOLEAN
  BY <1>1 DEF TypeOK, AcquireFails
<1>3. Cur' = Cur
  BY CurKept DEF AcquireFails
<1>4. TypeOK'
  BY <1>1, <1>2, <1>3 DEF Orderly, TypeOK, LoadInv, CPUs, Steps, AcquireFails
<1>5. FaultHasCause'
  BY <1>1, <1>2, <1>3 DEF FaultHasCause, AcquireFails
<1>6. SamplesIntoStore'
  BY <1>1, <1>2, <1>3 DEF SamplesIntoStore, AcquireFails
<1>7. ASSUME fault' = "none"
      PROVE  Orderly'
  <2>1. LoadInv'
    BY <1>1, <1>2, <1>3 DEF Orderly, LoadInv, TypeOK, Steps, AcquireFails
  <2>2. PhaseInv'
    BY <1>1, <1>2, <1>3 DEF Orderly, PhaseInv, SettingUp, Running, Stopping,
      AcquireFails
  <2>3. MemoryInv'
    BY <1>1, <1>2, <1>3 DEF Orderly, MemoryInv, Running, AcquireFails
  <2>4. HookInv'
    BY <1>1, <1>2, <1>3 DEF Orderly, HookInv, Running, Stopping, AcquireFails
  <2>5. StoreInv'
    BY <1>1, <1>2, <1>3 DEF Orderly, StoreInv, SettingUp, Running, IsOff,
      AcquireFails
  <2>6. ArmedInv'
    BY <1>1, <1>2, <1>3 DEF Orderly, ArmedInv, AcquireFails
  <2>7. HandlerInv'
    BY <1>1, <1>2, <1>3 DEF Orderly, HandlerInv, Running, AcquireFails
  <2>8. ThreadInv'
    BY <1>1, <1>2, <1>3 DEF Orderly, ThreadInv, Running, AcquireFails
  <2> QED
    BY <2>1, <2>2, <2>3, <2>4, <2>5, <2>6, <2>7, <2>8 DEF Orderly
<1> QED
  BY <1>4, <1>5, <1>6, <1>7 DEF SessionInv

LEMMA UnloadKeeps ==
  ASSUME SessionInv, Unload
  PROVE  SessionInv'
<1>1. TypeOK /\ FaultHasCause /\ SamplesIntoStore /\ Orderly
  BY DEF SessionInv, Unload
<1>2. leftOn' \in BOOLEAN /\ orphan' \in BOOLEAN /\ rings' \in BOOLEAN /\ list' \in BOOLEAN
  BY <1>1 DEF TypeOK, Unload
<1>3. TypeOK'
  BY <1>1, <1>2 DEF Orderly, TypeOK, LoadInv, CPUs, Steps, Unload
<1>4. FaultHasCause'
  BY <1>1, <1>2 DEF FaultHasCause, Unload
<1>5. SamplesIntoStore'
  BY <1>1, <1>2 DEF SamplesIntoStore, Unload
<1>6. ASSUME fault' = "none"
      PROVE  Orderly'
  <2>1. LoadInv'
    BY <1>1, <1>2, <1>6 DEF Orderly, LoadInv, TypeOK, Steps, Unload
  <2>2. PhaseInv'
    BY <1>1, <1>2, <1>6 DEF Orderly, PhaseInv, SettingUp, Running, Stopping,
      Unload
  <2>3. MemoryInv'
    BY <1>1, <1>2, <1>6 DEF Orderly, MemoryInv, Running, Unload
  <2>4. HookInv'
    BY <1>1, <1>2, <1>6 DEF Orderly, HookInv, TypeOK, Running, Stopping,
      Unload
  <2>5. StoreInv'
    BY <1>1, <1>2, <1>6 DEF Orderly, StoreInv, SettingUp, Running, IsOff,
      Unload
  <2>6. ArmedInv'
    BY <1>1, <1>2, <1>6 DEF Orderly, ArmedInv, StoreInv, HandlerInv, HookInv,
      TypeOK, SettingUp, Running, Stopping, IsOff, Unload
  <2>7. HandlerInv'
    BY <1>1, <1>2, <1>6 DEF Orderly, HandlerInv, Running, Unload
  <2>8. ThreadInv'
    BY <1>1, <1>2, <1>6 DEF Orderly, ThreadInv, Running, Unload
  <2> QED
    BY <2>1, <2>2, <2>3, <2>4, <2>5, <2>6, <2>7, <2>8 DEF Orderly
<1> QED
  BY <1>3, <1>4, <1>5, <1>6 DEF SessionInv

LEMMA StartKeeps ==
  ASSUME SessionInv, Start
  PROVE  SessionInv'
<1>1. TypeOK /\ FaultHasCause /\ SamplesIntoStore /\ Orderly
  BY DEF SessionInv, Start
<1>2. TypeOK'
  BY <1>1 DEF TypeOK, Start
<1>3. FaultHasCause'
  BY <1>1 DEF FaultHasCause, Start
<1>4. SamplesIntoStore'
  BY <1>1 DEF SamplesIntoStore, Start
<1>5. ASSUME fault' = "none"
      PROVE  Orderly'
  <2>1. LoadInv'
    BY <1>1 DEF Orderly, LoadInv, Start
  <2>2. PhaseInv'
    BY <1>1 DEF Orderly, PhaseInv, SettingUp, Running, Stopping, Start
  <2>3. MemoryInv'
    BY <1>1 DEF Orderly, MemoryInv, Running, Start
  <2>4. HookInv'
    BY <1>1 DEF Orderly, HookInv, Running, Stopping, Start
  <2>5. StoreInv'
    BY <1>1 DEF Orderly, StoreInv, SettingUp, Running, IsOff, Start
  <2>6. ArmedInv'
    BY <1>1 DEF Orderly, ArmedInv, StoreInv, HandlerInv, HookInv, TypeOK,
      SettingUp, Running, Stopping, IsOff, Start
  <2>7. HandlerInv'
    BY <1>1 DEF Orderly, HandlerInv, Running, Start
  <2>8. ThreadInv'
    BY <1>1 DEF Orderly, ThreadInv, Running, Start
  <2> QED
    BY <2>1, <2>2, <2>3, <2>4, <2>5, <2>6, <2>7, <2>8 DEF Orderly
<1> QED
  BY <1>2, <1>3, <1>4, <1>5 DEF SessionInv

LEMMA AllocRingsKeeps ==
  ASSUME SessionInv, AllocRings
  PROVE  SessionInv'
<1>1. TypeOK /\ FaultHasCause /\ SamplesIntoStore /\ Orderly
  BY DEF SessionInv, AllocRings
<1>2. rings' \in BOOLEAN /\ list' \in BOOLEAN
  BY <1>1 DEF TypeOK, AllocRings
<1>3. lack' \subseteq {"rings", "list", "thread"}
  BY <1>1 DEF TypeOK, AllocRings
<1>4. TypeOK'
  BY <1>1, <1>2, <1>3 DEF TypeOK, AllocRings
<1>5. FaultHasCause'
  BY <1>1, <1>2, <1>3 DEF FaultHasCause, AllocRings
<1>6. SamplesIntoStore'
  BY <1>1, <1>2, <1>3 DEF SamplesIntoStore, AllocRings
<1>7. ASSUME fault' = "none"
      PROVE  Orderly'
  <2>1. LoadInv'
    BY <1>1, <1>2, <1>3 DEF Orderly, LoadInv, AllocRings
  <2>2. PhaseInv'
    BY <1>1, <1>2, <1>3 DEF Orderly, PhaseInv, SettingUp, Running, Stopping,
      AllocRings
  <2>3. MemoryInv'
    BY <1>1, <1>2, <1>3 DEF Orderly, MemoryInv, Running, AllocRings
  <2>4. HookInv'
    BY <1>1, <1>2, <1>3 DEF Orderly, HookInv, Running, Stopping, AllocRings
  <2>5. StoreInv'
    BY <1>1, <1>2, <1>3 DEF Orderly, StoreInv, SettingUp, Running, IsOff,
      AllocRings
  <2>6. ArmedInv'
    BY <1>1, <1>2, <1>3 DEF Orderly, ArmedInv, AllocRings
  <2>7. HandlerInv'
    BY <1>1, <1>2, <1>3 DEF Orderly, HandlerInv, Running, AllocRings
  <2>8. ThreadInv'
    BY <1>1, <1>2, <1>3 DEF Orderly, ThreadInv, MemoryInv, Running, AllocRings
  <2> QED
    BY <2>1, <2>2, <2>3, <2>4, <2>5, <2>6, <2>7, <2>8 DEF Orderly
<1> QED
  BY <1>4, <1>5, <1>6, <1>7 DEF SessionInv

LEMMA AllocListKeeps ==
  ASSUME SessionInv, AllocList
  PROVE  SessionInv'
<1>1. TypeOK /\ FaultHasCause /\ SamplesIntoStore /\ Orderly
  BY DEF SessionInv, AllocList
<1>2. rings' \in BOOLEAN /\ list' \in BOOLEAN
  BY <1>1 DEF TypeOK, AllocList
<1>3. lack' \subseteq {"rings", "list", "thread"}
  BY <1>1 DEF TypeOK, AllocList
<1>4. TypeOK'
  BY <1>1, <1>2, <1>3 DEF TypeOK, AllocList
<1>5. FaultHasCause'
  BY <1>1, <1>2, <1>3 DEF FaultHasCause, AllocList
<1>6. SamplesIntoStore'
  BY <1>1, <1>2, <1>3 DEF SamplesIntoStore, AllocList
<1>7. ASSUME fault' = "none"
      PROVE  Orderly'
  <2>1. LoadInv'
    BY <1>1, <1>2, <1>3 DEF Orderly, LoadInv, AllocList
  <2>2. PhaseInv'
    BY <1>1, <1>2, <1>3 DEF Orderly, PhaseInv, SettingUp, Running, Stopping,
      AllocList
  <2>3. MemoryInv'
    BY <1>1, <1>2, <1>3 DEF Orderly, MemoryInv, Running, AllocList
  <2>4. HookInv'
    BY <1>1, <1>2, <1>3 DEF Orderly, HookInv, Running, Stopping, AllocList
  <2>5. StoreInv'
    BY <1>1, <1>2, <1>3 DEF Orderly, StoreInv, SettingUp, Running, IsOff,
      AllocList
  <2>6. ArmedInv'
    BY <1>1, <1>2, <1>3 DEF Orderly, ArmedInv, AllocList
  <2>7. HandlerInv'
    BY <1>1, <1>2, <1>3 DEF Orderly, HandlerInv, Running, AllocList
  <2>8. ThreadInv'
    BY <1>1, <1>2, <1>3 DEF Orderly, ThreadInv, MemoryInv, Running, AllocList
  <2> QED
    BY <2>1, <2>2, <2>3, <2>4, <2>5, <2>6, <2>7, <2>8 DEF Orderly
<1> QED
  BY <1>4, <1>5, <1>6, <1>7 DEF SessionInv

LEMMA SetHookKeeps ==
  ASSUME SessionInv, SetHook
  PROVE  SessionInv'
<1>1. TypeOK /\ FaultHasCause /\ SamplesIntoStore /\ Orderly
  BY DEF SessionInv, SetHook
<1>2. TypeOK'
  BY <1>1 DEF TypeOK, SetHook
<1>3. FaultHasCause'
  BY <1>1 DEF FaultHasCause, SetHook
<1>4. SamplesIntoStore'
  BY <1>1 DEF SamplesIntoStore, SetHook
<1>5. ASSUME fault' = "none"
      PROVE  Orderly'
  <2>1. LoadInv'
    BY <1>1 DEF Orderly, LoadInv, SetHook
  <2>2. PhaseInv'
    BY <1>1 DEF Orderly, PhaseInv, SettingUp, Running, Stopping, SetHook
  <2>3. MemoryInv'
    BY <1>1 DEF Orderly, MemoryInv, Running, SetHook
  <2>4. HookInv'
    BY <1>1 DEF Orderly, HookInv, PhaseInv, MemoryInv, TypeOK, SettingUp,
      Running, Stopping, SetHook
  <2>5. StoreInv'
    BY <1>1 DEF Orderly, StoreInv, SettingUp, Running, IsOff, SetHook
  <2>6. ArmedInv'
    BY <1>1 DEF Orderly, ArmedInv, SetHook
  <2>7. HandlerInv'
    BY <1>1 DEF Orderly, HandlerInv, Running, SetHook
  <2>8. ThreadInv'
    BY <1>1 DEF Orderly, ThreadInv, Running, SetHook
  <2> QED
    BY <2>1, <2>2, <2>3, <2>4, <2>5, <2>6, <2>7, <2>8 DEF Orderly
<1> QED
  BY <1>2, <1>3, <1>4, <1>5 DEF SessionInv

LEMMA RunThreadKeeps ==
  ASSUME SessionInv, RunThread
  PROVE  SessionInv'
<1>1. TypeOK /\ FaultHasCause /\ SamplesIntoStore /\ Orderly
  BY DEF SessionInv, RunThread
<1>2. lack' \subseteq {"rings", "list", "thread"}
  BY <1>1 DEF TypeOK, RunThread
<1>3. TypeOK'
  BY <1>1, <1>2 DEF TypeOK, RunThread
<1>4. FaultHasCause'
  BY <1>1, <1>2 DEF FaultHasCause, RunThread
<1>5. SamplesIntoStore'
  BY <1>1, <1>2 DEF SamplesIntoStore, RunThread
<1>6. ASSUME fault' = "none"
      PROVE  Orderly'
  <2>1. LoadInv'
    BY <1>1, <1>2 DEF Orderly, LoadInv, RunThread
  <2>2. PhaseInv'
    BY <1>1, <1>2 DEF Orderly, PhaseInv, SettingUp, Running, Stopping,
      RunThread
  <2>3. MemoryInv'
    BY <1>1, <1>2 DEF Orderly, MemoryInv, Running, RunThread
  <2>4. HookInv'
    BY <1>1, <1>2 DEF Orderly, HookInv, Running, Stopping, RunThread
  <2>5. StoreInv'
    BY <1>1, <1>2 DEF Orderly, StoreInv, SettingUp, Running, IsOff, RunThread
  <2>6. ArmedInv'
    BY <1>1, <1>2 DEF Orderly, ArmedInv, RunThread
  <2>7. HandlerInv'
    BY <1>1, <1>2 DEF Orderly, HandlerInv, Running, RunThread
  <2>8. ThreadInv'
    BY <1>1, <1>2 DEF Orderly, ThreadInv, PhaseInv, MemoryInv, TypeOK,
      SettingUp, Running, Stopping, RunThread
  <2> QED
    BY <2>1, <2>2, <2>3, <2>4, <2>5, <2>6, <2>7, <2>8 DEF Orderly
<1> QED
  BY <1>3, <1>4, <1>5, <1>6 DEF SessionInv

LEMMA StartedKeeps ==
  ASSUME SessionInv, Started
  PROVE  SessionInv'
<1>1. TypeOK /\ FaultHasCause /\ SamplesIntoStore /\ Orderly
  BY DEF SessionInv, Started
<1>2. TypeOK'
  BY <1>1 DEF TypeOK, Started
<1>3. FaultHasCause'
  BY <1>1 DEF FaultHasCause, Started
<1>4. SamplesIntoStore'
  BY <1>1 DEF SamplesIntoStore, Started
<1>5. ASSUME fault' = "none"
      PROVE  Orderly'
  <2>1. LoadInv'
    BY <1>1 DEF Orderly, LoadInv, Started
  <2>2. PhaseInv'
    BY <1>1 DEF Orderly, PhaseInv, SettingUp, Running, Stopping, Started
  <2>3. MemoryInv'
    BY <1>1 DEF Orderly, MemoryInv, Running, Started
  <2>4. HookInv'
    BY <1>1 DEF Orderly, HookInv, Running, Stopping, Started
  <2>5. StoreInv'
    BY <1>1 DEF Orderly, StoreInv, SettingUp, Running, IsOff, Started
  <2>6. ArmedInv'
    BY <1>1 DEF Orderly, ArmedInv, Started
  <2>7. HandlerInv'
    BY <1>1 DEF Orderly, HandlerInv, Running, Started
  <2>8. ThreadInv'
    BY <1>1 DEF Orderly, ThreadInv, Running, Started
  <2> QED
    BY <2>1, <2>2, <2>3, <2>4, <2>5, <2>6, <2>7, <2>8 DEF Orderly
<1> QED
  BY <1>2, <1>3, <1>4, <1>5 DEF SessionInv

LEMMA StopKeeps ==
  ASSUME SessionInv, Stop
  PROVE  SessionInv'
<1>1. TypeOK /\ FaultHasCause /\ SamplesIntoStore /\ Orderly
  BY DEF SessionInv, Stop
<1>2. TypeOK'
  BY <1>1 DEF TypeOK, Stop
<1>3. FaultHasCause'
  BY <1>1 DEF FaultHasCause, Stop
<1>4. SamplesIntoStore'
  BY <1>1 DEF SamplesIntoStore, Stop
<1>5. ASSUME fault' = "none"
      PROVE  Orderly'
  <2>1. LoadInv'
    BY <1>1 DEF Orderly, LoadInv, Stop
  <2>2. PhaseInv'
    BY <1>1 DEF Orderly, PhaseInv, SettingUp, Running, Stopping, Stop
  <2>3. MemoryInv'
    BY <1>1 DEF Orderly, MemoryInv, Running, Stop
  <2>4. HookInv'
    BY <1>1 DEF Orderly, HookInv, Running, Stopping, Stop
  <2>5. StoreInv'
    BY <1>1 DEF Orderly, StoreInv, TypeOK, SettingUp, Running, IsOff, Stop
  <2>6. ArmedInv'
    BY <1>1 DEF Orderly, ArmedInv, Stop
  <2>7. HandlerInv'
    BY <1>1 DEF Orderly, HandlerInv, Running, Stop
  <2>8. ThreadInv'
    BY <1>1 DEF Orderly, ThreadInv, Running, Stop
  <2> QED
    BY <2>1, <2>2, <2>3, <2>4, <2>5, <2>6, <2>7, <2>8 DEF Orderly
<1> QED
  BY <1>2, <1>3, <1>4, <1>5 DEF SessionInv

LEMMA DisarmKeeps ==
  ASSUME SessionInv, Disarm
  PROVE  SessionInv'
<1>1. TypeOK /\ FaultHasCause /\ SamplesIntoStore /\ Orderly
  BY DEF SessionInv, Disarm
<1>2. Cur' = Cur
  BY CurKept DEF Disarm
<1>3. TypeOK'
  BY <1>1, <1>2 DEF TypeOK, Disarm
<1>4. FaultHasCause'
  BY <1>1, <1>2 DEF FaultHasCause, Disarm
<1>5. SamplesIntoStore'
  BY <1>1, <1>2 DEF SamplesIntoStore, Disarm
<1>6. ASSUME fault' = "none"
      PROVE  Orderly'
  <2>1. LoadInv'
    BY <1>1, <1>2 DEF Orderly, LoadInv, Disarm
  <2>2. PhaseInv'
    BY <1>1, <1>2 DEF Orderly, PhaseInv, SettingUp, Running, Stopping, Disarm
  <2>3. MemoryInv'
    BY <1>1, <1>2 DEF Orderly, MemoryInv, Running, Disarm
  <2>4. HookInv'
    BY <1>1, <1>2 DEF Orderly, HookInv, Running, Stopping, Disarm
  <2>5. StoreInv'
    BY <1>1, <1>2 DEF Orderly, StoreInv, SettingUp, Running, IsOff, Disarm
  <2>6. ArmedInv'
    BY <1>1, <1>2 DEF Orderly, ArmedInv, Disarm
  <2>7. HandlerInv'
    BY <1>1, <1>2 DEF Orderly, HandlerInv, Running, Disarm
  <2>8. ThreadInv'
    BY <1>1, <1>2 DEF Orderly, ThreadInv, Running, Disarm
  <2> QED
    BY <2>1, <2>2, <2>3, <2>4, <2>5, <2>6, <2>7, <2>8 DEF Orderly
<1> QED
  BY <1>3, <1>4, <1>5, <1>6 DEF SessionInv

LEMMA FreeStoreKeeps ==
  ASSUME SessionInv, FreeStore
  PROVE  SessionInv'
<1>1. TypeOK /\ FaultHasCause /\ SamplesIntoStore /\ Orderly
  BY DEF SessionInv, FreeStore
<1>2. TypeOK'
  BY <1>1 DEF TypeOK, FreeStore
<1>3. FaultHasCause'
  BY <1>1 DEF FaultHasCause, FreeStore
<1>4. SamplesIntoStore'
  BY <1>1 DEF Orderly, SamplesIntoStore, StoreInv, ArmedInv, TypeOK,
    SettingUp, Running, IsOff, FreeStore
<1>5. ASSUME fault' = "none"
      PROVE  Orderly'
  <2>1. LoadInv'
    BY <1>1 DEF Orderly, LoadInv, FreeStore
  <2>2. PhaseInv'
    BY <1>1 DEF Orderly, PhaseInv, SettingUp, Running, Stopping, FreeStore
  <2>3. MemoryInv'
    BY <1>1 DEF Orderly, MemoryInv, Running, FreeStore
  <2>4. HookInv'
    BY <1>1 DEF Orderly, HookInv, Running, Stopping, FreeStore
  <2>5. StoreInv'
    BY <1>1 DEF Orderly, StoreInv, SettingUp, Running, IsOff, FreeStore
  <2>6. ArmedInv'
    BY <1>1 DEF Orderly, ArmedInv, StoreInv, HandlerInv, HookInv, TypeOK,
      SettingUp, Running, Stopping, IsOff, FreeStore
  <2>7. HandlerInv'
    BY <1>1 DEF Orderly, HandlerInv, Running, FreeStore
  <2>8. ThreadInv'
    BY <1>1 DEF Orderly, ThreadInv, Running, FreeStore
  <2> QED
    BY <2>1, <2>2, <2>3, <2>4, <2>5, <2>6, <2>7, <2>8 DEF Orderly
<1> QED
  BY <1>2, <1>3, <1>4, <1>5 DEF SessionInv

LEMMA StopThreadKeeps ==
  ASSUME SessionInv, StopThread
  PROVE  SessionInv'
<1>1. TypeOK /\ FaultHasCause /\ SamplesIntoStore /\ Orderly
  BY DEF SessionInv, StopThread
<1>2. /\ fault = "none" /\ pc = "disarm" /\ todo = {} /\ need_to_stop' = 1
      /\ UNCHANGED <<loader, cpuVars, memory, threadVars, is_start, todo, hook,
                     analyze_pthread, hpc>>
  BY DEF StopThread
<1>3. \/ /\ analyze_pthread = "null" /\ pc' = "free"
         /\ should_stop' = should_stop /\ fault' = fault
      \/ /\ analyze_pthread = "task" /\ pc' = "join" /\ should_stop' = TRUE /\ fault' = fault
      \/ /\ analyze_pthread = "error" /\ pc' = pc
         /\ should_stop' = should_stop /\ fault' = "thread"
  BY <1>1 DEF TypeOK, StopThread
<1>4. should_stop' \in BOOLEAN
  BY <1>1, <1>3 DEF TypeOK
<1>5. TypeOK'
  BY <1>1, <1>2, <1>3, <1>4 DEF Orderly, TypeOK, LoadInv, CPUs, Steps
<1>6. FaultHasCause'
  BY <1>1, <1>2, <1>3, <1>4 DEF Orderly, FaultHasCause, ThreadInv, Running
<1>7. SamplesIntoStore'
  BY <1>1, <1>2, <1>3, <1>4 DEF SamplesIntoStore
<1>8. ASSUME fault' = "none"
      PROVE  Orderly'
  <2>1. LoadInv'
    BY <1>1, <1>2, <1>3, <1>4, <1>8 DEF Orderly, LoadInv
  <2>2. PhaseInv'
    BY <1>1, <1>2, <1>3, <1>4, <1>8 DEF Orderly, PhaseInv, TypeOK, SettingUp,
      Running, Stopping
  <2>3. MemoryInv'
    BY <1>1, <1>2, <1>3, <1>4, <1>8 DEF Orderly, MemoryInv, TypeOK, Running
  <2>4. HookInv'
    BY <1>1, <1>2, <1>3, <1>4, <1>8 DEF Orderly, HookInv, TypeOK, Running,
      Stopping
  <2>5. StoreInv'
    BY <1>1, <1>2, <1>3, <1>4, <1>8 DEF Orderly, StoreInv, TypeOK, SettingUp,
      Running, IsOff
  <2>6. ArmedInv'
    BY <1>1, <1>2, <1>3, <1>4, <1>8 DEF Orderly, ArmedInv, TypeOK
  <2>7. HandlerInv'
    BY <1>1, <1>2, <1>3, <1>4, <1>8 DEF Orderly, HandlerInv, Running
  <2>8. ThreadInv'
    BY <1>1, <1>2, <1>3, <1>4, <1>8 DEF Orderly, ThreadInv, TypeOK, Running
  <2> QED
    BY <2>1, <2>2, <2>3, <2>4, <2>5, <2>6, <2>7, <2>8 DEF Orderly
<1> QED
  BY <1>5, <1>6, <1>7, <1>8 DEF SessionInv

LEMMA JoinKeeps ==
  ASSUME SessionInv, Join
  PROVE  SessionInv'
<1>1. TypeOK /\ FaultHasCause /\ SamplesIntoStore /\ Orderly
  BY DEF SessionInv, Join
<1>2. should_stop' \in BOOLEAN
  BY <1>1 DEF TypeOK, Join
<1>3. TypeOK'
  BY <1>1, <1>2 DEF TypeOK, Join
<1>4. FaultHasCause'
  BY <1>1, <1>2 DEF FaultHasCause, Join
<1>5. SamplesIntoStore'
  BY <1>1, <1>2 DEF SamplesIntoStore, Join
<1>6. ASSUME fault' = "none"
      PROVE  Orderly'
  <2>1. LoadInv'
    BY <1>1, <1>2 DEF Orderly, LoadInv, Join
  <2>2. PhaseInv'
    BY <1>1, <1>2 DEF Orderly, PhaseInv, SettingUp, Running, Stopping, Join
  <2>3. MemoryInv'
    BY <1>1, <1>2 DEF Orderly, MemoryInv, Running, Join
  <2>4. HookInv'
    BY <1>1, <1>2 DEF Orderly, HookInv, Running, Stopping, Join
  <2>5. StoreInv'
    BY <1>1, <1>2 DEF Orderly, StoreInv, SettingUp, Running, IsOff, Join
  <2>6. ArmedInv'
    BY <1>1, <1>2 DEF Orderly, ArmedInv, Join
  <2>7. HandlerInv'
    BY <1>1, <1>2 DEF Orderly, HandlerInv, Running, Join
  <2>8. ThreadInv'
    BY <1>1, <1>2 DEF Orderly, ThreadInv, Running, Join
  <2> QED
    BY <2>1, <2>2, <2>3, <2>4, <2>5, <2>6, <2>7, <2>8 DEF Orderly
<1> QED
  BY <1>3, <1>4, <1>5, <1>6 DEF SessionInv

LEMMA FreeKeeps ==
  ASSUME SessionInv, Free
  PROVE  SessionInv'
<1>1. TypeOK /\ FaultHasCause /\ SamplesIntoStore /\ Orderly
  BY DEF SessionInv, Free
<1>2. rings' \in BOOLEAN /\ list' \in BOOLEAN
  BY <1>1 DEF TypeOK, Free
<1>3. TypeOK'
  BY <1>1, <1>2 DEF TypeOK, Free
<1>4. FaultHasCause'
  BY <1>1, <1>2 DEF FaultHasCause, Free
<1>5. SamplesIntoStore'
  BY <1>1, <1>2 DEF SamplesIntoStore, Free
<1>6. ASSUME fault' = "none"
      PROVE  Orderly'
  <2>1. LoadInv'
    BY <1>1, <1>2 DEF Orderly, LoadInv, Free
  <2>2. PhaseInv'
    BY <1>1, <1>2 DEF Orderly, PhaseInv, SettingUp, Running, Stopping, Free
  <2>3. MemoryInv'
    BY <1>1, <1>2 DEF Orderly, MemoryInv, Running, Free
  <2>4. HookInv'
    BY <1>1, <1>2 DEF Orderly, HookInv, Running, Stopping, Free
  <2>5. StoreInv'
    BY <1>1, <1>2 DEF Orderly, StoreInv, SettingUp, Running, IsOff, Free
  <2>6. ArmedInv'
    BY <1>1, <1>2 DEF Orderly, ArmedInv, Free
  <2>7. HandlerInv'
    BY <1>1, <1>2 DEF Orderly, HandlerInv, Running, Free
  <2>8. ThreadInv'
    BY <1>1, <1>2 DEF Orderly, ThreadInv, Running, Free
  <2> QED
    BY <2>1, <2>2, <2>3, <2>4, <2>5, <2>6, <2>7, <2>8 DEF Orderly
<1> QED
  BY <1>3, <1>4, <1>5, <1>6 DEF SessionInv

LEMMA StoppedKeeps ==
  ASSUME SessionInv, Stopped
  PROVE  SessionInv'
<1>1. TypeOK /\ FaultHasCause /\ SamplesIntoStore /\ Orderly
  BY DEF SessionInv, Stopped
<1>2. TypeOK'
  BY <1>1 DEF TypeOK, Stopped
<1>3. FaultHasCause'
  BY <1>1 DEF FaultHasCause, Stopped
<1>4. SamplesIntoStore'
  BY <1>1 DEF SamplesIntoStore, Stopped
<1>5. ASSUME fault' = "none"
      PROVE  Orderly'
  <2>1. LoadInv'
    BY <1>1 DEF Orderly, LoadInv, Stopped
  <2>2. PhaseInv'
    BY <1>1 DEF Orderly, PhaseInv, SettingUp, Running, Stopping, Stopped
  <2>3. MemoryInv'
    BY <1>1 DEF Orderly, MemoryInv, Running, Stopped
  <2>4. HookInv'
    BY <1>1 DEF Orderly, HookInv, Running, Stopping, Stopped
  <2>5. StoreInv'
    BY <1>1 DEF Orderly, StoreInv, SettingUp, Running, IsOff, Stopped
  <2>6. ArmedInv'
    BY <1>1 DEF Orderly, ArmedInv, Stopped
  <2>7. HandlerInv'
    BY <1>1 DEF Orderly, HandlerInv, Running, Stopped
  <2>8. ThreadInv'
    BY <1>1 DEF Orderly, ThreadInv, Running, Stopped
  <2> QED
    BY <2>1, <2>2, <2>3, <2>4, <2>5, <2>6, <2>7, <2>8 DEF Orderly
<1> QED
  BY <1>2, <1>3, <1>4, <1>5 DEF SessionInv

LEMMA OrphanRunsKeeps ==
  ASSUME SessionInv, OrphanRuns
  PROVE  SessionInv'
<1>1. TypeOK /\ FaultHasCause /\ SamplesIntoStore /\ Orderly
  BY DEF SessionInv, OrphanRuns
<1>2. TypeOK'
  BY <1>1 DEF TypeOK, OrphanRuns
<1>3. FaultHasCause'
  BY <1>1 DEF Orderly, FaultHasCause, ThreadInv, Running, OrphanRuns
<1>4. SamplesIntoStore'
  BY <1>1 DEF SamplesIntoStore, OrphanRuns
<1>5. ASSUME fault' = "none"
      PROVE  Orderly'
  <2>1. LoadInv'
    BY <1>1, <1>5 DEF Orderly, LoadInv, OrphanRuns
  <2>2. PhaseInv'
    BY <1>1, <1>5 DEF Orderly, PhaseInv, SettingUp, Running, Stopping,
      OrphanRuns
  <2>3. MemoryInv'
    BY <1>1, <1>5 DEF Orderly, MemoryInv, Running, OrphanRuns
  <2>4. HookInv'
    BY <1>1, <1>5 DEF Orderly, HookInv, Running, Stopping, OrphanRuns
  <2>5. StoreInv'
    BY <1>1, <1>5 DEF Orderly, StoreInv, SettingUp, Running, IsOff,
      OrphanRuns
  <2>6. ArmedInv'
    BY <1>1, <1>5 DEF Orderly, ArmedInv, OrphanRuns
  <2>7. HandlerInv'
    BY <1>1, <1>5 DEF Orderly, HandlerInv, Running, OrphanRuns
  <2>8. ThreadInv'
    BY <1>1, <1>5 DEF Orderly, ThreadInv, Running, OrphanRuns
  <2> QED
    BY <2>1, <2>2, <2>3, <2>4, <2>5, <2>6, <2>7, <2>8 DEF Orderly
<1> QED
  BY <1>2, <1>3, <1>4, <1>5 DEF SessionInv

LEMMA SetUpKeeps ==
  ASSUME NEW c \in CPUs, SessionInv, SetUp(c)
  PROVE  SessionInv'
<1>1. TypeOK /\ FaultHasCause /\ SamplesIntoStore /\ Orderly
  BY DEF SessionInv, SetUp, OnCpu
<1>2. TypeOK'
  BY <1>1 DEF TypeOK, SetUp, OnCpu
<1>3. FaultHasCause'
  BY <1>1 DEF FaultHasCause, SetUp, OnCpu
<1>4. SamplesIntoStore'
  BY <1>1 DEF SamplesIntoStore, SetUp, OnCpu
<1>5. ASSUME fault' = "none"
      PROVE  Orderly'
  <2>1. LoadInv'
    BY <1>1 DEF Orderly, LoadInv, SetUp, OnCpu
  <2>2. PhaseInv'
    BY <1>1 DEF Orderly, PhaseInv, SettingUp, Running, Stopping, SetUp, OnCpu
  <2>3. MemoryInv'
    BY <1>1 DEF Orderly, MemoryInv, Running, SetUp, OnCpu
  <2>4. HookInv'
    BY <1>1 DEF Orderly, HookInv, Running, Stopping, SetUp, OnCpu
  <2>5. StoreInv'
    BY <1>1 DEF Orderly, StoreInv, SettingUp, Running, IsOff, SetUp, OnCpu
  <2>6. ArmedInv'
    BY <1>1 DEF Orderly, ArmedInv, SetUp, OnCpu
  <2>7. HandlerInv'
    BY <1>1 DEF Orderly, HandlerInv, Running, SetUp, OnCpu
  <2>8. ThreadInv'
    BY <1>1 DEF Orderly, ThreadInv, Running, SetUp, OnCpu
  <2> QED
    BY <2>1, <2>2, <2>3, <2>4, <2>5, <2>6, <2>7, <2>8 DEF Orderly
<1> QED
  BY <1>2, <1>3, <1>4, <1>5 DEF SessionInv

LEMMA SetUpGivesUpKeeps ==
  ASSUME NEW c \in CPUs, SessionInv, SetUpGivesUp(c)
  PROVE  SessionInv'
<1>1. TypeOK /\ FaultHasCause /\ SamplesIntoStore /\ Orderly
  BY DEF SessionInv, SetUpGivesUp, OnCpu
<1>2. TypeOK'
  BY <1>1 DEF TypeOK, SetUpGivesUp, OnCpu
<1>3. FaultHasCause'
  BY <1>1 DEF FaultHasCause, SetUpGivesUp, OnCpu
<1>4. SamplesIntoStore'
  BY <1>1 DEF SamplesIntoStore, SetUpGivesUp, OnCpu
<1>5. ASSUME fault' = "none"
      PROVE  Orderly'
  <2>1. LoadInv'
    BY <1>1 DEF Orderly, LoadInv, SetUpGivesUp, OnCpu
  <2>2. PhaseInv'
    BY <1>1 DEF Orderly, PhaseInv, SettingUp, Running, Stopping, SetUpGivesUp,
      OnCpu
  <2>3. MemoryInv'
    BY <1>1 DEF Orderly, MemoryInv, Running, SetUpGivesUp, OnCpu
  <2>4. HookInv'
    BY <1>1 DEF Orderly, HookInv, Running, Stopping, SetUpGivesUp, OnCpu
  <2>5. StoreInv'
    BY <1>1 DEF Orderly, StoreInv, SettingUp, Running, IsOff, SetUpGivesUp,
      OnCpu
  <2>6. ArmedInv'
    BY <1>1 DEF Orderly, ArmedInv, SetUpGivesUp, OnCpu
  <2>7. HandlerInv'
    BY <1>1 DEF Orderly, HandlerInv, Running, SetUpGivesUp, OnCpu
  <2>8. ThreadInv'
    BY <1>1 DEF Orderly, ThreadInv, Running, SetUpGivesUp, OnCpu
  <2> QED
    BY <2>1, <2>2, <2>3, <2>4, <2>5, <2>6, <2>7, <2>8 DEF Orderly
<1> QED
  BY <1>2, <1>3, <1>4, <1>5 DEF SessionInv

LEMMA CallHookKeeps ==
  ASSUME NEW c \in CPUs, SessionInv, CallHook(c)
  PROVE  SessionInv'
<1>1. TypeOK /\ FaultHasCause /\ SamplesIntoStore /\ Orderly
  BY DEF SessionInv, CallHook, Handler
<1>2. /\ fault = "none" /\ hpc[c] = "idle"
      /\ UNCHANGED <<loader, cpuVars, memory, threadVars, control>>
  BY DEF CallHook, Handler
<1>3. \/ hook # "gone" /\ hpc' = [hpc EXCEPT ![c] = "look"] /\ fault' = "none"
      \/ hook = "gone" /\ hpc' = hpc /\ fault' = "text"
  BY <1>2 DEF CallHook, Handler
<1>4. hook # "null" /\ ~(pc = "free_store" /\ c = Cur)
  BY DEF CallHook
<1>5. Cur' = Cur
  BY <1>2, CurKept
<1>6. TypeOK'
  BY <1>1, <1>2, <1>3, <1>4, <1>5 DEF TypeOK
<1>7. FaultHasCause'
  BY <1>1, <1>2, <1>3, <1>4, <1>5 DEF Orderly, FaultHasCause, HookInv,
    ThreadInv, MemoryInv, HandlerInv, TypeOK, Running, Stopping
<1>8. SamplesIntoStore'
  BY <1>1, <1>2, <1>3, <1>4, <1>5 DEF SamplesIntoStore
<1>9. ASSUME fault' = "none"
      PROVE  Orderly'
  <2>1. LoadInv'
    BY <1>1, <1>2, <1>3, <1>4, <1>5, <1>9 DEF Orderly, LoadInv
  <2>2. PhaseInv'
    BY <1>1, <1>2, <1>3, <1>4, <1>5, <1>9 DEF Orderly, PhaseInv, SettingUp,
      Running, Stopping
  <2>3. MemoryInv'
    BY <1>1, <1>2, <1>3, <1>4, <1>5, <1>9 DEF Orderly, MemoryInv, Running
  <2>4. HookInv'
    BY <1>1, <1>2, <1>3, <1>4, <1>5, <1>9 DEF Orderly, HookInv, Running,
      Stopping
  <2>5. StoreInv'
    BY <1>1, <1>2, <1>3, <1>4, <1>5, <1>9 DEF Orderly, StoreInv, SettingUp,
      Running, IsOff
  <2>6. ArmedInv'
    BY <1>1, <1>2, <1>3, <1>4, <1>5, <1>9 DEF Orderly, ArmedInv
  <2>7. HandlerInv'
    BY <1>1, <1>2, <1>3, <1>4, <1>5, <1>9 DEF Orderly, HandlerInv, StoreInv,
      HookInv, TypeOK, SettingUp, Running, Stopping, IsOff
  <2>8. ThreadInv'
    BY <1>1, <1>2, <1>3, <1>4, <1>5, <1>9 DEF Orderly, ThreadInv, Running
  <2> QED
    BY <2>1, <2>2, <2>3, <2>4, <2>5, <2>6, <2>7, <2>8 DEF Orderly
<1> QED
  BY <1>6, <1>7, <1>8, <1>9 DEF SessionInv

LEMMA LookAtStoreKeeps ==
  ASSUME NEW c \in CPUs, SessionInv, LookAtStore(c)
  PROVE  SessionInv'
<1>1. TypeOK /\ FaultHasCause /\ SamplesIntoStore /\ Orderly
  BY DEF SessionInv, LookAtStore, Handler
<1>2. /\ fault = "none" /\ hpc[c] = "look"
      /\ UNCHANGED <<loader, cpuVars, memory, threadVars, control>>
  BY DEF LookAtStore, Handler
<1>3. \/ c \in stores /\ hpc' = [hpc EXCEPT ![c] = "scan"] /\ fault' = "none"
      \/ c \notin stores /\ hpc' = hpc /\ fault' = "store"
  BY <1>2 DEF LookAtStore, Handler
<1>4. Cur' = Cur
  BY <1>2, CurKept
<1>5. TypeOK'
  BY <1>1, <1>2, <1>3, <1>4 DEF TypeOK
<1>6. FaultHasCause'
  BY <1>1, <1>2, <1>3, <1>4 DEF Orderly, FaultHasCause, HandlerInv, Running
<1>7. SamplesIntoStore'
  BY <1>1, <1>2, <1>3, <1>4 DEF SamplesIntoStore
<1>8. ASSUME fault' = "none"
      PROVE  Orderly'
  <2>1. LoadInv'
    BY <1>1, <1>2, <1>3, <1>4, <1>8 DEF Orderly, LoadInv
  <2>2. PhaseInv'
    BY <1>1, <1>2, <1>3, <1>4, <1>8 DEF Orderly, PhaseInv, SettingUp, Running,
      Stopping
  <2>3. MemoryInv'
    BY <1>1, <1>2, <1>3, <1>4, <1>8 DEF Orderly, MemoryInv, Running
  <2>4. HookInv'
    BY <1>1, <1>2, <1>3, <1>4, <1>8 DEF Orderly, HookInv, Running, Stopping
  <2>5. StoreInv'
    BY <1>1, <1>2, <1>3, <1>4, <1>8 DEF Orderly, StoreInv, SettingUp, Running,
      IsOff
  <2>6. ArmedInv'
    BY <1>1, <1>2, <1>3, <1>4, <1>8 DEF Orderly, ArmedInv
  <2>7. HandlerInv'
    BY <1>1, <1>2, <1>3, <1>4, <1>8 DEF Orderly, HandlerInv, TypeOK, Running
  <2>8. ThreadInv'
    BY <1>1, <1>2, <1>3, <1>4, <1>8 DEF Orderly, ThreadInv, Running
  <2> QED
    BY <2>1, <2>2, <2>3, <2>4, <2>5, <2>6, <2>7, <2>8 DEF Orderly
<1> QED
  BY <1>5, <1>6, <1>7, <1>8 DEF SessionInv

LEMMA WriteRingKeeps ==
  ASSUME NEW c \in CPUs, SessionInv, WriteRing(c)
  PROVE  SessionInv'
<1>1. TypeOK /\ FaultHasCause /\ SamplesIntoStore /\ Orderly
  BY DEF SessionInv, WriteRing, Handler
<1>2. /\ fault = "none" /\ hpc[c] = "scan"
      /\ UNCHANGED <<loader, cpuVars, memory, threadVars, control>>
  BY DEF WriteRing, Handler
<1>3. hpc' = [hpc EXCEPT ![c] = "scan"] /\ fault' = "none"
  BY <1>1, <1>2 DEF Orderly, HandlerInv, WriteRing, Handler
<1>4. Cur' = Cur
  BY <1>2, CurKept
<1>5. TypeOK'
  BY <1>1, <1>2, <1>3, <1>4 DEF TypeOK
<1>6. FaultHasCause'
  BY <1>1, <1>2, <1>3, <1>4 DEF FaultHasCause
<1>7. SamplesIntoStore'
  BY <1>1, <1>2, <1>3, <1>4 DEF SamplesIntoStore
<1>8. ASSUME fault' = "none"
      PROVE  Orderly'
  <2>1. LoadInv'
    BY <1>1, <1>2, <1>3, <1>4 DEF Orderly, LoadInv
  <2>2. PhaseInv'
    BY <1>1, <1>2, <1>3, <1>4 DEF Orderly, PhaseInv, SettingUp, Running,
      Stopping
  <2>3. MemoryInv'
    BY <1>1, <1>2, <1>3, <1>4 DEF Orderly, MemoryInv, Running
  <2>4. HookInv'
    BY <1>1, <1>2, <1>3, <1>4 DEF Orderly, HookInv, Running, Stopping
  <2>5. StoreInv'
    BY <1>1, <1>2, <1>3, <1>4 DEF Orderly, StoreInv, SettingUp, Running,
      IsOff
  <2>6. ArmedInv'
    BY <1>1, <1>2, <1>3, <1>4 DEF Orderly, ArmedInv
  <2>7. HandlerInv'
    BY <1>1, <1>2, <1>3, <1>4 DEF Orderly, HandlerInv, Running
  <2>8. ThreadInv'
    BY <1>1, <1>2, <1>3, <1>4 DEF Orderly, ThreadInv, Running
  <2> QED
    BY <2>1, <2>2, <2>3, <2>4, <2>5, <2>6, <2>7, <2>8 DEF Orderly
<1> QED
  BY <1>5, <1>6, <1>7, <1>8 DEF SessionInv

LEMMA ResetStoreKeeps ==
  ASSUME NEW c \in CPUs, SessionInv, ResetStore(c)
  PROVE  SessionInv'
<1>1. TypeOK /\ FaultHasCause /\ SamplesIntoStore /\ Orderly
  BY DEF SessionInv, ResetStore, Handler
<1>2. /\ fault = "none" /\ hpc[c] = "scan"
      /\ UNCHANGED <<loader, cpuVars, memory, threadVars, control>>
  BY DEF ResetStore, Handler
<1>3. hpc' = [hpc EXCEPT ![c] = "idle"] /\ fault' = "none"
  BY <1>1, <1>2 DEF Orderly, HandlerInv, ResetStore, Handler
<1>4. Cur' = Cur
  BY <1>2, CurKept
<1>5. TypeOK'
  BY <1>1, <1>2, <1>3, <1>4 DEF TypeOK
<1>6. FaultHasCause'
  BY <1>1, <1>2, <1>3, <1>4 DEF FaultHasCause
<1>7. SamplesIntoStore'
  BY <1>1, <1>2, <1>3, <1>4 DEF SamplesIntoStore
<1>8. ASSUME fault' = "none"
      PROVE  Orderly'
  <2>1. LoadInv'
    BY <1>1, <1>2, <1>3, <1>4 DEF Orderly, LoadInv
  <2>2. PhaseInv'
    BY <1>1, <1>2, <1>3, <1>4 DEF Orderly, PhaseInv, SettingUp, Running,
      Stopping
  <2>3. MemoryInv'
    BY <1>1, <1>2, <1>3, <1>4 DEF Orderly, MemoryInv, Running
  <2>4. HookInv'
    BY <1>1, <1>2, <1>3, <1>4 DEF Orderly, HookInv, Running, Stopping
  <2>5. StoreInv'
    BY <1>1, <1>2, <1>3, <1>4 DEF Orderly, StoreInv, SettingUp, Running,
      IsOff
  <2>6. ArmedInv'
    BY <1>1, <1>2, <1>3, <1>4 DEF Orderly, ArmedInv
  <2>7. HandlerInv'
    BY <1>1, <1>2, <1>3, <1>4 DEF Orderly, HandlerInv, Running
  <2>8. ThreadInv'
    BY <1>1, <1>2, <1>3, <1>4 DEF Orderly, ThreadInv, Running
  <2> QED
    BY <2>1, <2>2, <2>3, <2>4, <2>5, <2>6, <2>7, <2>8 DEF Orderly
<1> QED
  BY <1>5, <1>6, <1>7, <1>8 DEF SessionInv

LEMMA AskShouldStopKeeps ==
  ASSUME SessionInv, AskShouldStop
  PROVE  SessionInv'
<1>1. TypeOK /\ FaultHasCause /\ SamplesIntoStore /\ Orderly
  BY DEF SessionInv, AskShouldStop, ThreadStep
<1>2. /\ fault = "none" /\ tpc = "top"
      /\ UNCHANGED <<loader, cpuVars, memory, control, hpc, orphan>>
  BY DEF AskShouldStop, ThreadStep
<1>3. /\ fault' = "none"
      /\ tpc' = "scan" \/ (should_stop /\ tpc' = "dead")
  BY DEF AskShouldStop, ThreadStep
<1>4. Cur' = Cur
  BY <1>2, CurKept
<1>5. TypeOK'
  BY <1>1, <1>2, <1>3, <1>4 DEF TypeOK
<1>6. FaultHasCause'
  BY <1>1, <1>2, <1>3, <1>4 DEF FaultHasCause
<1>7. SamplesIntoStore'
  BY <1>1, <1>2, <1>3, <1>4 DEF SamplesIntoStore
<1>8. ASSUME fault' = "none"
      PROVE  Orderly'
  <2>1. LoadInv'
    BY <1>1, <1>2, <1>3, <1>4 DEF Orderly, LoadInv
  <2>2. PhaseInv'
    BY <1>1, <1>2, <1>3, <1>4 DEF Orderly, PhaseInv, SettingUp, Running,
      Stopping
  <2>3. MemoryInv'
    BY <1>1, <1>2, <1>3, <1>4 DEF Orderly, MemoryInv, Running
  <2>4. HookInv'
    BY <1>1, <1>2, <1>3, <1>4 DEF Orderly, HookInv, Running, Stopping
  <2>5. StoreInv'
    BY <1>1, <1>2, <1>3, <1>4 DEF Orderly, StoreInv, SettingUp, Running,
      IsOff
  <2>6. ArmedInv'
    BY <1>1, <1>2, <1>3, <1>4 DEF Orderly, ArmedInv
  <2>7. HandlerInv'
    BY <1>1, <1>2, <1>3, <1>4 DEF Orderly, HandlerInv, Running
  <2>8. ThreadInv'
    BY <1>1, <1>2, <1>3, <1>4 DEF Orderly, ThreadInv, PhaseInv, SettingUp,
      Running, Stopping
  <2> QED
    BY <2>1, <2>2, <2>3, <2>4, <2>5, <2>6, <2>7, <2>8 DEF Orderly
<1> QED
  BY <1>5, <1>6, <1>7, <1>8 DEF SessionInv

LEMMA AskNeedToStopKeeps ==
  ASSUME SessionInv, AskNeedToStop
  PROVE  SessionInv'
<1>1. TypeOK /\ FaultHasCause /\ SamplesIntoStore /\ Orderly
  BY DEF SessionInv, AskNeedToStop, ThreadStep
<1>2. /\ fault = "none" /\ tpc = "scan"
      /\ UNCHANGED <<loader, cpuVars, memory, control, hpc, orphan>>
  BY DEF AskNeedToStop, ThreadStep
<1>3. fault' = "none" /\ tpc' = "read"
  BY DEF AskNeedToStop, ThreadStep
<1>4. Cur' = Cur
  BY <1>2, CurKept
<1>5. TypeOK'
  BY <1>1, <1>2, <1>3, <1>4 DEF TypeOK
<1>6. FaultHasCause'
  BY <1>1, <1>2, <1>3, <1>4 DEF FaultHasCause
<1>7. SamplesIntoStore'
  BY <1>1, <1>2, <1>3, <1>4 DEF SamplesIntoStore
<1>8. ASSUME fault' = "none"
      PROVE  Orderly'
  <2>1. LoadInv'
    BY <1>1, <1>2, <1>3, <1>4 DEF Orderly, LoadInv
  <2>2. PhaseInv'
    BY <1>1, <1>2, <1>3, <1>4 DEF Orderly, PhaseInv, SettingUp, Running,
      Stopping
  <2>3. MemoryInv'
    BY <1>1, <1>2, <1>3, <1>4 DEF Orderly, MemoryInv, Running
  <2>4. HookInv'
    BY <1>1, <1>2, <1>3, <1>4 DEF Orderly, HookInv, Running, Stopping
  <2>5. StoreInv'
    BY <1>1, <1>2, <1>3, <1>4 DEF Orderly, StoreInv, SettingUp, Running,
      IsOff
  <2>6. ArmedInv'
    BY <1>1, <1>2, <1>3, <1>4 DEF Orderly, ArmedInv
  <2>7. HandlerInv'
    BY <1>1, <1>2, <1>3, <1>4 DEF Orderly, HandlerInv, Running
  <2>8. ThreadInv'
    BY <1>1, <1>2, <1>3, <1>4 DEF Orderly, ThreadInv, Running
  <2> QED
    BY <2>1, <2>2, <2>3, <2>4, <2>5, <2>6, <2>7, <2>8 DEF Orderly
<1> QED
  BY <1>5, <1>6, <1>7, <1>8 DEF SessionInv

LEMMA ReadRingKeeps ==
  ASSUME SessionInv, ReadRing
  PROVE  SessionInv'
<1>1. TypeOK /\ FaultHasCause /\ SamplesIntoStore /\ Orderly
  BY DEF SessionInv, ReadRing, ThreadStep
<1>2. /\ fault = "none" /\ tpc = "read"
      /\ UNCHANGED <<loader, cpuVars, memory, control, hpc, orphan>>
  BY DEF ReadRing, ThreadStep
<1>3. rings
  BY <1>1, <1>2 DEF Orderly, ThreadInv
<1>4. fault' = "none" /\ tpc' = "analyse"
  BY <1>3 DEF ReadRing, ThreadStep
<1>5. Cur' = Cur
  BY <1>2, CurKept
<1>6. TypeOK'
  BY <1>1, <1>2, <1>3, <1>4, <1>5 DEF TypeOK
<1>7. FaultHasCause'
  BY <1>1, <1>2, <1>3, <1>4, <1>5 DEF FaultHasCause
<1>8. SamplesIntoStore'
  BY <1>1, <1>2, <1>3, <1>4, <1>5 DEF SamplesIntoStore
<1>9. ASSUME fault' = "none"
      PROVE  Orderly'
  <2>1. LoadInv'
    BY <1>1, <1>2, <1>3, <1>4, <1>5 DEF Orderly, LoadInv
  <2>2. PhaseInv'
    BY <1>1, <1>2, <1>3, <1>4, <1>5 DEF Orderly, PhaseInv, SettingUp, Running,
      Stopping
  <2>3. MemoryInv'
    BY <1>1, <1>2, <1>3, <1>4, <1>5 DEF Orderly, MemoryInv, Running
  <2>4. HookInv'
    BY <1>1, <1>2, <1>3, <1>4, <1>5 DEF Orderly, HookInv, Running, Stopping
  <2>5. StoreInv'
    BY <1>1, <1>2, <1>3, <1>4, <1>5 DEF Orderly, StoreInv, SettingUp, Running,
      IsOff
  <2>6. ArmedInv'
    BY <1>1, <1>2, <1>3, <1>4, <1>5 DEF Orderly, ArmedInv
  <2>7. HandlerInv'
    BY <1>1, <1>2, <1>3, <1>4, <1>5 DEF Orderly, HandlerInv, Running
  <2>8. ThreadInv'
    BY <1>1, <1>2, <1>3, <1>4, <1>5 DEF Orderly, ThreadInv, Running
  <2> QED
    BY <2>1, <2>2, <2>3, <2>4, <2>5, <2>6, <2>7, <2>8 DEF Orderly
<1> QED
  BY <1>6, <1>7, <1>8, <1>9 DEF SessionInv

LEMMA FindNothingKeeps ==
  ASSUME SessionInv, FindNothing
  PROVE  SessionInv'
<1>1. TypeOK /\ FaultHasCause /\ SamplesIntoStore /\ Orderly
  BY DEF SessionInv, FindNothing, ThreadStep
<1>2. /\ fault = "none" /\ tpc = "read"
      /\ UNCHANGED <<loader, cpuVars, memory, control, hpc, orphan>>
  BY DEF FindNothing, ThreadStep
<1>3. fault' = "none" /\ tpc' = "top"
  BY DEF FindNothing, ThreadStep
<1>4. Cur' = Cur
  BY <1>2, CurKept
<1>5. TypeOK'
  BY <1>1, <1>2, <1>3, <1>4 DEF TypeOK
<1>6. FaultHasCause'
  BY <1>1, <1>2, <1>3, <1>4 DEF FaultHasCause
<1>7. SamplesIntoStore'
  BY <1>1, <1>2, <1>3, <1>4 DEF SamplesIntoStore
<1>8. ASSUME fault' = "none"
      PROVE  Orderly'
  <2>1. LoadInv'
    BY <1>1, <1>2, <1>3, <1>4 DEF Orderly, LoadInv
  <2>2. PhaseInv'
    BY <1>1, <1>2, <1>3, <1>4 DEF Orderly, PhaseInv, SettingUp, Running,
      Stopping
  <2>3. MemoryInv'
    BY <1>1, <1>2, <1>3, <1>4 DEF Orderly, MemoryInv, Running
  <2>4. HookInv'
    BY <1>1, <1>2, <1>3, <1>4 DEF Orderly, HookInv, Running, Stopping
  <2>5. StoreInv'
    BY <1>1, <1>2, <1>3, <1>4 DEF Orderly, StoreInv, SettingUp, Running,
      IsOff
  <2>6. ArmedInv'
    BY <1>1, <1>2, <1>3, <1>4 DEF Orderly, ArmedInv
  <2>7. HandlerInv'
    BY <1>1, <1>2, <1>3, <1>4 DEF Orderly, HandlerInv, Running
  <2>8. ThreadInv'
    BY <1>1, <1>2, <1>3, <1>4 DEF Orderly, ThreadInv, Running
  <2> QED
    BY <2>1, <2>2, <2>3, <2>4, <2>5, <2>6, <2>7, <2>8 DEF Orderly
<1> QED
  BY <1>5, <1>6, <1>7, <1>8 DEF SessionInv

LEMMA LeaveKeeps ==
  ASSUME SessionInv, Leave
  PROVE  SessionInv'
<1>1. TypeOK /\ FaultHasCause /\ SamplesIntoStore /\ Orderly
  BY DEF SessionInv, Leave, ThreadStep
<1>2. /\ fault = "none" /\ tpc = "scan"
      /\ UNCHANGED <<loader, cpuVars, memory, control, hpc, orphan>>
  BY DEF Leave, ThreadStep
<1>3. fault' = "none" /\ tpc' = "top"
  BY DEF Leave, ThreadStep
<1>4. Cur' = Cur
  BY <1>2, CurKept
<1>5. TypeOK'
  BY <1>1, <1>2, <1>3, <1>4 DEF TypeOK
<1>6. FaultHasCause'
  BY <1>1, <1>2, <1>3, <1>4 DEF FaultHasCause
<1>7. SamplesIntoStore'
  BY <1>1, <1>2, <1>3, <1>4 DEF SamplesIntoStore
<1>8. ASSUME fault' = "none"
      PROVE  Orderly'
  <2>1. LoadInv'
    BY <1>1, <1>2, <1>3, <1>4 DEF Orderly, LoadInv
  <2>2. PhaseInv'
    BY <1>1, <1>2, <1>3, <1>4 DEF Orderly, PhaseInv, SettingUp, Running,
      Stopping
  <2>3. MemoryInv'
    BY <1>1, <1>2, <1>3, <1>4 DEF Orderly, MemoryInv, Running
  <2>4. HookInv'
    BY <1>1, <1>2, <1>3, <1>4 DEF Orderly, HookInv, Running, Stopping
  <2>5. StoreInv'
    BY <1>1, <1>2, <1>3, <1>4 DEF Orderly, StoreInv, SettingUp, Running,
      IsOff
  <2>6. ArmedInv'
    BY <1>1, <1>2, <1>3, <1>4 DEF Orderly, ArmedInv
  <2>7. HandlerInv'
    BY <1>1, <1>2, <1>3, <1>4 DEF Orderly, HandlerInv, Running
  <2>8. ThreadInv'
    BY <1>1, <1>2, <1>3, <1>4 DEF Orderly, ThreadInv, Running
  <2> QED
    BY <2>1, <2>2, <2>3, <2>4, <2>5, <2>6, <2>7, <2>8 DEF Orderly
<1> QED
  BY <1>5, <1>6, <1>7, <1>8 DEF SessionInv

LEMMA SearchListKeeps ==
  ASSUME SessionInv, SearchList
  PROVE  SessionInv'
<1>1. TypeOK /\ FaultHasCause /\ SamplesIntoStore /\ Orderly
  BY DEF SessionInv, SearchList, ThreadStep
<1>2. /\ fault = "none" /\ tpc = "analyse"
      /\ UNCHANGED <<loader, cpuVars, memory, control, hpc, orphan>>
  BY DEF SearchList, ThreadStep
<1>3. list
  BY <1>1, <1>2 DEF Orderly, ThreadInv, MemoryInv, Running
<1>4. fault' = "none" /\ tpc' = "scan"
  BY <1>3 DEF SearchList, ThreadStep
<1>5. Cur' = Cur
  BY <1>2, CurKept
<1>6. TypeOK'
  BY <1>1, <1>2, <1>3, <1>4, <1>5 DEF TypeOK
<1>7. FaultHasCause'
  BY <1>1, <1>2, <1>3, <1>4, <1>5 DEF FaultHasCause
<1>8. SamplesIntoStore'
  BY <1>1, <1>2, <1>3, <1>4, <1>5 DEF SamplesIntoStore
<1>9. ASSUME fault' = "none"
      PROVE  Orderly'
  <2>1. LoadInv'
    BY <1>1, <1>2, <1>3, <1>4, <1>5 DEF Orderly, LoadInv
  <2>2. PhaseInv'
    BY <1>1, <1>2, <1>3, <1>4, <1>5 DEF Orderly, PhaseInv, SettingUp, Running,
      Stopping
  <2>3. MemoryInv'
    BY <1>1, <1>2, <1>3, <1>4, <1>5 DEF Orderly, MemoryInv, Running
  <2>4. HookInv'
    BY <1>1, <1>2, <1>3, <1>4, <1>5 DEF Orderly, HookInv, Running, Stopping
  <2>5. StoreInv'
    BY <1>1, <1>2, <1>3, <1>4, <1>5 DEF Orderly, StoreInv, SettingUp, Running,
      IsOff
  <2>6. ArmedInv'
    BY <1>1, <1>2, <1>3, <1>4, <1>5 DEF Orderly, ArmedInv
  <2>7. HandlerInv'
    BY <1>1, <1>2, <1>3, <1>4, <1>5 DEF Orderly, HandlerInv, Running
  <2>8. ThreadInv'
    BY <1>1, <1>2, <1>3, <1>4, <1>5 DEF Orderly, ThreadInv, Running
  <2> QED
    BY <2>1, <2>2, <2>3, <2>4, <2>5, <2>6, <2>7, <2>8 DEF Orderly
<1> QED
  BY <1>6, <1>7, <1>8, <1>9 DEF SessionInv

LEMMA InitKeeps == Init => SessionInv
<1> SUFFICES ASSUME Init
             PROVE  SessionInv
  OBVIOUS
<1>1. TypeOK
  <2>1. dangling \in BOOLEAN /\ leftOn \in BOOLEAN /\ should_stop \in BOOLEAN
        /\ rings \in BOOLEAN /\ list \in BOOLEAN /\ orphan \in BOOLEAN
    BY DEF Init
  <2>2. hpc \in [CPUs -> {"idle", "look", "scan"}]
    BY DEF Init
  <2> QED
    BY <2>1, <2>2 DEF Init, TypeOK, Steps
<1>2. FaultHasCause /\ SamplesIntoStore
  BY DEF Init, FaultHasCause, SamplesIntoStore
<1>3. Orderly
  BY DEF Init, Orderly, LoadInv, PhaseInv, MemoryInv, HookInv, StoreInv, ArmedInv,
    HandlerInv, ThreadInv, SettingUp, Running, Stopping, IsOff, Steps
<1> QED
  BY <1>1, <1>2, <1>3 DEF SessionInv

(* A step that changes nothing.                                            *)
LEMMA StutterKeeps ==
  ASSUME SessionInv, UNCHANGED vars
  PROVE  SessionInv'
<1>1. Cur' = Cur
  BY CurKept DEF vars
<1> QED
  BY <1>1 DEF vars, SessionInv, TypeOK, FaultHasCause, SamplesIntoStore, Orderly,
    LoadInv, PhaseInv, MemoryInv, HookInv, StoreInv, ArmedInv, HandlerInv, ThreadInv,
    SettingUp, Running, Stopping, IsOff

LEMMA NextKeeps == SessionInv /\ [Next]_vars => SessionInv'
<1> SUFFICES ASSUME SessionInv, [Next]_vars
             PROVE  SessionInv'
  OBVIOUS
<1>1. CASE Acquire \/ AcquireFails \/ Unload
  BY <1>1, AcquireKeeps, AcquireFailsKeeps, UnloadKeeps
<1>2. CASE Start \/ Stop
  BY <1>2, StartKeeps, StopKeeps
<1>3. CASE Command
  <2>1. CASE \E c \in CPUs : SetUp(c) \/ SetUpGivesUp(c)
    BY <2>1, SetUpKeeps, SetUpGivesUpKeeps
  <2>2. CASE AllocRings \/ AllocList \/ SetHook \/ RunThread \/ Started
    BY <2>2, AllocRingsKeeps, AllocListKeeps, SetHookKeeps, RunThreadKeeps, StartedKeeps
  <2>3. CASE Disarm \/ FreeStore \/ StopThread \/ Join \/ Free \/ Stopped
    BY <2>3, DisarmKeeps, FreeStoreKeeps, StopThreadKeeps, JoinKeeps, FreeKeeps, StoppedKeeps
  <2> QED
    BY <1>3, <2>1, <2>2, <2>3 DEF Command
<1>4. CASE \E c \in CPUs : CallHook(c) \/ HandlerStep(c)
  BY <1>4, CallHookKeeps, LookAtStoreKeeps, WriteRingKeeps, ResetStoreKeeps DEF HandlerStep
<1>5. CASE Thread
  BY <1>5, AskShouldStopKeeps, AskNeedToStopKeeps, ReadRingKeeps, FindNothingKeeps,
    LeaveKeeps, SearchListKeeps DEF Thread
<1>6. CASE OrphanRuns
  BY <1>6, OrphanRunsKeeps
<1>7. CASE UNCHANGED vars
  BY <1>7, StutterKeeps
<1> QED
  BY <1>1, <1>2, <1>3, <1>4, <1>5, <1>6, <1>7 DEF Next

LEMMA SessionInvariant == Spec => []SessionInv
BY InitKeeps, NextKeeps, PTL DEF Spec

-----------------------------------------------------------------------------
(* Every variable of a session keeps its type.                             *)
THEOREM SessionTypeCorrect == Spec => []TypeOK
<1>1. SessionInv => TypeOK
  BY DEF SessionInv
<1> QED
  BY <1>1, SessionInvariant, PTL

(* Nothing freed is used by a handler or by the thread, whichever step of  *)
(* pebs_mod_init fails and whenever pebs_mod_exit comes: what can be hit   *)
(* is what never was there, or what a removed module left.                 *)
THEOREM NothingFreedIsUsed == Spec => []FaultHasCause
<1>1. SessionInv => FaultHasCause
  BY DEF SessionInv
<1> QED
  BY <1>1, SessionInvariant, PTL

(* The hardware samples into a store that is not freed: pebs_mod_exit      *)
(* resets a CPU before it frees its store.                                 *)
THEOREM HardwareWritesItsStore == Spec => []SamplesIntoStore
<1>1. SessionInv => SamplesIntoStore
  BY DEF SessionInv
<1> QED
  BY <1>1, SessionInvariant, PTL

(* pebs_mod_exit undoes all of pebs_mod_init, however far that came.       *)
THEOREM StopUndoesStart == Spec => []OffLeavesNothing
<1>1. SessionInv => OffLeavesNothing
  <2> SUFFICES ASSUME SessionInv, Quiet, is_start = 0
               PROVE  /\ hook = "null" /\ armed = {} /\ stores = {} /\ ~rings /\ ~list
                      /\ tpc = "none" /\ analyze_pthread = "null"
                      /\ \A c \in CPUs : hpc[c] = "idle"
    BY DEF OffLeavesNothing
  <2>1. TypeOK /\ Orderly /\ pc = "idle" /\ ~leftOn
    BY DEF SessionInv, Quiet
  <2>2. stores = {} /\ armed = {}
    BY <2>1 DEF Orderly, StoreInv, ArmedInv, IsOff
  <2>3. ~rings /\ ~list
    BY <2>1 DEF Orderly, MemoryInv, Running
  <2>4. hook = "null"
    BY <2>1, <2>3 DEF TypeOK, Orderly, HookInv
  <2>5. tpc = "none" /\ analyze_pthread = "null"
    BY <2>1, <2>3 DEF Orderly, ThreadInv
  <2>6. \A c \in CPUs : hpc[c] = "idle"
    BY <2>1, <2>3 DEF Orderly, HandlerInv
  <2> QED
    BY <2>2, <2>3, <2>4, <2>5, <2>6
<1> QED
  BY <1>1, SessionInvariant, PTL

(* A session without its thread never gets through a stop.                 *)
LEMMA StaysOnKept == SessionInv /\ StaysOn /\ [Next]_vars => StaysOn'
<1> SUFFICES ASSUME SessionInv, StaysOn, [Next]_vars
             PROVE  StaysOn'
  OBVIOUS
<1> USE DEF StaysOn
<1>1. fault = "none" =>
        /\ pc \in {"set_up", "list", "thread"} => lack = {}
        /\ pc \in {"join", "free", "off"} => "thread" \notin lack
  BY DEF SessionInv, Orderly, MemoryInv, ThreadInv
<1>2. CASE Acquire \/ AcquireFails \/ Unload
  <2>1. UNCHANGED <<pc, lack>> /\ (leftOn' \/ (~leftOn /\ UNCHANGED is_start))
    BY <1>2 DEF Acquire, AcquireFails, Unload, SessionInv, TypeOK
  <2> QED
    BY <2>1
<1>3. CASE Start \/ Stop
  BY <1>3 DEF Start, Stop
<1>4. CASE Command
  <2>1. CASE \E c \in CPUs : SetUp(c) \/ SetUpGivesUp(c)
    BY <2>1 DEF SetUp, SetUpGivesUp, OnCpu
  <2>2. CASE AllocRings \/ AllocList \/ SetHook \/ RunThread
    BY <1>1, <2>2 DEF AllocRings, AllocList, SetHook, RunThread
  <2>3. CASE Started
    BY <2>3 DEF Started
  <2>4. CASE Disarm \/ FreeStore
    BY <2>4 DEF Disarm, FreeStore
  <2>5. CASE StopThread
    BY <2>5 DEF StopThread
  <2>6. CASE Join \/ Free \/ Stopped
    BY <1>1, <2>6 DEF Join, Free, Stopped
  <2> QED
    BY <1>4, <2>1, <2>2, <2>3, <2>4, <2>5, <2>6 DEF Command
<1>5. CASE \E c \in CPUs : CallHook(c) \/ HandlerStep(c)
  <2>1. ASSUME NEW c, NEW from, NEW to, NEW missing, Handler(c, from, to, missing)
        PROVE  UNCHANGED <<is_start, pc, lack, leftOn>>
    BY <2>1 DEF Handler
  <2>2. PICK c \in CPUs : CallHook(c) \/ HandlerStep(c)
    BY <1>5
  <2>3. UNCHANGED <<is_start, pc, lack, leftOn>>
    BY <2>1, <2>2 DEF CallHook, HandlerStep, LookAtStore, WriteRing, ResetStore
  <2> QED
    BY <2>3
<1>6. CASE Thread
  BY <1>6 DEF Thread, AskShouldStop, AskNeedToStop, ReadRing, FindNothing, Leave,
    SearchList, ThreadStep
<1>7. CASE OrphanRuns
  BY <1>7 DEF OrphanRuns
<1>8. CASE UNCHANGED vars
  BY <1>8 DEF vars
<1> QED
  BY <1>2, <1>3, <1>4, <1>5, <1>6, <1>7, <1>8 DEF Next

(* What a session has is told by what failed at its start: nothing, the    *)
(* memory, or the thread, a failure that pebs_mod_init does not undo and   *)
(* pebs_mod_exit does not survive.                                         *)
THEOREM StartMatchesWhatFailed == Spec => []OnMatchesWhatFailed
<1>1. SessionInv /\ StaysOn => OnMatchesWhatFailed
  <2> SUFFICES ASSUME SessionInv, Quiet, is_start = 1
               PROVE  /\ armed = CPUs \ unset /\ stores = armed
                      /\ \/ lack = {} /\ Works
                         \/ lack \in {{"rings"}, {"list"}} /\ OnlySamples
                         \/ lack = {"thread"} /\ FillsUnread
    BY DEF OnMatchesWhatFailed
  <2>1. TypeOK /\ Orderly /\ pc = "idle" /\ ~leftOn
    BY DEF SessionInv, Quiet
  <2>2. stores = armed
    BY <2>1 DEF Orderly, ArmedInv
  <2>3. armed = CPUs \ unset
    BY <2>1, <2>2 DEF Orderly, ArmedInv, StoreInv, Running, TypeOK
  <2>4. ASSUME lack \cap {"rings", "list"} = {}
        PROVE  rings /\ list /\ hook = "handler" /\ need_to_stop = 0
    <3>1. rings /\ list
      BY <2>1, <2>4 DEF Orderly, MemoryInv, Running
    <3> QED
      BY <2>1, <3>1 DEF Orderly, HookInv, PhaseInv, Running
  <2>5. CASE lack = {}
    <3>1. analyze_pthread = "task" /\ tpc \notin {"none", "dead"}
      BY <2>1, <2>4, <2>5 DEF Orderly, ThreadInv, Running
    <3> QED
      BY <2>2, <2>3, <2>4, <2>5, <3>1 DEF Works
  <2>6. CASE lack = {"thread"}
    <3>1. analyze_pthread = "error" /\ tpc = "none"
      BY <2>1, <2>6 DEF Orderly, ThreadInv, Running
    <3> QED
      BY <2>2, <2>3, <2>4, <2>6, <3>1 DEF FillsUnread
  <2>7. CASE lack \in {{"rings"}, {"list"}}
    <3>1. ~rings /\ ~list
      BY <2>1, <2>7 DEF Orderly, MemoryInv, Running
    <3>2. hook = "null"
      BY <2>1, <3>1 DEF TypeOK, Orderly, HookInv
    <3>3. analyze_pthread = "null" /\ tpc = "none"
      BY <2>1, <3>1 DEF Orderly, ThreadInv
    <3>4. \A c \in CPUs : hpc[c] = "idle"
      BY <2>1, <3>1 DEF Orderly, HandlerInv
    <3> QED
      BY <2>2, <2>3, <2>7, <3>1, <3>2, <3>3, <3>4 DEF OnlySamples
  <2>8. lack \in {{}, {"rings"}, {"list"}, {"thread"}}
    BY <2>1 DEF Orderly, MemoryInv
  <2> QED
    BY <2>5, <2>6, <2>7, <2>8
<1>2. Init => StaysOn
  BY DEF Init, StaysOn
<1> QED
  BY <1>1, <1>2, StaysOnKept, SessionInvariant, PTL DEF Spec
=============================================================================
