---------------------------- MODULE CodeRequest ----------------------------
(***************************************************************************)
(* How the analysis threads of the user program obtain the code behind a   *)
(* jump (full_diasm_info::get_jmp_info), and how the program stops.  A     *)
(* thread draws an id, enters it in _thread_code_map, sends the request    *)
(* "g" and waits at most a second for the reply, which the receiving       *)
(* thread takes from the netlink socket and files under the id.            *)
(*                                                                         *)
(* The kernel runs recv_callback inside the sendto of the sender: it notes *)
(* who sent last (usermod_pid), and later replies to whom it has noted.    *)
(* A reply that finds the receiving socket full is lost (MSG_DONTWAIT).    *)
(* Other processes may send "s" as well: main does so when "stop" is typed *)
(* in a program that was not started.                                      *)
(*                                                                         *)
(* get_jmp_info looks its entry up twice without the lock of the map; when *)
(* the map is changed meanwhile the program may die or go on.              *)
(***************************************************************************)
EXTENDS Integers, Sequences, FiniteSets

CONSTANTS
  Workers,  \* the analysis threads
  Others,   \* other processes in which "stop" may be typed
  NumIds,   \* ids in the range of a thread
  QCap,     \* replies the socket buffer holds
  MaxJobs   \* bound: records whose code has a jump to follow

ASSUME RequestAssumption ==
  /\ NumIds \in Nat \ {0} /\ QCap \in Nat \ {0} /\ MaxJobs \in Nat

VARIABLES
  is_start,    \* this_netlink.is_start
  usermod,     \* this_netlink.usermod_pid: Me or one of Others
  sock,        \* messages in the socket of this program
  code_map,    \* _thread_code_map: replies filed for an id, or NoEntry
  mutex,       \* who holds _thread_code_map_mutex
  jobs,        \* records taken from _code_queue
  wpc, id, job,\* where an analysis thread is, its thread_id and record
  rpc, rmsg,   \* where the receiving thread is, the message it handles
  mpc,         \* where main is
  opc,         \* where the "stop" of another process is
  intr,        \* threads for which interrupt() has been called
  dead,        \* the program died in a lookup without the lock
  redrawn,     \* history: records whose id was drawn too early again
  exit_lost    \* history: an "exit" did not reach this program

kernel == <<is_start, usermod>>
worker == <<jobs, wpc, id, job>>
recv == <<rpc, rmsg>>
end == <<dead, redrawn, exit_lost>>
vars == <<is_start, usermod, sock, code_map, mutex, jobs, wpc, id, job,
          rpc, rmsg, mpc, opc, intr, dead, redrawn, exit_lost>>

Me == "me"
Free == "free"
Receiver == "receiver"
Ids == Workers \X (1 .. NumIds)
\* A mutant of IdsOf.
IdsOfAll(w) == Ids
(* The ranges of the threads are disjoint.                                 *)
IdsOf(w) == {w} \X (1 .. NumIds)
NoEntry == [job |-> 0, messages |-> <<>>]
NewEntry(n) == [job |-> n, messages |-> <<>>]
Exit == [id |-> <<>>, job |-> 0]
Open == rpc # "ended"         \* the receiving thread closes it when it ends

Init ==
  /\ is_start = TRUE /\ usermod = Me
  /\ sock = <<>> /\ code_map = [i \in Ids |-> NoEntry] /\ mutex = Free
  /\ jobs = 0
  /\ wpc = [w \in Workers |-> "idle"] /\ id = [w \in Workers |-> <<w, 1>>]
  /\ job = [w \in Workers |-> 0]
  /\ rpc = "top" /\ rmsg = Exit
  /\ mpc = "run" /\ opc = [o \in Others |-> "off"]
  /\ intr = {} /\ dead = FALSE /\ redrawn = {} /\ exit_lost = FALSE

(* send_msg_by_netlink: to whom the kernel has noted, if there is room.    *)
Reply(m) ==
  sock' = IF usermod = Me /\ Open /\ Len(sock) < QCap THEN Append(sock, m) ELSE sock

(* A reply for the id has not reached the map.                             *)
OnItsWay(i) ==
  \/ rpc = "handle" /\ rmsg.id = i
  \/ \E k \in DOMAIN sock : sock[k].id = i

(* The map is changed while another thread looks something up in it.       *)
ChangeMap(w) ==
  dead' \in {FALSE, \E v \in Workers \ {w} : wpc[v] = "lookup"}

-----------------------------------------------------------------------------
(* An analysis thread: load_code, analyze, get_jmp_info.                   *)

(* It holds a record with a jump to follow, takes the lock and makes an    *)
(* entry, over one that is left from before.                               *)
Enter(w) ==
  /\ ~dead /\ wpc[w] = "idle" /\ mpc \notin {"workers", "done"} /\ w \notin intr
  /\ jobs < MaxJobs /\ mutex = Free
  /\ \E i \in IdsOf(w) :
       /\ id' = [id EXCEPT ![w] = i]
       /\ code_map' = [code_map EXCEPT ![i] = NewEntry(jobs + 1)]
       /\ redrawn' = IF OnItsWay(i) THEN redrawn \cup {jobs + 1} ELSE redrawn
  /\ jobs' = jobs + 1 /\ job' = [job EXCEPT ![w] = jobs + 1]
  /\ mutex' = w
  /\ wpc' = [wpc EXCEPT ![w] = "send"]
  /\ ChangeMap(w)
  /\ UNCHANGED <<kernel, sock, recv, mpc, opc, intr, exit_lost>>

(* sendto, up to where recv_callback has noted the sender.                 *)
Ask(w) ==
  /\ ~dead /\ wpc[w] = "send" /\ Open
  /\ usermod' = Me
  /\ wpc' = [wpc EXCEPT ![w] = "asked"]
  /\ UNCHANGED <<is_start, sock, code_map, mutex, jobs, id, job, recv, mpc, opc,
                 intr, end>>

(* The socket is closed: send_message throws, the lock is released on the  *)
(* way to the handler in analyze, and the entry stays.                     *)
AskClosed(w) ==
  /\ ~dead /\ wpc[w] = "send" /\ ~Open
  /\ mutex' = Free
  /\ wpc' = [wpc EXCEPT ![w] = "idle"]
  /\ UNCHANGED <<kernel, sock, code_map, jobs, id, job, recv, mpc, opc, intr, end>>

(* read_data replies with the code or with "the process is gone", or, when *)
(* the pages cannot be had, not at all; then the lock is released.         *)
Answer(w) ==
  /\ ~dead /\ wpc[w] = "asked"
  /\ Reply([id |-> id[w], job |-> job[w]]) \/ UNCHANGED sock
  /\ mutex' = Free
  /\ wpc' = [wpc EXCEPT ![w] = "lookup"]
  /\ UNCHANGED <<kernel, code_map, jobs, id, job, recv, mpc, opc, intr, end>>

(* The entry has been looked up and the thread sleeps on its condition.    *)
(* From here on it is notified.                                            *)
Wait(w) ==
  /\ ~dead /\ wpc[w] = "lookup"
  /\ wpc' = [wpc EXCEPT ![w] = "wait"]
  /\ UNCHANGED <<kernel, sock, code_map, mutex, jobs, id, job, recv, mpc, opc,
                 intr, end>>

\* A mutant of Timeout.
NeverTimeout(w) == FALSE /\ UNCHANGED vars
(* A second has passed, or wait_for returns for no reason.                 *)
Timeout(w) ==
  /\ ~dead /\ wpc[w] = "wait"
  /\ wpc' = [wpc EXCEPT ![w] = "woken"]
  /\ UNCHANGED <<kernel, sock, code_map, mutex, jobs, id, job, recv, mpc, opc,
                 intr, end>>

(* wait_for throws thread_interrupted, which analyze swallows.             *)
Interrupted(w) ==
  /\ ~dead /\ wpc[w] = "wait" /\ w \in intr
  /\ wpc' = [wpc EXCEPT ![w] = "idle"]
  /\ UNCHANGED <<kernel, sock, code_map, mutex, jobs, id, job, recv, mpc, opc,
                 intr, end>>

(* Under the lock the replies are used and the entry is erased.            *)
Collect(w) ==
  /\ ~dead /\ wpc[w] = "woken" /\ mutex = Free
  /\ code_map' = [code_map EXCEPT ![id[w]] = NoEntry]
  /\ wpc' = [wpc EXCEPT ![w] = "idle"]
  /\ ChangeMap(w)
  /\ UNCHANGED <<kernel, sock, mutex, jobs, id, job, recv, mpc, opc, intr, redrawn, exit_lost>>

(* The loop ends.                                                          *)
End(w) ==
  /\ ~dead /\ wpc[w] = "idle" /\ (mpc = "workers" \/ w \in intr)
  /\ wpc' = [wpc EXCEPT ![w] = "ended"]
  /\ UNCHANGED <<kernel, sock, code_map, mutex, jobs, id, job, recv, mpc, opc,
                 intr, end>>

-----------------------------------------------------------------------------
(* thread_recv_data_by_netlink.                                            *)

(* The interruption point at the top of the loop.                          *)
Top ==
  /\ ~dead /\ rpc = "top"
  /\ rpc' = IF Receiver \in intr THEN "ended" ELSE "recv"
  /\ sock' = IF Receiver \in intr THEN <<>> ELSE sock
  /\ UNCHANGED <<kernel, code_map, mutex, worker, rmsg, mpc, opc, intr, end>>

(* recvfrom blocks, and is no interruption point.                          *)
Receive ==
  /\ ~dead /\ rpc = "recv" /\ sock # <<>>
  /\ rmsg' = Head(sock) /\ sock' = Tail(sock)
  /\ rpc' = "handle"
  /\ UNCHANGED <<kernel, code_map, mutex, worker, mpc, opc, intr, end>>

\* A mutant of ReceiveExit.
ReceiveExitLoops ==
  /\ ~dead /\ rpc = "handle" /\ rmsg = Exit
  /\ rpc' = "top"
  /\ UNCHANGED <<kernel, sock, code_map, mutex, worker, rmsg, mpc, opc, intr, end>>
(* "exit": the socket is closed and the thread ends.                       *)
ReceiveExit ==
  /\ ~dead /\ rpc = "handle" /\ rmsg = Exit
  /\ rpc' = "ended" /\ sock' = <<>>
  /\ UNCHANGED <<kernel, code_map, mutex, worker, rmsg, mpc, opc, intr, end>>

(* Code: under the lock it is filed, if its id is still in the map, and    *)
(* when the reply asked for is there, the thread that sleeps is woken.     *)
Known(i) == code_map[i] # NoEntry
\* A mutant of File.
FileToAll(i) ==
  code_map' = [k \in Ids |-> IF Known(k) THEN [code_map[k] EXCEPT !.messages = Append(@, rmsg.job)]
                             ELSE code_map[k]]
File(i) ==
  code_map' = IF Known(i) THEN [code_map EXCEPT ![i].messages = Append(@, rmsg.job)]
              ELSE code_map
Notify(i) ==
  wpc' = IF Known(i) /\ code_map[i].messages = <<>>
         THEN [w \in Workers |-> IF wpc[w] = "wait" /\ id[w] = i THEN "woken" ELSE wpc[w]]
         ELSE wpc
Deliver ==
  /\ ~dead /\ rpc = "handle" /\ rmsg # Exit /\ mutex = Free
  /\ File(rmsg.id)
  /\ Notify(rmsg.id)
  /\ rpc' = "top"
  /\ UNCHANGED <<kernel, sock, mutex, jobs, id, job, rmsg, mpc, opc, intr, end>>

-----------------------------------------------------------------------------
(* main, when "stop" is typed.                                             *)

(* send_message("s"): recv_callback notes the sender and, if a session is  *)
(* on, enters pebs_mod_exit.                                               *)
TypeStop ==
  /\ ~dead /\ mpc = "run"
  /\ IF Open THEN usermod' = Me /\ mpc' = IF is_start THEN "exiting" ELSE "sleep"
     ELSE UNCHANGED usermod /\ mpc' = "sleep"
  /\ UNCHANGED <<is_start, sock, code_map, mutex, worker, recv, opc, intr, end>>

(* pebs_mod_exit is over, "exit" is sent to whom the kernel noted last.    *)
ExitIsSent ==
  /\ Reply(Exit)
  /\ is_start' = FALSE
  /\ exit_lost' = (exit_lost \/ (Open /\ sock' = sock))
  /\ UNCHANGED <<dead, redrawn>>

SendExit ==
  /\ ~dead /\ mpc = "exiting"
  /\ ExitIsSent
  /\ mpc' = "sleep"
  /\ UNCHANGED <<usermod, code_map, mutex, worker, recv, opc, intr>>

(* Ten seconds later stop_recv_thread interrupts the receiving thread ...  *)
InterruptReceiver ==
  /\ ~dead /\ mpc = "sleep"
  /\ intr' = intr \cup {Receiver} /\ mpc' = "join"
  /\ UNCHANGED <<kernel, sock, code_map, mutex, worker, recv, opc, end>>

(* ... and waits for its end; then stop_analyze_data                       *)
JoinReceiver ==
  /\ ~dead /\ mpc = "join" /\ rpc = "ended"
  /\ mpc' = "workers"
  /\ UNCHANGED <<kernel, sock, code_map, mutex, worker, recv, opc, intr, end>>

(* interrupts the analysis threads one after the other and waits for each. *)
InterruptWorker(w) ==
  /\ ~dead /\ mpc = "workers" /\ w \notin intr
  /\ \A v \in intr \cap Workers : wpc[v] = "ended"
  /\ intr' = intr \cup {w}
  /\ UNCHANGED <<kernel, sock, code_map, mutex, worker, recv, mpc, opc, end>>

Finish ==
  /\ ~dead /\ mpc = "workers" /\ Workers \subseteq intr
  /\ \A w \in Workers : wpc[w] = "ended"
  /\ mpc' = "done"
  /\ UNCHANGED <<kernel, sock, code_map, mutex, worker, recv, opc, intr, end>>

(* "stop" typed in another process: its "s" is noted, and answered later.  *)
OtherStop(o) ==
  /\ ~dead /\ opc[o] = "off"
  /\ usermod' = o
  /\ opc' = [opc EXCEPT ![o] = IF is_start THEN "exiting" ELSE "done"]
  /\ UNCHANGED <<is_start, sock, code_map, mutex, worker, recv, mpc, intr, end>>

OtherExit(o) ==
  /\ ~dead /\ opc[o] = "exiting"
  /\ ExitIsSent
  /\ opc' = [opc EXCEPT ![o] = "done"]
  /\ UNCHANGED <<usermod, code_map, mutex, worker, recv, mpc, intr>>

-----------------------------------------------------------------------------
Request(w) ==
  Ask(w) \/ AskClosed(w) \/ Answer(w) \/ Wait(w) \/ Timeout(w) \/ Interrupted(w)
    \/ Collect(w) \/ End(w)
ReceiveData == Top \/ Receive \/ ReceiveExit \/ Deliver
Stop ==
  \/ SendExit \/ InterruptReceiver \/ JoinReceiver \/ Finish
  \/ \E w \in Workers : InterruptWorker(w)

Next ==
  \/ \E w \in Workers : Enter(w) \/ Request(w)
  \/ ReceiveData
  \/ TypeStop \/ Stop
  \/ \E o \in Others : OtherStop(o) \/ OtherExit(o)

(* Every thread is scheduled, and the lock, which is asked for a bounded   *)
(* number of times, is obtained; nobody has to type "stop", and no record  *)
(* need come.                                                              *)
Fairness ==
  /\ \A w \in Workers : WF_vars(Request(w))
  /\ WF_vars(ReceiveData) /\ WF_vars(Stop)
  /\ \A o \in Others : WF_vars(OtherExit(o))

Spec == Init /\ [][Next]_vars
FairSpec == Spec /\ Fairness

-----------------------------------------------------------------------------
(* Properties.                                                             *)

Message == [id : Ids \cup {<<>>}, job : 0 .. MaxJobs]

TypeOK ==
  /\ is_start \in BOOLEAN /\ usermod \in {Me} \cup Others
  /\ sock \in Seq(Message) /\ Len(sock) <= QCap
  /\ code_map \in [Ids -> [job : 0 .. MaxJobs, messages : Seq(1 .. MaxJobs)]]
  /\ mutex \in Workers \cup {Free} /\ jobs \in 0 .. MaxJobs
  /\ wpc \in [Workers -> {"idle", "send", "asked", "lookup", "wait", "woken", "ended"}]
  /\ id \in [Workers -> Ids] /\ job \in [Workers -> 0 .. MaxJobs]
  /\ rpc \in {"top", "recv", "handle", "ended"} /\ rmsg \in Message
  /\ mpc \in {"run", "exiting", "sleep", "join", "workers", "done"}
  /\ opc \in [Others -> {"off", "exiting", "done"}]
  /\ intr \subseteq Workers \cup {Receiver} /\ dead \in BOOLEAN
  /\ redrawn \subseteq 1 .. MaxJobs /\ exit_lost \in BOOLEAN

(* The lookups of get_jmp_info, without the lock and after the sleep, find *)
(* the thread's own entry: no other thread replaces or erases it.          *)
OwnEntry ==
  \A w \in Workers :
    wpc[w] \in {"send", "asked", "lookup", "wait", "woken"} => code_map[id[w]].job = job[w]

(* The replies a thread finds are answers to its request, even those that  *)
(* come after a timeout, unless it draws an id again while a reply to the  *)
(* request before is still on its way.                                     *)
OwnReplies ==
  \A i \in Ids : code_map[i].job \notin redrawn =>
    \A k \in DOMAIN code_map[i].messages : code_map[i].messages[k] = code_map[i].job

(* A thread that asked comes back to its loop, with or without a reply and *)
(* even if the notification came before it slept.                          *)
RequestEnds ==
  \A w \in Workers : (wpc[w] = "send") ~> (wpc[w] \in {"idle", "ended"} \/ dead)

(* "type stop to stop the test": after "stop" the program ends.            *)
StopEnds == (mpc # "run") ~> (mpc = "done" \/ dead)

(* It does, wherever the threads are, unless the kernel's one "exit" was   *)
(* sent to another process or found the socket full.                       *)
StopEndsWithExit == (mpc # "run") ~> (mpc = "done" \/ dead \/ exit_lost)
=============================================================================
