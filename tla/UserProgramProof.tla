-------------------------- MODULE UserProgramProof -------------------------
(***************************************************************************)
(* Proofs about the user program: the requests for code and their replies  *)
(* (CodeRequest), and the registers of the static analysis (SymRegs).      *)
(***************************************************************************)
EXTENDS CodeRequest, SymRegs, SequenceTheorems, TLAPS

Busy == {"send", "asked", "lookup", "wait", "woken"}

(* A message on its way, in the socket or in the hands of the receiver.    *)
Flying(m) ==
  \/ rpc = "handle" /\ rmsg = m
  \/ \E k \in DOMAIN sock : sock[k] = m

(* A message that could be filed under its id answers the request that     *)
(* made the entry, unless the id was drawn again too early.                *)
Answers(m) ==
  /\ m.id \in Ids /\ m.job \in 1 .. MaxJobs
  /\ code_map[m.id] # NoEntry => code_map[m.id].job \in redrawn \cup {m.job}

OwnId == \A w \in Workers : id[w] \in IdsOf(w)
OwnJob == \A w \in Workers : wpc[w] \in Busy => job[w] \in 1 .. MaxJobs
InFlight == \A m : Flying(m) => m = Exit \/ Answers(m)
CodeInv == TypeOK /\ OwnId /\ OwnJob /\ OwnEntry /\ InFlight /\ OwnReplies

LEMMA IdsDisjoint ==
  ASSUME NEW v \in Workers, NEW w \in Workers, v # w,
         NEW i \in IdsOf(v), NEW k \in IdsOf(w)
  PROVE  i # k
BY DEF IdsOf

LEMMA IdsOfInIds == \A w \in Workers : \A i \in IdsOf(w) : i \in Ids
BY DEF IdsOf, Ids

LEMMA ExitHasNoId == Exit \in Message /\ \A i \in Ids : i # Exit.id
BY RequestAssumption DEF Exit, Ids, Message

-----------------------------------------------------------------------------
LEMMA InitInv == Init => CodeInv
<1> SUFFICES ASSUME Init PROVE CodeInv  OBVIOUS
<1>1. OwnId /\ id \in [Workers -> Ids]
  <2>1. \A w \in Workers : <<w, 1>> \in IdsOf(w) /\ <<w, 1>> \in Ids
    BY RequestAssumption DEF IdsOf, Ids
  <2> QED  BY <2>1 DEF Init, OwnId
<1>2. NoEntry \in [job : 0 .. MaxJobs, messages : Seq(1 .. MaxJobs)]
  BY RequestAssumption DEF NoEntry
<1>3. TypeOK
  <2>1. sock \in Seq(Message) /\ Len(sock) <= QCap  BY RequestAssumption DEF Init
  <2>2. code_map \in [Ids -> [job : 0 .. MaxJobs, messages : Seq(1 .. MaxJobs)]]
    BY <1>2 DEF Init
  <2>3. is_start \in BOOLEAN /\ dead \in BOOLEAN /\ exit_lost \in BOOLEAN  BY Zenon DEF Init
  <2>4. /\ wpc \in [Workers -> {"idle", "send", "asked", "lookup", "wait", "woken", "ended"}]
        /\ opc \in [Others -> {"off", "exiting", "done"}]
    BY DEF Init
  <2>5. /\ jobs \in 0 .. MaxJobs /\ job \in [Workers -> 0 .. MaxJobs]
        /\ mutex \in Workers \cup {Free} /\ usermod \in {Me} \cup Others
        /\ rpc \in {"top", "recv", "handle", "ended"} /\ rmsg \in Message
    BY RequestAssumption, ExitHasNoId DEF Init
  <2>6. /\ mpc \in {"run", "exiting", "sleep", "join", "workers", "done"}
        /\ intr \subseteq Workers \cup {Receiver} /\ redrawn \subseteq 1 .. MaxJobs
    BY DEF Init
  <2> QED  BY <1>1, <2>1, <2>2, <2>3, <2>4, <2>5, <2>6 DEF TypeOK
<1>4. OwnJob /\ OwnEntry  BY DEF Init, OwnJob, OwnEntry, Busy
<1>5. InFlight  BY DEF Init, InFlight, Flying
<1>6. OwnReplies
  <2>1. \A i \in Ids : DOMAIN code_map[i].messages = {}  BY DEF Init, NoEntry
  <2> QED  BY <2>1 DEF OwnReplies
<1> QED  BY <1>1, <1>3, <1>4, <1>5, <1>6 DEF CodeInv

-----------------------------------------------------------------------------
(* What a step keeps that changes neither the entries nor the threads'     *)
(* requests.                                                               *)
LEMMA OwnKept ==
  ASSUME OwnId, OwnJob, OwnEntry, UNCHANGED <<id, job, code_map>>,
         \A w \in Workers : wpc'[w] \in Busy => wpc[w] \in Busy
  PROVE  OwnId' /\ OwnJob' /\ OwnEntry'
<1>1. OwnId' /\ OwnJob'  BY DEF OwnId, OwnJob, IdsOf
<1>2. OwnEntry'  BY DEF OwnEntry, Busy
<1> QED  BY <1>1, <1>2

LEMMA FlightKept ==
  ASSUME InFlight, UNCHANGED <<code_map, redrawn>>,
         \A m : Flying(m)' => Flying(m) \/ m = Exit
  PROVE  InFlight'
BY Zenon DEF InFlight, Answers, Exit, Ids

LEMMA RepliesKept == OwnReplies /\ UNCHANGED <<code_map, redrawn>> => OwnReplies'
BY Zenon DEF OwnReplies, Ids

LEMMA QuietInv ==
  ASSUME CodeInv, TypeOK', UNCHANGED <<code_map, id, job, sock, rpc, rmsg, redrawn>>,
         \A w \in Workers : wpc'[w] \in Busy => wpc[w] \in Busy
  PROVE  CodeInv'
<1>1. \A m : Flying(m)' => Flying(m)  BY Zenon DEF Flying
<1> QED  BY <1>1, OwnKept, FlightKept, RepliesKept DEF CodeInv

(* A message that is sent joins those on their way.                        *)
LEMMA ReplyFlies ==
  ASSUME TypeOK, NEW m \in Message, Reply(m), UNCHANGED <<rpc, rmsg>>, NEW x, Flying(x)'
  PROVE  Flying(x) \/ x = m
<1>1. CASE rpc = "handle" /\ rmsg = x  BY <1>1 DEF Flying
<1>2. CASE ~(rpc = "handle" /\ rmsg = x)
  <2>1. PICK k \in DOMAIN sock' : sock'[k] = x  BY <1>2 DEF Flying
  <2>2. sock' = sock \/ sock' = Append(sock, m)  BY DEF Reply
  <2>3. sock \in Seq(Message)  BY DEF TypeOK
  <2> QED  BY <2>1, <2>2, <2>3 DEF Flying
<1> QED  BY <1>1, <1>2

LEMMA ReplyType ==
  ASSUME TypeOK, NEW m \in Message, Reply(m)
  PROVE  sock' \in Seq(Message) /\ Len(sock') <= QCap
BY RequestAssumption DEF TypeOK, Reply

-----------------------------------------------------------------------------
LEMMA AskInv == ASSUME CodeInv, NEW w \in Workers, Ask(w) PROVE CodeInv'
<1>1. TypeOK'  BY DEF CodeInv, TypeOK, Ask, kernel, end, recv
<1>2. \A v \in Workers : wpc'[v] \in Busy => wpc[v] \in Busy
  BY DEF CodeInv, TypeOK, Ask, Busy
<1> QED  BY <1>1, <1>2, QuietInv DEF Ask, recv, end

LEMMA AskClosedInv == ASSUME CodeInv, NEW w \in Workers, AskClosed(w) PROVE CodeInv'
<1>1. TypeOK'  BY DEF CodeInv, TypeOK, AskClosed, kernel, end, recv
<1>2. \A v \in Workers : wpc'[v] \in Busy => wpc[v] \in Busy
  BY DEF CodeInv, TypeOK, AskClosed, Busy
<1> QED  BY <1>1, <1>2, QuietInv DEF AskClosed, recv, end

LEMMA WaitInv == ASSUME CodeInv, NEW w \in Workers, Wait(w) PROVE CodeInv'
<1>1. TypeOK'  BY DEF CodeInv, TypeOK, Wait, kernel, end, recv
<1>2. \A v \in Workers : wpc'[v] \in Busy => wpc[v] \in Busy
  BY DEF CodeInv, TypeOK, Wait, Busy
<1> QED  BY <1>1, <1>2, QuietInv DEF Wait, recv, end

LEMMA TimeoutInv == ASSUME CodeInv, NEW w \in Workers, Timeout(w) PROVE CodeInv'
<1>1. TypeOK'  BY DEF CodeInv, TypeOK, Timeout, kernel, end, recv
<1>2. \A v \in Workers : wpc'[v] \in Busy => wpc[v] \in Busy
  BY DEF CodeInv, TypeOK, Timeout, Busy
<1> QED  BY <1>1, <1>2, QuietInv DEF Timeout, recv, end

LEMMA InterruptedInv == ASSUME CodeInv, NEW w \in Workers, Interrupted(w) PROVE CodeInv'
<1>1. TypeOK'  BY DEF CodeInv, TypeOK, Interrupted, kernel, end, recv
<1>2. \A v \in Workers : wpc'[v] \in Busy => wpc[v] \in Busy
  BY DEF CodeInv, TypeOK, Interrupted, Busy
<1> QED  BY <1>1, <1>2, QuietInv DEF Interrupted, recv, end

LEMMA EndInv == ASSUME CodeInv, NEW w \in Workers, End(w) PROVE CodeInv'
<1>1. TypeOK'  BY DEF CodeInv, TypeOK, End, kernel, end, recv
<1>2. \A v \in Workers : wpc'[v] \in Busy => wpc[v] \in Busy
  BY DEF CodeInv, TypeOK, End, Busy
<1> QED  BY <1>1, <1>2, QuietInv DEF End, recv, end

(* The steps of main, but SendExit, and those of another process up to     *)
(* where its "exit" is sent.                                               *)
LEMMA TypeStopInv == ASSUME CodeInv, TypeStop PROVE CodeInv'
<1>1. TypeOK'  BY DEF CodeInv, TypeOK, TypeStop, kernel, worker, recv, end
<1> QED  BY <1>1, QuietInv DEF TypeStop, worker, recv, end

LEMMA InterruptReceiverInv == ASSUME CodeInv, InterruptReceiver PROVE CodeInv'
<1>1. TypeOK'  BY DEF CodeInv, TypeOK, InterruptReceiver, kernel, worker, recv, end
<1> QED  BY <1>1, QuietInv DEF InterruptReceiver, worker, recv, end

LEMMA JoinReceiverInv == ASSUME CodeInv, JoinReceiver PROVE CodeInv'
<1>1. TypeOK'  BY DEF CodeInv, TypeOK, JoinReceiver, kernel, worker, recv, end
<1> QED  BY <1>1, QuietInv DEF JoinReceiver, worker, recv, end

LEMMA InterruptWorkerInv == ASSUME CodeInv, NEW w \in Workers, InterruptWorker(w) PROVE CodeInv'
<1>1. TypeOK'  BY DEF CodeInv, TypeOK, InterruptWorker, kernel, worker, recv, end
<1> QED  BY <1>1, QuietInv DEF InterruptWorker, worker, recv, end

LEMMA FinishInv == ASSUME CodeInv, Finish PROVE CodeInv'
<1>1. TypeOK'  BY DEF CodeInv, TypeOK, Finish, kernel, worker, recv, end
<1> QED  BY <1>1, QuietInv DEF Finish, worker, recv, end

LEMMA OtherStopInv == ASSUME CodeInv, NEW o \in Others, OtherStop(o) PROVE CodeInv'
<1>1. TypeOK'  BY DEF CodeInv, TypeOK, OtherStop, kernel, worker, recv, end
<1> QED  BY <1>1, QuietInv DEF OtherStop, worker, recv, end

-----------------------------------------------------------------------------
(* The steps of the receiving thread.                                      *)
LEMMA TopInv == ASSUME CodeInv, Top PROVE CodeInv'
<1>1. TypeOK'
  <2>1. sock' \in Seq(Message) /\ Len(sock') <= QCap
    BY RequestAssumption DEF CodeInv, TypeOK, Top
  <2> QED  BY <2>1 DEF CodeInv, TypeOK, Top, kernel, worker, end
<1>2. \A m : Flying(m)' => Flying(m)  BY DEF Top, Flying, kernel, worker, end
<1> QED  BY <1>1, <1>2, OwnKept, FlightKept, RepliesKept DEF CodeInv, Top, worker, end

LEMMA ReceiveInv == ASSUME CodeInv, Receive PROVE CodeInv'
<1>1. sock \in Seq(Message) /\ sock # <<>> /\ Len(sock) <= QCap
  BY DEF CodeInv, TypeOK, Receive
<1>2. /\ rmsg' = sock[1] /\ rmsg' \in Message
      /\ sock' \in Seq(Message) /\ Len(sock') <= QCap
      /\ \A k \in DOMAIN sock' : k + 1 \in DOMAIN sock /\ sock'[k] = sock[k + 1]
  BY <1>1, RequestAssumption DEF Receive
<1>3. TypeOK'  BY <1>2 DEF CodeInv, TypeOK, Receive, kernel, worker, end
<1>4. 1 \in DOMAIN sock  BY <1>1
<1>5. \A m : Flying(m)' => Flying(m)  BY <1>2, <1>4 DEF Receive, Flying
<1> QED  BY <1>3, <1>5, OwnKept, FlightKept, RepliesKept DEF CodeInv, Receive, worker, end

LEMMA ReceiveExitInv == ASSUME CodeInv, ReceiveExit PROVE CodeInv'
<1>1. sock' \in Seq(Message) /\ Len(sock') <= QCap
  BY RequestAssumption DEF ReceiveExit
<1>2. TypeOK'  BY <1>1 DEF CodeInv, TypeOK, ReceiveExit, kernel, worker, end
<1>3. \A m : Flying(m)' => Flying(m)  BY DEF ReceiveExit, Flying
<1> QED  BY <1>2, <1>3, OwnKept, FlightKept, RepliesKept DEF CodeInv, ReceiveExit, worker, end

(* Filing keeps which request made an entry, and appends the message that  *)
(* was in the receiver's hands.                                            *)
LEMMA Filed ==
  ASSUME CodeInv, Deliver
  PROVE  /\ rmsg.id \in Ids /\ rmsg.job \in 1 .. MaxJobs
         /\ code_map' \in [Ids -> [job : 0 .. MaxJobs, messages : Seq(1 .. MaxJobs)]]
         /\ \A i \in Ids :
              /\ code_map'[i].job = code_map[i].job
              /\ i # rmsg.id \/ code_map[i] = NoEntry => code_map'[i] = code_map[i]
              /\ i = rmsg.id /\ code_map[i] # NoEntry =>
                   /\ code_map[i].job \in redrawn \cup {rmsg.job}
                   /\ code_map'[i].messages = Append(code_map[i].messages, rmsg.job)
<1>1. Answers(rmsg)  BY DEF CodeInv, Deliver, InFlight, Flying
<1>2. rmsg.id \in Ids /\ rmsg.job \in 1 .. MaxJobs  BY <1>1 DEF Answers
<1> DEFINE i == rmsg.id
<1>3. code_map \in [Ids -> [job : 0 .. MaxJobs, messages : Seq(1 .. MaxJobs)]]
  BY DEF CodeInv, TypeOK
<1>4. CASE code_map[i] = NoEntry
  <2>1. code_map' = code_map  BY <1>4 DEF Deliver, File, Known
  <2> QED  BY <2>1, <1>2, <1>3, <1>4
<1>5. CASE code_map[i] # NoEntry
  <2>1. code_map' = [code_map EXCEPT ![i].messages = Append(@, rmsg.job)]
    BY <1>5 DEF Deliver, File, Known
  <2>2. code_map[i].job \in redrawn \cup {rmsg.job}  BY <1>1, <1>5 DEF Answers
  <2>3. Append(code_map[i].messages, rmsg.job) \in Seq(1 .. MaxJobs)  BY <1>2, <1>3
  <2> QED  BY <1>2, <1>3, <1>5, <2>1, <2>2, <2>3
<1> QED  BY <1>4, <1>5

LEMMA DeliverInv == ASSUME CodeInv, Deliver PROVE CodeInv'
<1>1. /\ wpc' \in [Workers -> {"idle", "send", "asked", "lookup", "wait", "woken", "ended"}]
      /\ \A w \in Workers : wpc'[w] \in Busy => wpc[w] \in Busy
  BY DEF CodeInv, TypeOK, Deliver, Notify, Busy
<1>2. TypeOK'  BY <1>1, Filed DEF CodeInv, TypeOK, Deliver, kernel, end
<1>3. OwnId' /\ OwnJob'  BY <1>1 DEF CodeInv, OwnId, OwnJob, IdsOf, Deliver
<1>4. OwnEntry'
  <2> SUFFICES ASSUME NEW w \in Workers, wpc'[w] \in Busy
               PROVE  code_map'[id[w]].job = job[w]
    BY DEF OwnEntry, Busy, Deliver
  <2>1. id[w] \in Ids  BY DEF CodeInv, TypeOK
  <2>2. code_map[id[w]].job = job[w]  BY <1>1 DEF CodeInv, OwnEntry, Busy
  <2> QED  BY <2>1, <2>2, Filed
<1>5. InFlight'
  <2> SUFFICES ASSUME NEW m, Flying(m)', m # Exit PROVE Answers(m)'
    BY DEF InFlight, Exit
  <2>1. Answers(m)  BY DEF Flying, Deliver, CodeInv, InFlight
  <2>2. /\ code_map'[m.id].job = code_map[m.id].job
        /\ code_map'[m.id] # NoEntry => code_map[m.id] # NoEntry
    BY <2>1, Filed DEF Answers
  <2> QED  BY <2>1, <2>2 DEF Answers, Deliver, end, Ids, NoEntry
<1>6. OwnReplies'
  <2> SUFFICES ASSUME NEW i \in Ids, code_map'[i].job \notin redrawn,
                      NEW k \in DOMAIN code_map'[i].messages
               PROVE  code_map'[i].messages[k] = code_map'[i].job
    BY DEF OwnReplies, Deliver, end, Ids
  <2>1. CASE i # rmsg.id \/ code_map[i] = NoEntry
    <3>1. code_map'[i] = code_map[i]  BY <2>1, Filed
    <3> QED  BY <3>1 DEF CodeInv, OwnReplies
  <2>2. CASE i = rmsg.id /\ code_map[i] # NoEntry
    <3>1. code_map[i].messages \in Seq(1 .. MaxJobs)  BY DEF CodeInv, TypeOK
    <3>2. code_map[i].job = rmsg.job /\ code_map'[i].job = code_map[i].job  BY <2>2, Filed
    <3>3. code_map'[i].messages = Append(code_map[i].messages, rmsg.job)  BY <2>2, Filed
    <3>4. \A j \in DOMAIN code_map[i].messages : code_map[i].messages[j] = code_map[i].job
      BY <3>2 DEF CodeInv, OwnReplies
    <3> QED  BY <3>1, <3>2, <3>3, <3>4
  <2> QED  BY <2>1, <2>2
<1> QED  BY <1>2, <1>3, <1>4, <1>5, <1>6 DEF CodeInv

-----------------------------------------------------------------------------
(* The kernel's "exit", for this program's "s" and for another's.          *)
LEMMA ExitFlies ==
  ASSUME CodeInv, ExitIsSent, UNCHANGED <<rpc, rmsg, code_map>>
  PROVE  InFlight' /\ OwnReplies'
<1>1. \A m : Flying(m)' => Flying(m) \/ m = Exit
  BY ReplyFlies, ExitHasNoId DEF CodeInv, ExitIsSent
<1> QED  BY <1>1, FlightKept, RepliesKept DEF CodeInv, ExitIsSent

LEMMA SendExitInv == ASSUME CodeInv, SendExit PROVE CodeInv'
<1>1. sock' \in Seq(Message) /\ Len(sock') <= QCap
  BY ReplyType, ExitHasNoId DEF CodeInv, SendExit, ExitIsSent
<1>2. is_start' \in BOOLEAN /\ exit_lost' \in BOOLEAN /\ dead' = dead /\ redrawn' = redrawn
  BY DEF CodeInv, TypeOK, SendExit, ExitIsSent
<1>3. TypeOK'  BY <1>1, <1>2 DEF CodeInv, TypeOK, SendExit, worker, recv
<1> QED  BY <1>3, ExitFlies, OwnKept DEF CodeInv, SendExit, worker, recv

LEMMA OtherExitInv == ASSUME CodeInv, NEW o \in Others, OtherExit(o) PROVE CodeInv'
<1>1. sock' \in Seq(Message) /\ Len(sock') <= QCap
  BY ReplyType, ExitHasNoId DEF CodeInv, OtherExit, ExitIsSent
<1>2. is_start' \in BOOLEAN /\ exit_lost' \in BOOLEAN /\ dead' = dead /\ redrawn' = redrawn
  BY DEF CodeInv, TypeOK, OtherExit, ExitIsSent
<1>3. TypeOK'  BY <1>1, <1>2 DEF CodeInv, TypeOK, OtherExit, worker, recv
<1> QED  BY <1>3, ExitFlies, OwnKept DEF CodeInv, OtherExit, worker, recv

-----------------------------------------------------------------------------
(* The steps of an analysis thread that send or change the map.            *)
LEMMA AnswerInv == ASSUME CodeInv, NEW w \in Workers, Answer(w) PROVE CodeInv'
<1> DEFINE m == [id |-> id[w], job |-> job[w]]
<1>1. /\ id[w] \in Ids /\ job[w] \in 1 .. MaxJobs
      /\ code_map[id[w]].job = job[w]
  BY DEF CodeInv, TypeOK, OwnJob, OwnEntry, Answer, Busy
<1>2. m \in Message  BY <1>1, RequestAssumption DEF Message
<1>3. sock' \in Seq(Message) /\ Len(sock') <= QCap
  <2>1. CASE Reply(m)  BY <2>1, <1>2, ReplyType DEF CodeInv
  <2>2. CASE sock' = sock  BY <2>2 DEF CodeInv, TypeOK
  <2> QED  BY <2>1, <2>2 DEF Answer
<1>4. /\ wpc' \in [Workers -> {"idle", "send", "asked", "lookup", "wait", "woken", "ended"}]
      /\ \A v \in Workers : wpc'[v] \in Busy => wpc[v] \in Busy
  BY DEF CodeInv, TypeOK, Answer, Busy
<1>5. TypeOK'  BY <1>3, <1>4 DEF CodeInv, TypeOK, Answer, kernel, recv, end
<1>6. InFlight'
  <2> SUFFICES ASSUME NEW x, Flying(x)', x # Exit PROVE Answers(x)
    BY Zenon DEF InFlight, Answers, Answer, end, Exit, Ids
  <2>1. Flying(x) \/ x = m
    <3>1. CASE Reply(m)  BY <3>1, <1>2, ReplyFlies DEF CodeInv, Answer, recv
    <3>2. CASE sock' = sock  BY <3>2 DEF Answer, recv, Flying
    <3> QED  BY <3>1, <3>2 DEF Answer
  <2>2. Answers(m)  BY <1>1 DEF Answers
  <2> QED  BY <2>1, <2>2 DEF CodeInv, InFlight
<1> QED  BY <1>4, <1>5, <1>6, OwnKept, RepliesKept DEF CodeInv, Answer, end

(* An entry of a thread's own range is no other thread's.                  *)
LEMMA OthersKeepEntry ==
  ASSUME CodeInv, NEW w \in Workers, NEW i \in IdsOf(w), NEW e,
         code_map' = [code_map EXCEPT ![i] = e]
  PROVE  \A v \in Workers \ {w} : code_map'[id[v]] = code_map[id[v]]
<1> TAKE v \in Workers \ {w}
<1>1. id[v] # i  BY IdsDisjoint DEF CodeInv, OwnId
<1>2. id[v] \in Ids /\ code_map \in [Ids -> [job : 0 .. MaxJobs, messages : Seq(1 .. MaxJobs)]]
  BY DEF CodeInv, TypeOK
<1> QED  BY <1>1, <1>2

LEMMA EnterInv == ASSUME CodeInv, NEW w \in Workers, Enter(w) PROVE CodeInv'
<1>1. PICK i \in IdsOf(w) :
        /\ id' = [id EXCEPT ![w] = i]
        /\ code_map' = [code_map EXCEPT ![i] = NewEntry(jobs + 1)]
        /\ redrawn' = IF OnItsWay(i) THEN redrawn \cup {jobs + 1} ELSE redrawn
  BY DEF Enter
<1>2. i \in Ids  BY IdsOfInIds
<1>3. jobs + 1 \in 1 .. MaxJobs  BY RequestAssumption DEF CodeInv, TypeOK, Enter
<1>4. NewEntry(jobs + 1) \in [job : 0 .. MaxJobs, messages : Seq(1 .. MaxJobs)]
  BY <1>3 DEF NewEntry
<1>5. /\ code_map' \in [Ids -> [job : 0 .. MaxJobs, messages : Seq(1 .. MaxJobs)]]
      /\ code_map'[i] = NewEntry(jobs + 1)
      /\ \A k \in Ids \ {i} : code_map'[k] = code_map[k]
  BY <1>1, <1>2, <1>4 DEF CodeInv, TypeOK
<1>6. /\ id' \in [Workers -> Ids] /\ id'[w] = i
      /\ \A v \in Workers \ {w} : id'[v] = id[v]
  BY <1>1, <1>2 DEF CodeInv, TypeOK
<1>7. /\ job' \in [Workers -> 0 .. MaxJobs] /\ job'[w] = jobs + 1
      /\ \A v \in Workers \ {w} : job'[v] = job[v]
  BY <1>3 DEF CodeInv, TypeOK, Enter
<1>8. /\ wpc' \in [Workers -> {"idle", "send", "asked", "lookup", "wait", "woken", "ended"}]
      /\ \A v \in Workers \ {w} : wpc'[v] = wpc[v]
  BY DEF CodeInv, TypeOK, Enter
<1>9. redrawn' \subseteq 1 .. MaxJobs /\ redrawn \subseteq redrawn'
  BY <1>1, <1>3 DEF CodeInv, TypeOK
<1>10. TypeOK'
  <2>1. dead' \in BOOLEAN  BY DEF Enter, ChangeMap
  <2> QED  BY <2>1, <1>3, <1>5, <1>6, <1>7, <1>8, <1>9 DEF CodeInv, TypeOK, Enter, kernel, recv
<1>11. OwnId'  BY <1>6 DEF CodeInv, OwnId, IdsOf
<1>12. OwnJob'  BY <1>3, <1>7, <1>8 DEF CodeInv, OwnJob
<1>13. OwnEntry'
  <2>1. code_map'[id'[w]].job = job'[w]  BY <1>5, <1>6, <1>7 DEF NewEntry
  <2>2. \A v \in Workers \ {w} : code_map'[id'[v]] = code_map[id[v]]
    BY <1>1, <1>6, OthersKeepEntry
  <2> QED  BY <2>1, <2>2, <1>7, <1>8 DEF CodeInv, OwnEntry
<1>14. \A m : Flying(m)' => Flying(m)  BY Zenon DEF Enter, recv, Flying
<1>15. InFlight'
  <2> SUFFICES ASSUME NEW m, Flying(m), m # Exit PROVE Answers(m)'
    BY <1>14 DEF InFlight, Exit
  <2>1. Answers(m)  BY DEF CodeInv, InFlight
  <2>2. CASE m.id = i
    <3>1. OnItsWay(i)  BY <2>2 DEF Flying, OnItsWay
    <3>2. code_map'[i].job \in redrawn'  BY <3>1, <1>1, <1>5 DEF NewEntry
    <3> QED  BY <2>1, <2>2, <3>2 DEF Answers, Ids
  <2>3. CASE m.id # i
    <3>1. code_map'[m.id] = code_map[m.id]  BY <2>1, <2>3, <1>5 DEF Answers
    <3> QED  BY <2>1, <3>1, <1>9 DEF Answers, Ids, NoEntry
  <2> QED  BY <2>2, <2>3
<1>16. OwnReplies'
  <2> SUFFICES ASSUME NEW k \in Ids, code_map'[k].job \notin redrawn',
                      NEW n \in DOMAIN code_map'[k].messages
               PROVE  code_map'[k].messages[n] = code_map'[k].job
    BY DEF OwnReplies, Ids
  <2>1. k # i  BY <1>5 DEF NewEntry
  <2>2. code_map'[k] = code_map[k]  BY <2>1, <1>5
  <2> QED  BY <2>2, <1>9 DEF CodeInv, OwnReplies
<1> QED  BY <1>10, <1>11, <1>12, <1>13, <1>15, <1>16 DEF CodeInv

LEMMA CollectInv == ASSUME CodeInv, NEW w \in Workers, Collect(w) PROVE CodeInv'
<1>1. id[w] \in IdsOf(w) /\ id[w] \in Ids  BY DEF CodeInv, OwnId, TypeOK
<1>2. NoEntry \in [job : 0 .. MaxJobs, messages : Seq(1 .. MaxJobs)]
  BY RequestAssumption DEF NoEntry
<1>3. /\ code_map' \in [Ids -> [job : 0 .. MaxJobs, messages : Seq(1 .. MaxJobs)]]
      /\ \A i \in Ids : code_map'[i] = IF i = id[w] THEN NoEntry ELSE code_map[i]
  BY <1>1, <1>2 DEF CodeInv, TypeOK, Collect
<1>4. /\ wpc' \in [Workers -> {"idle", "send", "asked", "lookup", "wait", "woken", "ended"}]
      /\ wpc'[w] = "idle" /\ \A v \in Workers \ {w} : wpc'[v] = wpc[v]
  BY DEF CodeInv, TypeOK, Collect
<1>5. TypeOK'
  <2>1. dead' \in BOOLEAN  BY DEF Collect, ChangeMap
  <2> QED  BY <2>1, <1>3, <1>4 DEF CodeInv, TypeOK, Collect, kernel, recv
<1>6. OwnId' /\ OwnJob'
  BY <1>4 DEF CodeInv, OwnId, OwnJob, IdsOf, Busy, Collect
<1>7. OwnEntry'
  <2>1. \A v \in Workers \ {w} : code_map'[id[v]] = code_map[id[v]]
    BY <1>1, OthersKeepEntry DEF Collect
  <2> QED  BY <2>1, <1>4 DEF CodeInv, OwnEntry, Collect
<1>8. InFlight'
  <2> SUFFICES ASSUME NEW m, Flying(m), m # Exit PROVE Answers(m)'
    BY Zenon DEF InFlight, Exit, Flying, Collect, recv
  <2>1. Answers(m)  BY DEF CodeInv, InFlight
  <2> QED  BY <2>1, <1>3 DEF Answers, Collect, Ids, NoEntry
<1>9. OwnReplies'
  <2>1. DOMAIN NoEntry.messages = {}  BY DEF NoEntry
  <2> QED  BY <2>1, <1>3 DEF CodeInv, OwnReplies, Collect, Ids
<1> QED  BY <1>5, <1>6, <1>7, <1>8, <1>9 DEF CodeInv

-----------------------------------------------------------------------------
LEMMA NextInv == CodeInv /\ [Next]_vars => CodeInv'
<1> SUFFICES ASSUME CodeInv, [Next]_vars PROVE CodeInv'  OBVIOUS
<1>1. ASSUME NEW w \in Workers, Enter(w) \/ Request(w) PROVE CodeInv'
  BY <1>1, EnterInv, AskInv, AskClosedInv, AnswerInv, WaitInv, TimeoutInv,
     InterruptedInv, CollectInv, EndInv DEF Request
<1>2. CASE ReceiveData
  BY <1>2, TopInv, ReceiveInv, ReceiveExitInv, DeliverInv DEF ReceiveData
<1>3. CASE TypeStop \/ Stop
  BY <1>3, TypeStopInv, SendExitInv, InterruptReceiverInv, JoinReceiverInv,
     FinishInv, InterruptWorkerInv DEF Stop
<1>4. ASSUME NEW o \in Others, OtherStop(o) \/ OtherExit(o) PROVE CodeInv'
  BY <1>4, OtherStopInv, OtherExitInv
<1>5. CASE UNCHANGED vars
  <2>1. TypeOK'  BY <1>5 DEF CodeInv, TypeOK, vars
  <2> QED  BY <2>1, <1>5, QuietInv DEF vars
<1> QED  BY <1>1, <1>2, <1>3, <1>4, <1>5 DEF Next

(* Every value keeps its type: what is sent has an id of a thread, and the *)
(* socket never holds more than it has room for.                           *)
THEOREM RequestTypeCorrect == Spec => []TypeOK
<1>1. CodeInv => TypeOK  BY DEF CodeInv
<1> QED  BY <1>1, InitInv, NextInv, PTL DEF Spec

(* The two lookups of get_jmp_info, made without the lock, find the entry  *)
(* the thread made, whatever the other threads do.                         *)
THEOREM LookupFindsOwnEntry == Spec => []OwnEntry
<1>1. CodeInv => OwnEntry  BY DEF CodeInv
<1> QED  BY <1>1, InitInv, NextInv, PTL DEF Spec

(* What is filed under an entry answers the request that made it, unless   *)
(* its id was drawn again while a reply was on its way.                    *)
THEOREM RepliesMatchRequests == Spec => []OwnReplies
<1>1. CodeInv => OwnReplies  BY DEF CodeInv
<1> QED  BY <1>1, InitInv, NextInv, PTL DEF Spec
-----------------------------------------------------------------------------
(***************************************************************************)
(* The registers of the static analysis, for any registers and taints and  *)
(* any number of writes.                                                   *)
(***************************************************************************)

(* What a symbol is made of, whether or not anything is known of it.  A    *)
(* number has four digits and no pointers.  Those of a name are null or    *)
(* point to symbols of its parts; the one of its own width, if it is not   *)
(* null, to the name below byte writes; a wider one is null.               *)
Digit == 0 .. 3
Fields == {"num", "n", "t", "mul", "p64", "p32", "p16", "ph", "pl"}
IsNumber(s) == s = Number(s.n) /\ s.n \in [1 .. 4 -> Digit]

Sym1(s) ==
  /\ s # Null
  /\ IF s.num THEN IsNumber(s)
     ELSE /\ DOMAIN s = Fields /\ s.p64 = Null /\ s.p32 = Null /\ s.p16 = Null
          /\ s.pl \in {Null, Zero}
Opt1(p) == p = Null \/ Sym1(p)
Bytes(s) == Opt1(s.ph) /\ Opt1(s.pl)
Narrow2(s) == s.p64 = Null /\ s.p32 = Null
Past2(p) ==
  p = Null \/ IF p.num THEN IsNumber(p)
               ELSE DOMAIN p = Fields /\ Bytes(p) /\ Narrow2(p) /\ p.p16 = Null
Sym2(s) ==
  s # Null /\ IF s.num THEN IsNumber(s)
              ELSE DOMAIN s = Fields /\ Bytes(s) /\ Narrow2(s) /\ Past2(s.p16)
Opt2(p) == p = Null \/ Sym2(p)
Sym3(s) ==
  s # Null /\ IF s.num THEN IsNumber(s)
              ELSE DOMAIN s = Fields /\ Bytes(s) /\ s.p64 = Null /\ Opt2(s.p16)
Opt3(p) == p = Null \/ Sym3(p)
Sym4(s) ==
  s # Null /\ IF s.num THEN IsNumber(s) ELSE Bytes(s) /\ Opt2(s.p16) /\ Opt3(s.p32)
Sym(w, s) ==
  CASE w = 1 -> Sym1(s) [] w = 2 -> Sym2(s) [] w = 3 -> Sym3(s) [] w = 4 -> Sym4(s)

(* The symbol below the byte writes.                                       *)
Own(w, s) ==
  CASE w = 1 -> s [] w = 2 -> Base(s, s.p16) [] w = 3 -> Base(s, s.p32)
    [] w = 4 -> Base(s, s.p64)

(* A symbol that is the value d with the taints T, in all its parts, but   *)
(* for the digits W of those that are numbers.                             *)
Equals(s, d, w, T, W) == T = {} /\ \A i \in (1 .. w) \ W : s.n[i] = d[i]
Tainted(w, s, T) == T \subseteq s.t /\ T \subseteq Own(w, s).t

Good1(s, x, T, wrong) == s # Null /\ IF s.num THEN wrong \/ s.n[1] = x ELSE T \subseteq s.t
GoodBytes(s, d, T, W) == Good1(s.ph, d[2], T, 2 \in W) /\ Good1(s.pl, d[1], T, 1 \in W)
Good2(s, d, T, W) ==
  s # Null /\ IF s.num THEN Equals(s, d, 2, T, W) ELSE Tainted(2, s, T) /\ GoodBytes(s, d, T, W)
Good3(s, d, T, W) ==
  s # Null /\ IF s.num THEN Equals(s, d, 3, T, W)
              ELSE Tainted(3, s, T) /\ GoodBytes(s, d, T, W) /\ Good2(s.p16, d, T, W)
Good4(s, d, T, W) ==
  s # Null /\ IF s.num THEN Equals(s, d, 4, T, W)
              ELSE /\ Tainted(4, s, T) /\ GoodBytes(s, d, T, W)
                   /\ Good2(s.p16, d, T, W) /\ Good3(s.p32, d, T, W)
Good(w, s, d, T, W) ==
  CASE w = 1 -> Good1(s, d[1], T, 1 \in W) [] w = 2 -> Good2(s, d, T, W)
    [] w = 3 -> Good3(s, d, T, W) [] w = 4 -> Good4(s, d, T, W)

(* An entry of the map, by how far it is trusted (k), with the digits it   *)
(* has wrong (b) and those its parts have (W), and a symbol that may be    *)
(* written to a part.                                                      *)
All(D) == D.wide \cup D.last
Carries(w, s, D) ==
  IF s.num THEN w = 1 \/ All(D) = {} ELSE All(D) \subseteq s.t /\ D.wide \subseteq Own(w, s).t
At(P, v) == IF P = "rh" THEN <<v[2]>> ELSE v
Bent(P, b) == IF P = "rh" THEN {i \in {1} : 2 \in b} ELSE b
Entry(P, s, v, b, W, D, k) ==
  /\ s = Null => k = 0 /\ P # "r64"
  /\ s # Null => Sym(Width[P], s)
  /\ k > 0 => /\ s.num => \A i \in (1 .. Width[P]) \ Bent(P, b) : s.n[i] = At(P, v)[i]
              /\ Carries(Width[P], s, D)
  /\ k = 2 /\ ~s.num => Good(Width[P], s, At(P, v), All(D), W)
Item(w, x) ==
  /\ DOMAIN x = {"s", "d", "wrong", "due", "trust"}
  /\ Sym(w, x.s) /\ x.d \in [1 .. w -> 0 .. 4] /\ x.trust \in 0 .. 2
  /\ x.s.num => /\ x.trust = 2 /\ All(x.due) = {} /\ x.wrong = Wrong(x.s)
                /\ \A i \in 1 .. w : x.s.n[i] = x.d[i]
  /\ x.trust > 0 => Carries(w, x.s, x.due)
  /\ x.trust = 2 /\ ~x.s.num => Good(w, x.s, x.d, All(x.due), x.wrong)

(* The parts inside a part, and the digits they have wrong.                *)
Under(P) ==
  CASE P = "r64" -> {"r32", "r16", "rh", "rl"} [] P = "r32" -> {"r16", "rh", "rl"}
    [] P = "r16" -> {"rh", "rl"} [] OTHER -> {}
BentUnder(P, b) == UNION {b[Q] : Q \in PartsOf(reg) \cap Under(P)}

ShapeInv ==
  /\ reg \in Registers /\ val \in [1 .. 4 -> 0 .. 4]
  /\ DOMAIN parts = PartsOf(reg) /\ DOMAIN due = PartsOf(reg)
  /\ trust \in [PartsOf(reg) -> 0 .. 2]
EntryInv ==
  \A P \in PartsOf(reg) :
    Entry(P, parts[P], val, bent[P], BentUnder(P, bent), due[P], trust[P])
MemInv == \A m \in mem : \E w \in 1 .. 4 : Item(w, m)
SymInv == ShapeInv /\ EntryInv /\ MemInv
-----------------------------------------------------------------------------
(* Symbols.                                                                *)
Names == DOMAIN Width

(* The names of the parts and how many digits they have.                   *)
LEMMA WidthIs ==
  /\ Names = {"r64", "r32", "r16", "rh", "rl"}
  /\ Width["r64"] = 4 /\ Width["r32"] = 3 /\ Width["r16"] = 2
  /\ Width["rh"] = 1 /\ Width["rl"] = 1
BY DEF Names, Width

(* A record with the fields of a symbol is not the null pointer.           *)
LEMMA NotNull == ASSUME NEW s, "num" \in DOMAIN s PROVE s # Null
BY DEF Null

(* A number and a name as they are made.                                   *)
LEMMA NumberIs ==
  ASSUME NEW n
  PROVE  /\ Number(n) # Null /\ Number(n).num /\ Number(n).n = n /\ Number(n).t = {}
         /\ Number(n).p64 = Null /\ Number(n).p32 = Null /\ Number(n).p16 = Null
         /\ Number(n).ph = Null /\ Number(n).pl = Null
<1>1. "num" \in DOMAIN Number(n)  BY DEF Number
<1>2. Number(n) # Null  BY <1>1, NotNull
<1> QED  BY <1>2 DEF Number

LEMMA NameIs ==
  ASSUME NEW t
  PROVE  /\ Name(t) # Null /\ ~Name(t).num /\ Name(t).t = t
         /\ Name(t).p64 = Null /\ Name(t).p32 = Null /\ Name(t).p16 = Null
         /\ Name(t).ph = Null /\ Name(t).pl = Null /\ DOMAIN Name(t) = Fields
<1>1. "num" \in DOMAIN Name(t)  BY DEF Name, Number
<1>2. Name(t) # Null  BY <1>1, NotNull
<1> QED  BY <1>2 DEF Name, Number, Fields

(* Sym and Good, width by width.                                           *)
LEMMA SymIs ==
  ASSUME NEW s
  PROVE  /\ Sym(1, s) <=> Sym1(s)
         /\ Sym(2, s) <=> Sym2(s)
         /\ Sym(3, s) <=> Sym3(s)
         /\ Sym(4, s) <=> Sym4(s)
BY DEF Sym

LEMMA Widths == ASSUME NEW w \in 1 .. 4 PROVE w = 1 \/ w = 2 \/ w = 3 \/ w = 4
OBVIOUS

LEMMA SymNotNull == ASSUME NEW w \in 1 .. 4, NEW s, Sym(w, s) PROVE s # Null
<1>1. (Sym1(s) \/ Sym2(s) \/ Sym3(s) \/ Sym4(s)) => s # Null  BY DEF Sym1, Sym2, Sym3, Sym4
<1> QED  BY <1>1, Widths, SymIs

(* A number is its digits, and its own past.                               *)
LEMMA IsNumberSym ==
  ASSUME NEW w \in 1 .. 4, NEW s, s # Null, s.num, IsNumber(s)
  PROVE  Sym(w, s)
<1>1. CASE w = 1  BY <1>1, SymIs DEF Sym1
<1>2. CASE w = 2  BY <1>2, SymIs DEF Sym2
<1>3. CASE w = 3  BY <1>3, SymIs DEF Sym3
<1>4. CASE w = 4  BY <1>4, SymIs DEF Sym4
<1> QED  BY <1>1, <1>2, <1>3, <1>4, Widths

LEMMA NumberSym ==
  ASSUME NEW w \in 1 .. 4, NEW n \in [1 .. 4 -> Digit]
  PROVE  Sym(w, Number(n))
<1> DEFINE s == Number(n)
<1>0. s # Null /\ s.num /\ s.n = n  BY NumberIs
<1>1. s # Null /\ s.num /\ IsNumber(s)
  <2>1. s = Number(s.n)  BY <1>0
  <2> HIDE DEF s
  <2> QED  BY <1>0, <2>1 DEF IsNumber
<1> QED  BY <1>1, IsNumberSym

LEMMA NumberOf ==
  ASSUME NEW w \in 1 .. 4, NEW s, Sym(w, s), s.num
  PROVE  /\ s.n \in [1 .. 4 -> Digit] /\ s.t = {} /\ Own(w, s) = s
         /\ s.p64 = Null /\ s.p32 = Null /\ s.p16 = Null /\ s.ph = Null /\ s.pl = Null
<1>1. IsNumber(s)
  <2>1. CASE w = 1  BY <2>1, SymIs DEF Sym1
  <2>2. CASE w = 2  BY <2>2, SymIs DEF Sym2
  <2>3. CASE w = 3  BY <2>3, SymIs DEF Sym3
  <2>4. CASE w = 4  BY <2>4, SymIs DEF Sym4
  <2> QED  BY <2>1, <2>2, <2>3, <2>4, Widths
<1>2. s = Number(s.n)  BY <1>1 DEF IsNumber
<1>3. /\ s.t = {} /\ s.p64 = Null /\ s.p32 = Null /\ s.p16 = Null
      /\ s.ph = Null /\ s.pl = Null
  BY <1>2, NumberIs
<1>4. Own(w, s) = s  BY <1>3 DEF Own, Base
<1> QED  BY <1>1, <1>3, <1>4 DEF IsNumber

LEMMA GoodIs ==
  ASSUME NEW s, NEW d, NEW T, NEW W
  PROVE  /\ Good(1, s, d, T, W) <=> Good1(s, d[1], T, 1 \in W)
         /\ Good(2, s, d, T, W) <=> Good2(s, d, T, W)
         /\ Good(3, s, d, T, W) <=> Good3(s, d, T, W)
         /\ Good(4, s, d, T, W) <=> Good4(s, d, T, W)
BY DEF Good

LEMMA AtIs ==
  ASSUME NEW v
  PROVE  /\ At("rh", v) = <<v[2]>> /\ At("rh", v)[1] = v[2]
         /\ \A P : P # "rh" => At(P, v) = v
BY DEF At

(* What a symbol equals depends on the digits of its width.                *)
LEMMA GoodSame ==
  ASSUME NEW w \in 1 .. 4, NEW s, NEW d, NEW e, NEW T, NEW W,
         \A i \in 1 .. w : d[i] = e[i], Good(w, s, d, T, W)
  PROVE  Good(w, s, e, T, W)
<1>2. ASSUME NEW r, d[1] = e[1], d[2] = e[2], GoodBytes(r, d, T, W)
      PROVE  GoodBytes(r, e, T, W)
  BY <1>2 DEF GoodBytes
<1>3. ASSUME NEW r, \A i \in 1 .. 2 : d[i] = e[i], Good2(r, d, T, W)
      PROVE  Good2(r, e, T, W)
  <2>1. d[1] = e[1] /\ d[2] = e[2]  BY <1>3
  <2> QED  BY <1>2, <1>3, <2>1 DEF Good2, Equals
<1>4. ASSUME NEW r, \A i \in 1 .. 3 : d[i] = e[i], Good3(r, d, T, W)
      PROVE  Good3(r, e, T, W)
  <2>1. d[1] = e[1] /\ d[2] = e[2] /\ \A i \in 1 .. 2 : d[i] = e[i]  BY <1>4
  <2> QED  BY <1>2, <1>3, <1>4, <2>1 DEF Good3, Equals
<1>5. ASSUME NEW r, \A i \in 1 .. 4 : d[i] = e[i], Good4(r, d, T, W)
      PROVE  Good4(r, e, T, W)
  <2>1. /\ d[1] = e[1] /\ d[2] = e[2] /\ \A i \in 1 .. 2 : d[i] = e[i]
        /\ \A i \in 1 .. 3 : d[i] = e[i]
    BY <1>5
  <2> QED  BY <1>2, <1>3, <1>4, <1>5, <2>1 DEF Good4, Equals
<1>6. CASE w = 1
  <2>1. d[1] = e[1]  BY <1>6
  <2> QED  BY <1>6, <2>1 DEF Good
<1>7. CASE w = 2  BY <1>3, <1>7 DEF Good
<1>8. CASE w = 3  BY <1>4, <1>8 DEF Good
<1>9. CASE w = 4  BY <1>5, <1>9 DEF Good
<1> QED  BY <1>6, <1>7, <1>8, <1>9

LEMMA GoodCarries ==
  ASSUME NEW w \in 1 .. 4, NEW s, NEW d, NEW T, NEW W, Good(w, s, d, T, W)
  PROVE  /\ s # Null
         /\ s.num => (w = 1 \/ T = {}) /\ \A i \in (1 .. w) \ W : s.n[i] = d[i]
         /\ ~s.num => Tainted(w, s, T)
<1>1. CASE w = 1  BY <1>1 DEF Good, Good1, Tainted, Own
<1>2. CASE w = 2  BY <1>2 DEF Good, Good2, Equals
<1>3. CASE w = 3  BY <1>3 DEF Good, Good3, Equals
<1>4. CASE w = 4  BY <1>4 DEF Good, Good4, Equals
<1> QED  BY <1>1, <1>2, <1>3, <1>4

(* A number equals its digits.                                             *)
LEMMA NumberGood ==
  ASSUME NEW w \in 1 .. 4, NEW s, s # Null, s.num, NEW d, NEW W,
         \A i \in (1 .. w) \ W : s.n[i] = d[i]
  PROVE  Good(w, s, d, {}, W)
<1>1. CASE w = 1
  <2>1. 1 \in W \/ s.n[1] = d[1]  BY <1>1
  <2> QED  BY <1>1, <2>1 DEF Good, Good1
<1>2. CASE w = 2  BY <1>2 DEF Good, Good2, Equals
<1>3. CASE w = 3  BY <1>3 DEF Good, Good3, Equals
<1>4. CASE w = 4  BY <1>4 DEF Good, Good4, Equals
<1> QED  BY <1>1, <1>2, <1>3, <1>4
-----------------------------------------------------------------------------
(* Entries.                                                                *)
LEMMA AllOnly == ASSUME NEW T PROVE All(Only(T)) = T /\ Only(T).wide = T
BY DEF All, Only

(* What makes a number, and a name, a good entry.                          *)
LEMMA NumberEntry ==
  ASSUME NEW P \in Names, NEW n \in [1 .. 4 -> Digit], NEW v, NEW b, NEW W, NEW D, NEW k,
         k > 0 => /\ All(D) = {}
                  /\ \A i \in (1 .. Width[P]) \ Bent(P, b) : n[i] = At(P, v)[i]
  PROVE  Entry(P, Number(n), v, b, W, D, k)
<1>1. Number(n) # Null /\ Number(n).num /\ Number(n).n = n  BY NumberIs
<1>2. Width[P] \in 1 .. 4  BY WidthIs
<1>3. Sym(Width[P], Number(n))  BY <1>2, NumberSym
<1> QED  BY <1>1, <1>3 DEF Entry, Carries

LEMMA NameEntry ==
  ASSUME NEW P \in Names, NEW w \in 1 .. 4, w = Width[P],
         NEW s, Sym(w, s), ~s.num, NEW v, NEW b, NEW W, NEW D, NEW k,
         k > 0 => All(D) \subseteq s.t /\ D.wide \subseteq Own(w, s).t,
         k = 2 => Good(w, s, At(P, v), All(D), W)
  PROVE  Entry(P, s, v, b, W, D, k)
<1>1. s # Null  BY SymNotNull, WidthIs
<1> QED  BY <1>1 DEF Entry, Carries

(* The entry a symbol is written to.                                       *)
LEMMA TopEntry ==
  ASSUME NEW P \in Names, NEW x, Item(Width[P], x), NEW v, NEW b, NEW W,
         P \in Wide => W = x.wrong, \A i \in 1 .. Width[P] : At(P, v)[i] = x.d[i]
  PROVE  Entry(P, x.s, v, b, W, x.due, x.trust)
<1>1. Width[P] \in 1 .. 4 /\ (P \notin Wide => Width[P] = 1)  BY WidthIs DEF Wide
<1>2. x.s # Null  BY <1>1, SymNotNull DEF Item
<1>3. x.trust = 2 /\ ~x.s.num => Good(Width[P], x.s, At(P, v), All(x.due), W)
  <2> SUFFICES ASSUME x.trust = 2, ~x.s.num
               PROVE  Good(Width[P], x.s, At(P, v), All(x.due), W)
    OBVIOUS
  <2>1. Good(Width[P], x.s, x.d, All(x.due), x.wrong)  BY DEF Item
  <2>2. Good(Width[P], x.s, At(P, v), All(x.due), x.wrong)  BY <1>1, <2>1, GoodSame
  <2>3. CASE P \in Wide  BY <2>2, <2>3
  <2>4. CASE P \notin Wide  BY <1>1, <2>2, <2>4, GoodIs DEF Good1
  <2> QED  BY <2>3, <2>4
<1> QED  BY <1>2, <1>3 DEF Item, Entry

(* The entry of a part of it.                                              *)
LEMMA PartEntry ==
  ASSUME NEW P \in Names \ {"r64"}, NEW s, s = Null \/ Sym(Width[P], s),
         NEW v, NEW b, NEW W, NEW T, NEW k \in {0, 2}, P \in Wide => W = b,
         k = 2 => Good(Width[P], s, At(P, v), T, Bent(P, b))
  PROVE  Entry(P, s, v, b, W, Only(T), k)
<1>1. Width[P] \in 1 .. 4 /\ (P \notin Wide => Width[P] = 1) /\ (P \in Wide => P # "rh")
  BY WidthIs DEF Wide
<1>2. CASE k = 0  BY <1>2 DEF Entry
<1>3. CASE k = 2
  <2>1. /\ s # Null
        /\ s.num => /\ Width[P] = 1 \/ T = {}
                    /\ \A i \in (1 .. Width[P]) \ Bent(P, b) : s.n[i] = At(P, v)[i]
        /\ ~s.num => Tainted(Width[P], s, T)
    BY <1>1, <1>3, GoodCarries
  <2>2. ~s.num => Good(Width[P], s, At(P, v), T, W)
    <3>1. CASE P \in Wide  BY <1>1, <1>3, <3>1 DEF Bent
    <3>2. CASE P \notin Wide  BY <1>1, <1>3, <3>2, GoodIs DEF Good1
    <3> QED  BY <3>1, <3>2
  <2>3. All(Only(T)) = T /\ Only(T).wide = T  BY AllOnly
  <2> QED  BY <1>3, <2>1, <2>2, <2>3 DEF Entry, Carries, Tainted
<1> QED  BY <1>2, <1>3
-----------------------------------------------------------------------------
(* Names that are their own past: the pointers they have.                  *)
Has(s, p32, p16, ph, pl) ==
  /\ s # Null /\ DOMAIN s = Fields /\ ~s.num /\ s.p64 = Null
  /\ s.p32 = p32 /\ s.p16 = p16 /\ s.ph = ph /\ s.pl = pl

LEMMA NameHas == ASSUME NEW T PROVE Has(Name(T), Null, Null, Null, Null) /\ Name(T).t = T
BY NameIs DEF Has

LEMMA ByteName ==
  ASSUME NEW s, NEW ph, NEW pl \in {Null, Zero}, Has(s, Null, Null, ph, pl)
  PROVE  /\ Sym(1, s) /\ Own(1, s) = s
         /\ \A T, d, W : T \subseteq s.t => Good(1, s, d, T, W)
<1>1. Sym1(s)  BY DEF Has, Sym1
<1>2. Own(1, s) = s  BY DEF Own
<1>3. \A T, d, W : T \subseteq s.t => Good1(s, d[1], T, 1 \in W)  BY DEF Has, Good1
<1> QED  BY <1>1, <1>2, <1>3, SymIs, GoodIs

LEMMA WordName ==
  ASSUME NEW s, NEW ph, NEW pl, Has(s, Null, Null, ph, pl), Opt1(ph), Opt1(pl)
  PROVE  /\ Sym(2, s) /\ Own(2, s) = s
         /\ \A T, d, W : T \subseteq s.t /\ GoodBytes(s, d, T, W) => Good(2, s, d, T, W)
<1>1. Sym2(s)  BY DEF Has, Sym2, Bytes, Narrow2, Past2
<1>2. Own(2, s) = s  BY DEF Has, Own, Base
<1>3. \A T, d, W : T \subseteq s.t /\ GoodBytes(s, d, T, W) => Good2(s, d, T, W)
  BY <1>2 DEF Has, Good2, Tainted
<1> QED  BY <1>1, <1>2, <1>3, SymIs, GoodIs

LEMMA DoubleName ==
  ASSUME NEW s, NEW p16, NEW ph, NEW pl, Has(s, Null, p16, ph, pl),
         Opt1(ph), Opt1(pl), Opt2(p16)
  PROVE  /\ Sym(3, s) /\ Own(3, s) = s
         /\ \A T, d, W : T \subseteq s.t /\ GoodBytes(s, d, T, W) /\ Good2(p16, d, T, W)
                           => Good(3, s, d, T, W)
<1>1. Sym3(s)  BY DEF Has, Sym3, Bytes
<1>2. Own(3, s) = s  BY DEF Has, Own, Base
<1>3. \A T, d, W : T \subseteq s.t /\ GoodBytes(s, d, T, W) /\ Good2(p16, d, T, W)
                     => Good3(s, d, T, W)
  BY <1>2 DEF Has, Good3, Tainted
<1> QED  BY <1>1, <1>2, <1>3, SymIs, GoodIs

LEMMA QuadName ==
  ASSUME NEW s, NEW p32, NEW p16, NEW ph, NEW pl, Has(s, p32, p16, ph, pl),
         Opt1(ph), Opt1(pl), Opt2(p16), Opt3(p32)
  PROVE  /\ Sym(4, s) /\ Own(4, s) = s
         /\ \A T, d, W : T \subseteq s.t /\ GoodBytes(s, d, T, W) /\ Good2(p16, d, T, W)
                           /\ Good3(p32, d, T, W) => Good(4, s, d, T, W)
<1>1. Sym4(s)  BY DEF Has, Sym4, Bytes
<1>2. Own(4, s) = s  BY DEF Has, Own, Base
<1>3. \A T, d, W : T \subseteq s.t /\ GoodBytes(s, d, T, W) /\ Good2(p16, d, T, W)
                     /\ Good3(p32, d, T, W) => Good4(s, d, T, W)
  BY <1>2 DEF Has, Good4, Tainted
<1> QED  BY <1>1, <1>2, <1>3, SymIs, GoodIs

(* The byte zero is a good one wherever zero is expected.                  *)
LEMMA ZeroIs ==
  /\ Zero # Null /\ Zero.num /\ Zero.n[1] = 0 /\ Sym1(Zero) /\ Opt1(Zero)
  /\ \A T, x, u : u \/ x = 0 => Good1(Zero, x, T, u)
<1>1. <<0, 0, 0, 0>> \in [1 .. 4 -> Digit]  BY DEF Digit
<1>2. Sym(1, Zero)  BY <1>1, NumberSym DEF Zero
<1>3. Zero # Null /\ Zero.num /\ Zero.n[1] = 0  BY NumberIs DEF Zero
<1> QED  BY <1>2, <1>3, SymIs DEF Good1, Opt1

(* A new name with all its parts has its taints in all of them.            *)
LEMMA WholeIs ==
  ASSUME NEW T
  PROVE  LET b == Whole(T)[1]
             h == Whole(T)[2]
             l == Whole(T)[3]
             q == Whole(T)[4]
         IN  /\ Has(b, Null, Null, Null, Null) /\ b.t = T
             /\ Has(h, Null, Null, b, b) /\ h.t = T
             /\ Has(l, Null, h, b, b) /\ l.t = T
             /\ Has(q, l, h, b, b) /\ q.t = T
<1> DEFINE b == Name(T)
           h == [b EXCEPT !.ph = b, !.pl = b]
           l == [h EXCEPT !.p16 = h]
           q == [l EXCEPT !.p32 = l]
<1>1. Whole(T) = <<b, h, l, q>>  BY DEF Whole
<1>2. Has(b, Null, Null, Null, Null) /\ b.t = T  BY NameHas
<1> HIDE DEF b
<1>4. /\ DOMAIN h = Fields /\ ~h.num /\ h.t = T /\ h.p64 = Null /\ h.p32 = Null
      /\ h.p16 = Null /\ h.ph = b /\ h.pl = b
  BY <1>2 DEF Fields, Has
<1> HIDE DEF h
<1>5. /\ DOMAIN l = Fields /\ ~l.num /\ l.t = T /\ l.p64 = Null /\ l.p32 = Null
      /\ l.p16 = h /\ l.ph = b /\ l.pl = b
  BY <1>4 DEF Fields
<1> HIDE DEF l
<1>6. /\ DOMAIN q = Fields /\ ~q.num /\ q.t = T /\ q.p64 = Null /\ q.p32 = l
      /\ q.p16 = h /\ q.ph = b /\ q.pl = b
  BY <1>5 DEF Fields
<1> HIDE DEF q
<1>7. h # Null /\ l # Null /\ q # Null  BY <1>4, <1>5, <1>6, NotNull DEF Fields
<1>8. Has(h, Null, Null, b, b) /\ Has(l, Null, h, b, b) /\ Has(q, l, h, b, b)
  BY <1>4, <1>5, <1>6, <1>7 DEF Has
<1> QED  BY <1>1, <1>2, <1>4, <1>5, <1>6, <1>8

LEMMA WholeSym ==
  ASSUME NEW T, NEW w \in 1 .. 4
  PROVE  LET s == Whole(T)[w]
         IN  /\ s # Null /\ ~s.num /\ s.t = T /\ Sym(w, s) /\ Own(w, s) = s
             /\ \A d, W : Good(w, s, d, T, W)
<1> DEFINE b == Whole(T)[1]
           h == Whole(T)[2]
           l == Whole(T)[3]
           q == Whole(T)[4]
<1>1. /\ Has(b, Null, Null, Null, Null) /\ b.t = T
      /\ Has(h, Null, Null, b, b) /\ h.t = T
      /\ Has(l, Null, h, b, b) /\ l.t = T
      /\ Has(q, l, h, b, b) /\ q.t = T
  BY WholeIs
<1> HIDE DEF b, h, l, q
<1>2. Sym(1, b) /\ Own(1, b) = b /\ \A d, W : Good(1, b, d, T, W)  BY <1>1, ByteName
<1>3. Opt1(b) /\ \A x, u : Good1(b, x, T, u)
  BY <1>1, <1>2, SymIs DEF Opt1, Good1, Has
<1>4. \A d, W : GoodBytes(h, d, T, W) /\ GoodBytes(l, d, T, W) /\ GoodBytes(q, d, T, W)
  BY <1>1, <1>3 DEF GoodBytes, Has
<1>5. Sym(2, h) /\ Own(2, h) = h /\ \A d, W : Good(2, h, d, T, W)
  BY <1>1, <1>3, <1>4, WordName
<1>6. Opt2(h) /\ \A d, W : Good2(h, d, T, W)  BY <1>5, SymIs, GoodIs DEF Opt2
<1>7. Sym(3, l) /\ Own(3, l) = l /\ \A d, W : Good(3, l, d, T, W)
  BY <1>1, <1>3, <1>4, <1>6, DoubleName
<1>8. Opt3(l) /\ \A d, W : Good3(l, d, T, W)  BY <1>7, SymIs, GoodIs DEF Opt3
<1>9. Sym(4, q) /\ Own(4, q) = q /\ \A d, W : Good(4, q, d, T, W)
  BY <1>1, <1>3, <1>4, <1>6, <1>8, QuadName
<1>10. CASE w = 1  BY <1>1, <1>2, <1>10 DEF Has, b
<1>11. CASE w = 2  BY <1>1, <1>5, <1>11 DEF Has, h
<1>12. CASE w = 3  BY <1>1, <1>7, <1>12 DEF Has, l
<1>13. CASE w = 4  BY <1>1, <1>9, <1>13 DEF Has, q
<1> QED  BY <1>10, <1>11, <1>12, <1>13, Widths

(* What an instruction came to.                                            *)
LEMMA NewItem ==
  ASSUME NEW w \in 1 .. 4, NEW s, Sym(w, s), NEW k \in 1 .. 2,
         s.num => k = 2,
         ~s.num => Own(w, s) = s,
         ~s.num /\ k = 2 => \A d : Good(w, s, d, s.t, {})
  PROVE  /\ Item(w, Result(s, w, k))
         /\ Result(s, w, k).s = s /\ Result(s, w, k).due = Only(s.t)
<1> DEFINE d == Guess(s, w)
           x == [s |-> s, d |-> d, wrong |-> Wrong(s), due |-> Only(s.t), trust |-> k]
<1>1. s # Null  BY SymNotNull
<1>2. d \in [1 .. w -> 0 .. 4] /\ (s.num => \A i \in 1 .. w : s.n[i] = d[i])
  <2>1. s.num => s.n \in [1 .. 4 -> Digit]  BY NumberOf
  <2>2. d = [i \in 1 .. w |-> IF s.num THEN s.n[i] ELSE Unknown]  BY DEF Guess
  <2>3. \A i \in 1 .. w : i \in 1 .. 4  OBVIOUS
  <2>4. \A i \in 1 .. w : (IF s.num THEN s.n[i] ELSE Unknown) \in 0 .. 4
    BY <2>1, <2>3 DEF Digit, Unknown
  <2> HIDE DEF d
  <2> QED  BY <2>2, <2>4
<1> HIDE DEF d
<1>3. s.num => s.t = {}  BY NumberOf
<1>4. Carries(w, s, Only(s.t)) /\ All(Only(s.t)) = s.t  BY <1>3, AllOnly DEF Carries
<1>5. ~s.num => Wrong(s) = {}  BY DEF Wrong
<1>6. /\ x.s = s /\ x.d = d /\ x.wrong = Wrong(s) /\ x.due = Only(s.t) /\ x.trust = k
      /\ DOMAIN x = {"s", "d", "wrong", "due", "trust"}
  OBVIOUS
<1> HIDE DEF x
<1>7. ~s.num /\ k = 2 => Good(w, s, d, s.t, Wrong(s))  BY <1>5
<1>8. Item(w, x)  BY <1>2, <1>3, <1>4, <1>6, <1>7 DEF Item
<1> QED  BY <1>6, <1>8 DEF x, d, Result

(* What was shifted a byte or more to the left.                            *)
LEMMA ZeroLow ==
  ASSUME NEW s, NEW p32, NEW p16, NEW ph, NEW pl, Has(s, p32, p16, ph, pl)
  PROVE  /\ Has([s EXCEPT !.pl = Zero], p32, p16, ph, Zero)
         /\ [s EXCEPT !.pl = Zero].t = s.t
<1> DEFINE r == [s EXCEPT !.pl = Zero]
<1>1. DOMAIN s = Fields  BY DEF Has
<1>2. /\ DOMAIN r = Fields /\ ~r.num /\ r.p64 = Null /\ r.t = s.t
      /\ r.p32 = p32 /\ r.p16 = p16 /\ r.ph = ph /\ r.pl = Zero
  BY <1>1 DEF Has, Fields
<1> HIDE DEF r
<1>3. r # Null  BY <1>2, NotNull DEF Fields
<1>4. Has(r, p32, p16, ph, Zero)  BY <1>2, <1>3 DEF Has
<1> QED  BY <1>2, <1>4 DEF r

LEMMA ShiftedOutIs ==
  ASSUME NEW s, NEW p32, NEW p16, NEW ph, NEW pl, Has(s, p32, p16, ph, pl)
  PROVE  LET zero(p) == IF p = Null THEN p ELSE [p EXCEPT !.pl = Zero]
         IN  Has(ShiftedOut(s), zero(p32), zero(p16), ph, Zero) /\ ShiftedOut(s).t = s.t
<1> DEFINE zero(p) == IF p = Null THEN p ELSE [p EXCEPT !.pl = Zero]
           r == [s EXCEPT !.mul = TRUE, !.pl = Zero, !.p16 = zero(@), !.p32 = zero(@)]
<1>1. ShiftedOut(s) = r  BY DEF ShiftedOut
<1>2. DOMAIN s = Fields  BY DEF Has
<1> HIDE DEF zero
<1>3. /\ DOMAIN r = Fields /\ ~r.num /\ r.p64 = Null /\ r.t = s.t
      /\ r.p32 = zero(p32) /\ r.p16 = zero(p16) /\ r.ph = ph /\ r.pl = Zero
  BY <1>2 DEF Has, Fields
<1> HIDE DEF r
<1>4. r # Null  BY <1>3, NotNull DEF Fields
<1>5. Has(r, zero(p32), zero(p16), ph, Zero)  BY <1>3, <1>4 DEF Has
<1> QED  BY <1>1, <1>3, <1>5 DEF zero

LEMMA ShiftedSym ==
  ASSUME NEW w \in 1 .. 4, NEW T
  PROVE  LET s == ShiftedOut(Whole(T)[w])
         IN  /\ ~s.num /\ s.t = T /\ Sym(w, s) /\ Own(w, s) = s
             /\ \A d, W : d[1] = 0 => Good(w, s, d, T, W)
<1> DEFINE b == Whole(T)[1]
           h == Whole(T)[2]
           l == Whole(T)[3]
           q == Whole(T)[4]
           h0 == [h EXCEPT !.pl = Zero]
           l0 == [l EXCEPT !.pl = Zero]
           sb == ShiftedOut(b)
           sh == ShiftedOut(h)
           sl == ShiftedOut(l)
           sq == ShiftedOut(q)
<1>1. /\ Has(b, Null, Null, Null, Null) /\ b.t = T
      /\ Has(h, Null, Null, b, b) /\ h.t = T
      /\ Has(l, Null, h, b, b) /\ l.t = T
      /\ Has(q, l, h, b, b) /\ q.t = T
  BY WholeIs
<1>2. /\ \A d, W : Good(1, b, d, T, W)
      /\ Sym(1, b) /\ Sym(2, h) /\ \A d, W : Good(2, h, d, T, W)
  BY WholeSym
<1> HIDE DEF b, h, l, q
<1>3. Has(h0, Null, Null, b, Zero) /\ h0.t = T  BY <1>1, ZeroLow
<1>4. Has(l0, Null, h, b, Zero) /\ l0.t = T  BY <1>1, ZeroLow
<1>5. l # Null /\ h # Null  BY <1>1 DEF Has
<1>6. /\ Has(sb, Null, Null, Null, Zero) /\ sb.t = T
      /\ Has(sh, Null, Null, b, Zero) /\ sh.t = T
      /\ Has(sl, Null, h0, b, Zero) /\ sl.t = T
      /\ Has(sq, l0, h0, b, Zero) /\ sq.t = T
  <2>1. Has(sb, Null, Null, Null, Zero) /\ sb.t = T  BY <1>1, ShiftedOutIs
  <2>2. Has(sh, Null, Null, b, Zero) /\ sh.t = T  BY <1>1, ShiftedOutIs
  <2>3. Has(sl, Null, h0, b, Zero) /\ sl.t = T  BY <1>1, <1>5, ShiftedOutIs
  <2>4. Has(sq, l0, h0, b, Zero) /\ sq.t = T  BY <1>1, <1>5, ShiftedOutIs
  <2> QED  BY <2>1, <2>2, <2>3, <2>4
<1> HIDE DEF h0, l0, sb, sh, sl, sq
<1>7. Opt1(b) /\ \A x, u : Good1(b, x, T, u)
  BY <1>1, <1>2, SymIs DEF Opt1, Good1, Has
<1>8. \A s, p32, p16, d, W : Has(s, p32, p16, b, Zero) /\ d[1] = 0 => GoodBytes(s, d, T, W)
  BY <1>7, ZeroIs DEF GoodBytes, Has
<1>9. Sym(1, sb) /\ Own(1, sb) = sb /\ \A d, W : Good(1, sb, d, T, W)
  BY <1>6, ByteName
<1>10. Sym(2, sh) /\ Own(2, sh) = sh /\ \A d, W : d[1] = 0 => Good(2, sh, d, T, W)
  BY <1>6, <1>7, <1>8, ZeroIs, WordName
<1>11. Sym(2, h0) /\ \A d, W : d[1] = 0 => Good(2, h0, d, T, W)
  BY <1>3, <1>7, <1>8, ZeroIs, WordName
<1>12. Opt2(h0) /\ \A d, W : d[1] = 0 => Good2(h0, d, T, W)  BY <1>11, SymIs, GoodIs DEF Opt2
<1>13. Opt2(h) /\ \A d, W : Good2(h, d, T, W)  BY <1>2, SymIs, GoodIs DEF Opt2
<1>14. Sym(3, sl) /\ Own(3, sl) = sl /\ \A d, W : d[1] = 0 => Good(3, sl, d, T, W)
  BY <1>6, <1>7, <1>8, <1>12, ZeroIs, DoubleName
<1>15. Sym(3, l0) /\ \A d, W : d[1] = 0 => Good(3, l0, d, T, W)
  BY <1>4, <1>7, <1>8, <1>13, ZeroIs, DoubleName
<1>16. Opt3(l0) /\ \A d, W : d[1] = 0 => Good3(l0, d, T, W)  BY <1>15, SymIs, GoodIs DEF Opt3
<1>17. Sym(4, sq) /\ Own(4, sq) = sq /\ \A d, W : d[1] = 0 => Good(4, sq, d, T, W)
  BY <1>6, <1>7, <1>8, <1>12, <1>16, ZeroIs, QuadName
<1>18. CASE w = 1  BY <1>6, <1>9, <1>18 DEF Has, b, sb
<1>19. CASE w = 2  BY <1>6, <1>10, <1>19 DEF Has, h, sh
<1>20. CASE w = 3  BY <1>6, <1>14, <1>20 DEF Has, l, sl
<1>21. CASE w = 4  BY <1>6, <1>17, <1>21 DEF Has, q, sq
<1> QED  BY <1>18, <1>19, <1>20, <1>21, Widths

LEMMA ShiftedIsItem ==
  ASSUME NEW w \in 1 .. 4, NEW x \in Shifted(w)
  PROVE  Item(w, x)
<1>1. PICK t \in Taints : x = [Result(ShiftedOut(Whole({t})[w]), w, 2) EXCEPT !.d[1] = 0]
  BY DEF Shifted
<1> DEFINE s == ShiftedOut(Whole({t})[w])
           y == Result(s, w, 2)
<1>2. /\ ~s.num /\ s.t = {t} /\ Sym(w, s) /\ Own(w, s) = s
      /\ \A d, W : d[1] = 0 => Good(w, s, d, {t}, W)
  BY ShiftedSym
<1>3. /\ y.s = s /\ y.d = [i \in 1 .. w |-> Unknown] /\ y.wrong = {} /\ y.due = Only({t})
      /\ y.trust = 2 /\ DOMAIN y = {"s", "d", "wrong", "due", "trust"}
  <2> HIDE DEF s
  <2> QED  BY <1>2 DEF Result, Guess, Wrong
<1>4. x = [y EXCEPT !.d[1] = 0]  BY <1>1
<1> HIDE DEF s, y
<1>5. /\ x.s = s /\ x.wrong = {} /\ x.due = Only({t}) /\ x.trust = 2
      /\ x.d = [y.d EXCEPT ![1] = 0] /\ DOMAIN x = {"s", "d", "wrong", "due", "trust"}
  BY <1>3, <1>4
<1>6. x.d[1] = 0 /\ x.d \in [1 .. w -> 0 .. 4]
  <2>1. y.d \in [1 .. w -> 0 .. 4] /\ 1 \in 1 .. w  BY <1>3 DEF Unknown
  <2> QED  BY <1>5, <2>1
<1>7. All(x.due) = {t}  BY <1>5, AllOnly
<1>8. Good(w, s, x.d, {t}, {})  BY <1>2, <1>6
<1>9. Good(w, x.s, x.d, All(x.due), x.wrong)  BY <1>5, <1>7, <1>8
<1>10. Carries(w, x.s, x.due)
  <2>1. All(x.due) = {t} /\ x.due.wide = {t}  BY <1>5, AllOnly
  <2>2. ~x.s.num /\ x.s.t = {t} /\ Own(w, x.s).t = {t}  BY <1>2, <1>5
  <2> QED  BY <2>1, <2>2 DEF Carries
<1>11. Sym(w, x.s) /\ ~x.s.num /\ x.trust = 2 /\ x.trust \in 0 .. 2  BY <1>2, <1>5
<1> QED  BY ONLY <1>5, <1>6, <1>9, <1>10, <1>11 DEF Item

(* A name of a byte as part of one of 16 bits, and so on.                  *)
LEMMA WithByteIs ==
  ASSUME NEW s, Sym(1, s), ~s.num
  PROVE  LET r == WithByte(s)
         IN  /\ ~r.num /\ r.t = s.t /\ Sym(2, r) /\ Own(2, r) = r
             /\ \A T, d, W : Good(1, s, d, T, W) /\ d[2] = 0 => Good(2, r, d, T, W)
<1> DEFINE r == [s EXCEPT !.ph = Zero, !.pl = s]
<1>1. WithByte(s) = r  BY DEF WithByte
<1>2. Sym1(s) /\ Opt1(s)  BY SymIs DEF Opt1
<1>3. /\ DOMAIN s = Fields /\ s # Null /\ s.p64 = Null /\ s.p32 = Null /\ s.p16 = Null
  BY <1>2 DEF Sym1
<1>4. /\ DOMAIN r = Fields /\ ~r.num /\ r.t = s.t /\ r.p64 = Null /\ r.p32 = Null
      /\ r.p16 = Null /\ r.ph = Zero /\ r.pl = s
  BY <1>3 DEF Fields
<1> HIDE DEF r
<1>5. r # Null  BY <1>4, NotNull DEF Fields
<1>6. Has(r, Null, Null, Zero, s)  BY <1>4, <1>5 DEF Has
<1>7. ASSUME NEW T, NEW d, NEW W, Good(1, s, d, T, W), d[2] = 0
      PROVE  T \subseteq r.t /\ GoodBytes(r, d, T, W)
  <2>1. Good1(s, d[1], T, 1 \in W)  BY <1>7, GoodIs
  <2>2. T \subseteq s.t  BY <2>1 DEF Good1
  <2>3. Good1(Zero, d[2], T, 2 \in W)  BY <1>7, ZeroIs
  <2> QED  BY <1>4, <2>1, <2>2, <2>3 DEF GoodBytes
<1>8. /\ Sym(2, r) /\ Own(2, r) = r
      /\ \A T, d, W : T \subseteq r.t /\ GoodBytes(r, d, T, W) => Good(2, r, d, T, W)
  BY <1>2, <1>6, ZeroIs, WordName
<1> QED  BY <1>1, <1>4, <1>7, <1>8

LEMMA WithWordIs ==
  ASSUME NEW s, Sym(2, s), ~s.num
  PROVE  LET r == WithWord(s)
         IN  /\ ~r.num /\ r.t = s.t /\ Sym(3, r) /\ Own(3, r) = r
             /\ \A T, d, W : Good(2, s, d, T, W) => Good(3, r, d, T, W)
<1> DEFINE r == [s EXCEPT !.p16 = s]
<1>1. WithWord(s) = r  BY DEF WithWord
<1>2. Sym2(s) /\ Opt2(s)  BY SymIs DEF Opt2
<1>3. /\ DOMAIN s = Fields /\ s # Null /\ s.p64 = Null /\ s.p32 = Null
      /\ Opt1(s.ph) /\ Opt1(s.pl)
  BY <1>2 DEF Sym2, Narrow2, Bytes
<1>4. /\ DOMAIN r = Fields /\ ~r.num /\ r.t = s.t /\ r.p64 = Null /\ r.p32 = Null
      /\ r.p16 = s /\ r.ph = s.ph /\ r.pl = s.pl
  BY <1>3 DEF Fields
<1> HIDE DEF r
<1>5. r # Null  BY <1>4, NotNull DEF Fields
<1>6. Has(r, Null, s, s.ph, s.pl)  BY <1>4, <1>5 DEF Has
<1>7. ASSUME NEW T, NEW d, NEW W, Good(2, s, d, T, W)
      PROVE  T \subseteq r.t /\ GoodBytes(r, d, T, W) /\ Good2(s, d, T, W)
  <2>1. Good2(s, d, T, W)  BY <1>7, GoodIs
  <2>2. T \subseteq s.t /\ GoodBytes(s, d, T, W)  BY <2>1 DEF Good2, Tainted
  <2> QED  BY <1>4, <2>1, <2>2 DEF GoodBytes
<1>8. /\ Sym(3, r) /\ Own(3, r) = r
      /\ \A T, d, W : T \subseteq r.t /\ GoodBytes(r, d, T, W) /\ Good2(s, d, T, W)
                        => Good(3, r, d, T, W)
  BY <1>2, <1>3, <1>6, DoubleName
<1> QED  BY <1>1, <1>4, <1>7, <1>8

LEMMA WithDoubleIs ==
  ASSUME NEW s, Sym(3, s), ~s.num
  PROVE  LET r == WithDouble(s)
         IN  /\ ~r.num /\ r.t = s.t /\ Sym(4, r) /\ Own(4, r) = r
             /\ \A T, d, W : Good(3, s, d, T, W) => Good(4, r, d, T, W)
<1> DEFINE r == [s EXCEPT !.p32 = s]
<1>1. WithDouble(s) = r  BY DEF WithDouble
<1>2. Sym3(s) /\ Opt3(s)  BY SymIs DEF Opt3
<1>3. /\ DOMAIN s = Fields /\ s # Null /\ s.p64 = Null /\ Opt2(s.p16)
      /\ Opt1(s.ph) /\ Opt1(s.pl)
  BY <1>2 DEF Sym3, Bytes
<1>4. /\ DOMAIN r = Fields /\ ~r.num /\ r.t = s.t /\ r.p64 = Null /\ r.p32 = s
      /\ r.p16 = s.p16 /\ r.ph = s.ph /\ r.pl = s.pl
  BY <1>3 DEF Fields
<1> HIDE DEF r
<1>5. r # Null  BY <1>4, NotNull DEF Fields
<1>6. Has(r, s, s.p16, s.ph, s.pl)  BY <1>4, <1>5 DEF Has
<1>7. ASSUME NEW T, NEW d, NEW W, Good(3, s, d, T, W)
      PROVE  /\ T \subseteq r.t /\ GoodBytes(r, d, T, W) /\ Good2(s.p16, d, T, W)
             /\ Good3(s, d, T, W)
  <2>1. Good3(s, d, T, W)  BY <1>7, GoodIs
  <2>2. T \subseteq s.t /\ GoodBytes(s, d, T, W) /\ Good2(s.p16, d, T, W)
    BY <2>1 DEF Good3, Tainted
  <2> QED  BY <1>4, <2>1, <2>2 DEF GoodBytes
<1>8. /\ Sym(4, r) /\ Own(4, r) = r
      /\ \A T, d, W : T \subseteq r.t /\ GoodBytes(r, d, T, W) /\ Good2(s.p16, d, T, W)
                        /\ Good3(s, d, T, W) => Good(4, r, d, T, W)
  BY <1>2, <1>3, <1>6, QuadName
<1> QED  BY <1>1, <1>4, <1>7, <1>8

LEMMA ExtendIs ==
  ASSUME NEW v, NEW w, NEW f, <<v, w, f>> \in Fills, NEW s, Sym(v, s), ~s.num
  PROVE  LET r == Extend(s, v, w)
         IN  /\ ~r.num /\ r.t = s.t /\ Sym(w, r) /\ Own(w, r) = r
             /\ \A T, d, W : Good(v, s, d, T, W) /\ (v = 1 => d[2] = 0) => Good(w, r, d, T, W)
<1>1. \/ v = 1 /\ w = 3
      \/ v = 1 /\ w = 4
      \/ v = 2 /\ w = 3
      \/ v = 2 /\ w = 4
      \/ v = 3 /\ w = 4
  BY DEF Fills
<1>2. CASE v = 1 /\ w = 3
  <2>1. Extend(s, v, w) = WithWord(WithByte(s))  BY <1>2 DEF Extend
  <2>2. /\ ~WithByte(s).num /\ WithByte(s).t = s.t /\ Sym(2, WithByte(s))
        /\ \A T, d, W : Good(1, s, d, T, W) /\ d[2] = 0 => Good(2, WithByte(s), d, T, W)
    BY <1>2, WithByteIs
  <2> QED  BY <1>2, <2>1, <2>2, WithWordIs
<1>3. CASE v = 1 /\ w = 4
  <2> DEFINE a == WithByte(s)
             b == WithWord(a)
  <2>1. Extend(s, v, w) = WithDouble(b)  BY <1>3 DEF Extend
  <2>2. /\ ~a.num /\ a.t = s.t /\ Sym(2, a)
        /\ \A T, d, W : Good(1, s, d, T, W) /\ d[2] = 0 => Good(2, a, d, T, W)
    BY <1>3, WithByteIs
  <2> HIDE DEF a
  <2>3. /\ ~b.num /\ b.t = s.t /\ Sym(3, b)
        /\ \A T, d, W : Good(2, a, d, T, W) => Good(3, b, d, T, W)
    BY <2>2, WithWordIs
  <2> HIDE DEF b
  <2> QED  BY <1>3, <2>1, <2>2, <2>3, WithDoubleIs
<1>4. CASE v = 2 /\ w = 3
  <2>1. Extend(s, v, w) = WithWord(s)  BY <1>4 DEF Extend
  <2> QED  BY <1>4, <2>1, WithWordIs
<1>5. CASE v = 2 /\ w = 4
  <2> DEFINE b == WithWord(s)
  <2>1. Extend(s, v, w) = WithDouble(b)  BY <1>5 DEF Extend
  <2>2. /\ ~b.num /\ b.t = s.t /\ Sym(3, b)
        /\ \A T, d, W : Good(2, s, d, T, W) => Good(3, b, d, T, W)
    BY <1>5, WithWordIs
  <2> HIDE DEF b
  <2> QED  BY <1>5, <2>1, <2>2, WithDoubleIs
<1>6. CASE v = 3 /\ w = 4
  <2>1. Extend(s, v, w) = WithDouble(s)  BY <1>6 DEF Extend
  <2> QED  BY <1>6, <2>1, WithDoubleIs
<1> QED  BY <1>1, <1>2, <1>3, <1>4, <1>5, <1>6

(* An item keeps the width it was saved with.                              *)
LEMMA FetchedIs ==
  ASSUME MemInv, NEW w \in 1 .. 4, NEW x \in Fetched(w)
  PROVE  Item(w, x)
<1>1. x \in mem /\ Len(x.d) = w  BY DEF Fetched
<1>2. PICK v \in 1 .. 4 : Item(v, x)  BY <1>1 DEF MemInv
<1>3. x.d \in [1 .. v -> 0 .. 4]  BY <1>2 DEF Item
<1>4. Len(x.d) = v  BY <1>3
<1> QED  BY <1>1, <1>2, <1>4

LEMMA ExtendedIsItem ==
  ASSUME MemInv, NEW w \in 1 .. 4, NEW y \in Extended(w)
  PROVE  Item(w, y)
<1>0. PICK g \in Fills :
        /\ g[2] = w
        /\ \E x \in NamesOf(Fetched(g[1])) :
             y = [x EXCEPT !.s = Extend(x.s, g[1], w),
                           !.d = [i \in 1 .. w |-> IF i <= g[1] THEN x.d[i] ELSE g[3]]]
  <2> DEFINE E(x, g) == [x EXCEPT !.s = Extend(x.s, g[1], w),
                                  !.d = [i \in 1 .. w |-> IF i <= g[1] THEN x.d[i] ELSE g[3]]]
             Of(g) == {E(x, g) : x \in NamesOf(Fetched(g[1]))}
  <2>1. Extended(w) = UNION {Of(g) : g \in {h \in Fills : h[2] = w}}  BY DEF Extended
  <2> HIDE DEF Of
  <2>2. PICK g \in Fills : g[2] = w /\ y \in Of(g)  BY <2>1
  <2> HIDE DEF E
  <2>3. \E x \in NamesOf(Fetched(g[1])) : y = E(x, g)  BY <2>2 DEF Of
  <2> QED  BY <2>2, <2>3 DEF E
<1>1. PICK x \in NamesOf(Fetched(g[1])) :
           y = [x EXCEPT !.s = Extend(x.s, g[1], w),
                         !.d = [i \in 1 .. w |-> IF i <= g[1] THEN x.d[i] ELSE g[3]]]
  BY <1>0
<1>2. PICK v \in 1 .. 3, f \in {0, Unknown} : g = <<v, w, f>> /\ v < w /\ (v = 1 => f = 0)
  BY <1>0 DEF Fills
<1> DEFINE e == [i \in 1 .. w |-> IF i <= v THEN x.d[i] ELSE f]
           r == Extend(x.s, v, w)
<1>3. y = [x EXCEPT !.s = r, !.d = e]  BY <1>1, <1>2
<1>4. x \in Fetched(v) /\ ~x.s.num  BY <1>1, <1>2 DEF NamesOf
<1>5. Item(v, x)  BY <1>4, FetchedIs
<1>6. /\ ~r.num /\ r.t = x.s.t /\ Sym(w, r) /\ Own(w, r) = r
      /\ \A T, d, W : Good(v, x.s, d, T, W) /\ (v = 1 => d[2] = 0) => Good(w, r, d, T, W)
  BY <1>1, <1>2, <1>4, <1>5, ExtendIs DEF Item
<1>7. x.d \in [1 .. v -> 0 .. 4]  BY <1>5 DEF Item
<1>8. /\ e \in [1 .. w -> 0 .. 4] /\ (\A i \in 1 .. v : e[i] = x.d[i])
      /\ (v = 1 => e[2] = 0)
  <2>1. \A i \in 1 .. w : (IF i <= v THEN x.d[i] ELSE f) \in 0 .. 4
    BY <1>7 DEF Unknown
  <2>2. e \in [1 .. w -> 0 .. 4]  BY <2>1
  <2>3. \A i \in 1 .. v : e[i] = x.d[i]  BY <1>2
  <2>4. v = 1 => e[2] = 0  BY <1>2
  <2> QED  BY <2>2, <2>3, <2>4
<1> HIDE DEF e, r
<1>9. DOMAIN x = {"s", "d", "wrong", "due", "trust"}  BY <1>5 DEF Item
<1>10. /\ y.s = r /\ y.d = e /\ y.wrong = x.wrong /\ y.due = x.due /\ y.trust = x.trust
       /\ DOMAIN y = {"s", "d", "wrong", "due", "trust"}
  BY <1>3, <1>9
<1>11. y.trust > 0 => Carries(w, r, y.due)
  <2> SUFFICES ASSUME y.trust > 0 PROVE Carries(w, r, y.due)  OBVIOUS
  <2>1. All(x.due) \subseteq x.s.t  BY <1>4, <1>5, <1>10 DEF Item, Carries
  <2>2. x.due.wide \subseteq x.s.t  BY <2>1 DEF All
  <2> QED  BY <1>6, <1>10, <2>1, <2>2 DEF Carries
<1>12. y.trust = 2 => Good(w, r, e, All(y.due), y.wrong)
  <2> SUFFICES ASSUME y.trust = 2 PROVE Good(w, r, e, All(y.due), y.wrong)  OBVIOUS
  <2>1. Good(v, x.s, x.d, All(x.due), x.wrong)  BY <1>4, <1>5, <1>10 DEF Item
  <2>2. Good(v, x.s, e, All(x.due), x.wrong)  BY <1>8, <2>1, GoodSame
  <2> QED  BY <1>6, <1>8, <1>10, <2>2
<1>13. y.trust \in 0 .. 2  BY <1>5, <1>10 DEF Item
<1> QED  BY ONLY <1>6, <1>8, <1>10, <1>11, <1>12, <1>13 DEF Item

(* movzx and cbw of a byte to ax, which leave the byte no symbol.          *)
LEMMA ByteInIs ==
  ASSUME MemInv, NEW x \in NamesOf(Fetched(1)), NEW ph, Opt1(ph), NEW digit \in 0 .. 4
  PROVE  Item(2, ByteIn(x, ph, digit))
<1> DEFINE y == [x EXCEPT !.s.ph = ph, !.d = <<x.d[1], digit>>, !.trust = LessTrust(@)]
           r == [x.s EXCEPT !.ph = ph]
<1>1. ByteIn(x, ph, digit) = y  BY DEF ByteIn
<1>2. x \in Fetched(1) /\ ~x.s.num  BY DEF NamesOf
<1>3. Item(1, x)  BY <1>2, FetchedIs
<1>4. Sym1(x.s)  BY <1>3, SymIs DEF Item
<1>5. /\ DOMAIN x.s = Fields /\ x.s.p64 = Null /\ x.s.p32 = Null /\ x.s.p16 = Null
      /\ x.s.pl \in {Null, Zero}
  BY <1>2, <1>4 DEF Sym1
<1>6. /\ DOMAIN r = Fields /\ ~r.num /\ r.t = x.s.t /\ r.p64 = Null /\ r.p32 = Null
      /\ r.p16 = Null /\ r.ph = ph /\ r.pl = x.s.pl
  BY <1>2, <1>5 DEF Fields
<1>7. DOMAIN x = {"s", "d", "wrong", "due", "trust"}  BY <1>3 DEF Item
<1>8. /\ y.s = r /\ y.d = <<x.d[1], digit>> /\ y.due = x.due /\ y.trust = LessTrust(x.trust)
      /\ DOMAIN y = {"s", "d", "wrong", "due", "trust"}
  BY <1>7
<1> HIDE DEF r, y
<1>9. r # Null  BY <1>6, NotNull DEF Fields
<1>10. Has(r, Null, Null, ph, x.s.pl)  BY <1>6, <1>9 DEF Has
<1>11. Opt1(x.s.pl)  BY <1>5, ZeroIs DEF Opt1
<1>12. Sym(2, r) /\ Own(2, r) = r  BY <1>10, <1>11, WordName
<1>13. x.trust \in 0 .. 2 /\ x.d[1] \in 0 .. 4
  <2>1. x.d \in [1 .. 1 -> 0 .. 4] /\ x.trust \in 0 .. 2  BY <1>3 DEF Item
  <2> QED  BY <2>1
<1>14. y.trust \in {0, 1} /\ (y.trust > 0 => x.trust > 0)  BY <1>8, <1>13 DEF LessTrust
<1>15. y.d \in [1 .. 2 -> 0 .. 4]  BY <1>8, <1>13
<1>16. y.trust > 0 => Carries(2, r, y.due)
  <2> SUFFICES ASSUME y.trust > 0 PROVE Carries(2, r, y.due)  OBVIOUS
  <2>1. All(x.due) \subseteq x.s.t  BY <1>2, <1>3, <1>14 DEF Item, Carries
  <2>2. x.due.wide \subseteq x.s.t  BY <2>1 DEF All
  <2> QED  BY <1>6, <1>8, <1>12, <2>1, <2>2 DEF Carries
<1>17. y.trust \in 0 .. 2 /\ y.trust # 2  BY <1>14
<1>18. Item(2, y)  BY ONLY <1>6, <1>8, <1>12, <1>15, <1>16, <1>17 DEF Item
<1> QED  BY <1>1, <1>18

LEMMA BareIsItem ==
  ASSUME NEW w \in 2 .. 4
  PROVE  Item(w, Result(Name({}), w, 1))
<1> DEFINE s == Name({})
<1>1. Has(s, Null, Null, Null, Null) /\ ~s.num  BY NameHas DEF Has
<1> HIDE DEF s
<1>2. Opt1(Null) /\ Opt2(Null) /\ Opt3(Null)  BY DEF Opt1, Opt2, Opt3
<1>3. CASE w = 2
  <2>1. Sym(2, s) /\ Own(2, s) = s  BY <1>1, <1>2, WordName
  <2> QED  BY <1>1, <1>3, <2>1, NewItem DEF s
<1>4. CASE w = 3
  <2>1. Sym(3, s) /\ Own(3, s) = s  BY <1>1, <1>2, DoubleName
  <2> QED  BY <1>1, <1>4, <2>1, NewItem DEF s
<1>5. CASE w = 4
  <2>1. Sym(4, s) /\ Own(4, s) = s  BY <1>1, <1>2, QuadName
  <2> QED  BY <1>1, <1>5, <2>1, NewItem DEF s
<1> QED  BY <1>3, <1>4, <1>5

LEMMA PartialIsItem ==
  ASSUME MemInv, NEW w \in 1 .. 4, NEW x \in Partial(w)
  PROVE  Item(w, x)
<1>1. CASE w = 4
  <2>1. x \in {Result(Name({}), 4, 1)} \cup {Result(Whole({t})[3], 4, 1) : t \in Taints}
    BY <1>1 DEF Partial
  <2>2. CASE x = Result(Name({}), 4, 1)  BY <1>1, <2>2, BareIsItem
  <2>3. CASE x \in {Result(Whole({t})[3], 4, 1) : t \in Taints}
    <3>1. PICK t \in Taints : x = Result(Whole({t})[3], 4, 1)  BY <2>3
    <3> DEFINE s == Whole({t})[3]
               h == Whole({t})[2]
               b == Whole({t})[1]
    <3>2. Has(s, Null, h, b, b) /\ Sym(1, b) /\ Sym(2, h)  BY WholeIs, WholeSym
    <3> HIDE DEF s, h, b
    <3>3. Opt1(b) /\ Opt2(h) /\ Opt3(Null)  BY <3>2, SymIs DEF Opt1, Opt2, Opt3
    <3>4. Sym(4, s) /\ Own(4, s) = s  BY <3>2, <3>3, QuadName
    <3>5. ~s.num  BY <3>2 DEF Has
    <3>6. Item(4, Result(s, 4, 1))  BY <3>4, <3>5, NewItem
    <3> QED  BY <1>1, <3>1, <3>6 DEF s
  <2> QED  BY <2>1, <2>2, <2>3
<1>2. CASE w = 3
  <2>1. x = Result(Name({}), 3, 1)  BY <1>2 DEF Partial
  <2> QED  BY <1>2, <2>1, BareIsItem
<1>3. CASE w = 2
  <2>1. \/ x = Result(Name({}), 2, 1)
        \/ \E y \in NamesOf(Fetched(1)) :
             x = ByteIn(y, Zero, 0) \/ x = ByteIn(y, Name({}), Unknown)
    BY <1>3 DEF Partial
  <2>2. CASE x = Result(Name({}), 2, 1)  BY <1>3, <2>2, BareIsItem
  <2>3. CASE \E y \in NamesOf(Fetched(1)) :
               x = ByteIn(y, Zero, 0) \/ x = ByteIn(y, Name({}), Unknown)
    <3>1. PICK y \in NamesOf(Fetched(1)) :
               x = ByteIn(y, Zero, 0) \/ x = ByteIn(y, Name({}), Unknown)
      BY <2>3
    <3>2. Opt1(Name({}))
      <4>1. Sym(1, Name({}))  BY NameHas, ByteName
      <4> QED  BY <4>1, SymIs DEF Opt1
    <3>3. Item(2, ByteIn(y, Zero, 0))  BY ZeroIs, ByteInIs
    <3>4. Unknown \in 0 .. 4  BY DEF Unknown
    <3>5. Item(2, ByteIn(y, Name({}), Unknown))  BY <3>2, <3>4, ByteInIs
    <3> QED  BY <1>3, <3>1, <3>3, <3>5
  <2> QED  BY <2>1, <2>2, <2>3
<1>4. CASE w = 1
  <2>1. x \in {}  BY <1>4 DEF Partial
  <2> QED  BY <2>1
<1> QED  BY <1>1, <1>2, <1>3, <1>4, Widths

LEMMA SourceIsItem ==
  ASSUME MemInv, NEW w \in 1 .. 4, NEW x \in Sources(w)
  PROVE  Item(w, x)
<1>1. ASSUME NEW s \in Immediates(w)
      PROVE  Sym(w, s) /\ s.num
  <2>1. CASE s \in {Number([i \in 1 .. 4 |-> d]) : d \in {0, 1}}
    <3>1. PICK e \in {0, 1} : s = Number([i \in 1 .. 4 |-> e])  BY <2>1
    <3>2. [i \in 1 .. 4 |-> e] \in [1 .. 4 -> Digit]  BY <3>1 DEF Digit
    <3> QED  BY <3>1, <3>2, NumberSym, NumberIs
  <2>2. CASE s = Number([i \in 1 .. 4 |-> IF i <= w THEN 2 ELSE 3])
    <3>1. [i \in 1 .. 4 |-> IF i <= w THEN 2 ELSE 3] \in [1 .. 4 -> Digit]  BY DEF Digit
    <3> QED  BY <2>2, <3>1, NumberSym, NumberIs
  <2> QED  BY <1>1, <2>1, <2>2 DEF Immediates
<1>2. ASSUME NEW s \in Loaded(w)
      PROVE  Sym(w, s) /\ ~s.num /\ Own(w, s) = s /\ \A d : Good(w, s, d, s.t, {})
  <2>1. PICK T : s = Whole(T)[w]  BY <1>2 DEF Loaded
  <2> QED  BY <2>1, WholeSym
<1>3. ASSUME NEW s \in Products(w)
      PROVE  Sym(w, s) /\ ~s.num /\ Own(w, s) = s /\ \A d : Good(w, s, d, s.t, {})
  <2>1. w = 1 /\ \E r \in Loaded(1) : s = [r EXCEPT !.mul = TRUE]  BY <1>3 DEF Products
  <2>2. PICK T : s = [Whole(T)[1] EXCEPT !.mul = TRUE]  BY <2>1 DEF Loaded
  <2> DEFINE b == Whole(T)[1]
  <2>3. Has(b, Null, Null, Null, Null)  BY WholeIs
  <2> HIDE DEF b
  <2>4. s = [b EXCEPT !.mul = TRUE] /\ DOMAIN b = Fields  BY <2>2, <2>3 DEF b, Has
  <2>5. /\ DOMAIN s = Fields /\ ~s.num /\ s.p64 = Null /\ s.p32 = Null /\ s.p16 = Null
        /\ s.ph = Null /\ s.pl = Null
    BY <2>3, <2>4 DEF Has, Fields
  <2>6. s # Null  BY <2>5, NotNull DEF Fields
  <2>7. Has(s, Null, Null, Null, Null)  BY <2>5, <2>6 DEF Has
  <2>8. Sym(1, s) /\ Own(1, s) = s /\ \A d : Good(1, s, d, s.t, {})
    BY <2>7, ByteName
  <2> QED  BY <2>1, <2>5, <2>8
<1>4. CASE \E s \in Immediates(w) \cup Loaded(w) \cup Products(w) : x = Result(s, w, 2)
  <2>1. PICK s \in Immediates(w) \cup Loaded(w) \cup Products(w) : x = Result(s, w, 2)
    BY <1>4
  <2>2. Sym(w, s) /\ (~s.num => Own(w, s) = s /\ \A d : Good(w, s, d, s.t, {}))
    BY <1>1, <1>2, <1>3
  <2>3. Item(w, Result(s, w, 2))  BY <2>2, NewItem
  <2> QED  BY <2>1, <2>3
<1>5. CASE x \in Shifted(w)  BY <1>5, ShiftedIsItem
<1>6. CASE x \in Fetched(w)  BY <1>6, FetchedIs
<1>7. CASE x \in Extended(w)  BY <1>7, ExtendedIsItem
<1>8. CASE x \in Partial(w)  BY <1>8, PartialIsItem
<1> QED  BY <1>4, <1>5, <1>6, <1>7, <1>8 DEF Sources
-----------------------------------------------------------------------------
(* The history of a write.                                                 *)
Apart(P) == CASE P = "rh" -> {"rl"} [] P = "rl" -> {"rh"} [] OTHER -> {}

LEMMA PartsAre ==
  /\ PartsOf(reg) \subseteq Names
  /\ {"r64", "r32", "r16", "rl"} \subseteq PartsOf(reg)
  /\ reg \in HighByte => "rh" \in PartsOf(reg)
BY WidthIs DEF PartsOf, Names

(* Which part is inside which.                                             *)
LEMMA DigitsAre ==
  /\ \A i : i \in Digits["r64"] <=> i \in {1, 2, 3, 4}
  /\ \A i : i \in Digits["r32"] <=> i \in {1, 2, 3}
  /\ \A i : i \in Digits["r16"] <=> i \in {1, 2}
  /\ \A i : i \in Digits["rh"] <=> i = 2
  /\ \A i : i \in Digits["rl"] <=> i = 1
BY DEF Digits

LEMMA DigitSets ==
  ASSUME NEW P \in Names, NEW Q \in Names
  PROVE  /\ (Digits[Q] \subseteq Digits[P] /\ Q # P) <=> Q \in Under(P)
         /\ (Digits[Q] \cap Digits[P] # {}) <=> Q \notin Apart(P)
<1>1. CASE P = "r64"  BY <1>1, WidthIs, DigitsAre DEF Under, Apart
<1>2. CASE P = "r32"  BY <1>2, WidthIs, DigitsAre DEF Under, Apart
<1>3. CASE P = "r16"  BY <1>3, WidthIs, DigitsAre DEF Under, Apart
<1>4. CASE P = "rh"  BY <1>4, WidthIs, DigitsAre DEF Under, Apart
<1>5. CASE P = "rl"  BY <1>5, WidthIs, DigitsAre DEF Under, Apart
<1> QED  BY <1>1, <1>2, <1>3, <1>4, <1>5, WidthIs

LEMMA Nested ==
  ASSUME ShapeInv, NEW P \in PartsOf(reg)
  PROVE  /\ Below(P) = PartsOf(reg) \cap Under(P)
         /\ Above(P) = {Q \in PartsOf(reg) : P \in Under(Q)}
         /\ {Q \in DOMAIN parts : Digits[Q] \cap Digits[P] # {}} = PartsOf(reg) \ Apart(P)
<1>1. DOMAIN parts = PartsOf(reg) /\ PartsOf(reg) \subseteq Names
  BY PartsAre DEF ShapeInv
<1>2. Below(P) = PartsOf(reg) \cap Under(P)  BY <1>1, DigitSets DEF Below
<1>3. Above(P) = {Q \in PartsOf(reg) : P \in Under(Q)}  BY <1>1, DigitSets DEF Above
<1>4. {Q \in DOMAIN parts : Digits[Q] \cap Digits[P] # {}} = PartsOf(reg) \ Apart(P)
  BY <1>1, DigitSets
<1> QED  BY <1>2, <1>3, <1>4

(* What is due of a part, and how far it is trusted, after a write to P.   *)
DueAfter(P, x, Q) ==
  IF Q = P THEN x.due
  ELSE IF P \in Wide THEN Only(All(x.due))
  ELSE IF Q \notin Apart(P) THEN [wide |-> due[Q].wide, last |-> All(x.due)]
  ELSE due[Q]
TrustAfter(P, x, Q) ==
  IF Q \in Written(P) THEN x.trust
  ELSE IF Q \in Under(P) THEN IF x.trust = 2 THEN 2 ELSE 0
  ELSE IF P \in Under(Q) THEN IF trust[Q] = 0 \/ x.trust = 0 THEN 0 ELSE 1
  ELSE trust[Q]

LEMMA RecordIs ==
  ASSUME ShapeInv, NEW P \in PartsOf(reg), NEW x, Record(P, x), NEW Q \in PartsOf(reg)
  PROVE  due'[Q] = DueAfter(P, x, Q) /\ trust'[Q] = TrustAfter(P, x, Q)
<1>1. DOMAIN parts = PartsOf(reg) /\ PartsOf(reg) \subseteq Names
  BY PartsAre DEF ShapeInv
<1> DEFINE over == {R \in DOMAIN parts : Digits[R] \cap Digits[P] # {}}
           all == x.due.wide \cup x.due.last
<1>2. due' = [R \in DOMAIN parts |->
          CASE R = P -> x.due
            [] R \in over \ {P} /\ P \in Wide -> Only(all)
            [] R \in over \ {P} /\ P \notin Wide -> [wide |-> due[R].wide, last |-> all]
            [] OTHER -> due[R]]
  BY DEF Record
<1>3. trust' = [R \in DOMAIN parts |->
          CASE R \in Written(P) -> x.trust
            [] R \in Below(P) -> IF x.trust = 2 THEN 2 ELSE 0
            [] R \in Above(P) \ Written(P) -> IF 0 \in {trust[R], x.trust} THEN 0 ELSE 1
            [] OTHER -> trust[R]]
  BY DEF Record
<1>4. over = PartsOf(reg) \ Apart(P) /\ all = All(x.due)  BY Nested DEF All
<1>5. P \in Wide => Apart(P) = {}  BY DEF Wide, Apart
<1>6. due'[Q] = DueAfter(P, x, Q)
  <2> HIDE DEF over, all
  <2>1. CASE Q = P  BY <1>1, <1>2, <2>1 DEF DueAfter
  <2>2. CASE Q # P /\ P \in Wide
    <3>1. Q \in over \ {P}  BY <1>4, <1>5, <2>2
    <3> QED  BY <1>1, <1>2, <1>4, <2>2, <3>1 DEF DueAfter
  <2>3. CASE Q # P /\ P \notin Wide /\ Q \notin Apart(P)
    <3>1. Q \in over \ {P}  BY <1>4, <2>3
    <3> QED  BY <1>1, <1>2, <1>4, <2>3, <3>1 DEF DueAfter
  <2>4. CASE Q # P /\ P \notin Wide /\ Q \in Apart(P)
    <3>1. Q \notin over \ {P}  BY <1>4, <2>4
    <3> QED  BY <1>1, <1>2, <2>4, <3>1 DEF DueAfter
  <2> QED  BY <2>1, <2>2, <2>3, <2>4
<1>7. Written(P) \cap Below(P) = {} /\ (Below(P) \cap Above(P)) = {}
  BY <1>1, Nested, WidthIs DEF Written, Under
<1>8. trust'[Q] = TrustAfter(P, x, Q)
  <2>1. CASE Q \in Written(P)
    BY <1>1, <1>3, <1>7, <2>1 DEF TrustAfter
  <2>2. CASE Q \notin Written(P) /\ Q \in Under(P)
    <3>1. Q \in Below(P) /\ Q \notin Above(P)  BY <1>7, <2>2, Nested
    <3> QED  BY <1>1, <1>3, <2>2, <3>1 DEF TrustAfter
  <2>3. CASE Q \notin Written(P) /\ Q \notin Under(P) /\ P \in Under(Q)
    <3>1. Q \in Above(P) /\ Q \notin Below(P)  BY <2>3, Nested
    <3> QED  BY <1>1, <1>3, <2>3, <3>1 DEF TrustAfter
  <2>4. CASE Q \notin Written(P) /\ Q \notin Under(P) /\ P \notin Under(Q)
    <3>1. Q \notin Above(P) /\ Q \notin Below(P)  BY <2>4, Nested
    <3> QED  BY <1>1, <1>3, <2>4, <3>1 DEF TrustAfter
  <2> QED  BY <2>1, <2>2, <2>3, <2>4
<1> QED  BY <1>6, <1>8

(* The digits that are wrong after a write to P.                           *)
LEMMA BentAfter ==
  ASSUME ShapeInv, NEW P \in PartsOf(reg), NEW x, Record(P, x), NEW Q \in PartsOf(reg)
  PROVE  /\ Q \in Under(P) => bent'[Q] = x.wrong
         /\ P \in Under(Q) /\ x.s.num /\ parts[Q].num => bent'[Q] = WrongIn(Q, P, x)
         /\ Q \in Apart(P) => bent'[Q] = bent[Q]
         /\ Q = P => bent'[Q] = {}
<1>1. DOMAIN parts = PartsOf(reg) /\ PartsOf(reg) \subseteq Names
  BY PartsAre DEF ShapeInv
<1> DEFINE over == {R \in DOMAIN parts : Digits[R] \cap Digits[P] # {}}
           b(R) == CASE R \in Below(P) -> x.wrong
                     [] R \in Above(P) /\ x.s.num /\ parts[R].num -> WrongIn(R, P, x)
                     [] R \notin over -> bent[R]
                     [] OTHER -> {}
<1>2. bent' = [R \in DOMAIN parts |-> b(R)]  BY DEF Record
<1>3. bent'[Q] = b(Q)  BY <1>1, <1>2
<1>4. over = PartsOf(reg) \ Apart(P)  BY Nested
<1>5. /\ Below(P) = PartsOf(reg) \cap Under(P)
      /\ Above(P) = {R \in PartsOf(reg) : P \in Under(R)}
  BY Nested
<1>6. /\ Q \in Under(P) => P \notin Under(Q) /\ Q \notin Apart(P)
      /\ P \in Under(Q) => Q \notin Apart(P)
      /\ Q \in Apart(P) => Q # P
      /\ P \notin Under(P)
  BY <1>1, WidthIs DEF Under, Apart
<1> HIDE DEF over
<1>7. CASE Q \in Under(P)
  <2>1. Q \in Below(P) /\ Q \notin Above(P) /\ Q \in over  BY <1>4, <1>5, <1>6, <1>7
  <2>2. b(Q) = x.wrong  BY <2>1
  <2> QED  BY <1>3, <1>6, <1>7, <2>2
<1>8. CASE P \in Under(Q)
  <2>1. Q \notin Below(P) /\ Q \in Above(P) /\ Q \in over  BY <1>4, <1>5, <1>6, <1>8
  <2>2. x.s.num /\ parts[Q].num => b(Q) = WrongIn(Q, P, x)  BY <2>1
  <2> QED  BY <1>3, <1>6, <1>8, <2>2
<1>9. CASE Q \in Apart(P)
  <2>1. Q \notin Below(P) /\ Q \notin Above(P) /\ Q \notin over
    BY <1>4, <1>5, <1>6, <1>9
  <2>2. b(Q) = bent[Q]  BY <2>1
  <2> QED  BY <1>3, <1>6, <1>9, <2>2
<1>10. CASE Q = P
  <2>1. Q \notin Below(P) /\ Q \notin Above(P) /\ Q \in over
    BY <1>4, <1>5, <1>6, <1>10
  <2>2. b(Q) = {}  BY <2>1
  <2> QED  BY <1>3, <1>6, <1>10, <2>2
<1> QED  BY <1>7, <1>8, <1>9, <1>10

LEMMA BentUnderAfter ==
  ASSUME ShapeInv, NEW P \in PartsOf(reg), NEW x, Record(P, x), NEW Q \in Wide,
         \/ Q = P
         \/ Q \in Under(P)
         \/ P = "r32" /\ Q = "r64"
  PROVE  BentUnder(Q, bent') = x.wrong
<1>1. "rl" \in PartsOf(reg) \cap Under(Q)  BY PartsAre DEF Wide, Under
<1>2. \A R \in Under(Q) : R \in Under(P) \/ R = P  BY WidthIs DEF Wide, Under
<1>3. "rl" \in Under(P)  BY WidthIs DEF Wide, Under
<1>4. bent'["rl"] = x.wrong  BY <1>1, <1>3, BentAfter
<1>5. \A R \in PartsOf(reg) \cap Under(Q) : bent'[R] = x.wrong \/ bent'[R] = {}
  BY <1>2, BentAfter
<1> QED  BY <1>1, <1>4, <1>5 DEF BentUnder

(* The digits the processor holds after a write.                           *)
LEMMA ValueIs ==
  ASSUME ShapeInv, NEW P \in PartsOf(reg), NEW x, Record(P, x),
         x.d \in [1 .. Width[P] -> 0 .. 4]
  PROVE  /\ val' \in [1 .. 4 -> 0 .. 4]
         /\ \A i \in 1 .. Width[P] : At(P, val')[i] = x.d[i]
         /\ \A i \in 1 .. 4 : i \notin Digits[P] /\ (P # "r32" \/ i # 4) => val'[i] = val[i]
         /\ P = "r32" => val'[4] = 0
<1>1. val' = [i \in 1 .. 4 |->
          CASE i \in Digits[P] -> x.d[IF P = "rh" THEN 1 ELSE i]
            [] P = "r32" /\ i = 4 -> 0
            [] OTHER -> val[i]]
  BY DEF Record
<1>2. P \in Names  BY PartsAre
<1>3. \A i \in Digits[P] : i \in 1 .. 4 /\ (IF P = "rh" THEN 1 ELSE i) \in 1 .. Width[P]
  BY <1>2, WidthIs, DigitsAre
<1>4. \A i \in 1 .. 4 : val[i] \in 0 .. 4  BY DEF ShapeInv
<1>5. \A i \in 1 .. 4 : i \in Digits[P] => val'[i] = x.d[IF P = "rh" THEN 1 ELSE i]
  <2> DEFINE v(i) == CASE i \in Digits[P] -> x.d[IF P = "rh" THEN 1 ELSE i]
                       [] P = "r32" /\ i = 4 -> 0
                       [] OTHER -> val[i]
  <2>1. val' = [i \in 1 .. 4 |-> v(i)]  BY <1>1
  <2>2. \A i \in Digits[P] : v(i) = x.d[IF P = "rh" THEN 1 ELSE i]
    <3> TAKE i \in Digits[P]
    <3>1. P = "r32" => i # 4  BY DigitsAre
    <3> DEFINE e == x.d[IF P = "rh" THEN 1 ELSE i]
    <3> HIDE DEF e
    <3>2. v(i) = e  BY <3>1 DEF e
    <3> QED  BY <3>2 DEF e
  <2> HIDE DEF v
  <2> QED  BY <2>1, <2>2
<1>6. P = "r32" => val'[4] = 0
  <2>1. P = "r32" => 4 \notin Digits[P] /\ 4 \in 1 .. 4  BY DigitsAre
  <2> QED  BY <1>1, <2>1
<1>7. \A i \in 1 .. 4 : i \notin Digits[P] /\ (P # "r32" \/ i # 4) => val'[i] = val[i]
  BY <1>1
<1>8. val' \in [1 .. 4 -> 0 .. 4]
  <2>1. \A i \in 1 .. 4 : val'[i] \in 0 .. 4
    <3> TAKE i \in 1 .. 4
    <3>1. CASE i \in Digits[P]  BY <1>3, <1>5, <3>1
    <3>2. CASE i \notin Digits[P] /\ P = "r32" /\ i = 4  BY <1>6, <3>2
    <3>3. CASE i \notin Digits[P] /\ (P # "r32" \/ i # 4)  BY <1>4, <1>7, <3>3
    <3> QED  BY <3>1, <3>2, <3>3
  <2>2. val' = [i \in 1 .. 4 |-> val'[i]]
    <3> DEFINE v(i) == CASE i \in Digits[P] -> x.d[IF P = "rh" THEN 1 ELSE i]
                         [] P = "r32" /\ i = 4 -> 0
                         [] OTHER -> val[i]
    <3>1. val' = [i \in 1 .. 4 |-> v(i)]  BY <1>1
    <3> HIDE DEF v
    <3> QED  BY <3>1
  <2> QED  BY <2>1, <2>2
<1>9. \A i \in 1 .. Width[P] : At(P, val')[i] = x.d[i]
  <2>1. CASE P = "rh"
    <3>1. val'[2] = x.d[1]  BY <1>5, <2>1, DigitsAre
    <3> QED  BY <2>1, <3>1, WidthIs DEF At
  <2>2. CASE P # "rh"
    <3>1. \A i \in 1 .. Width[P] : i \in Digits[P]  BY <1>2, <2>2, WidthIs, DigitsAre
    <3>2. Width[P] \in 1 .. 4  BY <1>2, WidthIs
    <3>3. \A i \in 1 .. Width[P] : i \in 1 .. 4 /\ val'[i] = x.d[i]  BY <1>5, <2>2, <3>1, <3>2
    <3> QED  BY <2>2, <3>3 DEF At
  <2> QED  BY <2>1, <2>2
<1> QED  BY <1>6, <1>7, <1>8, <1>9

LEMMA ItemValue ==
  ASSUME ShapeInv, NEW P \in PartsOf(reg), NEW x, NEW w, w = Width[P], Item(w, x), Record(P, x)
  PROVE  /\ P # "rh" => \A i \in 1 .. w : val'[i] = x.d[i]
         /\ P = "rh" => val'[2] = x.d[1]
         /\ \A i \in 1 .. 4 : i \notin Digits[P] /\ (P # "r32" \/ i # 4) => val'[i] = val[i]
<1>1. x.d \in [1 .. Width[P] -> 0 .. 4]  BY DEF Item
<1>2. \A i \in 1 .. Width[P] : At(P, val')[i] = x.d[i]  BY <1>1, ValueIs
<1>3. P = "rh" => val'[2] = x.d[1]
  <2>1. P = "rh" => 1 \in 1 .. Width[P]  BY WidthIs
  <2> QED  BY <1>2, <2>1, AtIs
<1> QED  BY <1>1, <1>2, <1>3, ValueIs, AtIs

(* The shape of the state survives a write.                                *)
LEMMA ShapeKept ==
  ASSUME ShapeInv, NEW P \in PartsOf(reg), NEW x, Item(Width[P], x), Record(P, x), reg' = reg,
         DOMAIN parts' = DOMAIN parts
  PROVE  ShapeInv'
<1>1. DOMAIN due' = PartsOf(reg) /\ DOMAIN trust' = PartsOf(reg)
  BY DEF Record, ShapeInv
<1>2. x.trust \in 0 .. 2 /\ x.d \in [1 .. Width[P] -> 0 .. 4]  BY DEF Item
<1>3. trust' \in [PartsOf(reg) -> 0 .. 2]
  <2>1. \A Q \in PartsOf(reg) : trust'[Q] \in 0 .. 2
    <3> TAKE Q \in PartsOf(reg)
    <3>1. trust[Q] \in 0 .. 2  BY DEF ShapeInv
    <3> QED  BY <1>2, <3>1, RecordIs DEF TrustAfter
  <2>2. trust' = [Q \in DOMAIN trust' |-> trust'[Q]]
    <3> DEFINE k(R) == CASE R \in Written(P) -> x.trust
                         [] R \in Below(P) -> IF x.trust = 2 THEN 2 ELSE 0
                         [] R \in Above(P) \ Written(P) ->
                              IF 0 \in {trust[R], x.trust} THEN 0 ELSE 1
                         [] OTHER -> trust[R]
    <3>1. trust' = [Q \in DOMAIN parts |-> k(Q)]  BY DEF Record
    <3> HIDE DEF k
    <3> QED  BY <3>1
  <2> QED  BY <1>1, <2>1, <2>2
<1> QED  BY <1>1, <1>2, <1>3, ValueIs DEF ShapeInv, PartsOf

(* A write keeps the invariant if it leaves good entries.                  *)
LEMMA WriteKeeps ==
  ASSUME SymInv, NEW P \in PartsOf(reg), NEW x, Item(Width[P], x),
         NEW seen, NEW new, Write(P, x, seen, new),
         (\A R \in seen : parts[R] # Null) /\ Record(P, x) =>
           \A Q \in PartsOf(reg) :
             Entry(Q, new[Q], val', bent'[Q], BentUnder(Q, bent'), due'[Q], trust'[Q])
  PROVE  SymInv'
<1>1. reg' = reg /\ mem' = mem  BY DEF Write
<1>2. MemInv'  BY <1>1 DEF SymInv, MemInv
<1>3. CASE \E R \in seen : parts[R] = Null
  <2>1. UNCHANGED <<parts, val, bent, due, trust>>  BY <1>3 DEF Write
  <2> QED  BY <1>1, <1>2, <2>1 DEF SymInv, ShapeInv, EntryInv, PartsOf, BentUnder
<1>4. CASE \A R \in seen : parts[R] # Null
  <2>1. parts' = [Q \in DOMAIN parts |-> new[Q]] /\ Record(P, x)  BY <1>4 DEF Write
  <2>2. DOMAIN parts = PartsOf(reg) /\ DOMAIN parts' = DOMAIN parts
    BY <2>1 DEF SymInv, ShapeInv
  <2>3. ShapeInv'  BY <1>1, <2>1, <2>2, ShapeKept DEF SymInv
  <2>4. \A Q \in PartsOf(reg) : BentUnder(Q, bent)' = BentUnder(Q, bent')
    BY <1>1 DEF BentUnder, PartsOf
  <2>5. EntryInv'  BY <1>1, <1>4, <2>1, <2>2, <2>4 DEF EntryInv, PartsOf
  <2> QED  BY <1>2, <2>3, <2>5 DEF SymInv
<1> QED  BY <1>3, <1>4
-----------------------------------------------------------------------------
(* The entries of the parts of what is written come from its pointers, or  *)
(* from its digits.                                                        *)
PartOf(s, Q) ==
  IF s.num
  THEN CASE Q = "r32" -> Low(s, 3) [] Q = "r16" -> Low(s, 2) [] Q = "rh" -> High(s)
         [] Q = "rl" -> Low(s, 1)
  ELSE CASE Q = "r32" -> s.p32 [] Q = "r16" -> s.p16 [] Q = "rh" -> s.ph [] Q = "rl" -> s.pl

(* A number read back: its own digits, unless it is too large.             *)
LEMMA ToIntIs ==
  ASSUME NEW s, s.n \in [1 .. 4 -> Digit], s.num
  PROVE  /\ to_int(s) \in [1 .. 4 -> Digit]
         /\ \A i \in (1 .. 4) \ Wrong(s) : to_int(s)[i] = s.n[i]
<1>1. <<3, 3, 3, 1>> \in [1 .. 4 -> Digit]  BY DEF Digit
<1>2. to_int(s) \in [1 .. 4 -> Digit]  BY <1>1 DEF to_int
<1>3. CASE Saturates(s)  BY <1>2, <1>3 DEF Wrong
<1>4. CASE ~Saturates(s)  BY <1>2, <1>4 DEF to_int
<1> QED  BY <1>3, <1>4, <1>2

(* The parts of a number and of a name.                                    *)
LEMMA LowIs ==
  ASSUME NEW w \in 1 .. 4, NEW s, s.n \in [1 .. 4 -> Digit], s.num
  PROVE  /\ Sym(w, Low(s, w)) /\ Low(s, w).num
         /\ \A i \in (1 .. w) \ Wrong(s) : Low(s, w).n[i] = s.n[i]
<1> DEFINE f == [i \in 1 .. 4 |-> IF i <= w THEN to_int(s)[i] ELSE 0]
<1>1. Low(s, w) = Number(f)  BY DEF Low
<1>2. f \in [1 .. 4 -> Digit]  BY ToIntIs DEF Digit
<1>3. \A i \in (1 .. w) \ Wrong(s) : f[i] = s.n[i]  BY ToIntIs
<1> HIDE DEF f
<1> QED  BY <1>1, <1>2, <1>3, NumberSym, NumberIs

LEMMA HighIs ==
  ASSUME NEW s, s.n \in [1 .. 4 -> Digit], s.num
  PROVE  /\ Sym(1, High(s)) /\ High(s).num
         /\ 2 \notin Wrong(s) => High(s).n[1] = s.n[2]
<1> DEFINE f == <<to_int(s)[2], 0, 0, 0>>
<1>1. High(s) = Number(f)  BY DEF High
<1>2. to_int(s)[2] \in Digit  BY ToIntIs
<1>3. f \in [1 .. 4 -> Digit]  BY <1>2 DEF Digit
<1>4. 2 \notin Wrong(s) => f[1] = s.n[2]  BY ToIntIs
<1> HIDE DEF f
<1> QED  BY <1>1, <1>3, <1>4, NumberSym, NumberIs

LEMMA NumberParts ==
  ASSUME NEW R \in Wide, NEW s, Sym(Width[R], s), s.num, NEW Q \in Under(R)
  PROVE  /\ Sym(Width[Q], PartOf(s, Q)) /\ PartOf(s, Q).num
         /\ \A i \in (1 .. Width[Q]) \ Bent(Q, Wrong(s)) :
              PartOf(s, Q).n[i] = At(Q, s.n)[i]
<1>1. Width[R] \in 1 .. 4 /\ Width[Q] \in 1 .. 4 /\ (Q = "rh" => Width[Q] = 1)
      /\ Q \in {"r32", "r16", "rh", "rl"} /\ (Q = "rh" <=> Q \notin {"r32", "r16", "rl"})
  BY WidthIs DEF Wide, Under
<1>2. s.n \in [1 .. 4 -> Digit]  BY <1>1, NumberOf
<1>3. CASE Q = "rh"
  <2>1. PartOf(s, Q) = High(s)  BY <1>3 DEF PartOf
  <2>2. ASSUME NEW i \in (1 .. Width[Q]) \ Bent(Q, Wrong(s))
        PROVE  i = 1 /\ 2 \notin Wrong(s)
    BY <1>1, <1>3, <2>2 DEF Bent
  <2>3. At(Q, s.n)[1] = s.n[2]  BY <1>3, AtIs
  <2> QED  BY <1>1, <1>2, <1>3, <2>1, <2>2, <2>3, HighIs
<1>4. CASE Q # "rh"
  <2>1. PartOf(s, Q) = Low(s, Width[Q])  BY <1>1, <1>4, WidthIs DEF PartOf
  <2>2. At(Q, s.n) = s.n /\ Bent(Q, Wrong(s)) = Wrong(s)  BY <1>4 DEF At, Bent
  <2> QED  BY <1>1, <1>2, <2>1, <2>2, LowIs
<1> QED  BY <1>3, <1>4

LEMMA NameParts ==
  ASSUME NEW R \in Wide, NEW s, Sym(Width[R], s), ~s.num, NEW Q \in Under(R)
  PROVE  /\ PartOf(s, Q) = Null \/ Sym(Width[Q], PartOf(s, Q))
         /\ \A d, T, W : Good(Width[R], s, d, T, W)
                          => Good(Width[Q], PartOf(s, Q), At(Q, d), T, Bent(Q, W))
<1>1. /\ Opt1(s.ph) /\ Opt1(s.pl)
      /\ \A d, T, W : Good(Width[R], s, d, T, W)
                       => Good1(s.ph, d[2], T, 2 \in W) /\ Good1(s.pl, d[1], T, 1 \in W)
  <2>1. CASE R = "r64"
    BY <2>1, WidthIs, SymIs DEF Sym4, Bytes, Good, Good4, GoodBytes
  <2>2. CASE R = "r32"
    BY <2>2, WidthIs, SymIs DEF Sym3, Bytes, Good, Good3, GoodBytes
  <2>3. CASE R = "r16"
    BY <2>3, WidthIs, SymIs DEF Sym2, Bytes, Good, Good2, GoodBytes
  <2> QED  BY <2>1, <2>2, <2>3 DEF Wide
<1>2. CASE Q = "rh"
  <2>1. PartOf(s, Q) = s.ph  BY <1>2 DEF PartOf
  <2>2. \A d, T, W : Good1(s.ph, d[2], T, 2 \in W) => Good(1, s.ph, At(Q, d), T, Bent(Q, W))
    <3>1. \A W : 2 \in W => 1 \in Bent(Q, W)  BY <1>2 DEF Bent
    <3>2. \A d : At(Q, d)[1] = d[2]  BY <1>2, AtIs
    <3> QED  BY <3>1, <3>2, GoodIs DEF Good1
  <2> QED  BY <1>1, <1>2, <2>1, <2>2, WidthIs, SymIs DEF Opt1
<1>3. CASE Q = "rl"
  <2>1. PartOf(s, Q) = s.pl  BY <1>3 DEF PartOf
  <2>2. \A d, T, W : Good(1, s.pl, At(Q, d), T, Bent(Q, W)) <=> Good1(s.pl, d[1], T, 1 \in W)
    BY <1>3, GoodIs DEF At, Bent
  <2> QED  BY <1>1, <1>3, <2>1, <2>2, WidthIs, SymIs DEF Opt1
<1>4. CASE Q = "r16"
  <2>1. PartOf(s, Q) = s.p16 /\ R \in {"r64", "r32"}  BY <1>4 DEF PartOf, Wide, Under
  <2>2. Opt2(s.p16) /\ \A d, T, W : Good(Width[R], s, d, T, W) => Good2(s.p16, d, T, W)
    <3>1. CASE R = "r64"  BY <3>1, WidthIs, SymIs DEF Sym4, Good, Good4
    <3>2. CASE R = "r32"  BY <3>2, WidthIs, SymIs DEF Sym3, Good, Good3
    <3> QED  BY <2>1, <3>1, <3>2
  <2>3. \A d, T, W : Good(2, s.p16, At(Q, d), T, Bent(Q, W)) <=> Good2(s.p16, d, T, W)
    BY <1>4 DEF Good, At, Bent
  <2> QED  BY <1>4, <2>1, <2>2, <2>3, WidthIs, SymIs DEF Opt2
<1>5. CASE Q = "r32"
  <2>1. PartOf(s, Q) = s.p32 /\ R = "r64"  BY <1>5 DEF PartOf, Wide, Under
  <2>2. Opt3(s.p32) /\ \A d, T, W : Good(Width[R], s, d, T, W) => Good3(s.p32, d, T, W)
    BY <2>1, WidthIs, SymIs DEF Sym4, Good, Good4
  <2>3. \A d, T, W : Good(3, s.p32, At(Q, d), T, Bent(Q, W)) <=> Good3(s.p32, d, T, W)
    BY <1>5 DEF Good, At, Bent
  <2> QED  BY <1>5, <2>1, <2>2, <2>3, WidthIs, SymIs DEF Opt3
<1> QED  BY <1>2, <1>3, <1>4, <1>5 DEF Under, Wide

(* The parts of what is written make good entries of the parts below.      *)
LEMMA UnderItem ==
  ASSUME ShapeInv, NEW R \in Wide, R \in PartsOf(reg), NEW x, Item(Width[R], x),
         Record(R, x), NEW Q \in Under(R)
  PROVE  /\ PartOf(x.s, Q) = Null \/ Sym(Width[Q], PartOf(x.s, Q))
         /\ x.trust = 2 =>
              Good(Width[Q], PartOf(x.s, Q), At(Q, val'), All(x.due), Bent(Q, x.wrong))
<1> DEFINE p == PartOf(x.s, Q)
           T == All(x.due)
           W == Bent(Q, x.wrong)
<1>1. Q \in Names \ {"r64"} /\ Q # R /\ Width[Q] \in 1 .. 4 /\ Width[R] \in 1 .. 4
  BY WidthIs DEF Under, Wide
<1>3. Sym(Width[R], x.s) /\ x.d \in [1 .. Width[R] -> 0 .. 4]  BY DEF Item
<1>2. Width[Q] <= Width[R] /\ Width[R] >= 2 /\ (Q = "rh" => Width[Q] = 1)
  BY WidthIs DEF Under, Wide
<1>4. \A i \in 1 .. Width[Q] : At(Q, x.d)[i] = At(Q, val')[i]
  <2>1. \A i \in 1 .. Width[R] : val'[i] = x.d[i]
    BY <1>3, ValueIs DEF At, Wide
  <2>3. CASE Q = "rh"  BY <1>1, <1>2, <2>1, <2>3 DEF At
  <2>4. CASE Q # "rh"  BY <1>1, <1>2, <2>1, <2>4 DEF At
  <2> QED  BY <2>3, <2>4
<1>5. p = Null \/ Sym(Width[Q], p)  BY <1>3, NumberParts, NameParts
<1>6. x.trust = 2 => Good(Width[Q], p, At(Q, x.d), T, W)
  <2> SUFFICES ASSUME x.trust = 2 PROVE Good(Width[Q], p, At(Q, x.d), T, W)  OBVIOUS
  <2>2. CASE x.s.num
    <3>1. T = {} /\ x.wrong = Wrong(x.s)  BY <2>2 DEF Item
    <3>2. \A i \in 1 .. Width[R] : x.s.n[i] = x.d[i]  BY <2>2 DEF Item
    <3>3. /\ p.num /\ Sym(Width[Q], p)
          /\ \A i \in (1 .. Width[Q]) \ W : p.n[i] = At(Q, x.s.n)[i]
      BY <1>3, <2>2, <3>1, NumberParts
    <3>4. \A i \in 1 .. Width[Q] : At(Q, x.s.n)[i] = At(Q, x.d)[i]
      <4>1. CASE Q = "rh"  BY <1>1, <1>2, <3>2, <4>1 DEF At
      <4>2. CASE Q # "rh"  BY <1>1, <1>2, <3>2, <4>2 DEF At
      <4> QED  BY <4>1, <4>2
    <3>5. p # Null  BY <1>1, <3>3, SymNotNull
    <3> HIDE DEF p, W
    <3>6. \A i \in (1 .. Width[Q]) \ W : p.n[i] = At(Q, x.d)[i]  BY <3>3, <3>4
    <3> QED  BY <1>1, <3>1, <3>3, <3>5, <3>6, NumberGood
  <2>3. CASE ~x.s.num
    <3>1. Good(Width[R], x.s, x.d, T, x.wrong)  BY <2>3 DEF Item
    <3> QED  BY <1>3, <2>3, <3>1, NameParts
  <2> QED  BY <2>2, <2>3
<1>7. x.trust = 2 => Good(Width[Q], p, At(Q, val'), T, W)
  <2> HIDE DEF p, T, W
  <2> QED  BY <1>1, <1>4, <1>6, GoodSame
<1> QED  BY <1>5, <1>7

LEMMA UnderEntries ==
  ASSUME ShapeInv, NEW R \in Wide, R \in PartsOf(reg), NEW x, Item(Width[R], x),
         Record(R, x), NEW Q \in PartsOf(reg), Q \in Under(R)
  PROVE  Entry(Q, PartOf(x.s, Q), val', bent'[Q], BentUnder(Q, bent'), due'[Q], trust'[Q])
<1> DEFINE p == PartOf(x.s, Q)
           T == All(x.due)
<1>1. Q \in Names \ {"r64"} /\ Q # R /\ Q \notin Written(R)
  BY WidthIs DEF Under, Wide, Written
<1>2. due'[Q] = Only(T) /\ trust'[Q] = IF x.trust = 2 THEN 2 ELSE 0
  <2>1. due'[Q] = DueAfter(R, x, Q) /\ trust'[Q] = TrustAfter(R, x, Q)  BY RecordIs
  <2>2. DueAfter(R, x, Q) = Only(T)  BY <1>1 DEF DueAfter
  <2>3. TrustAfter(R, x, Q) = IF x.trust = 2 THEN 2 ELSE 0  BY <1>1 DEF TrustAfter
  <2> QED  BY <2>1, <2>2, <2>3
<1>3. /\ p = Null \/ Sym(Width[Q], p)
      /\ x.trust = 2 => Good(Width[Q], p, At(Q, val'), T, Bent(Q, x.wrong))
  BY UnderItem
<1>4. bent'[Q] = x.wrong /\ (Q \in Wide => BentUnder(Q, bent') = x.wrong)
  BY BentAfter, BentUnderAfter
<1> HIDE DEF p, T
<1>5. Entry(Q, p, val', bent'[Q], BentUnder(Q, bent'), Only(T), IF x.trust = 2 THEN 2 ELSE 0)
  BY <1>1, <1>3, <1>4, PartEntry
<1> QED  BY <1>2, <1>5 DEF p

(* So is what is written itself.                                           *)
LEMMA OwnEntryOf ==
  ASSUME ShapeInv, NEW P \in PartsOf(reg), NEW x, Item(Width[P], x), Record(P, x)
  PROVE  Entry(P, x.s, val', bent'[P], BentUnder(P, bent'), due'[P], trust'[P])
<1>1. due'[P] = x.due /\ trust'[P] = x.trust  BY RecordIs DEF DueAfter, TrustAfter, Written
<1>2. x.d \in [1 .. Width[P] -> 0 .. 4]  BY DEF Item
<1>3. P \in Wide => BentUnder(P, bent') = x.wrong  BY BentUnderAfter
<1>4. P \in Names /\ \A i \in 1 .. Width[P] : At(P, val')[i] = x.d[i]
  BY <1>2, ValueIs, PartsAre
<1> QED  BY <1>1, <1>3, <1>4, TopEntry

(* 64 bits.                                                                *)
LEMMA Write64Keeps ==
  ASSUME SymInv, NEW x, Item(4, x), Write64(x)
  PROVE  SymInv'
<1> DEFINE s == x.s
           new == IF s.num
                  THEN [r64 |-> s, r32 |-> Low(s, 3), r16 |-> Low(s, 2), rh |-> High(s),
                        rl |-> Low(s, 1)]
                  ELSE [r64 |-> s, r32 |-> s.p32, r16 |-> s.p16, rh |-> s.ph, rl |-> s.pl]
<1>1. Write("r64", x, {}, new)  BY DEF Write64
<1>2. "r64" \in PartsOf(reg) /\ Width["r64"] = 4 /\ ShapeInv  BY PartsAre, WidthIs DEF SymInv
<1>3. new["r64"] = s /\ \A Q \in Under("r64") : new[Q] = PartOf(s, Q)
  BY DEF Under, PartOf
<1> HIDE DEF new, s
<1>4. ASSUME Record("r64", x), NEW Q \in PartsOf(reg)
      PROVE  Entry(Q, new[Q], val', bent'[Q], BentUnder(Q, bent'), due'[Q], trust'[Q])
  <2>1. CASE Q = "r64"  BY <1>2, <1>3, <1>4, <2>1, OwnEntryOf DEF s
  <2>2. CASE Q # "r64"
    <3>1. Q \in Under("r64") /\ "r64" \in Wide  BY <2>2, PartsAre, WidthIs DEF Under, Wide
    <3> QED  BY <1>2, <1>3, <1>4, <3>1, UnderEntries DEF s
  <2> QED  BY <2>1, <2>2
<1> QED  BY <1>1, <1>2, <1>4, WriteKeeps
-----------------------------------------------------------------------------
(* 32 bits.                                                                *)
LEMMA PutLowIs ==
  ASSUME NEW w \in 1 .. 4, NEW k \in 1 .. w, NEW s, s.n \in [1 .. 4 -> Digit], s.num,
         NEW x, x.n \in [1 .. 4 -> Digit], x.num
  PROVE  LET f == PutLow(s, x, k, w).n
         IN  /\ PutLow(s, x, k, w) = Number(f) /\ f \in [1 .. 4 -> Digit]
             /\ \A i \in 1 .. w : i <= k /\ i \notin Wrong(x) => f[i] = x.n[i]
             /\ \A i \in 1 .. w : i > k /\ i \notin Wrong(s) => f[i] = s.n[i]
<1> DEFINE f == [i \in 1 .. 4 |-> IF i <= k THEN to_int(x)[i]
                                  ELSE IF i <= w THEN to_int(s)[i] ELSE 0]
<1>1. PutLow(s, x, k, w) = Number(f)  BY DEF PutLow
<1>2. f \in [1 .. 4 -> Digit]  BY ToIntIs DEF Digit
<1>3. \A i \in 1 .. w : i <= k /\ i \notin Wrong(x) => f[i] = x.n[i]  BY ToIntIs
<1>4. \A i \in 1 .. w : i > k /\ i \notin Wrong(s) => f[i] = s.n[i]  BY ToIntIs
<1> HIDE DEF f
<1>5. PutLow(s, x, k, w).n = f  BY <1>1, NumberIs
<1> QED  BY <1>1, <1>2, <1>3, <1>4, <1>5

(* A number that takes in a number written to one of its parts.            *)
LEMMA AboveNumber ==
  ASSUME SymInv, NEW P \in PartsOf(reg), NEW Q \in PartsOf(reg), P \in Under(Q), P # "r32",
         NEW x, Item(Width[P], x), Record(P, x), x.s.num, parts[Q] # Null, parts[Q].num,
         NEW f \in [1 .. 4 -> Digit],
         \A i \in (1 .. Width[Q]) \ bent'[Q] :
           f[i] = IF i \in Digits[P] THEN val'[i] ELSE parts[Q].n[i]
  PROVE  Entry(Q, Number(f), val', bent'[Q], BentUnder(Q, bent'), due'[Q], trust'[Q])
<1>1. /\ ShapeInv /\ P \in Names /\ Q \in Names /\ Q \in {"r64", "r32", "r16"} /\ Q # P
      /\ Width[Q] \in 2 .. 4 /\ Q \notin Written(P) /\ Q \notin Under(P) /\ Q \notin Apart(P)
  BY PartsAre, WidthIs DEF SymInv, Under, Written, Apart
<1>2. trust'[Q] = IF trust[Q] = 0 \/ x.trust = 0 THEN 0 ELSE 1
  BY <1>1, RecordIs DEF TrustAfter
<1>3. All(x.due) = {}  BY DEF Item
<1>4. ASSUME trust'[Q] > 0
      PROVE  /\ All(due'[Q]) = {}
             /\ \A i \in (1 .. Width[Q]) \ Bent(Q, bent'[Q]) : f[i] = At(Q, val')[i]
  <2>1. trust[Q] \in 0 .. 2  BY <1>1 DEF ShapeInv
  <2>2. trust[Q] > 0  BY <1>2, <1>4, <2>1
  <2>3. Entry(Q, parts[Q], val, bent[Q], BentUnder(Q, bent), due[Q], trust[Q])
    BY DEF SymInv, EntryInv
  <2>4. \A i \in (1 .. Width[Q]) \ bent[Q] : parts[Q].n[i] = val[i]
    BY <1>1, <2>2, <2>3 DEF Entry, Bent, At
  <2>5. All(due[Q]) = {}
    <3>1. Carries(Width[Q], parts[Q], due[Q])  BY <2>2, <2>3 DEF Entry
    <3>2. Width[Q] # 1  BY <1>1
    <3> QED  BY <3>1, <3>2 DEF Carries
  <2>6. All(due'[Q]) = {}
    <3>1. CASE P \in Wide
      <4>1. due'[Q] = Only(All(x.due))  BY <1>1, <3>1, RecordIs DEF DueAfter
      <4> QED  BY <1>3, <4>1, AllOnly
    <3>2. CASE P \notin Wide
      <4>1. due'[Q] = [wide |-> due[Q].wide, last |-> All(x.due)]
        BY <1>1, <3>2, RecordIs DEF DueAfter
      <4>2. due[Q].wide = {}  BY <2>5 DEF All
      <4> QED  BY <1>3, <4>1, <4>2 DEF All
    <3> QED  BY <3>1, <3>2
  <2>7. bent[Q] \ Digits[P] \subseteq bent'[Q]
    <3>1. bent'[Q] = WrongIn(Q, P, x)  BY <1>1, BentAfter
    <3> QED  BY <3>1 DEF WrongIn
  <2>8. \A i \in (1 .. Width[Q]) \ bent'[Q] : f[i] = val'[i]
    <3> TAKE i \in (1 .. Width[Q]) \ bent'[Q]
    <3>1. CASE i \in Digits[P]  BY <3>1
    <3>2. CASE i \notin Digits[P]
      <4>1. i \notin bent[Q]  BY <2>7, <3>2
      <4>2. i \in 1 .. 4  BY <1>1
      <4>3. val'[i] = val[i]  BY <1>1, <3>2, <4>2, ItemValue
      <4> QED  BY <2>4, <3>2, <4>1, <4>3
    <3> QED  BY <3>1, <3>2
  <2> QED  BY <1>1, <2>6, <2>8 DEF Bent, At
<1>5. trust'[Q] \in {0, 1}  BY <1>2
<1> QED  BY <1>1, <1>4, <1>5, NumberEntry

(* The digits that a merge has right.                                      *)
LEMMA MergedDigits ==
  ASSUME SymInv, NEW P \in PartsOf(reg), NEW Q \in PartsOf(reg), P \in Under(Q),
         NEW x, Record(P, x), x.s.num, parts[Q].num, NEW i, i \notin bent'[Q]
  PROVE  /\ i \notin Digits[P] => i \notin Wrong(parts[Q])
         /\ i \in Digits[P] => i \notin x.wrong
         /\ P = "r32" => i # 4
         /\ P = "rl" => i # 1 /\ i # 2
<1>1. bent'[Q] = WrongIn(Q, P, x)  BY BentAfter DEF SymInv
<1>2. (Wrong(parts[Q]) \ Digits[P]) \cup (x.wrong \cap Digits[P]) \subseteq bent'[Q]
  BY <1>1 DEF WrongIn
<1>3. P = "r32" => 4 \in bent'[Q]  BY <1>1 DEF WrongIn
<1>4. P = "rl" => 1 \in bent'[Q] /\ 2 \in bent'[Q]  BY <1>1 DEF WrongIn
<1> QED  BY <1>2, <1>3, <1>4

(* The entry of 64 bits after a write of 32, as a number and as a name.    *)
LEMMA Whole32 ==
  ASSUME SymInv, NEW x, Item(3, x), Record("r32", x), x.s.num, parts["r64"].num,
         parts["r64"] # Null
  PROVE  Entry("r64", PutLow(parts["r64"], x.s, 3, 4), val', bent'["r64"],
               BentUnder("r64", bent'), due'["r64"], trust'["r64"])
<1>1. /\ ShapeInv /\ "r64" \in PartsOf(reg) /\ "r32" \in PartsOf(reg) /\ "r64" \in Names
      /\ "r32" \in Names /\ Width["r64"] = 4 /\ Width["r32"] = 3 /\ "r32" \in Under("r64")
  BY PartsAre, WidthIs DEF SymInv, Under
<1>2. Sym(4, parts["r64"])  BY <1>1 DEF SymInv, EntryInv, Entry
<1>3. parts["r64"].n \in [1 .. 4 -> Digit]  BY <1>2, NumberOf
<1>4. /\ Sym(3, x.s) /\ x.trust = 2 /\ All(x.due) = {} /\ x.wrong = Wrong(x.s)
      /\ \A i \in 1 .. 3 : x.s.n[i] = x.d[i]
  BY DEF Item
<1>5. x.s.n \in [1 .. 4 -> Digit]  BY <1>4, NumberOf
<1> DEFINE f == PutLow(parts["r64"], x.s, 3, 4).n
<1>6. /\ PutLow(parts["r64"], x.s, 3, 4) = Number(f) /\ f \in [1 .. 4 -> Digit]
      /\ \A i \in 1 .. 4 : i <= 3 /\ i \notin Wrong(x.s) => f[i] = x.s.n[i]
  BY <1>3, <1>5, PutLowIs
<1> HIDE DEF f
<1>7. due'["r64"] = Only(All(x.due))
  <2>1. due'["r64"] = DueAfter("r32", x, "r64")  BY <1>1, RecordIs
  <2> QED  BY <2>1 DEF DueAfter, Wide
<1>8. All(due'["r64"]) = {}  BY <1>4, <1>7, AllOnly
<1>9. \A i \in (1 .. 4) \ Bent("r64", bent'["r64"]) : f[i] = At("r64", val')[i]
  <2>1. \A i \in 1 .. 3 : val'[i] = x.d[i]  BY <1>1, ItemValue
  <2>2. ASSUME NEW i \in (1 .. 4) \ bent'["r64"] PROVE f[i] = val'[i]
    <3>1. i # 4 /\ (i \in Digits["r32"] => i \notin x.wrong)  BY <1>1, <2>2, MergedDigits
    <3>2. i \in 1 .. 3 /\ i <= 3 /\ i \notin Wrong(x.s)  BY <1>4, <3>1, DigitsAre
    <3> QED  BY <1>4, <1>6, <2>1, <3>2
  <2> QED  BY <2>2 DEF At, Bent
<1> QED  BY <1>1, <1>6, <1>8, <1>9, NumberEntry

LEMMA Name32 ==
  ASSUME SymInv, NEW x, Item(3, x), Record("r32", x), NEW q, q # Null, ~q.num, q.t = x.s.t,
         q.p32 = x.s, q.p16 = PartOf(x.s, "r16"), q.ph = PartOf(x.s, "rh"),
         q.pl = PartOf(x.s, "rl"), q.p64 = Null \/ x.s.num
  PROVE  Entry("r64", q, val', bent'["r64"],
        BentUnder("r64", bent'), due'["r64"], trust'["r64"])
<1> DEFINE T == All(x.due)
           W == x.wrong
<1>1. ShapeInv /\ "r64" \in PartsOf(reg) /\ "r32" \in PartsOf(reg) /\ "r64" \in Names
      /\ "r32" \in Names /\ Width["r64"] = 4 /\ Width["r32"] = 3 /\ "r32" \in Wide
  BY PartsAre, WidthIs DEF SymInv, Wide
<1>2. due'["r64"] = Only(T) /\ trust'["r64"] = x.trust
  <2>1. /\ due'["r64"] = DueAfter("r32", x, "r64")
        /\ trust'["r64"] = TrustAfter("r32", x, "r64")
    BY <1>1, RecordIs
  <2>2. DueAfter("r32", x, "r64") = Only(T)  BY DEF DueAfter, Wide
  <2>3. TrustAfter("r32", x, "r64") = x.trust  BY DEF TrustAfter, Written
  <2> QED  BY <2>1, <2>2, <2>3
<1>3. Sym(3, x.s) /\ x.s # Null  BY SymNotNull DEF Item
<1>4. \A Q \in {"r16", "rh", "rl"} :
        /\ PartOf(x.s, Q) = Null \/ Sym(Width[Q], PartOf(x.s, Q))
        /\ x.trust = 2 => Good(Width[Q], PartOf(x.s, Q), At(Q, val'), T, Bent(Q, W))
  BY <1>1, UnderItem DEF Under
<1>5. Sym(4, q)
  <2>1. Opt2(q.p16) /\ Opt1(q.ph) /\ Opt1(q.pl)  BY <1>4, WidthIs, SymIs DEF Opt1, Opt2
  <2>2. Opt3(q.p32)  BY <1>3, SymIs DEF Opt3
  <2> QED  BY <2>1, <2>2, SymIs DEF Sym4, Bytes
<1>6. x.trust > 0 => T \subseteq q.t /\ T \subseteq Own(4, q).t
  <2> SUFFICES ASSUME x.trust > 0 PROVE T \subseteq q.t /\ T \subseteq Own(4, q).t  OBVIOUS
  <2>1. Carries(3, x.s, x.due)  BY DEF Item
  <2>2. CASE x.s.num
    <3>1. T = {}  BY <2>2 DEF Item
    <3> QED  BY <3>1
  <2>3. CASE ~x.s.num
    <3>1. T \subseteq q.t  BY <2>1, <2>3 DEF Carries
    <3>2. Own(4, q) = q  BY <2>3 DEF Own, Base
    <3> QED  BY <3>1, <3>2
  <2> QED  BY <2>2, <2>3
<1>7. x.trust = 2 => Good(4, q, val', T, W)
  <2> SUFFICES ASSUME x.trust = 2 PROVE Good(4, q, val', T, W)  OBVIOUS
  <2>1. Good2(q.p16, val', T, W)  BY <1>4, WidthIs, GoodIs, AtIs DEF Bent
  <2>2. GoodBytes(q, val', T, W)
    <3>1. Good1(q.pl, val'[1], T, 1 \in W)  BY <1>4, WidthIs, GoodIs, AtIs DEF Bent
    <3>2. Good1(q.ph, val'[2], T, 2 \in W)
      <4>1. Good(1, q.ph, At("rh", val'), T, Bent("rh", W))  BY <1>4, WidthIs
      <4>2. 1 \in Bent("rh", W) => 2 \in W  BY DEF Bent
      <4> QED  BY <4>1, <4>2, GoodIs, AtIs DEF Good1
    <3> QED  BY <3>1, <3>2 DEF GoodBytes
  <2>3. Good3(q.p32, val', T, W)
    <3>2. \A i \in 1 .. 3 : x.d[i] = val'[i]  BY <1>1, ItemValue
    <3>1. Good(3, x.s, x.d, T, W)
      <4>1. CASE x.s.num
        <5>1. T = {} /\ \A i \in (1 .. 3) \ W : x.s.n[i] = x.d[i]  BY <4>1 DEF Item
        <5> QED  BY <1>3, <4>1, <5>1, NumberGood
      <4>2. CASE ~x.s.num  BY <4>2 DEF Item
      <4> QED  BY <4>1, <4>2
    <3>3. Good(3, x.s, val', T, W)  BY <3>1, <3>2, GoodSame
    <3> QED  BY <3>3, GoodIs
  <2>4. Tainted(4, q, T)  BY <1>6 DEF Tainted
  <2> QED  BY <2>1, <2>2, <2>3, <2>4 DEF Good, Good4
<1>10. BentUnder("r64", bent') = W
  <2>1. "r64" \in Wide  BY DEF Wide
  <2> QED  BY <1>1, <2>1, BentUnderAfter
<1> HIDE DEF T, W
<1>8. All(Only(T)) = T /\ Only(T).wide = T /\ At("r64", val') = val'  BY AllOnly, AtIs
<1>9. Entry("r64", q, val', bent'["r64"], W, Only(T), x.trust)
  BY <1>1, <1>5, <1>6, <1>7, <1>8, NameEntry
<1> QED  BY <1>2, <1>9, <1>10

LEMMA Write32Keeps ==
  ASSUME SymInv, NEW x, Item(3, x), NEW keep \in BOOLEAN, Write32With(x, keep)
  PROVE  SymInv'
<1> DEFINE s == x.s
           b == Below32(s)
           q == [Name(s.t) EXCEPT !.p32 = s, !.p16 = b.p16, !.ph = b.ph, !.pl = b.pl]
           p == [q EXCEPT !.p64 = Base(parts["r64"], parts["r64"].p64)]
           new == [r64 |-> IF s.num /\ parts["r64"].num THEN PutLow(parts["r64"], s, 3, 4)
                           ELSE IF s.num /\ keep THEN p ELSE q,
                   r32 |-> s, r16 |-> b.p16, rh |-> b.ph, rl |-> b.pl]
<1>1. Write("r32", x, {"r64"}, new)  BY DEF Write32With
<1>2. /\ "r32" \in PartsOf(reg) /\ Width["r32"] = 3 /\ ShapeInv /\ "r32" \in Wide
      /\ PartsOf(reg) \subseteq {"r64", "r32", "r16", "rh", "rl"}
  BY PartsAre, WidthIs DEF SymInv, Wide
<1>3. b.p16 = PartOf(s, "r16") /\ b.ph = PartOf(s, "rh") /\ b.pl = PartOf(s, "rl")
  BY DEF Below32, PartOf
<1>4. /\ q # Null /\ ~q.num /\ q.t = s.t /\ q.p64 = Null /\ q.p32 = s /\ q.p16 = b.p16
      /\ q.ph = b.ph /\ q.pl = b.pl
  <2> HIDE DEF s, b
  <2>1. "num" \in DOMAIN q  BY DEF Name, Number
  <2> QED  BY <2>1, NotNull DEF Name, Number
<1>5. /\ p # Null /\ ~p.num /\ p.t = s.t /\ p.p32 = s /\ p.p16 = b.p16
      /\ p.ph = b.ph /\ p.pl = b.pl
  <2> HIDE DEF s, b
  <2>1. "num" \in DOMAIN p  BY DEF Name, Number
  <2> QED  BY <2>1, NotNull DEF Name, Number
<1>6. /\ new["r64"] = IF s.num /\ parts["r64"].num THEN PutLow(parts["r64"], s, 3, 4)
                      ELSE IF s.num /\ keep THEN p ELSE q
      /\ new["r32"] = s /\ new["r16"] = b.p16 /\ new["rh"] = b.ph /\ new["rl"] = b.pl
  OBVIOUS
<1> HIDE DEF new, p, q, b, s
<1>7. ASSUME Record("r32", x), parts["r64"] # Null, NEW Q \in PartsOf(reg)
      PROVE  Entry(Q, new[Q], val', bent'[Q], BentUnder(Q, bent'), due'[Q], trust'[Q])
  <2>1. CASE Q = "r64"
    <3>1. CASE s.num /\ parts["r64"].num
      BY <1>6, <1>7, <2>1, <3>1, Whole32 DEF s
    <3>2. CASE ~(s.num /\ parts["r64"].num) /\ s.num /\ keep
      <4>1. Entry("r64", p, val', bent'["r64"],
        BentUnder("r64", bent'), due'["r64"], trust'["r64"])
        BY <1>3, <1>5, <1>7, <3>2, Name32 DEF s
      <4> QED  BY <1>6, <2>1, <3>2, <4>1
    <3>3. CASE ~(s.num /\ parts["r64"].num) /\ ~(s.num /\ keep)
      <4>1. Entry("r64", q, val', bent'["r64"],
        BentUnder("r64", bent'), due'["r64"], trust'["r64"])
        BY <1>3, <1>4, <1>7, Name32 DEF s
      <4> QED  BY <1>6, <2>1, <3>3, <4>1
    <3> QED  BY <3>1, <3>2, <3>3
  <2>2. CASE Q = "r32"  BY <1>2, <1>6, <1>7, <2>2, OwnEntryOf DEF s
  <2>3. CASE Q \in {"r16", "rh", "rl"}
    <3>1. Q \in Under("r32") /\ new[Q] = PartOf(x.s, Q)  BY <1>3, <1>6, <2>3 DEF Under, s
    <3> QED  BY <1>2, <1>7, <3>1, UnderEntries
  <2> QED  BY <1>2, <2>1, <2>2, <2>3
<1> QED  BY <1>1, <1>2, <1>7, WriteKeeps
-----------------------------------------------------------------------------
(* 16 bits.                                                                *)
LEMMA AboveName16 ==
  ASSUME SymInv, NEW Q \in {"r64", "r32"}, NEW x, Item(2, x), Record("r16", x),
         NEW q, Sym(Width[Q], q), ~q.num, q.t = x.s.t, Own(Width[Q], q) = q
  PROVE  Entry(Q, q, val', bent'[Q], BentUnder(Q, bent'), due'[Q], trust'[Q])
<1>1. /\ ShapeInv /\ "r16" \in PartsOf(reg) /\ Q \in PartsOf(reg) /\ Q \in Names
      /\ Width[Q] \in 1 .. 4 /\ Width["r16"] = 2
  BY PartsAre, WidthIs DEF SymInv
<1>2. /\ trust'[Q] = IF trust[Q] = 0 \/ x.trust = 0 THEN 0 ELSE 1
      /\ due'[Q] = Only(All(x.due))
  <2>1. /\ "r16" \in Wide /\ Q # "r16" /\ Q \notin Written("r16") /\ Q \notin Under("r16")
        /\ "r16" \in Under(Q)
    BY DEF Wide, Written, Under
  <2> QED  BY <1>1, <2>1, RecordIs DEF TrustAfter, DueAfter
<1>3. ASSUME trust'[Q] > 0 PROVE All(x.due) \subseteq q.t
  <2>1. x.trust \in 0 .. 2  BY DEF Item
  <2>2. x.trust > 0  BY <1>2, <1>3, <2>1
  <2>3. Carries(2, x.s, x.due)  BY <2>2 DEF Item
  <2>4. x.s.num => All(x.due) = {}  BY DEF Item
  <2> QED  BY <2>3, <2>4 DEF Carries
<1>4. trust'[Q] \in {0, 1}  BY <1>2
<1>5. All(due'[Q]) = All(x.due) /\ due'[Q].wide = All(x.due)  BY <1>2, AllOnly
<1>6. trust'[Q] > 0 => All(due'[Q]) \subseteq q.t /\ due'[Q].wide \subseteq Own(Width[Q], q).t
  BY <1>3, <1>5
<1> QED  BY <1>1, <1>4, <1>6, NameEntry

(* A number that takes in a number of 16 bits.                             *)
LEMMA Merged16 ==
  ASSUME SymInv, NEW Q \in {"r64", "r32"}, NEW w \in 3 .. 4, w = Width[Q],
         NEW x, Item(2, x), Record("r16", x), x.s.num,
         parts[Q] # Null, parts[Q].num
  PROVE  Entry(Q, PutLow(parts[Q], x.s, 2, w), val', bent'[Q], BentUnder(Q, bent'),
               due'[Q], trust'[Q])
<1>1. /\ ShapeInv /\ "r16" \in PartsOf(reg) /\ Q \in PartsOf(reg) /\ Q \in Names
      /\ Width["r16"] = 2 /\ "r16" \in Under(Q) /\ w \in 1 .. 4 /\ 2 \in 1 .. w
  BY PartsAre, WidthIs DEF SymInv, Under
<1>2. Sym(w, parts[Q])  BY <1>1 DEF SymInv, EntryInv, Entry
<1>3. /\ Sym(2, x.s) /\ x.wrong = Wrong(x.s) /\ \A i \in 1 .. 2 : x.s.n[i] = x.d[i]
  BY DEF Item
<1>4. parts[Q].n \in [1 .. 4 -> Digit] /\ x.s.n \in [1 .. 4 -> Digit]
  <2>1. parts[Q].n \in [1 .. 4 -> Digit]  BY <1>1, <1>2, NumberOf
  <2>2. 2 \in 1 .. 4  OBVIOUS
  <2>3. x.s.n \in [1 .. 4 -> Digit]  BY <1>3, <2>2, NumberOf
  <2> QED  BY <2>1, <2>3
<1> DEFINE f == PutLow(parts[Q], x.s, 2, w).n
<1>5. /\ PutLow(parts[Q], x.s, 2, w) = Number(f) /\ f \in [1 .. 4 -> Digit]
      /\ \A i \in 1 .. w : i <= 2 /\ i \notin Wrong(x.s) => f[i] = x.s.n[i]
      /\ \A i \in 1 .. w : i > 2 /\ i \notin Wrong(parts[Q]) => f[i] = parts[Q].n[i]
  <2> DEFINE o == parts[Q]
             b == x.s
  <2>1. w \in 1 .. 4 /\ 2 \in 1 .. w /\ o.num /\ b.num  BY <1>1
  <2>2. o.n \in [1 .. 4 -> Digit] /\ b.n \in [1 .. 4 -> Digit]  BY <1>4
  <2> HIDE DEF o, b
  <2>3. /\ PutLow(o, b, 2, 3) = Number(PutLow(o, b, 2, 3).n)
        /\ PutLow(o, b, 2, 3).n \in [1 .. 4 -> Digit]
        /\ \A i \in 1 .. 3 : i <= 2 /\ i \notin Wrong(b) => PutLow(o, b, 2, 3).n[i] = b.n[i]
        /\ \A i \in 1 .. 3 : i > 2 /\ i \notin Wrong(o) => PutLow(o, b, 2, 3).n[i] = o.n[i]
    BY <2>1, <2>2, PutLowIs
  <2>4. /\ PutLow(o, b, 2, 4) = Number(PutLow(o, b, 2, 4).n)
        /\ PutLow(o, b, 2, 4).n \in [1 .. 4 -> Digit]
        /\ \A i \in 1 .. 4 : i <= 2 /\ i \notin Wrong(b) => PutLow(o, b, 2, 4).n[i] = b.n[i]
        /\ \A i \in 1 .. 4 : i > 2 /\ i \notin Wrong(o) => PutLow(o, b, 2, 4).n[i] = o.n[i]
    BY <2>1, <2>2, PutLowIs
  <2>5. w = 3 \/ w = 4  OBVIOUS
  <2> QED  BY <2>3, <2>4, <2>5 DEF o, b
<1> HIDE DEF f
<1>6. \A i \in 1 .. 2 : val'[i] = x.d[i]  BY <1>1, ItemValue
<1>7. ASSUME NEW i \in (1 .. w) \ bent'[Q]
      PROVE  f[i] = IF i \in Digits["r16"] THEN val'[i] ELSE parts[Q].n[i]
  <2>1. /\ i \notin Digits["r16"] => i \notin Wrong(parts[Q])
        /\ i \in Digits["r16"] => i \notin x.wrong
    BY <1>1, <1>7, MergedDigits
  <2>2. i \in Digits["r16"] <=> i <= 2  BY <1>7, DigitsAre
  <2>3. CASE i <= 2
    <3>1. i \in 1 .. 2 /\ i \notin Wrong(x.s)  BY <1>3, <1>7, <2>1, <2>2, <2>3
    <3> QED  BY <1>3, <1>5, <1>6, <1>7, <2>2, <2>3, <3>1
  <2>4. CASE ~(i <= 2)
    <3>1. i > 2 /\ i \notin Wrong(parts[Q])  BY <1>7, <2>1, <2>2, <2>4
    <3> QED  BY <1>5, <1>7, <2>2, <2>4, <3>1
  <2> QED  BY <2>3, <2>4
<1> QED  BY <1>1, <1>5, <1>7, AboveNumber

LEMMA PastIsSym == ASSUME NEW p, Past2(p) PROVE Opt2(p)
<1>1. Past2(Null)  BY DEF Past2
<1> QED  BY <1>1 DEF Past2, Opt2, Sym2

LEMMA Write16Keeps ==
  ASSUME SymInv, NEW x, Item(2, x), Write16(x)
  PROVE  SymInv'
<1> DEFINE s == x.s
           ph == IF s.num THEN High(s) ELSE s.ph
           pl == IF s.num THEN Low(s, 1) ELSE s.pl
           new4 == [Name(s.t) EXCEPT !.p16 = s, !.ph = ph, !.pl = pl]
           p32 == IF s.num /\ parts["r32"].num THEN Null ELSE new4
           p16 == IF s.num THEN s ELSE s.p16
           new8 == [Name(s.t) EXCEPT !.p32 = p32, !.p16 = p16, !.ph = ph, !.pl = pl]
           seen == IF s.num THEN {"r64", "r32"} ELSE {}
           new == [r64 |-> IF s.num /\ parts["r64"].num
                           THEN PutLow(parts["r64"], s, 2, 4) ELSE new8,
                   r32 |-> IF s.num /\ parts["r32"].num
                           THEN PutLow(parts["r32"], s, 2, 3) ELSE new4,
                   r16 |-> s, rh |-> ph, rl |-> pl]
<1>1. Write("r16", x, seen, new)  BY DEF Write16
<1>2. /\ "r16" \in PartsOf(reg) /\ Width["r16"] = 2 /\ ShapeInv /\ "r16" \in Wide
      /\ PartsOf(reg) \subseteq {"r64", "r32", "r16", "rh", "rl"}
      /\ Width["r64"] = 4 /\ Width["r32"] = 3
  BY PartsAre, WidthIs DEF SymInv, Wide
<1>3. ph = PartOf(s, "rh") /\ pl = PartOf(s, "rl")  BY DEF PartOf
<1>4. /\ new4 # Null /\ ~new4.num /\ new4.t = s.t /\ new4.p64 = Null /\ new4.p32 = Null
      /\ new4.p16 = s
      /\ new4.ph = ph /\ new4.pl = pl /\ DOMAIN new4 = Fields
  <2> HIDE DEF s, ph, pl
  <2>1. DOMAIN new4 = Fields  BY DEF Name, Number, Fields
  <2>2. new4 # Null  BY <2>1, NotNull DEF Fields
  <2> QED  BY <2>1, <2>2 DEF Name, Number
<1> HIDE DEF new4
<1>5. /\ new8 # Null /\ ~new8.num /\ new8.t = s.t /\ new8.p64 = Null /\ new8.p32 = p32
      /\ new8.p16 = p16 /\ new8.ph = ph /\ new8.pl = pl
  <2> HIDE DEF s, ph, pl, p32, p16
  <2>1. "num" \in DOMAIN new8  BY DEF Name, Number
  <2> QED  BY <2>1, NotNull DEF Name, Number
<1> HIDE DEF new8
<1>6. /\ new["r64"] = IF s.num /\ parts["r64"].num THEN PutLow(parts["r64"], s, 2, 4) ELSE new8
      /\ new["r32"] = IF s.num /\ parts["r32"].num THEN PutLow(parts["r32"], s, 2, 3) ELSE new4
      /\ new["r16"] = s /\ new["rh"] = ph /\ new["rl"] = pl
  OBVIOUS
<1> HIDE DEF new
<1>7. Sym2(s) /\ s # Null  BY SymIs, SymNotNull DEF Item
<1>8. Opt2(p16)
  <2>1. CASE s.num  BY <1>7, <2>1 DEF Opt2
  <2>2. CASE ~s.num
    <3>1. p16 = s.p16 /\ Past2(s.p16)  BY <1>7, <2>2 DEF Sym2
    <3> QED  BY <3>1, PastIsSym
  <2> QED  BY <2>1, <2>2
<1> HIDE DEF ph, pl, p16
<1>9. ASSUME Record("r16", x), \A R \in seen : parts[R] # Null, NEW Q \in PartsOf(reg)
      PROVE  Entry(Q, new[Q], val', bent'[Q], BentUnder(Q, bent'), due'[Q], trust'[Q])
  <2>1. Opt1(ph) /\ Opt1(pl)
    <3>1. \A R \in {"rh", "rl"} : PartOf(s, R) = Null \/ Sym(Width[R], PartOf(s, R))
      BY <1>2, <1>9, UnderItem DEF Under
    <3> QED  BY <1>3, <3>1, WidthIs, SymIs DEF Opt1
  <2>2. Sym(3, new4) /\ Own(3, new4) = new4
    <3>1. Opt2(new4.p16) /\ Bytes(new4)  BY <1>4, <1>7, <2>1 DEF Opt2, Bytes
    <3> QED  BY <1>4, <3>1, SymIs DEF Sym3, Own, Base
  <2>3. Sym(4, new8) /\ Own(4, new8) = new8
    <3>1. Opt3(new8.p32)  BY <1>5, <2>2, SymIs DEF Opt3
    <3>2. Opt2(new8.p16) /\ Bytes(new8)  BY <1>5, <1>8, <2>1 DEF Bytes
    <3> QED  BY <1>5, <3>1, <3>2, SymIs DEF Sym4, Own, Base
  <2>4. s.num => parts["r64"] # Null /\ parts["r32"] # Null  BY <1>9
  <2> HIDE DEF p32, seen, s
  <2>5. CASE Q = "r64"
    <3>1. CASE s.num /\ parts["r64"].num
      BY <1>2, <1>6, <1>9, <2>4, <2>5, <3>1, Merged16 DEF s
    <3>2. CASE ~(s.num /\ parts["r64"].num)
      <4>1. new8.t = x.s.t  BY <1>5 DEF s
      <4> QED  BY <1>2, <1>5, <1>6, <1>9, <2>3, <2>5, <3>2, <4>1, AboveName16
    <3> QED  BY <3>1, <3>2
  <2>6. CASE Q = "r32"
    <3>1. CASE s.num /\ parts["r32"].num
      BY <1>2, <1>6, <1>9, <2>4, <2>6, <3>1, Merged16 DEF s
    <3>2. CASE ~(s.num /\ parts["r32"].num)
      <4>1. new4.t = x.s.t  BY <1>4 DEF s
      <4> QED  BY <1>2, <1>4, <1>6, <1>9, <2>2, <2>6, <3>2, <4>1, AboveName16
    <3> QED  BY <3>1, <3>2
  <2>7. CASE Q = "r16"  BY <1>2, <1>6, <1>9, <2>7, OwnEntryOf DEF s
  <2>8. CASE Q \in {"rh", "rl"}
    <3>1. Q \in Under("r16") /\ new[Q] = PartOf(x.s, Q)  BY <1>3, <1>6, <2>8 DEF Under, s
    <3> QED  BY <1>2, <1>9, <3>1, UnderEntries
  <2> QED  BY <1>2, <2>5, <2>6, <2>7, <2>8
<1> QED  BY <1>1, <1>2, <1>9, WriteKeeps
-----------------------------------------------------------------------------
(* 8 bits.                                                                 *)
LEMMA ByteIs ==
  ASSUME SymInv, NEW P \in {"rh", "rl"}, NEW Q \in Wide
  PROVE  /\ ShapeInv /\ P \in Names /\ P \notin Wide /\ Width[P] = 1
         /\ Q \in PartsOf(reg) /\ Q \in Names /\ Width[Q] \in 2 .. 4 /\ Width[Q] \in 1 .. 4
         /\ P \in Under(Q) /\ Q # P /\ Q \notin Written(P) /\ Q \notin Under(P)
         /\ Q \notin Apart(P)
         /\ Entry(Q, parts[Q], val, bent[Q], BentUnder(Q, bent), due[Q], trust[Q])
         /\ parts[Q] # Null => Sym(Width[Q], parts[Q])
<1>1. /\ ShapeInv /\ P \in Names /\ P \notin Wide /\ Width[P] = 1
      /\ Q \in PartsOf(reg) /\ Q \in Names /\ Width[Q] \in 2 .. 4 /\ Width[Q] \in 1 .. 4
  BY PartsAre, WidthIs DEF SymInv, Wide
<1>2. /\ P \in Under(Q) /\ Q # P /\ Q \notin Written(P) /\ Q \notin Under(P)
      /\ Q \notin Apart(P)
  BY DEF Wide, Under, Written, Apart
<1>3. Entry(Q, parts[Q], val, bent[Q], BentUnder(Q, bent), due[Q], trust[Q])
  BY <1>1 DEF SymInv, EntryInv
<1>4. parts[Q] # Null => Sym(Width[Q], parts[Q])  BY <1>3 DEF Entry
<1> QED  BY <1>1, <1>2, <1>3, <1>4

(* A number with another's digit as its second byte.                       *)
LEMMA PutHighIs ==
  ASSUME NEW w \in 2 .. 4, NEW s, s.n \in [1 .. 4 -> Digit], s.num,
         NEW x, x.n \in [1 .. 4 -> Digit], x.num
  PROVE  LET f == PutHigh(s, x, w).n
         IN  /\ PutHigh(s, x, w) = Number(f) /\ f \in [1 .. 4 -> Digit]
             /\ 1 \notin Wrong(x) => f[2] = x.n[1]
             /\ \A i \in 1 .. w : i # 2 /\ i \notin Wrong(s) => f[i] = s.n[i]
<1> DEFINE f == [i \in 1 .. 4 |-> IF i = 2 THEN to_int(x)[1]
                                  ELSE IF i <= w THEN to_int(s)[i] ELSE 0]
<1>1. PutHigh(s, x, w) = Number(f)  BY DEF PutHigh
<1>2. f \in [1 .. 4 -> Digit]  BY ToIntIs DEF Digit
<1>3. 1 \notin Wrong(x) => f[2] = x.n[1]  BY ToIntIs
<1>4. \A i \in 1 .. w : i # 2 /\ i \notin Wrong(s) => f[i] = s.n[i]  BY ToIntIs
<1> HIDE DEF f
<1>5. PutHigh(s, x, w).n = f  BY <1>1, NumberIs
<1> QED  BY <1>1, <1>2, <1>3, <1>4, <1>5

(* A number takes in a byte, as its second whichever was written.          *)
LEMMA Merged8 ==
  ASSUME SymInv, NEW P \in {"rh", "rl"}, P \in PartsOf(reg), NEW Q \in Wide,
         NEW w, w = Width[Q],
         NEW x, Item(1, x), Record(P, x), x.s.num, parts[Q] # Null, parts[Q].num
  PROVE  Entry(Q, PutByte(parts[Q], x.s, w), val', bent'[Q], BentUnder(Q, bent'),
               due'[Q], trust'[Q])
<1>1. /\ ShapeInv /\ P \in Names /\ Width[P] = 1 /\ Q \in PartsOf(reg)
      /\ w \in 2 .. 4 /\ w \in 1 .. 4 /\ P \in Under(Q) /\ P # "r32"
      /\ Sym(w, parts[Q])
  BY ByteIs
<1>2. parts[Q].n \in [1 .. 4 -> Digit]  BY <1>1, NumberOf
<1>3. Sym(1, x.s) /\ x.wrong = Wrong(x.s) /\ x.s.n[1] = x.d[1]  BY DEF Item
<1>4. x.s.n \in [1 .. 4 -> Digit]  BY <1>3, SymIs DEF Sym1, IsNumber
<1> DEFINE f == PutHigh(parts[Q], x.s, w).n
<1>5. /\ PutHigh(parts[Q], x.s, w) = Number(f) /\ f \in [1 .. 4 -> Digit]
      /\ 1 \notin Wrong(x.s) => f[2] = x.s.n[1]
      /\ \A i \in 1 .. w : i # 2 /\ i \notin Wrong(parts[Q]) => f[i] = parts[Q].n[i]
  <2>1. CASE Q = "r64"  BY <1>2, <1>4, <2>1, WidthIs, PutHighIs
  <2>2. CASE Q = "r32"  BY <1>2, <1>4, <2>2, WidthIs, PutHighIs
  <2>3. CASE Q = "r16"  BY <1>2, <1>4, <2>3, WidthIs, PutHighIs
  <2> QED  BY <2>1, <2>2, <2>3 DEF Wide
<1> HIDE DEF f
<1>6. ASSUME NEW i \in (1 .. w) \ bent'[Q]
      PROVE  f[i] = IF i \in Digits[P] THEN val'[i] ELSE parts[Q].n[i]
  <2>1. /\ i \notin Digits[P] => i \notin Wrong(parts[Q])
        /\ i \in Digits[P] => i \notin x.wrong
        /\ P = "rl" => i # 1 /\ i # 2
    BY <1>1, <1>6, MergedDigits
  <2>2. CASE P = "rh"
    <3>1. val'[2] = x.d[1]  BY <1>1, <2>2, ItemValue
    <3>2. i \in Digits[P] <=> i = 2  BY <2>2, DigitsAre
    <3>3. i \in Digits[P] => 1 \notin Wrong(x.s)
      <4>1. Wrong(x.s) = {} \/ Wrong(x.s) = 1 .. 4  BY DEF Wrong
      <4>2. i \in 1 .. 4  BY <1>1, <1>6
      <4> QED  BY <1>3, <2>1, <4>1, <4>2
    <3> QED  BY <1>3, <1>5, <1>6, <2>1, <3>1, <3>2, <3>3
  <2>3. CASE P = "rl"
    <3>1. i \notin Digits[P]  BY <2>1, <2>3, DigitsAre
    <3> QED  BY <1>5, <1>6, <2>1, <2>3, <3>1
  <2> QED  BY <2>2, <2>3
<1> QED  BY <1>1, <1>5, <1>6, AboveNumber DEF PutByte

(* A name keeps the taints of the last wide write in the name below.       *)
LEMMA OwnCarries ==
  ASSUME NEW w \in 2 .. 4, NEW s, Sym(w, s), NEW D, Carries(w, s, D)
  PROVE  D.wide \subseteq Own(w, s).t
<1>1. CASE s.num  BY <1>1 DEF Carries, All
<1>2. CASE ~s.num  BY <1>2 DEF Carries
<1> QED  BY <1>1, <1>2

(* A name that replaces another after a write of a byte.                   *)
LEMMA AboveName8 ==
  ASSUME SymInv, NEW P \in {"rh", "rl"}, P \in PartsOf(reg), NEW Q \in Wide,
         NEW x, Item(1, x), Record(P, x), parts[Q] # Null,
         NEW q, Sym(Width[Q], q), ~q.num, Own(Width[Q], q) = Own(Width[Q], parts[Q]),
         \/ q.t = x.s.t \cup Own(Width[Q], parts[Q]).t
         \/ x.s.num /\ q = parts[Q]
  PROVE  Entry(Q, q, val', bent'[Q], BentUnder(Q, bent'), due'[Q], trust'[Q])
<1> DEFINE w == Width[Q]
           old == parts[Q]
<1>1. /\ ShapeInv /\ P \notin Wide /\ Q \in PartsOf(reg) /\ Q \in Names
      /\ w \in 2 .. 4 /\ w \in 1 .. 4
      /\ P \in Under(Q) /\ Q # P /\ Q \notin Written(P) /\ Q \notin Under(P)
      /\ Q \notin Apart(P) /\ Sym(w, old)
      /\ Entry(Q, old, val, bent[Q], BentUnder(Q, bent), due[Q], trust[Q])
  BY ByteIs
<1>2. /\ trust'[Q] = IF trust[Q] = 0 \/ x.trust = 0 THEN 0 ELSE 1
      /\ due'[Q] = [wide |-> due[Q].wide, last |-> All(x.due)]
  BY <1>1, RecordIs DEF TrustAfter, DueAfter
<1>3. trust'[Q] \in {0, 1} /\ due'[Q].wide = due[Q].wide
      /\ All(due'[Q]) = due[Q].wide \cup All(x.due)
  BY <1>2 DEF All
<1>4. ASSUME trust'[Q] > 0
      PROVE  All(due'[Q]) \subseteq q.t /\ due'[Q].wide \subseteq Own(w, q).t
  <2>1. trust[Q] \in 0 .. 2 /\ x.trust \in 0 .. 2  BY <1>1 DEF ShapeInv, Item
  <2>2. trust[Q] > 0 /\ x.trust > 0  BY <1>2, <1>4, <2>1
  <2>3. Carries(w, old, due[Q])  BY <1>1, <2>2 DEF Entry
  <2>4. Carries(1, x.s, x.due)  BY <2>2 DEF Item
  <2>5. due[Q].wide \subseteq Own(w, old).t  BY <1>1, <2>3, OwnCarries
  <2>6. x.s.num => All(x.due) = {}  BY DEF Item
  <2>7. CASE q.t = x.s.t \cup Own(w, old).t
    <3>1. All(x.due) \subseteq x.s.t  BY <2>4, <2>6 DEF Carries
    <3> QED  BY <1>3, <2>5, <2>7, <3>1
  <2>8. CASE x.s.num /\ q = old
    <3>1. due[Q].wide \subseteq q.t  BY <2>3, <2>8 DEF Carries, All
    <3> QED  BY <1>3, <2>5, <2>6, <2>8, <3>1
  <2> QED  BY <2>7, <2>8
<1> QED  BY <1>1, <1>3, <1>4, NameEntry

(* The bytes of the new names.                                             *)
ByteHigh(P, s, old) == IF P = "rh" THEN s ELSE old.ph
ByteLow(P, s, old) == IF P = "rl" THEN s ELSE old.pl
New2(P, s) ==
  Fresh2(s, ByteHigh(P, s, parts["r16"]), ByteLow(P, s, parts["r16"]))
New4(P, s, p16) ==
  Fresh4(s, p16, ByteHigh(P, s, parts["r32"]), ByteLow(P, s, parts["r32"]))
New8(P, s, p32, p16) ==
  Fresh8(s, p32, p16, ByteHigh(P, s, parts["r64"]), ByteLow(P, s, parts["r64"]))

(* The bytes a symbol points to.                                           *)
LEMMA BytesOf ==
  ASSUME NEW w \in 2 .. 4, NEW s, Sym(w, s)
  PROVE  Bytes(s) /\ (w = 2 => Past2(s.p16))
<1>1. CASE s.num
  <2>1. s.ph = Null /\ s.pl = Null /\ s.p16 = Null  BY <1>1, NumberOf
  <2> QED  BY <2>1 DEF Bytes, Opt1, Past2
<1>2. CASE ~s.num
  <2>1. CASE w = 2  BY <1>2, <2>1, SymIs DEF Sym2
  <2>2. CASE w = 3  BY <1>2, <2>2, SymIs DEF Sym3
  <2>3. CASE w = 4  BY <1>2, <2>3, SymIs DEF Sym4
  <2> QED  BY <2>1, <2>2, <2>3
<1> QED  BY <1>1, <1>2

LEMMA NewBytes ==
  ASSUME NEW P \in {"rh", "rl"}, NEW s, Sym1(s), NEW w \in 2 .. 4, NEW old, Sym(w, old)
  PROVE  Opt1(ByteHigh(P, s, old)) /\ Opt1(ByteLow(P, s, old))
<1>1. Opt1(old.ph) /\ Opt1(old.pl)  BY BytesOf DEF Bytes
<1>2. Opt1(s)  BY DEF Opt1
<1> QED  BY <1>1, <1>2 DEF ByteHigh, ByteLow

LEMMA BaseNotNull == ASSUME NEW s, s # Null, NEW p PROVE Base(s, p) # Null
BY DEF Base

LEMMA PastOf ==
  ASSUME NEW s, Sym(2, s)
  PROVE  Past2(Base(s, s.p16))
<1>1. CASE s.p16 # Null
  <2>1. 2 \in 2 .. 4  OBVIOUS
  <2>2. Past2(s.p16)  BY <2>1, BytesOf
  <2> QED  BY <1>1, <2>2 DEF Base
<1>2. CASE s.p16 = Null
  <2>1. s # Null /\ IF s.num THEN IsNumber(s)
                     ELSE DOMAIN s = Fields /\ Bytes(s) /\ Narrow2(s)
    BY SymIs DEF Sym2
  <2> QED  BY <1>2, <2>1 DEF Base, Past2
<1> QED  BY <1>1, <1>2

(* The new names, from 16 to 64 bits.                                      *)
LEMMA New2Is ==
  ASSUME NEW P \in {"rh", "rl"}, NEW s, Sym1(s), parts["r16"] # Null, Sym(2, parts["r16"])
  PROVE  LET q == New2(P, s)
         IN  /\ q # Null /\ ~q.num /\ q.t = s.t \cup Own(2, parts["r16"]).t
             /\ Sym(2, q) /\ Own(2, q) = Own(2, parts["r16"])
<1> DEFINE old == parts["r16"]
           ph == ByteHigh(P, s, old)
           pl == ByteLow(P, s, old)
           base == Base(old, old.p16)
           q == [Name(s.t \cup base.t) EXCEPT !.p16 = base, !.ph = ph, !.pl = pl]
<1>1. New2(P, s) = q  BY DEF New2, Fresh2, Base2
<1>2. base = Own(2, old) /\ base # Null /\ Past2(base)  BY BaseNotNull, PastOf DEF Own
<1>3. Opt1(ph) /\ Opt1(pl)
  <2>1. 2 \in 2 .. 4  OBVIOUS
  <2> QED  BY <2>1, NewBytes
<1> HIDE DEF base, ph, pl
<1>4. /\ q # Null /\ ~q.num /\ q.t = s.t \cup base.t /\ q.p16 = base /\ q.ph = ph /\ q.pl = pl
      /\ DOMAIN q = Fields /\ q.p64 = Null /\ q.p32 = Null
  <2>1. DOMAIN q = Fields  BY DEF Name, Number, Fields
  <2>2. q # Null  BY <2>1, NotNull DEF Fields
  <2> QED  BY <2>1, <2>2 DEF Name, Number
<1> HIDE DEF q
<1>5. Sym(2, q)  BY <1>2, <1>3, <1>4, SymIs DEF Sym2, Bytes, Narrow2
<1>6. Own(2, q) = base  BY <1>2, <1>4 DEF Own, Base
<1> QED  BY <1>1, <1>2, <1>4, <1>5, <1>6

LEMMA New4Is ==
  ASSUME NEW P \in {"rh", "rl"}, NEW s, Sym1(s), parts["r32"] # Null, Sym(3, parts["r32"]),
         NEW p16, Opt2(p16)
  PROVE  LET q == New4(P, s, p16)
         IN  /\ q # Null /\ ~q.num /\ q.t = s.t \cup Own(3, parts["r32"]).t
             /\ Sym(3, q) /\ Own(3, q) = Own(3, parts["r32"])
<1> DEFINE old == parts["r32"]
           ph == ByteHigh(P, s, old)
           pl == ByteLow(P, s, old)
           base == Base(old, old.p32)
           q == [Name(s.t \cup base.t) EXCEPT !.p32 = base, !.p16 = p16, !.ph = ph, !.pl = pl]
<1>1. New4(P, s, p16) = q  BY DEF New4, Fresh4, Base4
<1>2. base = Own(3, old) /\ base # Null  BY BaseNotNull DEF Own
<1>3. Opt1(ph) /\ Opt1(pl)
  <2>1. 3 \in 2 .. 4  OBVIOUS
  <2> QED  BY <2>1, NewBytes
<1> HIDE DEF base, ph, pl
<1>4. /\ q # Null /\ ~q.num /\ q.t = s.t \cup base.t /\ q.p32 = base /\ q.p16 = p16
      /\ q.ph = ph /\ q.pl = pl /\ DOMAIN q = Fields /\ q.p64 = Null
  <2>1. DOMAIN q = Fields  BY DEF Name, Number, Fields
  <2>2. q # Null  BY <2>1, NotNull DEF Fields
  <2> QED  BY <2>1, <2>2 DEF Name, Number
<1> HIDE DEF q
<1>5. Sym(3, q)  BY <1>3, <1>4, SymIs DEF Sym3, Bytes
<1>6. Own(3, q) = base  BY <1>2, <1>4 DEF Own, Base
<1> QED  BY <1>1, <1>2, <1>4, <1>5, <1>6

LEMMA New8Is ==
  ASSUME NEW P \in {"rh", "rl"}, NEW s, Sym1(s), parts["r64"] # Null, Sym(4, parts["r64"]),
         NEW p32, Opt3(p32), NEW p16, Opt2(p16)
  PROVE  LET q == New8(P, s, p32, p16)
         IN  /\ q # Null /\ ~q.num /\ q.t = s.t \cup Own(4, parts["r64"]).t
             /\ Sym(4, q) /\ Own(4, q) = Own(4, parts["r64"])
<1> DEFINE old == parts["r64"]
           ph == ByteHigh(P, s, old)
           pl == ByteLow(P, s, old)
           base == Base(old, old.p64)
           q == [Name(s.t \cup base.t) EXCEPT !.p64 = base, !.p32 = p32, !.p16 = p16,
                                              !.ph = ph, !.pl = pl]
<1>1. New8(P, s, p32, p16) = q  BY DEF New8, Fresh8, Base8
<1>2. base = Own(4, old) /\ base # Null  BY BaseNotNull DEF Own
<1>3. Opt1(ph) /\ Opt1(pl)
  <2>1. 4 \in 2 .. 4  OBVIOUS
  <2> QED  BY <2>1, NewBytes
<1> HIDE DEF base, ph, pl
<1>4. /\ q # Null /\ ~q.num /\ q.t = s.t \cup base.t /\ q.p64 = base /\ q.p32 = p32
      /\ q.p16 = p16 /\ q.ph = ph /\ q.pl = pl
  <2>1. DOMAIN q = Fields  BY DEF Name, Number, Fields
  <2>2. q # Null  BY <2>1, NotNull DEF Fields
  <2> QED  BY <2>1, <2>2 DEF Name, Number
<1> HIDE DEF q
<1>5. Sym(4, q)  BY <1>3, <1>4, SymIs DEF Sym4, Bytes
<1>6. Own(4, q) = base  BY <1>2, <1>4 DEF Own, Base
<1> QED  BY <1>1, <1>2, <1>4, <1>5, <1>6

(* The other byte stays.                                                   *)
LEMMA OtherByte ==
  ASSUME SymInv, NEW P \in {"rh", "rl"}, P \in PartsOf(reg), NEW x, Item(1, x), Record(P, x),
         NEW Q \in PartsOf(reg), Q \in Apart(P)
  PROVE  Entry(Q, parts[Q], val', bent'[Q], BentUnder(Q, bent'), due'[Q], trust'[Q])
<1>1. /\ ShapeInv /\ P \notin Wide /\ Q \in {"rh", "rl"} /\ Q # P /\ Q \notin Written(P)
      /\ Q \notin Under(P) /\ P \notin Under(Q) /\ Width[Q] = 1 /\ Width[P] = 1 /\ 1 \in 1 .. 4
  BY WidthIs DEF SymInv, Wide, Apart, Written, Under
<1>2. due'[Q] = due[Q] /\ trust'[Q] = trust[Q]  BY <1>1, RecordIs DEF DueAfter, TrustAfter
<1>3. At(Q, val')[1] = At(Q, val)[1]
  <2>1. CASE Q = "rh"
    <3>1. val'[2] = val[2]  BY <1>1, <2>1, ItemValue, DigitsAre
    <3> QED  BY <2>1, <3>1, AtIs
  <2>2. CASE Q = "rl"
    <3>1. val'[1] = val[1]  BY <1>1, <2>2, ItemValue, DigitsAre
    <3> QED  BY <2>2, <3>1, AtIs
  <2> QED  BY <1>1, <2>1, <2>2
<1>4. Entry(Q, parts[Q], val, bent[Q], BentUnder(Q, bent), due[Q], trust[Q])
  BY DEF SymInv, EntryInv
<1>5. bent'[Q] = bent[Q]  BY <1>1, BentAfter
<1>6. trust[Q] = 2 /\ ~parts[Q].num =>
        Good(1, parts[Q], At(Q, val'), All(due[Q]), BentUnder(Q, bent'))
  BY <1>1, <1>4, GoodIs DEF Entry, Good1
<1> QED  BY <1>1, <1>2, <1>3, <1>4, <1>5, <1>6 DEF Entry

ByteSeen == {"r64", "r32", "r16"}
NumberWrite(P, x) ==
  LET new2 == IF parts["r16"].num THEN Null ELSE New2(P, x.s)
      new4 == IF parts["r32"].num THEN Null ELSE New4(P, x.s, new2)
      new8 == New8(P, x.s, new4, new2)
  IN Write(P, x, ByteSeen,
       [parts EXCEPT ![P] = x.s,
          !["r16"] = IF parts["r16"].num THEN PutByte(parts["r16"], x.s, 2) ELSE parts["r16"],
          !["r32"] = IF parts["r32"].num THEN PutByte(parts["r32"], x.s, 3) ELSE new4,
          !["r64"] = IF parts["r64"].num THEN PutByte(parts["r64"], x.s, 4) ELSE new8])

LEMMA ByteWriteKeeps ==
  ASSUME SymInv, NEW P \in {"rh", "rl"}, P \in PartsOf(reg), NEW x, Item(1, x),
         NEW a, NEW b, NEW c,
         Write(P, x, ByteSeen,
               [parts EXCEPT ![P] = x.s, !["r16"] = a, !["r32"] = b, !["r64"] = c]),
         (\A R \in ByteSeen : parts[R] # Null) /\ Record(P, x) =>
           /\ Entry("r16", a, val', bent'["r16"],
                    BentUnder("r16", bent'), due'["r16"], trust'["r16"])
           /\ Entry("r32", b, val', bent'["r32"],
                    BentUnder("r32", bent'), due'["r32"], trust'["r32"])
           /\ Entry("r64", c, val', bent'["r64"],
                    BentUnder("r64", bent'), due'["r64"], trust'["r64"])
  PROVE  SymInv'
<1> DEFINE new == [parts EXCEPT ![P] = x.s, !["r16"] = a, !["r32"] = b, !["r64"] = c]
<1>1. /\ ShapeInv /\ DOMAIN parts = PartsOf(reg) /\ {"r64", "r32", "r16"} \subseteq PartsOf(reg)
      /\ PartsOf(reg) \subseteq {"r64", "r32", "r16", "rh", "rl"} /\ Width[P] = 1
  BY PartsAre, WidthIs DEF SymInv, ShapeInv
<1>2. /\ new[P] = x.s /\ new["r16"] = a /\ new["r32"] = b /\ new["r64"] = c
      /\ \A Q \in PartsOf(reg) : Q \in Apart(P) => new[Q] = parts[Q]
  BY <1>1 DEF Apart
<1> HIDE DEF new
<1>3. ASSUME \A R \in ByteSeen : parts[R] # Null, Record(P, x), NEW Q \in PartsOf(reg)
      PROVE  Entry(Q, new[Q], val', bent'[Q], BentUnder(Q, bent'), due'[Q], trust'[Q])
  <2>1. CASE Q = P  BY <1>1, <1>2, <1>3, <2>1, OwnEntryOf
  <2>2. CASE Q \in Apart(P)  BY <1>2, <1>3, <2>2, OtherByte
  <2>3. CASE Q \in {"r64", "r32", "r16"}  BY <1>2, <1>3, <2>3
  <2>4. Q = P \/ Q \in Apart(P) \/ Q \in {"r64", "r32", "r16"}  BY <1>1 DEF Apart
  <2> QED  BY <2>1, <2>2, <2>3, <2>4
<1> QED  BY <1>1, <1>3, WriteKeeps DEF new

LEMMA NumberWriteKeeps ==
  ASSUME SymInv, NEW P \in {"rh", "rl"}, P \in PartsOf(reg), NEW x, Item(1, x), x.s.num,
         NumberWrite(P, x)
  PROVE  SymInv'
<1> DEFINE s == x.s
           new2 == IF parts["r16"].num THEN Null ELSE New2(P, s)
           new4 == IF parts["r32"].num THEN Null ELSE New4(P, s, new2)
           new8 == New8(P, s, new4, new2)
           a == IF parts["r16"].num THEN PutByte(parts["r16"], s, 2) ELSE parts["r16"]
           b == IF parts["r32"].num THEN PutByte(parts["r32"], s, 3) ELSE new4
           c == IF parts["r64"].num THEN PutByte(parts["r64"], s, 4) ELSE new8
<1>1. Write(P, x, ByteSeen, [parts EXCEPT ![P] = x.s, !["r16"] = a, !["r32"] = b, !["r64"] = c])
  BY DEF NumberWrite
<1>2. Sym1(s)  BY SymIs DEF Item
<1>3. "r16" \in Wide /\ "r32" \in Wide /\ "r64" \in Wide
      /\ Width["r16"] = 2 /\ Width["r32"] = 3 /\ Width["r64"] = 4
  BY WidthIs DEF Wide
<1>4. ASSUME \A R \in ByteSeen : parts[R] # Null, Record(P, x)
      PROVE  /\ Entry("r16", a, val', bent'["r16"],
                    BentUnder("r16", bent'), due'["r16"], trust'["r16"])
             /\ Entry("r32", b, val', bent'["r32"],
                    BentUnder("r32", bent'), due'["r32"], trust'["r32"])
             /\ Entry("r64", c, val', bent'["r64"],
                    BentUnder("r64", bent'), due'["r64"], trust'["r64"])
  <2>1. parts["r16"] # Null /\ parts["r32"] # Null /\ parts["r64"] # Null
    BY <1>4 DEF ByteSeen
  <2>2. Sym(2, parts["r16"]) /\ Sym(3, parts["r32"]) /\ Sym(4, parts["r64"])
    BY <1>3, <2>1, ByteIs
  <2>3. Opt2(new2)  BY <1>2, <2>1, <2>2, New2Is, SymIs DEF Opt2
  <2> HIDE DEF new2
  <2>4. /\ New4(P, s, new2) # Null /\ ~New4(P, s, new2).num
        /\ New4(P, s, new2).t = s.t \cup Own(3, parts["r32"]).t
        /\ Sym(3, New4(P, s, new2)) /\ Own(3, New4(P, s, new2)) = Own(3, parts["r32"])
    BY <1>2, <2>1, <2>2, <2>3, New4Is
  <2>5. Opt3(new4)  BY <2>4, SymIs DEF Opt3
  <2>6. Entry("r32", b, val', bent'["r32"],
                    BentUnder("r32", bent'), due'["r32"], trust'["r32"])
    <3>1. CASE parts["r32"].num  BY <1>3, <1>4, <2>1, <3>1, Merged8
    <3>2. CASE ~parts["r32"].num  BY <1>3, <1>4, <2>1, <2>4, <3>2, AboveName8
    <3> QED  BY <3>1, <3>2
  <2> HIDE DEF new4
  <2>7. /\ new8 # Null /\ ~new8.num /\ new8.t = s.t \cup Own(4, parts["r64"]).t
        /\ Sym(4, new8) /\ Own(4, new8) = Own(4, parts["r64"])
    BY <1>2, <2>1, <2>2, <2>3, <2>5, New8Is
  <2> HIDE DEF new8
  <2>8. Entry("r64", c, val', bent'["r64"],
                    BentUnder("r64", bent'), due'["r64"], trust'["r64"])
    <3>1. CASE parts["r64"].num  BY <1>3, <1>4, <2>1, <3>1, Merged8
    <3>2. CASE ~parts["r64"].num  BY <1>3, <1>4, <2>1, <2>7, <3>2, AboveName8
    <3> QED  BY <3>1, <3>2
  <2>9. Entry("r16", a, val', bent'["r16"],
                    BentUnder("r16", bent'), due'["r16"], trust'["r16"])
    <3>1. CASE parts["r16"].num  BY <1>3, <1>4, <2>1, <3>1, Merged8
    <3>2. CASE ~parts["r16"].num  BY <1>3, <1>4, <2>1, <2>2, <3>2, AboveName8
    <3> QED  BY <3>1, <3>2
  <2> QED  BY <2>6, <2>8, <2>9
<1> HIDE DEF a, b, c
<1> QED  BY <1>1, <1>4, ByteWriteKeeps

NameWrite(P, x) ==
  LET new2 == New2(P, x.s)
      new4 == New4(P, x.s, new2)
      in8 == IF P = "rh" THEN parts["r16"] ELSE new2
  IN Write(P, x, ByteSeen,
       [parts EXCEPT ![P] = x.s, !["r16"] = new2, !["r32"] = new4,
                     !["r64"] = New8(P, x.s, new4, in8)])

LEMMA NameWriteKeeps ==
  ASSUME SymInv, NEW P \in {"rh", "rl"}, P \in PartsOf(reg), NEW x, Item(1, x),
         NameWrite(P, x)
  PROVE  SymInv'
<1> DEFINE s == x.s
           new2 == New2(P, s)
           new4 == New4(P, s, new2)
           in8 == IF P = "rh" THEN parts["r16"] ELSE new2
           new8 == New8(P, s, new4, in8)
<1>1. Write(P, x, ByteSeen,
            [parts EXCEPT ![P] = x.s, !["r16"] = new2, !["r32"] = new4, !["r64"] = new8])
  BY DEF NameWrite
<1>2. Sym1(s)  BY SymIs DEF Item
<1>3. "r16" \in Wide /\ "r32" \in Wide /\ "r64" \in Wide
      /\ Width["r16"] = 2 /\ Width["r32"] = 3 /\ Width["r64"] = 4
  BY WidthIs DEF Wide
<1>4. ASSUME \A R \in ByteSeen : parts[R] # Null, Record(P, x)
      PROVE  /\ Entry("r16", new2, val', bent'["r16"],
                    BentUnder("r16", bent'), due'["r16"], trust'["r16"])
             /\ Entry("r32", new4, val', bent'["r32"],
                    BentUnder("r32", bent'), due'["r32"], trust'["r32"])
             /\ Entry("r64", new8, val', bent'["r64"],
                    BentUnder("r64", bent'), due'["r64"], trust'["r64"])
  <2>1. parts["r16"] # Null /\ parts["r32"] # Null /\ parts["r64"] # Null
    BY <1>4 DEF ByteSeen
  <2>2. Sym(2, parts["r16"]) /\ Sym(3, parts["r32"]) /\ Sym(4, parts["r64"])
    BY <1>3, <2>1, ByteIs
  <2>3. /\ ~new2.num /\ new2.t = s.t \cup Own(2, parts["r16"]).t
        /\ Sym(2, new2) /\ Own(2, new2) = Own(2, parts["r16"])
    BY <1>2, <2>1, <2>2, New2Is
  <2>4. Opt2(new2) /\ Opt2(in8)  BY <2>2, <2>3, SymIs DEF Opt2
  <2>5. Entry("r16", new2, val', bent'["r16"],
                    BentUnder("r16", bent'), due'["r16"], trust'["r16"])
    BY <1>3, <1>4, <2>1, <2>3, AboveName8
  <2> HIDE DEF new2, in8
  <2>6. /\ ~new4.num /\ new4.t = s.t \cup Own(3, parts["r32"]).t
        /\ Sym(3, new4) /\ Own(3, new4) = Own(3, parts["r32"])
    BY <1>2, <2>1, <2>2, <2>4, New4Is
  <2>7. Opt3(new4)  BY <2>6, SymIs DEF Opt3
  <2>8. Entry("r32", new4, val', bent'["r32"],
                    BentUnder("r32", bent'), due'["r32"], trust'["r32"])
    BY <1>3, <1>4, <2>1, <2>6, AboveName8
  <2> HIDE DEF new4
  <2>9. /\ ~new8.num /\ new8.t = s.t \cup Own(4, parts["r64"]).t
        /\ Sym(4, new8) /\ Own(4, new8) = Own(4, parts["r64"])
    BY <1>2, <2>1, <2>2, <2>4, <2>7, New8Is
  <2>10. Entry("r64", new8, val', bent'["r64"],
                    BentUnder("r64", bent'), due'["r64"], trust'["r64"])
    BY <1>3, <1>4, <2>1, <2>9, AboveName8
  <2> QED  BY <2>5, <2>8, <2>10
<1> HIDE DEF new2, new4, new8
<1> QED  BY <1>1, <1>4, ByteWriteKeeps

(* A step that only counts or crashes.                                     *)
LEMMA StillKeeps ==
  ASSUME SymInv, UNCHANGED <<reg, parts, mem, val, bent, due, trust>>
  PROVE  SymInv'
<1>1. /\ reg' = reg /\ parts' = parts /\ mem' = mem /\ val' = val /\ bent' = bent
      /\ due' = due /\ trust' = trust
  OBVIOUS
<1>2. ShapeInv' /\ MemInv'  BY <1>1 DEF SymInv, ShapeInv, MemInv, PartsOf
<1>3. EntryInv'  BY <1>1 DEF SymInv, EntryInv, BentUnder, PartsOf
<1> QED  BY <1>2, <1>3 DEF SymInv

(* The two kinds of case a byte has.                                       *)
LEMMA Write8HighIs ==
  ASSUME NEW x, Write8High(x)
  PROVE  \/ x.s.num /\ NumberWrite("rh", x)
         \/ MarkBeforeName(x)
         \/ NameWrite("rh", x)
<1>1. \A old : ByteHigh("rh", x.s, old) = x.s /\ ByteLow("rh", x.s, old) = old.pl
  BY DEF ByteHigh, ByteLow
<1>2. CASE x.s.num
  BY <1>1, <1>2 DEF Write8High, Write8Number, NumberWrite, New2, New4, New8, ByteSeen
<1>3. CASE ~x.s.num /\ x.s.mul  BY <1>3 DEF Write8High
<1>4. CASE ~x.s.num /\ ~x.s.mul
  BY <1>1, <1>4 DEF Write8High, Write8Name, NameWrite, New2, New4, New8, ByteSeen
<1> QED  BY <1>2, <1>3, <1>4

LEMMA Write8LowIs ==
  ASSUME NEW x, Write8Low(x)
  PROVE  \/ x.s.num /\ NumberWrite("rl", x)
         \/ NameWrite("rl", x)
<1>1. \A old : ByteHigh("rl", x.s, old) = old.ph /\ ByteLow("rl", x.s, old) = x.s
  BY DEF ByteHigh, ByteLow
<1>2. CASE x.s.num
  BY <1>1, <1>2 DEF Write8Low, Write8Number, NumberWrite, New2, New4, New8, ByteSeen
<1>3. CASE ~x.s.num
  BY <1>1, <1>3 DEF Write8Low, Write8Name, NameWrite, New2, New4, New8, ByteSeen
<1> QED  BY <1>2, <1>3

LEMMA Write8HighKeeps ==
  ASSUME SymInv, NEW x, Item(1, x), Write8High(x), "rh" \in PartsOf(reg)
  PROVE  SymInv'
<1>1. CASE x.s.num /\ NumberWrite("rh", x)  BY <1>1, NumberWriteKeeps
<1>2. CASE MarkBeforeName(x)  BY <1>2, StillKeeps DEF MarkBeforeName
<1>3. CASE NameWrite("rh", x)  BY <1>3, NameWriteKeeps
<1> QED  BY <1>1, <1>2, <1>3, Write8HighIs

LEMMA Write8LowKeeps ==
  ASSUME SymInv, NEW x, Item(1, x), Write8Low(x)
  PROVE  SymInv'
<1>1. "rl" \in PartsOf(reg)  BY PartsAre
<1>2. CASE x.s.num /\ NumberWrite("rl", x)  BY <1>1, <1>2, NumberWriteKeeps
<1>3. CASE NameWrite("rl", x)  BY <1>1, <1>3, NameWriteKeeps
<1> QED  BY <1>2, <1>3, Write8LowIs
-----------------------------------------------------------------------------
(* An operand, and what is kept of it in memory.                           *)
LEMMA OperandKeeps ==
  ASSUME SymInv, NEW P \in DOMAIN parts, SetMemory(P)
  PROVE  SymInv'
<1> DEFINE s == Operand(P)
           w == Width[P]
           d == [i \in 1 .. w |-> IF s.num THEN s.n[i]
                                  ELSE val[IF P = "rh" THEN 2 ELSE i]]
           W == IF s.num THEN Wrong(s) ELSE UNION {bent[Q] : Q \in Below(P)}
           D == IF s.num THEN Only({}) ELSE due[P]
           k == IF s.num THEN 2 ELSE trust[P]
           m == [s |-> s, d |-> d, wrong |-> W, due |-> D, trust |-> k]
<1>1. /\ parts' = [parts EXCEPT ![P] = s] /\ mem' = {m}
      /\ reg' = reg /\ val' = val /\ bent' = bent /\ due' = due /\ trust' = trust
  BY DEF SetMemory
<1>2. /\ ShapeInv /\ EntryInv /\ P \in PartsOf(reg) /\ P \in Names /\ w \in 1 .. 4
      /\ (P = "rh" => w = 1) /\ DOMAIN parts = PartsOf(reg)
  BY PartsAre, WidthIs DEF SymInv, ShapeInv
<1>3. /\ Entry(P, parts[P], val, bent[P], BentUnder(P, bent), due[P], trust[P])
      /\ trust[P] \in 0 .. 2
  BY <1>2 DEF EntryInv, ShapeInv
<1>4. s # Null /\ Sym(w, s) /\ (parts[P] = Null => ~s.num /\ trust[P] = 0)
      /\ (parts[P] # Null => s = parts[P])
  BY <1>2, <1>3, WholeSym DEF Operand, Entry
<1> HIDE DEF s
<1>5. Entry(P, s, val, bent[P], BentUnder(P, bent), due[P], trust[P])
  <2>1. CASE parts[P] = Null  BY <1>4, <2>1 DEF Entry
  <2>2. CASE parts[P] # Null  BY <1>3, <1>4, <2>2
  <2> QED  BY <2>1, <2>2
<1>6. s.num => s.n \in [1 .. 4 -> Digit]  BY <1>2, <1>4, NumberOf
<1>7. ~s.num => W = BentUnder(P, bent)  BY <1>2, Nested DEF BentUnder
<1>8. /\ d \in [1 .. w -> 0 .. 4]
      /\ s.num => \A i \in 1 .. w : s.n[i] = d[i]
      /\ ~s.num => \A i \in 1 .. w : At(P, val)[i] = d[i]
  <2>1. \A i \in 1 .. w : d[i] = IF s.num THEN s.n[i] ELSE At(P, val)[i]
    <3> TAKE i \in 1 .. w
    <3>1. d[i] = IF s.num THEN s.n[i] ELSE val[IF P = "rh" THEN 2 ELSE i]  OBVIOUS
    <3>2. P = "rh" => i = 1  BY <1>2
    <3> HIDE DEF d, w
    <3> QED  BY <3>1, <3>2, AtIs
  <2>2. \A i \in 1 .. w : i \in 1 .. 4  BY <1>2
  <2>3. \A i \in 1 .. w : d[i] \in 0 .. 4
    <3> TAKE i \in 1 .. w
    <3>1. CASE s.num  BY <1>6, <2>2, <3>1 DEF Digit
    <3>2. CASE ~s.num
      <4>1. d[i] = val[IF P = "rh" THEN 2 ELSE i]  BY <3>2
      <4>2. \A j \in 1 .. 4 : val[j] \in 0 .. 4  BY <1>2 DEF ShapeInv
      <4> HIDE DEF d, w
      <4> QED  BY <2>2, <4>1, <4>2
    <3> QED  BY <3>1, <3>2
  <2>4. DOMAIN d = 1 .. w /\ d = [i \in 1 .. w |-> d[i]]  OBVIOUS
  <2> HIDE DEF d, w
  <2> QED  BY <2>1, <2>3, <2>4
<1>9. /\ m.s = s /\ m.d = d /\ m.wrong = W /\ m.due = D /\ m.trust = k
      /\ DOMAIN m = {"s", "d", "wrong", "due", "trust"}
  OBVIOUS
<1> HIDE DEF m, d, w, W
<1>10. Item(w, m)
  <2>1. CASE s.num
    <3>1. D = Only({}) /\ k = 2 /\ W = Wrong(s)  BY <2>1 DEF W
    <3>2. Carries(w, s, D) /\ All(D) = {}  BY <2>1, <3>1, AllOnly DEF Carries
    <3> HIDE DEF D, k
    <3> QED  BY <1>4, <1>8, <1>9, <2>1, <3>1, <3>2 DEF Item
  <2>2. CASE ~s.num
    <3>1. D = due[P] /\ k = trust[P]  BY <2>2
    <3>2. k > 0 => Carries(w, s, D)  BY <1>4, <1>5, <3>1 DEF Entry, w
    <3>3. k = 2 => Good(w, s, d, All(D), W)
      <4>1. k = 2 => Good(w, s, At(P, val), All(D), W)
        BY <1>5, <1>7, <2>2, <3>1 DEF Entry, w
      <4>2. \A i \in 1 .. w : At(P, val)[i] = d[i]  BY <1>8, <2>2
      <4> HIDE DEF D, k
      <4> QED  BY <1>2, <4>1, <4>2, GoodSame
    <3>4. k \in 0 .. 2  BY <1>3, <3>1
    <3> HIDE DEF D, k
    <3> QED  BY <1>4, <1>8, <1>9, <2>2, <3>2, <3>3, <3>4 DEF Item
  <2> QED  BY <2>1, <2>2
<1>11. MemInv'  BY <1>1, <1>2, <1>10 DEF MemInv
<1>12. ShapeInv'
  <2>1. DOMAIN parts' = DOMAIN parts  BY <1>1
  <2> QED  BY <1>1, <1>2, <2>1 DEF ShapeInv, PartsOf
<1>13. EntryInv'
  <2>1. \A Q \in PartsOf(reg) :
          Entry(Q, parts'[Q], val, bent[Q], BentUnder(Q, bent), due[Q], trust[Q])
    <3> TAKE Q \in PartsOf(reg)
    <3>1. parts'[Q] = IF Q = P THEN s ELSE parts[Q]  BY <1>1, <1>2
    <3>2. Entry(Q, parts[Q], val, bent[Q], BentUnder(Q, bent), due[Q], trust[Q])
      BY <1>2 DEF EntryInv
    <3> QED  BY <1>5, <3>1, <3>2
  <2> QED  BY <1>1, <2>1 DEF EntryInv, BentUnder, PartsOf
<1> QED  BY <1>11, <1>12, <1>13 DEF SymInv
-----------------------------------------------------------------------------
(* The invariant.                                                          *)
LEMMA InitGood == SymInit => SymInv
<1> SUFFICES ASSUME SymInit PROVE SymInv  OBVIOUS
<1>1. /\ reg \in Registers /\ mem = {} /\ bent = [P \in PartsOf(reg) |-> {}]
      /\ due = [P \in PartsOf(reg) |-> Only({})] /\ trust = [P \in PartsOf(reg) |-> 2]
  BY DEF SymInit
<1>2. MemInv  BY <1>1 DEF MemInv
<1>3. \A P \in PartsOf(reg) :
        P \in Names /\ Width[P] \in 1 .. 4 /\ (P = "rh" => Width[P] = 1)
        /\ due[P] = Only({}) /\ All(due[P]) = {} /\ trust[P] = 2 /\ bent[P] = {}
  BY <1>1, PartsAre, WidthIs, AllOnly
<1>4. CASE init_state_machine
  <2>1. /\ parts = [P \in PartsOf(reg) |->
                      Number([i \in 1 .. 4 |-> IF i <= Width[P] THEN val[i] ELSE 0])]
        /\ val \in {[i \in 1 .. 4 |-> 0], [i \in 1 .. 4 |-> 2]}
    BY <1>4 DEF init_state_machine
  <2>2. /\ val \in [1 .. 4 -> 0 .. 4] /\ val[1] = val[2]
        /\ \A i \in 1 .. 4 : val[i] \in Digit
    BY <2>1 DEF Digit
  <2>3. ShapeInv  BY <1>1, <2>1, <2>2 DEF ShapeInv
  <2>4. ASSUME NEW P \in PartsOf(reg)
        PROVE  Entry(P, parts[P], val, bent[P], BentUnder(P, bent), due[P], trust[P])
    <3> DEFINE w == Width[P]
               n == [i \in 1 .. 4 |-> IF i <= w THEN val[i] ELSE 0]
    <3>1. w \in 1 .. 4 /\ P \in Names /\ parts[P] = Number(n) /\ (P = "rh" => w = 1)
      BY <1>3, <2>1, <2>4
    <3> HIDE DEF w
    <3>2. n \in [1 .. 4 -> Digit]  BY <2>2 DEF Digit
    <3>3. \A i \in 1 .. w : n[i] = val[i]  BY <3>1
    <3> HIDE DEF n
    <3>4. \A i \in 1 .. w : n[i] = At(P, val)[i]
      <4> TAKE i \in 1 .. w
      <4>1. CASE P = "rh"
        <5>1. i = 1  BY <3>1, <4>1
        <5> QED  BY <2>2, <3>3, <4>1, <5>1, AtIs
      <4>2. CASE P # "rh"  BY <3>3, <4>2, AtIs
      <4> QED  BY <4>1, <4>2
    <3>5. Entry(P, Number(n), val, bent[P], BentUnder(P, bent), due[P], trust[P])
      BY <1>3, <3>1, <3>2, <3>4, NumberEntry DEF w
    <3> QED  BY <3>1, <3>5
  <2> QED  BY <1>2, <2>3, <2>4 DEF SymInv, EntryInv
<1>5. CASE init_state_machine_symbol
  <2>1. /\ parts = [P \in PartsOf(reg) |-> Whole({})[Width[P]]]
        /\ val = [i \in 1 .. 4 |-> Unknown]
    BY <1>5 DEF init_state_machine_symbol
  <2>2. ShapeInv  BY <1>1, <2>1 DEF ShapeInv, Unknown
  <2>3. ASSUME NEW P \in PartsOf(reg)
        PROVE  Entry(P, parts[P], val, bent[P], BentUnder(P, bent), due[P], trust[P])
    <3> DEFINE s == Whole({})[Width[P]]
    <3>1. /\ parts[P] = s /\ s # Null /\ ~s.num /\ s.t = {} /\ Sym(Width[P], s)
          /\ \A d, W : Good(Width[P], s, d, {}, W)
      BY <1>3, <2>1, <2>3, WholeSym
    <3> HIDE DEF s
    <3>2. All(due[P]) = {} /\ due[P].wide = {}  BY <1>3, <2>3, AllOnly
    <3>3. P \in Names /\ Width[P] \in 1 .. 4  BY <1>3, <2>3
    <3>4. Entry(P, s, val, bent[P], BentUnder(P, bent), due[P], trust[P])
      BY <3>1, <3>2, <3>3, NameEntry
    <3> QED  BY <3>1, <3>4
  <2> QED  BY <1>2, <2>2, <2>3 DEF SymInv, EntryInv
<1> QED  BY <1>4, <1>5 DEF SymInit

(* The cases of set_target_symbol, and the operands.                       *)
LEMMA Set64Keeps == SymInv /\ Set64 => SymInv'
<1> SUFFICES ASSUME SymInv, Set64 PROVE SymInv'  OBVIOUS
<1>1. PICK x \in Sources(4) : Write64(x)
  BY DEF Set64, SetRAX, SetRCX, SetRDX, SetRBX, SetRSI, SetRDI, SetRSP, SetRBP, SetR8, SetR9,
         SetR10, SetR11, SetR12, SetR13, SetR14, SetR15
<1>2. 4 \in 1 .. 4 /\ MemInv  BY DEF SymInv
<1>3. Item(4, x)  BY <1>2, SourceIsItem
<1> QED  BY <1>1, <1>3, Write64Keeps

LEMMA Set32Keeps == SymInv /\ Set32 => SymInv'
<1> SUFFICES ASSUME SymInv, Set32 PROVE SymInv'  OBVIOUS
<1>1. PICK x \in Sources(3) : Write32(x) \/ Write32Keep(x)
  BY DEF Set32, SetEAX, SetECX, SetEDX, SetEBX, SetESI, SetEDI, SetEBP, SetESP, SetR8D, SetR9D,
         SetR10D, SetR11D, SetR12D, SetR13D, SetR14D, SetR15D
<1>2. 3 \in 1 .. 4 /\ MemInv  BY DEF SymInv
<1>3. Item(3, x)  BY <1>2, SourceIsItem
<1>4. CASE Write32With(x, FALSE)  BY <1>3, <1>4, Write32Keeps
<1>5. CASE Write32With(x, TRUE)  BY <1>3, <1>5, Write32Keeps
<1> QED  BY <1>1, <1>4, <1>5 DEF Write32, Write32Keep

LEMMA Set16Keeps == SymInv /\ Set16 => SymInv'
<1> SUFFICES ASSUME SymInv, Set16 PROVE SymInv'  OBVIOUS
<1>1. PICK x \in Sources(2) : Write16(x)
  BY DEF Set16, SetAX, SetCX, SetDX, SetBX, SetSI, SetDI, SetSP, SetBP, SetR8W, SetR9W,
         SetR10W, SetR11W, SetR12W, SetR13W, SetR14W, SetR15W
<1>2. 2 \in 1 .. 4 /\ MemInv  BY DEF SymInv
<1>3. Item(2, x)  BY <1>2, SourceIsItem
<1> QED  BY <1>1, <1>3, Write16Keeps

LEMMA SetHighKeeps == SymInv /\ SetHigh => SymInv'
<1> SUFFICES ASSUME SymInv, SetHigh PROVE SymInv'  OBVIOUS
<1>1. PICK x \in Sources(1) : Write8High(x) /\ reg \in HighByte
  BY DEF SetHigh, SetAH, SetCH, SetDH, SetBH, HighByte
<1>2. 1 \in 1 .. 4 /\ MemInv  BY DEF SymInv
<1>3. Item(1, x)  BY <1>2, SourceIsItem
<1> QED  BY <1>1, <1>3, PartsAre, Write8HighKeeps

LEMMA Set8Keeps == SymInv /\ Set8 => SymInv'
<1> SUFFICES ASSUME SymInv, Set8 PROVE SymInv'  OBVIOUS
<1>1. PICK x \in Sources(1) : Write8Low(x)
  BY DEF Set8, SetAL, SetCL, SetDL, SetBL, SetSIL, SetDIL, SetSPL, SetBPL, SetR8B, SetR9B,
         SetR10B, SetR11B, SetR12B, SetR13B, SetR14B, SetR15B
<1>2. 1 \in 1 .. 4 /\ MemInv  BY DEF SymInv
<1>3. Item(1, x)  BY <1>2, SourceIsItem
<1> QED  BY <1>1, <1>3, Write8LowKeeps

(* The invariant holds of every run of instructions that write a register, *)
(* whatever the registers, the taints and the number of writes.            *)
THEOREM SymInvariant == SymSpec => []SymInv
<1>1. SymInv /\ [SymNext]_symVars => SymInv'
  <2> SUFFICES ASSUME SymInv, [SymNext]_symVars PROVE SymInv'  OBVIOUS
  <2>1. CASE Set64  BY <2>1, Set64Keeps
  <2>2. CASE Set32  BY <2>2, Set32Keeps
  <2>3. CASE Set16  BY <2>3, Set16Keeps
  <2>4. CASE SetHigh  BY <2>4, SetHighKeeps
  <2>5. CASE Set8  BY <2>5, Set8Keeps
  <2>6. CASE \E P \in DOMAIN parts : SetMemory(P)  BY <2>6, OperandKeeps
  <2>7. CASE UNCHANGED symVars  BY <2>7, StillKeeps DEF symVars
  <2> QED  BY <2>1, <2>2, <2>3, <2>4, <2>5, <2>6, <2>7 DEF SymNext
<1> QED  BY <1>1, InitGood, PTL DEF SymSpec

LEMMA InvNumbers == SymInv => NumbersAreTrue
<1> SUFFICES ASSUME SymInv, NEW P \in DOMAIN parts,
                    trust[P] > 0, parts[P] # Null, parts[P].num,
                    NEW i \in Digits[P] \ bent[P]
    PROVE  parts[P].n[IF P = "rh" THEN 1 ELSE i] = val[i]
  BY DEF NumbersAreTrue
<1>1. P \in PartsOf(reg) /\ P \in Names  BY PartsAre DEF SymInv, ShapeInv
<1>2. \A j \in (1 .. Width[P]) \ Bent(P, bent[P]) : parts[P].n[j] = At(P, val)[j]
  BY <1>1 DEF SymInv, EntryInv, Entry
<1>3. CASE P = "rh"
  <2>1. i = 2  BY <1>3, DigitsAre
  <2>2. 1 \in (1 .. Width[P]) \ Bent(P, bent[P])  BY <1>3, <2>1, WidthIs DEF Bent
  <2> QED  BY <1>2, <1>3, <2>1, <2>2, AtIs
<1>4. CASE P # "rh"
  <2>1. i \in 1 .. Width[P]  BY <1>1, <1>4, WidthIs, DigitsAre
  <2>2. At(P, val) = val /\ Bent(P, bent[P]) = bent[P]  BY <1>4 DEF At, Bent
  <2> QED  BY <1>2, <1>4, <2>1, <2>2
<1> QED  BY <1>3, <1>4

(* A number kept for a part of a register is what the register holds there,*)
(* but for the digits the code is known to get wrong: those converted from *)
(* a number of 2^63 or more, the second byte after a number to the low one,*)
(* and bits 32-63 after a 32-bit write.                                    *)
THEOREM NumbersAreRight == SymSpec => []NumbersAreTrue
BY SymInvariant, InvNumbers, PTL

LEMMA InvTaint == SymInv => TaintKept
BY DEF SymInv, ShapeInv, EntryInv, Entry, Carries, All, TaintKept

(* A name kept for a part carries the taints of what was last written to it*)
(* or into it, as long as no entry that has a part in it came from an old  *)
(* symbol or from a result made without its parts.                         *)
THEOREM TaintIsKept == SymSpec => []TaintKept
BY SymInvariant, InvTaint, PTL

LEMMA InvHoles == SymInv => HolesAreKnown
<1> SUFFICES ASSUME SymInv PROVE HolesAreKnown  OBVIOUS
<1>1. \A P \in DOMAIN parts : parts[P] = Null => trust[P] = 0 /\ P # "r64"
  BY DEF SymInv, ShapeInv, EntryInv, Entry
<1>2. "r64" \in DOMAIN parts  BY PartsAre DEF SymInv, ShapeInv
<1> QED  BY <1>1, <1>2 DEF HolesAreKnown

(* An entry is null only after a symbol came back whose parts were written *)
(* since it was saved, or after an instruction that makes a result without *)
(* all of its parts.                                                       *)
THEOREM HolesHaveCause == SymSpec => []HolesAreKnown
BY SymInvariant, InvHoles, PTL
=============================================================================
