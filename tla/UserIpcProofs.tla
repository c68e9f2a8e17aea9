---------------------------- MODULE UserIpcProofs ----------------------------
(***************************************************************************)
(* Proofs about UserIpc, for any number of processes, any plan and any      *)
(* number of calls: the run queue stays well formed, a request is received   *)
(* at most once, a lone caller gets its own replies, its request is lost    *)
(* only with a receiver, and a blocked waiter is registered.                *)
(***************************************************************************)
EXTENDS UserIpc, TLAPS

-----------------------------------------------------------------------------
(* The run queue.                                                          *)

Tasks == Procs \cup {Boot}

(* The queue q holds the tasks of S, each once.                             *)
Holds(q, S) ==
  /\ q \in Seq(Tasks)
  /\ \A i, j \in DOMAIN q : q[i] = q[j] => i = j
  /\ \A x \in Tasks : x \in S <=> \E i \in DOMAIN q : q[i] = x

LEMMA TailFacts ==
  ASSUME NEW q \in Seq(Tasks), q # <<>>
  PROVE  /\ Len(q) \in Nat \ {0} /\ Head(q) = q[1] /\ Head(q) \in Tasks
         /\ Tail(q) \in Seq(Tasks) /\ Len(Tail(q)) = Len(q) - 1
         /\ \A i \in 1 .. Len(q) - 1 : Tail(q)[i] = q[i + 1]
OBVIOUS

(* retire: the running task leaves for good.                               *)
LEMMA TailHolds ==
  ASSUME NEW q, NEW S, Holds(q, S), q # <<>>
  PROVE  Holds(Tail(q), S \ {Head(q)})
<1> DEFINE r == Tail(q)
           n == Len(q)
<1>1. /\ n \in Nat \ {0} /\ Head(q) = q[1] /\ r \in Seq(Tasks) /\ Len(r) = n - 1
      /\ DOMAIN q = 1 .. n /\ DOMAIN r = 1 .. n - 1
      /\ \A i \in 1 .. n - 1 : r[i] = q[i + 1]
  BY TailFacts DEF Holds
<1> HIDE DEF r, n
<1>2. ASSUME NEW i \in DOMAIN r, NEW j \in DOMAIN r, r[i] = r[j] PROVE i = j
  <2>1. i + 1 \in DOMAIN q /\ j + 1 \in DOMAIN q /\ q[i + 1] = q[j + 1]
    BY <1>1, <1>2
  <2>2. i + 1 = j + 1
    BY Zenon, <2>1 DEF Holds
  <2>3. QED
    BY <1>1, <2>2
<1>3. ASSUME NEW x \in Tasks
      PROVE  x \in S \ {q[1]} <=> \E i \in DOMAIN r : r[i] = x
  <2>1. ASSUME NEW i \in 1 .. n, q[i] = x, x # q[1] PROVE \E k \in DOMAIN r : r[k] = x
    <3>1. i - 1 \in 1 .. n - 1 /\ r[i - 1] = q[i]
      BY <2>1, <1>1
    <3>2. QED
      BY Zenon, <3>1, <2>1, <1>1
  <2>2. ASSUME NEW i \in 1 .. n - 1, r[i] = x PROVE x # q[1] /\ \E k \in DOMAIN q : q[k] = x
    <3>1. q[i + 1] = x /\ i + 1 \in 1 .. n /\ i + 1 # 1 /\ 1 \in 1 .. n
      BY <2>2, <1>1
    <3>2. QED
      BY Zenon, <3>1, <1>1 DEF Holds
  <2>3. QED
    BY Zenon, <2>1, <2>2, <1>1 DEF Holds
<1>4. QED
  BY Zenon, <1>1, <1>2, <1>3 DEF Holds, r

(* A task enters the queue at its end: a spawn, and the end of a rotation.  *)
LEMMA AppendHolds ==
  ASSUME NEW q, NEW S, Holds(q, S), NEW x \in Tasks, x \notin S
  PROVE  Holds(Append(q, x), S \cup {x})
<1> DEFINE r == Append(q, x)
           n == Len(q)
<1>1. /\ n \in Nat /\ r \in Seq(Tasks) /\ DOMAIN q = 1 .. n /\ DOMAIN r = 1 .. n + 1
      /\ \A i \in 1 .. n : r[i] = q[i]
      /\ r[n + 1] = x
  BY DEF Holds
<1> HIDE DEF r, n
<1>2. \A i \in 1 .. n : q[i] # x
  BY Zenon, <1>1 DEF Holds
<1>3. \A i \in 1 .. n + 1 : i \in 1 .. n \/ i = n + 1
  BY <1>1
<1>4. \A i, j \in DOMAIN r : r[i] = r[j] => i = j
  BY Zenon, <1>1, <1>2, <1>3 DEF Holds
<1>5. \A y \in Tasks : y \in S \cup {x} <=> \E i \in DOMAIN r : r[i] = y
  <2>1. \A y \in Tasks : y \in S <=> \E i \in 1 .. n : r[i] = y
    BY Zenon, <1>1 DEF Holds
  <2>2. n + 1 \in 1 .. n + 1 /\ 1 .. n \subseteq 1 .. n + 1
    BY <1>1
  <2>3. QED
    BY Zenon, <1>1, <1>3, <2>1, <2>2
<1>6. QED
  BY Zenon, <1>1, <1>4, <1>5 DEF Holds, r

(* A yield.                                                                *)
LEMMA RotateHolds ==
  ASSUME NEW q, NEW S, Holds(q, S), q # <<>>
  PROVE  Holds(Tail(q) \o <<Head(q)>>, S)
<1>1. q \in Seq(Tasks) /\ Head(q) \in Tasks /\ Tail(q) \in Seq(Tasks)
  BY Zenon, TailFacts DEF Holds
<1>2. Tail(q) \o <<Head(q)>> = Append(Tail(q), Head(q))
  BY <1>1
<1>3. Holds(Append(Tail(q), Head(q)), (S \ {Head(q)}) \cup {Head(q)})
  BY Zenon, <1>1, TailHolds, AppendHolds
<1>4. Head(q) \in S
  BY <1>1, TailFacts DEF Holds
<1>5. (S \ {Head(q)}) \cup {Head(q)} = S
  BY Zenon, <1>4
<1>6. QED
  BY Zenon, <1>2, <1>3, <1>5

(* The restart: the boot task, which is running, spawns and yields.         *)
LEMMA SpawnHolds ==
  ASSUME NEW q, NEW S, Holds(q, S), q # <<>>, NEW x \in Tasks, x \notin S
  PROVE  Holds(Tail(q) \o <<x, Head(q)>>, S \cup {x})
<1> DEFINE h == Head(q)
<1>1. q \in Seq(Tasks) /\ h \in Tasks /\ Tail(q) \in Seq(Tasks)
  BY Zenon, TailFacts DEF Holds
<1>2. h \in S /\ x # h
  BY <1>1, TailFacts DEF Holds
<1> HIDE DEF h
<1>3. Tail(q) \o <<x, h>> = Append(Append(Tail(q), x), h)
  BY <1>1
<1>4. Holds(Tail(q), S \ {h})
  BY Zenon, TailHolds DEF h
<1>5. Holds(Append(Tail(q), x), (S \ {h}) \cup {x})
  BY Zenon, <1>4, AppendHolds
<1>6. Holds(Append(Append(Tail(q), x), h), ((S \ {h}) \cup {x}) \cup {h})
  BY Zenon, <1>1, <1>2, <1>5, AppendHolds
<1>7. ((S \ {h}) \cup {x}) \cup {h} = S \cup {x}
  BY Zenon, <1>2
<1>8. QED
  BY Zenon, <1>3, <1>6, <1>7 DEF h

-----------------------------------------------------------------------------
(* The inductive invariant.                                                *)

Live == {p \in Procs : pc[p] # "dead"} \cup {Boot}

Out == {p \in Procs : reply[p] # None}

(* The data are typed, a task is done when it is dead, and a process is     *)
(* blocked only in a call it has the right to make.                         *)
DataOK ==
  /\ plan \in Plans
  /\ pc \in [Procs -> {"enter", "user", "call", "recv", "wait", "dead"}]
  /\ rdv \in [caller: Procs \cup {None}, msg: Tickets, reply: Tickets]
  /\ notify \in [signaled: BOOLEAN, waiter: Procs \cup {None}]
  /\ reply \in [Procs -> Procs \cup {None}]
  /\ done \in [Procs -> BOOLEAN] /\ exit \in [Procs -> {"ok", "killed"}]
  /\ phase \in {"drive", "over", "halted"}
  /\ restarted \in BOOLEAN /\ signalled \in BOOLEAN
  /\ sent \in [Procs -> 0 .. MaxCalls]
  /\ served \in [Procs -> Tickets] /\ got \in [Procs -> Tickets]

StateInv ==
  /\ DataOK
  /\ Holds(queue, Live)
  /\ \A p \in Procs : /\ done[p] <=> pc[p] = "dead"
                      /\ pc[p] = "call" => sent[p] > 0
                      /\ pc[p] = "recv" => "RECV" \in Held[p]
                      /\ pc[p] = "wait" => "WAIT" \in Held[p]

(* A Reply capability is for a call that its caller has made, and no two    *)
(* are for the same one; a request on offer is the latest call of a process  *)
(* that is blocked in it and nobody has received it.                        *)
RequestInv ==
  /\ rdv.caller # None =>
       /\ pc[rdv.caller] = "call"
       /\ rdv.msg = <<rdv.caller, sent[rdv.caller]>>
       /\ \A p \in Out : served[p] # rdv.msg
  /\ \A p \in Out : \E n \in 0 .. sent[reply[p]] : served[p] = <<reply[p], n>>
  /\ \A p, q \in Out : served[p] = served[q] => p = q

(* With one process calling, its current call is on offer, received, or     *)
(* answered, never two of these; outside a call nothing is left of it.      *)
CallerInv ==
  OneCaller =>
    /\ AnswersOwn
    /\ \A p \in Out :
         /\ pc[reply[p]] = "call" /\ served[p] = <<reply[p], sent[reply[p]]>>
         /\ rdv.caller = None /\ rdv.reply = NoTicket
    /\ rdv.reply # NoTicket =>
         /\ rdv.caller = None
         /\ \E c \in Procs : pc[c] = "call" /\ rdv.reply = <<c, sent[c]>>

IpcInv == StateInv /\ RequestInv /\ CallerInv /\ RequestNotLost

-----------------------------------------------------------------------------
(* Facts about a state.                                                    *)

LEMMA TicketFacts ==
  ASSUME NEW p \in Procs, NEW n
  PROVE  <<p, n>> # NoTicket
BY Zenon, UserIpcAssumption DEF NoTicket

LEMMA PlanFacts ==
  ASSUME plan \in Plans
  PROVE  MaxCalls \in Nat /\ Supervised \subseteq Procs
BY Zenon, UserIpcAssumption DEF MaxCalls, Supervised

(* The boot task is always in the queue, so somebody runs, and not a dead   *)
(* process.                                                                *)
LEMMA RunningFacts ==
  ASSUME StateInv
  PROVE  queue # <<>> /\ Running \in Live /\ Running \in Tasks
<1>1. \E i \in DOMAIN queue : queue[i] = Boot
  BY Zenon DEF StateInv, Holds, Live, Tasks
<1>2. queue # <<>> /\ queue \in Seq(Tasks)
  BY <1>1 DEF StateInv, Holds
<1>3. Head(queue) = queue[1] /\ 1 \in DOMAIN queue /\ Head(queue) \in Tasks
  BY <1>2, TailFacts
<1>4. QED
  BY Zenon, <1>2, <1>3 DEF Running, StateInv, Holds

(* Which tasks are live, after a step that changes the place of one.        *)
LEMMA LiveFacts ==
  ASSUME StateInv, NEW p \in Procs, NEW where,
         pc' = [pc EXCEPT ![p] = where]
  PROVE  /\ pc[p] # "dead" /\ where # "dead" => Live' = Live
         /\ where = "dead" => Live' = Live \ {p}
         /\ where # "dead" => Live' = Live \cup {p}
BY UserIpcAssumption DEF Live, StateInv, DataOK

(* The queue after a step that keeps it, rotates it, or takes the running    *)
(* task out of it.                                                         *)
LEMMA QueueSteps ==
  ASSUME StateInv,
         \/ UNCHANGED queue /\ Live' = Live
         \/ Rotate /\ Live' = Live
         \/ queue' = Tail(queue) /\ Live' = Live \ {Running}
  PROVE  Holds(queue, Live)'
<1>1. Holds(queue, Live) /\ queue # <<>>
  BY Zenon, RunningFacts DEF StateInv
<1>2. CASE UNCHANGED queue /\ Live' = Live
  BY Zenon, <1>1, <1>2 DEF Holds
<1>3. CASE Rotate /\ Live' = Live
  <2>1. Holds(queue', Live)
    BY Zenon, <1>1, <1>3, RotateHolds DEF Rotate, Running
  <2>2. QED
    BY Zenon, <2>1, <1>3 DEF Holds
<1>4. CASE queue' = Tail(queue) /\ Live' = Live \ {Running}
  <2>1. Holds(queue', Live \ {Running})
    BY Zenon, <1>1, <1>4, TailHolds DEF Running
  <2>2. QED
    BY Zenon, <2>1, <1>4 DEF Holds
<1>5. QED
  BY Zenon, <1>2, <1>3, <1>4

(* A step that neither touches the Endpoint nor begins or ends a call.      *)
LEMMA IpcSame ==
  ASSUME IpcInv, UNCHANGED ipc, UNCHANGED plan,
         \A p \in Procs : pc'[p] = "call" <=> pc[p] = "call",
         UNCHANGED restarted, \A p \in Procs : done[p] => done'[p]
  PROVE  RequestInv' /\ CallerInv' /\ RequestNotLost'
<1> USE DEF ipc
<1>1. RequestInv'
  BY DEF IpcInv, StateInv, DataOK, RequestInv, Out
<1>2. CallerInv'
  BY DEF IpcInv, StateInv, DataOK, CallerInv, Out, OneCaller, AnswersOwn
<1>3. RequestNotLost'
  BY Zenon DEF IpcInv, RequestNotLost, OneCaller, Held
<1>4. QED
  BY Zenon, <1>1, <1>2, <1>3

-----------------------------------------------------------------------------
(* Steps that leave the Endpoint alone.                                     *)

(* A process moves from one place to another without touching the Endpoint, *)
(* and keeps the CPU or yields it.                                         *)
LEMMA MoveKeeps ==
  ASSUME IpcInv, NEW p \in Procs, Running = p,
         NEW where \in {"user", "recv", "wait"},
         pc' = [pc EXCEPT ![p] = where], pc[p] # "call",
         UNCHANGED queue \/ Rotate,
         where = "recv" => "RECV" \in Held[p],
         where = "wait" => "WAIT" \in Held[p],
         notify' \in [signaled: BOOLEAN, waiter: Procs \cup {None}],
         UNCHANGED <<ipc, done, exit, loop>>
  PROVE  IpcInv'
<1> USE DEF ipc, loop
<1>1. pc \in [Procs -> {"enter", "user", "call", "recv", "wait", "dead"}] /\ StateInv
  BY Zenon DEF IpcInv, StateInv, DataOK
<1>2. pc[p] # "dead"
  BY Zenon, <1>1, RunningFacts, UserIpcAssumption DEF Live
<1>3. Holds(queue, Live)'
  BY Zenon, <1>1, <1>2, LiveFacts, QueueSteps
<1>4. DataOK'
  BY Zenon, <1>1 DEF StateInv, DataOK, Tickets, MaxCalls
<1>5. StateInv'
  BY Zenon, <1>1, <1>2, <1>3, <1>4 DEF StateInv, Held
<1>6. RequestInv' /\ CallerInv' /\ RequestNotLost'
  BY Zenon, <1>1, IpcSame
<1>7. QED
  BY Zenon, <1>5, <1>6 DEF IpcInv

(* The end of a process: it was running, not blocked in a call.             *)
LEMMA RetireKeeps ==
  ASSUME IpcInv, NEW p \in Procs, Running = p, NEW code \in {"ok", "killed"},
         Retire(p, code), pc[p] # "call", UNCHANGED <<ipc, notify, loop>>
  PROVE  IpcInv'
<1> USE DEF ipc, loop
<1>1. pc \in [Procs -> {"enter", "user", "call", "recv", "wait", "dead"}] /\ StateInv
  BY Zenon DEF IpcInv, StateInv, DataOK
<1>2. pc' = [pc EXCEPT ![p] = "dead"] /\ queue' = Tail(queue)
  BY Zenon DEF Retire
<1>3. Holds(queue, Live)'
  BY Zenon, <1>1, <1>2, LiveFacts, QueueSteps
<1>4. /\ done' \in [Procs -> BOOLEAN] /\ exit' \in [Procs -> {"ok", "killed"}]
      /\ done'[p] = TRUE /\ \A q \in Procs : q # p => done'[q] = done[q]
  BY Zenon, <1>1 DEF StateInv, DataOK, Retire
<1>5. DataOK'
  BY Zenon, <1>1, <1>2, <1>4 DEF StateInv, DataOK, Tickets, MaxCalls
<1>6. StateInv'
  BY Zenon, <1>1, <1>2, <1>3, <1>4, <1>5 DEF StateInv, Held
<1>7. RequestInv' /\ CallerInv' /\ RequestNotLost'
  BY Zenon, <1>1, <1>2, <1>4, IpcSame
<1>8. QED
  BY Zenon, <1>6, <1>7 DEF IpcInv

(* A yield, a signal, and the boot task's loop.                             *)
LEMMA YieldKeeps ==
  ASSUME IpcInv, UNCHANGED queue \/ Rotate,
         notify' \in [signaled: BOOLEAN, waiter: Procs \cup {None}],
         phase' \in {"drive", "over", "halted"}, signalled' \in BOOLEAN,
         UNCHANGED <<plan, pc, ipc, done, exit, restarted>>
  PROVE  IpcInv'
<1> USE DEF ipc
<1>1. StateInv /\ Live' = Live
  BY Zenon DEF IpcInv, Live
<1>2. Holds(queue, Live)'
  BY Zenon, <1>1, QueueSteps
<1>3. DataOK'
  BY Zenon, <1>1 DEF StateInv, DataOK, Tickets, MaxCalls
<1>4. StateInv'
  BY Zenon, <1>1, <1>2, <1>3 DEF StateInv, Held
<1>5. RequestInv' /\ CallerInv' /\ RequestNotLost'
  BY Zenon, IpcSame
<1>6. QED
  BY Zenon, <1>4, <1>5 DEF IpcInv

LEMMA PlainSteps ==
  ASSUME IpcInv, NEW p \in Procs,
         \/ EnterUser(p) \/ Preempt(p) \/ RecvBlock(p) \/ WaitTake(p) \/ WaitBlock(p)
         \/ WaitReturn(p) \/ Signal(p) \/ Poll(p) \/ Exit(p) \/ Killed(p)
  PROVE  IpcInv'
<1>1. /\ notify \in [signaled: BOOLEAN, waiter: Procs \cup {None}]
      /\ phase \in {"drive", "over", "halted"} /\ signalled \in BOOLEAN
  BY Zenon DEF IpcInv, StateInv, DataOK
<1>2. CASE EnterUser(p)
  BY Zenon, <1>1, <1>2, MoveKeeps DEF EnterUser
<1>3. CASE RecvBlock(p)
  BY Zenon, <1>1, <1>3, MoveKeeps DEF RecvBlock, InUser
<1>4. CASE WaitBlock(p)
  <2>1. notify' \in [signaled: BOOLEAN, waiter: Procs \cup {None}]
    BY Zenon, <1>1, <1>4 DEF WaitBlock, Register
  <2>2. QED
    BY Zenon, <2>1, <1>4, MoveKeeps DEF WaitBlock, InUser
<1>5. CASE WaitReturn(p)
  <2>1. notify' \in [signaled: BOOLEAN, waiter: Procs \cup {None}]
    BY Zenon, <1>5 DEF WaitReturn
  <2>2. QED
    BY Zenon, <2>1, <1>5, MoveKeeps DEF WaitReturn
<1>6. CASE Preempt(p) \/ Poll(p)
  BY Zenon, <1>1, <1>6, YieldKeeps DEF Preempt, Poll, loop
<1>7. CASE WaitTake(p)
  <2>1. notify' \in [signaled: BOOLEAN, waiter: Procs \cup {None}]
    BY Zenon, <1>7 DEF WaitTake
  <2>2. QED
    BY Zenon, <2>1, <1>1, <1>7, YieldKeeps DEF WaitTake, loop
<1>8. CASE Signal(p)
  <2>1. notify' \in [signaled: BOOLEAN, waiter: Procs \cup {None}]
    BY Zenon, <1>1, <1>8 DEF Signal
  <2>2. QED
    BY Zenon, <2>1, <1>1, <1>8, YieldKeeps DEF Signal, loop
<1>9. CASE Exit(p)
  BY Zenon, <1>9, RetireKeeps DEF Exit, InUser
<1>10. CASE Killed(p)
  BY Zenon, <1>10, RetireKeeps DEF Killed, InUser
<1>11. QED
  BY Zenon, <1>2, <1>3, <1>4, <1>5, <1>6, <1>7, <1>8, <1>9, <1>10

LEMMA DriveSteps ==
  ASSUME IpcInv, Halt \/ Finish \/ Drive \/ Stopped \/ UNCHANGED vars
  PROVE  IpcInv'
<1>1. /\ notify \in [signaled: BOOLEAN, waiter: Procs \cup {None}]
      /\ phase \in {"drive", "over", "halted"} /\ signalled \in BOOLEAN
  BY Zenon DEF IpcInv, StateInv, DataOK
<1>2. CASE Halt \/ Finish
  BY Zenon, <1>1, <1>2, YieldKeeps DEF Halt, Finish
<1>3. CASE Drive
  <2>1. notify' \in [signaled: BOOLEAN, waiter: Procs \cup {None}]
    BY Zenon, <1>1, <1>3 DEF Drive
  <2>2. signalled' \in BOOLEAN
    BY Zenon, <1>1, <1>3 DEF Drive, MustSignal
  <2>3. QED
    BY Zenon, <2>1, <2>2, <1>1, <1>3, YieldKeeps DEF Drive
<1>4. CASE Stopped \/ UNCHANGED vars
  BY Zenon, <1>1, <1>4, YieldKeeps DEF Stopped, vars, loop
<1>5. QED
  BY Zenon, <1>2, <1>3, <1>4

-----------------------------------------------------------------------------
(* Calls.                                                                  *)

LEMMA CallKeeps == ASSUME IpcInv, NEW p \in Procs, Call(p) PROVE IpcInv'
<1> USE UserIpcAssumption
<1>1. /\ StateInv /\ DataOK /\ MaxCalls \in Nat
      /\ sent \in [Procs -> 0 .. MaxCalls]
      /\ pc \in [Procs -> {"enter", "user", "call", "recv", "wait", "dead"}]
      /\ reply \in [Procs -> Procs \cup {None}]
  BY Zenon, PlanFacts DEF IpcInv, StateInv, DataOK
<1>2. /\ Running = p /\ pc[p] = "user" /\ sent[p] < MaxCalls
      /\ rdv' = [caller |-> p, msg |-> <<p, sent[p] + 1>>, reply |-> NoTicket]
      /\ sent' = [sent EXCEPT ![p] = @ + 1]
      /\ pc' = [pc EXCEPT ![p] = "call"]
      /\ Rotate
      /\ UNCHANGED <<notify, reply, done, exit, loop, served, got>>
  BY Zenon DEF Call, InUser, Post
<1>3. /\ rdv'.caller = p /\ rdv'.msg = <<p, sent[p] + 1>> /\ rdv'.reply = NoTicket
      /\ sent'[p] = sent[p] + 1 /\ sent[p] + 1 \in 0 .. MaxCalls
      /\ \A q \in Procs : q # p => sent'[q] = sent[q] /\ pc'[q] = pc[q]
      /\ pc'[p] = "call"
      /\ plan' = plan /\ restarted' = restarted
  BY <1>1, <1>2 DEF loop
<1>4. Holds(queue, Live)'
  BY Zenon, <1>1, <1>2, LiveFacts, QueueSteps
<1>5. DataOK'
  <2>1. <<p, sent[p] + 1>> \in Tickets /\ NoTicket \in Tickets
    BY Zenon, <1>3 DEF Tickets
  <2>2. rdv' \in [caller: Procs \cup {None}, msg: Tickets, reply: Tickets]
    BY Zenon, <1>2, <2>1
  <2>3. sent' \in [Procs -> 0 .. MaxCalls]
    BY Zenon, <1>1, <1>2, <1>3
  <2>4. QED
    BY Zenon, <1>1, <1>2, <2>2, <2>3 DEF DataOK, Tickets, MaxCalls, loop
<1>6. StateInv'
  <2>1. sent[p] + 1 > 0
    BY <1>1
  <2>2. QED
    BY Zenon, <1>1, <1>2, <1>3, <1>4, <1>5, <2>1 DEF StateInv, Held
<1>7. RequestInv'
  <2>1. Out' = Out
    BY Zenon, <1>2 DEF Out
  <2>2. \A q \in Out : \E n \in 0 .. sent'[reply[q]] : served[q] = <<reply[q], n>>
    <3> SUFFICES ASSUME NEW q \in Out PROVE \E n \in 0 .. sent'[reply[q]] : served[q] = <<reply[q], n>>
      BY Zenon
    <3>1. PICK n \in 0 .. sent[reply[q]] : served[q] = <<reply[q], n>>
      BY Zenon DEF IpcInv, RequestInv
    <3>2. reply[q] \in Procs
      BY Zenon, <1>1 DEF Out
    <3>3. n \in 0 .. sent'[reply[q]]
      BY <1>1, <1>3, <3>1, <3>2
    <3>4. QED
      BY Zenon, <3>1, <3>3
  <2>3. \A q \in Out : served[q] # <<p, sent[p] + 1>>
    <3> SUFFICES ASSUME NEW q \in Out, served[q] = <<p, sent[p] + 1>> PROVE FALSE
      BY Zenon
    <3>1. PICK n \in 0 .. sent[reply[q]] : served[q] = <<reply[q], n>>
      BY Zenon DEF IpcInv, RequestInv
    <3>2. reply[q] = p /\ n = sent[p] + 1
      BY <3>1
    <3>3. QED
      BY <1>1, <3>1, <3>2
  <2>4. QED
    BY <1>2, <1>3, <2>1, <2>2, <2>3 DEF IpcInv, RequestInv
<1>8. OneCaller' => OneCaller /\ \A q \in Procs : pc[q] # "call"
  <2> SUFFICES ASSUME OneCaller' PROVE OneCaller /\ \A q \in Procs : pc[q] # "call"
    BY Zenon
  <2>1. \A q \in Procs : sent'[q] > 0 => q = p
    BY <1>1, <1>3 DEF OneCaller
  <2>2. \A q \in Procs : sent[q] > 0 => q = p
    BY Zenon, <1>3, <2>1
  <2>3. QED
    BY Zenon, <1>1, <1>2, <2>2 DEF StateInv, OneCaller
<1>9. CallerInv'
  <2> SUFFICES ASSUME OneCaller' PROVE CallerInv'
    BY Zenon DEF CallerInv
  <2>1. OneCaller /\ \A q \in Procs : pc[q] # "call"
    BY Zenon, <1>8
  <2>2. Out = {}
    BY <2>1, <1>1 DEF IpcInv, CallerInv, Out
  <2>3. AnswersOwn'
    BY Zenon, <2>1, <1>2, <1>3 DEF IpcInv, CallerInv, AnswersOwn
  <2>4. Out' = {}
    BY Zenon, <2>2, <1>2 DEF Out
  <2>5. QED
    BY Zenon, <2>3, <2>4, <1>3 DEF CallerInv, NoTicket
<1>10. RequestNotLost'
  <2>1. OneCaller' => \A q \in Procs : pc'[q] = "call" => q = p
    BY Zenon, <1>3, <1>8
  <2>2. QED
    BY Zenon, <2>1, <1>3 DEF RequestNotLost
<1>11. QED
  BY Zenon, <1>6, <1>7, <1>9, <1>10 DEF IpcInv

LEMMA CallReturnKeeps == ASSUME IpcInv, NEW p \in Procs, CallReturn(p) PROVE IpcInv'
<1> USE UserIpcAssumption
<1>1. /\ StateInv /\ DataOK
      /\ rdv \in [caller: Procs \cup {None}, msg: Tickets, reply: Tickets]
      /\ pc \in [Procs -> {"enter", "user", "call", "recv", "wait", "dead"}]
      /\ got \in [Procs -> Tickets]
  BY Zenon DEF IpcInv, StateInv, DataOK
<1>2. /\ Running = p /\ pc[p] = "call" /\ rdv.reply # NoTicket
      /\ rdv' = [rdv EXCEPT !.reply = NoTicket, !.caller = None]
      /\ got' = [got EXCEPT ![p] = rdv.reply]
      /\ pc' = [pc EXCEPT ![p] = "user"]
      /\ UNCHANGED <<queue, notify, reply, done, exit, loop, sent, served>>
  BY Zenon DEF CallReturn, Returned
<1>3. /\ rdv'.caller = None /\ rdv'.reply = NoTicket
      /\ rdv' \in [caller: Procs \cup {None}, msg: Tickets, reply: Tickets]
      /\ got' \in [Procs -> Tickets]
      /\ plan' = plan /\ restarted' = restarted /\ Out' = Out
  <2>1. NoTicket \in Tickets
    BY Zenon DEF Tickets
  <2>2. QED
    BY Zenon, <1>1, <1>2, <2>1 DEF loop, Out
<1>4. Holds(queue, Live)'
  BY Zenon, <1>1, <1>2, LiveFacts, QueueSteps
<1>5. DataOK'
  BY Zenon, <1>1, <1>2, <1>3 DEF DataOK, Tickets, MaxCalls, loop
<1>6. StateInv'
  BY Zenon, <1>1, <1>2, <1>3, <1>4, <1>5 DEF StateInv, Held
<1>7. RequestInv'
  BY Zenon, <1>2, <1>3 DEF IpcInv, RequestInv
<1>8. OneCaller' = OneCaller
  BY Zenon, <1>2 DEF OneCaller
<1>9. OneCaller => Out = {} /\ rdv.reply = <<p, sent[p]>> /\ \A q \in Procs : q # p => pc[q] # "call"
  <2> SUFFICES ASSUME OneCaller
               PROVE  Out = {} /\ rdv.reply = <<p, sent[p]>> /\ \A q \in Procs : q # p => pc[q] # "call"
    BY Zenon
  <2>1. \A q \in Procs : pc[q] = "call" => q = p
    BY Zenon, <1>1, <1>2 DEF StateInv, OneCaller
  <2>2. QED
    BY Zenon, <2>1, <1>2 DEF IpcInv, CallerInv
<1>10. CallerInv'
  BY Zenon, <1>1, <1>2, <1>3, <1>8, <1>9 DEF IpcInv, CallerInv, AnswersOwn
<1>11. RequestNotLost'
  BY Zenon, <1>1, <1>2, <1>8, <1>9 DEF RequestNotLost
<1>12. QED
  BY Zenon, <1>6, <1>7, <1>10, <1>11 DEF IpcInv

LEMMA ReplyKeeps == ASSUME IpcInv, NEW p \in Procs, Reply(p) PROVE IpcInv'
<1> USE UserIpcAssumption
<1>1. /\ StateInv /\ DataOK
      /\ rdv \in [caller: Procs \cup {None}, msg: Tickets, reply: Tickets]
      /\ reply \in [Procs -> Procs \cup {None}] /\ served \in [Procs -> Tickets]
  BY Zenon DEF IpcInv, StateInv, DataOK
<1>2. /\ reply[p] # None /\ p \in Out
      /\ reply' = [reply EXCEPT ![p] = None]
      /\ rdv' = [rdv EXCEPT !.reply = served[p]]
      /\ UNCHANGED <<queue, pc, notify, done, exit, loop, sent, served, got>>
  BY Zenon DEF Reply, Out
<1>3. /\ rdv'.caller = rdv.caller /\ rdv'.msg = rdv.msg /\ rdv'.reply = served[p]
      /\ rdv' \in [caller: Procs \cup {None}, msg: Tickets, reply: Tickets]
      /\ reply' \in [Procs -> Procs \cup {None}]
      /\ plan' = plan /\ restarted' = restarted
      /\ \A q \in Out' : q # p /\ q \in Out /\ reply'[q] = reply[q]
  BY Zenon, <1>1, <1>2 DEF loop, Out
<1>4. Holds(queue, Live)'
  BY Zenon, <1>1, <1>2, QueueSteps DEF Live
<1>5. DataOK'
  BY <1>1, <1>2, <1>3 DEF DataOK, Tickets, MaxCalls, loop
<1>6. StateInv'
  BY Zenon, <1>1, <1>2, <1>3, <1>4, <1>5 DEF StateInv, Held
<1>7. RequestInv'
  BY <1>2, <1>3 DEF IpcInv, RequestInv
<1>8. OneCaller' = OneCaller /\ AnswersOwn' = AnswersOwn
  BY Zenon, <1>2 DEF OneCaller, AnswersOwn
<1>9. reply[p] \in Procs /\ served[p] # NoTicket
  <2>1. PICK n : served[p] = <<reply[p], n>>
    BY Zenon, <1>2 DEF IpcInv, RequestInv
  <2>2. reply[p] \in Procs
    BY Zenon, <1>1, <1>2
  <2>3. QED
    BY Zenon, <2>1, <2>2, TicketFacts
<1>10. CallerInv'
  <2> SUFFICES ASSUME OneCaller PROVE CallerInv'
    BY Zenon, <1>8 DEF CallerInv
  <2>1. /\ pc[reply[p]] = "call" /\ served[p] = <<reply[p], sent[reply[p]]>>
        /\ rdv.caller = None
    BY Zenon, <1>2 DEF IpcInv, CallerInv
  <2>2. Out' = {}
    <3> SUFFICES ASSUME NEW q \in Out' PROVE FALSE
      BY Zenon
    <3>1. /\ q \in Out /\ q # p /\ reply[q] \in Procs
          /\ pc[reply[q]] = "call" /\ served[q] = <<reply[q], sent[reply[q]]>>
      BY <1>1, <1>3 DEF IpcInv, CallerInv, Out
    <3>2. reply[q] = reply[p]
      BY Zenon, <2>1, <3>1, <1>1, <1>9 DEF StateInv, OneCaller
    <3>3. QED
      BY Zenon, <2>1, <3>1, <3>2, <1>2 DEF IpcInv, RequestInv
  <2>3. QED
    BY Zenon, <2>1, <2>2, <1>2, <1>3, <1>8, <1>9 DEF IpcInv, CallerInv
<1>11. RequestNotLost'
  BY Zenon, <1>3, <1>9 DEF RequestNotLost, NoTicket
<1>12. QED
  BY Zenon, <1>6, <1>7, <1>10, <1>11 DEF IpcInv

(* RECV takes the request on offer and with it the only Reply capability    *)
(* for it; the receiver that still owes a reply is killed instead.          *)
LEMMA RecvTakeKeeps == ASSUME IpcInv, NEW p \in Procs, RecvTake(p) PROVE IpcInv'
<1> USE UserIpcAssumption
<1> DEFINE c == rdv.caller
<1>1. /\ StateInv /\ DataOK /\ MaxCalls \in Nat
      /\ rdv \in [caller: Procs \cup {None}, msg: Tickets, reply: Tickets]
      /\ reply \in [Procs -> Procs \cup {None}] /\ served \in [Procs -> Tickets]
      /\ pc \in [Procs -> {"enter", "user", "call", "recv", "wait", "dead"}]
      /\ sent \in [Procs -> 0 .. MaxCalls]
  BY Zenon, PlanFacts DEF IpcInv, StateInv, DataOK
<1>2. /\ Running = p /\ pc[p] \in {"recv", "user"} /\ c # None
      /\ rdv' = [rdv EXCEPT !.caller = None]
      /\ "RECV" \in Held[p]
      /\ UNCHANGED <<notify, loop, sent, got>>
  BY Zenon, <1>1 DEF RecvTake, InUser, Taken, StateInv
<1>3. /\ rdv'.caller = None /\ rdv'.msg = rdv.msg /\ rdv'.reply = rdv.reply
      /\ rdv' \in [caller: Procs \cup {None}, msg: Tickets, reply: Tickets]
      /\ plan' = plan /\ restarted' = restarted
  BY Zenon, <1>1, <1>2 DEF loop
<1>4. /\ c \in Procs /\ pc[c] = "call" /\ rdv.msg = <<c, sent[c]>> /\ c # p
      /\ \A q \in Out : served[q] # rdv.msg
  BY Zenon, <1>1, <1>2 DEF IpcInv, RequestInv
<1>5. OneCaller' = OneCaller
  BY Zenon, <1>2 DEF OneCaller
<1> HIDE DEF c
<1>6. CASE reply[p] = None
  <2>1. /\ reply' = [reply EXCEPT ![p] = c]
        /\ served' = [served EXCEPT ![p] = rdv.msg]
        /\ pc' = [pc EXCEPT ![p] = "user"]
        /\ UNCHANGED <<queue, done, exit>>
    BY Zenon, <1>6 DEF RecvTake, c
  <2>2. /\ reply'[p] = c /\ served'[p] = rdv.msg /\ pc'[p] = "user"
        /\ \A q \in Procs : q # p => /\ reply'[q] = reply[q] /\ served'[q] = served[q]
                                     /\ pc'[q] = pc[q]
        /\ reply' \in [Procs -> Procs \cup {None}] /\ served' \in [Procs -> Tickets]
        /\ p \notin Out /\ Out' = Out \cup {p}
    BY <2>1, <1>1, <1>4, <1>6 DEF Out
  <2>3. Holds(queue, Live)'
    BY Zenon, <2>1, <1>1, <1>2, LiveFacts, QueueSteps
  <2>4. DataOK'
    BY <2>1, <2>2, <1>1, <1>2, <1>3 DEF DataOK, Tickets, MaxCalls, loop
  <2>5. StateInv'
    BY <2>1, <2>2, <2>3, <2>4, <1>1, <1>2, <1>3 DEF StateInv, Held
  <2>6. RequestInv'
    <3>1. \A q \in Out' : \E n \in 0 .. sent'[reply'[q]] : served'[q] = <<reply'[q], n>>
      <4> SUFFICES ASSUME NEW q \in Out'
                   PROVE  \E n \in 0 .. sent'[reply'[q]] : served'[q] = <<reply'[q], n>>
        BY Zenon
      <4>1. CASE q = p
        <5>1. sent[c] \in 0 .. sent[c]
          BY <1>1, <1>4
        <5>2. QED
          BY Zenon, <4>1, <5>1, <2>2, <1>2, <1>4
      <4>2. CASE q # p
        BY <4>2, <2>2, <1>2 DEF IpcInv, RequestInv, Out
      <4>3. QED
        BY Zenon, <4>1, <4>2
    <3>2. \A q, r \in Out' : served'[q] = served'[r] => q = r
      BY <2>2, <1>4 DEF IpcInv, RequestInv, Out
    <3>3. QED
      BY Zenon, <3>1, <3>2, <1>3 DEF RequestInv
  <2>7. CallerInv'
    <3> SUFFICES ASSUME OneCaller PROVE CallerInv'
      BY Zenon, <1>5 DEF CallerInv
    <3>1. AnswersOwn'
      BY <1>1, <1>2, <2>2 DEF IpcInv, CallerInv, AnswersOwn
    <3>2. Out = {} /\ rdv.reply = NoTicket
      BY Zenon, <1>2 DEF IpcInv, CallerInv, c
    <3>3. QED
      BY <3>1, <3>2, <2>2, <1>2, <1>3, <1>4 DEF CallerInv, NoTicket
  <2>8. RequestNotLost'
    <3> SUFFICES ASSUME OneCaller, NEW q \in Procs, pc'[q] = "call"
                 PROVE  reply'[p] = q /\ served'[p] = <<q, sent'[q]>>
      BY Zenon, <1>5 DEF RequestNotLost
    <3>1. q = c
      BY Zenon, <1>1, <1>4, <2>2 DEF StateInv, OneCaller
    <3>2. QED
      BY Zenon, <3>1, <2>2, <1>2, <1>4
  <2>9. QED
    BY Zenon, <2>5, <2>6, <2>7, <2>8 DEF IpcInv
<1>7. CASE reply[p] # None
  <2>1. Retire(p, "killed") /\ UNCHANGED <<reply, served>>
    BY Zenon, <1>7 DEF RecvTake
  <2>2. pc' = [pc EXCEPT ![p] = "dead"] /\ queue' = Tail(queue) /\ Out' = Out
    BY Zenon, <2>1 DEF Retire, Out
  <2>3. /\ done' \in [Procs -> BOOLEAN] /\ exit' \in [Procs -> {"ok", "killed"}]
        /\ done'[p] = TRUE /\ \A q \in Procs : q # p => done'[q] = done[q]
    BY Zenon, <2>1, <1>1 DEF DataOK, Retire
  <2>4. Holds(queue, Live)'
    BY Zenon, <2>2, <1>1, <1>2, LiveFacts, QueueSteps
  <2>5. DataOK'
    BY Zenon, <2>1, <2>2, <2>3, <1>1, <1>2, <1>3 DEF DataOK, Tickets, MaxCalls, loop
  <2>6. StateInv'
    BY ZenonT(30), <2>2, <2>3, <2>4, <2>5, <1>1, <1>2, <1>3 DEF StateInv, Held
  <2>7. RequestInv'
    BY Zenon, <2>1, <2>2, <1>2, <1>3 DEF IpcInv, RequestInv
  <2>8. CallerInv'
    <3> SUFFICES ASSUME OneCaller PROVE CallerInv'
      BY Zenon, <1>5 DEF CallerInv
    <3>1. Out # {}
      BY Zenon, <1>7 DEF Out
    <3>2. rdv.caller = None
      BY Zenon, <3>1 DEF IpcInv, CallerInv
    <3>3. QED
      BY Zenon, <3>2, <1>2 DEF c
  <2>9. RequestNotLost'
    BY Zenon, <2>3, <1>2, <1>3 DEF RequestNotLost, Held
  <2>10. QED
    BY Zenon, <2>6, <2>7, <2>8, <2>9 DEF IpcInv
<1>8. QED
  BY Zenon, <1>6, <1>7

(* The supervisor drops the dead server's Reply capability with its CSpace. *)
LEMMA RestartKeeps == ASSUME IpcInv, NEW p \in Procs, Restart(p) PROVE IpcInv'
<1> USE UserIpcAssumption
<1>1. /\ StateInv /\ DataOK
      /\ pc \in [Procs -> {"enter", "user", "call", "recv", "wait", "dead"}]
      /\ reply \in [Procs -> Procs \cup {None}] /\ served \in [Procs -> Tickets]
  BY Zenon DEF IpcInv, StateInv, DataOK
<1>2. /\ Running = Boot /\ done[p] /\ pc[p] = "dead"
      /\ restarted' = TRUE /\ rdv' = rdv
      /\ reply' = [reply EXCEPT ![p] = None]
      /\ served' = [served EXCEPT ![p] = NoTicket]
      /\ done' = [done EXCEPT ![p] = FALSE]
      /\ exit' = [exit EXCEPT ![p] = "ok"]
      /\ pc' = [pc EXCEPT ![p] = "enter"]
      /\ queue' = Tail(queue) \o <<p, Boot>>
      /\ UNCHANGED <<plan, notify, phase, signalled, sent, got>>
  BY Zenon, <1>1 DEF Restart, Driving, Crashed, RdvAfterRestart, StateInv
<1>3. Holds(queue, Live)'
  <2>1. Live' = Live \cup {p} /\ p \notin Live
    BY Zenon, <1>1, <1>2, LiveFacts DEF Live
  <2>2. Holds(queue', Live \cup {p})
    BY Zenon, <2>1, <1>1, <1>2, RunningFacts, SpawnHolds DEF StateInv, Running, Tasks
  <2>3. QED
    BY Zenon, <2>1, <2>2 DEF Holds
<1>4. DataOK'
  <2>1. NoTicket \in Tickets
    BY Zenon DEF Tickets
  <2>2. QED
    BY Zenon, <2>1, <1>1, <1>2 DEF DataOK, Tickets, MaxCalls
<1>5. StateInv'
  BY <1>1, <1>2, <1>3, <1>4 DEF StateInv, DataOK, Held
<1>6. /\ \A q \in Out' : q # p /\ q \in Out /\ reply'[q] = reply[q] /\ served'[q] = served[q]
      /\ \A q \in Procs : pc[q] = "call" <=> pc'[q] = "call"
  BY Zenon, <1>1, <1>2 DEF Out
<1>7. RequestInv'
  <2>1. rdv.caller # None =>
          /\ pc'[rdv.caller] = "call" /\ rdv.msg = <<rdv.caller, sent[rdv.caller]>>
          /\ \A q \in Out' : served'[q] # rdv.msg
    BY Zenon, <1>1, <1>6 DEF IpcInv, RequestInv, DataOK
  <2>2. \A q \in Out' : \E n \in 0 .. sent[reply'[q]] : served'[q] = <<reply'[q], n>>
    BY <1>6 DEF IpcInv, RequestInv
  <2>3. \A q, r \in Out' : served'[q] = served'[r] => q = r
    BY <1>6 DEF IpcInv, RequestInv
  <2>4. QED
    BY Zenon, <2>1, <2>2, <2>3, <1>2 DEF RequestInv
<1>8. OneCaller' = OneCaller
  BY Zenon, <1>2 DEF OneCaller
<1>9. CallerInv'
  <2> SUFFICES ASSUME OneCaller PROVE CallerInv'
    BY Zenon, <1>8 DEF CallerInv
  <2>1. AnswersOwn'
    BY Zenon, <1>1, <1>2, <1>6 DEF IpcInv, CallerInv, AnswersOwn
  <2>2. \A q \in Out' : reply[q] \in Procs
    BY <1>1, <1>6 DEF Out
  <2>3. QED
    BY <2>1, <2>2, <1>2, <1>6 DEF IpcInv, CallerInv
<1>10. RequestNotLost'
  BY Zenon, <1>2 DEF RequestNotLost
<1>11. QED
  BY Zenon, <1>5, <1>7, <1>9, <1>10 DEF IpcInv

-----------------------------------------------------------------------------
LEMMA InitInv == Init => IpcInv
<1> SUFFICES ASSUME Init PROVE IpcInv
  BY Zenon
<1> USE UserIpcAssumption
<1>1. plan \in Plans /\ MaxCalls \in Nat /\ plan.orders \subseteq Orders
  BY Zenon, PlanFacts DEF Init
<1>2. PICK order \in Orders : queue = <<Boot>> \o order
  BY Zenon, <1>1 DEF Init
<1>3. Holds(order, Procs)
  <2>1. order \in Seq(Procs) /\ Boot \notin Procs
    BY Zenon, <1>2 DEF Orders
  <2>2. order \in Seq(Tasks) /\ \A i \in DOMAIN order : order[i] \in Procs
    BY <2>1 DEF Tasks
  <2>3. QED
    BY <1>2, <2>2 DEF Holds, Orders, Tasks
<1>4. Holds(queue, Tasks)
  <2> DEFINE n == Len(order)
  <2>1. /\ queue \in Seq(Tasks) /\ n \in Nat /\ DOMAIN order = 1 .. n
        /\ DOMAIN queue = 1 .. n + 1 /\ queue[1] = Boot
        /\ \A i \in 2 .. n + 1 : queue[i] = order[i - 1]
    BY <1>2, <1>3 DEF Holds, Tasks
  <2> HIDE DEF n
  <2>2. \A i \in 1 .. n : order[i] \in Procs /\ i + 1 \in 2 .. n + 1 /\ queue[i + 1] = order[i]
    BY <1>2, <2>1 DEF Orders
  <2>3. \A i \in 2 .. n + 1 : i - 1 \in 1 .. n /\ queue[i] \in Procs
    BY <2>1, <2>2
  <2>4. ASSUME NEW i \in 1 .. n + 1, NEW j \in 1 .. n + 1, queue[i] = queue[j] PROVE i = j
    <3>1. CASE i = 1 \/ j = 1
      BY <3>1, <2>1, <2>3, <2>4
    <3>2. CASE i # 1 /\ j # 1
      <4>1. i - 1 \in DOMAIN order /\ j - 1 \in DOMAIN order /\ order[i - 1] = order[j - 1]
        BY <3>2, <2>1, <2>3, <2>4
      <4>2. i - 1 = j - 1
        BY Zenon, <4>1, <1>3 DEF Holds
      <4>3. QED
        BY <4>2, <2>1
    <3>3. QED
      BY Zenon, <3>1, <3>2
  <2>5. ASSUME NEW x \in Tasks PROVE \E i \in DOMAIN queue : queue[i] = x
    <3>1. CASE x = Boot
      BY <3>1, <2>1
    <3>2. CASE x \in Procs
      <4>1. PICK i \in 1 .. n : order[i] = x
        BY Zenon, <3>2, <2>1, <1>2 DEF Orders
      <4>2. QED
        BY <4>1, <2>1, <2>2
    <3>3. QED
      BY Zenon, <3>1, <3>2 DEF Tasks
  <2>6. QED
    BY Zenon, <2>1, <2>4, <2>5 DEF Holds
<1>5. Live = Tasks
  BY Zenon DEF Init, Live, Tasks
<1>6. DataOK
  <2>1. NoTicket \in Tickets /\ \A p \in Procs : <<p, 0>> \in Tickets
    BY <1>1 DEF Tickets
  <2>2. sent \in [Procs -> 0 .. MaxCalls]
    BY <1>1 DEF Init
  <2>3. QED
    BY Zenon, <2>1, <2>2, <1>1 DEF Init, DataOK
<1>7. StateInv
  BY Zenon, <1>4, <1>5, <1>6 DEF Init, StateInv
<1>8. RequestInv /\ CallerInv /\ RequestNotLost
  BY Zenon DEF Init, RequestInv, CallerInv, RequestNotLost, Out, AnswersOwn
<1>9. QED
  BY Zenon, <1>7, <1>8 DEF IpcInv

LEMMA NextInv == IpcInv /\ [Next]_vars => IpcInv'
<1> SUFFICES ASSUME IpcInv, [Next]_vars PROVE IpcInv'
  BY Zenon
<1>1. ASSUME NEW p \in Procs, Step(p) \/ Preempt(p) \/ Signal(p) PROVE IpcInv'
  BY Zenon, <1>1, CallKeeps, CallReturnKeeps, RecvTakeKeeps, ReplyKeeps, PlainSteps DEF Step
<1>2. ASSUME BootStep PROVE IpcInv'
  BY Zenon, <1>2, RestartKeeps, DriveSteps DEF BootStep
<1>3. QED
  BY Zenon, <1>1, <1>2, DriveSteps DEF Next

LEMMA IpcInvariant == Spec => []IpcInv
BY InitInv, NextInv, PTL DEF Spec

(* A request is received at most once, by whichever server is first, through *)
(* crashes and restarts: ipc_recv consumes the caller slot with the message, *)
(* and a request on offer is the latest call of a process still blocked in   *)
(* it.  The run queue stays well formed.                                   *)
THEOREM ReceivedOnce == Spec => []ServedOnce
<1>1. StateInv => TypeOK
  <2> SUFFICES ASSUME StateInv PROVE TypeOK
    BY Zenon
  <2>1. \A p \in Procs : pc[p] # "dead" <=> \E i \in DOMAIN queue : queue[i] = p
    BY ZenonT(30), UserIpcAssumption DEF StateInv, Holds, Live, Tasks
  <2>2. QED
    BY Zenon, <2>1 DEF StateInv, DataOK, Holds, Tasks, TypeOK
<1>2. IpcInv => ServedOnce
  BY Zenon, <1>1 DEF IpcInv, RequestInv, ServedOnce, Out
<1>3. QED
  BY <1>2, IpcInvariant, PTL

(* While one process has made all the calls, ipc_call returns to it the     *)
(* reply to its own latest call, whatever the servers do.                   *)
THEOREM LoneCallerAnswered == Spec => []OneCallerAnswered
<1>1. IpcInv => OneCallerAnswered
  BY Zenon DEF IpcInv, CallerInv, OneCallerAnswered
<1>2. QED
  BY <1>1, IpcInvariant, PTL

(* Its request is lost only with a receiver that died or was restarted.     *)
THEOREM LostOnlyWithReceiver == Spec => []RequestNotLost
<1>1. IpcInv => RequestNotLost
  BY Zenon DEF IpcInv
<1>2. QED
  BY <1>1, IpcInvariant, PTL

-----------------------------------------------------------------------------
(* NOTIFY has room for one waiter: at most one process may wait.            *)
OneMayWait ==
  \A x \in Plans : \A p, q \in Procs :
    "WAIT" \in x.held[p] /\ "WAIT" \in x.held[q] => p = q

(* notify_wait registers its caller before it blocks, and the registration  *)
(* stays until that process is woken, so the boot task's test of             *)
(* notify_has_waiter finds it; this needs that one process may wait, as      *)
(* there is room for one.                                                  *)
THEOREM WaiterRegistered ==
  ASSUME OneMayWait
  PROVE  Spec => []HasWaiter
<1>1. Init => HasWaiter
  BY Zenon DEF Init, HasWaiter
<1>2. IpcInv /\ HasWaiter /\ [Next]_vars => HasWaiter'
  <2> SUFFICES ASSUME IpcInv, HasWaiter, [Next]_vars,
                      NEW p \in Procs, pc'[p] = "wait"
               PROVE  notify'.waiter # None
    BY Zenon DEF HasWaiter
  <2> USE UserIpcAssumption
  <2>1. /\ pc \in [Procs -> {"enter", "user", "call", "recv", "wait", "dead"}]
        /\ notify \in [signaled: BOOLEAN, waiter: Procs \cup {None}]
        /\ \A q, r \in Procs : "WAIT" \in Held[q] /\ "WAIT" \in Held[r] => q = r
        /\ \A q \in Procs : pc[q] = "wait" => "WAIT" \in Held[q]
    BY Zenon DEF IpcInv, StateInv, DataOK, OneMayWait, Held
  <2>2. CASE \E q \in Procs : WaitBlock(q)
    <3>1. PICK q \in Procs : notify' = [notify EXCEPT !.waiter = q]
      BY Zenon, <2>2 DEF WaitBlock, Register
    <3>2. QED
      BY Zenon, <3>1, <2>1
  <2>3. CASE \E q \in Procs : WaitTake(q) \/ WaitReturn(q)
    <3>1. PICK q \in Procs : WaitTake(q) \/ WaitReturn(q)
      BY Zenon, <2>3
    <3>2. "WAIT" \in Held[q] /\ pc'[q] = "user"
      BY Zenon, <3>1, <2>1 DEF WaitTake, WaitReturn, InUser
    <3>3. pc[p] = "wait"
      BY Zenon, <3>1, <3>2, <2>1 DEF WaitTake, WaitReturn
    <3>4. QED
      BY Zenon, <3>2, <3>3, <2>1
  <2>4. CASE ~(\E q \in Procs : WaitBlock(q) \/ WaitTake(q) \/ WaitReturn(q))
    <3>1. ASSUME NEW q \in Procs, Step(q) \/ Preempt(q) \/ Signal(q)
          PROVE  pc[p] = "wait" /\ notify'.waiter = notify.waiter
      BY <2>1, <2>4, <3>1 DEF Step, EnterUser, Preempt, Call, CallReturn, RecvTake, RecvBlock,
         Reply, Signal, Poll, Exit, Killed, Retire
    <3>2. ASSUME BootStep \/ UNCHANGED vars
          PROVE  pc[p] = "wait" /\ notify'.waiter = notify.waiter
      BY ZenonT(30), <2>1, <3>2 DEF BootStep, Restart, Halt, Finish, Drive, vars
    <3>3. pc[p] = "wait" /\ notify'.waiter = notify.waiter
      BY Zenon, <3>1, <3>2 DEF Next, Stopped
    <3>4. QED
      BY Zenon, <3>3 DEF HasWaiter
  <2>5. QED
    BY Zenon, <2>2, <2>3, <2>4
<1>3. QED
  BY <1>1, <1>2, IpcInvariant, PTL DEF Spec
=============================================================================
