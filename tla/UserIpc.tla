------------------------------- MODULE UserIpc -------------------------------
(***************************************************************************)
(* Userspace processes and the system calls that make them talk             *)
(* (src/kernel/src/user/mod.rs): CALL, RECV and REPLY over the one           *)
(* rendezvous EP_RDV, WAIT and SIGNAL on the one NOTIFY latch, exit and kill, *)
(* and the boot task's drive loop, which for the restart demo supervises:    *)
(* it reaps a crashed server and loads it again in the same slot.            *)
(*                                                                         *)
(* User mode and system calls run with interrupts masked, so a process keeps *)
(* the CPU until a blocking call yields, it exits or it is killed; only       *)
(* before its drop to user mode may the timer take the CPU from it.  queue    *)
(* is the scheduler's task list without the finished tasks, rotated so that  *)
(* the running task comes first: the boot task is the first of the list and  *)
(* the only one to spawn, so a new task is appended.                        *)
(*                                                                         *)
(* Processes in Arbitrary make any system call at any time.  The others run  *)
(* the reference programs: a server (it holds RECV) loops over RECV, REPLY;  *)
(* a client makes MaxCalls calls, the last of them STOP; a waiter waits.     *)
(* A message word is a ticket <<sender, number>>, a reply word the ticket it *)
(* answers.                                                                *)
(***************************************************************************)
EXTENDS Integers, Sequences

CONSTANTS
  Procs,       \* process slots in use
  Boot,        \* the boot task
  None,        \* no process
  Plans        \* what is loaded, and for which demo:
               \*   orders      in which the processes may be spawned
               \*   held        rights of each process on Endpoint and Notification
               \*   arbitrary   processes that do not follow a reference program
               \*   supervised  the server the drive loop restarts, at most one
               \*   crashAt     number of the call that crashes the reference
               \*               server, 0 for none
               \*   maxCalls    number of calls of a client; the last is STOP

(* Sequences in which every process occurs once.                           *)
Orders ==
  {order \in Seq(Procs) :
     /\ \A i, j \in DOMAIN order : order[i] = order[j] => i = j
     /\ \A p \in Procs : \E i \in DOMAIN order : order[i] = p}

ASSUME UserIpcAssumption ==
  /\ None \notin Procs \cup {Boot}
  /\ Boot \notin Procs
  /\ Plans \subseteq [orders: SUBSET Orders,
                     held: [Procs -> SUBSET {"SEND", "RECV", "WAIT", "SIGNAL"}],
                     arbitrary: SUBSET Procs,
                     supervised: {S \in SUBSET Procs : \A p, q \in S : p = q},
                     crashAt: Nat, maxCalls: Nat]

VARIABLES
  plan,        \* the plan in force
  queue,       \* tasks that can run, the running one first
  pc,          \* pc[p]: where the process is
  rdv,         \* EP_RDV
  notify,      \* NOTIFY
  reply,       \* reply[p]: the caller the Reply capability in REPLY_SLOT names
  done,        \* PROC_DONE
  exit,        \* PROC_EXIT
  phase,       \* the drive loop: drive, over or halted (a fatal check failed)
  restarted,   \* the supervisor has restarted the server
  signalled,   \* the kernel has raised the notification
  sent,        \* sent[p]: number of calls p has made
  served,      \* served[p]: the ticket p received last
  got          \* got[p]: the ticket answered by the reply p received last

ipc  == <<rdv, reply, sent, served, got>>
loop == <<plan, phase, restarted, signalled>>
vars == <<queue, pc, ipc, notify, done, exit, loop>>

NoTicket == <<None, 0>>

Held       == plan.held
Arbitrary  == plan.arbitrary
Supervised == plan.supervised
CrashAt    == plan.crashAt
MaxCalls   == plan.maxCalls

-----------------------------------------------------------------------------
(* The CPU.                                                                *)

Running == Head(queue)
Rotate  == queue' = Tail(queue) \o <<Running>>

(* A process is running its own code and may make a system call.            *)
InUser(p) == phase = "drive" /\ Running = p /\ pc[p] = "user"

(* task_enter: the timer may fire before the drop to user mode.             *)
EnterUser(p) ==
  /\ phase = "drive" /\ Running = p /\ pc[p] = "enter"
  /\ pc' = [pc EXCEPT ![p] = "user"]
  /\ UNCHANGED <<queue, ipc, notify, done, exit, loop>>

Preempt(p) ==
  /\ phase = "drive" /\ Running = p /\ pc[p] = "enter"
  /\ Rotate
  /\ UNCHANGED <<pc, ipc, notify, done, exit, loop>>

(* retire: record how the process ended and leave the CPU for good.         *)
Retire(p, code) ==
  /\ exit' = [exit EXCEPT ![p] = code]
  /\ done' = [done EXCEPT ![p] = TRUE]
  /\ pc' = [pc EXCEPT ![p] = "dead"]
  /\ queue' = Tail(queue)

-----------------------------------------------------------------------------
(* What the reference programs do next.                                    *)

IsServer(p) == "RECV" \in Held[p]
IsWaiter(p) == "WAIT" \in Held[p]
IsClient(p) == ~IsServer(p) /\ ~IsWaiter(p)

Served(p, n) == reply[p] = None /\ served[p] # NoTicket /\ served[p][2] = n

WillCall(p)   == IsClient(p) /\ sent[p] < MaxCalls
WillRecv(p)   == IsServer(p) /\ reply[p] = None
                 /\ ~Served(p, CrashAt) /\ ~Served(p, MaxCalls)
WillReply(p)  == IsServer(p) /\ reply[p] # None
WillWait(p)   == IsWaiter(p) /\ ~signalled
WillExit(p)   == \/ IsClient(p) /\ sent[p] = MaxCalls
                 \/ IsServer(p) /\ Served(p, MaxCalls)
                 \/ IsWaiter(p) /\ signalled

(* crashd faults once it has acknowledged CRASH.                            *)
WillFault(p) == IsServer(p) /\ Served(p, CrashAt)

-----------------------------------------------------------------------------
(* System calls on the Endpoint.                                           *)

(* ipc_call posts the message and yields, since it finds no reply.          *)
Post(p) ==
  [caller |-> p, msg |-> <<p, sent[p] + 1>>, reply |-> NoTicket]

Call(p) ==
  /\ InUser(p) /\ "SEND" \in Held[p]
  /\ sent[p] < MaxCalls
  /\ WillCall(p) \/ p \in Arbitrary
  /\ rdv' = Post(p)
  /\ sent' = [sent EXCEPT ![p] = @ + 1]
  /\ pc' = [pc EXCEPT ![p] = "call"]
  /\ Rotate
  /\ UNCHANGED <<notify, reply, done, exit, loop, served, got>>

(* The caller polls: it takes the reply and clears the caller slot, where   *)
(* another call may have left a request, or yields again (Poll).            *)
Returned == [rdv EXCEPT !.reply = NoTicket, !.caller = None]

CallReturn(p) ==
  /\ phase = "drive" /\ Running = p /\ pc[p] = "call"
  /\ rdv.reply # NoTicket
  /\ rdv' = Returned
  /\ got' = [got EXCEPT ![p] = rdv.reply]
  /\ pc' = [pc EXCEPT ![p] = "user"]
  /\ UNCHANGED <<queue, notify, reply, done, exit, loop, sent, served>>

(* What RECV leaves in the rendezvous: the caller slot is consumed.  The    *)
(* mutant leaves it.                                                       *)
TakenNot == rdv
Taken == [rdv EXCEPT !.caller = None]

(* ipc_recv finds a caller: it takes the message and mints the Reply        *)
(* capability, or is killed when REPLY_SLOT still holds one.                *)
RecvTake(p) ==
  /\ phase = "drive" /\ Running = p
  /\ \/ pc[p] = "recv"
     \/ InUser(p) /\ "RECV" \in Held[p] /\ (WillRecv(p) \/ p \in Arbitrary)
  /\ rdv.caller # None
  /\ rdv' = Taken
  /\ IF reply[p] = None
     THEN /\ reply' = [reply EXCEPT ![p] = rdv.caller]
          /\ served' = [served EXCEPT ![p] = rdv.msg]
          /\ pc' = [pc EXCEPT ![p] = "user"]
          /\ UNCHANGED <<queue, done, exit>>
     ELSE Retire(p, "killed") /\ UNCHANGED <<reply, served>>
  /\ UNCHANGED <<notify, loop, sent, got>>

RecvBlock(p) ==
  /\ InUser(p) /\ "RECV" \in Held[p]
  /\ WillRecv(p) \/ p \in Arbitrary
  /\ rdv.caller = None
  /\ pc' = [pc EXCEPT ![p] = "recv"]
  /\ Rotate
  /\ UNCHANGED <<ipc, notify, done, exit, loop>>

(* A reply that is posted only while the caller is still on offer.          *)
ReplyOffered(p) ==
  /\ InUser(p)
  /\ reply[p] # None
  /\ WillReply(p) \/ p \in Arbitrary
  /\ reply' = [reply EXCEPT ![p] = None]
  /\ rdv' = IF rdv.caller = reply[p] THEN [rdv EXCEPT !.reply = served[p]] ELSE rdv
  /\ UNCHANGED <<queue, pc, notify, done, exit, loop, sent, served, got>>

(* ipc_reply consumes the Reply capability and posts the word for whoever   *)
(* polls first; it returns without yielding.                               *)
Reply(p) ==
  /\ InUser(p)
  /\ reply[p] # None
  /\ WillReply(p) \/ p \in Arbitrary
  /\ reply' = [reply EXCEPT ![p] = None]
  /\ rdv' = [rdv EXCEPT !.reply = served[p]]
  /\ UNCHANGED <<queue, pc, notify, done, exit, loop, sent, served, got>>

-----------------------------------------------------------------------------
(* System calls on the Notification.                                       *)

(* notify_wait registers the waiter before it looks at the latch.           *)
WaitTake(p) ==
  /\ InUser(p) /\ "WAIT" \in Held[p]
  /\ WillWait(p) \/ p \in Arbitrary
  /\ notify.signaled
  /\ notify' = [signaled |-> FALSE, waiter |-> None]
  /\ UNCHANGED <<queue, pc, ipc, done, exit, loop>>

(* The mutant does not register.                                           *)
RegisterNot(p) == notify
Register(p) == [notify EXCEPT !.waiter = p]

WaitBlock(p) ==
  /\ InUser(p) /\ "WAIT" \in Held[p]
  /\ WillWait(p) \/ p \in Arbitrary
  /\ ~notify.signaled
  /\ notify' = Register(p)
  /\ pc' = [pc EXCEPT ![p] = "wait"]
  /\ Rotate
  /\ UNCHANGED <<ipc, done, exit, loop>>

WaitReturn(p) ==
  /\ phase = "drive" /\ Running = p /\ pc[p] = "wait"
  /\ notify.signaled
  /\ notify' = [signaled |-> FALSE, waiter |-> None]
  /\ pc' = [pc EXCEPT ![p] = "user"]
  /\ UNCHANGED <<queue, ipc, done, exit, loop>>

Signal(p) ==
  /\ InUser(p) /\ "SIGNAL" \in Held[p] /\ p \in Arbitrary
  /\ notify' = [notify EXCEPT !.signaled = TRUE]
  /\ UNCHANGED <<queue, pc, ipc, done, exit, loop>>

-----------------------------------------------------------------------------
(* A blocked call polls, finds nothing and yields.                          *)
Poll(p) ==
  /\ phase = "drive" /\ Running = p
  /\ \/ pc[p] = "call" /\ rdv.reply = NoTicket
     \/ pc[p] = "recv" /\ rdv.caller = None
     \/ pc[p] = "wait" /\ ~notify.signaled
  /\ Rotate
  /\ UNCHANGED <<pc, ipc, notify, done, exit, loop>>

Exit(p) ==
  /\ InUser(p) /\ "SEND" \in Held[p]
  /\ WillExit(p) \/ p \in Arbitrary
  /\ Retire(p, "ok")
  /\ UNCHANGED <<ipc, notify, loop>>

(* fault, and every refused invocation (ipc_check, a REPLY on an empty slot).*)
Killed(p) ==
  /\ InUser(p)
  /\ WillFault(p) \/ p \in Arbitrary
  /\ Retire(p, "killed")
  /\ UNCHANGED <<ipc, notify, loop>>

-----------------------------------------------------------------------------
(* The boot task's drive loop: one iteration, which ends with a yield.      *)

Driving == phase = "drive" /\ Running = Boot

Crashed == {p \in Supervised : ~restarted /\ done[p]}
AllDone == (\A p \in Procs : done[p]) /\ (Supervised # {} => restarted)
MustSignal == ~signalled /\ notify.waiter # None

(* The server is down: reap it and load it again, with a fresh CSpace, in   *)
(* the same slot.  The rendezvous is left as it is; the mutant resets it.   *)
RdvAfterReset == [caller |-> None, msg |-> NoTicket, reply |-> NoTicket]
RdvAfterRestart == rdv

Restart(p) ==
  /\ Driving
  /\ p \in Crashed /\ exit[p] = "killed"
  /\ restarted' = TRUE
  /\ rdv' = RdvAfterRestart
  /\ reply' = [reply EXCEPT ![p] = None]
  /\ served' = [served EXCEPT ![p] = NoTicket]
  /\ done' = [done EXCEPT ![p] = FALSE]
  /\ exit' = [exit EXCEPT ![p] = "ok"]
  /\ pc' = [pc EXCEPT ![p] = "enter"]
  /\ queue' = Tail(queue) \o <<p, Boot>>
  /\ UNCHANGED <<plan, notify, phase, signalled, sent, got>>

(* The server exited before it crashed, or a process ended badly: fatal.    *)
Halt ==
  /\ Driving
  /\ \/ \E p \in Crashed : exit[p] # "killed"
     \/ Crashed = {} /\ AllDone /\ \E p \in Procs : exit[p] # "ok"
  /\ phase' = "halted"
  /\ UNCHANGED <<plan, queue, pc, ipc, notify, done, exit, restarted, signalled>>

Finish ==
  /\ Driving
  /\ AllDone /\ \A p \in Procs : exit[p] = "ok"
  /\ phase' = "over"
  /\ UNCHANGED <<plan, queue, pc, ipc, notify, done, exit, restarted, signalled>>

(* The notification demo raises the notification once the waiter blocks.    *)
Drive ==
  /\ Driving
  /\ Crashed = {} /\ ~AllDone
  /\ signalled' = (signalled \/ MustSignal)
  /\ notify' = IF MustSignal THEN [notify EXCEPT !.signaled = TRUE] ELSE notify
  /\ Rotate
  /\ UNCHANGED <<plan, pc, ipc, done, exit, phase, restarted>>

-----------------------------------------------------------------------------
Step(p) ==
  \/ EnterUser(p) \/ Call(p) \/ CallReturn(p) \/ RecvTake(p) \/ RecvBlock(p)
  \/ Reply(p) \/ WaitTake(p) \/ WaitBlock(p) \/ WaitReturn(p) \/ Poll(p)
  \/ Exit(p) \/ Killed(p)

BootStep == (\E p \in Procs : Restart(p)) \/ Halt \/ Finish \/ Drive

(* The demo is over: the boot task goes on, or has halted the machine.      *)
Stopped == phase # "drive" /\ UNCHANGED vars

(* The processes are loaded and spawned in an order of the plan.           *)
Init ==
  /\ plan \in Plans
  /\ \E order \in plan.orders : queue = <<Boot>> \o order
  /\ pc = [p \in Procs |-> "enter"]
  /\ rdv = [caller |-> None, msg |-> NoTicket, reply |-> NoTicket]
  /\ notify = [signaled |-> FALSE, waiter |-> None]
  /\ reply = [p \in Procs |-> None]
  /\ done = [p \in Procs |-> FALSE]
  /\ exit = [p \in Procs |-> "ok"]
  /\ phase = "drive"
  /\ restarted = FALSE
  /\ signalled = FALSE
  /\ sent = [p \in Procs |-> 0]
  /\ served = [p \in Procs |-> NoTicket]
  /\ got = [p \in Procs |-> <<p, 0>>]

Next ==
  \/ \E p \in Procs : Step(p) \/ Preempt(p) \/ Signal(p)
  \/ BootStep
  \/ Stopped

(* Whoever has the CPU goes on.  A process the timer preempts in task_enter  *)
(* gets on when it is next scheduled: the window is a few instructions.     *)
Fairness ==
  /\ \A p \in Procs : WF_vars(Step(p)) /\ SF_vars(EnterUser(p))
  /\ WF_vars(BootStep)

Spec == Init /\ [][Next]_vars /\ Fairness

-----------------------------------------------------------------------------
(* Properties.                                                             *)

Tickets == {NoTicket} \cup (Procs \X (0 .. MaxCalls))

(* The state is well formed; the queue holds each live task once.           *)
TypeOK ==
  /\ queue \in Seq(Procs \cup {Boot})
  /\ \A i, j \in DOMAIN queue : queue[i] = queue[j] => i = j
  /\ \A p \in Procs : pc[p] # "dead" <=> \E i \in DOMAIN queue : queue[i] = p
  /\ pc \in [Procs -> {"enter", "user", "call", "recv", "wait", "dead"}]
  /\ rdv \in [caller: Procs \cup {None}, msg: Tickets, reply: Tickets]
  /\ notify \in [signaled: BOOLEAN, waiter: Procs \cup {None}]
  /\ reply \in [Procs -> Procs \cup {None}]
  /\ done \in [Procs -> BOOLEAN] /\ exit \in [Procs -> {"ok", "killed"}]
  /\ phase \in {"drive", "over", "halted"}
  /\ restarted \in BOOLEAN /\ signalled \in BOOLEAN
  /\ sent \in [Procs -> 0 .. MaxCalls]
  /\ served \in [Procs -> Tickets] /\ got \in [Procs -> Tickets]

(* A request on offer is the latest call of a process that is still blocked *)
(* in that call, through crashes, restarts and callers that overwrite each   *)
(* other; and it is received at most once ("a receiver that RECVs again      *)
(* before replying does not re-observe the same caller"): it is not on offer *)
(* while a Reply capability for it is out, and there is one such capability. *)
(* The run queue and the rest of the state stay well formed (TypeOK).       *)
ServedOnce ==
  LET out == {p \in Procs : reply[p] # None}
  IN /\ TypeOK
     /\ rdv.caller # None =>
          /\ pc[rdv.caller] = "call"
          /\ rdv.msg = <<rdv.caller, sent[rdv.caller]>>
          /\ \A p \in out : served[p] # rdv.msg
     /\ \A p, q \in out : served[p] = served[q] => p = q

(* A call returns the reply to that very call, not one meant for another    *)
(* caller or left over from an earlier call or an earlier server.           *)
AnswersOwn == \A p \in Procs : pc[p] # "call" => got[p] = <<p, sent[p]>>

OneCaller == \A p, q \in Procs : sent[p] > 0 /\ sent[q] > 0 => p = q

(* The request of a blocked caller is on offer, or held by the receiver of  *)
(* the Reply capability, or answered: with one process calling it is lost   *)
(* only with a receiver that died (and crashd replies before it faults).    *)
RequestNotLost ==
  OneCaller /\ ~restarted /\ (\A q \in Procs : "RECV" \in Held[q] => ~done[q]) =>
    \A p \in Procs : pc[p] = "call" =>
      \/ rdv.caller = p
      \/ rdv.reply # NoTicket
      \/ \E q \in Procs : reply[q] = p /\ served[q] = <<p, sent[p]>>

(* As long as one process has made all the calls, every call of it returns  *)
(* its own reply, whatever the servers do: receive and never reply, reply   *)
(* late, fault and be restarted.                                           *)
OneCallerAnswered == OneCaller => AnswersOwn

(* notify_has_waiter tells "whether a process is currently blocked in        *)
(* NOTIFY_WAIT", which is what the boot task signals on.                    *)
HasWaiter == (\E p \in Procs : pc[p] = "wait") => notify.waiter # None

(* The demos, in which every process runs its reference program, end with   *)
(* both sides' clean exit: every call is answered and every wait woken, a    *)
(* crash of the server in between included.                                *)
DemoEnds == Arbitrary = {} => <>(phase = "over")
=============================================================================
