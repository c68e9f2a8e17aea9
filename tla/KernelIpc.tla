----------------------------- MODULE KernelIpc ------------------------------
(***************************************************************************)
(* The kernel's asynchronous tasks: the Call and Recv futures that turn an *)
(* endpoint into a blocking call and reply, and the client and server that *)
(* use them on the cooperative executor (kernel/src/ipc/mod.rs), beside    *)
(* the yielding workers of the executor's demo (kernel/src/sched/mod.rs).  *)
(*                                                                         *)
(* A setup lists the bodies spawned, in order.  The boot runs a client and *)
(* a server, and two workers; Call and Recv are written for any party, so  *)
(* setups with more of each, with small budgets and with stray wakes are   *)
(* also taken.  Two setups have no bodies and use the ipc crate by itself: *)
(* in one, parties call the endpoint and the notification directly, and    *)
(* give up; in the other, descriptor words are decoded.                    *)
(***************************************************************************)
EXTENDS Executor, Endpoint, FiniteSets

CONSTANTS
    Setups,         \* the setups, records with use, bodies and wakes
    Parties,        \* party ids; the i-th body is party and task i
    WordMax,        \* the largest data word
    ClientBudget,   \* CLIENT_BUDGET
    CallDelegate,   \* CALL_DELEGATE
    WorkUnits,      \* WORK_UNITS
    NoReply         \* the empty reply slot

\* What may be spawned: client_body, server_body and worker, with a budget.
Bodies ==
    [kind : {"client"}, caps : {0, 1}, budget : 0 .. U32Max]
    \cup [kind : {"server"}, budget : 0 .. U32Max]
    \cup [kind : {"worker"}, iters : Nat, budget : 0 .. U32Max]

\* There is one frame, so one client at most has it to transfer.  The server's
\* work is within what a call lends it, and that within the client's budget.
ASSUME KernelIpcAssumption ==
    /\ Parties \subseteq Nat \ {0}
    /\ \A s \in Setups :
         /\ s.bodies \in Seq(Bodies) /\ 1 .. Len(s.bodies) \subseteq Parties
         /\ s.use # "tasks" => s.bodies = <<>>
         /\ \A t, u \in 1 .. Len(s.bodies) :
              LET b == s.bodies[t]
                  c == s.bodies[u]
              IN  b.kind = "client" /\ c.kind = "client" /\ t # u => b.caps = 0 \/ c.caps = 0
    /\ WordMax \in Nat /\ U32Max \in Nat
    /\ ClientBudget \in 0 .. U32Max /\ CallDelegate \in 1 .. ClientBudget
    /\ WorkUnits \in 0 .. CallDelegate

VARIABLES
    setup,          \* the bodies of this run, and how many stray wakes it sees
    steps,          \* task -> how far its body got
    endpoint,       \* IpcWorld.endpoint
    notification,   \* a Notification of the crate
    wakers,         \* parties with a registered waker
    delivered,      \* requests handed to a blocked receiver
    responses,      \* responses handed to a blocked caller
    budgets,        \* client_budget and server_budget
    frame,          \* holder and rights of the frame a client transfers
    reply,          \* SERVER_REPLY_SLOT: the caller it names, or NoReply
    results,        \* caller -> what its call returned
    met,            \* the last meeting at the endpoint (history)
    decoded,        \* the last descriptor word, and what it decoded to
    strays,         \* stray wakes still to come
    halted          \* fatal: the boot stopped

worldVars == <<endpoint, wakers, delivered, responses, budgets, frame, reply, results, met>>
vars == <<execVars, worldVars, setup, steps, notification, decoded, strays, halted>>

NoMeeting == [from |-> 0, to |-> 0, msg |-> <<>>]

Body(t) == setup.bodies[t]
Spawned == 1 .. Len(setup.bodies)
IsKind(t, kind) == t \in Spawned /\ Body(t).kind = kind
Clients == {t \in Spawned : IsKind(t, "client")}
Servers == {t \in Spawned : IsKind(t, "server")}
Workers == {t \in Spawned : IsKind(t, "worker")}

FrameRights == {"READ", "WRITE"}

-----------------------------------------------------------------------------
(* Messages.                                                                *)

\* client_body's request: one word, and one transfer if the body moves the
\* frame, narrowed to READ.
RequestOf(t, caps) ==
    LET m == WithData(t % 2, <<(t * WordMax) % (WordMax + 1)>>)
    IN  IF caps = 0 THEN m
        ELSE [m EXCEPT !.info.n_caps = 1, !.caps = <<{"READ"}>>]

Request(t) == RequestOf(t, Body(t).caps)

\* server_body's answer: the same label, the word plus one, wrapping.
Response(req) == WithData(req.info.label, <<(Data(req)[1] + 1) % (WordMax + 1)>>)

-----------------------------------------------------------------------------
(* The world's state, and the parts of a poll.                              *)

Init ==
    /\ ExecInit
    /\ setup \in Setups
    /\ steps = [t \in Parties |-> 0]
    /\ endpoint = NewEndpoint
    /\ notification = NewNotification
    /\ wakers = {}
    /\ delivered = {}
    /\ responses = {}
    /\ budgets = [client |-> NewBudget(ClientBudget), server |-> NewBudget(0)]
    /\ frame = [at |-> "client", rights |-> FrameRights]
    /\ reply = NoReply
    /\ results = <<>>
    /\ met = NoMeeting
    /\ decoded = [word |-> 0, info |-> Decode(0)]
    /\ strays = setup.wakes
    /\ halted = FALSE

\* The queue after party p, if its waker is registered, was woken.
WakeNot(queue, p) == queue
Wake(queue, p) == IF p \in wakers THEN Woken(queue, p) ELSE queue

\* BTreeMap::insert for the two mailboxes: a new entry replaces an old one.
Insert(box, entry) == {e \in box : e.to # entry.to} \cup {entry}

\* The first poll of a Call: the budget is lent and the message sent; if a
\* receiver waited, the request is put aside for it and it is woken.  Either
\* way the caller registers its waker and is pending.
CallSend(t) ==
    LET msg  == Request(t)
        lent == Delegate(budgets.client, budgets.server, CallDelegate)
    IN  /\ steps[t] = 0
        /\ steps' = [steps EXCEPT ![t] = 1]
        /\ budgets' = [client |-> lent[1], server |-> lent[2]]
        /\ endpoint' = Send(endpoint, t, msg)
        /\ IF Delivers(endpoint)
             THEN LET r == Receiver(endpoint)
                  IN  /\ delivered' = Insert(delivered, [to |-> r, from |-> t, msg |-> msg])
                      /\ wakers' = (wakers \ {r}) \cup {t}
                      /\ met' = [from |-> t, to |-> r, msg |-> msg]
                      /\ Polled(t, Wake(Tail(ready), r), FALSE)
             ELSE /\ wakers' = wakers \cup {t}
                  /\ UNCHANGED <<delivered, met>>
                  /\ Polled(t, Tail(ready), FALSE)
        /\ UNCHANGED <<responses, frame, reply, results, halted>>

\* The response put aside for party t.
ResponseFor(t) == {r \in responses : r.to = t}

\* A later poll of a Call: the response ends it, otherwise it re-registers.
CallAwait(t) ==
    /\ steps[t] = 1
    /\ IF ResponseFor(t) # {}
         THEN LET resp == CHOOSE r \in ResponseFor(t) : TRUE
              IN  /\ responses' = responses \ {resp}
                  /\ results' = [c \in DOMAIN results \cup {t} |->
                                   IF c = t THEN resp.msg ELSE results[c]]
                  /\ Polled(t, Tail(ready), TRUE)
                  /\ UNCHANGED wakers
         ELSE /\ wakers' = wakers \cup {t}
              /\ Polled(t, Tail(ready), FALSE)
              /\ UNCHANGED <<responses, results>>
    /\ UNCHANGED <<steps, endpoint, delivered, budgets, frame, reply, met, halted>>

\* on_request fails when the reply slot is taken (mint_reply needs an empty
\* slot), or when a transfer is not the client's to make.
GrantFails(msg) ==
    \E i \in DOMAIN Transfers(msg) :
       frame.at # "client" \/ ~(Transfers(msg)[i] \subseteq frame.rights)

RequestFails(msg) == reply # NoReply \/ GrantFails(msg)

Granted(msg) ==
    IF Transfers(msg) = <<>> THEN frame
    ELSE [at |-> "server", rights |-> Transfers(msg)[1]]

\* do_reply's consumption of the slot.
Consume(caller) == NoReply

\* on_request mints the reply capability; server_body then works, answers the
\* caller the capability names and hands the unused budget back, all before
\* its next await: the slot is empty again when the poll ends.
Serve(t, sender, msg) ==
    IF RequestFails(msg)
      THEN /\ halted' = TRUE
           /\ UNCHANGED <<execVars, responses, wakers, budgets, frame, reply>>
      ELSE LET resp   == Response([msg EXCEPT !.badge = sender])
               worked == Charge(budgets.server, WorkUnits)
               back   == Delegate(worked, budgets.client, Remaining(worked))
           IN  /\ reply' = Consume(sender)
               /\ frame' = Granted(msg)
               /\ responses' = Insert(responses, [to |-> sender, msg |-> resp])
               /\ wakers' = wakers \ {sender}
               /\ budgets' = [server |-> back[1], client |-> back[2]]
               /\ Polled(t, Wake(Tail(ready), sender), TRUE)
               /\ UNCHANGED halted

\* A poll of a Recv: a request put aside for it comes first, then, once only,
\* the endpoint is asked; otherwise the receiver registers and is pending.
RecvDelivered(t) ==
    \E d \in delivered :
      /\ d.to = t
      /\ delivered' = delivered \ {d}
      /\ Serve(t, d.from, d.msg)
      /\ UNCHANGED <<steps, endpoint, results, met>>

RecvAsk(t) ==
    /\ \A d \in delivered : d.to # t
    /\ steps[t] = 0
    /\ steps' = [steps EXCEPT ![t] = 1]
    /\ endpoint' = Recv(endpoint, t)
    /\ IF Receives(endpoint)
         THEN /\ met' = [from |-> Sender(endpoint).party, to |-> t, msg |-> Sender(endpoint).msg]
              /\ Serve(t, Sender(endpoint).party, Sender(endpoint).msg)
         ELSE /\ wakers' = wakers \cup {t}
              /\ Polled(t, Tail(ready), FALSE)
              /\ UNCHANGED <<met, responses, budgets, frame, reply, halted>>
    /\ UNCHANGED <<delivered, results>>

RecvPending(t) ==
    /\ \A d \in delivered : d.to # t
    /\ steps[t] = 1
    /\ wakers' = wakers \cup {t}
    /\ Polled(t, Tail(ready), FALSE)
    /\ UNCHANGED <<steps, endpoint, delivered, responses, budgets, frame, reply,
                   results, met, halted>>

\* A poll of a worker: it leaves a mark and yields, its own waker putting it
\* at the end of the queue; after the last mark the poll ends it.
WorkerStep(t) ==
    /\ IF steps[t] < Body(t).iters
         THEN /\ steps' = [steps EXCEPT ![t] = @ + 1]
              /\ Polled(t, Woken(Tail(ready), t), FALSE)
         ELSE /\ steps' = steps
              /\ Polled(t, Tail(ready), TRUE)
    /\ UNCHANGED <<worldVars, halted>>

-----------------------------------------------------------------------------
(* The steps of a run.                                                      *)

PollClient(t) == IsKind(t, "client") /\ MayPoll(t) /\ (CallSend(t) \/ CallAwait(t))

PollServer(t) ==
    /\ IsKind(t, "server") /\ MayPoll(t)
    /\ RecvDelivered(t) \/ RecvAsk(t) \/ RecvPending(t)

PollWorker(t) == IsKind(t, "worker") /\ MayPoll(t) /\ WorkerStep(t)

\* run and demo_executor spawn their bodies in order, then enter the loop.
SpawnNext ==
    /\ setup.bodies # <<>>
    /\ \E t \in Spawned :
         /\ Live = 1 .. t - 1
         /\ Spawn(t, NewBudget(Body(t).budget))
    /\ UNCHANGED <<worldVars, steps, halted>>

Enter ==
    /\ setup.bodies # <<>> /\ Live = Spawned
    /\ Run
    /\ UNCHANGED <<worldVars, steps, halted>>

Loop ==
    /\ PopStale \/ PopDepleted \/ Return
    /\ UNCHANGED <<worldVars, steps, halted>>

Period ==
    /\ Replenish
    /\ UNCHANGED <<worldVars, steps, halted>>

Stray(t) ==
    /\ strays > 0
    /\ strays' = strays - 1
    /\ StrayWake(t)
    /\ UNCHANGED <<worldVars, steps, halted>>

ExecStep ==
    \/ \E t \in Parties : PollClient(t) \/ PollServer(t) \/ PollWorker(t)
    \/ SpawnNext
    \/ Enter
    \/ Loop

ExecNext ==
    /\ ~halted
    /\ UNCHANGED <<setup, notification, decoded>>
    /\ \/ ExecStep /\ UNCHANGED strays
       \/ Period /\ UNCHANGED strays
       \/ \E t \in Spawned : Stray(t)

\* The crate by itself: each party sends, receives, signals, waits and gives
\* up as it likes.  A blocked party does nothing else until it is matched.
AtEndpoint == {w.party : w \in Range(endpoint.senders)} \cup Range(endpoint.receivers)
AtNotification == Range(notification.waiters)
Blocked == AtEndpoint \cup AtNotification

DirectMsg(p) == WithData(0, <<p % (WordMax + 1)>>)

DirectSend(p) ==
    /\ endpoint' = Send(endpoint, p, DirectMsg(p))
    /\ met' = IF Delivers(endpoint)
                THEN [from |-> p, to |-> Receiver(endpoint), msg |-> DirectMsg(p)]
                ELSE met
    /\ UNCHANGED notification

DirectRecv(p) ==
    /\ endpoint' = Recv(endpoint, p)
    /\ met' = IF Receives(endpoint)
                THEN [from |-> Sender(endpoint).party, to |-> p, msg |-> Sender(endpoint).msg]
                ELSE met
    /\ UNCHANGED notification

DirectSignal ==
    /\ notification' = Signal(notification)
    /\ UNCHANGED <<endpoint, met>>

DirectWait(p) ==
    /\ notification' = Wait(notification, p)
    /\ UNCHANGED <<endpoint, met>>

DirectGiveUp(p) ==
    \/ /\ p \in AtEndpoint
       /\ endpoint' = Cancel(endpoint, p)
       /\ UNCHANGED <<notification, met>>
    \/ /\ p \in AtNotification
       /\ notification' = CancelWait(notification, p)
       /\ UNCHANGED <<endpoint, met>>

\* The last word has one bit more than the fields, which decode ignores.
Words == 0 .. 2 ^ (2 * FieldBits + LabelBits + 1) - 1

DecodeWord ==
    /\ setup.use = "words"
    /\ \E word \in Words : decoded' = [word |-> word, info |-> Decode(word)]
    /\ UNCHANGED <<execVars, worldVars, setup, steps, notification, strays, halted>>

DirectNext ==
    /\ setup.use = "objects"
    /\ \E p \in Parties :
         \/ p \notin Blocked /\ (DirectSend(p) \/ DirectRecv(p) \/ DirectSignal \/ DirectWait(p))
         \/ DirectGiveUp(p)
    /\ UNCHANGED <<execVars, setup, steps, wakers, delivered, responses, budgets, frame,
                   reply, results, decoded, strays, halted>>

Next == ExecNext \/ DirectNext \/ DecodeWord

\* The run loop never stops while a task is queued, and a new period begins
\* whenever the loop has returned with tasks left.  Stray wakes and the direct
\* users of the crate owe nothing.
Spec ==
    /\ Init /\ [][Next]_vars
    /\ WF_vars(~halted /\ ExecStep /\ UNCHANGED <<setup, notification, decoded, strays>>)
    /\ WF_vars(~halted /\ Period /\ UNCHANGED <<setup, notification, decoded, strays>>)

-----------------------------------------------------------------------------
(* Properties.                                                              *)

Msgs == {RequestOf(p, caps) : p \in Parties, caps \in {0, 1}} \cup {DirectMsg(p) : p \in Parties}

\* Type invariant of the executor and of the IPC world.
TypeOK ==
    /\ Live \subseteq Spawned /\ Range(ready) \cup Range(parked) \subseteq Spawned
    /\ \A t \in Live : tasks[t].capacity \in 0 .. U32Max /\ tasks[t].consumed \in 0 .. U32Max
    /\ mode \in {"admit", "run", "idle"}
    /\ \A w \in Range(endpoint.senders) : w.party \in Parties /\ w.msg \in Msgs
    /\ Blocked \subseteq Parties
    /\ wakers \subseteq Clients \cup Servers
    /\ \A d \in delivered : d.to \in Servers /\ d.from \in Clients /\ d.msg \in Msgs
    /\ \A r \in responses : r.to \in Clients
    /\ \A b \in {"client", "server"} : budgets[b].capacity \in 0 .. U32Max
         /\ budgets[b].consumed \in 0 .. U32Max
    /\ frame.at \in {"client", "server"} /\ frame.rights \subseteq FrameRights
    /\ reply \in Clients \cup {NoReply}
    /\ DOMAIN results \subseteq Clients

\* No wake-up is lost: a live task that is neither queued nor parked is a
\* caller or a receiver that has registered its waker and for which nothing has
\* arrived; a parked task is on the list once, live, and out of budget; nobody
\* waits on a notification that is pending.  So when run_until_idle returns,
\* every task it leaves is parked on its budget or really has nobody to answer.
NoLostWakeup ==
    /\ TypeOK
    /\ \A t \in Live \ (Range(ready) \cup Range(parked)) :
         /\ t \notin Workers
         /\ steps[t] = 1 /\ t \in wakers
         /\ \A m \in delivered \cup responses : m.to # t
    /\ \A i, j \in DOMAIN parked : parked[i] = parked[j] => i = j
    /\ \A t \in Range(parked) : t \in Live /\ IsDepleted(tasks[t])
    /\ notification.pending => notification.waiters = <<>>

\* Every request that was sent is in exactly one place: offered at the endpoint,
\* put aside for one receiver, answered, or returned to its caller, who gets the
\* answer to its own request whichever server took it.  The boot never stops in
\* between: the reply slot is free whenever a request is taken, and a frame to
\* be transferred is still the client's.
RequestOnce ==
    /\ ~halted
    /\ \A t \in Clients :
         LET places == Cardinality({i \in DOMAIN endpoint.senders : endpoint.senders[i].party = t})
                       + Cardinality({d \in delivered : d.from = t})
                       + Cardinality({r \in responses : r.to = t})
                       + (IF t \in DOMAIN results THEN 1 ELSE 0)
         IN  places = steps[t]
    /\ \A t \in DOMAIN results : results[t] = Response(Request(t))

\* Passive server: the two budgets never hold more or less capacity than the
\* client started with, and with one client whose call has returned, the client
\* has paid for the work and the server keeps nothing it could run on.
CallerPays ==
    /\ budgets.client.capacity + budgets.server.capacity = ClientBudget
    /\ (Cardinality(Clients) = 1 /\ DOMAIN results = Clients) =>
         /\ Remaining(budgets.client) = ClientBudget - WorkUnits
         /\ Remaining(budgets.server) = 0

\* Decoding is total and exact: a word is refused precisely when a count is
\* beyond its limit, and otherwise encodes back to the word's defined bits.
DecodeExact ==
    IF decoded.word % 2 ^ FieldBits > MsgRegs
         \/ (decoded.word \div 2 ^ FieldBits) % 2 ^ FieldBits > MaxCaps
      THEN IsErr(decoded.info)
      ELSE Encode(decoded.info) = decoded.word % 2 ^ (2 * FieldBits + LabelBits)

\* The endpoint keeps the promise of a rendezvous: one line of waiters of one
\* kind, each meeting taking the oldest of both, cancelled waiters never met.
Line ==
    [i \in DOMAIN endpoint.senders |->
       [kind |-> "offer", party |-> endpoint.senders[i].party, msg |-> endpoint.senders[i].msg]]
    \o [i \in DOMAIN endpoint.receivers |-> [kind |-> "take", party |-> endpoint.receivers[i]]]

Abs == INSTANCE Rendezvous WITH line <- Line

ImplementsRendezvous == Abs!LineSpec

\* When no server is missing and every body has a budget, all of them finish:
\* calls return and parked tasks run again.
AllFinish ==
    setup.bodies # <<>> /\ Cardinality(Clients) = Cardinality(Servers)
      /\ (\A t \in Spawned : Body(t).budget > 0)
    => <>(mode = "idle" /\ Live = {} /\ DOMAIN results = Clients /\ IsIdle(endpoint))
=============================================================================
