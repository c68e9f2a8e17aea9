------------------------------ MODULE Endpoint ------------------------------
(***************************************************************************)
(* The rendezvous objects of the ipc crate, as operators on their state:   *)
(* the Endpoint (ipc/src/endpoint.rs), where senders meet receivers, the   *)
(* Notification (ipc/src/notification.rs), a latched signal, and the       *)
(* message descriptor (ipc/src/message.rs).  An operation that both        *)
(* changes the object and answers its caller is a pair of operators: the   *)
(* state it leaves, and the outcome it returns.                            *)
(***************************************************************************)
EXTENDS Integers, Functions, Subsequences

CONSTANTS
    FieldBits,  \* width of the two counts in a descriptor word (8 in the code)
    LabelBits,  \* width of the label (32 in the code)
    MsgRegs,    \* MSG_REGS, inline data words of a message
    MaxCaps     \* MAX_CAPS, capability transfers of a message

ASSUME DescriptorAssumption ==
    /\ FieldBits \in Nat \ {0} /\ LabelBits \in Nat \ {0}
    /\ MsgRegs \in 1 .. 2 ^ FieldBits - 1
    /\ MaxCaps \in 1 .. 2 ^ FieldBits - 1

-----------------------------------------------------------------------------
(* EndpointState: parties offering a message, parties waiting for one.      *)

NewEndpoint == [senders |-> <<>>, receivers |-> <<>>]

SendWaiter(from, msg) == [party |-> from, msg |-> msg]

\* A send that queues although a receiver is waiting.
SendQueues(e, from, msg) ==
    [e EXCEPT !.senders = Append(@, SendWaiter(from, msg))]

Send(e, from, msg) ==
    IF e.receivers # <<>>
      THEN [e EXCEPT !.receivers = Tail(@)]
      ELSE [e EXCEPT !.senders = Append(@, SendWaiter(from, msg))]

\* The receiver a send delivers to: the one that has waited longest.
Delivers(e) == e.receivers # <<>>
Receiver(e) == Head(e.receivers)

\* A receive that takes the newest sender, and one that takes the oldest.
RecvNewest(e, by) ==
    IF e.senders # <<>>
      THEN [e EXCEPT !.senders = SubSeq(@, 1, Len(@) - 1)]
      ELSE [e EXCEPT !.receivers = Append(@, by)]

Recv(e, by) ==
    IF e.senders # <<>>
      THEN [e EXCEPT !.senders = Tail(@)]
      ELSE [e EXCEPT !.receivers = Append(@, by)]

Receives(e) == e.senders # <<>>
Sender(e) == Head(e.senders)

\* cancel: every entry of the party leaves both queues.
Cancel(e, party) ==
    [senders   |-> Entries(e.senders, {i \in DOMAIN e.senders : e.senders[i].party # party}),
     receivers |-> Entries(e.receivers, {i \in DOMAIN e.receivers : e.receivers[i] # party})]

IsIdle(e) == e.senders = <<>> /\ e.receivers = <<>>

-----------------------------------------------------------------------------
(* NotificationState: a pending bit, and the parties waiting for it.        *)

NewNotification == [pending |-> FALSE, waiters |-> <<>>]

\* A signal wakes the oldest waiter, and latches when there is none.
Signal(n) ==
    IF n.waiters # <<>>
      THEN [n EXCEPT !.waiters = Tail(@)]
      ELSE [n EXCEPT !.pending = TRUE]

Wait(n, by) ==
    IF n.pending
      THEN [n EXCEPT !.pending = FALSE]
      ELSE [n EXCEPT !.waiters = Append(@, by)]

CancelWait(n, party) ==
    [n EXCEPT !.waiters = Entries(@, {i \in DOMAIN @ : @[i] # party})]

-----------------------------------------------------------------------------
(* MessageInfo and Message.                                                 *)

TooManyRegs == "TooManyRegs"
TooManyCaps == "TooManyCaps"

\* MessageInfo::new without the bound on the transfers.
InfoRegsOnly(label, n_regs, n_caps) ==
    IF n_regs > MsgRegs THEN [err |-> TooManyRegs]
    ELSE [label |-> label, n_regs |-> n_regs, n_caps |-> n_caps]

Info(label, n_regs, n_caps) ==
    IF n_regs > MsgRegs THEN [err |-> TooManyRegs]
    ELSE IF n_caps > MaxCaps THEN [err |-> TooManyCaps]
    ELSE [label |-> label, n_regs |-> n_regs, n_caps |-> n_caps]

IsErr(r) == "err" \in DOMAIN r

Encode(info) ==
    info.label * 2 ^ (2 * FieldBits) + info.n_caps * 2 ^ FieldBits + info.n_regs

Decode(word) ==
    Info((word \div 2 ^ (2 * FieldBits)) % 2 ^ LabelBits,
         word % 2 ^ FieldBits,
         (word \div 2 ^ FieldBits) % 2 ^ FieldBits)

\* Message::with_data: the words beyond the registers are dropped, the
\* registers beyond the words are zero, and no capability travels.
WithData(label, words) ==
    LET n == IF Len(words) < MsgRegs THEN Len(words) ELSE MsgRegs
    IN  [info  |-> [label |-> label, n_regs |-> n, n_caps |-> 0],
         regs  |-> [i \in 1 .. MsgRegs |-> IF i <= n THEN words[i] ELSE 0],
         caps  |-> <<>>,
         badge |-> 0]

\* Message::data and Message::transfers: the counts are advisory, the
\* storage is the bound.
Data(msg) ==
    SubSeq(msg.regs, 1, IF msg.info.n_regs < MsgRegs THEN msg.info.n_regs ELSE MsgRegs)

Transfers(msg) ==
    SubSeq(msg.caps, 1, IF msg.info.n_caps < MaxCaps THEN msg.info.n_caps ELSE MaxCaps)
=============================================================================
