----------------------------- MODULE Rendezvous -----------------------------
(***************************************************************************)
(* What an endpoint promises, without saying how it keeps its waiters.     *)
(* One line forms, of parties that all want the same thing: an offer that  *)
(* finds a taker at the head of the line meets it, otherwise it joins the  *)
(* line; a taker likewise.  So nobody waits beside a partner, a meeting    *)
(* consumes one offer and one taker, and both are the oldest of their      *)
(* kind.  met is the last meeting.                                         *)
(***************************************************************************)
EXTENDS Subsequences

CONSTANTS
    Parties,    \* who may come
    Msgs,       \* what may be offered
    NoMeeting   \* met before the first meeting

VARIABLES line, met

Offering(p, m) == [kind |-> "offer", party |-> p, msg |-> m]
Taking(p) == [kind |-> "take", party |-> p]

Of(kind) == line # <<>> /\ Head(line).kind = kind

Meet(from, to, m) ==
    /\ line' = Tail(line)
    /\ met' = [from |-> from, to |-> to, msg |-> m]

Join(w) ==
    /\ line' = Append(line, w)
    /\ UNCHANGED met

Offer(p, m) ==
    IF Of("take") THEN Meet(p, Head(line).party, m) ELSE Join(Offering(p, m))

Taker(p) ==
    IF Of("offer") THEN Meet(Head(line).party, p, Head(line).msg) ELSE Join(Taking(p))

Withdraw(p) ==
    /\ line' = Entries(line, {i \in DOMAIN line : line[i].party # p})
    /\ UNCHANGED met

LineInit == line = <<>> /\ met = NoMeeting

LineNext ==
    \E p \in Parties :
      \/ \E m \in Msgs : Offer(p, m)
      \/ Taker(p)
      \/ Withdraw(p)

LineSpec == LineInit /\ [][LineNext]_<<line, met>>
=============================================================================
