------------------------------ MODULE MCUserIpc ------------------------------
(* Instances of UserIpc for TLC.                                           *)
EXTENDS UserIpc, SequencesExt

CONSTANTS Srv, Cli, Cli2, Wtr

(* The rights of the manifests (servers also hold SEND, for a clean exit).  *)
HeldDemo ==
  [p \in Procs |-> CASE p = Srv -> {"SEND", "RECV"}
                     [] p = Wtr -> {"SEND", "WAIT"}
                     [] OTHER   -> {"SEND"}]

(* Every process can call and receive; one waits and one signals.           *)
HeldAll ==
  [p \in Procs |-> {"SEND", "RECV", IF p = Wtr THEN "WAIT" ELSE "SIGNAL"}]

Plan(orders, held, arbitrary, supervised, crashAt, maxCalls) ==
  [orders |-> orders, held |-> held, arbitrary |-> arbitrary,
   supervised |-> supervised, crashAt |-> crashAt, maxCalls |-> maxCalls]

(* The reference programs with a supervised server that crashes; and three  *)
(* processes that do what they like, two of them alike but for supervision. *)
DemoAndAny ==
  {Plan(SetToSeqs(Procs), HeldDemo, {}, {Srv}, 2, 4),
   Plan({<<Srv, Cli, Wtr>>, <<Srv, Wtr, Cli>>}, HeldAll, Procs, {Srv}, 0, 2)}

(* Two reference clients of one server.                                    *)
TwoClients == {Plan(SetToSeqs(Procs), HeldDemo, {}, {}, 0, 2)}
=============================================================================
