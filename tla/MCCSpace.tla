------------------------------ MODULE MCCSpace ------------------------------
(* Instances of CSpace for TLC: what each run installs at boot.             *)
EXTENDS CSpace

CONSTANTS A, B           \* two spaces

Table(caps) == [c \in Slots |-> IF c \in DOMAIN caps THEN caps[c] ELSE EMPTY]

(* One space with an Untyped of four frames.                               *)
BootUntyped == [s \in {A} |-> Table([c \in {0} |-> RootUntyped(0, 4)])]

(* A space with a frame of memory, and one that may enter a domain.         *)
BootGrantFrame ==
  [s \in {A, B} |-> Table([c \in {0} |-> IF s = A THEN RootUntyped(0, 1) ELSE RootDomain(7)])]

(* Two spaces with CPU time.                                               *)
BootGrantSched ==
  [s \in {A, B} |-> Table([c \in {0} |-> RootSched(1, IF s = A THEN 2 ELSE 1)])]

(* Grants from either of the two.                                          *)
GrantsInit ==
  /\ slots \in {BootGrantFrame, BootGrantSched}
  /\ nextObj = [s \in Spaces |-> IF slots = BootGrantSched THEN 2 ELSE 1]
  /\ dirty = {}
  /\ op = Idle

GrantsSpec == GrantsInit /\ [][Next]_vars
=============================================================================
