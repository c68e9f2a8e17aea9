------------------------------ MODULE MCLoader ------------------------------
(* An instance of Loader for TLC: an authority of eight frames, six scratch *)
(* slots and a budget of five, two processes, and images that reach every   *)
(* check of the parser and every refusal of the loader.                    *)
EXTENDS Loader, TLC

CONSTANTS P1, P2

Symmetric == Permutations({P1, P2})

AuthBoot ==
  [s \in Spaces |-> [c \in Slots |->
     CASE s = Auth /\ c = 0 -> RootUntyped(0, 8)
       [] s = Auth /\ c = 1 -> RootSched(1, 5)
       [] OTHER -> EMPTY]]

Part(vaddr, memSize, perm, data) ==
  [vaddr |-> vaddr, memSize |-> memSize, perm |-> perm, data |-> data]

Code == Part(8, 2, {"R", "X"}, <<"c">>)
Data == Part(10, 4, {"R", "W"}, <<"d">>)       \* its second page is all tail

Ask(type, dest, rights, param0) ==
  [type |-> type, dest |-> dest, rights |-> rights, param0 |-> param0]

Cpu == Ask("SCHED", 1, {"DERIVE"}, 2)
Ep  == Ask("ENDPOINT", 2, {"SEND"}, 0)

Image(segs, man) == [arch |-> ARCH, entry |-> 9, segs |-> segs, man |-> man]

Full == Image(<<Code, Data>>, <<Cpu, Ep, Ask("FRAME", 0, {"READ"}, 1)>>)

Layouts ==
  {Image(segs, <<Cpu>>) : segs \in
     {<<Code, Part(18, 4, {"R"}, <<>>)>>,          \* leaves the window
      <<Code, Part(12, 0, {"R"}, <<>>)>>,          \* no page
      <<Code, Part(8, 2, {"R", "W"}, <<"d">>)>>,   \* over the code
      <<Part(6, 4, {"R", "X"}, <<"c">>)>>}}        \* starts below the window

Manifests ==
  {Image(<<Code, Data>>, man) : man \in
     {<<Ask("FRAME", 0, {}, 0), Ask("FRAME", 1, {"READ"}, 1)>>,
      <<Ask("FRAME", 0, {"READ"}, 2)>>,            \* no such segment
      <<Ask("SCHED", 1, {"DERIVE"}, U32Max + 2)>>, \* truncated
      <<Ask("SCHED", 1, {"DERIVE"}, 6)>>,          \* more than there is
      <<Ask("SCHED", 1, {"SEND"}, 1)>>,            \* wider than the authority
      <<Cpu, Ask("ENDPOINT", 1, {"SEND"}, 0)>>,    \* the slot is taken
      <<Cpu, Ask("SCHED", 0, {}, 1)>>,
      <<Ask("ENDPOINT", PROCESS_SLOTS, {}, 0)>>,
      <<Ask("ENDPOINT", 2, {"?"}, 0)>>,
      <<Ask("other", 2, {}, 0)>>}}

Damage(at, field, value) == [at |-> at, field |-> field, value |-> value]

Harm ==
  {Damage(0, "magic", FALSE), Damage(0, "version", FALSE), Damage(0, "arch", "there"),
   Damage(0, "total", 14), Damage(0, "reserved", 1), Damage(0, "segCount", 3),
   Damage(0, "segCount", 0), Damage(0, "segOff", 12), Damage(0, "manOff", 11),
   Damage(0, "integLen", 31), Damage(0, "bytes", <<>>), Damage(0, "entry", 10),
   Damage(1, "perm", {"R", "W", "X"}), Damage(1, "perm", {"X"}), Damage(2, "perm", {"R", "?"}),
   Damage(1, "vaddr", 9), Damage(2, "memSize", 3), Damage(1, "fileSize", 3),
   Damage(2, "memSize", 6), Damage(2, "fileOff", 15), Damage(2, "vaddr", 28)}

Files ==
  {[arch |-> ARCH, entry |-> 8, budget |-> 1, badge |-> 0, rights |-> {"SEND", "RECV"},
    segs |-> <<[vaddr |-> 8, memsz |-> 3, flags |-> {"R", "X"}, data |-> <<"c", "c">>],
               [vaddr |-> v, memsz |-> m, flags |-> {"R", "W"}, data |-> <<>>]>>] :
     v \in {13, 14}, m \in {0, 1}}

SmallInputs ==
  {[spec |-> spec, damage |-> Intact] : spec \in {Full} \cup Layouts \cup Manifests}
  \cup {[spec |-> Full, damage |-> d] : d \in Harm}
=============================================================================
