------------------------------- MODULE CSpace -------------------------------
(***************************************************************************)
(* The capability spaces of cap-core (src/cap-core/src/cspace.rs): slots    *)
(* of capabilities, the derivation tree that links each slot to the slot it *)
(* was derived from, the operations that derive, move, split, grant and     *)
(* destroy capabilities, and the zeroing of the memory they name.           *)
(*                                                                         *)
(* Several spaces are modelled at once because GRANT crosses two of them.   *)
(* An operation the code refuses changes nothing and is not a step.  REVOKE *)
(* and DELETE are loops in the code: op holds the one in progress, each     *)
(* iteration is a step, and no other operation starts before it is done     *)
(* (the code holds &mut CSpace, with preemption masked).                    *)
(***************************************************************************)
EXTENDS Integers, FiniteSetsExt

CONSTANTS
  Spaces,        \* the capability spaces
  N,             \* slots per space
  U32Max,        \* the largest value of a u32
  Boot,          \* the capabilities the boot path installs: space, slot -> Cte
  Callers,       \* the callers a Reply can name
  \* Bounds and choices of arguments:
  RetypeTypes,   \* object types RETYPE is asked for
  MaxPerObj,     \* largest frames_per_obj
  NewRights,     \* the new_rights arguments of MINT and GRANT
  GrantModes,    \* the modes GRANT is called with
  MaxObj         \* bound on next_obj

VARIABLES
  slots,         \* slots[s][c]: the capability table entry of slot c of space s
  nextObj,       \* nextObj[s]: next id for an object without frames
  dirty,         \* the physical frames that hold data
  op             \* the REVOKE or DELETE in progress

vars == <<slots, nextObj, dirty, op>>

-----------------------------------------------------------------------------
(* Capabilities.                                                           *)

CapTypes == {"Null", "Untyped", "Frame", "CNode", "Endpoint", "Notification",
             "Task", "Sched", "Reply", "AddrSpace", "VSpace", "FNode",
             "Device", "IrqControl", "Domain", "SharedRo"}

Rights == {"READ", "WRITE", "EXECUTE", "MAP", "GRANT", "RETYPE", "SEND",
           "RECV", "SIGNAL", "DERIVE", "ENTER", "WAIT"}

(* Types whose capability carries state or authority of its own and is      *)
(* never duplicated by MINT or COPY.                                       *)
NonDuplicable == {"Untyped", "Sched", "Reply", "Domain", "SharedRo"}

(* Types whose objref is not a frame number the capability owns: destroying *)
(* the last one zeroes nothing.                                            *)
NotZeroed == {"Untyped", "Sched", "Reply", "Domain", "SharedRo"}

NotRetypeable == {"Null", "Untyped", "Reply", "IrqControl", "Sched", "Domain",
                  "SharedRo"}

DefaultRights(t) ==
  CASE t = "Untyped"      -> {"RETYPE"}
    [] t = "Frame"        -> {"READ", "WRITE", "MAP", "GRANT", "DERIVE"}
    [] t = "CNode"        -> {"DERIVE", "GRANT"}
    [] t = "Endpoint"     -> {"SEND", "RECV", "GRANT", "DERIVE"}
    [] t = "Notification" -> {"SIGNAL", "RECV", "DERIVE"}
    [] OTHER              -> {"DERIVE"}

Slots == 0 .. N - 1
NIL   == -1              \* the parent of a derivation root

(* A table entry: the type-erased capability and its parent slot.  For a    *)
(* Sched, size is the budget and wm what is consumed of it.                *)
Cte == [type: CapTypes, rights: SUBSET Rights, objref: Nat, size: 0 .. U32Max,
        wm: 0 .. U32Max, parent: Slots \cup {NIL}]

Entry(type, rights, objref, size, parent) ==
  [type |-> type, rights |-> rights, objref |-> objref, size |-> size,
   wm |-> 0, parent |-> parent]

EMPTY == Entry("Null", {}, 0, 0, NIL)

(* What the boot path installs, always as derivation roots.                *)
RootUntyped(base, frames)     == Entry("Untyped", {"RETYPE"}, base, frames, NIL)
RootSched(objref, budget)     == Entry("Sched", {"DERIVE", "GRANT"}, objref, budget, NIL)
RootDomain(id)                == Entry("Domain", {"ENTER"}, id, 0, NIL)
InstalledNotification(id, r)  == Entry("Notification", r, id, 0, NIL)
InstalledSharedRo(pfn, n)     == Entry("SharedRo", {"READ"}, pfn, n, NIL)
InstalledFrame(pfn, n, r)     == Entry("Frame", r, pfn, n, NIL)

BootTypes == {"Null", "Untyped", "Sched", "Domain", "Notification", "SharedRo",
              "Frame"}

-----------------------------------------------------------------------------
(* The derivation tree of a table t (a function from Slots to Cte).        *)

IsLive(t, c) == t[c].type # "Null"

HasChildren(t, d) == \E k \in Slots : IsLive(t, k) /\ t[k].parent = d

(* Up(t, start)[n]: the slot n parents above start, NIL once the root is    *)
(* passed.                                                                 *)
Up(t, start) ==
  LET up[n \in 0 .. N + 1] ==
        IF n = 0 THEN start
        ELSE IF up[n - 1] = NIL THEN NIL ELSE t[up[n - 1]].parent
  IN  up

(* A walk that goes up before it compares. *)
IsDescendantLate(t, start, ancestor) == \E n \in 2 .. N + 1 : Up(t, start)[n] = ancestor

(* The walk of is_descendant: whether ancestor is met within 0..=N          *)
(* iterations.                                                             *)
IsDescendant(t, start, ancestor) == \E n \in 1 .. N + 1 : Up(t, start)[n] = ancestor

(* The slots derived from c: what is left of the least set that holds c and *)
(* every slot whose parent it holds.  WalkFindsDescendants says that the    *)
(* walk computes this set.                                                 *)
Subtree(t, c) ==
  {d \in Slots :
     \A S \in SUBSET Slots :
        (c \in S /\ \A k \in Slots : t[k].parent \in S => k \in S) => d \in S}

Descendants(t, c) == Subtree(t, c) \ {c}

(* A find that only looks at the children of c. *)
LeavesOfChildren(t, c) ==
  {d \in Slots \ {c} : IsLive(t, d) /\ t[d].parent = c /\ ~HasChildren(t, d)}

(* The candidates of revoke's find: descendants of c without children.      *)
Leaves(t, c) == {d \in Descendants(t, c) : IsLive(t, d) /\ ~HasChildren(t, d)}

SatAdd(a, b) == IF a + b > U32Max THEN U32Max ELSE a + b
Remaining(e) == IF e.size > e.wm THEN e.size - e.wm ELSE 0

FramesOf(e) == e.objref .. (e.objref + e.size - 1)

(* A variant of destroy_slot's zeroing, in which any other capability of    *)
(* the type counts as another one of the object.                           *)
ZeroedIfLastOfType(t, d) ==
  IF \/ t[d].type \in NotZeroed
     \/ \E k \in Slots \ {d} : t[k].type = t[d].type
  THEN {}
  ELSE FramesOf(t[d])

(* destroy_slot: the table without d, the budget of a Sched given back to   *)
(* its Sched parent, and the frames that are zeroed because no other slot   *)
(* of this space names the same object.                                    *)
Without(t, d) ==
  [k \in Slots |->
     IF k = d THEN EMPTY
     ELSE IF t[d].type = "Sched" /\ k = t[d].parent /\ t[k].type = "Sched"
     THEN [t[k] EXCEPT !.size = SatAdd(@, t[d].size)]
     ELSE t[k]]

ZeroedBy(t, d) ==
  IF \/ t[d].type \in NotZeroed
     \/ \E k \in Slots \ {d} : t[k].type = t[d].type /\ t[k].objref = t[d].objref
  THEN {}
  ELSE FramesOf(t[d])

-----------------------------------------------------------------------------
(* Operations on one space.                                                *)

Idle == [active |-> FALSE]
Destroying(s, c, delete) ==
  [active |-> TRUE, space |-> s, slot |-> c, delete |-> delete]

(* place: dest is a slot of the space and empty.                           *)
Place(s, dest, e) ==
  /\ ~IsLive(slots[s], dest)
  /\ slots' = [slots EXCEPT ![s] = [slots[s] EXCEPT ![dest] = e]]

(* The frames an Untyped has left, and the i-th object carved out of them;  *)
(* the mutants forget the watermark and the size of the objects before.     *)
AvailableEver(u) == u.size
Available(u) == u.size - u.wm

ObjectAtPacked(u, i, perObj) == u.objref + u.wm + i
ObjectAt(u, i, perObj) == u.objref + u.wm + i * perObj

Retype(s, ut, t, perObj, count, dest) ==
  LET u    == slots[s][ut]
      need == perObj * count
      base == u.objref + u.wm
      into == dest .. dest + count - 1
  IN /\ ~op.active
     /\ u.type = "Untyped"
     /\ "RETYPE" \in u.rights
     /\ t \notin NotRetypeable
     /\ perObj > 0 /\ count > 0
     /\ need <= Available(u)
     /\ dest + count <= N
     /\ \A k \in into : ~IsLive(slots[s], k)
     /\ slots' = [slots EXCEPT ![s] =
                    [k \in Slots |->
                       IF k \in into
                       THEN Entry(t, DefaultRights(t), ObjectAt(u, k - dest, perObj), perObj, ut)
                       ELSE IF k = ut THEN [u EXCEPT !.wm = u.wm + need]
                       ELSE slots[s][k]]]
     /\ dirty' = dirty \ (base .. base + need - 1)
     /\ UNCHANGED <<nextObj, op>>

(* What mint requires of its source; the mutant lets it widen the rights.   *)
MayMintWider(e, r) == e.type \notin NonDuplicable /\ "DERIVE" \in e.rights
MayMint(e, r) == e.type \notin NonDuplicable /\ "DERIVE" \in e.rights /\ r \subseteq e.rights

Mint(s, src, dest, r) ==
  LET e == slots[s][src]
  IN /\ ~op.active
     /\ IsLive(slots[s], src)
     /\ MayMint(e, r)
     /\ Place(s, dest, [e EXCEPT !.rights = r, !.parent = src])
     /\ UNCHANGED <<nextObj, dirty, op>>

(* A copy is a sibling of its source; the copy of a root is its child.      *)
Copy(s, src, dest) ==
  LET e == slots[s][src]
  IN /\ ~op.active
     /\ IsLive(slots[s], src)
     /\ e.type \notin NonDuplicable
     /\ "DERIVE" \in e.rights
     /\ Place(s, dest, [e EXCEPT !.parent = IF e.parent = NIL THEN src ELSE e.parent])
     /\ UNCHANGED <<nextObj, dirty, op>>

(* The table after a move: the capability and its place in the tree move,   *)
(* children follow.  The mutant leaves the source in place.                 *)
MovedKept(t, src, dest) == [t EXCEPT ![dest] = t[src]]

Moved(t, src, dest) ==
  [k \in Slots |->
     IF k = src THEN EMPTY
     ELSE IF k = dest THEN t[src]
     ELSE IF t[k].parent = src THEN [t[k] EXCEPT !.parent = dest]
     ELSE t[k]]

MoveCap(s, src, dest) ==
  LET t == slots[s]
  IN /\ ~op.active
     /\ IsLive(t, src)
     /\ ~IsLive(t, dest)
     /\ slots' = [slots EXCEPT ![s] = Moved(t, src, dest)]
     /\ UNCHANGED <<nextObj, dirty, op>>

(* split's use of next_obj.                                                *)
FreshObj(s) == nextObj' = [nextObj EXCEPT ![s] = @ + 1]

(* SPLIT carves amount out of a Sched into a new child Sched.               *)
Split(s, src, dest, amount) ==
  LET e == slots[s][src]
  IN /\ ~op.active
     /\ nextObj[s] <= MaxObj
     /\ e.type = "Sched"
     /\ "DERIVE" \in e.rights
     /\ amount > 0 /\ amount <= Remaining(e)
     /\ ~IsLive(slots[s], dest)
     /\ slots' = [slots EXCEPT ![s] =
                    [k \in Slots |->
                       IF k = dest THEN Entry("Sched", e.rights, nextObj[s], amount, src)
                       ELSE IF k = src THEN [e EXCEPT !.size = e.size - amount]
                       ELSE slots[s][k]]]
     /\ FreshObj(s)
     /\ UNCHANGED <<dirty, op>>

(* Budget::delegate's checked_add.                                         *)
Accepts(d, amount) == d.size + amount <= U32Max

(* DELEGATE moves amount from one Sched to another, unless it overflows.    *)
Delegate(s, src, dest, amount) ==
  LET e == slots[s][src]
      d == slots[s][dest]
  IN /\ ~op.active
     /\ src # dest
     /\ e.type = "Sched" /\ d.type = "Sched"
     /\ "DERIVE" \in e.rights
     /\ amount > 0 /\ amount <= Remaining(e)
     /\ Accepts(d, amount)
     /\ slots' = [slots EXCEPT ![s] =
                    [k \in Slots |->
                       IF k = src THEN [e EXCEPT !.size = e.size - amount]
                       ELSE IF k = dest THEN [d EXCEPT !.size = d.size + amount]
                       ELSE slots[s][k]]]
     /\ UNCHANGED <<nextObj, dirty, op>>

(* The kernel mints a Reply for a caller that waits for its one answer.     *)
MintReply(s, dest, caller) ==
  /\ ~op.active
  /\ \A s2 \in Spaces, k \in Slots :
       ~(slots[s2][k].type = "Reply" /\ slots[s2][k].objref = caller)
  /\ Place(s, dest, Entry("Reply", {}, caller, 0, NIL))
  /\ UNCHANGED <<nextObj, dirty, op>>

(* A destroy_slot that returns early while another slot names the object.   *)
DestroyIfLast(s, d) ==
  /\ slots' = IF ZeroedBy(slots[s], d) = {} THEN slots
              ELSE [slots EXCEPT ![s] = Without(slots[s], d)]
  /\ dirty' = dirty \ ZeroedBy(slots[s], d)

DestroySlot(s, d) ==
  /\ slots' = [slots EXCEPT ![s] = Without(slots[s], d)]
  /\ dirty' = dirty \ ZeroedBy(slots[s], d)

ConsumeReply(s, c) ==
  /\ ~op.active
  /\ slots[s][c].type = "Reply"
  /\ DestroySlot(s, c)
  /\ UNCHANGED <<nextObj, op>>

(* revoke and delete: the check that c is live, then the loop.             *)
Revoke(s, c, delete) ==
  /\ ~op.active
  /\ IsLive(slots[s], c)
  /\ op' = Destroying(s, c, delete)
  /\ UNCHANGED <<slots, nextObj, dirty>>

(* One iteration: the first leaf below the revoked slot is destroyed.       *)
RevokeStep ==
  /\ op.active
  /\ \E d \in Leaves(slots[op.space], op.slot) :
       /\ \A e \in Leaves(slots[op.space], op.slot) : d <= e
       /\ DestroySlot(op.space, d)
  /\ UNCHANGED <<nextObj, op>>

(* The loop found no leaf: an Untyped is reusable from its first frame on,  *)
(* and delete destroys the slot itself.                                    *)
RevokeDone ==
  LET s == op.space
      c == op.slot
      e == slots[s][c]
  IN /\ op.active
     /\ Leaves(slots[s], c) = {}
     /\ \/ /\ op.delete
           /\ DestroySlot(s, c)
        \/ /\ ~op.delete
           /\ slots' = IF e.type = "Untyped"
                       THEN [slots EXCEPT ![s] = [slots[s] EXCEPT ![c] = [e EXCEPT !.wm = 0]]]
                       ELSE slots
           /\ dirty' = dirty
     /\ op' = Idle
     /\ UNCHANGED nextObj

-----------------------------------------------------------------------------
(* The capabilities grant accepts, and whether a Move may vacate the source *)
(* slot; the mutants fork a Sched and orphan the children.                  *)
GrantableFork(e, r, mode) ==
  /\ e.type \notin {"Null", "Reply", "SharedRo"}
  /\ "GRANT" \in e.rights
  /\ r \subseteq e.rights

Grantable(e, r, mode) ==
  /\ e.type \notin {"Null", "Reply", "SharedRo"}
  /\ mode = "Mint" => e.type \notin {"Untyped", "Sched", "Domain"}
  /\ "GRANT" \in e.rights
  /\ r \subseteq e.rights

VacatesAny(t, c, mode) == TRUE
Vacates(t, c, mode) == mode = "Move" => ~HasChildren(t, c)

(* A grant that leaves the source in place.                                *)
GrantKept(a, src, b, dest, r, mode) ==
  /\ ~op.active
  /\ a # b
  /\ Grantable(slots[a][src], r, mode)
  /\ Place(b, dest, [slots[a][src] EXCEPT !.rights = r, !.parent = NIL])
  /\ UNCHANGED <<nextObj, dirty, op>>

(* GRANT from slot src of space a to slot dest of another space b.          *)
Grant(a, src, b, dest, r, mode) ==
  LET e == slots[a][src]
  IN /\ ~op.active
     /\ a # b
     /\ Grantable(e, r, mode)
     /\ Vacates(slots[a], src, mode)
     /\ ~IsLive(slots[b], dest)
     /\ slots' = [slots EXCEPT
                    ![a] = IF mode = "Move" THEN [slots[a] EXCEPT ![src] = EMPTY] ELSE @,
                    ![b] = [slots[b] EXCEPT ![dest] = [e EXCEPT !.rights = r, !.parent = NIL]]]
     /\ UNCHANGED <<nextObj, dirty, op>>

(* The holder of a writable Frame stores into it.                          *)
WriteFrame(s, c) ==
  /\ ~op.active
  /\ slots[s][c].type = "Frame"
  /\ "WRITE" \in slots[s][c].rights
  /\ dirty' = dirty \cup FramesOf(slots[s][c])
  /\ UNCHANGED <<slots, nextObj, op>>

-----------------------------------------------------------------------------
Init ==
  /\ slots = Boot
  /\ nextObj = [s \in Spaces |-> IF \E c \in Slots : Boot[s][c].type = "Sched" THEN 2 ELSE 1]
  /\ dirty = {}
  /\ op = Idle

Next ==
  \/ \E s \in Spaces, c, dest \in Slots :
       \/ \E t \in RetypeTypes, perObj \in 0 .. MaxPerObj, count \in 0 .. N :
            Retype(s, c, t, perObj, count, dest)
       \/ \E r \in NewRights : Mint(s, c, dest, r)
       \/ Copy(s, c, dest)
       \/ MoveCap(s, c, dest)
       \/ \E amount \in 0 .. U32Max : Split(s, c, dest, amount)
       \/ \E amount \in 0 .. U32Max : Delegate(s, c, dest, amount)
       \/ \E b \in Spaces, r \in NewRights, mode \in GrantModes :
            Grant(s, c, b, dest, r, mode)
  \/ \E s \in Spaces, c \in Slots :
       \/ \E caller \in Callers : MintReply(s, c, caller)
       \/ ConsumeReply(s, c)
       \/ \E delete \in BOOLEAN : Revoke(s, c, delete)
       \/ WriteFrame(s, c)
  \/ RevokeStep
  \/ RevokeDone

(* The loop runs to its end: the caller of revoke holds the space.          *)
Fairness == WF_vars(RevokeStep \/ RevokeDone)

Spec == Init /\ [][Next]_vars /\ Fairness

-----------------------------------------------------------------------------
(* Assumptions on the constants.                                           *)

ASSUME ConstantsAssumption ==
  /\ N \in Nat \ {0}
  /\ U32Max \in Nat
  /\ Callers \subseteq Nat
  /\ RetypeTypes \subseteq CapTypes
  /\ MaxPerObj \in 0 .. U32Max
  /\ NewRights \subseteq SUBSET Rights
  /\ GrantModes \subseteq {"Move", "Mint"}

(* Boot installs roots only; there is one Sched per space at most, numbered *)
(* 1; a Notification has no frames and a Frame has some; no two Untypeds,   *)
(* Domains or Frames overlap.                                              *)
ASSUME BootAssumption ==
  /\ Boot \in [Spaces -> [Slots -> Cte]]
  /\ \A s \in Spaces, c \in Slots :
       /\ Boot[s][c].type \in BootTypes
       /\ Boot[s][c].parent = NIL
       /\ Boot[s][c].wm = 0
       /\ Boot[s][c].type = "Null" => Boot[s][c] = EMPTY
       /\ Boot[s][c].type = "Sched" => Boot[s][c].objref = 1
       /\ Boot[s][c].type = "Notification" => Boot[s][c].size = 0
       /\ Boot[s][c].type = "Frame" => Boot[s][c].size > 0
  /\ \A s1, s2 \in Spaces, c1, c2 \in Slots :
       <<s1, c1>> # <<s2, c2>> =>
         LET e1 == Boot[s1][c1]
             e2 == Boot[s2][c2]
         IN /\ e1.type = "Domain" /\ e2.type = "Domain" => e1.objref # e2.objref
            /\ e1.type = "Sched" /\ e2.type = "Sched" => s1 # s2
            /\ e1.type = "Untyped" /\ e2.type = "Untyped" =>
                 s1 # s2 /\ e1.objref # e2.objref
            /\ e1.type = "Notification" /\ e2.type = "Notification" =>
                 e1.objref # e2.objref
            /\ e1.type \in {"Untyped", "Frame"} /\ e2.type \in {"Untyped", "Frame"} =>
                 FramesOf(e1) \cap FramesOf(e2) = {}

-----------------------------------------------------------------------------
(* Properties.                                                             *)

(* Every table entry is well formed, an empty slot is Cte::EMPTY, and an    *)
(* Untyped never hands out more frames than it has (size - watermark in     *)
(* retype never wraps).                                                    *)
TypeOK ==
  /\ slots \in [Spaces -> [Slots -> Cte]]
  /\ \A s \in Spaces, c \in Slots :
       /\ ~IsLive(slots[s], c) => slots[s][c] = EMPTY
       /\ slots[s][c].wm <= slots[s][c].size
  /\ nextObj \in [Spaces -> Nat]
  /\ dirty \subseteq Nat
  /\ op \in {Idle} \cup [active: {TRUE}, space: Spaces, slot: Slots, delete: BOOLEAN]

(* No parent link dangles: the parent of a capability is a live slot, after *)
(* every move, grant and step of a revoke, and although slots are reused.   *)
ParentsLive ==
  \A s \in Spaces, c \in Slots :
    slots[s][c].parent # NIL => IsLive(slots[s], slots[s][c].parent)

(* The derivation links form a forest: every set of slots has one whose     *)
(* parent is outside it.  (is_descendant calls its cycle guard              *)
(* unreachable.)                                                           *)
Forest ==
  \A s \in Spaces : \A S \in SUBSET Slots :
    S # {} => \E c \in S : slots[s][c].parent \notin S

(* What derivation may make of a capability p: an object retyped from an    *)
(* Untyped, or the same object with no more rights (a Sched child is a new  *)
(* object).                                                                *)
DerivedFrom(e, p) ==
  \/ p.type = "Untyped" /\ e.type \notin NotRetypeable
  \/ /\ e.type = p.type
     /\ e.rights \subseteq p.rights
     /\ p.type # "Sched" => e.objref = p.objref /\ e.size = p.size

(* A capability never has more rights than the one its parent link names,   *)
(* nor another object: through moves, copies of copies and the reuse of     *)
(* emptied slots the link leads to what it was derived from.               *)
DerivationMonotone ==
  \A s \in Spaces, c \in Slots :
    slots[s][c].parent # NIL => DerivedFrom(slots[s][c], slots[s][slots[s][c].parent])

OwnsFrames(e) == e.type \notin NotZeroed \cup {"Null"}

SameObject(e, f) == e.type = f.type /\ e.objref = f.objref /\ e.size = f.size

(* Two capabilities of a space name the same object or objects without a    *)
(* common frame: retype never hands out a frame twice, also after a revoke  *)
(* has reset the watermark.                                                *)
NoAlias ==
  \A s \in Spaces, c, d \in Slots :
    LET e == slots[s][c]
        f == slots[s][d]
    IN  OwnsFrames(e) /\ OwnsFrames(f) =>
          SameObject(e, f) \/ FramesOf(e) \cap FramesOf(f) = {}

(* A frame that holds data is named by a live capability: destroy_slot      *)
(* zeroes an object with its last one.                                     *)
NoResidual ==
  \A f \in dirty : \E s \in Spaces, c \in Slots :
    OwnsFrames(slots[s][c]) /\ f \in FramesOf(slots[s][c])

(* destroy_slot and retype never wipe a frame that a capability still owns  *)
(* when they are done ("Zero the object if this was its last capability").  *)
NeverWipesOwned ==
  [][\A f \in dirty \ dirty' : \A s \in Spaces, c \in Slots :
       OwnsFrames(slots'[s][c]) => f \notin FramesOf(slots'[s][c])]_vars

(* Untypeds, Domains and Replies are never duplicated, within a space or    *)
(* across spaces: a second capability would fork a watermark, launder entry *)
(* or let a server reply twice.                                            *)
Linear ==
  \A s1, s2 \in Spaces, c1, c2 \in Slots :
    <<s1, c1>> # <<s2, c2>> =>
      LET e == slots[s1][c1]
          f == slots[s2][c2]
      IN  e.type \in {"Untyped", "Domain", "Reply"} /\ f.type = e.type =>
            e.objref # f.objref

(* The bounded walk of is_descendant finds exactly the slots derived from   *)
(* its ancestor: its bound of N + 1 parents cuts no chain short.           *)
WalkFindsDescendants ==
  \A s \in Spaces, c, d \in Slots :
    d # c => (IsDescendant(slots[s], d, c) <=> d \in Descendants(slots[s], c))

(* When revoke or delete returns nothing is derived from the slot any more. *)
RevokeComplete ==
  [][op.active /\ ~op'.active =>
       \A k \in Slots : slots'[op.space][k].parent # op.slot]_vars

TotalBudget ==
  MapThenSumSet(LAMBDA x : slots[x[1]][x[2]].size,
                {x \in Spaces \X Slots : slots[x[1]][x[2]].type = "Sched"})

(* What the deletion of a root Sched, which has no parent to return its     *)
(* budget to, takes away in this step.                                     *)
RootBudgetDeleted ==
  LET e == slots[op.space][op.slot]
  IN  IF op.active /\ ~op'.active /\ op.delete /\ e.type = "Sched" /\ e.parent = NIL
      THEN e.size
      ELSE 0

(* CPU time is neither created nor lost: split, delegate, a Move-grant and  *)
(* the return of a destroyed child's budget keep the total over all spaces  *)
(* ("CPU-time is conserved across revoke/delete, not leaked"), and deleting *)
(* a root Sched takes away exactly what it held then.                      *)
BudgetConserved == [][TotalBudget' = TotalBudget - RootBudgetDeleted]_vars

(* CPU time is never created, also when budgets of several roots meet in    *)
(* one space and together exceed a u32; as long as they do not, none is     *)
(* lost either.                                                            *)
BudgetNotForged ==
  [][/\ TotalBudget' <= TotalBudget
     /\ TotalBudget <= U32Max => TotalBudget' = TotalBudget - RootBudgetDeleted]_vars

(* A revoke ends.                                                          *)
RevokeTerminates == op.active ~> ~op.active
=============================================================================
