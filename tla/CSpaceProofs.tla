---------------------------- MODULE CSpaceProofs ----------------------------
(***************************************************************************)
(* Proofs about CSpace: the derivation links stay a forest of live slots    *)
(* through every operation of cspace.rs, and what follows from it.          *)
(*                                                                         *)
(* The invariants are proved table by table.  An operation either adds      *)
(* entries below live ones (Grow), empties a slot without children          *)
(* (Shrink), or renames a slot (Rename); each keeps a table a forest.       *)
(***************************************************************************)
EXTENDS CSpace, TLAPS

Live(t) == {c \in Slots : t[c].type # "Null"}

TypedTable(t) ==
  /\ t \in [Slots -> Cte]
  /\ \A c \in Slots : t[c].type = "Null" => t[c] = EMPTY
  /\ \A c \in Slots : t[c].wm <= t[c].size

LinkedTable(t) == \A c \in Slots : t[c].parent # NIL => t[c].parent \in Live(t)

RootedTable(t) ==
  \A S \in SUBSET Slots : S # {} => \E c \in S : t[c].parent \notin S

(* The mirror image of RootedTable, which the revoke loop needs: every set  *)
(* of slots has one that is the parent of none of them.                    *)
LeafyTable(t) ==
  \A S \in SUBSET Slots : S # {} => \E c \in S : \A k \in S : t[k].parent # c

ForestTable(t) == LinkedTable(t) /\ RootedTable(t) /\ LeafyTable(t)

(* Links lead to what a capability was derived from; a Reply, which is not  *)
(* derived, is never a parent, so that consume_reply orphans nothing.       *)
KinTable(t) ==
  \A c \in Slots :
    /\ t[c].parent # NIL => DerivedFrom(t[c], t[t[c].parent])
    /\ t[c].type = "Reply" => t[c].parent = NIL

(* The inductive invariant.                                                *)
TreeInv ==
  /\ TypeOK
  /\ \A s \in Spaces : ForestTable(slots[s]) /\ KinTable(slots[s])

-----------------------------------------------------------------------------
(* Tables.                                                                 *)

LEMMA NILNotSlot == NIL \notin Slots
BY ConstantsAssumption DEF NIL, Slots

LEMMA EmptyFacts ==
  EMPTY \in Cte /\ EMPTY.type = "Null" /\ EMPTY.parent = NIL /\ EMPTY.wm <= EMPTY.size
BY ConstantsAssumption DEF EMPTY, Entry, Cte, CapTypes

(* The parent of an entry is a slot or NIL, and an empty slot is a root.    *)
LEMMA ParentFacts ==
  ASSUME NEW t, TypedTable(t), NEW c \in Slots
  PROVE  /\ t[c].parent \in Slots \cup {NIL}
         /\ c \notin Live(t) => t[c].parent = NIL
<1>1. t[c] \in Cte
  BY Zenon DEF TypedTable
<1>2. QED
  BY Zenon, <1>1, EmptyFacts DEF TypedTable, Cte, Live

(* Entries keep their parents and new ones hang below live slots: mint,     *)
(* copy, retype, split, mint_reply, and the receiving side of a grant.      *)
LEMMA Grow ==
  ASSUME NEW t, NEW u, TypedTable(t), TypedTable(u), ForestTable(t),
         \A k \in Live(t) : k \in Live(u) /\ u[k].parent = t[k].parent,
         \A k \in Live(u) \ Live(t) : u[k].parent \in Live(t) \cup {NIL}
  PROVE  ForestTable(u)
<1> USE NILNotSlot
<1>1. \A k \in Slots : u[k].parent \in Live(t) \cup {NIL}
  BY Zenon, ParentFacts DEF ForestTable, LinkedTable, Live
<1>2. LinkedTable(u)
  BY Zenon, <1>1 DEF LinkedTable
<1>3. ASSUME NEW S \in SUBSET Slots, S # {}
      PROVE  \E c \in S : u[c].parent \notin S
  <2>1. CASE S \cap Live(t) = {}
    BY <2>1, <1>1, <1>3
  <2>2. CASE S \cap Live(t) # {}
    <3>1. PICK c \in S \cap Live(t) : t[c].parent \notin S \cap Live(t)
      BY Zenon, <2>2 DEF ForestTable, RootedTable, Live
    <3>2. u[c].parent = t[c].parent /\ u[c].parent \in Live(t) \cup {NIL}
      BY Zenon, <3>1, <1>1 DEF Live
    <3>3. QED
      BY Zenon, <3>1, <3>2
  <2>3. QED
    BY Zenon, <2>1, <2>2
<1>4. ASSUME NEW S \in SUBSET Slots, S # {}
      PROVE  \E c \in S : \A k \in S : u[k].parent # c
  <2>1. CASE \E c \in S : c \notin Live(t)
    BY <2>1, <1>1
  <2>2. CASE S \subseteq Live(t)
    <3>1. PICK c \in S : \A k \in S : t[k].parent # c
      BY Zenon, <1>4 DEF ForestTable, LeafyTable
    <3>2. QED
      BY Zenon, <3>1, <2>2
  <2>3. QED
    BY Zenon, <2>1, <2>2
<1>5. QED
  BY Zenon, <1>2, <1>3, <1>4 DEF ForestTable, RootedTable, LeafyTable

(* A slot without children becomes empty: an iteration of revoke, the end   *)
(* of a delete, a consumed Reply, and the source of a Move-grant.          *)
LEMMA Shrink ==
  ASSUME NEW t, NEW u, TypedTable(t), TypedTable(u), ForestTable(t),
         NEW d \in Slots, u[d] = EMPTY,
         \A k \in Slots : t[k].parent # d,
         \A k \in Slots \ {d} : u[k].parent = t[k].parent,
         \A k \in Slots \ {d} : k \in Live(t) => k \in Live(u)
  PROVE  ForestTable(u)
<1> USE NILNotSlot, EmptyFacts
<1>1. LinkedTable(u)
  BY Zenon DEF ForestTable, LinkedTable, Live
<1>2. ASSUME NEW S \in SUBSET Slots, S # {}
      PROVE  \E c \in S : u[c].parent \notin S
  <2>1. PICK c \in S : t[c].parent \notin S
    BY Zenon, <1>2 DEF ForestTable, RootedTable
  <2>2. QED
    BY Zenon, <2>1
<1>3. ASSUME NEW S \in SUBSET Slots, S # {}
      PROVE  \E c \in S : \A k \in S : u[k].parent # c
  <2>1. PICK c \in S : \A k \in S : t[k].parent # c
    BY Zenon, <1>3 DEF ForestTable, LeafyTable
  <2>2. QED
    BY Zenon, <2>1
<1>4. QED
  BY Zenon, <1>1, <1>2, <1>3 DEF ForestTable, RootedTable, LeafyTable
(* The entry of a live slot moves to an empty one and its children follow:  *)
(* move_cap.  A set of slots that holds dest stands for the one with src in *)
(* its place.                                                              *)
LEMMA Rename ==
  ASSUME NEW t, NEW u, TypedTable(t), TypedTable(u), ForestTable(t),
         NEW src \in Live(t), NEW dest \in Slots \ Live(t),
         u[src] = EMPTY, u[dest] = t[src],
         \A k \in Slots \ {src, dest} :
           /\ u[k].parent = IF t[k].parent = src THEN dest ELSE t[k].parent
           /\ u[k].type = t[k].type
  PROVE  ForestTable(u)
<1> USE NILNotSlot, EmptyFacts
<1>1. src \in Slots /\ src # dest
  BY Zenon DEF Live
<1>2. \A k \in Slots : t[k].parent # dest
  BY Zenon DEF ForestTable, LinkedTable
<1>3. t[src].parent # src
  <2>1. {src} \in SUBSET Slots /\ {src} # {}
    BY Zenon, <1>1
  <2>2. \E c \in {src} : t[c].parent \notin {src}
    BY Zenon, <2>1 DEF ForestTable, RootedTable
  <2>3. QED
    BY Zenon, <2>2
<1>4. LinkedTable(u)
  <2>1. SUFFICES ASSUME NEW c \in Slots, u[c].parent # NIL
                 PROVE  u[c].parent \in Live(u)
    BY Zenon DEF LinkedTable
  <2>2. dest \in Live(u)
    BY Zenon DEF Live
  <2>3. \A k \in Live(t) \ {src} : k \in Live(u)
    BY Zenon DEF Live
  <2>4. CASE c = dest
    BY Zenon, <2>1, <2>3, <2>4, <1>1, <1>3 DEF ForestTable, LinkedTable
  <2>5. CASE c \notin {src, dest}
    BY Zenon, <2>1, <2>2, <2>3, <2>5 DEF ForestTable, LinkedTable
  <2>6. QED
    BY Zenon, <2>1, <2>4, <2>5
<1>5. ASSUME NEW S \in SUBSET Slots, S # {}
      PROVE  \E c \in S : u[c].parent \notin S
  <2>1. CASE src \in S
    BY Zenon, <2>1
  <2>2. CASE src \notin S /\ dest \notin S
    <3>1. PICK c \in S : t[c].parent \notin S
      BY Zenon, <1>5 DEF ForestTable, RootedTable
    <3>2. QED
      BY Zenon, <3>1, <2>2
  <2>3. CASE src \notin S /\ dest \in S
    <3> DEFINE R == (S \ {dest}) \cup {src}
    <3>1. R \in SUBSET Slots /\ R # {}
      BY Zenon, <1>1
    <3>2. PICK c \in R : t[c].parent \notin R
      BY Zenon, <3>1 DEF ForestTable, RootedTable
    <3>3. CASE c = src
      BY Zenon, <3>2, <3>3, <1>1, <1>2, <2>3
    <3>4. CASE c # src
      BY Zenon, <3>2, <3>4, <1>1, <1>2, <2>3
    <3>5. QED
      BY Zenon, <3>3, <3>4
  <2>4. QED
    BY Zenon, <2>1, <2>2, <2>3
<1>6. ASSUME NEW S \in SUBSET Slots, S # {}
      PROVE  \E c \in S : \A k \in S : u[k].parent # c
  <2>0. \A k \in Slots : u[k].parent # src
    BY Zenon, <1>1, <1>3
  <2>1. CASE src \in S
    BY Zenon, <2>0, <2>1
  <2>2. CASE src \notin S /\ dest \notin S
    <3>1. PICK c \in S : \A k \in S : t[k].parent # c
      BY Zenon, <1>6 DEF ForestTable, LeafyTable
    <3>2. QED
      BY <3>1, <2>2
  <2>3. CASE src \notin S /\ dest \in S
    <3> DEFINE R == (S \ {dest}) \cup {src}
    <3>1. R \in SUBSET Slots /\ R # {}
      BY Zenon, <1>1
    <3>2. PICK c \in R : \A k \in R : t[k].parent # c
      BY Zenon, <3>1 DEF ForestTable, LeafyTable
    <3>3. CASE c = src
      <4>1. \A k \in S : u[k].parent # dest
        BY Zenon, <3>2, <3>3, <1>1, <1>2, <2>3
      <4>2. QED
        BY Zenon, <4>1, <2>3
    <3>4. CASE c # src
      <4>1. c \in S /\ c # dest
        BY Zenon, <3>2, <3>4, <2>3
      <4>2. \A k \in S : u[k].parent # c
        BY Zenon, <3>2, <3>4, <4>1, <1>1, <2>3
      <4>3. QED
        BY Zenon, <4>1, <4>2
    <3>5. QED
      BY Zenon, <3>3, <3>4
  <2>4. QED
    BY Zenon, <2>1, <2>2, <2>3
<1>7. QED
  BY Zenon, <1>4, <1>5, <1>6 DEF ForestTable, RootedTable, LeafyTable

(* Entries that differ only in their watermark or, for a Sched, budget.     *)
Alike(e, f) ==
  /\ e.type = f.type /\ e.rights = f.rights /\ e.objref = f.objref
  /\ e.parent = f.parent
  /\ e.type # "Sched" => e.size = f.size

LEMMA GrowKin ==
  ASSUME NEW t, NEW u, TypedTable(t), TypedTable(u), LinkedTable(t), KinTable(t),
         \A k \in Live(t) : Alike(u[k], t[k]),
         \A k \in Live(u) \ Live(t) :
           /\ u[k].parent # NIL => /\ u[k].parent \in Live(t)
                                   /\ DerivedFrom(u[k], t[u[k].parent])
           /\ u[k].type = "Reply" => u[k].parent = NIL
  PROVE  KinTable(u)
<1>1. SUFFICES ASSUME NEW c \in Slots
               PROVE  /\ u[c].parent # NIL => DerivedFrom(u[c], u[u[c].parent])
                      /\ u[c].type = "Reply" => u[c].parent = NIL
  BY Zenon DEF KinTable
<1>2. CASE c \in Live(t)
  <2>1. Alike(u[c], t[c])
    BY Zenon, <1>2
  <2>2. u[c].type = "Reply" => u[c].parent = NIL
    BY Zenon, <2>1 DEF Alike, KinTable
  <2>3. ASSUME u[c].parent # NIL PROVE DerivedFrom(u[c], u[u[c].parent])
    <3>1. t[c].parent # NIL /\ u[c].parent = t[c].parent /\ t[c].parent \in Live(t)
      BY Zenon, <2>1, <2>3 DEF Alike, LinkedTable
    <3>2. Alike(u[u[c].parent], t[t[c].parent])
      BY Zenon, <3>1
    <3>3. DerivedFrom(t[c], t[t[c].parent])
      BY Zenon, <3>1 DEF KinTable
    <3>4. QED
      BY Zenon, <2>1, <3>2, <3>3 DEF Alike, DerivedFrom
  <2>4. QED
    BY Zenon, <2>2, <2>3
<1>3. CASE c \in Live(u) \ Live(t)
  <2>1. ASSUME u[c].parent # NIL PROVE DerivedFrom(u[c], u[u[c].parent])
    <3>1. u[c].parent \in Live(t) /\ DerivedFrom(u[c], t[u[c].parent])
      BY Zenon, <1>3, <2>1
    <3>2. Alike(u[u[c].parent], t[u[c].parent])
      BY Zenon, <3>1
    <3>3. QED
      BY Zenon, <3>1, <3>2 DEF Alike, DerivedFrom
  <2>2. QED
    BY Zenon, <1>3, <2>1
<1>4. CASE c \notin Live(u)
  BY Zenon, <1>4, ParentFacts DEF Live
<1>5. QED
  BY Zenon, <1>2, <1>3, <1>4

LEMMA ShrinkKin ==
  ASSUME NEW t, NEW u, TypedTable(t), TypedTable(u), LinkedTable(t), KinTable(t),
         NEW d \in Slots, u[d] = EMPTY,
         \A k \in Slots : t[k].parent # d,
         \A k \in Slots \ {d} : Alike(u[k], t[k])
  PROVE  KinTable(u)
<1>1. SUFFICES ASSUME NEW c \in Slots \ {d}
               PROVE  /\ u[c].parent # NIL => DerivedFrom(u[c], u[u[c].parent])
                      /\ u[c].type = "Reply" => u[c].parent = NIL
  BY Zenon, EmptyFacts DEF KinTable
<1>2. Alike(u[c], t[c])
  BY Zenon
<1>3. ASSUME u[c].parent # NIL PROVE DerivedFrom(u[c], u[u[c].parent])
  <2>1. t[c].parent # NIL /\ u[c].parent = t[c].parent /\ t[c].parent \in Slots \ {d}
    BY Zenon, <1>2, <1>3 DEF Alike, LinkedTable, Live
  <2>2. Alike(u[u[c].parent], t[t[c].parent])
    BY Zenon, <2>1
  <2>3. DerivedFrom(t[c], t[t[c].parent])
    BY Zenon, <2>1 DEF KinTable
  <2>4. QED
    BY Zenon, <1>2, <2>2, <2>3 DEF Alike, DerivedFrom
<1>4. QED
  BY Zenon, <1>2, <1>3 DEF Alike, KinTable

LEMMA RenameKin ==
  ASSUME NEW t, NEW u, TypedTable(t), TypedTable(u), ForestTable(t), KinTable(t),
         NEW src \in Live(t), NEW dest \in Slots \ Live(t),
         u[src] = EMPTY, u[dest] = t[src],
         \A k \in Slots \ {src, dest} :
           /\ u[k].parent = IF t[k].parent = src THEN dest ELSE t[k].parent
           /\ u[k].type = t[k].type /\ u[k].rights = t[k].rights
           /\ u[k].objref = t[k].objref /\ u[k].size = t[k].size
  PROVE  KinTable(u)
<1> DEFINE Old(k) == IF k = dest THEN src ELSE k
           Like(e, f) == /\ e.type = f.type /\ e.rights = f.rights
                         /\ e.objref = f.objref /\ e.size = f.size
<1>1. src \in Slots /\ src # dest
  BY Zenon DEF Live
<1>2. \A k \in Slots : t[k].parent # dest
  BY Zenon, NILNotSlot DEF ForestTable, LinkedTable
<1>3. t[src].parent # src
  <2>1. {src} \in SUBSET Slots /\ {src} # {}
    BY Zenon, <1>1
  <2>2. QED
    BY Zenon, <2>1 DEF ForestTable, RootedTable
<1>4. SUFFICES ASSUME NEW c \in Slots \ {src}
               PROVE  /\ u[c].parent # NIL => DerivedFrom(u[c], u[u[c].parent])
                      /\ u[c].type = "Reply" => u[c].parent = NIL
  BY Zenon, EmptyFacts DEF KinTable
<1>5. Old(c) \in Slots /\ Like(u[c], t[Old(c)])
  BY Zenon, <1>1
<1>6. u[c].parent = IF t[Old(c)].parent = src THEN dest ELSE t[Old(c)].parent
  BY Zenon, <1>1, <1>3
<1>7. u[c].type = "Reply" => u[c].parent = NIL
  BY <1>5, <1>6, <1>1, NILNotSlot DEF KinTable
<1>8. ASSUME u[c].parent # NIL PROVE DerivedFrom(u[c], u[u[c].parent])
  <2>1. t[Old(c)].parent # NIL /\ t[Old(c)].parent \in Live(t)
    BY Zenon, <1>5, <1>6, <1>8, <1>1, NILNotSlot DEF ForestTable, LinkedTable
  <2>2. DerivedFrom(t[Old(c)], t[t[Old(c)].parent])
    BY Zenon, <1>5, <2>1 DEF KinTable
  <2>3. Like(u[u[c].parent], t[t[Old(c)].parent])
    BY SMTT(30), <1>1, <1>6, <2>1 DEF Live
  <2>4. QED
    BY Zenon, <1>5, <2>2, <2>3 DEF DerivedFrom
<1>9. QED
  BY Zenon, <1>7, <1>8

-----------------------------------------------------------------------------
(* The revoke loop.                                                        *)

(* The subtree of a slot holds it, holds every child of a member, and holds *)
(* nothing but the slot itself and children of members.                    *)
LEMMA SubtreeFacts ==
  ASSUME NEW t, NEW c \in Slots
  PROVE  /\ c \in Subtree(t, c)
         /\ Subtree(t, c) \subseteq Slots
         /\ \A k \in Slots : t[k].parent \in Subtree(t, c) => k \in Subtree(t, c)
         /\ \A x \in Subtree(t, c) : x # c => t[x].parent \in Subtree(t, c)
<1>1. c \in Subtree(t, c) /\ Subtree(t, c) \subseteq Slots
  BY Zenon DEF Subtree
<1>2. ASSUME NEW k \in Slots, t[k].parent \in Subtree(t, c)
      PROVE  k \in Subtree(t, c)
  BY Zenon, <1>2 DEF Subtree
<1>3. ASSUME NEW x \in Subtree(t, c), x # c, t[x].parent \notin Subtree(t, c)
      PROVE  FALSE
  <2> DEFINE S == Subtree(t, c) \ {x}
  <2>1. S \in SUBSET Slots /\ c \in S
    BY Zenon, <1>1, <1>3
  <2>2. \A k \in Slots : t[k].parent \in S => k \in S
    BY Zenon, <1>2, <1>3
  <2>3. x \in S
    <3> HIDE DEF S
    <3> QED BY Zenon, <2>1, <2>2, <1>3 DEF Subtree
  <2>4. QED
    BY Zenon, <2>3
<1>4. QED
  BY Zenon, <1>1, <1>2, <1>3

(* While a forest has a slot below c, it has a childless one: a revoke that *)
(* finds no leaf has removed everything below its slot.                    *)
LEMMA NoLeafNoChild ==
  ASSUME NEW t, TypedTable(t), ForestTable(t), NEW c \in Slots, Leaves(t, c) = {}
  PROVE  \A k \in Slots : t[k].parent # c
<1> DEFINE T == Subtree(t, c)
           D == Descendants(t, c)
<1>1. T \in SUBSET Slots /\ c \in T
  BY Zenon, SubtreeFacts
<1>2. t[c].parent \notin T
  <2>1. PICK x \in T : t[x].parent \notin T
    BY Zenon, <1>1 DEF ForestTable, RootedTable
  <2>2. QED
    BY Zenon, <2>1, SubtreeFacts
<1>3. D = {}
  <2>1. SUFFICES ASSUME D # {} PROVE FALSE
    BY Zenon
  <2>2. D \in SUBSET Slots /\ D \subseteq T
    BY Zenon, <1>1 DEF Descendants
  <2>3. PICK d \in D : \A k \in D : t[k].parent # d
    BY Zenon, <2>1, <2>2 DEF ForestTable, LeafyTable
  <2>4. d \in Slots /\ d \in T /\ d # c
    BY Zenon, <2>2, <2>3 DEF Descendants
  <2>5. IsLive(t, d)
    BY <2>4, SubtreeFacts, ParentFacts, NILNotSlot DEF IsLive, Live
  <2>6. ~HasChildren(t, d)
    <3>1. SUFFICES ASSUME NEW k \in Slots, t[k].parent = d PROVE FALSE
      BY Zenon DEF HasChildren
    <3>2. k \in T
      BY Zenon, <3>1, <2>4, SubtreeFacts
    <3>3. k # c
      BY Zenon, <3>1, <1>2, <2>4
    <3>4. QED
      BY Zenon, <3>1, <3>2, <3>3, <2>3 DEF Descendants
  <2>7. QED
    BY Zenon, <2>3, <2>5, <2>6 DEF Leaves
<1>4. QED
  BY <1>1, <1>2, <1>3, SubtreeFacts DEF Descendants
-----------------------------------------------------------------------------
(* Steps.                                                                  *)

OpOK(o) == o \in {Idle} \cup [active: {TRUE}, space: Spaces, slot: Slots, delete: BOOLEAN]

LEMMA TypeOKByTable ==
  TypeOK <=> /\ slots \in [Spaces -> [Slots -> Cte]]
             /\ \A s \in Spaces : TypedTable(slots[s])
             /\ nextObj \in [Spaces -> Nat]
             /\ dirty \subseteq Nat
             /\ OpOK(op)
BY Zenon DEF TypeOK, TypedTable, IsLive, OpOK

LEMMA TreeFacts ==
  ASSUME TreeInv, NEW s \in Spaces
  PROVE  /\ TypedTable(slots[s]) /\ ForestTable(slots[s]) /\ KinTable(slots[s])
         /\ slots \in [Spaces -> [Slots -> Cte]]
         /\ nextObj \in [Spaces -> Nat]
         /\ dirty \subseteq Nat
         /\ OpOK(op)
BY Zenon, TypeOKByTable DEF TreeInv

(* A step that puts the table u in the place of one space's table.          *)
LEMMA OneTable ==
  ASSUME TreeInv, NEW s \in Spaces, NEW u,
         TypedTable(u), ForestTable(u), KinTable(u),
         slots' = [slots EXCEPT ![s] = u],
         nextObj' \in [Spaces -> Nat], dirty' \subseteq Nat, OpOK(op')
  PROVE  TreeInv'
<1>1. slots' \in [Spaces -> [Slots -> Cte]]
  BY Zenon, TypeOKByTable DEF TreeInv, TypedTable
<1>2. \A r \in Spaces : TypedTable(slots'[r]) /\ ForestTable(slots'[r]) /\ KinTable(slots'[r])
  <2>1. TAKE r \in Spaces
  <2>2. CASE r = s
    BY Zenon, <2>2, TypeOKByTable DEF TreeInv
  <2>3. CASE r # s
    <3>1. slots'[r] = slots[r]
      BY Zenon, <2>3, TypeOKByTable DEF TreeInv
    <3>2. QED
      BY Zenon, <3>1, TreeFacts
  <2>4. QED
    BY Zenon, <2>2, <2>3
<1>3. TypeOK'
  BY Zenon, <1>1, <1>2 DEF TypeOK, TypedTable, IsLive, OpOK
<1>4. QED
  BY Zenon, <1>2, <1>3 DEF TreeInv

(* place: a well-formed entry below a live slot, or a root, fills dest.     *)
LEMMA PlaceStep ==
  ASSUME TreeInv, NEW s \in Spaces, NEW dest \in Slots, NEW e \in Cte,
         e.type # "Null", e.wm <= e.size,
         e.parent \in Live(slots[s]) \cup {NIL},
         e.parent # NIL => DerivedFrom(e, slots[s][e.parent]),
         e.type = "Reply" => e.parent = NIL,
         Place(s, dest, e), UNCHANGED <<nextObj, dirty, op>>
  PROVE  TreeInv'
<1> DEFINE t == slots[s]
           u == [t EXCEPT ![dest] = e]
<1>1. TypedTable(t) /\ ForestTable(t) /\ KinTable(t)
  BY Zenon, TreeFacts
<1>2. TypedTable(u)
  BY Zenon, <1>1 DEF TypedTable
<1>3. dest \notin Live(t)
  BY Zenon DEF Place, IsLive, Live
<1>4. /\ \A k \in Live(t) : k \in Live(u) /\ u[k].parent = t[k].parent
      /\ \A k \in Live(u) \ Live(t) : u[k].parent \in Live(t) \cup {NIL}
  BY Zenon, <1>1, <1>3 DEF Live, TypedTable
<1>5. /\ \A k \in Live(t) : Alike(u[k], t[k])
      /\ \A k \in Live(u) \ Live(t) : u[k] = e
  BY Zenon, <1>1, <1>3 DEF Live, TypedTable, Alike
<1>6. ForestTable(u) /\ KinTable(u)
  <2> HIDE DEF u
  <2>1. ForestTable(u)
    BY Zenon, <1>1, <1>2, <1>4, Grow
  <2>2. KinTable(u)
    BY Zenon, <1>1, <1>2, <1>4, <1>5, GrowKin, NILNotSlot DEF ForestTable, Live
  <2>3. QED
    BY Zenon, <2>1, <2>2
<1>7. QED
  BY Zenon, <1>2, <1>6, OneTable, TreeFacts DEF Place

LEMMA MintStep ==
  ASSUME TreeInv, NEW s \in Spaces, NEW src \in Slots, NEW dest \in Slots,
         NEW r \in NewRights, Mint(s, src, dest, r)
  PROVE  TreeInv'
<1> DEFINE e == slots[s][src]
           new == [e EXCEPT !.rights = r, !.parent = src]
<1>1. e \in Cte /\ e.wm <= e.size /\ src \in Live(slots[s])
  BY Zenon, TreeFacts DEF Mint, IsLive, Live, TypedTable
<1>2. new \in Cte /\ new.type # "Null" /\ new.wm <= new.size /\ new.parent = src
  BY Zenon, <1>1, ConstantsAssumption DEF Cte, Live
<1>3. DerivedFrom(new, e) /\ new.type # "Reply"
  BY Zenon, <1>1 DEF Mint, DerivedFrom, NonDuplicable, Cte, MayMint
<1>4. Place(s, dest, new) /\ UNCHANGED <<nextObj, dirty, op>>
  BY Zenon DEF Mint
<1>5. QED
  <2> HIDE DEF new
  <2> QED BY Zenon, <1>1, <1>2, <1>3, <1>4, PlaceStep

LEMMA CopyStep ==
  ASSUME TreeInv, NEW s \in Spaces, NEW src \in Slots, NEW dest \in Slots,
         Copy(s, src, dest)
  PROVE  TreeInv'
<1> DEFINE e == slots[s][src]
           p == IF e.parent = NIL THEN src ELSE e.parent
           new == [e EXCEPT !.parent = p]
<1>1. e \in Cte /\ e.wm <= e.size /\ src \in Live(slots[s])
  BY Zenon, TreeFacts DEF Copy, IsLive, Live, TypedTable
<1>2. p \in Live(slots[s])
  BY Zenon, <1>1, TreeFacts DEF ForestTable, LinkedTable
<1>3. new \in Cte /\ new.type # "Null" /\ new.wm <= new.size /\ new.parent = p
  BY Zenon, <1>1, <1>2 DEF Cte, Live
<1>4. DerivedFrom(new, slots[s][p]) /\ new.type # "Reply"
  <2>1. new.type = e.type /\ new.rights = e.rights /\ new.objref = e.objref /\ new.size = e.size
    BY Zenon, <1>1 DEF Cte
  <2>2. e.type # "Reply"
    BY Zenon DEF Copy, NonDuplicable
  <2>3. DerivedFrom(e, slots[s][p])
    BY Zenon, TreeFacts DEF KinTable, DerivedFrom
  <2>4. QED
    BY Zenon, <2>1, <2>2, <2>3 DEF DerivedFrom
<1>5. Place(s, dest, new) /\ UNCHANGED <<nextObj, dirty, op>>
  BY Zenon DEF Copy
<1>6. QED
  <2> HIDE DEF new, p
  <2> QED BY Zenon, <1>2, <1>3, <1>4, <1>5, PlaceStep

LEMMA MintReplyStep ==
  ASSUME TreeInv, NEW s \in Spaces, NEW dest \in Slots, NEW caller \in Callers,
         MintReply(s, dest, caller)
  PROVE  TreeInv'
<1> DEFINE new == Entry("Reply", {}, caller, 0, NIL)
<1>1. new \in Cte /\ new.type # "Null" /\ new.wm <= new.size /\ new.parent = NIL
  BY ConstantsAssumption DEF Entry, Cte, CapTypes
<1>2. Place(s, dest, new) /\ UNCHANGED <<nextObj, dirty, op>>
  BY Zenon DEF MintReply
<1>3. QED
  <2> HIDE DEF new
  <2> QED BY Zenon, <1>1, <1>2, PlaceStep
LEMMA DefaultRightsType == \A t : DefaultRights(t) \subseteq Rights
BY Zenon DEF DefaultRights, Rights

LEMMA RetypeStep ==
  ASSUME TreeInv, NEW s \in Spaces, NEW ut \in Slots, NEW dest \in Slots,
         NEW t \in RetypeTypes, NEW perObj \in 0 .. MaxPerObj, NEW count \in 0 .. N,
         Retype(s, ut, t, perObj, count, dest)
  PROVE  TreeInv'
<1> DEFINE old  == slots[s]
           ute  == old[ut]
           need == perObj * count
           base == ute.objref + ute.wm
           into == dest .. dest + count - 1
           new(k) == Entry(t, DefaultRights(t), ObjectAt(ute, k - dest, perObj), perObj, ut)
           u == [k \in Slots |-> IF k \in into THEN new(k)
                                 ELSE IF k = ut THEN [ute EXCEPT !.wm = ute.wm + need]
                                 ELSE old[k]]
<1>1. TypedTable(old) /\ ForestTable(old) /\ KinTable(old) /\ dirty \subseteq Nat
  BY Zenon, TreeFacts
<1>2. /\ ute.type = "Untyped" /\ t # "Null" /\ t # "Reply" /\ t \notin NotRetypeable
      /\ need <= ute.size - ute.wm
      /\ \A k \in into : k \in Slots => k \notin Live(old)
  BY Zenon DEF Retype, NotRetypeable, IsLive, Live, Available
<1>3. ute \in Cte /\ ute.objref \in Nat /\ ute.size \in 0 .. U32Max /\ ute.wm \in 0 .. U32Max
  BY Zenon, <1>1 DEF TypedTable, Cte
<1>4. perObj \in Nat /\ perObj <= U32Max /\ count \in Nat
  BY ConstantsAssumption
<1>5. need \in Nat /\ base \in Nat
  BY <1>3, <1>4
<1>6. ut \in Live(old) /\ ut \notin into
  BY Zenon, <1>2 DEF Live
<1>7. ASSUME NEW k \in Slots, k \in into
      PROVE  /\ new(k) \in Cte /\ new(k).wm <= new(k).size
             /\ new(k).type = t /\ new(k).parent = ut
  <2>1. dest \in Nat /\ k \in Nat /\ k - dest \in Nat
    BY <1>7, <1>4, ConstantsAssumption DEF Slots
  <2>2. (k - dest) * perObj \in Nat
    BY <2>1, <1>4
  <2>3. base + (k - dest) * perObj \in Nat
    BY <2>2, <1>5
  <2>4. perObj \in 0 .. U32Max /\ 0 <= perObj /\ 0 \in 0 .. U32Max /\ t \in CapTypes
    BY <1>4, ConstantsAssumption
  <2>5. QED
    BY Zenon, <2>3, <2>4, <1>2, DefaultRightsType DEF Entry, Cte, ObjectAt
<1>8. [ute EXCEPT !.wm = ute.wm + need] \in Cte /\ ute.wm + need <= ute.size
  <2> HIDE DEF need, ute, base
  <2>1. ute.wm + need <= ute.size /\ ute.wm + need \in 0 .. U32Max
    BY <1>2, <1>3, <1>5, ConstantsAssumption
  <2>2. QED
    BY Zenon, <2>1, <1>3 DEF Cte
<1>9. \A k \in Slots : /\ k \in into => u[k] = new(k)
                       /\ k = ut => u[k] = [ute EXCEPT !.wm = ute.wm + need]
                       /\ k \notin into /\ k # ut => u[k] = old[k]
  BY Zenon, <1>6
<1> HIDE DEF new, into, need
<1>10. TypedTable(u)
  <2>1. \A k \in Slots : u[k] \in Cte /\ u[k].wm <= u[k].size /\ (u[k].type = "Null" => u[k] = EMPTY)
    <3>1. TAKE k \in Slots
    <3>2. CASE k \in into
      BY Zenon, <3>2, <1>2, <1>7, <1>9
    <3>3. CASE k = ut
      BY <3>3, <1>2, <1>3, <1>8, <1>9 DEF Cte
    <3>4. CASE k \notin into /\ k # ut
      BY Zenon, <3>4, <1>1, <1>9 DEF TypedTable
    <3>5. QED
      BY Zenon, <3>2, <3>3, <3>4
  <2>2. QED
    BY Zenon, <2>1 DEF TypedTable
<1>11. /\ \A k \in Live(old) : k \in Live(u) /\ Alike(u[k], old[k])
       /\ \A k \in Live(u) \ Live(old) : u[k].parent = ut /\ u[k].type = t
  <2>1. ASSUME NEW k \in Live(old)
        PROVE  k \in Live(u) /\ Alike(u[k], old[k])
    <3>1. k \in Slots /\ k \notin into
      BY Zenon, <1>2 DEF Live
    <3>2. CASE k = ut
      BY Zenon, <3>1, <3>2, <1>3, <1>9, <1>2 DEF Live, Cte, Alike
    <3>3. CASE k # ut
      BY Zenon, <3>1, <3>3, <1>9 DEF Live, Alike
    <3>4. QED
      BY Zenon, <3>2, <3>3
  <2>2. ASSUME NEW k \in Live(u) \ Live(old)
        PROVE  u[k].parent = ut /\ u[k].type = t
    <3>1. k \in into
      BY Zenon, <1>9, <1>6 DEF Live
    <3>2. QED
      BY Zenon, <3>1, <1>7, <1>9 DEF Live
  <2>3. QED
    BY Zenon, <2>1, <2>2
<1>12. slots' = [slots EXCEPT ![s] = u]
  BY Zenon DEF Retype, new, into, need
<1>13. dirty' \subseteq Nat /\ nextObj' \in [Spaces -> Nat] /\ OpOK(op')
  BY Zenon, <1>1, TreeFacts DEF Retype
<1> HIDE DEF u
<1>14. ForestTable(u) /\ KinTable(u)
  <2>1. ForestTable(u)
    BY Zenon, <1>1, <1>6, <1>10, <1>11, Grow DEF Alike
  <2>2. KinTable(u)
    BY Zenon, <1>1, <1>2, <1>6, <1>10, <1>11, GrowKin DEF ForestTable, DerivedFrom
  <2>3. QED
    BY Zenon, <2>1, <2>2
<1>15. QED
  BY Zenon, <1>10, <1>12, <1>13, <1>14, OneTable

LEMMA MoveCapStep ==
  ASSUME TreeInv, NEW s \in Spaces, NEW src \in Slots, NEW dest \in Slots,
         MoveCap(s, src, dest)
  PROVE  TreeInv'
<1> DEFINE t == slots[s]
           u == [k \in Slots |->
                   IF k = src THEN EMPTY
                   ELSE IF k = dest THEN t[src]
                   ELSE IF t[k].parent = src THEN [t[k] EXCEPT !.parent = dest]
                   ELSE t[k]]
<1>1. TypedTable(t) /\ ForestTable(t) /\ KinTable(t)
  BY Zenon, TreeFacts
<1>2. src \in Live(t) /\ dest \in Slots \ Live(t) /\ src # dest
  BY Zenon DEF MoveCap, IsLive, Live
<1>3. \A k \in Slots : t[k] \in Cte
  BY Zenon, <1>1 DEF TypedTable
<1>4. \A k \in Slots \ {src, dest} :
        /\ u[k].parent = IF t[k].parent = src THEN dest ELSE t[k].parent
        /\ u[k].type = t[k].type /\ u[k] \in Cte
        /\ u[k].wm = t[k].wm /\ u[k].size = t[k].size
        /\ u[k].rights = t[k].rights /\ u[k].objref = t[k].objref
  BY Zenon, <1>3 DEF Cte
<1>5. u[src] = EMPTY /\ u[dest] = t[src]
  BY Zenon, <1>2
<1>6. \A k \in Slots : t[k].parent = src => k \in Live(t)
  BY Zenon, <1>1, <1>2, ParentFacts, NILNotSlot
<1>7. TypedTable(u)
  <2>1. \A k \in Slots : u[k] \in Cte /\ u[k].wm <= u[k].size /\ (u[k].type = "Null" => u[k] = EMPTY)
    <3>1. TAKE k \in Slots
    <3>2. CASE k = src
      BY Zenon, <3>2, <1>5, EmptyFacts
    <3>3. CASE k = dest
      BY Zenon, <3>3, <1>5, <1>1 DEF TypedTable
    <3>4. CASE k \notin {src, dest}
      BY Zenon, <3>4, <1>4, <1>1, <1>6 DEF TypedTable, Live
    <3>5. QED
      BY Zenon, <3>2, <3>3, <3>4
  <2>2. QED
    BY Zenon, <2>1 DEF TypedTable
<1>8. slots' = [slots EXCEPT ![s] = u] /\ UNCHANGED <<nextObj, dirty, op>>
  BY Zenon DEF MoveCap, Moved
<1> HIDE DEF u
<1>9. ForestTable(u) /\ KinTable(u)
  <2>1. ForestTable(u)
    BY <1>1, <1>2, <1>4, <1>5, <1>7, Rename
  <2>2. KinTable(u)
    BY <1>1, <1>2, <1>4, <1>5, <1>7, RenameKin
  <2>3. QED
    BY Zenon, <2>1, <2>2
<1>10. QED
  BY Zenon, <1>7, <1>8, <1>9, OneTable, TreeFacts
LEMMA SplitStep ==
  ASSUME TreeInv, NEW s \in Spaces, NEW src \in Slots, NEW dest \in Slots,
         NEW amount \in 0 .. U32Max, Split(s, src, dest, amount)
  PROVE  TreeInv'
<1> DEFINE t == slots[s]
           e == t[src]
           new == Entry("Sched", e.rights, nextObj[s], amount, src)
           rest == [e EXCEPT !.size = e.size - amount]
           u == [k \in Slots |-> IF k = dest THEN new ELSE IF k = src THEN rest ELSE t[k]]
<1>1. TypedTable(t) /\ ForestTable(t) /\ KinTable(t)
  BY Zenon, TreeFacts
<1>2. e \in Cte /\ src \in Live(t) /\ dest \notin Live(t) /\ src # dest
  BY Zenon, <1>1 DEF Split, TypedTable, IsLive, Live
<1>3. /\ new \in Cte /\ new.wm <= new.size /\ new.type = "Sched" /\ new.parent = src
      /\ new.rights = e.rights
  <2>1. nextObj[s] \in Nat /\ amount \in Nat
    BY TreeFacts, ConstantsAssumption
  <2>2. QED
    BY <2>1, <1>2, ConstantsAssumption DEF Entry, Cte, CapTypes
<1>4. rest \in Cte /\ rest.wm <= rest.size /\ Alike(rest, e)
  <2>1. amount > 0 /\ amount <= Remaining(e)
    BY Zenon DEF Split
  <2>2. e.size - amount \in 0 .. U32Max /\ e.wm <= e.size - amount
    BY <2>1, <1>2, ConstantsAssumption DEF Remaining, Cte
  <2>3. QED
    BY Zenon, <2>2, <1>2 DEF Cte, Alike, Split
<1> HIDE DEF new, rest
<1>5. TypedTable(u)
  BY Zenon, <1>1, <1>2, <1>3, <1>4 DEF TypedTable, Live, Alike
<1>6. /\ \A k \in Live(t) : k \in Live(u) /\ Alike(u[k], t[k])
      /\ \A k \in Live(u) \ Live(t) : u[k] = new
  BY Zenon, <1>1, <1>2, <1>3, <1>4 DEF Live, Alike
<1>7. slots' = [slots EXCEPT ![s] = u]
  BY Zenon DEF Split, new, rest
<1>8. nextObj' \in [Spaces -> Nat] /\ dirty' \subseteq Nat /\ OpOK(op')
  BY TreeFacts DEF Split, FreshObj
<1>9. ForestTable(u) /\ KinTable(u)
  <2>0. DerivedFrom(new, t[src])
    BY Zenon, <1>3 DEF DerivedFrom, Split
  <2> HIDE DEF u
  <2>1. ForestTable(u)
    BY Zenon, <1>1, <1>2, <1>3, <1>5, <1>6, Grow DEF Alike
  <2>2. KinTable(u)
    BY Zenon, <1>1, <1>2, <1>3, <1>5, <1>6, <2>0, GrowKin DEF ForestTable
  <2>3. QED
    BY Zenon, <2>1, <2>2
<1> HIDE DEF u
<1>10. QED
  BY Zenon, <1>5, <1>7, <1>8, <1>9, OneTable

LEMMA DelegateStep ==
  ASSUME TreeInv, NEW s \in Spaces, NEW src \in Slots, NEW dest \in Slots,
         NEW amount \in 0 .. U32Max, Delegate(s, src, dest, amount)
  PROVE  TreeInv'
<1> DEFINE t == slots[s]
           e == t[src]
           d == t[dest]
           less == [e EXCEPT !.size = e.size - amount]
           more == [d EXCEPT !.size = d.size + amount]
           u == [k \in Slots |-> IF k = src THEN less ELSE IF k = dest THEN more ELSE t[k]]
<1>1. TypedTable(t) /\ ForestTable(t) /\ KinTable(t)
  BY Zenon, TreeFacts
<1>2. /\ e \in Cte /\ d \in Cte /\ e.wm <= e.size /\ d.wm <= d.size
      /\ src \in Live(t) /\ dest \in Live(t) /\ src # dest
  BY Zenon, <1>1 DEF Delegate, TypedTable, Live
<1>3. less \in Cte /\ less.wm <= less.size /\ Alike(less, e)
  <2>1. amount > 0 /\ amount <= Remaining(e)
    BY Zenon DEF Delegate
  <2>2. e.size - amount \in 0 .. U32Max /\ e.wm <= e.size - amount
    BY <2>1, <1>2, ConstantsAssumption DEF Remaining, Cte
  <2>3. QED
    BY Zenon, <2>2, <1>2 DEF Cte, Alike, Delegate
<1>4. more \in Cte /\ more.wm <= more.size /\ Alike(more, d)
  <2>1. d.size + amount <= U32Max
    BY Zenon DEF Delegate, Accepts
  <2>2. d.size + amount \in 0 .. U32Max /\ d.wm <= d.size + amount
    BY <2>1, <1>2, ConstantsAssumption DEF Cte
  <2>3. QED
    BY Zenon, <2>2, <1>2 DEF Cte, Alike, Delegate
<1> HIDE DEF less, more
<1>5. TypedTable(u)
  BY Zenon, <1>1, <1>2, <1>3, <1>4 DEF TypedTable, Live, Alike
<1>6. /\ \A k \in Live(t) : k \in Live(u) /\ Alike(u[k], t[k])
      /\ Live(u) \ Live(t) = {}
  BY Zenon, <1>1, <1>2, <1>3, <1>4 DEF Live, Alike
<1>7. slots' = [slots EXCEPT ![s] = u] /\ UNCHANGED <<nextObj, dirty, op>>
  BY Zenon DEF Delegate, less, more
<1> HIDE DEF u
<1>8. ForestTable(u) /\ KinTable(u)
  <2>1. ForestTable(u)
    BY Zenon, <1>1, <1>5, <1>6, Grow DEF Alike
  <2>2. KinTable(u)
    BY Zenon, <1>1, <1>5, <1>6, GrowKin DEF ForestTable
  <2>3. QED
    BY Zenon, <2>1, <2>2
<1>9. QED
  BY Zenon, <1>5, <1>7, <1>8, OneTable, TreeFacts

(* destroy_slot changes no parent link and no type but those of the slot.   *)
LEMMA WithoutFacts ==
  ASSUME NEW t, TypedTable(t), NEW d \in Slots
  PROVE  /\ TypedTable(Without(t, d))
         /\ Without(t, d)[d] = EMPTY
         /\ \A k \in Slots \ {d} : Alike(Without(t, d)[k], t[k])
<1> DEFINE u == Without(t, d)
<1>1. u[d] = EMPTY
  BY Zenon DEF Without
<1>2. ASSUME NEW k \in Slots \ {d}
      PROVE  /\ u[k] \in Cte /\ Alike(u[k], t[k])
             /\ u[k].wm <= u[k].size /\ (u[k].type = "Null" => u[k] = EMPTY)
  <2>1. t[k] \in Cte /\ t[d] \in Cte /\ t[k].wm <= t[k].size
    BY Zenon DEF TypedTable
  <2>2. CASE t[d].type = "Sched" /\ k = t[d].parent /\ t[k].type = "Sched"
    <3> DEFINE n == SatAdd(t[k].size, t[d].size)
    <3>1. n \in 0 .. U32Max /\ t[k].size <= n
      BY <2>1, ConstantsAssumption DEF SatAdd, Cte
    <3>2. u[k] = [t[k] EXCEPT !.size = n]
      BY Zenon, <2>2 DEF Without
    <3>3. t[k].wm <= n
      BY <3>1, <2>1, ConstantsAssumption DEF Cte
    <3> HIDE DEF u, n
    <3>4. QED
      BY Zenon, <3>1, <3>2, <3>3, <2>1, <2>2 DEF Cte, Alike
  <2>3. CASE ~(t[d].type = "Sched" /\ k = t[d].parent /\ t[k].type = "Sched")
    <3>1. u[k] = t[k]
      BY Zenon, <2>3 DEF Without
    <3>2. QED
      BY Zenon, <3>1, <2>1 DEF TypedTable, Alike
  <2>4. QED
    BY Zenon, <2>2, <2>3
<1>3. TypedTable(u)
  <2>1. u = [k \in Slots |-> u[k]]
    BY Zenon DEF Without
  <2>2. \A k \in Slots : /\ u[k] \in Cte /\ u[k].wm <= u[k].size
                         /\ (u[k].type = "Null" => u[k] = EMPTY)
    BY Zenon, <1>1, <1>2, EmptyFacts
  <2> HIDE DEF u
  <2>3. QED
    BY Zenon, <2>1, <2>2 DEF TypedTable
<1>4. QED
  BY Zenon, <1>1, <1>2, <1>3

(* Destroying a slot without children keeps the tree.                      *)
LEMMA DestroyStep ==
  ASSUME TreeInv, NEW s \in Spaces, NEW d \in Slots,
         \A k \in Slots : slots[s][k].parent # d,
         DestroySlot(s, d), UNCHANGED nextObj, OpOK(op')
  PROVE  TreeInv'
<1> DEFINE t == slots[s]
           u == Without(t, d)
<1>1. TypedTable(t) /\ ForestTable(t) /\ KinTable(t)
  BY Zenon, TreeFacts
<1>2. /\ TypedTable(u) /\ u[d] = EMPTY
      /\ \A k \in Slots \ {d} : Alike(u[k], t[k])
  BY Zenon, <1>1, WithoutFacts
<1>3. slots' = [slots EXCEPT ![s] = u] /\ dirty' \subseteq Nat
  BY Zenon, TreeFacts DEF DestroySlot
<1> HIDE DEF u
<1>4. ForestTable(u) /\ KinTable(u)
  <2>1. ForestTable(u)
    BY <1>1, <1>2, Shrink DEF Alike, Live
  <2>2. KinTable(u)
    BY Zenon, <1>1, <1>2, ShrinkKin DEF ForestTable
  <2>3. QED
    BY Zenon, <2>1, <2>2
<1>5. QED
  BY Zenon, <1>2, <1>3, <1>4, OneTable, TreeFacts
LEMMA ConsumeReplyStep ==
  ASSUME TreeInv, NEW s \in Spaces, NEW c \in Slots, ConsumeReply(s, c)
  PROVE  TreeInv'
<1>1. \A k \in Slots : slots[s][k].parent # c
  <2>1. SUFFICES ASSUME NEW k \in Slots, slots[s][k].parent = c PROVE FALSE
    BY Zenon
  <2>2. slots[s][c].type = "Reply" /\ slots[s][k].parent # NIL
    BY Zenon, <2>1, NILNotSlot DEF ConsumeReply
  <2>3. DerivedFrom(slots[s][k], slots[s][c]) /\ slots[s][k].type # "Reply"
    BY Zenon, <2>1, <2>2, TreeFacts DEF KinTable
  <2>4. QED
    BY Zenon, <2>2, <2>3 DEF DerivedFrom
<1>2. QED
  BY Zenon, <1>1, DestroyStep, TreeFacts DEF ConsumeReply

LEMMA OpFacts ==
  ASSUME TypeOK, op.active
  PROVE  op.space \in Spaces /\ op.slot \in Slots
<1>1. op # Idle
  <2>1. SUFFICES ASSUME op = Idle PROVE FALSE
    BY Zenon
  <2>2. op.active = FALSE
    BY Zenon, <2>1 DEF Idle
  <2>3. QED
    BY Zenon, <2>2
<1>2. op \in [active: {TRUE}, space: Spaces, slot: Slots, delete: BOOLEAN]
  BY Zenon, <1>1 DEF TypeOK
<1>3. QED
  BY Zenon, <1>2

LEMMA RevokeStepStep ==
  ASSUME TreeInv, RevokeStep
  PROVE  TreeInv'
<1>1. op.active /\ op.space \in Spaces /\ op.slot \in Slots
  BY Zenon, OpFacts DEF RevokeStep, TreeInv
<1>2. PICK d \in Leaves(slots[op.space], op.slot) : DestroySlot(op.space, d)
  BY Zenon DEF RevokeStep
<1>3. d \in Slots /\ ~HasChildren(slots[op.space], d)
  BY Zenon, <1>2 DEF Leaves, Descendants, Subtree
<1>4. \A k \in Slots : slots[op.space][k].parent # d
  BY Zenon, <1>1, <1>3, TreeFacts, ParentFacts, NILNotSlot DEF HasChildren, IsLive, Live
<1>5. QED
  BY Zenon, <1>1, <1>2, <1>3, <1>4, DestroyStep, TreeFacts DEF RevokeStep

LEMMA RevokeDoneStep ==
  ASSUME TreeInv, RevokeDone
  PROVE  TreeInv'
<1> DEFINE s == op.space
           c == op.slot
           t == slots[s]
           e == t[c]
<1>1. s \in Spaces /\ c \in Slots
  BY Zenon, OpFacts DEF RevokeDone, TreeInv
<1>2. TypedTable(t) /\ ForestTable(t) /\ KinTable(t)
  BY Zenon, <1>1, TreeFacts
<1>3. \A k \in Slots : t[k].parent # c
  BY Zenon, <1>1, <1>2, NoLeafNoChild DEF RevokeDone
<1>4. nextObj' = nextObj /\ op' = Idle /\ OpOK(op')
  BY Zenon DEF RevokeDone, OpOK
<1>5. CASE op.delete /\ DestroySlot(s, c)
  BY <1>1, <1>3, <1>4, <1>5, DestroyStep
<1>6. CASE e.type = "Untyped" /\ dirty' = dirty
           /\ slots' = [slots EXCEPT ![s] = [slots[s] EXCEPT ![c] = [e EXCEPT !.wm = 0]]]
  <2> DEFINE new == [e EXCEPT !.wm = 0]
             u == [t EXCEPT ![c] = new]
  <2>1. new \in Cte /\ new.wm <= new.size /\ Alike(new, e)
    BY <1>1, <1>2, ConstantsAssumption DEF TypedTable, Cte, Alike
  <2>2. c \in Live(t)
    BY Zenon, <1>1, <1>6 DEF Live
  <2> HIDE DEF new
  <2>3. TypedTable(u)
    BY Zenon, <1>2, <2>1, <2>2 DEF TypedTable, Alike, Live
  <2>4. /\ \A k \in Live(t) : k \in Live(u) /\ Alike(u[k], t[k])
        /\ Live(u) \ Live(t) = {}
    BY Zenon, <1>1, <1>2, <2>1, <2>2 DEF Live, Alike, TypedTable
  <2>5. slots' = [slots EXCEPT ![s] = u]
    BY Zenon, <1>6 DEF new
  <2> HIDE DEF u
  <2>6. ForestTable(u)
    BY Zenon, <1>2, <2>3, <2>4, Grow DEF Alike
  <2>7. KinTable(u)
    BY Zenon, <1>2, <2>3, <2>4, GrowKin DEF ForestTable
  <2>8. dirty' \subseteq Nat /\ nextObj' \in [Spaces -> Nat]
    BY Zenon, <1>1, <1>4, <1>6, TreeFacts
  <2>9. QED
    BY Zenon, <1>1, <1>4, <2>3, <2>5, <2>6, <2>7, <2>8, OneTable
<1>7. CASE slots' = slots /\ dirty' = dirty
  BY Zenon, <1>4, <1>7 DEF TreeInv, TypeOK, OpOK
<1>8. QED
  BY Zenon, <1>5, <1>6, <1>7 DEF RevokeDone

LEMMA GrantStep ==
  ASSUME TreeInv, NEW a \in Spaces, NEW b \in Spaces, NEW src \in Slots,
         NEW dest \in Slots, NEW r \in NewRights, NEW mode \in GrantModes,
         Grant(a, src, b, dest, r, mode)
  PROVE  TreeInv'
<1> DEFINE e == slots[a][src]
           new == [e EXCEPT !.rights = r, !.parent = NIL]
           ta == IF mode = "Move" THEN [slots[a] EXCEPT ![src] = EMPTY] ELSE slots[a]
           tb == [slots[b] EXCEPT ![dest] = new]
<1>1. /\ TypedTable(slots[a]) /\ ForestTable(slots[a]) /\ KinTable(slots[a])
      /\ TypedTable(slots[b]) /\ ForestTable(slots[b]) /\ KinTable(slots[b])
  BY Zenon, TreeFacts
<1>2. a # b /\ e \in Cte /\ e.type # "Null" /\ e.type # "Reply" /\ e.wm <= e.size
  BY Zenon, <1>1 DEF Grant, IsLive, TypedTable, Grantable
<1>3. /\ new \in Cte /\ new.type = e.type /\ new.parent = NIL
      /\ new.wm <= new.size
  BY Zenon, <1>2, ConstantsAssumption DEF Cte
<1>4. dest \notin Live(slots[b])
  BY Zenon DEF Grant, IsLive, Live
<1>5. TypedTable(ta) /\ ForestTable(ta) /\ KinTable(ta)
  <2>1. CASE mode = "Move"
    <3>1. \A k \in Slots : slots[a][k].parent # src
      BY Zenon, <2>1, <1>1, ParentFacts, NILNotSlot DEF Grant, HasChildren, IsLive, Live, Vacates
    <3>2. TypedTable(ta)
      BY Zenon, <2>1, <1>1, EmptyFacts DEF TypedTable
    <3>3. ta[src] = EMPTY /\ \A k \in Slots \ {src} : Alike(ta[k], slots[a][k])
      BY Zenon, <2>1, <1>1 DEF TypedTable, Alike
    <3> HIDE DEF ta
    <3>4. ForestTable(ta)
      BY <1>1, <3>1, <3>2, <3>3, Shrink DEF Alike, Live
    <3>5. KinTable(ta)
      BY Zenon, <1>1, <3>1, <3>2, <3>3, ShrinkKin DEF ForestTable
    <3>6. QED
      BY Zenon, <3>2, <3>4, <3>5
  <2>2. CASE mode # "Move"
    BY Zenon, <2>2, <1>1
  <2>3. QED
    BY Zenon, <2>1, <2>2
<1>6. TypedTable(tb) /\ ForestTable(tb) /\ KinTable(tb)
  <2> HIDE DEF new
  <2>1. TypedTable(tb)
    BY Zenon, <1>1, <1>2, <1>3 DEF TypedTable
  <2>2. /\ \A k \in Live(slots[b]) : k \in Live(tb) /\ Alike(tb[k], slots[b][k])
        /\ \A k \in Live(tb) \ Live(slots[b]) : tb[k] = new
    BY Zenon, <1>1, <1>4 DEF Live, Alike, TypedTable
  <2> HIDE DEF tb
  <2>3. ForestTable(tb)
    BY Zenon, <1>1, <1>3, <2>1, <2>2, Grow DEF Alike
  <2>4. KinTable(tb)
    BY Zenon, <1>1, <1>3, <2>1, <2>2, GrowKin DEF ForestTable
  <2>5. QED
    BY Zenon, <2>1, <2>3, <2>4
<1>7. slots' = [slots EXCEPT ![a] = ta, ![b] = tb] /\ UNCHANGED <<nextObj, dirty, op>>
  BY Zenon, <1>2, TreeFacts DEF Grant
<1> HIDE DEF ta, tb
<1>8. slots \in [Spaces -> [Slots -> Cte]]
  BY Zenon, TreeFacts
<1>9. \A s \in Spaces : slots'[s] = IF s = b THEN tb ELSE IF s = a THEN ta ELSE slots[s]
  BY Zenon, <1>7, <1>8, <1>2
<1>10. \A s \in Spaces : TypedTable(slots'[s]) /\ ForestTable(slots'[s]) /\ KinTable(slots'[s])
  BY Zenon, <1>5, <1>6, <1>9, TreeFacts
<1>11. slots' \in [Spaces -> [Slots -> Cte]]
  BY Zenon, <1>5, <1>6, <1>7, <1>8 DEF TypedTable
<1>12. TypeOK'
  BY Zenon, <1>7, <1>10, <1>11, TreeFacts DEF TypeOK, TypedTable, IsLive, OpOK
<1>13. QED
  BY Zenon, <1>10, <1>12 DEF TreeInv

LEMMA WriteFrameStep ==
  ASSUME TreeInv, NEW s \in Spaces, NEW c \in Slots, WriteFrame(s, c)
  PROVE  TreeInv'
<1>1. slots[s][c] \in Cte
  BY Zenon, TreeFacts
<1>2. FramesOf(slots[s][c]) \subseteq Nat
  BY <1>1, ConstantsAssumption DEF FramesOf, Cte
<1>3. QED
  BY Zenon, <1>2 DEF WriteFrame, TreeInv, TypeOK

LEMMA RevokeStart ==
  ASSUME TreeInv, NEW s \in Spaces, NEW c \in Slots, NEW delete \in BOOLEAN,
         Revoke(s, c, delete)
  PROVE  TreeInv'
<1>1. op' \in [active: {TRUE}, space: Spaces, slot: Slots, delete: BOOLEAN]
  BY Zenon DEF Revoke, Destroying
<1>2. QED
  BY Zenon, <1>1 DEF Revoke, TreeInv, TypeOK

-----------------------------------------------------------------------------
(* Invariance.                                                             *)

LEMMA TreeInit == Init => TreeInv
<1>1. SUFFICES ASSUME Init PROVE TreeInv
  BY Zenon
<1>2. \A s \in Spaces : TypedTable(slots[s])
  BY <1>1, BootAssumption, ConstantsAssumption DEF Init, TypedTable, Cte
<1>3. \A s \in Spaces, c \in Slots : slots[s][c].parent = NIL
  BY Zenon, <1>1, BootAssumption DEF Init
<1>4. \A s \in Spaces : ForestTable(slots[s]) /\ KinTable(slots[s])
  BY <1>3, NILNotSlot DEF ForestTable, LinkedTable, RootedTable, LeafyTable, KinTable
<1>5. slots \in [Spaces -> [Slots -> Cte]] /\ nextObj \in [Spaces -> Nat]
  BY Zenon, <1>1, BootAssumption DEF Init
<1>6. TypeOK
  BY Zenon, <1>1, <1>2, <1>5 DEF Init, TypeOK, TypedTable, IsLive
<1>7. QED
  BY Zenon, <1>4, <1>6 DEF TreeInv

LEMMA TreeNext == TreeInv /\ [Next]_vars => TreeInv'
<1>1. SUFFICES ASSUME TreeInv, [Next]_vars PROVE TreeInv'
  BY Zenon
<1>2. CASE UNCHANGED vars
  BY Zenon, <1>1, <1>2 DEF vars, TreeInv, TypeOK
<1>3. CASE Next
  BY <1>1, <1>3, RetypeStep, MintStep, CopyStep, MoveCapStep, SplitStep,
     DelegateStep, GrantStep, MintReplyStep, ConsumeReplyStep, RevokeStart,
     WriteFrameStep, RevokeStepStep, RevokeDoneStep
     DEF Next
<1>4. QED
  BY Zenon, <1>1, <1>2, <1>3

LEMMA TreeInvariant == Spec => []TreeInv
BY TreeInit, TreeNext, PTL DEF Spec

(* Every reachable state is well typed and no Untyped overdraws.            *)
THEOREM TypeCorrect == Spec => []TypeOK
<1>1. TreeInv => TypeOK
  BY Zenon DEF TreeInv
<1>2. QED
  BY <1>1, TreeInvariant, PTL

(* No operation of cspace.rs leaves a parent link to an empty slot.         *)
THEOREM LinksLive == Spec => []ParentsLive
<1>1. TreeInv => ParentsLive
  BY Zenon DEF TreeInv, ParentsLive, ForestTable, LinkedTable, Live, IsLive
<1>2. QED
  BY <1>1, TreeInvariant, PTL

(* The derivation links never close a cycle.                               *)
THEOREM LinksForest == Spec => []Forest
<1>1. TreeInv => Forest
  BY Zenon DEF TreeInv, Forest, ForestTable, RootedTable
<1>2. QED
  BY <1>1, TreeInvariant, PTL

(* Rights only shrink along derivation links.                              *)
THEOREM Monotone == Spec => []DerivationMonotone
<1>1. TreeInv => DerivationMonotone
  BY Zenon DEF TreeInv, DerivationMonotone, KinTable
<1>2. QED
  BY <1>1, TreeInvariant, PTL
-----------------------------------------------------------------------------
(* What revoke has done when it returns.                                   *)

LEMMA RevokeDoneNoChild ==
  ASSUME TreeInv, RevokeDone
  PROVE  \A k \in Slots : slots'[op.space][k].parent # op.slot
<1> DEFINE s == op.space
           c == op.slot
           t == slots[s]
<1>1. s \in Spaces /\ c \in Slots
  BY Zenon, OpFacts DEF RevokeDone, TreeInv
<1>2. TypedTable(t) /\ ForestTable(t)
  BY Zenon, <1>1, TreeFacts
<1>3. \A k \in Slots : t[k].parent # c
  BY Zenon, <1>1, <1>2, NoLeafNoChild DEF RevokeDone
<1>4. slots \in [Spaces -> [Slots -> Cte]]
  BY Zenon, <1>1, TreeFacts
<1>5. CASE DestroySlot(s, c)
  <2>1. slots'[s] = Without(t, c)
    BY Zenon, <1>1, <1>4, <1>5 DEF DestroySlot
  <2>2. /\ Without(t, c)[c] = EMPTY
        /\ \A k \in Slots \ {c} : Alike(Without(t, c)[k], t[k])
    BY Zenon, <1>1, <1>2, WithoutFacts
  <2>3. ASSUME NEW k \in Slots PROVE Without(t, c)[k].parent # c
    <3>1. CASE k = c
      BY Zenon, <3>1, <2>2, <1>1, EmptyFacts, NILNotSlot
    <3>2. CASE k # c
      BY Zenon, <3>2, <2>2, <1>3 DEF Alike
    <3>3. QED
      BY Zenon, <3>1, <3>2
  <2>4. QED
    BY Zenon, <2>1, <2>3
<1>6. CASE slots' = [slots EXCEPT ![s] = [slots[s] EXCEPT ![c] = [t[c] EXCEPT !.wm = 0]]]
  <2>1. \A k \in Slots : slots'[s][k].parent = t[k].parent
    BY <1>1, <1>4, <1>6 DEF Cte
  <2>2. QED
    BY Zenon, <1>3, <2>1
<1>7. CASE slots' = slots
  BY Zenon, <1>3, <1>7
<1>8. QED
  BY Zenon, <1>5, <1>6, <1>7 DEF RevokeDone

(* When revoke or delete of a slot returns, nothing is derived from it.     *)
THEOREM RevokeIsComplete == Spec => RevokeComplete
<1>1. ASSUME TreeInv, [Next]_vars, op.active, ~op'.active
      PROVE  \A k \in Slots : slots'[op.space][k].parent # op.slot
  <2>1. op' # op
    BY Zenon, <1>1
  <2>2. RevokeDone
    BY <1>1, <2>1
       DEF Next, vars, Retype, Mint, Copy, MoveCap, Split, Delegate, Grant,
           MintReply, ConsumeReply, Revoke, WriteFrame, RevokeStep
  <2>3. QED
    BY Zenon, <1>1, <2>2, RevokeDoneNoChild
<1>2. TreeInv /\ [Next]_vars =>
        [op.active /\ ~op'.active =>
           \A k \in Slots : slots'[op.space][k].parent # op.slot]_vars
  BY Zenon, <1>1
<1>3. QED
  BY <1>2, TreeInvariant, PTL DEF Spec, RevokeComplete

-----------------------------------------------------------------------------
(* Untypeds, Domains and Replies.                                          *)

LinearTypes == {"Untyped", "Domain", "Reply"}

(* Steps after which every such capability is where it was.                *)
LEMMA LinearStays ==
  ASSUME Linear,
         \A s \in Spaces, c \in Slots : slots'[s][c].type \in LinearTypes =>
           /\ slots[s][c].type = slots'[s][c].type
           /\ slots[s][c].objref = slots'[s][c].objref
  PROVE  Linear'
BY DEF Linear, LinearTypes

(* The same, for a step that puts the table u in the place of t.           *)
LinearFrom(t, u) ==
  \A c \in Slots : u[c].type \in LinearTypes =>
    t[c].type = u[c].type /\ t[c].objref = u[c].objref

LEMMA LinearOneTable ==
  ASSUME TreeInv, Linear, NEW s \in Spaces, NEW u,
         slots' = [slots EXCEPT ![s] = u],
         LinearFrom(slots[s], u)
  PROVE  Linear'
<1>1. slots \in [Spaces -> [Slots -> Cte]]
  BY Zenon, TreeFacts
<1>2. \A r \in Spaces : slots'[r] = IF r = s THEN u ELSE slots[r]
  BY Zenon, <1>1
<1>3. QED
  BY <1>2, LinearStays DEF LinearFrom

LEMMA LinearDestroy ==
  ASSUME TreeInv, Linear, NEW s \in Spaces, NEW d \in Slots, DestroySlot(s, d)
  PROVE  Linear'
<1> DEFINE u == Without(slots[s], d)
<1>1. u[d].type = "Null" /\ \A k \in Slots \ {d} : Alike(u[k], slots[s][k])
  BY Zenon, TreeFacts, WithoutFacts, EmptyFacts
<1>2. LinearFrom(slots[s], u)
  BY Zenon, <1>1 DEF Alike, LinearTypes, LinearFrom
<1> HIDE DEF u
<1>3. slots' = [slots EXCEPT ![s] = u]
  BY Zenon DEF DestroySlot, u
<1>4. QED
  BY Zenon, <1>2, <1>3, LinearOneTable

LEMMA LinearPlace ==
  ASSUME TreeInv, Linear, NEW s \in Spaces, NEW dest \in Slots, NEW e,
         e.type \notin LinearTypes, Place(s, dest, e)
  PROVE  Linear'
<1> DEFINE u == [slots[s] EXCEPT ![dest] = e]
<1>1. \A c \in Slots : u[c] = IF c = dest THEN e ELSE slots[s][c]
  BY Zenon, TreeFacts DEF TypedTable
<1>2. slots' = [slots EXCEPT ![s] = u]
  BY Zenon DEF Place
<1>3. LinearFrom(slots[s], u)
  BY Zenon, <1>1 DEF LinearFrom
<1> HIDE DEF u
<1>4. QED
  BY Zenon, <1>2, <1>3, LinearOneTable

LEMMA LinearMintReply ==
  ASSUME TreeInv, Linear, NEW s \in Spaces, NEW dest \in Slots,
         NEW caller \in Callers, MintReply(s, dest, caller)
  PROVE  Linear'
<1> DEFINE new == Entry("Reply", {}, caller, 0, NIL)
<1>1. \A r \in Spaces, c \in Slots :
        slots'[r][c] = IF r = s /\ c = dest THEN new ELSE slots[r][c]
  <2>1. slots \in [Spaces -> [Slots -> Cte]]
    BY Zenon, TreeFacts
  <2> HIDE DEF new
  <2>2. slots' = [slots EXCEPT ![s] = [slots[s] EXCEPT ![dest] = new]]
    BY Zenon DEF MintReply, Place, new
  <2>3. QED
    BY Zenon, <2>1, <2>2
<1>2. new.type = "Reply" /\ new.objref = caller
  BY Zenon DEF Entry
<1>3. \A r \in Spaces, c \in Slots :
        ~(slots[r][c].type = "Reply" /\ slots[r][c].objref = caller)
  BY Zenon DEF MintReply
<1> HIDE DEF new
<1>4. QED
  BY <1>1, <1>2, <1>3 DEF Linear

LEMMA LinearMoveCap ==
  ASSUME TreeInv, Linear, NEW s \in Spaces, NEW src \in Slots, NEW dest \in Slots,
         MoveCap(s, src, dest)
  PROVE  Linear'
<1> DEFINE Old(r, c) == IF r = s /\ c = dest THEN src ELSE c
<1>1. src # dest
  BY Zenon DEF MoveCap
<1>2. \A r \in Spaces, c \in Slots : slots'[r][c].type \in LinearTypes =>
        /\ r = s => c # src
        /\ slots[r][Old(r, c)].type = slots'[r][c].type
        /\ slots[r][Old(r, c)].objref = slots'[r][c].objref
  <2>1. slots \in [Spaces -> [Slots -> Cte]]
    BY Zenon, TreeFacts
  <2>2. \A r \in Spaces \ {s} : slots'[r] = slots[r]
    BY Zenon, <2>1 DEF MoveCap
  <2>3. slots'[s] = [k \in Slots |->
                       IF k = src THEN EMPTY
                       ELSE IF k = dest THEN slots[s][src]
                       ELSE IF slots[s][k].parent = src
                       THEN [slots[s][k] EXCEPT !.parent = dest]
                       ELSE slots[s][k]]
    BY Zenon, <2>1 DEF MoveCap, Moved
  <2>4. \A k \in Slots \ {src, dest} : /\ slots'[s][k].type = slots[s][k].type
                                       /\ slots'[s][k].objref = slots[s][k].objref
    BY <2>1, <2>3 DEF Cte
  <2>5. slots'[s][src].type = "Null" /\ slots'[s][dest] = slots[s][src]
    BY Zenon, <1>1, <2>3, EmptyFacts
  <2>6. QED
    BY Zenon, <1>1, <2>2, <2>4, <2>5 DEF LinearTypes
<1>3. QED
  BY <1>1, <1>2 DEF Linear, LinearTypes

LEMMA LinearGrant ==
  ASSUME TreeInv, Linear, NEW a \in Spaces, NEW b \in Spaces, NEW src \in Slots,
         NEW dest \in Slots, NEW r \in NewRights, NEW mode \in GrantModes,
         Grant(a, src, b, dest, r, mode)
  PROVE  Linear'
<1> DEFINE e == slots[a][src]
           new == [e EXCEPT !.rights = r, !.parent = NIL]
<1>1. slots \in [Spaces -> [Slots -> Cte]] /\ a # b
  BY Zenon, TreeFacts DEF Grant
<1>2. new.type = e.type /\ new.objref = e.objref
  BY <1>1 DEF Cte
<1> HIDE DEF new
<1>3. \A s \in Spaces, c \in Slots :
        slots'[s][c] = IF s = b /\ c = dest THEN new
                       ELSE IF s = a /\ c = src /\ mode = "Move" THEN EMPTY
                       ELSE slots[s][c]
  <2>1. slots' = [slots EXCEPT
                    ![a] = IF mode = "Move" THEN [slots[a] EXCEPT ![src] = EMPTY] ELSE @,
                    ![b] = [slots[b] EXCEPT ![dest] = new]]
    BY Zenon DEF Grant, new
  <2>2. QED
    BY Zenon, <1>1, <2>1
<1>4. CASE e.type \notin LinearTypes
  <2>1. QED
    BY <1>2, <1>3, <1>4, EmptyFacts, LinearStays DEF LinearTypes
<1>5. CASE e.type \in LinearTypes
  <2>1. mode = "Move"
    BY Zenon, <1>5, ConstantsAssumption DEF Grant, LinearTypes, Grantable
  <2>2. QED
    BY <1>1, <1>2, <1>3, <2>1, EmptyFacts DEF Linear
<1>6. QED
  BY Zenon, <1>4, <1>5

LEMMA LinearNext == TreeInv /\ Linear /\ [Next]_vars => Linear'
<1>1. SUFFICES ASSUME TreeInv, Linear, [Next]_vars PROVE Linear'
  BY Zenon
<1>2. ASSUME NEW s \in Spaces, NEW c \in Slots, NEW dest \in Slots,
             NEW t \in RetypeTypes, NEW perObj \in 0 .. MaxPerObj, NEW count \in 0 .. N,
             Retype(s, c, t, perObj, count, dest)
      PROVE  Linear'
  <2> DEFINE ut == slots[s][c]
             into == dest .. dest + count - 1
             new(k) == Entry(t, DefaultRights(t), ObjectAt(ut, k - dest, perObj), perObj, c)
             more == [ut EXCEPT !.wm = ut.wm + perObj * count]
             u == [k \in Slots |-> IF k \in into THEN new(k) ELSE IF k = c THEN more
                                   ELSE slots[s][k]]
  <2>1. slots' = [slots EXCEPT ![s] = u]
    BY Zenon, <1>2 DEF Retype
  <2>2. t \notin LinearTypes
    BY Zenon, <1>2 DEF Retype, NotRetypeable, LinearTypes
  <2>3. \A k : new(k).type = t
    BY Zenon DEF Entry
  <2>4. more.type = ut.type /\ more.objref = ut.objref
    BY <1>1, TreeFacts DEF Cte
  <2> HIDE DEF new, more
  <2>5. LinearFrom(slots[s], u)
    BY Zenon, <2>2, <2>3, <2>4 DEF LinearFrom
  <2> HIDE DEF u
  <2>6. QED
    BY Zenon, <1>1, <2>1, <2>5, LinearOneTable
<1>3. ASSUME NEW s \in Spaces, NEW c \in Slots, NEW dest \in Slots,
             NEW r \in NewRights, Mint(s, c, dest, r)
      PROVE  Linear'
  <2>1. [slots[s][c] EXCEPT !.rights = r, !.parent = c].type = slots[s][c].type
    BY <1>1, TreeFacts DEF Cte
  <2>2. QED
    BY Zenon, <1>1, <1>3, <2>1, LinearPlace DEF Mint, NonDuplicable, LinearTypes, MayMint
<1>4. ASSUME NEW s \in Spaces, NEW c \in Slots, NEW dest \in Slots, Copy(s, c, dest)
      PROVE  Linear'
  <2> DEFINE e == slots[s][c]
             new == [e EXCEPT !.parent = IF e.parent = NIL THEN c ELSE e.parent]
  <2>1. new.type = e.type
    BY <1>1, TreeFacts DEF Cte
  <2>2. Place(s, dest, new) /\ e.type \notin LinearTypes
    BY Zenon, <1>4 DEF Copy, NonDuplicable, LinearTypes
  <2> HIDE DEF new
  <2>3. QED
    BY Zenon, <1>1, <2>1, <2>2, LinearPlace
<1>5. ASSUME NEW s \in Spaces, NEW c \in Slots, NEW dest \in Slots,
             NEW amount \in 0 .. U32Max, Split(s, c, dest, amount)
      PROVE  Linear'
  <2> DEFINE e == slots[s][c]
             new == Entry("Sched", e.rights, nextObj[s], amount, c)
             rest == [e EXCEPT !.size = e.size - amount]
             u == [k \in Slots |-> IF k = dest THEN new ELSE IF k = c THEN rest
                                   ELSE slots[s][k]]
  <2>1. slots' = [slots EXCEPT ![s] = u]
    BY Zenon, <1>5 DEF Split
  <2>2. new.type = "Sched" /\ rest.type = "Sched"
    BY <1>1, <1>5, TreeFacts DEF Entry, Split, Cte
  <2> HIDE DEF new, rest
  <2>3. LinearFrom(slots[s], u)
    BY Zenon, <2>2 DEF LinearTypes, LinearFrom
  <2> HIDE DEF u
  <2>4. QED
    BY Zenon, <1>1, <2>1, <2>3, LinearOneTable
<1>6. ASSUME NEW s \in Spaces, NEW c \in Slots, NEW dest \in Slots,
             NEW amount \in 0 .. U32Max, Delegate(s, c, dest, amount)
      PROVE  Linear'
  <2> DEFINE less == [slots[s][c] EXCEPT !.size = slots[s][c].size - amount]
             more == [slots[s][dest] EXCEPT !.size = slots[s][dest].size + amount]
             u == [k \in Slots |-> IF k = c THEN less ELSE IF k = dest THEN more
                                   ELSE slots[s][k]]
  <2>1. slots' = [slots EXCEPT ![s] = u]
    BY Zenon, <1>6 DEF Delegate
  <2>2. less.type = "Sched" /\ more.type = "Sched"
    BY <1>1, <1>6, TreeFacts DEF Delegate, Cte
  <2> HIDE DEF less, more
  <2>3. LinearFrom(slots[s], u)
    BY Zenon, <2>2 DEF LinearTypes, LinearFrom
  <2> HIDE DEF u
  <2>4. QED
    BY Zenon, <1>1, <2>1, <2>3, LinearOneTable
<1>7. CASE RevokeStep
  <2>1. PICK d \in Leaves(slots[op.space], op.slot) : DestroySlot(op.space, d)
    BY Zenon, <1>7 DEF RevokeStep
  <2>2. d \in Slots /\ op.space \in Spaces
    BY Zenon, <1>1, <1>7, <2>1, OpFacts DEF RevokeStep, TreeInv, Leaves, Descendants, Subtree
  <2>3. QED
    BY Zenon, <1>1, <2>1, <2>2, LinearDestroy
<1>8. CASE RevokeDone
  <2> DEFINE s == op.space
             c == op.slot
             new == [slots[s][c] EXCEPT !.wm = 0]
             u == [slots[s] EXCEPT ![c] = new]
  <2>1. s \in Spaces /\ c \in Slots
    BY Zenon, <1>1, <1>8, OpFacts DEF RevokeDone, TreeInv
  <2>2. CASE DestroySlot(s, c)
    BY Zenon, <1>1, <2>1, <2>2, LinearDestroy
  <2>3. CASE slots' = [slots EXCEPT ![s] = u]
    <3>1. new.type = slots[s][c].type /\ new.objref = slots[s][c].objref
      BY <1>1, <2>1, TreeFacts DEF Cte
    <3> HIDE DEF new
    <3>2. LinearFrom(slots[s], u)
      BY Zenon, <1>1, <2>1, <3>1, TreeFacts DEF TypedTable, LinearFrom
    <3> HIDE DEF u
    <3>3. QED
      BY Zenon, <1>1, <2>1, <2>3, <3>2, LinearOneTable
  <2>4. CASE slots' = slots
    BY <1>1, <2>4 DEF Linear
  <2>5. QED
    BY Zenon, <1>8, <2>2, <2>3, <2>4 DEF RevokeDone
<1>9. CASE slots' = slots
  BY <1>1, <1>9 DEF Linear
<1>10. ASSUME NEW s \in Spaces, NEW c \in Slots, ConsumeReply(s, c)
       PROVE  Linear'
  BY Zenon, <1>1, <1>10, LinearDestroy DEF ConsumeReply
<1>11. CASE Next
  <2>1. ASSUME NEW s \in Spaces, NEW c \in Slots, NEW delete \in BOOLEAN, Revoke(s, c, delete)
        PROVE  slots' = slots
    BY Zenon, <2>1 DEF Revoke
  <2>2. ASSUME NEW s \in Spaces, NEW c \in Slots, WriteFrame(s, c)
        PROVE  slots' = slots
    BY Zenon, <2>2 DEF WriteFrame
  <2>3. QED
    BY <1>1, <1>2, <1>3, <1>4, <1>5, <1>6, <1>7, <1>8, <1>9, <1>10, <1>11, <2>1, <2>2,
       LinearMoveCap, LinearGrant, LinearMintReply DEF Next
<1>12. QED
  BY Zenon, <1>1, <1>9, <1>11 DEF vars

(* Untypeds, Domains and Replies have at most one capability each, whatever *)
(* is minted, copied, moved, granted or revoked.                           *)
THEOREM NeverDuplicated == Spec => []Linear
<1>1. Init => Linear
  BY BootAssumption DEF Init, Linear, BootTypes
<1>2. QED
  BY <1>1, LinearNext, TreeInvariant, PTL DEF Spec
=============================================================================
