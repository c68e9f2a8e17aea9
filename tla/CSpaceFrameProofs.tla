------------------------- MODULE CSpaceFrameProofs --------------------------
(***************************************************************************)
(* Proofs about CSpace, continued: the bounded walk of is_descendant finds  *)
(* exactly the derived slots; and, as long as no capability is granted to   *)
(* another space, no frame is handed out twice, none that holds data is     *)
(* left without a capability, and none that is still owned is wiped.        *)
(***************************************************************************)
EXTENDS CSpaceProofs, NatFacts

-----------------------------------------------------------------------------
(* The walk.                                                               *)

(* The function that Up defines by recursion exists.                       *)
WalkFun(t, start, n, f) ==
  f = [k \in 0 .. n |->
         IF k = 0 THEN start ELSE IF f[k - 1] = NIL THEN NIL ELSE t[f[k - 1]].parent]

LEMMA WalkExists ==
  ASSUME NEW t, NEW start
  PROVE  \A n \in Nat : \E f : WalkFun(t, start, n, f)
<1> DEFINE P == {n \in Nat : \E f : WalkFun(t, start, n, f)}
<1>1. 0 \in P
  <2> DEFINE f == [k \in 0 .. 0 |-> start]
  <2>1. WalkFun(t, start, 0, f)
    BY DEF WalkFun
  <2>2. QED
    BY Zenon, <2>1
<1>2. ASSUME NEW n \in P PROVE n + 1 \in P
  <2>1. PICK f : WalkFun(t, start, n, f)
    BY Zenon
  <2> DEFINE top == IF f[n] = NIL THEN NIL ELSE t[f[n]].parent
             g == [k \in 0 .. n + 1 |-> IF k = n + 1 THEN top ELSE f[k]]
  <2>2. n \in Nat /\ \A k \in 0 .. n + 1 : k # n + 1 => k \in 0 .. n
    OBVIOUS
  <2>3. \A k \in 0 .. n :
          f[k] = IF k = 0 THEN start ELSE IF f[k - 1] = NIL THEN NIL ELSE t[f[k - 1]].parent
    BY Zenon, <2>1 DEF WalkFun
  <2>4. ASSUME NEW k \in 0 .. n + 1
        PROVE  g[k] = IF k = 0 THEN start ELSE IF g[k - 1] = NIL THEN NIL ELSE t[g[k - 1]].parent
    <3>1. CASE k = n + 1
      <4>1. k # 0 /\ k - 1 = n /\ n \in 0 .. n + 1 /\ n # n + 1
        BY <3>1, <2>2
      <4>2. g[k] = top /\ g[k - 1] = f[n]
        BY Zenon, <4>1, <3>1
      <4>3. QED
        BY Zenon, <4>1, <4>2
    <3>2. CASE k # n + 1
      <4>1. k \in 0 .. n /\ g[k] = f[k]
        BY Zenon, <3>2, <2>2
      <4>2. k # 0 => k - 1 \in 0 .. n + 1 /\ k - 1 # n + 1 /\ g[k - 1] = f[k - 1]
        BY <4>1, <2>2
      <4>3. QED
        BY Zenon, <4>1, <4>2, <2>3
    <3>3. QED
      BY Zenon, <3>1, <3>2
  <2>5. g = [k \in 0 .. n + 1 |->
               IF k = 0 THEN start ELSE IF g[k - 1] = NIL THEN NIL ELSE t[g[k - 1]].parent]
    BY Zenon, <2>4
  <2>6. WalkFun(t, start, n + 1, g)
    BY Zenon, <2>5 DEF WalkFun
  <2>7. QED
    BY <2>2, <2>6
<1>3. P \in SUBSET Nat
  BY Zenon
<1> HIDE DEF P
<1>4. Nat \subseteq P
  BY Zenon, <1>1, <1>2, <1>3, NatSetInduction
<1>5. QED
  BY Zenon, <1>4 DEF P

LEMMA WalkFacts ==
  ASSUME NEW t, NEW start
  PROVE  \A n \in 0 .. N + 1 :
           Up(t, start)[n] = IF n = 0 THEN start
                             ELSE IF Up(t, start)[n - 1] = NIL THEN NIL
                             ELSE t[Up(t, start)[n - 1]].parent
<1>1. PICK f : WalkFun(t, start, N + 1, f)
  BY WalkExists, ConstantsAssumption
<1>2. WalkFun(t, start, N + 1, Up(t, start))
  BY Zenon, <1>1 DEF WalkFun, Up
<1> DEFINE g == Up(t, start)
<1>3. g = [k \in 0 .. N + 1 |->
             IF k = 0 THEN start ELSE IF g[k - 1] = NIL THEN NIL ELSE t[g[k - 1]].parent]
  BY Zenon, <1>2 DEF WalkFun
<1> HIDE DEF g
<1>4. \A k \in 0 .. N + 1 :
         g[k] = IF k = 0 THEN start ELSE IF g[k - 1] = NIL THEN NIL ELSE t[g[k - 1]].parent
  BY Zenon, <1>3
<1>5. QED
  BY Zenon, <1>4 DEF g

(* In a table whose links form a forest the walk passes the root: else it   *)
(* met a slot twice, by the pigeonhole principle, and the slots in between  *)
(* were a cycle.                                                           *)
LEMMA WalkEnds ==
  ASSUME NEW t, TypedTable(t), ForestTable(t), NEW d \in Slots
  PROVE  /\ \A n \in 0 .. N + 1 : Up(t, d)[n] \in Slots \cup {NIL}
         /\ \E n \in 0 .. N : Up(t, d)[n] = NIL
<1> DEFINE up == Up(t, d)
<1>1. \A n \in 0 .. N + 1 :
        up[n] = IF n = 0 THEN d ELSE IF up[n - 1] = NIL THEN NIL ELSE t[up[n - 1]].parent
  BY WalkFacts
<1> HIDE DEF up
<1>0. N \in Nat \ {0}
  BY Zenon, ConstantsAssumption
<1>2. \A n \in 0 .. N + 1 : up[n] \in Slots \cup {NIL}
  <2> DEFINE P == {n \in Nat : n <= N + 1 => up[n] \in Slots \cup {NIL}}
  <2>1. 0 \in P
    BY <1>0, <1>1
  <2>2. ASSUME NEW n \in P PROVE n + 1 \in P
    <3>1. CASE n + 1 <= N + 1
      <4>1. n + 1 \in 0 .. N + 1 /\ (n + 1) - 1 = n /\ n + 1 # 0 /\ up[n] \in Slots \cup {NIL}
        BY <3>1, <1>0
      <4>2. up[n + 1] = IF up[n] = NIL THEN NIL ELSE t[up[n]].parent
        BY Zenon, <4>1, <1>1
      <4>3. up[n + 1] \in Slots \cup {NIL}
        BY Zenon, <4>1, <4>2, ParentFacts
      <4>4. QED
        BY <4>3
    <3>2. QED
      BY <3>1
  <2>3. P \in SUBSET Nat
    BY Zenon
  <2> HIDE DEF P
  <2>4. P = Nat
    BY Zenon, <2>1, <2>2, <2>3, NatSetInduction
  <2>5. QED
    BY <2>4, <1>0 DEF P
<1>3. ASSUME \A n \in 0 .. N : up[n] # NIL PROVE FALSE
  <2> DEFINE f == [n \in 0 .. N |-> up[n]]
             D == 0 .. N
  <2>1. f \in [D -> Slots]
    BY <1>0, <1>2, <1>3
  <2>2. /\ IsFiniteSet(D) /\ Cardinality(D) = N + 1
        /\ IsFiniteSet(Slots) /\ Cardinality(Slots) = N
    BY <1>0, FS_Interval DEF Slots
  <2>3. \E i, j \in D : i # j /\ f[i] = f[j]
    <3> HIDE DEF D, f
    <3> QED
      BY <1>0, <2>1, <2>2, FS_PigeonHole
  <2>4. PICK i, j \in 0 .. N : i < j /\ up[i] = up[j]
    BY <2>3, <1>0
  <2> DEFINE C == {up[k] : k \in i .. j - 1}
  <2>5. C \in SUBSET Slots /\ C # {}
    <3>1. \A k \in i .. j - 1 : k \in 0 .. N /\ up[k] \in Slots
      BY <2>4, <1>0, <1>2, <1>3
    <3>2. i \in i .. j - 1
      BY <2>4
    <3>3. QED
      BY Zenon, <3>1, <3>2
  <2>6. ASSUME NEW c \in C PROVE t[c].parent \in C
    <3>1. PICK k \in i .. j - 1 : c = up[k]
      BY Zenon
    <3>2. k \in 0 .. N /\ k + 1 \in 0 .. N + 1 /\ k + 1 # 0 /\ (k + 1) - 1 = k
      BY <2>4, <1>0
    <3>3. t[c].parent = up[k + 1]
      BY Zenon, <3>1, <3>2, <1>1, <1>3
    <3>4. k + 1 \in i .. j - 1 \/ k + 1 = j
      BY <2>4
    <3>5. up[j] \in C
      <4>1. i \in i .. j - 1
        BY <2>4
      <4>2. QED
        BY Zenon, <4>1, <2>4
    <3>6. QED
      BY Zenon, <3>3, <3>4, <3>5
  <2>7. QED
    <3> HIDE DEF C
    <3> QED
      BY Zenon, <2>5, <2>6 DEF ForestTable, RootedTable
<1>4. QED
  BY Zenon, <1>2, <1>3 DEF up

(* A slot the walk meets is an ancestor: every set that is closed under      *)
(* children and holds it holds the slots below it on the walk.              *)
LEMMA WalkSound ==
  ASSUME NEW t, TypedTable(t), ForestTable(t), NEW c \in Slots, NEW d \in Slots,
         IsDescendant(t, d, c)
  PROVE  d \in Subtree(t, c)
<1> DEFINE up == Up(t, d)
<1>1. /\ \A n \in 0 .. N + 1 : up[n] = IF n = 0 THEN d
                                       ELSE IF up[n - 1] = NIL THEN NIL ELSE t[up[n - 1]].parent
      /\ \A n \in 0 .. N + 1 : up[n] \in Slots \cup {NIL}
  BY WalkFacts, WalkEnds
<1>2. PICK n \in 1 .. N + 1 : up[n] = c
  BY Zenon DEF IsDescendant
<1> HIDE DEF up
<1>0. N \in Nat \ {0}
  BY Zenon, ConstantsAssumption
<1>3. SUFFICES ASSUME NEW S \in SUBSET Slots, c \in S,
                      \A k \in Slots : t[k].parent \in S => k \in S
               PROVE  d \in S
  BY Zenon DEF Subtree
<1> DEFINE P == {k \in Nat : k <= n => up[n - k] \in S}
<1>4. 0 \in P
  BY <1>0, <1>2, <1>3
<1>5. ASSUME NEW k \in P PROVE k + 1 \in P
  <2>1. CASE k + 1 <= n
    <3>1. /\ n - k \in 0 .. N + 1 /\ n - k # 0 /\ (n - k) - 1 = n - (k + 1)
          /\ n - (k + 1) \in 0 .. N + 1 /\ up[n - k] \in S
      BY <2>1, <1>0
    <3>2. up[n - k] = IF up[n - (k + 1)] = NIL THEN NIL ELSE t[up[n - (k + 1)]].parent
      BY Zenon, <3>1, <1>1
    <3>3. up[n - (k + 1)] # NIL /\ up[n - (k + 1)] \in Slots
      BY Zenon, <3>1, <3>2, <1>1, NILNotSlot
    <3>4. up[n - (k + 1)] \in S
      BY Zenon, <3>1, <3>2, <3>3, <1>3
    <3>5. QED
      BY <3>4
  <2>2. QED
    BY <2>1
<1>6. P \in SUBSET Nat
  BY Zenon
<1> HIDE DEF P
<1>7. P = Nat
  BY Zenon, <1>4, <1>5, <1>6, NatSetInduction
<1>8. n \in Nat /\ n <= n /\ n - n = 0
  BY <1>0
<1>9. up[0] \in S
  BY Zenon, <1>7, <1>8 DEF P
<1>10. QED
  BY <1>9, <1>1, <1>0

(* And every ancestor is met: the slots that are not on the walk are closed *)
(* under children.                                                         *)
LEMMA WalkComplete ==
  ASSUME NEW t, TypedTable(t), ForestTable(t), NEW c \in Slots, NEW d \in Subtree(t, c), d # c
  PROVE  IsDescendant(t, d, c)
<1>1. d \in Slots
  BY Zenon DEF Subtree
<1> DEFINE up == Up(t, d)
<1>2. /\ \A n \in 0 .. N + 1 : up[n] = IF n = 0 THEN d
                                       ELSE IF up[n - 1] = NIL THEN NIL ELSE t[up[n - 1]].parent
      /\ \A n \in 0 .. N + 1 : up[n] \in Slots \cup {NIL}
      /\ \E n \in 0 .. N : up[n] = NIL
  BY <1>1, WalkFacts, WalkEnds
<1>3. SUFFICES ASSUME \A n \in 1 .. N + 1 : up[n] # c PROVE FALSE
  BY Zenon DEF IsDescendant
<1> HIDE DEF up
<1>0. N \in Nat \ {0}
  BY Zenon, ConstantsAssumption
<1> DEFINE A == {up[n] : n \in 0 .. N + 1}
           S == Slots \ A
<1>4. up[0] = d /\ d \in A
  BY <1>0, <1>2
<1>5. c \in S
  <2>1. \A n \in 0 .. N + 1 : n = 0 \/ n \in 1 .. N + 1
    BY <1>0
  <2>2. QED
    BY Zenon, <2>1, <1>3, <1>4
<1>6. ASSUME NEW k \in Slots, t[k].parent \in S PROVE k \in S
  <2>1. SUFFICES ASSUME k \in A PROVE FALSE
    BY Zenon
  <2>2. PICK n \in 0 .. N + 1 : k = up[n]
    BY Zenon, <2>1
  <2>3. up[n] # NIL
    BY Zenon, <2>2, NILNotSlot
  <2>4. CASE n <= N
    <3>1. n + 1 \in 0 .. N + 1 /\ n + 1 # 0 /\ (n + 1) - 1 = n
      BY <2>4, <1>0
    <3>2. t[k].parent = up[n + 1]
      BY Zenon, <3>1, <2>2, <2>3, <1>2
    <3>3. QED
      BY Zenon, <3>1, <3>2, <1>6
  <2>5. CASE n = N + 1
    <3>1. PICK m \in 0 .. N : up[m] = NIL
      BY Zenon, <1>2
    <3> DEFINE P == {j \in Nat : m + j <= N + 1 => up[m + j] = NIL}
    <3>2. 0 \in P
      BY <3>1, <1>0
    <3>3. ASSUME NEW j \in P PROVE j + 1 \in P
      <4>1. CASE m + (j + 1) <= N + 1
        <5>1. /\ m + (j + 1) \in 0 .. N + 1 /\ m + (j + 1) # 0
              /\ (m + (j + 1)) - 1 = m + j /\ up[m + j] = NIL
          BY <4>1, <1>0
        <5>2. up[m + (j + 1)] = NIL
          BY Zenon, <5>1, <1>2
        <5>3. QED
          BY <5>2
      <4>2. QED
        BY <4>1
    <3>4. P \in SUBSET Nat
      BY Zenon
    <3> HIDE DEF P
    <3>5. P = Nat
      BY Zenon, <3>2, <3>3, <3>4, NatSetInduction
    <3>6. (N + 1) - m \in P /\ m + ((N + 1) - m) = N + 1
      BY <3>5, <1>0
    <3>7. QED
      BY <3>6, <2>3, <2>5, <1>0 DEF P
  <2>6. QED
    BY <2>4, <2>5, <1>0
<1>7. d \in S
  <2> HIDE DEF A
  <2>1. S \in SUBSET Slots
    BY Zenon
  <2> HIDE DEF S
  <2>2. QED
    BY Zenon, <2>1, <1>5, <1>6 DEF Subtree
<1>8. QED
  BY Zenon, <1>4, <1>7

(* is_descendant, with its bound of N + 1 parents, finds exactly the slots   *)
(* derived from its ancestor, in every table the operations can build.      *)
THEOREM WalkIsExact == Spec => []WalkFindsDescendants
<1>1. TreeInv => WalkFindsDescendants
  <2> SUFFICES ASSUME TreeInv, NEW s \in Spaces, NEW c \in Slots, NEW d \in Slots, d # c
               PROVE  IsDescendant(slots[s], d, c) <=> d \in Descendants(slots[s], c)
    BY Zenon DEF WalkFindsDescendants
  <2>1. TypedTable(slots[s]) /\ ForestTable(slots[s])
    BY Zenon, TreeFacts
  <2>2. QED
    BY Zenon, <2>1, WalkSound, WalkComplete DEF Descendants
<1>2. QED
  BY <1>1, TreeInvariant, PTL

-----------------------------------------------------------------------------
(* Frames.                                                                 *)

(* What an Untyped has handed out since it was last revoked, and the rest.  *)
UsedOf(u) == u.objref .. (u.objref + u.wm - 1)
FreeOf(u) == (u.objref + u.wm) .. (u.objref + u.size - 1)

(* The frames boot gives a space.                                          *)
Region(s) ==
  {f \in Nat : \E k \in Slots :
     Boot[s][k].type \in {"Untyped", "Frame"} /\ f \in FramesOf(Boot[s][k])}

Disjoint(A, B) == A \cap B = {}

(* A table and its space's frames R: Untypeds do not overlap; everything    *)
(* lies in R; a root that owns frames lies outside every Untyped and what   *)
(* was retyped lies in the used part of the Untyped it hangs below; two     *)
(* capabilities that own frames name one object or do not overlap; a Frame  *)
(* has a frame.                                                            *)
FrameTable(t, R) ==
  /\ \A c, d \in Slots :
       c # d /\ t[c].type = "Untyped" /\ t[d].type = "Untyped" =>
         Disjoint(FramesOf(t[c]), FramesOf(t[d]))
  /\ \A c \in Slots :
       t[c].type = "Untyped" \/ OwnsFrames(t[c]) => FramesOf(t[c]) \subseteq R
  /\ \A c, d \in Slots :
       OwnsFrames(t[c]) /\ t[c].parent = NIL /\ t[d].type = "Untyped" =>
         Disjoint(FramesOf(t[c]), FramesOf(t[d]))
  /\ \A c \in Slots :
       OwnsFrames(t[c]) /\ t[c].parent # NIL /\ t[t[c].parent].type = "Untyped" =>
         FramesOf(t[c]) \subseteq UsedOf(t[t[c].parent])
  /\ \A c, d \in Slots :
       OwnsFrames(t[c]) /\ OwnsFrames(t[d]) =>
         SameObject(t[c], t[d]) \/ Disjoint(FramesOf(t[c]), FramesOf(t[d]))
  /\ \A c \in Slots : t[c].type = "Frame" => t[c].size > 0

(* A frame that holds data is named by a Frame: only a Frame is written.    *)
DirtyNamed ==
  \A f \in dirty : \E s \in Spaces, c \in Slots :
    slots[s][c].type = "Frame" /\ f \in FramesOf(slots[s][c])

(* The inductive invariant, on top of the forest.                          *)
FrameInv ==
  /\ TreeInv
  /\ \A s \in Spaces : FrameTable(slots[s], Region(s))
  /\ DirtyNamed

-----------------------------------------------------------------------------
(* Tables.                                                                 *)

LEMMA UntypedParts ==
  ASSUME NEW t, TypedTable(t), NEW d \in Slots
  PROVE  /\ t[d].objref \in Nat /\ t[d].wm \in Nat /\ t[d].size \in Nat /\ t[d].wm <= t[d].size
         /\ UsedOf(t[d]) \subseteq FramesOf(t[d]) /\ FreeOf(t[d]) \subseteq FramesOf(t[d])
         /\ Disjoint(UsedOf(t[d]), FreeOf(t[d]))
<1> DEFINE e == t[d]
<1>1. e \in Cte /\ e.wm <= e.size
  BY Zenon DEF TypedTable
<1> HIDE DEF e
<1>2. e.objref \in Nat /\ e.wm \in Nat /\ e.size \in Nat
  BY <1>1, ConstantsAssumption DEF Cte
<1>3. /\ UsedOf(e) \subseteq FramesOf(e) /\ FreeOf(e) \subseteq FramesOf(e)
      /\ Disjoint(UsedOf(e), FreeOf(e))
  BY <1>1, <1>2 DEF FreeOf, UsedOf, FramesOf, Disjoint
<1>4. QED
  BY Zenon, <1>1, <1>2, <1>3 DEF e

(* A part X of an Untyped d that none of its children that own frames       *)
(* touches is touched by no capability that owns frames: a root lies        *)
(* outside d, and any other names the object of its parent or was retyped   *)
(* from its parent.                                                        *)
LEMMA PartUnnamed ==
  ASSUME NEW t, NEW R, TypedTable(t), ForestTable(t), KinTable(t), FrameTable(t, R),
         NEW d \in Slots, t[d].type = "Untyped",
         NEW X \in SUBSET FramesOf(t[d]),
         \A c \in Slots : OwnsFrames(t[c]) /\ t[c].parent = d => Disjoint(FramesOf(t[c]), X)
  PROVE  \A c \in Slots : OwnsFrames(t[c]) => Disjoint(FramesOf(t[c]), X)
<1> DEFINE S == {c \in Slots : OwnsFrames(t[c]) /\ ~Disjoint(FramesOf(t[c]), X)}
<1>1. SUFFICES ASSUME S # {} PROVE FALSE
  BY Zenon
<1>2. PICK c \in S : t[c].parent \notin S
  <2> HIDE DEF S
  <2>1. S \in SUBSET Slots
    BY Zenon DEF S
  <2>2. QED
    BY Zenon, <1>1, <2>1 DEF ForestTable, RootedTable
<1> DEFINE p == t[c].parent
<1>3. c \in Slots /\ OwnsFrames(t[c]) /\ ~Disjoint(FramesOf(t[c]), X)
  BY Zenon
<1>4. ~Disjoint(FramesOf(t[c]), FramesOf(t[d]))
  BY Zenon, <1>3 DEF Disjoint
<1>5. p # NIL /\ p \in Slots
  BY Zenon, <1>3, <1>4 DEF FrameTable, ForestTable, LinkedTable, Live
<1>6. CASE t[p].type = "Untyped"
  <2>1. FramesOf(t[c]) \subseteq UsedOf(t[p])
    BY Zenon, <1>3, <1>5, <1>6 DEF FrameTable
  <2>2. UsedOf(t[p]) \subseteq FramesOf(t[p])
    BY Zenon, <1>5, UntypedParts
  <2>3. p = d
    BY Zenon, <2>1, <2>2, <1>4, <1>5, <1>6 DEF FrameTable, Disjoint
  <2>4. QED
    BY Zenon, <2>3, <1>3
<1>7. CASE t[p].type # "Untyped"
  <2>1. DerivedFrom(t[c], t[p])
    BY Zenon, <1>3, <1>5 DEF KinTable
  <2>2. t[c].type = t[p].type /\ t[c].objref = t[p].objref /\ t[c].size = t[p].size
    BY Zenon, <2>1, <1>3, <1>7 DEF DerivedFrom, OwnsFrames, NotZeroed
  <2>3. p \in S
    BY Zenon, <2>2, <1>3, <1>5 DEF OwnsFrames, FramesOf
  <2>4. QED
    BY Zenon, <2>3, <1>2
<1>8. QED
  BY Zenon, <1>6, <1>7

(* The free part of an Untyped is nobody's.                                *)
LEMMA FreeUnnamed ==
  ASSUME NEW t, NEW R, TypedTable(t), ForestTable(t), KinTable(t), FrameTable(t, R),
         NEW d \in Slots, t[d].type = "Untyped"
  PROVE  \A c \in Slots : OwnsFrames(t[c]) => Disjoint(FramesOf(t[c]), FreeOf(t[d]))
<1>3. FreeOf(t[d]) \subseteq FramesOf(t[d]) /\ Disjoint(UsedOf(t[d]), FreeOf(t[d]))
  BY Zenon, UntypedParts
<1>4. ASSUME NEW c \in Slots, OwnsFrames(t[c]), t[c].parent = d
      PROVE  Disjoint(FramesOf(t[c]), FreeOf(t[d]))
  <2>1. FramesOf(t[c]) \subseteq UsedOf(t[d])
    BY Zenon, <1>4, NILNotSlot DEF FrameTable
  <2>2. QED
    BY Zenon, <2>1, <1>3 DEF Disjoint
<1>5. QED
  BY Zenon, <1>3, <1>4, PartUnnamed

(* Every entry of u that owns frames, or hands them out, is that of a slot  *)
(* h[k] of t, with a place in the tree to match: no Untyped is duplicated.  *)
FrameMap(t, u, h) ==
  /\ h \in [Slots -> Slots]
  /\ \A k \in Slots : OwnsFrames(u[k]) \/ u[k].type = "Untyped" => SameObject(u[k], t[h[k]])
  /\ \A j, k \in Slots : u[j].type = "Untyped" /\ u[k].type = "Untyped" /\ h[j] = h[k] => j = k
  /\ \A k \in Slots : OwnsFrames(u[k]) =>
       /\ u[k].parent = NIL => t[h[k]].parent = NIL
       /\ u[k].parent # NIL /\ u[u[k].parent].type = "Untyped" =>
            /\ t[h[k]].parent # NIL /\ t[t[h[k]].parent].type = "Untyped"
            /\ UsedOf(t[t[h[k]].parent]) \subseteq UsedOf(u[u[k].parent])

LEMMA FramesFrom ==
  ASSUME NEW t, NEW u, NEW R, FrameTable(t, R), NEW h, FrameMap(t, u, h)
  PROVE  FrameTable(u, R)
<1> USE DEF FrameMap
<1>1. \A k \in Slots : OwnsFrames(u[k]) \/ u[k].type = "Untyped" =>
        /\ h[k] \in Slots /\ u[k].type = t[h[k]].type /\ u[k].objref = t[h[k]].objref
        /\ u[k].size = t[h[k]].size
        /\ OwnsFrames(u[k]) <=> OwnsFrames(t[h[k]])
        /\ FramesOf(u[k]) = FramesOf(t[h[k]])
  BY Zenon DEF SameObject, OwnsFrames, FramesOf
<1>2. \A c, d \in Slots :
        c # d /\ u[c].type = "Untyped" /\ u[d].type = "Untyped" =>
          Disjoint(FramesOf(u[c]), FramesOf(u[d]))
  BY <1>1 DEF FrameTable
<1>3. \A c \in Slots :
        u[c].type = "Untyped" \/ OwnsFrames(u[c]) => FramesOf(u[c]) \subseteq R
  BY Zenon, <1>1 DEF FrameTable
<1>4. \A c, d \in Slots :
        OwnsFrames(u[c]) /\ u[c].parent = NIL /\ u[d].type = "Untyped" =>
          Disjoint(FramesOf(u[c]), FramesOf(u[d]))
  BY <1>1 DEF FrameTable
<1>5. \A c \in Slots :
        OwnsFrames(u[c]) /\ u[c].parent # NIL /\ u[u[c].parent].type = "Untyped" =>
          FramesOf(u[c]) \subseteq UsedOf(u[u[c].parent])
  BY Zenon, <1>1 DEF FrameTable
<1>6. \A c, d \in Slots :
        OwnsFrames(u[c]) /\ OwnsFrames(u[d]) =>
          SameObject(u[c], u[d]) \/ Disjoint(FramesOf(u[c]), FramesOf(u[d]))
  <2> SUFFICES ASSUME NEW c \in Slots, NEW d \in Slots, OwnsFrames(u[c]), OwnsFrames(u[d])
               PROVE  SameObject(u[c], u[d]) \/ Disjoint(FramesOf(u[c]), FramesOf(u[d]))
    BY Zenon
  <2>1. SameObject(t[h[c]], t[h[d]]) \/ Disjoint(FramesOf(t[h[c]]), FramesOf(t[h[d]]))
    BY Zenon, <1>1 DEF FrameTable
  <2>2. QED
    BY Zenon, <1>1, <2>1 DEF SameObject
<1>7. \A c \in Slots : u[c].type = "Frame" => u[c].size > 0
  <2> SUFFICES ASSUME NEW c \in Slots, u[c].type = "Frame" PROVE u[c].size > 0
    BY Zenon
  <2>1. OwnsFrames(u[c])
    BY Zenon DEF OwnsFrames, NotZeroed
  <2>2. QED
    BY <1>1, <2>1 DEF FrameTable
<1>8. QED
  BY Zenon, <1>2, <1>3, <1>4, <1>5, <1>6, <1>7 DEF FrameTable

(* Entries that agree in all but, for a Sched, the budget, or that neither  *)
(* own nor hand out frames.                                                *)
Kept(e, f) ==
  OwnsFrames(e) \/ e.type = "Untyped" =>
    SameObject(e, f) /\ e.wm = f.wm /\ e.parent = f.parent

(* No entry that matters is added: split, delegate, mint_reply, destroy.    *)
LEMMA FramesKept ==
  ASSUME NEW t, NEW u, NEW R, FrameTable(t, R), LinkedTable(u),
         \A k \in Slots : Kept(u[k], t[k])
  PROVE  FrameTable(u, R)
<1> DEFINE h == [k \in Slots |-> k]
<1>1. h \in [Slots -> Slots] /\ \A k \in Slots : h[k] = k
  BY Zenon
<1> HIDE DEF h
<1>2. \A k \in Slots : OwnsFrames(u[k]) \/ u[k].type = "Untyped" => SameObject(u[k], t[h[k]])
  BY Zenon, <1>1 DEF Kept
<1>3. ASSUME NEW k \in Slots, OwnsFrames(u[k])
      PROVE  /\ u[k].parent = NIL => t[h[k]].parent = NIL
             /\ u[k].parent # NIL /\ u[u[k].parent].type = "Untyped" =>
                  /\ t[h[k]].parent # NIL /\ t[t[h[k]].parent].type = "Untyped"
                  /\ UsedOf(t[t[h[k]].parent]) \subseteq UsedOf(u[u[k].parent])
  <2>1. t[h[k]].parent = u[k].parent
    BY Zenon, <1>1, <1>3 DEF Kept
  <2>2. ASSUME u[k].parent # NIL, u[u[k].parent].type = "Untyped"
        PROVE  /\ t[u[k].parent].type = "Untyped"
               /\ UsedOf(t[u[k].parent]) = UsedOf(u[u[k].parent])
    <3>1. u[k].parent \in Slots
      BY Zenon, <2>2 DEF LinkedTable, Live
    <3>2. QED
      BY Zenon, <2>2, <3>1 DEF Kept, SameObject, UsedOf
  <2>3. QED
    BY Zenon, <2>1, <2>2
<1>4. FrameMap(t, u, h)
  BY Zenon, <1>1, <1>2, <1>3 DEF FrameMap
<1>5. QED
  BY Zenon, <1>4, FramesFrom

(* u is t after an Untyped ut has carved objects of perObj frames out of    *)
(* the first need frames of its free part, into the slots of into.          *)
Carved(t, u, ut, into, perObj, need) ==
  /\ t[ut].type = "Untyped" /\ need <= t[ut].size - t[ut].wm
  /\ ut \notin into
  /\ \A k \in into :
       /\ u[k].type # "Untyped" /\ u[k].parent = ut
       /\ u[k].objref \in Nat /\ u[k].size = perObj
       /\ t[ut].objref + t[ut].wm <= u[k].objref
       /\ u[k].objref + perObj <= t[ut].objref + t[ut].wm + need
  /\ \A j, k \in into : j # k =>
       u[j].objref + perObj <= u[k].objref \/ u[k].objref + perObj <= u[j].objref
  /\ u[ut].type = "Untyped" /\ u[ut].objref = t[ut].objref /\ u[ut].size = t[ut].size
  /\ u[ut].parent = t[ut].parent /\ u[ut].wm = t[ut].wm + need
  /\ \A k \in Slots \ into : k # ut => u[k] = t[k]
  /\ \A k \in into : t[k].type = "Null"

LEMMA FramesCarved ==
  ASSUME NEW t, NEW u, NEW R, TypedTable(t), ForestTable(t), KinTable(t), FrameTable(t, R),
         NEW ut \in Slots, NEW into \in SUBSET Slots, NEW perObj \in Nat \ {0}, NEW need \in Nat,
         Carved(t, u, ut, into, perObj, need)
  PROVE  FrameTable(u, R)
<1>1. /\ t[ut].objref \in Nat /\ t[ut].wm \in Nat /\ t[ut].size \in Nat
      /\ t[ut].wm <= t[ut].size /\ t[ut].type = "Untyped"
  BY Zenon, UntypedParts DEF Carved
<1>2. ASSUME NEW k \in into
      PROVE  FramesOf(u[k]) \subseteq FreeOf(t[ut]) /\ FramesOf(u[k]) \subseteq UsedOf(u[ut])
  BY <1>1, <1>2 DEF Carved, FramesOf, FreeOf, UsedOf
<1>3. ASSUME NEW j \in into, NEW k \in into, j # k
      PROVE  Disjoint(FramesOf(u[j]), FramesOf(u[k]))
  <2>1. u[j].objref + perObj <= u[k].objref \/ u[k].objref + perObj <= u[j].objref
    BY Zenon, <1>3 DEF Carved
  <2>2. /\ u[j].objref \in Nat /\ u[k].objref \in Nat /\ u[j].size = perObj /\ u[k].size = perObj
    BY Zenon, <1>3 DEF Carved
  <2>3. QED
    BY <2>1, <2>2 DEF FramesOf, Disjoint
<1>4. FramesOf(u[ut]) = FramesOf(t[ut]) /\ UsedOf(t[ut]) \subseteq UsedOf(u[ut])
  BY <1>1 DEF Carved, FramesOf, UsedOf
<1>5. ASSUME NEW k \in Slots \ into
      PROVE  /\ FramesOf(u[k]) = FramesOf(t[k]) /\ u[k].type = t[k].type
             /\ OwnsFrames(u[k]) <=> OwnsFrames(t[k])
             /\ u[k].parent = t[k].parent
             /\ u[k].objref = t[k].objref /\ u[k].size = t[k].size
             /\ UsedOf(t[k]) \subseteq UsedOf(u[k])
  BY Zenon, <1>1, <1>4, <1>5 DEF Carved, OwnsFrames
<1>6. /\ FreeOf(t[ut]) \subseteq FramesOf(t[ut])
      /\ \A c \in Slots : OwnsFrames(t[c]) => Disjoint(FramesOf(t[c]), FreeOf(t[ut]))
  BY Zenon, <1>1, UntypedParts, FreeUnnamed
<1>7. /\ \A k \in into : u[k].type # "Untyped" /\ u[k].parent = ut /\ ut # NIL
      /\ ut \in Slots \ into
  BY Zenon, NILNotSlot DEF Carved
<1>8. \A c, d \in Slots :
        c # d /\ u[c].type = "Untyped" /\ u[d].type = "Untyped" =>
          Disjoint(FramesOf(u[c]), FramesOf(u[d]))
  BY <1>5, <1>7 DEF FrameTable
<1>9. \A c \in Slots :
        u[c].type = "Untyped" \/ OwnsFrames(u[c]) => FramesOf(u[c]) \subseteq R
  <2> SUFFICES ASSUME NEW c \in Slots, u[c].type = "Untyped" \/ OwnsFrames(u[c])
               PROVE  FramesOf(u[c]) \subseteq R
    BY Zenon
  <2>1. CASE c \in into
    <3>1. FramesOf(t[ut]) \subseteq R
      BY Zenon, <1>1 DEF FrameTable
    <3>2. QED
      BY Zenon, <2>1, <3>1, <1>2, <1>6
  <2>2. CASE c \notin into
    BY Zenon, <2>2, <1>5 DEF FrameTable
  <2>3. QED
    BY Zenon, <2>1, <2>2
<1>10. \A c, d \in Slots :
        OwnsFrames(u[c]) /\ u[c].parent = NIL /\ u[d].type = "Untyped" =>
          Disjoint(FramesOf(u[c]), FramesOf(u[d]))
  BY <1>5, <1>7 DEF FrameTable
<1>11. \A c \in Slots :
        OwnsFrames(u[c]) /\ u[c].parent # NIL /\ u[u[c].parent].type = "Untyped" =>
          FramesOf(u[c]) \subseteq UsedOf(u[u[c].parent])
  <2> SUFFICES ASSUME NEW c \in Slots, OwnsFrames(u[c]), u[c].parent # NIL,
                      u[u[c].parent].type = "Untyped"
               PROVE  FramesOf(u[c]) \subseteq UsedOf(u[u[c].parent])
    BY Zenon
  <2>1. CASE c \in into
    BY Zenon, <2>1, <1>2, <1>7
  <2>2. CASE c \notin into
    <3> DEFINE p == t[c].parent
    <3>1. p = u[c].parent /\ p # NIL /\ p \in Slots
      BY Zenon, <2>2, <1>5 DEF ForestTable, LinkedTable, Live
    <3>2. p \in Slots \ into
      BY Zenon, <3>1, <1>7
    <3>3. FramesOf(t[c]) \subseteq UsedOf(t[p])
      BY <2>2, <3>1, <3>2, <1>5 DEF FrameTable
    <3>4. QED
      BY Zenon, <2>2, <3>1, <3>2, <3>3, <1>5
  <2>3. QED
    BY Zenon, <2>1, <2>2
<1>12. \A c, d \in Slots :
        OwnsFrames(u[c]) /\ OwnsFrames(u[d]) =>
          SameObject(u[c], u[d]) \/ Disjoint(FramesOf(u[c]), FramesOf(u[d]))
  <2> SUFFICES ASSUME NEW c \in Slots, NEW d \in Slots, OwnsFrames(u[c]), OwnsFrames(u[d])
               PROVE  SameObject(u[c], u[d]) \/ Disjoint(FramesOf(u[c]), FramesOf(u[d]))
    BY Zenon
  <2>1. CASE c \in into /\ d \in into
    BY Zenon, <2>1, <1>3 DEF SameObject
  <2>2. CASE c \in into /\ d \notin into
    <3>1. Disjoint(FramesOf(u[d]), FreeOf(t[ut])) /\ FramesOf(u[c]) \subseteq FreeOf(t[ut])
      BY Zenon, <2>2, <1>2, <1>5, <1>6
    <3>2. QED
      BY Zenon, <3>1 DEF Disjoint
  <2>3. CASE c \notin into /\ d \in into
    <3>1. Disjoint(FramesOf(u[c]), FreeOf(t[ut])) /\ FramesOf(u[d]) \subseteq FreeOf(t[ut])
      BY Zenon, <2>3, <1>2, <1>5, <1>6
    <3>2. QED
      BY Zenon, <3>1 DEF Disjoint
  <2>4. CASE c \notin into /\ d \notin into
    <3>1. SameObject(t[c], t[d]) \/ Disjoint(FramesOf(t[c]), FramesOf(t[d]))
      BY Zenon, <2>4, <1>5 DEF FrameTable
    <3>2. QED
      BY Zenon, <2>4, <3>1, <1>5 DEF SameObject
  <2>5. QED
    BY Zenon, <2>1, <2>2, <2>3, <2>4
<1>13. \A c \in Slots : u[c].type = "Frame" => u[c].size > 0
  <2> SUFFICES ASSUME NEW c \in Slots, u[c].type = "Frame" PROVE u[c].size > 0
    BY Zenon
  <2>1. CASE c \in into
    BY <2>1 DEF Carved
  <2>2. CASE c \notin into
    BY Zenon, <2>2, <1>5 DEF FrameTable
  <2>3. QED
    BY Zenon, <2>1, <2>2
<1>14. QED
  BY Zenon, <1>8, <1>9, <1>10, <1>11, <1>12, <1>13 DEF FrameTable

(* revoke of an Untyped from which nothing is derived any more.             *)
LEMMA FramesReset ==
  ASSUME NEW t, NEW u, NEW R, TypedTable(t), LinkedTable(t), FrameTable(t, R),
         NEW c \in Slots, t[c].type = "Untyped",
         \A k \in Slots : t[k].parent # c,
         u = [t EXCEPT ![c] = [t[c] EXCEPT !.wm = 0]]
  PROVE  FrameTable(u, R)
<1>1. /\ u[c].type = "Untyped" /\ u[c].objref = t[c].objref /\ u[c].size = t[c].size
      /\ u[c].parent = t[c].parent
      /\ \A k \in Slots \ {c} : u[k] = t[k]
  <2>1. t[c] \in Cte /\ t \in [Slots -> Cte]
    BY Zenon DEF TypedTable
  <2>2. QED
    BY Zenon, <2>1 DEF Cte
<1> DEFINE h == [k \in Slots |-> k]
<1>2. h \in [Slots -> Slots] /\ \A k \in Slots : h[k] = k
  BY Zenon
<1> HIDE DEF h
<1>3. FrameMap(t, u, h)
  <2>1. \A k \in Slots : SameObject(u[k], t[k]) /\ u[k].parent = t[k].parent
    BY Zenon, <1>1 DEF SameObject
  <2>2. ASSUME NEW k \in Slots, u[k].parent # NIL, u[u[k].parent].type = "Untyped"
        PROVE  /\ t[t[k].parent].type = "Untyped"
               /\ UsedOf(t[t[k].parent]) = UsedOf(u[u[k].parent])
    <3>1. t[k].parent \in Slots \ {c} /\ u[k].parent = t[k].parent
      BY Zenon, <2>1, <2>2 DEF LinkedTable, Live
    <3>2. QED
      BY Zenon, <2>2, <3>1, <1>1
  <2>3. QED
    BY <1>2, <2>1, <2>2 DEF FrameMap
<1>4. QED
  BY Zenon, <1>3, FramesFrom

-----------------------------------------------------------------------------
(* Steps.                                                                  *)

LEMMA FrameFacts ==
  ASSUME FrameInv, NEW s \in Spaces
  PROVE  /\ TypedTable(slots[s]) /\ ForestTable(slots[s]) /\ KinTable(slots[s])
         /\ LinkedTable(slots[s]) /\ FrameTable(slots[s], Region(s))
         /\ slots \in [Spaces -> [Slots -> Cte]]
BY Zenon, TreeFacts DEF FrameInv, ForestTable

(* A step that puts u in the place of one space's table, and forgets data.  *)
LEMMA FrameOneTable ==
  ASSUME FrameInv, TreeInv', NEW s \in Spaces, NEW u,
         slots' = [slots EXCEPT ![s] = u],
         FrameTable(u, Region(s)),
         dirty' \subseteq dirty,
         \A f \in dirty', c \in Slots :
           slots[s][c].type = "Frame" /\ f \in FramesOf(slots[s][c]) =>
             \E k \in Slots : u[k].type = "Frame" /\ f \in FramesOf(u[k])
  PROVE  FrameInv'
<1>1. slots'[s] = u /\ \A r \in Spaces \ {s} : slots'[r] = slots[r]
  BY Zenon, FrameFacts
<1>2. \A r \in Spaces : FrameTable(slots'[r], Region(r))
  BY Zenon, <1>1 DEF FrameInv
<1>3. DirtyNamed'
  <2> SUFFICES ASSUME NEW f \in dirty'
               PROVE  \E r \in Spaces, c \in Slots :
                        slots'[r][c].type = "Frame" /\ f \in FramesOf(slots'[r][c])
    BY Zenon DEF DirtyNamed
  <2>1. PICK r \in Spaces, c \in Slots :
          slots[r][c].type = "Frame" /\ f \in FramesOf(slots[r][c])
    BY Zenon DEF FrameInv, DirtyNamed
  <2>2. CASE r = s
    BY Zenon, <2>1, <2>2, <1>1
  <2>3. CASE r # s
    BY Zenon, <2>1, <2>3, <1>1
  <2>4. QED
    BY Zenon, <2>2, <2>3
<1>4. QED
  BY Zenon, <1>2, <1>3 DEF FrameInv

(* Frames that stay where they are.                                        *)
KeptTable(t, u) ==
  \A k \in Slots : Kept(u[k], t[k]) /\ (t[k].type = "Frame" => u[k] = t[k])

LEMMA FrameKeepStep ==
  ASSUME FrameInv, TreeInv', NEW s \in Spaces, NEW u,
         slots' = [slots EXCEPT ![s] = u], dirty' = dirty,
         KeptTable(slots[s], u)
  PROVE  FrameInv'
<1> USE DEF KeptTable
<1>1. slots'[s] = u
  BY Zenon, FrameFacts
<1>2. LinkedTable(u)
  BY Zenon, <1>1 DEF TreeInv, ForestTable
<1>3. FrameTable(u, Region(s))
  BY Zenon, <1>2, FrameFacts, FramesKept
<1>4. \A f \in dirty', c \in Slots :
        slots[s][c].type = "Frame" /\ f \in FramesOf(slots[s][c]) =>
          \E k \in Slots : u[k].type = "Frame" /\ f \in FramesOf(u[k])
  BY Zenon, <1>1
<1>5. QED
  BY Zenon, <1>3, <1>4, FrameOneTable

(* A capability derived from src, below it or beside it, fills dest: mint   *)
(* and copy.                                                               *)
LEMMA FrameDerive ==
  ASSUME FrameInv, TreeInv', NEW s \in Spaces, NEW src \in Slots, NEW dest \in Slots, NEW e,
         Place(s, dest, e), UNCHANGED dirty,
         IsLive(slots[s], src), slots[s][src].type # "Untyped",
         SameObject(e, slots[s][src]),
         \/ e.parent = src
         \/ e.parent = slots[s][src].parent /\ e.parent # NIL
  PROVE  FrameInv'
<1> DEFINE t == slots[s]
           u == [t EXCEPT ![dest] = e]
           h == [k \in Slots |-> IF k = dest THEN src ELSE k]
<1>1. /\ TypedTable(t) /\ LinkedTable(t) /\ FrameTable(t, Region(s)) /\ t \in [Slots -> Cte]
  BY Zenon, FrameFacts
<1>2. t[dest].type = "Null" /\ slots' = [slots EXCEPT ![s] = u] /\ src # dest
  BY Zenon DEF Place, IsLive
<1>3. u[dest] = e /\ \A k \in Slots \ {dest} : u[k] = t[k]
  BY Zenon, <1>1
<1>4. h \in [Slots -> Slots] /\ h[dest] = src /\ \A k \in Slots \ {dest} : h[k] = k
  BY Zenon
<1>5. \A k \in Slots : t[k].parent # NIL => t[k].parent \in Slots \ {dest}
  BY Zenon, <1>1, <1>2 DEF LinkedTable, Live
<1> HIDE DEF u, h
<1>6. FrameMap(t, u, h)
  <2>1. \A k \in Slots : OwnsFrames(u[k]) \/ u[k].type = "Untyped" => SameObject(u[k], t[h[k]])
    BY <1>3, <1>4 DEF SameObject
  <2>2. u[dest].type # "Untyped"
    BY Zenon, <1>3 DEF SameObject
  <2>3. \A j, k \in Slots : u[j].type = "Untyped" /\ u[k].type = "Untyped" /\ h[j] = h[k] => j = k
    BY Zenon, <2>2, <1>4
  <2>4. ASSUME NEW k \in Slots
        PROVE  /\ u[k].parent = NIL => t[h[k]].parent = NIL
               /\ u[k].parent # NIL /\ u[u[k].parent].type = "Untyped" =>
                    /\ t[h[k]].parent # NIL /\ t[t[h[k]].parent].type = "Untyped"
                    /\ UsedOf(t[t[h[k]].parent]) \subseteq UsedOf(u[u[k].parent])
    <3>1. CASE k = dest
      <4>1. CASE e.parent = src
        BY Zenon, <3>1, <4>1, <1>2, <1>3, NILNotSlot
      <4>2. CASE e.parent = t[src].parent /\ e.parent # NIL
        <5>1. e.parent \in Slots \ {dest} /\ u[e.parent] = t[e.parent]
          BY Zenon, <4>2, <1>3, <1>5
        <5>2. QED
          BY Zenon, <3>1, <4>2, <5>1, <1>3, <1>4
      <4>3. QED
        BY Zenon, <4>1, <4>2
    <3>2. CASE k # dest
      BY SMTT(30), <3>2, <1>3, <1>4, <1>5
    <3>3. QED
      BY Zenon, <3>1, <3>2
  <2>5. QED
    BY Zenon, <2>1, <2>3, <2>4, <1>4 DEF FrameMap
<1>7. FrameTable(u, Region(s))
  BY Zenon, <1>1, <1>6, FramesFrom
<1>8. \A f \in dirty', c \in Slots :
        t[c].type = "Frame" /\ f \in FramesOf(t[c]) =>
          \E k \in Slots : u[k].type = "Frame" /\ f \in FramesOf(u[k])
  <2>1. \A k \in Slots : t[k].type = "Frame" => u[k] = t[k]
    BY Zenon, <1>2, <1>3
  <2>2. QED
    BY Zenon, <2>1
<1>9. QED
  BY Zenon, <1>2, <1>7, <1>8, FrameOneTable

LEMMA FrameMint ==
  ASSUME FrameInv, TreeInv', NEW s \in Spaces, NEW src \in Slots, NEW dest \in Slots,
         NEW r \in NewRights, Mint(s, src, dest, r)
  PROVE  FrameInv'
<1> DEFINE e == slots[s][src]
           new == [e EXCEPT !.rights = r, !.parent = src]
<1>1. e \in Cte
  BY Zenon, FrameFacts
<1>2. SameObject(new, e) /\ new.parent = src
  BY Zenon, <1>1 DEF Cte, SameObject
<1>3. Place(s, dest, new) /\ UNCHANGED dirty /\ IsLive(slots[s], src) /\ e.type # "Untyped"
  BY Zenon DEF Mint, MayMint, NonDuplicable
<1> HIDE DEF new
<1>4. QED
  BY Zenon, <1>2, <1>3, FrameDerive

LEMMA FrameCopy ==
  ASSUME FrameInv, TreeInv', NEW s \in Spaces, NEW src \in Slots, NEW dest \in Slots,
         Copy(s, src, dest)
  PROVE  FrameInv'
<1> DEFINE e == slots[s][src]
           p == IF e.parent = NIL THEN src ELSE e.parent
           new == [e EXCEPT !.parent = p]
<1>1. e \in Cte
  BY Zenon, FrameFacts
<1>2. SameObject(new, e) /\ (new.parent = src \/ (new.parent = e.parent /\ new.parent # NIL))
  BY Zenon, <1>1 DEF Cte, SameObject
<1>3. Place(s, dest, new) /\ UNCHANGED dirty /\ IsLive(slots[s], src) /\ e.type # "Untyped"
  BY Zenon DEF Copy, NonDuplicable
<1> HIDE DEF new, p
<1>4. QED
  BY Zenon, <1>2, <1>3, FrameDerive

LEMMA FrameMoveCap ==
  ASSUME FrameInv, TreeInv', NEW s \in Spaces, NEW src \in Slots, NEW dest \in Slots,
         MoveCap(s, src, dest)
  PROVE  FrameInv'
<1> DEFINE t == slots[s]
           u == Moved(t, src, dest)
           h == [k \in Slots |-> IF k = dest THEN src ELSE k]
<1>1. TypedTable(t) /\ ForestTable(t) /\ FrameTable(t, Region(s)) /\ t \in [Slots -> Cte]
  BY Zenon, FrameFacts
<1>2. /\ t[src].type # "Null" /\ t[dest].type = "Null" /\ src # dest
      /\ slots' = [slots EXCEPT ![s] = u] /\ dirty' = dirty
  BY Zenon DEF MoveCap, IsLive
<1>3. u[src] = EMPTY /\ u[dest] = t[src]
  BY Zenon, <1>2 DEF Moved
<1>4. \A k \in Slots \ {src, dest} :
        /\ u[k].type = t[k].type /\ u[k].objref = t[k].objref /\ u[k].size = t[k].size
        /\ u[k].wm = t[k].wm
        /\ u[k].parent = IF t[k].parent = src THEN dest ELSE t[k].parent
  BY Zenon, <1>1 DEF Moved, Cte
<1>5. h \in [Slots -> Slots] /\ h[dest] = src /\ \A k \in Slots \ {dest} : h[k] = k
  BY Zenon
<1>6. \A k \in Slots : t[k].parent # NIL => t[k].parent \in Slots \ {dest}
  BY Zenon, <1>1, <1>2 DEF ForestTable, LinkedTable, Live
<1>7. t[src].parent # src
  <2>1. {src} \in SUBSET Slots /\ {src} # {}
    BY Zenon
  <2>2. QED
    BY Zenon, <2>1, <1>1 DEF ForestTable, RootedTable
<1>8. u[src].type = "Null" /\ ~OwnsFrames(u[src])
  BY Zenon, <1>3, EmptyFacts DEF OwnsFrames
<1> HIDE DEF u, h
<1>9. \A k \in Slots \ {src} :
        /\ u[k].type = t[h[k]].type /\ u[k].objref = t[h[k]].objref /\ u[k].size = t[h[k]].size
        /\ u[k].wm = t[h[k]].wm
        /\ u[k].parent = IF t[h[k]].parent = src THEN dest ELSE t[h[k]].parent
  BY <1>3, <1>4, <1>5, <1>7
<1>10. FrameMap(t, u, h)
  <2>1. \A k \in Slots : OwnsFrames(u[k]) \/ u[k].type = "Untyped" => SameObject(u[k], t[h[k]])
    BY Zenon, <1>8, <1>9 DEF SameObject
  <2>2. \A j, k \in Slots : u[j].type = "Untyped" /\ u[k].type = "Untyped" /\ h[j] = h[k] => j = k
    BY <1>5, <1>8
  <2>3. ASSUME NEW k \in Slots \ {src}
        PROVE  /\ u[k].parent = NIL => t[h[k]].parent = NIL
               /\ u[k].parent # NIL /\ u[u[k].parent].type = "Untyped" =>
                    /\ t[h[k]].parent # NIL /\ t[t[h[k]].parent].type = "Untyped"
                    /\ UsedOf(t[t[h[k]].parent]) \subseteq UsedOf(u[u[k].parent])
    <3> DEFINE p == t[h[k]].parent
    <3>1. h[k] \in Slots
      BY Zenon, <1>5
    <3>2. CASE p = NIL
      BY Zenon, <3>2, <1>9, NILNotSlot
    <3>3. CASE p = src
      BY <3>3, <1>3, <1>9, NILNotSlot
    <3>4. CASE p # NIL /\ p # src
      <4>1. p \in Slots \ {src, dest} /\ u[k].parent = p
        BY Zenon, <3>1, <3>4, <1>6, <1>9
      <4>2. UsedOf(t[p]) = UsedOf(u[p]) /\ u[p].type = t[p].type
        BY Zenon, <4>1, <1>4 DEF UsedOf
      <4>3. QED
        BY Zenon, <4>1, <4>2, <3>4
    <3>5. QED
      BY Zenon, <3>2, <3>3, <3>4
  <2>4. QED
    BY Zenon, <2>1, <2>2, <2>3, <1>5, <1>8 DEF FrameMap
<1>11. FrameTable(u, Region(s))
  BY Zenon, <1>1, <1>10, FramesFrom
<1>12. ASSUME NEW f \in dirty', NEW c \in Slots, t[c].type = "Frame", f \in FramesOf(t[c])
       PROVE  \E k \in Slots : u[k].type = "Frame" /\ f \in FramesOf(u[k])
  <2>1. CASE c = src
    BY Zenon, <2>1, <1>3, <1>12
  <2>2. CASE c # src
    <3>1. u[c].type = "Frame" /\ FramesOf(u[c]) = FramesOf(t[c])
      BY Zenon, <2>2, <1>2, <1>4, <1>12 DEF FramesOf
    <3>2. QED
      BY Zenon, <3>1, <1>12
  <2>3. QED
    BY Zenon, <2>1, <2>2
<1>13. QED
  BY Zenon, <1>2, <1>11, <1>12, FrameOneTable

(* Budgets and Replies have no frames.                                     *)
LEMMA FrameSplit ==
  ASSUME FrameInv, TreeInv', NEW s \in Spaces, NEW src \in Slots, NEW dest \in Slots,
         NEW amount \in 0 .. U32Max, Split(s, src, dest, amount)
  PROVE  FrameInv'
<1> DEFINE t == slots[s]
           new == Entry("Sched", t[src].rights, nextObj[s], amount, src)
           rest == [t[src] EXCEPT !.size = t[src].size - amount]
           u == [k \in Slots |-> IF k = dest THEN new ELSE IF k = src THEN rest ELSE t[k]]
<1>1. t[src] \in Cte /\ t[src].type = "Sched" /\ t[dest].type = "Null"
  BY Zenon, FrameFacts DEF Split, IsLive
<1>2. new.type = "Sched" /\ rest.type = "Sched"
  BY Zenon, <1>1 DEF Entry, Cte
<1> HIDE DEF new, rest
<1>3. \A k \in Slots : /\ u[k] = t[k] \/ u[k].type = "Sched"
                       /\ t[k].type = "Frame" => u[k] = t[k]
  BY Zenon, <1>1, <1>2
<1>4. slots' = [slots EXCEPT ![s] = u] /\ dirty' = dirty
  BY Zenon DEF Split, new, rest
<1> HIDE DEF u
<1>5. KeptTable(t, u)
  BY Zenon, <1>3 DEF KeptTable, Kept, OwnsFrames, NotZeroed, SameObject
<1>6. QED
  BY Zenon, <1>4, <1>5, FrameKeepStep

LEMMA FrameDelegate ==
  ASSUME FrameInv, TreeInv', NEW s \in Spaces, NEW src \in Slots, NEW dest \in Slots,
         NEW amount \in 0 .. U32Max, Delegate(s, src, dest, amount)
  PROVE  FrameInv'
<1> DEFINE t == slots[s]
           less == [t[src] EXCEPT !.size = t[src].size - amount]
           more == [t[dest] EXCEPT !.size = t[dest].size + amount]
           u == [k \in Slots |-> IF k = src THEN less ELSE IF k = dest THEN more ELSE t[k]]
<1>1. t[src] \in Cte /\ t[dest] \in Cte /\ t[src].type = "Sched" /\ t[dest].type = "Sched"
  BY Zenon, FrameFacts DEF Delegate
<1>2. less.type = "Sched" /\ more.type = "Sched"
  BY Zenon, <1>1 DEF Cte
<1> HIDE DEF less, more
<1>3. \A k \in Slots : /\ u[k] = t[k] \/ u[k].type = "Sched"
                       /\ t[k].type = "Frame" => u[k] = t[k]
  BY Zenon, <1>1, <1>2
<1>4. slots' = [slots EXCEPT ![s] = u] /\ dirty' = dirty
  BY Zenon DEF Delegate, less, more
<1> HIDE DEF u
<1>5. KeptTable(t, u)
  BY Zenon, <1>3 DEF KeptTable, Kept, OwnsFrames, NotZeroed, SameObject
<1>6. QED
  BY Zenon, <1>4, <1>5, FrameKeepStep

LEMMA FrameMintReply ==
  ASSUME FrameInv, TreeInv', NEW s \in Spaces, NEW dest \in Slots, NEW caller \in Callers,
         MintReply(s, dest, caller)
  PROVE  FrameInv'
<1> DEFINE t == slots[s]
           new == Entry("Reply", {}, caller, 0, NIL)
           u == [t EXCEPT ![dest] = new]
<1>1. new.type = "Reply"
  BY Zenon DEF Entry
<1>2. t \in [Slots -> Cte] /\ t[dest].type = "Null"
  BY Zenon, FrameFacts DEF MintReply, Place, IsLive
<1> HIDE DEF new
<1>3. \A k \in Slots : /\ u[k] = t[k] \/ u[k].type = "Reply"
                       /\ t[k].type = "Frame" => u[k] = t[k]
  BY Zenon, <1>1, <1>2
<1>4. slots' = [slots EXCEPT ![s] = u] /\ dirty' = dirty
  BY Zenon DEF MintReply, Place, new
<1> HIDE DEF u
<1>5. KeptTable(t, u)
  BY Zenon, <1>3 DEF KeptTable, Kept, OwnsFrames, NotZeroed, SameObject
<1>6. QED
  BY Zenon, <1>4, <1>5, FrameKeepStep

(* The objects of a retype lie side by side.                               *)
LEMMA ObjectsApart ==
  ASSUME NEW n \in Nat, NEW i \in 0 .. n - 1, NEW j \in 0 .. n - 1, NEW p \in Nat, i < j
  PROVE  i * p + p <= j * p /\ j * p + p <= p * n
<1>1. (j - i) - 1 \in Nat /\ (n - j) - 1 \in Nat
  OBVIOUS
<1>2. ((j - i) - 1) * p \in Nat /\ ((n - j) - 1) * p \in Nat
  BY <1>1
<1>3. i * p \in Int /\ j * p \in Int /\ n * p \in Int /\ p * n = n * p
  OBVIOUS
<1>4. ((j - i) - 1) * p = j * p - i * p - p /\ ((n - j) - 1) * p = n * p - j * p - p
  OBVIOUS
<1>5. QED
  BY <1>2, <1>3, <1>4

LEMMA ObjectInside ==
  ASSUME NEW n \in Nat, NEW j \in 0 .. n - 1, NEW p \in Nat
  PROVE  j * p \in Nat /\ j * p + p <= p * n
<1>1. (n - j) - 1 \in Nat
  OBVIOUS
<1>2. ((n - j) - 1) * p \in Nat /\ j * p \in Nat /\ n * p \in Nat /\ p * n = n * p
  BY <1>1
<1>3. ((n - j) - 1) * p = n * p - j * p - p
  OBVIOUS
<1>4. QED
  BY <1>2, <1>3

LEMMA FrameRetype ==
  ASSUME FrameInv, TreeInv', NEW s \in Spaces, NEW ut \in Slots, NEW dest \in Slots,
         NEW ty \in RetypeTypes, NEW perObj \in 0 .. MaxPerObj, NEW count \in 0 .. N,
         Retype(s, ut, ty, perObj, count, dest)
  PROVE  FrameInv' /\ dirty' = dirty
<1> DEFINE t == slots[s]
           ute == t[ut]
           need == perObj * count
           base == ute.objref + ute.wm
           into == dest .. dest + count - 1
           new(k) == Entry(ty, DefaultRights(ty), ObjectAt(ute, k - dest, perObj), perObj, ut)
           more == [ute EXCEPT !.wm = ute.wm + need]
           u == [k \in Slots |-> IF k \in into THEN new(k) ELSE IF k = ut THEN more ELSE t[k]]
<1>1. TypedTable(t) /\ ForestTable(t) /\ KinTable(t) /\ FrameTable(t, Region(s))
  BY Zenon, FrameFacts
<1>2. /\ ute.type = "Untyped" /\ ty # "Untyped" /\ ty # "Null"
      /\ need <= ute.size - ute.wm /\ perObj > 0 /\ dest + count <= N
      /\ \A k \in into : t[k].type = "Null"
      /\ slots' = [slots EXCEPT ![s] = u] /\ dirty' = dirty \ (base .. base + need - 1)
  BY Zenon DEF Retype, NotRetypeable, IsLive, Available
<1>3. /\ perObj \in Nat \ {0} /\ count \in Nat /\ need \in Nat /\ dest \in Nat /\ N \in Nat
      /\ ute \in Cte
      /\ ute.objref \in Nat /\ ute.wm \in Nat /\ ute.size \in Nat /\ base \in Nat
  <2>1. ute \in Cte /\ ute.objref \in Nat /\ ute.wm \in Nat /\ ute.size \in Nat
    BY Zenon, <1>1, UntypedParts DEF TypedTable
  <2>2. perObj \in Nat \ {0} /\ count \in Nat /\ dest \in Nat /\ N \in Nat
    BY <1>2, ConstantsAssumption DEF Slots
  <2>3. QED
    BY <2>1, <2>2
<1>4. into \in SUBSET Slots /\ ut \notin into
  <2>1. into \in SUBSET Slots
    BY SMTT(30), <1>2, <1>3 DEF Slots
  <2>2. ut \notin into
    BY Zenon, <1>2
  <2>3. QED
    BY Zenon, <2>1, <2>2
<1>5. ASSUME NEW k \in into
      PROVE  /\ u[k].type = ty /\ u[k].parent = ut /\ u[k].size = perObj
             /\ u[k].objref = base + (k - dest) * perObj
             /\ k - dest \in 0 .. count - 1
  <2>1. u[k] = new(k) /\ k \in Slots
    BY Zenon, <1>4
  <2>2. k - dest \in 0 .. count - 1
    BY <1>3
  <2>3. QED
    BY Zenon, <2>1, <2>2 DEF Entry, ObjectAt
<1>6. /\ u[ut].type = "Untyped" /\ u[ut].objref = ute.objref /\ u[ut].size = ute.size
      /\ u[ut].parent = ute.parent /\ u[ut].wm = ute.wm + need
  <2>1. u[ut] = more
    BY Zenon, <1>4
  <2>2. QED
    BY Zenon, <2>1, <1>2, <1>3 DEF Cte
<1>7. \A k \in Slots \ into : k # ut => u[k] = t[k]
  BY Zenon
<1> HIDE DEF u, into, need, base, ute
<1>8. ASSUME NEW k \in into
      PROVE  /\ u[k].objref \in Nat /\ base <= u[k].objref
             /\ u[k].objref + perObj <= base + need
  <2> DEFINE j == k - dest
  <2>1. j \in 0 .. count - 1 /\ u[k].objref = base + j * perObj
    BY Zenon, <1>5
  <2> HIDE DEF j
  <2>2. j * perObj \in Nat /\ j * perObj + perObj <= need
    BY Zenon, <2>1, <1>3, ObjectInside DEF need
  <2>3. QED
    BY <2>1, <2>2, <1>3
<1>9. ASSUME NEW a \in into, NEW b \in into, a # b
      PROVE  u[a].objref + perObj <= u[b].objref \/ u[b].objref + perObj <= u[a].objref
  <2> DEFINE i == a - dest
             j == b - dest
  <2>1. /\ i \in 0 .. count - 1 /\ u[a].objref = base + i * perObj
        /\ j \in 0 .. count - 1 /\ u[b].objref = base + j * perObj
    BY Zenon, <1>5
  <2>2. i # j
    BY <1>3, <1>9 DEF into
  <2> HIDE DEF i, j
  <2>3. i < j \/ j < i
    BY <2>1, <2>2, <1>3
  <2>4. i * perObj \in Nat /\ j * perObj \in Nat
    BY Zenon, <2>1, <1>3, ObjectInside
  <2>5. i < j => i * perObj + perObj <= j * perObj
    BY Zenon, <2>1, <1>3, ObjectsApart
  <2>6. j < i => j * perObj + perObj <= i * perObj
    BY Zenon, <2>1, <1>3, ObjectsApart
  <2>7. QED
    BY <2>1, <2>3, <2>4, <2>5, <2>6, <1>3
<1>10. Carved(t, u, ut, into, perObj, need)
  BY Zenon, <1>2, <1>4, <1>5, <1>6, <1>7, <1>8, <1>9 DEF Carved, ute, base
<1>11. FrameTable(u, Region(s))
  BY Zenon, <1>1, <1>3, <1>4, <1>10, FramesCarved
<1>12. \A f \in dirty', c \in Slots :
         t[c].type = "Frame" /\ f \in FramesOf(t[c]) =>
           \E k \in Slots : u[k].type = "Frame" /\ f \in FramesOf(u[k])
  <2>1. \A c \in Slots : t[c].type = "Frame" => u[c] = t[c]
    BY Zenon, <1>2, <1>7 DEF ute
  <2>2. QED
    BY Zenon, <2>1
<1>13. FrameInv'
  BY Zenon, <1>2, <1>11, <1>12, FrameOneTable
<1>14. ASSUME NEW f \in dirty PROVE f \notin base .. base + need - 1
  <2>1. PICK r \in Spaces, c \in Slots :
          slots[r][c].type = "Frame" /\ f \in FramesOf(slots[r][c])
    BY Zenon DEF FrameInv, DirtyNamed
  <2>2. OwnsFrames(slots[r][c])
    BY Zenon, <2>1 DEF OwnsFrames, NotZeroed
  <2>3. SUFFICES ASSUME f \in base .. base + need - 1 PROVE FALSE
    BY Zenon
  <2>4. f \in FreeOf(ute)
    BY <2>3, <1>2, <1>3 DEF FreeOf, base
  <2>5. CASE r = s
    <3>1. Disjoint(FramesOf(t[c]), FreeOf(t[ut]))
      BY Zenon, <2>2, <2>5, <1>1, <1>2, FreeUnnamed DEF ute
    <3>2. QED
      BY Zenon, <3>1, <2>1, <2>4, <2>5 DEF Disjoint, ute
  <2>6. CASE r # s
    <3>1. f \in Region(r)
      BY Zenon, <2>1, <2>2, FrameFacts DEF FrameTable
    <3>2. f \in Region(s)
      <4>1. FreeOf(ute) \subseteq FramesOf(ute)
        BY Zenon, <1>1, UntypedParts DEF ute
      <4>2. FramesOf(ute) \subseteq Region(s)
        BY Zenon, <1>1, <1>2 DEF FrameTable, ute
      <4>3. QED
        BY Zenon, <4>1, <4>2, <2>4
    <3>3. QED
      BY Zenon, <3>1, <3>2, <2>6, BootAssumption DEF Region
  <2>7. QED
    BY Zenon, <2>5, <2>6
<1>15. dirty' = dirty
  BY Zenon, <1>2, <1>14
<1>16. QED
  BY Zenon, <1>13, <1>15

(* The frames of two spaces are apart.                                     *)
LEMMA RegionsApart ==
  ASSUME NEW r \in Spaces, NEW s \in Spaces, r # s
  PROVE  Disjoint(Region(r), Region(s))
BY Zenon, BootAssumption DEF Region, Disjoint

(* destroy_slot: the data of the object goes with its last capability, and  *)
(* what is wiped nobody owns any more.                                     *)
LEMMA FrameDestroy ==
  ASSUME FrameInv, TreeInv', NEW s \in Spaces, NEW d \in Slots, DestroySlot(s, d)
  PROVE  /\ FrameInv'
         /\ \A f \in dirty \ dirty' : \A r \in Spaces, c \in Slots :
              OwnsFrames(slots'[r][c]) => f \notin FramesOf(slots'[r][c])
<1> DEFINE t == slots[s]
           u == Without(t, d)
<1>1. TypedTable(t) /\ FrameTable(t, Region(s)) /\ slots \in [Spaces -> [Slots -> Cte]]
  BY Zenon, FrameFacts
<1>2. slots' = [slots EXCEPT ![s] = u] /\ dirty' = dirty \ ZeroedBy(t, d)
  BY Zenon DEF DestroySlot
<1>3. u[d].type = "Null" /\ \A k \in Slots \ {d} : Alike(u[k], t[k])
  BY Zenon, <1>1, WithoutFacts, EmptyFacts
<1>4. \A k \in Slots \ {d} : u[k] = t[k] \/ u[k].type = "Sched"
  BY Zenon, <1>3 DEF Without, Alike
<1>5. slots'[s] = u /\ \A r \in Spaces \ {s} : slots'[r] = slots[r]
  BY Zenon, <1>1, <1>2
<1> HIDE DEF u
<1>6. \A k \in Slots : Kept(u[k], t[k])
  BY Zenon, <1>3, <1>4 DEF Kept, OwnsFrames, NotZeroed, SameObject
<1>7. FrameTable(u, Region(s))
  <2>1. LinkedTable(u)
    BY Zenon, <1>5 DEF TreeInv, ForestTable
  <2>2. QED
    BY Zenon, <2>1, <1>1, <1>6, FramesKept
<1>8. ASSUME NEW f \in dirty', NEW c \in Slots, t[c].type = "Frame", f \in FramesOf(t[c])
      PROVE  \E k \in Slots : u[k].type = "Frame" /\ f \in FramesOf(u[k])
  <2>1. CASE c # d
    <3>1. u[c] = t[c]
      BY Zenon, <2>1, <1>3, <1>4, <1>8 DEF Alike
    <3>2. QED
      BY Zenon, <3>1, <1>8
  <2>2. CASE c = d
    <3>1. f \notin ZeroedBy(t, d)
      BY Zenon, <1>2
    <3>2. PICK k \in Slots \ {d} : t[k].type = "Frame" /\ t[k].objref = t[d].objref
      BY Zenon, <3>1, <2>2, <1>8 DEF ZeroedBy, NotZeroed
    <3>3. u[k] = t[k]
      BY Zenon, <3>2, <1>3, <1>4 DEF Alike
    <3>4. OwnsFrames(t[k]) /\ OwnsFrames(t[d])
      BY Zenon, <3>2, <2>2, <1>8 DEF OwnsFrames, NotZeroed
    <3>5. ~Disjoint(FramesOf(t[k]), FramesOf(t[d]))
      <4>1. /\ t[k].objref \in Nat /\ t[k].size \in Nat /\ t[d].size \in Nat
            /\ t[k].size > 0 /\ t[d].size > 0
        BY Zenon, <3>2, <2>2, <1>1, <1>8, UntypedParts DEF FrameTable
      <4>2. t[k].objref \in FramesOf(t[k]) /\ t[k].objref \in FramesOf(t[d])
        BY <4>1, <3>2 DEF FramesOf
      <4>3. QED
        BY Zenon, <4>2 DEF Disjoint
    <3>6. SameObject(t[k], t[d])
      BY Zenon, <3>4, <3>5, <1>1 DEF FrameTable
    <3>7. FramesOf(t[k]) = FramesOf(t[d])
      BY Zenon, <3>6 DEF SameObject, FramesOf
    <3>8. QED
      BY Zenon, <3>2, <3>3, <3>7, <2>2, <1>8
  <2>3. QED
    BY Zenon, <2>1, <2>2
<1>9. FrameInv'
  BY Zenon, <1>2, <1>7, <1>8, FrameOneTable
<1>10. ASSUME NEW f \in dirty \ dirty', NEW r \in Spaces, NEW c \in Slots,
              OwnsFrames(slots'[r][c]), f \in FramesOf(slots'[r][c])
       PROVE  FALSE
  <2>1. /\ f \in FramesOf(t[d]) /\ t[d].type \notin NotZeroed
        /\ \A k \in Slots \ {d} : ~(t[k].type = t[d].type /\ t[k].objref = t[d].objref)
    BY Zenon, <1>2, <1>10 DEF ZeroedBy
  <2>2. t[d].type # "Null"
    <3>1. SUFFICES ASSUME t[d].type = "Null" PROVE FALSE
      BY Zenon
    <3>2. t[d] = EMPTY
      BY Zenon, <3>1, <1>1 DEF TypedTable
    <3>3. FramesOf(EMPTY) = {}
      BY DEF EMPTY, Entry, FramesOf
    <3>4. QED
      BY Zenon, <3>2, <3>3, <2>1
  <2>3. OwnsFrames(t[d])
    BY Zenon, <2>1, <2>2 DEF OwnsFrames
  <2>4. CASE r = s
    <3>1. c # d
      BY Zenon, <2>4, <1>3, <1>5, <1>10 DEF OwnsFrames
    <3>2. OwnsFrames(t[c]) /\ f \in FramesOf(t[c])
      BY Zenon, <3>1, <2>4, <1>3, <1>4, <1>5, <1>10 DEF OwnsFrames, NotZeroed
    <3>3. SameObject(t[c], t[d]) \/ Disjoint(FramesOf(t[c]), FramesOf(t[d]))
      BY Zenon, <3>2, <2>3, <1>1 DEF FrameTable
    <3>4. QED
      BY Zenon, <3>1, <3>2, <3>3, <2>1 DEF SameObject, Disjoint
  <2>5. CASE r # s
    <3>1. f \in Region(r)
      BY Zenon, <2>5, <1>5, <1>10, FrameFacts DEF FrameTable
    <3>2. f \in Region(s)
      BY Zenon, <2>1, <2>3, <1>1 DEF FrameTable
    <3>3. QED
      BY Zenon, <3>1, <3>2, <2>5, RegionsApart DEF Disjoint
  <2>6. QED
    BY Zenon, <2>4, <2>5
<1>11. QED
  BY Zenon, <1>9, <1>10

LEMMA FrameRevokeDone ==
  ASSUME FrameInv, TreeInv', RevokeDone
  PROVE  /\ FrameInv'
         /\ \A f \in dirty \ dirty' : \A r \in Spaces, c \in Slots :
              OwnsFrames(slots'[r][c]) => f \notin FramesOf(slots'[r][c])
<1> DEFINE s == op.space
           c == op.slot
           t == slots[s]
           u == [t EXCEPT ![c] = [t[c] EXCEPT !.wm = 0]]
<1>1. s \in Spaces /\ c \in Slots
  BY Zenon, OpFacts DEF RevokeDone, FrameInv, TreeInv
<1>2. /\ TypedTable(t) /\ ForestTable(t) /\ LinkedTable(t) /\ FrameTable(t, Region(s))
      /\ t \in [Slots -> Cte]
  BY Zenon, <1>1, FrameFacts
<1>3. \A k \in Slots : t[k].parent # c
  BY Zenon, <1>1, <1>2, NoLeafNoChild DEF RevokeDone
<1>4. CASE DestroySlot(s, c)
  BY Zenon, <1>1, <1>4, FrameDestroy
<1>5. CASE t[c].type = "Untyped" /\ dirty' = dirty /\ slots' = [slots EXCEPT ![s] = u]
  <2>1. FrameTable(u, Region(s))
    BY Zenon, <1>1, <1>2, <1>3, <1>5, FramesReset
  <2>2. \A k \in Slots : t[k].type = "Frame" => u[k] = t[k]
    BY Zenon, <1>1, <1>2, <1>5
  <2>3. \A f \in dirty', k \in Slots :
          t[k].type = "Frame" /\ f \in FramesOf(t[k]) =>
            \E j \in Slots : u[j].type = "Frame" /\ f \in FramesOf(u[j])
    BY Zenon, <2>2
  <2> HIDE DEF u
  <2>4. FrameInv'
    BY Zenon, <1>1, <1>5, <2>1, <2>3, FrameOneTable
  <2>5. QED
    BY Zenon, <2>4, <1>5
<1>6. CASE slots' = slots /\ dirty' = dirty
  BY Zenon, <1>6 DEF FrameInv, DirtyNamed
<1>7. QED
  BY Zenon, <1>4, <1>5, <1>6 DEF RevokeDone

LEMMA FrameInit == Init => FrameInv
<1> SUFFICES ASSUME Init PROVE FrameInv
  BY Zenon
<1>1. TreeInv
  BY Zenon, TreeInit
<1>2. slots = Boot /\ dirty = {}
  BY Zenon DEF Init
<1>3. ASSUME NEW s \in Spaces PROVE FrameTable(Boot[s], Region(s))
  <2> DEFINE t == Boot[s]
  <2>1. \A c \in Slots :
          /\ t[c] \in Cte /\ t[c].type \in BootTypes /\ t[c].parent = NIL
          /\ t[c].type = "Notification" => t[c].size = 0
          /\ t[c].type = "Frame" => t[c].size > 0
    BY BootAssumption
  <2>2. \A c \in Slots : OwnsFrames(t[c]) => t[c].type \in {"Notification", "Frame"}
    BY Zenon, <2>1 DEF BootTypes, OwnsFrames, NotZeroed
  <2>3. ASSUME NEW c \in Slots, t[c].type = "Notification" PROVE FramesOf(t[c]) = {}
    <3>1. t[c].objref \in Nat /\ t[c].size = 0
      BY Zenon, <2>1, <2>3 DEF Cte
    <3>2. QED
      BY <3>1 DEF FramesOf
  <2>4. \A c, d \in Slots :
          c # d /\ t[c].type \in {"Untyped", "Frame"} /\ t[d].type \in {"Untyped", "Frame"} =>
            Disjoint(FramesOf(t[c]), FramesOf(t[d]))
    BY Zenon, BootAssumption DEF Disjoint
  <2>5. ASSUME NEW c \in Slots, t[c].type \in {"Untyped", "Frame"}
        PROVE  FramesOf(t[c]) \subseteq Region(s)
    <3>1. t[c].objref \in Nat /\ t[c].size \in Nat
      BY <2>1, ConstantsAssumption DEF Cte
    <3>2. FramesOf(t[c]) \subseteq Nat
      BY <3>1 DEF FramesOf
    <3>3. QED
      BY Zenon, <3>2, <2>5 DEF Region
  <2> HIDE DEF t
  <2>6. \A c \in Slots :
          t[c].type = "Untyped" \/ OwnsFrames(t[c]) => FramesOf(t[c]) \subseteq Region(s)
    BY Zenon, <2>2, <2>3, <2>5
  <2>7. \A c, d \in Slots :
          OwnsFrames(t[c]) /\ t[c].parent = NIL /\ t[d].type = "Untyped" =>
            Disjoint(FramesOf(t[c]), FramesOf(t[d]))
    BY Zenon, <2>2, <2>3, <2>4 DEF Disjoint
  <2>8. \A c, d \in Slots :
          OwnsFrames(t[c]) /\ OwnsFrames(t[d]) =>
            SameObject(t[c], t[d]) \/ Disjoint(FramesOf(t[c]), FramesOf(t[d]))
    BY Zenon, <2>2, <2>3, <2>4 DEF Disjoint, SameObject
  <2>9. FrameTable(t, Region(s))
    BY Zenon, <2>1, <2>4, <2>6, <2>7, <2>8 DEF FrameTable
  <2>10. QED
    BY Zenon, <2>9 DEF t
<1>4. QED
  BY Zenon, <1>1, <1>2, <1>3 DEF FrameInv, DirtyNamed

(* What a step never does to the frames.                                   *)
WipesNoOwned ==
  \A f \in dirty \ dirty' : \A r \in Spaces, c \in Slots :
    OwnsFrames(slots'[r][c]) => f \notin FramesOf(slots'[r][c])

LEMMA FrameNext ==
  ASSUME GrantModes = {}, FrameInv, [Next]_vars
  PROVE  FrameInv' /\ WipesNoOwned
<1>1. TreeInv'
  BY Zenon, TreeNext DEF FrameInv
<1>2. ASSUME NEW s \in Spaces, NEW c \in Slots, NEW dest \in Slots,
             \/ \E t \in RetypeTypes, perObj \in 0 .. MaxPerObj, count \in 0 .. N :
                  Retype(s, c, t, perObj, count, dest)
             \/ \E r \in NewRights : Mint(s, c, dest, r)
             \/ Copy(s, c, dest)
             \/ MoveCap(s, c, dest)
             \/ \E amount \in 0 .. U32Max : Split(s, c, dest, amount)
             \/ \E amount \in 0 .. U32Max : Delegate(s, c, dest, amount)
      PROVE  FrameInv' /\ dirty' = dirty
  <2>1. CASE \E t \in RetypeTypes, perObj \in 0 .. MaxPerObj, count \in 0 .. N :
               Retype(s, c, t, perObj, count, dest)
    BY Zenon, <1>1, <2>1, FrameRetype
  <2>2. CASE ~(\E t \in RetypeTypes, perObj \in 0 .. MaxPerObj, count \in 0 .. N :
                 Retype(s, c, t, perObj, count, dest))
    <3>1. FrameInv'
      BY Zenon, <1>1, <1>2, <2>2, FrameMint, FrameCopy, FrameMoveCap, FrameSplit, FrameDelegate
    <3>2. dirty' = dirty
      BY Zenon, <1>2, <2>2 DEF Mint, Copy, MoveCap, Split, Delegate
    <3>3. QED
      BY Zenon, <3>1, <3>2
  <2>3. QED
    BY Zenon, <2>1, <2>2
<1>3. ASSUME NEW s \in Spaces, NEW c \in Slots,
             \/ \E caller \in Callers : MintReply(s, c, caller)
             \/ \E delete \in BOOLEAN : Revoke(s, c, delete)
      PROVE  FrameInv' /\ dirty' = dirty
  <2>1. CASE \E caller \in Callers : MintReply(s, c, caller)
    BY Zenon, <1>1, <2>1, FrameMintReply DEF MintReply
  <2>2. CASE \E delete \in BOOLEAN : Revoke(s, c, delete)
    BY Zenon, <1>1, <2>2 DEF Revoke, FrameInv, DirtyNamed
  <2>3. QED
    BY Zenon, <1>3, <2>1, <2>2
<1>4. ASSUME NEW s \in Spaces, NEW c \in Slots, WriteFrame(s, c)
      PROVE  FrameInv' /\ dirty \subseteq dirty'
  <2>1. /\ slots' = slots /\ dirty' = dirty \cup FramesOf(slots[s][c])
        /\ slots[s][c].type = "Frame"
    BY Zenon, <1>4 DEF WriteFrame
  <2>2. DirtyNamed'
    BY Zenon, <2>1 DEF FrameInv, DirtyNamed
  <2>3. QED
    BY Zenon, <1>1, <2>1, <2>2 DEF FrameInv
<1>5. ASSUME NEW s \in Spaces, NEW c \in Slots, ConsumeReply(s, c) PROVE FrameInv' /\ WipesNoOwned
  BY Zenon, <1>1, <1>5, FrameDestroy DEF ConsumeReply, WipesNoOwned
<1>6. ASSUME RevokeStep PROVE FrameInv' /\ WipesNoOwned
  <2>1. op.space \in Spaces
    BY Zenon, <1>6, OpFacts DEF RevokeStep, FrameInv, TreeInv
  <2>2. PICK d \in Slots : DestroySlot(op.space, d)
    BY Zenon, <1>6 DEF RevokeStep, Leaves, Descendants, Subtree
  <2>3. QED
    BY Zenon, <1>1, <2>1, <2>2, FrameDestroy DEF WipesNoOwned
<1>7. ASSUME RevokeDone PROVE FrameInv' /\ WipesNoOwned
  BY Zenon, <1>1, <1>7, FrameRevokeDone DEF WipesNoOwned
<1>8. ASSUME UNCHANGED vars PROVE FrameInv' /\ dirty' = dirty
  BY Zenon, <1>1, <1>8 DEF vars, FrameInv, DirtyNamed
<1>9. QED
  BY <1>2, <1>3, <1>4, <1>5, <1>6, <1>7, <1>8 DEF Next, WipesNoOwned

LEMMA FrameInvariant ==
  ASSUME GrantModes = {}
  PROVE  Spec => []FrameInv
BY FrameInit, FrameNext, PTL DEF Spec

(* Among capabilities that are never granted to another space, retype hands *)
(* no frame out twice: two capabilities of a space name the same object or  *)
(* objects without a common frame.                                         *)
THEOREM NoFrameTwice ==
  ASSUME GrantModes = {}
  PROVE  Spec => []NoAlias
<1>1. FrameInv => NoAlias
  BY Zenon, FrameFacts DEF NoAlias, FrameTable, Disjoint
<1>2. QED
  BY <1>1, FrameInvariant, PTL

(* Nor does destroy_slot leave data behind: a frame that holds some is      *)
(* named by a live capability.                                             *)
THEOREM NoDataLeft ==
  ASSUME GrantModes = {}
  PROVE  Spec => []NoResidual
<1>1. FrameInv => NoResidual
  BY Zenon DEF FrameInv, DirtyNamed, NoResidual, OwnsFrames, NotZeroed
<1>2. QED
  BY <1>1, FrameInvariant, PTL

(* Nor do destroy_slot and retype wipe a frame that any space's capability  *)
(* still owns: it takes a grant to break that.                             *)
THEOREM NoOwnedFrameWiped ==
  ASSUME GrantModes = {}
  PROVE  Spec => NeverWipesOwned
<1>1. FrameInv /\ [Next]_vars =>
        [\A f \in dirty \ dirty' : \A s \in Spaces, c \in Slots :
           OwnsFrames(slots'[s][c]) => f \notin FramesOf(slots'[s][c])]_vars
  BY Zenon, FrameNext DEF WipesNoOwned
<1>2. QED
  BY <1>1, FrameInvariant, PTL DEF Spec, NeverWipesOwned
=============================================================================
