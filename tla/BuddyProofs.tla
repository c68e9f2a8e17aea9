----------------------------- MODULE BuddyProofs -----------------------------
(***************************************************************************)
(* What each operation of the buddy allocator does to the set of free       *)
(* frames, for every number of frames and every MaxOrder.  The invariant of *)
(* the descriptor array, BuddyOK, is local: it speaks of a free block and   *)
(* of its neighbours in the list and in memory.                             *)
(***************************************************************************)
EXTENDS Buddy, NatFacts

-----------------------------------------------------------------------------
(* Powers of two.                                                          *)

PowFun(n, f) == f = [o \in 0 .. n |-> IF o = 0 THEN 1 ELSE 2 * f[o - 1]]

LEMMA PowExists ==
  \A n \in Nat : \E f : PowFun(n, f)
<1> DEFINE P == {n \in Nat : \E f : PowFun(n, f)}
<1>1. 0 \in P
  <2> DEFINE f == [o \in 0 .. 0 |-> 1]
  <2>1. PowFun(0, f)
    BY DEF PowFun
  <2>2. QED
    BY Zenon, <2>1
<1>2. ASSUME NEW n \in P PROVE n + 1 \in P
  <2>1. PICK f : PowFun(n, f)
    BY Zenon
  <2> DEFINE g == [o \in 0 .. n + 1 |-> IF o = n + 1 THEN 2 * f[n] ELSE f[o]]
  <2>2. \A o \in 0 .. n : f[o] = IF o = 0 THEN 1 ELSE 2 * f[o - 1]
    BY Zenon, <2>1 DEF PowFun
  <2>3. ASSUME NEW o \in 0 .. n + 1 PROVE g[o] = IF o = 0 THEN 1 ELSE 2 * g[o - 1]
    <3>1. CASE o = n + 1
      BY <3>1
    <3>2. CASE o # n + 1
      BY <3>2, <2>2
    <3>3. QED
      BY Zenon, <3>1, <3>2
  <2>4. PowFun(n + 1, g)
    <3>1. g = [o \in 0 .. n + 1 |-> g[o]]
      BY Zenon
    <3>2. QED
      BY Zenon, <2>3 DEF PowFun
  <2>5. QED
    BY <2>4
<1>3. P \in SUBSET Nat
  BY Zenon
<1> HIDE DEF P
<1>4. P = Nat
  BY Zenon, <1>1, <1>2, <1>3, NatSetInduction
<1>5. QED
  BY Zenon, <1>4 DEF P

(* A block of order 0 is a frame, a block of the next order twice as large. *)
LEMMA Pow2Step ==
  /\ Pow2[0] = 1
  /\ \A o \in Orders : o # 0 => Pow2[o] = 2 * Pow2[o - 1]
<1>1. PowFun(MaxOrder, Pow2)
  <2>1. PICK f : PowFun(MaxOrder, f)
    BY Zenon, PowExists, OrderAssumption
  <2>2. QED
    BY Zenon, <2>1 DEF PowFun, Pow2, Orders
<1>2. \A o \in Orders : Pow2[o] = IF o = 0 THEN 1 ELSE 2 * Pow2[o - 1]
  BY Zenon, <1>1 DEF PowFun, Orders
<1>3. 0 \in Orders
  BY OrderAssumption DEF Orders
<1>4. QED
  BY Zenon, <1>2, <1>3

LEMMA Pow2Type ==
  \A o \in Orders : Pow2[o] \in Nat /\ Pow2[o] >= 1
<1> DEFINE P == {n \in Nat : n \in Orders => Pow2[n] \in Nat /\ Pow2[n] >= 1}
<1>1. 0 \in P
  BY Pow2Step
<1>2. ASSUME NEW n \in P PROVE n + 1 \in P
  <2>1. SUFFICES ASSUME n + 1 \in Orders PROVE Pow2[n + 1] \in Nat /\ Pow2[n + 1] >= 1
    OBVIOUS
  <2>2. n \in Nat /\ n \in Orders /\ n + 1 # 0 /\ (n + 1) - 1 = n
    BY <2>1, OrderAssumption DEF Orders
  <2>3. Pow2[n + 1] = 2 * Pow2[n]
    BY Zenon, <2>1, <2>2, Pow2Step
  <2>4. QED
    BY <2>2, <2>3
<1>3. P \in SUBSET Nat
  BY Zenon
<1> HIDE DEF P
<1>4. P = Nat
  BY Zenon, <1>1, <1>2, <1>3, NatSetInduction
<1>5. QED
  BY <1>4, OrderAssumption DEF P, Orders

-----------------------------------------------------------------------------
(* The invariant of the descriptor array.                                  *)

Descs(n) == [next : (0 .. n - 1) \cup {NIL}, prev : (0 .. n - 1) \cup {NIL},
             order : Orders, free : BOOLEAN]

Buddies(n) == [desc : [0 .. n - 1 -> Descs(n)], heads : [Orders -> (0 .. n - 1) \cup {NIL}],
               count : Int]

(* One past the last frame of the block that descriptor f stands for.       *)
EndOf(b, f) == f + Pow2[b.desc[f].order]

(* Free blocks lie inside the array and apart.                              *)
BlocksApart(b, n) ==
  /\ \A f \in 0 .. n - 1 : b.desc[f].free => EndOf(b, f) <= n
  /\ \A f, g \in 0 .. n - 1 : b.desc[f].free /\ b.desc[g].free /\ f < g => EndOf(b, f) <= g

(* A head is a free block of its order with nothing before it, and a free   *)
(* block without a predecessor is a head; links run between free blocks of   *)
(* an order and have their reverse.                                        *)
LinksMatch(b, n) ==
  /\ \A o \in Orders : b.heads[o] # NIL =>
       /\ b.desc[b.heads[o]].free
       /\ b.desc[b.heads[o]].order = o
       /\ b.desc[b.heads[o]].prev = NIL
  /\ \A f \in 0 .. n - 1 : b.desc[f].free =>
       /\ b.desc[f].prev = NIL => b.heads[b.desc[f].order] = f
       /\ b.desc[f].prev # NIL =>
            /\ b.desc[b.desc[f].prev].free
            /\ b.desc[b.desc[f].prev].order = b.desc[f].order
            /\ b.desc[b.desc[f].prev].next = f
       /\ b.desc[f].next # NIL =>
            /\ b.desc[b.desc[f].next].free
            /\ b.desc[b.desc[f].next].order = b.desc[f].order
            /\ b.desc[b.desc[f].next].prev = f

BuddyOK(b, n) == b \in Buddies(n) /\ BlocksApart(b, n) /\ LinksMatch(b, n)

(* What an operation on the frames of X leaves alone.                       *)
SameOutside(b, c, n, X) == \A f \in (0 .. n - 1) \ X : c.desc[f] = b.desc[f]

LEMMA FreeFramesAre ==
  ASSUME NEW n \in Nat, NEW b, b \in Buddies(n)
  PROVE  \A x : x \in FreeFrames(b) <=>
           x \in Int /\ \E f \in 0 .. n - 1 : b.desc[f].free /\ f <= x /\ x < EndOf(b, f)
<1>1. \A f \in 0 .. n - 1 : f \in Int /\ b.desc[f].order \in Orders
  BY DEF Buddies, Descs
<1>2. \A f \in 0 .. n - 1 : EndOf(b, f) \in Int
  BY <1>1, Pow2Type DEF EndOf
<1>3. FreeHeads(b) = {f \in 0 .. n - 1 : b.desc[f].free}
  BY Zenon DEF FreeHeads, Frames, Buddies
<1>4. \A f \in 0 .. n - 1 : Block(f, b.desc[f].order) = f .. EndOf(b, f) - 1
  BY <1>1, Pow2Type DEF Block, EndOf
<1>5. \A f \in 0 .. n - 1 : \A x : x \in Block(f, b.desc[f].order) <=> x \in Int /\ f <= x /\ x < EndOf(b, f)
  BY <1>1, <1>2, <1>4
<1>6. QED
  BY Zenon, <1>3, <1>5 DEF FreeFrames

(* Apart from the free frames, as bounds.                                   *)
LEMMA ApartFromFree ==
  ASSUME NEW n \in Nat, NEW b, BuddyOK(b, n), NEW lo \in Nat, NEW hi \in Nat, lo < hi,
         (lo .. hi - 1) \cap FreeFrames(b) = {}
  PROVE  \A f \in 0 .. n - 1 : b.desc[f].free => EndOf(b, f) <= lo \/ hi <= f
<1>1. SUFFICES ASSUME NEW f \in 0 .. n - 1, b.desc[f].free, lo < EndOf(b, f), f < hi
               PROVE  FALSE
  <2>1. \A f \in 0 .. n - 1 : b.desc[f].order \in Orders
    BY Zenon DEF BuddyOK, Buddies, Descs
  <2>2. \A f \in 0 .. n - 1 : EndOf(b, f) \in Int
    BY <2>1, Pow2Type DEF EndOf
  <2>3. QED
    BY <2>2
<1>2. f < EndOf(b, f) /\ EndOf(b, f) \in Int
  <2>1. b.desc[f].order \in Orders
    BY Zenon DEF BuddyOK, Buddies, Descs
  <2>2. QED
    BY <2>1, Pow2Type DEF EndOf
<1>3. CASE f < lo
  <2>1. lo \in FreeFrames(b)
    BY <1>1, <1>3, FreeFramesAre DEF BuddyOK
  <2>2. QED
    BY <2>1
<1>4. CASE lo <= f
  <2>1. f \in FreeFrames(b)
    BY <1>1, <1>2, FreeFramesAre DEF BuddyOK
  <2>2. QED
    BY <2>1, <1>1, <1>4
<1>5. QED
  BY <1>3, <1>4

-----------------------------------------------------------------------------
(* insert.                                                                 *)

LEMMA InsertIs ==
  ASSUME NEW n \in Nat, NEW b, b \in Buddies(n), NEW base \in 0 .. n - 1, NEW o \in Orders
  PROVE  LET c == Insert(b, base, o)
         IN  /\ c \in Buddies(n)
             /\ c.count = b.count
             /\ c.heads[o] = base
             /\ \A k \in Orders : k # o => c.heads[k] = b.heads[k]
             /\ c.desc[base].next = b.heads[o] /\ c.desc[base].prev = NIL
             /\ c.desc[base].order = o /\ c.desc[base].free
             /\ \A f \in 0 .. n - 1 : f # base =>
                  /\ c.desc[f].next = b.desc[f].next
                  /\ c.desc[f].order = b.desc[f].order
                  /\ c.desc[f].free = b.desc[f].free
                  /\ c.desc[f].prev = IF f = b.heads[o] THEN base ELSE b.desc[f].prev
                  /\ f # b.heads[o] => c.desc[f] = b.desc[f]
<1> DEFINE c == Insert(b, base, o)
           head == b.heads[o]
           link == [f \in 0 .. n - 1 |->
                      IF f = base THEN [next |-> head, prev |-> NIL, order |-> o, free |-> TRUE]
                      ELSE IF f = head THEN [b.desc[f] EXCEPT !.prev = base]
                      ELSE b.desc[f]]
<1>1. /\ b.desc \in [0 .. n - 1 -> Descs(n)] /\ b.count \in Int
      /\ b.heads \in [Orders -> (0 .. n - 1) \cup {NIL}]
      /\ b = [desc |-> b.desc, heads |-> b.heads, count |-> b.count]
  BY Zenon DEF Buddies
<1>2. Frames(b) = 0 .. n - 1
  BY Zenon, <1>1 DEF Frames
<1>3. c = [b EXCEPT !.desc = link, !.heads[o] = base]
  BY Zenon, <1>2 DEF Insert
<1>4. c = [desc |-> link, heads |-> [b.heads EXCEPT ![o] = base], count |-> b.count]
  <2> HIDE DEF link
  <2> QED
    BY Zenon, <1>1, <1>3
<1>5. head \in (0 .. n - 1) \cup {NIL}
  BY Zenon, <1>1
<1>6. \A f \in 0 .. n - 1 : b.desc[f] \in Descs(n)
  BY Zenon, <1>1
<1>7. \A f \in 0 .. n - 1 : link[f] \in Descs(n)
  BY Zenon, <1>5, <1>6 DEF Descs
<1>8. c.desc = link /\ c.heads = [b.heads EXCEPT ![o] = base] /\ c.count = b.count
  BY <1>4
<1>9. c \in Buddies(n)
  <2>1. link \in [0 .. n - 1 -> Descs(n)]
    BY Zenon, <1>7
  <2>2. [b.heads EXCEPT ![o] = base] \in [Orders -> (0 .. n - 1) \cup {NIL}]
    BY Zenon, <1>1
  <2> HIDE DEF link, c
  <2>3. QED
    BY Zenon, <2>1, <2>2, <1>1, <1>4 DEF Buddies
<1>10. /\ link[base] = [next |-> head, prev |-> NIL, order |-> o, free |-> TRUE]
       /\ \A f \in 0 .. n - 1 : f # base =>
            link[f] = IF f = head THEN [b.desc[f] EXCEPT !.prev = base] ELSE b.desc[f]
  BY Zenon
<1>11. c.heads[o] = base /\ \A k \in Orders : k # o => c.heads[k] = b.heads[k]
  <2> HIDE DEF c
  <2> QED
    BY Zenon, <1>1, <1>8
<1> HIDE DEF link, c
<1>12. /\ c.desc[base].next = head /\ c.desc[base].prev = NIL
       /\ c.desc[base].order = o /\ c.desc[base].free
  BY <1>8, <1>10
<1>13. ASSUME NEW f \in 0 .. n - 1, f # base
       PROVE  /\ c.desc[f].next = b.desc[f].next
              /\ c.desc[f].order = b.desc[f].order
              /\ c.desc[f].free = b.desc[f].free
              /\ c.desc[f].prev = IF f = head THEN base ELSE b.desc[f].prev
              /\ f # head => c.desc[f] = b.desc[f]
  BY ZenonT(30), <1>6, <1>8, <1>10, <1>13 DEF Descs
<1>14. QED
  BY Zenon, <1>8, <1>9, <1>11, <1>12, <1>13 DEF c

(* The frames of the block, which were not free, become free; the rest of    *)
(* the array is left alone.                                                *)
LEMMA InsertOK ==
  ASSUME NEW n \in Nat, NEW b, BuddyOK(b, n), NEW base \in Nat, NEW o \in Orders,
         base + Pow2[o] <= n, Block(base, o) \cap FreeFrames(b) = {}
  PROVE  LET c == Insert(b, base, o)
         IN  /\ BuddyOK(c, n)
             /\ FreeFrames(c) = FreeFrames(b) \cup Block(base, o)
             /\ c.count = b.count
             /\ SameOutside(b, c, n, FreeFrames(b) \cup Block(base, o))
<1> DEFINE c == Insert(b, base, o)
           N == 0 .. n - 1
           head == b.heads[o]
           end == base + Pow2[o]
<1>1. end \in Nat /\ base < end /\ end <= n /\ base \in N
  BY Pow2Type
<1>2. Block(base, o) = base .. end - 1
  BY Pow2Type DEF Block
<1>3. b \in Buddies(n) /\ BlocksApart(b, n) /\ LinksMatch(b, n)
  BY Zenon DEF BuddyOK
<1>4. /\ c \in Buddies(n) /\ c.count = b.count /\ c.heads[o] = base
      /\ \A k \in Orders : k # o => c.heads[k] = b.heads[k]
      /\ c.desc[base].next = head /\ c.desc[base].prev = NIL
      /\ c.desc[base].order = o /\ c.desc[base].free
      /\ \A f \in N : f # base =>
           /\ c.desc[f].next = b.desc[f].next
           /\ c.desc[f].order = b.desc[f].order
           /\ c.desc[f].free = b.desc[f].free
           /\ c.desc[f].prev = IF f = head THEN base ELSE b.desc[f].prev
           /\ f # head => c.desc[f] = b.desc[f]
  BY <1>1, <1>3, InsertIs
<1> HIDE DEF c
<1>5. \A f \in N : b.desc[f].free => EndOf(b, f) <= base \/ end <= f
  <2> HIDE DEF end
  <2> QED
    BY Zenon, <1>1, <1>2, ApartFromFree
<1>6. /\ head \in N \cup {NIL}
      /\ \A f \in N : /\ b.desc[f].next \in N \cup {NIL} /\ b.desc[f].prev \in N \cup {NIL}
                      /\ b.desc[f].order \in Orders
  BY Zenon, <1>3 DEF Buddies, Descs
<1>7. \A f \in N : EndOf(b, f) \in Nat /\ f < EndOf(b, f)
  BY <1>6, Pow2Type DEF EndOf
<1>8. ~b.desc[base].free
  BY <1>1, <1>5, <1>7
<1>9. EndOf(c, base) = end /\ \A f \in N : f # base => EndOf(c, f) = EndOf(b, f)
  BY Zenon, <1>4 DEF EndOf
<1>10. BlocksApart(c, n)
  <2>1. \A f \in N : c.desc[f].free => EndOf(c, f) <= n
    BY <1>1, <1>3, <1>4, <1>9 DEF BlocksApart
  <2>2. ASSUME NEW f \in N, NEW g \in N, c.desc[f].free, c.desc[g].free, f < g
        PROVE  EndOf(c, f) <= g
    <3>1. CASE f = base
      <4>1. g # base /\ b.desc[g].free
        BY <2>2, <3>1, <1>4
      <4>2. end <= g
        BY <4>1, <3>1, <2>2, <1>5, <1>7
      <4>3. QED
        BY Zenon, <4>2, <3>1, <1>9
    <3>2. CASE f # base /\ g = base
      <4>1. b.desc[f].free
        BY Zenon, <2>2, <3>2, <1>4
      <4>2. EndOf(b, f) <= base
        BY <4>1, <3>2, <2>2, <1>1, <1>5
      <4>3. QED
        BY Zenon, <4>2, <3>2, <1>9
    <3>3. CASE f # base /\ g # base
      <4>1. b.desc[f].free /\ b.desc[g].free
        BY Zenon, <2>2, <3>3, <1>4
      <4>2. EndOf(b, f) <= g
        BY Zenon, <4>1, <2>2, <1>3 DEF BlocksApart
      <4>3. QED
        BY Zenon, <4>2, <3>3, <1>9
    <3>4. QED
      BY Zenon, <3>1, <3>2, <3>3
  <2>3. QED
    BY Zenon, <2>1, <2>2 DEF BlocksApart
<1>11. LinksMatch(c, n)
  <2>1. ASSUME NEW k \in Orders, c.heads[k] # NIL
        PROVE  /\ c.desc[c.heads[k]].free /\ c.desc[c.heads[k]].order = k
               /\ c.desc[c.heads[k]].prev = NIL
    <3>1. CASE k = o
      BY Zenon, <3>1, <1>4
    <3>2. CASE k # o
      <4>1. c.heads[k] = b.heads[k] /\ b.heads[k] \in N
        BY <2>1, <3>2, <1>3, <1>4 DEF Buddies
      <4>2. b.desc[b.heads[k]].free /\ b.desc[b.heads[k]].order = k /\ b.desc[b.heads[k]].prev = NIL
        BY Zenon, <2>1, <4>1, <1>3 DEF LinksMatch
      <4>3. head # NIL => b.desc[head].order = o
        BY Zenon, <1>3 DEF LinksMatch
      <4>4. b.heads[k] # base /\ b.heads[k] # head
        BY Zenon, <4>1, <4>2, <4>3, <3>2, <2>1, <1>8
      <4>5. QED
        BY SMTT(30), <4>1, <4>2, <4>4, <1>4
    <3>3. QED
      BY Zenon, <3>1, <3>2
  <2>2. ASSUME NEW f \in N, c.desc[f].free
        PROVE  /\ c.desc[f].prev = NIL => c.heads[c.desc[f].order] = f
               /\ c.desc[f].prev # NIL =>
                    /\ c.desc[c.desc[f].prev].free
                    /\ c.desc[c.desc[f].prev].order = c.desc[f].order
                    /\ c.desc[c.desc[f].prev].next = f
               /\ c.desc[f].next # NIL =>
                    /\ c.desc[c.desc[f].next].free
                    /\ c.desc[c.desc[f].next].order = c.desc[f].order
                    /\ c.desc[c.desc[f].next].prev = f
    <3>0. head # NIL => head \in N /\ b.desc[head].free /\ b.desc[head].order = o /\ b.desc[head].prev = NIL
      BY Zenon, <1>3, <1>6 DEF LinksMatch
    <3>1. CASE f = base
      BY <3>0, <3>1, <1>1, <1>4, <1>8
    <3>2. CASE f # base
      <4>1. b.desc[f].free /\ c.desc[f].order = b.desc[f].order /\ c.desc[f].next = b.desc[f].next
        BY Zenon, <2>2, <3>2, <1>4
      <4>2. /\ b.desc[f].prev = NIL => b.heads[b.desc[f].order] = f
            /\ b.desc[f].prev # NIL =>
                    /\ b.desc[b.desc[f].prev].free
                    /\ b.desc[b.desc[f].prev].order = b.desc[f].order
                    /\ b.desc[b.desc[f].prev].next = f
            /\ b.desc[f].next # NIL =>
                    /\ b.desc[b.desc[f].next].free
                    /\ b.desc[b.desc[f].next].order = b.desc[f].order
                    /\ b.desc[b.desc[f].next].prev = f
        BY Zenon, <4>1, <1>3 DEF LinksMatch
      <4>3. /\ c.desc[f].next # NIL =>
                    /\ c.desc[c.desc[f].next].free
                    /\ c.desc[c.desc[f].next].order = c.desc[f].order
                    /\ c.desc[c.desc[f].next].prev = f
        <5>1. SUFFICES ASSUME c.desc[f].next # NIL
                       PROVE  /\ c.desc[c.desc[f].next].free
                              /\ c.desc[c.desc[f].next].order = c.desc[f].order
                              /\ c.desc[c.desc[f].next].prev = f
          BY Zenon
        <5> DEFINE g == b.desc[f].next
        <5>2. g \in N /\ g # base /\ c.desc[f].next = g
          BY Zenon, <4>1, <4>2, <5>1, <1>6, <1>8
        <5>3. g # head
          BY SMTT(30), <3>0, <4>1, <4>2, <5>1, NIL \notin N DEF NIL
        <5>4. QED
          BY SMTT(30), <4>1, <4>2, <5>1, <5>2, <5>3, <1>4
      <4>4. CASE f = head
        <5>1. c.desc[f].prev = base /\ base # NIL
          BY <4>4, <3>2, <1>4, <1>1 DEF NIL
        <5>2. c.desc[f].order = o /\ c.desc[base].order = o /\ c.desc[base].next = f /\ c.desc[base].free
          BY SMTT(30), <3>0, <4>1, <4>4, <1>4, NIL \notin N DEF NIL
        <5>3. QED
          BY Zenon, <4>3, <5>1, <5>2
      <4>5. CASE f # head
        <5>1. c.desc[f].prev = b.desc[f].prev
          BY Zenon, <4>5, <3>2, <1>4
        <5>2. b.desc[f].prev = NIL => b.desc[f].order # o
          BY Zenon, <4>2, <4>5
        <5>3. b.desc[f].prev # NIL => b.desc[f].prev \in N /\ b.desc[f].prev # base
          BY Zenon, <4>2, <1>6, <1>8
        <5>4. c.desc[f].prev = NIL => c.heads[c.desc[f].order] = f
          BY SMTT(30), <4>1, <4>2, <5>1, <5>2, <1>4, <1>6
        <5>5. c.desc[f].prev # NIL =>
                 /\ c.desc[c.desc[f].prev].free
                 /\ c.desc[c.desc[f].prev].order = c.desc[f].order
                 /\ c.desc[c.desc[f].prev].next = f
          BY SMTT(30), <4>1, <4>2, <5>1, <5>3, <1>4
        <5>6. QED
          BY Zenon, <4>3, <5>4, <5>5
      <4>6. QED
        BY Zenon, <4>4, <4>5
    <3>3. QED
      BY Zenon, <3>1, <3>2
  <2>3. QED
    BY Zenon, <2>1, <2>2 DEF LinksMatch
<1>12. ASSUME NEW x PROVE x \in FreeFrames(c) <=> x \in FreeFrames(b) \cup Block(base, o)
  <2>1. x \in FreeFrames(c) <=> x \in Int /\ \E f \in N : c.desc[f].free /\ f <= x /\ x < EndOf(c, f)
    BY Zenon, <1>4, FreeFramesAre
  <2>2. x \in FreeFrames(b) <=> x \in Int /\ \E f \in N : b.desc[f].free /\ f <= x /\ x < EndOf(b, f)
    BY Zenon, <1>3, FreeFramesAre
  <2>3. x \in Block(base, o) <=> x \in Int /\ base <= x /\ x < end
    <3> HIDE DEF end
    <3> QED
      BY <1>1, <1>2
  <2> HIDE DEF end
  <2>4. QED
    BY Zenon, <2>1, <2>2, <2>3, <1>1, <1>4, <1>8, <1>9
<1>13. SameOutside(b, c, n, FreeFrames(b) \cup Block(base, o))
  <2>1. SUFFICES ASSUME NEW f \in N, f \notin FreeFrames(b), f \notin Block(base, o)
                 PROVE  c.desc[f] = b.desc[f]
    BY Zenon DEF SameOutside
  <2>2. f # base
    <3> HIDE DEF end
    <3> QED
      BY <2>1, <1>1, <1>2
  <2>3. ~b.desc[f].free
    BY <2>1, <1>3, <1>7, FreeFramesAre
  <2>4. f # head
    BY <2>3, <1>3, NIL \notin N DEF NIL, LinksMatch
  <2>5. QED
    BY Zenon, <2>2, <2>4, <1>4
<1>14. QED
  BY Zenon, <1>4, <1>10, <1>11, <1>12, <1>13 DEF BuddyOK, c

-----------------------------------------------------------------------------
(* unlink.                                                                 *)

LEMMA UnlinkIs ==
  ASSUME NEW n \in Nat, NEW b, b \in Buddies(n), NEW base \in 0 .. n - 1, NEW o \in Orders
  PROVE  LET c == Unlink(b, base, o)
             d == b.desc[base]
         IN  /\ c \in Buddies(n)
             /\ c.count = b.count
             /\ c.heads[o] = IF d.prev = NIL THEN d.next ELSE b.heads[o]
             /\ \A k \in Orders : k # o => c.heads[k] = b.heads[k]
             /\ \A f \in 0 .. n - 1 :
                  /\ c.desc[f].next = IF f = d.prev THEN d.next ELSE b.desc[f].next
                  /\ c.desc[f].prev = IF f = d.next THEN d.prev ELSE b.desc[f].prev
                  /\ c.desc[f].order = b.desc[f].order
                  /\ c.desc[f].free <=> f # base /\ b.desc[f].free
                  /\ f # d.prev /\ f # d.next /\ f # base => c.desc[f] = b.desc[f]
<1> DEFINE c == Unlink(b, base, o)
           d == b.desc[base]
           head == IF d.prev = NIL THEN d.next ELSE b.heads[o]
           link == [f \in 0 .. n - 1 |->
                      [next  |-> IF f = d.prev THEN d.next ELSE b.desc[f].next,
                       prev  |-> IF f = d.next THEN d.prev ELSE b.desc[f].prev,
                       order |-> b.desc[f].order,
                       free  |-> f # base /\ b.desc[f].free]]
<1>1. /\ b.desc \in [0 .. n - 1 -> Descs(n)] /\ b.count \in Int
      /\ b.heads \in [Orders -> (0 .. n - 1) \cup {NIL}]
      /\ b = [desc |-> b.desc, heads |-> b.heads, count |-> b.count]
  BY Zenon DEF Buddies
<1>2. Frames(b) = 0 .. n - 1
  BY Zenon, <1>1 DEF Frames
<1>3. c = [b EXCEPT !.desc = link, !.heads[o] = head]
  BY Zenon, <1>1, <1>2 DEF Unlink
<1>4. c = [desc |-> link, heads |-> [b.heads EXCEPT ![o] = head], count |-> b.count]
  <2> HIDE DEF link, head
  <2> QED
    BY Zenon, <1>1, <1>3
<1>5. \A f \in 0 .. n - 1 : /\ b.desc[f] \in Descs(n)
                            /\ b.desc[f].next \in (0 .. n - 1) \cup {NIL}
                            /\ b.desc[f].prev \in (0 .. n - 1) \cup {NIL}
                            /\ b.desc[f].order \in Orders /\ b.desc[f].free \in BOOLEAN
  BY Zenon, <1>1 DEF Descs
<1>6. head \in (0 .. n - 1) \cup {NIL}
  BY Zenon, <1>1, <1>5
<1>7. \A f \in 0 .. n - 1 : link[f] \in Descs(n)
  BY Zenon, <1>5 DEF Descs
<1>8. c.desc = link /\ c.heads = [b.heads EXCEPT ![o] = head] /\ c.count = b.count
  BY <1>4
<1>9. c \in Buddies(n)
  <2>1. link \in [0 .. n - 1 -> Descs(n)]
    BY Zenon, <1>7
  <2>2. [b.heads EXCEPT ![o] = head] \in [Orders -> (0 .. n - 1) \cup {NIL}]
    BY Zenon, <1>1, <1>6
  <2> HIDE DEF link, c, head
  <2>3. QED
    BY Zenon, <2>1, <2>2, <1>1, <1>4 DEF Buddies
<1>10. c.heads[o] = head /\ \A k \in Orders : k # o => c.heads[k] = b.heads[k]
  <2> HIDE DEF c, head
  <2> QED
    BY Zenon, <1>1, <1>8
<1>11. ASSUME NEW f \in 0 .. n - 1
       PROVE  /\ link[f].next = IF f = d.prev THEN d.next ELSE b.desc[f].next
              /\ link[f].prev = IF f = d.next THEN d.prev ELSE b.desc[f].prev
              /\ link[f].order = b.desc[f].order
              /\ link[f].free <=> f # base /\ b.desc[f].free
              /\ f # d.prev /\ f # d.next /\ f # base => link[f] = b.desc[f]
  <2>1. link[f] = [next  |-> IF f = d.prev THEN d.next ELSE b.desc[f].next,
                   prev  |-> IF f = d.next THEN d.prev ELSE b.desc[f].prev,
                   order |-> b.desc[f].order,
                   free  |-> f # base /\ b.desc[f].free]
    BY Zenon
  <2>2. b.desc[f] = [next |-> b.desc[f].next, prev |-> b.desc[f].prev,
                     order |-> b.desc[f].order, free |-> b.desc[f].free]
    BY Zenon, <1>5 DEF Descs
  <2>3. f # base => (f # base /\ b.desc[f].free) = b.desc[f].free
    BY Zenon, <1>5
  <2> DEFINE fr == f # base /\ b.desc[f].free
  <2>4. fr \in BOOLEAN
    BY Zenon
  <2> HIDE DEF link, d, fr
  <2>5. /\ link[f].next = IF f = d.prev THEN d.next ELSE b.desc[f].next
        /\ link[f].prev = IF f = d.next THEN d.prev ELSE b.desc[f].prev
        /\ link[f].order = b.desc[f].order
        /\ link[f].free = fr
    BY <2>1 DEF fr
  <2>6. link[f].free <=> fr
    BY Zenon, <2>4, <2>5
  <2>7. ASSUME f # d.prev, f # d.next, f # base PROVE link[f] = b.desc[f]
    <3>1. fr = b.desc[f].free
      BY Zenon, <2>3, <2>7 DEF fr
    <3>2. link[f] = [next |-> b.desc[f].next, prev |-> b.desc[f].prev,
                     order |-> b.desc[f].order, free |-> fr]
      BY Zenon, <2>1, <2>7 DEF fr
    <3>3. QED
      BY Zenon, <3>1, <3>2, <2>2
  <2>8. QED
    BY Zenon, <2>5, <2>6, <2>7 DEF fr
<1> HIDE DEF link, c
<1>12. QED
  BY Zenon, <1>8, <1>9, <1>10, <1>11 DEF c

(* The frames of the block, which were free, no longer are; descriptors that *)
(* are not free are left alone.                                            *)
LEMMA UnlinkOK ==
  ASSUME NEW n \in Nat, NEW b, BuddyOK(b, n), NEW base \in FreeHeads(b),
         NEW o, o = b.desc[base].order
  PROVE  LET c == Unlink(b, base, o)
         IN  /\ BuddyOK(c, n)
             /\ FreeFrames(c) = FreeFrames(b) \ Block(base, o)
             /\ Block(base, o) \subseteq FreeFrames(b)
             /\ c.count = b.count
             /\ SameOutside(b, c, n, FreeFrames(b))
<1> DEFINE c == Unlink(b, base, o)
           N == 0 .. n - 1
           p == b.desc[base].prev
           q == b.desc[base].next
           end == base + Pow2[o]
<1>0. base \in N /\ b.desc[base].free /\ o \in Orders
  BY Zenon DEF FreeHeads, Frames, BuddyOK, Buddies, Descs
<1>1. end \in Nat /\ base < end /\ end = EndOf(b, base)
  BY <1>0, Pow2Type DEF EndOf
<1>2. Block(base, o) = base .. end - 1
  BY <1>0, Pow2Type DEF Block
<1>3. b \in Buddies(n) /\ BlocksApart(b, n) /\ LinksMatch(b, n)
  BY Zenon DEF BuddyOK
<1>4. /\ c \in Buddies(n) /\ c.count = b.count
      /\ c.heads[o] = IF p = NIL THEN q ELSE b.heads[o]
      /\ \A k \in Orders : k # o => c.heads[k] = b.heads[k]
      /\ \A f \in N :
           /\ c.desc[f].next = IF f = p THEN q ELSE b.desc[f].next
           /\ c.desc[f].prev = IF f = q THEN p ELSE b.desc[f].prev
           /\ c.desc[f].order = b.desc[f].order
           /\ c.desc[f].free <=> f # base /\ b.desc[f].free
           /\ f # p /\ f # q /\ f # base => c.desc[f] = b.desc[f]
  BY SMTT(30), <1>0, <1>3, UnlinkIs
<1> HIDE DEF c, end
<1>5. /\ NIL \notin N /\ p \in N \cup {NIL} /\ q \in N \cup {NIL}
      /\ \A f \in N : /\ b.desc[f].next \in N \cup {NIL} /\ b.desc[f].prev \in N \cup {NIL}
                      /\ b.desc[f].order \in Orders
      /\ \A k \in Orders : b.heads[k] \in N \cup {NIL}
  BY <1>0, <1>3 DEF Buddies, Descs, NIL
<1>6. \A f \in N : EndOf(b, f) \in Nat /\ f < EndOf(b, f) /\ EndOf(c, f) = EndOf(b, f)
  BY SMTT(30), <1>4, <1>5, Pow2Type DEF EndOf
<1>7. /\ p = NIL => b.heads[o] = base
      /\ p # NIL => b.desc[p].free /\ b.desc[p].order = o /\ b.desc[p].next = base
      /\ q # NIL => b.desc[q].free /\ b.desc[q].order = o /\ b.desc[q].prev = base
  BY Zenon, <1>0, <1>3 DEF LinksMatch
<1>8. /\ \A k \in Orders : b.heads[k] # NIL =>
           b.desc[b.heads[k]].free /\ b.desc[b.heads[k]].order = k /\ b.desc[b.heads[k]].prev = NIL
      /\ \A f \in N : b.desc[f].free =>
            /\ b.desc[f].prev = NIL => b.heads[b.desc[f].order] = f
            /\ b.desc[f].prev # NIL =>
                    /\ b.desc[b.desc[f].prev].free
                    /\ b.desc[b.desc[f].prev].order = b.desc[f].order
                    /\ b.desc[b.desc[f].prev].next = f
            /\ b.desc[f].next # NIL =>
                    /\ b.desc[b.desc[f].next].free
                    /\ b.desc[b.desc[f].next].order = b.desc[f].order
                    /\ b.desc[b.desc[f].next].prev = f
  BY Zenon, <1>3 DEF LinksMatch
<1>9. BlocksApart(c, n)
  BY Zenon, <1>3, <1>4, <1>6 DEF BlocksApart
<1> HIDE DEF p, q
<1>10. LinksMatch(c, n)
  <2>1. ASSUME NEW k \in Orders, c.heads[k] # NIL
        PROVE  /\ c.desc[c.heads[k]].free /\ c.desc[c.heads[k]].order = k
               /\ c.desc[c.heads[k]].prev = NIL
    <3>1. CASE k = o /\ p = NIL
      <4>1. c.heads[k] = q /\ q # NIL /\ q \in N
        BY Zenon, <2>1, <3>1, <1>4, <1>5
      <4>2. q # base
        BY Zenon, <4>1, <3>1, <1>7, <1>5 DEF p
      <4>3. QED
        BY <4>1, <4>2, <3>1, <1>4, <1>7
    <3>2. CASE k # o \/ p # NIL
      <4>1. c.heads[k] = b.heads[k] /\ b.heads[k] \in N
        BY <2>1, <3>2, <1>4, <1>5
      <4>2. b.desc[b.heads[k]].free /\ b.desc[b.heads[k]].order = k /\ b.desc[b.heads[k]].prev = NIL
        BY Zenon, <2>1, <4>1, <1>8
      <4>3. b.heads[k] # base
        BY Zenon, <4>2, <3>2 DEF p
      <4>4. b.heads[k] # q
        <5>1. b.heads[k] \in N /\ b.heads[k] # NIL
          BY Zenon, <4>1, <1>5
        <5>2. b.desc[b.heads[k]].prev = NIL /\ base # NIL
          BY Zenon, <4>2, <1>0, <1>5
        <5>3. QED
          BY Zenon, <5>1, <5>2, <1>7
      <4>5. QED
        BY <4>1, <4>2, <4>3, <4>4, <1>4
    <3>3. QED
      BY Zenon, <3>1, <3>2
  <2>2. ASSUME NEW f \in N, c.desc[f].free
        PROVE  /\ c.desc[f].prev = NIL => c.heads[c.desc[f].order] = f
               /\ c.desc[f].prev # NIL =>
                    /\ c.desc[c.desc[f].prev].free
                    /\ c.desc[c.desc[f].prev].order = c.desc[f].order
                    /\ c.desc[c.desc[f].prev].next = f
               /\ c.desc[f].next # NIL =>
                    /\ c.desc[c.desc[f].next].free
                    /\ c.desc[c.desc[f].next].order = c.desc[f].order
                    /\ c.desc[c.desc[f].next].prev = f
    <3>1. f # base /\ b.desc[f].free /\ c.desc[f].order = b.desc[f].order
      BY Zenon, <2>2, <1>4
    <3>2. c.desc[f].prev = NIL => c.heads[c.desc[f].order] = f
      <4>1. CASE f = q
        BY <4>1, <3>1, <1>4, <1>5, <1>7
      <4>2. CASE f # q
        <5>1. SUFFICES ASSUME b.desc[f].prev = NIL PROVE c.heads[b.desc[f].order] = f
          BY Zenon, <4>2, <3>1, <1>4
        <5>2. b.heads[b.desc[f].order] = f
          BY Zenon, <5>1, <3>1, <1>8
        <5>3. b.desc[f].order # o \/ p # NIL
          BY Zenon, <5>2, <3>1, <1>7
        <5>4. QED
          BY <5>2, <5>3, <1>4, <1>5
      <4>3. QED
        BY Zenon, <4>1, <4>2
    <3>3. c.desc[f].prev # NIL =>
                    /\ c.desc[c.desc[f].prev].free
                    /\ c.desc[c.desc[f].prev].order = c.desc[f].order
                    /\ c.desc[c.desc[f].prev].next = f
      <4>0. SUFFICES ASSUME c.desc[f].prev # NIL
                     PROVE  /\ c.desc[c.desc[f].prev].free
                            /\ c.desc[c.desc[f].prev].order = c.desc[f].order
                            /\ c.desc[c.desc[f].prev].next = f
        BY Zenon
      <4>1. CASE f = q
        <5>1. c.desc[f].prev = p /\ p # NIL /\ p \in N
          BY SMTT(30), <4>0, <4>1, <1>4, <1>5
        <5>2. p # base
          BY Zenon, <5>1, <4>1, <3>1, <1>7 DEF q
        <5>3. QED
          BY <4>1, <5>1, <5>2, <3>1, <1>4, <1>5, <1>7
      <4>2. CASE f # q
        <5> DEFINE g == b.desc[f].prev
        <5>1. c.desc[f].prev = g /\ g # NIL /\ g \in N
          BY SMTT(30), <4>0, <4>2, <1>4, <1>5
        <5>2. b.desc[g].free /\ b.desc[g].order = b.desc[f].order /\ b.desc[g].next = f
          BY Zenon, <5>1, <3>1, <1>8
        <5>3. g # base /\ g # p
          BY Zenon, <5>1, <5>2, <4>2, <3>1, <1>7 DEF q
        <5> HIDE DEF g
        <5>4. QED
          BY Zenon, <5>1, <5>2, <5>3, <3>1, <1>4
      <4>3. QED
        BY Zenon, <4>1, <4>2
    <3>4. c.desc[f].next # NIL =>
                    /\ c.desc[c.desc[f].next].free
                    /\ c.desc[c.desc[f].next].order = c.desc[f].order
                    /\ c.desc[c.desc[f].next].prev = f
      <4>0. SUFFICES ASSUME c.desc[f].next # NIL
                     PROVE  /\ c.desc[c.desc[f].next].free
                            /\ c.desc[c.desc[f].next].order = c.desc[f].order
                            /\ c.desc[c.desc[f].next].prev = f
        BY Zenon
      <4>1. CASE f = p
        <5>1. c.desc[f].next = q /\ q # NIL /\ q \in N
          BY Zenon, <4>0, <4>1, <1>4, <1>5
        <5>2. q # base
          BY Zenon, <5>1, <4>1, <3>1, <1>7 DEF p
        <5>3. QED
          BY SMTT(30), <4>1, <5>1, <5>2, <3>1, <1>4, <1>5, <1>7
      <4>2. CASE f # p
        <5> DEFINE g == b.desc[f].next
        <5>1. c.desc[f].next = g /\ g # NIL /\ g \in N
          BY <4>0, <4>2, <1>4, <1>5
        <5>2. b.desc[g].free /\ b.desc[g].order = b.desc[f].order /\ b.desc[g].prev = f
          BY Zenon, <5>1, <3>1, <1>8
        <5>3. g # base /\ g # q
          BY Zenon, <5>1, <5>2, <4>2, <3>1, <1>7 DEF p
        <5> HIDE DEF g
        <5>4. QED
          BY Zenon, <5>1, <5>2, <5>3, <3>1, <1>4
      <4>3. QED
        BY Zenon, <4>1, <4>2
    <3>5. QED
      BY Zenon, <3>2, <3>3, <3>4
  <2>3. QED
    BY Zenon, <2>1, <2>2 DEF LinksMatch
<1>11. ASSUME NEW x PROVE /\ x \in FreeFrames(c) <=> x \in FreeFrames(b) /\ x \notin Block(base, o)
                          /\ x \in Block(base, o) => x \in FreeFrames(b)
  <2>1. x \in FreeFrames(c) <=> x \in Int /\ \E f \in N : c.desc[f].free /\ f <= x /\ x < EndOf(c, f)
    BY Zenon, <1>4, FreeFramesAre
  <2>2. x \in FreeFrames(b) <=> x \in Int /\ \E f \in N : b.desc[f].free /\ f <= x /\ x < EndOf(b, f)
    BY Zenon, <1>3, FreeFramesAre
  <2>3. x \in Block(base, o) <=> x \in Int /\ base <= x /\ x < end
    BY <1>1, <1>2
  <2>4. \A f \in N : b.desc[f].free /\ f # base => EndOf(b, f) <= base \/ end <= f
    BY <1>0, <1>1, <1>3, <1>6 DEF BlocksApart
  <2>5. x \in Block(base, o) => x \in FreeFrames(b)
    BY Zenon, <2>2, <2>3, <1>0, <1>1
  <2>6. x \in FreeFrames(c) => x \in FreeFrames(b) /\ x \notin Block(base, o)
    <3>1. SUFFICES ASSUME x \in Int, NEW f \in N, c.desc[f].free, f <= x, x < EndOf(c, f)
                   PROVE  x \in FreeFrames(b) /\ x \notin Block(base, o)
      BY Zenon, <2>1
    <3>2. b.desc[f].free /\ f # base /\ EndOf(c, f) = EndOf(b, f) /\ EndOf(b, f) \in Nat
      BY Zenon, <3>1, <1>4, <1>6
    <3>3. x \in FreeFrames(b)
      BY Zenon, <3>1, <3>2, <2>2
    <3>4. EndOf(b, f) <= base \/ end <= f
      BY Zenon, <3>2, <2>4
    <3>5. QED
      BY <3>1, <3>2, <3>3, <3>4, <2>3, <1>0, <1>1
  <2>7. x \in FreeFrames(b) /\ x \notin Block(base, o) => x \in FreeFrames(c)
    BY Zenon, <2>1, <2>2, <2>3, <1>0, <1>1, <1>4, <1>6
  <2>8. QED
    BY Zenon, <2>5, <2>6, <2>7
<1>12. SameOutside(b, c, n, FreeFrames(b))
  <2>1. SUFFICES ASSUME NEW f \in N, f \notin FreeFrames(b) PROVE c.desc[f] = b.desc[f]
    BY Zenon DEF SameOutside
  <2>2. ~b.desc[f].free
    BY <2>1, <1>3, <1>6, FreeFramesAre
  <2>3. f # p /\ f # q /\ f # base
    BY Zenon, <2>2, <1>0, <1>5, <1>7
  <2>4. QED
    BY Zenon, <2>3, <1>4
<1>13. QED
  BY Zenon, <1>4, <1>9, <1>10, <1>11, <1>12 DEF BuddyOK, c

-----------------------------------------------------------------------------
(* alloc.                                                                  *)

LEMMA MinOf ==
  ASSUME NEW T \in SUBSET Nat, T # {}
  PROVE  Min(T) \in T /\ \A y \in T : Min(T) <= y
<1>1. \E x \in T : \A y \in T : x <= y
  BY Zenon, LeastNat
<1>2. QED
  BY Zenon, <1>1 DEF Min

LEMMA MaxOf ==
  ASSUME NEW n \in Nat, NEW T \in SUBSET (0 .. n), T # {}
  PROVE  Max(T) \in T /\ \A y \in T : Max(T) >= y
<1>1. \E x \in T : \A y \in T : x >= y
  BY Zenon, GreatestNat
<1>2. QED
  BY Zenon, <1>1 DEF Max

DownFun(b, base, o, order, f) ==
  f = [k \in order .. o |-> IF k = o THEN b ELSE Insert(f[k + 1], base + Pow2[k], k)]

LEMMA DownExists ==
  ASSUME NEW b, NEW base, NEW o \in Nat
  PROVE  \A m \in Nat : \E f : DownFun(b, base, o, o - m, f)
<1> DEFINE P == {m \in Nat : \E f : DownFun(b, base, o, o - m, f)}
<1>1. 0 \in P
  <2> DEFINE f == [k \in o .. o |-> b]
  <2>1. o - 0 = o /\ \A k \in o .. o : k = o
    OBVIOUS
  <2>2. f = [k \in o .. o |-> IF k = o THEN b ELSE Insert(f[k + 1], base + Pow2[k], k)]
    BY Zenon, <2>1
  <2> HIDE DEF f
  <2>3. DownFun(b, base, o, o - 0, f)
    BY Zenon, <2>1, <2>2 DEF DownFun
  <2>4. QED
    BY Zenon, <2>3
<1>2. ASSUME NEW m \in P PROVE m + 1 \in P
  <2>1. PICK f : DownFun(b, base, o, o - m, f)
    BY Zenon
  <2> DEFINE j == o - (m + 1)
             new == Insert(f[j + 1], base + Pow2[j], j)
             g == [k \in j .. o |-> IF k = j THEN new ELSE f[k]]
  <2>2. j \in Int /\ j + 1 = o - m /\ j < o /\ \A k \in j .. o : k # j => k \in (j + 1) .. o
    OBVIOUS
  <2>3. \A k \in (j + 1) .. o : f[k] = IF k = o THEN b ELSE Insert(f[k + 1], base + Pow2[k], k)
    BY Zenon, <2>1, <2>2 DEF DownFun
  <2> HIDE DEF j
  <2>4. ASSUME NEW k \in j .. o
        PROVE  g[k] = IF k = o THEN b ELSE Insert(g[k + 1], base + Pow2[k], k)
    <3>1. CASE k = j
      <4>1. k # o /\ k + 1 \in j .. o /\ k + 1 # j
        BY <3>1, <2>2
      <4>2. g[k] = new /\ g[k + 1] = f[j + 1]
        BY Zenon, <4>1, <3>1
      <4>3. QED
        BY Zenon, <4>1, <4>2, <3>1
    <3>2. CASE k # j
      <4>1. k \in (j + 1) .. o /\ g[k] = f[k]
        BY Zenon, <3>2, <2>2
      <4>2. k # o => k + 1 \in j .. o /\ k + 1 # j /\ g[k + 1] = f[k + 1]
        BY <4>1, <2>2
      <4>3. QED
        BY Zenon, <4>1, <4>2, <2>3
    <3>3. QED
      BY Zenon, <3>1, <3>2
  <2>5. g = [k \in j .. o |-> IF k = o THEN b ELSE Insert(g[k + 1], base + Pow2[k], k)]
    BY Zenon, <2>4
  <2> HIDE DEF g
  <2>6. DownFun(b, base, o, j, g)
    BY Zenon, <2>5 DEF DownFun
  <2>7. QED
    BY <2>6 DEF j
<1>3. P \in SUBSET Nat
  BY Zenon
<1> HIDE DEF P
<1>4. P = Nat
  BY Zenon, <1>1, <1>2, <1>3, NatSetInduction
<1>5. QED
  BY Zenon, <1>4 DEF P

(* Cutting a block down leaves its front; the rest of it becomes free.      *)
LEMMA SplitDownOK ==
  ASSUME NEW n \in Nat, NEW b, BuddyOK(b, n), NEW base \in Nat, NEW o \in Orders,
         NEW order \in 0 .. o, base + Pow2[o] <= n, Block(base, o) \cap FreeFrames(b) = {}
  PROVE  LET c == SplitDown(b, base, o, order)
             rest == Block(base, o) \ Block(base, order)
         IN  /\ BuddyOK(c, n)
             /\ FreeFrames(c) = FreeFrames(b) \cup rest
             /\ c.count = b.count
             /\ SameOutside(b, c, n, FreeFrames(b) \cup rest)
             /\ Pow2[order] <= Pow2[o]
<1> DEFINE end == base + Pow2[o]
           rest(k) == (base + Pow2[k]) .. (end - 1)
           down == CHOOSE f : DownFun(b, base, o, order, f)
           Good(k) == /\ Pow2[k] <= Pow2[o]
                      /\ BuddyOK(down[k], n)
                      /\ FreeFrames(down[k]) = FreeFrames(b) \cup rest(k)
                      /\ down[k].count = b.count
                      /\ SameOutside(b, down[k], n, FreeFrames(b) \cup rest(k))
           P == {m \in Nat : o - m >= order => Good(o - m)}
<1>1. o \in Nat /\ order \in Nat /\ \A k \in order .. o : k \in Orders
  BY OrderAssumption DEF Orders
<1>2. DownFun(b, base, o, order, down)
  <2> DEFINE m == o - order
  <2>1. m \in Nat /\ o - m = order
    BY <1>1
  <2> HIDE DEF m
  <2>2. \E f : DownFun(b, base, o, o - m, f)
    BY Zenon, <2>1, <1>1, DownExists
  <2>3. QED
    BY Zenon, <2>1, <2>2
<1>3. SplitDown(b, base, o, order) = down[order]
  BY Zenon DEF SplitDown, DownFun
<1> HIDE DEF down
<1>4. \A k \in order .. o : down[k] = IF k = o THEN b ELSE Insert(down[k + 1], base + Pow2[k], k)
  BY Zenon, <1>2 DEF DownFun
<1>5. end \in Nat /\ end <= n /\ Block(base, o) = base .. end - 1
  BY Pow2Type DEF Block
<1> HIDE DEF end
<1>6. 0 \in P
  <2>1. o - 0 = o /\ o \in order .. o
    BY <1>1
  <2>2. down[o] = b
    BY Zenon, <2>1, <1>4
  <2>3. rest(o) = {}
    BY <1>5, Pow2Type DEF end
  <2>4. SameOutside(b, b, n, FreeFrames(b) \cup rest(o))
    BY Zenon DEF SameOutside
  <2>5. Good(o)
    <3> HIDE DEF rest
    <3> QED
      BY <2>2, <2>3, <2>4, Pow2Type
  <2>6. QED
    BY Zenon, <2>1, <2>5
<1>7. ASSUME NEW m \in P PROVE m + 1 \in P
  <2> DEFINE k == o - (m + 1)
  <2>1. SUFFICES ASSUME k >= order PROVE Good(k)
    OBVIOUS
  <2>2. k \in order .. o /\ k + 1 \in order .. o /\ k # o /\ k + 1 = o - m /\ m \in Nat
    BY <2>1, <1>1
  <2>3. Good(k + 1)
    BY <2>2, <1>1
  <2> HIDE DEF k
  <2>4. k \in Orders /\ k + 1 \in Orders /\ k \in Nat
    BY <2>2, <1>1
  <2> DEFINE s == Pow2[k]
  <2>5. s \in Nat /\ s >= 1 /\ Pow2[k + 1] = 2 * s /\ Pow2[o] \in Nat
    BY <2>4, Pow2Step, Pow2Type
  <2> DEFINE u == base + s
             v == base + 2 * s
             e == down[k + 1]
  <2>6. Block(u, k) = u .. v - 1 /\ u \in Nat /\ v \in Nat /\ u < v /\ base <= u /\ u + Pow2[k] = v
    <3>1. u + Pow2[k] - 1 = v - 1
      BY <2>5
    <3>2. Block(u, k) = u .. v - 1
      BY Zenon, <3>1 DEF Block
    <3>3. u \in Nat /\ v \in Nat /\ u < v /\ base <= u /\ u + Pow2[k] = v
      BY <2>5
    <3> HIDE DEF u, v
    <3>4. QED
      BY Zenon, <3>2, <3>3
  <2>7. 2 * s <= Pow2[o] /\ v <= end
    BY <2>3, <2>5 DEF end
  <2>8. rest(k + 1) = v .. end - 1 /\ rest(k) = u .. end - 1
    BY Zenon, <2>5
  <2>9. down[k] = Insert(e, u, k)
    BY Zenon, <2>2, <1>4
  <2>10. BuddyOK(e, n) /\ FreeFrames(e) = FreeFrames(b) \cup rest(k + 1) /\ e.count = b.count
    BY Zenon, <2>3
  <2> HIDE DEF s, rest, u, v, e
  <2>11. Block(u, k) \cap FreeFrames(e) = {}
    <3>1. Block(u, k) \subseteq Block(base, o) /\ Block(u, k) \cap rest(k + 1) = {}
      BY <2>6, <2>7, <2>8, <1>5
    <3>2. QED
      BY Zenon, <3>1, <2>10
  <2>12. rest(k) = rest(k + 1) \cup Block(u, k)
    BY <2>6, <2>7, <2>8, <1>5
  <2>13. /\ BuddyOK(down[k], n)
         /\ FreeFrames(down[k]) = FreeFrames(e) \cup Block(u, k)
         /\ down[k].count = e.count
         /\ SameOutside(e, down[k], n, FreeFrames(e) \cup Block(u, k))
    <3>1. u + Pow2[k] <= n
      BY <2>6, <2>7, <1>5
    <3> DEFINE w == Insert(e, u, k)
    <3>2. /\ BuddyOK(w, n)
          /\ FreeFrames(w) = FreeFrames(e) \cup Block(u, k)
          /\ w.count = e.count
          /\ SameOutside(e, w, n, FreeFrames(e) \cup Block(u, k))
      BY Zenon, <3>1, <2>4, <2>6, <2>10, <2>11, InsertOK
    <3> HIDE DEF w
    <3>3. w = down[k]
      BY Zenon, <2>9 DEF w
    <3>4. QED
      BY Zenon, <3>2, <3>3
  <2>14. FreeFrames(down[k]) = FreeFrames(b) \cup rest(k)
    BY Zenon, <2>10, <2>12, <2>13
  <2>15. SameOutside(b, down[k], n, FreeFrames(b) \cup rest(k))
    BY Zenon, <2>3, <2>10, <2>12, <2>13 DEF SameOutside, e
  <2>16. Pow2[k] <= Pow2[o]
    BY <2>5, <2>7 DEF s
  <2>17. QED
    BY Zenon, <2>10, <2>13, <2>14, <2>15, <2>16
<1>8. P \in SUBSET Nat
  BY Zenon
<1>9. Good(order)
  <2> HIDE DEF P
  <2>1. P = Nat
    BY Zenon, <1>6, <1>7, <1>8, NatSetInduction
  <2>2. o - order \in P /\ o - (o - order) = order
    BY <2>1, <1>1
  <2>3. QED
    BY <2>2, <1>1 DEF P
<1>10. rest(order) = Block(base, o) \ Block(base, order)
  <2>1. Pow2[order] \in Nat /\ Pow2[order] <= Pow2[o] /\ Pow2[o] \in Nat
    BY <1>1, <1>9, Pow2Type
  <2>2. Block(base, order) = base .. base + Pow2[order] - 1
    BY Zenon DEF Block
  <2>3. QED
    BY <2>1, <2>2, <1>5
<1>11. QED
  BY Zenon, <1>3, <1>9, <1>10

(* Recording the order in the descriptor of a block that is not free.       *)
LEMMA MarkOK ==
  ASSUME NEW n \in Nat, NEW b, BuddyOK(b, n), NEW base \in 0 .. n - 1, ~b.desc[base].free,
         NEW order \in Orders, NEW s \in Int
  PROVE  LET c == [b EXCEPT !.desc = [@ EXCEPT ![base].order = order, ![base].free = FALSE],
                           !.count = @ - s]
         IN  /\ BuddyOK(c, n)
             /\ FreeFrames(c) = FreeFrames(b)
             /\ c.count = b.count - s
             /\ c.desc[base].order = order /\ ~c.desc[base].free
             /\ SameOutside(b, c, n, {base})
<1> DEFINE N == 0 .. n - 1
           c == [b EXCEPT !.desc = [@ EXCEPT ![base].order = order, ![base].free = FALSE],
                           !.count = @ - s]
           d == [b.desc EXCEPT ![base].order = order, ![base].free = FALSE]
<1>1. /\ b.desc \in [N -> Descs(n)] /\ b.count \in Int
      /\ b.heads \in [Orders -> N \cup {NIL}]
      /\ b = [desc |-> b.desc, heads |-> b.heads, count |-> b.count]
  BY Zenon DEF BuddyOK, Buddies
<1>2. c = [desc |-> d, heads |-> b.heads, count |-> b.count - s]
  <2>1. c = [b EXCEPT !.desc = d, !.count = @ - s]
    BY Zenon
  <2> HIDE DEF d, c
  <2>2. QED
    BY Zenon, <2>1, <1>1
<1>3. \A f \in N : b.desc[f] \in Descs(n)
  BY Zenon, <1>1
<1>4. /\ \A f \in N : f # base => d[f] = b.desc[f]
      /\ d[base] = [b.desc[base] EXCEPT !.order = order, !.free = FALSE]
      /\ d = [f \in N |-> d[f]]
  BY Zenon, <1>1
<1>5. d[base] \in Descs(n) /\ d[base].order = order /\ ~d[base].free
  BY ZenonT(30), <1>3, <1>4 DEF Descs
<1> HIDE DEF d, c
<1>6. d \in [N -> Descs(n)]
  BY Zenon, <1>3, <1>4, <1>5
<1>7. c.desc = d /\ c.heads = b.heads /\ c.count = b.count - s /\ c \in Buddies(n)
  BY <1>1, <1>2, <1>6 DEF Buddies
<1>8. \A f \in N : c.desc[f].free <=> b.desc[f].free
  BY Zenon, <1>4, <1>5, <1>7
<1>9. \A f \in N : b.desc[f].free => c.desc[f] = b.desc[f] /\ EndOf(c, f) = EndOf(b, f)
  BY Zenon, <1>4, <1>7 DEF EndOf
<1>10. BlocksApart(c, n)
  BY Zenon, <1>8, <1>9 DEF BlocksApart, BuddyOK
<1>11. LinksMatch(c, n)
  <2>1. LinksMatch(b, n) /\ NIL \notin N
    BY DEF BuddyOK, NIL
  <2>2. \A f \in N : b.desc[f].prev \in N \cup {NIL} /\ b.desc[f].next \in N \cup {NIL}
    BY Zenon, <1>3 DEF Descs
  <2>3. \A o \in Orders : b.heads[o] \in N \cup {NIL}
    BY Zenon, <1>1
  <2>4. \A o \in Orders : c.heads[o] # NIL =>
          /\ c.desc[c.heads[o]].free
          /\ c.desc[c.heads[o]].order = o
          /\ c.desc[c.heads[o]].prev = NIL
    BY SMTT(30), <2>1, <2>3, <1>7, <1>9 DEF LinksMatch
  <2>5. ASSUME NEW f \in N, c.desc[f].free
        PROVE  /\ c.desc[f].prev = NIL => c.heads[c.desc[f].order] = f
               /\ c.desc[f].prev # NIL =>
                    /\ c.desc[c.desc[f].prev].free
                    /\ c.desc[c.desc[f].prev].order = c.desc[f].order
                    /\ c.desc[c.desc[f].prev].next = f
               /\ c.desc[f].next # NIL =>
                    /\ c.desc[c.desc[f].next].free
                    /\ c.desc[c.desc[f].next].order = c.desc[f].order
                    /\ c.desc[c.desc[f].next].prev = f
    <3>1. b.desc[f].free /\ c.desc[f] = b.desc[f]
      BY Zenon, <2>5, <1>8, <1>9
    <3>2. b.desc[f].prev # NIL => c.desc[b.desc[f].prev] = b.desc[b.desc[f].prev]
      BY Zenon, <3>1, <2>1, <2>2, <1>9 DEF LinksMatch
    <3>3. b.desc[f].next # NIL => c.desc[b.desc[f].next] = b.desc[b.desc[f].next]
      BY Zenon, <3>1, <2>1, <2>2, <1>9 DEF LinksMatch
    <3>4. QED
      BY SMTT(30), <3>1, <3>2, <3>3, <2>1, <1>7 DEF LinksMatch
  <2>6. QED
    BY Zenon, <2>4, <2>5 DEF LinksMatch
<1>12. ASSUME NEW x PROVE x \in FreeFrames(c) <=> x \in FreeFrames(b)
  <2>1. x \in FreeFrames(c) <=> x \in Int /\ \E f \in N : c.desc[f].free /\ f <= x /\ x < EndOf(c, f)
    BY Zenon, <1>7, FreeFramesAre
  <2>2. x \in FreeFrames(b) <=> x \in Int /\ \E f \in N : b.desc[f].free /\ f <= x /\ x < EndOf(b, f)
    BY Zenon, FreeFramesAre DEF BuddyOK
  <2>3. QED
    BY Zenon, <2>1, <2>2, <1>8, <1>9
<1>13. SameOutside(b, c, n, {base})
  BY Zenon, <1>4, <1>7 DEF SameOutside
<1>14. QED
  BY Zenon, <1>5, <1>7, <1>10, <1>11, <1>12, <1>13 DEF c, BuddyOK

(* From b to c a block is allocated.                                        *)
Allocated(b, c, n, base, order) ==
  /\ BuddyOK(c, n)
  /\ base \in 0 .. n - 1 /\ base + Pow2[order] <= n
  /\ Block(base, order) \subseteq FreeFrames(b)
  /\ FreeFrames(c) = FreeFrames(b) \ Block(base, order)
  /\ c.count = b.count - Pow2[order]
  /\ c.desc[base].order = order
  /\ SameOutside(b, c, n, FreeFrames(b))

(* alloc takes a block of the requested order out of the free frames.       *)
LEMMA AllocOK ==
  ASSUME NEW n \in Nat, NEW b, BuddyOK(b, n), NEW order \in Orders, CanAlloc(b, order)
  PROVE  Allocated(b, Alloc(b, order), n, AllocBase(b, order), order)
<1> DEFINE o == Min(Sources(b, order))
           base == b.heads[o]
           u == Unlink(b, base, o)
           s == SplitDown(u, base, o, order)
           c == Alloc(b, order)
<1>1. o \in order .. MaxOrder /\ b.heads[o] # NIL
  <2>1. Sources(b, order) \in SUBSET Nat /\ Sources(b, order) # {}
    BY DEF Sources, CanAlloc, Orders
  <2>2. o \in Sources(b, order)
    BY Zenon, <2>1, MinOf
  <2> HIDE DEF o
  <2>3. QED
    BY Zenon, <2>2 DEF Sources
<1>2. o \in Orders /\ order \in 0 .. o
  BY <1>1, OrderAssumption DEF Orders
<1>3. AllocBase(b, order) = base
  BY Zenon DEF AllocBase
<1>4. c = [s EXCEPT !.desc = [@ EXCEPT ![base].order = order, ![base].free = FALSE],
                    !.count = @ - Pow2[order]]
  BY Zenon DEF Alloc
<1> HIDE DEF o, c
<1>5. base \in 0 .. n - 1 /\ b.desc[base].free /\ b.desc[base].order = o
  BY <1>1, <1>2 DEF BuddyOK, Buddies, LinksMatch
<1>6. base + Pow2[o] <= n
  BY Zenon, <1>5 DEF BuddyOK, BlocksApart, EndOf
<1> HIDE DEF base
<1>7. /\ BuddyOK(u, n)
      /\ FreeFrames(u) = FreeFrames(b) \ Block(base, o)
      /\ Block(base, o) \subseteq FreeFrames(b)
      /\ u.count = b.count
      /\ SameOutside(b, u, n, FreeFrames(b))
  <2>1. base \in FreeHeads(b)
    BY Zenon, <1>5 DEF FreeHeads, Frames, BuddyOK, Buddies
  <2>2. QED
    BY <2>1, <1>5, UnlinkOK
<1> HIDE DEF u
<1> DEFINE rest == Block(base, o) \ Block(base, order)
<1>8. /\ BuddyOK(s, n)
      /\ FreeFrames(s) = FreeFrames(u) \cup rest
      /\ s.count = u.count
      /\ SameOutside(u, s, n, FreeFrames(u) \cup rest)
      /\ Pow2[order] <= Pow2[o]
  <2>1. base \in Nat /\ Block(base, o) \cap FreeFrames(u) = {}
    BY <1>5, <1>7
  <2>2. QED
    BY Zenon, <2>1, <1>2, <1>6, <1>7, SplitDownOK
<1> HIDE DEF s
<1>9. Pow2[order] \in Nat /\ Pow2[order] >= 1 /\ Pow2[o] \in Nat /\ base \in Nat
  BY <1>2, <1>5, Pow2Type
<1>10. base \in Block(base, order) /\ Block(base, order) \subseteq Block(base, o)
  BY <1>8, <1>9 DEF Block
<1>11. FreeFrames(s) = FreeFrames(b) \ Block(base, order)
  <2> HIDE DEF rest
  <2>1. rest \subseteq FreeFrames(b)
    BY Zenon, <1>7 DEF rest
  <2>2. QED
    BY Zenon, <2>1, <1>7, <1>8, <1>10 DEF rest
<1>12. ~s.desc[base].free
  <2>1. base \notin FreeFrames(s)
    BY Zenon, <1>10, <1>11
  <2>2. s \in Buddies(n)
    BY Zenon, <1>8 DEF BuddyOK
  <2>3. s.desc[base].order \in Orders
    BY Zenon, <2>2, <1>5 DEF Buddies, Descs
  <2>4. base < EndOf(s, base)
    BY <2>3, <1>9, Pow2Type DEF EndOf
  <2>5. QED
    BY <2>1, <2>2, <2>4, <1>5, <1>9, FreeFramesAre
<1>13. /\ BuddyOK(c, n)
       /\ FreeFrames(c) = FreeFrames(s)
       /\ c.count = s.count - Pow2[order]
       /\ c.desc[base].order = order /\ ~c.desc[base].free
       /\ SameOutside(s, c, n, {base})
  <2>1. Pow2[order] \in Int
    BY <1>9
  <2> DEFINE t == Pow2[order]
             m == [s EXCEPT !.desc = [@ EXCEPT ![base].order = order, ![base].free = FALSE],
                            !.count = @ - t]
  <2>2. c = m
    BY Zenon, <1>4
  <2> HIDE DEF t
  <2>3. /\ BuddyOK(m, n)
        /\ FreeFrames(m) = FreeFrames(s)
        /\ m.count = s.count - t
        /\ m.desc[base].order = order /\ ~m.desc[base].free
        /\ SameOutside(s, m, n, {base})
    BY Zenon, <2>1, <1>5, <1>8, <1>12, MarkOK DEF t
  <2> HIDE DEF m
  <2>4. QED
    BY Zenon, <2>2, <2>3 DEF t
<1>14. SameOutside(b, c, n, FreeFrames(b))
  <2>1. base \in FreeFrames(b) /\ FreeFrames(u) \cup rest \subseteq FreeFrames(b)
    BY Zenon, <1>7, <1>10
  <2>2. QED
    BY Zenon, <2>1, <1>7, <1>8, <1>13 DEF SameOutside
<1>15. base + Pow2[order] <= n
  BY <1>6, <1>8, <1>9
<1>16. QED
  <2>1. Block(base, order) \subseteq FreeFrames(b) /\ c.count = b.count - Pow2[order]
    BY Zenon, <1>7, <1>8, <1>10, <1>13
  <2>2. Allocated(b, c, n, base, order)
    BY Zenon, <2>1, <1>5, <1>11, <1>13, <1>14, <1>15 DEF Allocated
  <2>3. QED
    BY Zenon, <2>2, <1>3 DEF c

-----------------------------------------------------------------------------
(* add_frames.                                                             *)

LEMMA NewBuddyOK ==
  ASSUME NEW n \in Nat
  PROVE  BuddyOK(NewBuddy(n), n) /\ FreeFrames(NewBuddy(n)) = {} /\ NewBuddy(n).count = 0
<1> DEFINE b == NewBuddy(n)
<1>1. /\ b = [desc |-> b.desc, heads |-> b.heads, count |-> b.count]
      /\ b.desc = [f \in 0 .. n - 1 |-> RESERVED] /\ b.heads = [o \in Orders |-> NIL] /\ b.count = 0
  BY Zenon DEF NewBuddy
<1> HIDE DEF b
<1>2. RESERVED \in Descs(n) /\ ~RESERVED.free
  BY OrderAssumption DEF RESERVED, Descs, Orders
<1>3. b \in Buddies(n)
  BY <1>1, <1>2 DEF Buddies
<1>4. BlocksApart(b, n) /\ LinksMatch(b, n)
  BY Zenon, <1>1, <1>2 DEF BlocksApart, LinksMatch
<1>5. FreeFrames(b) = {}
  BY <1>1, <1>2, <1>3, FreeFramesAre
<1>6. QED
  BY Zenon, <1>1, <1>3, <1>4, <1>5 DEF BuddyOK, b

(* The counter is not part of the lists.                                    *)
LEMMA CountOK ==
  ASSUME NEW n \in Nat, NEW b, BuddyOK(b, n), NEW k \in Int
  PROVE  LET c == [b EXCEPT !.count = @ + k]
         IN  BuddyOK(c, n) /\ FreeFrames(c) = FreeFrames(b) /\ c.count = b.count + k /\ c.desc = b.desc
<1> DEFINE c == [b EXCEPT !.count = @ + k]
<1>1. /\ b.desc \in [0 .. n - 1 -> Descs(n)] /\ b.count \in Int
      /\ b.heads \in [Orders -> (0 .. n - 1) \cup {NIL}]
      /\ b = [desc |-> b.desc, heads |-> b.heads, count |-> b.count]
  BY Zenon DEF BuddyOK, Buddies
<1>2. c = [desc |-> b.desc, heads |-> b.heads, count |-> b.count + k]
  BY <1>1
<1>3. c.desc = b.desc /\ c.heads = b.heads /\ c.count = b.count + k
  BY Zenon, <1>2
<1> HIDE DEF c
<1>4. c \in Buddies(n)
  BY <1>1, <1>2 DEF Buddies
<1>5. BlocksApart(c, n) /\ LinksMatch(c, n)
  <2>1. \A f : EndOf(c, f) = EndOf(b, f)
    BY Zenon, <1>3 DEF EndOf
  <2>2. BlocksApart(c, n)
    BY Zenon, <1>3, <2>1 DEF BuddyOK, BlocksApart
  <2>3. LinksMatch(c, n)
    <3>1. LinksMatch(b, n)
      BY Zenon DEF BuddyOK
    <3>2. QED
      BY SMTT(30), <1>3, <3>1 DEF LinksMatch
  <2>4. QED
    BY Zenon, <2>2, <2>3
<1>6. FreeFrames(c) = FreeFrames(b)
  BY Zenon, <1>3 DEF FreeFrames, FreeHeads, Frames
<1>7. QED
  BY Zenon, <1>3, <1>4, <1>5, <1>6 DEF BuddyOK, c

(* The block add_frames takes next fits.                                    *)
LEMMA RunOrderFits ==
  ASSUME NEW base \in Nat, NEW end \in Nat, base < end
  PROVE  RunOrder(base, end) \in Orders /\ base + Pow2[RunOrder(base, end)] <= end
<1> DEFINE T == {o \in Orders : base % Pow2[o] = 0 /\ base + Pow2[o] <= end}
<1>1. 0 \in T
  <2>1. base % 1 = 0
    OBVIOUS
  <2>2. QED
    BY <2>1, Pow2Step, OrderAssumption DEF Orders
<1>2. T \in SUBSET (0 .. MaxOrder)
  BY Zenon DEF Orders
<1>3. Max(T) \in T
  <2> HIDE DEF T
  <2> QED
    BY Zenon, <1>1, <1>2, MaxOf, OrderAssumption
<1>4. QED
  BY Zenon, <1>3 DEF RunOrder

RunStep(p, i, end) ==
  LET o == RunOrder(p.base, end)
  IN  IF p.base # i - 1 THEN p
      ELSE [b |-> [Insert(p.b, p.base, o) EXCEPT !.count = @ + Pow2[o]],
            base |-> p.base + Pow2[o]]

RunFun(b, start, end, m, f) ==
  f = [i \in start .. m |-> IF i = start THEN [b |-> b, base |-> start] ELSE RunStep(f[i - 1], i, end)]

LEMMA RunExists ==
  ASSUME NEW b, NEW start \in Nat, NEW end
  PROVE  \A m \in Nat : \E f : RunFun(b, start, end, start + m, f)
<1> DEFINE P == {m \in Nat : \E f : RunFun(b, start, end, start + m, f)}
           first == [b |-> b, base |-> start]
<1>1. 0 \in P
  <2> DEFINE f == [i \in start .. start |-> first]
  <2>1. start + 0 = start /\ \A i \in start .. start : i = start
    OBVIOUS
  <2>2. f = [i \in start .. start |-> IF i = start THEN first ELSE RunStep(f[i - 1], i, end)]
    BY Zenon, <2>1
  <2> HIDE DEF f
  <2>3. RunFun(b, start, end, start + 0, f)
    BY Zenon, <2>1, <2>2 DEF RunFun
  <2>4. QED
    BY Zenon, <2>3
<1>2. ASSUME NEW m \in P PROVE m + 1 \in P
  <2>1. PICK f : RunFun(b, start, end, start + m, f)
    BY Zenon
  <2> DEFINE j == start + (m + 1)
             new == RunStep(f[j - 1], j, end)
             g == [i \in start .. j |-> IF i = j THEN new ELSE f[i]]
  <2>2. j \in Nat /\ j - 1 = start + m /\ start < j /\ \A i \in start .. j : i # j => i \in start .. (j - 1)
    OBVIOUS
  <2>3. \A i \in start .. (j - 1) : f[i] = IF i = start THEN first ELSE RunStep(f[i - 1], i, end)
    BY Zenon, <2>1, <2>2 DEF RunFun
  <2> HIDE DEF j, first
  <2>4. ASSUME NEW i \in start .. j
        PROVE  g[i] = IF i = start THEN first ELSE RunStep(g[i - 1], i, end)
    <3>1. CASE i = j
      <4>1. i # start /\ i - 1 \in start .. j /\ i - 1 # j
        BY <3>1, <2>2
      <4>2. g[i] = new /\ g[i - 1] = f[j - 1]
        BY Zenon, <4>1, <3>1
      <4>3. QED
        BY Zenon, <4>1, <4>2, <3>1
    <3>2. CASE i # j
      <4>1. i \in start .. (j - 1) /\ g[i] = f[i]
        BY Zenon, <3>2, <2>2
      <4>2. i # start => i - 1 \in start .. j /\ i - 1 # j /\ g[i - 1] = f[i - 1]
        BY <4>1, <2>2
      <4>3. QED
        BY Zenon, <4>1, <4>2, <2>3
    <3>3. QED
      BY Zenon, <3>1, <3>2
  <2>5. g = [i \in start .. j |-> IF i = start THEN first ELSE RunStep(g[i - 1], i, end)]
    BY Zenon, <2>4
  <2> HIDE DEF g
  <2>6. RunFun(b, start, end, j, g)
    BY Zenon, <2>5 DEF RunFun, first
  <2>7. QED
    BY <2>6 DEF j
<1>3. P \in SUBSET Nat
  BY Zenon
<1> HIDE DEF P
<1>4. P = Nat
  BY Zenon, <1>1, <1>2, <1>3, NatSetInduction
<1>5. QED
  BY Zenon, <1>4 DEF P

(* One block of the run.                                                    *)
LEMMA RunStepOK ==
  ASSUME NEW n \in Nat, NEW p, BuddyOK(p.b, n), NEW end \in Nat, end <= n,
         NEW i, p.base = i - 1, p.base \in Nat, p.base < end,
         (p.base .. end - 1) \cap FreeFrames(p.b) = {}
  PROVE  LET q == RunStep(p, i, end)
         IN  /\ q.base \in Nat /\ p.base < q.base /\ q.base <= end
             /\ BuddyOK(q.b, n)
             /\ FreeFrames(q.b) = FreeFrames(p.b) \cup (p.base .. q.base - 1)
             /\ q.b.count = p.b.count + (q.base - p.base)
<1> DEFINE base == p.base
           b == p.b
           o == RunOrder(base, end)
           k == Pow2[o]
           w == Insert(b, base, o)
           c == [w EXCEPT !.count = @ + k]
           next == base + k
<1>0. RunStep(p, i, end) = [b |-> c, base |-> next]
  BY Zenon DEF RunStep
<1>1. o \in Orders /\ base + k <= end
  BY Zenon, RunOrderFits
<1> HIDE DEF o
<1>2. k \in Nat /\ k >= 1
  BY Zenon, <1>1, Pow2Type
<1>3. Block(base, o) = base .. next - 1
  BY <1>2 DEF Block
<1>4. next \in Nat /\ base < next /\ next <= end
  BY <1>1, <1>2
<1>5. Block(base, o) \cap FreeFrames(b) = {}
  <2> HIDE DEF next
  <2>1. base .. next - 1 \subseteq base .. end - 1
    BY <1>4
  <2>2. QED
    BY Zenon, <2>1, <1>3
<1>6. /\ BuddyOK(w, n)
      /\ FreeFrames(w) = FreeFrames(b) \cup Block(base, o)
      /\ w.count = b.count
      /\ SameOutside(b, w, n, FreeFrames(b) \cup Block(base, o))
  <2>1. base + Pow2[o] <= n
    BY <1>1, <1>2
  <2>2. QED
    BY Zenon, <2>1, <1>1, <1>5, InsertOK
<1> HIDE DEF w
<1>7. BuddyOK(c, n) /\ FreeFrames(c) = FreeFrames(w) /\ c.count = w.count + k /\ c.desc = w.desc
  <2> HIDE DEF k
  <2> QED
    BY <1>2, <1>6, CountOK
<1> HIDE DEF c
<1>8. c.count = b.count + (next - base)
  <2>1. b.count \in Int
    BY Zenon DEF BuddyOK, Buddies
  <2>2. QED
    BY <2>1, <1>2, <1>6, <1>7
<1> HIDE DEF next
<1>9. QED
  BY <1>0, <1>3, <1>4, <1>6, <1>7, <1>8

(* From b to c a run of frames is released.                                 *)
Added(b, c, n, start, count) ==
  /\ BuddyOK(c, n)
  /\ FreeFrames(c) = FreeFrames(b) \cup (start .. start + count - 1)
  /\ c.count = b.count + count

(* add_frames releases the run and nothing else, and counts it.             *)
LEMMA AddFramesOK ==
  ASSUME NEW n \in Nat, NEW b, BuddyOK(b, n), NEW start \in Nat, NEW count \in Nat,
         start + count <= n, (start .. start + count - 1) \cap FreeFrames(b) = {}
  PROVE  Added(b, AddFrames(b, start, count), n, start, count)
<1> DEFINE end == start + count
           at == CHOOSE f : RunFun(b, start, end, end, f)
           Good(i) == /\ at[i].base \in i .. end
                      /\ BuddyOK(at[i].b, n)
                      /\ FreeFrames(at[i].b) = FreeFrames(b) \cup (start .. at[i].base - 1)
                      /\ at[i].b.count = b.count + (at[i].base - start)
           P == {m \in Nat : m <= count => Good(start + m)}
<1>1. end \in Nat /\ start <= end /\ end <= n /\ b.count \in Int
  BY DEF BuddyOK, Buddies
<1>2. RunFun(b, start, end, end, at)
  <2>1. \E f : RunFun(b, start, end, end, f)
    BY Zenon, RunExists
  <2>2. QED
    BY Zenon, <2>1
<1>3. AddFrames(b, start, count) = at[end].b
  BY Zenon DEF AddFrames, RunFun, RunStep
<1> HIDE DEF at
<1>4. \A i \in start .. end :
        at[i] = IF i = start THEN [b |-> b, base |-> start] ELSE RunStep(at[i - 1], i, end)
  BY Zenon, <1>2 DEF RunFun
<1>5. 0 \in P
  <2>1. start + 0 = start /\ start \in start .. end /\ start .. start - 1 = {}
    BY <1>1
  <2>2. at[start] = [b |-> b, base |-> start]
    BY Zenon, <2>1, <1>4
  <2>3. at[start].b = b /\ at[start].base = start
    BY <2>2
  <2>4. Good(start)
    BY <2>1, <2>3, <1>1
  <2>5. QED
    BY Zenon, <2>1, <2>4
<1>6. ASSUME NEW m \in P PROVE m + 1 \in P
  <2> DEFINE i == start + (m + 1)
             p == at[i - 1]
  <2>1. SUFFICES ASSUME m + 1 <= count PROVE Good(i)
    OBVIOUS
  <2>2. i \in start .. end /\ i # start /\ i - 1 = start + m /\ m \in Nat /\ m <= count
    BY <2>1
  <2>3. Good(i - 1)
    BY Zenon, <2>2
  <2>4. at[i] = RunStep(p, i, end)
    BY Zenon, <2>2, <1>4
  <2> HIDE DEF i, end
  <2>5. /\ p.base \in (i - 1) .. end /\ BuddyOK(p.b, n)
        /\ FreeFrames(p.b) = FreeFrames(b) \cup (start .. p.base - 1)
        /\ p.b.count = b.count + (p.base - start)
    BY Zenon, <2>3
  <2> HIDE DEF p
  <2>6. CASE p.base # i - 1
    <3>1. at[i] = p
      BY Zenon, <2>4, <2>6 DEF RunStep
    <3>2. p.base \in i .. end
      BY <2>2, <2>5, <2>6, <1>1
    <3>3. QED
      BY Zenon, <3>1, <3>2, <2>5
  <2>7. CASE p.base = i - 1
    <3> DEFINE q == at[i]
               base == p.base
               next == q.base
    <3>1. base \in Nat /\ base < end /\ base >= start
      BY <2>2, <2>7, <1>1
    <3>2. (base .. end - 1) \cap FreeFrames(p.b) = {}
      <4>1. base .. end - 1 \subseteq start .. end - 1 /\ (base .. end - 1) \cap (start .. base - 1) = {}
        BY <3>1, <1>1
      <4>2. (start .. end - 1) \cap FreeFrames(b) = {}
        BY DEF end
      <4>3. QED
        BY Zenon, <4>1, <4>2, <2>5
    <3>3. /\ next \in Nat /\ base < next /\ next <= end
          /\ BuddyOK(q.b, n)
          /\ FreeFrames(q.b) = FreeFrames(p.b) \cup (base .. next - 1)
          /\ q.b.count = p.b.count + (next - base)
      BY <3>1, <3>2, <2>4, <2>5, <2>7, <1>1, RunStepOK
    <3> HIDE DEF base, next, q
    <3>4. next \in i .. end
      BY <3>1, <3>3, <2>2, <2>7, <1>1 DEF base
    <3>5. start .. next - 1 = (start .. base - 1) \cup (base .. next - 1)
      BY <3>1, <3>3
    <3>6. FreeFrames(q.b) = FreeFrames(b) \cup (start .. next - 1)
      BY Zenon, <3>3, <3>5, <2>5 DEF base
    <3>7. q.b.count = b.count + (next - start)
      BY <3>1, <3>3, <2>5, <1>1 DEF base
    <3>8. QED
      BY Zenon, <3>3, <3>4, <3>6, <3>7 DEF q, next
  <2>8. QED
    BY Zenon, <2>6, <2>7
<1>7. P \in SUBSET Nat
  BY Zenon
<1>8. Good(end)
  <2> HIDE DEF P
  <2>1. P = Nat
    BY Zenon, <1>5, <1>6, <1>7, NatSetInduction
  <2>2. count \in P
    BY Zenon, <2>1
  <2>3. QED
    BY <2>2 DEF P
<1>9. at[end].base = end
  BY <1>1, <1>8
<1>10. QED
  BY <1>1, <1>3, <1>8, <1>9 DEF Added

-----------------------------------------------------------------------------
(* free.                                                                   *)

(* A round of coalesce.                                                     *)
UpStep(p, o) ==
  LET d == BuddyOf(p.base, p.order)
  IN  IF p.order = o - 1 /\ Mergeable(p.b, p.base, p.order)
      THEN [b |-> Unlink(p.b, d, p.order), base |-> Min({p.base, d}), order |-> o]
      ELSE p

UpFun(b, base, order, top, f) ==
  f = [o \in order .. top |-> IF o = order THEN [b |-> b, base |-> base, order |-> order]
                              ELSE UpStep(f[o - 1], o)]

LEMMA UpExists ==
  ASSUME NEW b, NEW base, NEW order \in Nat
  PROVE  \A m \in Nat : \E f : UpFun(b, base, order, order + m, f)
<1> DEFINE P == {m \in Nat : \E f : UpFun(b, base, order, order + m, f)}
           first == [b |-> b, base |-> base, order |-> order]
<1>1. 0 \in P
  <2> DEFINE f == [o \in order .. order |-> first]
  <2>1. order + 0 = order /\ \A o \in order .. order : o = order
    OBVIOUS
  <2>2. f = [o \in order .. order |-> IF o = order THEN first ELSE UpStep(f[o - 1], o)]
    BY Zenon, <2>1
  <2> HIDE DEF f
  <2>3. UpFun(b, base, order, order + 0, f)
    BY Zenon, <2>1, <2>2 DEF UpFun
  <2>4. QED
    BY Zenon, <2>3
<1>2. ASSUME NEW m \in P PROVE m + 1 \in P
  <2>1. PICK f : UpFun(b, base, order, order + m, f)
    BY Zenon
  <2> DEFINE j == order + (m + 1)
             new == UpStep(f[j - 1], j)
             g == [o \in order .. j |-> IF o = j THEN new ELSE f[o]]
  <2>2. j \in Nat /\ j - 1 = order + m /\ order < j /\ \A o \in order .. j : o # j => o \in order .. (j - 1)
    OBVIOUS
  <2>3. \A o \in order .. (j - 1) : f[o] = IF o = order THEN first ELSE UpStep(f[o - 1], o)
    BY Zenon, <2>1, <2>2 DEF UpFun
  <2> HIDE DEF j, first
  <2>4. ASSUME NEW o \in order .. j
        PROVE  g[o] = IF o = order THEN first ELSE UpStep(g[o - 1], o)
    <3>1. CASE o = j
      <4>1. o # order /\ o - 1 \in order .. j /\ o - 1 # j
        BY <3>1, <2>2
      <4>2. g[o] = new /\ g[o - 1] = f[j - 1]
        BY Zenon, <4>1, <3>1
      <4>3. QED
        BY Zenon, <4>1, <4>2, <3>1
    <3>2. CASE o # j
      <4>1. o \in order .. (j - 1) /\ g[o] = f[o]
        BY Zenon, <3>2, <2>2
      <4>2. o # order => o - 1 \in order .. j /\ o - 1 # j /\ g[o - 1] = f[o - 1]
        BY <4>1, <2>2
      <4>3. QED
        BY Zenon, <4>1, <4>2, <2>3
    <3>3. QED
      BY Zenon, <3>1, <3>2
  <2>5. g = [o \in order .. j |-> IF o = order THEN first ELSE UpStep(g[o - 1], o)]
    BY Zenon, <2>4
  <2> HIDE DEF g
  <2>6. UpFun(b, base, order, j, g)
    BY Zenon, <2>5 DEF UpFun, first
  <2>7. QED
    BY <2>6 DEF j
<1>3. P \in SUBSET Nat
  BY Zenon
<1> HIDE DEF P
<1>4. P = Nat
  BY Zenon, <1>1, <1>2, <1>3, NatSetInduction
<1>5. QED
  BY Zenon, <1>4 DEF P

(* p holds a block of the array that is in no list.                         *)
Loose(p, n) ==
  /\ BuddyOK(p.b, n)
  /\ p.order \in Orders /\ p.base \in Nat /\ p.base + Pow2[p.order] <= n
  /\ Block(p.base, p.order) \cap FreeFrames(p.b) = {}

LEMMA InBlock ==
  ASSUME NEW b \in Int, NEW k \in Orders
  PROVE  \A x : x \in Block(b, k) <=> x \in Int /\ b <= x /\ x < b + Pow2[k]
BY Pow2Type DEF Block

(* Two buddies of an order are a block of the next one.                     *)
LEMMA BuddiesJoin ==
  ASSUME NEW base \in Nat, NEW o \in Orders, o + 1 \in Orders, NEW d \in Nat, d = BuddyOf(base, o)
  PROVE  /\ Min({base, d}) \in {base, d}
         /\ Block(Min({base, d}), o + 1) = Block(base, o) \cup Block(d, o)
<1> DEFINE s == Pow2[o]
           m == Min({base, d})
<1>1. s \in Nat /\ s >= 1 /\ Pow2[o + 1] = 2 * s
  <2>1. o \in Nat /\ o + 1 # 0 /\ (o + 1) - 1 = o
    BY DEF Orders
  <2>2. QED
    BY Zenon, <2>1, Pow2Step, Pow2Type
<1>2. d = base + s \/ d = base - s
  BY Zenon DEF BuddyOf
<1>3. m \in {base, d} /\ m <= base /\ m <= d
  <2> DEFINE T == {base, d}
  <2>1. T \in SUBSET Nat /\ T # {} /\ base \in T /\ d \in T
    BY Zenon
  <2> HIDE DEF T
  <2>2. Min(T) \in T /\ \A y \in T : Min(T) <= y
    BY Zenon, <2>1, MinOf
  <2>3. QED
    BY Zenon, <2>1, <2>2 DEF T
<1> HIDE DEF m
<1>4. m \in Nat
  BY Zenon, <1>3
<1>5. ASSUME NEW x PROVE x \in Block(m, o + 1) <=> x \in Block(base, o) \/ x \in Block(d, o)
  <2>1. /\ x \in Block(m, o + 1) <=> x \in Int /\ m <= x /\ x < m + Pow2[o + 1]
        /\ x \in Block(base, o) <=> x \in Int /\ base <= x /\ x < base + s
        /\ x \in Block(d, o) <=> x \in Int /\ d <= x /\ x < d + s
    BY <1>4, InBlock
  <2> HIDE DEF s
  <2>2. CASE m = base /\ d = base + s
    BY <2>1, <2>2, <1>1
  <2>3. CASE m = d /\ base = d + s
    BY <2>1, <2>3, <1>1
  <2>4. QED
    BY <2>2, <2>3, <1>1, <1>2, <1>3
<1>6. Block(m, o + 1) = Block(base, o) \cup Block(d, o)
  BY Zenon, <1>5
<1>7. QED
  BY Zenon, <1>3, <1>6 DEF m

LEMMA UpStepOK ==
  ASSUME NEW n \in Nat, NEW p, Loose(p, n), NEW o \in Orders, p.order < o
  PROVE  LET q == UpStep(p, o)
         IN  /\ Loose(q, n) /\ q.order <= o
             /\ FreeFrames(q.b) \cup Block(q.base, q.order) = FreeFrames(p.b) \cup Block(p.base, p.order)
             /\ q.b.count = p.b.count
             /\ SameOutside(p.b, q.b, n, FreeFrames(p.b))
<1> DEFINE b == p.b
           base == p.base
           k == p.order
           d == BuddyOf(base, k)
           q == UpStep(p, o)
<1>1. /\ BuddyOK(b, n) /\ k \in Orders /\ base \in Nat /\ base + Pow2[k] <= n
      /\ Block(base, k) \cap FreeFrames(b) = {}
  BY Zenon DEF Loose
<1>2. o \in Nat /\ k \in Nat
  BY <1>1 DEF Orders
<1>3. CASE ~(k = o - 1 /\ Mergeable(b, base, k))
  <2>1. q = p
    BY Zenon, <1>3 DEF UpStep
  <2>2. SameOutside(b, b, n, FreeFrames(b))
    BY Zenon DEF SameOutside
  <2>3. QED
    BY <2>1, <2>2, <1>2
<1>4. CASE k = o - 1 /\ Mergeable(b, base, k)
  <2> DEFINE m == Min({base, d})
             u == Unlink(b, d, k)
  <2>1. q = [b |-> u, base |-> m, order |-> o]
    BY Zenon, <1>4 DEF UpStep
  <2>2. k + 1 = o
    BY <1>2, <1>4
  <2>3. d \in FreeHeads(b) /\ k = b.desc[d].order /\ d \in 0 .. n - 1
    BY Zenon, <1>1, <1>4 DEF Mergeable, FreeHeads, BuddyOK, Buddies, Frames
  <2>4. m \in {base, d} /\ Block(m, o) = Block(base, k) \cup Block(d, k)
    <3>1. d \in Nat
      BY <2>3
    <3>2. QED
      BY <3>1, <2>2, <1>1, BuddiesJoin
  <2> HIDE DEF d, m, q
  <2>5. /\ BuddyOK(u, n)
        /\ FreeFrames(u) = FreeFrames(b) \ Block(d, k)
        /\ Block(d, k) \subseteq FreeFrames(b)
        /\ u.count = b.count
        /\ SameOutside(b, u, n, FreeFrames(b))
    BY Zenon, <2>3, <1>1, UnlinkOK
  <2> HIDE DEF u
  <2>6. q.b = u /\ q.base = m /\ q.order = o
    BY Zenon, <2>1
  <2>7. m \in Nat /\ Pow2[o] \in Nat /\ Pow2[k] \in Nat /\ Pow2[o] >= 1 /\ Pow2[k] >= 1
    BY SMTT(30), <2>3, <2>4, <1>1, Pow2Type
  <2>8. m + Pow2[o] <= n
    <3>1. d + Pow2[k] <= n
      BY Zenon, <2>3, <1>1 DEF BuddyOK, BlocksApart, EndOf, FreeHeads
    <3>2. \A x \in Block(base, k) \cup Block(d, k) : x < n
      BY SMTT(30), <3>1, <2>3, <2>7, <1>1 DEF Block
    <3>3. m + Pow2[o] - 1 \in Block(m, o)
      BY <2>7 DEF Block
    <3>4. m + Pow2[o] - 1 < n
      BY Zenon, <3>2, <3>3, <2>4
    <3>5. QED
      BY <3>4, <2>7
  <2>9. Block(m, o) \cap FreeFrames(u) = {}
    BY Zenon, <2>4, <2>5, <1>1
  <2>10. FreeFrames(u) \cup Block(m, o) = FreeFrames(b) \cup Block(base, k)
    BY Zenon, <2>4, <2>5
  <2>11. Loose(q, n)
    BY Zenon, <2>5, <2>6, <2>7, <2>8, <2>9 DEF Loose
  <2>12. QED
    BY <2>5, <2>6, <2>10, <2>11, <1>2 DEF q
<1>5. QED
  BY Zenon, <1>3, <1>4

(* coalesce frees the frames of the block and no others.                    *)
LEMMA CoalesceOK ==
  ASSUME NEW n \in Nat, NEW b, BuddyOK(b, n), NEW base \in Nat, NEW order \in Orders,
         base + Pow2[order] <= n, Block(base, order) \cap FreeFrames(b) = {}
  PROVE  LET c == Coalesce(b, base, order)
         IN  /\ BuddyOK(c, n)
             /\ FreeFrames(c) = FreeFrames(b) \cup Block(base, order)
             /\ c.count = b.count
             /\ SameOutside(b, c, n, FreeFrames(b) \cup Block(base, order))
<1> DEFINE up == CHOOSE f : UpFun(b, base, order, MaxOrder, f)
           F == FreeFrames(b) \cup Block(base, order)
           Good(o) == /\ Loose(up[o], n) /\ up[o].order <= o
                      /\ FreeFrames(up[o].b) \cup Block(up[o].base, up[o].order) = F
                      /\ up[o].b.count = b.count
                      /\ SameOutside(b, up[o].b, n, F)
           P == {m \in Nat : order + m \in Orders => Good(order + m)}
<1>1. order \in Nat /\ order <= MaxOrder /\ MaxOrder \in Nat
  BY OrderAssumption DEF Orders
<1>2. UpFun(b, base, order, MaxOrder, up)
  <2> DEFINE m == MaxOrder - order
  <2>1. m \in Nat /\ order + m = MaxOrder
    BY <1>1
  <2> HIDE DEF m
  <2>2. \E f : UpFun(b, base, order, order + m, f)
    BY Zenon, <2>1, <1>1, UpExists
  <2>3. QED
    BY Zenon, <2>1, <2>2
<1> DEFINE top == up[MaxOrder]
<1>3. Coalesce(b, base, order) = Insert(top.b, top.base, top.order)
  BY Zenon DEF Coalesce, UpFun, UpStep
<1> HIDE DEF up
<1>4. \A o \in order .. MaxOrder :
        up[o] = IF o = order THEN [b |-> b, base |-> base, order |-> order] ELSE UpStep(up[o - 1], o)
  BY Zenon, <1>2 DEF UpFun
<1> HIDE DEF F
<1>5. 0 \in P
  <2>1. order + 0 = order /\ order \in order .. MaxOrder
    BY <1>1
  <2>2. up[order] = [b |-> b, base |-> base, order |-> order]
    BY Zenon, <2>1, <1>4
  <2>3. up[order].b = b /\ up[order].base = base /\ up[order].order = order
    BY <2>2
  <2>4. Loose(up[order], n) /\ SameOutside(b, b, n, F)
    BY Zenon, <2>3 DEF Loose, SameOutside
  <2>5. Good(order)
    BY <2>3, <2>4, <1>1 DEF F
  <2>6. QED
    BY Zenon, <2>1, <2>5
<1>6. ASSUME NEW m \in P PROVE m + 1 \in P
  <2> DEFINE o == order + (m + 1)
             p == up[o - 1]
             q == up[o]
  <2>1. SUFFICES ASSUME o \in Orders PROVE Good(o)
    OBVIOUS
  <2>2. o \in order .. MaxOrder /\ o # order /\ o - 1 = order + m /\ m \in Nat /\ o - 1 \in Orders
    BY <2>1, <1>1 DEF Orders
  <2>3. Good(o - 1)
    BY Zenon, <2>2
  <2>4. q = UpStep(p, o)
    BY Zenon, <2>2, <1>4
  <2>5. /\ Loose(p, n) /\ p.order <= o - 1
        /\ FreeFrames(p.b) \cup Block(p.base, p.order) = F
        /\ p.b.count = b.count
        /\ SameOutside(b, p.b, n, F)
    BY Zenon, <2>3
  <2> HIDE DEF o, p, q
  <2>6. p.order < o
    BY <2>2, <2>5 DEF Loose, Orders
  <2>7. /\ Loose(q, n) /\ q.order <= o
        /\ FreeFrames(q.b) \cup Block(q.base, q.order) = FreeFrames(p.b) \cup Block(p.base, p.order)
        /\ q.b.count = p.b.count
        /\ SameOutside(p.b, q.b, n, FreeFrames(p.b))
    BY Zenon, <2>1, <2>4, <2>5, <2>6, UpStepOK
  <2>8. SameOutside(b, q.b, n, F)
    BY Zenon, <2>5, <2>7 DEF SameOutside
  <2>9. QED
    BY Zenon, <2>5, <2>7, <2>8 DEF q
<1>7. P \in SUBSET Nat
  BY Zenon
<1>8. Good(MaxOrder)
  <2> HIDE DEF P
  <2>1. P = Nat
    BY Zenon, <1>5, <1>6, <1>7, NatSetInduction
  <2> DEFINE m == MaxOrder - order
  <2>2. m \in Nat /\ order + m = MaxOrder
    BY <1>1
  <2> HIDE DEF m
  <2>3. m \in P /\ MaxOrder \in Orders
    BY <2>1, <2>2, <1>1 DEF Orders
  <2>4. QED
    BY Zenon, <2>2, <2>3 DEF P
<1> HIDE DEF top
<1>9. /\ Loose(top, n)
      /\ FreeFrames(top.b) \cup Block(top.base, top.order) = F
      /\ top.b.count = b.count
      /\ SameOutside(b, top.b, n, F)
  BY Zenon, <1>8 DEF top
<1> DEFINE tb == top.b
           ta == top.base
           to == top.order
           c == Insert(tb, ta, to)
<1>10. /\ BuddyOK(tb, n) /\ to \in Orders /\ ta \in Nat /\ ta + Pow2[to] <= n
       /\ Block(ta, to) \cap FreeFrames(tb) = {}
  BY Zenon, <1>9 DEF Loose
<1> HIDE DEF tb, ta, to
<1>11. /\ BuddyOK(c, n)
       /\ FreeFrames(c) = FreeFrames(tb) \cup Block(ta, to)
       /\ c.count = tb.count
       /\ SameOutside(tb, c, n, FreeFrames(tb) \cup Block(ta, to))
  BY Zenon, <1>10, InsertOK
<1>12. c = Coalesce(b, base, order)
  BY Zenon, <1>3 DEF tb, ta, to
<1> HIDE DEF c
<1>13. FreeFrames(tb) \cup Block(ta, to) = F /\ tb.count = b.count /\ SameOutside(b, tb, n, F)
  BY Zenon, <1>9 DEF tb, ta, to
<1>14. SameOutside(b, c, n, F)
  BY Zenon, <1>11, <1>13 DEF SameOutside
<1>15. QED
  BY Zenon, <1>11, <1>12, <1>13, <1>14 DEF F

(* From b to c a block is freed.                                            *)
Freed(b, c, n, base, o) ==
  /\ BuddyOK(c, n)
  /\ FreeFrames(c) = FreeFrames(b) \cup Block(base, o)
  /\ c.count = b.count + Pow2[o]
  /\ SameOutside(b, c, n, FreeFrames(b) \cup Block(base, o))

Counted(b, k) == [b EXCEPT !.count = @ + k]

LEMMA CountedCoalesce ==
  ASSUME NEW n \in Nat, NEW b, BuddyOK(b, n), NEW base \in Nat, NEW o \in Orders,
         base + Pow2[o] <= n, Block(base, o) \cap FreeFrames(b) = {}
  PROVE  Freed(b, Coalesce(Counted(b, Pow2[o]), base, o), n, base, o)
<1> DEFINE k == Pow2[o]
           e == Counted(b, k)
           c == Coalesce(e, base, o)
<1>1. k \in Int
  BY Pow2Type
<1>2. BuddyOK(e, n) /\ FreeFrames(e) = FreeFrames(b) /\ e.count = b.count + k /\ e.desc = b.desc
  <2> HIDE DEF k
  <2> QED
    BY Zenon, <1>1, CountOK DEF Counted
<1> HIDE DEF e
<1>3. /\ BuddyOK(c, n)
      /\ FreeFrames(c) = FreeFrames(e) \cup Block(base, o)
      /\ c.count = e.count
      /\ SameOutside(e, c, n, FreeFrames(e) \cup Block(base, o))
  BY Zenon, <1>2, CoalesceOK
<1> HIDE DEF c
<1>4. SameOutside(b, c, n, FreeFrames(b) \cup Block(base, o))
  BY Zenon, <1>2, <1>3 DEF SameOutside
<1>5. QED
  BY Zenon, <1>2, <1>3, <1>4 DEF c, e, Freed

(* The order a descriptor records.                                          *)
OrderAt(b, f) == b.desc[f].order

(* free gives back the block whose order alloc recorded.                    *)
LEMMA FreeOK ==
  ASSUME NEW n \in Nat, NEW b, BuddyOK(b, n), NEW base \in 0 .. n - 1,
         NEW o \in Orders, OrderAt(b, base) = o,
         base + Pow2[o] <= n, Block(base, o) \cap FreeFrames(b) = {}
  PROVE  Freed(b, Free(b, base), n, base, o)
<1>1. Free(b, base) = Coalesce(Counted(b, Pow2[o]), base, o)
  BY Zenon DEF Free, Counted, OrderAt
<1>2. base \in Nat
  OBVIOUS
<1>3. QED
  BY Zenon, <1>1, <1>2, CountedCoalesce
=============================================================================
