---------------------------- MODULE MemoryProofs -----------------------------
(***************************************************************************)
(* The frame allocator over the buddy allocator implements a pool of        *)
(* frames, and what it ever hands out is what the memory map offers.         *)
(*                                                                         *)
(* PoolInv is inductive over the calls of the allocator: a block that is     *)
(* handed out lies inside the descriptor array, its descriptor still has     *)
(* the order alloc recorded, and it meets neither a free block nor another   *)
(* one handed out.  PhaseInv adds what the boot order says of held.          *)
(***************************************************************************)
EXTENDS Memory, BuddyProofs

-----------------------------------------------------------------------------
(* The inductive invariant.                                                *)

Offset(blk) == blk[1] - basePfn

Inside(blk, n) ==
  /\ blk = <<blk[1], blk[2]>> /\ blk[1] \in Nat /\ blk[2] \in Orders
  /\ Offset(blk) \in 0 .. n - 1 /\ Offset(blk) + Pow2[blk[2]] <= n
  /\ OrderAt(buddy, Offset(blk)) = blk[2]
  /\ Block(Offset(blk), blk[2]) \cap FreeFrames(buddy) = {}

Spans(n) == BuddyOK(buddy, n) /\ \A blk \in Handed : Inside(blk, n)

PoolInv ==
  /\ basePfn \in Nat
  /\ \E n \in Nat : Spans(n)
  /\ \A x, y \in Handed : x # y => Block(x[1], x[2]) \cap Block(y[1], y[2]) = {}

PhaseInv ==
  /\ held \cap kept = {}
  /\ phase \in {"boot", "paging", "slab", "untyped", "heap", "up", "halted"}
  /\ phase = "boot" => buddy = NewBuddy(0) /\ basePfn = 0 /\ kept = {}
  /\ phase \in {"boot", "paging", "heap"} => held = {}
  /\ phase \in {"slab", "untyped"} => \A x, y \in held : x = y

MemInv == PoolInv /\ PhaseInv /\ map \in Maps

-----------------------------------------------------------------------------
(* A call of alloc_frames and a call of free_frames.                        *)

LEMMA BlockAt ==
  ASSUME NEW f \in Int, NEW p \in Int, NEW o \in Orders
  PROVE  Block(p + f, o) = {p + x : x \in Block(f, o)}
<1>1. Pow2[o] \in Nat
  BY Zenon, Pow2Type
<1>2. ASSUME NEW y \in Block(p + f, o) PROVE y \in {p + x : x \in Block(f, o)}
  <2>1. y - p \in Block(f, o) /\ y = p + (y - p)
    BY <1>1 DEF Block
  <2>2. QED
    BY Zenon, <2>1
<1>3. ASSUME NEW x \in Block(f, o) PROVE p + x \in Block(p + f, o)
  BY <1>1 DEF Block
<1>4. QED
  BY Zenon, <1>2, <1>3

LEMMA InsideFacts ==
  ASSUME basePfn \in Nat, NEW n \in Nat, NEW blk, Inside(blk, n)
  PROVE  /\ blk[1] \in Nat /\ blk[2] \in Orders /\ Offset(blk) \in 0 .. n - 1
         /\ Block(Offset(blk), blk[2]) \cap FreeFrames(buddy) = {}
         /\ Offset(blk) \in Block(Offset(blk), blk[2])
         /\ Block(Offset(blk), blk[2]) \subseteq Int
         /\ Block(blk[1], blk[2]) = {basePfn + x : x \in Block(Offset(blk), blk[2])}
<1>1. /\ blk[1] \in Nat /\ blk[2] \in Orders /\ Offset(blk) \in 0 .. n - 1
      /\ Block(Offset(blk), blk[2]) \cap FreeFrames(buddy) = {} /\ blk[1] = basePfn + Offset(blk)
  BY DEF Inside, Offset
<1>2. /\ Offset(blk) \in Block(Offset(blk), blk[2])
      /\ Block(Offset(blk), blk[2]) \subseteq Int
  BY <1>1, Pow2Type DEF Block
<1>3. QED
  BY <1>1, <1>2, BlockAt

(* From one state to the next a block is taken out of the pool.             *)
Taken(blk) ==
  /\ PoolInv'
  /\ blk \notin Handed
  /\ Block(blk[1], blk[2]) \subseteq Pool
  /\ Pool' = Pool \ Block(blk[1], blk[2])

LEMMA AllocStep ==
  ASSUME PoolInv, NEW o \in Orders, AllocFrames(o), basePfn' = basePfn,
         Handed' = Handed \cup {Given(o)}
  PROVE  Taken(Given(o))
<1>a. PICK f : f = AllocBase(buddy, o)
  BY Zenon
<1>b. PICK g : g = Given(o)
  BY Zenon
<1>1. PICK n \in Nat : Spans(n)
  BY Zenon DEF PoolInv
<1>2. Allocated(buddy, buddy', n, f, o)
  BY Zenon, <1>a, <1>1, AllocOK DEF Spans, AllocFrames
<1>3. /\ basePfn \in Nat /\ f \in Nat /\ f \in 0 .. n - 1
      /\ g = <<basePfn + f, o>> /\ g[1] = basePfn + f /\ g[2] = o
  BY <1>a, <1>b, <1>2 DEF PoolInv, Allocated, Given
<1>4. g[1] - basePfn = f /\ g[1] \in Nat
  BY <1>3
<1> DEFINE B == Block(f, o)
           F == FreeFrames(buddy)
<1>5. Block(g[1], g[2]) = {basePfn + x : x \in B}
  BY <1>3, BlockAt
<1>6. /\ BuddyOK(buddy', n) /\ f + Pow2[o] <= n /\ B \subseteq F
      /\ FreeFrames(buddy)' = F \ B /\ OrderAt(buddy', f) = o
      /\ \A x \in (0 .. n - 1) \ F : buddy'.desc[x] = buddy.desc[x]
  BY Zenon, <1>2 DEF Allocated, SameOutside, OrderAt
<1>7. f \in B
  BY <1>3, Pow2Type DEF Block
<1>8. \A blk \in Handed : Inside(blk, n)
  BY Zenon, <1>1 DEF Spans
<1>9. F \subseteq Int
  BY Zenon, <1>1, FreeFramesAre DEF Spans, BuddyOK
<1> HIDE DEF B, F
<1>10. ASSUME NEW blk \in Handed
       PROVE  /\ blk[1] \in Nat /\ blk[2] \in Orders /\ Offset(blk) \in 0 .. n - 1
              /\ Block(Offset(blk), blk[2]) \cap F = {} /\ Block(Offset(blk), blk[2]) \subseteq Int
              /\ Offset(blk) \notin F
              /\ Block(blk[1], blk[2]) = {basePfn + x : x \in Block(Offset(blk), blk[2])}
  BY Zenon, <1>3, <1>8, InsideFacts DEF F
<1>11. ASSUME NEW blk \in Handed PROVE Block(blk[1], blk[2]) \cap Block(g[1], g[2]) = {}
  <2>1. SUFFICES ASSUME NEW x \in Block(Offset(blk), blk[2]), NEW y \in B, basePfn + x = basePfn + y
                 PROVE  FALSE
    BY Zenon, <1>5, <1>10
  <2>2. x \in Int /\ y \in Int
    BY Zenon, <1>6, <1>9, <1>10
  <2>3. x = y
    BY <2>1, <2>2, <1>3
  <2>4. QED
    BY Zenon, <2>3, <1>6, <1>10
<1>12. g \notin Handed
  <2>1. Block(g[1], g[2]) # {}
    BY Zenon, <1>5, <1>7
  <2>2. QED
    BY Zenon, <2>1, <1>11
<1>13. Pool = {basePfn + x : x \in F} /\ Pool' = {basePfn + x : x \in F \ B}
  BY Zenon, <1>6 DEF Pool, F
<1>14. Block(g[1], g[2]) \subseteq Pool /\ Pool' = Pool \ Block(g[1], g[2])
  <2>1. \A x, y \in F : basePfn + x = basePfn + y => x = y
    BY <1>3, <1>9
  <2>2. QED
    BY <2>1, <1>5, <1>6, <1>13
<1>15. Inside(g, n)'
  <2>1. (B \cap (F \ B)) = {} /\ Offset(g)' = f /\ g[2] = o /\ g = <<g[1], g[2]>>
    BY Zenon, <1>3, <1>4 DEF Offset
  <2>2. QED
    BY Zenon, <2>1, <1>3, <1>4, <1>6 DEF Inside, B
<1>16. ASSUME NEW blk \in Handed PROVE Inside(blk, n)'
  <2>1. Offset(blk)' = Offset(blk) /\ OrderAt(buddy, Offset(blk))' = OrderAt(buddy, Offset(blk))
    BY Zenon, <1>6, <1>10 DEF Offset, OrderAt
  <2>2. QED
    BY Zenon, <2>1, <1>6, <1>8, <1>10 DEF Inside
<1>17. Spans(n)'
  BY Zenon, <1>b, <1>6, <1>15, <1>16 DEF Spans
<1>18. PoolInv'
  <2>1. \A x, y \in Handed \cup {g} : x # y => Block(x[1], x[2]) \cap Block(y[1], y[2]) = {}
    BY Zenon, <1>11 DEF PoolInv
  <2>2. QED
    BY Zenon, <1>b, <2>1, <1>3, <1>17 DEF PoolInv
<1>19. QED
  BY Zenon, <1>b, <1>12, <1>14, <1>18 DEF Taken

(* From one state to the next a block is given back to the pool.            *)
GivenBack(blk) ==
  /\ PoolInv'
  /\ Block(blk[1], blk[2]) \cap Pool = {}
  /\ Pool' = Pool \cup Block(blk[1], blk[2])

LEMMA FreeStep ==
  ASSUME PoolInv, NEW blk \in Handed, FreeFramesOf(blk), basePfn' = basePfn,
         Handed' = Handed \ {blk}
  PROVE  GivenBack(blk)
<1>1. PICK n \in Nat : Spans(n)
  BY Zenon DEF PoolInv
<1>2. PICK f : f = Offset(blk)
  BY Zenon
<1>3. PICK o : o = blk[2]
  BY Zenon
<1>4. /\ basePfn \in Nat /\ \A x \in Handed : Inside(x, n)
      /\ f \in 0 .. n - 1 /\ o \in Orders /\ f + Pow2[o] <= n /\ OrderAt(buddy, f) = o
      /\ Block(f, o) \cap FreeFrames(buddy) = {} /\ blk[1] - basePfn = f /\ blk[1] = basePfn + f
  BY <1>1, <1>2, <1>3 DEF Spans, Inside, PoolInv, Offset
<1>5. Freed(buddy, buddy', n, f, o)
  BY Zenon, <1>1, <1>4, FreeOK DEF Spans, FreeFramesOf
<1> DEFINE B == Block(f, o)
           F == FreeFrames(buddy)
<1>6. /\ BuddyOK(buddy', n) /\ FreeFrames(buddy)' = F \cup B /\ B \cap F = {}
      /\ \A x \in (0 .. n - 1) \ (F \cup B) : buddy'.desc[x] = buddy.desc[x]
  BY Zenon, <1>4, <1>5 DEF Freed, SameOutside
<1>7. F \subseteq Int /\ B \subseteq Int
  BY <1>1, <1>4, FreeFramesAre, InBlock DEF Spans, BuddyOK
<1>8. Block(blk[1], blk[2]) = {basePfn + x : x \in B}
  <2>1. f \in Int /\ basePfn \in Int /\ o \in Orders
    BY <1>4
  <2>2. Block(basePfn + f, o) = {basePfn + x : x \in Block(f, o)}
    BY Zenon, <2>1, BlockAt
  <2>3. QED
    BY Zenon, <2>2, <1>3, <1>4
<1> HIDE DEF B, F
<1>9. ASSUME NEW x \in Handed, x # blk PROVE Inside(x, n)'
  <2>1. /\ x[1] \in Nat /\ x[2] \in Orders /\ Offset(x) \in 0 .. n - 1
        /\ Block(Offset(x), x[2]) \cap F = {} /\ Offset(x) \in Block(Offset(x), x[2])
        /\ Block(Offset(x), x[2]) \subseteq Int
        /\ Block(x[1], x[2]) = {basePfn + y : y \in Block(Offset(x), x[2])}
    BY Zenon, <1>4, InsideFacts DEF F
  <2>2. Block(x[1], x[2]) \cap Block(blk[1], blk[2]) = {}
    BY Zenon, <1>9 DEF PoolInv
  <2>3. Block(Offset(x), x[2]) \cap B = {}
    BY <2>1, <2>2, <1>8
  <2>4. Offset(x)' = Offset(x) /\ OrderAt(buddy, Offset(x))' = OrderAt(buddy, Offset(x))
    BY Zenon, <2>1, <2>3, <1>6 DEF Offset, OrderAt
  <2>5. Block(Offset(x), x[2]) \cap (F \cup B) = {}
    BY Zenon, <2>1, <2>3
  <2>6. QED
    BY Zenon, <2>4, <2>5, <1>4, <1>6 DEF Inside
<1>10. Spans(n)'
  BY Zenon, <1>6, <1>9 DEF Spans
<1>11. PoolInv'
  BY Zenon, <1>4, <1>10 DEF PoolInv
<1>12. Pool = {basePfn + x : x \in F} /\ Pool' = {basePfn + x : x \in F \cup B}
  BY Zenon, <1>6 DEF Pool, F
<1>13. Block(blk[1], blk[2]) \cap Pool = {} /\ Pool' = Pool \cup Block(blk[1], blk[2])
  <2>1. \A x \in B, y \in F : basePfn + x # basePfn + y
    BY <1>4, <1>6, <1>7
  <2>2. QED
    BY Zenon, <2>1, <1>8, <1>12
<1>14. QED
  BY Zenon, <1>11, <1>13 DEF GivenBack

-----------------------------------------------------------------------------
(* frames::init: the allocator is built from a sorted list of ranges.       *)

RangeOK(r) == r \in [s : Nat, e : Nat] /\ r.s < r.e
RangesOK(rs) == rs \in Seq([s : Nat, e : Nat]) /\ \A i \in DOMAIN rs : RangeOK(rs[i])

(* Neighbours that do not overlap are in order, and so are all others.       *)
LEMMA RangesApart ==
  ASSUME NEW rs, RangesOK(rs), ~Overlap(rs)
  PROVE  \A i, j \in DOMAIN rs : i < j => rs[i].e <= rs[j].s
<1>1. Len(rs) \in Nat /\ DOMAIN rs = 1 .. Len(rs)
  BY DEF RangesOK
<1>2. \A i \in 1 .. Len(rs) : rs[i].s \in Nat /\ rs[i].e \in Nat /\ rs[i].s < rs[i].e
  BY Zenon, <1>1 DEF RangesOK, RangeOK
<1>3. \A i \in 1 .. Len(rs) - 1 : rs[i].e <= rs[i + 1].s
  BY <1>1, <1>2 DEF Overlap
<1> DEFINE P == {m \in Nat : \A i, j \in 1 .. Len(rs) : i < j /\ j <= m => rs[i].e <= rs[j].s}
<1>4. 0 \in P
  OBVIOUS
<1>5. ASSUME NEW m \in P PROVE m + 1 \in P
  <2>1. SUFFICES ASSUME NEW i \in 1 .. Len(rs), NEW j \in 1 .. Len(rs), i < j, j = m + 1
                 PROVE  rs[i].e <= rs[j].s
    BY <1>1
  <2>2. m \in 1 .. Len(rs) - 1 /\ m \in 1 .. Len(rs)
    BY <2>1, <1>1
  <2>3. rs[m].e <= rs[j].s /\ rs[m].s < rs[m].e
    BY Zenon, <2>1, <2>2, <1>2, <1>3
  <2>4. i # m => rs[i].e <= rs[m].s
    BY <2>1, <2>2
  <2>5. QED
    BY <2>1, <2>2, <2>3, <2>4, <1>2
<1>6. P \in SUBSET Nat
  BY Zenon
<1>7. P = Nat
  <2> HIDE DEF P
  <2> QED
    BY Zenon, <1>4, <1>5, <1>6, NatSetInduction
<1>8. Len(rs) \in P
  BY Zenon, <1>1, <1>7
<1>9. QED
  BY <1>1, <1>8

(* The frames the allocator spans, which is the length of its array.        *)
SpanOf(rs) == rs[Len(rs)].e - rs[1].s

(* The descriptor array fits where it is put, and all ranges lie between the *)
(* first and the last.                                                     *)
LEMMA DescFits ==
  ASSUME NEW rs, RangesOK(rs), ~Malformed(rs)
  PROVE  /\ Len(rs) \in Nat /\ DOMAIN rs = 1 .. Len(rs) /\ 1 \in DOMAIN rs /\ Len(rs) \in DOMAIN rs
         /\ SpanOf(rs) \in Nat
         /\ DescFrames(rs) \in Nat
         /\ Min(DescHosts(rs)) \in DOMAIN rs
         /\ \A i \in DOMAIN rs : /\ AfterDesc(rs, i) \in Nat
                                 /\ rs[i].s <= AfterDesc(rs, i) /\ AfterDesc(rs, i) <= rs[i].e
                                 /\ rs[1].s <= rs[i].s /\ rs[i].e <= rs[Len(rs)].e
                                 /\ rs[i].s \in Nat /\ rs[i].e \in Nat
<1>1. /\ Len(rs) \in Nat \ {0} /\ DOMAIN rs = 1 .. Len(rs) /\ 1 \in DOMAIN rs /\ Len(rs) \in DOMAIN rs
      /\ ~Overlap(rs) /\ DescHosts(rs) # {}
  BY DEF RangesOK, Malformed
<1>2. \A i \in DOMAIN rs : rs[i].s \in Nat /\ rs[i].e \in Nat /\ rs[i].s < rs[i].e
  BY Zenon DEF RangesOK, RangeOK
<1>3. \A i, j \in DOMAIN rs : i < j => rs[i].e <= rs[j].s
  BY Zenon, <1>1, RangesApart
<1>4. \A i \in DOMAIN rs : rs[1].s <= rs[i].s /\ rs[i].e <= rs[Len(rs)].e
  <2>1. SUFFICES ASSUME NEW i \in DOMAIN rs
                 PROVE  rs[1].s <= rs[i].s /\ rs[i].e <= rs[Len(rs)].e
    BY Zenon
  <2>2. i = 1 \/ 1 < i
    BY <1>1
  <2>3. i = Len(rs) \/ i < Len(rs)
    BY <1>1
  <2>4. QED
    BY <2>2, <2>3, <1>1, <1>2, <1>3
<1>5. SpanOf(rs) \in Nat
  BY <1>1, <1>2, <1>4 DEF SpanOf
<1>6. DescFrames(rs) \in Nat
  <2>1. DescsPerFrame \in Nat \ {0}
    BY Zenon, MemoryAssumption
  <2> DEFINE a == SpanOf(rs) + DescsPerFrame - 1
  <2>2. a \in Nat
    BY <2>1, <1>5
  <2> HIDE DEF a
  <2>3. a \div DescsPerFrame \in Nat
    BY <2>1, <2>2
  <2>4. QED
    BY Zenon, <2>3 DEF a, DescFrames, SpanOf
<1>7. /\ Min(DescHosts(rs)) \in DOMAIN rs
      /\ rs[Min(DescHosts(rs))].e - rs[Min(DescHosts(rs))].s >= DescFrames(rs)
  <2>1. DescHosts(rs) \in SUBSET Nat
    BY <1>1 DEF DescHosts
  <2>2. Min(DescHosts(rs)) \in DescHosts(rs)
    BY Zenon, <2>1, <1>1, MinOf
  <2>3. QED
    BY Zenon, <2>2 DEF DescHosts
<1>8. \A i \in DOMAIN rs : /\ AfterDesc(rs, i) \in Nat
                           /\ rs[i].s <= AfterDesc(rs, i) /\ AfterDesc(rs, i) <= rs[i].e
  BY <1>2, <1>6, <1>7 DEF AfterDesc
<1>9. QED
  BY Zenon, <1>1, <1>2, <1>4, <1>5, <1>6, <1>7, <1>8

BuildStep(b, rs, i) == AddFrames(b, AfterDesc(rs, i) - rs[1].s, rs[i].e - AfterDesc(rs, i))

BuildFun(rs, m, f) ==
  f = [i \in 0 .. m |-> IF i = 0 THEN NewBuddy(SpanOf(rs)) ELSE BuildStep(f[i - 1], rs, i)]

(* The loop over the ranges.                                               *)
LEMMA BuildExists ==
  ASSUME NEW rs
  PROVE  \A m \in Nat : \E f : BuildFun(rs, m, f)
<1> DEFINE P == {m \in Nat : \E f : BuildFun(rs, m, f)}
           first == NewBuddy(SpanOf(rs))
<1>1. 0 \in P
  <2> DEFINE f == [i \in 0 .. 0 |-> first]
  <2>1. \A i \in 0 .. 0 : i = 0
    OBVIOUS
  <2>2. f = [i \in 0 .. 0 |-> IF i = 0 THEN first ELSE BuildStep(f[i - 1], rs, i)]
    BY Zenon, <2>1
  <2> HIDE DEF f
  <2>3. BuildFun(rs, 0, f)
    BY Zenon, <2>2 DEF BuildFun
  <2>4. QED
    BY Zenon, <2>3
<1>2. ASSUME NEW m \in P PROVE m + 1 \in P
  <2>1. PICK f : BuildFun(rs, m, f)
    BY Zenon
  <2> DEFINE new == BuildStep(f[m], rs, (m + 1))
             g == [i \in 0 .. m + 1 |-> IF i = m + 1 THEN new ELSE f[i]]
  <2>2. \A i \in 0 .. m : f[i] = IF i = 0 THEN first ELSE BuildStep(f[i - 1], rs, i)
    BY Zenon, <2>1 DEF BuildFun
  <2> HIDE DEF first
  <2>3. ASSUME NEW i \in 0 .. m + 1
        PROVE  g[i] = IF i = 0 THEN first ELSE BuildStep(g[i - 1], rs, i)
    <3>1. CASE i = m + 1
      <4>1. i # 0 /\ i - 1 = m /\ m \in 0 .. m + 1 /\ m # m + 1
        BY <3>1
      <4>2. g[i] = new /\ g[i - 1] = f[m]
        BY Zenon, <4>1, <3>1
      <4>3. QED
        BY Zenon, <4>1, <4>2, <3>1
    <3>2. CASE i # m + 1
      <4>1. i \in 0 .. m /\ (i # 0 => i - 1 \in 0 .. m + 1 /\ i - 1 # m + 1)
        BY <3>2
      <4>2. g[i] = f[i] /\ (i # 0 => g[i - 1] = f[i - 1])
        BY Zenon, <4>1, <3>2
      <4>3. QED
        BY Zenon, <4>1, <4>2, <2>2
    <3>3. QED
      BY Zenon, <3>1, <3>2
  <2>4. g = [i \in 0 .. m + 1 |-> IF i = 0 THEN first ELSE BuildStep(g[i - 1], rs, i)]
    BY Zenon, <2>3
  <2> HIDE DEF g
  <2>5. BuildFun(rs, m + 1, g)
    BY Zenon, <2>4 DEF BuildFun, first
  <2>6. QED
    BY <2>5
<1>3. P \in SUBSET Nat
  BY Zenon
<1> HIDE DEF P
<1>4. P = Nat
  BY Zenon, <1>1, <1>2, <1>3, NatSetInduction
<1>5. QED
  BY Zenon, <1>4 DEF P

CollectedAt(i) == IF RegionSlice[i].usable THEN UsableFrames(RegionSlice[i]) ELSE <<>>

CollectFun(m, f) ==
  f = [i \in 0 .. m |-> IF i = 0 THEN <<>> ELSE f[i - 1] \o CollectedAt(i)]

(* The loop over the regions.                                              *)
LEMMA CollectExists ==
  \A m \in Nat : \E f : CollectFun(m, f)
<1> DEFINE P == {m \in Nat : \E f : CollectFun(m, f)}
           first == <<>>
<1>1. 0 \in P
  <2> DEFINE f == [i \in 0 .. 0 |-> first]
  <2>1. \A i \in 0 .. 0 : i = 0
    OBVIOUS
  <2>2. f = [i \in 0 .. 0 |-> IF i = 0 THEN first ELSE f[i - 1] \o CollectedAt(i)]
    BY Zenon, <2>1
  <2> HIDE DEF f
  <2>3. CollectFun(0, f)
    BY Zenon, <2>2 DEF CollectFun
  <2>4. QED
    BY Zenon, <2>3
<1>2. ASSUME NEW m \in P PROVE m + 1 \in P
  <2>1. PICK f : CollectFun(m, f)
    BY Zenon
  <2> DEFINE new == f[m] \o CollectedAt((m + 1))
             g == [i \in 0 .. m + 1 |-> IF i = m + 1 THEN new ELSE f[i]]
  <2>2. \A i \in 0 .. m : f[i] = IF i = 0 THEN first ELSE f[i - 1] \o CollectedAt(i)
    BY Zenon, <2>1 DEF CollectFun
  <2> HIDE DEF first
  <2>3. ASSUME NEW i \in 0 .. m + 1
        PROVE  g[i] = IF i = 0 THEN first ELSE g[i - 1] \o CollectedAt(i)
    <3>1. CASE i = m + 1
      <4>1. i # 0 /\ i - 1 = m /\ m \in 0 .. m + 1 /\ m # m + 1
        BY <3>1
      <4>2. g[i] = new /\ g[i - 1] = f[m]
        BY Zenon, <4>1, <3>1
      <4>3. QED
        BY Zenon, <4>1, <4>2, <3>1
    <3>2. CASE i # m + 1
      <4>1. i \in 0 .. m /\ (i # 0 => i - 1 \in 0 .. m + 1 /\ i - 1 # m + 1)
        BY <3>2
      <4>2. g[i] = f[i] /\ (i # 0 => g[i - 1] = f[i - 1])
        BY Zenon, <4>1, <3>2
      <4>3. QED
        BY Zenon, <4>1, <4>2, <2>2
    <3>3. QED
      BY Zenon, <3>1, <3>2
  <2>4. g = [i \in 0 .. m + 1 |-> IF i = 0 THEN first ELSE g[i - 1] \o CollectedAt(i)]
    BY Zenon, <2>3
  <2> HIDE DEF g
  <2>5. CollectFun(m + 1, g)
    BY Zenon, <2>4 DEF CollectFun, first
  <2>6. QED
    BY <2>5
<1>3. P \in SUBSET Nat
  BY Zenon
<1> HIDE DEF P
<1>4. P = Nat
  BY Zenon, <1>1, <1>2, <1>3, NatSetInduction
<1>5. QED
  BY Zenon, <1>4 DEF P

SortFun(rs, m, f) ==
  f = [i \in 0 .. m |-> IF i = 0 THEN <<>> ELSE InOrder(f[i - 1], rs[i])]

(* Insertion, range by range.                                              *)
LEMMA SortExists ==
  ASSUME NEW rs
  PROVE  \A m \in Nat : \E f : SortFun(rs, m, f)
<1> DEFINE P == {m \in Nat : \E f : SortFun(rs, m, f)}
           first == <<>>
<1>1. 0 \in P
  <2> DEFINE f == [i \in 0 .. 0 |-> first]
  <2>1. \A i \in 0 .. 0 : i = 0
    OBVIOUS
  <2>2. f = [i \in 0 .. 0 |-> IF i = 0 THEN first ELSE InOrder(f[i - 1], rs[i])]
    BY Zenon, <2>1
  <2> HIDE DEF f
  <2>3. SortFun(rs, 0, f)
    BY Zenon, <2>2 DEF SortFun
  <2>4. QED
    BY Zenon, <2>3
<1>2. ASSUME NEW m \in P PROVE m + 1 \in P
  <2>1. PICK f : SortFun(rs, m, f)
    BY Zenon
  <2> DEFINE new == InOrder(f[m], rs[(m + 1)])
             g == [i \in 0 .. m + 1 |-> IF i = m + 1 THEN new ELSE f[i]]
  <2>2. \A i \in 0 .. m : f[i] = IF i = 0 THEN first ELSE InOrder(f[i - 1], rs[i])
    BY Zenon, <2>1 DEF SortFun
  <2> HIDE DEF first
  <2>3. ASSUME NEW i \in 0 .. m + 1
        PROVE  g[i] = IF i = 0 THEN first ELSE InOrder(g[i - 1], rs[i])
    <3>1. CASE i = m + 1
      <4>1. i # 0 /\ i - 1 = m /\ m \in 0 .. m + 1 /\ m # m + 1
        BY <3>1
      <4>2. g[i] = new /\ g[i - 1] = f[m]
        BY Zenon, <4>1, <3>1
      <4>3. QED
        BY Zenon, <4>1, <4>2, <3>1
    <3>2. CASE i # m + 1
      <4>1. i \in 0 .. m /\ (i # 0 => i - 1 \in 0 .. m + 1 /\ i - 1 # m + 1)
        BY <3>2
      <4>2. g[i] = f[i] /\ (i # 0 => g[i - 1] = f[i - 1])
        BY Zenon, <4>1, <3>2
      <4>3. QED
        BY Zenon, <4>1, <4>2, <2>2
    <3>3. QED
      BY Zenon, <3>1, <3>2
  <2>4. g = [i \in 0 .. m + 1 |-> IF i = 0 THEN first ELSE InOrder(g[i - 1], rs[i])]
    BY Zenon, <2>3
  <2> HIDE DEF g
  <2>5. SortFun(rs, m + 1, g)
    BY Zenon, <2>4 DEF SortFun, first
  <2>6. QED
    BY <2>5
<1>3. P \in SUBSET Nat
  BY Zenon
<1> HIDE DEF P
<1>4. P = Nat
  BY Zenon, <1>1, <1>2, <1>3, NatSetInduction
<1>5. QED
  BY Zenon, <1>4 DEF P

(* What is free after the first i ranges are released.                      *)
Released(rs, i) == {f \in Int : \E j \in 1 .. i : /\ AfterDesc(rs, j) <= rs[1].s + f
                                              /\ rs[1].s + f < rs[j].e}

(* add_frames, range by range, never meets a frame it has released before,  *)
(* since the ranges do not overlap.                                        *)
LEMMA BuiltOK ==
  ASSUME NEW rs, RangesOK(rs), ~Malformed(rs)
  PROVE  /\ SpanOf(rs) \in Nat
         /\ BuddyOK(Built(rs), SpanOf(rs))
         /\ FreeFrames(Built(rs)) = Released(rs, Len(rs))
<1>1. PICK n : n = SpanOf(rs)
  BY Zenon
<1>2. PICK p : p = rs[1].s
  BY Zenon
<1>3. /\ Len(rs) \in Nat /\ DOMAIN rs = 1 .. Len(rs) /\ n \in Nat
      /\ p \in Nat /\ n = rs[Len(rs)].e - p /\ rs[Len(rs)].e \in Nat
      /\ \A i \in 1 .. Len(rs) : /\ AfterDesc(rs, i) \in Nat
                                 /\ rs[i].s <= AfterDesc(rs, i) /\ AfterDesc(rs, i) <= rs[i].e
                                 /\ p <= rs[i].s /\ rs[i].e <= rs[Len(rs)].e
                                 /\ rs[i].s \in Nat /\ rs[i].e \in Nat
  BY Zenon, <1>1, <1>2, DescFits DEF SpanOf
<1>4. \A i, j \in 1 .. Len(rs) : i < j => rs[i].e <= rs[j].s
  BY Zenon, <1>3, RangesApart DEF Malformed
<1> DEFINE at == CHOOSE f : BuildFun(rs, Len(rs), f)
           Good(m) == BuddyOK(at[m], n) /\ FreeFrames(at[m]) = Released(rs, m)
           P == {m \in Nat : m <= Len(rs) => Good(m)}
<1>5. BuildFun(rs, Len(rs), at)
  <2>1. \E f : BuildFun(rs, Len(rs), f)
    BY Zenon, BuildExists, <1>3
  <2>2. QED
    BY Zenon, <2>1
<1>6. Built(rs) = at[Len(rs)]
  BY Zenon DEF Built, BuildFun, BuildStep, SpanOf
<1> HIDE DEF at
<1>7. /\ at[0] = NewBuddy(n)
      /\ \A i \in 0 .. Len(rs) : i # 0 => at[i] = BuildStep(at[i - 1], rs, i)
  <2>1. 0 \in 0 .. Len(rs)
    BY <1>3
  <2>2. QED
    BY Zenon, <2>1, <1>1, <1>5 DEF BuildFun
<1>8. 0 \in P
  <2>1. Released(rs, 0) = {}
    BY DEF Released
  <2>2. QED
    BY Zenon, <2>1, <1>3, <1>7, NewBuddyOK
<1>9. ASSUME NEW m \in P PROVE m + 1 \in P
  <2>1. SUFFICES ASSUME m + 1 <= Len(rs) PROVE Good(m + 1)
    OBVIOUS
  <2>2. PICK i : i = m + 1
    BY Zenon
  <2>3. PICK start : start = AfterDesc(rs, i) - p
    BY Zenon
  <2>4. PICK count : count = rs[i].e - AfterDesc(rs, i)
    BY Zenon
  <2>5. i \in 1 .. Len(rs) /\ i \in 0 .. Len(rs) /\ i # 0 /\ i - 1 = m /\ m \in Nat /\ m <= Len(rs)
    BY <2>1, <2>2, <1>3
  <2>6. at[i] = AddFrames(at[m], start, count)
    BY Zenon, <2>3, <2>4, <2>5, <1>2, <1>7 DEF BuildStep
  <2>a. PICK a : a = AfterDesc(rs, i)
    BY Zenon
  <2>e. PICK e : e = rs[i].e
    BY Zenon
  <2>8. BuddyOK(at[m], n) /\ FreeFrames(at[m]) = Released(rs, m)
    BY Zenon, <2>5
  <2> HIDE DEF P
  <2>s. a \in Nat /\ e \in Nat /\ p <= a /\ a <= e /\ e - p <= n
    <3>1. PICK s : s = rs[i].s
      BY Zenon
    <3>2. PICK last : last = rs[Len(rs)].e
      BY Zenon
    <3>3. /\ s \in Nat /\ a \in Nat /\ e \in Nat /\ p <= s /\ s <= a /\ a <= e
          /\ e <= last /\ last \in Nat /\ n = last - p /\ p \in Nat
      BY Zenon, <3>1, <3>2, <2>a, <2>e, <2>5, <1>3
    <3>4. QED
      BY <3>3
  <2>7. start \in Nat /\ count \in Nat /\ start + count <= n /\ start + count = e - p
    <3>1. start = a - p /\ count = e - a /\ p \in Nat /\ n \in Nat
      BY Zenon, <2>a, <2>e, <2>3, <2>4, <1>3
    <3>2. QED
      BY <3>1, <2>s
  <2>9. (start .. start + count - 1) \cap Released(rs, m) = {}
    <3>1. SUFFICES ASSUME NEW f \in Int, start <= f, NEW j \in 1 .. m, p + f < rs[j].e
                   PROVE  FALSE
      BY <2>7, <1>2 DEF Released
    <3>2. j \in 1 .. Len(rs) /\ j < i
      BY <2>2, <2>5
    <3>3. rs[j].e <= rs[i].s
      BY Zenon, <3>2, <2>5, <1>4
    <3>4. PICK x : x = rs[j].e
      OBVIOUS
    <3>5. PICK y : y = rs[i].s
      OBVIOUS
    <3>6. /\ x \in Nat /\ y \in Nat /\ x <= y /\ y <= a /\ start = a - p /\ p \in Nat
          /\ f \in Int /\ start <= f /\ p + f < x
      BY Zenon, <3>1, <3>2, <3>3, <3>4, <3>5, <2>a, <2>3, <2>5, <1>3
    <3>7. QED
      BY <3>6, <2>s
  <2>10. Added(at[m], at[i], n, start, count)
    BY <2>6, <2>7, <2>8, <2>9, <1>3, AddFramesOK
  <2>11. Released(rs, i) = Released(rs, m) \cup (start .. start + count - 1)
    <3>1. \A f \in Int : (a <= p + f /\ p + f < e) <=> f \in start .. start + count - 1
      <4>1. start = a - p /\ p \in Nat
        BY Zenon, <2>a, <2>3, <1>3
      <4>2. QED
        BY <4>1, <2>s, <2>7
    <3>2. 1 .. i = (1 .. m) \cup {i}
      BY <2>2, <2>5
    <3>3. start .. start + count - 1 \subseteq Int
      BY <2>7
    <3>4. QED
      BY Zenon, <3>1, <3>2, <3>3, <2>a, <2>e, <1>2 DEF Released
  <2>12. Good(i)
    BY Zenon, <2>8, <2>10, <2>11 DEF Added
  <2>13. QED
    BY Zenon, <2>2, <2>12
<1>10. P \in SUBSET Nat
  BY Zenon
<1>11. P = Nat
  <2> HIDE DEF P
  <2> QED
    BY Zenon, <1>8, <1>9, <1>10, NatSetInduction
<1>12. Good(Len(rs))
  BY <1>3, <1>11
<1>13. QED
  BY Zenon, <1>1, <1>3, <1>6, <1>12

-----------------------------------------------------------------------------
(* What the map offers.                                                    *)

Usable == {f \in Offered : f < HhdmMax} \ DescArray

(* It is read off the map, which no step changes.                          *)
LEMMA UsableKept ==
  ASSUME map' = map
  PROVE  Usable' = Usable /\ Ranges' = Ranges
<1>1. RegionSlice' = RegionSlice
  BY Zenon DEF RegionSlice
<1>2. Collected' = Collected
  BY Zenon, <1>1 DEF Collected
<1>3. Ranges' = Ranges
  BY Zenon, <1>1, <1>2 DEF Ranges
<1>4. Offered' = Offered
  BY Zenon, <1>1 DEF Offered
<1>5. DescArray' = DescArray
  BY Zenon, <1>3 DEF DescArray
<1>6. QED
  BY Zenon, <1>3, <1>4, <1>5 DEF Usable

Region == [usable : BOOLEAN, aligned : BOOLEAN, base : Nat, pages : Nat]
RangeRec == [s : Nat, e : Nat]

(* The range x is what region r offers.                                     *)
Offers(r, x) ==
  /\ r.usable /\ r.aligned /\ r.base + r.pages <= U64Max /\ r.pages # 0
  /\ x.s = r.base /\ x.e = Min({r.base + r.pages, HhdmMax}) /\ x.s < x.e

(* min() of two frame numbers.                                             *)
LEMMA LesserOf ==
  ASSUME NEW a \in Nat, NEW b \in Nat
  PROVE  Min({a, b}) \in Nat /\ Min({a, b}) = IF a <= b THEN a ELSE b
<1>1. Min({a, b}) \in {a, b} /\ \A x \in {a, b} : Min({a, b}) <= x
  BY Zenon, MinOf
<1>2. QED
  BY <1>1

(* region_slice is a list of regions.                                      *)
LEMMA SliceOK ==
  ASSUME map \in Maps
  PROVE  RegionSlice \in Seq(Region) /\ Len(RegionSlice) \in Nat
<1>1. map \in Seq(Region) /\ MaxRegions \in Nat /\ Len(map) \in Nat
  BY MemoryAssumption DEF Region
<1>2. PICK k : k = Min({Len(map), MaxRegions})
  BY Zenon
<1>3. k \in Nat /\ k <= Len(map)
  BY <1>1, <1>2, LesserOf
<1>4. SubSeq(map, 1, k) \in Seq(Region)
  BY <1>1, <1>3
<1>5. RegionSlice \in Seq(Region)
  BY Zenon, <1>2, <1>4 DEF RegionSlice
<1>6. QED
  BY <1>5

(* usable_frames returns what a region offers, or nothing.                  *)
LEMMA UsableFramesOK ==
  ASSUME NEW r \in Region
  PROVE  LET c == IF r.usable THEN UsableFrames(r) ELSE <<>>
         IN  c \in Seq(RangeRec) /\ Range(c) = {x \in RangeRec : Offers(r, x)}
<1>1. PICK e : e = Min({r.base + r.pages, HhdmMax})
  BY Zenon
<1>2. r.base \in Nat /\ r.pages \in Nat /\ HhdmMax \in Nat /\ U64Max \in Nat /\ e \in Nat
  BY <1>1, LesserOf, MemoryAssumption DEF Region
<1> DEFINE y == [s |-> r.base, e |-> e]
           c == IF r.usable THEN UsableFrames(r) ELSE <<>>
<1>3. y \in RangeRec /\ \A x \in RangeRec : x = y <=> (x.s = r.base /\ x.e = e)
  BY <1>2 DEF RangeRec
<1>4. CASE r.usable /\ r.aligned /\ r.base + r.pages <= U64Max /\ r.pages # 0 /\ r.base < e
  <2>1. UsableFrames(r) = <<y>>
    BY <1>1, <1>2, <1>4 DEF UsableFrames, Clamp
  <2>2. {x \in RangeRec : Offers(r, x)} = {y}
    BY Zenon, <1>1, <1>3, <1>4 DEF Offers
  <2> HIDE DEF y
  <2>3. <<y>> \in Seq(RangeRec) /\ Range(<<y>>) = {y}
    BY <1>3 DEF Range
  <2>4. QED
    BY Zenon, <2>1, <2>2, <2>3, <1>4
<1>5. CASE ~(r.usable /\ r.aligned /\ r.base + r.pages <= U64Max /\ r.pages # 0 /\ r.base < e)
  <2>1. c = <<>>
    BY <1>1, <1>2, <1>5 DEF UsableFrames, Clamp
  <2>2. {x \in RangeRec : Offers(r, x)} = {}
    BY Zenon, <1>1, <1>5 DEF Offers
  <2>3. <<>> \in Seq(RangeRec) /\ Range(<<>>) = {}
    BY DEF Range
  <2>4. QED
    BY Zenon, <2>1, <2>2, <2>3
<1>6. QED
  BY Zenon, <1>4, <1>5

(* Two lists one after the other.                                          *)
LEMMA ConcatRange ==
  ASSUME NEW s \in Seq(RangeRec), NEW t \in Seq(RangeRec)
  PROVE  s \o t \in Seq(RangeRec) /\ Range(s \o t) = Range(s) \cup Range(t)
<1>1. /\ s \o t \in Seq(RangeRec) /\ Len(s) \in Nat /\ Len(t) \in Nat
      /\ DOMAIN s = 1 .. Len(s) /\ DOMAIN t = 1 .. Len(t) /\ DOMAIN (s \o t) = 1 .. Len(s) + Len(t)
      /\ \A i \in 1 .. Len(s) + Len(t) : (s \o t)[i] = IF i <= Len(s) THEN s[i] ELSE t[i - Len(s)]
  OBVIOUS
<1>2. \A i \in 1 .. Len(t) : Len(s) + i \in 1 .. Len(s) + Len(t) /\ (s \o t)[Len(s) + i] = t[i]
  BY <1>1
<1>3. \A i \in 1 .. Len(s) : i \in 1 .. Len(s) + Len(t) /\ (s \o t)[i] = s[i]
  BY <1>1
<1>4. \A i \in 1 .. Len(s) + Len(t) :
        (i \in 1 .. Len(s)) \/ (i - Len(s) \in 1 .. Len(t) /\ (s \o t)[i] = t[i - Len(s)])
  BY <1>1
<1>5. ASSUME NEW x \in Range(s \o t) PROVE x \in Range(s) \cup Range(t)
  <2>1. PICK i \in 1 .. Len(s) + Len(t) : x = (s \o t)[i]
    BY Zenon, <1>1 DEF Range
  <2>2. QED
    BY Zenon, <2>1, <1>1, <1>3, <1>4 DEF Range
<1>6. ASSUME NEW x \in Range(s) \cup Range(t) PROVE x \in Range(s \o t)
  <2>1. CASE x \in Range(s)
    <3>1. PICK i \in 1 .. Len(s) : x = s[i]
      BY Zenon, <2>1, <1>1 DEF Range
    <3>2. QED
      BY Zenon, <3>1, <1>1, <1>3 DEF Range
  <2>2. CASE x \in Range(t)
    <3>1. PICK i \in 1 .. Len(t) : x = t[i]
      BY Zenon, <2>2, <1>1 DEF Range
    <3>2. QED
      BY Zenon, <3>1, <1>1, <1>2 DEF Range
  <2>3. QED
    BY Zenon, <1>6, <2>1, <2>2
<1>7. QED
  BY Zenon, <1>1, <1>5, <1>6

(* What init collects: the ranges the regions looked at offer.              *)
LEMMA CollectedOK ==
  ASSUME map \in Maps
  PROVE  LET c == Collected[Len(RegionSlice)]
         IN  /\ c \in Seq(RangeRec)
             /\ Range(c) = {x \in RangeRec : \E j \in 1 .. Len(RegionSlice) : Offers(RegionSlice[j], x)}
<1>1. PICK L : L = Len(RegionSlice)
  BY Zenon
<1>2. L \in Nat /\ \A j \in 1 .. L : RegionSlice[j] \in Region
  BY <1>1, SliceOK
<1> DEFINE Of(i) == {x \in RangeRec : \E j \in 1 .. i : Offers(RegionSlice[j], x)}
           Good(i) == Collected[i] \in Seq(RangeRec) /\ Range(Collected[i]) = Of(i)
           P == {m \in Nat : m <= L => Good(m)}
<1>3. CollectFun(L, Collected)
  <2>1. \E f : CollectFun(L, f)
    BY Zenon, CollectExists, <1>2
  <2>2. Collected = CHOOSE f : CollectFun(L, f)
    BY Zenon, <1>1 DEF Collected, CollectFun, CollectedAt
  <2>3. QED
    BY Zenon, <2>1, <2>2
<1>4. /\ Collected[0] = <<>>
      /\ \A i \in 1 .. L : Collected[i] = Collected[i - 1] \o CollectedAt(i)
  <2>1. 0 \in 0 .. L /\ \A i \in 1 .. L : i \in 0 .. L /\ i # 0
    BY <1>2
  <2>2. \A i \in 0 .. L : Collected[i] = IF i = 0 THEN <<>> ELSE Collected[i - 1] \o CollectedAt(i)
    BY Zenon, <1>3 DEF CollectFun
  <2>3. QED
    BY Zenon, <2>1, <2>2
<1>5. 0 \in P
  <2>1. Of(0) = {}
    OBVIOUS
  <2>2. <<>> \in Seq(RangeRec) /\ Range(<<>>) = {}
    BY DEF Range
  <2> HIDE DEF Of
  <2>3. QED
    BY Zenon, <2>1, <2>2, <1>4
<1>6. ASSUME NEW m \in P PROVE m + 1 \in P
  <2>1. SUFFICES ASSUME m + 1 <= L PROVE Good(m + 1)
    OBVIOUS
  <2>2. PICK i : i = m + 1
    BY Zenon
  <2>3. i \in 1 .. L /\ i - 1 = m /\ m <= L /\ 1 .. i = (1 .. m) \cup {i}
    BY <2>1, <2>2, <1>2
  <2>4. Good(m)
    BY Zenon, <2>3
  <2>5. /\ CollectedAt(i) \in Seq(RangeRec)
        /\ Range(CollectedAt(i)) = {x \in RangeRec : Offers(RegionSlice[i], x)}
    BY Zenon, <2>3, <1>2, UsableFramesOK DEF CollectedAt
  <2>6. Collected[i] = Collected[m] \o CollectedAt(i)
    BY Zenon, <2>3, <1>4
  <2>7. Collected[i] \in Seq(RangeRec) /\ Range(Collected[i]) = Of(m) \cup Range(CollectedAt(i))
    BY Zenon, <2>4, <2>5, <2>6, ConcatRange
  <2>8. Of(i) = Of(m) \cup Range(CollectedAt(i))
    BY Zenon, <2>3, <2>5
  <2>9. QED
    BY Zenon, <2>2, <2>7, <2>8
<1>7. P \in SUBSET Nat
  BY Zenon
<1>8. P = Nat
  <2> HIDE DEF P
  <2> QED
    BY Zenon, <1>5, <1>6, <1>7, NatSetInduction
<1>9. Good(L)
  BY <1>2, <1>8
<1>10. QED
  BY Zenon, <1>1, <1>9

(* What is behind the p-th element.                                        *)
LEMMA RestOf ==
  ASSUME NEW S, NEW rs \in Seq(S), NEW p \in 0 .. Len(rs)
  PROVE  /\ SubSeq(rs, p + 1, Len(rs)) \in Seq(S)
         /\ Len(SubSeq(rs, p + 1, Len(rs))) = Len(rs) - p
OBVIOUS

(* Insertion adds the range and nothing else.                               *)
LEMMA InOrderOK ==
  ASSUME NEW rs \in Seq(RangeRec), NEW r \in RangeRec
  PROVE  InOrder(rs, r) \in Seq(RangeRec) /\ Range(InOrder(rs, r)) = Range(rs) \cup {r}
<1>1. PICK p : p = Max({0} \cup {i \in DOMAIN rs : rs[i].s <= r.s})
  BY Zenon
<1>2. Len(rs) \in Nat /\ DOMAIN rs = 1 .. Len(rs) /\ p \in 0 .. Len(rs)
  <2>1. Len(rs) \in Nat /\ DOMAIN rs = 1 .. Len(rs)
    OBVIOUS
  <2> DEFINE T == {0} \cup {i \in DOMAIN rs : rs[i].s <= r.s}
  <2>2. T \in SUBSET (0 .. Len(rs)) /\ T # {}
    BY <2>1
  <2> HIDE DEF T
  <2>3. Max(T) \in T
    BY Zenon, <2>1, <2>2, MaxOf
  <2>4. QED
    BY Zenon, <2>1, <2>2, <2>3, <1>1 DEF T
<1>3. PICK a : a = SubSeq(rs, 1, p)
  BY Zenon
<1>4. PICK c : c = SubSeq(rs, p + 1, Len(rs))
  BY Zenon
<1>5. /\ a \in Seq(RangeRec) /\ Len(a) = p /\ \A i \in 1 .. p : a[i] = rs[i]
      /\ DOMAIN a = 1 .. p
  BY <1>2, <1>3
<1>6. /\ c \in Seq(RangeRec) /\ Len(c) = Len(rs) - p /\ \A i \in 1 .. Len(rs) - p : c[i] = rs[p + i]
      /\ DOMAIN c = 1 .. Len(rs) - p
  <2>1. c \in Seq(RangeRec) /\ Len(c) = Len(rs) - p
    BY Zenon, <1>2, <1>4, RestOf
  <2>2. DOMAIN c = 1 .. Len(rs) - p
    BY <2>1
  <2>3. ASSUME NEW i \in 1 .. Len(rs) - p PROVE c[i] = rs[p + i]
    <3>1. p + 1 + i - 1 = p + i
      BY <1>2
    <3>2. c[i] = rs[p + 1 + i - 1]
      BY <1>2, <1>4
    <3>3. QED
      BY Zenon, <3>1, <3>2
  <2>4. QED
    BY Zenon, <2>1, <2>2, <2>3
<1>7. Range(rs) = Range(a) \cup Range(c)
  <2>1. \A i \in 1 .. p : i \in 1 .. Len(rs)
    BY <1>2
  <2>2. \A i \in 1 .. Len(rs) - p : p + i \in 1 .. Len(rs)
    BY <1>2
  <2>3. \A i \in 1 .. Len(rs) : i \in 1 .. p \/ (i - p \in 1 .. Len(rs) - p /\ rs[i] = c[i - p])
    BY <1>2, <1>6
  <2>4. ASSUME NEW x \in Range(rs) PROVE x \in Range(a) \cup Range(c)
    <3>1. PICK i \in 1 .. Len(rs) : x = rs[i]
      BY Zenon, <1>2 DEF Range
    <3>2. QED
      BY Zenon, <3>1, <2>3, <1>5, <1>6 DEF Range
  <2>5. Range(a) \subseteq Range(rs)
    BY Zenon, <2>1, <1>2, <1>5 DEF Range
  <2>6. Range(c) \subseteq Range(rs)
    BY Zenon, <2>2, <1>2, <1>6 DEF Range
  <2>7. QED
    BY Zenon, <2>4, <2>5, <2>6
<1>8. <<r>> \in Seq(RangeRec) /\ Range(<<r>>) = {r}
  BY DEF Range
<1>9. a \o <<r>> \in Seq(RangeRec) /\ Range(a \o <<r>>) = Range(a) \cup {r}
  BY ZenonT(30), <1>5, <1>8, ConcatRange
<1>10. (a \o <<r>>) \o c \in Seq(RangeRec) /\ Range((a \o <<r>>) \o c) = (Range(a) \cup {r}) \cup Range(c)
  BY Zenon, <1>6, <1>9, ConcatRange
<1>11. InOrder(rs, r) = (a \o <<r>>) \o c
  BY Zenon, <1>1, <1>3, <1>4 DEF InOrder
<1>12. QED
  BY Zenon, <1>7, <1>10, <1>11

(* Sorting loses no range and invents none.                                 *)
LEMMA SortOK ==
  ASSUME NEW rs \in Seq(RangeRec)
  PROVE  SortByStart(rs) \in Seq(RangeRec) /\ Range(SortByStart(rs)) = Range(rs)
<1>1. Len(rs) \in Nat /\ DOMAIN rs = 1 .. Len(rs) /\ \A i \in 1 .. Len(rs) : rs[i] \in RangeRec
  OBVIOUS
<1> DEFINE at == CHOOSE f : SortFun(rs, Len(rs), f)
           Of(i) == {rs[j] : j \in 1 .. i}
           Good(i) == at[i] \in Seq(RangeRec) /\ Range(at[i]) = Of(i)
           P == {m \in Nat : m <= Len(rs) => Good(m)}
<1>2. SortFun(rs, Len(rs), at)
  <2>1. \E f : SortFun(rs, Len(rs), f)
    BY Zenon, SortExists, <1>1
  <2>2. QED
    BY Zenon, <2>1
<1>3. SortByStart(rs) = at[Len(rs)]
  BY Zenon DEF SortByStart, SortFun
<1> HIDE DEF at
<1>4. /\ at[0] = <<>>
      /\ \A i \in 1 .. Len(rs) : at[i] = InOrder(at[i - 1], rs[i])
  <2>1. 0 \in 0 .. Len(rs) /\ \A i \in 1 .. Len(rs) : i \in 0 .. Len(rs) /\ i # 0
    BY <1>1
  <2>2. \A i \in 0 .. Len(rs) : at[i] = IF i = 0 THEN <<>> ELSE InOrder(at[i - 1], rs[i])
    BY Zenon, <1>2 DEF SortFun
  <2>3. QED
    BY Zenon, <2>1, <2>2
<1>5. 0 \in P
  <2>1. Of(0) = {}
    OBVIOUS
  <2>2. <<>> \in Seq(RangeRec) /\ Range(<<>>) = {}
    BY DEF Range
  <2> HIDE DEF Of
  <2>3. QED
    BY Zenon, <2>1, <2>2, <1>4
<1>6. ASSUME NEW m \in P PROVE m + 1 \in P
  <2>1. SUFFICES ASSUME m + 1 <= Len(rs) PROVE Good(m + 1)
    OBVIOUS
  <2>2. PICK i : i = m + 1
    BY Zenon
  <2>3. i \in 1 .. Len(rs) /\ i - 1 = m /\ m <= Len(rs) /\ 1 .. i = (1 .. m) \cup {i}
    BY <2>1, <2>2, <1>1
  <2>4. Good(m)
    BY Zenon, <2>3
  <2>5. at[i] = InOrder(at[m], rs[i])
    BY Zenon, <2>3, <1>4
  <2>6. at[i] \in Seq(RangeRec) /\ Range(at[i]) = Of(m) \cup {rs[i]}
    <3>1. rs[i] \in RangeRec /\ at[m] \in Seq(RangeRec) /\ Range(at[m]) = Of(m)
      BY Zenon, <2>3, <2>4, <1>1
    <3> HIDE DEF Of
    <3>2. QED
      BY Zenon, <3>1, <2>5, InOrderOK
  <2>7. Of(i) = Of(m) \cup {rs[i]}
    BY Zenon, <2>3
  <2>8. QED
    BY Zenon, <2>2, <2>6, <2>7
<1>7. P \in SUBSET Nat
  BY Zenon
<1>8. P = Nat
  <2> HIDE DEF P
  <2> QED
    BY Zenon, <1>5, <1>6, <1>7, NatSetInduction
<1>9. Good(Len(rs))
  <2> HIDE DEF P
  <2>1. Len(rs) <= Len(rs) /\ Len(rs) \in P
    BY <1>1, <1>8
  <2>2. QED
    BY Zenon, <2>1 DEF P
<1>10. Of(Len(rs)) = Range(rs)
  BY Zenon, <1>1 DEF Range
<1>11. QED
  BY Zenon, <1>3, <1>9, <1>10

(* The ranges init works on are those the regions of the map offer.         *)
LEMMA RangesAre ==
  ASSUME map \in Maps
  PROVE  /\ RangesOK(Ranges)
         /\ Range(Ranges) = {x \in RangeRec : \E j \in 1 .. Len(RegionSlice) : Offers(RegionSlice[j], x)}
<1>1. PICK c : c = Collected[Len(RegionSlice)]
  BY Zenon
<1>2. /\ c \in Seq(RangeRec)
      /\ Range(c) = {x \in RangeRec : \E j \in 1 .. Len(RegionSlice) : Offers(RegionSlice[j], x)}
  BY Zenon, <1>1, CollectedOK
<1>3. Ranges = SortByStart(c)
  BY Zenon, <1>1 DEF Ranges
<1>4. Ranges \in Seq(RangeRec) /\ Range(Ranges) = Range(c)
  BY Zenon, <1>2, <1>3, SortOK
<1>5. ASSUME NEW i \in DOMAIN Ranges PROVE RangeOK(Ranges[i])
  <2>1. Ranges[i] \in Range(Ranges)
    BY Zenon DEF Range
  <2>2. Ranges[i] \in RangeRec /\ Ranges[i].s < Ranges[i].e
    BY Zenon, <2>1, <1>2, <1>4 DEF Offers
  <2>3. QED
    BY Zenon, <2>2 DEF RangeOK, RangeRec
<1>6. QED
  BY Zenon, <1>2, <1>4, <1>5 DEF RangesOK, RangeRec

(* They cover exactly the frames offered inside the mapped window.           *)
LEMMA RangesCover ==
  ASSUME map \in Maps, NEW y
  PROVE  y \in {f \in Offered : f < HhdmMax}
           <=> y \in Int /\ \E j \in DOMAIN Ranges : Ranges[j].s <= y /\ y < Ranges[j].e
<1>1. RegionSlice \in Seq(Region) /\ Len(RegionSlice) \in Nat
  BY Zenon, SliceOK
<1>2. DOMAIN RegionSlice = 1 .. Len(RegionSlice) /\ \A k \in 1 .. Len(RegionSlice) : RegionSlice[k] \in Region
  BY <1>1
<1>3. Range(Ranges) = {x \in RangeRec : \E j \in 1 .. Len(RegionSlice) : Offers(RegionSlice[j], x)}
  BY Zenon, RangesAre
<1>4. HhdmMax \in Nat /\ U64Max \in Nat
  BY Zenon, MemoryAssumption
<1>5. y \in Offered <=> \E k \in 1 .. Len(RegionSlice) :
           /\ RegionSlice[k].usable /\ RegionSlice[k].aligned
           /\ RegionSlice[k].base + RegionSlice[k].pages <= U64Max
           /\ y \in RegionSlice[k].base .. RegionSlice[k].base + RegionSlice[k].pages - 1
  BY Zenon, <1>2 DEF Offered
<1>6. ASSUME y \in Offered, y < HhdmMax
      PROVE  y \in Int /\ \E j \in DOMAIN Ranges : Ranges[j].s <= y /\ y < Ranges[j].e
  <2>1. PICK k \in 1 .. Len(RegionSlice) :
           /\ RegionSlice[k].usable /\ RegionSlice[k].aligned
           /\ RegionSlice[k].base + RegionSlice[k].pages <= U64Max
           /\ y \in RegionSlice[k].base .. RegionSlice[k].base + RegionSlice[k].pages - 1
    BY Zenon, <1>5, <1>6
  <2>2. PICK r : r = RegionSlice[k]
    BY Zenon
  <2>3. PICK e : e = Min({r.base + r.pages, HhdmMax})
    BY Zenon
  <2>4. r.base \in Nat /\ r.pages \in Nat /\ r \in Region
    BY Zenon, <2>2, <1>2 DEF Region
  <2>5. e \in Nat /\ e = IF r.base + r.pages <= HhdmMax THEN r.base + r.pages ELSE HhdmMax
    BY <2>3, <2>4, <1>4, LesserOf
  <2>6. y \in Int /\ r.base <= y /\ y < e /\ r.pages # 0 /\ r.base < e
    <3>1. PICK a : a = r.base
      BY Zenon
    <3>2. PICK w : w = r.pages
      BY Zenon
    <3>3. /\ y \in a .. a + w - 1 /\ a \in Nat /\ w \in Nat /\ y < HhdmMax /\ HhdmMax \in Nat
          /\ e = IF a + w <= HhdmMax THEN a + w ELSE HhdmMax
      BY Zenon, <3>1, <3>2, <2>1, <2>2, <2>4, <2>5, <1>4, <1>6
    <3>4. y \in Int /\ a <= y /\ y < e /\ w # 0 /\ a < e
      BY <3>3
    <3>5. QED
      BY Zenon, <3>1, <3>2, <3>4
  <2>7. PICK x : x = [s |-> r.base, e |-> e]
    BY Zenon
  <2>8. x \in RangeRec /\ x.s = r.base /\ x.e = e
    BY Zenon, <2>4, <2>5, <2>7 DEF RangeRec
  <2>9. x \in Range(Ranges)
    BY Zenon, <2>1, <2>2, <2>3, <2>6, <2>8, <1>3 DEF Offers
  <2>10. QED
    BY Zenon, <2>6, <2>8, <2>9 DEF Range
<1>7. ASSUME y \in Int, NEW j \in DOMAIN Ranges, Ranges[j].s <= y, y < Ranges[j].e
      PROVE  y \in Offered /\ y < HhdmMax
  <2>1. PICK x : x = Ranges[j]
    BY Zenon
  <2>2. x \in Range(Ranges)
    BY Zenon, <2>1 DEF Range
  <2>3. PICK k \in 1 .. Len(RegionSlice) : Offers(RegionSlice[k], x)
    BY Zenon, <2>2, <1>3
  <2>4. PICK r : r = RegionSlice[k]
    BY Zenon
  <2>5. r.base \in Nat /\ r.pages \in Nat
    BY Zenon, <2>4, <1>2 DEF Region
  <2>6. PICK e : e = x.e
    BY Zenon
  <2>7. /\ e = Min({r.base + r.pages, HhdmMax}) /\ x.s = r.base
        /\ r.usable /\ r.aligned /\ r.base + r.pages <= U64Max
    BY Zenon, <2>3, <2>4, <2>6 DEF Offers
  <2>8. e \in Nat /\ e = IF r.base + r.pages <= HhdmMax THEN r.base + r.pages ELSE HhdmMax
    BY <2>5, <2>7, <1>4, LesserOf
  <2>9. r.base <= y /\ y < e
    BY Zenon, <2>1, <2>6, <2>7, <1>7
  <2>10. y \in r.base .. r.base + r.pages - 1 /\ y < HhdmMax
    BY <2>5, <2>8, <2>9, <1>4, <1>7
  <2>11. QED
    BY Zenon, <2>4, <2>7, <2>10, <1>5
<1>8. QED
  BY Zenon, <1>6, <1>7

(* What init releases is what is usable.                                    *)
LEMMA BuiltUsable ==
  ASSUME map \in Maps, ~Malformed(Ranges)
  PROVE  /\ Ranges[1].s \in Nat
         /\ \E n \in Nat : BuddyOK(Built(Ranges), n)
         /\ {Ranges[1].s + f : f \in FreeFrames(Built(Ranges))} = Usable
         /\ Usable \subseteq Nat
<1>1. PICK rs : rs = Ranges
  BY Zenon
<1>2. PICK h : h = Min(DescHosts(rs))
  BY Zenon
<1>3. PICK d : d = DescFrames(rs)
  BY Zenon
<1>4. PICK p : p = rs[1].s
  BY Zenon
<1>5. RangesOK(rs) /\ ~Malformed(rs)
  BY Zenon, <1>1, RangesAre
<1>6. /\ Len(rs) \in Nat /\ DOMAIN rs = 1 .. Len(rs) /\ 1 \in DOMAIN rs /\ d \in Nat /\ h \in DOMAIN rs
      /\ \A i \in DOMAIN rs : /\ AfterDesc(rs, i) \in Nat
                              /\ rs[i].s <= AfterDesc(rs, i) /\ AfterDesc(rs, i) <= rs[i].e
                              /\ p <= rs[i].s
                              /\ rs[i].s \in Nat /\ rs[i].e \in Nat
  BY Zenon, <1>2, <1>3, <1>4, <1>5, DescFits
<1>7. p \in Nat
  BY Zenon, <1>4, <1>6
<1>8. \A i, j \in DOMAIN rs : i < j => rs[i].e <= rs[j].s
  BY Zenon, <1>5, RangesApart DEF Malformed
<1>9. \A i \in DOMAIN rs : AfterDesc(rs, i) = IF i = h THEN rs[i].s + d ELSE rs[i].s
  BY Zenon, <1>2, <1>3 DEF AfterDesc
<1>10. SpanOf(rs) \in Nat /\ BuddyOK(Built(rs), SpanOf(rs)) /\ FreeFrames(Built(rs)) = Released(rs, Len(rs))
  BY Zenon, <1>5, BuiltOK
<1> DEFINE L == {p + f : f \in Released(rs, Len(rs))}
           R(y) == y \in Int /\ \E j \in DOMAIN rs : AfterDesc(rs, j) <= y /\ y < rs[j].e
           U(y) == y \in Int /\ \E j \in DOMAIN rs : rs[j].s <= y /\ y < rs[j].e
           D == rs[h].s .. rs[h].s + d - 1
<1>11. \A y : y \in L <=> R(y)
  <2>1. ASSUME NEW f \in Released(rs, Len(rs)) PROVE R(p + f)
    <3>1. f \in Int /\ \E j \in 1 .. Len(rs) : AfterDesc(rs, j) <= p + f /\ p + f < rs[j].e
      BY Zenon, <1>4 DEF Released
    <3>2. p + f \in Int
      BY <3>1, <1>7
    <3>3. QED
      BY Zenon, <3>1, <3>2, <1>6
  <2>2. ASSUME NEW y, R(y) PROVE y \in L
    <3>1. y - p \in Int /\ p + (y - p) = y
      BY <2>2, <1>7
    <3>2. y - p \in Released(rs, Len(rs))
      BY Zenon, <3>1, <2>2, <1>4, <1>6 DEF Released
    <3>3. QED
      BY Zenon, <3>1, <3>2
  <2>3. QED
    BY Zenon, <2>1, <2>2
<1>12. ASSUME NEW y, R(y) PROVE U(y) /\ y \notin D
  <2>1. PICK j \in DOMAIN rs : AfterDesc(rs, j) <= y /\ y < rs[j].e
    BY Zenon, <1>12
  <2>2. y \in Int /\ rs[j].s <= y /\ y < rs[j].e
    BY <2>1, <1>6, <1>12
  <2>3. CASE j = h
    BY <2>1, <2>2, <2>3, <1>6, <1>9
  <2>4. CASE j # h
    <3>1. rs[j].e <= rs[h].s \/ rs[h].e <= rs[j].s
      BY SMTT(30), <2>4, <1>6, <1>8
    <3>2. rs[h].s \in Nat /\ rs[h].e \in Nat /\ rs[j].s \in Nat /\ rs[h].s + d <= rs[h].e
      BY Zenon, <1>6, <1>9
    <3>3. y \notin D
      <4>1. PICK s : s = rs[h].s
        OBVIOUS
      <4>2. PICK e : e = rs[h].e
        OBVIOUS
      <4>3. PICK k : k = rs[j].s
        OBVIOUS
      <4>4. PICK l : l = rs[j].e
        OBVIOUS
      <4>5. /\ y \in Int /\ k <= y /\ y < l /\ (l <= s \/ e <= k)
            /\ s \in Nat /\ e \in Nat /\ k \in Nat /\ l \in Nat /\ s + d <= e /\ d \in Nat
        BY Zenon, <4>1, <4>2, <4>3, <4>4, <2>2, <3>1, <3>2, <1>6
      <4>6. y \notin s .. s + d - 1
        BY <4>5
      <4>7. QED
        BY Zenon, <4>1, <4>6
    <3>4. QED
      BY Zenon, <2>2, <3>3
  <2>5. QED
    BY Zenon, <2>3, <2>4
<1>13. ASSUME NEW y, U(y), y \notin D PROVE R(y)
  <2>1. PICK j \in DOMAIN rs : rs[j].s <= y /\ y < rs[j].e
    BY Zenon, <1>13
  <2>2. AfterDesc(rs, j) <= y
    <3>1. CASE j = h
      <4>1. PICK s : s = rs[h].s
        BY Zenon
      <4>2. y \in Int /\ y \notin s .. s + d - 1 /\ s <= y /\ s \in Nat /\ d \in Nat
        BY Zenon, <4>1, <3>1, <2>1, <1>6, <1>13
      <4>3. s + d <= y
        BY <4>2
      <4>4. QED
        BY Zenon, <4>1, <4>3, <3>1, <1>9
    <3>2. CASE j # h
      BY Zenon, <3>2, <2>1, <1>9
    <3>3. QED
      BY Zenon, <3>1, <3>2
  <2>3. QED
    BY Zenon, <2>1, <2>2, <1>13
<1> HIDE DEF L
<1>14. \A y : y \in Usable <=> U(y) /\ y \notin D
  <2>1. DescArray = D
    BY Zenon, <1>1, <1>2, <1>3 DEF DescArray
  <2>2. \A y : y \in {f \in Offered : f < HhdmMax} <=> U(y)
    BY Zenon, <1>1, RangesCover
  <2> HIDE DEF U, D
  <2>3. QED
    BY Zenon, <2>1, <2>2 DEF Usable
<1>15. L = Usable
  <2> HIDE DEF R, U, D
  <2> QED
    BY Zenon, <1>11, <1>12, <1>13, <1>14
<1>16. Usable \subseteq Nat
  <2>1. SUFFICES ASSUME NEW y, U(y) PROVE y \in Nat
    BY Zenon, <1>14
  <2>2. QED
    BY <2>1, <1>6
<1>17. QED
  BY Zenon, <1>1, <1>4, <1>7, <1>10, <1>15, <1>16 DEF L

-----------------------------------------------------------------------------
(* What a step of the kernel is to the pool.                                *)

Filled == Handed = {} /\ Pool = {} /\ Handed' = {} /\ Pool' = Usable /\ Usable \subseteq Nat
Took   == \E g : Taken(g) /\ Handed' = Handed \cup {g} /\ Built0
Gave   == \E g \in Handed : GivenBack(g) /\ Handed' = Handed \ {g} /\ Built0
Idle   == Pool' = Pool /\ Handed' = Handed /\ (Built0' => Built0)

Moved == MemInv' /\ map' = map /\ (Filled \/ Took \/ Gave \/ Idle)

(* Nothing is handed out before frames::init.                               *)
LEMMA MemInit == Init => MemInv
<1>1. SUFFICES ASSUME Init PROVE MemInv
  BY Zenon
<1>2. /\ map \in Maps /\ phase = "boot" /\ buddy = NewBuddy(0) /\ basePfn = 0
      /\ held = {} /\ kept = {}
  BY Zenon, <1>1 DEF Init
<1>3. PhaseInv
  BY Zenon, <1>2 DEF PhaseInv
<1>4. Handed = {}
  BY Zenon, <1>2 DEF Handed
<1>5. 0 \in Nat /\ BuddyOK(NewBuddy(0), 0)
  BY Zenon, NewBuddyOK
<1>6. Spans(0)
  BY Zenon, <1>2, <1>4, <1>5 DEF Spans
<1>7. PoolInv
  BY Zenon, <1>2, <1>4, <1>5, <1>6 DEF PoolInv
<1>8. QED
  BY Zenon, <1>2, <1>3, <1>7 DEF MemInv

(* A step that leaves the allocator and the blocks alone.                   *)
LEMMA IdleStep ==
  ASSUME MemInv, UNCHANGED <<map, buddy, basePfn, held, kept>>, PhaseInv', Built0' => Built0
  PROVE  Moved
<1>1. Handed' = Handed
  BY Zenon DEF Handed
<1>2. Pool' = Pool
  BY Zenon DEF Pool
<1>3. PoolInv'
  BY Zenon, <1>1 DEF MemInv, PoolInv, Spans, Inside, Offset
<1>4. QED
  BY Zenon, <1>1, <1>2, <1>3 DEF Moved, Idle, MemInv

(* A step that allocates a block.                                           *)
LEMMA TakeStep ==
  ASSUME MemInv, NEW o \in Orders, AllocFrames(o), UNCHANGED <<map, basePfn>>, Built0,
         Handed' = Handed \cup {Given(o)}, Given(o) \notin Handed => PhaseInv'
  PROVE  Moved
<1>1. Taken(Given(o))
  BY Zenon, AllocStep DEF MemInv
<1>2. PoolInv' /\ Given(o) \notin Handed
  BY Zenon, <1>1 DEF Taken
<1>3. Took
  <2>1. PICK g : g = Given(o)
    BY Zenon
  <2>2. QED
    BY Zenon, <1>1 DEF Took
<1>4. QED
  BY Zenon, <1>2, <1>3 DEF Moved, MemInv

(* A step that frees a block.                                               *)
LEMMA GiveStep ==
  ASSUME MemInv, NEW blk \in Handed, FreeFramesOf(blk), UNCHANGED <<map, basePfn>>, Built0,
         Handed' = Handed \ {blk}, PhaseInv'
  PROVE  Moved
<1>1. GivenBack(blk)
  BY Zenon, FreeStep DEF MemInv
<1>2. PoolInv'
  BY Zenon, <1>1 DEF GivenBack
<1>3. QED
  BY Zenon, <1>1, <1>2 DEF Moved, MemInv, Gave

(* frames::init.                                                            *)
LEMMA InitMemoryMoves ==
  ASSUME MemInv, InitMemory
  PROVE  Moved
<1>1. /\ phase = "boot" /\ buddy = NewBuddy(0) /\ basePfn = 0 /\ held = {} /\ kept = {} /\ map \in Maps
      /\ map' = map /\ held' = {} /\ kept' = {}
  BY Zenon DEF MemInv, PhaseInv, InitMemory
<1>2. CASE Malformed(Ranges)
  <2>1. phase' = "halted" /\ UNCHANGED <<map, buddy, basePfn, held, kept>>
    BY Zenon, <1>2 DEF InitMemory
  <2>2. PhaseInv'
    BY Zenon, <1>1, <2>1 DEF PhaseInv
  <2>3. ~Built0'
    BY Zenon, <2>1 DEF Built0
  <2>4. QED
    BY Zenon, <2>1, <2>2, <2>3, IdleStep
<1>3. CASE ~Malformed(Ranges)
  <2>1. phase' = "paging" /\ basePfn' = Ranges[1].s /\ buddy' = Built(Ranges)
    BY Zenon, <1>3 DEF InitMemory
  <2>2. PhaseInv'
    BY Zenon, <1>1, <2>1 DEF PhaseInv
  <2>3. Handed = {} /\ Handed' = {}
    BY Zenon, <1>1 DEF Handed
  <2>4. /\ basePfn' \in Nat
        /\ \E n \in Nat : BuddyOK(buddy', n)
        /\ {basePfn' + f : f \in FreeFrames(buddy')} = Usable /\ Usable \subseteq Nat
    BY Zenon, <2>1, <1>1, <1>3, BuiltUsable
  <2>5. PICK n \in Nat : BuddyOK(buddy', n)
    BY Zenon, <2>4
  <2>6. Spans(n)'
    BY Zenon, <2>3, <2>5 DEF Spans
  <2>7. PoolInv'
    BY Zenon, <2>3, <2>4, <2>6 DEF PoolInv
  <2>8. Pool = {}
    <3>1. FreeFrames(buddy) = {}
      BY Zenon, <1>1, NewBuddyOK
    <3>2. QED
      BY Zenon, <3>1 DEF Pool
  <2>9. Pool' = Usable
    BY Zenon, <2>4 DEF Pool
  <2>10. Filled
    BY Zenon, <2>3, <2>4, <2>8, <2>9 DEF Filled
  <2>11. QED
    BY Zenon, <1>1, <2>2, <2>7, <2>10 DEF Moved, MemInv
<1>4. QED
  BY Zenon, <1>2, <1>3

(* The phases in which blocks are taken and given back.                     *)
LEMMA PhaseFacts ==
  ASSUME MemInv
  PROVE  /\ held \cap kept = {}
         /\ phase \in {"boot", "paging", "slab", "untyped", "heap", "up", "halted"}
         /\ phase = "boot" => buddy = NewBuddy(0) /\ basePfn = 0 /\ kept = {}
         /\ phase \in {"boot", "paging", "heap"} => held = {}
         /\ phase \in {"slab", "untyped"} => \A x, y \in held : x = y
BY Zenon DEF MemInv, PhaseInv

(* The callers of alloc_frames.                                            *)
LEMMA TakersMove ==
  ASSUME MemInv,
         AllocTable \/ HeapInit \/ (\E o \in Orders : Take(o))
           \/ (\E s \in ObjSizes, a \in Aligns : SlabNew(s, a)) \/ UntypedNew
  PROVE  Moved
<1>0. 0 \in Orders /\ HeapOrder \in Orders /\ UntypedOrder \in Orders
  BY OrderAssumption, MemoryAssumption DEF Orders
<1>1. CASE AllocTable
  <2>1. /\ phase = "paging" /\ phase' = "paging" /\ AllocFrames(0) /\ UNCHANGED <<map, basePfn>>
        /\ held' = held /\ kept' = kept \cup {Given(0)}
    BY Zenon, <1>1 DEF AllocTable
  <2>2. Handed' = Handed \cup {Given(0)} /\ Built0
    BY Zenon, <2>1 DEF Handed, Built0
  <2>3. PhaseInv'
    BY Zenon, <2>1, PhaseFacts DEF PhaseInv
  <2>4. QED
    BY Zenon, <1>0, <2>1, <2>2, <2>3, TakeStep
<1>2. CASE HeapInit
  <2>1. /\ phase = "heap" /\ phase' = "up" /\ AllocFrames(HeapOrder) /\ UNCHANGED <<map, basePfn>>
        /\ held' = held /\ kept' = kept \cup {Given(HeapOrder)}
    BY Zenon, <1>2 DEF HeapInit
  <2>2. Handed' = Handed \cup {Given(HeapOrder)} /\ Built0
    BY Zenon, <2>1 DEF Handed, Built0
  <2>3. PhaseInv'
    BY Zenon, <2>1, PhaseFacts DEF PhaseInv
  <2>4. QED
    BY Zenon, <1>0, <2>1, <2>2, <2>3, TakeStep
<1>3. ASSUME NEW o \in Orders, Take(o) PROVE Moved
  <2>1. /\ phase = "up" /\ phase' = "up" /\ AllocFrames(o) /\ UNCHANGED <<map, basePfn>>
        /\ held' = held \cup {Given(o)} /\ kept' = kept
    BY Zenon, <1>3 DEF Take
  <2>2. Handed' = Handed \cup {Given(o)} /\ Built0
    BY Zenon, <2>1 DEF Handed, Built0
  <2>3. ASSUME Given(o) \notin Handed PROVE PhaseInv'
    BY Zenon, <2>1, <2>3, PhaseFacts DEF PhaseInv, Handed
  <2>4. QED
    BY Zenon, <1>3, <2>1, <2>2, <2>3, TakeStep
<1>4. ASSUME NEW s \in ObjSizes, NEW a \in Aligns, SlabNew(s, a) PROVE Moved
  <2>1. /\ phase = "slab" /\ phase' = "slab" /\ AllocFrames(0) /\ UNCHANGED <<map, basePfn>>
        /\ held = {} /\ held' = {Given(0)} /\ kept' = kept
    BY Zenon, <1>4 DEF SlabNew
  <2>2. Handed' = Handed \cup {Given(0)} /\ Built0
    BY Zenon, <2>1 DEF Handed, Built0
  <2>3. ASSUME Given(0) \notin Handed PROVE PhaseInv'
    BY Zenon, <2>1, <2>3, PhaseFacts DEF PhaseInv, Handed
  <2>4. QED
    BY Zenon, <1>0, <2>1, <2>2, <2>3, TakeStep
<1>5. CASE UntypedNew
  <2>1. /\ phase = "untyped" /\ phase' = "untyped" /\ AllocFrames(UntypedOrder) /\ UNCHANGED <<map, basePfn>>
        /\ held = {} /\ held' = {Given(UntypedOrder)} /\ kept' = kept
    BY Zenon, <1>5 DEF UntypedNew
  <2>2. Handed' = Handed \cup {Given(UntypedOrder)} /\ Built0
    BY Zenon, <2>1 DEF Handed, Built0
  <2>3. ASSUME Given(UntypedOrder) \notin Handed PROVE PhaseInv'
    BY Zenon, <2>1, <2>3, PhaseFacts DEF PhaseInv, Handed
  <2>4. QED
    BY Zenon, <1>0, <2>1, <2>2, <2>3, TakeStep
<1>6. QED
  BY Zenon, <1>1, <1>2, <1>3, <1>4, <1>5

(* The callers of free_frames.                                             *)
LEMMA GiversMove ==
  ASSUME MemInv, (\E blk \in held : Give(blk)) \/ SlabEnd \/ UntypedEnd
  PROVE  Moved
<1>1. ASSUME NEW blk \in held, Give(blk) PROVE Moved
  <2>1. /\ phase = "up" /\ phase' = "up" /\ FreeFramesOf(blk) /\ UNCHANGED <<map, basePfn>>
        /\ held' = held \ {blk} /\ kept' = kept
    BY Zenon, <1>1 DEF Give
  <2>2. blk \in Handed /\ Handed' = Handed \ {blk} /\ Built0
    BY Zenon, <2>1, PhaseFacts DEF Handed, Built0
  <2>3. PhaseInv'
    BY Zenon, <2>1, PhaseFacts DEF PhaseInv
  <2>4. QED
    BY Zenon, <2>1, <2>2, <2>3, GiveStep
<1>2. CASE SlabEnd
  <2>1. PICK blk \in held : FreeFramesOf(blk)
    BY Zenon, <1>2 DEF SlabEnd
  <2>2. /\ phase = "slab" /\ phase' = "untyped" /\ UNCHANGED <<map, basePfn>>
        /\ held' = {} /\ kept' = kept
    BY Zenon, <1>2 DEF SlabEnd
  <2>3. blk \in Handed /\ Handed' = Handed \ {blk} /\ Built0
    BY Zenon, <2>2, PhaseFacts DEF Handed, Built0
  <2>4. PhaseInv'
    BY Zenon, <2>2, PhaseFacts DEF PhaseInv
  <2>5. QED
    BY Zenon, <2>1, <2>2, <2>3, <2>4, GiveStep
<1>3. CASE UntypedEnd
  <2>1. PICK blk \in held : FreeFramesOf(blk)
    BY Zenon, <1>3 DEF UntypedEnd
  <2>2. /\ phase = "untyped" /\ phase' = "heap" /\ UNCHANGED <<map, basePfn>>
        /\ held' = {} /\ kept' = kept
    BY Zenon, <1>3 DEF UntypedEnd
  <2>3. blk \in Handed /\ Handed' = Handed \ {blk} /\ Built0
    BY Zenon, <2>2, PhaseFacts DEF Handed, Built0
  <2>4. PhaseInv'
    BY Zenon, <2>2, PhaseFacts DEF PhaseInv
  <2>5. QED
    BY Zenon, <2>1, <2>2, <2>3, <2>4, GiveStep
<1>4. QED
  BY Zenon, <1>1, <1>2, <1>3

(* The steps that only touch the slab, the Untyped or the phase.            *)
LEMMA OthersMove ==
  ASSUME MemInv,
         \/ TablesDone \/ NoFrames \/ SlabAlloc
         \/ \E off \in slab.used : SlabStore(off, NIL) \/ SlabStore(off, off) \/ SlabFree(off)
         \/ \E perObj, count \in 0 .. Pow2[UntypedOrder] : Retype(perObj, count)
         \/ Reset \/ Halted \/ UNCHANGED vars
  PROVE  Moved
<1>1. /\ UNCHANGED <<map, buddy, basePfn, held, kept>>
      /\ \/ phase' = phase
         \/ phase = "paging" /\ phase' = "slab"
         \/ phase' = "halted"
  BY Zenon DEF TablesDone, NoFrames, SlabAlloc, SlabStore, SlabFree, Retype, Reset, Halted, vars
<1>2. PhaseInv'
  BY Zenon, <1>1, PhaseFacts DEF PhaseInv
<1>3. Built0' => Built0
  BY Zenon, <1>1 DEF Built0
<1>4. QED
  BY Zenon, <1>1, <1>2, <1>3, IdleStep

(* So every step of the kernel is one of the four.                         *)
LEMMA NextMoves ==
  ASSUME MemInv, [Next]_vars
  PROVE  Moved
<1>1. CASE InitMemory
  BY Zenon, <1>1, InitMemoryMoves
<1>2. CASE ~InitMemory
  BY Zenon, <1>2, TakersMove, GiversMove, OthersMove DEF Next
<1>3. QED
  BY Zenon, <1>1, <1>2

(* What is free or handed out stays the same set of frames.                 *)
WholeInv == MemInv /\ (Built0 => Pool \cup HandedFrames = Usable)

LEMMA WholeStep ==
  ASSUME WholeInv, [Next]_vars
  PROVE  WholeInv'
<1>1. Moved
  BY Zenon, NextMoves DEF WholeInv
<1>2. MemInv' /\ Usable' = Usable
  BY Zenon, <1>1, UsableKept DEF Moved
<1>3. CASE Filled
  <2>1. HandedFrames' = {}
    BY Zenon, <1>3 DEF Filled, HandedFrames
  <2>2. QED
    BY Zenon, <2>1, <1>2, <1>3 DEF Filled, WholeInv
<1>4. CASE Took
  <2>1. PICK g : Taken(g) /\ Handed' = Handed \cup {g} /\ Built0
    BY Zenon, <1>4 DEF Took
  <2>2. PICK B : B = Block(g[1], g[2])
    BY Zenon
  <2>3. B \subseteq Pool /\ Pool' = Pool \ B
    BY Zenon, <2>1, <2>2 DEF Taken
  <2>4. HandedFrames' = HandedFrames \cup B
    BY Zenon, <2>1, <2>2 DEF HandedFrames
  <2>5. Pool' \cup HandedFrames' = Pool \cup HandedFrames
    BY Zenon, <2>3, <2>4
  <2>6. QED
    BY Zenon, <2>1, <2>5, <1>2 DEF WholeInv
<1>5. CASE Gave
  <2>1. PICK g \in Handed : GivenBack(g) /\ Handed' = Handed \ {g} /\ Built0
    BY Zenon, <1>5 DEF Gave
  <2>2. PICK B : B = Block(g[1], g[2])
    BY Zenon
  <2>3. Pool' = Pool \cup B
    BY Zenon, <2>1, <2>2 DEF GivenBack
  <2>4. HandedFrames = HandedFrames' \cup B
    BY Zenon, <2>1, <2>2 DEF HandedFrames
  <2>5. Pool' \cup HandedFrames' = Pool \cup HandedFrames
    BY Zenon, <2>3, <2>4
  <2>6. QED
    BY Zenon, <2>1, <2>5, <1>2 DEF WholeInv
<1>6. CASE Idle
  <2>1. HandedFrames' = HandedFrames
    BY Zenon, <1>6 DEF Idle, HandedFrames
  <2>2. QED
    BY Zenon, <2>1, <1>2, <1>6 DEF Idle, WholeInv
<1>7. QED
  BY Zenon, <1>1, <1>3, <1>4, <1>5, <1>6 DEF Moved

LEMMA WholeAlways == Spec => []WholeInv
<1>1. Init => WholeInv
  <2>1. Init => ~Built0
    BY Zenon DEF Init, Built0
  <2>2. QED
    BY Zenon, <2>1, MemInit DEF WholeInv
<1>2. WholeInv /\ [Next]_vars => WholeInv'
  BY Zenon, WholeStep
<1>3. QED
  BY <1>1, <1>2, PTL DEF Spec

(* Whatever the memory map (unsorted, overlapping, unaligned, clipped or    *)
(* overflowing regions included) and whatever the kernel allocates and      *)
(* frees, the frames that are free or handed out are exactly those the map  *)
(* offers inside the mapped window, less the descriptor array: init loses   *)
(* none and releases no other, and neither do alloc and free.               *)
THEOREM NoFrameLost == Spec => []OnlyUsable
<1>1. WholeInv => OnlyUsable
  BY Zenon DEF WholeInv, OnlyUsable, Usable
<1>2. QED
  BY <1>1, WholeAlways, PTL

(* No frame is handed out twice: two blocks in use never overlap, and none  *)
(* overlaps a free block (alloc's split and free's coalescing).             *)
NeverTwice ==
  /\ \A x, y \in Handed : x # y => Block(x[1], x[2]) \cap Block(y[1], y[2]) = {}
  /\ HandedFrames \cap Pool = {}

THEOREM NoBlockTwice == Spec => []NeverTwice
<1>1. ASSUME PoolInv PROVE NeverTwice
  <2>1. PICK n \in Nat : Spans(n)
    BY Zenon, <1>1 DEF PoolInv
  <2>2. basePfn \in Nat /\ FreeFrames(buddy) \subseteq Int
    BY Zenon, <1>1, <2>1, FreeFramesAre DEF PoolInv, Spans, BuddyOK
  <2>3. ASSUME NEW blk \in Handed PROVE Block(blk[1], blk[2]) \cap Pool = {}
    <3>1. /\ Block(Offset(blk), blk[2]) \cap FreeFrames(buddy) = {}
          /\ Block(Offset(blk), blk[2]) \subseteq Int
          /\ Block(blk[1], blk[2]) = {basePfn + x : x \in Block(Offset(blk), blk[2])}
      BY Zenon, <2>1, <2>2, InsideFacts DEF Spans
    <3>2. \A x, y \in Int : basePfn + x = basePfn + y => x = y
      BY <2>2
    <3>3. QED
      BY Zenon, <3>1, <3>2, <2>2 DEF Pool
  <2>4. QED
    BY Zenon, <1>1, <2>3 DEF NeverTwice, PoolInv, HandedFrames
<1>2. WholeInv => NeverTwice
  BY Zenon, <1>1 DEF WholeInv, MemInv
<1>3. QED
  BY <1>2, WholeAlways, PTL

(* The frame allocator implements FramePool: init fills an empty pool, a    *)
(* block alloc_frames returns was free, whole and nobody else's, a block    *)
(* free_frames is given goes back whole, and no other step moves a frame.   *)
THEOREM FramesArePooled == Spec => ImplementsPool
<1>1. Init => Abs!PoolInit
  <2>1. SUFFICES ASSUME Init PROVE Pool = {} /\ Handed = {}
    BY Zenon DEF Abs!PoolInit
  <2>2. buddy = NewBuddy(0) /\ held = {} /\ kept = {}
    BY Zenon, <2>1 DEF Init
  <2>3. Handed = {}
    BY Zenon, <2>2 DEF Handed
  <2>4. FreeFrames(buddy) = {}
    BY Zenon, <2>2, NewBuddyOK
  <2>5. QED
    BY Zenon, <2>3, <2>4 DEF Pool
<1>2. MemInv /\ [Next]_vars => [Abs!Release \/ Abs!Take \/ Abs!Give]_<<Pool, Handed>>
  <2>1. SUFFICES ASSUME Moved PROVE [Abs!Release \/ Abs!Take \/ Abs!Give]_<<Pool, Handed>>
    BY Zenon, NextMoves
  <2>2. CASE Filled
    BY Zenon, <2>2 DEF Filled, Abs!Release
  <2>3. CASE Took
    <3>1. PICK g : Taken(g) /\ Handed' = Handed \cup {g}
      BY Zenon, <2>3 DEF Took
    <3>2. g \in Handed' \ Handed /\ Abs!FrameBlock(g) \subseteq Pool /\ Pool' = Pool \ Abs!FrameBlock(g)
      BY Zenon, <3>1 DEF Taken, Abs!FrameBlock, Block
    <3>3. QED
      BY Zenon, <3>1, <3>2 DEF Abs!Take
  <2>4. CASE Gave
    <3>1. PICK g \in Handed : GivenBack(g) /\ Handed' = Handed \ {g}
      BY Zenon, <2>4 DEF Gave
    <3>2. Abs!FrameBlock(g) \cap Pool = {} /\ Pool' = Pool \cup Abs!FrameBlock(g)
      BY Zenon, <3>1 DEF GivenBack, Abs!FrameBlock, Block
    <3>3. QED
      BY Zenon, <3>1, <3>2 DEF Abs!Give
  <2>5. CASE Idle
    BY Zenon, <2>5 DEF Idle
  <2>6. QED
    BY Zenon, <2>1, <2>2, <2>3, <2>4, <2>5 DEF Moved
<1>3. WholeInv => MemInv
  BY Zenon DEF WholeInv
<1>4. QED
  BY <1>1, <1>2, <1>3, WholeAlways, PTL DEF Spec, ImplementsPool, Abs!PoolSpec
=============================================================================
