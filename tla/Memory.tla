------------------------------- MODULE Memory -------------------------------
(***************************************************************************)
(* Physical memory (src/kernel/src/memory/mod.rs over the mem crate): the   *)
(* frame allocator is built from the boot loader's memory map, the kernel's *)
(* page tables are taken from it, the boot demo carves one frame into slab  *)
(* objects and one block into retyped objects, the kernel heap takes its    *)
(* block, and from then on the kernel allocates and frees.                  *)
(*                                                                         *)
(* A region of the map is USABLE or not, page-aligned or not, and spans      *)
(* pages frames from its base frame.  fatal halts the machine.  Slab memory  *)
(* is one word per offset: a free slot holds a link, a slot in use data.     *)
(***************************************************************************)
EXTENDS Buddy, Sequences

CONSTANTS
  Maps,          \* the memory maps considered: sequences of regions
  MaxRegions,    \* MAX_REGIONS: regions beyond it are not looked at
  MaxUsable,     \* MAX_USABLE: more usable ranges are fatal
  HhdmMax,       \* first frame past the window that is mapped
  U64Max,        \* where start + pages overflows
  DescsPerFrame, \* frame descriptors that fit in a frame
  MaxTables,     \* bound on the frames taken for the kernel's page tables
  UntypedOrder,  \* order of the block the demo retypes
  HeapOrder,     \* HEAP_ORDER
  Word,          \* size of a usize
  PageSize,      \* bytes per frame
  ObjSizes,      \* object sizes and
  Aligns         \* alignments slab caches are built for

ASSUME MemoryAssumption ==
  /\ Maps \subseteq Seq([usable : BOOLEAN, aligned : BOOLEAN, base : Nat, pages : Nat])
  /\ {MaxRegions, MaxUsable, HhdmMax, U64Max, MaxTables} \subseteq Nat
  /\ {DescsPerFrame, Word, PageSize} \subseteq Nat \ {0}
  /\ UntypedOrder \in Orders /\ HeapOrder \in Orders
  /\ ObjSizes \subseteq Nat /\ Aligns \subseteq {2^k : k \in 0 .. 6}

VARIABLES
  map,           \* what the boot loader passed
  phase,         \* boot, paging, slab, untyped, heap, up or halted
  buddy,         \* the buddy allocator, over frame numbers relative to
  basePfn,       \* the first usable frame
  held,          \* blocks handed out that will be freed: <<first frame, order>>
  kept,          \* blocks handed out for good: page tables, heap
  slab,          \* the slab cache
  ut             \* the Untyped of the demo

vars == <<map, phase, buddy, basePfn, held, kept, slab, ut>>

-----------------------------------------------------------------------------
(* Reading the memory map.                                                 *)

(* usable_frames, clamped to the mapped window; <<>> if there is nothing to  *)
(* use.                                                                    *)
Clamp(start, end) ==
  LET e == Min({end, HhdmMax})
  IN  IF e <= start THEN <<>> ELSE <<[s |-> start, e |-> e]>>

UsableFrames(r) ==
  IF ~r.aligned \/ r.base + r.pages > U64Max \/ r.pages = 0
  THEN <<>>
  ELSE Clamp(r.base, r.base + r.pages)

(* region_slice: a bounded prefix of the map.                              *)
RegionSlice == SubSeq(map, 1, Min({Len(map), MaxRegions}))

(* The ranges init collects, by the number of regions looked at.            *)
Collected[i \in 0 .. Len(RegionSlice)] ==
  IF i = 0 THEN <<>>
  ELSE Collected[i - 1] \o (IF RegionSlice[i].usable THEN UsableFrames(RegionSlice[i]) ELSE <<>>)

(* sort_unstable_by_key on the start, by insertion: ranges with the same     *)
(* start overlap, so that their order does not matter.                      *)
InOrder(rs, r) ==
  LET p == Max({0} \cup {i \in DOMAIN rs : rs[i].s <= r.s})
  IN  SubSeq(rs, 1, p) \o <<r>> \o SubSeq(rs, p + 1, Len(rs))

SortByStart(rs) ==
  LET sorted[n \in 0 .. Len(rs)] == IF n = 0 THEN <<>> ELSE InOrder(sorted[n - 1], rs[n])
  IN  sorted[Len(rs)]

Ranges == SortByStart(Collected[Len(RegionSlice)])

(* The check on neighbours in the sorted list, and one that is off by one.  *)
OverlapSlack(rs) == \E i \in 1 .. Len(rs) - 1 : rs[i + 1].s + 1 < rs[i].e
Overlap(rs) == \E i \in 1 .. Len(rs) - 1 : rs[i + 1].s < rs[i].e

(* The descriptor array takes the front of the first range that can hold it. *)
DescFrames(rs) == (rs[Len(rs)].e - rs[1].s + DescsPerFrame - 1) \div DescsPerFrame
DescHosts(rs)  == {i \in DOMAIN rs : rs[i].e - rs[i].s >= DescFrames(rs)}

Malformed(rs) ==
  rs = <<>> \/ Len(rs) > MaxUsable \/ Overlap(rs) \/ DescHosts(rs) = {}

(* Where a range begins once the array is carved off; the mutant forgets to.*)
AfterDescNot(rs, i) == rs[i].s
AfterDesc(rs, i) == IF i = Min(DescHosts(rs)) THEN rs[i].s + DescFrames(rs) ELSE rs[i].s

(* The usable frames are released range by range.                          *)
Built(rs) ==
  LET base == rs[1].s
      upTo[i \in 0 .. Len(rs)] ==
        IF i = 0 THEN NewBuddy(rs[Len(rs)].e - base)
        ELSE AddFrames(upTo[i - 1], AfterDesc(rs, i) - base, rs[i].e - AfterDesc(rs, i))
  IN  upTo[Len(rs)]

InitMemory ==
  /\ phase = "boot"
  /\ IF Malformed(Ranges)
     THEN phase' = "halted" /\ UNCHANGED <<buddy, basePfn>>
     ELSE /\ phase' = "paging"
          /\ basePfn' = Ranges[1].s
          /\ buddy' = Built(Ranges)
  /\ UNCHANGED <<map, held, kept, slab, ut>>

-----------------------------------------------------------------------------
(* FrameAllocator: frame numbers are physical.                             *)

AllocFrames(order) ==
  /\ CanAlloc(buddy, order)
  /\ buddy' = Alloc(buddy, order)

(* The block a call of alloc_frames returns.                               *)
Given(order) == <<basePfn + AllocBase(buddy, order), order>>

FreeFramesOf(blk) == buddy' = Free(buddy, blk[1] - basePfn)

AllocTable ==
  /\ phase = "paging" /\ Cardinality(kept) < MaxTables
  /\ AllocFrames(0)
  /\ kept' = kept \cup {Given(0)}
  /\ UNCHANGED <<map, phase, basePfn, held, slab, ut>>

TablesDone ==
  /\ phase = "paging"
  /\ phase' = "slab"
  /\ UNCHANGED <<map, buddy, basePfn, held, kept, slab, ut>>

(* heap::init.                                                             *)
HeapInit ==
  /\ phase = "heap"
  /\ AllocFrames(HeapOrder)
  /\ kept' = kept \cup {Given(HeapOrder)}
  /\ phase' = "up"
  /\ UNCHANGED <<map, basePfn, held, slab, ut>>

(* An allocation the kernel cannot do without fails.                        *)
NoFrames ==
  /\ \/ phase \in {"paging", "slab"} /\ held = {} /\ ~CanAlloc(buddy, 0)
     \/ phase = "untyped" /\ held = {} /\ ~CanAlloc(buddy, UntypedOrder)
     \/ phase = "heap" /\ ~CanAlloc(buddy, HeapOrder)
     \/ phase = "up" /\ ~CanAlloc(buddy, 0)
  /\ phase' = "halted"
  /\ UNCHANGED <<map, buddy, basePfn, held, kept, slab, ut>>

Take(order) ==
  /\ phase = "up"
  /\ AllocFrames(order)
  /\ held' = held \cup {Given(order)}
  /\ UNCHANGED <<map, phase, basePfn, kept, slab, ut>>

Give(blk) ==
  /\ phase = "up"
  /\ blk \in held
  /\ FreeFramesOf(blk)
  /\ held' = held \ {blk}
  /\ UNCHANGED <<map, phase, basePfn, kept, slab, ut>>

-----------------------------------------------------------------------------
(* The slab cache (src/mem/src/slab.rs) over one frame.                     *)

RoundUp(x, align) == ((x + align - 1) \div align) * align

(* The slot size, which must also hold a link; the mutant forgets that.     *)
SlotSizeBare(objSize, align) == RoundUp(Max({objSize, 1}), align)
SlotSize(objSize, align) == RoundUp(Max({objSize, Word}), Max({align, Word}))

NoSlab == [slot |-> 0, capacity |-> 0, head |-> NIL, count |-> 0, mem |-> <<>>, used |-> {}]

(* new, then init: the list runs from slot 0 upwards.                       *)
SlabNew(objSize, align) ==
  /\ phase = "slab" /\ held = {}
  /\ AllocFrames(0)
  /\ held' = {Given(0)}
  /\ LET size == SlotSize(objSize, align)
         cap  == PageSize \div size
         offs == {i * size : i \in 0 .. cap - 1}
     IN slab' = [slot |-> size, capacity |-> cap, count |-> cap,
                 head |-> IF cap = 0 THEN NIL ELSE 0,
                 mem  |-> [o \in offs |-> IF o + size \in offs THEN o + size ELSE NIL],
                 used |-> {}]
  /\ UNCHANGED <<map, phase, basePfn, kept, ut>>

(* alloc pops the head; the owner then stores what it likes.                *)
Popped(c) == c.mem[c.head]

SlabAlloc ==
  /\ phase = "slab" /\ slab.head # NIL
  /\ slab' = [slab EXCEPT !.head = Popped(slab), !.count = @ - 1,
                          !.used = @ \cup {slab.head}]
  /\ UNCHANGED <<map, phase, buddy, basePfn, held, kept, ut>>

SlabStore(off, word) ==
  /\ phase = "slab" /\ off \in slab.used
  /\ slab' = [slab EXCEPT !.mem[off] = word]
  /\ UNCHANGED <<map, phase, buddy, basePfn, held, kept, ut>>

SlabFree(off) ==
  /\ phase = "slab" /\ off \in slab.used
  /\ slab' = [slab EXCEPT !.mem[off] = slab.head, !.head = off, !.count = @ + 1,
                          !.used = @ \ {off}]
  /\ UNCHANGED <<map, phase, buddy, basePfn, held, kept, ut>>

(* The demo gives the frame back with its slab.                             *)
SlabEnd ==
  /\ phase = "slab"
  /\ \E blk \in held : FreeFramesOf(blk)
  /\ held' = {} /\ slab' = NoSlab
  /\ phase' = "untyped"
  /\ UNCHANGED <<map, basePfn, kept, ut>>

-----------------------------------------------------------------------------
(* The accounting of an Untyped (src/mem/src/retype.rs).                    *)

NoUntyped == [base |-> 0, frames |-> 0, watermark |-> 0, objs |-> {}]

UntypedNew ==
  /\ phase = "untyped" /\ held = {}
  /\ AllocFrames(UntypedOrder)
  /\ held' = {Given(UntypedOrder)}
  /\ ut' = [NoUntyped EXCEPT !.base = Given(UntypedOrder)[1], !.frames = Pow2[UntypedOrder]]
  /\ UNCHANGED <<map, phase, basePfn, kept, slab>>

(* The frames left.                                                        *)
Remaining(u) == u.frames - u.watermark

Retype(perObj, count) ==
  /\ phase = "untyped" /\ held # {}
  /\ perObj * count <= Remaining(ut)
  /\ ut' = [ut EXCEPT !.watermark = @ + perObj * count,
                      !.objs = @ \cup {[first |-> ut.base + ut.watermark + i * perObj,
                                        frames |-> perObj] : i \in 0 .. count - 1}]
  /\ UNCHANGED <<map, phase, buddy, basePfn, held, kept, slab>>

(* reset, once the objects are gone.                                       *)
Reset ==
  /\ phase = "untyped" /\ held # {}
  /\ ut' = [ut EXCEPT !.watermark = 0, !.objs = {}]
  /\ UNCHANGED <<map, phase, buddy, basePfn, held, kept, slab>>

UntypedEnd ==
  /\ phase = "untyped"
  /\ \E blk \in held : FreeFramesOf(blk)
  /\ held' = {} /\ ut' = NoUntyped
  /\ phase' = "heap"
  /\ UNCHANGED <<map, basePfn, kept, slab>>

-----------------------------------------------------------------------------
Init ==
  /\ map \in Maps
  /\ phase = "boot"
  /\ buddy = NewBuddy(0)
  /\ basePfn = 0
  /\ held = {} /\ kept = {}
  /\ slab = NoSlab
  /\ ut = NoUntyped

Halted == phase = "halted" /\ UNCHANGED vars

Next ==
  \/ InitMemory \/ AllocTable \/ TablesDone \/ HeapInit \/ NoFrames
  \/ \E o \in Orders : Take(o)
  \/ \E blk \in held : Give(blk)
  \/ \E s \in ObjSizes, a \in Aligns : SlabNew(s, a)
  \/ SlabAlloc
  \/ \E off \in slab.used : SlabStore(off, NIL) \/ SlabStore(off, off) \/ SlabFree(off)
  \/ SlabEnd
  \/ UntypedNew
  \/ \E perObj, count \in 0 .. Pow2[UntypedOrder] : Retype(perObj, count)
  \/ Reset \/ UntypedEnd
  \/ Halted

Spec == Init /\ [][Next]_vars

-----------------------------------------------------------------------------
(* Properties.                                                             *)

Built0 == phase \notin {"boot", "halted"}
Handed == held \cup kept
HandedFrames == UNION {Block(b[1], b[2]) : b \in Handed}
Pool == {basePfn + f : f \in FreeFrames(buddy)}

(* The frames the well-formed usable regions of the map offer.              *)
Offered ==
  LET regions == {RegionSlice[i] : i \in DOMAIN RegionSlice}
      good    == {r \in regions : r.usable /\ r.aligned /\ r.base + r.pages <= U64Max}
  IN  UNION {r.base .. r.base + r.pages - 1 : r \in good}

DescArray == LET h == Min(DescHosts(Ranges))
             IN  Ranges[h].s .. Ranges[h].s + DescFrames(Ranges) - 1

(* The state is well formed, and the counter free_frames is the number of   *)
(* frames on the lists.                                                    *)
TypeOK ==
  /\ phase \in {"boot", "paging", "slab", "untyped", "heap", "up", "halted"}
  /\ buddy.desc \in [Frames(buddy) -> [next: Frames(buddy) \cup {NIL}, prev: Frames(buddy) \cup {NIL},
                                       order: Orders, free: BOOLEAN]]
  /\ buddy.heads \in [Orders -> Frames(buddy) \cup {NIL}]
  /\ buddy.count = Cardinality(FreeFrames(buddy))
  /\ slab.used \subseteq DOMAIN slab.mem
  /\ ut.watermark <= ut.frames

(* Every frame of the allocator's span is free, handed out or reserved, and *)
(* only frames the memory map offers inside the mapped window, outside the  *)
(* descriptor array, are ever free or handed out: none is lost, however     *)
(* the map is ordered and whatever malformed regions it has.                *)
OnlyUsable ==
  Built0 => Pool \cup HandedFrames = {f \in Offered : f < HhdmMax} \ DescArray

(* The intrusive lists stay lists through splits and merges: the list of    *)
(* each order holds exactly the free blocks of that order, every back link  *)
(* is the reverse of a link, and a block is aligned to its size.  Within a   *)
(* usable range two free buddies never stay apart, so alloc refuses a       *)
(* request only when no aligned block of that size is free in any one range *)
(* ("or None if no block that large is available").                         *)
ListsSound ==
  /\ TypeOK
  /\ \A o \in Orders :
       /\ Listed(buddy, o) = {f \in FreeHeads(buddy) : buddy.desc[f].order = o}
       /\ \A f \in Listed(buddy, o) :
            /\ f % Pow2[o] = 0
            /\ buddy.desc[f].prev = NIL <=> buddy.heads[o] = f
            /\ buddy.desc[f].next # NIL => buddy.desc[buddy.desc[f].next].prev = f
  /\ Built0 => \A o \in Orders, i \in DOMAIN Ranges, f \in Frames(buddy) :
       /\ f % Pow2[o] = 0
       /\ {basePfn + k : k \in Block(f, o)} \subseteq Pool \cap (Ranges[i].s .. Ranges[i].e - 1)
       => CanAlloc(buddy, o)

(* What slab and Untyped hand out of a block stays apart and inside it.  The *)
(* slab's list runs through exactly the slots not in use, whatever their     *)
(* former owners left in them, the count is its length, and no slot reaches  *)
(* past the frame or into the next one; retyped objects never overlap or     *)
(* leave the block, also after a reset.                                    *)
ObjectsApart ==
  LET at[n \in 0 .. PageSize] == IF n = 0 THEN slab.head
                                 ELSE IF at[n - 1] = NIL THEN NIL ELSE slab.mem[at[n - 1]]
      chain == {at[n] : n \in 0 .. PageSize} \ {NIL}
      of(x) == x.first .. x.first + x.frames - 1
  IN /\ chain = DOMAIN slab.mem \ slab.used
     /\ slab.count = Cardinality(chain)
     /\ \A o \in DOMAIN slab.mem : o + slab.slot <= PageSize /\ slab.slot >= Word
     /\ \A x, y \in ut.objs : x = y \/ of(x) \cap of(y) = {}
     /\ \A x \in ut.objs : of(x) \subseteq UNION {Block(b[1], b[2]) : b \in held}

(* The allocator implements a pool of frames: a block that is handed out    *)
(* was free, whole and nobody else's, and comes back whole.                 *)
Abs == INSTANCE FramePool WITH pool <- Pool, held <- Handed, Size <- Pow2
ImplementsPool == Abs!PoolSpec
=============================================================================
