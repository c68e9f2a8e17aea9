-------------------------------- MODULE Buddy --------------------------------
(***************************************************************************)
(* The buddy allocator of the mem crate (src/mem/src/buddy.rs) as operators *)
(* on its state b: b.desc is the frame-descriptor array, which holds the    *)
(* doubly linked free lists, b.heads the heads of the lists, b.count the     *)
(* counter free_frames.  An operation is one call, made with the lock of     *)
(* the frame allocator held.  The loops over orders are functions of the     *)
(* order they have reached.                                                 *)
(***************************************************************************)
EXTENDS Integers, FiniteSetsExt

CONSTANT
  MaxOrder     \* MAX_ORDER: the largest block has 2^MaxOrder frames

ASSUME OrderAssumption == MaxOrder \in Nat

NIL    == -1
Orders == 0 .. MaxOrder

(* 1 << o: the frames of a block of order o.                                *)
Pow2[o \in Orders] == IF o = 0 THEN 1 ELSE 2 * Pow2[o - 1]

RESERVED == [next |-> NIL, prev |-> NIL, order |-> 0, free |-> FALSE]

(* Buddy::new over n frames: all reserved.                                  *)
NewBuddy(n) ==
  [desc |-> [f \in 0 .. n - 1 |-> RESERVED], heads |-> [o \in Orders |-> NIL], count |-> 0]

Frames(b)      == DOMAIN b.desc
Block(base, o) == base .. base + Pow2[o] - 1
BuddyOf(base, o) == IF (base \div Pow2[o]) % 2 = 0 THEN base + Pow2[o] ELSE base - Pow2[o]

-----------------------------------------------------------------------------
(* The free lists.                                                         *)

(* insert: base becomes the head of its list.                              *)
Insert(b, base, o) ==
  LET head == b.heads[o]
      link == [f \in Frames(b) |->
                 IF f = base THEN [next |-> head, prev |-> NIL, order |-> o, free |-> TRUE]
                 ELSE IF f = head THEN [b.desc[f] EXCEPT !.prev = base]
                 ELSE b.desc[f]]
  IN  [b EXCEPT !.desc = link, !.heads[o] = base]

(* unlink: its neighbours, or the head, skip base.  The mutant forgets the  *)
(* back link of the next block.                                            *)
UnlinkForward(b, base, o) ==
  LET d == b.desc[base]
  IN  [b EXCEPT !.desc = [f \in Frames(b) |->
                            IF f = base THEN [d EXCEPT !.free = FALSE]
                            ELSE IF f = d.prev THEN [b.desc[f] EXCEPT !.next = d.next]
                            ELSE b.desc[f]],
                !.heads[o] = IF d.prev = NIL THEN d.next ELSE @]

Unlink(b, base, o) ==
  LET d    == b.desc[base]
      link == [f \in Frames(b) |->
                 [next  |-> IF f = d.prev THEN d.next ELSE b.desc[f].next,
                  prev  |-> IF f = d.next THEN d.prev ELSE b.desc[f].prev,
                  order |-> b.desc[f].order,
                  free  |-> f # base /\ b.desc[f].free]]
  IN  [b EXCEPT !.desc = link, !.heads[o] = IF d.prev = NIL THEN d.next ELSE @]

-----------------------------------------------------------------------------
(* Releasing a run of frames.                                              *)

(* The order add_frames gives the block at base of a run that ends at end:  *)
(* the largest that is aligned at base and fits.                            *)
RunOrder(base, end) == Max({o \in Orders : base % Pow2[o] = 0 /\ base + Pow2[o] <= end})

(* add_frames: at[i] is the loop's state when it has come to frame i of the *)
(* run, of which it may be in the middle of a block.                        *)
AddFrames(b, start, count) ==
  LET end == start + count
      at[i \in start .. end] ==
        IF i = start THEN [b |-> b, base |-> start]
        ELSE LET p == at[i - 1]
                 o == RunOrder(p.base, end)
             IN  IF p.base # i - 1 THEN p
                 ELSE [b |-> [Insert(p.b, p.base, o) EXCEPT !.count = @ + Pow2[o]],
                       base |-> p.base + Pow2[o]]
  IN  at[end].b

-----------------------------------------------------------------------------
(* Allocating and freeing.                                                 *)

(* The orders alloc can serve a request from; it takes the smallest.        *)
Sources(b, order) == {o \in order .. MaxOrder : b.heads[o] # NIL}
CanAlloc(b, order) == Sources(b, order) # {}
AllocBase(b, order) == b.heads[Min(Sources(b, order))]

(* The block is cut in half until it has the requested order; the upper     *)
(* halves are free.                                                        *)
SplitDown(b, base, o, order) ==
  LET down[k \in order .. o] ==
        IF k = o THEN b ELSE Insert(down[k + 1], base + Pow2[k], k)
  IN  down[order]

Alloc(b, order) ==
  LET o    == Min(Sources(b, order))
      base == b.heads[o]
      s    == SplitDown(Unlink(b, base, o), base, o, order)
  IN  [s EXCEPT !.desc = [@ EXCEPT ![base].order = order, ![base].free = FALSE],
                !.count = @ - Pow2[order]]

(* coalesce merges a block with its buddy while that is free and whole.      *)
Mergeable(b, base, o) ==
  LET d == BuddyOf(base, o)
  IN  d \in Frames(b) /\ b.desc[d].free /\ b.desc[d].order = o

Coalesce(b, base, order) ==
  LET up[o \in order .. MaxOrder] ==
        IF o = order THEN [b |-> b, base |-> base, order |-> order]
        ELSE LET p == up[o - 1]
                 d == BuddyOf(p.base, p.order)
             IN  IF p.order = o - 1 /\ Mergeable(p.b, p.base, p.order)
                 THEN [b |-> Unlink(p.b, d, p.order), base |-> Min({p.base, d}), order |-> o]
                 ELSE p
      top == up[MaxOrder]
  IN  Insert(top.b, top.base, top.order)

(* free: the order recorded by alloc.                                      *)
Free(b, base) ==
  LET o == b.desc[base].order
  IN  Coalesce([b EXCEPT !.count = @ + Pow2[o]], base, o)

-----------------------------------------------------------------------------
(* What the lists say is free.                                             *)

FreeHeads(b)  == {f \in Frames(b) : b.desc[f].free}
FreeFrames(b) == UNION {Block(f, b.desc[f].order) : f \in FreeHeads(b)}

(* The n-th block of the list of order o, NIL past its end.                 *)
Nth(b, o, n) ==
  LET at[k \in 0 .. n] == IF k = 0 THEN b.heads[o]
                          ELSE IF at[k - 1] = NIL THEN NIL ELSE b.desc[at[k - 1]].next
  IN  at[n]

Listed(b, o) == {Nth(b, o, n) : n \in 0 .. Cardinality(Frames(b))} \ {NIL}
=============================================================================
