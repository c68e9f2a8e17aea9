------------------------------ MODULE FramePool ------------------------------
(***************************************************************************)
(* What the frame allocator promises the rest of the kernel: a pool of free *)
(* frames, filled once at boot, from which blocks of contiguous frames, of   *)
(* a size per order, are taken and to which they are given back whole.      *)
(***************************************************************************)
EXTENDS Integers

CONSTANT
  Size         \* the frames of a block, by its order

VARIABLES
  pool,        \* the free frames
  held         \* the blocks handed out: pairs of a first frame and an order

FrameBlock(b) == b[1] .. b[1] + Size[b[2]] - 1

PoolInit == pool = {} /\ held = {}

Release == pool = {} /\ held = {} /\ pool' \in SUBSET Nat /\ held' = {}

Take == \E b \in held' \ held :
  /\ held' = held \cup {b}
  /\ FrameBlock(b) \subseteq pool
  /\ pool' = pool \ FrameBlock(b)

Give == \E b \in held :
  /\ held' = held \ {b}
  /\ FrameBlock(b) \cap pool = {}
  /\ pool' = pool \cup FrameBlock(b)

PoolSpec == PoolInit /\ [][Release \/ Take \/ Give]_<<pool, held>>
=============================================================================
