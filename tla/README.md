# Praesidium: a TLA+ verification development

Praesidium is a capability microkernel in Rust. This directory holds TLA+ models of
its parts, the TLC configurations that check them, and TLAPS proofs. `PROJECT.json`
maps every definition to the source lines it stands for and lists runs, mutants,
hazards, findings and theorems.

## The system

| Part | Source | Modelled in |
| --- | --- | --- |
| Capability spaces, derivation tree, grant, revoke | `cap-core/src/cspace.rs`, `cap.rs`, `rights.rs` | `CSpace` |
| CPU budgets (capacity, consumed, split, delegate) | `cap-core/src/sched.rs` | `CSpace`, `Scheduler`, `Executor` |
| Preemptive stackful scheduler, reaper | `kernel/src/sched/scheduler.rs` | `Scheduler` |
| Preemption demo, boot order, heap lock | `kernel/src/sched/mod.rs`, `main.rs`, `heap.rs` | `Scheduler` |
| Async executor and wakers | `sched/src/*` | `Executor` |
| Endpoint, Notification, messages | `ipc/src/*` | `Endpoint`, abstractly `Rendezvous` |
| In-kernel IPC futures | `kernel/src/ipc/mod.rs` | `KernelIpc` (composes the two above) |
| Processes, system calls, supervisor | `kernel/src/user/mod.rs` | `UserIpc`; loads and reaps also in `AddressSpaces`, `Loader`, `Scheduler` |
| Reference programs | `refproc/src/*.rs` | `UserIpc` |
| Buddy allocator | `mem/src/buddy.rs` | `Buddy`, abstractly `FramePool` |
| Memory bring-up, slab, Untyped arithmetic | `kernel/src/memory/mod.rs`, `mem/src/slab.rs`, `retype.rs` | `Memory` (over `Buddy`) |
| Page tables | `kernel/src/arch/{x86_64,aarch64}/paging.rs` | `PhysTables`, `X86Paging`, `ArmPaging` |
| Address spaces through the boot and the demos | `kernel/src/user`, `isolation`, `loader`, `arch` | `AddressSpaces` (over both) |
| PEX format, encoder, `mkpex` | `abi/src/*`, `tools/src/mkpex.rs` | `Pex` |
| PEX loader, invocation dispatch | `kernel/src/loader/*`, `kernel/src/syscall.rs` | `Loader` (over `CSpace` and `Pex`) |
| Trap entry, masking, timer | `kernel/src/arch/*` | `Scheduler`, in part |

What is left out is listed under "Not modelled".

Processes hold capabilities in a CSpace. A system call names one, the kernel checks
it, and blocks the caller by polling and yielding to the scheduler. The boot task
loads and spawns the processes, drives them from a loop, and reaps and restarts a
crashed server. Everything runs on one CPU.

## CSpace

State: `slots[s][c]` is the `Cte` of slot `c` of space `s` (capability and parent
slot), `nextObj[s]` is `next_obj`, `dirty` the set of physical frames that hold data
(what the `zero` hook clears), `op` the revoke or delete in progress. An operation
that returns an error changes nothing and is not a step.

Actions: one per public operation (`Retype`, `Mint`, `Copy`, `MoveCap`, `Split`,
`Delegate`, `MintReply`, `ConsumeReply`, `Grant`). `revoke` and `delete` loop in the
code; `Revoke` starts the loop, `RevokeStep` is one iteration (first childless
descendant in slot order), `RevokeDone` the exit. The code holds `&mut CSpace` with
preemption masked, so no other operation starts in between. The boot-path installers
(`set_root_untyped`, `install_frame`, ...) build the constant `Boot`. `WriteFrame` is
external: user code storing into memory it may write.

Two modelling decisions:

- `MintReply` requires that no Reply names the caller yet. That is the contract of the
  IPC layer, which mints one Reply per blocked caller; `ServedOnce` in `UserIpc`
  shows the layer keeps it.
- `RevokeStep` uses `Subtree`, the least set closed under "has its parent in it".
  The code walks parent links at most N + 1 times (`IsDescendant`).
  `WalkFindsDescendants` says that the two agree in every reachable state; it is
  checked and, for every N, proved.

Left out: badges, the `aux` word and the virtual address of a SharedRo.

## Scheduler

State: `tasks` and `current` as in `Scheduler`; `cpu` is what the hardware has loaded
(page table, system-call stack, isolation domain); `active` is the cache of
`activate_space`; `free`, `guarded`, `freeSpaces` are stack blocks, unmapped guard
pages and page tables; `reaping` what `reap_finished` has detached; `phase` the place
in the boot path; `done` is `WORKER_DONE`; `heap` the holder of the heap's spin lock.

Every action is a section the code runs with interrupts masked. The mask matters and
comes from the code: the boot task is entered masked and nothing unmasks it
(`timer_init` and `interrupts_init` do not), so it is never charged. `task_enter`
unmasks, so the hog and the worker are preemptible throughout and a process until it
drops to user mode, where interrupts are masked again. `schedule` restores each task's
own mask. It follows that the `wait_for_interrupt` loop of `task_exit` is unreachable:
the boot task is always eligible, and the guard `PickNext # 0` of `TaskExit` never
disables it (a deadlock would show).

`LoadProcess` loads two page tables behind the scheduler's back, as `load_process`
does. `ReapFinished` and `ReapFree` are the two halves of a reap. `HeapSpin` is the
boot task waiting for a heap lock whose holder was preempted. `Halt` is the end of
`kmain`, or a fatal error while something is loaded.

Every spawn in the repository passes a budget of `u32::MAX`, written `Forever`. The
budget 1 in the `scheduler` run stands for a smaller budget or an uptime that exhausts it.

## UserIpc

State: `rdv` is `EP_RDV`, `notify` is `NOTIFY`, `reply[p]` the caller named by the
Reply capability in `REPLY_SLOT`, `done` and `exit` are `PROC_DONE` and `PROC_EXIT`,
`pc[p]` where the process is, `queue` the runnable tasks in round-robin order with the
running one first. `sent`, `served` and `got` record which call a message or reply
belongs to: a message word is a ticket, a reply word the ticket it answers.

A blocking call is the step that posts, then `Poll` steps that yield, then the step
that returns. Processes in `Arbitrary` make any permitted call at any time or are
killed; the others follow the reference programs. The drive loop is `Restart`, `Drive`,
`Halt` and `Finish`. A restart gives the server a fresh CSpace and leaves the
rendezvous alone, as the code does. User mode, the system calls and the exit path run
masked, so `Retire` (store `PROC_DONE`, mark the task finished) is one step.

A plan (`Plans`) is chosen at the start: who holds which rights, who is arbitrary, who
is supervised, in which orders the processes may have been spawned. The demos of the
repository run one after the other; the first plan of the `ipc` run has the restart and
the notification demo side by side, which adds interleavings the kernel does not have
today and loses none of either. Its second plan has three arbitrary processes.

`RequestNotLost` says what happens to a request when a server dies: it is on offer,
received by a server that owes a reply, answered, or was taken by a server that has
died since. The code promises nothing in the last case and the client stays blocked.

## Executor, Endpoint and KernelIpc

`Executor` is the executor of the `sched` crate: `tasks` (budgets of the live ones),
`ready` (the wakers' queue, where a task may appear twice or after its end), `parked`,
and `mode`. `run_until_idle` is one action per iteration of its loop. The body of a
task is left to the module that extends it; `Polled` is what the executor does with
the result of a poll.

`Endpoint` has the state machines of the `ipc` crate as operators (`Send`, `Recv`,
`Cancel`, `Signal`, `Wait`, `CancelWait`) and the message descriptor with its bounded
fields (`Encode`, `Decode`). `Rendezvous` is what an endpoint promises: one line of
waiters of one kind, each meeting takes the oldest of both sides.

`Subsequences` has the one operator on queues they share: what is left of a queue when
some entries are taken out (`retain`).

`KernelIpc` is `kernel/src/ipc/mod.rs` on top of both. A poll of a `Call` or `Recv`
future is one action, as it is in the code: `CallSend`, `CallAwait`, `RecvAsk`,
`RecvDelivered`, `RecvPending`. State: the wakers, the two mailboxes, the Reply slot,
the frame a call may transfer, and the two budgets. A `setup` fixes the bodies and
their spawn order: the repository's own two demos, two clients and two servers in
every order, and mixtures with yielding workers and small budgets. `Stray` is a wake
from outside (`endpoint_waker`), at any time; `Period` is `replenish` after
`run_until_idle` has returned, and its next call. Two
setups use the crate directly: parties that send, receive, signal, wait and give up as
they like, and the decoding of every word.

## Buddy and Memory

`Buddy` has the allocator as it is: an array of descriptors with `next`, `prev`, order
and free flag, list heads per order, `alloc` with its split downwards and `free` with
its coalescing upwards, `add_frames` with its cutting of a range into aligned blocks.
`FramePool` is the promise: a set of free frames from which whole aligned blocks are
taken and to which they return.

`Memory` is the boot: `InitMemory` filters, clamps, sorts and checks the memory map,
places the descriptor array and releases the ranges, or halts. Then follow the page
tables' frames, the demo's slab and Untyped, and the heap, and after that allocations
and frees in any order. The slab keeps its list in the free slots, which owners
overwrite (`SlabStore`).

## Page tables and address spaces

`PhysTables` is memory as tables of `Fan` entries; `X86Paging` and `ArmPaging` translate
the two backends, including the differences that matter: the PML4 shared by both halves
against two roots, PKU keys against tagged aliases, the user bit on every level, and
how a large page is split. `Mmu` is the hardware's walk (external) and is the view the
properties use; `Translate` and `PageProt` are the kernel's own walks.

`AddressSpaces` goes from the base tables through the isolation escape test and the
loader demo to one of three demos: the bring-up blobs, ping/pong/evil with the shared
region, and crashd with its reap and restart. Each page mapping is a step; processes
die at any time. `fatal` collects the boot's own assertions.

## Pex and Loader

`Pex` has images as records: header fields, tables, and a byte sequence of which only
lengths, offsets and segment contents matter. `Parse` makes the checks in the code's
order. `Encode` and `Mkpex` write such records.

`Loader` extends `CSpace`: a load is the sequence of `Retype`, `Split` and `Grant` the
code makes, each of which may be refused, and returns then with the rest in place.
Loads of two processes run from one authority and one scratch cursor; a loaded process
gets the kernel's own capabilities (`Share`, `InstallNotification`) and may be discarded
and loaded again. `Inputs` are specifications and the damage done to their image;
`Invoke` is the dispatch of a system call.

## Runs

| Run | Bounds | Shows |
| --- | --- | --- |
| `cspace_derive` | 1 space, 4 slots, Untyped of 4 frames | tree, rights, aliasing, zeroing and revoke within a space |
| `cspace_grants` | 2 spaces, 3 slots; either 1 frame and a Domain, or budgets 2 and 1 with u32 maximum 2 | grants leave no dangling link, nothing duplicated, no CPU time created |
| `cspace_wipe`, `cspace_budget` | 2 spaces, 3 slots | disagreements, below |
| `scheduler` | 2 processes, 4 stacks, 2 tables, 6 tasks ever | CPU state, stacks and tables; no starvation |
| `scheduler_heap` | 1 process | a disagreement, below |
| `ipc` | server, client, waiter with 4 calls and a crash at the 2nd; 3 arbitrary processes with 2 calls each | requests, Reply capabilities, replies to a lone caller, waiters; the demos end |
| `ipc_two_clients` | 1 server, 2 clients | a disagreement, below |
| `kernel_ipc` | up to 4 tasks, budgets 1 to 9, 2 stray wakes, 4 direct parties, all 7-bit words | no lost wake-up, requests and replies match, the caller pays, all tasks end, the Endpoint implements `Rendezvous` |
| `memory` | 9 frames, orders 0 to 3, 14 memory maps, slab frames of 16 bytes with words of 4 | the allocator implements `FramePool` over exactly the usable frames; slab and Untyped sound |
| `address_spaces` | 3 entries per table, 12 frames, 3 demos of up to 3 processes, both architectures | isolation, W^X, the direct map, conservation of frames and tables |
| `loader` | 8 frames, 9 slots, budget 5, 2 processes, 36 images and 4 ELF files | parser, encoder, packer and loader; authority of a loaded process |

Each module's type invariant is checked: as `TypeOK` for `CSpace`, elsewhere as a
conjunct of the module's structural invariant (`CurrentRuns`, `ServedOnce`,
`NoLostWakeup`, `ListsSound`, `FramesConserved`, `SegmentsApart`).

Why the bounds are enough. Four slots hold an Untyped, a child, a grandchild and a free
slot to move to, so chains as long as the table, siblings and slot reuse all happen.
Four frames allow objects of different sizes, two objects of two frames from one
retype, and a full Untyped. Two budgets that together exceed the u32 maximum and meet
through a grant make the refused delegation and the saturating return reachable.
Four stacks leave two for processes beside the hog and the worker; six tasks let a slot
be reused, so an old finished generation lies beside a new one. Two arbitrary calls
let a stale message or reply meet a later call. Two clients with two servers are the
fewest for a reply to go astray in the executor, and budgets of 1 park a task after
every poll. Nine frames in one range make an order-3 block and one left over, so every
order is split and merged; the maps reach each check of the bring-up, passing and
failing. Three entries per table give a split page two neighbours, and the window has
three leaf tables whose addresses are used by several processes each. The authority's
eight frames and six scratch slots run out in the middle of a second load, and each
check of the parser and of the loader is failed by some image.

`CHECK_DEADLOCK FALSE` is used where the system may really stop: a CSpace whose
capabilities are all deleted, an executor with nothing to do, a demo that has ended, an
authority that is used up. In `Scheduler`, `UserIpc` and `Memory` the halted machine
stutters and any other stop would be reported.

`LoadsConserve` exempts the step in which the supervisor drops a dead process's space:
its Sched goes with it. `ImageLoaded` exempts a segment that a later one is mapped over:
the parser does not refuse overlapping segments. `NoAmbientAuthority` and the rest of
the loader's properties take manifests as `mkpex` and the demos write them, which leave
the kernel's own slots alone.

## Fairness

- `CSpace`: weak fairness of the revoke loop; its caller holds the space.
- `Scheduler`: the timer fires while unmasked; the boot task runs straight-line code
  and loops that yield, so its spawn, yield, end-of-demo, halt and free steps are weakly
  fair; a process drops to user mode and makes system calls. With interrupts masked in
  user mode the kernel cannot take the CPU back, so the fairness of `YieldUser` is an
  assumption on the programs, true of the reference ones. No fairness is assumed of
  exits, loads, process spawns or the worker.
- `UserIpc`: whoever has the CPU takes a step. Strong fairness of `EnterUser` says that
  a timer tick does not hit the same few instructions of `task_enter` at every turn.
- `KernelIpc`: the executor's loop goes on while a task is queued, and a new period
  begins when it has returned with tasks left (`demo_executor` calls `replenish` in a
  loop). Nothing is assumed of stray wakes.

## Disagreements between code and comments

1. `cspace_wipe`: "zero the object if this was its last capability" looks at one space
   only; after a Mint-grant it wipes a frame another space still owns.
2. `cspace_budget`: a destroyed Sched's budget is added to its parent with saturation.
   When the parent has been filled by a delegation from another tree, which `delegate`
   itself foresees, the excess is lost. `BudgetNotForged` says what does hold: CPU time
   is never created, and none is lost while all budgets together fit a u32.
3. `scheduler_heap`: the worker drops its executor after it stored `WORKER_DONE`, with
   interrupts enabled. Preempted there with the heap locked, it leaves the boot task
   spinning, masked, at its next allocation.
4. `ipc_two_clients`: a reply is taken by whichever caller polls first, not by the one
   the Reply capability names. The demos run one client at a time.

The properties about frames (`NoAlias`, `NoResidual`) are stated for a single space. With
grants they stop holding for the same reason as 1 (the comment on `grant` defers
derivation links across spaces to later work): revoking an Untyped resets its watermark
although a Move-granted child in another space still owns frames of it. In the same way
`next_obj` counts per space, so a Sched moved into a space may carry the id of one
created there. `HasWaiter` needs that only one process holds WAIT, as in the demo:
the latch has one waiter slot.

Three comments are imprecise without a run of their own, as no state contradicts the
code's purpose. `sched/src/executor.rs:49`: a task that `run_until_idle` leaves need not
be completed or parked, it may be blocked on a peer (`NoLostWakeup` says which).
`kernel/src/loader/mod.rs:52`, "never partially applied with UB": a refused load leaves
its frames and Scheds with the authority (`LoadsConserve`).
`kernel/src/sched/scheduler.rs:212`, "the stack is never freed": `reap_finished` does.

Masking interrupts at the end of `demo_preemption` does not park the hog, as the comment
there has it: the model shows the later `yield_now` loops schedule it, and the tick
takes the CPU back (`NoStarvation` includes the hog).

## Proofs

Each theorem holds for every value of the constants that satisfies the named
assumptions. Those are evaluated by TLC in the runs.

### CSpaceProofs

For any spaces, any N > 0, any u32 maximum, any boot contents that satisfy
`BootAssumption`, and both grant modes:

- `TypeCorrect`, `LinksLive`, `LinksForest`, `Monotone`: `TypeOK`, `ParentsLive`,
  `Forest` and `DerivationMonotone` are invariants (`Forest` is proved only: no run lists it);
- `RevokeIsComplete`: nothing is derived from a slot when its revoke returns;
- `NeverDuplicated`: `Linear` is an invariant.

The inductive invariant is `TreeInv`: types, and for each table `ForestTable` (no set of
slots is closed under parents) and `KinTable` (a parent is live and its child derives
from it). The parts need each other: a move rewrites links and stays monotone only
because the parent is live; a leaf may be destroyed without orphaning anything only
because it has no children; and revoke can only stop with nothing left because a
non-empty set of descendants in a forest has a leaf. Linearity rests on `TreeInv` for
the types and on `LinearFrom`: each action leaves at most one holder where there was one.

`ConstantsAssumption` and `BootAssumption`: boot installs roots only, no two Untypeds or
Domains coincide, root memory does not overlap, Notifications have no frames and Frames
have some.

### CSpaceFrameProofs

- `WalkIsExact`: `is_descendant`, which gives up after N + 1 parents, finds exactly the
  descendants. In a forest of N slots a walk that had not ended after N + 1 steps would
  visit some slot twice, so the slots on it would be closed under parents.
- `NoFrameTwice`, `NoDataLeft`, `NoOwnedFrameWiped`: `NoAlias`, `NoResidual` and
  `NeverWipesOwned` hold as long as nothing is granted to another space. The hypothesis
  is `GrantModes = {}`; the run `cspace_wipe` shows that it is needed.

The inductive invariant is `FrameInv`. Beside `TreeInv` it says of each table that
Untypeds do not overlap, that a root lies outside every Untyped and what was retyped
lies in the used part of the Untyped it hangs below, that two owners name one object or
are apart, that all this lies in the space's own region, and that data is in Frames only.
`NoAlias` alone is not inductive: that two objects are apart says nothing of the frames
the next retype takes; the watermark separates those. When a revoke has destroyed the
last descendant of an Untyped, nobody names its frames, so the watermark may go back.

### SchedulerProofs

- `RunnableRuns`, `HardwareMatches`, `StacksAreConserved`, `TablesAreSafe`:
  `CurrentRuns`, `CpuMatches`, `StacksConserved` and `TablesSafe` for any processes,
  stack blocks, page tables, budgets and number of tasks.

The inductive invariant `SchedInv` adds that the boot task stays as `bootstrap` made it
(so it is never charged, and a switch always finds a task), that a task has a stack
until it is reaped and a process its own table, that the cache of `activate_space` is
right while it holds something, and that each table is free, loaded for a process to be
spawned, used by one task or being reaped, and only one of these. `CpuMatches` rests on
the last: a table given to a new process is not one the cache still names.
`SchedulerAssumption` says that `None` is none of the values it stands beside.

### UserIpcProofs

- `ReceivedOnce`, `LoneCallerAnswered`, `LostOnlyWithReceiver`: `ServedOnce`,
  `OneCallerAnswered` and `RequestNotLost` for any set of processes, any plan and any
  number of calls;
- `WaiterRegistered`: `HasWaiter`, for plans in which one process at most holds WAIT
  (`OneMayWait`); with two of them it is false.

`IpcInv` adds to the properties that the run queue holds the live tasks once each, that
a process is blocked only in a call it may make, that a Reply capability is for a call
its caller has made, and that with one caller its current call is on offer, received or
answered, never two of these, with nothing left of it outside the call.

### KernelIpcProofs

- `WakeupsKept`, `RequestsServedOnce`, `CallersPay`: `NoLostWakeup`, `RequestOnce` and
  `CallerPays` for any bodies in any spawn order, any budgets, any number of stray wakes
  and periods;
- `EndpointIsRendezvous`: `Spec => ImplementsRendezvous`, the endpoint with its two
  queues implements the one line of `Rendezvous`.

`KernelInv` has seven parts, for the tasks, the endpoint, who waits at it, the
mailboxes, the reply slot and the frame, the budgets, and the wakers. They need each
other. That a send finds no mail waiting for the receiver it serves (a second request
would replace the first) rests on receivers being in the queue once and without mail;
that the reply slot is free rests on requests being in one place; that a wake-up is kept
rests on both. `CallerPays` is about one client: its budgets are known exactly at each
place its request can be.

The refinement needs only that one of the two queues is empty. The mapping shows both
queues one after the other; `LineFacts` turns it into the image of the one that is not,
and the steps of the line follow from what `Append`, `Tail` and `Entries` do to an
image.

`KernelIpcAssumption` says that a setup lists bodies of the three kinds, that only one
client has the one frame to transfer, and that the work is within what a call lends
(30, 50 and 100 in the code).

### BuddyProofs and MemoryProofs

For any memory maps, any number of frames, any `MaxOrder` and any sequence of
allocations and frees:

- `FramesArePooled`: `Spec => ImplementsPool`, the frame allocator over the buddy
  allocator implements `FramePool`;
- `NoFrameLost`: `OnlyUsable` is an invariant;
- `NoBlockTwice`: blocks in use overlap neither each other nor a free block (proved
  only: no run lists it).

`BuddyProofs` is about single calls. `BuddyOK` says of the state of an allocator over n
frames that a free block lies inside the array, that two free blocks do not overlap, and
that the head and both links of a block of order o lead to free blocks of order o and
back. It holds of a new allocator, and `add_frames`, `alloc` and `free` keep it, add or
remove exactly the frames of one run or block, count them, and leave the descriptors of
all other frames alone. That links lead back is what `unlink` needs to leave the list
of an order whole; that blocks do not overlap is what makes the halves of a split
disjoint from everything free. Each loop is a recursive function whose existence and
values follow by induction over its steps.

`MemoryProofs` has the kernel around it. `PoolInv` adds that a block handed out lies in
the array, meets no free block and no other, and that its descriptor still has the order
`alloc` recorded, which is what `free` goes by. For the bring-up, `RangesCover` shows
that filtering, clamping and sorting the map keep exactly the frames it offers in the
window, and `BuiltOK` that releasing the ranges one by one never releases a frame twice,
because neighbours that do not overlap in a sorted list are apart. `WholeInv` then says
that the frames free or handed out are the usable ones; every step fills the pool,
takes a block, gives one back or moves no frame (`NextMoves`), which is also the
refinement.

### How the proofs are built

`NatFacts` proves induction over the naturals for a set (`NatSetInduction`) and the
existence of a least and a greatest element, from which the facts about walks and
recursive functions follow. For the same reason the queues use `Entries` and the blocks'
sizes `Pow2`, recursive functions, and the theorems' modules take `Range` from
`Functions`. Each inductive invariant was checked with TLC on the instance of the run
before it was proved. A leaf that names `Zenon` is first-order reasoning and needs no
arithmetic.

### Model-checked only

- Liveness: `RevokeTerminates`, `NoStarvation`, `DemoEnds`, `AllFinish`.
- `BudgetNotForged`: sums over sets of slots.
- `DecodeExact`: powers of two and remainders, for which the provers have no theory.
- `ListsSound`: that the lists reach every free block, that blocks are aligned, and that
  buddies merge. The proofs need only that links lead back.
- `ObjectsApart`, and all properties of `AddressSpaces` and `Loader`.

## Not modelled

- Boot handoff (`kernel/src/boot`): three checks of a pointer and two constants, and
  printing. `Memory` starts from the map it hands over.
- Key and tag registers, context switch, trap entry and exit in assembly: their effect
  (what is loaded, what is masked) is in `Scheduler`, their instructions are not. The
  expected-fault hook of `interrupts.rs` serves single probes in the self-tests.
- TLB and cache maintenance: one CPU, and each operation flushes what it changed.
- The self-tests of `cap`, `isolation`, `memory` and `sched`: straight-line sequences of
  calls that the models make in every order.
- The spin lock (`kernel/src/sync.rs`): its users run masked on one CPU, so a locked
  section is one step. The heap's lock, taken unmasked, is in `Scheduler`.
- The heap's block management (an external crate), serial output, `xtask`.
- Badges, labels beyond their number of bits, and message words beyond what tells two
  messages apart.

## Plan

1. `UserIpc`'s queue shown to be implemented by `Scheduler`; user mode made preemptible,
   to state what the window between `PROC_DONE` and `Finished` would cost.
2. Proofs: `ImplementsPool` and `OnlyUsable` of the frame allocator; `ParseSafe` and
   `NoAmbientAuthority` of the loader.
