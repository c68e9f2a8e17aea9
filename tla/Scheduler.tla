------------------------------ MODULE Scheduler ------------------------------
(***************************************************************************)
(* The preemptive scheduler of the kernel (src/kernel/src/sched/            *)
(* scheduler.rs): a list of stackful tasks on one CPU, round-robin over the *)
(* runnable ones that have CPU time left, cooperative yields, the timer     *)
(* tick, the end of a task, and the reaper that takes back the kernel stack *)
(* and the address space of a finished process.                            *)
(*                                                                         *)
(* Every action is a section the code runs with interrupts masked, executed *)
(* by the current task or, for Tick, by the timer interrupt on top of it.   *)
(* Task 1 is the boot task: it spawns, drives and reaps.  It is entered with *)
(* interrupts masked and nothing unmasks it: a task starts preemptible in    *)
(* task_enter, and a switch brings every task back with its own mask.  So    *)
(* the hog and the worker of the preemption demo are preemptible, and a      *)
(* process is so only until its drop to user mode, which masks interrupts.   *)
(***************************************************************************)
EXTENDS Integers, Sequences, FiniteSetsExt

CONSTANTS
  Procs,       \* userspace process slots
  Blocks,      \* guarded kernel-stack blocks the frame allocator can give
  ASpaces,     \* process page tables (with the user stack they map)
  Kernel,      \* the shared kernel address space
  None,        \* an absent process, stack or address space
  Budgets,     \* CPU time a kernel task is spawned with, in ticks, or Forever
  Forever,     \* a budget of u32::MAX that outlasts the uptime considered
  MaxTasks     \* bound on the number of tasks ever spawned

VARIABLES
  tasks,       \* the task list; indices are stable
  current,     \* index of the running task
  cpu,         \* what the hardware has loaded: page table, syscall stack, domain
  active,      \* ACTIVE_PRIMARY / ACTIVE_SECONDARY: the table the scheduler thinks is loaded
  free,        \* stack blocks in the frame allocator
  guarded,     \* blocks whose guard page is unmapped
  freeSpaces,  \* page tables not allocated
  loaded,      \* loaded[p]: table of a process that is loaded and not yet spawned
  reaping,     \* what reap_finished has detached and not yet freed
  phase,       \* what the boot task is doing: spawn, drive, user, stuck or halted
  done,        \* WORKER_DONE
  heap         \* the task that holds the lock of the kernel heap, or None

boot == <<freeSpaces, loaded, reaping, phase>>
vars == <<tasks, current, cpu, active, free, guarded, boot, done, heap>>

Task(left, proc, space, stack) ==
  [state |-> "Runnable", left |-> left, proc |-> proc, space |-> space,
   stack |-> stack, irq |-> TRUE]

(* bootstrap adopts the running context as a task: it has no stack of its   *)
(* own, is never charged and is not preemptible.                           *)
BootTask ==
  [state |-> "Runnable", left |-> Forever, proc |-> None, space |-> Kernel,
   stack |-> None, irq |-> FALSE]

(* Places in the task list: demo_preemption spawns the hog, then the worker.*)
Boot   == 1
Hog    == 2
Worker == 3

-----------------------------------------------------------------------------
(* Choosing a task.                                                        *)

Depleted(t) == t.left = 0
Eligible(t) == t.state = "Runnable" /\ ~Depleted(t)

(* pick_next: the first eligible task after cur, cur itself last; 0 if none.*)
(* The mutant scans from the front of the list.                            *)
PickNextFirst(ts, cur) ==
  LET ready == {i \in DOMAIN ts : Eligible(ts[i])}
  IN  CASE ready \ {cur} # {} -> Min(ready \ {cur})
        [] ready = {cur}      -> cur
        [] OTHER              -> 0

PickNext(ts, cur) ==
  LET n     == Len(ts)
      at(k) == ((cur - 1 + k) % n) + 1
      ready == {k \in 1 .. n : Eligible(ts[at(k)])}
  IN  IF ready = {} THEN 0 ELSE at(Min(ready))

RunnableBesides(ts, who) == \E i \in DOMAIN ts : i # who /\ Eligible(ts[i])

Charged(t) == [t EXCEPT !.left = IF @ \in {0, Forever} THEN @ ELSE @ - 1]

-----------------------------------------------------------------------------
(* Switching.                                                              *)

(* activate_space: the table is loaded unless it is the one loaded last.    *)
(* The mutant does not record what it loads.                               *)
ActivateUnrecorded(space) == active' = IF active = None THEN space ELSE active
Activate(space) == active' = space

SwitchTo(ts, next) ==
  LET t == ts[next]
  IN /\ current' = next
     /\ cpu' = [root   |-> IF t.space # active THEN t.space ELSE cpu.root,
                stack  |-> IF t.stack # None THEN t.stack ELSE cpu.stack,
                domain |-> t.proc]
     /\ Activate(t.space)

(* schedule: hand the CPU to the next task, with the task list ts.          *)
Schedule(ts) ==
  LET next == PickNext(ts, current)
  IN /\ tasks' = ts
     /\ IF next \notin {0, current}
        THEN SwitchTo(ts, next)
        ELSE UNCHANGED <<current, cpu, active>>

-----------------------------------------------------------------------------
(* The timer, and the tasks other than the boot task.                       *)

Running == tasks[current]
InUser  == Running.proc # None /\ ~Running.irq

(* on_tick, then preempt if another task could run.  The mutant charges and *)
(* carries on.                                                             *)
OnTickOnly(ts) == tasks' = ts /\ UNCHANGED <<current, cpu, active>>

OnTick(ts) ==
  IF RunnableBesides(ts, current)
  THEN Schedule(ts)
  ELSE tasks' = ts /\ UNCHANGED <<current, cpu, active>>

Tick ==
  /\ Running.irq
  /\ OnTick([tasks EXCEPT ![current] = Charged(@)])
  /\ UNCHANGED <<free, guarded, boot, done, heap>>

(* A blocking system call polls and yields.                                *)
YieldUser ==
  /\ InUser
  /\ Schedule(tasks)
  /\ UNCHANGED <<free, guarded, boot, done, heap>>

YieldWorker ==
  /\ current = Worker /\ ~done
  /\ heap = None
  /\ Schedule(tasks)
  /\ UNCHANGED <<free, guarded, boot, done, heap>>

(* The worker allocates and frees, before and (dropping the executor) after *)
(* it reports that it is done.  Nothing masks the timer meanwhile.          *)
HeapLock ==
  /\ current = Worker
  /\ heap = None
  /\ heap' = Worker
  /\ UNCHANGED <<tasks, current, cpu, active, free, guarded, boot, done>>

HeapUnlock ==
  /\ current = Worker
  /\ heap = Worker
  /\ heap' = None
  /\ UNCHANGED <<tasks, current, cpu, active, free, guarded, boot, done>>

WorkerDone ==
  /\ current = Worker /\ ~done
  /\ heap = None
  /\ done' = TRUE
  /\ UNCHANGED <<tasks, current, cpu, active, free, guarded, boot, heap>>

(* A process runs from task_enter as far as enter_user.                     *)
EnterUser ==
  /\ Running.proc # None /\ Running.irq
  /\ tasks' = [tasks EXCEPT ![current].irq = FALSE]
  /\ UNCHANGED <<current, cpu, active, free, guarded, boot, done, heap>>

(* task_exit: the worker's body returns, a process exits or is killed.  The *)
(* boot task is always eligible, so the wait for an interrupt is not reached.*)
TaskExit ==
  /\ InUser \/ (current = Worker /\ done /\ heap = None)
  /\ LET ts == [tasks EXCEPT ![current].state = "Finished"]
     IN  PickNext(ts, current) # 0 /\ Schedule(ts)
  /\ UNCHANGED <<free, guarded, boot, done, heap>>

-----------------------------------------------------------------------------
(* The boot task.  Whatever it allocates waits for the lock of the heap.     *)

(* The processes it has loaded are spawned, and one has not ended yet.      *)
Driving ==
  /\ phase = "user"
  /\ \A p \in Procs : loaded[p] = None
  /\ \E i \in DOMAIN tasks : tasks[i].proc # None /\ tasks[i].state = "Runnable"

(* Its drive loops yield until what they wait for is done.                  *)
YieldBoot ==
  /\ current = Boot
  /\ (phase = "drive" /\ ~done) \/ Driving
  /\ reaping = None
  /\ Schedule(tasks)
  /\ UNCHANGED <<free, guarded, boot, done, heap>>

(* spawn_inner: a block from the frame allocator, its guard page unmapped.  *)
Spawn(left, proc, space, block) ==
  /\ current = Boot /\ heap = None /\ reaping = None
  /\ Len(tasks) < MaxTasks
  /\ tasks' = Append(tasks, Task(left, proc, space, block))
  /\ free' = free \ {block}
  /\ guarded' = guarded \cup {block}
  /\ UNCHANGED <<current, cpu, active, freeSpaces, reaping, done, heap>>

(* demo_preemption: spawn the hog and the worker, then drive.  No block has *)
(* been used before, so they are alike and any choice will do.              *)
SpawnKernel(left) ==
  /\ phase = "spawn"
  /\ free # {}
  /\ Spawn(left, None, Kernel, CHOOSE block \in free : TRUE)
  /\ phase' = IF Len(tasks') = Worker THEN "drive" ELSE "spawn"
  /\ UNCHANGED loaded

EndDemo ==
  /\ current = Boot
  /\ phase = "drive" /\ done
  /\ phase' = "user"
  /\ UNCHANGED <<tasks, current, cpu, active, free, guarded, freeSpaces, loaded,
                 reaping, done, heap>>

(* load_process activates a fresh table to map the image in it, then the    *)
(* kernel's again, both behind the scheduler's back.  The mutant does not    *)
(* restore.                                                                *)
RootAfterLoadKept(space) == space
RootAfterLoad(space) == Kernel

LoadProcess(p, space) ==
  /\ current = Boot /\ phase = "user" /\ heap = None /\ reaping = None
  /\ Len(tasks) < MaxTasks
  /\ loaded[p] = None
  /\ \A i \in DOMAIN tasks : tasks[i].proc = p => tasks[i].state # "Runnable"
  /\ loaded' = [loaded EXCEPT ![p] = space]
  /\ freeSpaces' = freeSpaces \ {space}
  /\ cpu' = [cpu EXCEPT !.root = RootAfterLoad(space)]
  /\ UNCHANGED <<tasks, current, active, free, guarded, reaping, phase, done, heap>>

(* Every process is spawned with a budget of u32::MAX.                      *)
SpawnProc(p, block) ==
  /\ loaded[p] # None
  /\ Spawn(Forever, p, loaded[p], block)
  /\ loaded' = [loaded EXCEPT ![p] = None]
  /\ UNCHANGED phase

(* The boot task allocates while a preempted task holds the lock: it spins  *)
(* with interrupts masked, and the holder never runs again.                 *)
HeapSpin ==
  /\ current = Boot /\ phase \in {"user", "stuck"}
  /\ heap # None /\ reaping = None
  /\ phase' = "stuck"
  /\ UNCHANGED <<tasks, current, cpu, active, free, guarded, freeSpaces, loaded,
                 reaping, done, heap>>

(* The last demo is over, or something could not be loaded or spawned: the   *)
(* machine halts with interrupts masked, whatever tasks are left.           *)
Halt ==
  /\ current = Boot /\ phase = "user" /\ reaping = None
  /\ ~Driving
  /\ phase' = "halted"
  /\ UNCHANGED <<tasks, current, cpu, active, free, guarded, freeSpaces, loaded,
                 reaping, done, heap>>

Halted == phase = "halted" /\ UNCHANGED vars

(* reap_finished: the last finished task of the slot becomes a tombstone;   *)
(* its stack and its table are detached.                                   *)
Reapable(p) == {i \in DOMAIN tasks : tasks[i].proc = p /\ tasks[i].state = "Finished"}

ReapFinished(p) ==
  /\ current = Boot /\ phase = "user" /\ reaping = None
  /\ Reapable(p) # {}
  /\ LET i == Max(Reapable(p))
     IN /\ tasks' = [tasks EXCEPT ![i].state = "Reaped", ![i].stack = None]
        /\ reaping' = [block |-> tasks[i].stack, space |-> tasks[i].space]
  /\ UNCHANGED <<current, cpu, active, free, guarded, freeSpaces, loaded, phase, done, heap>>

(* The guard page is mapped again, the block goes back to the allocator,    *)
(* and reap_process_space gives back the table.  The mutant leaves the      *)
(* guard page unmapped.                                                    *)
UnguardNot(block) == guarded' = guarded
Unguard(block) == guarded' = guarded \ {block}

ReapFree ==
  /\ reaping # None
  /\ Unguard(reaping.block)
  /\ free' = free \cup {reaping.block}
  /\ freeSpaces' = freeSpaces \cup {reaping.space}
  /\ reaping' = None
  /\ UNCHANGED <<tasks, current, cpu, active, loaded, phase, done, heap>>

-----------------------------------------------------------------------------
(* bootstrap.                                                              *)
Init ==
  /\ tasks = <<BootTask>>
  /\ current = Boot
  /\ cpu = [root |-> Kernel, stack |-> None, domain |-> None]
  /\ active = None
  /\ free = Blocks
  /\ guarded = {}
  /\ freeSpaces = ASpaces
  /\ loaded = [p \in Procs |-> None]
  /\ reaping = None
  /\ phase = "spawn"
  /\ done = FALSE
  /\ heap = None

Next ==
  \/ Tick
  \/ YieldUser
  \/ YieldWorker
  \/ HeapLock
  \/ HeapUnlock
  \/ WorkerDone
  \/ EnterUser
  \/ TaskExit
  \/ YieldBoot
  \/ \E left \in Budgets : SpawnKernel(left)
  \/ EndDemo
  \/ \E p \in Procs, space \in freeSpaces : LoadProcess(p, space)
  \/ \E p \in Procs, block \in free : SpawnProc(p, block)
  \/ HeapSpin
  \/ Halt
  \/ Halted
  \/ \E p \in Procs : ReapFinished(p)
  \/ ReapFree

(* The timer fires whenever it is unmasked; the boot task drives with yield *)
(* loops and finishes what it has begun; a process makes system calls (with *)
(* interrupts masked in user mode nothing else takes the CPU from it).      *)
Fairness ==
  /\ WF_vars(Tick)
  /\ WF_vars(YieldUser)
  /\ WF_vars(EnterUser)
  /\ WF_vars(\E left \in Budgets : SpawnKernel(left))
  /\ WF_vars(YieldBoot)
  /\ WF_vars(EndDemo)
  /\ WF_vars(Halt)
  /\ WF_vars(ReapFree)

Spec == Init /\ [][Next]_vars /\ Fairness

-----------------------------------------------------------------------------
ASSUME SchedulerAssumption ==
  /\ None \notin Procs \cup Blocks \cup ASpaces \cup {Kernel}
  /\ None \notin [block: Blocks, space: ASpaces]
  /\ Kernel \notin ASpaces
  /\ Budgets \subseteq Nat \cup {Forever}
  /\ Forever \notin Nat
  /\ MaxTasks \in Nat \ {0}

-----------------------------------------------------------------------------
(* Properties.                                                             *)

TaskRec == [state: {"Runnable", "Finished", "Reaped"}, left: Nat \cup {Forever},
            proc: Procs \cup {None}, space: ASpaces \cup {Kernel},
            stack: Blocks \cup {None}, irq: BOOLEAN]

(* The state is well formed, current is an index of the task list, and what *)
(* is being reaped has a stack and a table of its own.                      *)
TypeOK ==
  /\ tasks \in Seq(TaskRec)
  /\ current \in DOMAIN tasks
  /\ cpu \in [root: ASpaces \cup {Kernel}, stack: Blocks \cup {None}, domain: Procs \cup {None}]
  /\ active \in ASpaces \cup {Kernel, None}
  /\ free \subseteq Blocks /\ guarded \subseteq Blocks /\ freeSpaces \subseteq ASpaces
  /\ loaded \in [Procs -> ASpaces \cup {None}]
  /\ reaping \in {None} \cup [block: Blocks, space: ASpaces]
  /\ phase \in {"spawn", "drive", "user", "stuck", "halted"}
  /\ done \in BOOLEAN
  /\ heap \in {None, Worker}

(* The state is well formed (TypeOK), and the running task is runnable and   *)
(* has CPU time left ("no budget, no run"):                                 *)
(* whatever tick, exit or yield put it there, it is neither finished nor     *)
(* reaped nor depleted.  The tick that depletes a task must find another, and *)
(* it does because the boot task, which is never charged, stays eligible.    *)
CurrentRuns == TypeOK /\ Running.state = "Runnable" /\ Running.left # 0

(* The hardware is set up for the running task: its page table is loaded,   *)
(* although activate_space skips loads and load_process loads tables without *)
(* telling it; its domain is programmed; and a system call of a process     *)
(* lands on that process's own kernel stack, although a switch to the boot   *)
(* task leaves the old one in place.                                       *)
CpuMatches ==
  /\ cpu.root = Running.space
  /\ cpu.domain = Running.proc
  /\ Running.proc # None => cpu.stack = Running.stack

(* No stack is shared, lost or freed while a task owns it: the blocks are   *)
(* the free ones, one per task that is not reaped, and the one being reaped; *)
(* a free block has its guard page mapped.                                  *)
StacksConserved ==
  LET owners == {i \in DOMAIN tasks : tasks[i].stack # None}
      owned  == {tasks[i].stack : i \in owners}
      detached == IF reaping = None THEN {} ELSE {reaping.block}
  IN /\ \A i, j \in owners : tasks[i].stack = tasks[j].stack => i = j
     /\ owners = {i \in DOMAIN tasks : i # Boot /\ tasks[i].state # "Reaped"}
     /\ free = Blocks \ (owned \cup detached)
     /\ guarded = owned \cup detached

(* A page table is never freed while a task that is not reaped runs on it,  *)
(* it is loaded, or the scheduler believes it is (activate_space would skip  *)
(* the load when the table is given to the next process).                   *)
TablesSafe ==
  LET inUse == {tasks[i].space : i \in {j \in DOMAIN tasks : tasks[j].state # "Reaped"}}
  IN  freeSpaces \cap (inUse \cup {cpu.root, active}) = {}

(* Every runnable task with budget left gets the CPU, unless the boot task  *)
(* spins for the heap or halts the machine: the timer takes the CPU from     *)
(* the hog, which never yields, and pick_next is round-robin.               *)
NoStarvation ==
  \A i \in 1 .. MaxTasks :
    (i \in DOMAIN tasks /\ tasks[i].state = "Runnable" /\ tasks[i].left # 0)
      ~> (current = i \/ phase \in {"stuck", "halted"})

(* "a clean shutdown, not a live-locked CPU": once the preemption demo is    *)
(* over the boot task never waits for a lock whose holder was preempted.    *)
NotLiveLocked == phase # "stuck"
=============================================================================
