--------------------------- MODULE SchedulerProofs ---------------------------
(***************************************************************************)
(* Proofs about Scheduler, for any number of processes, stacks, page tables *)
(* and tasks: the CPU always runs a task that may run, set up for it, and    *)
(* stacks and page tables are neither shared nor freed in use.              *)
(***************************************************************************)
EXTENDS Scheduler, NatFacts, TLAPS

-----------------------------------------------------------------------------
(* Choosing a task.                                                        *)

(* Positions counted from the current task, wrapping around once.           *)
LEMMA Wrap ==
  ASSUME NEW n \in Nat \ {0}, NEW a \in 0 .. n - 1
  PROVE  a % n = a /\ (a + n) % n = a
OBVIOUS

LEMMA WrapRange ==
  ASSUME NEW n \in Nat \ {0}, NEW a \in Nat
  PROVE  a % n \in 0 .. n - 1
OBVIOUS

(* pick_next returns an eligible task whenever there is one.                *)
LEMMA PickNextFacts ==
  ASSUME NEW ts \in Seq(TaskRec), NEW cur \in DOMAIN ts
  PROVE  /\ PickNext(ts, cur) \in DOMAIN ts \cup {0}
         /\ PickNext(ts, cur) # 0 => Eligible(ts[PickNext(ts, cur)])
         /\ (\E i \in DOMAIN ts : Eligible(ts[i])) => PickNext(ts, cur) # 0
<1> DEFINE n == Len(ts)
           at(k) == ((cur - 1 + k) % n) + 1
           ready == {k \in 1 .. n : Eligible(ts[at(k)])}
<1>1. n \in Nat \ {0} /\ DOMAIN ts = 1 .. n /\ cur \in 1 .. n
  OBVIOUS
<1>2. PickNext(ts, cur) = IF ready = {} THEN 0 ELSE at(Min(ready))
  BY Zenon DEF PickNext
<1>3. \A k \in 1 .. n : at(k) \in 1 .. n
  <2> HIDE DEF n
  <2> SUFFICES ASSUME NEW k \in 1 .. n PROVE at(k) \in 1 .. n
    BY Zenon
  <2>1. cur - 1 + k \in Nat
    BY <1>1
  <2>2. (cur - 1 + k) % n \in 0 .. n - 1
    BY Zenon, <1>1, <2>1, WrapRange
  <2>3. QED
    BY <1>1, <2>2
<1>4. ready # {} => Min(ready) \in ready
  <2>1. ready \in SUBSET Nat
    BY <1>1
  <2>2. ready # {} => \E x \in ready : \A y \in ready : x <= y
    <3> HIDE DEF ready
    <3> QED
      BY Zenon, <2>1, LeastNat
  <2>3. QED
    BY Zenon, <2>2 DEF Min
<1>5. ASSUME NEW i \in DOMAIN ts, Eligible(ts[i]) PROVE ready # {}
  <2> DEFINE k == IF i > cur THEN i - cur ELSE i - cur + n
  <2>1. k \in 1 .. n
    BY <1>1
  <2>2. at(k) = i
    <3>1. CASE i > cur
      BY <3>1, <1>1, Wrap, cur - 1 + k = i - 1
    <3>2. CASE ~(i > cur)
      <4> HIDE DEF n
      <4>1. i - 1 \in 0 .. n - 1 /\ cur - 1 + k = (i - 1) + n
        BY <3>2, <1>1
      <4>2. ((i - 1) + n) % n = i - 1
        BY Zenon, <4>1, <1>1, Wrap
      <4>3. QED
        BY <4>1, <4>2, <1>1
    <3>3. QED
      BY Zenon, <3>1, <3>2
  <2>3. k \in ready
    BY Zenon, <2>1, <2>2, <1>5
  <2>4. QED
    BY Zenon, <2>3
<1>6. QED
  <2> HIDE DEF n, ready, at
  <2>1. CASE ready = {}
    BY Zenon, <2>1, <1>2, <1>5
  <2>2. CASE ready # {}
    <3>1. PickNext(ts, cur) = at(Min(ready)) /\ Min(ready) \in ready
      BY Zenon, <2>2, <1>2, <1>4
    <3>2. Min(ready) \in 1 .. n /\ Eligible(ts[at(Min(ready))])
      BY Zenon, <3>1 DEF ready
    <3>3. at(Min(ready)) \in 1 .. n
      BY Zenon, <3>2, <1>3
    <3>4. QED
      BY <3>1, <3>2, <3>3, <1>1
  <2>3. QED
    BY Zenon, <2>1, <2>2

-----------------------------------------------------------------------------
(* The inductive invariant.                                                *)

(* A task has its stack until it is reaped; only processes are reaped, and  *)
(* only they have a page table of their own.                               *)
WellTask(t) ==
  /\ t.stack = None <=> t.state = "Reaped"
  /\ t.proc = None => t.space = Kernel /\ t.irq /\ t.state # "Reaped"
  /\ t.proc # None => t.space \in ASpaces

(* The boot task is what bootstrap made it: nothing charges it, nothing     *)
(* makes it preemptible.                                                   *)
TasksInv ==
  /\ Boot \in DOMAIN tasks /\ tasks[Boot] = BootTask
  /\ \A i \in DOMAIN tasks : i # Boot => WellTask(tasks[i])

(* The scheduler's cache is right while it holds something: load_process     *)
(* loads tables behind its back, but only on behalf of the boot task, whose  *)
(* table is the one it restores.                                           *)
CpuInv ==
  /\ Running.state = "Runnable" /\ Running.left # 0
  /\ CpuMatches
  /\ active # None => cpu.root = active

StackInv ==
  /\ \A i, j \in DOMAIN tasks :
       tasks[i].stack # None /\ tasks[i].stack = tasks[j].stack => i = j
  /\ \A b \in Blocks :
       LET used == \/ \E i \in DOMAIN tasks : tasks[i].stack = b
                   \/ reaping # None /\ reaping.block = b
       IN  (b \in free <=> ~used) /\ (b \in guarded <=> used)
  /\ reaping # None => \A i \in DOMAIN tasks : tasks[i].stack # reaping.block

(* A table is free, loaded for a process to be spawned, used by one task    *)
(* that is not reaped, or being reaped, and only one of these; while         *)
(* something is being reaped the boot task has the CPU.                     *)
TableInv ==
  /\ \A i \in DOMAIN tasks : tasks[i].state # "Reaped" =>
       /\ tasks[i].space \notin freeSpaces
       /\ \A p \in Procs : tasks[i].space # loaded[p]
       /\ reaping # None => tasks[i].space # reaping.space
       /\ \A j \in DOMAIN tasks :
            /\ tasks[j].state # "Reaped"
            /\ tasks[i].proc # None /\ tasks[i].space = tasks[j].space
            => i = j
  /\ \A p, q \in Procs : loaded[p] # None /\ loaded[p] = loaded[q] => p = q
  /\ \A p \in Procs : loaded[p] \notin freeSpaces
  /\ reaping # None =>
       /\ current = Boot
       /\ reaping.space \notin freeSpaces
       /\ \A p \in Procs : loaded[p] # reaping.space

SchedInv == TypeOK /\ TasksInv /\ CpuInv /\ StackInv /\ TableInv

-----------------------------------------------------------------------------
(* A switch.                                                               *)

LEMMA BootFacts ==
  /\ BootTask \in TaskRec /\ Eligible(BootTask)
  /\ BootTask.proc = None /\ BootTask.space = Kernel /\ BootTask.stack = None
  /\ BootTask.irq = FALSE /\ BootTask.state = "Runnable"
BY SchedulerAssumption DEF BootTask, TaskRec, Eligible, Depleted

(* The lists that Schedule is called with differ from tasks in what the     *)
(* current task has left and in whether it has finished.                    *)
SameOwners(ts) ==
  /\ ts \in Seq(TaskRec) /\ DOMAIN ts = DOMAIN tasks
  /\ ts[Boot] = tasks[Boot]
  /\ \A i \in DOMAIN tasks :
       /\ ts[i].proc = tasks[i].proc /\ ts[i].space = tasks[i].space
       /\ ts[i].stack = tasks[i].stack /\ ts[i].irq = tasks[i].irq
       /\ ts[i].state = "Reaped" <=> tasks[i].state = "Reaped"

LEMMA ScheduleKeeps ==
  ASSUME SchedInv, NEW ts, SameOwners(ts), reaping = None,
         Schedule(ts), UNCHANGED <<free, guarded, boot, done, heap>>
  PROVE  SchedInv'
<1> DEFINE next == PickNext(ts, current)
<1> USE SchedulerAssumption
<1>1. /\ next \in DOMAIN ts /\ Eligible(ts[next]) /\ tasks' = ts
      /\ Boot \in DOMAIN ts /\ ts[Boot] = BootTask
  <2>1. current \in DOMAIN ts /\ Boot \in DOMAIN ts /\ ts[Boot] = BootTask
    BY Zenon DEF SchedInv, TypeOK, TasksInv, SameOwners
  <2>2. QED
    BY Zenon, <2>1, PickNextFacts, BootFacts DEF SameOwners, Schedule
<1>2. current' = next
  <2>1. next # 0
    BY <1>1 DEF SameOwners
  <2>2. QED
    BY Zenon, <2>1 DEF Schedule, SwitchTo
<1>3. /\ \A i \in DOMAIN ts : ts[i] \in TaskRec
      /\ DOMAIN ts = DOMAIN tasks /\ current \in DOMAIN ts
  BY DEF SameOwners, SchedInv, TypeOK
<1>4. TasksInv'
  BY <1>1, <1>3 DEF SchedInv, TasksInv, SameOwners, WellTask
<1>5. \A i \in DOMAIN ts : ts[i].proc # None /\ ts[i].state = "Runnable" => ts[i].stack # None
  BY Zenon, <1>1, <1>3, <1>4, BootFacts DEF TasksInv, WellTask
<1>6. CpuInv' /\ TypeOK'
  <2> HIDE DEF next
  <2>0. tasks'[next] = ts[next] /\ ts[next].state = "Runnable" /\ ts[next].left # 0
    BY Zenon, <1>1 DEF Eligible, Depleted
  <2>1. CASE next = current
    <3>1. UNCHANGED <<current, cpu, active>>
      BY Zenon, <2>1 DEF Schedule, next
    <3>2. CpuInv'
      BY <2>0, <2>1, <3>1, <1>1, <1>2, <1>3 DEF SchedInv, CpuInv, CpuMatches, Running, SameOwners
    <3>3. TypeOK'
      BY Zenon, <3>1, <1>1, <1>3 DEF SchedInv, TypeOK, SameOwners, boot
    <3>4. QED
      BY Zenon, <3>2, <3>3
  <2>2. CASE next # current
    <3>1. SwitchTo(ts, next)
      BY <2>2, <1>1, <1>3 DEF Schedule, next, SchedInv, TypeOK
    <3>2. /\ cpu'.root = IF ts[next].space # active THEN ts[next].space ELSE cpu.root
          /\ cpu'.domain = ts[next].proc
          /\ cpu'.stack = IF ts[next].stack # None THEN ts[next].stack ELSE cpu.stack
          /\ active' = ts[next].space
      BY Zenon, <3>1 DEF SwitchTo, Activate
    <3>3. /\ ts[next].space \in ASpaces \cup {Kernel} /\ ts[next].proc \in Procs \cup {None}
          /\ ts[next].stack \in Blocks \cup {None}
      BY Zenon, <1>1, <1>3 DEF TaskRec
    <3>4. cpu'.root = ts[next].space
      BY Zenon, <3>2, <3>3 DEF SchedInv, CpuInv
    <3>5. CpuInv'
      BY Zenon, <2>0, <3>2, <3>3, <3>4, <1>1, <1>2, <1>5 DEF CpuInv, CpuMatches, Running
    <3>6. cpu' \in [root: ASpaces \cup {Kernel}, stack: Blocks \cup {None}, domain: Procs \cup {None}]
      BY Zenon, <3>1, <3>3, <3>4 DEF SwitchTo, SchedInv, TypeOK
    <3>7. TypeOK'
      BY Zenon, <3>2, <3>3, <3>6, <1>1, <1>2 DEF SchedInv, TypeOK, SameOwners, boot
    <3>8. QED
      BY Zenon, <3>5, <3>7
  <2>3. QED
    BY Zenon, <2>1, <2>2
<1>7. StackInv'
  <2>1. \A i \in DOMAIN ts : ts[i].stack = tasks[i].stack
    BY Zenon, <1>3 DEF SameOwners
  <2>2. DOMAIN tasks' = DOMAIN tasks /\ tasks' = ts
    BY Zenon, <1>1, <1>3
  <2>3. UNCHANGED <<free, guarded, reaping>>
    BY Zenon DEF boot
  <2>4. QED
    BY <1>3, <2>1, <2>2, <2>3 DEF SchedInv, StackInv
<1>8. TableInv'
  BY <1>1, <1>3 DEF SchedInv, TableInv, SameOwners, boot
<1>9. QED
  BY Zenon, <1>4, <1>6, <1>7, <1>8 DEF SchedInv

-----------------------------------------------------------------------------
(* The actions.                                                            *)

(* The boot task is the one that is not preemptible and not a process.      *)
LEMMA NotBoot ==
  ASSUME SchedInv, Running.irq \/ Running.proc # None \/ current = Worker
  PROVE  current # Boot /\ reaping = None
BY BootFacts DEF SchedInv, TasksInv, TableInv, Running, Worker, Boot

LEMMA TasksSame == ASSUME SchedInv PROVE SameOwners(tasks)
BY Zenon DEF SchedInv, TypeOK, SameOwners

LEMMA ChargedFacts ==
  ASSUME NEW t \in TaskRec
  PROVE  /\ Charged(t) \in TaskRec
         /\ Charged(t).proc = t.proc /\ Charged(t).space = t.space
         /\ Charged(t).stack = t.stack /\ Charged(t).irq = t.irq
         /\ Charged(t).state = t.state
<1> DEFINE left == IF t.left \in {0, Forever} THEN t.left ELSE t.left - 1
<1>1. left \in Nat \cup {Forever}
  BY SchedulerAssumption DEF TaskRec
<1>2. Charged(t) = [t EXCEPT !.left = left]
  BY Zenon DEF Charged
<1>3. QED
  <2> HIDE DEF left
  <2> QED
    BY Zenon, <1>1, <1>2 DEF TaskRec

LEMMA TickKeeps == ASSUME SchedInv, Tick PROVE SchedInv'
<1> DEFINE ts == [tasks EXCEPT ![current] = Charged(@)]
<1>1. current # Boot /\ reaping = None
  BY Zenon, NotBoot DEF Tick
<1>2. tasks \in Seq(TaskRec) /\ current \in DOMAIN tasks
  BY Zenon DEF SchedInv, TypeOK
<1>3. tasks[current] \in TaskRec
  BY <1>2
<1>4. SameOwners(ts)
  BY <1>1, <1>2, <1>3, ChargedFacts DEF SameOwners
<1>5. RunnableBesides(ts, current)
  BY Zenon, <1>1, <1>2, <1>4, BootFacts DEF RunnableBesides, SchedInv, TasksInv, SameOwners
<1>6. Schedule(ts) /\ UNCHANGED <<free, guarded, boot, done, heap>>
  BY Zenon, <1>5 DEF Tick, OnTick
<1>7. QED
  <2> HIDE DEF ts
  <2> QED
    BY Zenon, <1>1, <1>4, <1>6, ScheduleKeeps

LEMMA YieldKeeps ==
  ASSUME SchedInv, YieldUser \/ YieldWorker \/ YieldBoot
  PROVE  SchedInv'
<1>1. reaping = None
  BY Zenon, NotBoot DEF YieldUser, YieldWorker, YieldBoot, InUser
<1>2. QED
  BY Zenon, <1>1, TasksSame, ScheduleKeeps DEF YieldUser, YieldWorker, YieldBoot

LEMMA TaskExitKeeps == ASSUME SchedInv, TaskExit PROVE SchedInv'
<1> DEFINE ts == [tasks EXCEPT ![current].state = "Finished"]
<1>1. current # Boot /\ reaping = None
  BY Zenon, NotBoot DEF TaskExit, InUser
<1>2. tasks \in Seq(TaskRec) /\ current \in DOMAIN tasks
  BY Zenon DEF SchedInv, TypeOK
<1>3. tasks[current] \in TaskRec /\ tasks[current].state = "Runnable"
  BY <1>2 DEF SchedInv, CpuInv, Running
<1>4. SameOwners(ts)
  BY <1>1, <1>2, <1>3 DEF SameOwners, TaskRec
<1>5. Schedule(ts) /\ UNCHANGED <<free, guarded, boot, done, heap>>
  BY Zenon DEF TaskExit
<1>6. QED
  <2> HIDE DEF ts
  <2> QED
    BY Zenon, <1>1, <1>4, <1>5, ScheduleKeeps

LEMMA EnterUserKeeps == ASSUME SchedInv, EnterUser PROVE SchedInv'
<1>1. current # Boot /\ reaping = None
  BY Zenon, NotBoot DEF EnterUser
<1>2. tasks \in Seq(TaskRec) /\ current \in DOMAIN tasks
  BY Zenon DEF SchedInv, TypeOK
<1>3. SameOwners(tasks) /\ tasks[current].proc # None
  BY Zenon, TasksSame DEF EnterUser, Running
<1>4. /\ tasks' \in Seq(TaskRec) /\ DOMAIN tasks' = DOMAIN tasks
      /\ tasks'[Boot] = tasks[Boot]
      /\ \A i \in DOMAIN tasks :
           /\ tasks'[i].proc = tasks[i].proc /\ tasks'[i].space = tasks[i].space
           /\ tasks'[i].stack = tasks[i].stack /\ tasks'[i].state = tasks[i].state
           /\ tasks'[i].left = tasks[i].left
           /\ i # current => tasks'[i].irq = tasks[i].irq
  <2> DEFINE t == [tasks[current] EXCEPT !.irq = FALSE]
  <2>1. tasks[current] \in TaskRec
    BY <1>2
  <2>2. /\ t \in TaskRec
        /\ t.proc = tasks[current].proc /\ t.space = tasks[current].space
        /\ t.stack = tasks[current].stack /\ t.state = tasks[current].state
        /\ t.left = tasks[current].left
    BY Zenon, <2>1 DEF TaskRec
  <2>3. tasks' = [tasks EXCEPT ![current] = t]
    BY Zenon DEF EnterUser
  <2>4. QED
    <3> HIDE DEF t
    <3> QED
      BY <1>1, <1>2, <2>2, <2>3
<1>5. UNCHANGED <<current, cpu, active, free, guarded, freeSpaces, loaded, reaping, phase, done, heap>>
  BY Zenon DEF EnterUser, boot
<1>6. TypeOK'
  BY <1>4, <1>5 DEF SchedInv, TypeOK
<1>7. TasksInv'
  BY <1>3, <1>4 DEF SchedInv, TasksInv, WellTask
<1>8. CpuInv'
  BY Zenon, <1>2, <1>4, <1>5 DEF SchedInv, CpuInv, CpuMatches, Running
<1>9. StackInv'
  BY <1>4, <1>5 DEF SchedInv, StackInv
<1>10. TableInv'
  BY <1>4, <1>5 DEF SchedInv, TableInv
<1>11. QED
  BY Zenon, <1>6, <1>7, <1>8, <1>9, <1>10 DEF SchedInv

(* Steps that leave tasks, the CPU, stacks and tables alone.                *)
LEMMA PhaseKeeps ==
  ASSUME SchedInv,
         UNCHANGED <<tasks, current, cpu, active, free, guarded, freeSpaces, loaded, reaping>>,
         phase' \in {"spawn", "drive", "user", "stuck", "halted"},
         done' \in BOOLEAN, heap' \in {None, Worker}
  PROVE  SchedInv'
<1>1. TypeOK'
  BY Zenon DEF SchedInv, TypeOK
<1>2. TasksInv' /\ CpuInv'
  BY Zenon DEF SchedInv, TasksInv, CpuInv, CpuMatches, Running
<1>3. StackInv' /\ TableInv'
  BY DEF SchedInv, StackInv, TableInv
<1>4. QED
  BY Zenon, <1>1, <1>2, <1>3 DEF SchedInv

(* A new task gets a free stack and a table nobody uses.                    *)
LEMMA SpawnKeeps ==
  ASSUME SchedInv, NEW left \in Nat \cup {Forever}, NEW proc \in Procs \cup {None},
         NEW space \in ASpaces \cup {Kernel}, NEW block \in free,
         Spawn(left, proc, space, block),
         phase' \in {"spawn", "drive", "user", "stuck", "halted"},
         \/ proc = None /\ space = Kernel /\ UNCHANGED loaded
         \/ /\ proc # None /\ space = loaded[proc] /\ space # None
            /\ loaded' = [loaded EXCEPT ![proc] = None]
  PROVE  SchedInv'
<1> DEFINE n == Len(tasks)
           t == Task(left, proc, space, block)
<1> USE SchedulerAssumption
<1>1. /\ tasks \in Seq(TaskRec) /\ current \in DOMAIN tasks
      /\ free \subseteq Blocks /\ loaded \in [Procs -> ASpaces \cup {None}]
  BY Zenon DEF SchedInv, TypeOK
<1>2. /\ t \in TaskRec /\ t.stack = block /\ t.space = space /\ t.proc = proc
      /\ t.state = "Runnable" /\ t.irq = TRUE
  BY Zenon, <1>1 DEF Task, TaskRec
<1>3. /\ current = Boot /\ reaping = None /\ tasks' = Append(tasks, t)
      /\ free' = free \ {block} /\ guarded' = guarded \cup {block}
      /\ UNCHANGED <<current, cpu, active, freeSpaces, reaping, done, heap>>
  BY Zenon DEF Spawn
<1>4. /\ tasks' \in Seq(TaskRec) /\ n \in Nat /\ n # 0
      /\ DOMAIN tasks = 1 .. n /\ DOMAIN tasks' = 1 .. n + 1
      /\ \A i \in 1 .. n : tasks'[i] = tasks[i]
      /\ tasks'[n + 1] = t
  <2> HIDE DEF t
  <2> QED
    BY <1>1, <1>2, <1>3
<1>5. loaded' \in [Procs -> ASpaces \cup {None}]
  BY Zenon, <1>1
<1> HIDE DEF t, n
<1>6. TypeOK'
  BY <1>1, <1>3, <1>4, <1>5 DEF SchedInv, TypeOK
<1>7. WellTask(t)
  BY Zenon, <1>1, <1>2 DEF WellTask
<1>8. TasksInv'
  BY <1>4, <1>7 DEF SchedInv, TasksInv
<1>9. CpuInv'
  BY Zenon, <1>1, <1>3, <1>4 DEF SchedInv, CpuInv, CpuMatches, Running
<1>10. \A i \in 1 .. n : tasks[i].stack # block
  BY Zenon, <1>1, <1>4 DEF SchedInv, StackInv
<1>11. StackInv'
  <2>1. \A i, j \in 1 .. n + 1 :
          tasks'[i].stack # None /\ tasks'[i].stack = tasks'[j].stack => i = j
    BY SMTT(30), <1>2, <1>4, <1>10 DEF SchedInv, StackInv
  <2>2. ASSUME NEW b \in Blocks
        PROVE  LET used == \E i \in 1 .. n + 1 : tasks'[i].stack = b
               IN  (b \in free' <=> ~used) /\ (b \in guarded' <=> used)
    <3>1. (\E i \in 1 .. n + 1 : tasks'[i].stack = b)
            <=> (b = block \/ \E i \in 1 .. n : tasks[i].stack = b)
      BY <1>2, <1>4
    <3>2. /\ b \in free <=> ~ \E i \in 1 .. n : tasks[i].stack = b
          /\ b \in guarded <=> \E i \in 1 .. n : tasks[i].stack = b
      BY Zenon, <1>3, <1>4 DEF SchedInv, StackInv
    <3>3. QED
      BY Zenon, <3>1, <3>2, <1>3
  <2>3. QED
    BY Zenon, <1>3, <1>4, <2>1, <2>2 DEF StackInv
<1>12. TableInv'
  <2>1. \A p \in Procs : loaded'[p] = loaded[p] \/ (loaded'[p] = None /\ loaded[p] = space)
    BY Zenon, <1>1
  <2>2. \A p \in Procs : space # loaded'[p]
    BY <1>1 DEF SchedInv, TableInv
  <2>3. space \notin freeSpaces
    BY <1>1 DEF SchedInv, TypeOK, TableInv
  <2>4. \A i \in 1 .. n : tasks[i].state # "Reaped" /\ proc # None => tasks[i].space # space
    BY <1>4 DEF SchedInv, TableInv
  <2>5. \A i \in 1 .. n : tasks[i].proc # None /\ tasks[i].state # "Reaped" => tasks[i].space # space
    BY Zenon, <2>4, <1>4, BootFacts DEF SchedInv, TasksInv, WellTask
  <2>6. \A i \in 1 .. n + 1 : tasks'[i].state # "Reaped" =>
          /\ tasks'[i].space \notin freeSpaces
          /\ \A p \in Procs : tasks'[i].space # loaded'[p]
    <3>1. \A i \in 1 .. n : tasks[i].space \in ASpaces \cup {Kernel}
      <4>1. \A i \in 1 .. n : tasks[i] \in TaskRec
        BY <1>1, <1>4
      <4>2. QED
        BY Zenon, <4>1 DEF TaskRec
    <3>2. \A i \in 1 .. n : tasks[i].state # "Reaped" =>
            /\ tasks[i].space \notin freeSpaces
            /\ \A p \in Procs : tasks[i].space # loaded'[p]
      BY <3>1, <1>4, <2>1 DEF SchedInv, TableInv
    <3>3. QED
      BY <3>2, <1>2, <1>4, <2>2, <2>3
  <2>7. \A i, j \in 1 .. n + 1 :
          /\ tasks'[i].state # "Reaped" /\ tasks'[j].state # "Reaped"
          /\ tasks'[i].proc # None /\ tasks'[i].space = tasks'[j].space
          => i = j
    <3>1. \A i, j \in 1 .. n :
            /\ tasks[i].state # "Reaped" /\ tasks[j].state # "Reaped"
            /\ tasks[i].proc # None /\ tasks[i].space = tasks[j].space
            => i = j
      <4>1. DOMAIN tasks = 1 .. n
        BY Zenon, <1>4
      <4>2. \A i \in DOMAIN tasks : tasks[i].state # "Reaped" =>
              \A j \in DOMAIN tasks :
                /\ tasks[j].state # "Reaped"
                /\ tasks[i].proc # None /\ tasks[i].space = tasks[j].space
                => i = j
        BY Zenon DEF SchedInv, TableInv
      <4>3. QED
        BY Zenon, <4>1, <4>2
    <3>2. \A i \in 1 .. n + 1 : i \in 1 .. n \/ i = n + 1
      BY <1>4
    <3>3. QED
      BY <3>1, <3>2, <1>2, <1>4, <2>4, <2>5
  <2>8. /\ \A p, q \in Procs : loaded'[p] # None /\ loaded'[p] = loaded'[q] => p = q
        /\ \A p \in Procs : loaded'[p] \notin freeSpaces
    BY <2>1, <1>1 DEF SchedInv, TableInv, TypeOK
  <2>9. QED
    BY <1>3, <1>4, <2>6, <2>7, <2>8 DEF TableInv
<1>13. QED
  BY Zenon, <1>6, <1>8, <1>9, <1>11, <1>12 DEF SchedInv

LEMMA LoadKeeps ==
  ASSUME SchedInv, NEW p \in Procs, NEW space \in freeSpaces, LoadProcess(p, space)
  PROVE  SchedInv'
<1> USE SchedulerAssumption
<1>1. /\ loaded \in [Procs -> ASpaces \cup {None}] /\ freeSpaces \subseteq ASpaces
      /\ loaded' = [loaded EXCEPT ![p] = space]
      /\ freeSpaces' = freeSpaces \ {space}
      /\ current = Boot /\ reaping = None
      /\ UNCHANGED <<tasks, current, active, free, guarded, reaping, phase, done, heap>>
  BY Zenon DEF SchedInv, TypeOK, LoadProcess
<1>2. cpu.root = Kernel /\ cpu' = cpu
  <2>1. cpu.root = Kernel
    BY Zenon, <1>1, BootFacts DEF SchedInv, CpuInv, CpuMatches, Running, TasksInv
  <2>2. QED
    BY Zenon, <2>1 DEF LoadProcess, RootAfterLoad, SchedInv, TypeOK
<1>3. TypeOK'
  BY Zenon, <1>1, <1>2 DEF SchedInv, TypeOK
<1>4. TasksInv' /\ CpuInv' /\ StackInv'
  BY Zenon, <1>1, <1>2 DEF SchedInv, TasksInv, CpuInv, CpuMatches, Running, StackInv
<1>5. TableInv'
  BY <1>1 DEF SchedInv, TableInv
<1>6. QED
  BY Zenon, <1>3, <1>4, <1>5 DEF SchedInv

(* A reap takes a finished process apart; a finished task is not running.   *)
LEMMA ReapFinishedKeeps ==
  ASSUME SchedInv, NEW p \in Procs, ReapFinished(p)
  PROVE  SchedInv'
<1> USE SchedulerAssumption
<1> DEFINE i == Max(Reapable(p))
           t == [tasks[i] EXCEPT !.state = "Reaped", !.stack = None]
<1>1. tasks \in Seq(TaskRec) /\ current \in DOMAIN tasks
  BY Zenon DEF SchedInv, TypeOK
<1>2. i \in Reapable(p)
  <2>1. Reapable(p) \in SUBSET (0 .. Len(tasks)) /\ Reapable(p) # {} /\ Len(tasks) \in Nat
    BY <1>1 DEF Reapable, ReapFinished
  <2>2. \E x \in Reapable(p) : \A y \in Reapable(p) : x >= y
    BY Zenon, <2>1, GreatestNat
  <2>3. QED
    BY Zenon, <2>2 DEF Max
<1>3. i \in DOMAIN tasks /\ tasks[i].proc = p /\ tasks[i].state = "Finished" /\ tasks[i] \in TaskRec
  BY <1>1, <1>2 DEF Reapable
<1> HIDE DEF i
<1>4. /\ i # Boot /\ i # current /\ WellTask(tasks[i])
      /\ tasks[i].stack \in Blocks /\ tasks[i].space \in ASpaces
  <2>1. i # Boot /\ i # current
    BY Zenon, <1>3, BootFacts DEF SchedInv, CpuInv, Running, TasksInv
  <2>2. WellTask(tasks[i])
    BY Zenon, <2>1, <1>3 DEF SchedInv, TasksInv
  <2>3. QED
    BY Zenon, <2>1, <2>2, <1>3 DEF WellTask, TaskRec
<1>5. /\ t \in TaskRec /\ t.state = "Reaped" /\ t.stack = None
      /\ t.proc = tasks[i].proc /\ t.space = tasks[i].space /\ t.irq = tasks[i].irq
  BY Zenon, <1>3 DEF TaskRec
<1>6. /\ tasks' = [tasks EXCEPT ![i] = t]
      /\ reaping' = [block |-> tasks[i].stack, space |-> tasks[i].space]
      /\ current = Boot /\ phase = "user" /\ reaping = None
      /\ UNCHANGED <<current, cpu, active, free, guarded, freeSpaces, loaded, phase, done, heap>>
  BY Zenon, <1>1, <1>3 DEF ReapFinished, i
<1> HIDE DEF t
<1>7. /\ tasks' \in Seq(TaskRec) /\ DOMAIN tasks' = DOMAIN tasks
      /\ tasks'[i] = t /\ \A j \in DOMAIN tasks : j # i => tasks'[j] = tasks[j]
  BY <1>1, <1>3, <1>5, <1>6
<1>8. /\ reaping' # None /\ reaping'.block = tasks[i].stack /\ reaping'.space = tasks[i].space
      /\ reaping' \in [block: Blocks, space: ASpaces]
  BY <1>4, <1>6
<1>9. TypeOK'
  BY Zenon, <1>6, <1>7, <1>8 DEF SchedInv, TypeOK
<1>10. TasksInv'
  <2>1. WellTask(t)
    BY Zenon, <1>3, <1>4, <1>5 DEF WellTask
  <2>2. QED
    BY Zenon, <2>1, <1>4, <1>7 DEF SchedInv, TasksInv
<1>11. CpuInv'
  BY Zenon, <1>1, <1>4, <1>6, <1>7 DEF SchedInv, CpuInv, CpuMatches, Running
<1>12. StackInv'
  <2>1. \A j \in DOMAIN tasks : j # i => tasks[j].stack # tasks[i].stack
    BY Zenon, <1>3, <1>4 DEF SchedInv, StackInv
  <2>2. \A b \in Blocks :
          (\E j \in DOMAIN tasks : tasks[j].stack = b)
          <=> (b = tasks[i].stack \/ \E j \in DOMAIN tasks : tasks'[j].stack = b)
    BY Zenon, <1>3, <1>5, <1>7
  <2>3. \A b \in Blocks :
          LET used == \E j \in DOMAIN tasks : tasks[j].stack = b
          IN  (b \in free <=> ~used) /\ (b \in guarded <=> used)
    BY Zenon, <1>6 DEF SchedInv, StackInv
  <2>4. \A j, k \in DOMAIN tasks' :
          tasks'[j].stack # None /\ tasks'[j].stack = tasks'[k].stack => j = k
    BY <1>5, <1>7 DEF SchedInv, StackInv
  <2>5. \A j \in DOMAIN tasks' : tasks'[j].stack # reaping'.block
    BY <2>1, <1>4, <1>5, <1>7, <1>8
  <2>6. QED
    BY Zenon, <2>2, <2>3, <2>4, <2>5, <1>6, <1>7, <1>8 DEF StackInv
<1>13. TableInv'
  <2>1. \A j \in DOMAIN tasks : tasks'[j].state # "Reaped" =>
          j # i /\ tasks'[j] = tasks[j]
    BY Zenon, <1>5, <1>7
  <2>2. \A j \in DOMAIN tasks : j # i /\ tasks[j].state # "Reaped" => tasks[j].space # tasks[i].space
    BY Zenon, <1>3 DEF SchedInv, TableInv
  <2>3. QED
    BY <2>1, <2>2, <1>3, <1>4, <1>6, <1>7, <1>8 DEF SchedInv, TableInv
<1>14. QED
  BY Zenon, <1>9, <1>10, <1>11, <1>12, <1>13 DEF SchedInv

LEMMA ReapFreeKeeps == ASSUME SchedInv, ReapFree PROVE SchedInv'
<1> USE SchedulerAssumption
<1>1. /\ reaping # None /\ reaping.block \in Blocks /\ reaping.space \in ASpaces
      /\ current = Boot
  BY Zenon DEF ReapFree, SchedInv, TypeOK, TableInv
<1>2. /\ guarded' = guarded \ {reaping.block} /\ free' = free \cup {reaping.block}
      /\ freeSpaces' = freeSpaces \cup {reaping.space} /\ reaping' = None
      /\ UNCHANGED <<tasks, current, cpu, active, loaded, phase, done, heap>>
  BY Zenon DEF ReapFree, Unguard
<1>3. TypeOK'
  BY Zenon, <1>1, <1>2 DEF SchedInv, TypeOK
<1>4. TasksInv' /\ CpuInv'
  BY Zenon, <1>2 DEF SchedInv, TasksInv, CpuInv, CpuMatches, Running
<1>5. StackInv'
  BY Zenon, <1>1, <1>2 DEF SchedInv, StackInv
<1>6. TableInv'
  BY Zenon, <1>1, <1>2 DEF SchedInv, TableInv
<1>7. QED
  BY Zenon, <1>3, <1>4, <1>5, <1>6 DEF SchedInv

LEMMA InitInv == Init => SchedInv
<1> SUFFICES ASSUME Init PROVE SchedInv
  BY Zenon
<1> USE SchedulerAssumption, BootFacts
<1>1. /\ tasks = <<BootTask>> /\ current = 1
      /\ tasks \in Seq(TaskRec) /\ DOMAIN tasks = {1} /\ tasks[1] = BootTask
  BY DEF Init, Boot
<1>2. TypeOK
  BY Zenon, <1>1 DEF Init, TypeOK
<1>3. TasksInv
  BY Zenon, <1>1 DEF TasksInv, Boot
<1>4. CpuInv
  BY Zenon, <1>1 DEF Init, CpuInv, CpuMatches, Running, Eligible, Depleted
<1>5. StackInv
  BY Zenon, <1>1 DEF Init, StackInv
<1>6. TableInv
  BY Zenon, <1>1 DEF Init, TableInv
<1>7. QED
  BY Zenon, <1>2, <1>3, <1>4, <1>5, <1>6 DEF SchedInv

LEMMA NextInv == SchedInv /\ [Next]_vars => SchedInv'
<1> SUFFICES ASSUME SchedInv, [Next]_vars PROVE SchedInv'
  BY Zenon
<1> USE SchedulerAssumption
<1>0. /\ phase \in {"spawn", "drive", "user", "stuck", "halted"}
      /\ done \in BOOLEAN /\ heap \in {None, Worker}
  BY Zenon DEF SchedInv, TypeOK
<1>1. CASE Tick
  BY Zenon, <1>1, TickKeeps
<1>2. CASE YieldUser \/ YieldWorker \/ YieldBoot
  BY Zenon, <1>2, YieldKeeps
<1>3. CASE HeapLock \/ HeapUnlock
  BY Zenon, <1>0, <1>3, PhaseKeeps DEF HeapLock, HeapUnlock, boot
<1>4. CASE WorkerDone
  BY Zenon, <1>0, <1>4, PhaseKeeps DEF WorkerDone, boot
<1>5. CASE EndDemo \/ HeapSpin \/ Halt
  BY Zenon, <1>0, <1>5, PhaseKeeps DEF EndDemo, HeapSpin, Halt
<1>6. CASE EnterUser
  BY Zenon, <1>6, EnterUserKeeps
<1>7. CASE TaskExit
  BY Zenon, <1>7, TaskExitKeeps
<1>8. ASSUME NEW left \in Budgets, SpawnKernel(left) PROVE SchedInv'
  <2> DEFINE block == CHOOSE b \in free : TRUE
  <2>1. block \in free /\ Spawn(left, None, Kernel, block)
    BY Zenon, <1>8 DEF SpawnKernel
  <2>2. left \in Nat \cup {Forever} /\ UNCHANGED loaded /\ phase' \in {"spawn", "drive"}
    BY Zenon, <1>8 DEF SpawnKernel
  <2>3. QED
    <3> HIDE DEF block
    <3> QED
      BY Zenon, <2>1, <2>2, SpawnKeeps
<1>9. ASSUME NEW p \in Procs, NEW space \in freeSpaces, LoadProcess(p, space) PROVE SchedInv'
  BY Zenon, <1>9, LoadKeeps
<1>10. ASSUME NEW p \in Procs, NEW block \in free, SpawnProc(p, block) PROVE SchedInv'
  <2>1. loaded[p] \in ASpaces /\ loaded[p] # None /\ p # None
    BY Zenon, <1>10 DEF SpawnProc, SchedInv, TypeOK
  <2>2. Spawn(Forever, p, loaded[p], block) /\ loaded' = [loaded EXCEPT ![p] = None] /\ phase' = phase
    BY Zenon, <1>10 DEF SpawnProc
  <2>3. QED
    BY Zenon, <1>0, <2>1, <2>2, SpawnKeeps
<1>11. ASSUME NEW p \in Procs, ReapFinished(p) PROVE SchedInv'
  BY Zenon, <1>11, ReapFinishedKeeps
<1>12. CASE ReapFree
  BY Zenon, <1>12, ReapFreeKeeps
<1>13. CASE Halted \/ UNCHANGED vars
  BY Zenon, <1>0, <1>13, PhaseKeeps DEF Halted, vars, boot
<1>14. QED
  BY Zenon, <1>1, <1>2, <1>3, <1>4, <1>5, <1>6, <1>7, <1>8, <1>9, <1>10, <1>11, <1>12, <1>13 DEF Next

-----------------------------------------------------------------------------
(* What the invariant gives.                                               *)

LEMMA InvStacks == SchedInv => StacksConserved
<1> SUFFICES ASSUME SchedInv PROVE StacksConserved
  BY Zenon
<1> USE SchedulerAssumption
<1> DEFINE owners == {i \in DOMAIN tasks : tasks[i].stack # None}
           owned  == {tasks[i].stack : i \in owners}
           detached == IF reaping = None THEN {} ELSE {reaping.block}
<1>1. \A i, j \in owners : tasks[i].stack = tasks[j].stack => i = j
  BY Zenon DEF SchedInv, StackInv
<1>2. owners = {i \in DOMAIN tasks : i # Boot /\ tasks[i].state # "Reaped"}
  BY Zenon, BootFacts DEF SchedInv, TasksInv, WellTask
<1>3. \A i \in DOMAIN tasks : tasks[i].stack \in Blocks \cup {None}
  <2>1. \A i \in DOMAIN tasks : tasks[i] \in TaskRec
    BY DEF SchedInv, TypeOK
  <2>2. QED
    BY Zenon, <2>1 DEF TaskRec
<1>4. owned \cup detached \subseteq Blocks /\ free \subseteq Blocks /\ guarded \subseteq Blocks
  BY <1>3 DEF SchedInv, TypeOK
<1>5. \A b \in Blocks : (b \in owned \cup detached)
        <=> \/ \E i \in DOMAIN tasks : tasks[i].stack = b
            \/ reaping # None /\ reaping.block = b
  BY Zenon
<1>6. \A b \in Blocks : /\ b \in free <=> b \notin owned \cup detached
                        /\ b \in guarded <=> b \in owned \cup detached
  <2> HIDE DEF owned, detached, owners
  <2> QED
    BY Zenon, <1>5 DEF SchedInv, StackInv
<1>7. free = Blocks \ (owned \cup detached) /\ guarded = owned \cup detached
  <2> HIDE DEF owned, detached, owners
  <2> QED
    BY Zenon, <1>4, <1>6
<1>8. QED
  BY Zenon, <1>1, <1>2, <1>7 DEF StacksConserved

LEMMA InvTables == SchedInv => TablesSafe
<1> SUFFICES ASSUME SchedInv PROVE TablesSafe
  BY Zenon
<1>1. cpu.root = Running.space /\ current \in DOMAIN tasks /\ Running.state # "Reaped"
  BY Zenon DEF SchedInv, CpuInv, CpuMatches, TypeOK
<1>2. cpu.root \notin freeSpaces
  BY Zenon, <1>1 DEF SchedInv, TableInv, Running
<1>3. active \notin freeSpaces
  BY Zenon, <1>2, SchedulerAssumption DEF SchedInv, CpuInv, TypeOK
<1>4. QED
  BY <1>2, <1>3 DEF SchedInv, TableInv, TablesSafe

-----------------------------------------------------------------------------
LEMMA SchedInvariant == Spec => []SchedInv
BY InitInv, NextInv, PTL DEF Spec

(* Whatever tick, yield, exit or spawn put it there, the running task is    *)
(* runnable and has CPU time left: schedule never falls through with the     *)
(* CPU on a task that may not run, because the boot task stays eligible.    *)
THEOREM RunnableRuns == Spec => []CurrentRuns
<1>1. SchedInv => CurrentRuns
  BY Zenon DEF SchedInv, CpuInv, CurrentRuns
<1>2. QED
  BY <1>1, SchedInvariant, PTL

(* The page table, the domain and the system-call stack of the hardware are *)
(* those of the running task, although activate_space skips loads and        *)
(* load_process loads tables behind its back.                               *)
THEOREM HardwareMatches == Spec => []CpuMatches
<1>1. SchedInv => CpuMatches
  BY Zenon DEF SchedInv, CpuInv
<1>2. QED
  BY <1>1, SchedInvariant, PTL

(* spawn_inner and reap_finished neither share, lose nor leak a kernel      *)
(* stack, and its guard page is mapped exactly while it is free.            *)
THEOREM StacksAreConserved == Spec => []StacksConserved
BY InvStacks, SchedInvariant, PTL

(* reap_process_space never frees a table that a task runs on, that is      *)
(* loaded, or that activate_space believes to be loaded.                    *)
THEOREM TablesAreSafe == Spec => []TablesSafe
BY InvTables, SchedInvariant, PTL
=============================================================================
