------------------------------ MODULE Executor ------------------------------
(***************************************************************************)
(* The cooperative executor of the sched crate: live tasks with their CPU  *)
(* budgets, the shared ready queue that wakers push to, and the tasks      *)
(* parked on a spent budget (sched/src/executor.rs, waker.rs, task.rs),    *)
(* with the Budget arithmetic of cap-core/src/sched.rs.                    *)
(*                                                                         *)
(* A poll is atomic: the run loop is synchronous and the futures hold no   *)
(* lock across an await.  What a poll does to the rest of the system, which*)
(* wakes it fires and whether the future is finished is for the module     *)
(* that supplies the futures (KernelIpc); Polled is the executor's part.   *)
(***************************************************************************)
EXTENDS Integers, Functions, Subsequences

CONSTANT U32Max         \* the largest u32

VARIABLES
    tasks,              \* live task id -> its Budget
    ready,              \* ReadyQueue, oldest first; an id may occur twice
    parked,             \* ids parked on a spent budget
    mode                \* "admit" (before run_until_idle), "run", "idle"

execVars == <<tasks, ready, parked, mode>>

-----------------------------------------------------------------------------
(* Budget.                                                                  *)

NewBudget(capacity) == [capacity |-> capacity, consumed |-> 0]

IsDepleted(b) == b.consumed >= b.capacity

Remaining(b) == IF b.consumed < b.capacity THEN b.capacity - b.consumed ELSE 0

\* charge saturates.
Charge(b, n) ==
    [b EXCEPT !.consumed = IF @ + n > U32Max THEN U32Max ELSE @ + n]

Refilled(b) == [b EXCEPT !.consumed = 0]

\* delegate: all or nothing, refused when the amount is zero, not available,
\* or more than the receiver can hold.  The pair is <<source, destination>>.
DelegateUndebited(src, dst, n) ==
    IF n = 0 \/ n > Remaining(src) \/ dst.capacity + n > U32Max
      THEN <<src, dst>>
      ELSE <<src, [dst EXCEPT !.capacity = @ + n]>>

Delegate(src, dst, n) ==
    IF n = 0 \/ n > Remaining(src) \/ dst.capacity + n > U32Max
      THEN <<src, dst>>
      ELSE <<[src EXCEPT !.capacity = @ - n], [dst EXCEPT !.capacity = @ + n]>>

-----------------------------------------------------------------------------
(* The run loop.                                                            *)

Live == DOMAIN tasks

ExecInit ==
    /\ tasks = <<>>
    /\ ready = <<>>
    /\ parked = <<>>
    /\ mode = "admit"

\* spawn: a fresh id joins the table and the queue.
Spawn(t, budget) ==
    /\ mode = "admit"
    /\ tasks' = [u \in Live \cup {t} |-> IF u = t THEN budget ELSE tasks[u]]
    /\ ready' = Append(ready, t)
    /\ UNCHANGED <<parked, mode>>

\* A wake: the waker pushes its task's id, whether or not it is queued, parked
\* or already finished.
Woken(queue, t) == Append(queue, t)

\* pop of an id whose task is finished: a stale wake.
PopStale ==
    /\ mode = "run" /\ ready # <<>>
    /\ Head(ready) \notin Live
    /\ ready' = Tail(ready)
    /\ UNCHANGED <<tasks, parked, mode>>

\* park: once on the list, however often its wake is popped.
ParkNot(t) == parked
Park(t) == IF t \in Range(parked) THEN parked ELSE Append(parked, t)

\* pop of a task whose budget is spent: it parks.
PopDepleted ==
    /\ mode = "run" /\ ready # <<>>
    /\ Head(ready) \in Live
    /\ IsDepleted(tasks[Head(ready)])
    /\ ready' = Tail(ready)
    /\ parked' = Park(Head(ready))
    /\ UNCHANGED <<tasks, mode>>

\* pop of a task that may run.
MayPoll(t) ==
    /\ mode = "run" /\ ready # <<>>
    /\ t = Head(ready)
    /\ t \in Live
    /\ ~IsDepleted(tasks[t])

\* The task was polled and left the queue (without its own entry) as given:
\* Ready drops the future, Pending charges the slice.
Polled(t, queue, finished) ==
    /\ ready' = queue
    /\ tasks' = IF finished
                  THEN [u \in Live \ {t} |-> tasks[u]]
                  ELSE [tasks EXCEPT ![t] = Charge(@, 1)]
    /\ UNCHANGED <<parked, mode>>

\* run_until_idle is entered, and returns when the queue is empty.
Run ==
    /\ mode = "admit"
    /\ mode' = "run"
    /\ UNCHANGED <<tasks, ready, parked>>

Return ==
    /\ mode = "run" /\ ready = <<>>
    /\ mode' = "idle"
    /\ UNCHANGED <<tasks, ready, parked>>

\* replenish, and the loop entered again: every budget is full, the parked
\* tasks that are still live are queued in the order they parked.
Replenish ==
    /\ mode = "idle" /\ Live # {}
    /\ tasks' = [t \in Live |-> Refilled(tasks[t])]
    /\ ready' = ready \o Entries(parked, {i \in DOMAIN parked : parked[i] \in Live})
    /\ parked' = <<>>
    /\ mode' = "run"

\* A waker obtained from endpoint_waker, or a clone a future kept, may fire at
\* any time and for a task that is not waiting.
StrayWake(t) ==
    /\ mode # "admit"
    /\ ready' = Woken(ready, t)
    /\ mode' = mode
    /\ UNCHANGED <<tasks, parked>>
=============================================================================
