------------------------------ MODULE Threadpool ------------------------------
(***************************************************************************)
(* Class Threadpool (network/demo_MainSubReactor/src/include/Threadpool.h) *)
(* one step per access to shared state: every thread has a program counter *)
(* and the std::mutex and the std::condition_variable are explicit.        *)
(*                                                                         *)
(* The threads are the owner of the pool, which constructs it, calls       *)
(* addTask and deletes it, and the pool's workers.  A task that a worker   *)
(* executes may call addTask itself: Parent says which task submits which. *)
(***************************************************************************)
EXTENDS Naturals, Sequences, FiniteSets, Functions

CONSTANTS
    Workers,    \* the worker threads a pool may have
    Owner,      \* the thread that owns the pool
    Tasks,      \* the callables passed to addTask
    NoTask,
    Parent,     \* the task that submits a task, NoTask when the owner does
    Endless     \* the tasks that never return, such as Eventloop::loop

Threads == Workers \cup {Owner}

ASSUME ThreadsAssumption ==
    /\ IsFiniteSet(Workers)
    /\ Owner \notin Workers

ASSUME TasksAssumption ==
    /\ NoTask \notin Tasks
    /\ Parent \in [Tasks -> Tasks \cup {NoTask}]
    /\ Endless \subseteq Tasks

VARIABLES
    pc,         \* where each thread is
    locked,     \* whether some thread holds mtx
    tasks,      \* the queue of tasks
    isRunning,  \* the member isRunning
    arg,        \* the task each thread is passing to addTask
    current,    \* the task each worker has taken from the queue
    future      \* the shared state of each task's std::future

vars == <<pc, locked, tasks, isRunning, arg, current, future>>

OwnerPC == {"constructing", "idle", "adding", "emplacing", "notifying",
            "deleting", "stopping", "notifyingAll", "joining", "destroyed"}
WorkerPC == {"absent", "unborn", "locking", "checking", "waiting", "running",
             "adding", "emplacing", "notifying", "unwinding", "exited"}

\* The places in the code where a thread holds mtx.
Critical == {"checking", "emplacing", "stopping"}

\* The places where a worker is executing a task it took from the queue.
Executing == {"running", "adding", "emplacing", "notifying", "unwinding"}

FutureStates == {"none", "pending", "ready", "refused", "broken"}

TypeOK ==
    /\ pc \in [Threads -> OwnerPC \cup WorkerPC]
    /\ pc[Owner] \in OwnerPC
    /\ \A w \in Workers : pc[w] \in WorkerPC
    /\ locked \in BOOLEAN
    /\ tasks \in Seq(Tasks)
    /\ isRunning \in BOOLEAN
    /\ arg \in [Threads -> Tasks \cup {NoTask}]
    /\ current \in [Workers -> Tasks \cup {NoTask}]
    /\ future \in [Tasks -> FutureStates]

Waiting == {w \in Workers : pc[w] = "waiting"}

\* Mutant: the constructor does not initialise isRunning.
Init_StoppedPool ==
    /\ pc = [th \in Threads |-> IF th = Owner THEN "constructing" ELSE "unborn"]
    /\ locked = FALSE
    /\ tasks = <<>>
    /\ isRunning = FALSE
    /\ arg = [th \in Threads |-> NoTask]
    /\ current = [w \in Workers |-> NoTask]
    /\ future = [t \in Tasks |-> "none"]

\* The constructor is called with some size, zero included:
\* std::thread::hardware_concurrency() may return 0.
Init ==
    /\ \E pool \in SUBSET Workers :
          pc = [th \in Threads |->
                  IF th = Owner THEN "constructing"
                  ELSE IF th \in pool THEN "unborn" ELSE "absent"]
    /\ locked = FALSE
    /\ tasks = <<>>
    /\ isRunning = TRUE
    /\ arg = [th \in Threads |-> NoTask]
    /\ current = [w \in Workers |-> NoTask]
    /\ future = [t \in Tasks |-> "none"]

-----------------------------------------------------------------------------
(* The constructor.  A worker starts to run before the loop has created    *)
(* the next one.                                                           *)

Spawn(w) ==
    /\ pc[Owner] = "constructing"
    /\ pc[w] = "unborn"
    /\ pc' = [pc EXCEPT ![w] = "locking"]
    /\ UNCHANGED <<locked, tasks, isRunning, arg, current, future>>

Constructed ==
    /\ pc[Owner] = "constructing"
    /\ \A w \in Workers : pc[w] # "unborn"
    /\ pc' = [pc EXCEPT ![Owner] = "idle"]
    /\ UNCHANGED <<locked, tasks, isRunning, arg, current, future>>

-----------------------------------------------------------------------------
(* addTask, called by the owner or by the task a worker executes.          *)

\* The task that calls addTask when thread th does.
Caller(th) == IF th = Owner THEN NoTask ELSE current[th]

\* Where a thread goes on when addTask returns.
Resumed(th) == IF th = Owner THEN "idle" ELSE "running"

MayAdd(th, t) ==
    /\ pc[th] = Resumed(th)
    /\ Parent[t] = Caller(th)
    /\ future[t] = "none"

CallAddTask(th, t) ==
    /\ MayAdd(th, t)
    /\ arg' = [arg EXCEPT ![th] = t]
    /\ pc' = [pc EXCEPT ![th] = "adding"]
    /\ UNCHANGED <<locked, tasks, isRunning, current, future>>

LockToAdd(th) ==
    /\ pc[th] = "adding"
    /\ ~locked
    /\ locked' = TRUE
    /\ pc' = [pc EXCEPT ![th] = "emplacing"]
    /\ UNCHANGED <<tasks, isRunning, arg, current, future>>

\* Mutant: addTask does not test isRunning.
Emplace_Unguarded(th) ==
    /\ pc[th] = "emplacing"
    /\ tasks' = Append(tasks, arg[th])
    /\ future' = [future EXCEPT ![arg[th]] = "pending"]
    /\ locked' = FALSE
    /\ arg' = [arg EXCEPT ![th] = NoTask]
    /\ pc' = [pc EXCEPT ![th] = "notifying"]
    /\ UNCHANGED <<isRunning, current>>

Emplace(th) ==
    /\ pc[th] = "emplacing"
    /\ isRunning
    /\ tasks' = Append(tasks, arg[th])
    /\ future' = [future EXCEPT ![arg[th]] = "pending"]
    /\ locked' = FALSE
    /\ arg' = [arg EXCEPT ![th] = NoTask]
    /\ pc' = [pc EXCEPT ![th] = "notifying"]
    /\ UNCHANGED <<isRunning, current>>

\* The exception leaves addTask, and then the task that called it.
ThrowStopped(th) ==
    /\ pc[th] = "emplacing"
    /\ ~isRunning
    /\ future' = [future EXCEPT ![arg[th]] = "refused"]
    /\ locked' = FALSE
    /\ arg' = [arg EXCEPT ![th] = NoTask]
    /\ pc' = [pc EXCEPT ![th] = "unwinding"]
    /\ UNCHANGED <<tasks, isRunning, current>>

\* Mutant: addTask does not notify.
NotifyOne_Dropped(th) ==
    /\ pc[th] = "notifying"
    /\ pc' = [pc EXCEPT ![th] = Resumed(th)]
    /\ UNCHANGED <<locked, tasks, isRunning, arg, current, future>>

NotifyOne(th) ==
    /\ pc[th] = "notifying"
    /\ \/ /\ Waiting = {}
          /\ pc' = [pc EXCEPT ![th] = Resumed(th)]
       \/ \E w \in Waiting :
             pc' = [pc EXCEPT ![th] = Resumed(th), ![w] = "locking"]
    /\ UNCHANGED <<locked, tasks, isRunning, arg, current, future>>

-----------------------------------------------------------------------------
(* The loop of a worker.  A thread that leaves cv.wait takes the lock and  *)
(* evaluates the predicate again.                                          *)

LockToCheck(w) ==
    /\ pc[w] = "locking"
    /\ ~locked
    /\ locked' = TRUE
    /\ pc' = [pc EXCEPT ![w] = "checking"]
    /\ UNCHANGED <<tasks, isRunning, arg, current, future>>

\* The predicate of cv.wait.
Ready == isRunning /\ tasks # <<>>

\* Mutant: the worker sleeps without testing the predicate first.
Block_Untested(w) ==
    /\ pc[w] = "checking"
    /\ locked' = FALSE
    /\ pc' = [pc EXCEPT ![w] = "waiting"]
    /\ UNCHANGED <<tasks, isRunning, arg, current, future>>

Block(w) ==
    /\ pc[w] = "checking"
    /\ ~Ready
    /\ locked' = FALSE
    /\ pc' = [pc EXCEPT ![w] = "waiting"]
    /\ UNCHANGED <<tasks, isRunning, arg, current, future>>

\* Mutant: tasks.front() without tasks.pop().
Leave_NoPop(w) ==
    /\ pc[w] = "checking"
    /\ Ready
    /\ pc' = [pc EXCEPT ![w] = "running"]
    /\ current' = [current EXCEPT ![w] = Head(tasks)]
    /\ locked' = FALSE
    /\ UNCHANGED <<tasks, isRunning, arg, future>>

\* After cv.wait: the test for a stopped and empty pool, then the pop.
Leave(w) ==
    /\ pc[w] = "checking"
    /\ Ready
    /\ IF ~isRunning /\ tasks = <<>>
       THEN /\ pc' = [pc EXCEPT ![w] = "exited"]
            /\ UNCHANGED <<tasks, current>>
       ELSE /\ pc' = [pc EXCEPT ![w] = "running"]
            /\ current' = [current EXCEPT ![w] = Head(tasks)]
            /\ tasks' = Tail(tasks)
    /\ locked' = FALSE
    /\ UNCHANGED <<isRunning, arg, future>>

\* task() returns, or its exception is stored in the future.
Return(w) ==
    /\ \/ pc[w] = "unwinding"
       \/ /\ pc[w] = "running"
          /\ current[w] \notin Endless
          /\ \A t \in Tasks : ~MayAdd(w, t)
    /\ future' = [future EXCEPT ![current[w]] = "ready"]
    /\ current' = [current EXCEPT ![w] = NoTask]
    /\ pc' = [pc EXCEPT ![w] = "locking"]
    /\ UNCHANGED <<locked, tasks, isRunning, arg>>

\* A condition variable may wake a thread that nobody notified.
SpuriousWakeup(w) ==
    /\ pc[w] = "waiting"
    /\ pc' = [pc EXCEPT ![w] = "locking"]
    /\ UNCHANGED <<locked, tasks, isRunning, arg, current, future>>

-----------------------------------------------------------------------------
(* The destructor.                                                         *)

Delete ==
    /\ pc[Owner] = "idle"
    /\ pc' = [pc EXCEPT ![Owner] = "deleting"]
    /\ UNCHANGED <<locked, tasks, isRunning, arg, current, future>>

LockToStop ==
    /\ pc[Owner] = "deleting"
    /\ ~locked
    /\ locked' = TRUE
    /\ pc' = [pc EXCEPT ![Owner] = "stopping"]
    /\ UNCHANGED <<tasks, isRunning, arg, current, future>>

Stop ==
    /\ pc[Owner] = "stopping"
    /\ isRunning' = FALSE
    /\ locked' = FALSE
    /\ pc' = [pc EXCEPT ![Owner] = "notifyingAll"]
    /\ UNCHANGED <<tasks, arg, current, future>>

NotifyAll ==
    /\ pc[Owner] = "notifyingAll"
    /\ pc' = [th \in Threads |->
                IF th = Owner THEN "joining"
                ELSE IF pc[th] = "waiting" THEN "locking" ELSE pc[th]]
    /\ UNCHANGED <<locked, tasks, isRunning, arg, current, future>>

\* Mutant: the threads are detached instead of joined.
Join_Detached ==
    /\ pc[Owner] = "joining"
    /\ pc' = [pc EXCEPT ![Owner] = "destroyed"]
    /\ future' = [t \in Tasks |->
                    IF t \in Range(tasks) THEN "broken" ELSE future[t]]
    /\ tasks' = <<>>
    /\ UNCHANGED <<locked, isRunning, arg, current>>

\* The last join returns and the members are destroyed, the tasks still
\* queued with them: their futures report a broken promise.
Join ==
    /\ pc[Owner] = "joining"
    /\ \A w \in Workers : pc[w] \in {"absent", "exited"}
    /\ pc' = [pc EXCEPT ![Owner] = "destroyed"]
    /\ future' = [t \in Tasks |->
                    IF t \in Range(tasks) THEN "broken" ELSE future[t]]
    /\ tasks' = <<>>
    /\ UNCHANGED <<locked, isRunning, arg, current>>

-----------------------------------------------------------------------------

AddTask(th) ==
    LockToAdd(th) \/ Emplace(th) \/ ThrowStopped(th) \/ NotifyOne(th)

Work(w) == LockToCheck(w) \/ Block(w) \/ Leave(w) \/ Return(w)

Destroy == LockToStop \/ Stop \/ NotifyAll \/ Join

Next ==
    \/ \E w \in Workers : Spawn(w) \/ Work(w) \/ SpuriousWakeup(w)
    \/ \E th \in Threads : AddTask(th) \/ \E t \in Tasks : CallAddTask(th, t)
    \/ Constructed
    \/ Delete
    \/ Destroy

\* Every thread that can take a step goes on running.  What its caller
\* chooses (to add a task, to delete the pool) and spurious wakeups get no
\* fairness; a task that submits others does submit them.
Fairness ==
    /\ \A w \in Workers :
          /\ WF_vars(Spawn(w))
          /\ WF_vars(Work(w))
          /\ WF_vars(\E t \in Tasks : CallAddTask(w, t))
    /\ \A th \in Threads : WF_vars(AddTask(th))
    /\ WF_vars(Constructed)
    /\ WF_vars(Destroy)

Spec == Init /\ [][Next]_vars /\ Fairness

-----------------------------------------------------------------------------
(* Properties.                                                             *)

\* mtx protects tasks and isRunning (addTask, the worker loop and the
\* destructor all take it): no two threads are between lock and unlock, and
\* the mutex is held exactly when some thread is.
MutualExclusion ==
    /\ \A a, b \in Threads :
          pc[a] \in Critical /\ pc[b] \in Critical => a = b
    /\ locked <=> \E th \in Threads : pc[th] \in Critical

\* The threads that will look at the queue, or notify one that will.
Attending ==
    {th \in Threads : pc[th] \in {"unborn", "locking", "checking", "notifying"}}

\* addTask notifies after it has released mtx, so the notification may find
\* no waiter or be overtaken.  No wakeup is lost all the same: while the pool
\* runs and some worker sleeps, there are at least as many threads about to
\* look at the queue, or to notify, as there are tasks in it.
NoLostWakeup ==
    isRunning /\ Waiting # {} => Len(tasks) <= Cardinality(Attending)

\* A task is in one place only, once in the queue or with one worker or with
\* one caller of addTask, and its future says which: so no task is lost or
\* executed twice however the callers and the workers interleave.
TaskInOnePlace ==
    /\ IsInjective(tasks)
    /\ \A w \in Workers : current[w] \notin Range(tasks)
    /\ \A v, w \in Workers :
          current[v] = current[w] /\ current[v] # NoTask => v = w
    /\ \A a, b \in Threads : arg[a] = arg[b] /\ arg[a] # NoTask => a = b
    /\ \A t \in Tasks :
          /\ t \in Range(tasks) \cup Range(current) <=> future[t] = "pending"
          /\ t \in Range(arg) => future[t] = "none"

\* What the threads hold agrees with where they are: a worker has a task
\* exactly while it executes it, the argument of addTask was submitted by the
\* task that is running, and isRunning falls in the destructor and nowhere
\* else, so that its owner never meets the exception of addTask.
Bookkeeping ==
    /\ \A w \in Workers : current[w] # NoTask <=> pc[w] \in Executing
    /\ \A th \in Threads :
          /\ arg[th] # NoTask <=> pc[th] \in {"adding", "emplacing"}
          /\ arg[th] # NoTask => Parent[arg[th]] = Caller(th)
    /\ isRunning <=> pc[Owner] \notin {"notifyingAll", "joining", "destroyed"}

\* The lock, the condition variable and the program counters implement the
\* queue of module TaskQueue: first in, first out, each task started at most
\* once, none started or accepted after the destructor stopped the pool.
Running == {current[w] : w \in Workers} \ {NoTask}

Abstract == INSTANCE TaskQueue WITH
    queue <- tasks, running <- Running, future <- future, open <- isRunning

ImplementsTaskQueue == Abstract!Spec

PoolSize == Cardinality({w \in Workers : pc[w] # "absent"})

Occupied == Cardinality({w \in Workers : current[w] \in Endless})

\* A queued task is started, unless the pool is stopped first or tasks that
\* never return occupy all the workers (as TcpServer::Start does with one
\* event loop per worker).
QueuedTaskStarts ==
    \A t \in Tasks :
        t \in Range(tasks) ~>
            \/ t \notin Range(tasks)
            \/ ~isRunning
            \/ Occupied >= PoolSize

\* The destructor joins its workers and returns, as the comments at its end
\* ("wait for the thread to end") and at the worker's exit test ("when the
\* pool is stopped and the queue is empty, the thread exits") say.
DestructorReturns == pc[Owner] = "deleting" ~> pc[Owner] = "destroyed"

=============================================================================
