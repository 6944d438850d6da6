--------------------------- MODULE ThreadpoolProofs ---------------------------
(***************************************************************************)
(* Proofs about class Threadpool, for every set of workers and of tasks.   *)
(***************************************************************************)
EXTENDS Threadpool, SequenceTheorems, FiniteSetTheorems, TLAPS

-----------------------------------------------------------------------------
(* The queue as a set of tasks.                                            *)

\* Pushing a task that is not queued adds it to the queue, once.
LEMMA AppendRange ==
    ASSUME NEW S, NEW s \in Seq(S), NEW e \in S
    PROVE  /\ Range(Append(s, e)) = Range(s) \cup {e}
           /\ IsInjective(s) /\ e \notin Range(s) => IsInjective(Append(s, e))
<1> DEFINE a == Append(s, e)
<1>1. /\ Len(s) \in Nat
      /\ DOMAIN s = 1..Len(s)
      /\ DOMAIN a = 1..(Len(s) + 1)
      /\ \A i \in 1..Len(s) : a[i] = s[i]
      /\ a[Len(s) + 1] = e
  BY AppendProperties, LenProperties
<1>2. Range(a) = Range(s) \cup {e}
  BY <1>1 DEF Range
<1>3. ASSUME IsInjective(s), e \notin Range(s)
      PROVE  IsInjective(a)
  BY <1>1, <1>3 DEF IsInjective, Range
<1> QED
  BY <1>2, <1>3

\* Popping the oldest task takes it out of the queue.
LEMMA TailRange ==
    ASSUME NEW S, NEW s \in Seq(S), s # <<>>, IsInjective(s)
    PROVE  /\ Head(s) \in Range(s)
           /\ Range(Tail(s)) = Range(s) \ {Head(s)}
           /\ IsInjective(Tail(s))
<1>1. /\ Len(s) \in Nat \ {0}
      /\ DOMAIN s = 1..Len(s)
      /\ Head(s) = s[1]
      /\ DOMAIN Tail(s) = 1..(Len(s) - 1)
      /\ \A i \in 1..(Len(s) - 1) : Tail(s)[i] = s[i + 1]
  BY HeadTailProperties, LenProperties, EmptySeq
<1>2. Head(s) \in Range(s)
  BY <1>1 DEF Range
<1>3. IsInjective(Tail(s))
  BY <1>1 DEF IsInjective
<1>4. Range(Tail(s)) \subseteq Range(s) \ {Head(s)}
  BY <1>1 DEF IsInjective, Range
<1>5. ASSUME NEW x \in Range(s) \ {Head(s)}
      PROVE  x \in Range(Tail(s))
  <2>1. PICK i \in 1..Len(s) : s[i] = x
    BY <1>1 DEF Range
  <2>2. i # 1 /\ i - 1 \in 1..(Len(s) - 1)
    BY <1>1, <2>1
  <2>3. Tail(s)[i - 1] = x
    BY <1>1, <2>1, <2>2
  <2> QED
    BY <1>1, <2>2, <2>3 DEF Range
<1> QED
  BY <1>2, <1>3, <1>4, <1>5

\* The elements of a queue of tasks are tasks.
LEMMA QueuedAreTasks ==
    ASSUME NEW S, NEW s \in Seq(S)
    PROVE  Range(s) \subseteq S
BY LenProperties, ElementOfSeq DEF Range

-----------------------------------------------------------------------------
(* Types.  The owner of a stopped pool is in its destructor, so it is not  *)
(* the owner that gets the exception of addTask: without Bookkeeping the   *)
(* typing is not inductive, and a queued argument is a task only because   *)
(* a thread inside addTask has one.                                        *)

TypeInv == TypeOK /\ Bookkeeping

USE DEF Threads, OwnerPC, WorkerPC, FutureStates, Critical, Executing

LEMMA TypeInit == Init => TypeInv
<1> SUFFICES ASSUME Init PROVE TypeInv
  OBVIOUS
<1>1. TypeOK
  <2>1. pc \in [Threads -> OwnerPC \cup WorkerPC]
    BY DEF Init
  <2>2. pc[Owner] \in OwnerPC /\ \A w \in Workers : pc[w] \in WorkerPC
    BY ThreadsAssumption DEF Init
  <2>3. tasks \in Seq(Tasks)
    BY EmptySeq DEF Init
  <2> QED
    BY <2>1, <2>2, <2>3 DEF Init, TypeOK
<1>2. Bookkeeping
  BY <1>1, ThreadsAssumption DEF Init, Bookkeeping, TypeOK
<1> QED
  BY <1>1, <1>2 DEF TypeInv

LEMMA TypeStep == TypeInv /\ [Next]_vars => TypeInv'
<1> SUFFICES ASSUME TypeOK, Bookkeeping, [Next]_vars
             PROVE  TypeOK' /\ Bookkeeping'
  BY DEF TypeInv
<1> USE ThreadsAssumption, TasksAssumption DEF TypeOK, Bookkeeping, Caller
<1>1. ASSUME NEW w \in Workers, Spawn(w)
      PROVE  TypeOK' /\ Bookkeeping'
  BY <1>1 DEF Spawn
<1>2. CASE Constructed
  BY <1>2 DEF Constructed
<1>3. ASSUME NEW th \in Threads, NEW t \in Tasks, CallAddTask(th, t)
      PROVE  TypeOK' /\ Bookkeeping'
  BY <1>3 DEF CallAddTask, MayAdd, Resumed
<1>4. ASSUME NEW th \in Threads, LockToAdd(th)
      PROVE  TypeOK' /\ Bookkeeping'
  BY <1>4 DEF LockToAdd
<1>5. ASSUME NEW th \in Threads, Emplace(th)
      PROVE  TypeOK' /\ Bookkeeping'
  <2>1. arg[th] \in Tasks /\ tasks' \in Seq(Tasks)
    BY <1>5, AppendProperties DEF Emplace
  <2> QED
    BY <1>5, <2>1 DEF Emplace
<1>6. ASSUME NEW th \in Threads, ThrowStopped(th)
      PROVE  TypeOK' /\ Bookkeeping'
  BY <1>6 DEF ThrowStopped
<1>7. ASSUME NEW th \in Threads, NotifyOne(th)
      PROVE  TypeOK' /\ Bookkeeping'
  <2>1. CASE pc' = [pc EXCEPT ![th] = Resumed(th)]
    BY <1>7, <2>1 DEF NotifyOne, Resumed
  <2>2. ASSUME NEW w \in Waiting,
               pc' = [pc EXCEPT ![th] = Resumed(th), ![w] = "locking"]
        PROVE  TypeOK' /\ Bookkeeping'
    <3>1. w \in Workers /\ pc[w] = "waiting" /\ w # th
      BY <1>7, <2>2 DEF NotifyOne, Waiting
    <3> QED
      BY <1>7, <2>2, <3>1 DEF NotifyOne, Resumed
  <2> QED
    BY <1>7, <2>1, <2>2 DEF NotifyOne
<1>8. ASSUME NEW w \in Workers, LockToCheck(w)
      PROVE  TypeOK' /\ Bookkeeping'
  BY <1>8 DEF LockToCheck
<1>9. ASSUME NEW w \in Workers, Block(w)
      PROVE  TypeOK' /\ Bookkeeping'
  BY <1>9 DEF Block
<1>10. ASSUME NEW w \in Workers, Leave(w)
       PROVE  TypeOK' /\ Bookkeeping'
  <2>1. Head(tasks) \in Tasks /\ Tail(tasks) \in Seq(Tasks)
    BY <1>10, HeadTailProperties DEF Leave, Ready
  <2>2. /\ pc' = [pc EXCEPT ![w] = "running"]
        /\ current' = [current EXCEPT ![w] = Head(tasks)]
        /\ tasks' = Tail(tasks)
    BY <1>10 DEF Leave, Ready
  <2> QED
    BY <1>10, <2>1, <2>2 DEF Leave
<1>11. ASSUME NEW w \in Workers, Return(w)
       PROVE  TypeOK' /\ Bookkeeping'
  BY <1>11 DEF Return
<1>12. ASSUME NEW w \in Workers, SpuriousWakeup(w)
       PROVE  TypeOK' /\ Bookkeeping'
  BY <1>12 DEF SpuriousWakeup
<1>13. CASE Delete
  BY <1>13 DEF Delete
<1>14. CASE LockToStop
  BY <1>14 DEF LockToStop
<1>15. CASE Stop
  BY <1>15 DEF Stop
<1>16. CASE NotifyAll
  BY <1>16 DEF NotifyAll
<1>17. CASE Join
  <2>1. tasks' \in Seq(Tasks)
    BY <1>17, EmptySeq DEF Join
  <2> QED
    BY <1>17, <2>1 DEF Join
<1>18. CASE UNCHANGED vars
  BY <1>18 DEF vars
<1> QED
  BY <1>1, <1>2, <1>3, <1>4, <1>5, <1>6, <1>7, <1>8, <1>9, <1>10, <1>11,
     <1>12, <1>13, <1>14, <1>15, <1>16, <1>17, <1>18
  DEF Next, Work, AddTask, Destroy

\* In every reachable state the variables have their types.
THEOREM TypeCorrect == Spec => []TypeOK
<1>1. TypeInv => TypeOK
  BY DEF TypeInv
<1> QED
  BY <1>1, TypeInit, TypeStep, PTL DEF Spec

\* The program counters agree with what the threads hold: a worker has a
\* task exactly while it executes it, and the owner of a pool that throws is
\* in the destructor.
THEOREM BookkeepingHolds == Spec => []Bookkeeping
<1>1. TypeInv => Bookkeeping
  BY DEF TypeInv
<1> QED
  BY <1>1, TypeInit, TypeStep, PTL DEF Spec

-----------------------------------------------------------------------------
(* The mutex.  MutualExclusion is inductive by itself once typed: a thread *)
(* enters a critical section only when no thread holds mtx, and only the   *)
(* thread inside releases it.                                              *)

LEMMA MutexStep == TypeInv /\ MutualExclusion /\ [Next]_vars => MutualExclusion'
<1> SUFFICES ASSUME TypeOK, Bookkeeping, MutualExclusion, [Next]_vars
             PROVE  MutualExclusion'
  BY DEF TypeInv
<1> USE ThreadsAssumption DEF TypeOK, MutualExclusion
<1>1. ASSUME NEW w \in Workers, Spawn(w) PROVE MutualExclusion'
  BY <1>1 DEF Spawn
<1>2. CASE Constructed
  BY <1>2 DEF Constructed
<1>3. ASSUME NEW th \in Threads, NEW t \in Tasks, CallAddTask(th, t)
      PROVE  MutualExclusion'
  BY <1>3 DEF CallAddTask, MayAdd, Resumed
<1>4. ASSUME NEW th \in Threads, LockToAdd(th) PROVE MutualExclusion'
  BY <1>4 DEF LockToAdd
<1>5. ASSUME NEW th \in Threads, Emplace(th) PROVE MutualExclusion'
  BY <1>5 DEF Emplace
<1>6. ASSUME NEW th \in Threads, ThrowStopped(th) PROVE MutualExclusion'
  BY <1>6 DEF ThrowStopped
<1>7. ASSUME NEW th \in Threads, NotifyOne(th) PROVE MutualExclusion'
  BY <1>7 DEF NotifyOne, Resumed, Waiting
<1>8. ASSUME NEW w \in Workers, LockToCheck(w) PROVE MutualExclusion'
  BY <1>8 DEF LockToCheck
<1>9. ASSUME NEW w \in Workers, Block(w) PROVE MutualExclusion'
  BY <1>9 DEF Block
<1>10. ASSUME NEW w \in Workers, Leave(w) PROVE MutualExclusion'
  BY <1>10 DEF Leave, Ready
<1>11. ASSUME NEW w \in Workers, Return(w) PROVE MutualExclusion'
  BY <1>11 DEF Return
<1>12. ASSUME NEW w \in Workers, SpuriousWakeup(w) PROVE MutualExclusion'
  BY <1>12 DEF SpuriousWakeup
<1>13. CASE Delete
  BY <1>13 DEF Delete
<1>14. CASE LockToStop
  BY <1>14 DEF LockToStop
<1>15. CASE Stop
  BY <1>15 DEF Stop
<1>16. CASE NotifyAll
  BY <1>16 DEF NotifyAll
<1>17. CASE Join
  BY <1>17 DEF Join
<1>18. CASE UNCHANGED vars
  BY <1>18 DEF vars
<1> QED
  BY <1>1, <1>2, <1>3, <1>4, <1>5, <1>6, <1>7, <1>8, <1>9, <1>10, <1>11,
     <1>12, <1>13, <1>14, <1>15, <1>16, <1>17, <1>18
  DEF Next, Work, AddTask, Destroy

\* At most one thread is between lock and unlock of mtx.
THEOREM Mutex == Spec => []MutualExclusion
<1>1. Init => MutualExclusion
  BY ThreadsAssumption DEF Init, MutualExclusion
<1> QED
  BY <1>1, MutexStep, TypeInit, TypeStep, PTL DEF Spec

-----------------------------------------------------------------------------
(* No task is lost or executed twice.                                      *)

LEMMA OnePlaceInit == Init => TaskInOnePlace
<1> SUFFICES ASSUME Init PROVE TaskInOnePlace
  OBVIOUS
<1>1. Range(tasks) = {} /\ IsInjective(tasks)
  BY EmptySeq DEF Init, Range, IsInjective
<1>2. /\ \A w \in Workers : current[w] = NoTask
      /\ \A th \in Threads : arg[th] = NoTask
      /\ DOMAIN current = Workers
      /\ DOMAIN arg = Threads
  BY DEF Init
<1>3. \A t \in Tasks : t \notin Range(current) /\ t \notin Range(arg)
  BY <1>2, TasksAssumption DEF Range
<1> QED
  BY <1>1, <1>2, <1>3 DEF Init, TaskInOnePlace

\* Two threads are never submitting the same task: it has one parent, and
\* one thread executes that parent.
LEMMA OneSubmitter ==
    ASSUME TypeInv, TaskInOnePlace,
           NEW a \in Threads, NEW b \in Threads, NEW t \in Tasks,
           MayAdd(a, t), arg[b] = t
    PROVE  FALSE
<1>1. Caller(a) = Caller(b)
  BY TasksAssumption DEF TypeInv, TypeOK, Bookkeeping, MayAdd
<1>2. pc[a] # pc[b]
  BY TasksAssumption DEF TypeInv, Bookkeeping, MayAdd, Resumed
<1>3. pc[b] \in Executing \/ b = Owner
  BY TasksAssumption DEF TypeInv, Bookkeeping
<1>4. pc[a] \in Executing \/ a = Owner
  BY DEF MayAdd, Resumed
<1>5. a \in Workers => current[a] # NoTask
  BY <1>4, ThreadsAssumption DEF TypeInv, Bookkeeping
<1>6. b \in Workers => current[b] # NoTask
  BY <1>3, ThreadsAssumption DEF TypeInv, Bookkeeping
<1>7. a \in Workers /\ b \in Workers
  BY <1>1, <1>2, <1>5, <1>6, ThreadsAssumption DEF Caller
<1> QED
  BY <1>1, <1>2, <1>5, <1>7, ThreadsAssumption DEF Caller, TaskInOnePlace

LEMMA OnePlaceStep ==
    TypeInv /\ TaskInOnePlace /\ [Next]_vars => TaskInOnePlace'
<1> SUFFICES ASSUME TypeInv, TaskInOnePlace, [Next]_vars
             PROVE  TaskInOnePlace'
  OBVIOUS
<1> USE ThreadsAssumption, TasksAssumption
<1>a. TypeOK /\ Bookkeeping
  BY DEF TypeInv
<1>u. CASE UNCHANGED <<tasks, current, arg, future>>
  BY <1>u DEF TaskInOnePlace
<1>1. ASSUME NEW th \in Threads, NEW t \in Tasks, CallAddTask(th, t)
      PROVE  TaskInOnePlace'
  <2>1. \A b \in Threads : arg[b] # t
    BY <1>1, OneSubmitter DEF CallAddTask
  <2>2. /\ arg' = [arg EXCEPT ![th] = t]
        /\ future[t] = "none"
        /\ UNCHANGED <<tasks, current, future>>
    BY <1>1 DEF CallAddTask, MayAdd
  <2>3. Range(arg') \subseteq Range(arg) \cup {t}
    BY <1>a, <2>2 DEF TypeOK, Range
  <2> QED
    BY <1>a, <2>1, <2>2, <2>3 DEF TaskInOnePlace, TypeOK
<1>2. ASSUME NEW th \in Threads, Emplace(th)
      PROVE  TaskInOnePlace'
  <2> DEFINE t == arg[th]
  <2>1. t \in Tasks /\ t \in Range(arg)
    BY <1>2, <1>a DEF Emplace, TypeOK, Bookkeeping, Range
  <2>2. /\ future[t] = "none"
        /\ t \notin Range(tasks)
        /\ t \notin Range(current)
    BY <2>1 DEF TaskInOnePlace
  <2>3. /\ tasks' = Append(tasks, t)
        /\ future' = [future EXCEPT ![t] = "pending"]
        /\ arg' = [arg EXCEPT ![th] = NoTask]
        /\ current' = current
    BY <1>2 DEF Emplace
  <2>4. Range(tasks') = Range(tasks) \cup {t} /\ IsInjective(tasks')
    BY <1>a, <2>1, <2>2, <2>3, AppendRange DEF TypeOK, TaskInOnePlace
  <2>5. \A x \in Tasks : x \in Range(arg') => x \in Range(arg) /\ x # t
    BY <1>a, <2>1, <2>3 DEF TaskInOnePlace, TypeOK, Range
  <2>6. \A w \in Workers : current[w] # t
    BY <1>a, <2>2 DEF TypeOK, Range
  <2>7. \A a, b \in Threads : arg'[a] = arg'[b] /\ arg'[a] # NoTask => a = b
    BY <1>a, <2>3 DEF TaskInOnePlace, TypeOK
  <2>8. ASSUME NEW x \in Tasks
        PROVE  /\ x \in Range(tasks') \cup Range(current) <=>
                  future'[x] = "pending"
               /\ x \in Range(arg') => future'[x] = "none"
    BY <1>a, <2>1, <2>2, <2>3, <2>4, <2>5 DEF TaskInOnePlace, TypeOK
  <2> QED
    BY <2>3, <2>4, <2>6, <2>7, <2>8 DEF TaskInOnePlace
<1>3. ASSUME NEW th \in Threads, ThrowStopped(th)
      PROVE  TaskInOnePlace'
  <2> DEFINE t == arg[th]
  <2>1. t \in Tasks /\ t \in Range(arg)
    BY <1>3, <1>a DEF ThrowStopped, TypeOK, Bookkeeping, Range
  <2>2. /\ future' = [future EXCEPT ![t] = "refused"]
        /\ arg' = [arg EXCEPT ![th] = NoTask]
        /\ UNCHANGED <<tasks, current>>
    BY <1>3 DEF ThrowStopped
  <2>3. future[t] = "none" /\ t \notin Range(tasks) \cup Range(current)
    BY <2>1 DEF TaskInOnePlace
  <2>4. \A x \in Tasks : x \in Range(arg') => x \in Range(arg) /\ x # t
    BY <1>a, <2>1, <2>2 DEF TaskInOnePlace, TypeOK, Range
  <2>5. \A a, b \in Threads : arg'[a] = arg'[b] /\ arg'[a] # NoTask => a = b
    BY <1>a, <2>2 DEF TaskInOnePlace, TypeOK
  <2>6. ASSUME NEW x \in Tasks
        PROVE  /\ x \in Range(tasks) \cup Range(current) <=>
                  future'[x] = "pending"
               /\ x \in Range(arg') => future'[x] = "none"
    BY <1>a, <2>1, <2>2, <2>3, <2>4 DEF TaskInOnePlace, TypeOK
  <2> QED
    BY <2>2, <2>5, <2>6 DEF TaskInOnePlace
<1>4. ASSUME NEW w \in Workers, Leave(w)
      PROVE  TaskInOnePlace'
  <2> DEFINE t == Head(tasks)
  <2>1. /\ tasks # <<>>
        /\ pc[w] = "checking"
        /\ current' = [current EXCEPT ![w] = t]
        /\ tasks' = Tail(tasks)
        /\ UNCHANGED <<arg, future>>
    BY <1>4 DEF Leave, Ready
  <2>2. /\ t \in Range(tasks)
        /\ Range(tasks') = Range(tasks) \ {t}
        /\ IsInjective(tasks')
    BY <1>a, <2>1, TailRange DEF TypeOK, TaskInOnePlace
  <2>3. t \in Tasks
    BY <1>a, <2>2, QueuedAreTasks DEF TypeOK
  <2>4. current[w] = NoTask
    BY <1>a, <2>1 DEF Bookkeeping
  <2>5. \A x \in Tasks : x \in Range(current') <=> x \in Range(current) \cup {t}
    BY <1>a, <2>1, <2>4 DEF TypeOK, Range
  <2>6. \A v \in Workers : current[v] # t
    BY <2>2 DEF TaskInOnePlace
  <2>7. \A v \in Workers : current'[v] \notin Range(tasks')
    BY <1>a, <2>1, <2>2 DEF TaskInOnePlace, TypeOK
  <2>8. \A u, v \in Workers : current'[u] = current'[v] /\ current'[u] # NoTask
                                => u = v
    BY <1>a, <2>1, <2>6 DEF TaskInOnePlace, TypeOK
  <2>9. \A x \in Tasks : x \in Range(tasks') \cup Range(current') <=>
                           future[x] = "pending"
    BY <2>2, <2>5 DEF TaskInOnePlace
  <2> QED
    BY <2>1, <2>2, <2>7, <2>8, <2>9 DEF TaskInOnePlace
<1>5. ASSUME NEW w \in Workers, Return(w)
      PROVE  TaskInOnePlace'
  <2> DEFINE t == current[w]
  <2>1. t \in Tasks /\ t \in Range(current)
    BY <1>5, <1>a DEF Return, TypeOK, Bookkeeping, Range
  <2>2. /\ future' = [future EXCEPT ![t] = "ready"]
        /\ current' = [current EXCEPT ![w] = NoTask]
        /\ UNCHANGED <<tasks, arg>>
    BY <1>5 DEF Return
  <2>3. t \notin Range(tasks) /\ future[t] = "pending"
    BY <2>1 DEF TaskInOnePlace
  <2>4. \A x \in Tasks : x \in Range(current') <=> x \in Range(current) \ {t}
    BY <1>a, <2>1, <2>2 DEF TaskInOnePlace, TypeOK, Range
  <2>5. \A v \in Workers : current'[v] \notin Range(tasks)
    <3>1. NoTask \notin Range(tasks)
      BY <1>a, QueuedAreTasks DEF TypeOK
    <3> QED
      BY <1>a, <2>2, <3>1 DEF TaskInOnePlace, TypeOK
  <2>6. \A u, v \in Workers : current'[u] = current'[v] /\ current'[u] # NoTask
                                => u = v
    BY <1>a, <2>2 DEF TaskInOnePlace, TypeOK
  <2>7. ASSUME NEW x \in Tasks
        PROVE  /\ x \in Range(tasks) \cup Range(current') <=>
                  future'[x] = "pending"
               /\ x \in Range(arg) => future'[x] = "none"
    BY <1>a, <2>1, <2>2, <2>3, <2>4 DEF TaskInOnePlace, TypeOK
  <2> QED
    BY <2>2, <2>5, <2>6, <2>7 DEF TaskInOnePlace
<1>6. CASE Join
  <2>1. /\ tasks' = <<>>
        /\ future' = [t \in Tasks |-> IF t \in Range(tasks)
                                      THEN "broken" ELSE future[t]]
        /\ UNCHANGED <<arg, current>>
    BY <1>6 DEF Join
  <2>2. Range(tasks') = {} /\ IsInjective(tasks')
    BY <2>1, EmptySeq DEF Range, IsInjective
  <2>3. \A w \in Workers : current[w] = NoTask
    BY <1>6, <1>a DEF Join, Bookkeeping
  <2>4. \A t \in Tasks : t \notin Range(current)
    BY <1>a, <2>3 DEF TypeOK, Range
  <2> QED
    BY <2>1, <2>2, <2>3, <2>4 DEF TaskInOnePlace
<1> QED
  BY <1>u, <1>1, <1>2, <1>3, <1>4, <1>5, <1>6
  DEF Next, Work, AddTask, Destroy, Spawn, Constructed, LockToAdd, NotifyOne,
      LockToCheck, Block, SpuriousWakeup, Delete, LockToStop, Stop, NotifyAll,
      vars

\* Every task is in one place: no interleaving of callers and workers loses a
\* task or gives it to two workers.
THEOREM OnePlace == Spec => []TaskInOnePlace
BY OnePlaceInit, OnePlaceStep, TypeInit, TypeStep, PTL DEF Spec

-----------------------------------------------------------------------------
(* No wakeup is lost: the count of the threads that will look at the queue *)
(* follows its length.                                                     *)

LEMMA AttendingCard ==
    /\ IsFiniteSet(Threads)
    /\ Cardinality(Attending) \in Nat
    /\ IsFiniteSet(Attending)
<1>1. IsFiniteSet(Threads)
  BY ThreadsAssumption, FS_AddElement
<1>2. Attending \subseteq Threads
  BY DEF Attending
<1> QED
  BY <1>1, <1>2, FS_Subset, FS_CardinalityType

LEMMA WakeupInit == Init => NoLostWakeup
<1> SUFFICES ASSUME Init PROVE Len(tasks) <= Cardinality(Attending)
  BY DEF NoLostWakeup
<1>1. Len(tasks) = 0
  BY EmptySeq DEF Init
<1> QED
  BY <1>1, AttendingCard

LEMMA WakeupStep ==
    TypeInv /\ TypeInv' /\ NoLostWakeup /\ [Next]_vars => NoLostWakeup'
<1> SUFFICES ASSUME TypeInv, TypeInv', NoLostWakeup, [Next]_vars,
                    isRunning', Waiting' # {}
             PROVE  Len(tasks)' <= Cardinality(Attending)'
  BY DEF NoLostWakeup
<1> USE ThreadsAssumption
<1>a. TypeOK /\ Bookkeeping /\ TypeOK' /\ Bookkeeping'
  BY DEF TypeInv
<1>b. /\ Len(tasks) \in Nat
      /\ IsFiniteSet(Attending)
      /\ IsFiniteSet(Attending')
      /\ Cardinality(Attending) \in Nat
      /\ Cardinality(Attending') \in Nat
  <2>1. IsFiniteSet(Attending')
    <3>1. Attending' \subseteq Threads
      BY DEF Attending
    <3> QED
      BY <3>1, AttendingCard, FS_Subset
  <2> QED
    BY <1>a, <2>1, AttendingCard, LenProperties, FS_CardinalityType DEF TypeOK
<1>c. ASSUME isRunning, Waiting # {}, tasks' = tasks,
             Attending \subseteq Attending'
      PROVE  Len(tasks)' <= Cardinality(Attending)'
  <2>1. Len(tasks) <= Cardinality(Attending)
    BY <1>c DEF NoLostWakeup
  <2>2. Cardinality(Attending) <= Cardinality(Attending')
    BY <1>b, <1>c, FS_Subset
  <2> QED
    BY <1>b, <1>c, <2>1, <2>2
<1>1. ASSUME NEW w \in Workers, Spawn(w)
      PROVE  Len(tasks)' <= Cardinality(Attending)'
  BY <1>1, <1>a, <1>c DEF Spawn, TypeOK, Attending, Waiting
<1>2. CASE Constructed
  BY <1>2, <1>a, <1>c DEF Constructed, TypeOK, Attending, Waiting
<1>3. ASSUME NEW th \in Threads, NEW t \in Tasks, CallAddTask(th, t)
      PROVE  Len(tasks)' <= Cardinality(Attending)'
  BY <1>3, <1>a, <1>c
  DEF CallAddTask, MayAdd, Resumed, TypeOK, Attending, Waiting
<1>4. ASSUME NEW th \in Threads, LockToAdd(th)
      PROVE  Len(tasks)' <= Cardinality(Attending)'
  BY <1>4, <1>a, <1>c DEF LockToAdd, TypeOK, Attending, Waiting
<1>5. ASSUME NEW th \in Threads, Emplace(th)
      PROVE  Len(tasks)' <= Cardinality(Attending)'
  <2>1. arg[th] \in Tasks
    BY <1>5, <1>a DEF Emplace, TypeOK, Bookkeeping
  <2>2. Len(tasks') = Len(tasks) + 1
    BY <1>5, <1>a, <2>1, AppendProperties DEF Emplace, TypeOK
  <2>3. th \notin Attending /\ Attending' = Attending \cup {th}
    BY <1>5, <1>a DEF Emplace, TypeOK, Attending
  <2>4. Cardinality(Attending') = Cardinality(Attending) + 1
    BY <1>b, <2>3, FS_AddElement
  <2>5. isRunning /\ Waiting # {}
    BY <1>5, <1>a DEF Emplace, TypeOK, Waiting
  <2> QED
    BY <1>b, <2>2, <2>4, <2>5 DEF NoLostWakeup
<1>6. ASSUME NEW th \in Threads, ThrowStopped(th)
      PROVE  Len(tasks)' <= Cardinality(Attending)'
  BY <1>6 DEF ThrowStopped
<1>7. ASSUME NEW th \in Threads, NotifyOne(th)
      PROVE  Len(tasks)' <= Cardinality(Attending)'
  <2>1. PICK w \in Waiting :
           pc' = [pc EXCEPT ![th] = Resumed(th), ![w] = "locking"]
    <3>1. ~ (Waiting = {} /\ pc' = [pc EXCEPT ![th] = Resumed(th)])
      BY <1>7, <1>a DEF NotifyOne, TypeOK, Waiting, Resumed
    <3> QED
      BY <1>7, <3>1 DEF NotifyOne
  <2>2. /\ pc[th] = "notifying" /\ w \in Workers /\ pc[w] = "waiting"
        /\ w # th
        /\ UNCHANGED <<tasks, isRunning>>
    BY <1>7, <2>1 DEF NotifyOne, Waiting
  <2>3. /\ th \in Attending
        /\ w \notin Attending \ {th}
        /\ Attending' = (Attending \ {th}) \cup {w}
    BY <1>a, <2>1, <2>2 DEF TypeOK, Attending, Resumed
  <2>4. /\ IsFiniteSet(Attending \ {th})
        /\ Cardinality(Attending \ {th}) = Cardinality(Attending) - 1
    BY <1>b, <2>3, FS_RemoveElement
  <2>5. Cardinality(Attending') = Cardinality(Attending \ {th}) + 1
    BY <2>3, <2>4, FS_AddElement
  <2> QED
    BY <1>b, <2>1, <2>2, <2>4, <2>5 DEF NoLostWakeup
<1>8. ASSUME NEW w \in Workers, LockToCheck(w)
      PROVE  Len(tasks)' <= Cardinality(Attending)'
  BY <1>8, <1>a, <1>c DEF LockToCheck, TypeOK, Attending, Waiting
<1>9. ASSUME NEW w \in Workers, Block(w)
      PROVE  Len(tasks)' <= Cardinality(Attending)'
  <2>1. tasks' = <<>>
    BY <1>9 DEF Block, Ready
  <2> QED
    BY <1>b, <2>1, EmptySeq
<1>10. ASSUME NEW w \in Workers, Leave(w)
       PROVE  Len(tasks)' <= Cardinality(Attending)'
  <2>1. /\ tasks # <<>> /\ isRunning
        /\ tasks' = Tail(tasks)
        /\ pc[w] = "checking" /\ pc' = [pc EXCEPT ![w] = "running"]
    BY <1>10 DEF Leave, Ready
  <2>2. Len(tasks') = Len(tasks) - 1
    BY <1>a, <2>1, HeadTailProperties DEF TypeOK
  <2>3. w \in Attending /\ Attending' = Attending \ {w}
    BY <1>a, <2>1 DEF TypeOK, Attending
  <2>4. Cardinality(Attending') = Cardinality(Attending) - 1
    BY <1>b, <2>3, FS_RemoveElement
  <2>5. Waiting # {}
    BY <1>a, <2>1 DEF TypeOK, Waiting
  <2> QED
    BY <1>b, <2>1, <2>2, <2>4, <2>5 DEF NoLostWakeup
<1>11. ASSUME NEW w \in Workers, Return(w)
       PROVE  Len(tasks)' <= Cardinality(Attending)'
  BY <1>11, <1>a, <1>c DEF Return, TypeOK, Attending, Waiting
<1>12. ASSUME NEW w \in Workers, SpuriousWakeup(w)
       PROVE  Len(tasks)' <= Cardinality(Attending)'
  BY <1>12, <1>a, <1>c DEF SpuriousWakeup, TypeOK, Attending, Waiting
<1>13. CASE Delete
  BY <1>13, <1>a, <1>c DEF Delete, TypeOK, Attending, Waiting
<1>14. CASE LockToStop
  BY <1>14, <1>a, <1>c DEF LockToStop, TypeOK, Attending, Waiting
<1>15. CASE Stop
  BY <1>15 DEF Stop
<1>16. CASE NotifyAll
  BY <1>16, <1>a DEF NotifyAll, Bookkeeping
<1>17. CASE Join
  BY <1>17, <1>a DEF Join, Bookkeeping
<1>18. CASE UNCHANGED vars
  BY <1>18, <1>c DEF vars, Attending, Waiting
<1> QED
  BY <1>1, <1>2, <1>3, <1>4, <1>5, <1>6, <1>7, <1>8, <1>9, <1>10, <1>11,
     <1>12, <1>13, <1>14, <1>15, <1>16, <1>17, <1>18
  DEF Next, Work, AddTask, Destroy

\* While the pool runs and a worker sleeps, no queued task is left without a
\* thread that will take it or notify, whatever the number of workers.
THEOREM NoWakeupIsLost == Spec => []NoLostWakeup
BY WakeupInit, WakeupStep, TypeInit, TypeStep, PTL DEF Spec

-----------------------------------------------------------------------------
(* The pool implements the abstract queue.                                 *)

LEMMA RefinesInit == Init => Abstract!Init
<1> SUFFICES ASSUME Init PROVE Abstract!Init
  OBVIOUS
<1>1. Running = {}
  BY DEF Init, Running
<1> QED
  BY <1>1 DEF Init, Abstract!Init

LEMMA RefinesStep ==
    TypeInv /\ TaskInOnePlace /\ [Next]_vars => [Abstract!Next]_(Abstract!vars)
<1> SUFFICES ASSUME TypeInv, TaskInOnePlace, [Next]_vars
             PROVE  [Abstract!Next]_(Abstract!vars)
  OBVIOUS
<1> USE ThreadsAssumption, TasksAssumption
<1>a. TypeOK /\ Bookkeeping
  BY DEF TypeInv
<1>u. CASE UNCHANGED <<tasks, current, future, isRunning>>
  <2>1. Running' = Running
    BY <1>u DEF Running
  <2> QED
    BY <1>u, <2>1 DEF Abstract!vars
<1>1. ASSUME NEW th \in Threads, Emplace(th)
      PROVE  Abstract!Next
  <2>1. arg[th] \in Tasks /\ arg[th] \in Range(arg)
    BY <1>1, <1>a DEF Emplace, TypeOK, Bookkeeping, Range
  <2>2. future[arg[th]] = "none"
    BY <2>1 DEF TaskInOnePlace
  <2>3. Abstract!Submit(arg[th])
    BY <1>1, <2>2 DEF Emplace, Abstract!Submit, Running
  <2> QED
    BY <2>1, <2>3 DEF Abstract!Next
<1>2. ASSUME NEW th \in Threads, ThrowStopped(th)
      PROVE  Abstract!Next
  <2>1. arg[th] \in Tasks /\ arg[th] \in Range(arg)
    BY <1>2, <1>a DEF ThrowStopped, TypeOK, Bookkeeping, Range
  <2>2. future[arg[th]] = "none"
    BY <2>1 DEF TaskInOnePlace
  <2>3. Abstract!Refuse(arg[th])
    BY <1>2, <2>2 DEF ThrowStopped, Abstract!Refuse, Running
  <2> QED
    BY <2>1, <2>3 DEF Abstract!Next
<1>3. ASSUME NEW w \in Workers, Leave(w)
      PROVE  Abstract!Next
  <2>1. /\ isRunning /\ tasks # <<>>
        /\ pc[w] = "checking"
        /\ current' = [current EXCEPT ![w] = Head(tasks)]
        /\ tasks' = Tail(tasks)
        /\ UNCHANGED <<future, isRunning>>
    BY <1>3 DEF Leave, Ready
  <2>2. Head(tasks) \in Range(tasks) /\ Head(tasks) \in Tasks
    BY <1>a, <2>1, TailRange, HeadTailProperties DEF TypeOK, TaskInOnePlace
  <2>3. Head(tasks) \notin Running
    BY <2>2 DEF TaskInOnePlace, Running
  <2>4. current[w] = NoTask
    BY <1>a, <2>1 DEF Bookkeeping
  <2>5. Running' = Running \cup {Head(tasks)}
    BY <1>a, <2>1, <2>2, <2>4 DEF TypeOK, Running
  <2> QED
    BY <2>1, <2>3, <2>5 DEF Abstract!Next, Abstract!Start
<1>4. ASSUME NEW w \in Workers, Return(w)
      PROVE  Abstract!Next
  <2> DEFINE t == current[w]
  <2>1. t \in Tasks /\ t \in Range(current)
    BY <1>4, <1>a DEF Return, TypeOK, Bookkeeping, Range
  <2>2. future[t] = "pending" /\ t \in Running
    BY <2>1 DEF TaskInOnePlace, Running
  <2>3. /\ future' = [future EXCEPT ![t] = "ready"]
        /\ current' = [current EXCEPT ![w] = NoTask]
        /\ UNCHANGED <<tasks, isRunning>>
    BY <1>4 DEF Return
  <2>4. \A v \in Workers : v # w => current[v] # t
    BY <2>1 DEF TaskInOnePlace
  <2>5. Running' = Running \ {t}
    BY <1>a, <2>3, <2>4 DEF TypeOK, Running
  <2>6. Abstract!Finish(t)
    BY <2>2, <2>3, <2>5 DEF Abstract!Finish
  <2> QED
    BY <2>1, <2>6 DEF Abstract!Next
<1>5. CASE Stop
  <2>1. isRunning /\ ~isRunning' /\ UNCHANGED <<tasks, current, future>>
    BY <1>5, <1>a DEF Stop, Bookkeeping
  <2>2. Running' = Running
    BY <2>1 DEF Running
  <2> QED
    BY <1>5, <2>1, <2>2 DEF Stop, Abstract!Next, Abstract!Close
<1>6. CASE Join
  <2>1. \A w \in Workers : current[w] = NoTask
    BY <1>6, <1>a DEF Join, Bookkeeping
  <2>2. Running = {} /\ Running' = Running
    BY <1>6, <2>1 DEF Join, Running
  <2>3. ~isRunning
    BY <1>6, <1>a DEF Join, Bookkeeping
  <2>4. Abstract!Range(tasks) = Range(tasks)
    BY DEF Abstract!Range, Range
  <2> QED
    BY <1>6, <2>2, <2>3, <2>4 DEF Join, Abstract!Next, Abstract!Drop
<1>s. ASSUME \/ \E w \in Workers : \/ Spawn(w) \/ LockToCheck(w) \/ Block(w)
                                   \/ SpuriousWakeup(w)
             \/ \E th \in Threads : \/ LockToAdd(th) \/ NotifyOne(th)
                                    \/ \E t \in Tasks : CallAddTask(th, t)
             \/ Constructed \/ Delete \/ LockToStop \/ NotifyAll
             \/ UNCHANGED vars
      PROVE  UNCHANGED <<tasks, current, future, isRunning>>
  BY <1>s DEF Spawn, Constructed, LockToAdd, NotifyOne, LockToCheck, Block,
              SpuriousWakeup, Delete, LockToStop, NotifyAll, CallAddTask, vars
<1> QED
  BY <1>u, <1>1, <1>2, <1>3, <1>4, <1>5, <1>6, <1>s
  DEF Next, Work, AddTask, Destroy

\* Every behaviour of the pool is one of the abstract queue: tasks start in
\* the order of submission, at most once, and only while the pool is open.
THEOREM PoolIsTaskQueue == Spec => ImplementsTaskQueue
BY RefinesInit, RefinesStep, TypeInit, TypeStep, OnePlaceInit, OnePlaceStep, PTL
DEF Spec, ImplementsTaskQueue, Abstract!Spec

=============================================================================
