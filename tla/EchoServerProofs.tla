--------------------------- MODULE EchoServerProofs ---------------------------
(***************************************************************************)
(* Theorems about EchoServer, for any number of sub reactors, of workers   *)
(* and of clients.  The invariants of ThreadpoolProofs do not hold here:   *)
(* the signal handler abandons a call of addTask, mutex and all.           *)
(***************************************************************************)
EXTENDS EchoServer, ThreadpoolProofs

Building == {"reactor", "socket", "bind", "listen", "watch", "construct"}

\* Where main() is tells where it is in the functions of the pool; only a
\* pool that runs is given tasks.
OwnerPlaces ==
    /\ main \in Building => pc[Owner] = "constructing"
    /\ main \in {"subs", "install", "poll"} => pc[Owner] = "idle"
    /\ main = "start" => pc[Owner] \in {"idle", "adding", "emplacing", "notifying"}
    /\ main = "handler" => pc[Owner] \in {"deleting", "stopping", "notifyingAll",
                                          "joining", "destroyed"}
    /\ isRunning <=> pc[Owner] \notin {"notifyingAll", "joining", "destroyed"}

\* The tasks are loops that neither end nor submit tasks.
WorkerPlaces ==
    /\ \A w \in Workers :
          /\ pc[w] \in {"absent", "unborn", "locking", "checking", "waiting",
                        "running", "exited"}
          /\ current[w] # NoTask <=> pc[w] = "running"
    /\ pc[Owner] = "destroyed" => \A w \in Workers : pc[w] # "running"

\* What the owner is submitting has not been submitted before.
Submitting ==
    pc[Owner] \in {"adding", "emplacing"} =>
        arg[Owner] \in subReactors /\ future[arg[Owner]] = "none"

\* The loops that are queued or running are those of reactors that exist, each
\* in one place.
Loops ==
    /\ Alive => Range(tasks) \subseteq subReactors
    /\ Alive => \A w \in Workers : current[w] \in subReactors \cup {NoTask}
    /\ IsInjective(tasks)
    /\ \A w \in Workers : current[w] \notin Range(tasks)
    /\ \A v, w \in Workers : current[v] = current[w] /\ current[v] # NoTask => v = w
    /\ \A t \in Range(tasks) : future[t] # "none"
    /\ \A w \in Workers : current[w] # NoTask => future[current[w]] # "none"

IInv ==
    /\ ServerTypeOK
    /\ backlog + accepted <= MaxClients
    /\ OwnerPlaces
    /\ WorkerPlaces
    /\ Submitting
    /\ Loops

-----------------------------------------------------------------------------
(* The initial states.                                                     *)

USE DEF Threads, OwnerPC, WorkerPC, FutureStates

LEMMA InitHolds == ServerInit => IInv
<1> SUFFICES ASSUME ServerInit PROVE IInv
  OBVIOUS
<1> USE ThreadsAssumption, TasksAssumption, ServerAssumption
<1>1. TypeOK
  BY TypeInit DEF ServerInit, TypeInv
<1>2. ServerTypeOK /\ backlog + accepted <= MaxClients
  BY <1>1 DEF ServerInit, ServerTypeOK, Constructing, Readable
<1>3. OwnerPlaces /\ Submitting
  BY <1>1 DEF ServerInit, Init, TypeOK, OwnerPlaces, Submitting, Building
<1>4. WorkerPlaces
  BY <1>1 DEF ServerInit, Init, TypeOK, WorkerPlaces
<1>5. Range(tasks) = {} /\ IsInjective(tasks)
  BY EmptySeq DEF ServerInit, Init, Range, IsInjective
<1>6. Loops
  BY <1>5 DEF ServerInit, Init, Loops
<1> QED
  BY <1>2, <1>3, <1>4, <1>6 DEF IInv

-----------------------------------------------------------------------------
(* The steps of the pool.  None of them changes a variable of the server.  *)

\* A step of the pool that moves neither tasks nor futures disturbs only the
\* places of the threads.
LEMMA SameLoops ==
    ASSUME IInv, UNCHANGED <<serverVars, tasks, current, future>>
    PROVE  Loops'
<1>1. Alive' = Alive
  BY DEF serverVars, Alive
<1> QED
  BY <1>1 DEF IInv, Loops, serverVars

LEMMA SameServer ==
    ASSUME IInv, TypeOK', UNCHANGED serverVars
    PROVE  ServerTypeOK' /\ backlog' + accepted' <= MaxClients
BY DEF IInv, ServerTypeOK, serverVars, acceptorVars

\* The places of a worker that moves from the lock to the test, to sleep and
\* back, all without a task.
LEMMA WorkerMoves ==
    ASSUME IInv, NEW w \in Workers, NEW place, NEW b \in BOOLEAN,
           current[w] = NoTask,
           place \in {"locking", "checking", "waiting"},
           pc' = [pc EXCEPT ![w] = place], locked' = b,
           UNCHANGED <<tasks, isRunning, arg, current, future, serverVars>>
    PROVE  IInv'
<1> USE ThreadsAssumption, TasksAssumption
<1>a. TypeOK
  BY DEF IInv, ServerTypeOK
<1>1. TypeOK'
  BY <1>a DEF TypeOK
<1>2. pc'[Owner] = pc[Owner]
  BY <1>a DEF TypeOK
<1>3. OwnerPlaces' /\ Submitting'
  BY <1>2 DEF IInv, OwnerPlaces, Submitting, serverVars
<1>4. WorkerPlaces'
  BY <1>a, <1>2 DEF IInv, WorkerPlaces, TypeOK
<1> QED
  BY <1>1, <1>3, <1>4, SameServer, SameLoops DEF IInv

LEMMA LeaveStep ==
    ASSUME IInv, Alive, NEW w \in Workers, Leave(w), UNCHANGED serverVars
    PROVE  IInv'
<1> USE ThreadsAssumption, TasksAssumption
<1> DEFINE t == Head(tasks)
<1>a. TypeOK
  BY DEF IInv, ServerTypeOK
<1>1. /\ isRunning /\ tasks # <<>>
      /\ pc[w] = "checking"
      /\ pc' = [pc EXCEPT ![w] = "running"]
      /\ current' = [current EXCEPT ![w] = t]
      /\ tasks' = Tail(tasks)
      /\ locked' = FALSE
      /\ UNCHANGED <<isRunning, arg, future>>
  BY DEF Leave, Ready
<1>2. /\ t \in Range(tasks)
      /\ Range(tasks') = Range(tasks) \ {t}
      /\ IsInjective(tasks')
  BY <1>a, <1>1, TailRange DEF TypeOK, IInv, Loops
<1>3. t \in Tasks /\ tasks' \in Seq(Tasks)
  BY <1>a, <1>1, HeadTailProperties DEF TypeOK
<1>4. current[w] = NoTask
  BY <1>1 DEF IInv, WorkerPlaces
<1> HIDE DEF t
<1>5. TypeOK'
  BY <1>a, <1>1, <1>3 DEF TypeOK
<1>6. pc'[Owner] = pc[Owner]
  BY <1>a, <1>1 DEF TypeOK
<1>7. OwnerPlaces' /\ Submitting'
  BY <1>1, <1>6 DEF IInv, OwnerPlaces, Submitting, serverVars
<1>8. WorkerPlaces'
  <2>1. pc[Owner] # "destroyed"
    BY <1>1 DEF IInv, OwnerPlaces
  <2>2. \A v \in Workers : /\ pc'[v] = IF v = w THEN "running" ELSE pc[v]
                           /\ current'[v] = IF v = w THEN t ELSE current[v]
    BY <1>a, <1>1 DEF TypeOK
  <2> QED
    BY <1>3, <1>6, <2>1, <2>2 DEF IInv, WorkerPlaces
<1>9. Loops'
  <2>1. Alive' = Alive /\ subReactors' = subReactors
    BY DEF serverVars, Alive
  <2>2. \A v \in Workers : current'[v] = IF v = w THEN t ELSE current[v]
    BY <1>a, <1>1 DEF TypeOK
  <2>3. \A v \in Workers : current[v] # t
    BY <1>2 DEF IInv, Loops
  <2>4. Range(tasks') \subseteq subReactors' /\ IsInjective(tasks')
    BY <1>2, <2>1 DEF IInv, Loops
  <2>5. \A v \in Workers : current'[v] \in subReactors' \cup {NoTask}
    BY <1>2, <2>1, <2>2 DEF IInv, Loops
  <2>6. \A v \in Workers : current'[v] \notin Range(tasks')
    BY <1>2, <2>2 DEF IInv, Loops
  <2>7. \A u, v \in Workers : current'[u] = current'[v] /\ current'[u] # NoTask
                                => u = v
    BY <2>2, <2>3 DEF IInv, Loops
  <2>8. /\ \A x \in Range(tasks') : future'[x] # "none"
        /\ \A v \in Workers : current'[v] # NoTask => future'[current'[v]] # "none"
    BY <1>1, <1>2, <2>2 DEF IInv, Loops
  <2> QED
    BY <2>4, <2>5, <2>6, <2>7, <2>8 DEF Loops
<1> QED
  BY <1>5, <1>7, <1>8, <1>9, SameServer DEF IInv

LEMMA WorkerStep ==
    ASSUME IInv, NEW w \in Workers, Worker(w) \/ Spurious(w)
    PROVE  IInv'
<1> USE ThreadsAssumption, TasksAssumption
<1>a. TypeOK
  BY DEF IInv, ServerTypeOK
<1>b. /\ pc[w] # "running" => current[w] = NoTask
      /\ pc[w] # "unwinding"
      /\ pc[w] = "running" => current[w] \in Endless
  BY <1>a, ServerAssumption DEF IInv, WorkerPlaces, TypeOK
<1>c. Alive /\ UNCHANGED serverVars
  BY DEF Worker, Spurious
<1>1. CASE Spawn(w)
  BY <1>1, <1>a, <1>b, <1>c, WorkerMoves DEF Spawn, TypeOK
<1>2. CASE LockToCheck(w)
  BY <1>2, <1>a, <1>b, <1>c, WorkerMoves DEF LockToCheck
<1>3. CASE Block(w)
  BY <1>3, <1>a, <1>b, <1>c, WorkerMoves DEF Block
<1>4. CASE Leave(w)
  BY <1>4, <1>c, LeaveStep
<1>5. CASE Return(w)
  BY <1>5, <1>b DEF Return
<1>6. CASE SpuriousWakeup(w)
  BY <1>6, <1>a, <1>b, <1>c, WorkerMoves DEF SpuriousWakeup, TypeOK
<1> QED
  BY <1>1, <1>2, <1>3, <1>4, <1>5, <1>6 DEF Worker, Spurious, Work

-----------------------------------------------------------------------------
(* The steps of the main thread inside addTask and inside the destructor.  *)

\* The owner moves on and workers may be woken, but no task moves.
LEMMA OwnerMoves ==
    ASSUME IInv, TypeOK', OwnerPlaces', Submitting',
           UNCHANGED <<tasks, current, future, serverVars>>,
           pc'[Owner] # "destroyed",
           \A w \in Workers : \/ pc'[w] = pc[w]
                              \/ pc[w] = "waiting" /\ pc'[w] = "locking"
    PROVE  IInv'
<1>1. WorkerPlaces'
  BY DEF IInv, WorkerPlaces
<1> QED
  BY <1>1, SameServer, SameLoops DEF IInv

LEMMA StartStep ==
    ASSUME IInv, StartSubReactor
    PROVE  IInv'
<1> USE ThreadsAssumption, TasksAssumption
<1>a. TypeOK /\ main = "start" /\ UNCHANGED serverVars /\ Owner \in Threads
  BY DEF IInv, ServerTypeOK, StartSubReactor
<1>b. /\ main' = main /\ subReactors' = subReactors
      /\ subReactors \subseteq Tasks
      /\ pc[Owner] \in {"idle", "adding", "emplacing", "notifying"}
      /\ isRunning
  BY <1>a DEF serverVars, IInv, ServerTypeOK, OwnerPlaces
<1>1. ASSUME NEW t \in subReactors, CallAddTask(Owner, t)
      PROVE  IInv'
  <2>1. /\ arg' = [arg EXCEPT ![Owner] = t]
        /\ pc' = [pc EXCEPT ![Owner] = "adding"]
        /\ future[t] = "none"
        /\ UNCHANGED <<locked, tasks, isRunning, current, future>>
    BY <1>1 DEF CallAddTask, MayAdd
  <2>2. TypeOK'
    BY <1>a, <1>b, <2>1 DEF TypeOK
  <2>3. pc'[Owner] = "adding" /\ arg'[Owner] = t
    BY <1>a, <2>1 DEF TypeOK
  <2>4. OwnerPlaces' /\ Submitting'
    BY <1>a, <1>b, <2>1, <2>3 DEF OwnerPlaces, Submitting, Building
  <2>5. \A w \in Workers : pc'[w] = pc[w]
    BY <1>a, <2>1 DEF TypeOK
  <2> QED
    BY <1>a, <2>1, <2>2, <2>3, <2>4, <2>5, OwnerMoves
<1>2. CASE LockToAdd(Owner)
  <2>1. /\ pc[Owner] = "adding" /\ locked' = TRUE
        /\ pc' = [pc EXCEPT ![Owner] = "emplacing"]
        /\ UNCHANGED <<tasks, isRunning, arg, current, future>>
    BY <1>2 DEF LockToAdd
  <2>2. TypeOK'
    BY <1>a, <1>b, <2>1 DEF TypeOK
  <2>3. pc'[Owner] = "emplacing"
    BY <1>a, <2>1 DEF TypeOK
  <2>4. OwnerPlaces' /\ Submitting'
    BY <1>a, <1>b, <2>1, <2>3 DEF IInv, OwnerPlaces, Submitting, Building
  <2>5. \A w \in Workers : pc'[w] = pc[w]
    BY <1>a, <2>1 DEF TypeOK
  <2> QED
    BY <1>a, <2>1, <2>2, <2>3, <2>4, <2>5, OwnerMoves
<1>3. CASE Emplace(Owner)
  <2> DEFINE t == arg[Owner]
  <2>1. /\ pc[Owner] = "emplacing"
        /\ tasks' = Append(tasks, t)
        /\ future' = [future EXCEPT ![t] = "pending"]
        /\ locked' = FALSE
        /\ arg' = [arg EXCEPT ![Owner] = NoTask]
        /\ pc' = [pc EXCEPT ![Owner] = "notifying"]
        /\ UNCHANGED <<isRunning, current>>
    BY <1>3 DEF Emplace
  <2>2. t \in subReactors /\ t \in Tasks /\ future[t] = "none"
    BY <1>b, <2>1 DEF IInv, Submitting
  <2> HIDE DEF t
  <2>3. t \notin Range(tasks) /\ \A w \in Workers : current[w] # t
    BY <2>2 DEF IInv, Loops
  <2>4. /\ Range(tasks') = Range(tasks) \cup {t}
        /\ IsInjective(tasks')
        /\ tasks' \in Seq(Tasks)
    BY <1>a, <2>1, <2>2, <2>3, AppendRange, AppendProperties
    DEF TypeOK, IInv, Loops
  <2>5. TypeOK'
    BY <1>a, <2>1, <2>4 DEF TypeOK
  <2>6. pc'[Owner] = "notifying" /\ \A w \in Workers : pc'[w] = pc[w]
    BY <1>a, <2>1 DEF TypeOK
  <2>7. OwnerPlaces' /\ Submitting'
    BY <1>a, <1>b, <2>1, <2>6 DEF OwnerPlaces, Submitting, Building
  <2>8. WorkerPlaces'
    BY <2>1, <2>6 DEF IInv, WorkerPlaces
  <2>9. Loops'
    <3>1. Alive /\ Alive'
      BY <1>a, <1>b DEF Alive
    <3>2. \A x \in Tasks : future'[x] = IF x = t THEN "pending" ELSE future[x]
      BY <1>a, <2>1 DEF TypeOK
    <3>3. Range(tasks) \subseteq Tasks
      BY <1>a, QueuedAreTasks DEF TypeOK
    <3>4. t # NoTask
      BY <2>2
    <3>5. \A x \in Range(tasks') : x \in subReactors /\ future'[x] # "none"
      BY <2>2, <2>4, <3>1, <3>2, <3>3 DEF IInv, Loops
    <3>6. \A w \in Workers : /\ current[w] \notin Range(tasks')
                             /\ current[w] # NoTask => future'[current[w]] # "none"
      BY <1>a, <2>3, <2>4, <3>2, <3>4 DEF IInv, Loops, TypeOK
    <3> QED
      BY <1>b, <2>1, <2>4, <3>1, <3>5, <3>6 DEF IInv, Loops
  <2> QED
    BY <1>a, <2>5, <2>7, <2>8, <2>9, SameServer DEF IInv
<1>4. CASE ThrowStopped(Owner)
  BY <1>4, <1>b DEF ThrowStopped
<1>5. CASE NotifyOne(Owner)
  <2>1. /\ pc[Owner] = "notifying"
        /\ UNCHANGED <<locked, tasks, isRunning, arg, current, future>>
        /\ \/ pc' = [pc EXCEPT ![Owner] = "idle"]
           \/ \E w \in Waiting :
                 pc' = [pc EXCEPT ![Owner] = "idle", ![w] = "locking"]
    BY <1>5 DEF NotifyOne, Resumed
  <2>2. \A w \in Waiting : w \in Workers /\ pc[w] = "waiting" /\ w # Owner
    BY DEF Waiting
  <2>3. /\ pc' \in [Threads -> OwnerPC \cup WorkerPC]
        /\ pc'[Owner] = "idle"
        /\ \A w \in Workers : \/ pc'[w] = pc[w]
                              \/ pc[w] = "waiting" /\ pc'[w] = "locking"
    BY <1>a, <2>1, <2>2 DEF TypeOK
  <2>4. TypeOK'
    BY <1>a, <2>1, <2>3 DEF TypeOK
  <2>5. OwnerPlaces' /\ Submitting'
    BY <1>a, <1>b, <2>1, <2>3 DEF OwnerPlaces, Submitting, Building
  <2> QED
    BY <1>a, <2>1, <2>3, <2>4, <2>5, OwnerMoves
<1> QED
  BY <1>1, <1>2, <1>3, <1>4, <1>5 DEF StartSubReactor, AddTask

LEMMA DeletePoolStep ==
    ASSUME IInv, DeletePool
    PROVE  IInv'
<1> USE ThreadsAssumption, TasksAssumption
<1>a. TypeOK /\ main = "handler" /\ UNCHANGED serverVars /\ Owner \in Threads
  BY DEF IInv, ServerTypeOK, DeletePool
<1>b. main' = main
  BY <1>a DEF serverVars
<1>1. CASE LockToStop
  <2>1. /\ pc[Owner] = "deleting" /\ locked' = TRUE
        /\ pc' = [pc EXCEPT ![Owner] = "stopping"]
        /\ UNCHANGED <<tasks, isRunning, arg, current, future>>
    BY <1>1 DEF LockToStop
  <2>2. TypeOK'
    BY <1>a, <2>1 DEF TypeOK
  <2>3. pc'[Owner] = "stopping" /\ \A w \in Workers : pc'[w] = pc[w]
    BY <1>a, <2>1 DEF TypeOK
  <2>4. OwnerPlaces' /\ Submitting'
    BY <1>a, <1>b, <2>1, <2>3 DEF IInv, OwnerPlaces, Submitting, Building
  <2> QED
    BY <1>a, <2>1, <2>2, <2>3, <2>4, OwnerMoves
<1>2. CASE Stop
  <2>1. /\ isRunning' = FALSE /\ locked' = FALSE
        /\ pc' = [pc EXCEPT ![Owner] = "notifyingAll"]
        /\ UNCHANGED <<tasks, arg, current, future>>
    BY <1>2 DEF Stop
  <2>2. TypeOK'
    BY <1>a, <2>1 DEF TypeOK
  <2>3. pc'[Owner] = "notifyingAll" /\ \A w \in Workers : pc'[w] = pc[w]
    BY <1>a, <2>1 DEF TypeOK
  <2>4. OwnerPlaces' /\ Submitting'
    BY <1>a, <1>b, <2>1, <2>3 DEF OwnerPlaces, Submitting, Building
  <2> QED
    BY <1>a, <2>1, <2>2, <2>3, <2>4, OwnerMoves
<1>3. CASE NotifyAll
  <2>1. /\ pc[Owner] = "notifyingAll"
        /\ pc' = [th \in Threads |->
                    IF th = Owner THEN "joining"
                    ELSE IF pc[th] = "waiting" THEN "locking" ELSE pc[th]]
        /\ UNCHANGED <<locked, tasks, isRunning, arg, current, future>>
    BY <1>3 DEF NotifyAll
  <2>2. TypeOK'
    BY <1>a, <2>1 DEF TypeOK
  <2>3. /\ pc'[Owner] = "joining"
        /\ \A w \in Workers : \/ pc'[w] = pc[w]
                              \/ pc[w] = "waiting" /\ pc'[w] = "locking"
    BY <1>a, <2>1 DEF TypeOK
  <2>4. OwnerPlaces' /\ Submitting'
    BY <1>a, <1>b, <2>1, <2>3 DEF IInv, OwnerPlaces, Submitting, Building
  <2> QED
    BY <1>a, <2>1, <2>2, <2>3, <2>4, OwnerMoves
<1>4. CASE Join
  <2>1. /\ pc[Owner] = "joining"
        /\ \A w \in Workers : pc[w] \in {"absent", "exited"}
        /\ pc' = [pc EXCEPT ![Owner] = "destroyed"]
        /\ future' = [t \in Tasks |-> IF t \in Range(tasks)
                                      THEN "broken" ELSE future[t]]
        /\ tasks' = <<>>
        /\ UNCHANGED <<locked, isRunning, arg, current>>
    BY <1>4 DEF Join
  <2>2. /\ tasks' \in Seq(Tasks) /\ Range(tasks') = {}
        /\ IsInjective(tasks')
    BY <2>1, EmptySeq DEF Range, IsInjective
  <2>3. TypeOK'
    BY <1>a, <2>1, <2>2 DEF TypeOK
  <2>4. pc'[Owner] = "destroyed" /\ \A w \in Workers : pc'[w] = pc[w]
    BY <1>a, <2>1 DEF TypeOK
  <2>5. OwnerPlaces' /\ Submitting'
    BY <1>a, <1>b, <2>1, <2>4 DEF IInv, OwnerPlaces, Submitting, Building
  <2>6. \A w \in Workers : pc[w] # "running" /\ current[w] = NoTask
    BY <2>1 DEF IInv, WorkerPlaces
  <2>7. WorkerPlaces'
    BY <2>1, <2>4, <2>6 DEF IInv, WorkerPlaces
  <2>8. Loops'
    BY <2>1, <2>2, <2>6 DEF Loops
  <2> QED
    BY <1>a, <2>3, <2>5, <2>7, <2>8, SameServer DEF IInv
<1> QED
  BY <1>1, <1>2, <1>3, <1>4 DEF DeletePool, Destroy

-----------------------------------------------------------------------------
(* The steps of main() outside the pool, of the clients and of the signal. *)

\* A step that leaves the pool alone: its places must suit the new place of
\* main(), and no reactor goes while the process lives.
LEMMA PoolApart ==
    ASSUME IInv, ServerTypeOK', backlog' + accepted' <= MaxClients,
           UNCHANGED vars, OwnerPlaces',
           Alive' => Alive /\ subReactors \subseteq subReactors',
           pc[Owner] \in {"adding", "emplacing"} => subReactors \subseteq subReactors'
    PROVE  IInv'
<1>1. UNCHANGED <<pc, locked, tasks, isRunning, arg, current, future>>
  BY DEF vars
<1>2. WorkerPlaces' /\ Submitting'
  BY <1>1 DEF IInv, WorkerPlaces, Submitting
<1>3. Loops'
  BY <1>1 DEF IInv, Loops
<1> QED
  BY <1>2, <1>3 DEF IInv

LEMMA TypesApart ==
    ASSUME TypeOK, UNCHANGED vars
    PROVE  TypeOK'
BY DEF TypeOK, vars

LEMMA NewServerStep ==
    ASSUME IInv, NewServer
    PROVE  IInv'
<1> USE ThreadsAssumption, TasksAssumption, ServerAssumption
<1>a. /\ TypeOK /\ ServerTypeOK /\ OwnerPlaces
      /\ backlog + accepted <= MaxClients /\ Owner \in Threads
  BY DEF IInv, ServerTypeOK
<1>b. CASE ~Construct
  <2>1. UNCHANGED <<vars, backlog, accepted>>
    BY <1>b DEF NewServer, NewMainReactor, NewSocket, Bind, Listen,
                EnableReading, NewSubReactor, ServerConstructed
  <2>2. TypeOK'
    BY <1>a, <2>1, TypesApart
  <2>3. ServerTypeOK'
    BY <1>a, <1>b, <2>1, <2>2
    DEF NewServer, NewMainReactor, NewSocket, Bind, Listen, EnableReading,
        NewSubReactor, ServerConstructed, GoOn, ErrorIf, UpdateChannel,
        acceptorVars, ServerTypeOK, Constructing, Readable
  <2>4. OwnerPlaces'
    BY <1>a, <1>b, <2>1
    DEF NewServer, NewMainReactor, NewSocket, Bind, Listen, EnableReading,
        NewSubReactor, ServerConstructed, GoOn, ErrorIf, OwnerPlaces, Building,
        vars
  <2>5. Alive /\ subReactors \subseteq subReactors'
    BY <1>b
    DEF NewServer, NewMainReactor, NewSocket, Bind, Listen, EnableReading,
        NewSubReactor, ServerConstructed, Alive
  <2> QED
    BY <1>a, <2>1, <2>2, <2>3, <2>4, <2>5, PoolApart
<1>c. CASE Construct
  <2>1. /\ main = "construct" /\ main' = "subs"
        /\ pc' = [pc EXCEPT ![Owner] = "idle"]
        /\ UNCHANGED <<locked, tasks, isRunning, arg, current, future>>
        /\ UNCHANGED <<subReactors, acceptorVars, backlog, accepted>>
    BY <1>c DEF Construct, Constructed
  <2>2. TypeOK'
    BY <1>a, <2>1 DEF TypeOK
  <2>3. pc'[Owner] = "idle" /\ \A w \in Workers : pc'[w] = pc[w]
    BY <1>a, <2>1 DEF TypeOK
  <2>4. ServerTypeOK' /\ backlog' + accepted' <= MaxClients
    BY <1>a, <2>1, <2>2 DEF ServerTypeOK, acceptorVars, Constructing
  <2>5. pc[Owner] = "constructing" /\ isRunning
    BY <1>a, <2>1 DEF OwnerPlaces, Building
  <2>6. OwnerPlaces' /\ Submitting'
    BY <2>1, <2>3, <2>5 DEF OwnerPlaces, Submitting, Building
  <2>7. WorkerPlaces'
    BY <2>1, <2>3 DEF IInv, WorkerPlaces
  <2>8. Loops'
    BY <2>1 DEF IInv, Loops, Alive
  <2> QED
    BY <2>4, <2>6, <2>7, <2>8 DEF IInv
<1> QED
  BY <1>b, <1>c

LEMMA OtherStep ==
    ASSUME IInv,
           \/ InstallHandler \/ StartMainReactor \/ LoopMainReactor
           \/ DeleteReactors \/ ClientConnects
    PROVE  IInv'
<1> USE ThreadsAssumption, TasksAssumption, ServerAssumption
<1>a. /\ TypeOK /\ ServerTypeOK /\ OwnerPlaces
      /\ backlog + accepted <= MaxClients
      /\ backlog \in Nat /\ accepted \in Nat
  BY DEF IInv, ServerTypeOK
<1>b. UNCHANGED vars
  BY DEF InstallHandler, StartMainReactor, LoopMainReactor, DeleteReactors,
         ClientConnects
<1>c. TypeOK'
  BY <1>a, <1>b, TypesApart
<1>d. OwnerPlaces'
  BY <1>a, <1>b
  DEF InstallHandler, StartMainReactor, LoopMainReactor, DeleteReactors,
      ClientConnects, OwnerPlaces, Building, vars
<1>e. Alive' => Alive /\ subReactors' = subReactors
  BY DEF InstallHandler, StartMainReactor, LoopMainReactor, DeleteReactors,
         ClientConnects, Alive
<1>f. pc[Owner] \in {"adding", "emplacing"} => subReactors' = subReactors
  BY DEF InstallHandler, StartMainReactor, LoopMainReactor, DeleteReactors,
         ClientConnects
<1>1. CASE InstallHandler \/ StartMainReactor
  BY <1>1, <1>a, <1>b, <1>c, <1>d, <1>e, <1>f, PoolApart
  DEF InstallHandler, StartMainReactor, ServerTypeOK, acceptorVars
<1>2. CASE LoopMainReactor
  <2>1. backlog > 0
    BY <1>2 DEF LoopMainReactor, Poll
  <2>2. \/ accepted' = accepted + 1 /\ backlog' = backlog - 1
        \/ accepted' = accepted /\ backlog' = backlog
    BY <1>2 DEF LoopMainReactor, HandleEvent, AcceptConnection
  <2>3. /\ backlog' \in 0..MaxClients /\ accepted' \in 0..MaxClients
        /\ backlog' + accepted' <= MaxClients
    BY <1>a, <2>1, <2>2
  <2> QED
    BY <1>2, <1>a, <1>b, <1>c, <1>d, <1>e, <1>f, <2>3, PoolApart
    DEF LoopMainReactor, ServerTypeOK, acceptorVars
<1>3. CASE DeleteReactors
  <2>1. ServerTypeOK' /\ backlog' + accepted' <= MaxClients
    BY <1>3, <1>a, <1>c DEF DeleteReactors, ServerTypeOK
  <2> QED
    BY <1>b, <1>d, <1>e, <1>f, <2>1, PoolApart
<1>4. CASE ClientConnects
  <2>1. /\ backlog' = backlog + 1 /\ accepted' = accepted
        /\ backlog + accepted < MaxClients
    BY <1>4 DEF ClientConnects
  <2>2. /\ backlog' \in 0..MaxClients /\ accepted' \in 0..MaxClients
        /\ backlog' + accepted' <= MaxClients
    BY <1>a, <2>1
  <2> QED
    BY <1>4, <1>a, <1>b, <1>c, <1>d, <1>e, <1>f, <2>2, PoolApart
    DEF ClientConnects, ServerTypeOK, acceptorVars
<1> QED
  BY <1>1, <1>2, <1>3, <1>4

LEMMA SigintStep ==
    ASSUME IInv, Sigint
    PROVE  IInv'
<1> USE ThreadsAssumption, TasksAssumption, ServerAssumption
<1>a. /\ TypeOK /\ ServerTypeOK /\ OwnerPlaces /\ Owner \in Threads
      /\ backlog + accepted <= MaxClients
  BY DEF IInv, ServerTypeOK
<1>b. UNCHANGED <<subReactors, socket, channel, interest, backlog, accepted>>
  BY DEF Sigint, acceptorVars
<1>1. CASE main \in Constructing
  <2>1. main' = "killed" /\ UNCHANGED vars
    BY <1>1 DEF Sigint, Constructing
  <2>2. ServerTypeOK'
    BY <1>a, <1>b, <2>1, TypesApart DEF ServerTypeOK
  <2>3. OwnerPlaces' /\ ~Alive'
    BY <1>a, <2>1 DEF OwnerPlaces, Alive, Building, vars
  <2> QED
    BY <1>a, <1>b, <2>1, <2>2, <2>3, PoolApart
<1>2. CASE main \in {"start", "poll"}
  <2>1. /\ main' = "handler"
        /\ pc' = [pc EXCEPT ![Owner] = "deleting"]
        /\ UNCHANGED <<locked, tasks, isRunning, arg, current, future>>
    BY <1>2 DEF Sigint, Constructing
  <2>2. TypeOK'
    BY <1>a, <2>1 DEF TypeOK
  <2>3. pc'[Owner] = "deleting" /\ \A w \in Workers : pc'[w] = pc[w]
    BY <1>a, <2>1 DEF TypeOK
  <2>4. ServerTypeOK'
    BY <1>a, <1>b, <2>1, <2>2 DEF ServerTypeOK
  <2>5. isRunning
    BY <1>2, <1>a DEF OwnerPlaces
  <2>6. OwnerPlaces' /\ Submitting'
    BY <2>1, <2>3, <2>5 DEF OwnerPlaces, Submitting, Building
  <2>7. WorkerPlaces'
    BY <2>1, <2>3 DEF IInv, WorkerPlaces
  <2>8. Alive
    BY <1>2 DEF Alive
  <2>9. Loops'
    BY <1>b, <2>1, <2>8 DEF IInv, Loops
  <2> QED
    BY <1>a, <1>b, <2>4, <2>6, <2>7, <2>9 DEF IInv
<1> QED
  BY <1>1, <1>2 DEF Sigint

LEMMA StepHolds == IInv /\ [ServerNext]_allVars => IInv'
<1> SUFFICES ASSUME IInv, [ServerNext]_allVars PROVE IInv'
  OBVIOUS
<1>1. CASE UNCHANGED allVars
  <2>1. UNCHANGED vars /\ UNCHANGED serverVars
    BY <1>1 DEF allVars
  <2>2. UNCHANGED <<pc, isRunning, arg, tasks, current, future>>
    BY <2>1 DEF vars
  <2>3. TypeOK'
    BY <2>1, TypesApart DEF IInv, ServerTypeOK
  <2>4. OwnerPlaces' /\ Submitting' /\ WorkerPlaces'
    BY <2>1, <2>2 DEF IInv, OwnerPlaces, Submitting, WorkerPlaces, serverVars
  <2> QED
    BY <2>1, <2>2, <2>3, <2>4, SameServer, SameLoops DEF IInv
<1> QED
  BY <1>1, WorkerStep, NewServerStep, StartStep, DeletePoolStep, OtherStep,
     SigintStep
  DEF ServerNext, Main

-----------------------------------------------------------------------------

\* IInv holds in every reachable state: wherever SIGINT finds the main thread,
\* the mutex of the pool held or not.
THEOREM Invariance == ServerSpec => []IInv
BY InitHolds, StepHolds, PTL DEF ServerSpec

\* In every reachable state the variables of the server and of its pool have
\* their types.
THEOREM ServerTyped == ServerSpec => []ServerTypeOK
<1>1. IInv => ServerTypeOK
  BY DEF IInv
<1> QED
  BY <1>1, Invariance, PTL

\* A worker inside Eventloop::loop has its reactor for itself, and has it
\* until the worker is gone: the destructor of TcpServer, run by the handler
\* at any moment, never destroys the sub reactors under a thread that uses
\* one, since the destructor of the pool does not return before the threads.
THEOREM ReactorsOutliveLoops == ServerSpec => []ReactorOutlivesItsLoop
<1>1. IInv => ReactorOutlivesItsLoop
  BY DEF IInv, Loops, WorkerPlaces, ReactorOutlivesItsLoop
<1> QED
  BY <1>1, Invariance, PTL

-----------------------------------------------------------------------------
(* The pool under its real client still implements the abstract queue.     *)

\* Initially nothing is queued and nothing runs.
LEMMA ServerRefinesInit == ServerInit => Abstract!Init
BY RefinesInit DEF ServerInit

\* The steps of the server that move no task and do not stop the pool.
LEMMA ServerStutters ==
    ASSUME UNCHANGED <<tasks, current, future, isRunning>>
    PROVE  UNCHANGED Abstract!vars
<1>1. Running' = Running
  BY DEF Running
<1> QED
  BY <1>1 DEF Abstract!vars

\* addTask: the call that SIGINT abandons is never resumed, so no task is
\* accepted twice.
LEMMA ServerSubmits ==
    ASSUME IInv, Emplace(Owner)
    PROVE  Abstract!Next
<1>1. arg[Owner] \in Tasks /\ future[arg[Owner]] = "none"
  BY DEF Emplace, IInv, ServerTypeOK, Submitting
<1>2. Abstract!Submit(arg[Owner])
  BY <1>1 DEF Emplace, Abstract!Submit, Running
<1> QED
  BY <1>1, <1>2 DEF Abstract!Next

\* A worker takes the oldest loop, which no other runs.
LEMMA ServerStarts ==
    ASSUME IInv, NEW w \in Workers, Leave(w)
    PROVE  Abstract!Next
<1> USE ThreadsAssumption, TasksAssumption
<1>a. TypeOK
  BY DEF IInv, ServerTypeOK
<1>1. /\ isRunning /\ tasks # <<>>
      /\ pc[w] = "checking"
      /\ current' = [current EXCEPT ![w] = Head(tasks)]
      /\ tasks' = Tail(tasks)
      /\ UNCHANGED <<future, isRunning>>
  BY DEF Leave, Ready
<1>2. Head(tasks) \in Range(tasks) /\ Head(tasks) \in Tasks
  BY <1>a, <1>1, TailRange, HeadTailProperties DEF TypeOK, IInv, Loops
<1>3. Head(tasks) \notin Running
  BY <1>2 DEF IInv, Loops, Running
<1>4. current[w] = NoTask
  BY <1>1 DEF IInv, WorkerPlaces
<1>5. Running' = Running \cup {Head(tasks)}
  BY <1>a, <1>1, <1>2, <1>4 DEF TypeOK, Running
<1> QED
  BY <1>1, <1>3, <1>5 DEF Abstract!Next, Abstract!Start

\* The destructor, in the handler: it closes the pool once, and drops what is
\* queued when no loop runs any more.
LEMMA ServerCloses ==
    ASSUME IInv, Stop \/ Join
    PROVE  Abstract!Next
<1>1. CASE Stop
  <2>1. isRunning /\ ~isRunning' /\ UNCHANGED <<tasks, current, future>>
    BY <1>1 DEF Stop, IInv, OwnerPlaces
  <2>2. Running' = Running
    BY <2>1 DEF Running
  <2> QED
    BY <1>1, <2>1, <2>2 DEF Stop, Abstract!Next, Abstract!Close
<1>2. CASE Join
  <2>1. \A w \in Workers : current[w] = NoTask
    BY <1>2 DEF Join, IInv, WorkerPlaces
  <2>2. Running = {} /\ Running' = Running
    BY <1>2, <2>1 DEF Join, Running
  <2>3. ~isRunning
    BY <1>2 DEF Join, IInv, OwnerPlaces
  <2>4. Abstract!Range(tasks) = Range(tasks)
    BY DEF Abstract!Range, Range
  <2> QED
    BY <1>2, <2>2, <2>3, <2>4 DEF Join, Abstract!Next, Abstract!Drop
<1> QED
  BY <1>1, <1>2

\* A step of the server is one of the queue or none.
LEMMA ServerRefinesStep ==
    IInv /\ [ServerNext]_allVars => [Abstract!Next]_(Abstract!vars)
<1> SUFFICES ASSUME IInv, [ServerNext]_allVars
             PROVE  [Abstract!Next]_(Abstract!vars)
  OBVIOUS
<1>1. ASSUME NEW w \in Workers, Worker(w) \/ Spurious(w)
      PROVE  [Abstract!Next]_(Abstract!vars)
  <2>1. CASE Leave(w)
    BY <2>1, ServerStarts
  <2>2. CASE Spawn(w) \/ LockToCheck(w) \/ Block(w) \/ SpuriousWakeup(w)
    <3>1. UNCHANGED <<tasks, current, future, isRunning>>
      BY <2>2 DEF Spawn, LockToCheck, Block, SpuriousWakeup
    <3> QED
      BY <3>1, ServerStutters
  <2>3. ~ Return(w)
    BY ServerAssumption DEF Return, IInv, WorkerPlaces, ServerTypeOK, TypeOK
  <2> QED
    BY <1>1, <2>1, <2>2, <2>3 DEF Worker, Spurious, Work
<1>2. CASE StartSubReactor
  <2>1. CASE Emplace(Owner)
    BY <2>1, ServerSubmits
  <2>2. CASE (\E t \in subReactors : CallAddTask(Owner, t)) \/ LockToAdd(Owner)
             \/ NotifyOne(Owner)
    <3>1. UNCHANGED <<tasks, current, future, isRunning>>
      BY <2>2 DEF CallAddTask, LockToAdd, NotifyOne
    <3> QED
      BY <3>1, ServerStutters
  <2>3. ~ ThrowStopped(Owner)
    BY <1>2 DEF ThrowStopped, StartSubReactor, IInv, OwnerPlaces
  <2> QED
    BY <1>2, <2>1, <2>2, <2>3 DEF StartSubReactor, AddTask
<1>3. CASE DeletePool
  <2>1. CASE Stop \/ Join
    BY <2>1, ServerCloses
  <2>2. CASE LockToStop \/ NotifyAll
    <3>1. UNCHANGED <<tasks, current, future, isRunning>>
      BY <2>2 DEF LockToStop, NotifyAll
    <3> QED
      BY <3>1, ServerStutters
  <2> QED
    BY <1>3, <2>1, <2>2 DEF DeletePool, Destroy
<1>4. CASE \/ NewServer \/ InstallHandler \/ StartMainReactor \/ LoopMainReactor
           \/ DeleteReactors \/ ClientConnects \/ Sigint \/ UNCHANGED allVars
  <2>1. UNCHANGED <<tasks, current, future, isRunning>>
    BY <1>4 DEF NewServer, NewMainReactor, NewSocket, Bind, Listen, EnableReading,
                Construct, Constructed, NewSubReactor, ServerConstructed,
                InstallHandler, StartMainReactor, LoopMainReactor, DeleteReactors,
                ClientConnects, Sigint, allVars, vars
  <2> QED
    BY <2>1, ServerStutters
<1> QED
  BY <1>1, <1>2, <1>3, <1>4 DEF ServerNext, Main

\* Although a signal may abandon a call of addTask at any point, its mutex held,
\* the sub reactors' loops start in the order in which Start submitted them, at
\* most once each and only while the pool is open.
THEOREM ServerPoolIsTaskQueue == ServerSpec => ImplementsTaskQueue
BY ServerRefinesInit, ServerRefinesStep, InitHolds, StepHolds, PTL
DEF ServerSpec, ImplementsTaskQueue, Abstract!Spec

=============================================================================
