------------------------------ MODULE TaskQueue ------------------------------
(***************************************************************************)
(* What class Threadpool promises to its callers, without threads, lock    *)
(* or condition variable: tasks leave the queue in the order they entered  *)
(* it, each runs at most once and only while the pool is open, a task      *)
(* offered to a closed pool is refused, and what is still queued when the  *)
(* pool object goes away is dropped.                                       *)
(***************************************************************************)
EXTENDS Sequences, Functions

CONSTANT Tasks

VARIABLES
    queue,      \* the tasks accepted and not started, oldest first
    running,    \* the tasks being executed
    future,     \* what the std::future of each task tells its caller
    open        \* whether the pool accepts and starts tasks

vars == <<queue, running, future, open>>

Init ==
    /\ queue = <<>>
    /\ running = {}
    /\ future = [t \in Tasks |-> "none"]
    /\ open = TRUE

Submit(t) ==
    /\ open
    /\ future[t] = "none"
    /\ queue' = Append(queue, t)
    /\ future' = [future EXCEPT ![t] = "pending"]
    /\ UNCHANGED <<running, open>>

Refuse(t) ==
    /\ ~open
    /\ future[t] = "none"
    /\ future' = [future EXCEPT ![t] = "refused"]
    /\ UNCHANGED <<queue, running, open>>

Start ==
    /\ open
    /\ queue # <<>>
    /\ Head(queue) \notin running
    /\ running' = running \cup {Head(queue)}
    /\ queue' = Tail(queue)
    /\ UNCHANGED <<future, open>>

Finish(t) ==
    /\ t \in running
    /\ future[t] = "pending"
    /\ running' = running \ {t}
    /\ future' = [future EXCEPT ![t] = "ready"]
    /\ UNCHANGED <<queue, open>>

Close ==
    /\ open
    /\ open' = FALSE
    /\ UNCHANGED <<queue, running, future>>

Drop ==
    /\ ~open
    /\ running = {}
    /\ future' = [t \in Tasks |->
                    IF t \in Range(queue) THEN "broken" ELSE future[t]]
    /\ queue' = <<>>
    /\ UNCHANGED <<running, open>>

Next ==
    \/ \E t \in Tasks : Submit(t) \/ Refuse(t) \/ Finish(t)
    \/ Start
    \/ Close
    \/ Drop

Spec == Init /\ [][Next]_vars

=============================================================================
