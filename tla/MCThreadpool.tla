---------------------------- MODULE MCThreadpool ----------------------------
(***************************************************************************)
(* Instances of Threadpool for TLC.                                        *)
(***************************************************************************)
EXTENDS Threadpool, TLC

CONSTANTS w1, w2, w3, t1, t2, t3, t4

MCWorkers == {w1, w2, w3}

MCTasks == {t1, t2, t3, t4}

\* t3 is submitted by t1 from inside the pool, the others by the owner.
MCParent == [t \in {t1, t2, t3, t4} |-> IF t = t3 THEN t1 ELSE NoTask]

MCEndless == {t4}

\* The pool of echo_client.cpp: tasks that return, none submits another.
MCClientTasks == {t1, t2}

MCClientParent == [t \in {t1, t2} |-> NoTask]

=============================================================================
