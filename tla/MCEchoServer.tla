---------------------------- MODULE MCEchoServer ----------------------------
(***************************************************************************)
(* Instances of EchoServer for TLC: up to three sub reactors.              *)
(***************************************************************************)
EXTENDS EchoServer, TLC

CONSTANTS w1, w2, w3, r1, r2, r3

MCWorkers == {w1, w2, w3}

MCReactors == {r1, r2, r3}

MCParent == [t \in {r1, r2, r3} |-> NoTask]

=============================================================================
