---------------------------- MODULE MCSelectServer ----------------------------
(* Instances of SelectServer for TLC. *)
EXTENDS SelectServer

CONSTANTS c1, c2, c3

MCClients == {c1, c2, c3}

=============================================================================
