---------------------------- MODULE MCFileServer ----------------------------
(***************************************************************************)
(* Instances of the two halves of the file server for TLC: a behaviour     *)
(* runs the processes of ForkServer or one transfer of FileTransfer, and   *)
(* the other half stays as it began.                                       *)
(***************************************************************************)
EXTENDS ForkServer, FileTransfer

CONSTANTS p1, p2, c1, c2

MCChildren == {p1, p2}
MCClients == {c1, c2}

VARIABLE half

mcVars == <<half, vars, transferVars>>

\* The initial states of the other half are fixed, so as not to multiply them.
MCInit ==
    /\ half \in {"processes", "transfer"}
    /\ Init
    /\ TransferInit /\ (half = "transfer" \/ (size = 0 /\ delivery = "whole"))

MCNext ==
    /\ half' = half
    /\ \/ half = "processes" /\ Next /\ UNCHANGED transferVars
       \/ half = "transfer" /\ TransferNext /\ UNCHANGED vars

MCSpec ==
    /\ MCInit /\ [][MCNext]_mcVars
    /\ \A p \in Processes : WF_vars(half = "processes" /\ Runs(p))
    /\ WF_transferVars(half = "transfer" /\ Client)
    /\ WF_transferVars(half = "transfer" /\ ChildMustMove)

\* Neither side of a transfer waits for the other for ever, whatever recv
\* returns to recv_file (server.cpp:89-104) and whoever dies.
TransferEnds == half = "transfer" => BothSidesEnd

=============================================================================
