--------------------------- MODULE MCReactorClient --------------------------
(***************************************************************************)
(* Instances of the classes of the clients of demo_MainSubReactor for TLC: *)
(* a behaviour drives one Connection, or runs the threads of echo_client,  *)
(* and the other part stays as it began.                                   *)
(***************************************************************************)
EXTENDS Connection, EchoClient

CONSTANTS c1, c2, c3

MCClients == {c1, c2, c3}

VARIABLE part

mcVars == <<part, vars, connectionVars>>

\* The initial states of the other part are fixed, so as not to multiply them.
MCInit ==
    /\ part \in {"connection", "threads"}
    /\ Init
    /\ ConnectionInit /\ (part = "connection" \/ nonBlocking)

MCNext ==
    /\ part' = part
    /\ \/ part = "connection" /\ ConnectionNext /\ UNCHANGED vars
       \/ part = "threads" /\ Next /\ UNCHANGED connectionVars

MCSpec ==
    /\ MCInit /\ [][MCNext]_mcVars
    /\ WF_connectionVars(part = "connection" /\ Step)
    /\ \A c \in Clients : WF_vars(part = "threads" /\ OneClient(c))

\* Every thread of echo_client.cpp is through with OneClient (5-25), unless the
\* process ended before or the server keeps the thread waiting.
ThreadsEnd == part = "threads" => ClientsEnd

=============================================================================
