------------------------------ MODULE ForkServer ------------------------------
(***************************************************************************)
(* The processes of network/demo/test_server.cpp: a parent that accepts    *)
(* clients and forks a child for each, signals that arrive anywhere, and   *)
(* the descriptors that a fork duplicates.  What a child says to its       *)
(* client is the subject of FileTransfer.                                  *)
(*                                                                         *)
(* A process has the server object of its own copy (listen_fd, client_fd)  *)
(* and descriptors in the kernel (held); a connection ends for the client  *)
(* when no process holds it any more.                                      *)
(***************************************************************************)
EXTENDS Naturals, Sequences

CONSTANTS
    Parent,     \* the process that main() starts in
    Children,   \* bound: the children alive at one time
    Clients,    \* the clients, and the sockets connected to them
    Listener,   \* the listening socket
    None        \* -1

Processes == {Parent} \cup Children
Signals == {"SIGTERM", "SIGINT"}

ASSUME ForkAssumption ==
    /\ Parent \notin Children
    /\ Listener \notin Clients
    /\ None \notin Clients \cup {Listener}

VARIABLES
    arrived,    \* the clients that have connected
    backlog,    \* those that wait for accept
    pc,         \* where each process is
    handler,    \* the disposition of the two signals; the others are ignored
    pending,    \* signals that a process has not seen yet
    listen_fd,  \* member of TcpServer
    client_fd,  \* member of TcpServer
    held        \* the sockets that a process has a descriptor of

clientVars == <<arrived, backlog>>
signalVars == <<handler, pending>>
fdVars == <<listen_fd, client_fd, held>>
vars == <<clientVars, pc, signalVars, fdVars>>

Leaving == {"FathEXIT", "ChldEXIT", "exit", "gone"}
ParentPlaces == {"init", "accept", "fork", "closeClient", "FathEXIT", "exit",
                 "gone"}
ChildPlaces == {"closeListen", "setTerm", "setInt", "serve"} \cup Leaving

Alive(p) == pc[p] # "gone"

TypeOK ==
    /\ arrived \subseteq Clients
    /\ backlog \in Seq(Clients)
    /\ pc \in [Processes -> ParentPlaces \cup ChildPlaces]
    /\ pc[Parent] \in ParentPlaces
    /\ \A p \in Children : pc[p] \in ChildPlaces
    /\ handler \in [Processes -> [Signals -> {"FathEXIT", "ChldEXIT", "ignored"}]]
    /\ pending \in [Processes -> SUBSET Signals]
    /\ listen_fd \in [Processes -> {Listener, None}]
    /\ client_fd \in [Processes -> Clients \cup {None}]
    /\ held \in [Processes -> SUBSET (Clients \cup {Listener})]

\* After the parent has set up its signals.
Init ==
    /\ arrived = {}
    /\ backlog = <<>>
    /\ pc = [p \in Processes |-> IF p = Parent THEN "init" ELSE "gone"]
    /\ handler = [p \in Processes |-> [s \in Signals |-> "FathEXIT"]]
    /\ pending = [p \in Processes |-> {}]
    /\ listen_fd = [p \in Processes |-> None]
    /\ client_fd = [p \in Processes |-> None]
    /\ held = [p \in Processes |-> {}]

-----------------------------------------------------------------------------
(* The environment.                                                        *)

\* The kernel completes the connection while somebody holds the listener.
Arrive(c) ==
    /\ \E p \in Processes : Listener \in held[p]
    /\ c \notin arrived
    /\ arrived' = arrived \cup {c}
    /\ backlog' = Append(backlog, c)
    /\ UNCHANGED <<pc, signalVars, fdVars>>

\* Somebody sends a signal to one process.  Ctrl-C sends SIGINT to each.
Signal(p, s) ==
    /\ Alive(p)
    /\ handler[p][s] # "ignored"
    /\ pending' = [pending EXCEPT ![p] = @ \cup {s}]
    /\ UNCHANGED <<clientVars, pc, handler, fdVars>>

-----------------------------------------------------------------------------
(* Signals.                                                                *)

\* A handler begins with ignoring both signals.  Until both are, the other
\* one could only start it again.
Deliver(p) ==
    /\ Alive(p)
    /\ \E s \in pending[p] : pc' = [pc EXCEPT ![p] = handler[p][s]]
    /\ handler' = [handler EXCEPT ![p] = [s \in Signals |-> "ignored"]]
    /\ pending' = [pending EXCEPT ![p] = {}]
    /\ UNCHANGED <<clientVars, fdVars>>

\* Mutant: the handler forgets the children.
KillGroup_ParentOnly(p) ==
    /\ pc[p] = "FathEXIT"
    /\ pc' = [pc EXCEPT ![p] = "exit"]
    /\ UNCHANGED <<clientVars, signalVars, fdVars>>

\* kill(0, SIGTERM): every process of the group that does not ignore it.
KillGroup(p) ==
    /\ pc[p] = "FathEXIT"
    /\ pc' = [pc EXCEPT ![p] = "exit"]
    /\ pending' = [q \in Processes |->
                     IF Alive(q) /\ handler[q]["SIGTERM"] # "ignored"
                     THEN pending[q] \cup {"SIGTERM"} ELSE pending[q]]
    /\ UNCHANGED <<clientVars, handler, fdVars>>

\* server::close_client.
ClosesClient(p) ==
    /\ client_fd' = [client_fd EXCEPT ![p] = None]
    /\ held' = [held EXCEPT ![p] = @ \ {client_fd[p]}]
    /\ UNCHANGED listen_fd

\* server::close_listen.
ClosesListen(p) ==
    /\ listen_fd' = [listen_fd EXCEPT ![p] = None]
    /\ held' = [held EXCEPT ![p] = @ \ {listen_fd[p]}]
    /\ UNCHANGED client_fd

ChldEXIT(p) ==
    /\ pc[p] = "ChldEXIT"
    /\ ClosesClient(p)
    /\ pc' = [pc EXCEPT ![p] = "exit"]
    /\ UNCHANGED <<clientVars, signalVars>>

\* exit, or the end of main: ~server closes, and the kernel what is left.
Exit(p) ==
    /\ pc[p] = "exit"
    /\ pc' = [pc EXCEPT ![p] = "gone"]
    /\ pending' = [pending EXCEPT ![p] = {}]
    /\ listen_fd' = [listen_fd EXCEPT ![p] = None]
    /\ client_fd' = [client_fd EXCEPT ![p] = None]
    /\ held' = [held EXCEPT ![p] = {}]
    /\ UNCHANGED <<clientVars, handler>>

-----------------------------------------------------------------------------
(* The parent.                                                             *)

\* server::init_server: socket, bind and listen.
InitServer ==
    /\ pc[Parent] = "init"
    /\ listen_fd' = [listen_fd EXCEPT ![Parent] = Listener]
    /\ held' = [held EXCEPT ![Parent] = @ \cup {Listener}]
    /\ pc' = [pc EXCEPT ![Parent] = "accept"]
    /\ UNCHANGED <<clientVars, signalVars, client_fd>>

\* One of the three calls fails: the socket is closed again, main returns.
InitFails ==
    /\ pc[Parent] = "init"
    /\ pc' = [pc EXCEPT ![Parent] = "exit"]
    /\ UNCHANGED <<clientVars, signalVars, fdVars>>

Accept ==
    /\ pc[Parent] = "accept"
    /\ listen_fd[Parent] = Listener
    /\ backlog # <<>>
    /\ backlog' = Tail(backlog)
    /\ client_fd' = [client_fd EXCEPT ![Parent] = Head(backlog)]
    /\ held' = [held EXCEPT ![Parent] = @ \cup {Head(backlog)}]
    /\ pc' = [pc EXCEPT ![Parent] = "fork"]
    /\ UNCHANGED <<arrived, signalVars, listen_fd>>

\* accept returns -1: out of descriptors, an aborted connection, listen_fd =
\* -1.  accept_client overwrites listen_fd and returns true all the same.
AcceptFails ==
    /\ pc[Parent] = "accept"
    /\ client_fd' = [client_fd EXCEPT ![Parent] = None]
    /\ listen_fd' = [listen_fd EXCEPT ![Parent] = None]
    /\ pc' = [pc EXCEPT ![Parent] = "fork"]
    /\ UNCHANGED <<clientVars, signalVars, held>>

Gone == {p \in Children : pc[p] = "gone"}

\* The child is a copy, its pending signals apart.
Fork ==
    /\ pc[Parent] = "fork"
    /\ \E p \in Gone :
          /\ pc' = [pc EXCEPT ![Parent] = "closeClient", ![p] = "closeListen"]
          /\ handler' = [handler EXCEPT ![p] = handler[Parent]]
          /\ pending' = [pending EXCEPT ![p] = {}]
          /\ listen_fd' = [listen_fd EXCEPT ![p] = listen_fd[Parent]]
          /\ client_fd' = [client_fd EXCEPT ![p] = client_fd[Parent]]
          /\ held' = [held EXCEPT ![p] = held[Parent]]
    /\ UNCHANGED clientVars

\* fork returns -1, and the parent returns from main.
ForkFails ==
    /\ pc[Parent] = "fork"
    /\ pc' = [pc EXCEPT ![Parent] = "exit"]
    /\ UNCHANGED <<clientVars, signalVars, fdVars>>

\* Mutant: the parent keeps the connection.
CloseClient_Kept ==
    /\ pc[Parent] = "closeClient"
    /\ pc' = [pc EXCEPT ![Parent] = "accept"]
    /\ UNCHANGED <<clientVars, signalVars, fdVars>>

CloseClient ==
    /\ pc[Parent] = "closeClient"
    /\ ClosesClient(Parent)
    /\ pc' = [pc EXCEPT ![Parent] = "accept"]
    /\ UNCHANGED <<clientVars, signalVars>>

-----------------------------------------------------------------------------
(* A child.                                                                *)

CloseListen(p) ==
    /\ pc[p] = "closeListen"
    /\ ClosesListen(p)
    /\ pc' = [pc EXCEPT ![p] = "setTerm"]
    /\ UNCHANGED <<clientVars, signalVars>>

\* Mutant: the child ignores SIGTERM.
SetTerm_Ignored(p) ==
    /\ pc[p] = "setTerm"
    /\ handler' = [handler EXCEPT ![p]["SIGTERM"] = "ignored"]
    /\ pending' = [pending EXCEPT ![p] = @ \ {"SIGTERM"}]
    /\ pc' = [pc EXCEPT ![p] = "setInt"]
    /\ UNCHANGED <<clientVars, fdVars>>

SetTerm(p) ==
    /\ pc[p] = "setTerm"
    /\ handler' = [handler EXCEPT ![p]["SIGTERM"] = "ChldEXIT"]
    /\ pc' = [pc EXCEPT ![p] = "setInt"]
    /\ UNCHANGED <<clientVars, pending, fdVars>>

SetInt(p) ==
    /\ pc[p] = "setInt"
    /\ handler' = [handler EXCEPT ![p]["SIGINT"] = "ChldEXIT"]
    /\ pc' = [pc EXCEPT ![p] = "serve"]
    /\ UNCHANGED <<clientVars, pending, fdVars>>

\* The child returns from main, after the transfer or any error.
Served(p) ==
    /\ pc[p] = "serve"
    /\ pc' = [pc EXCEPT ![p] = "exit"]
    /\ UNCHANGED <<clientVars, signalVars, fdVars>>

-----------------------------------------------------------------------------

ParentStep == \/ InitServer \/ InitFails \/ Accept \/ AcceptFails \/ Fork
              \/ ForkFails \/ CloseClient

\* What a process does without waiting for anybody.
Runs(p) ==
    \/ Deliver(p)
    \/ KillGroup(p)
    \/ ChldEXIT(p)
    \/ Exit(p)
    \/ CloseListen(p)
    \/ SetTerm(p)
    \/ SetInt(p)

Next ==
    \/ ParentStep
    \/ \E p \in Processes : Runs(p)
    \/ \E p \in Children : Served(p)
    \/ \E p \in Processes, s \in Signals : Signal(p, s)
    \/ \E c \in Clients : Arrive(c)

\* Processes run; accept, fork and the transfer may take for ever.
Spec == Init /\ [][Next]_vars /\ \A p \in Processes : WF_vars(Runs(p))

-----------------------------------------------------------------------------
(* Properties.                                                             *)

\* A connection is held by the child that serves it and by nobody else, but
\* for the parent between accept and close_client: when the child ends, or is
\* killed, its client sees the end.  A child that serves has let go of the
\* listening socket.
NoStrayDescriptor ==
    /\ \A p \in Processes : held[p] \ {Listener} = {client_fd[p]} \ {None}
    /\ pc[Parent] \in {"init", "accept"} => client_fd[Parent] = None
    /\ \A p, q \in Children :
          p # q /\ client_fd[p] = client_fd[q] => client_fd[p] = None
    /\ \A p \in Children :
          pc[p] = "serve" /\ client_fd[p] # None => Listener \notin held[p]

\* The parent's handler has been through kill.
StoppedBySignal ==
    pc[Parent] \in {"exit", "gone"} /\ handler[Parent]["SIGTERM"] = "ignored"

\* When the parent ends by a signal, every child is on its way out or has a
\* SIGTERM coming: none was forked too late, none has thrown the signal away.
NoChildLeftBehind ==
    StoppedBySignal =>
        \A p \in Children : pc[p] \in Leaving \/ "SIGTERM" \in pending[p]

\* No child survives a parent that ended by a signal.
ChildrenEnd == StoppedBySignal ~> \A p \in Children : pc[p] = "gone"

=============================================================================
