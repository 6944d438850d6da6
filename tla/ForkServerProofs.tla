--------------------------- MODULE ForkServerProofs ---------------------------
(***************************************************************************)
(* Theorems about ForkServer, for any number of children and clients.      *)
(***************************************************************************)
EXTENDS ForkServer, TLAPS

-----------------------------------------------------------------------------
(* The parts of the inductive invariant that are not properties.           *)

\* Nothing is pending that is ignored, the parent never has the handler of a
\* child, and only a process on its way out ignores the signals.
Dispositions ==
    /\ \A p \in Processes, s \in Signals :
          handler[p][s] = "ignored" => s \notin pending[p] /\ pc[p] \in Leaving
    /\ \A s \in Signals : handler[Parent][s] # "ChldEXIT"

\* A client is new until it is accepted.
NewClients ==
    /\ \A k \in 1..Len(backlog) : backlog[k] \in arrived
    /\ \A j, k \in 1..Len(backlog) : backlog[j] = backlog[k] => j = k
    /\ \A p \in Processes : client_fd[p] \in arrived \cup {None}
    /\ \A p \in Processes, k \in 1..Len(backlog) : client_fd[p] # backlog[k]

\* Between accept and fork nobody else has the client.
ForkIsNext ==
    pc[Parent] = "fork" /\ client_fd[Parent] # None =>
        /\ listen_fd[Parent] = Listener
        /\ \A p \in Children : client_fd[p] # client_fd[Parent]

\* A child that has a client lets go of the listening socket first.
ListenerFirst ==
    \A p \in Children : client_fd[p] # None =>
        /\ pc[p] = "closeListen" => listen_fd[p] = Listener
        /\ pc[p] \in {"setTerm", "setInt"} => Listener \notin held[p]

Descriptors == NewClients /\ ForkIsNext /\ ListenerFirst /\ NoStrayDescriptor

IInv == TypeOK /\ Dispositions /\ Descriptors /\ NoChildLeftBehind

-----------------------------------------------------------------------------

LEMMA InitHolds == Init => IInv
<1> SUFFICES ASSUME Init PROVE IInv
  OBVIOUS
<1> USE ForkAssumption DEF Init
<1>1. TypeOK
  BY DEF TypeOK, Processes, Signals, ParentPlaces, ChildPlaces, Leaving
<1>2. Dispositions /\ NoChildLeftBehind
  BY DEF Dispositions, NoChildLeftBehind, StoppedBySignal, Processes
<1>3. NewClients /\ ForkIsNext /\ ListenerFirst
  BY DEF NewClients, ForkIsNext, ListenerFirst, Processes
<1>4. NoStrayDescriptor
  BY DEF NoStrayDescriptor, Processes
<1>5. QED
  BY <1>1, <1>2, <1>3, <1>4 DEF IInv, Descriptors

-----------------------------------------------------------------------------
(* Types and dispositions.                                                 *)

LEMMA TypedStep == TypeOK /\ Dispositions /\ [Next]_vars => TypeOK'
<1> SUFFICES ASSUME TypeOK, Dispositions, [Next]_vars PROVE TypeOK'
  OBVIOUS
<1> USE ForkAssumption
<1>a. Parent \in Processes /\ Children \subseteq Processes
  BY DEF Processes
<1>1. CASE ParentStep
  <2>1. CASE Accept
    <3>1. Head(backlog) \in Clients /\ backlog' \in Seq(Clients)
      BY <2>1 DEF Accept, TypeOK
    <3>2. QED
      BY <1>a, <2>1, <3>1 DEF Accept, TypeOK, signalVars, ParentPlaces
  <2>2. CASE AcceptFails
    BY <1>a, <2>2 DEF AcceptFails, TypeOK, clientVars, signalVars, ParentPlaces
  <2>3. CASE Fork
    <3>1. PICK p \in Gone :
            /\ pc' = [pc EXCEPT ![Parent] = "closeClient", ![p] = "closeListen"]
            /\ handler' = [handler EXCEPT ![p] = handler[Parent]]
            /\ pending' = [pending EXCEPT ![p] = {}]
            /\ listen_fd' = [listen_fd EXCEPT ![p] = listen_fd[Parent]]
            /\ client_fd' = [client_fd EXCEPT ![p] = client_fd[Parent]]
            /\ held' = [held EXCEPT ![p] = held[Parent]]
      BY <2>3 DEF Fork
    <3>2. p \in Children /\ p # Parent
      BY DEF Gone
    <3>3. /\ pc' \in [Processes -> ParentPlaces \cup ChildPlaces]
          /\ pc'[Parent] \in ParentPlaces
          /\ \A q \in Children : pc'[q] \in ChildPlaces
      BY <1>a, <3>1, <3>2 DEF TypeOK, ParentPlaces, ChildPlaces
    <3>4. QED
      BY <1>a, <2>3, <3>1, <3>2, <3>3 DEF Fork, TypeOK, clientVars
  <2>4. CASE ForkFails
    BY <1>a, <2>4
    DEF ForkFails, TypeOK, clientVars, signalVars, fdVars, ParentPlaces
  <2>5. CASE CloseClient
    BY <1>a, <2>5
    DEF CloseClient, ClosesClient, TypeOK, clientVars, signalVars, ParentPlaces
  <2>6. CASE InitServer \/ InitFails
    <3>1. /\ pc' \in [Processes -> ParentPlaces \cup ChildPlaces]
          /\ pc'[Parent] \in ParentPlaces
          /\ \A q \in Children : pc'[q] \in ChildPlaces
      BY <1>a, <2>6 DEF InitServer, InitFails, TypeOK, ParentPlaces
    <3>2. listen_fd' \in [Processes -> {Listener, None}]
      BY <1>a, <2>6 DEF InitServer, InitFails, TypeOK, fdVars
    <3>3. held' \in [Processes -> SUBSET (Clients \cup {Listener})]
      BY <1>a, <2>6 DEF InitServer, InitFails, TypeOK, fdVars
    <3>4. QED
      BY <2>6, <3>1, <3>2, <3>3
      DEF InitServer, InitFails, TypeOK, clientVars, signalVars, fdVars
  <2>7. QED
    BY <1>1, <2>1, <2>2, <2>3, <2>4, <2>5, <2>6 DEF ParentStep
<1>2. ASSUME NEW p \in Processes, Runs(p) PROVE TypeOK'
  <2>1. CASE Deliver(p)
    <3>1. PICK s \in pending[p] : pc' = [pc EXCEPT ![p] = handler[p][s]]
      BY <2>1 DEF Deliver
    <3>2. s \in Signals /\ handler[p][s] # "ignored"
      BY DEF TypeOK, Dispositions
    <3>3. handler[p][s] \in {"FathEXIT", "ChldEXIT"}
      BY <3>2 DEF TypeOK
    <3>4. p = Parent => handler[p][s] = "FathEXIT"
      BY <3>2, <3>3 DEF Dispositions
    <3>5. /\ pc' \in [Processes -> ParentPlaces \cup ChildPlaces]
          /\ pc'[Parent] \in ParentPlaces
          /\ \A q \in Children : pc'[q] \in ChildPlaces
      BY <1>a, <3>1, <3>3, <3>4 DEF TypeOK, ParentPlaces, ChildPlaces, Leaving
    <3>6. QED
      BY <2>1, <3>5 DEF Deliver, TypeOK, clientVars, fdVars
  <2>2. CASE KillGroup(p)
    <3>1. /\ pc' \in [Processes -> ParentPlaces \cup ChildPlaces]
          /\ pc'[Parent] \in ParentPlaces
          /\ \A q \in Children : pc'[q] \in ChildPlaces
      BY <1>a, <2>2 DEF KillGroup, TypeOK, ParentPlaces, ChildPlaces, Leaving
    <3>2. pending' \in [Processes -> SUBSET Signals]
      BY <2>2 DEF KillGroup, TypeOK, Signals
    <3>3. QED
      BY <2>2, <3>1, <3>2 DEF KillGroup, TypeOK, clientVars, fdVars
  <2>3. CASE ChldEXIT(p)
    BY <1>a, <2>3 DEF ChldEXIT, ClosesClient, TypeOK, clientVars, signalVars,
                      ParentPlaces, ChildPlaces, Leaving
  <2>4. CASE Exit(p)
    BY <1>a, <2>4 DEF Exit, TypeOK, clientVars, ParentPlaces, ChildPlaces, Leaving
  <2>5. CASE CloseListen(p)
    <3>1. p \in Children
      BY <2>5 DEF CloseListen, TypeOK, Processes, ParentPlaces
    <3>2. QED
      BY <1>a, <2>5, <3>1 DEF CloseListen, ClosesListen, TypeOK, clientVars,
                              signalVars, ChildPlaces
  <2>6. CASE SetTerm(p) \/ SetInt(p)
    <3>1. p \in Children
      BY <2>6 DEF SetTerm, SetInt, TypeOK, Processes, ParentPlaces
    <3>2. handler' \in [Processes -> [Signals -> {"FathEXIT", "ChldEXIT", "ignored"}]]
      BY <2>6 DEF SetTerm, SetInt, TypeOK, Signals
    <3>3. QED
      BY <1>a, <2>6, <3>1, <3>2 DEF SetTerm, SetInt, TypeOK, clientVars, fdVars,
                                    ChildPlaces
  <2>7. QED
    BY <1>2, <2>1, <2>2, <2>3, <2>4, <2>5, <2>6 DEF Runs
<1>3. ASSUME NEW p \in Children, Served(p) PROVE TypeOK'
  BY <1>a, <1>3 DEF Served, TypeOK, clientVars, signalVars, fdVars, ChildPlaces,
                    Leaving
<1>4. ASSUME NEW p \in Processes, NEW s \in Signals, Signal(p, s) PROVE TypeOK'
  BY <1>4 DEF Signal, TypeOK, clientVars, fdVars
<1>5. ASSUME NEW c \in Clients, Arrive(c) PROVE TypeOK'
  BY <1>5 DEF Arrive, TypeOK, signalVars, fdVars
<1>6. CASE UNCHANGED vars
  BY <1>6 DEF vars, TypeOK, clientVars, signalVars, fdVars
<1>7. QED
  BY <1>1, <1>2, <1>3, <1>4, <1>5, <1>6 DEF Next

LEMMA DispositionsStep ==
  TypeOK /\ Dispositions /\ [Next]_vars => Dispositions'
<1> SUFFICES ASSUME TypeOK, Dispositions, [Next]_vars PROVE Dispositions'
  OBVIOUS
<1> USE ForkAssumption
<1>a. Parent \in Processes /\ Children \subseteq Processes
  BY DEF Processes
<1>1. CASE ParentStep
  <2>1. CASE InitServer \/ InitFails \/ Accept \/ AcceptFails \/ ForkFails
             \/ CloseClient
    <3>1. UNCHANGED signalVars /\ pc[Parent] \notin Leaving
      BY <2>1 DEF InitServer, InitFails, Accept, AcceptFails, ForkFails,
                  CloseClient, Leaving
    <3>2. \A q \in Processes \ {Parent} : pc'[q] = pc[q]
      BY <2>1 DEF InitServer, InitFails, Accept, AcceptFails, ForkFails,
                  CloseClient, TypeOK
    <3>3. QED
      BY <3>1, <3>2, <1>a DEF Dispositions, signalVars
  <2>2. CASE Fork
    <3>1. PICK p \in Gone :
            /\ pc' = [pc EXCEPT ![Parent] = "closeClient", ![p] = "closeListen"]
            /\ handler' = [handler EXCEPT ![p] = handler[Parent]]
            /\ pending' = [pending EXCEPT ![p] = {}]
      BY <2>2 DEF Fork
    <3>2. p \in Children /\ p # Parent
      BY DEF Gone
    <3>3. \A s \in Signals : handler[Parent][s] # "ignored"
      BY <1>a, <2>2 DEF Fork, Dispositions, Leaving
    <3>4. \A q \in Processes : q # p =>
            /\ handler'[q] = handler[q] /\ pending'[q] = pending[q]
            /\ q # Parent => pc'[q] = pc[q]
      BY <3>1 DEF TypeOK
    <3>5. handler'[p] = handler[Parent]
      BY <1>a, <3>1, <3>2 DEF TypeOK
    <3>6. QED
      BY <1>a, <3>2, <3>3, <3>4, <3>5 DEF Dispositions
  <2>3. QED
    BY <1>1, <2>1, <2>2 DEF ParentStep
<1>2. ASSUME NEW p \in Processes, Runs(p) PROVE Dispositions'
  <2>1. CASE Deliver(p)
    <3>1. PICK s \in pending[p] : pc' = [pc EXCEPT ![p] = handler[p][s]]
      BY <2>1 DEF Deliver
    <3>2. s \in Signals /\ handler[p][s] \in {"FathEXIT", "ChldEXIT"}
      BY DEF TypeOK, Dispositions
    <3>3. pc'[p] \in Leaving /\ pending'[p] = {}
      BY <2>1, <3>1, <3>2 DEF Deliver, TypeOK, Leaving
    <3>4. \A q \in Processes : q # p =>
            pc'[q] = pc[q] /\ handler'[q] = handler[q] /\ pending'[q] = pending[q]
      BY <2>1, <3>1 DEF Deliver, TypeOK
    <3>5. \A t \in Signals : handler'[p][t] = "ignored"
      BY <2>1 DEF Deliver, TypeOK
    <3>6. QED
      BY <1>a, <3>3, <3>4, <3>5 DEF Dispositions
  <2>2. CASE KillGroup(p)
    <3>1. handler' = handler /\ pc'[p] \in Leaving
      BY <2>2 DEF KillGroup, TypeOK, Leaving
    <3>2. \A q \in Processes : q # p => pc'[q] = pc[q]
      BY <2>2 DEF KillGroup, TypeOK
    <3>3. ASSUME NEW q \in Processes, NEW t \in Signals, handler[q][t] = "ignored"
          PROVE  t \notin pending'[q]
      BY <2>2, <3>3 DEF KillGroup, Dispositions
    <3>4. QED
      BY <3>1, <3>2, <3>3 DEF Dispositions
  <2>3. CASE ChldEXIT(p)
    BY <2>3 DEF ChldEXIT, Dispositions, TypeOK, Leaving, signalVars
  <2>4. CASE Exit(p)
    BY <2>4 DEF Exit, Dispositions, TypeOK, Leaving
  <2>5. CASE CloseListen(p)
    BY <2>5 DEF CloseListen, Dispositions, TypeOK, Leaving, signalVars
  <2>6. CASE SetTerm(p) \/ SetInt(p)
    <3>1. p \in Children /\ p # Parent
      BY <2>6 DEF SetTerm, SetInt, TypeOK, Processes, ParentPlaces
    <3>2. pc[p] \notin Leaving /\ pending' = pending
      BY <2>6 DEF SetTerm, SetInt, Leaving
    <3>3. \A q \in Processes : q # p => pc'[q] = pc[q] /\ handler'[q] = handler[q]
      BY <2>6 DEF SetTerm, SetInt, TypeOK
    <3>4. \A t \in Signals : handler'[p][t] \in {handler[p][t], "ChldEXIT"}
      BY <2>6 DEF SetTerm, SetInt, TypeOK
    <3>5. QED
      BY <1>a, <3>1, <3>2, <3>3, <3>4 DEF Dispositions
  <2>7. QED
    BY <1>2, <2>1, <2>2, <2>3, <2>4, <2>5, <2>6 DEF Runs
<1>3. ASSUME NEW p \in Children, Served(p) PROVE Dispositions'
  BY <1>3 DEF Served, Dispositions, TypeOK, signalVars, Leaving
<1>4. ASSUME NEW p \in Processes, NEW s \in Signals, Signal(p, s)
      PROVE  Dispositions'
  BY <1>4 DEF Signal, Dispositions, TypeOK
<1>5. ASSUME NEW c \in Clients, Arrive(c) PROVE Dispositions'
  BY <1>5 DEF Arrive, Dispositions, signalVars
<1>6. CASE UNCHANGED vars
  BY <1>6 DEF vars, Dispositions, signalVars
<1>7. QED
  BY <1>1, <1>2, <1>3, <1>4, <1>5, <1>6 DEF Next

-----------------------------------------------------------------------------
(* Signals reach the children.                                             *)

LEMMA NoChildLeftBehindStep ==
  TypeOK /\ Dispositions /\ NoChildLeftBehind /\ [Next]_vars
    => NoChildLeftBehind'
<1> SUFFICES ASSUME TypeOK, Dispositions, NoChildLeftBehind, [Next]_vars,
                    StoppedBySignal', NEW q \in Children
             PROVE  pc'[q] \in Leaving \/ "SIGTERM" \in pending'[q]
  BY DEF NoChildLeftBehind
<1> USE ForkAssumption
<1>a. Parent \in Processes /\ q \in Processes /\ q # Parent
  BY DEF Processes
<1>b. "SIGTERM" \in Signals
  BY DEF Signals
<1>c. ASSUME UNCHANGED <<pc, signalVars>> PROVE pc'[q] \in Leaving \/ "SIGTERM" \in pending'[q]
  BY <1>c DEF NoChildLeftBehind, StoppedBySignal, signalVars
<1>1. CASE ParentStep
  <2>1. pc[Parent] \notin Leaving
    BY <1>1 DEF ParentStep, InitServer, InitFails, Accept, AcceptFails, Fork,
                ForkFails, CloseClient, Leaving
  <2>2. handler[Parent]["SIGTERM"] # "ignored"
    BY <1>a, <1>b, <2>1 DEF Dispositions
  <2>3. handler'[Parent] = handler[Parent]
    <3>1. CASE Fork
      BY <1>a, <3>1 DEF Fork, Gone, TypeOK
    <3>2. CASE ~Fork
      BY <1>1, <3>2 DEF ParentStep, InitServer, InitFails, Accept, AcceptFails,
                        ForkFails, CloseClient, signalVars
    <3>3. QED
      BY <3>1, <3>2
  <2>4. QED
    BY <2>2, <2>3 DEF StoppedBySignal
<1>2. ASSUME NEW p \in Processes, Runs(p)
      PROVE  pc'[q] \in Leaving \/ "SIGTERM" \in pending'[q]
  <2>1. CASE Deliver(p)
    <3>1. PICK s \in pending[p] : pc' = [pc EXCEPT ![p] = handler[p][s]]
      BY <2>1 DEF Deliver
    <3>2. s \in Signals /\ handler[p][s] \in {"FathEXIT", "ChldEXIT"}
      BY DEF TypeOK, Dispositions
    <3>3. pc'[p] \in {"FathEXIT", "ChldEXIT"}
      BY <3>1, <3>2 DEF TypeOK
    <3>4. p # Parent
      BY <3>3 DEF StoppedBySignal
    <3>5. StoppedBySignal
      BY <1>a, <2>1, <3>1, <3>4 DEF Deliver, StoppedBySignal, TypeOK
    <3>6. CASE p = q
      BY <3>3, <3>6 DEF Leaving
    <3>7. CASE p # q
      BY <1>a, <2>1, <3>1, <3>5, <3>7 DEF Deliver, NoChildLeftBehind, TypeOK
    <3>8. QED
      BY <3>6, <3>7
  <2>2. CASE KillGroup(p)
    <3>1. CASE Alive(q) /\ handler[q]["SIGTERM"] # "ignored"
      BY <1>a, <2>2, <3>1 DEF KillGroup
    <3>2. CASE ~Alive(q) \/ handler[q]["SIGTERM"] = "ignored"
      <4>1. pc[q] \in Leaving
        BY <1>a, <1>b, <3>2 DEF Alive, Dispositions, Leaving
      <4>2. QED
        BY <1>a, <2>2, <4>1 DEF KillGroup, TypeOK, Leaving
    <3>3. QED
      BY <3>1, <3>2
  <2>3. CASE ChldEXIT(p) \/ Exit(p)
    <3>1. handler' = handler /\ pc'[p] \in {"exit", "gone"}
      BY <2>3 DEF ChldEXIT, Exit, TypeOK, signalVars
    <3>2. \A r \in Processes \ {p} : pc'[r] = pc[r] /\ pending'[r] = pending[r]
      BY <2>3 DEF ChldEXIT, Exit, TypeOK, signalVars
    <3>3. p = Parent => pc[p] = "exit"
      BY <2>3 DEF ChldEXIT, Exit, TypeOK, ParentPlaces
    <3>4. StoppedBySignal
      BY <1>a, <3>1, <3>2, <3>3 DEF StoppedBySignal
    <3>5. QED
      BY <1>a, <3>1, <3>2, <3>4 DEF NoChildLeftBehind, Leaving
  <2>4. CASE CloseListen(p) \/ SetTerm(p) \/ SetInt(p)
    <3>1. p # Parent /\ pending' = pending /\ pc[p] \notin Leaving
      BY <2>4 DEF CloseListen, SetTerm, SetInt, TypeOK, ParentPlaces, signalVars,
                  Leaving
    <3>2. \A r \in Processes \ {p} : pc'[r] = pc[r] /\ handler'[r] = handler[r]
      BY <2>4 DEF CloseListen, SetTerm, SetInt, TypeOK, signalVars
    <3>3. StoppedBySignal
      BY <1>a, <3>1, <3>2 DEF StoppedBySignal
    <3>4. QED
      BY <1>a, <3>1, <3>2, <3>3 DEF NoChildLeftBehind
  <2>5. QED
    BY <1>2, <2>1, <2>2, <2>3, <2>4 DEF Runs
<1>3. ASSUME NEW p \in Children, Served(p)
      PROVE  pc'[q] \in Leaving \/ "SIGTERM" \in pending'[q]
  <2>1. StoppedBySignal
    BY <1>a, <1>3 DEF Served, StoppedBySignal, signalVars, TypeOK
  <2>2. QED
    BY <1>a, <1>3, <2>1 DEF Served, NoChildLeftBehind, signalVars, TypeOK, Leaving
<1>4. ASSUME NEW p \in Processes, NEW s \in Signals, Signal(p, s)
      PROVE  pc'[q] \in Leaving \/ "SIGTERM" \in pending'[q]
  BY <1>a, <1>4 DEF Signal, NoChildLeftBehind, StoppedBySignal, TypeOK
<1>5. ASSUME NEW c \in Clients, Arrive(c)
      PROVE  pc'[q] \in Leaving \/ "SIGTERM" \in pending'[q]
  BY <1>5, <1>c DEF Arrive
<1>6. CASE UNCHANGED vars
  BY <1>6, <1>c DEF vars
<1>7. QED
  BY <1>1, <1>2, <1>3, <1>4, <1>5, <1>6 DEF Next

-----------------------------------------------------------------------------
(* Descriptors.                                                            *)

\* Steps that only move a process.
LEMMA MovesOnly ==
  ASSUME TypeOK, Descriptors, UNCHANGED <<clientVars, fdVars>>,
         pc'[Parent] \in {pc[Parent]} \cup Leaving,
         \A q \in Children :
            \/ pc'[q] \in {pc[q]} \cup Leaving
            \/ pc[q] = "setTerm" /\ pc'[q] = "setInt"
            \/ pc[q] = "setInt" /\ pc'[q] = "serve"
  PROVE  Descriptors'
<1>1. NewClients'
  BY DEF Descriptors, NewClients, clientVars, fdVars
<1>2. ForkIsNext'
  BY DEF Descriptors, ForkIsNext, fdVars, Leaving
<1>3. ListenerFirst'
  BY DEF Descriptors, ListenerFirst, fdVars, Leaving
<1>4. NoStrayDescriptor'
  BY DEF Descriptors, NoStrayDescriptor, ListenerFirst, fdVars, Leaving
<1>5. QED
  BY <1>1, <1>2, <1>3, <1>4 DEF Descriptors

\* Steps after which p has no client.
LEMMA DropsClient ==
  ASSUME TypeOK, Descriptors, NEW p \in Processes, UNCHANGED clientVars,
         client_fd' = [client_fd EXCEPT ![p] = None],
         listen_fd' = [listen_fd EXCEPT ![p] = listen_fd'[p]],
         held' = [held EXCEPT ![p] = held'[p]],
         held'[p] \subseteq {Listener},
         \A q \in Processes : q # p => pc'[q] = pc[q],
         pc'[Parent] = "fork" => pc[Parent] = "fork"
  PROVE  Descriptors'
<1> USE ForkAssumption
<1>a. Parent \in Processes /\ Children \subseteq Processes
  BY DEF Processes
<1>1. /\ client_fd'[p] = None
      /\ \A q \in Processes : q # p =>
            /\ client_fd'[q] = client_fd[q]
            /\ listen_fd'[q] = listen_fd[q]
            /\ held'[q] = held[q]
  BY DEF TypeOK
<1>2. NewClients'
  <2>1. \A k \in 1..Len(backlog) : backlog[k] # None
    BY DEF TypeOK
  <2>2. QED
    BY <1>1, <2>1 DEF Descriptors, NewClients, clientVars
<1>3. ForkIsNext'
  <2>1. CASE p = Parent
    BY <1>1, <2>1 DEF ForkIsNext
  <2>2. CASE p # Parent
    BY <1>a, <1>1, <2>2 DEF Descriptors, ForkIsNext
  <2>3. QED
    BY <2>1, <2>2
<1>4. ListenerFirst'
  BY <1>a, <1>1 DEF Descriptors, ListenerFirst
<1>5. NoStrayDescriptor'
  <2>1. ASSUME NEW q \in Processes
        PROVE  held'[q] \ {Listener} = {client_fd'[q]} \ {None}
    BY <1>1 DEF Descriptors, NoStrayDescriptor
  <2>2. pc'[Parent] \in {"init", "accept"} => client_fd'[Parent] = None
    BY <1>a, <1>1 DEF Descriptors, NoStrayDescriptor
  <2>3. ASSUME NEW q \in Children, NEW r \in Children, q # r,
               client_fd'[q] = client_fd'[r]
        PROVE  client_fd'[q] = None
    BY <1>a, <1>1, <2>3 DEF Descriptors, NoStrayDescriptor
  <2>4. ASSUME NEW q \in Children, pc'[q] = "serve", client_fd'[q] # None
        PROVE  Listener \notin held'[q]
    BY <1>a, <1>1, <2>4 DEF Descriptors, NoStrayDescriptor
  <2>5. QED
    BY <2>1, <2>2, <2>3, <2>4 DEF NoStrayDescriptor
<1>6. QED
  BY <1>2, <1>3, <1>4, <1>5 DEF Descriptors

LEMMA AcceptKeeps == TypeOK /\ Descriptors /\ Accept => Descriptors'
<1> SUFFICES ASSUME TypeOK, Descriptors, Accept PROVE Descriptors'
  OBVIOUS
<1> USE ForkAssumption
<1> DEFINE c == Head(backlog)
<1>a. Parent \in Processes /\ Children \subseteq Processes /\ Parent \notin Children
  BY DEF Processes
<1>1. c = backlog[1] /\ 1 \in 1..Len(backlog) /\ c \in Clients /\ c # None
  BY DEF Accept, TypeOK
<1>2. /\ client_fd'[Parent] = c /\ pc'[Parent] = "fork"
      /\ held'[Parent] = held[Parent] \cup {c}
      /\ \A q \in Processes : q # Parent =>
            client_fd'[q] = client_fd[q] /\ held'[q] = held[q] /\ pc'[q] = pc[q]
  BY <1>a DEF Accept, TypeOK
<1>3. c \in arrived /\ \A q \in Processes : client_fd[q] # c
  BY <1>1 DEF Descriptors, NewClients
<1>4. NewClients'
  <2>1. /\ Len(backlog) \in Nat /\ Len(backlog') = Len(backlog) - 1
        /\ \A k \in 1..Len(backlog') : backlog'[k] = backlog[k + 1]
    BY DEF Accept, TypeOK
  <2>2. arrived' = arrived
    BY DEF Accept
  <2>3. \A k \in 1..Len(backlog') : backlog'[k] \in arrived
    BY <2>1 DEF Descriptors, NewClients
  <2>4. \A j, k \in 1..Len(backlog') : backlog'[j] = backlog'[k] => j = k
    BY <2>1 DEF Descriptors, NewClients
  <2>5. ASSUME NEW q \in Processes, NEW k \in 1..Len(backlog')
        PROVE  client_fd'[q] # backlog'[k]
    <3>1. backlog'[k] # c
      BY <1>1, <2>1 DEF Descriptors, NewClients
    <3>2. client_fd[q] # backlog'[k]
      BY <2>1 DEF Descriptors, NewClients
    <3>3. QED
      BY <1>2, <3>1, <3>2
  <2>6. \A q \in Processes : client_fd'[q] \in arrived \cup {None}
    BY <1>2, <1>3 DEF Descriptors, NewClients
  <2>7. QED
    BY <2>2, <2>3, <2>4, <2>5, <2>6 DEF NewClients
<1>5. ForkIsNext'
  BY <1>a, <1>2, <1>3 DEF Accept, ForkIsNext
<1>6. ListenerFirst'
  BY <1>a, <1>2 DEF Accept, Descriptors, ListenerFirst
<1>7. NoStrayDescriptor'
  <2>1. client_fd[Parent] = None
    BY DEF Accept, Descriptors, NoStrayDescriptor
  <2>2. held'[Parent] \ {Listener} = {c}
    BY <1>a, <1>1, <1>2, <2>1 DEF Descriptors, NoStrayDescriptor
  <2>3. QED
    BY <1>a, <1>1, <1>2, <2>2 DEF Descriptors, NoStrayDescriptor
<1>8. QED
  BY <1>4, <1>5, <1>6, <1>7 DEF Descriptors

LEMMA ForkKeeps == TypeOK /\ Descriptors /\ Fork => Descriptors'
<1> SUFFICES ASSUME TypeOK, Descriptors, Fork PROVE Descriptors'
  OBVIOUS
<1> USE ForkAssumption
<1>a. Parent \in Processes /\ Children \subseteq Processes /\ Parent \notin Children
  BY DEF Processes
<1>1. PICK p \in Gone :
        /\ pc' = [pc EXCEPT ![Parent] = "closeClient", ![p] = "closeListen"]
        /\ listen_fd' = [listen_fd EXCEPT ![p] = listen_fd[Parent]]
        /\ client_fd' = [client_fd EXCEPT ![p] = client_fd[Parent]]
        /\ held' = [held EXCEPT ![p] = held[Parent]]
  BY DEF Fork
<1>2. p \in Children /\ p \in Processes /\ p # Parent
  BY <1>a DEF Gone
<1>3. /\ pc'[Parent] = "closeClient" /\ pc'[p] = "closeListen"
      /\ listen_fd'[p] = listen_fd[Parent] /\ client_fd'[p] = client_fd[Parent]
      /\ held'[p] = held[Parent]
  BY <1>a, <1>1, <1>2 DEF TypeOK
<1>4. \A q \in Processes : q # p =>
        /\ listen_fd'[q] = listen_fd[q] /\ client_fd'[q] = client_fd[q]
        /\ held'[q] = held[q] /\ (q # Parent => pc'[q] = pc[q])
  BY <1>1 DEF TypeOK
<1>5. NewClients'
  BY <1>a, <1>3, <1>4 DEF Fork, Descriptors, NewClients, clientVars
<1>6. ForkIsNext'
  BY <1>3 DEF ForkIsNext
<1>7. ListenerFirst'
  <2>1. client_fd[Parent] # None => listen_fd[Parent] = Listener
    BY DEF Fork, Descriptors, ForkIsNext
  <2>2. QED
    BY <1>a, <1>2, <1>3, <1>4, <2>1 DEF Descriptors, ListenerFirst
<1>8. NoStrayDescriptor'
  <2>1. \A q \in Processes : held'[q] \ {Listener} = {client_fd'[q]} \ {None}
    BY <1>a, <1>3, <1>4 DEF Descriptors, NoStrayDescriptor
  <2>2. ASSUME NEW q \in Children, NEW r \in Children, q # r,
               client_fd'[q] = client_fd'[r]
        PROVE  client_fd'[q] = None
    <3>1. client_fd[Parent] # None =>
            \A t \in Children : client_fd[t] # client_fd[Parent]
      BY DEF Fork, Descriptors, ForkIsNext
    <3>2. CASE q = p \/ r = p
      BY <1>a, <1>3, <1>4, <2>2, <3>1, <3>2
    <3>3. CASE q # p /\ r # p
      BY <1>a, <1>4, <2>2, <3>3 DEF Descriptors, NoStrayDescriptor
    <3>4. QED
      BY <3>2, <3>3
  <2>3. ASSUME NEW q \in Children, pc'[q] = "serve", client_fd'[q] # None
        PROVE  Listener \notin held'[q]
    BY <1>a, <1>3, <1>4, <2>3 DEF Descriptors, NoStrayDescriptor
  <2>4. QED
    BY <1>3, <2>1, <2>2, <2>3 DEF NoStrayDescriptor
<1>9. QED
  BY <1>5, <1>6, <1>7, <1>8 DEF Descriptors

LEMMA CloseListenKeeps ==
  ASSUME TypeOK, Descriptors, NEW p \in Processes, CloseListen(p)
  PROVE  Descriptors'
<1> USE ForkAssumption
<1>a. Parent \in Processes /\ Children \subseteq Processes
  BY DEF Processes
<1>1. p \in Children /\ p # Parent
  BY DEF CloseListen, TypeOK, Processes, ParentPlaces
<1>2. /\ client_fd' = client_fd /\ UNCHANGED clientVars
      /\ pc[p] = "closeListen" /\ pc'[p] = "setTerm"
      /\ held'[p] = held[p] \ {listen_fd[p]}
      /\ \A q \in Processes : q # p =>
            listen_fd'[q] = listen_fd[q] /\ held'[q] = held[q] /\ pc'[q] = pc[q]
  BY DEF CloseListen, ClosesListen, TypeOK
<1>3. held'[p] \ {Listener} = held[p] \ {Listener}
  BY <1>2 DEF TypeOK
<1>4. NewClients'
  BY <1>2 DEF Descriptors, NewClients, clientVars
<1>5. ForkIsNext'
  BY <1>a, <1>1, <1>2 DEF Descriptors, ForkIsNext
<1>6. ListenerFirst'
  BY <1>a, <1>1, <1>2 DEF Descriptors, ListenerFirst
<1>7. NoStrayDescriptor'
  BY <1>a, <1>1, <1>2, <1>3 DEF Descriptors, NoStrayDescriptor
<1>8. QED
  BY <1>4, <1>5, <1>6, <1>7 DEF Descriptors

LEMMA DescriptorsStep ==
  TypeOK /\ Dispositions /\ Descriptors /\ [Next]_vars => Descriptors'
<1> SUFFICES ASSUME TypeOK, Dispositions, Descriptors, [Next]_vars
             PROVE  Descriptors'
  OBVIOUS
<1> USE ForkAssumption
<1>a. Parent \in Processes /\ Children \subseteq Processes /\ Parent \notin Children
  BY DEF Processes
<1>1. CASE ParentStep
  <2>1. CASE Accept
    BY <2>1, AcceptKeeps
  <2>2. CASE AcceptFails
    <3>1. held' = held /\ held[Parent] \subseteq {Listener}
      BY <1>a, <2>2 DEF AcceptFails, Descriptors, NoStrayDescriptor
    <3>2. /\ client_fd' = client_fd /\ UNCHANGED clientVars
          /\ pc'[Parent] = "fork" /\ client_fd[Parent] = None
          /\ \A q \in Processes : q # Parent =>
                listen_fd'[q] = listen_fd[q] /\ pc'[q] = pc[q]
      BY <1>a, <2>2 DEF AcceptFails, TypeOK, Descriptors, NoStrayDescriptor
    <3>3. NewClients' /\ ForkIsNext'
      BY <3>1, <3>2 DEF Descriptors, NewClients, ForkIsNext, clientVars
    <3>4. ListenerFirst' /\ NoStrayDescriptor'
      BY <1>a, <3>1, <3>2 DEF Descriptors, ListenerFirst, NoStrayDescriptor
    <3>5. QED
      BY <3>3, <3>4 DEF Descriptors
  <2>3. CASE Fork
    BY <2>3, ForkKeeps
  <2>4. CASE ForkFails
    <3>1. pc'[Parent] = "exit" /\ \A q \in Children : pc'[q] = pc[q]
      BY <1>a, <2>4 DEF ForkFails, TypeOK
    <3>2. QED
      BY <2>4, <3>1, MovesOnly DEF ForkFails, Leaving
  <2>5. CASE CloseClient
    <3>1. held[Parent] \ {client_fd[Parent]} \subseteq {Listener}
      BY <1>a DEF Descriptors, NoStrayDescriptor
    <3>2. /\ UNCHANGED clientVars
          /\ client_fd' = [client_fd EXCEPT ![Parent] = None]
          /\ listen_fd' = [listen_fd EXCEPT ![Parent] = listen_fd'[Parent]]
          /\ held' = [held EXCEPT ![Parent] = held'[Parent]]
          /\ held'[Parent] = held[Parent] \ {client_fd[Parent]}
          /\ pc'[Parent] = "accept"
          /\ \A q \in Processes : q # Parent => pc'[q] = pc[q]
      BY <1>a, <2>5 DEF CloseClient, ClosesClient, TypeOK
    <3>3. QED
      BY <1>a, <3>1, <3>2, DropsClient
  <2>6. CASE InitServer
    <3>1. client_fd[Parent] = None /\ held[Parent] \subseteq {Listener}
      BY <1>a, <2>6 DEF InitServer, Descriptors, NoStrayDescriptor
    <3>2. /\ UNCHANGED clientVars
          /\ client_fd' = [client_fd EXCEPT ![Parent] = None]
          /\ listen_fd' = [listen_fd EXCEPT ![Parent] = listen_fd'[Parent]]
          /\ held' = [held EXCEPT ![Parent] = held'[Parent]]
          /\ held'[Parent] = held[Parent] \cup {Listener}
          /\ pc'[Parent] = "accept"
          /\ \A q \in Processes : q # Parent => pc'[q] = pc[q]
      BY <1>a, <2>6, <3>1 DEF InitServer, TypeOK
    <3>3. QED
      BY <1>a, <3>1, <3>2, DropsClient
  <2>7. CASE InitFails
    <3>1. pc'[Parent] = "exit" /\ \A q \in Children : pc'[q] = pc[q]
      BY <1>a, <2>7 DEF InitFails, TypeOK
    <3>2. QED
      BY <2>7, <3>1, MovesOnly DEF InitFails, Leaving
  <2>8. QED
    BY <1>1, <2>1, <2>2, <2>3, <2>4, <2>5, <2>6, <2>7 DEF ParentStep
<1>2. ASSUME NEW p \in Processes, Runs(p) PROVE Descriptors'
  <2>1. CASE Deliver(p)
    <3>1. PICK s \in pending[p] : pc' = [pc EXCEPT ![p] = handler[p][s]]
      BY <2>1 DEF Deliver
    <3>2. handler[p][s] \in {"FathEXIT", "ChldEXIT"}
      BY DEF TypeOK, Dispositions
    <3>3. \A q \in Processes : pc'[q] \in {pc[q]} \cup Leaving
      BY <3>1, <3>2 DEF TypeOK, Leaving
    <3>4. QED
      BY <1>a, <2>1, <3>3, MovesOnly DEF Deliver
  <2>2. CASE KillGroup(p)
    <3>1. \A q \in Processes : pc'[q] \in {pc[q]} \cup Leaving
      BY <2>2 DEF KillGroup, TypeOK, Leaving
    <3>2. QED
      BY <1>a, <2>2, <3>1, MovesOnly DEF KillGroup
  <2>3. CASE ChldEXIT(p)
    <3>1. held[p] \ {client_fd[p]} \subseteq {Listener}
      BY DEF Descriptors, NoStrayDescriptor
    <3>2. /\ UNCHANGED clientVars
          /\ client_fd' = [client_fd EXCEPT ![p] = None]
          /\ listen_fd' = [listen_fd EXCEPT ![p] = listen_fd'[p]]
          /\ held' = [held EXCEPT ![p] = held'[p]]
          /\ held'[p] = held[p] \ {client_fd[p]}
          /\ pc'[p] = "exit"
          /\ \A q \in Processes : q # p => pc'[q] = pc[q]
      BY <2>3 DEF ChldEXIT, ClosesClient, TypeOK
    <3>3. QED
      BY <1>a, <3>1, <3>2, DropsClient
  <2>4. CASE Exit(p)
    <3>1. /\ UNCHANGED clientVars
          /\ client_fd' = [client_fd EXCEPT ![p] = None]
          /\ listen_fd' = [listen_fd EXCEPT ![p] = listen_fd'[p]]
          /\ held' = [held EXCEPT ![p] = held'[p]]
          /\ held'[p] = {}
          /\ pc'[p] = "gone"
          /\ \A q \in Processes : q # p => pc'[q] = pc[q]
      BY <2>4 DEF Exit, TypeOK
    <3>2. QED
      BY <1>a, <3>1, DropsClient
  <2>5. CASE CloseListen(p)
    BY <2>5, CloseListenKeeps
  <2>6. CASE SetTerm(p) \/ SetInt(p)
    <3>1. p # Parent
      BY <2>6 DEF SetTerm, SetInt, TypeOK, ParentPlaces
    <3>2. /\ \A q \in Processes : q # p => pc'[q] = pc[q]
          /\ \/ pc[p] = "setTerm" /\ pc'[p] = "setInt"
             \/ pc[p] = "setInt" /\ pc'[p] = "serve"
      BY <2>6 DEF SetTerm, SetInt, TypeOK
    <3>3. UNCHANGED <<clientVars, fdVars>>
      BY <2>6 DEF SetTerm, SetInt
    <3>4. QED
      BY <1>a, <3>1, <3>2, <3>3, MovesOnly
  <2>7. QED
    BY <1>2, <2>1, <2>2, <2>3, <2>4, <2>5, <2>6 DEF Runs
<1>3. ASSUME NEW p \in Children, Served(p) PROVE Descriptors'
  <2>1. \A q \in Processes : pc'[q] \in {pc[q]} \cup Leaving
    BY <1>3 DEF Served, TypeOK, Leaving
  <2>2. QED
    BY <1>a, <1>3, <2>1, MovesOnly DEF Served
<1>4. ASSUME NEW p \in Processes, NEW s \in Signals, Signal(p, s)
      PROVE  Descriptors'
  BY <1>4, MovesOnly DEF Signal
<1>5. ASSUME NEW c \in Clients, Arrive(c) PROVE Descriptors'
  <2>1. UNCHANGED <<pc, fdVars>>
    BY <1>5 DEF Arrive
  <2>2. ForkIsNext' /\ ListenerFirst' /\ NoStrayDescriptor'
    BY <2>1 DEF Descriptors, ForkIsNext, ListenerFirst, NoStrayDescriptor, fdVars
  <2>3. /\ c \notin arrived /\ arrived' = arrived \cup {c} /\ c # None
        /\ Len(backlog) \in Nat /\ Len(backlog') = Len(backlog) + 1
        /\ backlog'[Len(backlog) + 1] = c
        /\ \A k \in 1..Len(backlog) : backlog'[k] = backlog[k]
    BY <1>5 DEF Arrive, TypeOK
  <2>4. \A k \in 1..Len(backlog') : k \in 1..Len(backlog) \/ k = Len(backlog) + 1
    BY <2>3
  <2>5. \A k \in 1..Len(backlog) : backlog[k] # c
    BY <2>3 DEF Descriptors, NewClients
  <2>6. \A k \in 1..Len(backlog') : backlog'[k] \in arrived'
    BY <2>3, <2>4 DEF Descriptors, NewClients
  <2>7. ASSUME NEW j \in 1..Len(backlog'), NEW k \in 1..Len(backlog'),
               backlog'[j] = backlog'[k]
        PROVE  j = k
    BY <2>3, <2>4, <2>5, <2>7 DEF Descriptors, NewClients
  <2>8. ASSUME NEW q \in Processes
        PROVE  /\ client_fd'[q] \in arrived' \cup {None}
               /\ \A k \in 1..Len(backlog') : client_fd'[q] # backlog'[k]
    <3>1. client_fd'[q] = client_fd[q] /\ client_fd[q] \in arrived \cup {None}
      BY <2>1 DEF Descriptors, NewClients, fdVars
    <3>2. client_fd[q] # c
      BY <2>3, <3>1
    <3>3. QED
      BY <2>3, <2>4, <3>1, <3>2 DEF Descriptors, NewClients
  <2>9. QED
    BY <2>2, <2>6, <2>7, <2>8 DEF Descriptors, NewClients
<1>6. CASE UNCHANGED vars
  BY <1>6, MovesOnly DEF vars
<1>7. QED
  BY <1>1, <1>2, <1>3, <1>4, <1>5, <1>6 DEF Next

-----------------------------------------------------------------------------
(* Theorems.                                                               *)

\* The inductive invariant holds always: whichever process a signal finds,
\* wherever it is between fork and exit.
THEOREM Invariant == Spec => []IInv
<1>1. IInv /\ [Next]_vars => IInv'
  BY TypedStep, DispositionsStep, DescriptorsStep, NoChildLeftBehindStep DEF IInv
<1>2. QED
  BY InitHolds, <1>1, PTL DEF Spec

\* The variables keep their types: a signal never takes the parent to a place
\* of a child, nor a child to one of the parent.
THEOREM TypesHold == Spec => []TypeOK
<1>1. IInv => TypeOK
  BY DEF IInv
<1>2. QED
  BY Invariant, <1>1, PTL

\* However many children there are, each connection is held by one child,
\* and by the parent only until close_client.
THEOREM NoDescriptorStrays == Spec => []NoStrayDescriptor
<1>1. IInv => NoStrayDescriptor
  BY DEF IInv, Descriptors
<1>2. QED
  BY Invariant, <1>1, PTL

\* However many children there are, and wherever they are between fork and
\* exit, the signal of the parent's handler finds each of them.
THEOREM SignalFindsChildren == Spec => []NoChildLeftBehind
<1>1. IInv => NoChildLeftBehind
  BY DEF IInv
<1>2. QED
  BY Invariant, <1>1, PTL

=============================================================================
