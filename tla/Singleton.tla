----------------------------- MODULE Singleton ------------------------------
(***************************************************************************)
(* class Singleton of design_model/singleton.cc: threads that call         *)
(* getInstance, which tests the pointer before and after it takes mtx_,    *)
(* one step per access to the pointer or the mutex.  Nothing in the class  *)
(* protects destroyInstance: its caller is taken to wait until no call of  *)
(* getInstance is running, and what was returned before is then void.      *)
(***************************************************************************)
EXTENDS Integers, FiniteSets

CONSTANTS
    Threads,    \* the callers
    Addresses,  \* where new may put the object
    NoAddress,  \* nullptr
    NoThread    \* nobody holds mtx_

ASSUME SingletonAssumption ==
    NoAddress \notin Addresses /\ NoThread \notin Threads

VARIABLES
    instance,   \* the static member
    live,       \* the objects constructed and not deleted
    mtx_,       \* who holds it
    at,         \* at[t]: where thread t is in getInstance
    got         \* got[t]: what the last call of t returned

singletonVars == <<instance, live, mtx_, at, got>>

SingletonTypeOK ==
    /\ instance \in Addresses \cup {NoAddress}
    /\ live \subseteq Addresses
    /\ mtx_ \in Threads \cup {NoThread}
    /\ at \in [Threads -> {"idle", "lock", "test", "new", "unlock", "return"}]
    /\ got \in [Threads -> Addresses \cup {NoAddress}]

SingletonInit ==
    /\ instance = NoAddress /\ live = {}
    /\ mtx_ = NoThread
    /\ at = [t \in Threads |-> "idle"]
    /\ got = [t \in Threads |-> NoAddress]

GoTo(t, place) == at' = [at EXCEPT ![t] = place]

\* The first test, without the mutex.
FirstTest(t) ==
    /\ at[t] = "idle"
    /\ GoTo(t, IF instance = NoAddress THEN "lock" ELSE "return")
    /\ UNCHANGED <<instance, live, mtx_, got>>

LockMtx(t) ==
    /\ at[t] = "lock" /\ mtx_ = NoThread
    /\ mtx_' = t
    /\ GoTo(t, "test")
    /\ UNCHANGED <<instance, live, got>>

\* Mutant: the pointer is not tested again.
SecondTest_Skipped(t) ==
    /\ at[t] = "test"
    /\ GoTo(t, "new")
    /\ UNCHANGED <<instance, live, mtx_, got>>

SecondTest(t) ==
    /\ at[t] = "test"
    /\ GoTo(t, IF instance = NoAddress THEN "new" ELSE "unlock")
    /\ UNCHANGED <<instance, live, mtx_, got>>

NewInstance(t) ==
    /\ at[t] = "new"
    /\ \E a \in Addresses \ live : instance' = a /\ live' = live \cup {a}
    /\ GoTo(t, "unlock")
    /\ UNCHANGED <<mtx_, got>>

UnlockMtx(t) ==
    /\ at[t] = "unlock"
    /\ mtx_' = NoThread
    /\ GoTo(t, "return")
    /\ UNCHANGED <<instance, live, got>>

ReturnInstance(t) ==
    /\ at[t] = "return"
    /\ got' = [got EXCEPT ![t] = instance]
    /\ GoTo(t, "idle")
    /\ UNCHANGED <<instance, live, mtx_>>

getInstance(t) == \/ FirstTest(t) \/ LockMtx(t) \/ SecondTest(t)
                  \/ NewInstance(t) \/ UnlockMtx(t) \/ ReturnInstance(t)

destroyInstance ==
    /\ \A t \in Threads : at[t] = "idle"
    /\ live' = live \ {instance}
    /\ instance' = NoAddress
    /\ got' = [t \in Threads |-> NoAddress]
    /\ UNCHANGED <<mtx_, at>>

SingletonNext == destroyInstance \/ \E t \in Threads : getInstance(t)

SingletonSpec == SingletonInit /\ [][SingletonNext]_singletonVars

-----------------------------------------------------------------------------
(* Properties.                                                             *)

\* However the first calls of getInstance interleave, there is one object at
\* most, and it is the one that instance points to and that every caller was
\* given, never a null pointer, until it is destroyed.
OneInstance ==
    /\ live = {instance} \ {NoAddress}
    /\ \A t \in Threads : /\ got[t] \in {instance, NoAddress}
                          /\ at[t] = "return" => instance # NoAddress

=============================================================================
