---------------------------- MODULE RecencyCache ----------------------------
(***************************************************************************)
(* What a least-recently-used cache promises: get and put make a key the   *)
(* most recent, and when there are too many keys the least recent goes.    *)
(***************************************************************************)
EXTENDS Integers, Sequences, SequencesExt

CONSTANTS Keys, Values

VARIABLES
    bound,      \* how many keys the cache may hold
    recency,    \* the keys held, the most recent first
    value,      \* value[k], for the keys held
    last        \* the last call, and what it returned

Init ==
    /\ bound \in Nat
    /\ recency = <<>> /\ value = [k \in {} |-> 0] /\ last = <<"none">>

\* The keys of s with k moved, or added, to the front.
MovedUp(k, s) ==
    <<k>> \o (IF k \in ToSet(s) THEN RemoveAt(s, CHOOSE m \in 1..Len(s) : s[m] = k) ELSE s)

Get(k) ==
    /\ IF k \in ToSet(recency)
       THEN recency' = MovedUp(k, recency) /\ last' = <<"get", k, value[k]>>
       ELSE recency' = recency /\ last' = <<"get", k, 0>>
    /\ UNCHANGED <<bound, value>>

Put(k, v) ==
    /\ LET all == MovedUp(k, recency)
       IN  recency' = IF Len(all) > bound /\ k \notin ToSet(recency)
                      THEN SubSeq(all, 1, Len(all) - 1)
                      ELSE all
    /\ value' = [x \in ToSet(recency') |-> IF x = k THEN v ELSE value[x]]
    /\ last' = <<"put", k, v>>
    /\ UNCHANGED bound

Next == \E k \in Keys : Get(k) \/ \E v \in Values : Put(k, v)

Spec == Init /\ [][Next]_<<bound, recency, value, last>>

=============================================================================
