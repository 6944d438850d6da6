------------------------------ MODULE LRUCache ------------------------------
(***************************************************************************)
(* class LRUCache of coding/LRUCache.cc: a map from keys to nodes, and a   *)
(* circular list of the same nodes behind a dummy node, the most recent    *)
(* first.  A node is named by its key: there is never a second one.        *)
(***************************************************************************)
EXTENDS Integers, Sequences, FiniteSets

CONSTANTS
    Keys, Values,   \* arguments of get and put; a miss returns 0
    Dummy,          \* the dummy node
    Null,           \* nullptr
    Capacities,     \* arguments of the constructor
    SizeMod         \* 2^64: the values of a size_t

ASSUME CacheAssumption ==
    /\ IsFiniteSet(Keys)
    /\ Dummy \notin Keys /\ Null \notin Keys /\ Dummy # Null
    /\ Values \subseteq Int
    /\ Capacities \subseteq Int
    /\ SizeMod \in Nat \ {0} /\ Cardinality(Keys) < SizeMod

Nodes == Keys \cup {Dummy}

VARIABLES
    cache,      \* "new", "built", or "crashed" in the constructor
    capacity,   \* the member of the same name
    mp,         \* the keys of mp; mp[k] is the node k
    next, pre,  \* the links of the nodes
    val,        \* node->value
    last        \* the last call, and what it returned

links == <<next, pre>>
cacheVars == <<cache, capacity, mp, links, val, last>>

CacheTypeOK ==
    /\ cache \in {"new", "built", "crashed"}
    /\ capacity \in Capacities
    /\ mp \subseteq Keys
    /\ next \in [Nodes -> Nodes \cup {Null}]
    /\ pre \in [Nodes -> Nodes \cup {Null}]
    /\ val \in [Keys -> Int]
    /\ cache = "built" => {next[Dummy], pre[Dummy]} \subseteq Nodes
    /\ last \in {<<"none">>} \cup ({"get", "put"} \X Keys \X Int)

CacheInit ==
    /\ cache = "new"
    /\ capacity \in Capacities
    /\ mp = {}
    /\ next = [n \in Nodes |-> Null] /\ pre = [n \in Nodes |-> Null]
    /\ val = [k \in Keys |-> 0]
    /\ last = <<"none">>

\* Mutant: only one link of dummy is set.
Construct_HalfLinked ==
    /\ cache = "new"
    /\ \/ /\ cache' = "built"
          /\ next' = [next EXCEPT ![Dummy] = Dummy] /\ pre' = pre
       \/ cache' = "crashed" /\ UNCHANGED links
    /\ UNCHANGED <<capacity, mp, val, last>>

\* The constructor writes through dummy, to which nothing has given a node:
\* it crashes, or some memory serves as one.
Construct ==
    /\ cache = "new"
    /\ \/ /\ cache' = "built"
          /\ next' = [next EXCEPT ![Dummy] = Dummy]
          /\ pre' = [pre EXCEPT ![Dummy] = Dummy]
       \/ cache' = "crashed" /\ UNCHANGED links
    /\ UNCHANGED <<capacity, mp, val, last>>

-----------------------------------------------------------------------------
(* The private functions, on a pair l of links.                            *)

\* Mutant: the links of LRU.cc's remove_node, which skip one node too many.
remove_SkipsOne(n, l) ==
    [next |-> [l.next EXCEPT ![l.pre[n]] = l.next[l.next[n]]],
     pre  |-> [l.pre EXCEPT ![l.next[n]] = l.pre[n]]]

remove(n, l) ==
    [next |-> [l.next EXCEPT ![l.pre[n]] = l.next[n]],
     pre  |-> [l.pre EXCEPT ![l.next[n]] = l.pre[n]]]

push_front(n, l) ==
    [next |-> [l.next EXCEPT ![n] = l.next[Dummy], ![Dummy] = n],
     pre  |-> [l.pre EXCEPT ![l.next[Dummy]] = n, ![n] = Dummy]]

Links == [next |-> next, pre |-> pre]

SetLinks(l) == next' = l.next /\ pre' = l.pre

\* Mutant: a key that is found stays where it is.
get_node_InPlace(k) ==
    SetLinks(Links)

\* get_node, for a key that mp holds.
get_node(k) ==
    SetLinks(push_front(k, remove(k, Links)))

\* The comparison mp.size() > capacity converts capacity to size_t.
TooMany(keys) == Cardinality(keys) > capacity % SizeMod

Victim(l) == l.pre[Dummy]

-----------------------------------------------------------------------------

get(k) ==
    /\ cache = "built"
    /\ IF k \in mp
       THEN get_node(k) /\ last' = <<"get", k, val[k]>>
       ELSE UNCHANGED links /\ last' = <<"get", k, 0>>
    /\ UNCHANGED <<cache, capacity, mp, val>>

put(k, v) ==
    /\ cache = "built"
    /\ val' = [val EXCEPT ![k] = v]
    /\ IF k \in mp
       THEN get_node(k) /\ mp' = mp
       ELSE LET added == push_front(k, Links)
                keys == mp \cup {k}
                tmp == Victim(added)
            IN  IF TooMany(keys)
                THEN SetLinks(remove(tmp, added)) /\ mp' = keys \ {tmp}
                ELSE SetLinks(added) /\ mp' = keys
    /\ last' = <<"put", k, v>>
    /\ UNCHANGED <<cache, capacity>>

CacheNext == Construct \/ \E k \in Keys : get(k) \/ \E v \in Values : put(k, v)

CacheSpec == CacheInit /\ [][CacheNext]_cacheVars

-----------------------------------------------------------------------------
(* Properties.                                                             *)

\* List and map stay in step through any sequence of calls: the nodes of the
\* map and dummy are linked among themselves, in both directions alike, and no
\* link leads to a deleted node.
ListMatchesMap ==
    cache = "built" =>
        \A n \in mp \cup {Dummy} :
            /\ {next[n], pre[n]} \subseteq mp \cup {Dummy}
            /\ pre[next[n]] = n /\ next[pre[n]] = n

\* put evicts in time: the cache never holds more keys than the capacity as
\* an unsigned number, which for a negative capacity is no limit.
WithinCapacity == Cardinality(mp) <= capacity % SizeMod

\* The keys in the order of the list.
ListOrder ==
    LET at[i \in 0..Cardinality(mp)] == IF i = 0 THEN Dummy ELSE next[at[i - 1]]
    IN  [i \in 1..Cardinality(mp) |-> at[i]]

Recency == INSTANCE RecencyCache WITH
    bound <- capacity % SizeMod,
    recency <- ListOrder,
    value <- [k \in mp |-> val[k]]

\* The list is the order of use, get returns what was put last, and what is
\* evicted is the least recently used: LRUCache implements RecencyCache.
ImplementsRecency == Recency!Spec

=============================================================================
