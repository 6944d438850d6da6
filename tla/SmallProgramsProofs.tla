------------------------ MODULE SmallProgramsProofs -------------------------
(***************************************************************************)
(* Theorems about the classes and programs that stand alone: LRUCache, for *)
(* every finite set of keys and every capacity, Singleton and Logger, for  *)
(* any number of threads, quick_sort, for every length, and Timer.         *)
(***************************************************************************)
EXTENDS MCPrograms, SocketProofs

-----------------------------------------------------------------------------
(* LRUCache: the list and the map stay in step and the cache stays within  *)
(* its capacity.                                                           *)

\* l links the nodes of S among themselves, in both directions alike.
Linked(S, l) ==
    \A m \in S : /\ l.next[m] \in S /\ l.pre[m] \in S
                 /\ l.pre[l.next[m]] = m /\ l.next[l.pre[m]] = m

LinkType == [next : [Nodes -> Nodes \cup {Null}], pre : [Nodes -> Nodes \cup {Null}]]

\* Taking a node out leaves the others linked.
LEMMA RemoveLinks ==
  ASSUME NEW S \in SUBSET Nodes, NEW l \in LinkType, NEW n \in S, Linked(S, l)
  PROVE  remove(n, l) \in LinkType /\ Linked(S \ {n}, remove(n, l))
<1> DEFINE r == remove(n, l)
           p == l.pre[n]
           q == l.next[n]
<1>1. p \in S /\ q \in S /\ l.next[p] = n /\ l.pre[q] = n
  BY DEF Linked
<1>2. r \in LinkType
  BY <1>1 DEF remove, LinkType
<1>3. \A m \in S : /\ r.next[m] = IF m = p THEN q ELSE l.next[m]
                   /\ r.pre[m] = IF m = q THEN p ELSE l.pre[m]
  BY <1>1 DEF remove, LinkType
<1> HIDE DEF r
<1>4. ASSUME NEW m \in S \ {n}
      PROVE  /\ r.next[m] \in S \ {n} /\ r.pre[m] \in S \ {n}
             /\ r.pre[r.next[m]] = m /\ r.next[r.pre[m]] = m
  <2>1. CASE m = p
    BY <1>1, <1>3, <2>1 DEF Linked
  <2>2. CASE m # p
    BY <1>1, <1>3, <2>2 DEF Linked
  <2>3. QED
    BY <2>1, <2>2
<1>5. Linked(S \ {n}, r)
  BY <1>4 DEF Linked
<1>6. QED
  BY <1>2, <1>5 DEF r

\* Putting a node behind dummy links it with the others, as the first.
LEMMA PushLinks ==
  ASSUME NEW S \in SUBSET Nodes, NEW l \in LinkType, Dummy \in S,
         NEW n \in Nodes \ S, Linked(S, l)
  PROVE  /\ push_front(n, l) \in LinkType
         /\ Linked(S \cup {n}, push_front(n, l))
         /\ push_front(n, l).next[Dummy] = n
<1> DEFINE r == push_front(n, l)
           q == l.next[Dummy]
<1>1. q \in S /\ l.pre[q] = Dummy /\ n # Dummy /\ n # q /\ Dummy \in Nodes
  BY DEF Linked, Nodes
<1>2. r \in LinkType
  BY <1>1 DEF push_front, LinkType
<1>3. \A m \in S \cup {n} :
         /\ r.next[m] = IF m = Dummy THEN n ELSE IF m = n THEN q ELSE l.next[m]
         /\ r.pre[m] = IF m = n THEN Dummy ELSE IF m = q THEN n ELSE l.pre[m]
  BY <1>1 DEF push_front, LinkType
<1> HIDE DEF r
<1>4. ASSUME NEW m \in S \cup {n}
      PROVE  /\ r.next[m] \in S \cup {n} /\ r.pre[m] \in S \cup {n}
             /\ r.pre[r.next[m]] = m /\ r.next[r.pre[m]] = m
  <2>1. CASE m = n
    BY <1>1, <1>3, <2>1 DEF Linked
  <2>2. CASE m = Dummy
    BY <1>1, <1>3, <2>2 DEF Linked
  <2>3. CASE m \in S \ {Dummy}
    BY <1>1, <1>3, <2>3 DEF Linked
  <2>4. QED
    BY <2>1, <2>2, <2>3
<1>5. Linked(S \cup {n}, r) /\ r.next[Dummy] = n
  BY <1>1, <1>3, <1>4 DEF Linked
<1>6. QED
  BY <1>2, <1>5 DEF r

CacheInv == CacheTypeOK /\ ListMatchesMap /\ WithinCapacity

\* What the list lemmas need of a state, and what they give back.
LEMMA LinksFacts ==
  ASSUME CacheInv
  PROVE  /\ Links \in LinkType
         /\ cache = "built" => Linked(mp \cup {Dummy}, Links)
         /\ mp \cup {Dummy} \subseteq Nodes
         /\ IsFiniteSet(mp) /\ Cardinality(mp) \in Nat
<1>1. mp \subseteq Keys
  BY DEF CacheInv, CacheTypeOK
<1>2. IsFiniteSet(mp) /\ Cardinality(mp) \in Nat
  BY <1>1, CacheAssumption, FS_Subset, FS_CardinalityType
<1>3. QED
  BY <1>1, <1>2 DEF CacheInv, CacheTypeOK, ListMatchesMap, Linked, Links, LinkType, Nodes

\* Links that connect the new map and dummy restore both parts about the list.
LEMMA ListRestored ==
  ASSUME NEW l \in LinkType, SetLinks(l), Linked(mp' \cup {Dummy}, l),
         mp' \subseteq Keys
  PROVE  /\ next' \in [Nodes -> Nodes \cup {Null}]
         /\ pre' \in [Nodes -> Nodes \cup {Null}]
         /\ ListMatchesMap'
         /\ {next'[Dummy], pre'[Dummy]} \subseteq Nodes
<1>1. /\ next' \in [Nodes -> Nodes \cup {Null}]
      /\ pre' \in [Nodes -> Nodes \cup {Null}]
  BY DEF SetLinks, LinkType
<1>2. \A n \in mp' \cup {Dummy} :
         /\ {next'[n], pre'[n]} \subseteq mp' \cup {Dummy}
         /\ pre'[next'[n]] = n /\ next'[pre'[n]] = n
  BY DEF SetLinks, Linked
<1>3. {next'[Dummy], pre'[Dummy]} \subseteq Nodes
  BY <1>2 DEF Nodes
<1>4. QED
  BY <1>1, <1>2, <1>3 DEF ListMatchesMap

\* A key that is found moves to the front; the map stays.
LEMMA FoundKeepsInv ==
  ASSUME CacheInv, cache = "built", NEW k \in mp, get_node(k),
         UNCHANGED <<cache, capacity, mp>>, val' \in [Keys -> Int],
         last' \in {"get", "put"} \X Keys \X Int
  PROVE  CacheInv'
<1> DEFINE S == mp \cup {Dummy}
           r == remove(k, Links)
           l == push_front(k, r)
<1>1. k \in Keys /\ k # Dummy /\ S \in SUBSET Nodes /\ k \in S /\ k \in Nodes
  BY CacheAssumption DEF CacheInv, CacheTypeOK, Nodes
<1>2. Links \in LinkType /\ Linked(S, Links)
  BY LinksFacts
<1>3. r \in LinkType /\ Linked(S \ {k}, r)
  BY <1>1, <1>2, RemoveLinks
<1>4. S \ {k} \in SUBSET Nodes /\ Dummy \in S \ {k} /\ k \in Nodes \ (S \ {k})
      /\ (S \ {k}) \cup {k} = S
  BY <1>1
<1>5. l \in LinkType /\ Linked(S, l)
  <2> HIDE DEF r
  <2>1. QED
    BY <1>3, <1>4, PushLinks
<1>6. SetLinks(l) /\ mp' = mp /\ mp' \subseteq Keys
  BY DEF get_node, CacheInv, CacheTypeOK
<1>7. /\ next' \in [Nodes -> Nodes \cup {Null}]
      /\ pre' \in [Nodes -> Nodes \cup {Null}]
      /\ ListMatchesMap' /\ {next'[Dummy], pre'[Dummy]} \subseteq Nodes
  <2> HIDE DEF l
  <2>1. QED
    BY <1>5, <1>6, ListRestored
<1>8. CacheTypeOK' /\ WithinCapacity'
  BY <1>7 DEF CacheInv, CacheTypeOK, WithinCapacity
<1>9. QED
  BY <1>7, <1>8 DEF CacheInv

\* get.
LEMMA GetKeepsInv ==
  ASSUME CacheInv, NEW k \in Keys, get(k)
  PROVE  CacheInv'
<1>1. CASE k \in mp
  <2>1. val[k] \in Int
    BY DEF CacheInv, CacheTypeOK
  <2>2. QED
    BY <1>1, <2>1, FoundKeepsInv DEF get, CacheInv, CacheTypeOK
<1>2. CASE k \notin mp
  BY <1>2 DEF get, links, CacheInv, CacheTypeOK, ListMatchesMap, WithinCapacity
<1>3. QED
  BY <1>1, <1>2

\* put of a new key: at most one eviction, of a node other than dummy.
LEMMA InsertKeepsInv ==
  ASSUME CacheInv, NEW k \in Keys, NEW v \in Values, put(k, v), k \notin mp
  PROVE  CacheInv'
<1> DEFINE S == mp \cup {Dummy}
           added == push_front(k, Links)
           keys == mp \cup {k}
           tmp == Victim(added)
<1>1. /\ S \in SUBSET Nodes /\ Dummy \in S /\ k \in Nodes \ S
      /\ S \cup {k} = keys \cup {Dummy} /\ keys \subseteq Keys /\ cache = "built"
  BY CacheAssumption DEF CacheInv, CacheTypeOK, Nodes, put
<1>2. Links \in LinkType /\ Linked(S, Links)
  BY <1>1, LinksFacts
<1>3. added \in LinkType /\ Linked(keys \cup {Dummy}, added) /\ added.next[Dummy] = k
  BY <1>1, <1>2, PushLinks
<1>4. IsFiniteSet(keys) /\ Cardinality(keys) = Cardinality(mp) + 1
      /\ Cardinality(mp) \in Nat /\ Cardinality(keys) \in Nat
  BY LinksFacts, FS_AddElement
<1>5. /\ val' \in [Keys -> Int] /\ last' \in {"get", "put"} \X Keys \X Int
      /\ UNCHANGED <<cache, capacity>>
  BY CacheAssumption DEF put, CacheInv, CacheTypeOK
<1>6. capacity % SizeMod \in Nat /\ Cardinality(mp) <= capacity % SizeMod
  BY CacheAssumption DEF CacheInv, CacheTypeOK, WithinCapacity
<1>7. CASE TooMany(keys)
  <2>1. tmp \in keys /\ added.next[tmp] = Dummy
    <3>1. tmp \in keys \cup {Dummy} /\ added.next[tmp] = Dummy
      BY <1>3 DEF Linked, Victim
    <3>2. k # Dummy
      BY CacheAssumption
    <3>3. QED
      BY <1>3, <3>1, <3>2
  <2>2. SetLinks(remove(tmp, added)) /\ mp' = keys \ {tmp}
    BY <1>7 DEF put
  <2>3. keys \cup {Dummy} \in SUBSET Nodes /\ tmp \in keys \cup {Dummy} /\ tmp # Dummy
    BY <1>1, <2>1, CacheAssumption
  <2>4. /\ remove(tmp, added) \in LinkType
        /\ Linked((keys \cup {Dummy}) \ {tmp}, remove(tmp, added))
    <3> HIDE DEF added, tmp
    <3>1. QED
      BY <1>3, <2>3, RemoveLinks
  <2>5. (keys \cup {Dummy}) \ {tmp} = mp' \cup {Dummy} /\ mp' \subseteq Keys
    BY <1>1, <2>2, <2>3
  <2>6. /\ next' \in [Nodes -> Nodes \cup {Null}]
        /\ pre' \in [Nodes -> Nodes \cup {Null}]
        /\ ListMatchesMap' /\ {next'[Dummy], pre'[Dummy]} \subseteq Nodes
    <3>1. Linked(mp' \cup {Dummy}, remove(tmp, added))
      BY <2>4, <2>5
    <3> HIDE DEF added, tmp
    <3>2. QED
      BY <2>2, <2>4, <2>5, <3>1, ListRestored
  <2>7. Cardinality(mp') = Cardinality(keys) - 1
    BY <1>4, <2>1, <2>2, FS_RemoveElement
  <2>8. CacheTypeOK' /\ WithinCapacity'
    BY <1>4, <1>5, <1>6, <2>5, <2>6, <2>7 DEF CacheInv, CacheTypeOK, WithinCapacity
  <2>9. QED
    BY <2>6, <2>8 DEF CacheInv
<1>8. CASE ~ TooMany(keys)
  <2>1. SetLinks(added) /\ mp' = keys
    BY <1>8 DEF put
  <2>2. /\ next' \in [Nodes -> Nodes \cup {Null}]
        /\ pre' \in [Nodes -> Nodes \cup {Null}]
        /\ ListMatchesMap' /\ {next'[Dummy], pre'[Dummy]} \subseteq Nodes
    <3> HIDE DEF added
    <3>1. QED
      BY <1>1, <1>3, <2>1, ListRestored
  <2>3. WithinCapacity'
    BY <1>4, <1>5, <1>6, <1>8, <2>1 DEF WithinCapacity, TooMany
  <2>4. CacheTypeOK'
    BY <1>1, <1>5, <2>1, <2>2 DEF CacheInv, CacheTypeOK
  <2>5. QED
    BY <2>2, <2>3, <2>4 DEF CacheInv
<1>9. QED
  BY <1>7, <1>8

\* put of a key the cache holds, and of a new one.
LEMMA PutKeepsInv ==
  ASSUME CacheInv, NEW k \in Keys, NEW v \in Values, put(k, v)
  PROVE  CacheInv'
<1>1. CASE k \in mp
  <2>1. /\ cache = "built" /\ get_node(k) /\ UNCHANGED <<cache, capacity, mp>>
        /\ val' = [val EXCEPT ![k] = v] /\ last' = <<"put", k, v>> /\ v \in Int
    BY <1>1, CacheAssumption DEF put
  <2>2. val' \in [Keys -> Int] /\ last' \in {"get", "put"} \X Keys \X Int
    BY <2>1 DEF CacheInv, CacheTypeOK
  <2>3. QED
    BY <1>1, <2>1, <2>2, FoundKeepsInv
<1>2. CASE k \notin mp
  BY <1>2, InsertKeepsInv
<1>3. QED
  BY <1>1, <1>2

\* The initial state satisfies the invariant.
LEMMA CacheInvInit == CacheInit => CacheInv
<1> SUFFICES ASSUME CacheInit PROVE CacheInv
  OBVIOUS
<1>1. Cardinality(mp) = 0 /\ capacity % SizeMod \in Nat
  BY FS_EmptySet, CacheAssumption DEF CacheInit
<1>2. QED
  BY <1>1 DEF CacheInit, CacheInv, CacheTypeOK, ListMatchesMap, WithinCapacity, Nodes

\* The constructor links dummy with itself.
LEMMA ConstructKeepsInv ==
  ASSUME CacheInv, cache = "new" => mp = {}, Construct
  PROVE  CacheInv'
<1>1. CASE cache' = "built" /\ next' = [next EXCEPT ![Dummy] = Dummy]
                            /\ pre' = [pre EXCEPT ![Dummy] = Dummy]
  BY <1>1 DEF Construct, CacheInv, CacheTypeOK, ListMatchesMap, WithinCapacity, Nodes
<1>2. CASE cache' = "crashed" /\ UNCHANGED links
  BY <1>2 DEF Construct, links, CacheInv, CacheTypeOK, ListMatchesMap, WithinCapacity
<1>3. QED
  BY <1>1, <1>2 DEF Construct

\* The map is empty until the cache is built.
NothingYet == cache = "new" => mp = {}

\* Every call keeps the invariant.
LEMMA CacheInvStep ==
  ASSUME CacheInv, NothingYet, [CacheNext]_cacheVars
  PROVE  CacheInv' /\ NothingYet'
<1>1. CASE Construct
  BY <1>1, ConstructKeepsInv DEF Construct, NothingYet
<1>2. ASSUME NEW k \in Keys, get(k) PROVE CacheInv' /\ NothingYet'
  BY <1>2, GetKeepsInv DEF get, NothingYet
<1>3. ASSUME NEW k \in Keys, NEW v \in Values, put(k, v)
      PROVE  CacheInv' /\ NothingYet'
  BY <1>3, PutKeepsInv DEF put, NothingYet
<1>4. CASE UNCHANGED cacheVars
  BY <1>4 DEF cacheVars, links, CacheInv, CacheTypeOK, ListMatchesMap,
     WithinCapacity, NothingYet
<1>5. QED
  BY <1>1, <1>2, <1>3, <1>4 DEF CacheNext

\* The invariant holds always.
THEOREM CacheInvariance == CacheSpec => [](CacheInv /\ NothingYet)
<1>1. CacheInit => CacheInv /\ NothingYet
  BY CacheInvInit DEF CacheInit, NothingYet
<1>2. QED
  BY <1>1, CacheInvStep, PTL DEF CacheSpec

\* Through every sequence of get and put the list and the map stay in step.
THEOREM ListAndMapInStep == CacheSpec => []ListMatchesMap
<1>1. CacheInv => ListMatchesMap
  BY DEF CacheInv
<1>2. QED
  BY <1>1, CacheInvariance, PTL

\* The cache never exceeds its capacity.
THEOREM CapacityKept == CacheSpec => []WithinCapacity
<1>1. CacheInv => WithinCapacity
  BY DEF CacheInv
<1>2. QED
  BY <1>1, CacheInvariance, PTL

\* The variables of the cache keep their types.
THEOREM CacheTyped == CacheSpec => []CacheTypeOK
<1>1. CacheInv => CacheTypeOK
  BY DEF CacheInv
<1>2. QED
  BY <1>1, CacheInvariance, PTL

-----------------------------------------------------------------------------
(* LRUCache: the list is in the order of use, so what is evicted is the    *)
(* least recently used key.                                                *)

\* A list of keys in which none is twice, and its members.
Lists == {q \in Seq(Keys) : \A m, n \in 1..Len(q) : q[m] = q[n] => m = n}
Members(q) == {q[m] : m \in 1..Len(q)}

\* The node at place m of the circle: the keys of q, and dummy at both ends.
NodeAt(q, m) == IF m \in 1..Len(q) THEN q[m] ELSE Dummy

\* The links lead through q.
ChainOf(l, q) == /\ q \in Lists
                 /\ \A m \in 0..Len(q) : l.next[NodeAt(q, m)] = NodeAt(q, m + 1)

\* q without its element at n.
Without(q, n) == SubSeq(q, 1, n - 1) \o SubSeq(q, n + 1, Len(q))

\* No two places of the circle hold the same node.
LEMMA PlacesDiffer ==
  ASSUME NEW q \in Lists
  PROVE  /\ Len(q) \in Nat
         /\ \A m \in 1..Len(q) : q[m] \in Keys /\ q[m] # Dummy
         /\ \A m, n \in 0..Len(q) : NodeAt(q, m) = NodeAt(q, n) => m = n
<1>1. Len(q) \in Nat /\ q \in Seq(Keys)
  BY LenProperties DEF Lists
<1>2. \A m \in 1..Len(q) : q[m] \in Keys /\ q[m] # Dummy
  BY <1>1, ElementOfSeq, CacheAssumption
<1>3. \A m, n \in 1..Len(q) : q[m] = q[n] => m = n
  BY DEF Lists
<1>4. ASSUME NEW m \in 0..Len(q), NEW n \in 0..Len(q), NodeAt(q, m) = NodeAt(q, n)
      PROVE  m = n
  <2>1. CASE m = 0 /\ n = 0
    BY <2>1
  <2>2. CASE m = 0 /\ n # 0
    BY <1>1, <1>2, <1>4, <2>2 DEF NodeAt
  <2>3. CASE m # 0 /\ n = 0
    BY <1>1, <1>2, <1>4, <2>3 DEF NodeAt
  <2>4. CASE m # 0 /\ n # 0
    BY <1>1, <1>3, <1>4, <2>4 DEF NodeAt
  <2>5. QED
    BY <2>1, <2>2, <2>3, <2>4
<1>5. QED
  BY <1>1, <1>2, <1>4

\* A list of n keys has n members.
LEMMA MembersCounted ==
  ASSUME NEW q \in Lists
  PROVE  Cardinality(Members(q)) = Len(q) /\ Members(q) \subseteq Keys
<1>1. Len(q) \in Nat /\ \A m \in 1..Len(q) : q[m] \in Keys
  BY PlacesDiffer
<1> DEFINE f == [m \in 1..Len(q) |-> q[m]]
<1>2. f \in [1..Len(q) -> Members(q)]
  BY DEF Members
<1>3. \A m, n \in 1..Len(q) : f[m] = f[n] => m = n
  BY DEF Lists
<1>4. \A x \in Members(q) : \E m \in 1..Len(q) : f[m] = x
  BY DEF Members
<1>5. f \in Bijection(1..Len(q), Members(q))
  <2> HIDE DEF f
  <2>1. QED
    BY <1>2, <1>3, <1>4 DEF Bijection, Injection, Surjection, IsInjective
<1>6. Cardinality(Members(q)) = Len(q)
  BY <1>1, <1>5, FS_CountingElements DEF ExistsBijection
<1>7. QED
  BY <1>1, <1>6 DEF Members

\* A list without one of its elements.
LEMMA WithoutFacts ==
  ASSUME NEW q \in Lists, NEW n \in 1..Len(q)
  PROVE  /\ Without(q, n) \in Lists /\ Len(Without(q, n)) = Len(q) - 1
         /\ \A m \in 1..(Len(q) - 1) :
               Without(q, n)[m] = IF m < n THEN q[m] ELSE q[m + 1]
         /\ Members(Without(q, n)) = Members(q) \ {q[n]}
<1> DEFINE L == Len(q)
           p == SubSeq(q, 1, n - 1)
           r == SubSeq(q, n + 1, L)
           w == Without(q, n)
<1>1. L \in Nat /\ n \in 1..L /\ (\A m \in 1..L : q[m] \in Keys) /\ q \in Seq(Keys)
  BY PlacesDiffer DEF Lists
<1>2. p \in Seq(Keys) /\ Len(p) = n - 1 /\ \A m \in 1..(n - 1) : p[m] = q[m]
  <2>1. (\A m \in 1..(n - 1) : q[m] \in Keys) /\ 1 \in Int /\ n - 1 \in Int
    BY <1>1
  <2>2. /\ p \in Seq(Keys) /\ Len(p) = IF 1 <= n - 1 THEN (n - 1) - 1 + 1 ELSE 0
        /\ \A m \in 1..((n - 1) - 1 + 1) : p[m] = q[1 + m - 1]
    BY <2>1, SubSeqProperties
  <2> HIDE DEF p
  <2>3. (n - 1) - 1 + 1 = n - 1 /\ \A m \in 1..(n - 1) : 1 + m - 1 = m
    BY <1>1
  <2>4. QED
    BY <1>1, <2>2, <2>3
<1>3. r \in Seq(Keys) /\ Len(r) = L - n /\ \A m \in 1..(L - n) : r[m] = q[n + m]
  <2>1. (\A m \in (n + 1)..L : q[m] \in Keys) /\ n + 1 \in Int /\ L \in Int
    BY <1>1
  <2>2. /\ r \in Seq(Keys) /\ Len(r) = IF n + 1 <= L THEN L - (n + 1) + 1 ELSE 0
        /\ \A m \in 1..(L - (n + 1) + 1) : r[m] = q[(n + 1) + m - 1]
    BY <2>1, SubSeqProperties
  <2> HIDE DEF r, L
  <2>3. L - (n + 1) + 1 = L - n /\ \A m \in 1..(L - n) : (n + 1) + m - 1 = n + m
    BY <1>1
  <2>4. QED
    BY <1>1, <2>2, <2>3
<1>4. w = p \o r
  BY DEF Without
<1> HIDE DEF p, r, w
<1>5. /\ w \in Seq(Keys) /\ Len(w) = (n - 1) + (L - n)
      /\ \A m \in 1..((n - 1) + (L - n)) :
            w[m] = IF m <= n - 1 THEN p[m] ELSE r[m - (n - 1)]
  <2>1. /\ p \o r \in Seq(Keys) /\ Len(p \o r) = Len(p) + Len(r)
        /\ \A m \in 1..(Len(p) + Len(r)) :
              (p \o r)[m] = IF m <= Len(p) THEN p[m] ELSE r[m - Len(p)]
    BY <1>2, <1>3, ConcatProperties
  <2>2. Len(p) = n - 1 /\ Len(r) = L - n
    BY <1>2, <1>3
  <2> HIDE DEF L
  <2>3. QED
    BY <1>4, <2>1, <2>2
<1> HIDE DEF L
<1>6. (n - 1) + (L - n) = L - 1
  BY <1>1
<1>7. \A m \in 1..(L - 1) : w[m] = IF m < n THEN q[m] ELSE q[m + 1]
  <2>1. TAKE m \in 1..(L - 1)
  <2>2. CASE m < n
    <3>1. m <= n - 1 /\ m \in 1..(n - 1)
      BY <1>1, <2>2
    <3>2. QED
      BY <1>2, <1>5, <1>6, <2>2, <3>1
  <2>3. CASE ~(m < n)
    <3>1. ~(m <= n - 1) /\ m - (n - 1) \in 1..(L - n) /\ n + (m - (n - 1)) = m + 1
      BY <1>1, <2>3
    <3>2. QED
      BY <1>3, <1>5, <1>6, <2>3, <3>1
  <2>4. QED
    BY <2>2, <2>3
<1>8. \A m, k \in 1..L : q[m] = q[k] => m = k
  BY DEF Lists, L
<1>9. w \in Lists
  <2>1. ASSUME NEW m \in 1..(L - 1), NEW k \in 1..(L - 1), w[m] = w[k]
        PROVE  m = k
    <3>1. m \in 1..L /\ m + 1 \in 1..L /\ k \in 1..L /\ k + 1 \in 1..L
      BY <1>1
    <3>2. CASE m < n /\ k < n
      BY <1>7, <1>8, <2>1, <3>1, <3>2
    <3>3. CASE m < n /\ ~(k < n)
      BY <1>1, <1>7, <1>8, <2>1, <3>1, <3>3
    <3>4. CASE ~(m < n) /\ k < n
      BY <1>1, <1>7, <1>8, <2>1, <3>1, <3>4
    <3>5. CASE ~(m < n) /\ ~(k < n)
      BY <1>1, <1>7, <1>8, <2>1, <3>1, <3>5
    <3>6. QED
      BY <3>2, <3>3, <3>4, <3>5
  <2>2. QED
    BY <1>5, <1>6, <2>1 DEF Lists
<1>10. Members(w) = Members(q) \ {q[n]}
  <2>1. \A m \in 1..(L - 1) : w[m] \in Members(q) \ {q[n]}
    <3>1. TAKE m \in 1..(L - 1)
    <3>2. m \in 1..L /\ m + 1 \in 1..L
      BY <1>1
    <3>3. \E k \in 1..L : w[m] = q[k] /\ k # n
      BY <1>1, <1>7, <3>2
    <3>4. QED
      BY <1>1, <1>8, <3>3 DEF Members, L
  <2>2. \A k \in 1..L : k # n => \E m \in 1..(L - 1) : w[m] = q[k]
    <3>1. ASSUME NEW k \in 1..L, k # n PROVE \E m \in 1..(L - 1) : w[m] = q[k]
      <4>1. CASE k < n
        <5>1. k \in 1..(L - 1) /\ w[k] = q[k]
          BY <1>1, <1>7, <4>1
        <5>2. QED
          BY <5>1
      <4>2. CASE ~(k < n)
        <5>1. k - 1 \in 1..(L - 1) /\ ~(k - 1 < n) /\ (k - 1) + 1 = k
          BY <1>1, <3>1, <4>2
        <5>2. w[k - 1] = q[k]
          BY <1>7, <5>1
        <5>3. QED
          BY <5>1, <5>2
      <4>3. QED
        BY <4>1, <4>2
    <3>2. QED
      BY <3>1
  <2>3. Members(w) = {w[m] : m \in 1..(L - 1)} /\ Members(q) = {q[m] : m \in 1..L}
    BY <1>5, <1>6 DEF Members, L
  <2>4. ASSUME NEW x \in Members(q) \ {q[n]} PROVE x \in Members(w)
    BY <2>2, <2>3
  <2>5. ASSUME NEW x \in Members(w) PROVE x \in Members(q) \ {q[n]}
    BY <2>1, <2>3
  <2>6. QED
    BY <2>4, <2>5
<1>11. QED
  BY <1>5, <1>6, <1>7, <1>9, <1>10 DEF w, L

\* A list with a new key in front.
LEMMA InFrontFacts ==
  ASSUME NEW q \in Lists, NEW k \in Keys \ Members(q)
  PROVE  /\ <<k>> \o q \in Lists /\ Len(<<k>> \o q) = Len(q) + 1
         /\ (<<k>> \o q)[1] = k
         /\ \A m \in 1..Len(q) : (<<k>> \o q)[m + 1] = q[m]
         /\ Members(<<k>> \o q) = Members(q) \cup {k}
<1> DEFINE L == Len(q)
           w == <<k>> \o q
<1>1. L \in Nat /\ q \in Seq(Keys) /\ <<k>> \in Seq(Keys) /\ Len(<<k>>) = 1
      /\ (\A m, n \in 1..L : q[m] = q[n] => m = n) /\ \A m \in 1..L : q[m] # k
  BY PlacesDiffer DEF Lists, Members
<1>2. /\ w \in Seq(Keys) /\ Len(w) = 1 + L
      /\ \A m \in 1..(1 + L) : w[m] = IF m <= 1 THEN <<k>>[m] ELSE q[m - 1]
  BY <1>1, ConcatProperties
<1> HIDE DEF w, L
<1>3. w[1] = k /\ Len(w) = L + 1
  BY <1>1, <1>2
<1>4. \A m \in 1..L : w[m + 1] = q[m]
  <2>1. TAKE m \in 1..L
  <2>2. m + 1 \in 1..(1 + L) /\ ~(m + 1 <= 1) /\ (m + 1) - 1 = m
    BY <1>1
  <2>3. QED
    BY <1>2, <2>2
<1>5. \A m \in 1..(L + 1) : m # 1 => m - 1 \in 1..L /\ w[m] = q[m - 1]
  <2>1. TAKE m \in 1..(L + 1)
  <2>2. m # 1 => m - 1 \in 1..L /\ (m - 1) + 1 = m
    BY <1>1
  <2>3. QED
    BY <1>4, <2>2
<1>6. w \in Lists
  <2>1. ASSUME NEW m \in 1..(L + 1), NEW n \in 1..(L + 1), w[m] = w[n]
        PROVE  m = n
    <3>1. CASE m = 1 /\ n = 1
      BY <3>1
    <3>2. CASE m = 1 /\ n # 1
      BY <1>1, <1>3, <1>5, <2>1, <3>2
    <3>3. CASE m # 1 /\ n = 1
      BY <1>1, <1>3, <1>5, <2>1, <3>3
    <3>4. CASE m # 1 /\ n # 1
      BY <1>1, <1>5, <2>1, <3>4
    <3>5. QED
      BY <3>1, <3>2, <3>3, <3>4
  <2>2. QED
    BY <1>2, <1>3, <2>1 DEF Lists
<1>7. Members(w) = Members(q) \cup {k}
  <2>1. \A m \in 1..(L + 1) : w[m] \in Members(q) \cup {k}
    BY <1>3, <1>5 DEF Members, L
  <2>2. \A m \in 1..L : m + 1 \in 1..(L + 1) /\ w[m + 1] = q[m]
    BY <1>1, <1>4
  <2>3. 1 \in 1..(L + 1)
    BY <1>1
  <2>4. Members(w) = {w[m] : m \in 1..(L + 1)} /\ Members(q) = {q[m] : m \in 1..L}
    BY <1>3 DEF Members, L
  <2>5. ASSUME NEW x \in Members(q) \cup {k} PROVE x \in Members(w)
    BY <1>3, <2>2, <2>3, <2>4
  <2>6. ASSUME NEW x \in Members(w) PROVE x \in Members(q) \cup {k}
    BY <2>1, <2>4
  <2>7. QED
    BY <2>5, <2>6
<1>8. QED
  BY <1>3, <1>4, <1>6, <1>7 DEF w, L

\* Taking a node out of a chain leaves the rest of it.
LEMMA RemoveChain ==
  ASSUME NEW l \in LinkType, NEW q, ChainOf(l, q), NEW n \in 1..Len(q),
         l.pre[q[n]] = NodeAt(q, n - 1)
  PROVE  ChainOf(remove(q[n], l), Without(q, n))
<1> DEFINE L == Len(q)
           w == Without(q, n)
           r == remove(q[n], l)
<1>1. /\ q \in Lists /\ L \in Nat /\ n \in 1..L
      /\ \A m \in 0..L : l.next[NodeAt(q, m)] = NodeAt(q, m + 1)
      /\ \A m, k \in 0..L : NodeAt(q, m) = NodeAt(q, k) => m = k
      /\ \A m \in 1..L : q[m] \in Keys
  BY PlacesDiffer DEF ChainOf
<1>2. w \in Lists /\ Len(w) = L - 1
      /\ \A m \in 1..(L - 1) : w[m] = IF m < n THEN q[m] ELSE q[m + 1]
  BY <1>1, WithoutFacts
<1>3. \A m \in 0..(L + 1) : NodeAt(q, m) \in Nodes
  BY <1>1 DEF NodeAt, Nodes
<1>4. q[n] = NodeAt(q, n) /\ n - 1 \in 0..L /\ n \in 0..L
  BY <1>1 DEF NodeAt
<1>5. \A m \in 0..L : r.next[NodeAt(q, m)] =
                         IF m = n - 1 THEN NodeAt(q, n + 1) ELSE NodeAt(q, m + 1)
  <2>1. l.pre[NodeAt(q, n)] = NodeAt(q, n - 1) /\ l.next[NodeAt(q, n)] = NodeAt(q, n + 1)
    BY <1>1, <1>4
  <2>2. r.next = [l.next EXCEPT ![NodeAt(q, n - 1)] = NodeAt(q, n + 1)]
    BY <1>4, <2>1 DEF remove
  <2>3. l.next \in [Nodes -> Nodes \cup {Null}]
    BY DEF LinkType
  <2> HIDE DEF r, L
  <2>4. TAKE m \in 0..L
  <2>5. NodeAt(q, m) \in Nodes /\ (NodeAt(q, m) = NodeAt(q, n - 1) <=> m = n - 1)
    BY <1>1, <1>3, <1>4
  <2>6. QED
    BY <1>1, <2>2, <2>3, <2>5
<1>6. \A m \in 0..L : NodeAt(w, m) = IF m < n THEN NodeAt(q, m) ELSE NodeAt(q, m + 1)
  <2> HIDE DEF w, L
  <2>1. TAKE m \in 0..L
  <2>2. CASE m < n
    <3>1. (m \in 1..L <=> m \in 1..(L - 1)) /\ m \in Int
      BY <1>1, <2>2
    <3>2. QED
      BY <1>2, <2>2, <3>1 DEF NodeAt, L
  <2>3. CASE ~(m < n)
    <3>1. m + 1 \in 1..L <=> m \in 1..(L - 1)
      BY <1>1, <2>3
    <3>2. QED
      BY <1>2, <2>3, <3>1 DEF NodeAt, L
  <2>4. QED
    BY <2>2, <2>3
<1>7. ASSUME NEW m \in 0..(L - 1) PROVE r.next[NodeAt(w, m)] = NodeAt(w, m + 1)
  <2> HIDE DEF w, r, L
  <2>1. m \in 0..L /\ m + 1 \in 0..L /\ m \in Int
    BY <1>1
  <2>2. CASE m < n - 1
    <3>1. m < n /\ m + 1 < n /\ m # n - 1
      BY <1>1, <2>1, <2>2
    <3>2. QED
      BY <1>5, <1>6, <2>1, <3>1
  <2>3. CASE m = n - 1
    <3>1. m < n /\ ~(m + 1 < n) /\ m + 1 = n
      BY <1>1, <2>1, <2>3
    <3>2. QED
      BY <1>5, <1>6, <2>1, <2>3, <3>1
  <2>4. CASE m > n - 1
    <3>1. ~(m < n) /\ ~(m + 1 < n) /\ m + 1 # n - 1
      BY <1>1, <2>1, <2>4
    <3>2. QED
      BY <1>5, <1>6, <2>1, <3>1
  <2>5. QED
    BY <1>1, <2>1, <2>2, <2>3, <2>4
<1>8. QED
  BY <1>2, <1>7 DEF ChainOf

\* A node that is put behind dummy heads the chain.
LEMMA PushChain ==
  ASSUME NEW l \in LinkType, NEW q, ChainOf(l, q), NEW k \in Keys \ Members(q)
  PROVE  ChainOf(push_front(k, l), <<k>> \o q)
<1> DEFINE L == Len(q)
           w == <<k>> \o q
           r == push_front(k, l)
<1>1. /\ q \in Lists /\ L \in Nat
      /\ \A m \in 0..L : l.next[NodeAt(q, m)] = NodeAt(q, m + 1)
      /\ \A m, n \in 0..L : NodeAt(q, m) = NodeAt(q, n) => m = n
      /\ \A m \in 1..L : q[m] \in Keys /\ q[m] # Dummy /\ q[m] # k
  BY PlacesDiffer DEF ChainOf, Members
<1>2. w \in Lists /\ Len(w) = L + 1 /\ w[1] = k /\ \A m \in 1..L : w[m + 1] = q[m]
  BY <1>1, InFrontFacts
<1>3. k # Dummy /\ k \in Nodes /\ Dummy \in Nodes /\ k \in Keys
  BY CacheAssumption DEF Nodes
<1>4. NodeAt(q, 0) = Dummy /\ NodeAt(q, L + 1) = Dummy
      /\ l.next[Dummy] = NodeAt(q, 1)
  <2>1. 0 \notin 1..L /\ L + 1 \notin 1..L /\ 0 \in 0..L /\ 0 + 1 = 1
    BY <1>1
  <2>2. NodeAt(q, 0) = Dummy /\ NodeAt(q, L + 1) = Dummy
    BY <2>1 DEF NodeAt
  <2>3. QED
    BY <1>1, <2>1, <2>2
<1>5. r.next[Dummy] = k /\ r.next[k] = NodeAt(q, 1)
      /\ \A m \in 1..L : r.next[q[m]] = NodeAt(q, m + 1)
  <2>1. r.next = [l.next EXCEPT ![k] = l.next[Dummy], ![Dummy] = k]
    BY DEF push_front
  <2>2. l.next \in [Nodes -> Nodes \cup {Null}]
    BY DEF LinkType
  <2>3. \A m \in 1..L : q[m] \in Nodes /\ l.next[q[m]] = NodeAt(q, m + 1)
    <3>1. \A m \in 1..L : m \in 0..L /\ NodeAt(q, m) = q[m]
      BY DEF NodeAt
    <3>2. QED
      BY <1>1, <3>1 DEF Nodes
  <2> HIDE DEF r, L
  <2>4. QED
    BY <1>1, <1>3, <1>4, <2>1, <2>2, <2>3
<1>6. NodeAt(w, 0) = Dummy /\ NodeAt(w, 1) = k
      /\ \A m \in 1..(L + 1) : NodeAt(w, m + 1) = NodeAt(q, m)
  <2> HIDE DEF w, L
  <2>1. 0 \notin 1..(L + 1) /\ 1 \in 1..(L + 1)
        /\ \A m \in 1..(L + 1) : m \in 1..L <=> m + 1 \in 1..(L + 1)
    BY <1>1
  <2>2. NodeAt(w, 0) = Dummy /\ NodeAt(w, 1) = k
    BY <1>2, <2>1 DEF NodeAt
  <2>3. \A m \in 1..(L + 1) : NodeAt(w, m + 1) = NodeAt(q, m)
    BY <1>2, <2>1 DEF NodeAt, L
  <2>4. QED
    BY <2>2, <2>3
<1>7. ASSUME NEW m \in 0..(L + 1) PROVE r.next[NodeAt(w, m)] = NodeAt(w, m + 1)
  <2> HIDE DEF w, r, L
  <2>1. CASE m = 0
    BY <1>5, <1>6, <2>1
  <2>2. CASE m = 1
    <3>1. 1 \in 1..(L + 1)
      BY <1>1
    <3>2. QED
      BY <1>5, <1>6, <2>2, <3>1
  <2>3. CASE m # 0 /\ m # 1
    <3>1. m - 1 \in 1..L /\ m - 1 \in 1..(L + 1) /\ (m - 1) + 1 = m /\ m \in 1..(L + 1)
      BY <1>1, <2>3
    <3>2. NodeAt(w, m) = NodeAt(q, m - 1) /\ NodeAt(q, m - 1) = q[m - 1]
      BY <1>6, <3>1 DEF NodeAt, L
    <3>3. NodeAt(w, m + 1) = NodeAt(q, m)
      BY <1>6, <3>1
    <3>4. QED
      BY <1>5, <3>1, <3>2, <3>3
  <2>4. QED
    BY <2>1, <2>2, <2>3
<1>8. QED
  BY <1>2, <1>7 DEF ChainOf

\* What is read off the links nx of as many nodes as S has.
OrderOf(nx, S) ==
    LET place[m \in 0..Cardinality(S)] == IF m = 0 THEN Dummy ELSE nx[place[m - 1]]
    IN  [m \in 1..Cardinality(S) |-> place[m]]

\* It is the chain.
LEMMA OrderIsChain ==
  ASSUME NEW l, NEW S, NEW q, ChainOf(l, q), Cardinality(S) = Len(q)
  PROVE  OrderOf(l.next, S) = q
<1> DEFINE L == Len(q)
           Place(f, m) == IF m = 0 THEN Dummy ELSE l.next[f[m - 1]]
           h == [m \in 0..L |-> NodeAt(q, m)]
<1>1. /\ q \in Lists /\ q \in Seq(Keys) /\ L \in Nat
      /\ \A m \in 0..L : l.next[NodeAt(q, m)] = NodeAt(q, m + 1)
  BY PlacesDiffer DEF ChainOf, Lists
<1>2. h = [m \in 0..L |-> Place(h, m)]
  <2>1. ASSUME NEW m \in 0..L PROVE NodeAt(q, m) = Place(h, m)
    <3>1. CASE m = 0
      BY <3>1 DEF NodeAt
    <3>2. CASE m # 0
      <4>1. m - 1 \in 0..L /\ (m - 1) + 1 = m
        BY <1>1, <3>2
      <4>2. h[m - 1] = NodeAt(q, m - 1)
        BY <4>1
      <4>3. QED
        BY <1>1, <3>2, <4>1, <4>2
    <3>3. QED
      BY <3>1, <3>2
  <2> HIDE DEF Place
  <2>2. QED
    BY <2>1
<1>3. ASSUME NEW g, g = [m \in 0..L |-> Place(g, m)] PROVE \A m \in 0..L : g[m] = NodeAt(q, m)
  <2> DEFINE T == {m \in 0..L : g[m] # NodeAt(q, m)}
  <2>1. SUFFICES ASSUME T # {} PROVE FALSE
    OBVIOUS
  <2>2. T \in SUBSET Nat
    BY <1>1
  <2>3. PICK m \in T : \A k \in T : m <= k
    <3> HIDE DEF T
    <3>1. QED
      BY <2>1, <2>2, LeastElement
  <2>4. m \in 0..L /\ g[m] # NodeAt(q, m) /\ g[m] = Place(g, m)
    <3>1. \A n \in 0..L : g[n] = Place(g, n)
      <4> HIDE DEF Place
      <4>1. QED
        BY <1>3
    <3>2. QED
      BY <2>3, <3>1
  <2>5. m # 0
    BY <2>4 DEF NodeAt
  <2>6. m - 1 \in 0..L /\ (m - 1) + 1 = m /\ ~(m <= m - 1)
    BY <1>1, <2>4, <2>5
  <2>7. g[m - 1] = NodeAt(q, m - 1)
    BY <2>3, <2>6
  <2>8. QED
    BY <1>1, <2>4, <2>5, <2>6, <2>7
<1>4. \E g : g = [m \in 0..L |-> Place(g, m)] /\ OrderOf(l.next, S) = [m \in 1..L |-> g[m]]
  BY <1>2 DEF OrderOf
<1>5. PICK g : g = [m \in 0..L |-> Place(g, m)] /\ OrderOf(l.next, S) = [m \in 1..L |-> g[m]]
  BY <1>4
<1>6. \A m \in 0..L : g[m] = NodeAt(q, m)
  BY <1>3, <1>5
<1>7. \A m \in 1..L : g[m] = q[m]
  BY <1>6 DEF NodeAt
<1>8. q = [m \in 1..L |-> q[m]]
  BY <1>1
<1>9. QED
  <2> HIDE DEF L
  <2>1. QED
    BY <1>5, <1>7, <1>8

\* The list is one chain through the nodes of the map; while there is no list
\* there is no key.
Chained == IF cache = "built" THEN \E q : ChainOf(Links, q) /\ Members(q) = mp
           ELSE mp = {}

OrderInv == CacheInv /\ Chained

\* The order of the list, in this state and the next.
LEMMA OrderFacts ==
  /\ ListOrder = OrderOf(next, mp) /\ ListOrder' = OrderOf(next', mp')
  /\ \A S : Cardinality(S) = 0 => \A nx : OrderOf(nx, S) = <<>>
<1>1. ListOrder = OrderOf(next, mp)
  BY DEF ListOrder, OrderOf
<1>2. ListOrder' = OrderOf(next', mp')
  BY DEF ListOrder, OrderOf
<1>3. ASSUME NEW S, Cardinality(S) = 0, NEW nx PROVE OrderOf(nx, S) = <<>>
  BY <1>3 DEF OrderOf
<1>4. QED
  BY <1>1, <1>2, <1>3

\* The chain is what ListOrder says.
LEMMA OrderRead ==
  ASSUME OrderInv, cache = "built"
  PROVE  /\ ChainOf(Links, ListOrder) /\ ListOrder \in Lists
         /\ Members(ListOrder) = mp /\ Len(ListOrder) = Cardinality(mp)
<1>1. PICK q : ChainOf(Links, q) /\ Members(q) = mp
  BY DEF OrderInv, Chained
<1>2. q \in Lists /\ Cardinality(mp) = Len(q)
  BY <1>1, MembersCounted DEF ChainOf
<1>3. OrderOf(Links.next, mp) = q
  BY <1>1, <1>2, OrderIsChain
<1>4. ListOrder = q
  BY <1>3, OrderFacts DEF Links
<1>5. QED
  BY <1>1, <1>2, <1>4

\* A chain of the links that a step leaves is the next order of the list.
LEMMA OrderWritten ==
  ASSUME NEW l, SetLinks(l), NEW q, ChainOf(l, q), Members(q) = mp', cache' = "built"
  PROVE  Chained' /\ ListOrder' = q
<1>1. ChainOf(Links', q)
  BY DEF ChainOf, Links, SetLinks
<1>2. Chained'
  BY <1>1 DEF Chained
<1>3. q \in Lists /\ Cardinality(mp') = Len(q)
  BY MembersCounted DEF ChainOf
<1>4. OrderOf(l.next, mp') = q
  BY <1>3, OrderIsChain
<1>5. ListOrder' = q
  BY <1>4, OrderFacts DEF SetLinks
<1>6. QED
  BY <1>2, <1>5

\* The node before the one at n is what its link back says.
LEMMA LinkBack ==
  ASSUME NEW l, NEW q, ChainOf(l, q), Linked(Members(q) \cup {Dummy}, l),
         NEW n \in 1..(Len(q) + 1)
  PROVE  l.pre[NodeAt(q, n)] = NodeAt(q, n - 1)
<1>1. Len(q) \in Nat
  BY PlacesDiffer DEF ChainOf
<1>2. n - 1 \in 0..Len(q) /\ (n - 1) + 1 = n
  BY <1>1
<1>3. l.next[NodeAt(q, n - 1)] = NodeAt(q, n)
  BY <1>2 DEF ChainOf
<1>4. NodeAt(q, n - 1) \in Members(q) \cup {Dummy}
  BY DEF NodeAt, Members
<1>5. QED
  BY <1>3, <1>4 DEF Linked

\* What the abstract cache does with the order.
LEMMA MovedUpIs ==
  ASSUME NEW q \in Lists, NEW k
  PROVE  /\ Recency!ToSet(q) = Members(q)
         /\ k \notin Members(q) => Recency!MovedUp(k, q) = <<k>> \o q
         /\ \A n \in 1..Len(q) : q[n] = k => Recency!MovedUp(k, q) = <<k>> \o Without(q, n)
<1>1. DOMAIN q = 1..Len(q)
  BY LenProperties DEF Lists
<1>2. Recency!ToSet(q) = Members(q)
  BY <1>1 DEF Recency!ToSet, Members
<1>3. k \notin Members(q) => Recency!MovedUp(k, q) = <<k>> \o q
  BY <1>2 DEF Recency!MovedUp
<1>4. ASSUME NEW n \in 1..Len(q), q[n] = k
      PROVE  Recency!MovedUp(k, q) = <<k>> \o Without(q, n)
  <2>1. k \in Members(q)
    BY <1>4 DEF Members
  <2>2. \A m \in 1..Len(q) : q[m] = k => m = n
    BY <1>4 DEF Lists
  <2>3. (CHOOSE m \in 1..Len(q) : q[m] = k) = n
    BY <1>4, <2>2
  <2>4. Recency!MovedUp(k, q) = <<k>> \o Recency!RemoveAt(q, n)
    BY <1>2, <2>1, <2>3 DEF Recency!MovedUp
  <2>5. QED
    BY <2>4 DEF Recency!RemoveAt, Without
<1>5. QED
  BY <1>2, <1>3, <1>4

\* A key that is found is moved to the front of the order.
LEMMA FoundMovesUp ==
  ASSUME OrderInv, cache = "built", NEW k \in mp, get_node(k),
         UNCHANGED <<cache, mp>>
  PROVE  Chained' /\ ListOrder' = Recency!MovedUp(k, ListOrder)
<1> DEFINE q == ListOrder
           S == mp \cup {Dummy}
           r == remove(k, Links)
<1>1. /\ ChainOf(Links, q) /\ q \in Lists /\ Members(q) = mp
      /\ Links \in LinkType /\ Linked(S, Links) /\ S \in SUBSET Nodes
      /\ k \in Keys /\ k \in S
  BY OrderRead, LinksFacts DEF OrderInv, CacheInv, CacheTypeOK
<1>2. PICK n \in 1..Len(q) : q[n] = k
  BY <1>1 DEF Members
<1> HIDE DEF q
<1>3. k = NodeAt(q, n) /\ n \in 1..(Len(q) + 1)
  <2>1. Len(q) \in Nat
    BY <1>1, PlacesDiffer
  <2>2. QED
    BY <1>2, <2>1 DEF NodeAt
<1>4. Links.pre[q[n]] = NodeAt(q, n - 1)
  <2>1. Linked(Members(q) \cup {Dummy}, Links)
    BY <1>1
  <2>2. Links.pre[NodeAt(q, n)] = NodeAt(q, n - 1)
    BY <1>1, <1>3, <2>1, LinkBack
  <2>3. QED
    BY <1>2, <1>3, <2>2
<1>5. r \in LinkType
  BY <1>1, RemoveLinks
<1>6. ChainOf(r, Without(q, n))
  BY <1>1, <1>2, <1>4, RemoveChain
<1>7. Without(q, n) \in Lists /\ Members(Without(q, n)) = mp \ {k}
  BY <1>1, <1>2, WithoutFacts
<1> HIDE DEF r
<1>8. ChainOf(push_front(k, r), <<k>> \o Without(q, n))
  BY <1>1, <1>5, <1>6, <1>7, PushChain
<1>9. Members(<<k>> \o Without(q, n)) = mp
  <2>1. k \in Keys \ Members(Without(q, n))
    BY <1>1, <1>7
  <2>2. Members(<<k>> \o Without(q, n)) = (mp \ {k}) \cup {k}
    BY <1>7, <2>1, InFrontFacts
  <2>3. QED
    BY <2>2
<1>10. SetLinks(push_front(k, r))
  BY DEF get_node, r
<1>11. Chained' /\ ListOrder' = <<k>> \o Without(q, n)
  BY <1>8, <1>9, <1>10, OrderWritten
<1>12. QED
  BY <1>1, <1>2, <1>11, MovedUpIs DEF q

\* A new key comes to the front, and the last one goes if there are too many.
LEMMA NewMovesUp ==
  ASSUME OrderInv, NEW k \in Keys, NEW v \in Values, put(k, v), k \notin mp
  PROVE  LET all == Recency!MovedUp(k, ListOrder)
         IN  /\ Chained' /\ mp' \subseteq mp \cup {k}
             /\ ListOrder' = IF Len(all) > capacity % SizeMod
                             THEN SubSeq(all, 1, Len(all) - 1)
                             ELSE all
<1> DEFINE q == ListOrder
           w == <<k>> \o q
           added == push_front(k, Links)
           keys == mp \cup {k}
           tmp == Victim(added)
           S == keys \cup {Dummy}
<1>1. /\ cache = "built" /\ cache' = "built"
      /\ TooMany(keys) => SetLinks(remove(tmp, added)) /\ mp' = keys \ {tmp}
      /\ ~ TooMany(keys) => SetLinks(added) /\ mp' = keys
  BY DEF put
<1>2. /\ ChainOf(Links, q) /\ q \in Lists /\ Members(q) = mp
      /\ Links \in LinkType /\ Linked(mp \cup {Dummy}, Links)
      /\ mp \cup {Dummy} \in SUBSET Nodes /\ k \notin mp /\ k # Dummy
  BY <1>1, OrderRead, LinksFacts, CacheAssumption DEF OrderInv
<1>3. k \in Nodes \ (mp \cup {Dummy}) /\ k \in Keys \ Members(q)
  BY <1>2 DEF Nodes
<1> HIDE DEF q
<1>4. ChainOf(added, w) /\ added \in LinkType /\ Linked(S, added) /\ S \in SUBSET Nodes
  <2>1. (mp \cup {Dummy}) \cup {k} = S
    OBVIOUS
  <2>2. ChainOf(added, w)
    BY <1>2, <1>3, PushChain
  <2>3. added \in LinkType /\ Linked(S, added)
    BY <1>2, <1>3, <2>1, PushLinks
  <2>4. QED
    BY <1>2, <1>3, <2>1, <2>2, <2>3
<1>5. w \in Lists /\ Members(w) = keys /\ Len(w) = Len(q) + 1 /\ Len(q) \in Nat
  BY <1>2, <1>3, InFrontFacts, PlacesDiffer
<1>6. Cardinality(keys) = Len(w)
  BY <1>5, MembersCounted
<1>7. Recency!MovedUp(k, q) = w
  BY <1>2, MovedUpIs
<1>8. Linked(Members(w) \cup {Dummy}, added)
  BY <1>4, <1>5
<1> HIDE DEF w, added
<1>9. CASE TooMany(keys)
  <2> DEFINE n == Len(w)
  <2>1. n \in 1..n /\ n \in 1..(n + 1) /\ n + 1 \in 1..(n + 1) /\ (n + 1) - 1 = n /\ n \in Nat
    BY <1>5
  <2>2. NodeAt(w, n) = w[n] /\ NodeAt(w, n + 1) = Dummy
    BY <2>1 DEF NodeAt
  <2>3. tmp = w[n]
    <3>1. added.pre[NodeAt(w, n + 1)] = NodeAt(w, (n + 1) - 1)
      BY <1>4, <1>8, <2>1, LinkBack
    <3>2. QED
      BY <2>1, <2>2, <3>1 DEF Victim
  <2>4. added.pre[w[n]] = NodeAt(w, n - 1)
    <3>1. added.pre[NodeAt(w, n)] = NodeAt(w, n - 1)
      BY <1>4, <1>8, <2>1, LinkBack
    <3>2. QED
      BY <2>2, <3>1
  <2>5. ChainOf(remove(tmp, added), Without(w, n))
    BY <1>4, <2>1, <2>3, <2>4, RemoveChain
  <2>6. Members(Without(w, n)) = mp'
    <3>1. Members(Without(w, n)) = Members(w) \ {w[n]}
      BY <1>5, <2>1, WithoutFacts
    <3>2. mp' = keys \ {tmp}
      BY <1>1, <1>9
    <3>3. QED
      BY <1>5, <2>3, <3>1, <3>2
  <2>7. Chained' /\ ListOrder' = Without(w, n)
    BY <1>1, <1>9, <2>5, <2>6, OrderWritten
  <2>8. Without(w, n) = SubSeq(w, 1, n - 1)
    <3>1. w \in Seq(Keys)
      BY <1>5 DEF Lists
    <3>2. SubSeq(w, n + 1, n) = <<>>
      BY <2>1, <3>1, SubSeqEmpty
    <3>3. SubSeq(w, 1, n - 1) \in Seq(Keys)
      <4>1. \A m \in 1..(n - 1) : w[m] \in Keys
        BY <1>5, <2>1, PlacesDiffer
      <4>2. QED
        BY <2>1, <4>1, SubSeqProperties
    <3>4. QED
      BY <3>2, <3>3, ConcatEmptySeq DEF Without
  <2>9. n > capacity % SizeMod
    BY <1>6, <1>9 DEF TooMany
  <2>10. mp' \subseteq mp \cup {k}
    BY <1>1, <1>9
  <2>11. QED
    BY <1>7, <2>7, <2>8, <2>9, <2>10 DEF q
<1>10. CASE ~ TooMany(keys)
  <2>1. Members(w) = mp' /\ SetLinks(added)
    BY <1>1, <1>5, <1>10
  <2>2. Chained' /\ ListOrder' = w
    BY <1>1, <1>4, <2>1, OrderWritten
  <2>3. ~ (Len(w) > capacity % SizeMod)
    BY <1>6, <1>10 DEF TooMany
  <2>4. mp' \subseteq mp \cup {k}
    BY <1>1, <1>10
  <2>5. QED
    BY <1>7, <2>2, <2>3, <2>4 DEF q
<1>11. QED
  BY <1>9, <1>10

\* The variables of the abstract cache, read off the program.
recencyVars == <<capacity % SizeMod, ListOrder, [k \in mp |-> val[k]], last>>

\* The initial state is one of the abstract cache.
LEMMA OrderInvInit ==
  ASSUME CacheInit
  PROVE  OrderInv /\ Recency!Init
<1>1. mp = {} /\ Cardinality(mp) = 0 /\ cache = "new" /\ last = <<"none">>
      /\ capacity % SizeMod \in Nat
  BY FS_EmptySet, CacheAssumption DEF CacheInit
<1>2. OrderInv
  BY <1>1, CacheInvInit DEF OrderInv, Chained
<1>3. ListOrder = <<>>
  BY <1>1, OrderFacts
<1>4. [k \in mp |-> val[k]] = [k \in {} |-> 0]
  BY <1>1
<1>5. QED
  BY <1>1, <1>2, <1>3, <1>4 DEF Recency!Init

\* The constructor is no step of it.
LEMMA ConstructStutters ==
  ASSUME OrderInv, Construct
  PROVE  Chained' /\ UNCHANGED recencyVars
<1>1. mp = {} /\ mp' = {} /\ cache' \in {"built", "crashed"}
      /\ UNCHANGED <<capacity, val, last>>
  BY DEF Construct, OrderInv, Chained
<1>2. ListOrder = <<>> /\ ListOrder' = <<>>
  BY <1>1, FS_EmptySet, OrderFacts
<1>3. Chained'
  <2>1. CASE cache' = "built"
    <3>1. next' = [next EXCEPT ![Dummy] = Dummy] /\ next \in [Nodes -> Nodes \cup {Null}]
      BY <2>1 DEF Construct, OrderInv, CacheInv, CacheTypeOK
    <3>2. next'[Dummy] = Dummy
      BY <3>1 DEF Nodes
    <3>3. <<>> \in Lists /\ Members(<<>>) = {} /\ Len(<<>>) = 0
          /\ \A m : NodeAt(<<>>, m) = Dummy
      BY DEF Lists, Members, NodeAt
    <3>4. ChainOf(Links', <<>>)
      BY <3>2, <3>3 DEF ChainOf, Links
    <3>5. QED
      BY <1>1, <2>1, <3>3, <3>4 DEF Chained
  <2>2. CASE cache' = "crashed"
    BY <1>1, <2>2 DEF Chained
  <2>3. QED
    BY <1>1, <2>1, <2>2
<1>4. QED
  BY <1>1, <1>2, <1>3 DEF recencyVars

\* get is the abstract one.
LEMMA GetRefines ==
  ASSUME OrderInv, NEW k \in Keys, get(k)
  PROVE  Chained' /\ Recency!Get(k)
<1>1. cache = "built" /\ UNCHANGED <<cache, capacity, mp, val>>
  BY DEF get
<1>2. Recency!ToSet(ListOrder) = mp
  BY <1>1, OrderRead, MovedUpIs
<1>3. CASE k \in mp
  <2>1. get_node(k) /\ last' = <<"get", k, val[k]>>
    BY <1>3 DEF get
  <2>2. Chained' /\ ListOrder' = Recency!MovedUp(k, ListOrder)
    BY <1>1, <1>3, <2>1, FoundMovesUp
  <2>3. [n \in mp |-> val[n]][k] = val[k]
    BY <1>3
  <2>4. [n \in mp' |-> val'[n]] = [n \in mp |-> val[n]] /\ capacity' = capacity
    BY <1>1
  <2>5. QED
    BY <1>2, <1>3, <2>1, <2>2, <2>3, <2>4 DEF Recency!Get
<1>4. CASE k \notin mp
  <2>1. UNCHANGED links /\ last' = <<"get", k, 0>>
    BY <1>4 DEF get
  <2>2. Chained'
    BY <1>1, <2>1 DEF OrderInv, Chained, Links, links
  <2>3. ListOrder' = ListOrder
    BY <1>1, <2>1, OrderFacts DEF links
  <2>4. [n \in mp' |-> val'[n]] = [n \in mp |-> val[n]] /\ capacity' = capacity
    BY <1>1
  <2>5. QED
    BY <1>2, <1>4, <2>1, <2>2, <2>3, <2>4 DEF Recency!Get
<1>5. QED
  BY <1>3, <1>4

\* put is the abstract one, and evicts the same key.
LEMMA PutRefines ==
  ASSUME OrderInv, OrderInv', NEW k \in Keys, NEW v \in Values, put(k, v)
  PROVE  Recency!Put(k, v)
<1> DEFINE all == Recency!MovedUp(k, ListOrder)
<1>1. /\ cache = "built" /\ UNCHANGED <<cache, capacity>> /\ last' = <<"put", k, v>>
      /\ val' = [val EXCEPT ![k] = v] /\ val \in [Keys -> Int] /\ mp \subseteq Keys
  BY DEF put, OrderInv, CacheInv, CacheTypeOK
<1>2. Recency!ToSet(ListOrder) = mp
  BY <1>1, OrderRead, MovedUpIs
<1>3. /\ mp' \subseteq mp \cup {k}
      /\ ListOrder' = IF Len(all) > capacity % SizeMod /\ k \notin Recency!ToSet(ListOrder)
                      THEN SubSeq(all, 1, Len(all) - 1)
                      ELSE all
  <2>1. CASE k \in mp
    <3>1. get_node(k) /\ mp' = mp
      BY <2>1 DEF put
    <3>2. ListOrder' = all
      BY <1>1, <2>1, <3>1, FoundMovesUp
    <3>3. QED
      BY <1>2, <2>1, <3>1, <3>2
  <2>2. CASE k \notin mp
    BY <1>2, <2>2, NewMovesUp
  <2>3. QED
    BY <2>1, <2>2
<1>4. Recency!ToSet(ListOrder)' = mp'
  <2>1. ChainOf(Links', ListOrder') /\ Members(ListOrder') = mp'
    <3>1. PICK q : ChainOf(Links', q) /\ Members(q) = mp'
      BY <1>1 DEF OrderInv, Chained
    <3>2. Cardinality(mp') = Len(q)
      BY <3>1, MembersCounted DEF ChainOf
    <3>3. OrderOf(Links'.next, mp') = q
      BY <3>1, <3>2, OrderIsChain
    <3>4. ListOrder' = q
      BY <3>3, OrderFacts DEF Links
    <3>5. QED
      BY <3>1, <3>4
  <2>2. ListOrder' \in Lists
    BY <2>1 DEF ChainOf
  <2>3. QED
    BY <2>1, <2>2, MovedUpIs
<1>5. [n \in mp' |-> val'[n]] =
          [n \in mp' |-> IF n = k THEN v ELSE [x \in mp |-> val[x]][n]]
  BY <1>1, <1>3
<1>6. QED
  <2> HIDE DEF all
  <2>1. [n \in mp' |-> val'[n]] = [n \in Recency!ToSet(ListOrder') |->
                                     IF n = k THEN v ELSE [x \in mp |-> val[x]][n]]
    BY <1>4, <1>5
  <2>2. QED
    BY <1>1, <1>3, <2>1 DEF Recency!Put, all

\* Every step keeps the order's invariant.
LEMMA OrderInvStep ==
  ASSUME OrderInv, [CacheNext]_cacheVars
  PROVE  OrderInv'
<1>1. CacheInv'
  BY CacheInvStep DEF OrderInv, Chained, NothingYet
<1>2. CASE Construct
  BY <1>1, <1>2, ConstructStutters DEF OrderInv
<1>3. ASSUME NEW k \in Keys, get(k) PROVE OrderInv'
  BY <1>1, <1>3, GetRefines DEF OrderInv
<1>4. ASSUME NEW k \in Keys, NEW v \in Values, put(k, v) PROVE OrderInv'
  <2>1. CASE k \in mp
    <3>1. cache = "built" /\ get_node(k) /\ UNCHANGED <<cache, mp>>
      BY <1>4, <2>1 DEF put
    <3>2. QED
      BY <1>1, <2>1, <3>1, FoundMovesUp DEF OrderInv
  <2>2. CASE k \notin mp
    BY <1>1, <1>4, <2>2, NewMovesUp DEF OrderInv
  <2>3. QED
    BY <2>1, <2>2
<1>5. CASE UNCHANGED cacheVars
  BY <1>1, <1>5 DEF cacheVars, links, OrderInv, Chained, Links
<1>6. QED
  BY <1>2, <1>3, <1>4, <1>5 DEF CacheNext

\* A step of the cache is one of the abstract cache or none.
LEMMA CacheStepRefines ==
  ASSUME OrderInv, OrderInv', [CacheNext]_cacheVars
  PROVE  [Recency!Next]_recencyVars
<1>1. CASE Construct
  BY <1>1, ConstructStutters
<1>2. ASSUME NEW k \in Keys, get(k) PROVE Recency!Next
  BY <1>2, GetRefines DEF Recency!Next
<1>3. ASSUME NEW k \in Keys, NEW v \in Values, put(k, v) PROVE Recency!Next
  BY <1>3, PutRefines DEF Recency!Next
<1>4. CASE UNCHANGED cacheVars
  <2>1. UNCHANGED <<capacity, mp, next, val, last>>
    BY <1>4 DEF cacheVars, links
  <2>2. ListOrder' = ListOrder
    BY <2>1, OrderFacts
  <2>3. QED
    BY <2>1, <2>2 DEF recencyVars
<1>5. QED
  BY <1>1, <1>2, <1>3, <1>4 DEF CacheNext

\* For every set of keys and every capacity: the list is the order of use, get
\* returns what was put last, and what put evicts is the least recently used.
THEOREM CacheIsRecency == CacheSpec => ImplementsRecency
<1>1. CacheInit => OrderInv /\ Recency!Init
  BY OrderInvInit
<1>2. OrderInv /\ [CacheNext]_cacheVars => OrderInv'
  BY OrderInvStep
<1>3. OrderInv /\ OrderInv' /\ [CacheNext]_cacheVars => [Recency!Next]_recencyVars
  BY CacheStepRefines
<1>4. QED
  BY <1>1, <1>2, <1>3, PTL DEF CacheSpec, ImplementsRecency, Recency!Spec, recencyVars

-----------------------------------------------------------------------------
(* Singleton: one object at most, and every caller gets it.                *)

\* A thread between lock and unlock holds the mutex; the one about to
\* construct has found no instance, and one past the mutex has found one.
Locking ==
    \A t \in Threads :
        /\ at[t] \in {"test", "new", "unlock"} => mtx_ = t
        /\ at[t] = "new" => instance = NoAddress
        /\ at[t] = "unlock" => instance # NoAddress

PointerInv == SingletonTypeOK /\ Locking /\ OneInstance

\* The invariant holds initially.
LEMMA PointerInvInit == SingletonInit => PointerInv
  BY SingletonAssumption DEF SingletonInit, PointerInv, SingletonTypeOK, Locking,
     OneInstance

\* The steps that leave the object alone.
LEMMA LockingKeepsInv ==
  ASSUME PointerInv, NEW t \in Threads,
         FirstTest(t) \/ LockMtx(t) \/ SecondTest(t) \/ UnlockMtx(t)
  PROVE  PointerInv'
<1>1. SingletonTypeOK'
  BY DEF FirstTest, LockMtx, SecondTest, UnlockMtx, GoTo, PointerInv, SingletonTypeOK
<1>2. Locking'
  BY SingletonAssumption DEF FirstTest, LockMtx, SecondTest, UnlockMtx, GoTo,
     PointerInv, SingletonTypeOK, Locking
<1>3. OneInstance'
  BY DEF FirstTest, LockMtx, SecondTest, UnlockMtx, GoTo, PointerInv, SingletonTypeOK,
     Locking, OneInstance
<1>4. QED
  BY <1>1, <1>2, <1>3 DEF PointerInv

\* Construction: the thread holds the mutex, so no other is about to construct
\* or has found an instance, and nobody was given one before.
LEMMA NewKeepsInv ==
  ASSUME PointerInv, NEW t \in Threads, NewInstance(t)
  PROVE  PointerInv'
<1>1. PICK a \in Addresses \ live : instance' = a /\ live' = live \cup {a}
  BY DEF NewInstance
<1>2. /\ at[t] = "new" /\ at' = [at EXCEPT ![t] = "unlock"]
      /\ mtx_ = t /\ UNCHANGED <<mtx_, got>>
      /\ instance = NoAddress /\ live = {} /\ a # NoAddress
  BY SingletonAssumption DEF NewInstance, GoTo, PointerInv, Locking, OneInstance
<1>3. SingletonTypeOK'
  BY <1>1, <1>2 DEF PointerInv, SingletonTypeOK
<1>4. Locking'
  BY <1>1, <1>2 DEF PointerInv, SingletonTypeOK, Locking
<1>5. OneInstance'
  BY <1>1, <1>2 DEF PointerInv, SingletonTypeOK, OneInstance
<1>6. QED
  BY <1>3, <1>4, <1>5 DEF PointerInv

\* The end of a call.
LEMMA ReturnKeepsInv ==
  ASSUME PointerInv, NEW t \in Threads, ReturnInstance(t)
  PROVE  PointerInv'
  BY DEF ReturnInstance, GoTo, PointerInv, SingletonTypeOK, Locking, OneInstance

\* destroyInstance, while nobody is in getInstance.
LEMMA DestroyKeepsInv ==
  ASSUME PointerInv, destroyInstance
  PROVE  PointerInv'
  BY SingletonAssumption DEF destroyInstance, PointerInv, SingletonTypeOK, Locking,
     OneInstance

\* Every step keeps the invariant.
LEMMA PointerInvStep ==
  ASSUME PointerInv, [SingletonNext]_singletonVars
  PROVE  PointerInv'
<1>1. CASE destroyInstance
  BY <1>1, DestroyKeepsInv
<1>2. ASSUME NEW t \in Threads, getInstance(t) PROVE PointerInv'
  BY <1>2, LockingKeepsInv, NewKeepsInv, ReturnKeepsInv DEF getInstance
<1>3. CASE UNCHANGED singletonVars
  BY <1>3 DEF singletonVars, PointerInv, SingletonTypeOK, Locking, OneInstance
<1>4. QED
  BY <1>1, <1>2, <1>3 DEF SingletonNext

\* The invariant holds always.
THEOREM PointerInvariance == SingletonSpec => []PointerInv
  BY PointerInvInit, PointerInvStep, PTL DEF SingletonSpec

\* Any number of threads construct one object at most and are all given it.
THEOREM AtMostOne == SingletonSpec => []OneInstance
<1>1. PointerInv => OneInstance
  BY DEF PointerInv
<1>2. QED
  BY <1>1, PointerInvariance, PTL

-----------------------------------------------------------------------------
(* quick_sort: the scans have no test for the ends of the range; what keeps *)
(* them inside is that each has an element ahead that stops it.            *)

\* Somewhere ahead of each index an element stops it.
StopsUp == \E s \in (i + 1)..right : nums[s] >= nums[pivot]
StopsDown == \E s \in left..(j - 1) : nums[s] <= nums[pivot]

Scanning ==
    loop # "call" =>
        /\ stack # <<>> /\ left < right
        /\ i \in (left - 1)..right /\ j \in left..(right + 1)
        /\ StopsDown
        /\ loop = "up" => StopsUp
        /\ loop = "down" => i >= left /\ nums[i] >= nums[pivot]

SortInv == SortTypeOK /\ Scanning

\* The call on top of the stack and its pivot.
LEMMA TopCall ==
  ASSUME SortInv, stack # <<>>
  PROVE  /\ left \in Nat /\ right \in Int /\ right < Length /\ Length \in Nat
         /\ stack[1] = <<left, right>>
         /\ Tail(stack) \in Seq(Calls)
         /\ left < right => pivot \in left..right
<1>1. 1 \in 1..Len(stack) /\ Tail(stack) \in Seq(Calls)
  BY EmptySeq, LenProperties, HeadTailProperties DEF SortInv, SortTypeOK
<1>2. stack[1] \in Calls
  BY <1>1, ElementOfSeq DEF SortInv, SortTypeOK
<1>3. /\ left \in Nat /\ right \in Int /\ right < Length /\ Length \in Nat
      /\ stack[1] = <<left, right>>
  BY <1>2 DEF left, right, Calls, SortInv, SortTypeOK
<1>4. left < right => pivot \in left..right
  BY <1>3 DEF pivot
<1>5. QED
  BY <1>1, <1>3, <1>4

\* nums[s] for a position of the call.
LEMMA InCall ==
  ASSUME SortInv, stack # <<>>, NEW s \in left..right
  PROVE  s \in 0..(Length - 1) /\ s \in DOMAIN nums /\ nums[s] \in Int
<1>1. s \in 0..(Length - 1)
  BY TopCall
<1>2. QED
  BY <1>1, SortAssumption DEF SortInv, SortTypeOK

LEMMA SortCallKeepsInv ==
  ASSUME SortInv, CallSort
  PROVE  SortInv'
<1>1. loop = "call" /\ stack # <<>> /\ UNCHANGED <<input, nums>> /\ Length' = Length /\ Calls' = Calls
  BY DEF CallSort, Length, Calls
<1>2. CASE left >= right
  <2>1. stack' = Tail(stack) /\ loop' = "call" /\ i' = i /\ j' = j
    BY <1>1, <1>2 DEF CallSort
  <2>2. QED
    BY <1>1, <2>1, TopCall DEF SortInv, SortTypeOK, Scanning
<1>3. CASE ~(left >= right)
  <2>1. loop' = "up" /\ i' = left - 1 /\ j' = right + 1 /\ stack' = stack
    BY <1>3 DEF CallSort
  <2>2. left' = left /\ right' = right /\ pivot' = pivot
    BY <2>1 DEF left, right, pivot
  <2>3. left \in Nat /\ right \in Int /\ left < right /\ pivot \in left..right
    BY <1>1, <1>3, TopCall
  <2>4. nums[pivot] \in Int
    BY <1>1, <2>3, InCall
  <2>5. pivot \in (i' + 1)..right /\ pivot \in left..(j' - 1)
    BY <2>1, <2>3
  <2>6. StopsUp' /\ StopsDown'
    BY <1>1, <2>2, <2>4, <2>5 DEF StopsUp, StopsDown
  <2>7. i' \in (left - 1)..right /\ j' \in left..(right + 1) /\ i' \in Int /\ j' \in Int
    BY <2>1, <2>3
  <2>8. Scanning'
    BY <1>1, <2>1, <2>2, <2>3, <2>6, <2>7 DEF Scanning
  <2>9. SortTypeOK'
    BY <1>1, <2>1, <2>7 DEF SortInv, SortTypeOK
  <2>10. QED
    BY <2>8, <2>9 DEF SortInv
<1>4. QED
  BY <1>2, <1>3

\* The scan from the left has an element that stops it, this one or one ahead.
LEMMA UpKeepsInv ==
  ASSUME SortInv, ScanUp
  PROVE  SortInv'
<1>1. /\ loop = "up" /\ i' = i + 1
      /\ loop' = IF nums[i + 1] < nums[pivot] THEN "up" ELSE "down"
      /\ input' = input /\ nums' = nums /\ stack' = stack /\ j' = j
      /\ Length' = Length /\ Calls' = Calls /\ left' = left /\ right' = right /\ pivot' = pivot
  BY DEF ScanUp, Length, Calls, left, right, pivot
<1>2. /\ stack # <<>> /\ left < right /\ i \in (left - 1)..right /\ j \in left..(right + 1)
      /\ StopsDown /\ StopsUp
  BY <1>1 DEF SortInv, Scanning
<1>3. left \in Nat /\ right \in Int /\ pivot \in left..right
  BY <1>2, TopCall
<1>4. PICK s \in (i + 1)..right : nums[s] >= nums[pivot]
  BY <1>2 DEF StopsUp
<1>5. i + 1 \in left..right /\ s \in left..right /\ i \in Int
  BY <1>2, <1>3
<1>6. nums[i + 1] \in Int /\ nums[s] \in Int /\ nums[pivot] \in Int
  BY <1>2, <1>3, <1>5, InCall
<1>7. loop' = "up" => StopsUp'
  <2>1. SUFFICES ASSUME nums[i + 1] < nums[pivot] PROVE StopsUp'
    BY <1>1
  <2>2. s # i + 1
    BY <1>4, <1>6, <2>1
  <2>3. s \in (i' + 1)..right
    BY <1>1, <1>5, <2>2
  <2>4. QED
    BY <1>1, <1>4, <2>3 DEF StopsUp
<1>8. loop' = "down" => i' >= left /\ nums[i'] >= nums[pivot]
  BY <1>1, <1>3, <1>5, <1>6
<1>9. StopsDown'
  BY <1>1, <1>2 DEF StopsDown
<1>10. i' \in (left - 1)..right /\ i' \in Int
  BY <1>1, <1>3, <1>5
<1>11. Scanning'
  BY <1>1, <1>2, <1>7, <1>8, <1>9, <1>10 DEF Scanning
<1>12. SortTypeOK'
  BY <1>1, <1>10 DEF SortInv, SortTypeOK
<1>13. QED
  BY <1>11, <1>12 DEF SortInv

\* The scan from the right likewise; the two elements that are swapped stop the
\* next scans, whichever of them the pivot's position holds.
LEMMA DownKeepsInv ==
  ASSUME SortInv, ScanDown
  PROVE  SortInv'
<1>1. /\ loop = "down" /\ j' = j - 1 /\ i' = i /\ input' = input
      /\ \/ /\ nums[j - 1] > nums[pivot]
            /\ nums' = nums /\ stack' = stack /\ loop' = "down"
         \/ /\ nums[j - 1] <= nums[pivot] /\ i < j - 1
            /\ nums' = Swapped(i, j - 1) /\ stack' = stack /\ loop' = "up"
         \/ /\ nums' = nums /\ stack' = Parts(j - 1) \o Tail(stack) /\ loop' = "call"
  BY DEF ScanDown
<1>2. /\ stack # <<>> /\ left < right /\ i \in left..right /\ j \in left..(right + 1)
      /\ StopsDown /\ nums[i] >= nums[pivot]
  BY <1>1, TopCall DEF SortInv, Scanning
<1>3. left \in Nat /\ right \in Int /\ pivot \in left..right
  BY <1>2, TopCall
<1>4. PICK s \in left..(j - 1) : nums[s] <= nums[pivot]
  BY <1>2 DEF StopsDown
<1>5. j - 1 \in left..right /\ s \in left..right /\ i \in Int /\ j \in Int
  BY <1>2, <1>3
<1>6. nums[j - 1] \in Int /\ nums[i] \in Int /\ nums[s] \in Int /\ nums[pivot] \in Int
  BY <1>2, <1>3, <1>5, InCall
<1>7. j' \in left..(right + 1) /\ j' \in Int /\ i' \in (left - 1)..right /\ i' \in Int /\ i' >= left
  BY <1>1, <1>2, <1>3, <1>5
<1>8. CASE nums[j - 1] > nums[pivot] /\ nums' = nums /\ stack' = stack /\ loop' = "down"
  <2>1. /\ left' = left /\ right' = right /\ pivot' = pivot /\ Length' = Length /\ Calls' = Calls
    BY <1>8 DEF left, right, pivot, Length, Calls
  <2>2. s # j - 1
    BY <1>4, <1>6, <1>8
  <2>3. s \in left..(j' - 1)
    BY <1>1, <1>5, <2>2
  <2>4. StopsDown'
    BY <1>4, <1>8, <2>1, <2>3 DEF StopsDown
  <2>5. Scanning'
    BY <1>1, <1>2, <1>7, <1>8, <2>1, <2>4 DEF Scanning
  <2>6. SortTypeOK'
    BY <1>1, <1>7, <1>8, <2>1 DEF SortInv, SortTypeOK
  <2>7. QED
    BY <2>5, <2>6 DEF SortInv
<1>9. CASE /\ nums[j - 1] <= nums[pivot] /\ i < j - 1
           /\ nums' = Swapped(i, j - 1) /\ stack' = stack /\ loop' = "up"
  <2> DEFINE k == j - 1
  <2>1. k \in 0..(Length - 1) /\ i \in 0..(Length - 1) /\ pivot \in 0..(Length - 1)
    BY <1>2, <1>3, <1>5, InCall
  <2>2. {input, nums} \subseteq [0..(Length - 1) -> Elements] /\ Length \in Nat
    BY DEF SortInv, SortTypeOK
  <2>3. /\ nums' \in [0..(Length - 1) -> Elements]
        /\ nums'[i] = nums[k] /\ nums'[k] = nums[i]
        /\ \A m \in 0..(Length - 1) : m # i /\ m # k => nums'[m] = nums[m]
    BY <1>9, <2>1, <2>2 DEF Swapped
  <2>4. Length' = Length
    BY <2>2, <2>3 DEF Length
  <2>5. left' = left /\ right' = right /\ pivot' = pivot /\ Calls' = Calls
    BY <1>9, <2>4 DEF left, right, pivot, Calls
  <2>6. nums'[k] >= nums'[pivot] /\ nums'[i] <= nums'[pivot]
    <3>1. nums[k] <= nums[pivot] /\ nums[i] >= nums[pivot] /\ k \in Int
          /\ nums[k] \in Int /\ nums[i] \in Int /\ nums[pivot] \in Int
      BY <1>2, <1>5, <1>6, <1>9
    <3> HIDE DEF k
    <3>2. CASE pivot = i
      BY <2>3, <3>1, <3>2
    <3>3. CASE pivot = k
      BY <2>3, <3>1, <3>3
    <3>4. CASE pivot # i /\ pivot # k
      BY <2>1, <2>3, <3>1, <3>4
    <3>5. QED
      BY <3>2, <3>3, <3>4
  <2>7. k \in (i' + 1)..right /\ i \in left..(j' - 1)
    BY <1>1, <1>2, <1>3, <1>5, <1>9
  <2>8. StopsUp' /\ StopsDown'
    BY <2>5, <2>6, <2>7 DEF StopsUp, StopsDown
  <2>9. Scanning'
    BY <1>2, <1>7, <1>9, <2>5, <2>8 DEF Scanning
  <2>10. SortTypeOK'
    BY <1>1, <1>7, <1>9, <2>2, <2>3, <2>4, <2>5 DEF SortInv, SortTypeOK
  <2>11. QED
    BY <2>9, <2>10 DEF SortInv
<1>10. CASE nums' = nums /\ stack' = Parts(j - 1) \o Tail(stack) /\ loop' = "call"
  <2>1. Length' = Length /\ Calls' = Calls
    BY <1>10 DEF Length, Calls
  <2>2. <<left, j - 1>> \in Calls /\ <<(j - 1) + 1, right>> \in Calls
    <3>1. left \in Nat /\ j - 1 \in Int /\ j - 1 < Length /\ (j - 1) + 1 \in Nat
          /\ right \in Int /\ right < Length
      BY <1>2, <1>3, <1>5, TopCall
    <3>2. QED
      BY <3>1 DEF Calls
  <2>3. Parts(j - 1) \in Seq(Calls)
    BY <2>2 DEF Parts
  <2>4. stack' \in Seq(Calls)
    BY <1>2, <1>10, <2>3, TopCall, ConcatProperties
  <2>5. QED
    BY <1>1, <1>7, <1>10, <2>1, <2>4 DEF SortInv, SortTypeOK, Scanning
<1>11. QED
  BY <1>1, <1>8, <1>9, <1>10

LEMMA SortInvInit == ASSUME SortInit PROVE SortInv
<1>1. PICK n \in 0..MaxLen : input \in [0..(n - 1) -> Elements]
  BY DEF SortInit
<1>2. n \in Nat
  BY SortAssumption
<1>3. Cardinality(0..(n - 1)) = n
  <2>1. 0 \in Int /\ n - 1 \in Int
    BY <1>2
  <2>2. Cardinality(0..(n - 1)) = IF 0 > n - 1 THEN 0 ELSE (n - 1) - 0 + 1
    BY <2>1, FS_Interval
  <2>3. QED
    BY <1>2, <2>2
<1>4. Length = n /\ {input, nums} \subseteq [0..(n - 1) -> Elements]
  BY <1>1, <1>3 DEF SortInit, Length
<1>5. stack = << <<0, n - 1>> >> /\ loop = "call" /\ i = 0 /\ j = 0
  BY <1>1, <1>3 DEF SortInit
<1>6. <<0, n - 1>> \in Calls
  BY <1>2, <1>4 DEF Calls
<1>7. stack \in Seq(Calls)
  BY <1>5, <1>6
<1>8. QED
  BY <1>2, <1>4, <1>5, <1>7 DEF SortInv, SortTypeOK, Scanning

LEMMA SortInvStep == ASSUME SortInv, [SortNext]_sortVars PROVE SortInv'
<1>1. CASE SortNext
  BY <1>1, SortCallKeepsInv, UpKeepsInv, DownKeepsInv DEF SortNext
<1>2. CASE UNCHANGED sortVars
  BY <1>2 DEF sortVars, SortInv, SortTypeOK, Scanning, Length, Calls, StopsUp, StopsDown,
     left, right, pivot
<1>3. QED
  BY <1>1, <1>2

\* The inner loops of quick_sort stay within the range they were given.
THEOREM SortStaysInRange == SortInit /\ [][SortNext]_sortVars => []IndexesInRange
<1>1. SortInv => IndexesInRange
  <2>1. ASSUME SortInv, loop = "up" PROVE i + 1 \in left..right
    <3>1. stack # <<>> /\ i \in (left - 1)..right /\ StopsUp
      BY <2>1 DEF SortInv, Scanning
    <3>2. QED
      BY <2>1, <3>1, TopCall DEF StopsUp
  <2>2. ASSUME SortInv, loop = "down" PROVE j - 1 \in left..right
    <3>1. stack # <<>> /\ j \in left..(right + 1) /\ StopsDown
      BY <2>2 DEF SortInv, Scanning
    <3>2. QED
      BY <2>2, <3>1, TopCall DEF StopsDown
  <2>3. QED
    BY <2>1, <2>2 DEF IndexesInRange
<1>2. QED
  BY <1>1, SortInvInit, SortInvStep, PTL

\* The elements are those that were given, each as often as it was.
SameValues ==
    \E p \in Bijection(DOMAIN nums, DOMAIN input) :
        \A m \in DOMAIN nums : nums[m] = input[p[m]]

\* What a split leaves to do: two parts, none of which is the whole range.
SplitShrinks ==
    loop = "down" /\ loop' = "call" =>
        /\ stack' = Parts(j') \o Tail(stack)
        /\ j' \in left..(right - 1)

\* Until the scan from the right has begun, the one from the left has not
\* passed the pivot's position.
FirstRound ==
    loop # "call" /\ j = right + 1 =>
        i <= pivot /\ (loop = "up" => i < pivot)

\* A swap reorders.
LEMMA SwapKeepsValues ==
  ASSUME SortInv, SameValues, UNCHANGED input,
         NEW m \in DOMAIN nums, NEW n \in DOMAIN nums, nums' = Swapped(m, n)
  PROVE  SameValues'
<1> DEFINE D == DOMAIN nums
<1>1. PICK p \in Bijection(D, DOMAIN input) : \A x \in D : nums[x] = input[p[x]]
  BY DEF SameValues
<1>2. /\ p \in [D -> DOMAIN input]
      /\ \A x, y \in D : p[x] = p[y] => x = y
      /\ \A z \in DOMAIN input : \E x \in D : p[x] = z
  BY <1>1 DEF Bijection, Injection, Surjection, IsInjective
<1> DEFINE r == [p EXCEPT ![m] = p[n], ![n] = p[m]]
<1>3. nums \in [D -> Elements]
  BY DEF SortInv, SortTypeOK
<1> HIDE DEF D
<1>4. m \in D /\ n \in D
  BY DEF D
<1>5. /\ DOMAIN nums' = D
      /\ \A x \in D : nums'[x] = IF x = n THEN nums[m] ELSE IF x = m THEN nums[n] ELSE nums[x]
  BY <1>3, <1>4 DEF Swapped
<1>6. /\ r \in [D -> DOMAIN input]
      /\ \A x \in D : r[x] = IF x = n THEN p[m] ELSE IF x = m THEN p[n] ELSE p[x]
  BY <1>2, <1>4
<1> HIDE DEF r
<1>7. \A x \in D : nums'[x] = input[r[x]]
  BY <1>1, <1>4, <1>5, <1>6
<1>8. \A x, y \in D : r[x] = r[y] => x = y
  BY <1>2, <1>4, <1>6
<1>9. \A z \in DOMAIN input : \E x \in D : r[x] = z
  <2>1. TAKE z \in DOMAIN input
  <2>2. PICK x \in D : p[x] = z
    BY <1>2
  <2>3. CASE x = m
    BY <1>4, <1>6, <2>2, <2>3
  <2>4. CASE x = n
    BY <1>4, <1>6, <2>2, <2>4
  <2>5. CASE x # m /\ x # n
    BY <1>6, <2>2, <2>5
  <2>6. QED
    BY <2>3, <2>4, <2>5
<1>10. r \in Bijection(D, DOMAIN input)
  BY <1>6, <1>8, <1>9 DEF Bijection, Injection, Surjection, IsInjective
<1>11. QED
  BY <1>5, <1>7, <1>10 DEF SameValues

ReorderInv == SortInv /\ SameValues /\ FirstRound

\* Initially nothing has been reordered.
LEMMA ReorderInvInit == ASSUME SortInit PROVE ReorderInv
<1>1. SortInv /\ nums = input /\ loop = "call"
  BY SortInvInit DEF SortInit
<1>2. SameValues
  <2> DEFINE D == DOMAIN input
             p == [x \in D |-> x]
  <2>1. p \in Bijection(D, D)
    BY DEF Bijection, Injection, Surjection, IsInjective
  <2>2. \A x \in D : nums[x] = input[p[x]]
    BY <1>1
  <2> HIDE DEF p
  <2>3. QED
    BY <1>1, <2>1, <2>2 DEF SameValues
<1>3. QED
  BY <1>1, <1>2 DEF ReorderInv, FirstRound

\* A split leaves two shorter ranges: in the first round the scan from the left
\* ends at the pivot or before it, so that a swap follows, and after a swap the
\* scan from the right has left the end of the range.
LEMMA SplitIsShorter ==
  ASSUME ReorderInv, ScanDown
  PROVE  SplitShrinks
<1> SUFFICES ASSUME loop' = "call" PROVE SplitShrinks
  BY DEF SplitShrinks
<1>1. loop = "down" /\ j' = j - 1 /\ i >= j - 1 /\ stack' = Parts(j') \o Tail(stack)
  BY DEF ScanDown
<1>2. /\ stack # <<>> /\ left < right /\ j \in left..(right + 1) /\ StopsDown
      /\ i \in (left - 1)..right
  BY <1>1 DEF ReorderInv, SortInv, Scanning
<1>3. left \in Nat /\ right \in Int /\ pivot \in left..right
  BY <1>2, TopCall DEF ReorderInv
<1>4. j - 1 \in left..right
  BY <1>2, <1>3 DEF StopsDown
<1>5. pivot < right
  BY <1>2, <1>3 DEF pivot
<1>6. j # right + 1
  <2>1. SUFFICES ASSUME j = right + 1 PROVE FALSE
    OBVIOUS
  <2>2. i <= pivot
    BY <1>1, <2>1 DEF ReorderInv, FirstRound
  <2>3. QED
    BY <1>1, <1>2, <1>3, <1>5, <2>1, <2>2
<1>7. j' \in left..(right - 1)
  <2>1. j' = j - 1 /\ j \in Int /\ left \in Int /\ right \in Int
    BY <1>1, <1>2, <1>3
  <2>2. QED
    BY <1>4, <1>6, <2>1
<1>8. QED
  BY <1>1, <1>7 DEF SplitShrinks

\* Every step keeps the strengthened invariant.
LEMMA ReorderInvStep ==
  ASSUME ReorderInv, [SortNext]_sortVars
  PROVE  ReorderInv'
<1>1. SortInv'
  BY SortInvStep DEF ReorderInv
<1>2. CASE CallSort
  <2>1. UNCHANGED <<input, nums>>
    BY <1>2 DEF CallSort
  <2>2. SameValues'
    BY <2>1 DEF ReorderInv, SameValues
  <2>3. FirstRound'
    <3>1. SUFFICES ASSUME loop' # "call" PROVE FirstRound'
      BY DEF FirstRound
    <3>2. /\ loop = "call" /\ stack # <<>> /\ left < right
          /\ i' = left - 1 /\ UNCHANGED stack
      BY <1>2, <3>1, TopCall DEF CallSort, ReorderInv
    <3>3. pivot \in left..right /\ left \in Nat /\ pivot' = pivot
      BY <3>2, TopCall DEF ReorderInv, pivot, left, right
    <3>4. QED
      BY <3>2, <3>3 DEF FirstRound
  <2>4. QED
    BY <1>1, <2>2, <2>3 DEF ReorderInv
<1>3. CASE ScanUp
  <2>1. /\ UNCHANGED <<input, nums, stack, j>> /\ loop = "up" /\ i' = i + 1
        /\ loop' = IF nums[i + 1] < nums[pivot] THEN "up" ELSE "down"
    BY <1>3 DEF ScanUp
  <2>2. SameValues'
    BY <2>1 DEF ReorderInv, SameValues
  <2>3. FirstRound'
    <3>1. pivot' = pivot /\ right' = right
      BY <2>1 DEF pivot, left, right
    <3>2. stack # <<>> /\ left < right /\ i \in Int
      BY <2>1 DEF ReorderInv, SortInv, Scanning, SortTypeOK
    <3>3. pivot \in left..right /\ left \in Nat /\ nums[pivot] \in Int
      BY <3>2, TopCall, InCall DEF ReorderInv
    <3>4. j = right + 1 => i < pivot
      BY <2>1 DEF ReorderInv, FirstRound
    <3>5. loop' = "up" => i + 1 # pivot
      BY <2>1, <3>3
    <3>6. QED
      BY <2>1, <3>1, <3>2, <3>3, <3>4, <3>5 DEF FirstRound
  <2>4. QED
    BY <1>1, <2>2, <2>3 DEF ReorderInv
<1>4. CASE ScanDown
  <2>1. /\ UNCHANGED <<input, i>> /\ loop = "down" /\ j' = j - 1 /\ j - 1 \in DOMAIN nums
        /\ \/ nums' = nums
           \/ nums' = Swapped(i, j - 1)
        /\ loop' # "call" => stack' = stack
    BY <1>4 DEF ScanDown
  <2>2. stack # <<>> /\ j \in left..(right + 1) /\ left < right /\ i \in left..right
    BY <2>1, TopCall DEF ReorderInv, SortInv, Scanning
  <2>3. left \in Nat /\ right \in Int /\ i \in DOMAIN nums
    BY <2>2, TopCall, InCall DEF ReorderInv
  <2>4. SameValues'
    <3>1. CASE nums' = nums
      BY <2>1, <3>1 DEF ReorderInv, SameValues
    <3>2. CASE nums' = Swapped(i, j - 1)
      BY <2>1, <2>3, <3>2, SwapKeepsValues DEF ReorderInv
    <3>3. QED
      BY <2>1, <3>1, <3>2
  <2>5. FirstRound'
    <3>1. SUFFICES ASSUME loop' # "call" PROVE j' # right' + 1
      BY DEF FirstRound
    <3>2. right' = right
      BY <2>1, <3>1 DEF right
    <3>3. QED
      BY <2>1, <2>2, <2>3, <3>2
  <2>6. QED
    BY <1>1, <2>4, <2>5 DEF ReorderInv
<1>5. CASE UNCHANGED sortVars
  BY <1>1, <1>5 DEF sortVars, ReorderInv, SameValues, FirstRound, left, right, pivot
<1>6. QED
  BY <1>2, <1>3, <1>4, <1>5 DEF SortNext

\* quick_sort loses no element and makes none up, in any state of it.
THEOREM SortKeepsValues == SortInit /\ [][SortNext]_sortVars => []SameValues
<1>1. ReorderInv => SameValues
  BY DEF ReorderInv
<1>2. QED
  BY <1>1, ReorderInvInit, ReorderInvStep, PTL

\* Neither of the calls a range ends in has the whole range, which is why the
\* recursion ends.
THEOREM SplitsShrink == SortInit /\ [][SortNext]_sortVars => [][SplitShrinks]_sortVars
<1>1. ReorderInv /\ [SortNext]_sortVars => [SplitShrinks]_sortVars
  <2> SUFFICES ASSUME ReorderInv, SortNext PROVE SplitShrinks
    OBVIOUS
  <2>1. CASE CallSort \/ ScanUp
    BY <2>1 DEF CallSort, ScanUp, SplitShrinks
  <2>2. CASE ScanDown
    BY <2>2, SplitIsShorter
  <2>3. QED
    BY <2>1, <2>2 DEF SortNext
<1>2. QED
  BY <1>1, ReorderInvInit, ReorderInvStep, PTL

-----------------------------------------------------------------------------
(* Logger: the flag and the file may change at every step of a call; the   *)
(* history of the call says where the line may go.                         *)

\* Who is past LogLock and not out again holds the mutex.
HoldsMutex == \A t \in Loggers : step[t] \in {"open", "write"} <=> mtx = t

\* The history of a running call names where a line written now belongs, and
\* the call has written none.
Recorded == \A t \in Loggers : step[t] # "out" => Sink \in named[t] /\ sinks[t] = {}

\* A thread that is about to write and has no file found the flag unset when
\* it looked, or could not open log.txt.
ReasonForConsole ==
    \A t \in Loggers :
        step[t] = "write" /\ logFile = Closed => broken[t] \/ Console \in named[t]

LoggerInv == /\ LoggerTypeOK /\ HoldsMutex /\ Recorded /\ ReasonForConsole
             /\ LineWhereSettingsSaid

\* A line has one place to go at any time.
LEMMA SinkType == ASSUME LoggerTypeOK PROVE Sink \in Files \cup {Console}
  BY LoggerAssumption DEF LoggerTypeOK, Sink

\* The history of a step.
LEMMA NamedStep ==
  ASSUME LoggerInv, LoggerNext,
         logFile' \in Files \cup {Closed}, IsOutputToFile' \in BOOLEAN
  PROVE  /\ named' \in [Loggers -> SUBSET (Files \cup {Console})]
         /\ \A t \in Loggers :
               /\ step[t] # "out" => named'[t] = named[t] \cup {Sink'}
               /\ step[t] = "out" /\ step'[t] # "lock" => named'[t] = named[t]
               /\ step[t] = "out" /\ step'[t] = "lock" => named'[t] = {Sink}
<1>1. named' = [t \in Loggers |->
                    IF step[t] = "out" /\ step'[t] = "lock" THEN {Sink}
                    ELSE IF step[t] = "out" THEN named[t]
                    ELSE named[t] \cup {Sink'}]
  BY DEF LoggerNext
<1>2. Sink' \in Files \cup {Console} /\ Sink \in Files \cup {Console}
  BY SinkType, LoggerAssumption DEF LoggerInv, Sink
<1>3. \A t \in Loggers : named[t] \subseteq Files \cup {Console}
  BY DEF LoggerInv, LoggerTypeOK
<1>4. QED
  BY <1>1, <1>2, <1>3

\* A thread that does not move: others write nothing in its place, and take the
\* file away from it only with the mutex.
LEMMA BystanderKeeps ==
  ASSUME LoggerInv, LoggerNext,
         logFile' \in Files \cup {Closed}, IsOutputToFile' \in BOOLEAN,
         NEW t \in Loggers,
         step'[t] = step[t], sinks'[t] = sinks[t], broken'[t] = broken[t],
         step[t] = "write" => logFile' = logFile
  PROVE  /\ step'[t] # "out" => Sink' \in named'[t] /\ sinks'[t] = {}
         /\ step'[t] = "write" /\ logFile' = Closed => broken'[t] \/ Console \in named'[t]
         /\ step'[t] = "out" =>
               \A s \in sinks'[t] : s \in named'[t] \/ (s = Console /\ broken'[t])
<1>1. step[t] # "out" => named'[t] = named[t] \cup {Sink'}
  BY NamedStep
<1>2. step[t] = "out" => named'[t] = named[t]
  BY NamedStep
<1>3. QED
  BY <1>1, <1>2 DEF LoggerInv, Recorded, ReasonForConsole, LineWhereSettingsSaid

\* The settings change: the file only while nobody has the mutex.
LEMMA SettingKeepsInv ==
  ASSUME LoggerInv, LoggerNext, UNCHANGED <<mtx, calls>>,
         level' \in Levels, IsOutputToFile' \in BOOLEAN, logFile' \in Files \cup {Closed},
         logFile' = logFile \/ mtx = NoHolder
  PROVE  LoggerInv'
<1>1. UNCHANGED <<mtx, step, msgLevel, sinks, broken>>
  BY DEF calls
<1>2. \A t \in Loggers : step[t] = "write" => logFile' = logFile
  BY LoggerAssumption DEF LoggerInv, HoldsMutex
<1>3. LoggerTypeOK'
  BY <1>1, NamedStep DEF LoggerInv, LoggerTypeOK
<1>4. HoldsMutex'
  BY <1>1 DEF LoggerInv, HoldsMutex
<1>5. Recorded' /\ ReasonForConsole' /\ LineWhereSettingsSaid'
  BY <1>1, <1>2, BystanderKeeps DEF Recorded, ReasonForConsole, LineWhereSettingsSaid
<1>6. QED
  BY <1>3, <1>4, <1>5 DEF LoggerInv

\* The steps of a call.
LEMMA LogCallKeepsInv ==
  ASSUME LoggerInv, LoggerNext, NEW t \in Loggers,
         \/ \E lev \in Levels : LogCall(t, lev)
         \/ LogLock(t) \/ LogOpen(t) \/ LogWrite(t)
  PROVE  LoggerInv'
<1>1. /\ step \in [Loggers -> {"out", "lock", "open", "write"}]
      /\ msgLevel \in [Loggers -> Levels]
      /\ sinks \in [Loggers -> SUBSET (Files \cup {Console})]
      /\ broken \in [Loggers -> BOOLEAN]
      /\ level \in Levels /\ IsOutputToFile \in BOOLEAN /\ logFile \in Files \cup {Closed}
      /\ mtx \in Loggers \cup {NoHolder} /\ LogTxt \in Files /\ Closed \notin Files
      /\ NoHolder \notin Loggers
  BY LoggerAssumption DEF LoggerInv, LoggerTypeOK
<1>2. /\ level' = level /\ IsOutputToFile' = IsOutputToFile
      /\ logFile' \in Files \cup {Closed}
      /\ logFile' # logFile => step[t] = "open"
      /\ \A u \in Loggers : u # t =>
            step'[u] = step[u] /\ sinks'[u] = sinks[u] /\ broken'[u] = broken[u]
  BY <1>1 DEF LogCall, LogLock, LogOpen, LogWrite, StepTo, shared
<1>3. \A u \in Loggers : u # t /\ step[u] = "write" => logFile' = logFile
  BY <1>2 DEF LoggerInv, HoldsMutex
<1>4. /\ step' \in [Loggers -> {"out", "lock", "open", "write"}]
      /\ msgLevel' \in [Loggers -> Levels]
      /\ sinks' \in [Loggers -> SUBSET (Files \cup {Console})]
      /\ broken' \in [Loggers -> BOOLEAN]
      /\ mtx' \in Loggers \cup {NoHolder}
  <2>1. CASE \E lev \in Levels : LogCall(t, lev)
    BY <1>1, <2>1 DEF LogCall, StepTo, shared
  <2>2. CASE LogLock(t)
    BY <1>1, <2>2 DEF LogLock, StepTo
  <2>3. CASE LogOpen(t)
    BY <1>1, <2>3 DEF LogOpen, StepTo
  <2>4. CASE LogWrite(t)
    <3>1. (IF IsOutputToFile /\ logFile # Closed THEN logFile ELSE Console)
             \in Files \cup {Console}
      BY <1>1
    <3>2. QED
      BY <1>1, <2>4, <3>1 DEF LogWrite, StepTo
  <2>5. QED
    BY <2>1, <2>2, <2>3, <2>4
<1>5. LoggerTypeOK'
  BY <1>1, <1>2, <1>4, NamedStep DEF LoggerTypeOK
<1>6. HoldsMutex'
  BY <1>1, <1>2 DEF LogCall, LogLock, LogOpen, LogWrite, StepTo, shared, LoggerInv, HoldsMutex
<1>7. /\ step'[t] # "out" => Sink' \in named'[t] /\ sinks'[t] = {}
      /\ step'[t] = "write" /\ logFile' = Closed => broken'[t] \/ Console \in named'[t]
      /\ step'[t] = "out" =>
            \A s \in sinks'[t] : s \in named'[t] \/ (s = Console /\ broken'[t])
  <2>1. step[t] # "out" => named'[t] = named[t] \cup {Sink'} /\ Sink \in named[t] /\ sinks[t] = {}
    BY <1>1, <1>2, NamedStep DEF LoggerInv, Recorded
  <2>2. CASE \E lev \in Levels : LogCall(t, lev)
    <3>1. step[t] = "out" /\ step'[t] \in {"out", "lock"} /\ sinks'[t] = {}
          /\ UNCHANGED <<IsOutputToFile, logFile>>
      BY <1>1, <2>2 DEF LogCall, StepTo, shared
    <3>2. Sink' = Sink
      BY <3>1 DEF Sink
    <3>3. step'[t] = "lock" => named'[t] = {Sink}
      BY <1>1, <1>2, <3>1, NamedStep
    <3>4. QED
      BY <3>1, <3>2, <3>3
  <2>3. CASE LogLock(t)
    <3>1. step[t] = "lock" /\ step'[t] = "open" /\ sinks'[t] = sinks[t]
      BY <1>1, <2>3 DEF LogLock, StepTo
    <3>2. QED
      BY <2>1, <3>1
  <2>4. CASE LogOpen(t)
    <3>1. step[t] = "open" /\ step'[t] = "write" /\ sinks'[t] = sinks[t]
      BY <1>1, <2>4 DEF LogOpen, StepTo
    <3>2. logFile' = Closed => broken'[t] \/ Sink = Console
      BY <1>1, <2>4 DEF LogOpen, Sink
    <3>3. QED
      BY <2>1, <3>1, <3>2
  <2>5. CASE LogWrite(t)
    <3>1. /\ step[t] = "write" /\ step'[t] = "out" /\ broken'[t] = broken[t]
          /\ sinks'[t] = sinks[t] \cup
                 {IF IsOutputToFile /\ logFile # Closed THEN logFile ELSE Console}
      BY <1>1, <2>5 DEF LogWrite, StepTo
    <3>2. logFile = Closed => broken[t] \/ Console \in named[t]
      BY <3>1 DEF LoggerInv, ReasonForConsole
    <3>3. QED
      BY <2>1, <3>1, <3>2 DEF Sink
  <2>6. QED
    BY <2>2, <2>3, <2>4, <2>5
<1>8. ASSUME NEW u \in Loggers
      PROVE  /\ step'[u] # "out" => Sink' \in named'[u] /\ sinks'[u] = {}
             /\ step'[u] = "write" /\ logFile' = Closed => broken'[u] \/ Console \in named'[u]
             /\ step'[u] = "out" =>
                   \A s \in sinks'[u] : s \in named'[u] \/ (s = Console /\ broken'[u])
  <2>1. CASE u = t
    BY <1>7, <2>1
  <2>2. CASE u # t
    <3>1. step'[u] = step[u] /\ sinks'[u] = sinks[u] /\ broken'[u] = broken[u]
          /\ (step[u] = "write" => logFile' = logFile) /\ IsOutputToFile' \in BOOLEAN
      BY <1>1, <1>2, <1>3, <2>2
    <3>2. QED
      BY <1>2, <3>1, BystanderKeeps
  <2>3. QED
    BY <2>1, <2>2
<1>9. Recorded' /\ ReasonForConsole' /\ LineWhereSettingsSaid'
  BY <1>8 DEF Recorded, ReasonForConsole, LineWhereSettingsSaid
<1>10. QED
  BY <1>5, <1>6, <1>9 DEF LoggerInv

LEMMA LoggerInvInit == ASSUME LoggerInit PROVE LoggerInv
<1>1. LoggerTypeOK
  <2>1. level \in Levels
    BY DEF LoggerInit, Levels
  <2>2. /\ IsOutputToFile \in BOOLEAN /\ logFile \in Files \cup {Closed}
        /\ mtx \in Loggers \cup {NoHolder}
        /\ step \in [Loggers -> {"out", "lock", "open", "write"}]
        /\ sinks \in [Loggers -> SUBSET (Files \cup {Console})]
        /\ broken \in [Loggers -> BOOLEAN]
        /\ named \in [Loggers -> SUBSET (Files \cup {Console})]
    BY DEF LoggerInit
  <2>3. msgLevel \in [Loggers -> Levels]
    BY DEF LoggerInit, Levels
  <2>4. QED
    BY <2>1, <2>2, <2>3 DEF LoggerTypeOK
<1>2. HoldsMutex /\ Recorded /\ ReasonForConsole /\ LineWhereSettingsSaid
  BY LoggerAssumption
  DEF LoggerInit, HoldsMutex, Recorded, ReasonForConsole, LineWhereSettingsSaid
<1>3. QED
  BY <1>1, <1>2 DEF LoggerInv

LEMMA LoggerInvStep == ASSUME LoggerInv, [LoggerNext]_loggerVars PROVE LoggerInv'
<1>1. CASE UNCHANGED loggerVars
  BY <1>1 DEF loggerVars, shared, calls, LoggerInv, LoggerTypeOK, HoldsMutex, Recorded,
     ReasonForConsole, LineWhereSettingsSaid, Sink
<1>2. CASE LoggerNext
  <2>1. LoggerStep
    BY <1>2 DEF LoggerNext
  <2>2. CASE \E t \in Loggers : \/ \E lev \in Levels : LogCall(t, lev)
                                \/ LogLock(t) \/ LogOpen(t) \/ LogWrite(t)
    BY <1>2, <2>2, LogCallKeepsInv
  <2>3. level \in Levels /\ IsOutputToFile \in BOOLEAN /\ logFile \in Files \cup {Closed}
    BY DEF LoggerInv, LoggerTypeOK
  <2>4. CASE \/ \E lev \in Levels : SetLevel(lev)
             \/ \E to \in BOOLEAN : SetOutputToFile(to)
             \/ \E filename \in Files : SetLogFile(filename)
    <3>1. /\ UNCHANGED <<mtx, calls>> /\ level' \in Levels /\ IsOutputToFile' \in BOOLEAN
          /\ logFile' \in Files \cup {Closed} /\ (logFile' = logFile \/ mtx = NoHolder)
      BY <2>3, <2>4 DEF SetLevel, SetOutputToFile, SetLogFile
    <3>2. QED
      BY <1>2, <3>1, SettingKeepsInv
  <2>5. QED
    BY <2>1, <2>2, <2>4 DEF LoggerStep
<1>3. QED
  BY <1>1, <1>2

\* A line goes where the settings pointed at some time during its call, or to
\* the console because log.txt could not be opened.
THEOREM LinesGoWhereSaid == LoggerSpec => []LineWhereSettingsSaid
<1>1. LoggerInv => LineWhereSettingsSaid
  BY DEF LoggerInv
<1>2. QED
  BY <1>1, LoggerInvInit, LoggerInvStep, PTL DEF LoggerSpec

-----------------------------------------------------------------------------
(* Timer: what the cutting of durations to milliseconds loses.             *)

\* Cutting a duration to milliseconds loses less than one.
LEMMA MillisLoss ==
  ASSUME NEW d \in Nat
  PROVE  /\ Millis(d) \in Int
         /\ d - Tick * Millis(d) \in 0..(Tick - 1)
<1>1. Tick \in Nat \ {0}
  BY TimerAssumption
<1>2. \A n \in Nat, m \in Nat \ {0} :
         /\ n \div m \in Int
         /\ m * (n \div m) <= n /\ n < m * (n \div m) + m
  BY SMT
<1>3. Millis(d) \in Int /\ Tick * Millis(d) <= d /\ d < Tick * Millis(d) + Tick
  BY <1>1, <1>2 DEF Millis
<1> DEFINE x == Tick * Millis(d)
<1>4. x \in Int
  BY <1>1, <1>3
<1> HIDE DEF x
<1>5. d - x \in 0..(Tick - 1)
  BY <1>1, <1>3, <1>4 DEF x
<1>6. QED
  BY <1>3, <1>5 DEF x

\* Of m units of which t - f milliseconds were counted; and the most that n
\* measurements can lose.
Lost(m, t, f) == m - Tick * (t - f)
Most(n) == n * (Tick - 1)

TimerInv ==
    /\ TimerTypeOK
    /\ Lost(measured, total_time_, first) \in 0..Most(stops)

\* One more measurement, of d units.
LEMMA OneMore ==
  ASSUME TimerInv, NEW d \in Nat
  PROVE  Lost(measured + d, total_time_ + Millis(d), first) \in 0..Most(stops + 1)
<1>1. /\ Tick \in Nat \ {0} /\ Millis(d) \in Int
      /\ measured \in Nat /\ stops \in Nat /\ total_time_ - first \in Int
      /\ total_time_ \in Int /\ first \in Int
  BY TimerAssumption, MillisLoss DEF TimerInv, TimerTypeOK
<1>2. \A a, b \in Int : Tick * (a + b) = Tick * a + Tick * b /\ Tick * a \in Int
  BY <1>1
<1>3. (stops + 1) * (Tick - 1) = stops * (Tick - 1) + (Tick - 1) /\ stops * (Tick - 1) \in Int
  BY <1>1
<1> DEFINE x == Tick * Millis(d)
           y == Tick * (total_time_ - first)
           z == stops * (Tick - 1)
<1>4. (total_time_ + Millis(d)) - first = (total_time_ - first) + Millis(d)
  BY <1>1
<1>5. Tick * ((total_time_ + Millis(d)) - first) = y + x
  BY <1>1, <1>2, <1>4
<1>6. x \in Int /\ y \in Int /\ z \in Int /\ d - x \in 0..(Tick - 1) /\ measured - y \in 0..z
  BY <1>1, <1>2, <1>3, MillisLoss DEF TimerInv, Lost, Most
<1> HIDE DEF x, y, z
<1> DEFINE e == Tick * ((total_time_ + Millis(d)) - first)
<1>7. e = y + x
  BY <1>5
<1> HIDE DEF e
<1>8. (measured + d) - e \in 0..(z + (Tick - 1))
  BY <1>1, <1>6, <1>7
<1>9. Lost(measured + d, total_time_ + Millis(d), first) = (measured + d) - e
  BY DEF Lost, e
<1>10. Most(stops + 1) = z + (Tick - 1)
  BY <1>3 DEF z, Most
<1>11. QED
  BY <1>8, <1>9, <1>10

LEMMA TimerInvInit == ASSUME TimerInit PROVE TimerInv
<1>1. total_time_ \in Int /\ total_time_ - first = 0 /\ Tick \in Nat
  BY TimerAssumption DEF TimerInit
<1>2. is_running_ \in BOOLEAN
  BY DEF TimerInit
<1>3. /\ {now, start_time_, stop_time_, measured, stops} \subseteq Nat
      /\ {total_time_, first} \subseteq Int /\ start_time_ <= now
  BY <1>1 DEF TimerInit
<1>4. Tick * 0 = 0 /\ 0 * (Tick - 1) = 0
  BY <1>1
<1>5. Lost(measured, total_time_, first) = 0 /\ Most(stops) = 0
  BY <1>1, <1>4 DEF TimerInit, Lost, Most
<1>6. QED
  BY <1>1, <1>2, <1>3, <1>5 DEF TimerInv, TimerTypeOK

LEMMA TimerInvStep == ASSUME TimerInv, [TimerNext]_timerVars PROVE TimerInv'
<1>1. CASE Passes \/ start \/ UNCHANGED timerVars
  <2>1. UNCHANGED <<total_time_, first, measured, stops>>
    BY <1>1 DEF Passes, start, timerVars
  <2>2. TimerTypeOK'
    <3>1. {now', start_time_', stop_time_'} \subseteq Nat /\ start_time_' <= now'
      BY <1>1 DEF Passes, start, timerVars, TimerInv, TimerTypeOK
    <3>2. is_running_' \in BOOLEAN
      BY <1>1 DEF Passes, start, timerVars, TimerInv, TimerTypeOK
    <3>3. QED
      BY <2>1, <3>1, <3>2 DEF TimerInv, TimerTypeOK
  <2>3. QED
    BY <2>1, <2>2 DEF TimerInv
<1>2. CASE stop
  <2> DEFINE d == now - start_time_
  <2>1. d \in Nat
    BY DEF TimerInv, TimerTypeOK
  <2>2. /\ total_time_' = total_time_ + Millis(d) /\ measured' = measured + d
        /\ stops' = stops + 1 /\ is_running_' = FALSE
        /\ now' = now /\ stop_time_' = now /\ start_time_' = start_time_ /\ first' = first
    BY <1>2 DEF stop
  <2> HIDE DEF d
  <2>3. TimerTypeOK'
    <3>1. is_running_' \in BOOLEAN
      BY <2>2
    <3>2. Millis(d) \in Int
      BY <2>1, MillisLoss
    <3>3. QED
      BY <2>1, <2>2, <3>1, <3>2 DEF TimerInv, TimerTypeOK
  <2>4. Lost(measured, total_time_, first)' \in 0..Most(stops)'
    <3>1. Lost(measured + d, total_time_ + Millis(d), first) \in 0..Most(stops + 1)
      BY <2>1, OneMore
    <3>2. QED
      BY <2>2, <3>1 DEF Lost, Most
  <2>5. QED
    BY <2>3, <2>4 DEF TimerInv
<1>3. QED
  BY <1>1, <1>2 DEF TimerNext

\* The time shown is short of the time measured by less than a millisecond per
\* measurement, and never ahead of it.
THEOREM TimerLosesLittle == TimerInit /\ [][TimerNext]_timerVars => []LosesUnderAMilliPerStop
<1>1. TimerInv => LosesUnderAMilliPerStop
  <2> DEFINE d == now - start_time_
  <2>1. SUFFICES ASSUME TimerInv PROVE LosesUnderAMilliPerStop
    OBVIOUS
  <2>2. /\ d \in Nat /\ measured \in Nat /\ stops \in Nat
    BY <2>1 DEF TimerInv, TimerTypeOK
  <2>3. /\ total_time_ \in Int /\ first \in Int /\ Tick \in Nat /\ Millis(d) \in Int
        /\ \A a, b \in Int : a * b \in Int
    BY <2>1, <2>2, TimerAssumption, MillisLoss DEF TimerInv, TimerTypeOK
  <2>4. CASE is_running_ = TRUE
    <3>1. elapsed = total_time_ + Millis(d)
      BY <2>4 DEF elapsed
    <3>2. Lost(measured + d, elapsed, first) \in 0..Most(stops + 1)
      BY <2>1, <2>2, <3>1, OneMore
    <3>3. elapsed - first \in Int
      BY <2>3, <3>1
    <3> DEFINE x == Tick * (elapsed - first)
               y == Most(stops + 1)
    <3>4. x \in Int
      BY <2>3, <3>3
    <3>5. (measured + d) - x \in 0..y
      BY <3>2 DEF Lost
    <3> HIDE DEF x, y
    <3>6. measured + 1 * d - x >= 0 /\ measured + 1 * d - x <= y
      BY <2>2, <3>4, <3>5
    <3>7. QED
      BY <2>4, <3>6 DEF x, y, LosesUnderAMilliPerStop, Most
  <2>5. CASE is_running_ = FALSE
    <3>1. elapsed = total_time_ /\ stops + 0 = stops
      BY <2>2, <2>3, <2>5 DEF elapsed
    <3>2. Lost(measured, elapsed, first) \in 0..Most(stops + 0)
      BY <2>1, <3>1 DEF TimerInv
    <3>3. elapsed - first \in Int
      BY <2>3, <3>1
    <3> DEFINE x == Tick * (elapsed - first)
               y == Most(stops + 0)
    <3>4. x \in Int
      BY <2>3, <3>3
    <3>5. measured - x \in 0..y
      BY <3>2 DEF Lost
    <3> HIDE DEF x, y
    <3>6. measured + 0 * d - x >= 0 /\ measured + 0 * d - x <= y
      BY <2>2, <3>4, <3>5
    <3>7. QED
      BY <2>5, <3>6 DEF x, y, LosesUnderAMilliPerStop, Most
  <2>6. QED
    BY <2>1, <2>4, <2>5 DEF TimerInv, TimerTypeOK
<1>2. QED
  BY <1>1, TimerInvInit, TimerInvStep, PTL

-----------------------------------------------------------------------------
(* The composition: a behaviour runs one of the programs.                  *)

\* The invariants of all of them hold together; the sort's also in the state in
\* which it stays where it does not run.
ProgramsInv ==
    /\ CacheInv /\ NothingYet /\ PointerInv /\ SortInv /\ LoggerInv /\ TimerInv
    /\ EpollInv /\ PairInv

\* quick_sort of nothing, which does not run.
LEMMA SortAtRest ==
  ASSUME input = [k \in {} |-> 0], nums = input, stack = <<>>, loop = "call", i = 0, j = 0
  PROVE  SortInv
<1>1. Length = 0
  BY FS_EmptySet DEF Length
<1>2. {input, nums} \subseteq [0..(Length - 1) -> Elements]
  <2>1. 0..(Length - 1) = {}
    BY <1>1
  <2>2. QED
    BY <2>1
<1>3. stack \in Seq(Calls)
  BY EmptySeq
<1>4. QED
  BY <1>1, <1>2, <1>3 DEF SortInv, SortTypeOK, Scanning

\* They hold initially.
LEMMA ProgramsInvInit == ASSUME Init PROVE ProgramsInv
<1>1. CacheInit /\ SingletonInit /\ LoggerInit /\ TimerInit /\ EpollInit /\ PairInit
  BY DEF Init
<1>2. NothingYet
  BY <1>1 DEF CacheInit, NothingYet
<1>3. SortInv
  <2>1. CASE program = "sort"
    BY <2>1, SortInvInit DEF Init
  <2>2. CASE program # "sort"
    BY <2>2, SortAtRest DEF Init
  <2>3. QED
    BY <2>1, <2>2
<1>4. CacheInv /\ PointerInv /\ LoggerInv /\ TimerInv
  BY <1>1, CacheInvInit, PointerInvInit, LoggerInvInit, TimerInvInit
<1>5. EpollInv /\ PairInv
  BY <1>1, EpollInvInit, PairInvInit
<1>6. QED
  BY <1>2, <1>3, <1>4, <1>5 DEF ProgramsInv

\* A step of one program leaves the variables of the others alone.
LEMMA ProgramsInvStep == ASSUME ProgramsInv, [Next]_allVars PROVE ProgramsInv'
<1>1. /\ [CacheNext]_cacheVars /\ [SingletonNext]_singletonVars /\ [SortNext]_sortVars
      /\ [LoggerNext]_loggerVars /\ [TimerNext]_timerVars
      /\ [EpollNext]_epollVars /\ [PairNext]_pairVars
  BY DEF Next, allVars
<1>2. CacheInv' /\ NothingYet'
  BY <1>1, CacheInvStep DEF ProgramsInv
<1>3. PointerInv' /\ SortInv'
  BY <1>1, PointerInvStep, SortInvStep DEF ProgramsInv
<1>4. LoggerInv' /\ TimerInv'
  BY <1>1, LoggerInvStep, TimerInvStep DEF ProgramsInv
<1>5. EpollInv' /\ PairInv'
  BY <1>1, EpollInvStep, PairInvStep DEF ProgramsInv
<1>6. QED
  BY <1>2, <1>3, <1>4, <1>5 DEF ProgramsInv

\* The variables of all seven keep their types, whichever of them runs.
THEOREM ProgramsTyped == Spec => []TypesOK
<1>1. ProgramsInv => TypesOK
  BY DEF ProgramsInv, CacheInv, PointerInv, SortInv, LoggerInv, TimerInv, EpollInv,
     PairInv, TypesOK
<1>2. QED
  BY <1>1, ProgramsInvInit, ProgramsInvStep, PTL DEF Spec

=============================================================================
