----------------------------- MODULE SocketProofs ----------------------------
(***************************************************************************)
(* Theorems about the modules in which bytes or messages travel over a     *)
(* socket and the kernel reports them: the epoll server of demo, the pairs *)
(* of demo1 to demo3, and class Connection.  They hold for any number of   *)
(* clients, descriptors, messages and bytes.                               *)
(***************************************************************************)
EXTENDS EpollServer, EchoPair, Connection, FiniteSetTheorems, SequenceTheorems, TLAPS

-----------------------------------------------------------------------------
(* Lists in which nothing is twice.                                        *)

\* A set of numbers that is not empty has a least element: the initial
\* segments below it have one that no other is a strict part of.
LEMMA LeastElement ==
  ASSUME NEW T \in SUBSET Nat, T # {}
  PROVE  \E x \in T : \A y \in T : x <= y
<1>1. PICK n \in T : TRUE
  OBVIOUS
<1> DEFINE S == 0..n
           F == {0..x : x \in T \cap S}
<1>2. IsFiniteSet(S)
  BY FS_Interval
<1>3. IsWellFoundedOn(StrictSubsetOrdering(S), SUBSET S)
  BY <1>2, FS_StrictSubsetOrderingWellFounded, FS_FiniteSubsetsOfFinite
<1>4. F \subseteq SUBSET S /\ F # {}
  <2>1. 0..n \in F
    BY <1>1
  <2>2. \A x \in T \cap S : 0..x \subseteq S
    OBVIOUS
  <2>3. QED
    BY <2>1, <2>2
<1>5. PICK X \in F : \A Y \in F : <<Y, X>> \notin StrictSubsetOrdering(S)
  <2> HIDE DEF F, S
  <2>1. QED
    BY <1>3, <1>4, WFMin
<1>6. PICK x \in T \cap S : X = 0..x
  BY <1>5
<1>7. ASSUME NEW y \in T, y < x PROVE FALSE
  <2>1. y \in T \cap S /\ 0..y \in F
    BY <1>6, <1>7
  <2>2. 0..y \subseteq 0..x /\ x \in 0..x /\ x \notin 0..y
    BY <1>6, <1>7
  <2>3. <<0..y, X>> \in StrictSubsetOrdering(S)
    <3>1. 0..y \in SUBSET S /\ X \in SUBSET S
      BY <1>4, <1>5, <2>1
    <3>2. QED
      BY <1>6, <2>2, <3>1 DEF StrictSubsetOrdering
  <2>4. QED
    BY <1>5, <2>1, <2>3
<1>8. QED
  BY <1>6, <1>7

\* The sequence that lists a finite set holds each element once.
LEMMA ListOfSet ==
  ASSUME NEW S, IsFiniteSet(S)
  PROVE  /\ SetToSeq(S) \in Seq(S)
         /\ IsInjective(SetToSeq(S))
         /\ ToSet(SetToSeq(S)) = S
<1> DEFINE n == Cardinality(S)
<1>1. n \in Nat /\ ExistsBijection(1..n, S)
  BY FS_CardinalityType
<1>2. PICK b \in Bijection(1..n, S) : TRUE
  BY <1>1 DEF ExistsBijection
<1>3. b \in [1..n -> S] /\ IsInjective(b)
  BY <1>2 DEF Bijection, Injection, IsInjective
<1>4. SetToSeq(S) \in [1..n -> S] /\ IsInjective(SetToSeq(S))
  BY <1>3 DEF SetToSeq
<1>5. SetToSeq(S) \in Injection(1..n, S)
  BY <1>4 DEF Injection, IsInjective
<1>6. SetToSeq(S) \in Surjection(1..n, S)
  <2>1. Cardinality(1..n) = n /\ IsFiniteSet(1..n)
    BY <1>1, FS_Interval
  <2>2. QED
    BY <1>5, <2>1, FS_Injection
<1>7. ToSet(SetToSeq(S)) = S
  BY <1>4, <1>6 DEF Surjection, ToSet
<1>8. SetToSeq(S) \in Seq(S)
  BY <1>1, <1>4, SeqDef
<1>9. QED
  BY <1>4, <1>7, <1>8

\* An element that is not in the list yet joins it at the end.
LEMMA AppendKeeps ==
  ASSUME NEW A, NEW q \in Seq(A), NEW e \in A, IsInjective(q), e \notin ToSet(q)
  PROVE  /\ Append(q, e) \in Seq(A)
         /\ IsInjective(Append(q, e))
         /\ ToSet(Append(q, e)) = ToSet(q) \cup {e}
<1> DEFINE n == Len(q)
           r == Append(q, e)
<1>1. /\ n \in Nat /\ DOMAIN q = 1..n /\ r \in Seq(A) /\ DOMAIN r = 1..(n + 1)
      /\ r[n + 1] = e /\ \A k \in 1..n : r[k] = q[k]
  BY AppendProperties, LenProperties
<1> HIDE DEF r, n
<1>2. IsInjective(r)
  BY <1>1 DEF IsInjective, ToSet
<1>3. ToSet(r) = ToSet(q) \cup {e}
  <2>1. \A k \in 1..(n + 1) : k = n + 1 \/ k \in 1..n
    BY <1>1
  <2>2. n + 1 \in 1..(n + 1) /\ \A k \in 1..n : k \in 1..(n + 1)
    BY <1>1
  <2>3. QED
    BY <1>1, <2>1, <2>2 DEF ToSet
<1>4. QED
  BY <1>1, <1>2, <1>3 DEF r

\* Two lists without a common element, one behind the other.
LEMMA ConcatKeeps ==
  ASSUME NEW A, NEW p \in Seq(A), NEW q \in Seq(A), IsInjective(p), IsInjective(q),
         ToSet(p) \cap ToSet(q) = {}
  PROVE  /\ p \o q \in Seq(A)
         /\ IsInjective(p \o q)
         /\ ToSet(p \o q) = ToSet(p) \cup ToSet(q)
<1> DEFINE m == Len(p)
           n == Len(q)
           r == p \o q
<1>1. /\ m \in Nat /\ n \in Nat /\ DOMAIN p = 1..m /\ DOMAIN q = 1..n
      /\ r \in Seq(A) /\ DOMAIN r = 1..(m + n)
      /\ \A k \in 1..(m + n) : r[k] = IF k <= m THEN p[k] ELSE q[k - m]
  BY ConcatProperties, LenProperties
<1> HIDE DEF r, n, m
<1>2. \A k \in 1..(m + n) :
         \/ k \in 1..m /\ r[k] = p[k] /\ p[k] \in ToSet(p)
         \/ k - m \in 1..n /\ r[k] = q[k - m] /\ q[k - m] \in ToSet(q)
  <2>1. \A k \in 1..(m + n) :
           \/ k \in 1..m /\ r[k] = p[k]
           \/ k - m \in 1..n /\ r[k] = q[k - m]
    BY <1>1
  <2>2. QED
    BY <1>1, <2>1 DEF ToSet
<1>3. IsInjective(r)
  <2>1. SUFFICES ASSUME NEW k \in 1..(m + n), NEW l \in 1..(m + n), r[k] = r[l]
                 PROVE  k = l
    BY <1>1 DEF IsInjective
  <2>2. \/ k \in 1..m /\ l \in 1..m /\ p[k] = p[l]
        \/ k - m \in 1..n /\ l - m \in 1..n /\ q[k - m] = q[l - m]
    BY <1>2, <2>1
  <2>3. k = l \/ k - m = l - m
    BY <1>1, <2>2 DEF IsInjective
  <2>4. QED
    BY <1>1, <2>3
<1>4. ToSet(r) \subseteq ToSet(p) \cup ToSet(q)
  BY <1>1, <1>2 DEF ToSet
<1>5. ToSet(p) \cup ToSet(q) \subseteq ToSet(r)
  <2>1. \A k \in 1..m : k \in 1..(m + n) /\ r[k] = p[k]
    BY <1>1
  <2>2. \A k \in 1..n : k + m \in 1..(m + n) /\ r[k + m] = q[k]
    <3>1. SUFFICES ASSUME NEW k \in 1..n PROVE k + m \in 1..(m + n) /\ r[k + m] = q[k]
      OBVIOUS
    <3>2. k + m \in 1..(m + n) /\ ~ (k + m <= m) /\ (k + m) - m = k
      BY <1>1
    <3>3. QED
      BY <1>1, <3>2
  <2>3. ToSet(p) \subseteq ToSet(r)
    BY <1>1, <2>1 DEF ToSet
  <2>4. ToSet(q) \subseteq ToSet(r)
    BY <1>1, <2>2 DEF ToSet
  <2>5. QED
    BY <2>3, <2>4
<1>6. QED
  BY <1>1, <1>3, <1>4, <1>5 DEF r

\* Kept(list, fds) is computed from the left.
LEMMA KeptRecursion ==
  ASSUME NEW A, NEW list \in Seq(A), NEW fds
  PROVE  \E g : /\ g = [n \in 0..Len(list) |->
                         IF n = 0 THEN <<>>
                         ELSE IF list[n] \in fds THEN Append(g[n - 1], list[n])
                         ELSE g[n - 1]]
                /\ Kept(list, fds) = g[Len(list)]
<1> DEFINE L == Len(list)
           Next_(h, n) == IF n = 0 THEN <<>>
                    ELSE IF list[n] \in fds THEN Append(h[n - 1], list[n])
                    ELSE h[n - 1]
           T == {m \in 0..L : ~ \E h : h = [n \in 0..m |-> Next_(h, n)]}
<1>1. L \in Nat
  BY LenProperties
<1>2. CASE T # {}
  <2>1. T \in SUBSET Nat
    BY <1>1
  <2>2. PICK m \in T : \A k \in T : m <= k
    <3> HIDE DEF T
    <3>1. QED
      BY <1>2, <2>1, LeastElement
  <2>3. m \in 0..L
    BY <2>2
  <2>4. m # 0
    <3>1. SUFFICES ASSUME m = 0 PROVE FALSE
      OBVIOUS
    <3> DEFINE h == [n \in 0..0 |-> <<>>]
    <3>2. h = [n \in 0..0 |-> Next_(h, n)]
      OBVIOUS
    <3>3. QED
      BY <2>2, <3>1, <3>2
  <2>5. m - 1 \in 0..L /\ m - 1 \notin T
    <3> HIDE DEF T
    <3>1. m \in Nat /\ m - 1 \in 0..L
      BY <1>1, <2>3, <2>4
    <3>2. ~ (m <= m - 1)
      BY <3>1
    <3>3. QED
      BY <2>2, <3>1, <3>2
  <2>6. PICK h : h = [n \in 0..(m - 1) |-> Next_(h, n)]
    BY <2>5
  <2> DEFINE k == [n \in 0..m |-> Next_(h, n)]
  <2>7. \A n \in 0..(m - 1) : k[n] = h[n]
    <3>1. \A n \in 0..(m - 1) : n \in 0..m
      BY <2>3
    <3>2. \A n \in 0..m : k[n] = Next_(h, n)
      OBVIOUS
    <3>3. \A n \in 0..(m - 1) : h[n] = Next_(h, n)
      BY <2>6
    <3> HIDE DEF k, Next_
    <3>4. QED
      BY <3>1, <3>2, <3>3
  <2>8. \A n \in 0..m : Next_(k, n) = Next_(h, n)
    <3>1. \A n \in 0..m : n # 0 => n - 1 \in 0..(m - 1)
      BY <2>3
    <3> HIDE DEF k
    <3>2. QED
      BY <2>7, <3>1
  <2>9. k = [n \in 0..m |-> Next_(k, n)]
    <3> HIDE DEF Next_
    <3>1. [n \in 0..m |-> Next_(k, n)] = [n \in 0..m |-> Next_(h, n)]
      <4> HIDE DEF k
      <4>1. QED
        BY <2>8
    <3>2. QED
      BY <3>1
  <2>10. QED
    <3> HIDE DEF k
    <3>1. QED
      BY <2>2, <2>9
<1>3. CASE T = {}
  <2>1. L \in 0..L
    BY <1>1
  <2>2. \E h : h = [n \in 0..L |-> Next_(h, n)]
    BY <1>3, <2>1
  <2>3. QED
    BY <2>2 DEF Kept
<1>4. QED
  BY <1>2, <1>3

\* What stays of a list in which nothing is twice: its elements that are in the
\* set, each once.
LEMMA KeptProperties ==
  ASSUME NEW A, NEW list \in Seq(A), NEW fds, IsInjective(list)
  PROVE  /\ Kept(list, fds) \in Seq(A \cap fds)
         /\ IsInjective(Kept(list, fds))
         /\ ToSet(Kept(list, fds)) = ToSet(list) \cap fds
<1> DEFINE L == Len(list)
           Before(n) == {list[k] : k \in 1..n}
           Good(n, q) == /\ q \in Seq(A \cap fds) /\ IsInjective(q)
                         /\ ToSet(q) = Before(n) \cap fds
<1>1. L \in Nat /\ DOMAIN list = 1..L /\ \A k \in 1..L : list[k] \in A
  BY LenProperties
<1>2. PICK g : /\ g = [n \in 0..L |->
                         IF n = 0 THEN <<>>
                         ELSE IF list[n] \in fds THEN Append(g[n - 1], list[n])
                         ELSE g[n - 1]]
              /\ Kept(list, fds) = g[L]
  BY KeptRecursion
<1>3. Good(0, g[0])
  <2>1. g[0] = <<>>
    BY <1>1, <1>2
  <2>2. QED
    BY <2>1, EmptySeq DEF IsInjective, ToSet
<1>4. ASSUME NEW n \in 1..L, Good(n - 1, g[n - 1])
      PROVE  Good(n, g[n])
  <2> DEFINE q == g[n - 1]
  <2>1. Before(n) = Before(n - 1) \cup {list[n]} /\ list[n] \in A
    BY <1>1
  <2>2. list[n] \notin Before(n - 1)
    BY <1>1 DEF IsInjective
  <2>a. g[n] = IF list[n] \in fds THEN Append(q, list[n]) ELSE q
    <3>1. n \in 0..L /\ n # 0
      BY <1>1
    <3>2. QED
      BY <1>2, <3>1
  <2>3. CASE list[n] \in fds
    <3>1. g[n] = Append(q, list[n])
      BY <2>a, <2>3
    <3>2. q \in Seq(A \cap fds) /\ list[n] \in A \cap fds /\ IsInjective(q)
          /\ ToSet(q) = Before(n - 1) \cap fds /\ list[n] \notin ToSet(q)
      BY <1>4, <2>1, <2>2, <2>3
    <3> HIDE DEF q, Before
    <3>3. Append(q, list[n]) \in Seq(A \cap fds) /\ IsInjective(Append(q, list[n]))
          /\ ToSet(Append(q, list[n])) = ToSet(q) \cup {list[n]}
      BY <3>2, AppendKeeps
    <3>4. QED
      BY <2>1, <2>3, <3>1, <3>2, <3>3
  <2>4. CASE list[n] \notin fds
    <3>1. g[n] = q
      BY <2>a, <2>4
    <3> HIDE DEF q, Before
    <3>2. QED
      BY <1>4, <2>1, <2>4, <3>1 DEF q
  <2>5. QED
    BY <2>3, <2>4
<1> DEFINE T == {n \in 0..L : ~ Good(n, g[n])}
<1>5. T = {}
  <2>1. SUFFICES ASSUME T # {} PROVE FALSE
    OBVIOUS
  <2>2. T \in SUBSET Nat
    BY <1>1
  <2>3. PICK m \in T : \A k \in T : m <= k
    <3> HIDE DEF T
    <3>1. QED
      BY <2>1, <2>2, LeastElement
  <2>4. m \in 0..L /\ ~ Good(m, g[m])
    BY <2>3
  <2> HIDE DEF Good
  <2>5. m \in 1..L /\ m - 1 \in 0..L
    BY <1>1, <1>3, <2>4
  <2>6. m - 1 \notin T
    <3> HIDE DEF T
    <3>1. ~ (m <= m - 1)
      BY <2>5
    <3>2. QED
      BY <2>3, <3>1
  <2>7. Good(m - 1, g[m - 1])
    BY <2>5, <2>6
  <2>8. QED
    BY <1>4, <2>4, <2>5, <2>7
<1>6. Good(L, g[L])
  <2> HIDE DEF Good
  <2>1. QED
    BY <1>1, <1>5
<1>7. Before(L) = ToSet(list)
  BY <1>1 DEF ToSet
<1>8. QED
  BY <1>2, <1>6, <1>7

\* The rest of a list in which nothing is twice.
LEMMA TailKeeps ==
  ASSUME NEW A, NEW q \in Seq(A), q # <<>>, IsInjective(q)
  PROVE  /\ Head(q) = q[1] /\ q[1] \in A /\ Len(q) \in Nat
         /\ Tail(q) \in Seq(A) /\ IsInjective(Tail(q))
         /\ Len(Tail(q)) = Len(q) - 1
         /\ \A k \in 1..Len(Tail(q)) : /\ k + 1 \in 2..Len(q)
                                       /\ Tail(q)[k] = q[k + 1] /\ q[k + 1] # q[1]
         /\ ToSet(Tail(q)) = ToSet(q) \ {q[1]}
<1> DEFINE r == Tail(q)
           n == Len(q)
<1>1. n \in Nat \ {0} /\ DOMAIN q = 1..n /\ \A k \in 1..n : q[k] \in A
  BY EmptySeq, LenProperties, ElementOfSeq
<1>2. r \in Seq(A) /\ Len(r) = n - 1 /\ DOMAIN r = 1..(n - 1)
      /\ \A k \in 1..(n - 1) : r[k] = q[k + 1]
  BY HeadTailProperties, LenProperties
<1>3. Head(q) = q[1]
  OBVIOUS
<1> HIDE DEF r, n
<1>4. \A k \in 1..(n - 1) : k + 1 \in 2..n /\ k + 1 \in 1..n /\ 1 \in 1..n
  BY <1>1
<1>5. \A k \in 1..(n - 1) : q[k + 1] # q[1]
  BY <1>1, <1>4 DEF IsInjective
<1>6. IsInjective(r)
  <2>1. SUFFICES ASSUME NEW k \in 1..(n - 1), NEW l \in 1..(n - 1), r[k] = r[l]
                 PROVE  k = l
    BY <1>2 DEF IsInjective
  <2>2. q[k + 1] = q[l + 1]
    BY <1>2, <2>1
  <2>3. k + 1 = l + 1
    BY <1>1, <1>4, <2>2 DEF IsInjective
  <2>4. QED
    BY <1>1, <2>3
<1>7. ToSet(r) = ToSet(q) \ {q[1]}
  <2>1. \A k \in 1..n : k = 1 \/ (k - 1 \in 1..(n - 1) /\ (k - 1) + 1 = k)
    BY <1>1
  <2>2. \A k \in 1..n : q[k] # q[1] => \E l \in 1..(n - 1) : r[l] = q[k]
    BY <1>2, <2>1
  <2>3. \A l \in 1..(n - 1) : r[l] \in ToSet(q) /\ r[l] # q[1]
    BY <1>1, <1>2, <1>4, <1>5 DEF ToSet
  <2>4. ToSet(q) \ {q[1]} \subseteq ToSet(r)
    <3>1. SUFFICES ASSUME NEW k \in 1..n, q[k] # q[1] PROVE q[k] \in ToSet(r)
      BY <1>1 DEF ToSet
    <3>2. PICK l \in 1..(n - 1) : r[l] = q[k]
      BY <2>2, <3>1
    <3>3. QED
      BY <1>2, <3>2 DEF ToSet
  <2>5. ToSet(r) \subseteq ToSet(q) \ {q[1]}
    BY <1>2, <2>3 DEF ToSet
  <2>6. QED
    BY <2>4, <2>5 DEF Answerable
<1>8. QED
  BY <1>1, <1>2, <1>3, <1>4, <1>5, <1>6, <1>7 DEF r, n

\* A list in which nothing is twice, cut in two.
LEMMA CutKeeps ==
  ASSUME NEW A, NEW q \in Seq(A), IsInjective(q), NEW n \in 0..Len(q)
  PROVE  LET p == SubSeq(q, 1, n)
             r == SubSeq(q, n + 1, Len(q))
         IN  /\ p \in Seq(A) /\ IsInjective(p) /\ Len(p) = n
             /\ r \in Seq(A) /\ IsInjective(r)
             /\ ToSet(p) \cap ToSet(r) = {} /\ ToSet(p) \cup ToSet(r) = ToSet(q)
<1> DEFINE m == Len(q)
           p == SubSeq(q, 1, n)
           r == SubSeq(q, n + 1, m)
<1>1. m \in Nat /\ n \in Nat /\ n <= m /\ DOMAIN q = 1..m /\ \A k \in 1..m : q[k] \in A
  BY LenProperties, ElementOfSeq
<1>2. /\ p \in Seq(A) /\ Len(p) = n /\ \A k \in 1..n : p[k] = q[k]
  <2>1. \A k \in 1..n : q[k] \in A
    BY <1>1
  <2>2. 1 \in Int /\ n \in Int
    BY <1>1
  <2>3. /\ p \in Seq(A) /\ Len(p) = IF 1 <= n THEN n - 1 + 1 ELSE 0
        /\ \A k \in 1..(n - 1 + 1) : p[k] = q[1 + k - 1]
    BY <2>1, <2>2, SubSeqProperties
  <2> HIDE DEF p
  <2>4. n - 1 + 1 = n /\ \A k \in 1..n : 1 + k - 1 = k
    BY <1>1
  <2>5. QED
    BY <1>1, <2>3, <2>4
<1>3. r \in Seq(A) /\ Len(r) = m - n /\ \A k \in 1..(m - n) : r[k] = q[n + k]
  <2>1. \A k \in (n + 1)..m : q[k] \in A
    BY <1>1
  <2>2. n + 1 \in Int /\ m \in Int
    BY <1>1
  <2>3. /\ r \in Seq(A) /\ Len(r) = IF n + 1 <= m THEN m - (n + 1) + 1 ELSE 0
        /\ \A k \in 1..(m - (n + 1) + 1) : r[k] = q[(n + 1) + k - 1]
    BY <2>1, <2>2, SubSeqProperties
  <2> HIDE DEF r, m
  <2>4. m - (n + 1) + 1 = m - n /\ \A k \in 1..(m - n) : (n + 1) + k - 1 = n + k
    BY <1>1
  <2>5. QED
    BY <1>1, <2>3, <2>4
<1>4. DOMAIN p = 1..n /\ DOMAIN r = 1..(m - n)
  BY <1>2, <1>3, LenProperties
<1> HIDE DEF p, r, m
<1>5. \A k \in 1..n : k \in 1..m
  BY <1>1
<1>6. \A k \in 1..(m - n) : n + k \in 1..m /\ n + k \notin 1..n /\ (n + k) - n = k
  BY <1>1
<1>7. IsInjective(p)
  BY <1>1, <1>2, <1>4, <1>5 DEF IsInjective
<1>8. IsInjective(r)
  <2>1. SUFFICES ASSUME NEW k \in 1..(m - n), NEW l \in 1..(m - n), r[k] = r[l]
                 PROVE  k = l
    BY <1>4 DEF IsInjective
  <2>2. n + k = n + l
    BY <1>1, <1>3, <1>6, <2>1 DEF IsInjective
  <2>3. QED
    BY <1>1, <2>2
<1>9. ToSet(p) \cap ToSet(r) = {}
  <2>1. ASSUME NEW k \in 1..n, NEW l \in 1..(m - n), p[k] = r[l]
        PROVE  FALSE
    <3>1. k \in 1..m /\ n + l \in 1..m /\ k # n + l
      BY <1>5, <1>6
    <3>2. q[k] = q[n + l]
      BY <1>2, <1>3, <2>1
    <3>3. QED
      BY <1>1, <3>1, <3>2 DEF IsInjective
  <2>2. QED
    BY <1>4, <2>1 DEF ToSet
<1>10. ToSet(p) \cup ToSet(r) = ToSet(q)
  <2>1. \A k \in 1..m : k \in 1..n \/ (k - n \in 1..(m - n) /\ n + (k - n) = k)
    BY <1>1
  <2>2. ASSUME NEW k \in 1..m PROVE q[k] \in ToSet(p) \cup ToSet(r)
    <3>1. CASE k \in 1..n
      BY <1>2, <1>4, <3>1 DEF ToSet
    <3>2. CASE k - n \in 1..(m - n) /\ n + (k - n) = k
      <4>1. r[k - n] = q[k]
        BY <1>3, <3>2
      <4>2. QED
        BY <1>4, <3>2, <4>1 DEF ToSet
    <3>3. QED
      BY <2>1, <3>1, <3>2
  <2>3. \A k \in 1..n : p[k] \in ToSet(q)
    BY <1>1, <1>2, <1>5 DEF ToSet
  <2>4. \A k \in 1..(m - n) : r[k] \in ToSet(q)
    BY <1>1, <1>3, <1>6 DEF ToSet
  <2>5. ToSet(q) \subseteq ToSet(p) \cup ToSet(r)
    BY <1>1, <2>2 DEF ToSet
  <2>6. ToSet(p) \subseteq ToSet(q) /\ ToSet(r) \subseteq ToSet(q)
    BY <1>4, <2>3, <2>4 DEF ToSet
  <2>7. QED
    BY <2>5, <2>6
<1>11. QED
  BY <1>2, <1>3, <1>7, <1>8, <1>9, <1>10 DEF p, r, m

-----------------------------------------------------------------------------
(* The epoll server: what an answer of epoll_wait says stays true, and     *)
(* whatever can be answered is in the ready list.                          *)

\* What the epoll watches; with a port given the second socket is never made.
Watching ==
    /\ port = "zero" /\ main # "setup" => watched = OpenConns \cup {Listensock}
    /\ port # "zero" \/ main = "setup" =>
          watched = {} /\ OpenConns = {} /\ events = <<>> /\ main \in {"setup", "wait"}
    /\ main = "setup" => here = {} /\ queue = <<>>

\* A client waits for accept or has one descriptor, never both.
OnePlaceEach ==
    /\ IsInjective(queue)
    /\ \A f \in OpenConns : client[f] \notin ToSet(queue)
    /\ \A f, g \in OpenConns : client[f] = client[g] => f = g

\* The connection f is the one it was when epoll_wait gave the answer.
Same(f) == f \in Conns => client[f] = about[f]

\* No descriptor is twice in an answer, and those the loop has not come to yet
\* are the same and answerable still; of the one it is sending to, recv has
\* taken some.
Fresh ==
    /\ IsInjective(events)
    /\ \A k \in 1..Len(events) : Same(events[k])
    /\ main = "wait" => events = <<>>
    /\ main = "events" => \A k \in 1..Len(events) : Answerable(events[k])
    /\ main = "send" => /\ events # <<>> /\ events[1] \in OpenConns
                        /\ \A k \in 2..Len(events) : Answerable(events[k])

\* What is answerable is in the ready list, also while the loop is busy.
Listed == \A f \in watched : Answerable(f) => f \in ToSet(ready)

EpollInv == EpollTypeOK /\ Watching /\ OnePlaceEach /\ Fresh /\ Listed

\* Descriptors and clients.
LEMMA EpollFacts ==
  ASSUME EpollInv
  PROVE  /\ Listensock \notin Conns
         /\ watched \subseteq Conns \cup {Listensock} /\ IsFiniteSet(watched)
         /\ OpenConns \subseteq Conns
         /\ \A f \in OpenConns : client[f] \in Visitors
         /\ ready \in Seq(watched) /\ IsInjective(ready)
<1>1. Listensock \in Nat /\ FdTop \in Nat
  BY EpollAssumption
<1>2. IsFiniteSet(Conns) /\ Listensock \notin Conns
  BY <1>1, FS_Interval DEF Conns
<1>3. IsFiniteSet(Conns \cup {Listensock})
  BY <1>2, FS_AddElement
<1>4. watched \subseteq Conns \cup {Listensock}
  BY DEF EpollInv, EpollTypeOK
<1>5. IsFiniteSet(watched)
  BY <1>3, <1>4, FS_Subset
<1>6. QED
  BY <1>2, <1>4, <1>5 DEF EpollInv, EpollTypeOK, OpenConns

\* Rousing adds to the ready list what is watched and not in it.
LEMMA RousedProperties ==
  ASSUME EpollInv, NEW fds
  PROVE  /\ Roused(ready, fds) \in Seq(watched)
         /\ IsInjective(Roused(ready, fds))
         /\ ToSet(Roused(ready, fds)) = ToSet(ready) \cup (fds \cap watched)
<1> DEFINE more == (fds \cap watched) \ ToSet(ready)
<1>1. IsFiniteSet(more)
  BY EpollFacts, FS_Subset
<1>2. /\ SetToSeq(more) \in Seq(more) /\ IsInjective(SetToSeq(more))
      /\ ToSet(SetToSeq(more)) = more
  <2> HIDE DEF more
  <2>1. QED
    BY <1>1, ListOfSet
<1>3. SetToSeq(more) \in Seq(watched)
  <2>1. more \subseteq watched
    OBVIOUS
  <2> HIDE DEF more
  <2>2. QED
    BY <1>2, <2>1, SeqMonotonic
<1>4. ToSet(ready) \cap more = {} /\ ToSet(ready) \cup more = ToSet(ready) \cup (fds \cap watched)
  OBVIOUS
<1>5. Roused(ready, fds) = ready \o SetToSeq(more)
  BY DEF Roused
<1>6. QED
  <2> HIDE DEF more
  <2>1. QED
    BY <1>2, <1>3, <1>4, <1>5, EpollFacts, ConcatKeeps

\* A step of a client: it only adds to what is answerable, and rouses what it
\* adds.
LEMMA VisitorStep ==
  ASSUME EpollInv, UNCHANGED <<port, client, watched, events, about, main>>,
         here' \subseteq Visitors, rst' \subseteq Visitors, queue' \in Seq(Visitors),
         unseen' \in [Visitors -> Nat],
         answers' \in [Visitors -> 0..ReplyRoom],
         NEW fds, ready' = Roused(ready, fds),
         main # "setup",
         IsInjective(queue'), \A f \in OpenConns : client[f] \notin ToSet(queue'),
         \A f \in Conns \cup {Listensock} : Answerable(f) => Answerable(f)',
         \A f \in watched : Answerable(f)' => Answerable(f) \/ f \in fds
  PROVE  EpollInv'
<1>1. OpenConns' = OpenConns
  BY DEF OpenConns
<1>2. /\ ready' \in Seq(watched) /\ IsInjective(ready')
      /\ ToSet(ready') = ToSet(ready) \cup (fds \cap watched)
  BY RousedProperties
<1>3. EpollTypeOK'
  BY <1>2 DEF EpollInv, EpollTypeOK
<1>4. Watching'
  BY <1>1 DEF EpollInv, Watching
<1>5. OnePlaceEach'
  BY <1>1 DEF EpollInv, OnePlaceEach
<1>6. Fresh'
  <2>1. \A k \in 1..Len(events) : events[k] \in Conns \cup {Listensock}
    BY ElementOfSeq DEF EpollInv, EpollTypeOK
  <2>2. events \in Seq(Conns \cup {Listensock}) /\ Len(events) \in Nat
    BY LenProperties DEF EpollInv, EpollTypeOK
  <2>3. \A k \in 2..Len(events) : k \in 1..Len(events)
    BY <2>2
  <2>4. \A k \in 1..Len(events) : Answerable(events[k]) => Answerable(events[k])'
    BY <2>1
  <2>5. QED
    BY <1>1, <2>3, <2>4 DEF EpollInv, Fresh, Same
<1>7. Listed'
  BY <1>2 DEF EpollInv, Listed
<1>8. QED
  BY <1>3, <1>4, <1>5, <1>6, <1>7 DEF EpollInv

\* connect, by a client that has left or was not there before.
LEMMA VisitKeepsInv ==
  ASSUME EpollInv, NEW c \in Visitors, Visit(c)
  PROVE  EpollInv'
<1>1. queue \in Seq(Visitors) /\ IsInjective(queue) /\ c \notin ToSet(queue)
  BY DEF EpollInv, EpollTypeOK, OnePlaceEach, Visit, Queued
<1>2. /\ queue' \in Seq(Visitors) /\ IsInjective(queue')
      /\ ToSet(queue') = ToSet(queue) \cup {c}
  BY <1>1, AppendKeeps DEF Visit
<1>3. queue' # <<>>
  BY <1>2 DEF ToSet
<1>4. \A f \in OpenConns : client[f] # c
  BY DEF Visit, Served
<1>5. OpenConns' = OpenConns
  BY DEF OpenConns, Visit
<1>6. ASSUME NEW f \in Conns \cup {Listensock}
      PROVE  /\ Answerable(f) => Answerable(f)'
             /\ Answerable(f)' => Answerable(f) \/ f \in {Listensock}
  <2>1. CASE f = Listensock
    BY <1>3, <2>1 DEF Answerable
  <2>2. CASE f \in OpenConns
    <3>1. client[f] \in Visitors /\ client[f] # c /\ client' = client /\ f \in Conns
          /\ f # Listensock
      BY <1>4, <2>2, EpollFacts DEF Visit
    <3>2. unseen'[client[f]] = unseen[client[f]] /\ (client[f] \in here' <=> client[f] \in here)
      BY <3>1 DEF Visit, EpollInv, EpollTypeOK
    <3>3. QED
      BY <1>5, <2>2, <3>1, <3>2 DEF Answerable
  <2>3. CASE f \notin OpenConns /\ f # Listensock
    BY <1>5, <2>3 DEF Answerable
  <2>4. QED
    BY <2>1, <2>2, <2>3
<1>7. /\ here' \subseteq Visitors /\ rst' \subseteq Visitors
      /\ unseen' \in [Visitors -> Nat]
      /\ answers' \in [Visitors -> 0..ReplyRoom]
  <2>1. 0 \in Nat /\ 0 \in 0..ReplyRoom
    BY EpollAssumption
  <2>2. QED
    BY <2>1 DEF Visit, EpollInv, EpollTypeOK
<1>8. \A f \in OpenConns : client[f] \notin ToSet(queue')
  BY <1>2, <1>4 DEF EpollInv, OnePlaceEach
<1>9. /\ UNCHANGED <<port, client, watched, events, about, main>> /\ main # "setup"
      /\ ready' = Roused(ready, {Listensock})
  BY DEF Visit
<1>10. \A f \in watched : Answerable(f)' => Answerable(f) \/ f \in {Listensock}
  BY <1>6, EpollFacts
<1>11. QED
  BY <1>2, <1>6, <1>7, <1>8, <1>9, <1>10, VisitorStep

\* A message or the end of a client: who is told is the listening socket as
\* long as the client waits for accept.
LEMMA AskOrLeaveKeepsInv ==
  ASSUME EpollInv, NEW c \in Visitors, Ask(c) \/ Leave(c)
  PROVE  EpollInv'
<1>1. /\ UNCHANGED <<port, client, watched, events, about, main, queue>>
      /\ ready' = Roused(ready, Of(c)) /\ c \in here
  BY DEF Ask, Leave
<1>2. main # "setup"
  BY <1>1 DEF EpollInv, Watching
<1>3. OpenConns' = OpenConns
  BY <1>1 DEF OpenConns
<1>4. /\ here' \subseteq here
      /\ \A d \in Visitors : d # c => (d \in here' <=> d \in here) /\ unseen'[d] = unseen[d]
      /\ unseen'[c] >= unseen[c] /\ unseen[c] \in Nat /\ unseen'[c] \in Nat
      /\ unseen' \in [Visitors -> Nat] /\ rst' \subseteq Visitors
  <2>1. CASE Ask(c)
    <3>1. unseen[c] \in Nat
      BY DEF EpollInv, EpollTypeOK
    <3>2. unseen' = [unseen EXCEPT ![c] = @ + 1] /\ here' = here /\ rst' = rst
      BY <2>1 DEF Ask
    <3>3. QED
      BY <3>1, <3>2 DEF EpollInv, EpollTypeOK
  <2>2. CASE Leave(c)
    <3>1. unseen' = unseen /\ here' = here \ {c} /\ rst' \subseteq rst \cup {c}
      BY <2>2 DEF Leave
    <3>2. unseen[c] \in Nat /\ unseen \in [Visitors -> Nat]
          /\ rst \subseteq Visitors
      BY DEF EpollInv, EpollTypeOK
    <3>3. QED
      BY <3>1, <3>2
  <2>3. QED
    BY <2>1, <2>2
<1>5. ASSUME NEW f \in Conns \cup {Listensock}
      PROVE  /\ Answerable(f) => Answerable(f)'
             /\ Answerable(f)' => Answerable(f) \/ f \in Of(c)
  <2>1. CASE f \notin OpenConns
    BY <1>1, <1>3, <2>1 DEF Answerable
  <2>2. CASE f \in OpenConns /\ client[f] # c
    <3>1. client[f] \in Visitors /\ f # Listensock
      BY <2>2, EpollFacts
    <3>2. QED
      BY <1>1, <1>3, <1>4, <2>2, <3>1 DEF Answerable
  <2>3. CASE f \in OpenConns /\ client[f] = c
    <3>1. c \notin ToSet(queue) /\ f # Listensock
      BY <2>3, EpollFacts DEF EpollInv, OnePlaceEach
    <3>2. f \in Of(c)
      BY <2>3, <3>1 DEF Of, Queued
    <3>3. Answerable(f) => Answerable(f)'
      BY <1>1, <1>3, <1>4, <2>3, <3>1 DEF Answerable
    <3>4. QED
      BY <3>2, <3>3
  <2>4. QED
    BY <2>1, <2>2, <2>3
<1>6. /\ here' \subseteq Visitors /\ queue' \in Seq(Visitors) /\ IsInjective(queue')
      /\ \A f \in OpenConns : client[f] \notin ToSet(queue')
  BY <1>1, <1>4 DEF EpollInv, EpollTypeOK, OnePlaceEach
<1>7. answers' \in [Visitors -> 0..ReplyRoom]
  <2>1. 0 \in 0..ReplyRoom
    BY EpollAssumption
  <2>2. QED
    BY <2>1 DEF Ask, Leave, EpollInv, EpollTypeOK
<1>8. \A f \in watched : Answerable(f)' => Answerable(f) \/ f \in Of(c)
  BY <1>5, EpollFacts
<1>9. QED
  BY <1>1, <1>2, <1>4, <1>5, <1>6, <1>7, <1>8, VisitorStep

\* A client reads a reply.
LEMMA TakeAnswerKeepsInv ==
  ASSUME EpollInv, NEW c \in Visitors, TakeAnswer(c)
  PROVE  EpollInv'
<1>1. answers' \in [Visitors -> 0..ReplyRoom]
  <2>1. answers[c] \in 0..ReplyRoom /\ answers[c] > 0 /\ ReplyRoom \in Nat
        /\ answers' = [answers EXCEPT ![c] = @ - 1]
    BY EpollAssumption DEF TakeAnswer, EpollInv, EpollTypeOK
  <2>2. answers[c] - 1 \in 0..ReplyRoom
    BY <2>1
  <2>3. QED
    BY <2>1, <2>2 DEF EpollInv, EpollTypeOK
<1>2. UNCHANGED <<port, here, queue, unseen, rst, client, watched, ready, events, about,
                 main>>
  BY DEF TakeAnswer
<1>3. EpollTypeOK'
  BY <1>1, <1>2 DEF EpollInv, EpollTypeOK
<1>4. Watching' /\ OnePlaceEach' /\ Fresh' /\ Listed'
  BY <1>2 DEF EpollInv, Watching, OnePlaceEach, Fresh, Same, Listed, OpenConns, Answerable
<1>5. QED
  BY <1>3, <1>4 DEF EpollInv

\* The answer of epoll_wait: nothing in it is stale, and nothing leaves the list.
LEMMA EpollWaitKeepsInv ==
  ASSUME EpollInv, EpollWait
  PROVE  EpollInv'
<1> DEFINE live == ReadyNow
           n == IF Len(live) < Batch THEN Len(live) ELSE Batch
           front == SubSeq(live, 1, n)
           back == SubSeq(live, n + 1, Len(live))
<1>1. /\ main = "wait" /\ main' = "events" /\ n > 0
      /\ events' = front /\ ready' = back \o front /\ about' = client
      /\ UNCHANGED <<port, visitorVars, client, watched>>
  BY DEF EpollWait
<1>2. /\ live \in Seq(watched) /\ IsInjective(live)
      /\ ToSet(live) = ToSet(ready) \cap {f \in watched : Answerable(f)}
  <2>1. watched \cap {f \in watched : Answerable(f)} \subseteq watched
    OBVIOUS
  <2>2. QED
    BY <2>1, KeptProperties, EpollFacts, SeqMonotonic DEF ReadyNow
<1> HIDE DEF live
<1>3. n \in 0..Len(live) /\ n <= Batch /\ Len(live) \in Nat
  BY <1>2, EpollAssumption, LenProperties
<1> HIDE DEF n
<1>4. /\ front \in Seq(watched) /\ IsInjective(front) /\ Len(front) = n
      /\ back \in Seq(watched) /\ IsInjective(back)
      /\ ToSet(front) \cap ToSet(back) = {} /\ ToSet(front) \cup ToSet(back) = ToSet(live)
  BY <1>2, <1>3, CutKeeps
<1> HIDE DEF front, back
<1>5. /\ ready' \in Seq(watched) /\ IsInjective(ready') /\ ToSet(ready') = ToSet(live)
  <2>1. ToSet(back) \cap ToSet(front) = {} /\ ToSet(back) \cup ToSet(front) = ToSet(live)
    BY <1>4
  <2>2. /\ back \o front \in Seq(watched) /\ IsInjective(back \o front)
        /\ ToSet(back \o front) = ToSet(back) \cup ToSet(front)
    BY <1>4, <2>1, ConcatKeeps
  <2>3. ready' = back \o front
    BY <1>1 DEF front, back
  <2>4. QED
    BY <2>1, <2>2, <2>3
<1>6. \A k \in 1..Len(front) : front[k] \in ToSet(live)
  <2>1. DOMAIN front = 1..Len(front)
    BY <1>4, LenProperties
  <2>2. QED
    BY <1>4, <2>1 DEF ToSet
<1>7. /\ UNCHANGED <<port, here, queue, unseen, answers, rst, client, watched>>
      /\ OpenConns' = OpenConns
  BY <1>1 DEF visitorVars, OpenConns
<1>8. \A f : Answerable(f)' <=> Answerable(f)
  BY <1>7 DEF Answerable
<1>9. front \in Seq(Conns \cup {Listensock})
  BY <1>4, EpollFacts, SeqMonotonic
<1>10. EpollTypeOK'
  BY <1>1, <1>3, <1>4, <1>5, <1>7, <1>9 DEF EpollInv, EpollTypeOK
<1>11. watched # {}
  <2>1. 1 \in 1..Len(front)
    BY <1>1, <1>3, <1>4
  <2>2. QED
    BY <1>2, <1>6, <2>1
<1>12. Watching'
  BY <1>1, <1>7, <1>11 DEF EpollInv, Watching
<1>13. OnePlaceEach'
  BY <1>7 DEF EpollInv, OnePlaceEach
<1>14. Fresh'
  BY <1>1, <1>2, <1>4, <1>6, <1>7, <1>8 DEF Fresh, Same
<1>15. Listed'
  BY <1>2, <1>5, <1>7, <1>8 DEF EpollInv, Listed
<1>16. QED
  BY <1>10, <1>12, <1>13, <1>14, <1>15 DEF EpollInv

\* The loop goes on to the next event of the answer: the ones behind it have
\* to stay answerable.
LEMMA NextEvent ==
  ASSUME EpollInv, events # <<>>, events' = Tail(events),
         main \in {"events", "send"}, main' \in {"events", "killed"}, about' = about,
         \A f \in Conns \cup {Listensock} :
             f # events[1] /\ Answerable(f) =>
                 Answerable(f)' /\ (f \in Conns => client'[f] = client[f])
  PROVE  Fresh' /\ events' \in Seq(Conns \cup {Listensock}) /\ Len(events') <= Batch
<1> DEFINE C == Conns \cup {Listensock}
<1>1. /\ events \in Seq(C) /\ IsInjective(events) /\ Len(events) <= Batch /\ Batch \in Nat
      /\ \A k \in 2..Len(events) : Answerable(events[k]) /\ Same(events[k])
  <2>1. events \in Seq(C) /\ IsInjective(events) /\ Len(events) <= Batch /\ Batch \in Nat
    BY EpollAssumption DEF EpollInv, EpollTypeOK, Fresh
  <2>2. \A k \in 2..Len(events) : k \in 1..Len(events)
    BY <2>1, LenProperties
  <2>3. QED
    BY <2>1, <2>2 DEF EpollInv, Fresh
<1> HIDE DEF C
<1>2. /\ Len(events) \in Nat /\ events' \in Seq(C) /\ IsInjective(events')
      /\ Len(events') = Len(events) - 1
      /\ \A k \in 1..Len(events') : /\ k + 1 \in 2..Len(events)
                                    /\ events'[k] = events[k + 1]
                                    /\ events[k + 1] # events[1]
  BY <1>1, TailKeeps
<1>3. \A k \in 1..Len(events') : Answerable(events[k])' /\ Same(events[k])'
  <2>1. SUFFICES ASSUME NEW k \in 1..Len(events')
                 PROVE  Answerable(events[k])' /\ Same(events[k])'
    OBVIOUS
  <2>2. PICK f \in C : f = events[k + 1]
    <3>1. k + 1 \in 1..Len(events)
      BY <1>2
    <3>2. QED
      BY <1>1, <3>1, ElementOfSeq
  <2>3. Answerable(f) /\ f # events[1] /\ Same(f)
    BY <1>1, <1>2, <2>2
  <2>4. Answerable(f)' /\ (f \in Conns => client'[f] = client[f])
    BY <2>3 DEF C
  <2>5. events'[k] = f
    BY <1>2, <2>2
  <2>6. client'[f] = about'[f] \/ f \notin Conns
    BY <2>3, <2>4 DEF Same
  <2>7. QED
    BY <2>4, <2>5, <2>6 DEF Answerable, Same
<1>4. Fresh'
  BY <1>2, <1>3 DEF Fresh, Answerable, Same
<1>5. QED
  BY <1>1, <1>2, <1>4 DEF C

\* The event the loop is at.
LEMMA AtAnEvent ==
  ASSUME EpollInv, events # <<>>
  PROVE  /\ Head(events) = events[1]
         /\ events[1] \in Conns \cup {Listensock}
         /\ port = "zero" /\ main \notin {"setup", "wait"}
         /\ watched = OpenConns \cup {Listensock}
<1>1. events \in Seq(Conns \cup {Listensock})
  BY DEF EpollInv, EpollTypeOK
<1>2. 1 \in 1..Len(events) /\ Head(events) = events[1]
  BY <1>1, EmptySeq, LenProperties
<1>3. events[1] \in Conns \cup {Listensock}
  BY <1>1, <1>2, ElementOfSeq
<1>4. port = "zero" /\ main \notin {"setup", "wait"}
  BY DEF EpollInv, Watching, Fresh
<1>5. QED
  BY <1>2, <1>3, <1>4 DEF EpollInv, Watching

\* The sockets are made.
LEMMA SetupKeepsInv ==
  ASSUME EpollInv, Setup
  PROVE  EpollInv'
<1>1. /\ main = "setup" /\ main' = "wait" /\ watched' \in {{}, {Listensock}}
      /\ port = "zero" => watched' = {Listensock}
      /\ port # "zero" => watched' = {}
      /\ UNCHANGED <<port, visitorVars, client, ready, events, about>>
  BY DEF Setup
<1>2. watched = {} /\ OpenConns = {} /\ events = <<>> /\ queue = <<>>
  BY <1>1 DEF EpollInv, Watching
<1>3. UNCHANGED <<port, here, queue, unseen, answers, rst, client, ready, events, about>>
      /\ OpenConns' = OpenConns
  BY <1>1 DEF visitorVars, OpenConns
<1>4. ready' \in Seq(watched') /\ IsInjective(ready')
  <2>1. watched \subseteq watched' /\ ready \in Seq(watched) /\ IsInjective(ready)
    BY <1>2, EpollFacts
  <2>2. QED
    BY <1>3, <2>1, SeqMonotonic
<1>5. watched' \subseteq Conns \cup {Listensock}
  BY <1>1
<1>6. EpollTypeOK'
  BY <1>1, <1>3, <1>4, <1>5 DEF EpollInv, EpollTypeOK
<1>7. Watching'
  BY <1>1, <1>2, <1>3 DEF EpollInv, Watching
<1>8. OnePlaceEach'
  BY <1>3 DEF EpollInv, OnePlaceEach
<1>9. Fresh'
  BY <1>1, <1>2, <1>3 DEF EpollInv, Fresh, Same
<1>10. Listed'
  BY <1>2, <1>3 DEF Listed, Answerable
<1>11. QED
  BY <1>6, <1>7, <1>8, <1>9, <1>10 DEF EpollInv

\* The loop is through with the answer.
LEMMA EventsDoneKeepsInv ==
  ASSUME EpollInv, EventsDone
  PROVE  EpollInv'
<1>1. /\ main = "events" /\ events = <<>> /\ main' = "wait"
      /\ about' \in [Conns -> Visitors \cup {Nobody}]
      /\ UNCHANGED <<port, here, queue, unseen, answers, rst, client, watched, ready, events>>
      /\ OpenConns' = OpenConns
  BY DEF EventsDone, visitorVars, OpenConns
<1>2. EpollTypeOK' /\ Watching' /\ OnePlaceEach'
  BY <1>1 DEF EpollInv, EpollTypeOK, Watching, OnePlaceEach
<1>3. Fresh'
  <2>1. Len(<<>>) = 0
    BY EmptySeq
  <2>2. QED
    BY <1>1, <2>1 DEF EpollInv, Fresh
<1>4. Listed'
  BY <1>1 DEF EpollInv, Listed, Answerable
<1>5. QED
  BY <1>2, <1>3, <1>4 DEF EpollInv

\* accept: the client moves from the queue to a descriptor that was free, and
\* is in the ready list at once if there is something to read from it.
LEMMA TakeVisitorKeepsInv ==
  ASSUME EpollInv, TakeVisitor
  PROVE  EpollInv'
<1> DEFINE f == CHOOSE f \in FreeConns : \A g \in FreeConns : f <= g
           c == Head(queue)
<1>1. /\ main = "events" /\ main' = "events" /\ events # <<>> /\ Head(events) = Listensock
      /\ queue # <<>> /\ FreeConns # {}
      /\ client' = [client EXCEPT ![f] = c] /\ watched' = watched \cup {f}
      /\ ready' = IF unseen[c] > 0 \/ c \notin here THEN Append(ready, f) ELSE ready
      /\ queue' = Tail(queue) /\ events' = Tail(events)
      /\ UNCHANGED <<port, here, unseen, answers, rst, about>>
  BY DEF TakeVisitor, AtEvent
<1>2. f \in FreeConns
  <2>1. FreeConns \in SUBSET Nat
    BY EpollAssumption DEF FreeConns, Conns
  <2>2. \E x \in FreeConns : \A y \in FreeConns : x <= y
    BY <1>1, <2>1, LeastElement
  <2>3. QED
    BY <2>2
<1> HIDE DEF f
<1>3. /\ queue \in Seq(Visitors) /\ IsInjective(queue)
      /\ client \in [Conns -> Visitors \cup {Nobody}]
      /\ \A g \in OpenConns : client[g] \in Visitors /\ client[g] \notin ToSet(queue)
      /\ \A g, h \in OpenConns : client[g] = client[h] => g = h
  BY EpollFacts DEF EpollInv, EpollTypeOK, OnePlaceEach
<1>4. /\ c \in Visitors /\ c \in ToSet(queue)
      /\ queue' \in Seq(Visitors) /\ IsInjective(queue')
      /\ ToSet(queue') = ToSet(queue) \ {c}
  <2>1. /\ Head(queue) = queue[1] /\ queue[1] \in Visitors
        /\ Tail(queue) \in Seq(Visitors) /\ IsInjective(Tail(queue))
        /\ ToSet(Tail(queue)) = ToSet(queue) \ {queue[1]}
    BY <1>1, <1>3, TailKeeps
  <2>2. 1 \in DOMAIN queue
    BY <1>1, <1>3, EmptySeq, LenProperties
  <2>3. QED
    BY <1>1, <2>1, <2>2 DEF ToSet
<1> HIDE DEF c
<1>5. /\ f \in Conns /\ f \notin OpenConns /\ f # Listensock /\ f \notin watched
      /\ watched = OpenConns \cup {Listensock} /\ port = "zero"
  BY <1>1, <1>2, EpollFacts, AtAnEvent DEF FreeConns
<1>6. /\ client' \in [Conns -> Visitors \cup {Nobody}] /\ client'[f] = c
      /\ \A g \in Conns : g # f => client'[g] = client[g]
  BY <1>1, <1>3, <1>4, <1>5
<1>7. OpenConns' = OpenConns \cup {f} /\ f \in OpenConns'
  BY <1>4, <1>5, <1>6, EpollAssumption DEF OpenConns
<1>8. \A g \in OpenConns : g \in OpenConns' /\ client'[g] = client[g] /\ client[g] # c
  BY <1>3, <1>4, <1>5, <1>6, <1>7, EpollFacts
<1>9. /\ ready' \in Seq(watched') /\ IsInjective(ready')
      /\ ToSet(ready) \subseteq ToSet(ready')
      /\ unseen[c] > 0 \/ c \notin here => f \in ToSet(ready')
  <2>1. ready \in Seq(watched') /\ IsInjective(ready) /\ f \in watched' /\ f \notin ToSet(ready)
    <3>1. ready \in Seq(watched) /\ IsInjective(ready) /\ watched \subseteq watched'
      BY <1>1, EpollFacts
    <3>2. \A k \in DOMAIN ready : ready[k] \in watched
      BY <3>1, ElementOfSeq, LenProperties
    <3>3. QED
      BY <1>1, <1>5, <3>1, <3>2, SeqMonotonic DEF ToSet
  <2>2. CASE unseen[c] > 0 \/ c \notin here
    <3>1. ready' = Append(ready, f)
      BY <1>1, <2>2
    <3>2. /\ Append(ready, f) \in Seq(watched') /\ IsInjective(Append(ready, f))
          /\ ToSet(Append(ready, f)) = ToSet(ready) \cup {f}
      BY <2>1, AppendKeeps
    <3>3. QED
      BY <3>1, <3>2
  <2>3. CASE ~(unseen[c] > 0 \/ c \notin here)
    <3>1. ready' = ready
      BY <1>1, <2>3
    <3>2. QED
      BY <2>1, <2>3, <3>1
  <2>4. QED
    BY <2>2, <2>3
<1>10. \A g \in Conns \cup {Listensock} :
          g # events[1] /\ Answerable(g) =>
              Answerable(g)' /\ (g \in Conns => client'[g] = client[g])
  <2>1. events[1] = Listensock
    BY <1>1, AtAnEvent
  <2>2. QED
    BY <1>1, <1>8, <2>1 DEF Answerable
<1>11. Fresh' /\ events' \in Seq(Conns \cup {Listensock}) /\ Len(events') <= Batch
  BY <1>1, <1>10, NextEvent
<1>12. watched' \subseteq Conns \cup {Listensock}
  BY <1>1, <1>5, EpollFacts
<1>13. EpollTypeOK'
  BY <1>1, <1>4, <1>6, <1>9, <1>11, <1>12 DEF EpollInv, EpollTypeOK
<1>14. Watching'
  BY <1>1, <1>5, <1>7 DEF EpollInv, Watching
<1>15. OnePlaceEach'
  BY <1>3, <1>4, <1>6, <1>7, <1>8 DEF OnePlaceEach
<1>16. Listed'
  <2>1. ASSUME NEW g \in watched', Answerable(g)'
        PROVE  g \in ToSet(ready')
    <3>1. CASE g = Listensock
      BY <1>1, <1>5, <1>9, <3>1 DEF EpollInv, Listed, Answerable
    <3>2. CASE g = f
      BY <1>1, <1>5, <1>6, <1>9, <2>1, <3>2 DEF Answerable
    <3>3. CASE g \in OpenConns
      <4>1. g # Listensock
        BY <3>3, EpollFacts
      <4>2. Answerable(g)
        BY <1>1, <1>8, <2>1, <3>3, <4>1 DEF Answerable
      <4>3. QED
        BY <1>5, <1>9, <3>3, <4>2 DEF EpollInv, Listed
    <3>4. QED
      BY <1>1, <1>5, <3>1, <3>2, <3>3
  <2>2. QED
    BY <2>1 DEF Listed
<1>17. QED
  BY <1>11, <1>13, <1>14, <1>15, <1>16 DEF EpollInv

\* A step of the server that changes no list but that of the events.
LEMMA ServerStep ==
  ASSUME EpollInv, events # <<>>, events' = Tail(events),
         main \in {"events", "send"}, main' \in {"events", "killed"},
         UNCHANGED <<port, here, queue, unseen, client, watched, ready, about>>,
         answers' \in [Visitors -> 0..ReplyRoom], rst' \subseteq Visitors
  PROVE  EpollInv'
<1>1. OpenConns' = OpenConns
  BY DEF OpenConns
<1>2. \A g \in Conns \cup {Listensock} : Answerable(g)' <=> Answerable(g)
  BY <1>1 DEF Answerable
<1>3. Fresh' /\ events' \in Seq(Conns \cup {Listensock}) /\ Len(events') <= Batch
  BY <1>2, NextEvent
<1>4. EpollTypeOK'
  BY <1>3 DEF EpollInv, EpollTypeOK
<1>5. Watching'
  BY <1>1, AtAnEvent DEF EpollInv, Watching
<1>6. OnePlaceEach'
  BY <1>1 DEF EpollInv, OnePlaceEach
<1>7. Listed'
  BY <1>1 DEF EpollInv, Listed, Answerable
<1>8. QED
  BY <1>3, <1>4, <1>5, <1>6, <1>7 DEF EpollInv

\* accept fails: the client stays in the queue.
LEMMA AcceptFailedKeepsInv ==
  ASSUME EpollInv, AcceptFailed
  PROVE  EpollInv'
<1>1. /\ main = "events" /\ main' = "events" /\ events # <<>> /\ events' = Tail(events)
      /\ UNCHANGED <<port, here, queue, unseen, client, watched, ready, about>>
      /\ UNCHANGED <<answers, rst>>
  BY DEF AcceptFailed, AtEvent, visitorVars
<1>2. answers' \in [Visitors -> 0..ReplyRoom] /\ rst' \subseteq Visitors
  BY <1>1 DEF EpollInv, EpollTypeOK
<1>3. QED
  BY <1>1, <1>2, ServerStep

\* send: only the client and the connection see it.
LEMMA SendBackKeepsInv ==
  ASSUME EpollInv, SendBack
  PROVE  EpollInv'
<1>1. /\ main = "send" /\ main' \in {"events", "killed"} /\ events' = Tail(events)
      /\ UNCHANGED <<port, here, queue, unseen, client, watched, ready, about>>
  BY DEF SendBack
<1>2. events # <<>> /\ events[1] \in OpenConns
  BY <1>1 DEF EpollInv, Fresh
<1>3. Head(events) \in OpenConns
  BY <1>2, AtAnEvent
<1> DEFINE c == client[Head(events)]
<1>4. c \in Visitors
  BY <1>3, EpollFacts
<1>5. \/ answers[c] < ReplyRoom /\ answers' = [answers EXCEPT ![c] = @ + 1] /\ rst' = rst
      \/ answers' = answers /\ rst' = rst \cup {c}
      \/ answers' = answers /\ rst' = rst
  BY DEF SendBack
<1> HIDE DEF c
<1>6. answers[c] < ReplyRoom => answers[c] + 1 \in 0..ReplyRoom
  BY <1>4, EpollAssumption DEF EpollInv, EpollTypeOK
<1>7. answers' \in [Visitors -> 0..ReplyRoom] /\ rst' \subseteq Visitors
  BY <1>4, <1>5, <1>6 DEF EpollInv, EpollTypeOK
<1>8. QED
  BY <1>1, <1>2, <1>7, ServerStep

\* recv takes messages: less is answerable, the later events still are.
LEMMA TakeMessagesKeepsInv ==
  ASSUME EpollInv, TakeMessages
  PROVE  EpollInv'
<1> DEFINE c == client[Head(events)]
<1>1. /\ main = "events" /\ events # <<>> /\ Head(events) \in OpenConns /\ main' = "send"
      /\ \E left \in 0..(unseen[c] - 1) : unseen' = [unseen EXCEPT ![c] = left]
      /\ UNCHANGED <<port, here, queue, answers, rst, client, watched, ready, events, about>>
      /\ OpenConns' = OpenConns
  BY DEF TakeMessages, OpenConns
<1>2. Head(events) = events[1] /\ c \in Visitors
  BY <1>1, AtAnEvent, EpollFacts
<1>3. PICK left \in 0..(unseen[c] - 1) : unseen' = [unseen EXCEPT ![c] = left]
  BY <1>1
<1> HIDE DEF c
<1>4. /\ unseen' \in [Visitors -> Nat]
      /\ \A d \in Visitors : d # c => unseen'[d] = unseen[d]
      /\ unseen'[c] \in Nat /\ unseen[c] \in Nat /\ unseen[c] > 0
  <2>1. unseen[c] \in Nat /\ unseen \in [Visitors -> Nat]
    BY <1>2 DEF EpollInv, EpollTypeOK
  <2>2. unseen[c] > 0 /\ left \in Nat
    BY <1>3, <2>1
  <2>3. QED
    BY <1>2, <1>3, <2>1, <2>2
<1>5. ASSUME NEW g \in Conns \cup {Listensock}
      PROVE  /\ Answerable(g)' => Answerable(g)
             /\ g # events[1] /\ Answerable(g) => Answerable(g)'
  <2>1. CASE g \notin OpenConns
    BY <1>1, <2>1 DEF Answerable
  <2>2. CASE g \in OpenConns /\ client[g] = c
    <3>1. g = events[1]
      BY <1>1, <1>2, <2>2 DEF c, EpollInv, OnePlaceEach
    <3>2. Answerable(g)
      BY <1>4, <2>2 DEF Answerable
    <3>3. QED
      BY <3>1, <3>2
  <2>3. CASE g \in OpenConns /\ client[g] # c
    <3>1. client[g] \in Visitors
      BY <2>3, EpollFacts
    <3>2. unseen'[client[g]] = unseen[client[g]]
      BY <1>4, <2>3, <3>1
    <3>3. QED
      BY <1>1, <2>3, <3>2 DEF Answerable
  <2>4. QED
    BY <2>1, <2>2, <2>3
<1>6. EpollTypeOK'
  BY <1>1, <1>4 DEF EpollInv, EpollTypeOK
<1>7. Watching' /\ OnePlaceEach'
  BY <1>1, AtAnEvent DEF EpollInv, Watching, OnePlaceEach
<1>8. Fresh'
  <2>1. /\ events \in Seq(Conns \cup {Listensock}) /\ IsInjective(events)
        /\ \A k \in 1..Len(events) : Answerable(events[k])
    BY <1>1 DEF EpollInv, EpollTypeOK, Fresh
  <2>2. Len(events) \in Nat /\ DOMAIN events = 1..Len(events) /\ Len(events) # 0
    BY <1>1, <2>1, EmptySeq, LenProperties
  <2>3. \A k \in 2..Len(events) : k \in 1..Len(events) /\ 1 \in 1..Len(events) /\ k # 1
    BY <2>2
  <2>4. \A k \in 2..Len(events) : events[k] \in Conns \cup {Listensock} /\ events[k] # events[1]
    BY <2>1, <2>2, <2>3, ElementOfSeq DEF IsInjective
  <2>5. \A k \in 2..Len(events) : Answerable(events[k])'
    <3>1. SUFFICES ASSUME NEW k \in 2..Len(events) PROVE Answerable(events[k])'
      BY <1>1
    <3>2. PICK g \in Conns \cup {Listensock} : g = events[k]
      BY <2>4
    <3>3. Answerable(g) /\ g # events[1]
      BY <2>1, <2>3, <2>4, <3>2
    <3>4. Answerable(g)'
      BY <1>5, <3>3
    <3>5. g = events'[k]
      BY <1>1, <3>2
    <3>6. QED
      BY <3>4, <3>5 DEF Answerable
  <2>6. QED
    BY <1>1, <1>2, <2>1, <2>5 DEF EpollInv, Fresh, Same
<1>9. Listed'
  BY <1>1, <1>5, EpollFacts DEF EpollInv, Listed
<1>10. QED
  BY <1>6, <1>7, <1>8, <1>9 DEF EpollInv

\* close: the descriptor leaves the epoll and its ready list.
LEMMA TakeEndKeepsInv ==
  ASSUME EpollInv, TakeEnd
  PROVE  EpollInv'
<1> DEFINE f == Head(events)
<1>1. /\ main = "events" /\ main' = "events" /\ events # <<>> /\ events' = Tail(events)
      /\ f \in OpenConns /\ watched' = watched \ {f} /\ ready' = Kept(ready, watched')
      /\ client' = [client EXCEPT ![f] = Nobody]
      /\ unseen' = [unseen EXCEPT ![client[f]] = 0]
      /\ UNCHANGED <<port, here, queue, answers, rst, about>>
  BY DEF TakeEnd, CloseConn
<1>2. /\ f = events[1] /\ f \in Conns /\ f # Listensock
      /\ watched = OpenConns \cup {Listensock} /\ port = "zero"
  BY <1>1, AtAnEvent, EpollFacts
<1> HIDE DEF f
<1>3. /\ client' \in [Conns -> Visitors \cup {Nobody}] /\ client'[f] = Nobody
      /\ \A g \in Conns : g # f => client'[g] = client[g]
  BY <1>1, <1>2 DEF EpollInv, EpollTypeOK
<1>4. OpenConns' = OpenConns \ {f}
  BY <1>2, <1>3 DEF OpenConns
<1>5. \A g \in OpenConns' : g \in OpenConns /\ g \in Conns /\ g # f /\ client'[g] = client[g]
  BY <1>3, <1>4, EpollFacts
<1>6. /\ ready' \in Seq(watched') /\ IsInjective(ready')
      /\ ToSet(ready') = ToSet(ready) \cap watched'
  <2>1. watched \cap watched' = watched'
    BY <1>1
  <2>2. QED
    BY <1>1, <2>1, KeptProperties, EpollFacts
<1>7. \A g \in Conns \cup {Listensock} :
         g # f => /\ Answerable(g)' <=> Answerable(g)
                  /\ g \in Conns => client'[g] = client[g]
  <2>1. \A g \in OpenConns' : unseen'[client[g]] = unseen[client[g]]
    <3>1. \A g \in OpenConns : client[g] \in Visitors /\ (client[g] = client[f] => g = f)
      BY <1>1, EpollFacts DEF EpollInv, OnePlaceEach
    <3>2. QED
      BY <1>1, <1>5, <3>1 DEF EpollInv, EpollTypeOK
  <2>2. QED
    BY <1>1, <1>3, <1>4, <1>5, <2>1 DEF Answerable
<1>8. Fresh' /\ events' \in Seq(Conns \cup {Listensock}) /\ Len(events') <= Batch
  BY <1>1, <1>2, <1>7, NextEvent
<1>9. watched' \subseteq Conns \cup {Listensock}
  BY <1>1, EpollFacts
<1>10. EpollTypeOK'
  <2>1. unseen' \in [Visitors -> Nat]
    BY <1>1 DEF EpollInv, EpollTypeOK
  <2>2. QED
    BY <1>1, <1>3, <1>6, <1>8, <1>9, <2>1 DEF EpollInv, EpollTypeOK
<1>11. Watching'
  BY <1>1, <1>2, <1>4 DEF EpollInv, Watching
<1>12. OnePlaceEach'
  BY <1>1, <1>5 DEF EpollInv, OnePlaceEach
<1>13. Listed'
  <2>1. ASSUME NEW g \in watched', Answerable(g)'
        PROVE  g \in ToSet(ready')
    <3>1. g \in watched /\ g # f /\ g \in Conns \cup {Listensock}
      BY <1>1, EpollFacts
    <3>2. Answerable(g)
      BY <1>7, <2>1, <3>1
    <3>3. QED
      BY <1>6, <3>1, <3>2 DEF EpollInv, Listed
  <2>2. QED
    BY <2>1 DEF Listed
<1>14. QED
  BY <1>8, <1>10, <1>11, <1>12, <1>13 DEF EpollInv

\* The invariant is inductive.
LEMMA EpollInvInit == ASSUME EpollInit PROVE EpollInv
<1>1. OpenConns = {}
  BY DEF EpollInit, OpenConns
<1>2. EpollTypeOK
  <2>1. 0 \in Nat /\ 0 \in 0..ReplyRoom /\ Batch >= 0
    BY EpollAssumption
  <2>2. \A A : <<>> \in Seq(A) /\ Len(<<>>) = 0
    BY EmptySeq
  <2>3. IsInjective(<<>>)
    BY DEF IsInjective
  <2>4. QED
    BY <2>1, <2>2, <2>3 DEF EpollInit, EpollTypeOK
<1>3. Watching /\ Listed
  BY <1>1 DEF EpollInit, Watching, Listed
<1>4. OnePlaceEach /\ Fresh
  BY <1>1, EmptySeq DEF EpollInit, OnePlaceEach, Fresh, IsInjective
<1>5. QED
  BY <1>2, <1>3, <1>4 DEF EpollInv

LEMMA EpollInvStep == ASSUME EpollInv, [EpollNext]_epollVars PROVE EpollInv'
<1>1. CASE EpollLoop
  BY <1>1, SetupKeepsInv, EpollWaitKeepsInv, EventsDoneKeepsInv, TakeVisitorKeepsInv,
     AcceptFailedKeepsInv, TakeMessagesKeepsInv, TakeEndKeepsInv, SendBackKeepsInv
  DEF EpollLoop
<1>2. CASE \E c \in Visitors : Visit(c) \/ Ask(c) \/ TakeAnswer(c) \/ Leave(c)
  BY <1>2, VisitKeepsInv, AskOrLeaveKeepsInv, TakeAnswerKeepsInv
<1>3. CASE UNCHANGED epollVars
  BY <1>3 DEF epollVars, visitorVars, EpollInv, EpollTypeOK, Watching, OnePlaceEach, Fresh,
     Same, Listed, OpenConns, Answerable
<1>4. QED
  BY <1>1, <1>2, <1>3 DEF EpollNext

\* What the server does is covered by the invariant in every behaviour.
THEOREM EpollInvariance == EpollSpec => []EpollInv
<1>1. EpollInit => EpollInv
  BY EpollInvInit
<1>2. EpollInv /\ [EpollNext]_epollVars => EpollInv'
  BY EpollInvStep
<1>3. QED
  BY <1>1, <1>2, PTL DEF EpollSpec

\* When the loop comes to an event of an answer it is not stale: accept or recv
\* does not block, and a connection is the one it was reported for, with the
\* same client at its other end.
THEOREM NoStaleEvent == EpollSpec => []EventsStayFresh
<1>1. EpollInv => EventsStayFresh
  <2>1. SUFFICES ASSUME EpollInv, main = "events", events # <<>>
                 PROVE  /\ Answerable(Head(events))
                        /\ Head(events) # Listensock => client[Head(events)] = about[Head(events)]
    BY DEF EventsStayFresh
  <2>2. events \in Seq(Conns \cup {Listensock})
    BY <2>1 DEF EpollInv, EpollTypeOK
  <2>3. 1 \in 1..Len(events) /\ Head(events) = events[1]
    BY <2>1, <2>2, EmptySeq, LenProperties
  <2>4. Answerable(events[1]) /\ Same(events[1])
    BY <2>1, <2>3 DEF EpollInv, Fresh
  <2>5. QED
    BY <2>1, <2>3, <2>4, AtAnEvent DEF Same
<1>2. QED
  BY <1>1, EpollInvariance, PTL

\* Called with port 0, the server watches every open connection and the socket
\* its clients connect to, and whoever waits for it is in the ready list at
\* every moment, however few events the array holds.
THEOREM NobodyOverlooked == EpollSpec => []NothingOverlooked
<1>1. EpollInv => NothingOverlooked
  BY DEF EpollInv, Watching, Listed, NothingOverlooked
<1>2. QED
  BY <1>1, EpollInvariance, PTL

-----------------------------------------------------------------------------
(* The pairs of demo1 to demo3: every byte is accounted for.               *)

\* Where the programs can be: only demo2's server reads, a client that has
\* not connected has no connection, and one without a connection no bytes.
PairPlaces ==
    /\ server \in {"read", "write"} => demo = "demo2"
    /\ server # "write" => buf = 0
    /\ user = "start" => net = "none"
    /\ net = "none" => c2s = 0 /\ s2c = 0 /\ buf = 0 /\ sent = 0 /\ shown = 0
    /\ user \in {"input", "read"} => net # "none"

\* A client that waits after a text that was not empty is owed some bytes.
OwedBytes ==
    demo = "demo2" /\ net \in {"queued", "open"} /\ user = "read" /\ ~empty =>
        shown < sent

PairInv == PairTypeOK /\ PairPlaces /\ EveryByteAccountedFor /\ OwedBytes

\* The invariant holds initially.
LEMMA PairInvInit == PairInit => PairInv
<1>1. Size \in Nat
  BY PairAssumption
<1>2. ASSUME PairInit PROVE PairTypeOK
  <2>1. {c2s, s2c, buf, sent, shown} \subseteq Nat /\ buf <= Size
    BY <1>1, <1>2 DEF PairInit
  <2>2. /\ demo \in Demos /\ port8888 \in {"free", "taken", "ours"}
        /\ server = "start" /\ user = "start" /\ net = "none" /\ empty \in BOOLEAN
    BY <1>2 DEF PairInit
  <2>3. QED
    BY <2>1, <2>2 DEF PairTypeOK, Ended
<1>3. PairInit => PairPlaces /\ EveryByteAccountedFor /\ OwedBytes
  BY DEF PairInit, PairPlaces, EveryByteAccountedFor, OwedBytes
<1>4. QED
  BY <1>2, <1>3 DEF PairInv

\* The counts are numbers.
LEMMA PairCounts ==
  ASSUME PairInv
  PROVE  c2s \in Nat /\ s2c \in Nat /\ buf \in Nat /\ sent \in Nat /\ shown \in Nat
  BY DEF PairInv, PairTypeOK

\* The steps in which no byte moves.
LEMMA QuietPairStep ==
  ASSUME PairInv,
         \/ ListenAnyway \/ ListenOrFail \/ ListenAndWatch \/ AcceptUser
         \/ AcceptAndEnd \/ AcceptFails \/ EchoReadEnds \/ ConnectAnyway \/ ConnectOrFail
  PROVE  PairInv'
<1>1. CASE ListenAnyway \/ ListenOrFail \/ ListenAndWatch
  BY <1>1 DEF ListenAnyway, ListenOrFail, ListenAndWatch, counts, PairInv, PairTypeOK,
     PairPlaces, EveryByteAccountedFor, OwedBytes, Demos, Ended
<1>2. CASE AcceptUser \/ AcceptAndEnd \/ AcceptFails
  BY <1>2 DEF AcceptUser, AcceptAndEnd, AcceptFails, ServerEnds, counts, PairInv, PairTypeOK,
     PairPlaces, EveryByteAccountedFor, OwedBytes, Demos, Ended
<1>3. CASE EchoReadEnds
  BY <1>3 DEF EchoReadEnds, counts, PairInv, PairTypeOK, PairPlaces,
     EveryByteAccountedFor, OwedBytes, Demos, Ended
<1>4. CASE ConnectAnyway \/ ConnectOrFail
  BY <1>4 DEF ConnectAnyway, ConnectOrFail, Heard, counts, PairInv, PairTypeOK,
     PairPlaces, EveryByteAccountedFor, OwedBytes, Demos, Ended
<1>5. QED
  BY <1>1, <1>2, <1>3, <1>4

\* The end of the client, however it comes about.
LEMMA UserEndsKeepsInv ==
  ASSUME PairInv, user \in {"input", "read"}, NEW how \in Ended, UserEnds(how)
  PROVE  PairInv'
  BY DEF UserEnds, counts, PairInv, PairTypeOK, PairPlaces, EveryByteAccountedFor,
     OwedBytes, Demos, Ended

\* The server reads into an empty buffer.
LEMMA EchoReadKeepsInv ==
  ASSUME PairInv, EchoRead
  PROVE  PairInv'
<1>1. PICK n \in 1..(IF c2s < Size THEN c2s ELSE Size) : c2s' = c2s - n /\ buf' = n
  BY DEF EchoRead
<1>2. n \in Nat /\ n <= Size /\ n <= c2s /\ c2s \in Nat /\ buf = 0
  BY PairAssumption DEF PairInv, PairTypeOK, PairPlaces, EchoRead
<1>3. /\ server = "read" /\ server' = "write"
      /\ UNCHANGED <<demo, port8888, user, net, s2c, sent, shown, empty>>
  BY DEF EchoRead
<1>4. c2s' \in Nat /\ buf' \in Nat /\ c2s' + buf' = c2s /\ buf' <= Size
  BY <1>1, <1>2
<1>5. PairTypeOK'
  BY <1>3, <1>4 DEF PairInv, PairTypeOK, Ended
<1>6. PairPlaces' /\ OwedBytes'
  BY <1>2, <1>3 DEF PairInv, PairPlaces, OwedBytes
<1>7. EveryByteAccountedFor'
  <2>1. SUFFICES ASSUME demo = "demo2", net \in {"queued", "open"}
                 PROVE  sent = c2s' + buf' + s2c + shown
    BY <1>3 DEF EveryByteAccountedFor
  <2>2. sent = c2s + buf + s2c + shown
    BY <2>1 DEF PairInv, EveryByteAccountedFor
  <2>3. QED
    BY <1>1, <1>2, <2>2, PairCounts
<1>8. QED
  BY <1>5, <1>6, <1>7 DEF PairInv

\* The server writes what it has read.
LEMMA EchoWriteKeepsInv ==
  ASSUME PairInv, EchoWrite
  PROVE  PairInv'
<1>1. PairTypeOK'
  BY PairAssumption DEF EchoWrite, PairInv, PairTypeOK, Ended
<1>2. PairPlaces' /\ OwedBytes'
  BY DEF EchoWrite, PairInv, PairPlaces, OwedBytes
<1>3. EveryByteAccountedFor'
  BY DEF EchoWrite, PairInv, PairTypeOK, EveryByteAccountedFor
<1>4. QED
  BY <1>1, <1>2, <1>3 DEF PairInv

\* The client sends n bytes, and is then owed them.
LEMMA SendTextKeepsInv ==
  ASSUME PairInv, NEW n \in 0..Size, SendText(n)
  PROVE  PairInv'
<1>1. n \in Nat
  BY PairAssumption
<1>2. PairTypeOK'
  BY <1>1 DEF SendText, PairInv, PairTypeOK, Ended
<1>3. PairPlaces'
  BY DEF SendText, PairInv, PairTypeOK, PairPlaces
<1>4. EveryByteAccountedFor'
  BY <1>1 DEF SendText, PairInv, PairTypeOK, EveryByteAccountedFor
<1>5. OwedBytes'
  <2>1. SUFFICES ASSUME demo = "demo2", net \in {"queued", "open"}, n # 0
                 PROVE  shown < sent + n
    BY DEF SendText, OwedBytes
  <2>2. sent = c2s + buf + s2c + shown
    BY <2>1 DEF PairInv, EveryByteAccountedFor
  <2>3. QED
    BY <1>1, <2>1, <2>2, PairCounts
<1>6. QED
  BY <1>2, <1>3, <1>4, <1>5 DEF PairInv

\* The client reads some of a reply.
LEMMA ShowKeepsInv ==
  ASSUME PairInv, Show
  PROVE  PairInv'
<1>1. PICK n \in 1..(IF s2c < Size THEN s2c ELSE Size) :
           s2c' = s2c - n /\ shown' = shown + n
  BY DEF Show
<1>2. n \in Nat /\ n <= s2c /\ {s2c, shown} \subseteq Nat
  BY PairAssumption DEF PairInv, PairTypeOK
<1>3. s2c' \in Nat /\ shown' \in Nat /\ s2c' + shown' = s2c + shown
  BY <1>1, <1>2
<1>4. PairTypeOK'
  BY <1>3 DEF Show, PairInv, PairTypeOK, Ended
<1>5. PairPlaces' /\ OwedBytes'
  BY DEF Show, PairInv, PairPlaces, OwedBytes
<1>6. EveryByteAccountedFor'
  BY <1>2, <1>3 DEF Show, PairInv, PairTypeOK, EveryByteAccountedFor
<1>7. QED
  BY <1>4, <1>5, <1>6 DEF PairInv

LEMMA PairInvStep == ASSUME PairInv, [PairNext]_pairVars PROVE PairInv'
<1>1. CASE PairServer
  BY <1>1, QuietPairStep, EchoReadKeepsInv, EchoWriteKeepsInv DEF PairServer
<1>2. CASE UserReadEnds \/ SendFails \/ Quit
  BY <1>2, UserEndsKeepsInv DEF UserReadEnds, SendFails, Quit, Ended
<1>3. CASE ConnectAnyway \/ ConnectOrFail \/ Show
  BY <1>3, QuietPairStep, ShowKeepsInv
<1>4. CASE \E n \in 0..Size : SendText(n)
  BY <1>4, SendTextKeepsInv
<1>5. CASE UNCHANGED pairVars
  BY <1>5 DEF pairVars, counts, PairInv, PairTypeOK, PairPlaces,
     EveryByteAccountedFor, OwedBytes
<1>6. QED
  BY <1>1, <1>2, <1>3, <1>4, <1>5 DEF PairNext, PairUser

\* The invariant of the pairs holds always.
THEOREM PairInvariance == PairSpec => []PairInv
<1>1. PairInv /\ [PairNext]_pairVars => PairInv'
  BY PairInvStep
<1>2. QED
  BY <1>1, PairInvInit, PTL DEF PairSpec

\* Through any sequence of partial reads every byte is accounted for.
THEOREM BytesAccountedFor == PairSpec => []EveryByteAccountedFor
<1>1. PairInv => EveryByteAccountedFor
  BY DEF PairInv
<1>2. QED
  BY <1>1, PairInvariance, PTL

\* The two programs of demo2 wait for each other only after an empty text.
THEOREM NoMutualWait == PairSpec => []WaitMeansEmptyInput
<1>1. PairInv => WaitMeansEmptyInput
  BY DEF PairInv, PairTypeOK, PairPlaces, EveryByteAccountedFor, OwedBytes, WaitMeansEmptyInput
<1>2. QED
  BY <1>1, PairInvariance, PTL

\* The variables keep their types; the server never reads more than its buffer
\* holds.
THEOREM PairTyped == PairSpec => []PairTypeOK
<1>1. PairInv => PairTypeOK
  BY DEF PairInv
<1>2. QED
  BY <1>1, PairInvariance, PTL

-----------------------------------------------------------------------------
(* Connection: partial writes, and edges that report what came.            *)

\* The peer's bytes are in the socket, or this call has taken them, or they
\* are gone.
Counted == taken + inbox <= received

\* No report is outstanding only if there is nothing to report; a call of
\* Write changes nothing in this.
EdgeKept ==
    nonBlocking /\ pc \in {"idle", "writing"} /\ state = "Connected" /\ ~edge =>
        inbox = 0 /\ peer = "open"

\* How far into the buffer the writes have come.
Stopped == Len(sendBuffer) - data_written

BufferIsMessage == \A i \in 1..Len(sendBuffer) : sendBuffer[i] = <<messages, i>>

\* The wire ends where the running Write stopped, or with an earlier message.
EndOfWire ==
    /\ wire # <<>> => wire[Len(wire)][1] <= messages
    /\ pc = "writing" =>
          IF Stopped = 0 THEN wire # <<>> => wire[Len(wire)][1] < messages
          ELSE wire # <<>> /\ wire[Len(wire)] = <<messages, Stopped>>

ConnInv == /\ ConnectionTypeOK /\ Counted /\ EdgeKept
           /\ BufferIsMessage /\ EndOfWire /\ WireInOrder

\* The lengths and the numbers.
LEMMA ConnFacts ==
  ASSUME ConnInv
  PROVE  /\ messages \in Nat /\ data_written \in Nat /\ drained \in Nat
         /\ wire \in Seq(Nat \X Nat) /\ Len(wire) \in Nat
         /\ sendBuffer \in Seq(Nat \X Nat) /\ Len(sendBuffer) \in Nat
         /\ data_written <= Len(sendBuffer) /\ drained <= Len(wire)
         /\ {readBuffer, taken, inbox, received, signals} \subseteq Nat
         /\ Capacity \in Nat /\ Buf \in Nat /\ Buf > 0 /\ Room \in 0..Capacity
<1>1. Len(wire) \in Nat /\ Len(sendBuffer) \in Nat
  BY LenProperties DEF ConnInv, ConnectionTypeOK
<1>2. QED
  BY <1>1, ConnectionAssumption DEF ConnInv, ConnectionTypeOK

\* Steps that write nothing and leave the buffer alone.
LEMMA WritesNothing ==
  ASSUME ConnInv, UNCHANGED <<messages, sendBuffer, data_written, wire>>,
         pc' = "writing" => pc = "writing"
  PROVE  BufferIsMessage' /\ EndOfWire' /\ WireInOrder'
  BY DEF ConnInv, BufferIsMessage, EndOfWire, WireInOrder, Stopped

\* The end of Write, after which the buffer is empty.
LEMMA WriteReturnsKeepsInv ==
  ASSUME ConnInv, pc = "writing", NEW newState \in {state, "Closed"},
         WriteReturns(newState), signals' \in 0..MaxSignals
  PROVE  ConnInv'
<1>1. /\ pc' = "idle" /\ state' = newState /\ sendBuffer' = <<>> /\ data_written' = 0
      /\ UNCHANGED <<nonBlocking, messages, readBuffer, taken, wire, inbox, drained,
                     received, peer, edge>>
  BY DEF WriteReturns, peerVars
<1>2. sendBuffer' \in Seq(Nat \X Nat) /\ Len(sendBuffer') = 0
  BY <1>1, EmptySeq
<1>3. ConnectionTypeOK'
  BY <1>1, <1>2 DEF ConnInv, ConnectionTypeOK, Room
<1>4. Counted' /\ EdgeKept'
  BY <1>1 DEF ConnInv, Counted, EdgeKept
<1>5. BufferIsMessage'
  BY <1>2 DEF BufferIsMessage
<1>6. EndOfWire' /\ WireInOrder'
  BY <1>1 DEF ConnInv, EndOfWire, WireInOrder
<1>7. QED
  BY <1>3, <1>4, <1>5, <1>6 DEF ConnInv

\* A step that changes only where the object is and the count of the signals.
LEMMA QuietKeepsInv ==
  ASSUME ConnInv, pc = "writing", pc' \in {"writing", "killed"},
         UNCHANGED <<nonBlocking, state, messages, sendBuffer, data_written, readBuffer,
                     taken, wire, inbox, peerVars, edge>>,
         signals' \in 0..MaxSignals
  PROVE  ConnInv'
<1>1. ConnectionTypeOK' /\ Counted' /\ EdgeKept'
  BY DEF ConnInv, ConnectionTypeOK, Room, Counted, EdgeKept, peerVars
<1>2. QED
  BY <1>1, WritesNothing DEF ConnInv

\* The write goes on where the last one stopped.
LEMMA WrittenKeepsInv ==
  ASSUME ConnInv, pc = "writing", NEW n \in 1..Lesser(data_written, Room), Written(n)
  PROVE  ConnInv'
<1> DEFINE L == Len(wire)
           from == Stopped
           more == SubSeq(sendBuffer, from + 1, from + n)
<1>1. /\ wire' = wire \o more /\ data_written' = data_written - n
      /\ UNCHANGED <<nonBlocking, state, pc, messages, sendBuffer, readBuffer, taken, inbox,
                     drained, received, peer, edge, signals>>
  BY DEF Written, peerVars, Stopped
<1>2. n \in Nat /\ n > 0 /\ n <= data_written /\ n <= Room
  BY ConnFacts DEF Lesser
<1>3. L \in Nat /\ from \in Nat /\ from + n <= Len(sendBuffer) /\ Len(sendBuffer) \in Nat
      /\ data_written - n \in 0..Len(sendBuffer)
  <2>1. L \in Nat /\ Len(sendBuffer) \in Nat /\ data_written \in Nat
        /\ data_written <= Len(sendBuffer) /\ from = Len(sendBuffer) - data_written
    BY ConnFacts DEF Stopped
  <2> HIDE DEF L, from
  <2>2. QED
    BY <1>2, <2>1
<1>4. ASSUME NEW k \in (from + 1)..(from + n)
      PROVE  /\ k \in 1..Len(sendBuffer) /\ sendBuffer[k] = <<messages, k>>
             /\ sendBuffer[k] \in Nat \X Nat
  <2> HIDE DEF L, from
  <2>1. k \in 1..Len(sendBuffer)
    BY <1>2, <1>3
  <2>2. sendBuffer[k] = <<messages, k>>
    BY <2>1 DEF ConnInv, BufferIsMessage
  <2>3. QED
    BY <2>1, <2>2, ConnFacts, ElementOfSeq
<1>5. /\ more \in Seq(Nat \X Nat) /\ Len(more) = n
      /\ \A k \in 1..n : more[k] = <<messages, from + k>>
  <2> HIDE DEF L, from
  <2>1. from + 1 \in Int /\ from + n \in Int
    BY <1>2, <1>3
  <2>2. /\ more \in Seq(Nat \X Nat)
        /\ Len(more) = IF from + 1 <= from + n THEN (from + n) - (from + 1) + 1 ELSE 0
        /\ \A k \in 1..((from + n) - (from + 1) + 1) : more[k] = sendBuffer[(from + 1) + k - 1]
    BY <1>4, <2>1, SubSeqProperties
  <2> HIDE DEF more
  <2>3. from + 1 <= from + n /\ (from + n) - (from + 1) + 1 = n
    BY <1>2, <1>3
  <2>4. \A k \in 1..n : (from + 1) + k - 1 = from + k /\ from + k \in (from + 1)..(from + n)
    BY <1>2, <1>3
  <2>5. QED
    BY <1>4, <2>2, <2>3, <2>4
<1> HIDE DEF more
<1>6. /\ wire' \in Seq(Nat \X Nat) /\ Len(wire') = L + n
      /\ \A k \in 1..L : wire'[k] = wire[k]
      /\ \A k \in 1..n : wire'[L + k] = <<messages, from + k>>
  <2>1. /\ wire \o more \in Seq(Nat \X Nat) /\ Len(wire \o more) = L + n
        /\ \A k \in 1..(L + n) : (wire \o more)[k] = IF k <= L THEN wire[k] ELSE more[k - L]
    BY <1>5, ConnFacts, ConcatProperties
  <2> HIDE DEF L, from
  <2>2. \A k \in 1..L : k \in 1..(L + n) /\ k <= L
    BY <1>2, <1>3
  <2>3. \A k \in 1..n : L + k \in 1..(L + n) /\ ~(L + k <= L) /\ (L + k) - L = k
    BY <1>2, <1>3
  <2>4. QED
    BY <1>1, <1>5, <2>1, <2>2, <2>3
<1>7. L > 0 => wire # <<>>
  BY EmptySeq
<1>8. IF from = 0 THEN L > 0 => wire[L][1] < messages
      ELSE L > 0 /\ wire[L] = <<messages, from>>
  <2>1. wire # <<>> => L > 0
    BY <1>3, ConnFacts, EmptySeq
  <2>2. QED
    BY <1>7, <2>1 DEF ConnInv, EndOfWire
<1>9. Stopped' = from + n
  BY <1>1, <1>2, ConnFacts DEF Stopped
<1>10. ConnectionTypeOK'
  <2>1. data_written' \in 0..Len(sendBuffer)
    BY <1>1, <1>3
  <2>2. drained \in 0..Len(wire')
    <3>1. drained \in Nat /\ drained <= L
      BY ConnFacts
    <3> HIDE DEF L
    <3>2. QED
      BY <1>2, <1>3, <1>6, <3>1
  <2>3. Room' \in 0..Capacity
    <3>1. Room = Capacity - (L - drained) /\ Room' = Capacity - ((L + n) - drained)
      BY <1>1, <1>6 DEF Room
    <3>2. QED
      <4>1. Room \in 0..Capacity /\ Capacity \in Nat /\ drained \in Nat
        BY ConnFacts
      <4> HIDE DEF L
      <4>2. Room' = Room - n
        BY <1>2, <1>3, <3>1, <4>1
      <4>3. QED
        BY <1>2, <4>1, <4>2
  <2>4. QED
    BY <1>1, <1>6, <2>1, <2>2, <2>3 DEF ConnInv, ConnectionTypeOK
<1>11. Counted' /\ EdgeKept' /\ BufferIsMessage'
  BY <1>1 DEF ConnInv, Counted, EdgeKept, BufferIsMessage
<1> HIDE DEF L, from
<1>12. EndOfWire'
  <2>1. wire'[Len(wire')] = <<messages, from + n>> /\ from + n # 0
    <3>1. n \in 1..n /\ from + n # 0
      BY <1>2, <1>3
    <3>2. QED
      BY <1>6, <3>1
  <2>2. wire' # <<>>
    BY <1>2, <1>3, <1>6, EmptySeq
  <2>3. QED
    BY <1>1, <1>9, <2>1, <2>2, ConnFacts DEF EndOfWire
<1>13. WireInOrder'
  <2>1. ASSUME NEW i \in 1..(L + n)
        PROVE  \/ wire'[i][2] = 1 /\ (i > 1 => wire'[i - 1][1] < wire'[i][1])
               \/ i > 1 /\ wire'[i] = <<wire'[i - 1][1], wire'[i - 1][2] + 1>>
    <3>1. CASE i \in 1..L
      <4>1. wire'[i] = wire[i] /\ (i > 1 => wire'[i - 1] = wire[i - 1])
        <5>1. i > 1 => i - 1 \in 1..L
          BY <1>3, <3>1
        <5>2. QED
          BY <1>6, <3>1, <5>1
      <4>2. QED
        BY <3>1, <4>1 DEF ConnInv, WireInOrder, L
    <3>2. CASE i = L + 1
      <4>1. wire'[i] = <<messages, from + 1>>
        BY <1>2, <1>6, <3>2
      <4>2. L > 0 => i - 1 = L /\ wire'[L] = wire[L]
        <5>1. L > 0 => i - 1 = L /\ L \in 1..L
          BY <1>3, <3>2
        <5>2. QED
          BY <1>6, <5>1
      <4>3. CASE from = 0
        BY <1>3, <1>8, <3>2, <4>1, <4>2, <4>3
      <4>4. CASE from # 0
        BY <1>3, <1>8, <3>2, <4>1, <4>2, <4>4
      <4>5. QED
        BY <4>3, <4>4
    <3>3. CASE i > L + 1
      <4>1. /\ i - L \in 1..n /\ i - L - 1 \in 1..n /\ i = L + (i - L)
            /\ i - 1 = L + (i - L - 1) /\ i > 1
        BY <1>2, <1>3, <3>3
      <4>2. wire'[i] = <<messages, from + (i - L)>> /\ wire'[i - 1] = <<messages, from + (i - L - 1)>>
        BY <1>6, <4>1
      <4>3. from + (i - L) = (from + (i - L - 1)) + 1
        BY <1>2, <1>3
      <4>4. QED
        BY <4>1, <4>2, <4>3
    <3>4. QED
      BY <1>2, <1>3, <3>1, <3>2, <3>3
  <2>2. QED
    BY <1>6, <2>1 DEF WireInOrder
<1>14. QED
  BY <1>10, <1>11, <1>12, <1>13 DEF ConnInv

\* The steps of Write.
LEMMA WriteKeepsInv ==
  ASSUME ConnInv, writeNonBlocking \/ writeBlocking \/ WriteFails
  PROVE  ConnInv'
<1>1. pc = "writing" /\ signals \in 0..MaxSignals /\ state \in {"Connected", "Closed"}
  BY DEF writeNonBlocking, writeBlocking, WriteFails, ConnInv, ConnectionTypeOK
<1>2. signals < MaxSignals => signals + 1 \in 0..MaxSignals
  BY <1>1, ConnectionAssumption
<1>3. ASSUME NEW newState \in {state, "Closed"}, WriteReturns(newState),
             signals' = signals \/ (signals < MaxSignals /\ signals' = signals + 1)
      PROVE  ConnInv'
  BY <1>1, <1>2, <1>3, WriteReturnsKeepsInv
<1>4. CASE WriteFails
  <2>1. CASE WriteReturns(IF Partial THEN state ELSE "Closed") /\ signals' = signals
    BY <1>3, <2>1
  <2>2. CASE pc' = "killed" /\ UNCHANGED <<nonBlocking, state, messages, sendBuffer,
              data_written, readBuffer, taken, wire, inbox, peerVars, edge, signals>>
    BY <1>1, <2>2, QuietKeepsInv
  <2>3. QED
    BY <1>4, <2>1, <2>2 DEF WriteFails
<1>5. CASE writeNonBlocking
  <2>1. CASE WriteReturns(state) /\ signals' = signals
    BY <1>3, <2>1
  <2>2. CASE \E n \in 1..Lesser(data_written, Room) : Written(n)
    BY <1>1, <2>2, WrittenKeepsInv
  <2>3. CASE /\ signals < MaxSignals /\ signals' = signals + 1
             /\ UNCHANGED <<nonBlocking, callerVars, wire, inbox, peerVars, edge>>
    <3>1. pc' = pc /\ UNCHANGED <<nonBlocking, state, messages, sendBuffer,
              data_written, readBuffer, taken, wire, inbox, peerVars, edge>>
      BY <2>3 DEF callerVars
    <3>2. QED
      BY <1>1, <1>2, <2>3, <3>1, QuietKeepsInv
  <2>4. QED
    BY <1>5, <2>1, <2>2, <2>3 DEF writeNonBlocking
<1>6. CASE writeBlocking
  <2>1. CASE WriteReturns(state) /\ signals' = signals
    BY <1>3, <2>1
  <2>2. CASE \E n \in 1..Lesser(data_written, Room) : Written(n)
    BY <1>1, <2>2, WrittenKeepsInv
  <2>3. CASE /\ signals < MaxSignals /\ signals' = signals + 1
             /\ WriteReturns(IF Partial THEN state ELSE "Closed")
    BY <1>3, <2>3
  <2>4. QED
    BY <1>6, <2>1, <2>2, <2>3 DEF writeBlocking
<1>7. QED
  BY <1>4, <1>5, <1>6

\* Send fills the buffer, whatever Write then does.
LEMMA SendKeepsInv ==
  ASSUME ConnInv, NEW len \in Lens, Send(len)
  PROVE  ConnInv'
<1>1. /\ pc = "idle" /\ messages < MaxMessages /\ messages' = messages + 1
      /\ sendBuffer' = [i \in 1..len |-> <<messages', i>>]
      /\ \/ state = "Connected" /\ pc' = "writing" /\ data_written' = len
         \/ pc' = "idle" /\ data_written' = 0
      /\ UNCHANGED <<nonBlocking, state, readBuffer, taken, wire, inbox, drained, received,
                     peer, edge, signals>>
  BY DEF Send, peerVars
<1>2. messages' \in 0..MaxMessages /\ messages' \in Nat /\ messages < messages'
  BY <1>1, ConnFacts, ConnectionAssumption
<1>3. len \in Nat
  BY ConnectionAssumption
<1>4. sendBuffer' \in Seq(Nat \X Nat) /\ Len(sendBuffer') = len
  <2>1. \A i \in 1..len : <<messages', i>> \in Nat \X Nat
    BY <1>2
  <2> HIDE DEF ConnInv
  <2>2. [i \in 1..len |-> <<messages', i>>] \in Seq(Nat \X Nat)
    BY <1>3, <2>1, IsASeq
  <2>3. QED
    BY <1>1, <1>3, <2>2, LenProperties
<1>5. ConnectionTypeOK'
  BY <1>1, <1>2, <1>3, <1>4 DEF ConnInv, ConnectionTypeOK, Room
<1>6. Counted' /\ EdgeKept'
  BY <1>1 DEF ConnInv, Counted, EdgeKept
<1>7. BufferIsMessage'
  BY <1>1, <1>4 DEF BufferIsMessage
<1>8. EndOfWire'
  <2>1. wire # <<>> => wire[Len(wire)][1] \in Nat /\ wire[Len(wire)][1] <= messages
    <3>1. wire # <<>> => wire[Len(wire)] \in Nat \X Nat
      BY ConnFacts, EmptySeq, ElementOfSeq
    <3>2. QED
      BY <3>1 DEF ConnInv, EndOfWire
  <2>2. wire # <<>> => wire[Len(wire)][1] < messages' /\ wire[Len(wire)][1] <= messages'
    <3>1. messages \in Nat /\ messages' \in Nat /\ messages < messages'
      BY <1>2, ConnFacts
    <3> DEFINE last == wire[Len(wire)][1]
    <3>2. wire # <<>> => last \in Nat /\ last <= messages
      BY <2>1
    <3> HIDE DEF last
    <3>3. wire # <<>> => last < messages' /\ last <= messages'
      BY <3>1, <3>2
    <3>4. QED
      BY <3>3 DEF last
  <2>3. pc' = "writing" => Stopped' = 0
    BY <1>1, <1>3, <1>4 DEF Stopped
  <2>4. QED
    BY <1>1, <2>2, <2>3 DEF EndOfWire
<1>9. WireInOrder'
  BY <1>1 DEF ConnInv, WireInOrder
<1>10. QED
  BY <1>5, <1>6, <1>7, <1>8, <1>9 DEF ConnInv

\* A call of Read: it takes bytes out of the socket until there are none, and
\* Connected it leaves only with the peer there.
LEMMA ReadKeepsInv ==
  ASSUME ConnInv, Read \/ readNonBlocking \/ readBlocking
  PROVE  ConnInv'
<1>1. CASE Read
  <2>1. /\ pc' = "reading" /\ readBuffer' = 0 /\ taken' = 0 /\ edge' = FALSE
        /\ UNCHANGED <<nonBlocking, state, messages, sendBuffer, data_written, wire, inbox,
                       drained, received, peer, signals>>
    BY <1>1 DEF Read, peerVars
  <2>2. ConnectionTypeOK'
    <3>1. readBuffer' \in 0..taken' /\ taken' \in 0..received'
      BY <2>1, ConnFacts
    <3>2. QED
      BY <2>1, <3>1 DEF ConnInv, ConnectionTypeOK, Room
  <2>3. Counted'
    BY <2>1 DEF ConnInv, ConnectionTypeOK, Counted
  <2>4. EdgeKept'
    BY <2>1 DEF EdgeKept
  <2>5. QED
    BY <2>1, <2>2, <2>3, <2>4, WritesNothing DEF ConnInv
<1>2. ASSUME NEW n \in 1..inbox, ReadsOn(n), pc' \in {"reading", "idle"}, state' = state,
             nonBlocking => pc' = "reading"
      PROVE  ConnInv'
  <2>1. /\ inbox' = inbox - n /\ taken' = taken + n /\ readBuffer' = readBuffer
        /\ UNCHANGED <<nonBlocking, messages, sendBuffer, data_written, wire, drained,
                       received, peer, edge, signals>>
    BY <1>2 DEF ReadsOn, BufferAppend, peerVars
  <2>2. inbox' \in 0..received /\ taken' \in 0..received /\ readBuffer \in 0..taken'
        /\ taken' + inbox' <= received
    BY <2>1, ConnFacts DEF ConnInv, ConnectionTypeOK, Counted
  <2>3. ConnectionTypeOK' /\ Counted' /\ EdgeKept'
    BY <1>2, <2>1, <2>2 DEF ConnInv, ConnectionTypeOK, Room, Counted, EdgeKept
  <2>4. pc' # "writing"
    BY <1>2
  <2>5. QED
    BY <2>1, <2>3, <2>4, WritesNothing DEF ConnInv
<1>3. ASSUME ReadReturns, UNCHANGED signals, inbox = 0
      PROVE  ConnInv'
  <2>1. /\ pc' = "idle" /\ state' = (IF peer = "open" THEN state ELSE "Closed")
        /\ UNCHANGED <<nonBlocking, messages, sendBuffer, data_written, readBuffer, taken,
                       wire, inbox, drained, received, peer, edge, signals>>
    BY <1>3 DEF ReadReturns, StateAtEnd, peerVars
  <2>2. ConnectionTypeOK' /\ Counted' /\ EdgeKept'
    BY <1>3, <2>1 DEF ConnInv, ConnectionTypeOK, Room, Counted, EdgeKept
  <2>3. QED
    BY <2>1, <2>2, WritesNothing DEF ConnInv
<1>4. CASE readNonBlocking
  <2>1. inbox > 0 => Lesser(inbox, Buf) \in 1..inbox
    <3>1. inbox \in Nat /\ Buf \in Nat /\ Buf > 0
      BY ConnFacts
    <3>2. QED
      BY <3>1 DEF Lesser
  <2>2. QED
    BY <1>2, <1>3, <1>4, <2>1 DEF readNonBlocking
<1>5. CASE readBlocking
  <2>1. inbox > 0 => inbox \in 1..inbox
    BY ConnFacts
  <2>2. ASSUME signals < MaxSignals, signals' = signals + 1, pc' = "idle", state' = "Closed",
               UNCHANGED <<nonBlocking, messages, sendBuffer, data_written, readBuffer,
                           taken, wire, inbox, peerVars, edge>>
        PROVE  ConnInv'
    <3>1. signals' \in 0..MaxSignals
      BY <2>2, ConnFacts, ConnectionAssumption
    <3>2. ConnectionTypeOK' /\ Counted' /\ EdgeKept'
      BY <2>2, <3>1 DEF ConnInv, ConnectionTypeOK, Room, Counted, EdgeKept, peerVars
    <3>3. QED
      BY <2>2, <3>2, WritesNothing DEF ConnInv
  <2>3. QED
    BY <1>2, <1>3, <1>5, <2>1, <2>2 DEF readBlocking
<1>6. QED
  BY <1>1, <1>4, <1>5

\* The peer: what it does is reported.
LEMMA PeerKeepsInv ==
  ASSUME ConnInv, PeerSends \/ PeerReads \/ PeerEnds
  PROVE  ConnInv'
<1>1. UNCHANGED <<nonBlocking, state, pc, messages, sendBuffer, data_written, readBuffer,
                  taken, wire, signals>>
  BY DEF PeerSends, PeerReads, PeerEnds, callerVars
<1>2. CASE PeerSends
  <2>1. PICK n \in 1..(MaxReceived - received) : received' = received + n /\ inbox' = inbox + n
    BY <1>2 DEF PeerSends
  <2>2. received' \in 0..MaxReceived /\ inbox' \in 0..received' /\ taken \in 0..received'
        /\ taken + inbox' <= received'
    BY <2>1, ConnFacts, ConnectionAssumption DEF ConnInv, ConnectionTypeOK, Counted
  <2>3. edge' = TRUE /\ UNCHANGED <<drained, peer>>
    BY <1>2 DEF PeerSends
  <2>4. QED
    BY <1>1, <2>2, <2>3, WritesNothing
    DEF ConnInv, ConnectionTypeOK, Room, Counted, EdgeKept
<1>3. CASE PeerReads
  <2>1. drained' = Len(wire) /\ UNCHANGED <<inbox, received, peer, edge>>
    BY <1>3 DEF PeerReads
  <2>2. drained' \in 0..Len(wire) /\ Room' \in 0..Capacity
    BY <1>1, <2>1, ConnFacts DEF Room
  <2>3. QED
    BY <1>1, <2>1, <2>2, WritesNothing
    DEF ConnInv, ConnectionTypeOK, Counted, EdgeKept
<1>4. CASE PeerEnds
  <2>1. /\ edge' = TRUE /\ UNCHANGED <<drained, received>>
        /\ peer' \in {"closed", "reset"} /\ inbox' \in {inbox, 0}
    BY <1>4 DEF PeerEnds
  <2>2. inbox' \in 0..received /\ taken + inbox' <= received
    <3>1. {inbox, taken, received} \subseteq Nat /\ inbox <= received /\ taken + inbox <= received
          /\ taken <= received
      BY ConnFacts DEF ConnInv, ConnectionTypeOK, Counted
    <3>2. QED
      BY <2>1, <3>1
  <2>3. QED
    BY <1>1, <2>1, <2>2, WritesNothing
    DEF ConnInv, ConnectionTypeOK, Room, Counted, EdgeKept
<1>5. QED
  BY <1>2, <1>3, <1>4

LEMMA ConnInvInit == ASSUME ConnectionInit PROVE ConnInv
<1>1. <<>> \in Seq(Nat \X Nat) /\ Len(<<>>) = 0
  BY EmptySeq
<1>2. ConnectionTypeOK
  <2>1. Capacity \in Nat /\ 0 \in 0..MaxMessages /\ 0 \in 0..MaxReceived /\ 0 \in 0..MaxSignals
    BY ConnectionAssumption
  <2>2. Room \in 0..Capacity
    BY <1>1, <2>1 DEF ConnectionInit, Room
  <2>3. /\ data_written \in 0..Len(sendBuffer) /\ drained \in 0..Len(wire)
        /\ readBuffer \in 0..taken /\ inbox \in 0..received /\ taken \in 0..received
    BY <1>1 DEF ConnectionInit
  <2>4. QED
    BY <1>1, <2>1, <2>2, <2>3 DEF ConnectionInit, ConnectionTypeOK
<1>3. Counted /\ EdgeKept /\ BufferIsMessage /\ EndOfWire /\ WireInOrder
  BY <1>1 DEF ConnectionInit, Counted, EdgeKept, BufferIsMessage, EndOfWire, WireInOrder
<1>4. QED
  BY <1>2, <1>3 DEF ConnInv

\* The invariant of a Connection holds always.
THEOREM ConnectionInvariance == ConnectionSpec => []ConnInv
<1>1. ConnInv /\ [ConnectionNext]_connectionVars => ConnInv'
  <2> SUFFICES ASSUME ConnInv, [ConnectionNext]_connectionVars PROVE ConnInv'
    OBVIOUS
  <2>1. CASE ConnectionNext
    BY <2>1, SendKeepsInv, WriteKeepsInv, ReadKeepsInv, PeerKeepsInv DEF ConnectionNext, Step
  <2>2. CASE UNCHANGED connectionVars
    BY <2>2 DEF connectionVars, callerVars, peerVars, ConnInv, ConnectionTypeOK, Room, Counted,
       EdgeKept, BufferIsMessage, EndOfWire, WireInOrder, Stopped
  <2>3. QED
    BY <2>1, <2>2
<1>2. QED
  BY <1>1, ConnInvInit, PTL DEF ConnectionSpec

\* Partial writes and signals neither skip nor repeat a byte on the wire.
THEOREM BytesInOrder == ConnectionSpec => []WireInOrder
<1>1. ConnInv => WireInOrder
  BY DEF ConnInv
<1>2. QED
  BY <1>1, ConnectionInvariance, PTL

\* One call of Read per report of the edge-triggered epoll leaves nothing in
\* the socket that nobody is told of.
THEOREM EdgeNeverLost == ConnectionSpec => []NoLostEdge
<1>1. ConnInv => NoLostEdge
  BY DEF ConnInv, EdgeKept, NoLostEdge
<1>2. QED
  BY <1>1, ConnectionInvariance, PTL

\* The members keep their types: data_written stays within the buffer, and no
\* more is in flight than the kernel has room for.
THEOREM ConnectionTyped == ConnectionSpec => []ConnectionTypeOK
<1>1. ConnInv => ConnectionTypeOK
  BY DEF ConnInv
<1>2. QED
  BY <1>1, ConnectionInvariance, PTL

=============================================================================
