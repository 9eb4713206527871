----------------------------- MODULE QueueLemmas -----------------------------
(***************************************************************************)
(* Facts about queues without duplicates, which the request queues and the *)
(* page lists are: what is in them after an element or a queue was added   *)
(* at one end, or taken from the other.                                    *)
(***************************************************************************)
EXTENDS Queues, FiniteSetTheorems, SequenceTheorems, NaturalsInduction, WellFoundedInduction, TLAPS

\* A queue that an element is appended to.
LEMMA AppendQueue ==
    ASSUME NEW S, NEW q \in Seq(S), NEW r \in S
    PROVE  /\ Append(q, r) \in Seq(S) /\ Len(Append(q, r)) = Len(q) + 1
           /\ Range(Append(q, r)) = Range(q) \union {r}
           /\ IsInjective(q) /\ r \notin Range(q) => IsInjective(Append(q, r))
<1>1. /\ Append(q, r) \in Seq(S) /\ Len(Append(q, r)) = Len(q) + 1 /\ Len(q) \in Nat
      /\ DOMAIN q = 1 .. Len(q) /\ DOMAIN Append(q, r) = 1 .. Len(q) + 1
  OBVIOUS
<1>2. /\ \A i \in 1 .. Len(q) : Append(q, r)[i] = q[i]
      /\ Append(q, r)[Len(q) + 1] = r
  OBVIOUS
<1>3. \A i \in 1 .. Len(q) + 1 : i \in 1 .. Len(q) \/ i = Len(q) + 1
  BY <1>1
<1> DEFINE a == Append(q, r)
<1> HIDE DEF a
<1>4. Range(a) = Range(q) \union {r}
  <2>1. ASSUME NEW x \in Range(a) PROVE x \in Range(q) \union {r}
    BY <1>1, <1>2, <1>3, <2>1 DEF Range, a
  <2>2. Range(q) \subseteq Range(a)
    <3>1. \A i \in 1 .. Len(q) : i \in 1 .. Len(q) + 1
      BY <1>1
    <3> QED BY <1>1, <1>2, <3>1 DEF Range, a
  <2>3. r \in Range(a)
    <3>1. Len(q) + 1 \in 1 .. Len(q) + 1
      BY <1>1
    <3> QED BY <1>1, <1>2, <3>1 DEF Range, a
  <2> QED BY <2>1, <2>2, <2>3
<1>5. IsInjective(q) /\ r \notin Range(q) => IsInjective(a)
  <2> SUFFICES ASSUME IsInjective(q), r \notin Range(q), NEW i \in 1 .. Len(q) + 1,
                      NEW j \in 1 .. Len(q) + 1, a[i] = a[j]
               PROVE  i = j
    BY <1>1 DEF IsInjective, a
  <2>1. \A k \in 1 .. Len(q) : q[k] # r
    BY <1>1 DEF Range
  <2>2. CASE i \in 1 .. Len(q) /\ j \in 1 .. Len(q)
    BY <1>1, <1>2, <2>2 DEF IsInjective, a
  <2>3. CASE i = Len(q) + 1 \/ j = Len(q) + 1
    BY <1>2, <1>3, <2>1, <2>3 DEF a
  <2> QED BY <1>3, <2>2, <2>3
<1> QED BY <1>1, <1>4, <1>5 DEF a

\* A queue without duplicates that its head is taken from.
LEMMA TakeHead ==
    ASSUME NEW S, NEW q \in Seq(S), q # <<>>
    PROVE  /\ Head(q) \in S /\ Head(q) \in Range(q) /\ Tail(q) \in Seq(S) /\ Len(Tail(q)) = Len(q) - 1
           /\ IsInjective(q) => IsInjective(Tail(q)) /\ Range(Tail(q)) = Range(q) \ {Head(q)}
<1>1. /\ Len(q) \in Nat /\ Len(q) >= 1 /\ DOMAIN q = 1 .. Len(q) /\ Head(q) = q[1] /\ Head(q) \in S
      /\ Tail(q) \in Seq(S) /\ Len(Tail(q)) = Len(q) - 1 /\ DOMAIN Tail(q) = 1 .. Len(q) - 1
  OBVIOUS
<1>2. \A i \in 1 .. Len(q) - 1 : i + 1 \in 1 .. Len(q) /\ i + 1 # 1 /\ Tail(q)[i] = q[i + 1]
  <2>1. \A i \in 1 .. Len(q) - 1 : Tail(q)[i] = q[i + 1]
    BY <1>1
  <2> QED BY <1>1, <2>1
<1>3. \A i \in 1 .. Len(q) : i = 1 \/ (i - 1 \in 1 .. Len(q) - 1 /\ Tail(q)[i - 1] = q[i])
  <2> SUFFICES ASSUME NEW i \in 1 .. Len(q), i # 1
               PROVE  i - 1 \in 1 .. Len(q) - 1 /\ Tail(q)[i - 1] = q[i]
    OBVIOUS
  <2>1. i - 1 \in 1 .. Len(q) - 1 /\ (i - 1) + 1 = i
    BY <1>1
  <2>2. Tail(q)[i - 1] = q[(i - 1) + 1]
    BY <2>1, <1>2
  <2> QED BY <2>1, <2>2
<1>4. 1 \in 1 .. Len(q)
  BY <1>1
<1> DEFINE t == Tail(q)
<1> HIDE DEF t
<1>5. ASSUME IsInjective(q) PROVE IsInjective(t)
  <2> SUFFICES ASSUME NEW i \in 1 .. Len(q) - 1, NEW j \in 1 .. Len(q) - 1, t[i] = t[j]
               PROVE  i = j
    BY <1>1 DEF IsInjective, t
  <2>1. i + 1 = j + 1
    BY <1>1, <1>2, <1>5 DEF IsInjective, t
  <2> QED BY <1>1, <2>1
<1>6. ASSUME IsInjective(q) PROVE Range(t) = Range(q) \ {Head(q)}
  <2>1. ASSUME NEW x \in Range(t) PROVE x \in Range(q) /\ x # Head(q)
    <3>1. PICK i \in 1 .. Len(q) - 1 : x = t[i]
      BY <1>1 DEF Range, t
    <3>2. i + 1 \in 1 .. Len(q) /\ i + 1 # 1 /\ x = q[i + 1]
      BY <1>2, <3>1 DEF t
    <3> QED BY <1>1, <1>4, <1>6, <3>2 DEF Range, IsInjective
  <2>2. ASSUME NEW x \in Range(q), x # Head(q) PROVE x \in Range(t)
    <3>1. PICK i \in 1 .. Len(q) : x = q[i]
      BY <1>1 DEF Range
    <3> QED BY <1>1, <1>3, <2>2, <3>1 DEF Range, t
  <2> QED BY <2>1, <2>2
<1>7. Head(q) \in Range(q)
  BY <1>1, <1>4 DEF Range
<1> QED BY <1>1, <1>5, <1>6, <1>7 DEF t


\* Two queues, one behind the other.
LEMMA ConcatQueue ==
    ASSUME NEW S, NEW a \in Seq(S), NEW b \in Seq(S)
    PROVE  /\ a \o b \in Seq(S) /\ Len(a \o b) = Len(a) + Len(b)
           /\ Range(a \o b) = Range(a) \union Range(b)
           /\ IsInjective(a) /\ IsInjective(b) /\ Range(a) \intersect Range(b) = {} => IsInjective(a \o b)
<1>1. /\ a \o b \in Seq(S) /\ Len(a \o b) = Len(a) + Len(b) /\ Len(a) \in Nat /\ Len(b) \in Nat
      /\ DOMAIN a = 1 .. Len(a) /\ DOMAIN b = 1 .. Len(b) /\ DOMAIN (a \o b) = 1 .. Len(a) + Len(b)
  OBVIOUS
<1>2. \A i \in 1 .. Len(a) : i \in 1 .. Len(a) + Len(b) /\ (a \o b)[i] = a[i]
  OBVIOUS
<1>3. \A i \in 1 .. Len(b) : i + Len(a) \in 1 .. Len(a) + Len(b) /\ (a \o b)[i + Len(a)] = b[i]
  OBVIOUS
<1>4. \A i \in 1 .. Len(a) + Len(b) :
        i \in 1 .. Len(a) \/ (i - Len(a) \in 1 .. Len(b) /\ (a \o b)[i] = b[i - Len(a)])
  OBVIOUS
<1> DEFINE c == a \o b
<1> HIDE DEF c
<1>5. Range(c) = Range(a) \union Range(b)
  <2>1. ASSUME NEW x \in Range(c) PROVE x \in Range(a) \union Range(b)
    BY <1>1, <1>2, <1>4 DEF Range, c
  <2>2. ASSUME NEW x \in Range(a) PROVE x \in Range(c)
    BY <1>1, <1>2 DEF Range, c
  <2>3. ASSUME NEW x \in Range(b) PROVE x \in Range(c)
    BY <1>1, <1>3 DEF Range, c
  <2> QED BY <2>1, <2>2, <2>3
<1>6. ASSUME IsInjective(a), IsInjective(b), Range(a) \intersect Range(b) = {} PROVE IsInjective(c)
  <2> SUFFICES ASSUME NEW i \in 1 .. Len(a) + Len(b), NEW j \in 1 .. Len(a) + Len(b), c[i] = c[j]
               PROVE  i = j
    BY <1>1 DEF IsInjective, c
  <2>1. \A k \in 1 .. Len(a), l \in 1 .. Len(b) : a[k] # b[l]
    BY <1>1, <1>6 DEF Range
  <2>2. CASE i \in 1 .. Len(a) /\ j \in 1 .. Len(a)
    BY <1>1, <1>2, <1>6, <2>2 DEF IsInjective, c
  <2>3. CASE i \notin 1 .. Len(a) /\ j \notin 1 .. Len(a)
    <3>1. i - Len(a) = j - Len(a)
      BY <1>1, <1>4, <1>6, <2>3 DEF IsInjective, c
    <3> QED BY <1>1, <3>1
  <2>4. CASE (i \in 1 .. Len(a)) # (j \in 1 .. Len(a))
    BY <1>2, <1>4, <2>1, <2>4 DEF c
  <2> QED BY <2>2, <2>3, <2>4
<1> QED BY <1>1, <1>5, <1>6 DEF c

\* A queue that is cut in two.
LEMMA SplitQueue ==
    ASSUME NEW S, NEW q \in Seq(S), NEW n \in 0 .. Len(q)
    PROVE  /\ SubSeq(q, 1, n) \in Seq(S) /\ SubSeq(q, n + 1, Len(q)) \in Seq(S)
           /\ Len(SubSeq(q, 1, n)) = n /\ Len(SubSeq(q, n + 1, Len(q))) = Len(q) - n
           /\ Range(SubSeq(q, 1, n)) \union Range(SubSeq(q, n + 1, Len(q))) = Range(q)
           /\ IsInjective(q) => /\ IsInjective(SubSeq(q, 1, n)) /\ IsInjective(SubSeq(q, n + 1, Len(q)))
                               /\ Range(SubSeq(q, 1, n)) \intersect Range(SubSeq(q, n + 1, Len(q))) = {}
<1>1. n \in Nat /\ n <= Len(q) /\ Len(q) \in Nat /\ DOMAIN q = 1 .. Len(q)
  OBVIOUS
<1> DEFINE a == SubSeq(q, 1, n)
           b == SubSeq(q, n + 1, Len(q))
<1>2. /\ a \in Seq(S) /\ Len(a) = n /\ DOMAIN a = 1 .. n
      /\ \A i \in 1 .. n : i \in 1 .. Len(q) /\ a[i] = q[i]
  <2>1. \A i \in 1 .. n : q[i] \in S
    OBVIOUS
  <2>2. /\ SubSeq(q, 1, n) \in Seq(S) /\ Len(SubSeq(q, 1, n)) = (IF 1 <= n THEN n - 1 + 1 ELSE 0)
        /\ \A i \in 1 .. n - 1 + 1 : SubSeq(q, 1, n)[i] = q[1 + i - 1]
    BY <1>1, <2>1, SubSeqProperties
  <2>3. \A i \in 1 .. n : i \in 1 .. n - 1 + 1 /\ 1 + i - 1 = i /\ i \in 1 .. Len(q)
    BY <1>1
  <2>4. a \in Seq(S) /\ Len(a) = n
    BY <1>1, <2>2
  <2> QED BY <2>2, <2>3, <2>4
<1>3. /\ b \in Seq(S) /\ Len(b) = Len(q) - n /\ DOMAIN b = 1 .. Len(q) - n
      /\ \A i \in 1 .. Len(q) - n : n + i \in 1 .. Len(q) /\ b[i] = q[n + i]
  <2>1. \A i \in n + 1 .. Len(q) : q[i] \in S
    OBVIOUS
  <2>2. /\ SubSeq(q, n + 1, Len(q)) \in Seq(S)
        /\ Len(SubSeq(q, n + 1, Len(q))) = (IF n + 1 <= Len(q) THEN Len(q) - (n + 1) + 1 ELSE 0)
        /\ \A i \in 1 .. Len(q) - (n + 1) + 1 : SubSeq(q, n + 1, Len(q))[i] = q[(n + 1) + i - 1]
    BY <1>1, <2>1, SubSeqProperties
  <2>3. \A i \in 1 .. Len(q) - n : i \in 1 .. Len(q) - (n + 1) + 1 /\ (n + 1) + i - 1 = n + i
                                 /\ n + i \in 1 .. Len(q)
    BY <1>1
  <2>4. b \in Seq(S) /\ Len(b) = Len(q) - n
    <3>1. CASE n + 1 <= Len(q)
      <4>1. Len(q) - (n + 1) + 1 = Len(q) - n
        BY <1>1
      <4> QED BY <2>2, <3>1, <4>1
    <3>2. CASE n = Len(q)
      <4>1. Len(q) - n = 0 /\ ~(n + 1 <= Len(q))
        BY <1>1, <3>2
      <4> QED BY <2>2, <4>1
    <3>3. n + 1 <= Len(q) \/ n = Len(q)
      <4> DEFINE l == Len(q)
      <4>1. l \in Nat /\ n \in Nat /\ n <= l
        BY <1>1
      <4> HIDE DEF l
      <4>2. n + 1 <= l \/ n = l
        BY <4>1
      <4> QED BY <4>2 DEF l
    <3> QED BY <3>1, <3>2, <3>3
  <2> QED BY <2>2, <2>3, <2>4
<1>4. \A i \in 1 .. Len(q) : i \in 1 .. n \/ (i - n \in 1 .. Len(q) - n /\ n + (i - n) = i)
  BY <1>1
<1> HIDE DEF a, b
<1>5. Range(a) \union Range(b) = Range(q)
  <2>1. ASSUME NEW x \in Range(q) PROVE x \in Range(a) \union Range(b)
    <3>1. PICK i \in 1 .. Len(q) : x = q[i]
      BY <1>1 DEF Range
    <3>2. CASE i \in 1 .. n
      BY <1>2, <3>1, <3>2 DEF Range
    <3>3. CASE i \notin 1 .. n
      <4>1. b[i - n] = q[n + (i - n)]
        BY <1>3, <1>4, <3>3
      <4> QED BY <1>3, <1>4, <3>1, <3>3, <4>1 DEF Range
    <3> QED BY <3>2, <3>3
  <2>2. ASSUME NEW x \in Range(a) PROVE x \in Range(q)
    BY <1>1, <1>2 DEF Range
  <2>3. ASSUME NEW x \in Range(b) PROVE x \in Range(q)
    BY <1>1, <1>3 DEF Range
  <2> QED BY <2>1, <2>2, <2>3
<1>6. ASSUME IsInjective(q)
      PROVE  IsInjective(a) /\ IsInjective(b) /\ Range(a) \intersect Range(b) = {}
  <2>1. IsInjective(a)
    BY <1>1, <1>2, <1>6 DEF IsInjective
  <2>2. IsInjective(b)
    <3> SUFFICES ASSUME NEW i \in 1 .. Len(q) - n, NEW j \in 1 .. Len(q) - n, b[i] = b[j] PROVE i = j
      BY <1>3 DEF IsInjective
    <3>1. n + i = n + j
      BY <1>1, <1>3, <1>6 DEF IsInjective
    <3> QED BY <1>1, <3>1
  <2>3. \A i \in 1 .. n, j \in 1 .. Len(q) - n : i # n + j
    BY <1>1
  <2>4. Range(a) \intersect Range(b) = {}
    <3>1. \A i \in 1 .. n, j \in 1 .. Len(q) - n : a[i] # b[j]
      <4> SUFFICES ASSUME NEW i \in 1 .. n, NEW j \in 1 .. Len(q) - n, a[i] = b[j] PROVE FALSE
        OBVIOUS
      <4>1. q[i] = q[n + j] /\ i \in DOMAIN q /\ n + j \in DOMAIN q
        BY <1>1, <1>2, <1>3
      <4> QED BY <1>6, <2>3, <4>1 DEF IsInjective
    <3> QED BY <1>2, <1>3, <3>1 DEF Range
  <2> QED BY <2>1, <2>2, <2>4
<1> QED BY <1>2, <1>3, <1>5, <1>6 DEF a, b

\* A queue without duplicates is as long as the set of its elements is large.
LEMMA QueueCardinality ==
    ASSUME NEW S, NEW q \in Seq(S), IsInjective(q)
    PROVE  IsFiniteSet(Range(q)) /\ Cardinality(Range(q)) = Len(q)
<1>1. Len(q) \in Nat /\ DOMAIN q = 1 .. Len(q) /\ q \in [1 .. Len(q) -> Range(q)]
  BY DEF Range
<1>2. q \in Bijection(1 .. Len(q), Range(q))
  BY <1>1 DEF Bijection, Injection, Surjection, IsInjective, Range
<1>3. ExistsBijection(1 .. Len(q), Range(q))
  BY <1>2 DEF ExistsBijection
<1>4. IsFiniteSet(1 .. Len(q)) /\ Cardinality(1 .. Len(q)) = Len(q)
  BY <1>1, FS_Interval
<1> QED BY <1>3, <1>4, FS_Bijection

\* The rank of an index among finitely many: ranks are 1, 2, ... without a
\* gap, in the order of the indices.
LEMMA RankIsOrdered ==
    ASSUME NEW K \in SUBSET Nat, IsFiniteSet(K)
    PROVE  /\ Cardinality(K) \in Nat
           /\ \A i \in K : Cardinality({j \in K : j <= i}) \in 1 .. Cardinality(K)
           /\ \A i, k \in K : i < k => Cardinality({j \in K : j <= i}) < Cardinality({j \in K : j <= k})
           /\ \A n \in 1 .. Cardinality(K) : \E i \in K : Cardinality({j \in K : j <= i}) = n
<1> DEFINE upto(i) == {j \in K : j <= i}
           rank == [i \in K |-> Cardinality(upto(i))]
<1>1. Cardinality(K) \in Nat
  BY FS_CardinalityType
<1>2. ASSUME NEW i \in K PROVE IsFiniteSet(upto(i)) /\ Cardinality(upto(i)) \in 1 .. Cardinality(K)
  <2>1. upto(i) \in SUBSET K /\ i \in upto(i)
    BY <1>2
  <2> HIDE DEF upto
  <2>2. IsFiniteSet(upto(i)) /\ Cardinality(upto(i)) <= Cardinality(K)
    BY <2>1, FS_Subset
  <2>3. Cardinality(upto(i)) \in Nat /\ Cardinality(upto(i)) # 0
    BY <2>1, <2>2, FS_CardinalityType, FS_EmptySet
  <2> QED BY <1>1, <2>2, <2>3
<1>3. ASSUME NEW i \in K, NEW k \in K, i < k PROVE Cardinality(upto(i)) < Cardinality(upto(k))
  <2>0. i \in Nat /\ k \in Nat /\ \A j \in K : j \in Nat
    BY <1>3
  <2>a. (\A j \in K : j <= i => j <= k) /\ k <= k /\ ~(k <= i)
    BY <1>3, <2>0
  <2>1. upto(i) \in SUBSET upto(k) /\ k \in upto(k) /\ k \notin upto(i)
    BY <2>a
  <2> HIDE DEF upto
  <2>2. /\ IsFiniteSet(upto(k)) /\ Cardinality(upto(i)) <= Cardinality(upto(k))
        /\ Cardinality(upto(k)) = Cardinality(upto(i)) => upto(k) = upto(i)
    BY <1>2, <2>1, FS_Subset
  <2>3. Cardinality(upto(k)) # Cardinality(upto(i))
    BY <2>1, <2>2
  <2> QED BY <1>1, <1>2, <2>2, <2>3
<1>4. rank \in Injection(K, 1 .. Cardinality(K))
  <2>1. rank \in [K -> 1 .. Cardinality(K)]
    BY <1>2
  <2>2. ASSUME NEW i \in K, NEW k \in K, rank[i] = rank[k] PROVE i = k
    <3>1. Cardinality(upto(i)) = Cardinality(upto(k))
      BY <2>2
    <3>2. i \in Nat /\ k \in Nat /\ Cardinality(upto(i)) \in Nat
      BY <1>1, <1>2
    <3> HIDE DEF upto
    <3> QED BY <1>3, <3>1, <3>2
  <2> HIDE DEF rank
  <2> QED BY <2>1, <2>2 DEF Injection, IsInjective
<1>5. rank \in Surjection(K, 1 .. Cardinality(K))
  <2>1. IsFiniteSet(1 .. Cardinality(K)) /\ Cardinality(1 .. Cardinality(K)) = Cardinality(K)
    BY <1>1, FS_Interval
  <2> HIDE DEF rank
  <2> QED BY <1>4, <2>1, FS_Injection
<1>6. \A n \in 1 .. Cardinality(K) : \E i \in K : Cardinality(upto(i)) = n
  BY <1>5 DEF Surjection
<1> QED BY <1>1, <1>2, <1>3, <1>6

\* What filtering a queue keeps: exactly the elements of T, each as often, in
\* the same order.
LEMMA OnlyQueue ==
    ASSUME NEW S, NEW q \in Seq(S), NEW T
    PROVE  /\ Only(q, T) \in Seq(S) /\ Range(Only(q, T)) = Range(q) \cap T
           /\ IsInjective(q) => IsInjective(Only(q, T))
           /\ \A i, j \in DOMAIN Only(q, T) : i < j => Before(q, Only(q, T)[i], Only(q, T)[j])
           /\ \A a, b \in T : Before(q, a, b) => Before(Only(q, T), a, b)
<1> DEFINE at == {i \in DOMAIN q : q[i] \in T}
           Rank(i) == Cardinality({j \in at : j <= i})
           pos(n) == CHOOSE i \in at : Rank(i) = n
           card == Cardinality(at)
           only == [n \in 1 .. card |-> q[pos(n)]]
<1>1. DOMAIN q = 1 .. Len(q) /\ Len(q) \in Nat
  OBVIOUS
<1>2. at \in SUBSET Nat /\ IsFiniteSet(at) /\ at \subseteq DOMAIN q
  <2>1. IsFiniteSet(1 .. Len(q)) /\ at \in SUBSET (1 .. Len(q)) /\ 1 .. Len(q) \subseteq Nat
    BY <1>1, FS_Interval
  <2>2. at \subseteq DOMAIN q
    OBVIOUS
  <2> HIDE DEF at
  <2>3. IsFiniteSet(at)
    BY ONLY <2>1, FS_Subset
  <2> QED BY ONLY <2>1, <2>2, <2>3
<1>3. /\ card \in Nat /\ \A i \in at : Rank(i) \in 1 .. card
      /\ \A i, k \in at : i < k => Rank(i) < Rank(k)
      /\ \A n \in 1 .. card : \E i \in at : Rank(i) = n
  <2> HIDE DEF at
  <2> QED BY <1>2, RankIsOrdered
<1>4. Only(q, T) = only
  BY DEF Only
<1>in. \A i \in at : q[i] \in T /\ i \in DOMAIN q /\ i \in Nat /\ q[i] \in S
  <2>1. \A i \in 1 .. Len(q) : i \in Nat /\ q[i] \in S
    BY <1>1
  <2> QED BY <1>1, <2>1
<1>all. \A i \in DOMAIN q : q[i] \in T => i \in at
  OBVIOUS
<1> HIDE DEF at, Rank, card
<1>5. \A n \in 1 .. card : pos(n) \in at /\ Rank(pos(n)) = n
  BY <1>3
<1>6. \A i \in at : pos(Rank(i)) = i
  <2> SUFFICES ASSUME NEW i \in at PROVE pos(Rank(i)) = i
    OBVIOUS
  <2>1. pos(Rank(i)) \in at /\ Rank(pos(Rank(i))) = Rank(i)
    BY <1>3, <1>5
  <2> DEFINE k == pos(Rank(i))
  <2> HIDE DEF pos, k
  <2>2. k \in at /\ i \in Nat /\ k \in Nat /\ Rank(k) = Rank(i) /\ Rank(i) \in Nat
    <3>1. Rank(i) \in Nat
      BY <1>3
    <3> QED BY <1>in, <2>1, <3>1 DEF k
  <2>3. ~(i < k) /\ ~(k < i)
    BY <1>3, <2>2
  <2>4. k = i
    BY <2>2, <2>3
  <2> QED BY <2>4 DEF k
<1> HIDE DEF pos
<1>7. \A n, m \in 1 .. card : n < m => pos(n) < pos(m)
  <2> SUFFICES ASSUME NEW n \in 1 .. card, NEW m \in 1 .. card, n < m PROVE pos(n) < pos(m)
    OBVIOUS
  <2>1. pos(n) \in Nat /\ pos(m) \in Nat /\ pos(n) \in at /\ pos(m) \in at /\ Rank(pos(n)) = n /\ Rank(pos(m)) = m
    BY <1>in, <1>5
  <2>2. pos(n) = pos(m) \/ pos(m) < pos(n) \/ pos(n) < pos(m)
    BY <2>1
  <2>3. pos(n) # pos(m)
    BY <2>1
  <2>4. pos(m) < pos(n) => m < n
    BY <1>3, <2>1
  <2>5. ~(m < n)
    BY <1>3
  <2> QED BY <2>2, <2>3, <2>4, <2>5
<1>8. only \in Seq(S) /\ DOMAIN only = 1 .. card /\ \A n \in 1 .. card : only[n] = q[pos(n)]
  <2>1. \A n \in 1 .. card : q[pos(n)] \in S
    BY <1>in, <1>5
  <2>2. only \in [1 .. card -> S]
    BY <2>1
  <2> QED BY <1>3, <2>2
<1> HIDE DEF only
<1>9. Range(only) = Range(q) \cap T
  <2>1. ASSUME NEW x \in Range(only) PROVE x \in Range(q) \cap T
    <3>1. PICK n \in 1 .. card : x = q[pos(n)]
      BY <1>8 DEF Range
    <3> QED BY <1>in, <1>5, <3>1 DEF Range
  <2>2. ASSUME NEW x \in Range(q) \cap T PROVE x \in Range(only)
    <3>1. PICK i \in at : x = q[i]
      BY <1>all DEF Range
    <3>2. Rank(i) \in 1 .. card /\ pos(Rank(i)) = i
      BY <1>3, <1>6, <3>1
    <3> QED BY <1>8, <3>1, <3>2 DEF Range
  <2> QED BY <2>1, <2>2
<1>10. ASSUME IsInjective(q) PROVE IsInjective(only)
  <2> SUFFICES ASSUME NEW n \in 1 .. card, NEW m \in 1 .. card, only[n] = only[m] PROVE n = m
    BY <1>8 DEF IsInjective
  <2>1. pos(n) = pos(m)
    BY <1>in, <1>5, <1>8, <1>10 DEF IsInjective
  <2> QED BY <1>5, <2>1
<1>11. \A n, m \in DOMAIN only : n < m => Before(q, only[n], only[m])
  <2> SUFFICES ASSUME NEW n \in 1 .. card, NEW m \in 1 .. card, n < m PROVE Before(q, only[n], only[m])
    BY <1>8
  <2>1. pos(n) < pos(m) /\ pos(n) \in DOMAIN q /\ pos(m) \in DOMAIN q
    BY <1>in, <1>5, <1>7
  <2> QED BY <1>8, <2>1 DEF Before
<1>12. ASSUME NEW a \in T, NEW b \in T, Before(q, a, b) PROVE Before(only, a, b)
  <2>1. PICK i \in DOMAIN q, j \in DOMAIN q : i < j /\ q[i] = a /\ q[j] = b
    BY <1>12 DEF Before
  <2>2. i \in at /\ j \in at
    BY <1>all, <2>1
  <2>3. Rank(i) < Rank(j) /\ Rank(i) \in 1 .. card /\ Rank(j) \in 1 .. card
    BY <1>3, <2>1, <2>2
  <2>4. only[Rank(i)] = a /\ only[Rank(j)] = b
    BY <1>6, <1>8, <2>1, <2>2, <2>3
  <2> QED BY <1>8, <2>3, <2>4 DEF Before
<1> QED BY <1>4, <1>8, <1>9, <1>10, <1>11, <1>12

\* Removing requests from a queue.
LEMMA WithoutQueue ==
    ASSUME NEW S, NEW q \in Seq(S), NEW s
    PROVE  /\ Without(q, s) \in Seq(S) /\ Range(Without(q, s)) = Range(q) \ s
           /\ IsInjective(q) => IsInjective(Without(q, s))
           /\ \A i, j \in DOMAIN Without(q, s) : i < j => Before(q, Without(q, s)[i], Without(q, s)[j])
           /\ \A a, b : Before(q, a, b) /\ a \notin s /\ b \notin s => Before(Without(q, s), a, b)
<1> DEFINE T == Range(q) \ s
           p == Only(q, T)
<1>1. /\ p \in Seq(S) /\ Range(p) = Range(q) \cap T
      /\ IsInjective(q) => IsInjective(p)
      /\ \A i, j \in DOMAIN p : i < j => Before(q, p[i], p[j])
      /\ \A a, b \in T : Before(q, a, b) => Before(p, a, b)
  <2> HIDE DEF T
  <2> QED BY OnlyQueue
<1>2. \A a, b : Before(q, a, b) => a \in Range(q) /\ b \in Range(q)
  BY DEF Before, Range
<1>3. Without(q, s) = p
  BY DEF Without
<1> HIDE DEF p
<1> QED BY <1>1, <1>2, <1>3

\* A set of natural numbers has a least one.
LEMMA LeastElement ==
    ASSUME NEW T \in SUBSET Nat, T # {}
    PROVE  \E x \in T : \A y \in T : x <= y
<1> DEFINE R == OpToRel(<, Nat)
<1>1. IsWellFoundedOn(R, Nat)
  BY NatLessThanWellFounded
<1>2. \A x, y \in Nat : y < x => <<y, x>> \in R
  BY DEF OpToRel
<1> HIDE DEF R
<1>3. PICK x \in T : \A y \in T : ~(<<y, x>> \in R)
  BY <1>1, WFMin
<1>4. ASSUME NEW y \in T PROVE x <= y
  <2>1. x \in Nat /\ y \in Nat
    BY <1>3
  <2>2. ~(y < x)
    BY <1>2, <1>3, <2>1
  <2> QED BY <2>1, <2>2
<1> QED BY <1>3, <1>4

\* The elements of two queues, one behind the other.
LEMMA ConcatAt ==
    ASSUME NEW S, NEW a \in Seq(S), NEW b \in Seq(S)
    PROVE  \A i \in 1 .. Len(a) + Len(b) : (a \o b)[i] = IF i <= Len(a) THEN a[i] ELSE b[i - Len(a)]
OBVIOUS

\* The first n elements of a queue.
LEMMA PrefixAt ==
    ASSUME NEW S, NEW q \in Seq(S), NEW n \in 0 .. Len(q)
    PROVE  /\ DOMAIN SubSeq(q, 1, n) = 1 .. n
           /\ \A i \in 1 .. n : SubSeq(q, 1, n)[i] = q[i]
<1>1. Len(q) \in Nat /\ n \in Nat /\ n <= Len(q) /\ \A i \in 1 .. n : q[i] \in S
  OBVIOUS
<1>2. SubSeq(q, 1, n) \in Seq(S) /\ Len(SubSeq(q, 1, n)) = n
  BY SplitQueue
<1>3. \A i \in 1 .. n - 1 + 1 : SubSeq(q, 1, n)[i] = q[1 + i - 1]
  BY <1>1, SubSeqProperties
<1>4. \A i \in 1 .. n : i \in 1 .. n - 1 + 1 /\ 1 + i - 1 = i
  BY <1>1
<1> DEFINE v == SubSeq(q, 1, n)
<1>5. DOMAIN v = 1 .. n
  <2>1. v \in Seq(S) /\ Len(v) = n
    BY <1>2
  <2> HIDE DEF v
  <2> QED BY <2>1
<1> QED BY <1>3, <1>4, <1>5
=============================================================================
