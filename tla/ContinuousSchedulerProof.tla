---------------------- MODULE ContinuousSchedulerProof ----------------------
(***************************************************************************)
(* Proofs about ContinuousScheduler, for any requests, memory, budgets and *)
(* threshold.  First totals as cardinalities of sets of units.  Then the   *)
(* inductive invariant IInv, one lemma per action, and the properties: the *)
(* places of a request, the memory, the batch, the order of the running    *)
(* queues, preemption of offline requests first, the safety of             *)
(* RequestService, and who may fail.                                       *)
(***************************************************************************)
EXTENDS ContinuousScheduler, QueueLemmas, TLAPS

-----------------------------------------------------------------------------
\* Finitely many requests have finitely many units.
LEMMA TotalType ==
    ASSUME NEW R, IsFiniteSet(R), NEW f \in [R -> Nat], NEW s \in SUBSET R
    PROVE  IsFiniteSet(Units(f, s)) /\ Total(f, s) \in Nat
<1> DEFINE Of(r) == {r} \X (1 .. f[r])
           parts == {Of(r) : r \in s}
           g == [r \in s |-> Of(r)]
<1>1. IsFiniteSet(s)
  BY FS_Subset
<1>2. \A r \in s : IsFiniteSet(Of(r))
  <2> SUFFICES ASSUME NEW r \in s PROVE IsFiniteSet(Of(r))
    OBVIOUS
  <2>1. f[r] \in Nat
    OBVIOUS
  <2>2. IsFiniteSet({r})
    BY FS_Singleton
  <2>3. IsFiniteSet(1 .. f[r])
    BY <2>1, FS_Interval
  <2> QED BY <2>2, <2>3, FS_Product
<1>3. g \in Surjection(s, parts)
  BY DEF Surjection
<1>4. \A t \in parts : IsFiniteSet(t)
  BY <1>2
<1>5. Units(f, s) = UNION parts
  BY DEF Units
<1> HIDE DEF g, parts
<1>6. IsFiniteSet(parts)
  BY <1>1, <1>3, FS_Surjection
<1>7. IsFiniteSet(Units(f, s))
  BY <1>4, <1>5, <1>6, FS_UNION
<1> QED BY <1>7, FS_CardinalityType DEF Total

\* The units of two disjoint sets of requests add up.
LEMMA TotalSplit ==
    ASSUME NEW R, IsFiniteSet(R), NEW f \in [R -> Nat], NEW s \in SUBSET R, NEW t \in SUBSET R,
           s \cap t = {}
    PROVE  Total(f, s \cup t) = Total(f, s) + Total(f, t)
<1>1. /\ IsFiniteSet(Units(f, s)) /\ Total(f, s) \in Nat
      /\ IsFiniteSet(Units(f, t)) /\ Total(f, t) \in Nat
  BY TotalType
<1>2. Units(f, s \cup t) = Units(f, s) \cup Units(f, t)
  BY DEF Units
<1>3. Units(f, s) \cap Units(f, t) = {}
  BY DEF Units
<1>4. Cardinality(Units(f, s) \cap Units(f, t)) = 0
  BY <1>3, FS_EmptySet
<1>5. Cardinality(Units(f, s) \cup Units(f, t)) =
        Cardinality(Units(f, s)) + Cardinality(Units(f, t)) - Cardinality(Units(f, s) \cap Units(f, t))
  BY <1>1, FS_Union
<1> DEFINE a == Cardinality(Units(f, s))
           b == Cardinality(Units(f, t))
<1>6. a \in Nat /\ b \in Nat
  BY <1>1 DEF Total
<1>7. Total(f, s) = a /\ Total(f, t) = b /\ Total(f, s \cup t) = a + b - 0
  BY <1>2, <1>4, <1>5 DEF Total
<1> HIDE DEF a, b
<1> QED BY <1>6, <1>7

\* One request has its own units.
LEMMA TotalOne ==
    ASSUME NEW R, NEW f \in [R -> Nat], NEW r \in R
    PROVE  Total(f, {r}) = f[r]
<1> DEFINE n == f[r]
<1>1. n \in Nat
  OBVIOUS
<1>2. Units(f, {r}) = {r} \X (1 .. n)
  BY DEF Units
<1>3. n = f[r]
  OBVIOUS
<1> HIDE DEF n
<1>4. IsFiniteSet({r}) /\ Cardinality({r}) = 1
  BY FS_Singleton
<1>5. IsFiniteSet(1 .. n) /\ Cardinality(1 .. n) = n
  <2>1. IsFiniteSet(1 .. n) /\ Cardinality(1 .. n) = IF 1 > n THEN 0 ELSE n - 1 + 1
    BY <1>1, FS_Interval
  <2> QED BY <1>1, <2>1
<1>6. Cardinality({r} \X (1 .. n)) = Cardinality({r}) * Cardinality(1 .. n)
  BY <1>4, <1>5, FS_Product
<1>7. Cardinality({r} \X (1 .. n)) = n
  BY <1>1, <1>4, <1>5, <1>6
<1> QED BY <1>2, <1>3, <1>7 DEF Total

\* The total depends on nothing but the counts of the requests it is about.
LEMMA TotalSame ==
    ASSUME NEW f, NEW g, NEW s, \A r \in s : f[r] = g[r]
    PROVE  Total(f, s) = Total(g, s)
<1>1. Units(f, s) = Units(g, s)
  BY DEF Units
<1> QED BY <1>1 DEF Total

\* Requests without units.
LEMMA TotalZero ==
    ASSUME NEW f, NEW s, \A r \in s : f[r] = 0
    PROVE  Total(f, s) = 0
<1>1. Units(f, s) = {}
  BY DEF Units
<1> QED BY <1>1, FS_EmptySet DEF Total

\* A part has no more than the whole, and one that has everything leaves
\* nothing to the others.
LEMMA TotalPart ==
    ASSUME NEW R, IsFiniteSet(R), NEW f \in [R -> Nat], NEW s \in SUBSET R, NEW t \in SUBSET s
    PROVE  /\ Total(f, t) <= Total(f, s)
           /\ Total(f, s \ t) = Total(f, s) - Total(f, t)
           /\ Total(f, t) = Total(f, s) => \A r \in s \ t : f[r] = 0
<1> DEFINE u == s \ t
<1>1. t \cup u = s /\ t \cap u = {} /\ t \in SUBSET R /\ u \in SUBSET R
  OBVIOUS
<1> HIDE DEF u
<1>2. Total(f, s) = Total(f, t) + Total(f, u)
  <2>1. Total(f, t \cup u) = Total(f, t) + Total(f, u)
    BY <1>1, TotalSplit
  <2> QED BY <1>1, <2>1
<1>3. Total(f, t) \in Nat /\ Total(f, u) \in Nat
  BY <1>1, TotalType
<1>4. ASSUME Total(f, t) = Total(f, s), NEW r \in u PROVE f[r] = 0
  <2>1. Total(f, u) = 0
    BY <1>2, <1>3, <1>4
  <2>2. IsFiniteSet(Units(f, u))
    BY <1>1, TotalType
  <2>3. Units(f, u) = {}
    BY <2>1, <2>2, FS_EmptySet DEF Total
  <2>4. f[r] \in Nat
    BY <1>1, <1>4
  <2>5. f[r] > 0 => <<r, 1>> \in Units(f, u)
    <3>1. f[r] > 0 => 1 \in 1 .. f[r]
      BY <2>4
    <3>2. 1 \in 1 .. f[r] => <<r, 1>> \in {r} \X (1 .. f[r])
      OBVIOUS
    <3> QED BY <1>4, <3>1, <3>2 DEF Units
  <2> QED BY <2>3, <2>4, <2>5
<1> QED BY <1>2, <1>3, <1>4 DEF u

\* One request changes its count.
LEMMA TotalChange ==
    ASSUME NEW R, IsFiniteSet(R), NEW f \in [R -> Nat], NEW g \in [R -> Nat], NEW r \in R,
           \A q \in R \ {r} : g[q] = f[q]
    PROVE  Total(g, R) = Total(f, R) - f[r] + g[r]
<1> DEFINE o == R \ {r}
<1>1. /\ o \in SUBSET R /\ {r} \in SUBSET R /\ o \cap {r} = {} /\ o \cup {r} = R
      /\ \A q \in o : g[q] = f[q]
  OBVIOUS
<1> HIDE DEF o
<1>2. Total(f, o) = Total(g, o)
  BY <1>1, TotalSame
<1>3. Total(f, o \cup {r}) = Total(f, o) + Total(f, {r})
  BY <1>1, TotalSplit
<1>4. Total(g, o \cup {r}) = Total(g, o) + Total(g, {r})
  BY <1>1, TotalSplit
<1>5. Total(f, {r}) = f[r] /\ Total(g, {r}) = g[r] /\ f[r] \in Nat /\ g[r] \in Nat
  BY TotalOne
<1>6. Total(f, o) \in Nat
  BY <1>1, TotalType
<1>7. Total(f, R) = Total(f, o) + f[r] /\ Total(g, R) = Total(f, o) + g[r]
  BY <1>1, <1>2, <1>3, <1>4, <1>5
<1> DEFINE x == f[r]
           y == g[r]
           z == Total(f, o)
<1>8. Total(f, R) = z + x /\ Total(g, R) = z + y /\ x \in Nat /\ y \in Nat /\ z \in Nat
  BY <1>5, <1>6, <1>7
<1>9. Total(g, R) = Total(f, R) - x + y
  <2> HIDE DEF x, y, z
  <2> QED BY <1>8
<1> QED BY <1>9

-----------------------------------------------------------------------------
\* The order of the elements of a queue that grows at its end.
LEMMA BeforeAppend ==
    ASSUME NEW S, NEW q \in Seq(S), NEW r \in S
    PROVE  /\ \A a, b : Before(q, a, b) => Before(Append(q, r), a, b)
           /\ \A a \in Range(q) : Before(Append(q, r), a, r)
<1> DEFINE p == Append(q, r)
<1>1. /\ Len(q) \in Nat /\ DOMAIN q = 1 .. Len(q) /\ DOMAIN p = 1 .. Len(q) + 1
      /\ \A i \in 1 .. Len(q) : p[i] = q[i]
      /\ p[Len(q) + 1] = r
  OBVIOUS
<1>2. /\ \A i \in 1 .. Len(q) : i \in 1 .. Len(q) + 1 /\ i < Len(q) + 1
      /\ Len(q) + 1 \in 1 .. Len(q) + 1
  BY <1>1
<1> HIDE DEF p
<1>3. ASSUME NEW a, NEW b, Before(q, a, b) PROVE Before(p, a, b)
  BY <1>1, <1>2, <1>3 DEF Before
<1>4. ASSUME NEW a \in Range(q) PROVE Before(p, a, r)
  <2>1. PICK i \in 1 .. Len(q) : a = q[i]
    BY <1>1 DEF Range
  <2> QED BY <1>1, <1>2, <2>1 DEF Before
<1> QED BY <1>3, <1>4 DEF p

\* A queue without its last element; the last element.
LEMMA TakeLast ==
    ASSUME NEW S, NEW q \in Seq(S), q # <<>>
    PROVE  /\ Len(q) \in Nat \ {0} /\ q[Len(q)] \in S /\ q[Len(q)] \in Range(q)
           /\ SubSeq(q, 1, Len(q) - 1) \in Seq(S)
           /\ Range(SubSeq(q, 1, Len(q) - 1)) \subseteq Range(q)
           /\ DOMAIN SubSeq(q, 1, Len(q) - 1) \subseteq DOMAIN q
           /\ \A i \in DOMAIN SubSeq(q, 1, Len(q) - 1) : SubSeq(q, 1, Len(q) - 1)[i] = q[i]
           /\ IsInjective(q) => /\ IsInjective(SubSeq(q, 1, Len(q) - 1))
                               /\ Range(SubSeq(q, 1, Len(q) - 1)) = Range(q) \ {q[Len(q)]}
<1> DEFINE n == Len(q)
           p == SubSeq(q, 1, n - 1)
<1>1. n \in Nat \ {0} /\ DOMAIN q = 1 .. n /\ n \in 1 .. n /\ n - 1 \in Nat /\ q[n] \in S
  <2>1. Len(q) \in Nat /\ Len(q) # 0 /\ DOMAIN q = 1 .. Len(q)
    OBVIOUS
  <2>2. Len(q) \in 1 .. Len(q) /\ Len(q) - 1 \in Nat /\ Len(q) \in Nat \ {0}
    <3> HIDE DEF n, p
    <3> QED BY <2>1
  <2>3. q[Len(q)] \in S
    BY <2>2
  <2> QED BY <2>1, <2>2, <2>3
<1> DEFINE m == Len(q) - 1
<1>m. m \in 0 .. Len(q) /\ m \in Int /\ \A i \in 1 .. m : i \in 1 .. Len(q)
  BY <1>1
<1>s. SubSeq(q, 1, m) \in Seq(S) /\ Len(SubSeq(q, 1, m)) = m
  <2> HIDE DEF m
  <2> QED BY <1>m, SplitQueue
<1>e. \A i \in 1 .. m : SubSeq(q, 1, m)[i] = q[i]
  <2> HIDE DEF m
  <2>1. \A i \in 1 .. m : q[i] \in S
    BY <1>m
  <2>2. \A i \in 1 .. m - 1 + 1 : SubSeq(q, 1, m)[i] = q[1 + i - 1]
    BY <1>m, <2>1, SubSeqProperties
  <2>3. \A i \in 1 .. m : i \in 1 .. m - 1 + 1 /\ 1 + i - 1 = i
    BY <1>m
  <2> QED BY <2>2, <2>3
<1>2. p \in Seq(S) /\ DOMAIN p = 1 .. n - 1 /\ \A i \in 1 .. n - 1 : p[i] = q[i]
  <2> DEFINE t == SubSeq(q, 1, m)
  <2>1. p = t /\ n - 1 = m
    OBVIOUS
  <2>2. t \in Seq(S) /\ Len(t) = m /\ \A i \in 1 .. m : t[i] = q[i]
    BY <1>s, <1>e
  <2> HIDE DEF p, n, m, t
  <2>3. DOMAIN t = 1 .. m
    BY <2>2
  <2> QED BY <2>1, <2>2, <2>3
<1>3. (\A i \in 1 .. n - 1 : i \in 1 .. n /\ i # n) /\ (\A i \in 1 .. n : i # n => i \in 1 .. n - 1)
  <2> HIDE DEF p, n, m
  <2> QED BY <1>1
<1> HIDE DEF p, n, m
<1>4. q[n] \in Range(q) /\ Range(p) \subseteq Range(q)
  BY <1>1, <1>2, <1>3 DEF Range
<1>5. ASSUME IsInjective(q) PROVE IsInjective(p) /\ Range(p) = Range(q) \ {q[n]}
  <2>1. IsInjective(p)
    BY <1>1, <1>2, <1>3, <1>5 DEF IsInjective
  <2>2. ASSUME NEW x \in Range(p) PROVE x # q[n]
    BY <1>1, <1>2, <1>3, <1>5, <2>2 DEF IsInjective, Range
  <2>3. ASSUME NEW x \in Range(q), x # q[n] PROVE x \in Range(p)
    <3>1. PICK i \in 1 .. n : x = q[i]
      BY <1>1, <2>3 DEF Range
    <3>2. i \in 1 .. n - 1
      BY <1>3, <2>3, <3>1
    <3> QED BY <1>2, <3>1, <3>2 DEF Range
  <2> QED BY <1>4, <2>1, <2>2, <2>3
<1> QED BY <1>1, <1>2, <1>3, <1>4, <1>5 DEF p, n

\* A queue without duplicates holds an element once or not at all.
LEMMA CountOfQueue ==
    ASSUME NEW S, NEW q \in Seq(S), IsInjective(q), NEW r
    PROVE  Count(q, r) = In(Range(q), r)
<1> DEFINE at == {i \in DOMAIN q : q[i] = r}
<1>1. CASE r \in Range(q)
  <2>1. PICK i \in DOMAIN q : q[i] = r
    BY <1>1 DEF Range
  <2>2. at = {i}
    BY <2>1 DEF IsInjective
  <2>3. Cardinality(at) = 1
    BY <2>2, FS_Singleton
  <2> QED BY <1>1, <2>3 DEF Count, In
<1>2. CASE r \notin Range(q)
  <2>1. at = {}
    BY <1>2 DEF Range
  <2>2. Cardinality(at) = 0
    BY <2>1, FS_EmptySet
  <2> QED BY <1>2, <2>2 DEF Count, In
<1> QED BY <1>1, <1>2

\* The blocks for n tokens have a slot for each of them.
LEMMA BlocksCoverTokens ==
    ASSUME NEW n \in Nat \ {0}
    PROVE  /\ NumBlocksFor(n) \in Nat \ {0}
           /\ \A k \in Nat : k >= NumBlocksFor(n) => k * BlockSize >= n
<1> DEFINE b == BlockSize
           m == n + b - 1
           k == m \div b
<1>1. b \in Nat \ {0} /\ m \in Nat /\ m >= b
  BY SchedulerAssumption
<1>2. k \in Int /\ m = b * k + (m % b) /\ m % b \in 0 .. b - 1
  BY <1>1
<1>3. NumBlocksFor(n) = k
  BY DEF NumBlocksFor
<1> HIDE DEF k
<1>4. b * k >= n
  BY <1>1, <1>2
<1>5. k >= 1
  <2>1. ASSUME k <= 0 PROVE FALSE
    <3>1. b * k <= 0
      BY <1>1, <1>2, <2>1
    <3> QED BY <1>1, <1>2, <1>4, <3>1
  <2> QED BY <1>2, <2>1
<1>6. ASSUME NEW j \in Nat, j >= k PROVE j * b >= n
  <2>1. j * b >= k * b
    BY <1>1, <1>2, <1>6
  <2> QED BY <1>1, <1>2, <1>4, <2>1
<1> QED BY <1>2, <1>3, <1>5, <1>6

\* The top of a queue of waiting requests is one of them.
LEMMA TopOfQueue ==
    ASSUME NEW s \in SUBSET Requests, s # {}
    PROVE  Top(s) \in s
<1>1. s \in SUBSET Nat
  BY SchedulerAssumption
<1>2. \E x \in s : \A y \in s : x <= y
  BY <1>1, LeastElement
<1> QED BY <1>2 DEF Top

\* The offline requests chosen for preemption are in the offline queue, are no
\* fewer than one, and hold the blocks that were asked for.
LEMMA EvictedHoldEnough ==
    ASSUME NEW r \in Requests, running_queue \in [BOOLEAN -> Seq(Requests)], ToEvict(r) # {}
    PROVE  /\ ToEvict(r) \subseteq Range(running_queue[TRUE])
           /\ NumBlocksFor(tokens[r]) <= Total(num_kv_blocks, ToEvict(r))
<1> DEFINE q == running_queue[TRUE]
           Suffix(n) == {q[i] : i \in Len(q) - n + 1 .. Len(q)}
           Enough(n) == NumBlocksFor(tokens[r]) <= Total(num_kv_blocks, Suffix(n))
           Good == {n \in 1 .. Len(q) : Enough(n)}
           n0 == CHOOSE n \in 1 .. Len(q) : Enough(n) /\ \A m \in 1 .. n - 1 : ~Enough(m)
<1>0. q \in Seq(Requests)
  OBVIOUS
<1>1. q \in Seq(Requests) /\ DOMAIN q = 1 .. Len(q) /\ Len(q) \in Nat
  <2> HIDE DEF q
  <2> QED BY <1>0
<1>2. ToEvict(r) = IF \E m \in 1 .. Len(q) : Enough(m) THEN Suffix(n0) ELSE {}
  BY DEF ToEvict
<1>3. (\E m \in 1 .. Len(q) : Enough(m)) /\ ToEvict(r) = Suffix(n0)
  BY <1>2
<1>4. n0 \in 1 .. Len(q) /\ Enough(n0)
  <2>1. Good # {} /\ Good \in SUBSET Nat
    <3>1. 1 .. Len(q) \subseteq Nat
      <4> HIDE DEF q
      <4> QED BY <1>1
    <3> HIDE DEF Enough
    <3> QED BY <1>3, <3>1
  <2>2. PICK n \in Good : \A m \in Good : n <= m
    <3> HIDE DEF Good
    <3> QED BY <2>1, LeastElement
  <2>3. n \in 1 .. Len(q) /\ Enough(n)
    BY <2>2
  <2>4. \A m \in 1 .. n - 1 : ~Enough(m)
    <3> SUFFICES ASSUME NEW m \in 1 .. n - 1, Enough(m) PROVE FALSE
      OBVIOUS
    <3>1. n \in Nat /\ n <= Len(q)
      <4> HIDE DEF q, Enough
      <4> QED BY <1>1, <2>3
    <3>2. m \in 1 .. Len(q) /\ ~(n <= m)
      <4> HIDE DEF q
      <4> QED BY <1>1, <3>1
    <3>3. m \in Good
      BY <3>2
    <3> HIDE DEF Good
    <3> QED BY <2>2, <3>2, <3>3
  <2> HIDE DEF Enough
  <2> QED BY <2>3, <2>4
<1>5. Suffix(n0) \subseteq Range(q)
  <2> DEFINE n == n0
  <2>1. n \in 1 .. Len(q)
    BY <1>4
  <2> HIDE DEF n, q
  <2>2. \A i \in Len(q) - n + 1 .. Len(q) : i \in 1 .. Len(q)
    BY <1>1, <2>1
  <2>3. Suffix(n) \subseteq Range(q)
    BY <1>1, <2>2 DEF Range
  <2> QED BY <2>3 DEF n
<1> HIDE DEF n0, Suffix
<1> QED BY <1>3, <1>4, <1>5

-----------------------------------------------------------------------------
(***************************************************************************)
(* The inductive invariant.                                                *)
(***************************************************************************)
Queued == Range(request_queue)
Online == Range(running_queue[FALSE])
OfflineRunning == Range(running_queue[TRUE])
InBatch == Range(running_requests)
Unanswered == {r \in Requests : r \in submitted /\ responses[r] = 0}

\* No queue holds a request twice.
NoDuplicates ==
    /\ IsInjective(request_queue) /\ IsInjective(running_requests)
    /\ \A off \in BOOLEAN : IsInjective(running_queue[off])

\* No two of the places a request can be in share one.
PlacesApart ==
    /\ Queued \cap (waiting \cup Online \cup OfflineRunning \cup InBatch \cup finished_requests) = {}
    /\ waiting \cap (Online \cup OfflineRunning \cup InBatch \cup finished_requests) = {}
    /\ Online \cap (OfflineRunning \cup InBatch \cup finished_requests) = {}
    /\ OfflineRunning \cap (InBatch \cup finished_requests) = {}
    /\ InBatch \cap finished_requests = {}

\* Together the places hold the requests that are still to be answered, and
\* nothing was answered twice.
PlacesComplete ==
    /\ Queued \cup waiting \cup Online \cup OfflineRunning \cup InBatch \cup finished_requests = Unanswered
    /\ \A r \in Requests : responses[r] \in {0, 1} /\ (r \notin submitted => responses[r] = 0)

\* The offline queue is for the offline requests.
ClassesApart == OfflineRunning \subseteq Offline /\ Online \cap Offline = {}

\* A sequence that has met a stopping condition is in the last batch, until it
\* is reaped; one that has not may generate another token.
FinishedReaped ==
    /\ finished \cap (Queued \cup waiting \cup Online \cup OfflineRunning) = {}
    /\ finished \subseteq submitted
    /\ pc \notin {"drain", "reap"} => finished \cap InBatch = {}
    /\ \A r \in Requests \ finished : tokens[r] < Prompt[r] + MaxGen[r]

Prefilling == pc \in {"prefill", "prefill_offline"}
Decoding == pc \in {"decode", "decode_offline"}
Building == Prefilling \/ Decoding \/ pc \in {"dispatch", "step"}

\* The budgets are what the batch has left of the limits.
BudgetsExact ==
    /\ Building => seq_budget + Len(running_requests) = MaxSeqsPerBatch
    /\ Prefilling => token_budget + Total(tokens, InBatch) = MaxTokensPerBatch
    /\ pc \in {"dispatch", "step"} /\ last_step_prefill => Total(tokens, InBatch) <= MaxTokensPerBatch

\* last_step_prefill tells a batch of prefills from one of decodes.
KindOfBatch ==
    /\ pc = "prefill" \/ Decoding => ~last_step_prefill
    /\ Prefilling /\ last_step_prefill => running_requests # <<>>
    /\ pc = "step" => running_requests # <<>>

\* Every sequence that joined the batch has its slots.
BatchHasSlots ==
    Building => \A r \in InBatch : num_kv_blocks[r] * BlockSize >= tokens[r]

\* The order of the last prefill is the order of the running queues and of the
\* batch; a batch of prefills comes after the requests left in the queues, a
\* batch of decodes before them.
Tracked == Online \cup OfflineRunning \cup InBatch \subseteq Range(admitted)
BatchOrdered ==
    \A off \in BOOLEAN : \A i, j \in DOMAIN running_requests :
        i < j /\ running_requests[i] \in Class(off) /\ running_requests[j] \in Class(off)
          => Before(admitted, running_requests[i], running_requests[j])
AfterQueues == Prefilling \/ last_step_prefill
BatchAfterQueues ==
    \A off \in BOOLEAN : \A a \in Range(running_queue[off]), b \in InBatch :
        b \in Class(off) /\ AfterQueues => Before(admitted, a, b)
BatchBeforeQueues ==
    \A off \in BOOLEAN : \A a \in Range(running_queue[off]), b \in InBatch :
        b \in Class(off) /\ ~AfterQueues => Before(admitted, b, a)
OrderKept ==
    Tracked /\ RunningQueueOrdered /\ BatchOrdered /\ BatchAfterQueues /\ BatchBeforeQueues

\* The places of the requests.
PlaceInv ==
    TypeOK /\ NoDuplicates /\ PlacesApart /\ PlacesComplete /\ ClassesApart /\ FinishedReaped

\* What the batch and the memory hold.
BatchInv == BudgetsExact /\ KindOfBatch /\ BatchHasSlots /\ OnlyRunningHold /\ MemoryBound

IInv == PlaceInv /\ BatchInv /\ OrderKept

\* The empty queue.
LEMMA EmptyQueue ==
    ASSUME NEW S
    PROVE  << >> \in Seq(S) /\ Range(<< >>) = {} /\ IsInjective(<< >>) /\ Len(<< >>) = 0
<1>1. << >> \in Seq(S) /\ DOMAIN << >> = {} /\ Len(<< >>) = 0
  OBVIOUS
<1> QED BY <1>1 DEF Range, IsInjective

\* Nothing is anywhere at the start.
LEMMA InitIInv == Init => IInv
<1> SUFFICES ASSUME Init PROVE IInv
  OBVIOUS
<1> USE DEF Init
<1>e. /\ << >> \in Seq(Requests) /\ Range(<< >>) = {} /\ IsInjective(<< >>) /\ Len(<< >>) = 0
      /\ DOMAIN << >> = {}
  BY EmptyQueue
<1>r. running_queue[FALSE] = << >> /\ running_queue[TRUE] = << >>
  OBVIOUS
<1>s. Online = {} /\ OfflineRunning = {} /\ InBatch = {} /\ Queued = {}
  BY <1>e, <1>r DEF Online, OfflineRunning, InBatch, Queued
<1>1. TypeOK
  <2>1. running_queue \in [BOOLEAN -> Seq(Requests)]
    BY <1>e
  <2>2. /\ tokens \in [Requests -> Nat]
        /\ \A r \in Requests : tokens[r] \in Prompt[r] .. Prompt[r] + MaxGen[r]
    BY SchedulerAssumption
  <2>3. /\ num_kv_blocks \in [Requests -> Nat] /\ callbacks \in [Requests -> Nat]
        /\ responses \in [Requests -> Nat]
    OBVIOUS
  <2>4. /\ request_queue \in Seq(Requests) /\ Len(request_queue) <= QueueSize
        /\ seq_budget \in 0 .. MaxSeqsPerBatch /\ token_budget \in 0 .. MaxTokensPerBatch
    BY <1>e, SchedulerAssumption
  <2> QED BY <1>e, <2>1, <2>2, <2>3, <2>4 DEF TypeOK
<1>2. NoDuplicates
  BY <1>e DEF NoDuplicates
<1>3. PlacesApart /\ PlacesComplete /\ ClassesApart
  BY <1>s DEF PlacesApart, PlacesComplete, ClassesApart, Unanswered
<1>4. FinishedReaped
  BY SchedulerAssumption DEF FinishedReaped
<1>5. BudgetsExact /\ KindOfBatch /\ BatchHasSlots
  BY DEF BudgetsExact, KindOfBatch, BatchHasSlots, Building, Prefilling, Decoding
<1>6. OnlyRunningHold
  BY <1>s DEF OnlyRunningHold, Online, OfflineRunning, InBatch
<1>7. MemoryBound
  <2>1. Total(num_kv_blocks, Requests) = 0
    <3>1. \A r \in Requests : num_kv_blocks[r] = 0
      OBVIOUS
    <3> QED BY <3>1, TotalZero
  <2>2. Holders(num_kv_blocks) = {}
    BY DEF Holders
  <2>3. Cardinality(Holders(num_kv_blocks)) = 0
    BY <2>2, FS_EmptySet
  <2> QED BY <2>1, <2>3, SchedulerAssumption DEF MemoryBound, NumUsed, NumEmbeddingIds
<1>8. OrderKept
  <2>1. RunningQueueOrdered
    BY <1>e DEF RunningQueueOrdered
  <2>2. Tracked /\ BatchOrdered /\ BatchAfterQueues /\ BatchBeforeQueues
    BY <1>e, <1>s DEF Tracked, BatchOrdered, BatchAfterQueues, BatchBeforeQueues
  <2> QED BY <2>1, <2>2 DEF OrderKept
<1> QED BY <1>1, <1>2, <1>3, <1>4, <1>5, <1>6, <1>7, <1>8 DEF IInv, PlaceInv, BatchInv

\* A step that changes nothing.
LEMMA StutterKeepsIInv ==
    ASSUME IInv, UNCHANGED vars
    PROVE  IInv'
<1> USE DEF vars, threadVars, clientVars
<1>1. TypeOK' /\ NoDuplicates'
  BY DEF IInv, PlaceInv, TypeOK, NoDuplicates
<1>s. /\ Online' = Online /\ OfflineRunning' = OfflineRunning /\ InBatch' = InBatch
      /\ Queued' = Queued /\ Unanswered' = Unanswered
  BY DEF Online, OfflineRunning, InBatch, Queued, Unanswered
<1>2. PlacesApart' /\ PlacesComplete' /\ ClassesApart' /\ FinishedReaped'
  BY <1>s DEF IInv, PlaceInv, PlacesApart, PlacesComplete, ClassesApart, FinishedReaped
<1>3. BudgetsExact' /\ KindOfBatch' /\ BatchHasSlots'
  BY <1>s DEF IInv, BatchInv, BudgetsExact, KindOfBatch, BatchHasSlots, Building, Prefilling, Decoding
<1>4. OnlyRunningHold' /\ MemoryBound'
  BY DEF IInv, BatchInv, OnlyRunningHold, MemoryBound
<1>5. OrderKept'
  BY <1>s DEF IInv, OrderKept, Tracked, RunningQueueOrdered, BatchOrdered, BatchAfterQueues,
              BatchBeforeQueues, AfterQueues, Prefilling
<1> QED BY <1>1, <1>2, <1>3, <1>4, <1>5 DEF IInv, PlaceInv, BatchInv

\* The end of the process leaves everything where it is.
LEMMA DieKeepsIInv ==
    ASSUME IInv, NEW why, Die(why), pc \notin {"drain", "reap", "dispatch", "step"},
           Prefilling => running_requests = << >>,
           why \in {"finished or cancelled request", "pop_front of an empty deque",
                    "blocks and budget are enough but can not schedule"}
    PROVE  IInv'
<1> USE DEF Die, clientVars
<1>1. TypeOK' /\ NoDuplicates'
  BY DEF IInv, PlaceInv, TypeOK, NoDuplicates
<1>s. /\ Online' = Online /\ OfflineRunning' = OfflineRunning /\ InBatch' = InBatch
      /\ Queued' = Queued /\ Unanswered' = Unanswered
  BY DEF Online, OfflineRunning, InBatch, Queued, Unanswered
<1>2. PlacesApart' /\ PlacesComplete' /\ ClassesApart' /\ FinishedReaped'
  BY <1>s DEF IInv, PlaceInv, PlacesApart, PlacesComplete, ClassesApart, FinishedReaped
<1>3. BudgetsExact' /\ KindOfBatch' /\ BatchHasSlots'
  BY DEF BudgetsExact, KindOfBatch, BatchHasSlots, Building, Prefilling, Decoding
<1>4. OnlyRunningHold' /\ MemoryBound'
  BY DEF IInv, BatchInv, OnlyRunningHold, MemoryBound
<1>5. OrderKept'
  <2>1. Prefilling => InBatch = {}
    BY EmptyQueue DEF InBatch
  <2>2. ~Prefilling' /\ last_step_prefill' = last_step_prefill
    BY DEF Prefilling
  <2>3. Tracked' /\ RunningQueueOrdered' /\ BatchOrdered'
    BY <1>s DEF IInv, OrderKept, Tracked, RunningQueueOrdered, BatchOrdered
  <2>4. ASSUME InBatch # {} PROVE AfterQueues' <=> AfterQueues
    <3>1. ~Prefilling /\ ~Prefilling'
      BY <2>1, <2>2, <2>4
    <3>2. last_step_prefill = TRUE \/ last_step_prefill = FALSE
      BY DEF IInv, PlaceInv, TypeOK
    <3>3. CASE last_step_prefill = TRUE
      BY <2>2, <3>3 DEF AfterQueues
    <3>4. CASE last_step_prefill = FALSE
      BY <2>2, <3>1, <3>4 DEF AfterQueues
    <3> QED BY <3>2, <3>3, <3>4
  <2>5. BatchAfterQueues'
    BY <1>s, <2>4 DEF IInv, OrderKept, BatchAfterQueues
  <2>6. BatchBeforeQueues'
    BY <1>s, <2>4 DEF IInv, OrderKept, BatchBeforeQueues
  <2> QED BY <2>3, <2>5, <2>6 DEF OrderKept
<1> QED BY <1>1, <1>2, <1>3, <1>4, <1>5 DEF IInv, PlaceInv, BatchInv

\* What is in a queue is a request.
LEMMA PlacesTyped ==
    ASSUME TypeOK
    PROVE  /\ Queued \subseteq Requests /\ Online \subseteq Requests /\ OfflineRunning \subseteq Requests
           /\ InBatch \subseteq Requests /\ Range(admitted) \subseteq Requests
           /\ waiting \subseteq Requests /\ finished_requests \subseteq Requests
<1>1. ASSUME NEW q \in Seq(Requests) PROVE Range(q) \subseteq Requests
  BY <1>1 DEF Range
<1>2. /\ request_queue \in Seq(Requests) /\ running_requests \in Seq(Requests) /\ admitted \in Seq(Requests)
      /\ running_queue[TRUE] \in Seq(Requests) /\ running_queue[FALSE] \in Seq(Requests)
      /\ waiting \subseteq Requests /\ finished_requests \subseteq Requests
  BY DEF TypeOK
<1> QED BY <1>1, <1>2 DEF Queued, Online, OfflineRunning, InBatch

\* A step that leaves the queues and the order of admission alone, and the
\* batch on its side of the queues, keeps the order.
LEMMA OrderFrame ==
    ASSUME OrderKept, UNCHANGED <<running_queue, running_requests, admitted>>,
           InBatch # {} => (AfterQueues' <=> AfterQueues)
    PROVE  OrderKept'
<1>s. Online' = Online /\ OfflineRunning' = OfflineRunning /\ InBatch' = InBatch
  BY DEF Online, OfflineRunning, InBatch
<1>1. Tracked' /\ RunningQueueOrdered' /\ BatchOrdered'
  BY <1>s DEF OrderKept, Tracked, RunningQueueOrdered, BatchOrdered
<1>2. BatchAfterQueues'
  BY <1>s DEF OrderKept, BatchAfterQueues
<1>3. BatchBeforeQueues'
  BY <1>s DEF OrderKept, BatchBeforeQueues
<1> QED BY <1>1, <1>2, <1>3 DEF OrderKept

\* A step that moves no request into or out of the running ones and no block
\* keeps the memory's books.
LEMMA MemoryFrame ==
    ASSUME OnlyRunningHold, MemoryBound, UNCHANGED num_kv_blocks,
           (Online \cup OfflineRunning \cup InBatch)' = Online \cup OfflineRunning \cup InBatch
    PROVE  OnlyRunningHold' /\ MemoryBound'
<1>1. OnlyRunningHold'
  BY DEF OnlyRunningHold, Online, OfflineRunning, InBatch
<1>2. MemoryBound'
  BY DEF MemoryBound, NumUsed, Holders
<1> QED BY <1>1, <1>2

\* The phases of the thread that neither an API thread nor a response thread
\* moves on.
LEMMA PhaseFrame ==
    ASSUME UNCHANGED <<pc, last_step_prefill>>
    PROVE  /\ Prefilling' = Prefilling /\ Decoding' = Decoding /\ Building' = Building
           /\ AfterQueues' <=> AfterQueues
BY DEF Prefilling, Decoding, Building, AfterQueues

\* A new request is in no place yet: the request queue takes it, or it is
\* answered.
LEMMA AddRequestKeepsIInv ==
    ASSUME IInv, NEW r \in Requests, AddRequest(r)
    PROVE  IInv'
<1> USE DEF AddRequest, threadVars
<1>s. Online' = Online /\ OfflineRunning' = OfflineRunning /\ InBatch' = InBatch
  BY DEF Online, OfflineRunning, InBatch
<1>t. TypeOK /\ Queued \subseteq Requests
  BY PlacesTyped DEF IInv, PlaceInv
<1>p. r \notin Queued \cup waiting \cup Online \cup OfflineRunning \cup InBatch \cup finished_requests
  BY DEF IInv, PlaceInv, PlacesComplete, Unanswered
<1>q. /\ request_queue' \in Seq(Requests) /\ Len(request_queue') <= QueueSize /\ IsInjective(request_queue)'
      /\ \/ Queued' = Queued \cup {r} /\ responses' = responses
         \/ Queued' = Queued /\ responses' = Respond({r})
  <2>1. /\ request_queue \in Seq(Requests) /\ Len(request_queue) <= QueueSize /\ IsInjective(request_queue)
        /\ Len(request_queue) \in Nat
    <3>1. request_queue \in Seq(Requests) /\ Len(request_queue) <= QueueSize /\ IsInjective(request_queue)
      BY DEF IInv, PlaceInv, TypeOK, NoDuplicates
    <3> QED BY <3>1
  <2>2. CASE Len(request_queue) < QueueSize
    <3>1. request_queue' = Append(request_queue, r) /\ responses' = responses
      BY <2>2
    <3>2. /\ Append(request_queue, r) \in Seq(Requests) /\ Len(Append(request_queue, r)) = Len(request_queue) + 1
          /\ Range(Append(request_queue, r)) = Range(request_queue) \cup {r}
          /\ IsInjective(Append(request_queue, r))
      BY <1>p, <2>1, AppendQueue DEF Queued
    <3>3. Len(request_queue') <= QueueSize
      BY <2>1, <2>2, <3>1, <3>2, SchedulerAssumption
    <3> QED BY <3>1, <3>2, <3>3 DEF Queued
  <2>3. CASE ~(Len(request_queue) < QueueSize)
    BY <2>1, <2>3 DEF Queued
  <2> QED BY <2>2, <2>3
<1>a. /\ responses' \in [Requests -> Nat]
      /\ \A q \in Requests : q # r => responses'[q] = responses[q]
      /\ responses[r] = 0
      /\ \/ responses'[r] = 0 /\ Queued' = Queued \cup {r}
         \/ responses'[r] = 1 /\ Queued' = Queued
  <2>1. responses \in [Requests -> Nat] /\ responses[r] = 0
    BY DEF IInv, PlaceInv, TypeOK, PlacesComplete
  <2>2. CASE Queued' = Queued \cup {r} /\ responses' = responses
    BY <2>1, <2>2
  <2>3. CASE Queued' = Queued /\ responses' = Respond({r})
    BY <2>1, <2>3 DEF Respond
  <2> QED BY <1>q, <2>2, <2>3
<1>1. TypeOK'
  <2>1. (submitted \cup waiting \cup finished_requests \cup finished \cup cancelled \cup failed)' \subseteq Requests
    <3>1. submitted \cup waiting \cup finished_requests \cup finished \cup cancelled \cup failed \subseteq Requests
      BY <1>t DEF TypeOK
    <3>2. /\ submitted' = submitted \cup {r} /\ waiting' = waiting /\ finished_requests' = finished_requests
          /\ finished' = finished /\ cancelled' = cancelled /\ failed' = failed
      OBVIOUS
    <3> QED BY ONLY <3>1, <3>2, r \in Requests
  <2> QED BY <1>t, <1>q, <1>a, <2>1 DEF TypeOK
<1>2. NoDuplicates'
  BY <1>q DEF IInv, PlaceInv, NoDuplicates
<1>3. PlacesApart'
  BY <1>s, <1>p, <1>a DEF IInv, PlaceInv, PlacesApart
<1>4. PlacesComplete'
  <2>1. Unanswered' = IF responses'[r] = 0 THEN Unanswered \cup {r} ELSE Unanswered
    BY <1>a DEF Unanswered
  <2>2. \A q \in Requests : responses'[q] \in {0, 1} /\ (q \notin submitted' => responses'[q] = 0)
    BY <1>a DEF IInv, PlaceInv, PlacesComplete
  <2> QED BY <1>s, <1>a, <2>1, <2>2 DEF IInv, PlaceInv, PlacesComplete
<1>5. ClassesApart'
  BY <1>s DEF IInv, PlaceInv, ClassesApart
<1>6. FinishedReaped'
  <2>1. r \notin finished
    BY DEF IInv, PlaceInv, FinishedReaped
  <2> QED BY <1>s, <1>a, <2>1 DEF IInv, PlaceInv, FinishedReaped
<1>7. BudgetsExact' /\ KindOfBatch' /\ BatchHasSlots'
  BY <1>s, PhaseFrame DEF IInv, BatchInv, BudgetsExact, KindOfBatch, BatchHasSlots
<1>8. OnlyRunningHold' /\ MemoryBound'
  BY <1>s, MemoryFrame DEF IInv, BatchInv
<1>9. OrderKept'
  BY PhaseFrame, OrderFrame DEF IInv
<1> QED BY <1>1, <1>2, <1>3, <1>4, <1>5, <1>6, <1>7, <1>8, <1>9 DEF IInv, PlaceInv, BatchInv

\* A delivered or failed stream response moves no request.
LEMMA StreamCallbackKeepsIInv ==
    ASSUME IInv, NEW r \in Stream, NEW delivered \in BOOLEAN, StreamCallback(r, delivered)
    PROVE  IInv'
<1> USE DEF StreamCallback, threadVars
<1>s. /\ Online' = Online /\ OfflineRunning' = OfflineRunning /\ InBatch' = InBatch
      /\ Queued' = Queued /\ Unanswered' = Unanswered
  BY DEF Online, OfflineRunning, InBatch, Queued, Unanswered
<1>1. TypeOK'
  <2>1. TypeOK /\ r \in Requests
    BY SchedulerAssumption DEF IInv, PlaceInv
  <2>2. cancelled' \subseteq Requests
    BY <2>1 DEF TypeOK
  <2>3. callbacks' \in [Requests -> Nat]
    <3>1. callbacks \in [Requests -> Nat]
      BY <2>1 DEF TypeOK
    <3>2. callbacks[r] - 1 \in Nat
      BY <2>1, <3>1
    <3> QED BY <3>1, <3>2
  <2> QED BY <2>1, <2>2, <2>3 DEF TypeOK
<1>2. NoDuplicates' /\ PlacesApart' /\ PlacesComplete' /\ ClassesApart' /\ FinishedReaped'
  BY <1>s DEF IInv, PlaceInv, NoDuplicates, PlacesApart, PlacesComplete, ClassesApart, FinishedReaped
<1>7. BudgetsExact' /\ KindOfBatch' /\ BatchHasSlots'
  BY <1>s, PhaseFrame DEF IInv, BatchInv, BudgetsExact, KindOfBatch, BatchHasSlots
<1>8. OnlyRunningHold' /\ MemoryBound'
  BY <1>s, MemoryFrame DEF IInv, BatchInv
<1>9. OrderKept'
  BY PhaseFrame, OrderFrame DEF IInv
<1> QED BY <1>1, <1>2, <1>7, <1>8, <1>9 DEF IInv, PlaceInv, BatchInv

\* The request queue moves to the waiting queues as a whole.
LEMMA DrainKeepsIInv ==
    ASSUME IInv, Drain
    PROVE  IInv'
<1> USE DEF Drain
<1>e. << >> \in Seq(Requests) /\ Range(<< >>) = {} /\ IsInjective(<< >>) /\ Len(<< >>) = 0
  BY EmptyQueue
<1>s. /\ Online' = Online /\ OfflineRunning' = OfflineRunning /\ InBatch' = InBatch
      /\ Queued' = {} /\ waiting' = waiting \cup Queued /\ Unanswered' = Unanswered
  BY <1>e DEF Online, OfflineRunning, InBatch, Queued, Unanswered
<1>t. TypeOK /\ Queued \subseteq Requests
  BY PlacesTyped DEF IInv, PlaceInv
<1>f. ~Prefilling /\ ~Prefilling' /\ ~Decoding' /\ ~Building'
  BY DEF Prefilling, Decoding, Building
<1>1. TypeOK'
  <2>1. (submitted \cup waiting \cup finished_requests \cup finished \cup cancelled \cup failed)' \subseteq Requests
    BY <1>s, <1>t DEF TypeOK
  <2>2. Len(request_queue)' <= QueueSize /\ request_queue' \in Seq(Requests)
    BY <1>e, SchedulerAssumption
  <2> QED BY <1>t, <2>1, <2>2 DEF TypeOK
<1>2. NoDuplicates'
  BY <1>e DEF IInv, PlaceInv, NoDuplicates
<1>3. PlacesApart' /\ PlacesComplete' /\ ClassesApart'
  BY <1>s DEF IInv, PlaceInv, PlacesApart, PlacesComplete, ClassesApart
<1>4. FinishedReaped'
  BY <1>s DEF IInv, PlaceInv, FinishedReaped
<1>7. BudgetsExact' /\ KindOfBatch' /\ BatchHasSlots'
  BY <1>f DEF BudgetsExact, KindOfBatch, BatchHasSlots
<1>8. OnlyRunningHold' /\ MemoryBound'
  BY <1>s, MemoryFrame DEF IInv, BatchInv
<1>9. OrderKept'
  <2>1. AfterQueues' <=> AfterQueues
    BY <1>f DEF AfterQueues
  <2> QED BY <2>1, OrderFrame DEF IInv
<1> QED BY <1>1, <1>2, <1>3, <1>4, <1>7, <1>8, <1>9 DEF IInv, PlaceInv, BatchInv

\* Answering a set of requests that were still to be answered.
LEMMA RespondOnce ==
    ASSUME TypeOK, PlacesComplete, NEW s \in SUBSET Unanswered, responses' = Respond(s), submitted' = submitted
    PROVE  /\ responses' \in [Requests -> Nat] /\ Unanswered' = Unanswered \ s
           /\ \A r \in Requests : responses'[r] \in {0, 1} /\ (r \notin submitted' => responses'[r] = 0)
<1>1. responses \in [Requests -> Nat] /\ s \subseteq Requests
  BY DEF TypeOK, Unanswered
<1>2. \A r \in Requests : responses'[r] = responses[r] + (IF r \in s THEN 1 ELSE 0)
  BY DEF Respond
<1>3. \A r \in Requests : responses[r] \in {0, 1} /\ (r \notin submitted => responses[r] = 0)
  BY DEF PlacesComplete
<1>4. \A r \in s : responses[r] = 0 /\ r \in submitted
  BY DEF Unanswered
<1>5. \A r \in Requests : IF r \in s THEN responses'[r] = 1 ELSE responses'[r] = responses[r]
  BY <1>1, <1>2, <1>4
<1>6. responses' \in [Requests -> Nat]
  BY <1>1 DEF Respond
<1>7. Unanswered' = Unanswered \ s
  BY <1>4, <1>5 DEF Unanswered
<1> QED BY <1>3, <1>4, <1>5, <1>6, <1>7

\* The reaped requests are answered.
LEMMA DispatchKeepsIInv ==
    ASSUME IInv, Dispatch
    PROVE  IInv'
<1> USE DEF Dispatch, clientVars
<1>t. TypeOK /\ finished_requests \subseteq Unanswered
  BY DEF IInv, PlaceInv, PlacesComplete
<1>s. /\ Online' = Online /\ OfflineRunning' = OfflineRunning /\ InBatch' = InBatch
      /\ Queued' = Queued
  BY DEF Online, OfflineRunning, InBatch, Queued
<1>a. /\ responses' \in [Requests -> Nat] /\ Unanswered' = Unanswered \ finished_requests
      /\ \A r \in Requests : responses'[r] \in {0, 1} /\ (r \notin submitted' => responses'[r] = 0)
  BY <1>t, RespondOnce DEF IInv, PlaceInv
<1>f. /\ ~Prefilling /\ ~Prefilling' /\ ~Decoding' /\ Building
      /\ (pc' = "step" /\ running_requests # << >>) \/ pc' = "drain"
  BY DEF Prefilling, Decoding, Building
<1>1. TypeOK'
  BY <1>t, <1>a DEF TypeOK
<1>2. NoDuplicates'
  BY DEF IInv, PlaceInv, NoDuplicates
<1>3. PlacesApart' /\ ClassesApart'
  BY <1>s DEF IInv, PlaceInv, PlacesApart, ClassesApart
<1>c. PlacesComplete'
  <2>1. (Queued \cup waiting \cup Online \cup OfflineRunning \cup InBatch \cup finished_requests)' = Unanswered'
    BY <1>s, <1>a DEF IInv, PlaceInv, PlacesComplete, PlacesApart
  <2> QED BY <1>a, <2>1 DEF PlacesComplete
<1>4. FinishedReaped'
  BY <1>s DEF IInv, PlaceInv, FinishedReaped
<1>7. BudgetsExact' /\ KindOfBatch' /\ BatchHasSlots'
  BY <1>s, <1>f DEF IInv, BatchInv, BudgetsExact, KindOfBatch, BatchHasSlots, Building
<1>8. OnlyRunningHold' /\ MemoryBound'
  BY <1>s, MemoryFrame DEF IInv, BatchInv
<1>9. OrderKept'
  <2>1. AfterQueues' <=> AfterQueues
    BY <1>f DEF AfterQueues
  <2> QED BY <2>1, OrderFrame DEF IInv
<1> QED BY <1>1, <1>2, <1>3, <1>c, <1>4, <1>7, <1>8, <1>9 DEF IInv, PlaceInv, BatchInv

\* The batch grows by a token each, and what stops is still in it.
LEMMA EngineStepKeepsIInv ==
    ASSUME IInv, NEW eos \in SUBSET InBatch, EngineStep(eos)
    PROVE  IInv'
<1> USE DEF EngineStep
<1>t. TypeOK /\ InBatch \subseteq Requests /\ InBatch \subseteq Unanswered /\ finished \cap InBatch = {}
  BY PlacesTyped DEF IInv, PlaceInv, PlacesComplete, FinishedReaped
<1>s. /\ Online' = Online /\ OfflineRunning' = OfflineRunning /\ InBatch' = InBatch
      /\ Queued' = Queued /\ Unanswered' = Unanswered
  BY DEF Online, OfflineRunning, InBatch, Queued, Unanswered
<1>f. ~Prefilling /\ ~Prefilling' /\ ~Decoding' /\ ~Building'
  BY DEF Prefilling, Decoding, Building
<1>k. /\ tokens \in [Requests -> Nat] /\ Prompt \in [Requests -> Nat] /\ MaxGen \in [Requests -> Nat]
      /\ \A r \in Requests : tokens[r] \in Prompt[r] .. Prompt[r] + MaxGen[r]
      /\ \A r \in Requests \ finished : tokens[r] < Prompt[r] + MaxGen[r]
  BY <1>t, SchedulerAssumption DEF IInv, PlaceInv, FinishedReaped, TypeOK
<1>n. \A r \in Requests : tokens'[r] = IF r \in InBatch THEN tokens[r] + 1 ELSE tokens[r]
  BY <1>k DEF Appended, InBatch
<1>g. finished' = finished \cup Stopped(InBatch, eos)
  BY DEF InBatch
<1>h. Stopped(InBatch, eos) = eos \cup {r \in InBatch : tokens'[r] - Prompt[r] >= MaxGen[r]}
  BY DEF Stopped, InBatch
<1>1. TypeOK'
  <2>1. tokens' \in [Requests -> Nat]
    BY <1>k DEF Appended
  <2>2. \A r \in Requests : tokens'[r] \in Prompt[r] .. Prompt[r] + MaxGen[r]
    <3> SUFFICES ASSUME NEW r \in Requests PROVE tokens'[r] \in Prompt[r] .. Prompt[r] + MaxGen[r]
      OBVIOUS
    <3>1. Prompt[r] \in Nat /\ MaxGen[r] \in Nat /\ tokens[r] \in Prompt[r] .. Prompt[r] + MaxGen[r]
      BY <1>k
    <3>2. CASE r \in InBatch
      <4>1. tokens[r] < Prompt[r] + MaxGen[r] /\ tokens'[r] = tokens[r] + 1
        BY <1>t, <1>k, <1>n, <3>2
      <4> QED BY <3>1, <4>1
    <3>3. CASE r \notin InBatch
      BY <1>n, <3>1, <3>3
    <3> QED BY <3>2, <3>3
  <2>3. (submitted \cup waiting \cup finished_requests \cup finished \cup cancelled \cup failed)' \subseteq Requests
    <3>1. finished' \subseteq finished \cup InBatch
      BY <1>g, <1>h
    <3> QED BY <1>t, <3>1 DEF TypeOK
  <2>4. callbacks' \in [Requests -> Nat]
    <3>1. callbacks \in [Requests -> Nat]
      BY <1>t DEF TypeOK
    <3>2. \A r \in Requests : callbacks[r] + 1 \in Nat /\ callbacks[r] + 0 \in Nat
      BY <3>1
    <3> QED BY <3>2 DEF Streamed
  <2> QED BY <1>t, <2>1, <2>2, <2>3, <2>4 DEF TypeOK
<1>2. NoDuplicates' /\ PlacesApart' /\ PlacesComplete' /\ ClassesApart'
  BY <1>s DEF IInv, PlaceInv, NoDuplicates, PlacesApart, PlacesComplete, ClassesApart
<1>4. FinishedReaped'
  <2>1. finished' \subseteq finished \cup InBatch
    BY <1>g, <1>h
  <2>2. (finished \cap (Queued \cup waiting \cup Online \cup OfflineRunning))' = {}
    BY <1>s, <2>1 DEF IInv, PlaceInv, PlacesApart, FinishedReaped
  <2>3. finished' \subseteq submitted'
    BY <1>t, <2>1 DEF IInv, PlaceInv, FinishedReaped, Unanswered
  <2>4. \A r \in Requests \ finished' : tokens'[r] < Prompt[r] + MaxGen[r]
    <3> SUFFICES ASSUME NEW r \in Requests, r \notin finished' PROVE tokens'[r] < Prompt[r] + MaxGen[r]
      OBVIOUS
    <3>1. Prompt[r] \in Nat /\ MaxGen[r] \in Nat /\ tokens[r] \in Nat
      BY <1>k
    <3>2. CASE r \in InBatch
      <4>1. ~(tokens'[r] - Prompt[r] >= MaxGen[r]) /\ tokens'[r] = tokens[r] + 1
        BY <1>g, <1>h, <1>n, <3>2
      <4> QED BY <3>1, <4>1
    <3>3. CASE r \notin InBatch
      BY <1>g, <1>k, <1>n, <3>3
    <3> QED BY <3>2, <3>3
  <2> QED BY <2>2, <2>3, <2>4 DEF FinishedReaped
<1>7. BudgetsExact' /\ KindOfBatch' /\ BatchHasSlots'
  BY <1>f DEF BudgetsExact, KindOfBatch, BatchHasSlots
<1>8. OnlyRunningHold' /\ MemoryBound'
  BY <1>s, MemoryFrame DEF IInv, BatchInv
<1>9. OrderKept'
  <2>1. AfterQueues' <=> AfterQueues
    BY <1>f DEF AfterQueues
  <2> QED BY <2>1, OrderFrame DEF IInv
<1> QED BY <1>1, <1>2, <1>4, <1>7, <1>8, <1>9 DEF IInv, PlaceInv, BatchInv

\* The decode loop ends.
LEMMA DecodeEndKeepsIInv ==
    ASSUME IInv, NEW off \in BOOLEAN, DecodeEnd(off)
    PROVE  IInv'
<1> USE DEF DecodeEnd, AfterDecode, DecodePhase, clientVars
<1>s. /\ Online' = Online /\ OfflineRunning' = OfflineRunning /\ InBatch' = InBatch
      /\ Queued' = Queued /\ Unanswered' = Unanswered
  BY DEF Online, OfflineRunning, InBatch, Queued, Unanswered
<1>f. /\ pc \in {"decode", "decode_offline"} /\ pc' \in {"decode_offline", "dispatch"}
      /\ ~last_step_prefill /\ ~last_step_prefill'
  BY DEF IInv, BatchInv, KindOfBatch, Decoding
<1>1. TypeOK'
  BY <1>f DEF IInv, PlaceInv, TypeOK
<1>2. NoDuplicates' /\ PlacesApart' /\ PlacesComplete' /\ ClassesApart' /\ FinishedReaped'
  BY <1>s, <1>f DEF IInv, PlaceInv, NoDuplicates, PlacesApart, PlacesComplete, ClassesApart, FinishedReaped
<1>7. BudgetsExact' /\ KindOfBatch' /\ BatchHasSlots'
  BY <1>s, <1>f DEF IInv, BatchInv, BudgetsExact, KindOfBatch, BatchHasSlots, Building, Prefilling, Decoding
<1>8. OnlyRunningHold' /\ MemoryBound'
  BY <1>s, MemoryFrame DEF IInv, BatchInv
<1>9. OrderKept'
  <2>1. AfterQueues' <=> AfterQueues
    BY <1>f DEF AfterQueues, Prefilling
  <2> QED BY <2>1, OrderFrame DEF IInv
<1> QED BY <1>1, <1>2, <1>7, <1>8, <1>9 DEF IInv, PlaceInv, BatchInv

\* Two ordered queues, one of which comes before the other.
LEMMA ConcatOrdered ==
    ASSUME NEW S, NEW a \in Seq(S), NEW b \in Seq(S), NEW o,
           \A i, j \in DOMAIN a : i < j => Before(o, a[i], a[j]),
           \A i, j \in DOMAIN b : i < j => Before(o, b[i], b[j]),
           \A x \in Range(a), y \in Range(b) : Before(o, x, y)
    PROVE  \A i, j \in DOMAIN (a \o b) : i < j => Before(o, (a \o b)[i], (a \o b)[j])
<1> DEFINE c == a \o b
           n == Len(a)
           m == Len(b)
<1>1. /\ n \in Nat /\ m \in Nat /\ DOMAIN a = 1 .. n /\ DOMAIN b = 1 .. m /\ DOMAIN c = 1 .. n + m
  OBVIOUS
<1>2. \A i \in 1 .. n + m : c[i] = IF i <= n THEN a[i] ELSE b[i - n]
  OBVIOUS
<1> SUFFICES ASSUME NEW i \in 1 .. n + m, NEW j \in 1 .. n + m, i < j PROVE Before(o, c[i], c[j])
  BY <1>1
<1> HIDE DEF c, n, m
<1>3. CASE j <= n
  <2>1. i \in 1 .. n /\ j \in 1 .. n /\ i <= n
    BY <1>1, <1>3
  <2> QED BY <1>1, <1>2, <1>3, <2>1
<1>4. CASE ~(j <= n) /\ i <= n
  <2>1. i \in 1 .. n /\ j - n \in 1 .. m
    BY <1>1, <1>4
  <2> QED BY <1>1, <1>2, <1>4, <2>1 DEF Range
<1>5. CASE ~(i <= n)
  <2>1. i - n \in 1 .. m /\ j - n \in 1 .. m /\ i - n < j - n /\ ~(j <= n)
    BY <1>1, <1>5
  <2> QED BY <1>1, <1>2, <1>5, <2>1
<1>6. j <= n \/ (~(j <= n) /\ i <= n) \/ ~(i <= n)
  OBVIOUS
<1> QED BY <1>3, <1>4, <1>5, <1>6

\* The two classes of requests.
LEMMA ClassSplit ==
    Class(TRUE) = Offline /\ Class(FALSE) = Requests \ Offline
BY DEF Class

\* What is left in use when the requests of s give their blocks back.
LEMMA DeallocatedMemory ==
    ASSUME NEW held \in [Requests -> Nat], NEW s \in SUBSET Requests
    PROVE  /\ Deallocated(held, s) \in [Requests -> Nat]
           /\ \A r \in Requests : Deallocated(held, s)[r] = IF r \in s THEN 0 ELSE held[r]
           /\ NumUsed(held) \in Nat /\ NumUsed(Deallocated(held, s)) = NumUsed(held) - Total(held, s)
           /\ Total(held, s) \in Nat /\ Total(held, s) <= NumUsed(held)
           /\ Holders(Deallocated(held, s)) = Holders(held) \ s
           /\ IsFiniteSet(Holders(held))
<1> DEFINE g == Deallocated(held, s)
           o == Requests \ s
<1>0. IsFiniteSet(Requests)
  BY SchedulerAssumption
<1>1. g \in [Requests -> Nat] /\ \A r \in Requests : g[r] = IF r \in s THEN 0 ELSE held[r]
  BY DEF Deallocated
<1>2. Holders(g) = Holders(held) \ s
  BY <1>1 DEF Holders
<1>3. IsFiniteSet(Holders(held))
  <2>1. Holders(held) \in SUBSET Requests
    BY DEF Holders
  <2> QED BY <1>0, <2>1, FS_Subset
<1> HIDE DEF g
<1>4. s \cup o = Requests /\ s \cap o = {} /\ o \in SUBSET Requests /\ Requests \in SUBSET Requests
  OBVIOUS
<1>5. (\A r \in s : g[r] = 0) /\ (\A r \in o : g[r] = held[r])
  BY <1>1
<1> HIDE DEF o
<1>6. Total(held, s \cup o) = Total(held, s) + Total(held, o)
  BY <1>0, <1>4, TotalSplit
<1>7. Total(g, s \cup o) = Total(g, s) + Total(g, o)
  BY <1>0, <1>1, <1>4, TotalSplit
<1>8. Total(g, s) = 0 /\ Total(g, o) = Total(held, o)
  BY <1>5, TotalZero, TotalSame
<1>9. Total(held, s) \in Nat /\ Total(held, o) \in Nat /\ Total(held, Requests) \in Nat
  BY <1>0, <1>4, TotalType
<1>10. NumUsed(g) = NumUsed(held) - Total(held, s) /\ Total(held, s) <= NumUsed(held) /\ NumUsed(held) \in Nat
  <2> DEFINE x == Total(held, s)
             y == Total(held, o)
  <2>1. Total(held, Requests) = x + y /\ Total(g, Requests) = 0 + y /\ x \in Nat /\ y \in Nat
    BY <1>4, <1>6, <1>7, <1>8, <1>9
  <2>2. Total(g, Requests) = Total(held, Requests) - x /\ x <= Total(held, Requests) /\ Total(held, Requests) \in Nat
    <3> HIDE DEF x, y
    <3> QED BY <2>1
  <2> QED BY <2>2 DEF NumUsed
<1> QED BY <1>1, <1>2, <1>3, <1>9, <1>10 DEF g

\* Giving blocks back keeps the bounds.
LEMMA DeallocatedBound ==
    ASSUME TypeOK, MemoryBound, NEW s \in SUBSET Requests, num_kv_blocks' = Deallocated(num_kv_blocks, s)
    PROVE  MemoryBound' /\ num_kv_blocks' \in [Requests -> Nat]
<1>1. num_kv_blocks \in [Requests -> Nat]
  BY DEF TypeOK
<1> DEFINE g == Deallocated(num_kv_blocks, s)
<1>2. /\ g \in [Requests -> Nat]
      /\ NumUsed(num_kv_blocks) \in Nat /\ NumUsed(g) = NumUsed(num_kv_blocks) - Total(num_kv_blocks, s)
      /\ Total(num_kv_blocks, s) \in Nat
      /\ Holders(g) = Holders(num_kv_blocks) \ s
      /\ IsFiniteSet(Holders(num_kv_blocks))
  BY <1>1, DeallocatedMemory
<1>3. num_kv_blocks' = g
  OBVIOUS
<1> HIDE DEF g
<1>4. NumUsed(g) <= NumBlocks
  BY <1>2, SchedulerAssumption DEF MemoryBound
<1>5. Cardinality(Holders(g)) <= NumEmbeddingIds
  <2>1. Holders(g) \in SUBSET Holders(num_kv_blocks)
    BY <1>2
  <2>2. /\ Cardinality(Holders(g)) <= Cardinality(Holders(num_kv_blocks)) /\ IsFiniteSet(Holders(g))
    BY <1>2, <2>1, FS_Subset
  <2>3. Cardinality(Holders(g)) \in Nat /\ Cardinality(Holders(num_kv_blocks)) \in Nat
    BY <1>2, <2>2, FS_CardinalityType
  <2> QED BY <2>2, <2>3, SchedulerAssumption DEF MemoryBound, NumEmbeddingIds
<1> QED BY <1>2, <1>3, <1>4, <1>5 DEF MemoryBound, NumEmbeddingIds

\* Finished and cancelled requests leave the batch and the memory.
LEMMA ReapKeepsIInv ==
    ASSUME IInv, NEW gone \in SUBSET InBatch, Reap(gone)
    PROVE  IInv'
<1> DEFINE dead == {r \in InBatch : r \in finished \cup cancelled \cup gone}
<1>d. /\ pc = "reap" /\ pc' = "requeue" /\ cancelled' = cancelled \cup gone
      /\ num_kv_blocks' = Deallocated(num_kv_blocks, dead)
      /\ finished_requests' = finished_requests \cup dead
      /\ running_requests' = Without(running_requests, dead)
      /\ admitted' = Without(admitted, dead)
      /\ UNCHANGED <<last_step_prefill, seq_budget, token_budget, fatal, submitted,
                     request_queue, callbacks, waiting, running_queue, tokens,
                     finished, responses, failed>>
  BY DEF Reap, InBatch
<1>t. TypeOK /\ InBatch \subseteq Requests
  BY PlacesTyped DEF IInv, PlaceInv
<1>i. dead \subseteq InBatch /\ finished \cap (InBatch \ dead) = {} /\ dead \in SUBSET Requests
  BY <1>t
<1> HIDE DEF dead
<1>r. /\ running_requests' \in Seq(Requests) /\ InBatch' = InBatch \ dead /\ IsInjective(running_requests')
      /\ \A i, j \in DOMAIN running_requests' : i < j => Before(running_requests, running_requests'[i], running_requests'[j])
  <2>1. running_requests \in Seq(Requests) /\ IsInjective(running_requests)
    BY <1>t DEF IInv, PlaceInv, NoDuplicates, TypeOK
  <2> QED BY <1>d, <2>1, WithoutQueue DEF InBatch
<1>a. /\ admitted' \in Seq(Requests) /\ Range(admitted') = Range(admitted) \ dead
      /\ \A x, y : Before(admitted, x, y) /\ x \notin dead /\ y \notin dead => Before(admitted', x, y)
  <2>1. admitted \in Seq(Requests)
    BY <1>t DEF TypeOK
  <2> QED BY <1>d, <2>1, WithoutQueue
<1>s. Online' = Online /\ OfflineRunning' = OfflineRunning /\ Queued' = Queued /\ Unanswered' = Unanswered
  BY <1>d DEF Online, OfflineRunning, Queued, Unanswered
<1>o. dead \cap (Online \cup OfflineRunning) = {}
  BY <1>i DEF IInv, PlaceInv, PlacesApart
<1>m. MemoryBound' /\ num_kv_blocks' \in [Requests -> Nat]
  BY <1>d, <1>i, <1>t, DeallocatedBound DEF IInv, BatchInv
<1>f. ~Prefilling /\ ~Prefilling' /\ ~Decoding' /\ ~Building'
  BY <1>d DEF Prefilling, Decoding, Building
<1>1. TypeOK'
  <2>1. (submitted \cup waiting \cup finished_requests \cup finished \cup cancelled \cup failed)' \subseteq Requests
    BY <1>d, <1>t, <1>i DEF TypeOK
  <2> QED BY <1>d, <1>t, <1>r, <1>a, <1>m, <2>1 DEF TypeOK
<1>2. NoDuplicates'
  BY <1>d, <1>r DEF IInv, PlaceInv, NoDuplicates
<1>3. PlacesApart' /\ PlacesComplete' /\ ClassesApart'
  <2>1. PlacesApart'
    BY <1>d, <1>r, <1>s, <1>i DEF IInv, PlaceInv, PlacesApart
  <2>2. PlacesComplete'
    BY <1>d, <1>r, <1>s, <1>i DEF IInv, PlaceInv, PlacesComplete
  <2>3. ClassesApart'
    BY <1>s DEF IInv, PlaceInv, ClassesApart
  <2> QED BY <2>1, <2>2, <2>3
<1>4. FinishedReaped'
  BY <1>d, <1>r, <1>s, <1>i DEF IInv, PlaceInv, FinishedReaped
<1>7. BudgetsExact' /\ KindOfBatch' /\ BatchHasSlots'
  BY <1>d, <1>f DEF BudgetsExact, KindOfBatch, BatchHasSlots
<1>8. OnlyRunningHold'
  <2>1. \A r \in Requests : num_kv_blocks'[r] = IF r \in dead THEN 0 ELSE num_kv_blocks[r]
    BY <1>d DEF Deallocated
  <2>2. \A r \in Requests : num_kv_blocks[r] > 0 <=> r \in Online \cup OfflineRunning \cup InBatch
    BY DEF IInv, BatchInv, OnlyRunningHold, Online, OfflineRunning, InBatch
  <2>3. \A r \in Requests : num_kv_blocks'[r] > 0 <=> r \in Online' \cup OfflineRunning' \cup InBatch'
    BY <1>r, <1>s, <1>o, <2>1, <2>2
  <2> QED BY <2>3 DEF OnlyRunningHold, Online, OfflineRunning, InBatch
<1>9. OrderKept'
  <2> USE <1>d
  <2>0. Tracked /\ RunningQueueOrdered /\ BatchOrdered /\ BatchAfterQueues /\ BatchBeforeQueues
    BY DEF IInv, OrderKept
  <2>q. \A off \in BOOLEAN : \A x \in Range(running_queue[off]) : x \notin dead
    BY <1>o DEF Online, OfflineRunning
  <2>1. Tracked'
    BY <1>r, <1>s, <1>a, <1>o, <2>0 DEF Tracked
  <2>2. RunningQueueOrdered'
    <3> SUFFICES ASSUME NEW off \in BOOLEAN, NEW i \in DOMAIN running_queue[off], NEW j \in DOMAIN running_queue[off],
                        i < j
                 PROVE  Before(admitted', running_queue[off][i], running_queue[off][j])
      BY DEF RunningQueueOrdered
    <3>1. Before(admitted, running_queue[off][i], running_queue[off][j])
      BY <2>0 DEF RunningQueueOrdered
    <3>2. running_queue[off][i] \notin dead /\ running_queue[off][j] \notin dead
      BY <2>q DEF Range
    <3> QED BY <1>a, <3>1, <3>2
  <2>3. BatchOrdered'
    <3> DEFINE rr == running_requests'
    <3> SUFFICES ASSUME NEW off \in BOOLEAN, NEW i \in DOMAIN rr, NEW j \in DOMAIN rr,
                        i < j, rr[i] \in Class(off), rr[j] \in Class(off)
                 PROVE  Before(admitted', rr[i], rr[j])
      BY DEF BatchOrdered
    <3>1. Before(running_requests, rr[i], rr[j]) /\ rr[i] \notin dead /\ rr[j] \notin dead
      BY <1>r DEF InBatch, Range
    <3>2. Before(admitted, rr[i], rr[j])
      BY <2>0, <3>1 DEF BatchOrdered, Before
    <3> QED BY <1>a, <3>1, <3>2
  <2>4. AfterQueues' <=> AfterQueues
    BY <1>f DEF AfterQueues
  <2>5. BatchAfterQueues'
    BY <1>r, <1>a, <2>0, <2>4, <2>q DEF BatchAfterQueues
  <2>6. BatchBeforeQueues'
    BY <1>r, <1>a, <2>0, <2>4, <2>q DEF BatchBeforeQueues
  <2> QED BY <2>1, <2>2, <2>3, <2>5, <2>6 DEF OrderKept
<1> QED BY <1>1, <1>2, <1>3, <1>4, <1>7, <1>8, <1>9, <1>m DEF IInv, PlaceInv, BatchInv

\* The queue of a class after handle_running_requests().
LEMMA RequeuedQueue ==
    ASSUME IInv, NEW off \in BOOLEAN, ~Prefilling
    PROVE  /\ Requeued(off) \in Seq(Requests) /\ IsInjective(Requeued(off))
           /\ Range(Requeued(off)) = Range(running_queue[off]) \cup (InBatch \cap Class(off))
           /\ \A i, j \in DOMAIN Requeued(off) : i < j => Before(admitted, Requeued(off)[i], Requeued(off)[j])
<1> DEFINE back == Only(running_requests, Class(off))
           rest == running_queue[off]
<1>1. /\ running_requests \in Seq(Requests) /\ IsInjective(running_requests)
      /\ rest \in Seq(Requests) /\ IsInjective(rest) /\ last_step_prefill \in BOOLEAN
  BY DEF IInv, PlaceInv, NoDuplicates, TypeOK
<1>2. /\ back \in Seq(Requests) /\ Range(back) = InBatch \cap Class(off) /\ IsInjective(back)
      /\ \A i, j \in DOMAIN back : i < j => Before(running_requests, back[i], back[j])
  BY <1>1, OnlyQueue DEF InBatch
<1>3. Range(rest) \cap Range(back) = {} /\ Range(back) \cap Range(rest) = {}
  BY <1>2 DEF IInv, PlaceInv, PlacesApart, Online, OfflineRunning
<1>4. Requeued(off) = IF last_step_prefill THEN rest \o back ELSE back \o rest
  BY DEF Requeued
<1>5. \A i, j \in DOMAIN rest : i < j => Before(admitted, rest[i], rest[j])
  BY DEF IInv, OrderKept, RunningQueueOrdered
<1>6. \A i, j \in DOMAIN back : i < j => Before(admitted, back[i], back[j])
  <2> SUFFICES ASSUME NEW i \in DOMAIN back, NEW j \in DOMAIN back, i < j
               PROVE  Before(admitted, back[i], back[j])
    OBVIOUS
  <2>1. back[i] \in Class(off) /\ back[j] \in Class(off) /\ Before(running_requests, back[i], back[j])
    <3> HIDE DEF back
    <3> QED BY <1>2 DEF Range
  <2> HIDE DEF back
  <2> QED BY <2>1 DEF IInv, OrderKept, BatchOrdered, Before
<1>7. /\ last_step_prefill => \A x \in Range(rest), y \in Range(back) : Before(admitted, x, y)
      /\ ~last_step_prefill => \A x \in Range(back), y \in Range(rest) : Before(admitted, x, y)
  <2> HIDE DEF back
  <2>1. AfterQueues <=> last_step_prefill
    BY DEF AfterQueues
  <2> QED BY <1>2, <2>1 DEF IInv, OrderKept, BatchAfterQueues, BatchBeforeQueues
<1> HIDE DEF back, rest
<1>8. CASE last_step_prefill
  <2>1. Requeued(off) = rest \o back
    BY <1>4, <1>8
  <2>2. /\ rest \o back \in Seq(Requests) /\ Range(rest \o back) = Range(rest) \cup Range(back)
        /\ IsInjective(rest \o back)
    BY <1>1, <1>2, <1>3, ConcatQueue
  <2>3. \A i, j \in DOMAIN (rest \o back) : i < j => Before(admitted, (rest \o back)[i], (rest \o back)[j])
    BY <1>1, <1>2, <1>5, <1>6, <1>7, <1>8, ConcatOrdered
  <2> QED BY <1>2, <2>1, <2>2, <2>3 DEF rest
<1>9. CASE ~last_step_prefill
  <2>1. Requeued(off) = back \o rest
    BY <1>4, <1>9
  <2>2. /\ back \o rest \in Seq(Requests) /\ Range(back \o rest) = Range(back) \cup Range(rest)
        /\ IsInjective(back \o rest)
    BY <1>1, <1>2, <1>3, ConcatQueue
  <2>3. \A i, j \in DOMAIN (back \o rest) : i < j => Before(admitted, (back \o rest)[i], (back \o rest)[j])
    BY <1>1, <1>2, <1>5, <1>6, <1>7, <1>9, ConcatOrdered
  <2> QED BY <1>2, <2>1, <2>2, <2>3 DEF rest
<1> QED BY <1>8, <1>9

\* The rest of the last batch returns to the running queues.
LEMMA RequeueKeepsIInv ==
    ASSUME IInv, Requeue
    PROVE  IInv'
<1>f. pc = "requeue" /\ ~Prefilling
  BY DEF Requeue, Prefilling
<1>1. CASE InBatch \cap (finished \cup cancelled) # {}
  <2>1. Die("finished or cancelled request")
    BY <1>1 DEF Requeue, InBatch
  <2> QED BY <1>f, <2>1, DieKeepsIInv
<1>2. CASE InBatch \cap (finished \cup cancelled) = {}
  <2>d. /\ running_queue' = [off \in BOOLEAN |-> Requeued(off)]
        /\ running_requests' = <<>>
        /\ last_step_prefill' = FALSE
        /\ seq_budget' = MaxSeqsPerBatch
        /\ token_budget' = MaxTokensPerBatch
        /\ pc' = "prefill"
        /\ UNCHANGED <<fatal, clientVars, waiting, finished_requests, tokens,
                       num_kv_blocks, finished, responses, failed, admitted>>
    BY <1>2 DEF Requeue, InBatch
  <2>e. << >> \in Seq(Requests) /\ Range(<< >>) = {} /\ IsInjective(<< >>) /\ Len(<< >>) = 0 /\ DOMAIN << >> = {}
    BY EmptyQueue
  <2>q. \A off \in BOOLEAN :
           /\ running_queue'[off] \in Seq(Requests) /\ IsInjective(running_queue'[off])
           /\ Range(running_queue'[off]) = Range(running_queue[off]) \cup (InBatch \cap Class(off))
           /\ \A i, j \in DOMAIN running_queue'[off] :
                 i < j => Before(admitted, running_queue'[off][i], running_queue'[off][j])
    BY <1>f, <2>d, RequeuedQueue
  <2>t. TypeOK /\ InBatch \subseteq Requests
    BY PlacesTyped DEF IInv, PlaceInv
  <2>s. /\ Online' = Online \cup (InBatch \ Offline) /\ OfflineRunning' = OfflineRunning \cup (InBatch \cap Offline)
        /\ InBatch' = {} /\ Queued' = Queued /\ Unanswered' = Unanswered
    <3>1. Online' = Online \cup (InBatch \ Offline)
      BY <2>q, <2>t, ClassSplit DEF Online
    <3>2. OfflineRunning' = OfflineRunning \cup (InBatch \cap Offline)
      BY <2>q, ClassSplit DEF OfflineRunning
    <3>3. InBatch' = {} /\ Queued' = Queued /\ Unanswered' = Unanswered
      BY <2>d, <2>e DEF InBatch, Queued, Unanswered, clientVars
    <3> QED BY <3>1, <3>2, <3>3
  <2>p. Prefilling' /\ ~Decoding' /\ Building'
    BY <2>d DEF Prefilling, Decoding, Building
  <2>1. TypeOK'
    <3>1. running_queue' \in [BOOLEAN -> Seq(Requests)]
      BY <2>d, <2>q
    <3>2. seq_budget' \in 0 .. MaxSeqsPerBatch /\ token_budget' \in 0 .. MaxTokensPerBatch
      BY <2>d, SchedulerAssumption
    <3> QED BY <2>d, <2>t, <2>e, <3>1, <3>2 DEF TypeOK, clientVars
  <2>2. NoDuplicates'
    BY <2>d, <2>e, <2>q DEF IInv, PlaceInv, NoDuplicates, clientVars
  <2>3. PlacesApart'
    BY <2>d, <2>s DEF IInv, PlaceInv, PlacesApart
  <2>4. PlacesComplete'
    <3>1. (Queued \cup waiting \cup Online \cup OfflineRunning \cup InBatch \cup finished_requests)' = Unanswered'
      BY <2>d, <2>s DEF IInv, PlaceInv, PlacesComplete
    <3> QED BY <2>d, <3>1 DEF IInv, PlaceInv, PlacesComplete, clientVars
  <2>5. ClassesApart'
    BY <2>s DEF IInv, PlaceInv, ClassesApart
  <2>6. FinishedReaped'
    BY <1>2, <2>d, <2>s DEF IInv, PlaceInv, FinishedReaped, clientVars
  <2>7. BudgetsExact' /\ KindOfBatch' /\ BatchHasSlots'
    <3>1. Total(tokens', {}) = 0
      BY TotalZero
    <3>2. BudgetsExact'
      BY <2>d, <2>e, <2>p, <2>s, <3>1, SchedulerAssumption DEF BudgetsExact, Building
    <3> QED BY <2>d, <2>p, <2>s, <3>2 DEF KindOfBatch, BatchHasSlots
  <2>8. OnlyRunningHold' /\ MemoryBound'
    <3>1. (Online \cup OfflineRunning \cup InBatch)' = Online \cup OfflineRunning \cup InBatch
      BY <2>s
    <3> QED BY <2>d, <3>1, MemoryFrame DEF IInv, BatchInv
  <2>9. OrderKept'
    <3>1. RunningQueueOrdered'
      BY <2>d, <2>q DEF RunningQueueOrdered
    <3>2. Tracked'
      BY <2>d, <2>s DEF IInv, OrderKept, Tracked
    <3>3. BatchOrdered' /\ BatchAfterQueues' /\ BatchBeforeQueues'
      BY <2>d, <2>e, <2>s DEF BatchOrdered, BatchAfterQueues, BatchBeforeQueues
    <3> QED BY <3>1, <3>2, <3>3 DEF OrderKept
  <2> QED BY <2>1, <2>2, <2>3, <2>4, <2>5, <2>6, <2>7, <2>8, <2>9 DEF IInv, PlaceInv, BatchInv
<1> QED BY <1>1, <1>2

\* The rest of a queue is in its order, behind the head.
LEMMA TailOrdered ==
    ASSUME NEW S, NEW q \in Seq(S), q # << >>
    PROVE  /\ \A i, j \in DOMAIN Tail(q) : i < j => Before(q, Tail(q)[i], Tail(q)[j])
           /\ \A x \in Range(Tail(q)) : Before(q, Head(q), x)
<1> DEFINE t == Tail(q)
           n == Len(q)
<1>1. /\ n \in Nat /\ n >= 1 /\ DOMAIN q = 1 .. n /\ Head(q) = q[1] /\ DOMAIN t = 1 .. n - 1
      /\ \A i \in 1 .. n - 1 : t[i] = q[i + 1]
  OBVIOUS
<1> HIDE DEF t, n
<1>2. 1 \in 1 .. n /\ \A i \in 1 .. n - 1 : i + 1 \in 1 .. n /\ 1 < i + 1
  BY <1>1
<1>3. \A i, j \in 1 .. n - 1 : i < j => i + 1 < j + 1
  BY <1>1
<1>4. \A i, j \in DOMAIN t : i < j => Before(q, t[i], t[j])
  BY <1>1, <1>2, <1>3 DEF Before
<1>5. \A x \in Range(t) : Before(q, Head(q), x)
  BY <1>1, <1>2 DEF Before, Range
<1> QED BY <1>4, <1>5 DEF t

\* Requests that leave the running queues leave the others in their order.
LEMMA OrderLess ==
    ASSUME OrderKept, NEW s, UNCHANGED running_requests, s \cap InBatch = {},
           Range(admitted') = Range(admitted) \ s,
           \A x, y : Before(admitted, x, y) /\ x \notin s /\ y \notin s => Before(admitted', x, y),
           \A off \in BOOLEAN :
              /\ Range(running_queue'[off]) \subseteq Range(running_queue[off]) \ s
              /\ \A i, j \in DOMAIN running_queue'[off] :
                    i < j => Before(running_queue[off], running_queue'[off][i], running_queue'[off][j]),
           InBatch # {} => (AfterQueues' <=> AfterQueues)
    PROVE  OrderKept'
<1>0. Tracked /\ RunningQueueOrdered /\ BatchOrdered /\ BatchAfterQueues /\ BatchBeforeQueues
  BY DEF OrderKept
<1>b. InBatch' = InBatch
  BY DEF InBatch
<1>1. Tracked'
  <2>1. Online' \subseteq Online \ s /\ OfflineRunning' \subseteq OfflineRunning \ s
    BY DEF Online, OfflineRunning
  <2> QED BY <1>0, <1>b, <2>1 DEF Tracked
<1>2. RunningQueueOrdered'
  <2> DEFINE rq == running_queue'
  <2> SUFFICES ASSUME NEW off \in BOOLEAN, NEW i \in DOMAIN rq[off], NEW j \in DOMAIN rq[off], i < j
               PROVE  Before(admitted', rq[off][i], rq[off][j])
    BY DEF RunningQueueOrdered
  <2>1. Before(running_queue[off], rq[off][i], rq[off][j]) /\ rq[off][i] \notin s /\ rq[off][j] \notin s
    BY DEF Range
  <2>2. Before(admitted, rq[off][i], rq[off][j])
    <3> HIDE DEF rq
    <3> QED BY <1>0, <2>1 DEF RunningQueueOrdered, Before
  <2> QED BY <2>1, <2>2
<1>3. BatchOrdered'
  <2> SUFFICES ASSUME NEW off \in BOOLEAN, NEW i \in DOMAIN running_requests, NEW j \in DOMAIN running_requests,
                      i < j, running_requests[i] \in Class(off), running_requests[j] \in Class(off)
               PROVE  Before(admitted', running_requests[i], running_requests[j])
    BY DEF BatchOrdered
  <2>1. Before(admitted, running_requests[i], running_requests[j])
    BY <1>0 DEF BatchOrdered
  <2>2. running_requests[i] \notin s /\ running_requests[j] \notin s
    BY DEF InBatch, Range
  <2> QED BY <2>1, <2>2
<1>4. BatchAfterQueues'
  BY <1>0, <1>b DEF BatchAfterQueues
<1>5. BatchBeforeQueues'
  BY <1>0, <1>b DEF BatchBeforeQueues
<1> QED BY <1>1, <1>2, <1>3, <1>4, <1>5 DEF OrderKept

\* A request that is considered for a prefill waits, in the queue of its class.
LEMMA WaitingTop ==
    ASSUME TypeOK, NEW off \in BOOLEAN, Waiting(off) # {}
    PROVE  /\ Top(Waiting(off)) \in waiting /\ Top(Waiting(off)) \in Requests
           /\ Top(Waiting(off)) \in Class(off)
<1>1. Waiting(off) \in SUBSET Requests
  BY DEF Waiting, TypeOK
<1>2. Top(Waiting(off)) \in Waiting(off)
  BY <1>1, TopOfQueue
<1> QED BY <1>1, <1>2 DEF Waiting

\* A waiting request has no blocks to give back.
LEMMA WaitingHoldsNothing ==
    ASSUME IInv, NEW s \in SUBSET waiting
    PROVE  Deallocated(num_kv_blocks, s) = num_kv_blocks /\ \A r \in s : num_kv_blocks[r] = 0
<1>1. num_kv_blocks \in [Requests -> Nat] /\ s \subseteq Requests
  BY DEF IInv, PlaceInv, TypeOK
<1>2. \A r \in Requests : num_kv_blocks[r] > 0 <=> r \in Online \cup OfflineRunning \cup InBatch
  BY DEF IInv, BatchInv, OnlyRunningHold, Online, OfflineRunning, InBatch
<1>3. \A r \in s : r \notin Online \cup OfflineRunning \cup InBatch
  BY DEF IInv, PlaceInv, PlacesApart
<1>4. \A r \in s : num_kv_blocks[r] = 0
  BY <1>1, <1>2, <1>3
<1> QED BY <1>1, <1>4 DEF Deallocated

\* What a request's allocation changes, when there is room for it.
LEMMA AllocatedMemory ==
    ASSUME TypeOK, NEW held \in [Requests -> Nat], NEW r \in Requests,
           NumUsed(held) <= NumBlocks,
           NumBlocksFor(tokens[r]) - held[r] <= NumFree(held),
           Cardinality(Holders(held) \cup {r}) <= NumEmbeddingIds
    PROVE  /\ Allocated(held, r) \in [Requests -> Nat]
           /\ \A q \in Requests \ {r} : Allocated(held, r)[q] = held[q]
           /\ Allocated(held, r)[r] > 0 /\ Allocated(held, r)[r] * BlockSize >= tokens[r]
           /\ NumUsed(Allocated(held, r)) <= NumBlocks
           /\ Cardinality(Holders(Allocated(held, r))) <= NumEmbeddingIds
<1> DEFINE n == NumBlocksFor(tokens[r])
           g == Allocated(held, r)
<1>1. tokens[r] \in Nat \ {0}
  <2>1. tokens[r] \in Nat /\ Prompt[r] \in Nat \ {0} /\ tokens[r] \in Prompt[r] .. Prompt[r] + MaxGen[r] /\ MaxGen[r] \in Nat
    BY SchedulerAssumption DEF TypeOK
  <2> QED BY <2>1
<1>2. n \in Nat \ {0} /\ \A k \in Nat : k >= n => k * BlockSize >= tokens[r]
  BY <1>1, BlocksCoverTokens
<1>3. held[r] \in Nat
  OBVIOUS
<1>4. g = [held EXCEPT ![r] = IF n > held[r] THEN n ELSE held[r]]
  BY DEF Allocated
<1> HIDE DEF g, n
<1>5. g \in [Requests -> Nat] /\ g[r] = (IF n > held[r] THEN n ELSE held[r]) /\ \A q \in Requests \ {r} : g[q] = held[q]
  BY <1>2, <1>3, <1>4
<1>6. g[r] \in Nat /\ g[r] >= n /\ g[r] > 0
  BY <1>2, <1>3, <1>5
<1>7. g[r] * BlockSize >= tokens[r]
  BY <1>2, <1>6
<1>8. NumUsed(g) <= NumBlocks
  <2>1. Total(g, Requests) = Total(held, Requests) - held[r] + g[r]
    <3>1. IsFiniteSet(Requests)
      BY SchedulerAssumption
    <3>2. g \in [Requests -> Nat] /\ \A q \in Requests \ {r} : g[q] = held[q]
      BY <1>5
    <3> QED BY <3>1, <3>2, TotalChange
  <2>2. Total(held, Requests) \in Nat
    BY TotalType, SchedulerAssumption
  <2>3. n - held[r] <= NumBlocks - Total(held, Requests) /\ Total(held, Requests) <= NumBlocks /\ NumBlocks \in Nat
    BY SchedulerAssumption DEF NumUsed, NumFree, n
  <2> DEFINE x == held[r]
             y == g[r]
             u == Total(held, Requests)
             v == Total(g, Requests)
  <2>y. y = (IF n > x THEN n ELSE x)
    BY <1>5
  <2>4. /\ v = u - x + y /\ u \in Nat /\ x \in Nat /\ y \in Nat /\ n - x <= NumBlocks - u /\ u <= NumBlocks
        /\ NumBlocks \in Nat /\ y = (IF n > x THEN n ELSE x) /\ n \in Nat
    <3>1. v = u - x + y
      BY <2>1
    <3> QED BY <1>2, <1>3, <1>6, <2>2, <2>3, <2>y, <3>1
  <2>5. v <= NumBlocks
    <3> HIDE DEF x, y, u, v
    <3> QED BY <2>4
  <2> QED BY <2>5 DEF NumUsed
<1>9. Cardinality(Holders(g)) <= NumEmbeddingIds
  <2>1. Holders(g) = Holders(held) \cup {r}
    BY <1>5, <1>6 DEF Holders
  <2> QED BY <2>1
<1> QED BY <1>5, <1>6, <1>7, <1>8, <1>9 DEF g

\* The budgets and what the batch takes of them are natural numbers.
LEMMA BatchTotals ==
    ASSUME TypeOK
    PROVE  /\ token_budget \in Nat /\ seq_budget \in Nat /\ Len(running_requests) \in Nat
           /\ IsFiniteSet(Requests) /\ tokens \in [Requests -> Nat] /\ InBatch \in SUBSET Requests
           /\ Total(tokens, InBatch) \in Nat
<1>1. token_budget \in Nat /\ seq_budget \in Nat
  <2>1. token_budget \in 0 .. MaxTokensPerBatch /\ seq_budget \in 0 .. MaxSeqsPerBatch
    BY DEF TypeOK
  <2>2. MaxTokensPerBatch \in Nat /\ MaxSeqsPerBatch \in Nat
    BY SchedulerAssumption
  <2> QED BY <2>1, <2>2
<1>2. tokens \in [Requests -> Nat] /\ running_requests \in Seq(Requests)
  BY DEF TypeOK
<1>3. InBatch \in SUBSET Requests
  BY PlacesTyped
<1>4. IsFiniteSet(Requests)
  BY SchedulerAssumption
<1>5. Total(tokens, InBatch) \in Nat
  BY <1>2, <1>3, <1>4, TotalType
<1> QED BY <1>1, <1>2, <1>3, <1>4, <1>5

\* The tokens of a batch that one request joins.
LEMMA BatchTotalGrows ==
    ASSUME TypeOK, NEW r \in Requests, r \notin InBatch
    PROVE  Total(tokens, InBatch \cup {r}) = Total(tokens, InBatch) + tokens[r]
<1>1. IsFiniteSet(Requests) /\ tokens \in [Requests -> Nat] /\ InBatch \in SUBSET Requests
  BY BatchTotals
<1>2. Total(tokens, {r}) = tokens[r]
  BY <1>1, TotalOne
<1>3. {r} \in SUBSET Requests /\ InBatch \cap {r} = {}
  OBVIOUS
<1>4. Total(tokens, InBatch \cup {r}) = Total(tokens, InBatch) + Total(tokens, {r})
  BY <1>1, <1>3, TotalSplit
<1> QED BY <1>2, <1>4

\* A request that was cancelled while it waited is set aside to be answered.
LEMMA PrefillDropKeepsIInv ==
    ASSUME IInv, NEW off \in BOOLEAN, PrefillDrop(off)
    PROVE  IInv'
<1> DEFINE r == Top(Waiting(off))
<1>d. /\ Waiting(off) # {}
      /\ num_kv_blocks' = Deallocated(num_kv_blocks, {r})
      /\ finished_requests' = finished_requests \cup {r}
      /\ waiting' = waiting \ {r}
      /\ UNCHANGED <<pc, last_step_prefill, seq_budget, token_budget, fatal, submitted, request_queue,
                     cancelled, callbacks, running_queue, running_requests, tokens,
                     finished, responses, failed, admitted>>
  BY DEF PrefillDrop, PrefillLoops, threadVars, clientVars
<1>r. r \in waiting /\ r \in Requests
  BY <1>d, WaitingTop DEF IInv, PlaceInv
<1> HIDE DEF r
<1>n. num_kv_blocks' = num_kv_blocks
  BY <1>d, <1>r, WaitingHoldsNothing
<1>s. /\ Online' = Online /\ OfflineRunning' = OfflineRunning /\ InBatch' = InBatch
      /\ Queued' = Queued /\ Unanswered' = Unanswered
  BY <1>d DEF Online, OfflineRunning, InBatch, Queued, Unanswered
<1>1. TypeOK'
  <2>1. TypeOK
    BY DEF IInv, PlaceInv
  <2>2. (submitted \cup waiting \cup finished_requests \cup finished \cup cancelled \cup failed)' \subseteq Requests
    BY <1>d, <1>r, <2>1, ZenonT(40) DEF TypeOK
  <2> QED BY <1>d, <1>n, <2>1, <2>2 DEF TypeOK
<1>2. NoDuplicates' /\ ClassesApart'
  BY <1>d, <1>s DEF IInv, PlaceInv, NoDuplicates, ClassesApart
<1>3. PlacesApart'
  BY <1>d, <1>r, <1>s DEF IInv, PlaceInv, PlacesApart
<1>4. PlacesComplete'
  BY <1>d, <1>r, <1>s DEF IInv, PlaceInv, PlacesComplete
<1>5. FinishedReaped'
  BY <1>d, <1>s DEF IInv, PlaceInv, FinishedReaped
<1>7. BudgetsExact' /\ KindOfBatch' /\ BatchHasSlots'
  BY <1>d, <1>n, <1>s, PhaseFrame DEF IInv, BatchInv, BudgetsExact, KindOfBatch, BatchHasSlots
<1>8. OnlyRunningHold' /\ MemoryBound'
  BY <1>n, <1>s, MemoryFrame DEF IInv, BatchInv
<1>9. OrderKept'
  BY <1>d, PhaseFrame, OrderFrame DEF IInv
<1> QED BY <1>1, <1>2, <1>3, <1>4, <1>5, <1>7, <1>8, <1>9 DEF IInv, PlaceInv, BatchInv

\* The prefill loop ends; a request that nothing else can make room for fails.
LEMMA PrefillEndKeepsIInv ==
    ASSUME IInv, NEW off \in BOOLEAN, PrefillEnd(off)
    PROVE  IInv'
<1>p. pc = (IF off THEN "prefill_offline" ELSE "prefill") /\ Prefilling
  BY DEF PrefillEnd, BlocksExhausted, BudgetExhausted, LoopOver, PrefillTop, PrefillLoops, PrefillPhase, Prefilling
<1>1. CASE NothingRuns(off) /\ LoopOver(off)
  <2>1. Die("blocks and budget are enough but can not schedule") /\ running_requests = << >>
    BY <1>1 DEF PrefillEnd, NothingRuns
  <2> QED BY <1>p, <2>1, DieKeepsIInv DEF Prefilling
<1>2. CASE ~(NothingRuns(off) /\ LoopOver(off))
  <2> DEFINE out == IF NothingRuns(off) THEN {Top(Waiting(off))} ELSE {}
  <2>d. /\ waiting' = waiting \ out
        /\ num_kv_blocks' = Deallocated(num_kv_blocks, out)
        /\ responses' = Respond(out)
        /\ failed' = failed \cup out
        /\ last_step_prefill' = (last_step_prefill \/ running_requests # <<>>)
        /\ pc' = IF ~off THEN "prefill_offline"
                 ELSE IF running_requests = <<>> THEN "decode" ELSE "dispatch"
        /\ UNCHANGED <<seq_budget, token_budget, fatal, submitted, request_queue, cancelled, callbacks,
                       running_queue, running_requests, finished_requests,
                       tokens, finished, admitted>>
    BY <1>2 DEF PrefillEnd, clientVars
  <2>t. TypeOK
    BY DEF IInv, PlaceInv
  <2>o. out \subseteq waiting /\ out \subseteq Requests /\ out \in SUBSET Unanswered
    <3>1. NothingRuns(off) => Top(Waiting(off)) \in waiting /\ Top(Waiting(off)) \in Requests
      BY <2>t, WaitingTop DEF NothingRuns
    <3>2. waiting \subseteq Unanswered
      BY DEF IInv, PlaceInv, PlacesComplete
    <3> QED BY <3>1, <3>2
  <2> HIDE DEF out
  <2>n. num_kv_blocks' = num_kv_blocks
    BY <2>d, <2>o, WaitingHoldsNothing
  <2>s. Online' = Online /\ OfflineRunning' = OfflineRunning /\ InBatch' = InBatch /\ Queued' = Queued
    BY <2>d DEF Online, OfflineRunning, InBatch, Queued
  <2>a. /\ responses' \in [Requests -> Nat] /\ Unanswered' = Unanswered \ out
        /\ \A r \in Requests : responses'[r] \in {0, 1} /\ (r \notin submitted' => responses'[r] = 0)
    BY <2>d, <2>o, <2>t, RespondOnce DEF IInv, PlaceInv
  <2>f. /\ last_step_prefill' \in BOOLEAN
        /\ running_requests # << >> => last_step_prefill' = TRUE
        /\ running_requests = << >> => ~last_step_prefill'
        /\ pc' \in {"prefill_offline", "decode", "dispatch"}
        /\ pc' = "decode" => running_requests = << >>
    <3>1. last_step_prefill \in BOOLEAN /\ (last_step_prefill => running_requests # << >>)
      BY <1>p, <2>t DEF TypeOK, IInv, BatchInv, KindOfBatch
    <3>2. CASE running_requests # << >>
      BY <2>d, <3>2
    <3>3. CASE running_requests = << >>
      BY <2>d, <3>1, <3>3
    <3> QED BY <2>d, <3>2, <3>3
  <2>b. running_requests = << >> => InBatch = {}
    BY EmptyQueue DEF InBatch
  <2>1. TypeOK'
    <3>1. (submitted \cup waiting \cup finished_requests \cup finished \cup cancelled \cup failed)' \subseteq Requests
      BY <2>d, <2>o, <2>t DEF TypeOK
    <3> QED BY <2>d, <2>n, <2>a, <2>f, <2>t, <3>1 DEF TypeOK
  <2>2. NoDuplicates' /\ ClassesApart'
    BY <2>d, <2>s DEF IInv, PlaceInv, NoDuplicates, ClassesApart
  <2>3. PlacesApart'
    BY <2>d, <2>s DEF IInv, PlaceInv, PlacesApart
  <2>4. PlacesComplete'
    <3>1. (Queued \cup waiting \cup Online \cup OfflineRunning \cup InBatch \cup finished_requests)' = Unanswered'
      BY <2>d, <2>s, <2>a, <2>o DEF IInv, PlaceInv, PlacesComplete, PlacesApart
    <3> QED BY <2>a, <3>1 DEF PlacesComplete
  <2>5. FinishedReaped'
    <3>1. pc \notin {"drain", "reap"}
      BY <1>p
    <3> QED BY <2>d, <2>s, <3>1 DEF IInv, PlaceInv, FinishedReaped
  <2>6. BudgetsExact' /\ KindOfBatch'
    <3>1. /\ seq_budget + Len(running_requests) = MaxSeqsPerBatch
          /\ token_budget + Total(tokens, InBatch) = MaxTokensPerBatch
      BY <1>p DEF IInv, BatchInv, BudgetsExact, Building
    <3>2. Total(tokens, InBatch) <= MaxTokensPerBatch
      <4>1. token_budget \in Nat /\ Total(tokens, InBatch) \in Nat
        BY <2>t, BatchTotals
      <4> QED BY <3>1, <4>1
    <3>3. BudgetsExact'
      BY <2>d, <2>s, <3>1, <3>2 DEF BudgetsExact
    <3>4. KindOfBatch'
      BY <2>d, <2>f DEF KindOfBatch, Decoding, Prefilling
    <3> QED BY <3>3, <3>4
  <2>7. BatchHasSlots'
    BY <1>p, <2>d, <2>n, <2>s DEF IInv, BatchInv, BatchHasSlots, Building
  <2>8. OnlyRunningHold' /\ MemoryBound'
    BY <2>n, <2>s, MemoryFrame DEF IInv, BatchInv
  <2>9. OrderKept'
    <3>1. InBatch # {} => (AfterQueues' <=> AfterQueues)
      BY <1>p, <2>b, <2>f DEF AfterQueues
    <3> QED BY <2>d, <3>1, OrderFrame DEF IInv
  <2> QED BY <2>1, <2>2, <2>3, <2>4, <2>5, <2>6, <2>7, <2>8, <2>9 DEF IInv, PlaceInv, BatchInv
<1> QED BY <1>1, <1>2

\* A waiting request joins the batch, after the requests of victims have gone
\* back from the offline queue to the waiting ones.
LEMMA PrefillJoins ==
    ASSUME IInv, Prefilling, NEW r \in waiting, r \notin finished, seq_budget > 0, tokens[r] <= token_budget,
           NEW victims \in SUBSET OfflineRunning, NEW mid \in Seq(Requests),
           Range(mid) = Range(admitted) \ victims,
           \A x, y : Before(admitted, x, y) /\ x \notin victims /\ y \notin victims => Before(mid, x, y),
           running_queue' \in [BOOLEAN -> Seq(Requests)],
           \A off \in BOOLEAN :
              /\ IsInjective(running_queue'[off])
              /\ Range(running_queue'[off]) = Range(running_queue[off]) \ victims
              /\ \A i, j \in DOMAIN running_queue'[off] :
                    i < j => Before(running_queue[off], running_queue'[off][i], running_queue'[off][j]),
           waiting' = (waiting \ {r}) \cup victims,
           admitted' = Append(mid, r),
           running_requests' = Append(running_requests, r),
           seq_budget' = seq_budget - 1,
           token_budget' = token_budget - tokens[r],
           num_kv_blocks' \in [Requests -> Nat], MemoryBound',
           \A q \in Requests \ {r} : num_kv_blocks'[q] = IF q \in victims THEN 0 ELSE num_kv_blocks[q],
           num_kv_blocks'[r] > 0, num_kv_blocks'[r] * BlockSize >= tokens[r],
           UNCHANGED <<pc, last_step_prefill, fatal, submitted, request_queue, cancelled, callbacks,
                       finished_requests, tokens, finished, responses, failed>>
    PROVE  IInv'
<1>t. TypeOK /\ r \in Requests
  BY DEF IInv, PlaceInv, TypeOK
<1>p. r \notin Queued \cup Online \cup OfflineRunning \cup InBatch \cup finished_requests
  BY DEF IInv, PlaceInv, PlacesApart
<1>v. victims \cap (Queued \cup waiting \cup Online \cup InBatch \cup finished_requests) = {} /\ r \notin victims
  BY <1>p DEF IInv, PlaceInv, PlacesApart
<1>b. /\ running_requests' \in Seq(Requests) /\ Len(running_requests') = Len(running_requests) + 1
      /\ InBatch' = InBatch \cup {r} /\ IsInjective(running_requests') /\ running_requests' # << >>
  <2>1. running_requests \in Seq(Requests) /\ IsInjective(running_requests)
    BY <1>t DEF IInv, PlaceInv, NoDuplicates, TypeOK
  <2>2. /\ Append(running_requests, r) \in Seq(Requests)
        /\ Len(Append(running_requests, r)) = Len(running_requests) + 1
        /\ Range(Append(running_requests, r)) = Range(running_requests) \cup {r}
        /\ IsInjective(Append(running_requests, r))
    BY <1>p, <1>t, <2>1, AppendQueue DEF InBatch
  <2>3. Append(running_requests, r) # << >>
    BY <1>t, <2>1
  <2> QED BY <2>2, <2>3 DEF InBatch
<1>s. /\ Online' = Online /\ OfflineRunning' = OfflineRunning \ victims
      /\ Queued' = Queued /\ Unanswered' = Unanswered
  <2>1. Online' = Online \ victims /\ OfflineRunning' = OfflineRunning \ victims
    BY DEF Online, OfflineRunning
  <2>2. Queued' = Queued /\ Unanswered' = Unanswered
    BY DEF Queued, Unanswered
  <2> QED BY <1>v, <2>1, <2>2
<1>n. /\ token_budget \in Nat /\ seq_budget \in Nat /\ Len(running_requests) \in Nat /\ tokens[r] \in Nat
      /\ Total(tokens, InBatch) \in Nat /\ Total(tokens, InBatch \cup {r}) = Total(tokens, InBatch) + tokens[r]
  <2>1. /\ token_budget \in Nat /\ seq_budget \in Nat /\ Len(running_requests) \in Nat
        /\ IsFiniteSet(Requests) /\ tokens \in [Requests -> Nat] /\ InBatch \in SUBSET Requests
        /\ Total(tokens, InBatch) \in Nat
    BY <1>t, BatchTotals
  <2>2. Total(tokens, InBatch \cup {r}) = Total(tokens, InBatch) + tokens[r]
    BY <1>t, <1>p, BatchTotalGrows
  <2> QED BY <1>t, <2>1, <2>2
<1>1. TypeOK'
  <2>1. (submitted \cup waiting \cup finished_requests \cup finished \cup cancelled \cup failed)' \subseteq Requests
    <3>1. OfflineRunning \subseteq Requests /\ waiting \subseteq Requests
      BY <1>t, PlacesTyped
    <3>2. waiting' \subseteq Requests
      BY <3>1
    <3>3. submitted \cup finished_requests \cup finished \cup cancelled \cup failed \subseteq Requests
      BY <1>t DEF TypeOK
    <3> QED BY <3>2, <3>3
  <2>2. seq_budget' \in 0 .. MaxSeqsPerBatch /\ token_budget' \in 0 .. MaxTokensPerBatch
    <3>1. seq_budget \in 0 .. MaxSeqsPerBatch /\ token_budget \in 0 .. MaxTokensPerBatch
      BY <1>t DEF TypeOK
    <3>2. MaxTokensPerBatch \in Nat /\ MaxSeqsPerBatch \in Nat
      BY SchedulerAssumption
    <3>3. seq_budget - 1 \in 0 .. MaxSeqsPerBatch
      BY <3>1, <3>2
    <3> DEFINE k == tokens[r]
    <3>4. k \in Nat /\ k <= token_budget
      BY <1>n
    <3>5. token_budget - k \in 0 .. MaxTokensPerBatch
      <4> HIDE DEF k
      <4> QED BY <3>1, <3>2, <3>4
    <3> QED BY <3>3, <3>5
  <2>3. admitted' \in Seq(Requests)
    BY <1>t, AppendQueue
  <2> QED BY <1>t, <1>b, <2>1, <2>2, <2>3 DEF TypeOK
<1>2. NoDuplicates' /\ ClassesApart'
  BY <1>b, <1>s DEF IInv, PlaceInv, NoDuplicates, ClassesApart
<1>3. PlacesApart'
  BY <1>b, <1>s, <1>p, <1>v DEF IInv, PlaceInv, PlacesApart
<1>4. PlacesComplete'
  <2>1. (Queued \cup waiting \cup Online \cup OfflineRunning \cup InBatch \cup finished_requests)' = Unanswered'
    BY <1>b, <1>s DEF IInv, PlaceInv, PlacesComplete
  <2> QED BY <2>1 DEF IInv, PlaceInv, PlacesComplete
<1>5. FinishedReaped'
  <2>1. finished \cap (Queued \cup waiting \cup Online \cup OfflineRunning) = {} /\ finished \cap InBatch = {}
    BY DEF IInv, PlaceInv, FinishedReaped, Prefilling
  <2>2. (finished \cap (Queued \cup waiting \cup Online \cup OfflineRunning))' = {} /\ (finished \cap InBatch)' = {}
    BY <1>b, <1>s, <2>1
  <2> QED BY <2>2 DEF IInv, PlaceInv, FinishedReaped
<1>f. Prefilling' /\ ~Decoding' /\ Building' /\ Building /\ pc' \notin {"dispatch", "step"}
  BY DEF Prefilling, Decoding, Building
<1>6. BudgetsExact'
  <2>1. /\ seq_budget + Len(running_requests) = MaxSeqsPerBatch
        /\ token_budget + Total(tokens, InBatch) = MaxTokensPerBatch
    BY <1>f DEF IInv, BatchInv, BudgetsExact
  <2>2. seq_budget' + Len(running_requests') = MaxSeqsPerBatch
    BY <1>b, <1>n, <2>1
  <2>3. token_budget' + Total(tokens, InBatch \cup {r}) = MaxTokensPerBatch
    <3> DEFINE k == tokens[r]
               x == Total(tokens, InBatch)
    <3>1. /\ token_budget \in Nat /\ k \in Nat /\ x \in Nat /\ token_budget + x = MaxTokensPerBatch
          /\ Total(tokens, InBatch \cup {r}) = x + k /\ token_budget' = token_budget - k
      BY <1>n, <2>1
    <3> HIDE DEF k, x
    <3> QED BY <3>1
  <2> QED BY <1>f, <1>b, <2>2, <2>3 DEF BudgetsExact
<1>7. KindOfBatch' /\ BatchHasSlots'
  <2>1. KindOfBatch'
    BY <1>b, <1>f DEF IInv, BatchInv, KindOfBatch
  <2>2. \A q \in InBatch : num_kv_blocks'[q] = num_kv_blocks[q] /\ num_kv_blocks[q] * BlockSize >= tokens[q]
    <3>1. \A q \in InBatch : q \in Requests /\ q # r /\ q \notin victims
      BY <1>t, <1>p, <1>v, PlacesTyped
    <3> QED BY <1>f, <3>1 DEF IInv, BatchInv, BatchHasSlots
  <2> QED BY <1>b, <2>1, <2>2 DEF BatchHasSlots
<1>8. OnlyRunningHold'
  <2>1. \A q \in Requests : num_kv_blocks[q] > 0 <=> q \in Online \cup OfflineRunning \cup InBatch
    BY DEF IInv, BatchInv, OnlyRunningHold, Online, OfflineRunning, InBatch
  <2>2. \A q \in Requests : num_kv_blocks'[q] > 0 <=> q \in Online' \cup OfflineRunning' \cup InBatch'
    <3> SUFFICES ASSUME NEW q \in Requests
                 PROVE  num_kv_blocks'[q] > 0 <=> q \in Online' \cup OfflineRunning' \cup InBatch'
      OBVIOUS
    <3>1. CASE q = r
      BY <1>b, <3>1
    <3>2. CASE q \in victims
      <4>1. num_kv_blocks'[q] = 0
        BY <1>v, <3>2
      <4>2. q \notin Online' \cup OfflineRunning' \cup InBatch'
        BY <1>b, <1>s, <1>v, <3>2
      <4> QED BY <4>1, <4>2
    <3>3. CASE q # r /\ q \notin victims
      <4>1. num_kv_blocks'[q] = num_kv_blocks[q]
        BY <3>3
      <4>2. q \in Online' \cup OfflineRunning' \cup InBatch' <=> q \in Online \cup OfflineRunning \cup InBatch
        BY <1>b, <1>s, <3>3
      <4> QED BY <2>1, <4>1, <4>2
    <3> QED BY <3>1, <3>2, <3>3
  <2> QED BY <2>2 DEF OnlyRunningHold, Online, OfflineRunning, InBatch
<1>9. OrderKept'
  <2>0. Tracked /\ RunningQueueOrdered /\ BatchOrdered /\ BatchAfterQueues
    BY DEF IInv, OrderKept
  <2>a. /\ Range(admitted') = Range(mid) \cup {r}
        /\ \A x, y : Before(mid, x, y) => Before(admitted', x, y)
        /\ \A x \in Range(mid) : Before(admitted', x, r)
    BY <1>t, AppendQueue, BeforeAppend
  <2>k. \A x, y : Before(admitted, x, y) /\ x \notin victims /\ y \notin victims => Before(admitted', x, y)
    BY <2>a
  <2>m. Online \cup (OfflineRunning \ victims) \cup InBatch \subseteq Range(mid)
    BY <1>v, <2>0 DEF Tracked
  <2>1. Tracked'
    BY <1>b, <1>s, <2>a, <2>m DEF Tracked
  <2>2. RunningQueueOrdered'
    <3> DEFINE rq == running_queue'
    <3> SUFFICES ASSUME NEW off \in BOOLEAN, NEW i \in DOMAIN rq[off], NEW j \in DOMAIN rq[off], i < j
                 PROVE  Before(admitted', rq[off][i], rq[off][j])
      BY DEF RunningQueueOrdered
    <3>1. Before(running_queue[off], rq[off][i], rq[off][j]) /\ rq[off][i] \notin victims /\ rq[off][j] \notin victims
      BY DEF Range
    <3>2. Before(admitted, rq[off][i], rq[off][j])
      <4> HIDE DEF rq
      <4> QED BY <2>0, <3>1 DEF RunningQueueOrdered, Before
    <3> QED BY <2>k, <3>1, <3>2
  <2>3. BatchOrdered'
    <3> DEFINE rr == running_requests'
               n == Len(running_requests)
    <3>1. /\ n \in Nat /\ DOMAIN running_requests = 1 .. n /\ DOMAIN rr = 1 .. n + 1 /\ rr[n + 1] = r
          /\ \A i \in 1 .. n : rr[i] = running_requests[i]
      <4>1. running_requests \in Seq(Requests)
        BY <1>t DEF TypeOK
      <4> QED BY <1>t, <4>1
    <3> SUFFICES ASSUME NEW off \in BOOLEAN, NEW i \in 1 .. n + 1, NEW j \in 1 .. n + 1,
                        i < j, rr[i] \in Class(off), rr[j] \in Class(off)
                 PROVE  Before(admitted', rr[i], rr[j])
      BY <3>1 DEF BatchOrdered
    <3> HIDE DEF rr, n
    <3>2. i \in 1 .. n /\ (j \in 1 .. n \/ j = n + 1)
      BY <3>1
    <3>3. rr[i] \in InBatch /\ rr[i] \notin victims
      <4>1. running_requests[i] \in InBatch
        BY <3>1, <3>2 DEF InBatch, Range
      <4>2. rr[i] = running_requests[i]
        BY <3>1, <3>2
      <4> QED BY <1>v, <4>1, <4>2
    <3>4. CASE j = n + 1
      BY <2>a, <2>m, <3>1, <3>3, <3>4
    <3>5. CASE j \in 1 .. n
      <4>1. Before(admitted, rr[i], rr[j])
        BY <2>0, <3>1, <3>2, <3>5 DEF BatchOrdered
      <4>2. rr[j] \notin victims
        BY <1>v, <3>1, <3>5 DEF InBatch, Range
      <4> QED BY <2>k, <3>3, <4>1, <4>2
    <3> QED BY <3>2, <3>4, <3>5
  <2>4. BatchAfterQueues'
    <3> SUFFICES ASSUME NEW off \in BOOLEAN, NEW a \in Range(running_queue'[off]), NEW b \in InBatch',
                        b \in Class(off)
                 PROVE  Before(admitted', a, b)
      BY DEF BatchAfterQueues
    <3>1. a \in Range(running_queue[off]) /\ a \notin victims /\ a \in Range(mid)
      <4>1. a \in Range(running_queue[off]) /\ a \notin victims
        OBVIOUS
      <4> QED BY <2>m, <4>1 DEF Online, OfflineRunning
    <3>2. CASE b = r
      BY <2>a, <3>1, <3>2
    <3>3. CASE b \in InBatch
      <4>1. Before(admitted, a, b)
        BY <2>0, <3>1, <3>3 DEF BatchAfterQueues, AfterQueues
      <4> QED BY <1>v, <2>k, <3>1, <3>3, <4>1
    <3> QED BY <1>b, <3>2, <3>3
  <2>5. BatchBeforeQueues'
    BY <1>f DEF BatchBeforeQueues, AfterQueues
  <2> QED BY <2>1, <2>2, <2>3, <2>4, <2>5 DEF OrderKept
<1> QED BY <1>1, <1>2, <1>3, <1>4, <1>5, <1>6, <1>7, <1>8, <1>9 DEF IInv, PlaceInv, BatchInv

\* What the prefill loop knows of the request it tries.
LEMMA PrefillTried ==
    ASSUME IInv, NEW off \in BOOLEAN, PrefillTries(off)
    PROVE  /\ Prefilling /\ Top(Waiting(off)) \in waiting /\ Top(Waiting(off)) \in Requests
           /\ Top(Waiting(off)) \notin finished /\ Top(Waiting(off)) \in Class(off)
           /\ seq_budget > 0 /\ tokens[Top(Waiting(off))] <= token_budget
           /\ num_kv_blocks[Top(Waiting(off))] = 0
<1>1. Waiting(off) # {} /\ Prefilling /\ seq_budget > 0
  BY DEF PrefillTries, PrefillTop, PrefillLoops, PrefillPhase, Prefilling
<1>2. Top(Waiting(off)) \in waiting /\ Top(Waiting(off)) \in Requests /\ Top(Waiting(off)) \in Class(off)
  BY <1>1, WaitingTop DEF IInv, PlaceInv
<1>3. Top(Waiting(off)) \notin finished /\ tokens[Top(Waiting(off))] <= token_budget
  BY DEF PrefillTries, PrefillTop
<1>4. num_kv_blocks[Top(Waiting(off))] = 0
  BY <1>2, WaitingHoldsNothing
<1> QED BY <1>1, <1>2, <1>3, <1>4

\* One more holder.
LEMMA HolderAdded ==
    ASSUME TypeOK, NEW r, Cardinality(Holders(num_kv_blocks)) <= NumEmbeddingIds,
           r \in Holders(num_kv_blocks) \/ Cardinality(Holders(num_kv_blocks)) < NumEmbeddingIds
    PROVE  Cardinality(Holders(num_kv_blocks) \cup {r}) <= NumEmbeddingIds
<1> DEFINE h == Holders(num_kv_blocks)
<1>1. IsFiniteSet(h)
  <2>1. h \in SUBSET Requests /\ IsFiniteSet(Requests)
    BY SchedulerAssumption DEF Holders
  <2> HIDE DEF h
  <2> QED BY <2>1, FS_Subset
<1> HIDE DEF h
<1>2. Cardinality(h) \in Nat
  BY <1>1, FS_CardinalityType
<1>3. Cardinality(h \cup {r}) = IF r \in h THEN Cardinality(h) ELSE Cardinality(h) + 1
  BY <1>1, FS_AddElement
<1>4. NumEmbeddingIds \in Nat
  BY SchedulerAssumption DEF NumEmbeddingIds
<1> QED BY <1>2, <1>3, <1>4 DEF h

\* A prefill for which there is room.
LEMMA PrefillAdmitKeepsIInv ==
    ASSUME IInv, NEW off \in BOOLEAN, PrefillAdmit(off)
    PROVE  IInv'
<1> DEFINE r == Top(Waiting(off))
<1>d. /\ PrefillTries(off) /\ CanAllocate(num_kv_blocks, r)
      /\ num_kv_blocks' = Allocated(num_kv_blocks, r)
      /\ running_requests' = Append(running_requests, r)
      /\ seq_budget' = seq_budget - 1
      /\ token_budget' = token_budget - tokens[r]
      /\ waiting' = waiting \ {r}
      /\ admitted' = Append(admitted, r)
      /\ UNCHANGED <<pc, last_step_prefill, fatal, submitted, request_queue, cancelled, callbacks,
                     running_queue, finished_requests, tokens, finished, responses, failed>>
  BY DEF PrefillAdmit, Admit, clientVars
<1>r. /\ Prefilling /\ r \in waiting /\ r \in Requests /\ r \notin finished /\ seq_budget > 0
      /\ tokens[r] <= token_budget /\ num_kv_blocks[r] = 0
  BY <1>d, PrefillTried
<1>t. TypeOK /\ MemoryBound
  BY DEF IInv, PlaceInv, BatchInv
<1> HIDE DEF r
<1>n. num_kv_blocks \in [Requests -> Nat] /\ admitted \in Seq(Requests) /\ running_queue \in [BOOLEAN -> Seq(Requests)]
  BY <1>t DEF TypeOK
<1>c. NumBlocksFor(tokens[r]) - num_kv_blocks[r] <= NumFree(num_kv_blocks)
  BY <1>d DEF CanAllocate
<1>h. Cardinality(Holders(num_kv_blocks) \cup {r}) <= NumEmbeddingIds
  <2>1. Cardinality(Holders(num_kv_blocks)) < NumEmbeddingIds
    BY <1>d, <1>r DEF CanAllocate
  <2> QED BY <1>t, <2>1, HolderAdded DEF MemoryBound
<1>m. /\ num_kv_blocks' \in [Requests -> Nat] /\ MemoryBound'
      /\ \A q \in Requests \ {r} : num_kv_blocks'[q] = num_kv_blocks[q]
      /\ num_kv_blocks'[r] > 0 /\ num_kv_blocks'[r] * BlockSize >= tokens[r]
  <2> DEFINE g == Allocated(num_kv_blocks, r)
  <2>1. /\ g \in [Requests -> Nat]
        /\ \A q \in Requests \ {r} : g[q] = num_kv_blocks[q]
        /\ g[r] > 0 /\ g[r] * BlockSize >= tokens[r]
        /\ NumUsed(g) <= NumBlocks /\ Cardinality(Holders(g)) <= NumEmbeddingIds
    BY <1>t, <1>r, <1>n, <1>c, <1>h, AllocatedMemory DEF MemoryBound
  <2>2. num_kv_blocks' = g
    BY <1>d
  <2> HIDE DEF g
  <2> QED BY <2>1, <2>2 DEF MemoryBound, NumEmbeddingIds
<1>q. \A o \in BOOLEAN :
         /\ IsInjective(running_queue'[o])
         /\ Range(running_queue'[o]) = Range(running_queue[o]) \ {}
         /\ \A i, j \in DOMAIN running_queue'[o] :
               i < j => Before(running_queue[o], running_queue'[o][i], running_queue'[o][j])
  <2>1. \A o \in BOOLEAN : IsInjective(running_queue[o])
    BY DEF IInv, PlaceInv, NoDuplicates
  <2> QED BY <1>d, <2>1 DEF Before
<1>v. /\ {} \in SUBSET OfflineRunning /\ Range(admitted) = Range(admitted) \ {}
      /\ waiting' = (waiting \ {r}) \cup {}
      /\ \A q \in Requests \ {r} : num_kv_blocks'[q] = IF q \in {} THEN 0 ELSE num_kv_blocks[q]
      /\ \A x, y : Before(admitted, x, y) /\ x \notin {} /\ y \notin {} => Before(admitted, x, y)
  BY <1>d, <1>m
<1>w. running_queue' \in [BOOLEAN -> Seq(Requests)]
  BY <1>d, <1>n
<1> QED BY <1>d, <1>r, <1>n, <1>m, <1>q, <1>v, <1>w, PrefillJoins

\* A prefill for which offline requests make room: after their preemption the
\* allocation succeeds.
LEMMA PrefillPreemptKeepsIInv ==
    ASSUME IInv, NEW off \in BOOLEAN, PrefillPreempt(off)
    PROVE  IInv'
<1> DEFINE r == Top(Waiting(off))
           victims == ToEvict(r)
           held == Deallocated(num_kv_blocks, victims)
<1>d. /\ PrefillTries(off) /\ victims # {}
      /\ num_kv_blocks' = Allocated(held, r)
      /\ running_requests' = Append(running_requests, r)
      /\ seq_budget' = seq_budget - 1
      /\ token_budget' = token_budget - tokens[r]
      /\ running_queue' = [running_queue EXCEPT ![TRUE] = Without(running_queue[TRUE], victims)]
      /\ waiting' = (waiting \ {r}) \cup victims
      /\ admitted' = Append(Without(admitted, victims), r)
      /\ UNCHANGED <<pc, last_step_prefill, fatal, submitted, request_queue, cancelled, callbacks,
                     finished_requests, tokens, finished, responses, failed>>
  BY DEF PrefillPreempt, PrefillEvicts, Admit, clientVars
<1>r. /\ Prefilling /\ r \in waiting /\ r \in Requests /\ r \notin finished /\ seq_budget > 0
      /\ tokens[r] <= token_budget /\ num_kv_blocks[r] = 0
  BY <1>d, PrefillTried
<1>t. TypeOK /\ MemoryBound
  BY DEF IInv, PlaceInv, BatchInv
<1>n. num_kv_blocks \in [Requests -> Nat] /\ admitted \in Seq(Requests) /\ running_queue \in [BOOLEAN -> Seq(Requests)]
  BY <1>t DEF TypeOK
<1>e. /\ victims \subseteq OfflineRunning /\ NumBlocksFor(tokens[r]) <= Total(num_kv_blocks, victims)
      /\ victims \in SUBSET Requests
  <2>1. /\ victims \subseteq Range(running_queue[TRUE])
        /\ NumBlocksFor(tokens[r]) <= Total(num_kv_blocks, victims)
    BY <1>d, <1>n, <1>r, EvictedHoldEnough
  <2>2. OfflineRunning \subseteq Requests
    BY <1>t, PlacesTyped
  <2> QED BY <2>1, <2>2 DEF OfflineRunning
<1> HIDE DEF victims, r
<1>m. /\ held \in [Requests -> Nat]
      /\ \A q \in Requests : held[q] = IF q \in victims THEN 0 ELSE num_kv_blocks[q]
      /\ NumUsed(num_kv_blocks) \in Nat /\ NumUsed(held) = NumUsed(num_kv_blocks) - Total(num_kv_blocks, victims)
      /\ Total(num_kv_blocks, victims) \in Nat
      /\ Holders(held) = Holders(num_kv_blocks) \ victims
      /\ IsFiniteSet(Holders(num_kv_blocks))
  BY <1>e, <1>n, DeallocatedMemory, ZenonT(40)
<1>x. r \notin victims /\ held[r] = 0
  BY <1>e, <1>m, <1>r DEF IInv, PlaceInv, PlacesApart
<1>b. NumBlocksFor(tokens[r]) \in Nat
  <2>1. tokens[r] \in Nat \ {0}
    <3>1. tokens[r] \in Nat /\ Prompt[r] \in Nat \ {0} /\ tokens[r] \in Prompt[r] .. Prompt[r] + MaxGen[r] /\ MaxGen[r] \in Nat
      BY <1>r, <1>t, SchedulerAssumption DEF TypeOK
    <3> QED BY <3>1
  <2> QED BY <2>1, BlocksCoverTokens
<1>c. NumUsed(held) <= NumBlocks /\ NumBlocksFor(tokens[r]) - held[r] <= NumFree(held)
  <2> DEFINE need == NumBlocksFor(tokens[r])
             u == NumUsed(num_kv_blocks)
             w == Total(num_kv_blocks, victims)
             v == NumUsed(held)
  <2>1. /\ need \in Nat /\ need <= w /\ u \in Nat /\ w \in Nat /\ v = u - w /\ u <= NumBlocks
        /\ NumFree(held) = NumBlocks - v /\ NumBlocks \in Nat
    BY <1>b, <1>e, <1>m, <1>t, SchedulerAssumption DEF MemoryBound, NumFree
  <2>2. v <= NumBlocks /\ need - 0 <= NumFree(held)
    <3> HIDE DEF need, u, w, v, held
    <3> QED BY <2>1
  <2> QED BY <1>x, <2>2
<1> HIDE DEF held
<1>h. Cardinality(Holders(held) \cup {r}) <= NumEmbeddingIds
  <2> DEFINE h == Holders(num_kv_blocks)
             k == Holders(held)
  <2>1. PICK x \in victims : TRUE
    BY <1>d
  <2>2. x \in h
    <3>1. \A q \in Requests : num_kv_blocks[q] > 0 <=> q \in Online \cup OfflineRunning \cup InBatch
      BY DEF IInv, BatchInv, OnlyRunningHold, Online, OfflineRunning, InBatch
    <3> QED BY <1>e, <2>1, <3>1 DEF Holders
  <2>3. IsFiniteSet(h) /\ k = h \ victims /\ Cardinality(h) <= NumEmbeddingIds
    BY <1>m, <1>t DEF MemoryBound
  <2> HIDE DEF h, k
  <2>4. k \in SUBSET h /\ k # h
    BY <2>1, <2>2, <2>3
  <2>5. IsFiniteSet(k) /\ Cardinality(k) <= Cardinality(h) /\ Cardinality(h) # Cardinality(k)
    BY <2>3, <2>4, FS_Subset
  <2>6. Cardinality(k) \in Nat /\ Cardinality(h) \in Nat /\ NumEmbeddingIds \in Nat
    BY <2>3, <2>5, FS_CardinalityType, SchedulerAssumption DEF NumEmbeddingIds
  <2>7. Cardinality(k \cup {r}) = IF r \in k THEN Cardinality(k) ELSE Cardinality(k) + 1
    BY <2>5, FS_AddElement
  <2> QED BY <2>3, <2>5, <2>6, <2>7 DEF k
<1>a. /\ num_kv_blocks' \in [Requests -> Nat] /\ MemoryBound'
      /\ \A q \in Requests \ {r} : num_kv_blocks'[q] = IF q \in victims THEN 0 ELSE num_kv_blocks[q]
      /\ num_kv_blocks'[r] > 0 /\ num_kv_blocks'[r] * BlockSize >= tokens[r]
  <2> DEFINE g == Allocated(held, r)
  <2>0. held \in [Requests -> Nat]
    BY <1>m
  <2>1. /\ g \in [Requests -> Nat]
        /\ \A q \in Requests \ {r} : g[q] = held[q]
        /\ g[r] > 0 /\ g[r] * BlockSize >= tokens[r]
        /\ NumUsed(g) <= NumBlocks /\ Cardinality(Holders(g)) <= NumEmbeddingIds
    BY <1>t, <1>r, <1>c, <1>h, <2>0, AllocatedMemory
  <2>2. num_kv_blocks' = g
    BY <1>d
  <2> HIDE DEF g
  <2> QED BY <1>m, <2>1, <2>2 DEF MemoryBound, NumEmbeddingIds
<1> DEFINE mid == Without(admitted, victims)
<1>i. /\ mid \in Seq(Requests) /\ Range(mid) = Range(admitted) \ victims
      /\ \A x, y : Before(admitted, x, y) /\ x \notin victims /\ y \notin victims => Before(mid, x, y)
  BY <1>n, WithoutQueue
<1>w. /\ running_queue' \in [BOOLEAN -> Seq(Requests)]
      /\ \A o \in BOOLEAN :
         /\ IsInjective(running_queue'[o])
         /\ Range(running_queue'[o]) = Range(running_queue[o]) \ victims
         /\ \A i, j \in DOMAIN running_queue'[o] :
               i < j => Before(running_queue[o], running_queue'[o][i], running_queue'[o][j])
  <2> DEFINE q1 == Without(running_queue[TRUE], victims)
  <2>1. running_queue[TRUE] \in Seq(Requests) /\ IsInjective(running_queue[TRUE]) /\ IsInjective(running_queue[FALSE])
    BY <1>n DEF IInv, PlaceInv, NoDuplicates
  <2>2. /\ q1 \in Seq(Requests) /\ IsInjective(q1) /\ Range(q1) = Range(running_queue[TRUE]) \ victims
        /\ \A i, j \in DOMAIN q1 : i < j => Before(running_queue[TRUE], q1[i], q1[j])
    BY <2>1, WithoutQueue
  <2> HIDE DEF q1
  <2>3. running_queue' = [running_queue EXCEPT ![TRUE] = q1]
    BY <1>d DEF q1
  <2>4. running_queue'[TRUE] = q1 /\ running_queue'[FALSE] = running_queue[FALSE]
    BY <1>n, <2>3
  <2>5. Range(running_queue[FALSE]) = Range(running_queue[FALSE]) \ victims
    BY <1>e DEF IInv, PlaceInv, PlacesApart, Online
  <2>6. \A i, j \in DOMAIN running_queue[FALSE] :
           i < j => Before(running_queue[FALSE], running_queue[FALSE][i], running_queue[FALSE][j])
    BY DEF Before
  <2>7. running_queue' \in [BOOLEAN -> Seq(Requests)]
    BY <1>n, <2>2, <2>3
  <2>8. ASSUME NEW o \in BOOLEAN
        PROVE  /\ IsInjective(running_queue'[o])
               /\ Range(running_queue'[o]) = Range(running_queue[o]) \ victims
               /\ \A i, j \in DOMAIN running_queue'[o] :
                     i < j => Before(running_queue[o], running_queue'[o][i], running_queue'[o][j])
    <3>1. CASE o = TRUE
      BY <2>2, <2>4, <3>1
    <3>2. CASE o = FALSE
      BY <2>1, <2>4, <2>5, <2>6, <3>2
    <3> QED BY <3>1, <3>2
  <2> QED BY <2>7, <2>8
<1>z. admitted' = Append(mid, r) /\ victims \in SUBSET OfflineRunning
  BY <1>d, <1>e
<1> HIDE DEF mid
<1> QED BY <1>d, <1>r, <1>a, <1>i, <1>w, <1>z, PrefillJoins, ZenonT(40)

\* A request has one class.
LEMMA OneClass ==
    ASSUME NEW x, NEW a \in BOOLEAN, NEW b \in BOOLEAN, x \in Class(a), x \in Class(b)
    PROVE  a = b
<1>1. ~(x \in Class(TRUE) /\ x \in Class(FALSE))
  BY ClassSplit
<1>2. CASE a = TRUE /\ b = FALSE
  BY <1>1, <1>2
<1>3. CASE a = FALSE /\ b = TRUE
  BY <1>1, <1>3
<1>4. CASE a = TRUE /\ b = TRUE
  BY <1>4
<1>5. CASE a = FALSE /\ b = FALSE
  BY <1>5
<1>6. (a = TRUE \/ a = FALSE) /\ (b = TRUE \/ b = FALSE)
  OBVIOUS
<1> QED BY <1>2, <1>3, <1>4, <1>5, <1>6

\* The requests of a running queue are in its class, and in no other place.
LEMMA RunningQueueApart ==
    ASSUME IInv, NEW off \in BOOLEAN, NEW x \in Range(running_queue[off])
    PROVE  /\ x \in Online \cup OfflineRunning /\ x \in Requests /\ x \in Class(off)
           /\ x \notin Queued \cup waiting \cup InBatch \cup finished_requests /\ x \notin finished
           /\ \A o \in BOOLEAN : o # off => x \notin Range(running_queue[o])
<1>t. /\ Online \subseteq Requests /\ OfflineRunning \subseteq Requests
      /\ Online \subseteq Class(FALSE) /\ OfflineRunning \subseteq Class(TRUE)
  BY PlacesTyped, ClassSplit DEF IInv, PlaceInv, ClassesApart
<1>1. x \in Online \cup OfflineRunning
  <2>1. CASE off = TRUE
    BY <2>1 DEF OfflineRunning
  <2>2. CASE off = FALSE
    BY <2>2 DEF Online
  <2> QED BY <2>1, <2>2
<1>2. x \in Class(off)
  <2>1. CASE off = TRUE
    BY <1>t, <2>1 DEF OfflineRunning
  <2>2. CASE off = FALSE
    BY <1>t, <2>2 DEF Online
  <2> QED BY <2>1, <2>2
<1>3. ASSUME NEW o \in BOOLEAN, o # off, x \in Range(running_queue[o]) PROVE FALSE
  <2>1. x \in Class(o)
    <3>1. CASE o = TRUE
      BY <1>t, <1>3, <3>1 DEF OfflineRunning
    <3>2. CASE o = FALSE
      BY <1>t, <1>3, <3>2 DEF Online
    <3> QED BY <3>1, <3>2
  <2> QED BY <1>2, <1>3, <2>1, OneClass
<1>4. x \notin Queued \cup waiting \cup InBatch \cup finished_requests /\ x \notin finished
  BY <1>1 DEF IInv, PlaceInv, PlacesApart, FinishedReaped
<1> QED BY <1>1, <1>2, <1>3, <1>4, <1>t

\* Two running queues of which one loses a request.
LEMMA QueueLoses ==
    ASSUME NEW q \in [BOOLEAN -> Seq(Requests)], NEW off \in BOOLEAN, NEW p \in Seq(Requests), NEW r,
           Range(p) = Range(q[off]) \ {r}, \A o \in BOOLEAN : o # off => r \notin Range(q[o])
    PROVE  /\ [q EXCEPT ![off] = p] \in [BOOLEAN -> Seq(Requests)]
           /\ [q EXCEPT ![off] = p][off] = p
           /\ \A o \in BOOLEAN : o # off => [q EXCEPT ![off] = p][o] = q[o]
           /\ \A o \in BOOLEAN : Range([q EXCEPT ![off] = p][o]) = Range(q[o]) \ {r}
<1> DEFINE n == [q EXCEPT ![off] = p]
<1>1. n \in [BOOLEAN -> Seq(Requests)] /\ n[off] = p /\ \A o \in BOOLEAN : o # off => n[o] = q[o]
  OBVIOUS
<1> HIDE DEF n
<1>2. ASSUME NEW o \in BOOLEAN PROVE Range(n[o]) = Range(q[o]) \ {r}
  <2>1. CASE o = off
    BY <1>1, <2>1
  <2>2. CASE o # off
    <3>1. n[o] = q[o] /\ r \notin Range(q[o])
      BY <1>1, <2>2
    <3> QED BY <3>1
  <2> QED BY <2>1, <2>2
<1> QED BY <1>1, <1>2 DEF n

\* What the decode loop knows of the front of its queue.
LEMMA DecodeLooped ==
    ASSUME IInv, NEW off \in BOOLEAN, DecodeLoops(off)
    PROVE  /\ Decoding /\ ~Prefilling /\ ~last_step_prefill /\ running_queue[off] # << >>
           /\ Head(running_queue[off]) \in Range(running_queue[off]) /\ Head(running_queue[off]) \in Requests
           /\ Head(running_queue[off]) \in Class(off) /\ Range(running_queue[off]) \subseteq Class(off)
           /\ token_budget > 0 /\ seq_budget > 0 /\ num_kv_blocks[Head(running_queue[off])] > 0
<1>1. Decoding /\ ~Prefilling /\ running_queue[off] # << >> /\ token_budget > 0 /\ seq_budget > 0
  BY DEF DecodeLoops, DecodePhase, Decoding, Prefilling
<1>2. ~last_step_prefill
  BY <1>1 DEF IInv, BatchInv, KindOfBatch
<1>3. running_queue[off] \in Seq(Requests)
  BY DEF IInv, PlaceInv, TypeOK
<1>4. Head(running_queue[off]) \in Range(running_queue[off]) /\ Head(running_queue[off]) \in Requests
  BY <1>1, <1>3, TakeHead
<1>5. Range(running_queue[off]) \subseteq Class(off)
  <2>1. Online \subseteq Requests \ Offline /\ OfflineRunning \subseteq Offline
    BY PlacesTyped DEF IInv, PlaceInv, ClassesApart
  <2> QED BY <2>1, ClassSplit DEF Online, OfflineRunning
<1>6. num_kv_blocks[Head(running_queue[off])] > 0
  <2>1. Head(running_queue[off]) \in Online \cup OfflineRunning
    BY <1>4 DEF Online, OfflineRunning
  <2> QED BY <1>4, <2>1 DEF IInv, BatchInv, OnlyRunningHold, Online, OfflineRunning
<1> QED BY <1>1, <1>2, <1>4, <1>5, <1>6

\* The front of a running queue joins the batch.
LEMMA DecodeScheduleKeepsIInv ==
    ASSUME IInv, NEW off \in BOOLEAN, DecodeSchedule(off)
    PROVE  IInv'
<1> DEFINE r == Head(running_queue[off])
<1>d. /\ DecodeLoops(off) /\ CanAllocate(num_kv_blocks, r)
      /\ num_kv_blocks' = Allocated(num_kv_blocks, r)
      /\ running_queue' = [running_queue EXCEPT ![off] = Tail(running_queue[off])]
      /\ running_requests' = Append(running_requests, r)
      /\ seq_budget' = seq_budget - 1
      /\ token_budget' = token_budget - 1
      /\ UNCHANGED <<pc, last_step_prefill, fatal, submitted, request_queue, cancelled, callbacks, waiting,
                     finished_requests, tokens, finished, responses, failed, admitted>>
  BY DEF DecodeSchedule, clientVars
<1>r. /\ Decoding /\ ~Prefilling /\ ~last_step_prefill /\ running_queue[off] # << >>
      /\ r \in Range(running_queue[off]) /\ r \in Requests
      /\ r \in Class(off) /\ Range(running_queue[off]) \subseteq Class(off)
      /\ token_budget > 0 /\ seq_budget > 0 /\ num_kv_blocks[r] > 0
  BY <1>d, DecodeLooped
<1>t. TypeOK /\ MemoryBound
  BY DEF IInv, PlaceInv, BatchInv
<1>n. num_kv_blocks \in [Requests -> Nat] /\ admitted \in Seq(Requests) /\ running_queue \in [BOOLEAN -> Seq(Requests)]
  BY <1>t DEF TypeOK
<1>q. /\ Tail(running_queue[off]) \in Seq(Requests) /\ IsInjective(Tail(running_queue[off]))
      /\ Range(Tail(running_queue[off])) = Range(running_queue[off]) \ {r}
      /\ \A i, j \in DOMAIN Tail(running_queue[off]) :
            i < j => Before(running_queue[off], Tail(running_queue[off])[i], Tail(running_queue[off])[j])
      /\ \A x \in Range(Tail(running_queue[off])) : Before(running_queue[off], r, x)
  <2>1. running_queue[off] \in Seq(Requests) /\ IsInjective(running_queue[off])
    BY <1>n DEF IInv, PlaceInv, NoDuplicates
  <2> QED BY <1>r, <2>1, TakeHead, TailOrdered
<1>w. /\ running_queue' \in [BOOLEAN -> Seq(Requests)]
      /\ running_queue'[off] = Tail(running_queue[off])
      /\ \A o \in BOOLEAN \ {off} : running_queue'[o] = running_queue[o]
  BY <1>d, <1>n, <1>q
<1> HIDE DEF r
<1>p. /\ r \notin Queued \cup waiting \cup InBatch \cup finished_requests /\ r \notin finished
      /\ r \in Online \cup OfflineRunning
      /\ \A o \in BOOLEAN : o # off => r \notin Range(running_queue[o])
  BY <1>r, RunningQueueApart
<1>s. /\ Online' = Online \ {r} /\ OfflineRunning' = OfflineRunning \ {r}
      /\ Queued' = Queued /\ Unanswered' = Unanswered
  <2>1. \A o \in BOOLEAN : Range(running_queue'[o]) = Range(running_queue[o]) \ {r}
    <3> DEFINE p == Tail(running_queue[off])
    <3>1. p \in Seq(Requests) /\ Range(p) = Range(running_queue[off]) \ {r}
          /\ running_queue' = [running_queue EXCEPT ![off] = p]
      BY <1>d, <1>q
    <3> HIDE DEF p
    <3> QED BY <1>n, <1>p, <3>1, QueueLoses
  <2> QED BY <1>d, <2>1 DEF Online, OfflineRunning, Queued, Unanswered
<1>b. /\ running_requests' \in Seq(Requests) /\ Len(running_requests') = Len(running_requests) + 1
      /\ InBatch' = InBatch \cup {r} /\ IsInjective(running_requests')
  <2>1. running_requests \in Seq(Requests) /\ IsInjective(running_requests)
    BY <1>t DEF IInv, PlaceInv, NoDuplicates, TypeOK
  <2> QED BY <1>d, <1>p, <1>r, <2>1, AppendQueue DEF InBatch
<1>m. /\ num_kv_blocks' \in [Requests -> Nat] /\ MemoryBound'
      /\ \A q \in Requests \ {r} : num_kv_blocks'[q] = num_kv_blocks[q]
      /\ num_kv_blocks'[r] > 0 /\ num_kv_blocks'[r] * BlockSize >= tokens[r]
  <2> DEFINE g == Allocated(num_kv_blocks, r)
  <2>h. Cardinality(Holders(num_kv_blocks) \cup {r}) <= NumEmbeddingIds
    <3>1. r \in Holders(num_kv_blocks)
      BY <1>r DEF Holders
    <3> QED BY <1>t, <3>1, HolderAdded DEF MemoryBound
  <2>c. NumBlocksFor(tokens[r]) - num_kv_blocks[r] <= NumFree(num_kv_blocks)
    BY <1>d DEF CanAllocate
  <2>1. /\ g \in [Requests -> Nat]
        /\ \A q \in Requests \ {r} : g[q] = num_kv_blocks[q]
        /\ g[r] > 0 /\ g[r] * BlockSize >= tokens[r]
        /\ NumUsed(g) <= NumBlocks /\ Cardinality(Holders(g)) <= NumEmbeddingIds
    BY <1>t, <1>r, <1>n, <2>c, <2>h, AllocatedMemory DEF MemoryBound
  <2>2. num_kv_blocks' = g
    BY <1>d
  <2> HIDE DEF g
  <2> QED BY <2>1, <2>2 DEF MemoryBound, NumEmbeddingIds
<1>1. TypeOK'
  <2>1. seq_budget' \in 0 .. MaxSeqsPerBatch /\ token_budget' \in 0 .. MaxTokensPerBatch
    <3>1. seq_budget \in 0 .. MaxSeqsPerBatch /\ token_budget \in 0 .. MaxTokensPerBatch
      BY <1>t DEF TypeOK
    <3>2. MaxTokensPerBatch \in Nat /\ MaxSeqsPerBatch \in Nat
      BY SchedulerAssumption
    <3> QED BY <1>d, <1>r, <3>1, <3>2
  <2> QED BY <1>d, <1>t, <1>b, <1>w, <1>m, <2>1 DEF TypeOK
<1>2. NoDuplicates'
  <2>1. \A o \in BOOLEAN : IsInjective(running_queue'[o])
    BY <1>q, <1>w DEF IInv, PlaceInv, NoDuplicates
  <2> QED BY <1>d, <1>b, <2>1 DEF IInv, PlaceInv, NoDuplicates
<1>3. PlacesApart' /\ ClassesApart'
  BY <1>d, <1>b, <1>s, <1>p DEF IInv, PlaceInv, PlacesApart, ClassesApart
<1>4. PlacesComplete'
  <2>1. (Queued \cup waiting \cup Online \cup OfflineRunning \cup InBatch \cup finished_requests)' = Unanswered'
    BY <1>d, <1>b, <1>s, <1>p DEF IInv, PlaceInv, PlacesComplete
  <2> QED BY <1>d, <2>1 DEF IInv, PlaceInv, PlacesComplete
<1>5. FinishedReaped'
  BY <1>d, <1>b, <1>s, <1>p DEF IInv, PlaceInv, FinishedReaped
<1>f. ~Prefilling' /\ Decoding' /\ Building' /\ Building /\ pc' \notin {"dispatch", "step"} /\ ~last_step_prefill'
  BY <1>d, <1>r DEF Prefilling, Decoding, Building
<1>6. BudgetsExact' /\ KindOfBatch'
  <2>1. seq_budget + Len(running_requests) = MaxSeqsPerBatch
    BY <1>f DEF IInv, BatchInv, BudgetsExact
  <2>2. seq_budget' + Len(running_requests') = MaxSeqsPerBatch
    <3>1. seq_budget \in Nat /\ Len(running_requests) \in Nat
      BY <1>t, BatchTotals
    <3> QED BY <1>d, <1>b, <2>1, <3>1
  <2>3. BudgetsExact'
    BY <1>f, <2>2 DEF BudgetsExact
  <2>4. KindOfBatch'
    BY <1>f DEF KindOfBatch
  <2> QED BY <2>3, <2>4
<1>7. BatchHasSlots'
  <2>1. \A q \in InBatch : num_kv_blocks'[q] = num_kv_blocks[q] /\ num_kv_blocks[q] * BlockSize >= tokens[q]
    <3>1. \A q \in InBatch : q \in Requests /\ q # r
      BY <1>t, <1>p, PlacesTyped
    <3> QED BY <1>f, <1>m, <3>1 DEF IInv, BatchInv, BatchHasSlots
  <2> QED BY <1>d, <1>b, <1>m, <2>1 DEF BatchHasSlots
<1>8. OnlyRunningHold'
  <2>1. \A q \in Requests : num_kv_blocks[q] > 0 <=> q \in Online \cup OfflineRunning \cup InBatch
    BY DEF IInv, BatchInv, OnlyRunningHold, Online, OfflineRunning, InBatch
  <2>2. \A q \in Requests : num_kv_blocks'[q] > 0 <=> num_kv_blocks[q] > 0
    BY <1>m, <1>r
  <2>3. Online' \cup OfflineRunning' \cup InBatch' = Online \cup OfflineRunning \cup InBatch
    BY <1>b, <1>s, <1>p
  <2>4. \A q \in Requests : num_kv_blocks'[q] > 0 <=> q \in Online' \cup OfflineRunning' \cup InBatch'
    BY <2>1, <2>2, <2>3
  <2> QED BY <2>4 DEF OnlyRunningHold, Online, OfflineRunning, InBatch
<1>9. OrderKept'
  <2>0. Tracked /\ RunningQueueOrdered /\ BatchOrdered /\ BatchBeforeQueues /\ ~AfterQueues /\ ~AfterQueues'
    BY <1>f, <1>r DEF IInv, OrderKept, AfterQueues
  <2>o. \A x, y : Before(running_queue[off], x, y) => Before(admitted, x, y)
    BY <2>0 DEF RunningQueueOrdered, Before
  <2>1. Tracked'
    BY <1>d, <1>b, <1>s, <1>p, <2>0 DEF Tracked
  <2>2. RunningQueueOrdered'
    <3> DEFINE rq == running_queue'
    <3> SUFFICES ASSUME NEW o \in BOOLEAN, NEW i \in DOMAIN rq[o], NEW j \in DOMAIN rq[o], i < j
                 PROVE  Before(admitted, rq[o][i], rq[o][j])
      BY <1>d DEF RunningQueueOrdered
    <3>1. CASE o = off
      BY <1>q, <1>w, <2>o, <3>1
    <3>2. CASE o # off
      BY <1>w, <2>0, <3>2 DEF RunningQueueOrdered
    <3> QED BY <3>1, <3>2
  <2>3. BatchOrdered'
    <3> DEFINE rr == running_requests'
               n == Len(running_requests)
    <3>1. /\ n \in Nat /\ DOMAIN running_requests = 1 .. n /\ DOMAIN rr = 1 .. n + 1 /\ rr[n + 1] = r
          /\ \A i \in 1 .. n : rr[i] = running_requests[i]
      <4>1. running_requests \in Seq(Requests)
        BY <1>t DEF TypeOK
      <4> QED BY <1>d, <1>r, <4>1
    <3> SUFFICES ASSUME NEW o \in BOOLEAN, NEW i \in 1 .. n + 1, NEW j \in 1 .. n + 1,
                        i < j, rr[i] \in Class(o), rr[j] \in Class(o)
                 PROVE  Before(admitted, rr[i], rr[j])
      BY <1>d, <3>1 DEF BatchOrdered
    <3> HIDE DEF rr, n
    <3>2. i \in 1 .. n /\ (j \in 1 .. n \/ j = n + 1)
      BY <3>1
    <3>3. rr[i] \in InBatch
      <4>1. running_requests[i] \in InBatch
        BY <3>1, <3>2 DEF InBatch, Range
      <4> QED BY <3>1, <3>2, <4>1
    <3>4. CASE j = n + 1
      <4>1. o = off
        BY <1>r, <3>1, <3>4, OneClass
      <4> QED BY <1>r, <2>0, <3>1, <3>3, <3>4, <4>1 DEF BatchBeforeQueues
    <3>5. CASE j \in 1 .. n
      BY <2>0, <3>1, <3>2, <3>5 DEF BatchOrdered
    <3> QED BY <3>2, <3>4, <3>5
  <2>4. BatchBeforeQueues'
    <3> SUFFICES ASSUME NEW o \in BOOLEAN, NEW a \in Range(running_queue'[o]), NEW b \in InBatch', b \in Class(o)
                 PROVE  Before(admitted, b, a)
      BY <1>d DEF BatchBeforeQueues
    <3>1. a \in Range(running_queue[o]) /\ (o = off => a \in Range(Tail(running_queue[off])))
      BY <1>q, <1>w
    <3>2. CASE b = r
      <4>1. o = off
        BY <1>r, <3>2, OneClass
      <4> QED BY <1>q, <2>o, <3>1, <3>2, <4>1
    <3>3. CASE b \in InBatch
      BY <2>0, <3>1, <3>3 DEF BatchBeforeQueues
    <3> QED BY <1>b, <3>2, <3>3
  <2>5. BatchAfterQueues'
    BY <2>0 DEF BatchAfterQueues
  <2> QED BY <2>1, <2>2, <2>3, <2>4, <2>5 DEF OrderKept
<1> QED BY <1>1, <1>2, <1>3, <1>4, <1>5, <1>6, <1>7, <1>8, <1>9, <1>m DEF IInv, PlaceInv, BatchInv

\* During the decode phase a request leaves a running queue with its blocks,
\* either for the waiting queue or with an answer.
LEMMA RunnerLeaves ==
    ASSUME IInv, Decoding, Decoding', NEW off \in BOOLEAN, NEW r \in Range(running_queue[off]),
           NEW p \in Seq(Requests), IsInjective(p), Range(p) = Range(running_queue[off]) \ {r},
           \A i, j \in DOMAIN p : i < j => Before(running_queue[off], p[i], p[j]),
           running_queue' = [running_queue EXCEPT ![off] = p],
           num_kv_blocks' = Deallocated(num_kv_blocks, {r}),
           admitted' = Without(admitted, {r}),
           UNCHANGED <<submitted, request_queue, cancelled, callbacks, running_requests, last_step_prefill,
                       seq_budget, token_budget, fatal, finished_requests, tokens, finished>>,
           \/ waiting' = waiting \cup {r} /\ UNCHANGED <<responses, failed>>
           \/ responses' = Respond({r}) /\ failed' = failed \cup {r} /\ UNCHANGED waiting
    PROVE  IInv'
<1>t. TypeOK /\ MemoryBound /\ PlacesComplete
  BY DEF IInv, PlaceInv, BatchInv
<1>n. /\ num_kv_blocks \in [Requests -> Nat] /\ admitted \in Seq(Requests)
      /\ running_queue \in [BOOLEAN -> Seq(Requests)]
  BY <1>t DEF TypeOK
<1>p. /\ r \notin Queued \cup waiting \cup InBatch \cup finished_requests /\ r \notin finished
      /\ r \in Online \cup OfflineRunning /\ r \in Requests
      /\ \A o \in BOOLEAN : o # off => r \notin Range(running_queue[o])
  BY RunningQueueApart
<1>w. /\ running_queue' \in [BOOLEAN -> Seq(Requests)] /\ running_queue'[off] = p
      /\ \A o \in BOOLEAN : o # off => running_queue'[o] = running_queue[o]
      /\ \A o \in BOOLEAN : Range(running_queue'[o]) = Range(running_queue[o]) \ {r}
  BY <1>n, <1>p, QueueLoses
<1>s. /\ Online' = Online \ {r} /\ OfflineRunning' = OfflineRunning \ {r}
      /\ Queued' = Queued /\ InBatch' = InBatch
  BY <1>w DEF Online, OfflineRunning, Queued, InBatch
<1>u. /\ responses' \in [Requests -> Nat] /\ waiting' \cup failed' \subseteq Requests
      /\ \A q \in Requests : responses'[q] \in {0, 1} /\ (q \notin submitted' => responses'[q] = 0)
      /\ \/ waiting' = waiting \cup {r} /\ Unanswered' = Unanswered
         \/ waiting' = waiting /\ Unanswered' = Unanswered \ {r}
  <2>1. responses \in [Requests -> Nat] /\ waiting \cup failed \subseteq Requests
    BY <1>t DEF TypeOK
  <2>2. CASE waiting' = waiting \cup {r} /\ UNCHANGED <<responses, failed>>
    BY <1>p, <1>t, <2>1, <2>2 DEF PlacesComplete, Unanswered
  <2>3. CASE responses' = Respond({r}) /\ failed' = failed \cup {r} /\ UNCHANGED waiting
    <3>1. {r} \in SUBSET Unanswered
      BY <1>p, <1>t DEF PlacesComplete
    <3>2. /\ responses' \in [Requests -> Nat] /\ Unanswered' = Unanswered \ {r}
          /\ \A q \in Requests : responses'[q] \in {0, 1} /\ (q \notin submitted' => responses'[q] = 0)
      BY <1>t, <2>3, <3>1, RespondOnce
    <3> QED BY <1>p, <2>1, <2>3, <3>2
  <2> QED BY <2>2, <2>3
<1>m. /\ MemoryBound' /\ num_kv_blocks' \in [Requests -> Nat]
      /\ \A q \in Requests : num_kv_blocks'[q] = IF q = r THEN 0 ELSE num_kv_blocks[q]
  <2>1. {r} \in SUBSET Requests
    BY <1>p
  <2>2. MemoryBound' /\ num_kv_blocks' \in [Requests -> Nat]
    BY <1>t, <2>1, DeallocatedBound
  <2>3. \A q \in Requests : num_kv_blocks'[q] = IF q \in {r} THEN 0 ELSE num_kv_blocks[q]
    BY DEF Deallocated
  <2> QED BY <2>2, <2>3
<1>a. /\ admitted' \in Seq(Requests) /\ Range(admitted') = Range(admitted) \ {r}
      /\ \A x, y : Before(admitted, x, y) /\ x \notin {r} /\ y \notin {r} => Before(admitted', x, y)
  BY <1>n, WithoutQueue
<1>f. ~Prefilling /\ ~Prefilling' /\ Building /\ Building' /\ pc' \notin {"drain", "reap", "dispatch", "step"}
      /\ pc \notin {"drain", "reap", "dispatch", "step"} /\ ~last_step_prefill /\ ~last_step_prefill'
  BY DEF Prefilling, Decoding, Building, IInv, BatchInv, KindOfBatch
<1>1. TypeOK'
  <2>1. pc' \in {"decode", "decode_offline"}
    BY DEF Decoding
  <2> QED BY <1>t, <1>w, <1>u, <1>m, <1>a, <2>1 DEF TypeOK
<1>2. NoDuplicates'
  <2>1. \A o \in BOOLEAN : IsInjective(running_queue'[o])
    BY <1>w DEF IInv, PlaceInv, NoDuplicates
  <2> QED BY <2>1 DEF IInv, PlaceInv, NoDuplicates
<1>3. PlacesApart' /\ ClassesApart'
  BY <1>s, <1>u, <1>p DEF IInv, PlaceInv, PlacesApart, ClassesApart
<1>4. PlacesComplete'
  <2>1. Queued' \cup waiting' \cup Online' \cup OfflineRunning' \cup InBatch' \cup finished_requests' = Unanswered'
    BY <1>s, <1>u, <1>p, <1>t DEF PlacesComplete
  <2> QED BY <1>u, <2>1 DEF PlacesComplete
<1>5. FinishedReaped'
  BY <1>s, <1>u, <1>p, <1>f DEF IInv, PlaceInv, FinishedReaped
<1>6. BudgetsExact' /\ KindOfBatch'
  BY <1>f DEF IInv, BatchInv, BudgetsExact, KindOfBatch
<1>7. BatchHasSlots'
  <2>1. \A q \in InBatch : q \in Requests /\ q # r
    BY <1>t, <1>p, PlacesTyped
  <2>2. \A q \in InBatch : num_kv_blocks[q] * BlockSize >= tokens[q]
    BY <1>f DEF IInv, BatchInv, BatchHasSlots
  <2>3. \A q \in InBatch : num_kv_blocks'[q] = num_kv_blocks[q]
    BY <1>m, <2>1
  <2> QED BY <1>s, <2>2, <2>3 DEF BatchHasSlots
<1>8. OnlyRunningHold'
  <2>1. \A q \in Requests : num_kv_blocks[q] > 0 <=> q \in Online \cup OfflineRunning \cup InBatch
    BY DEF IInv, BatchInv, OnlyRunningHold, Online, OfflineRunning, InBatch
  <2>2. ASSUME NEW q \in Requests PROVE num_kv_blocks'[q] > 0 <=> q # r /\ num_kv_blocks[q] > 0
    <3>1. CASE q = r
      <4>1. num_kv_blocks'[q] = 0
        BY <1>m, <3>1
      <4> QED BY <3>1, <4>1
    <3>2. CASE q # r
      <4>1. num_kv_blocks'[q] = num_kv_blocks[q]
        BY <1>m, <3>2
      <4> QED BY <3>2, <4>1
    <3> QED BY <3>1, <3>2
  <2>3. Online' \cup OfflineRunning' \cup InBatch' = (Online \cup OfflineRunning \cup InBatch) \ {r}
    BY <1>s, <1>p
  <2>4. \A q \in Requests : num_kv_blocks'[q] > 0 <=> q \in Online' \cup OfflineRunning' \cup InBatch'
    BY <2>1, <2>2, <2>3
  <2> QED BY <2>4 DEF OnlyRunningHold, Online, OfflineRunning, InBatch
<1>9. OrderKept'
  <2>1. OrderKept /\ {r} \cap InBatch = {} /\ ~AfterQueues /\ ~AfterQueues'
    BY <1>p, <1>f DEF IInv, AfterQueues
  <2>2. ASSUME NEW o \in BOOLEAN
        PROVE  /\ Range(running_queue'[o]) \subseteq Range(running_queue[o]) \ {r}
               /\ \A i, j \in DOMAIN running_queue'[o] :
                     i < j => Before(running_queue[o], running_queue'[o][i], running_queue'[o][j])
    <3>1. Range(running_queue'[o]) \subseteq Range(running_queue[o]) \ {r}
      BY <1>w
    <3>2. CASE o = off
      BY <1>w, <3>1, <3>2
    <3>3. CASE o # off
      <4>1. running_queue'[o] = running_queue[o]
        BY <1>w, <3>3
      <4>2. \A i, j \in DOMAIN running_queue[o] :
               i < j => Before(running_queue[o], running_queue[o][i], running_queue[o][j])
        BY DEF Before
      <4> QED BY <3>1, <4>1, <4>2
    <3> QED BY <3>2, <3>3
  <2> QED BY <1>a, <2>1, <2>2, OrderLess
<1> QED BY <1>1, <1>2, <1>3, <1>4, <1>5, <1>6, <1>7, <1>8, <1>9, <1>m DEF IInv, PlaceInv, BatchInv

\* A decode without memory preempts the back of a running queue.
LEMMA DecodePreemptKeepsIInv ==
    ASSUME IInv, NEW off \in BOOLEAN, DecodePreempt(off)
    PROVE  IInv'
<1>d. running_queue[off] # << >> /\ Decoding
  BY DecodeLooped DEF DecodePreempt
<1>1. PICK from \in BOOLEAN : running_queue[from] # << >> /\ Preempt(from)
  <2>1. CASE OnlinePreemptsOffline /\ ~off /\ running_queue[TRUE] # << >>
    <3>1. PreemptFrom(off) = {TRUE}
      BY <2>1 DEF PreemptFrom
    <3>2. Preempt(TRUE)
      BY <3>1 DEF DecodePreempt
    <3> QED BY <2>1, <3>2
  <2>2. CASE ~(OnlinePreemptsOffline /\ ~off /\ running_queue[TRUE] # << >>)
    <3>1. PreemptFrom(off) = {off} \/ PreemptFrom(off) = {}
      BY <2>2 DEF PreemptFrom
    <3>2. Preempt(off)
      BY <3>1 DEF DecodePreempt
    <3> QED BY <1>d, <3>2
  <2> QED BY <2>1, <2>2
<1>2. from \in BOOLEAN /\ running_queue[from] # << >> /\ Decoding /\ Decoding'
  <2>1. pc' = pc
    BY <1>1 DEF Preempt, threadVars
  <2> QED BY <1>d, <1>1, <2>1 DEF Decoding
<1> DEFINE q == running_queue[from]
           v == q[Len(q)]
           p == SubSeq(q, 1, Len(q) - 1)
<1>3. q \in Seq(Requests) /\ IsInjective(q) /\ q # << >>
  BY <1>2 DEF IInv, PlaceInv, TypeOK, NoDuplicates
<1>4. /\ num_kv_blocks' = Deallocated(num_kv_blocks, {v})
      /\ running_queue' = [running_queue EXCEPT ![from] = p]
      /\ waiting' = waiting \cup {v}
      /\ admitted' = Without(admitted, {v})
      /\ UNCHANGED <<submitted, request_queue, cancelled, callbacks, running_requests, last_step_prefill,
                     seq_budget, token_budget, fatal, finished_requests, tokens, finished, responses, failed>>
  BY <1>1 DEF Preempt, threadVars, clientVars
<1>5. /\ v \in Range(q) /\ p \in Seq(Requests) /\ IsInjective(p) /\ Range(p) = Range(q) \ {v}
      /\ DOMAIN p \subseteq DOMAIN q /\ \A i \in DOMAIN p : p[i] = q[i]
  <2> HIDE DEF q
  <2> QED BY <1>3, TakeLast
<1> HIDE DEF v, p
<1>6. \A i, j \in DOMAIN p : i < j => Before(q, p[i], p[j])
  <2> HIDE DEF q
  <2> QED BY <1>5 DEF Before
<1> QED BY <1>2, <1>4, <1>5, <1>6, RunnerLeaves

\* The request the memory is too small for is the only one that holds blocks.
LEMMA TooLongIsAlone ==
    ASSUME IInv, NEW off \in BOOLEAN, DecodeTooLong(off)
    PROVE  Online \cup OfflineRunning = {Head(running_queue[off])}
<1> DEFINE r == Head(running_queue[off])
<1>1. r \in Range(running_queue[off]) /\ r \in Requests
  BY DecodeLooped DEF DecodeTooLong, DecodeStuck
<1>2. Total(num_kv_blocks, Requests) = num_kv_blocks[r] /\ num_kv_blocks \in [Requests -> Nat]
  BY DEF DecodeTooLong, NumUsed, IInv, PlaceInv, TypeOK
<1> HIDE DEF r
<1>3. IsFiniteSet(Requests)
  BY SchedulerAssumption
<1>4. Total(num_kv_blocks, {r}) = num_kv_blocks[r]
  BY <1>1, <1>2, TotalOne
<1>5. \A q \in Requests \ {r} : num_kv_blocks[q] = 0
  <2> DEFINE one == {r}
             all == Requests
  <2>1. /\ one \in SUBSET all /\ all \in SUBSET Requests
        /\ Total(num_kv_blocks, one) = Total(num_kv_blocks, all)
    BY <1>1, <1>2, <1>4
  <2>2. \A q \in all \ one : num_kv_blocks[q] = 0
    <3> HIDE DEF one, all
    <3>1. num_kv_blocks \in [Requests -> Nat]
      BY <1>2
    <3>2. Total(num_kv_blocks, one) = Total(num_kv_blocks, all) => \A q \in all \ one : num_kv_blocks[q] = 0
      BY <1>3, <2>1, <3>1, TotalPart
    <3> QED BY <2>1, <3>2
  <2> QED BY <2>2
<1>6. \A q \in Requests : num_kv_blocks[q] > 0 <=> q \in Online \cup OfflineRunning \cup InBatch
  BY DEF IInv, BatchInv, OnlyRunningHold, Online, OfflineRunning, InBatch
<1>7. r \in Online \cup OfflineRunning /\ Online \cup OfflineRunning \subseteq Requests
  BY <1>1, RunningQueueApart, PlacesTyped DEF IInv, PlaceInv
<1> QED BY <1>5, <1>6, <1>7 DEF r

\* A request the memory is too small for fails.
LEMMA DecodeFailKeepsIInv ==
    ASSUME IInv, NEW off \in BOOLEAN, DecodeFail(off)
    PROVE  IInv'
<1> DEFINE r == Head(running_queue[off])
<1>1. DecodeTooLong(off) /\ DecodeLoops(off)
  BY DEF DecodeFail, DecodeTooLong, DecodeStuck
<1>2. Decoding /\ ~Prefilling /\ running_queue[off] # << >> /\ r \in Range(running_queue[off])
  BY <1>1, DecodeLooped
<1>3. CASE running_queue[FALSE] = << >>
  <2>1. Die("pop_front of an empty deque")
    BY <1>3 DEF DecodeFail
  <2>2. pc \notin {"drain", "reap", "dispatch", "step"}
    BY <1>2 DEF Decoding
  <2> QED BY <1>2, <2>1, <2>2, DieKeepsIInv
<1>4. CASE running_queue[FALSE] # << >>
  <2> DEFINE q == running_queue[FALSE]
             p == Tail(q)
  <2>1. q \in Seq(Requests) /\ IsInjective(q) /\ q # << >>
    BY <1>4 DEF IInv, PlaceInv, TypeOK, NoDuplicates
  <2>2. /\ Head(q) \in Range(q) /\ p \in Seq(Requests) /\ IsInjective(p) /\ Range(p) = Range(q) \ {Head(q)}
        /\ \A i, j \in DOMAIN p : i < j => Before(q, p[i], p[j])
    <3> HIDE DEF q
    <3> QED BY <2>1, TakeHead, TailOrdered
  <2>3. Head(q) = r
    BY <1>1, <2>2, TooLongIsAlone DEF Online
  <2>4. off = FALSE
    <3>1. r \in Class(off) /\ r \in Class(FALSE)
      BY <1>2, <2>2, <2>3, RunningQueueApart
    <3>2. CASE off = TRUE
      BY <3>1, <3>2, ClassSplit
    <3>3. CASE off = FALSE
      BY <3>3
    <3> QED BY <3>2, <3>3
  <2>5. /\ running_queue' = [running_queue EXCEPT ![FALSE] = p]
        /\ num_kv_blocks' = Deallocated(num_kv_blocks, {r})
        /\ responses' = Respond({r}) /\ failed' = failed \cup {r}
        /\ admitted' = Without(admitted, {r})
        /\ AfterDecode(off)
        /\ UNCHANGED <<submitted, request_queue, cancelled, callbacks, running_requests, last_step_prefill,
                       seq_budget, token_budget, fatal, finished_requests, tokens, finished, waiting>>
    BY <1>4 DEF DecodeFail, clientVars
  <2>6. Decoding'
    BY <2>4, <2>5 DEF AfterDecode, Decoding
  <2> HIDE DEF r, p
  <2> QED BY <1>2, <2>2, <2>3, <2>5, <2>6, RunnerLeaves
<1> QED BY <1>3, <1>4

\* Every step keeps the invariant.
LEMMA NextKeepsIInv ==
    ASSUME IInv, [Next]_vars
    PROVE  IInv'
<1>1. CASE Drain
  BY <1>1, DrainKeepsIInv
<1>2. ASSUME NEW gone \in SUBSET Range(running_requests), Reap(gone) PROVE IInv'
  BY <1>2, ReapKeepsIInv DEF InBatch
<1>3. CASE Requeue
  BY <1>3, RequeueKeepsIInv
<1>4. ASSUME NEW off \in BOOLEAN,
             \/ PrefillDrop(off) \/ PrefillAdmit(off) \/ PrefillPreempt(off) \/ PrefillEnd(off)
             \/ DecodeSchedule(off) \/ DecodePreempt(off) \/ DecodeFail(off) \/ DecodeEnd(off)
      PROVE  IInv'
  BY <1>4, PrefillDropKeepsIInv, PrefillAdmitKeepsIInv, PrefillPreemptKeepsIInv, PrefillEndKeepsIInv,
     DecodeScheduleKeepsIInv, DecodePreemptKeepsIInv, DecodeFailKeepsIInv, DecodeEndKeepsIInv
<1>5. CASE Dispatch
  BY <1>5, DispatchKeepsIInv
<1>6. ASSUME NEW eos \in SUBSET Range(running_requests), EngineStep(eos) PROVE IInv'
  BY <1>6, EngineStepKeepsIInv DEF InBatch
<1>7. ASSUME NEW r \in Requests, AddRequest(r) PROVE IInv'
  BY <1>7, AddRequestKeepsIInv
<1>8. ASSUME NEW r \in Stream, NEW delivered \in BOOLEAN, StreamCallback(r, delivered) PROVE IInv'
  BY <1>8, StreamCallbackKeepsIInv
<1>9. CASE UNCHANGED vars
  BY <1>9, StutterKeepsIInv
<1> QED BY <1>1, <1>2, <1>3, <1>4, <1>5, <1>6, <1>7, <1>8, <1>9 DEF Next, SchedulerThread

\* The inductive invariant holds throughout.
THEOREM IInvHolds == Spec => []IInv
<1>1. Init => IInv
  BY InitIInv
<1>2. IInv /\ [Next]_vars => IInv'
  BY NextKeepsIInv
<1> QED BY <1>1, <1>2, PTL DEF Spec

-----------------------------------------------------------------------------
(***************************************************************************)
(* The properties.                                                         *)
(***************************************************************************)

\* The variables of the scheduler keep their types: budgets never run below
\* zero, no sequence grows past its stopping condition and request_queue_ never
\* past its capacity.
THEOREM TypeCorrect == Spec => []TypeOK
<1>1. IInv => TypeOK
  BY DEF IInv, PlaceInv
<1> QED BY <1>1, IInvHolds, PTL

\* The places of the invariant, counted.
LEMMA OnePlaceEach ==
    ASSUME IInv
    PROVE  ExactlyOnePlace
<1> SUFFICES ASSUME NEW r \in Requests
             PROVE  Count(request_queue, r) + In(waiting, r) + Count(running_queue[FALSE], r)
                      + Count(running_queue[TRUE], r) + Count(running_requests, r)
                      + In(finished_requests, r)
                    = IF r \in submitted /\ responses[r] = 0 THEN 1 ELSE 0
  BY DEF ExactlyOnePlace
<1>1. /\ request_queue \in Seq(Requests) /\ running_requests \in Seq(Requests)
      /\ running_queue[FALSE] \in Seq(Requests) /\ running_queue[TRUE] \in Seq(Requests)
  BY DEF IInv, PlaceInv, TypeOK
<1>2. /\ IsInjective(request_queue) /\ IsInjective(running_requests)
      /\ IsInjective(running_queue[FALSE]) /\ IsInjective(running_queue[TRUE])
  BY DEF IInv, PlaceInv, NoDuplicates
<1>3. /\ Count(request_queue, r) = In(Queued, r) /\ Count(running_requests, r) = In(InBatch, r)
      /\ Count(running_queue[FALSE], r) = In(Online, r) /\ Count(running_queue[TRUE], r) = In(OfflineRunning, r)
  BY <1>1, <1>2, CountOfQueue DEF Queued, InBatch, Online, OfflineRunning
<1>4. In(Queued, r) + In(waiting, r) + In(Online, r) + In(OfflineRunning, r) + In(InBatch, r)
        + In(finished_requests, r) = In(Unanswered, r)
  BY DEF IInv, PlaceInv, PlacesApart, PlacesComplete, In
<1>5. In(Unanswered, r) = IF r \in submitted /\ responses[r] = 0 THEN 1 ELSE 0
  BY DEF In, Unanswered
<1> QED BY <1>3, <1>4, <1>5

\* A request that was submitted and not answered is in exactly one queue, set
\* or batch of the scheduler, an answered one in none, whatever the prefill,
\* preemption, failure and reaping code did with it.
THEOREM OnePlace == Spec => []ExactlyOnePlace
BY OnePlaceEach, IInvHolds, PTL

\* Only the requests of the running queues and of the batch hold blocks, and
\* never more than there are; the allocation after a preemption succeeds.
THEOREM BlocksAreAccounted == Spec => []NoBlockLeak
<1>1. IInv => NoBlockLeak
  BY DEF IInv, BatchInv, NoBlockLeak
<1> QED BY <1>1, IInvHolds, PTL

\* What the invariant says of a batch that is complete.
LEMMA ReadyBatch ==
    ASSUME IInv
    PROVE  BatchReady
<1> SUFFICES ASSUME pc = "step"
             PROVE  /\ InBatch # {} /\ Cardinality(InBatch) <= MaxSeqsPerBatch
                    /\ \A r \in InBatch : num_kv_blocks[r] * BlockSize >= tokens[r] /\ r \notin finished
                    /\ last_step_prefill => Total(tokens, InBatch) <= MaxTokensPerBatch
  BY DEF BatchReady, InBatch
<1>b. Building
  BY DEF Building
<1>1. running_requests \in Seq(Requests) /\ IsInjective(running_requests) /\ running_requests # << >>
  BY DEF IInv, PlaceInv, BatchInv, TypeOK, NoDuplicates, KindOfBatch
<1>2. Cardinality(InBatch) = Len(running_requests)
  BY <1>1, QueueCardinality DEF InBatch
<1>3. InBatch # {}
  <2>1. Head(running_requests) \in Range(running_requests)
    BY <1>1, TakeHead
  <2> QED BY <2>1 DEF InBatch
<1>4. Len(running_requests) <= MaxSeqsPerBatch
  <2>1. seq_budget + Len(running_requests) = MaxSeqsPerBatch
    BY <1>b DEF IInv, BatchInv, BudgetsExact
  <2>2. seq_budget \in 0 .. MaxSeqsPerBatch
    BY DEF IInv, PlaceInv, TypeOK
  <2>3. MaxSeqsPerBatch \in Nat /\ Len(running_requests) \in Nat
    BY <1>1, SchedulerAssumption
  <2> QED BY <2>1, <2>2, <2>3
<1>5. \A r \in InBatch : num_kv_blocks[r] * BlockSize >= tokens[r] /\ r \notin finished
  BY <1>b DEF IInv, PlaceInv, BatchInv, BatchHasSlots, FinishedReaped
<1>6. last_step_prefill => Total(tokens, InBatch) <= MaxTokensPerBatch
  BY DEF IInv, BatchInv, BudgetsExact
<1> QED BY <1>2, <1>3, <1>4, <1>5, <1>6

\* A batch handed to engine_->step() is not empty, respects both budgets, and
\* has a slot for every token of its unfinished sequences.
THEOREM BatchesAreReady == Spec => []BatchReady
BY ReadyBatch, IInvHolds, PTL

\* The running queues list their requests in the order of their last prefill,
\* so the back of a queue, where preemption starts, is the most recent one.
THEOREM QueuesStayOrdered == Spec => []RunningQueueOrdered
<1>1. IInv => RunningQueueOrdered
  BY DEF IInv, OrderKept
<1> QED BY <1>1, IInvHolds, PTL

\* The online requests that a step sends back to the waiting queue.
PreemptsOfflineFirst ==
    \A r \in (waiting' \ waiting) \ Offline :
        r \in Range(running_queue[FALSE]) => running_queue[TRUE] = << >>

\* A preempted online request was at the back of the online queue, and the
\* code looked at the offline queue before.
LEMMA OnlinePreemptedLast ==
    ASSUME IInv, OnlinePreemptsOffline, NEW off \in BOOLEAN, DecodePreempt(off)
    PROVE  PreemptsOfflineFirst
<1>1. ASSUME running_queue[TRUE] # << >>, Preempt(TRUE) PROVE PreemptsOfflineFirst
  <2> DEFINE q == running_queue[TRUE]
  <2>1. waiting' = waiting \cup {q[Len(q)]}
    BY <1>1 DEF Preempt
  <2>2. q \in Seq(Requests) /\ q # << >>
    BY <1>1 DEF IInv, PlaceInv, TypeOK
  <2>3. q[Len(q)] \in OfflineRunning
    <3>1. q[Len(q)] \in Range(q)
      <4> HIDE DEF q
      <4> QED BY <2>2, TakeLast
    <3> QED BY <3>1 DEF OfflineRunning
  <2> QED BY <2>1, <2>3 DEF PreemptsOfflineFirst, IInv, PlaceInv, ClassesApart
<1>2. CASE running_queue[TRUE] = << >>
  BY <1>2 DEF PreemptsOfflineFirst
<1>3. CASE running_queue[TRUE] # << >>
  <2>1. PreemptFrom(off) \subseteq {TRUE}
    <3>1. CASE off = TRUE
      BY <3>1 DEF PreemptFrom
    <3>2. CASE off = FALSE
      BY <1>3, <3>2 DEF PreemptFrom
    <3> QED BY <3>1, <3>2
  <2>2. Preempt(TRUE)
    BY <2>1 DEF DecodePreempt
  <2> QED BY <1>1, <1>3, <2>2
<1> QED BY <1>2, <1>3

\* Preemption is the only step that sends an online request back.
LEMMA NextPreemptsOfflineFirst ==
    ASSUME IInv, OnlinePreemptsOffline, [Next]_vars
    PROVE  PreemptsOfflineFirst
<1> USE DEF PreemptsOfflineFirst
<1>1. CASE Drain
  <2>1. waiting' \ waiting \subseteq Queued /\ Queued \cap Online = {}
    BY <1>1 DEF Drain, Queued, IInv, PlaceInv, PlacesApart
  <2> QED BY <2>1 DEF Online
<1>2. ASSUME NEW off \in BOOLEAN, DecodePreempt(off) PROVE PreemptsOfflineFirst
  BY <1>2, OnlinePreemptedLast
<1>3. ASSUME NEW off \in BOOLEAN, PrefillPreempt(off) PROVE PreemptsOfflineFirst
  <2> DEFINE r == Top(Waiting(off))
  <2>1. waiting' = (waiting \ {r}) \cup ToEvict(r) /\ ToEvict(r) # {} /\ PrefillTries(off)
    BY <1>3 DEF PrefillPreempt, PrefillEvicts
  <2>2. r \in Requests /\ running_queue \in [BOOLEAN -> Seq(Requests)]
    BY <2>1, PrefillTried DEF IInv, PlaceInv, TypeOK
  <2> HIDE DEF r
  <2>3. ToEvict(r) \subseteq OfflineRunning
    BY <2>1, <2>2, EvictedHoldEnough DEF OfflineRunning
  <2> QED BY <2>1, <2>3 DEF IInv, PlaceInv, ClassesApart
<1>4. ASSUME waiting' \subseteq waiting PROVE PreemptsOfflineFirst
  BY <1>4
<1>5. ASSUME NEW off \in BOOLEAN,
             \/ PrefillDrop(off) \/ PrefillAdmit(off) \/ PrefillEnd(off)
             \/ DecodeSchedule(off) \/ DecodeFail(off) \/ DecodeEnd(off)
      PROVE  waiting' \subseteq waiting
  <2>1. CASE PrefillEnd(off)
    BY <2>1 DEF PrefillEnd, Die
  <2>2. CASE DecodeFail(off)
    BY <2>2 DEF DecodeFail, Die
  <2> QED BY <1>5, <2>1, <2>2 DEF PrefillDrop, PrefillAdmit, DecodeSchedule, DecodeEnd
<1>6. ASSUME NEW gone, Reap(gone) PROVE waiting' \subseteq waiting
  BY <1>6 DEF Reap
<1>7. ASSUME NEW eos, EngineStep(eos) PROVE waiting' \subseteq waiting
  BY <1>7 DEF EngineStep
<1>8. CASE Requeue
  BY <1>4, <1>8 DEF Requeue, Die
<1>9. CASE Dispatch \/ UNCHANGED vars
  BY <1>4, <1>9 DEF Dispatch, vars
<1>10. ASSUME NEW r, AddRequest(r) PROVE waiting' \subseteq waiting
  BY <1>10 DEF AddRequest
<1>11. CASE SchedulerThread
  BY <1>1, <1>2, <1>3, <1>4, <1>5, <1>6, <1>7, <1>8, <1>9, <1>11 DEF SchedulerThread
<1>12. CASE \E r \in Requests : AddRequest(r)
  BY <1>4, <1>10, <1>12
<1>13. CASE \E r \in Stream, delivered \in BOOLEAN : StreamCallback(r, delivered)
  <2>1. PICK r \in Stream, d \in BOOLEAN : StreamCallback(r, d)
    BY <1>13
  <2>2. waiting' \subseteq waiting
    BY <2>1 DEF StreamCallback
  <2> QED BY <1>4, <2>2
<1> QED BY <1>9, <1>11, <1>12, <1>13 DEF Next

\* With enable_online_preempt_offline, an online request is preempted only when
\* no offline request is left in its running queue.
THEOREM OfflineGoesFirst ==
    ASSUME OnlinePreemptsOffline
    PROVE  Spec => OfflinePreemptedFirst
<1>1. IInv /\ [Next]_vars => [PreemptsOfflineFirst]_vars
  BY NextPreemptsOfflineFirst
<1>2. [PreemptsOfflineFirst]_vars <=>
        [\A r \in (waiting' \ waiting) \ Offline :
            r \in Range(running_queue[FALSE]) => running_queue[TRUE] = <<>>]_vars
  BY DEF PreemptsOfflineFirst
<1> QED BY <1>1, <1>2, IInvHolds, PTL DEF Spec, OfflinePreemptedFirst

-----------------------------------------------------------------------------
(***************************************************************************)
(* The scheduler implements the safety of RequestService.                  *)
(***************************************************************************)

\* What a step may do to the requests, their answers and their tokens.
SubmitStep(r) ==
    /\ r \in Requests \ submitted /\ submitted' = submitted \cup {r} /\ UNCHANGED tokens
    /\ UNCHANGED responses \/ responses' = Respond({r})
AnswerStep(s) ==
    s \in SUBSET Unanswered /\ responses' = Respond(s) /\ UNCHANGED <<submitted, tokens>>
TokenStep ==
    /\ InBatch # {} /\ InBatch \subseteq Unanswered
    /\ tokens' = Appended(InBatch) /\ UNCHANGED <<submitted, responses>>
QuietStep == UNCHANGED <<submitted, responses, tokens>>

\* Every step is of one of these kinds.
LEMMA KindsOfSteps ==
    ASSUME IInv, [Next]_vars
    PROVE  (\E r \in Requests : SubmitStep(r)) \/ (\E s \in SUBSET Unanswered : AnswerStep(s)) \/ TokenStep \/ QuietStep
<1>p. Queued \cup waiting \cup Online \cup OfflineRunning \cup InBatch \cup finished_requests = Unanswered
  BY DEF IInv, PlaceInv, PlacesComplete
<1>1. ASSUME NEW r \in Requests, AddRequest(r) PROVE SubmitStep(r)
  BY <1>1 DEF AddRequest, SubmitStep
<1>2. ASSUME NEW eos, EngineStep(eos) PROVE TokenStep
  <2>1. running_requests \in Seq(Requests) /\ running_requests # << >>
    BY <1>2 DEF EngineStep, IInv, PlaceInv, BatchInv, TypeOK, KindOfBatch
  <2>2. Head(running_requests) \in InBatch
    BY <2>1, TakeHead DEF InBatch
  <2> QED BY <1>2, <1>p, <2>2 DEF EngineStep, TokenStep, InBatch
<1>3. CASE Dispatch
  <2>1. AnswerStep(finished_requests)
    BY <1>3, <1>p DEF Dispatch, AnswerStep, clientVars
  <2> QED BY <1>p, <2>1
<1>4. ASSUME NEW off \in BOOLEAN, DecodeFail(off) PROVE QuietStep \/ \E s \in SUBSET Unanswered : AnswerStep(s)
  <2> DEFINE r == Head(running_queue[off])
  <2>1. {r} \in SUBSET Unanswered
    <3>1. r \in Range(running_queue[off])
      BY <1>4, DecodeLooped DEF DecodeFail, DecodeTooLong, DecodeStuck
    <3>2. r \in Online \cup OfflineRunning
      BY <3>1, RunningQueueApart
    <3> QED BY <1>p, <3>2
  <2>2. AnswerStep({r}) \/ QuietStep
    BY <1>4, <2>1 DEF DecodeFail, Die, AnswerStep, QuietStep, clientVars
  <2> QED BY <2>1, <2>2
<1>5. ASSUME NEW off \in BOOLEAN, PrefillEnd(off) PROVE QuietStep \/ \E s \in SUBSET Unanswered : AnswerStep(s)
  <2> DEFINE out == IF NothingRuns(off) THEN {Top(Waiting(off))} ELSE {}
  <2>1. out \in SUBSET Unanswered
    <3>1. CASE NothingRuns(off)
      <4>1. Top(Waiting(off)) \in waiting
        BY <3>1, WaitingTop DEF NothingRuns, IInv, PlaceInv
      <4> QED BY <1>p, <3>1, <4>1
    <3>2. CASE ~NothingRuns(off)
      BY <3>2
    <3> QED BY <3>1, <3>2
  <2>2. AnswerStep(out) \/ QuietStep
    BY <1>5, <2>1 DEF PrefillEnd, Die, AnswerStep, QuietStep, clientVars
  <2> QED BY <2>1, <2>2
<1>6. CASE Drain \/ Requeue \/ UNCHANGED vars
  BY <1>6 DEF Drain, Requeue, Die, vars, clientVars, QuietStep
<1>7. ASSUME NEW gone, Reap(gone) PROVE QuietStep
  BY <1>7 DEF Reap, QuietStep
<1>8. ASSUME NEW off \in BOOLEAN,
             \/ PrefillDrop(off) \/ PrefillAdmit(off) \/ PrefillPreempt(off)
             \/ DecodeSchedule(off) \/ DecodePreempt(off) \/ DecodeEnd(off)
      PROVE  QuietStep
  BY <1>8 DEF PrefillDrop, PrefillAdmit, PrefillPreempt, DecodeSchedule, DecodePreempt, Preempt, DecodeEnd,
              clientVars, QuietStep
<1>9. ASSUME NEW r, NEW d, StreamCallback(r, d) PROVE QuietStep
  BY <1>9 DEF StreamCallback, QuietStep
<1>10. CASE SchedulerThread
  BY <1>2, <1>3, <1>4, <1>5, <1>6, <1>7, <1>8, <1>10 DEF SchedulerThread
<1>11. CASE \E r \in Requests : AddRequest(r)
  BY <1>1, <1>11
<1>12. CASE \E r \in Stream, delivered \in BOOLEAN : StreamCallback(r, delivered)
  BY <1>9, <1>12
<1> QED BY <1>6, <1>10, <1>11, <1>12 DEF Next

\* The status of a request, before and after a step.
LEMMA StatusOfRequest ==
    ASSUME PlacesComplete, NEW r \in Requests
    PROVE  /\ r \notin submitted => Status(r) = "new"
           /\ r \in Unanswered => Status(r) = "open"
           /\ r \in submitted \ Unanswered => Status(r) = "closed"
BY DEF PlacesComplete, Status, Unanswered

\* Every step of the scheduler is a step of the service, or none.
LEMMA ServiceStep ==
    ASSUME IInv, IInv', [Next]_vars
    PROVE  [Service!Next]_(Service!vars)
<1> DEFINE st == [r \in Requests |-> Status(r)]
           gn == [r \in Requests |-> tokens[r] - Prompt[r]]
<1>t. TypeOK /\ PlacesComplete /\ PlacesComplete'
  BY DEF IInv, PlaceInv
<1>s. \A r \in Requests : /\ r \notin submitted => st[r] = "new"
                          /\ r \in Unanswered => st[r] = "open"
                          /\ r \in submitted \ Unanswered => st[r] = "closed"
  BY <1>t, StatusOfRequest
<1>sp. \A r \in Requests : /\ r \notin submitted' => st'[r] = "new"
                           /\ r \in Unanswered' => st'[r] = "open"
                           /\ r \in submitted' \ Unanswered' => st'[r] = "closed"
  BY <1>t DEF PlacesComplete, Status, Unanswered
<1>d. DOMAIN st = Requests /\ DOMAIN st' = Requests /\ Unanswered \subseteq Requests
  BY DEF Unanswered
<1>q. CASE QuietStep
  <2>1. st' = st /\ gn' = gn
    BY <1>q DEF QuietStep, Status
  <2> QED BY <2>1 DEF Service!vars
<1>a. ASSUME NEW s \in SUBSET Unanswered, AnswerStep(s) PROVE [Service!Next]_(Service!vars)
  <2>1. Unanswered' = Unanswered \ s /\ submitted' = submitted
    BY <1>t, <1>a, RespondOnce DEF AnswerStep
  <2>2. gn' = gn
    BY <1>a DEF AnswerStep
  <2>3. \A r \in Requests : st'[r] = IF r \in s THEN "closed" ELSE st[r]
    BY <1>s, <1>sp, <1>a, <2>1 DEF Unanswered
  <2>4. st' = [r \in Requests |-> IF r \in s THEN "closed" ELSE st[r]]
    BY <1>d, <2>3
  <2>5. \A r \in s : r \in Requests /\ st[r] = "open"
    BY <1>s, <1>d
  <2>6. CASE s = {}
    <3>1. st' = st
      BY <2>4, <2>6
    <3> QED BY <2>2, <3>1 DEF Service!vars
  <2>7. CASE s # {}
    <3>1. Service!Close(s)
      BY <2>2, <2>4, <2>5, <2>7 DEF Service!Close, Service!Open
    <3> QED BY <1>d, <3>1 DEF Service!Next
  <2> QED BY <2>6, <2>7
<1>b. CASE TokenStep
  <2>1. st' = st /\ InBatch # {} /\ InBatch \subseteq Unanswered /\ tokens' = Appended(InBatch)
    BY <1>b DEF TokenStep, Status
  <2>2. gn' = [r \in Requests |-> gn[r] + (IF r \in InBatch THEN 1 ELSE 0)]
    <3>1. tokens \in [Requests -> Nat] /\ Prompt \in [Requests -> Nat \ {0}]
      BY <1>t, SchedulerAssumption DEF TypeOK
    <3>2. ASSUME NEW r \in Requests
          PROVE  tokens'[r] - Prompt[r] = tokens[r] - Prompt[r] + (IF r \in InBatch THEN 1 ELSE 0)
      <4>1. tokens[r] \in Nat /\ Prompt[r] \in Nat
        BY <3>1
      <4>2. tokens'[r] = tokens[r] + (IF r \in InBatch THEN 1 ELSE 0)
        BY <2>1 DEF Appended
      <4> DEFINE x == tokens[r]
                 y == Prompt[r]
                 z == IF r \in InBatch THEN 1 ELSE 0
      <4>3. z \in Nat /\ x \in Nat /\ y \in Nat /\ tokens'[r] = x + z
        BY <4>1, <4>2
      <4> HIDE DEF x, y, z
      <4>4. tokens'[r] - y = x - y + z
        BY <4>3
      <4> QED BY <4>4 DEF x, y, z
    <3> QED BY <3>2
  <2>3. \A r \in InBatch : r \in Requests /\ st[r] = "open"
    BY <1>s, <1>d, <2>1
  <2>4. PICK s \in SUBSET Requests : s = InBatch
    BY <1>d, <2>1
  <2>5. Service!Generate(s)
    BY <2>1, <2>2, <2>3, <2>4 DEF Service!Generate, Service!Open
  <2> QED BY <2>5 DEF Service!Next
<1>c. ASSUME NEW r \in Requests, SubmitStep(r) PROVE Service!Next
  <2>1. r \notin submitted /\ submitted' = submitted \cup {r} /\ gn' = gn /\ st[r] = "new"
    BY <1>s, <1>c DEF SubmitStep
  <2>2. \A q \in Requests \ {r} : responses'[q] = responses[q]
    <3>1. responses \in [Requests -> Nat]
      BY <1>t DEF TypeOK
    <3>2. CASE responses' = Respond({r})
      <4>1. \A q \in Requests : responses'[q] = responses[q] + (IF q \in {r} THEN 1 ELSE 0)
        BY <3>2 DEF Respond
      <4> QED BY <3>1, <4>1
    <3> QED BY <1>c, <3>2 DEF SubmitStep
  <2>3. \A q \in Requests \ {r} : st'[q] = st[q]
    <3>1. \A q \in Requests \ {r} : (q \in submitted' <=> q \in submitted) /\ (q \in Unanswered' <=> q \in Unanswered)
      BY <2>1, <2>2 DEF Unanswered
    <3> QED BY <1>s, <1>sp, <3>1
  <2>4. st'[r] = "open" \/ st'[r] = "closed"
    BY <1>sp, <2>1
  <2>5. st' = [st EXCEPT ![r] = st'[r]]
    BY <1>d, <2>3
  <2>6. Service!Submit(r) \/ Service!Reject(r)
    BY <2>1, <2>4, <2>5 DEF Service!Submit, Service!Reject
  <2> QED BY <2>6 DEF Service!Next
<1> QED BY <1>q, <1>a, <1>b, <1>c, KindsOfSteps

\* What RequestService promises but for its fairness.
ServiceSafety == Service!Init /\ [][Service!Next]_(Service!vars)

\* No request is answered twice, after it was rejected, or before it was
\* submitted, and tokens are generated only between submission and answer:
\* the scheduler implements RequestService, its liveness left to TLC.
THEOREM ImplementsServiceSafety == Spec => ServiceSafety
<1>1. Init => Service!Init
  <2> SUFFICES ASSUME Init PROVE Service!Init
    OBVIOUS
  <2>1. Prompt \in [Requests -> Nat \ {0}]
    BY SchedulerAssumption
  <2>2. \A r \in Requests : tokens[r] - Prompt[r] = 0
    BY <2>1 DEF Init
  <2> QED BY <2>2 DEF Init, Service!Init, Status
<1>2. IInv /\ IInv' /\ [Next]_vars => [Service!Next]_(Service!vars)
  BY ServiceStep
<1> QED BY <1>1, <1>2, IInvHolds, PTL DEF Spec, ServiceSafety

-----------------------------------------------------------------------------
(***************************************************************************)
(* Failing for want of resources.                                          *)
(***************************************************************************)
TooLong(r) == NumBlocksFor(tokens[r]) > NumBlocks \/ tokens[r] > MaxTokensPerBatch

\* A failed request was answered, so it gets no further token.
FailedAnswered == \A r \in failed : r \in submitted /\ responses[r] # 0

\* With nothing running, an empty batch and no offline request the whole
\* memory and the whole token budget are free.
LEMMA NothingHeld ==
    ASSUME IInv, Offline = {}, Prefilling, running_requests = << >>, running_queue[FALSE] = << >>
    PROVE  /\ NumUsed(num_kv_blocks) = 0 /\ Holders(num_kv_blocks) = {}
           /\ token_budget = MaxTokensPerBatch
<1>1. Range(<< >>) = {}
  BY EmptyQueue
<1>2. Online = {} /\ InBatch = {} /\ OfflineRunning = {}
  BY <1>1 DEF Online, InBatch, IInv, PlaceInv, ClassesApart
<1>3. \A r \in Requests : num_kv_blocks[r] > 0 <=> r \in Online \cup OfflineRunning \cup InBatch
  BY DEF IInv, BatchInv, OnlyRunningHold, Online, OfflineRunning, InBatch
<1>4. num_kv_blocks \in [Requests -> Nat]
  BY DEF IInv, PlaceInv, TypeOK
<1>5. \A r \in Requests : num_kv_blocks[r] = 0
  BY <1>2, <1>3, <1>4
<1>6. NumUsed(num_kv_blocks) = 0
  BY <1>5, TotalZero DEF NumUsed
<1>7. Holders(num_kv_blocks) = {}
  BY <1>2, <1>3 DEF Holders
<1>8. token_budget = MaxTokensPerBatch
  <2>1. token_budget + Total(tokens, InBatch) = MaxTokensPerBatch
    BY DEF IInv, BatchInv, BudgetsExact
  <2>2. Total(tokens, {}) = 0
    BY TotalZero
  <2>3. token_budget \in 0 .. MaxTokensPerBatch
    BY DEF IInv, PlaceInv, TypeOK
  <2>4. MaxTokensPerBatch \in Nat
    BY SchedulerAssumption
  <2> QED BY <1>2, <2>1, <2>2, <2>3, <2>4
<1> QED BY <1>6, <1>7, <1>8

\* The request a prefill fails is too long.
LEMMA PrefillFailsTooLong ==
    ASSUME IInv, Offline = {}, Threshold > 0, NEW off \in BOOLEAN, PrefillEnd(off), NothingRuns(off), ~LoopOver(off)
    PROVE  TooLong(Top(Waiting(off)))
<1> DEFINE r == Top(Waiting(off))
<1>1. running_requests = << >> /\ running_queue[FALSE] = << >> /\ Waiting(off) # {}
  BY DEF NothingRuns
<1>2. Prefilling
  BY DEF PrefillEnd, BlocksExhausted, BudgetExhausted, PrefillTop, PrefillLoops, PrefillPhase, Prefilling, LoopOver
<1>3. /\ NumUsed(num_kv_blocks) = 0 /\ Holders(num_kv_blocks) = {}
      /\ token_budget = MaxTokensPerBatch
  BY <1>1, <1>2, NothingHeld
<1>4. r \in waiting /\ r \in Requests
  BY <1>1, WaitingTop DEF IInv, PlaceInv
<1>n. NumBlocks \in Nat /\ Threshold \in Nat /\ MaxSeqsPerBatch \in Nat
  BY SchedulerAssumption
<1>k. num_kv_blocks[r] = 0 /\ NumBlocksFor(tokens[r]) \in Nat \ {0}
  <2>1. {r} \in SUBSET waiting
    BY <1>4
  <2>2. num_kv_blocks[r] = 0
    BY <2>1, WaitingHoldsNothing
  <2>3. tokens[r] \in Prompt[r] .. Prompt[r] + MaxGen[r] /\ tokens[r] \in Nat
    BY <1>4 DEF IInv, PlaceInv, TypeOK
  <2>4. Prompt[r] \in Nat \ {0} /\ MaxGen[r] \in Nat
    BY <1>4, SchedulerAssumption
  <2>5. tokens[r] \in Nat \ {0}
    BY <2>3, <2>4
  <2> QED BY <2>2, <2>5, BlocksCoverTokens
<1>5. CASE BudgetExhausted(off)
  BY <1>3, <1>5 DEF BudgetExhausted, TooLong
<1>6. CASE UtilizationTooHigh
  <2>1. 0 >= Threshold * NumBlocks
    BY <1>3, <1>6 DEF UtilizationTooHigh
  <2>2. NumBlocks = 0
    BY <1>n, <2>1
  <2> QED BY <1>k, <2>2 DEF TooLong
<1>7. CASE ~CanAllocate(num_kv_blocks, r)
  <2>1. Cardinality(Holders(num_kv_blocks)) < NumEmbeddingIds
    <3>1. Cardinality({}) = 0
      BY FS_EmptySet
    <3> QED BY <1>3, <1>n, <3>1 DEF NumEmbeddingIds
  <2>2. ~(NumBlocksFor(tokens[r]) - num_kv_blocks[r] <= NumFree(num_kv_blocks))
    BY <1>7, <2>1 DEF CanAllocate
  <2>3. NumFree(num_kv_blocks) = NumBlocks
    BY <1>3, <1>n DEF NumFree
  <2>4. NumBlocksFor(tokens[r]) > NumBlocks
    <3> DEFINE x == NumBlocksFor(tokens[r])
    <3>1. x \in Nat /\ ~(x - 0 <= NumBlocks)
      BY <1>k, <2>2, <2>3
    <3> HIDE DEF x
    <3>2. x > NumBlocks
      BY <1>n, <3>1
    <3> QED BY <3>2 DEF x
  <2> QED BY <2>4 DEF TooLong
<1> QED BY <1>5, <1>6, <1>7 DEF PrefillEnd, BlocksExhausted

\* The request a decode fails is too long.
LEMMA DecodeFailsTooLong ==
    ASSUME IInv, NEW off \in BOOLEAN, DecodeTooLong(off)
    PROVE  TooLong(Head(running_queue[off]))
<1> DEFINE r == Head(running_queue[off])
           h == num_kv_blocks[r]
           x == NumBlocksFor(tokens[r])
<1>1. h > 0 /\ r \in Requests
  BY DecodeLooped DEF DecodeTooLong, DecodeStuck
<1>2. ~(x - h <= NumBlocks - h)
  <2>1. ~CanAllocate(num_kv_blocks, r) /\ NumUsed(num_kv_blocks) = h
    BY DEF DecodeTooLong, DecodeStuck
  <2> QED BY <1>1, <2>1 DEF CanAllocate, NumFree
<1>3. h \in Nat /\ x \in Nat /\ NumBlocks \in Nat
  <2>1. num_kv_blocks[r] \in Nat
    BY <1>1 DEF IInv, PlaceInv, TypeOK
  <2>2. tokens[r] \in Prompt[r] .. Prompt[r] + MaxGen[r] /\ tokens[r] \in Nat
    BY <1>1 DEF IInv, PlaceInv, TypeOK
  <2>3. Prompt[r] \in Nat \ {0} /\ MaxGen[r] \in Nat /\ NumBlocks \in Nat
    BY <1>1, SchedulerAssumption
  <2>4. tokens[r] \in Nat \ {0}
    BY <2>2, <2>3
  <2> QED BY <2>1, <2>3, <2>4, BlocksCoverTokens
<1>4. x > NumBlocks
  <2> HIDE DEF x, h
  <2> QED BY <1>2, <1>3
<1> QED BY <1>4 DEF TooLong

\* Nothing happens to a request that was answered.
LEMMA AnsweredStays ==
    ASSUME IInv, [Next]_vars, NEW r \in Requests, r \in submitted, responses[r] # 0
    PROVE  r \in submitted' /\ responses'[r] # 0 /\ tokens'[r] = tokens[r]
<1>t. responses \in [Requests -> Nat] /\ tokens \in [Requests -> Nat]
  BY DEF IInv, PlaceInv, TypeOK
<1>1. r \notin Unanswered
  BY DEF Unanswered
<1>2. ASSUME NEW s, responses' = Respond(s) PROVE responses'[r] # 0
  <2>1. responses'[r] = responses[r] + (IF r \in s THEN 1 ELSE 0)
    BY <1>2 DEF Respond
  <2> QED BY <1>t, <2>1
<1>3. CASE \E q \in Requests : SubmitStep(q)
  BY <1>2, <1>3 DEF SubmitStep
<1>4. CASE \E s \in SUBSET Unanswered : AnswerStep(s)
  BY <1>2, <1>4 DEF AnswerStep
<1>5. CASE TokenStep
  <2>1. r \notin InBatch /\ tokens'[r] = tokens[r] + (IF r \in InBatch THEN 1 ELSE 0)
    BY <1>1, <1>5 DEF TokenStep, Appended
  <2>2. tokens'[r] = tokens[r]
    BY <1>t, <2>1
  <2> QED BY <1>5, <2>2 DEF TokenStep
<1>6. CASE QuietStep
  BY <1>6 DEF QuietStep
<1> QED BY <1>3, <1>4, <1>5, <1>6, KindsOfSteps

\* Only the two failing branches add to `failed`, and what they add is too
\* long and answered.
LEMMA FailsTooLong ==
    ASSUME IInv, Offline = {}, Threshold > 0, [Next]_vars
    PROVE  \/ UNCHANGED failed
           \/ \E r \in Requests : /\ failed' = failed \cup {r} /\ TooLong(r) /\ r \in Unanswered
                                  /\ responses' = Respond({r}) /\ UNCHANGED <<tokens, submitted>>
<1> DEFINE Goal == \/ UNCHANGED failed
                   \/ \E r \in Requests : /\ failed' = failed \cup {r} /\ TooLong(r) /\ r \in Unanswered
                                          /\ responses' = Respond({r}) /\ UNCHANGED <<tokens, submitted>>
<1>p. Queued \cup waiting \cup Online \cup OfflineRunning \cup InBatch \cup finished_requests = Unanswered
  BY DEF IInv, PlaceInv, PlacesComplete
<1>1. ASSUME NEW off \in BOOLEAN, PrefillEnd(off) PROVE Goal
  <2> DEFINE r == Top(Waiting(off))
  <2>1. CASE NothingRuns(off) /\ LoopOver(off)
    BY <1>1, <2>1 DEF PrefillEnd, Die
  <2>2. CASE ~NothingRuns(off)
    <3>1. failed' = failed \cup {}
      BY <1>1, <2>2 DEF PrefillEnd
    <3> QED BY <3>1
  <2>3. CASE NothingRuns(off) /\ ~LoopOver(off)
    <3>1. r \in waiting /\ r \in Requests
      BY <2>3, WaitingTop DEF NothingRuns, IInv, PlaceInv
    <3>2. TooLong(r)
      BY <1>1, <2>3, PrefillFailsTooLong
    <3>3. failed' = failed \cup {r} /\ responses' = Respond({r}) /\ UNCHANGED <<tokens, submitted>>
      BY <1>1, <2>3 DEF PrefillEnd, clientVars
    <3> HIDE DEF r
    <3> QED BY <1>p, <3>1, <3>2, <3>3
  <2> HIDE DEF Goal
  <2> QED BY <2>1, <2>2, <2>3
<1>2. ASSUME NEW off \in BOOLEAN, DecodeFail(off) PROVE Goal
  <2> DEFINE r == Head(running_queue[off])
  <2>1. DecodeTooLong(off) /\ DecodeLoops(off)
    BY <1>2 DEF DecodeFail, DecodeTooLong, DecodeStuck
  <2>2. r \in Range(running_queue[off])
    BY <2>1, DecodeLooped
  <2>3. r \in Online \cup OfflineRunning /\ r \in Requests
    BY <2>2, RunningQueueApart
  <2>4. TooLong(r)
    BY <2>1, DecodeFailsTooLong
  <2>5. \/ UNCHANGED failed
        \/ failed' = failed \cup {r} /\ responses' = Respond({r}) /\ UNCHANGED <<tokens, submitted>>
    BY <1>2 DEF DecodeFail, Die, clientVars
  <2> HIDE DEF r
  <2> QED BY <1>p, <2>3, <2>4, <2>5
<1>3. ASSUME Drain \/ Requeue \/ Dispatch \/ UNCHANGED vars PROVE UNCHANGED failed
  BY <1>3 DEF Drain, Requeue, Dispatch, Die, vars
<1>4. ASSUME NEW x, Reap(x) \/ EngineStep(x) \/ AddRequest(x) PROVE UNCHANGED failed
  BY <1>4 DEF Reap, EngineStep, AddRequest
<1>5. ASSUME NEW off \in BOOLEAN,
             \/ PrefillDrop(off) \/ PrefillAdmit(off) \/ PrefillPreempt(off)
             \/ DecodeSchedule(off) \/ DecodePreempt(off) \/ DecodeEnd(off)
      PROVE  UNCHANGED failed
  BY <1>5 DEF PrefillDrop, PrefillAdmit, PrefillPreempt, DecodeSchedule, DecodePreempt, Preempt, DecodeEnd
<1>6. ASSUME NEW r, NEW d, StreamCallback(r, d) PROVE UNCHANGED failed
  BY <1>6 DEF StreamCallback
<1>7. CASE SchedulerThread
  <2> HIDE DEF Goal
  <2>1. UNCHANGED failed => Goal
    BY DEF Goal
  <2>2. Goal
    BY <1>1, <1>2, <1>3, <1>4, <1>5, <1>7, <2>1 DEF SchedulerThread
  <2> QED BY <2>2 DEF Goal
<1>8. CASE \E r \in Requests : AddRequest(r)
  BY <1>4, <1>8
<1>9. CASE \E r \in Stream, delivered \in BOOLEAN : StreamCallback(r, delivered)
  BY <1>6, <1>9
<1> QED BY <1>3, <1>7, <1>8, <1>9 DEF Next

\* Failed requests stay answered and too long.
LEMMA FailedStep ==
    ASSUME IInv, FailedAnswered, FailedOnlyIfTooLong, Offline = {}, Threshold > 0, [Next]_vars
    PROVE  FailedAnswered' /\ FailedOnlyIfTooLong'
<1>t. responses \in [Requests -> Nat] /\ failed \subseteq Requests
  BY DEF IInv, PlaceInv, TypeOK
<1>1. ASSUME NEW r \in failed PROVE r \in submitted' /\ responses'[r] # 0 /\ tokens'[r] = tokens[r] /\ TooLong(r)
  BY <1>t, AnsweredStays DEF FailedAnswered, FailedOnlyIfTooLong, TooLong
<1>2. ASSUME NEW r \in failed' PROVE r \in submitted' /\ responses'[r] # 0 /\ tokens'[r] = tokens[r] /\ TooLong(r)
  <2>1. CASE r \in failed
    BY <1>1, <2>1
  <2>2. CASE r \notin failed
    <3>1. /\ r \in Requests /\ TooLong(r) /\ r \in Unanswered
          /\ responses' = Respond({r}) /\ UNCHANGED <<tokens, submitted>>
      BY <1>2, <2>2, FailsTooLong
    <3>2. responses'[r] = responses[r] + 1
      BY <3>1 DEF Respond
    <3>3. responses'[r] # 0
      BY <1>t, <3>1, <3>2
    <3> QED BY <3>1, <3>3 DEF Unanswered
  <2> QED BY <2>1, <2>2
<1>3. FailedAnswered'
  BY <1>2 DEF FailedAnswered
<1>4. FailedOnlyIfTooLong'
  <2> SUFFICES ASSUME NEW r \in failed'
               PROVE  NumBlocksFor(tokens'[r]) > NumBlocks \/ tokens'[r] > MaxTokensPerBatch
    BY DEF FailedOnlyIfTooLong, NumBlocksFor
  <2>1. tokens'[r] = tokens[r] /\ TooLong(r)
    BY <1>2
  <2> QED BY <2>1 DEF TooLong
<1> QED BY <1>3, <1>4

\* Without offline requests, a request answered "Request prompt is too long" or
\* failed while it decodes really needs more than the whole memory or the token
\* budget of a batch.  The threshold must not be zero: with it every prefill fails.
THEOREM OnlyTooLongFails ==
    ASSUME Offline = {}, Threshold > 0
    PROVE  Spec => []FailedOnlyIfTooLong
<1>1. Init => FailedAnswered /\ FailedOnlyIfTooLong
  BY DEF Init, FailedAnswered, FailedOnlyIfTooLong
<1>2. IInv /\ FailedAnswered /\ FailedOnlyIfTooLong /\ [Next]_vars => FailedAnswered' /\ FailedOnlyIfTooLong'
  BY FailedStep
<1> QED BY <1>1, <1>2, IInvHolds, PTL DEF Spec
=============================================================================
