------------------------ MODULE HierarchyCacheProof ------------------------
(***************************************************************************)
(* HierarchyCache for any requests, blocks and workers: its types, that    *)
(* the device and the host tier offer only what was written for them, and  *)
(* that a prefetch without a fault is not waited for in vain.              *)
(*                                                                         *)
(* IInv, the inductive invariant, says of every block what kind of         *)
(* reference it has.  A block of a table beyond the count is open: that    *)
(* position is its only reference, so that a copy or a forward pass may    *)
(* write it.  Every other reference relies on the contents.                *)
(***************************************************************************)
EXTENDS HierarchyCache, QueueLemmas, TLAPS

Queue == loads \cup copying

\* The batch and its loads.
Batched ==
    /\ pc = "build" => copying = {}
    /\ pc = "run" => loads = {} /\ \A s \in Seqs : status[s] # "placed"

\* What the tables of a sequence have in each status.
Shape(s) ==
    /\ status[s] \in {"new", "waiting", "gone"} => dev[s] = <<>> /\ kv[s] = 0
    /\ status[s] \in {"new", "gone"} => host[s] = <<>> /\ hkv[s] = 0
    /\ status[s] = "new" => full[s] = PromptBlocks[s] /\ task[s] = PerWorker(<<>>)
    /\ status[s] \in {"placed", "prefill", "running"} => Len(dev[s]) = full[s] + 1
    /\ status[s] \in {"running", "decode"} => kv[s] = full[s]
    /\ status[s] = "decode" => Len(dev[s]) = full[s] + 2 /\ full[s] < Len(Path[s])
    /\ kv[s] <= full[s] /\ hkv[s] <= full[s]
Shapes == \A s \in Seqs : Shape(s)

\* A prefetch the scheduler waits for, and one it does not.
Open(s) == {w \in Workers : client[s][w] = "open"}
Awaited(s) ==
    /\ s \in awaiting =>
         /\ status[s] = "waiting" /\ full[s] = PromptBlocks[s]
         /\ Len(host[s]) = PromptBlocks[s] + 1
    /\ s \notin awaiting =>
         /\ flag[s] = 0 /\ result[s] = PerWorker(0)
         /\ stream[s] = PerWorker(<<>>) /\ client[s] = PerWorker("closed")
    /\ Cardinality(Open(s)) <= flag[s]
    /\ s \notin faulty =>
         /\ flag[s] = Cardinality(Open(s))
         /\ \A w \in Open(s) : task[s][w] # <<>> \/ 0 \in Range(stream[s][w])
Awaits == \A s \in Seqs : Awaited(s)

\* c[i] is the count after i of the reports on their way, and o what the
\* worker has behind it: the blocks up to the count are fetched, the task is
\* what follows o.
Progress(s, w, c, o) ==
    /\ c[0] = result[s][w]
    /\ \A i \in 1 .. Len(stream[s][w]) : c[i] = c[i - 1] + stream[s][w][i]
    /\ \A i \in 0 .. Len(stream[s][w]) : c[i] <= o
    /\ client[s][w] = "open" => c[Len(stream[s][w])] = o
    /\ hkv[s] + o + Len(task[s][w]) <= PromptBlocks[s]
    /\ \A i \in 1 .. Len(task[s][w]) :
         task[s][w][i] = [blk |-> host[s][hkv[s] + o + i], key |-> Path[s][hkv[s] + o + i]]
    /\ \A i \in 0 .. Len(stream[s][w]) : \A j \in hkv[s] + 1 .. hkv[s] + c[i] :
         Good(hostKV[w][host[s][j]], Path[s][j])
Fetching ==
    \A s \in awaiting : \A w \in Workers :
        \E c \in [0 .. Len(stream[s][w]) -> 0 .. PromptBlocks[s]] :
        \E o \in 0 .. PromptBlocks[s] : Progress(s, w, c, o)

\* References to device blocks.
DevOwn ==
    /\ \A k, m \in DOMAIN dcache : dcache[k] = dcache[m] => k = m
    /\ \A s \in Seqs : \A i \in 1 .. kv[s] : \A k \in DOMAIN dcache :
         dcache[k] = dev[s][i] => k = Path[s][i]
    /\ \A s, t \in Seqs : \A i \in 1 .. kv[s] : \A j \in 1 .. kv[t] :
         dev[s][i] = dev[t][j] => Path[s][i] = Path[t][j]
    /\ \A s \in Seqs : \A i \in kv[s] + 1 .. Len(dev[s]) :
         /\ \A t \in Seqs : \A j \in 1 .. Len(dev[t]) :
              dev[s][i] = dev[t][j] => s = t /\ i = j
         /\ \A k \in DOMAIN dcache : dcache[k] # dev[s][i]
         /\ \A p \in Pairs : p.src # dev[s][i]

\* What a device block relied upon for k has, or will have after the loads.
DevHas(d, k) ==
    /\ (\A l \in Queue : l.dst # d) => Good(devKV[d], k)
    /\ \A l \in Queue : l.dst = d /\ (\A m \in Queue : m.dst = d => m = l) => l.key = k
DevFill ==
    /\ \A k \in DOMAIN dcache : DevHas(dcache[k], k)
    /\ \A s \in Seqs : \A i \in 1 .. kv[s] : DevHas(dev[s][i], Path[s][i])
    /\ \A p \in Pairs : DevHas(p.src, p.key)

\* References to host blocks.
HostOwn ==
    /\ \A k, m \in DOMAIN hcache : hcache[k] = hcache[m] => k = m
    /\ \A s \in Seqs : \A i \in hkv[s] + 1 .. Len(host[s]) :
         /\ \A t \in Seqs : \A j \in 1 .. Len(host[t]) :
              host[s][i] = host[t][j] => s = t /\ i = j
         /\ \A k \in DOMAIN hcache : hcache[k] # host[s][i]
    /\ \A p \in Pairs :
         /\ \A q \in Pairs : p.dst = q.dst => p = q
         /\ \A s \in Seqs : \A i \in 1 .. Len(host[s]) : host[s][i] # p.dst
         /\ \A k \in DOMAIN hcache : hcache[k] # p.dst
    /\ \A f \in flying : offq \cap f.pairs = {}
    /\ \A f, g \in flying : f # g => f.pairs \cap g.pairs = {}

\* What a worker that has copied an offload has.
Copied ==
    \A f \in flying : \A w \in f.copied : \A p \in f.pairs : Good(hostKV[w][p.dst], p.key)

\* The types of all variables but late.
Types == SeqTypes /\ FetchTypes /\ TierTypes /\ DataTypes

IInv ==
    /\ Types /\ Batched /\ Shapes /\ Awaits /\ Fetching
    /\ DevOwn /\ DevFill /\ HostOwn /\ Copied /\ HostKVIntact

-----------------------------------------------------------------------------
\* Greatest and least elements.

\* The greatest element of a bounded set of natural numbers.
LEMMA MaxOfBounded ==
    ASSUME NEW S \in SUBSET Nat, S # {}, NEW b \in Nat, \A x \in S : x <= b
    PROVE  Max(S) \in S /\ \A y \in S : y <= Max(S)
<1> DEFINE T == {n \in Nat : \A x \in S : x <= n}
<1>1. b \in T
  OBVIOUS
<1>2. PICK m \in T : \A n \in T : m <= n
  BY <1>1, LeastElement
<1>3. m \in S
  <2> SUFFICES ASSUME m \notin S PROVE FALSE
    OBVIOUS
  <2>1. PICK x \in S : TRUE
    OBVIOUS
  <2>2. m \in Nat /\ \A y \in S : y <= m /\ y # m /\ y \in Nat
    BY <1>2
  <2>3. m - 1 \in Nat /\ \A y \in S : y <= m - 1
    BY <2>1, <2>2
  <2>4. m - 1 \in T
    BY <2>3
  <2> QED BY <1>2, <2>2, <2>4
<1>4. \A y \in S : m >= y
  BY <1>2
<1>5. \E x \in S : \A y \in S : x >= y
  BY <1>3, <1>4
<1>6. Max(S) \in S /\ \A y \in S : Max(S) >= y
  BY ONLY <1>5 DEF Max
<1> QED BY <1>6

\* The greatest and the least of two numbers.
LEMMA MaxOfTwo ==
    ASSUME NEW a \in Int, NEW b \in Int
    PROVE  Max({a, b}) = IF a >= b THEN a ELSE b
<1>1. \E x \in {a, b} : \A y \in {a, b} : x >= y
  OBVIOUS
<1>2. Max({a, b}) \in {a, b} /\ \A y \in {a, b} : Max({a, b}) >= y
  BY ONLY <1>1 DEF Max
<1> QED BY <1>2

\* The lesser of two numbers.
LEMMA MinOfTwo ==
    ASSUME NEW a \in Int, NEW b \in Int
    PROVE  Min({a, b}) = IF a <= b THEN a ELSE b
<1>1. \E x \in {a, b} : \A y \in {a, b} : x <= y
  OBVIOUS
<1>2. Min({a, b}) \in {a, b} /\ \A y \in {a, b} : Min({a, b}) <= y
  BY ONLY <1>1 DEF Min
<1> QED BY <1>2

\* The least element of a set of natural numbers.
LEMMA MinOfNats ==
    ASSUME NEW S \in SUBSET Nat, S # {}
    PROVE  Min(S) \in S /\ \A y \in S : Min(S) <= y
<1>1. \E x \in S : \A y \in S : x <= y
  BY LeastElement
<1> QED BY ONLY <1>1 DEF Min

\* The longest prefix with a property: MatchLen and the blocks a store has.
LEMMA LongestPrefix ==
    ASSUME NEW n \in Nat, NEW P \in SUBSET Nat,
           NEW m, m = Max({0} \cup {x \in 1 .. n : \A i \in 1 .. x : i \in P})
    PROVE  m \in 0 .. n /\ \A i \in 1 .. m : i \in P
<1> DEFINE S == {0} \cup {x \in 1 .. n : \A i \in 1 .. x : i \in P}
<1>1. S \in SUBSET Nat /\ S # {} /\ \A x \in S : x <= n
  OBVIOUS
<1>2. m = Max(S)
  OBVIOUS
<1> HIDE DEF S
<1>3. m \in S
  BY <1>1, <1>2, MaxOfBounded
<1> USE DEF S
<1>4. CASE m = 0
  BY ONLY <1>4, n \in Nat
<1>5. CASE m # 0
  BY <1>3, <1>5
<1> QED BY <1>4, <1>5

\* The elements of a finite set, as a sequence.
LEMMA SetAsQueue ==
    ASSUME NEW S, IsFiniteSet(S)
    PROVE  /\ SetToSeq(S) \in Seq(S) /\ Len(SetToSeq(S)) = Cardinality(S)
           /\ IsInjective(SetToSeq(S))
<1> DEFINE n == Cardinality(S)
<1>1. n \in Nat /\ ExistsBijection(1 .. n, S)
  BY FS_CardinalityType
<1>2. PICK f \in [1 .. n -> S] : \A a, b \in 1 .. n : f[a] = f[b] => a = b
  BY <1>1 DEF ExistsBijection, Bijection, Injection, IsInjective
<1>3. DOMAIN f = 1 .. n
  OBVIOUS
<1>4. IsInjective(f)
  BY ONLY <1>2, <1>3 DEF IsInjective
<1>5. SetToSeq(S) \in [1 .. n -> S] /\ IsInjective(SetToSeq(S))
  BY ONLY <1>4, f \in [1 .. n -> S] DEF SetToSeq
<1> HIDE DEF n
<1>6. ASSUME NEW q \in [1 .. n -> S] PROVE q \in Seq(S) /\ Len(q) = n
  BY <1>1
<1> QED BY <1>5, <1>6 DEF n

-----------------------------------------------------------------------------
\* What allocate(n) returns and leaves in the cache.

\* Picks returns distinct free blocks, as many as were asked for.
LEMMA PickedBlocks ==
    ASSUME NEW n \in Nat, NEW free, IsFiniteSet(free), n <= Cardinality(free), NEW targets,
           NEW g \in Picks(n, free, targets)
    PROVE  g \in Seq(free) /\ Len(g) = n /\ IsInjective(g)
<1> DEFINE A == free \cap targets
           B == free \ targets
           hit == SetToSeq(A)
           rest == SetToSeq(B)
<1>1. IsFiniteSet(A) /\ IsFiniteSet(B) /\ A \cap B = {} /\ A \cup B = free
  BY FS_Subset
<1>2. Cardinality(free) = Cardinality(A) + Cardinality(B)
  <2>1. Cardinality(A \cap B) = 0
    BY <1>1, FS_EmptySet
  <2>2. Cardinality(A \cup B) = Cardinality(A) + Cardinality(B) - Cardinality(A \cap B)
    BY <1>1, FS_Union
  <2>3. Cardinality(A) \in Nat /\ Cardinality(B) \in Nat
    BY <1>1, FS_CardinalityType
  <2> HIDE DEF A, B
  <2>4. Cardinality(A \cup B) = Cardinality(free)
    BY ONLY <1>1
  <2> QED BY <2>1, <2>2, <2>3, <2>4
<1>3. /\ hit \in Seq(A) /\ Len(hit) = Cardinality(A) /\ IsInjective(hit)
      /\ rest \in Seq(B) /\ Len(rest) = Cardinality(B) /\ IsInjective(rest)
  BY <1>1, SetAsQueue
<1>4. g = SubSeq(hit \o rest, 1, n) \/ g = SubSeq(rest \o hit, 1, n)
  BY DEF Picks
<1> HIDE DEF A, B, hit, rest
<1>5. Range(hit) \subseteq A /\ Range(rest) \subseteq B
  BY <1>3 DEF Range
<1>6. hit \in Seq(free) /\ rest \in Seq(free) /\ Range(hit) \cap Range(rest) = {}
  BY <1>1, <1>3, <1>5
<1>7. \A q \in {hit \o rest, rest \o hit} :
         q \in Seq(free) /\ Len(q) = Cardinality(free) /\ IsInjective(q)
  <2>1. /\ hit \o rest \in Seq(free) /\ Len(hit \o rest) = Len(hit) + Len(rest)
        /\ IsInjective(hit \o rest)
    BY <1>3, <1>6, ConcatQueue
  <2>2. /\ rest \o hit \in Seq(free) /\ Len(rest \o hit) = Len(rest) + Len(hit)
        /\ IsInjective(rest \o hit)
    BY <1>3, <1>6, ConcatQueue
  <2>3. Len(hit) + Len(rest) = Cardinality(free) /\ Len(rest) + Len(hit) = Cardinality(free)
    BY <1>2, <1>3, <1>6
  <2> QED BY <2>1, <2>2, <2>3
<1>8. ASSUME NEW q \in Seq(free), Len(q) = Cardinality(free), IsInjective(q)
      PROVE  LET v == SubSeq(q, 1, n) IN v \in Seq(free) /\ Len(v) = n /\ IsInjective(v)
  <2>1. n \in 0 .. Len(q)
    BY <1>8
  <2> QED BY <1>8, <2>1, SplitQueue
<1> QED BY <1>4, <1>7, <1>8

Allocated(n, pool, cache, held, a) ==
    /\ DOMAIN a.cache \subseteq DOMAIN cache
    /\ a.cache = [k \in DOMAIN a.cache |-> cache[k]]
    /\ a.got \in Seq(pool) /\ (a.got = <<>> \/ Len(a.got) = n)
    /\ \A i \in 1 .. Len(a.got) :
         a.got[i] \notin held /\ \A k \in DOMAIN a.cache : a.cache[k] # a.got[i]
    /\ \A i, j \in 1 .. Len(a.got) : a.got[i] = a.got[j] => i = j

\* What BlockManagerImpl::allocate returns is free and leaves the cache.
LEMMA AllocationFacts ==
    ASSUME NEW n \in Nat, NEW pool, IsFiniteSet(pool), NEW targets, NEW held,
           NEW cache, cache \in [DOMAIN cache -> pool],
           \A k, m \in DOMAIN cache : cache[k] = cache[m] => k = m,
           NEW a \in Allocations(n, pool, targets, cache, held)
    PROVE  Allocated(n, pool, cache, held, a)
<1> DEFINE idle == {k \in DOMAIN cache : cache[k] \notin held}
           free(c) == pool \ (held \cup Range(c))
           lack == n - Cardinality(free(cache))
           Left(gone) == [k \in DOMAIN cache \ gone |-> cache[k]]
<1>1. CASE lack > Cardinality(idle)
  <2>1. a = [cache |-> Left(idle), got |-> <<>>]
    BY <1>1 DEF Allocations
  <2>2. DOMAIN Left(idle) \subseteq DOMAIN cache /\ Left(idle) = [k \in DOMAIN Left(idle) |-> cache[k]]
    OBVIOUS
  <2>3. a.cache = Left(idle) /\ a.got = <<>>
    BY <2>1
  <2> HIDE DEF Left
  <2> QED BY <2>2, <2>3 DEF Allocated
<1>2. CASE ~(lack > Cardinality(idle))
  <2> DEFINE more == Max({lack, 0})
  <2>1. PICK gone \in kSubset(more, idle) :
           \E g \in Picks(n, free(Left(gone)), targets) : a = [cache |-> Left(gone), got |-> g]
    <3> DEFINE For(c) == {[cache |-> c, got |-> g] : g \in Picks(n, free(c), targets)}
               Some == {Left(gone) : gone \in kSubset(more, idle)}
    <3>1. a \in UNION {For(c) : c \in Some}
      BY <1>2, Zenon DEF Allocations
    <3> HIDE DEF For, Some
    <3>2. PICK c \in Some : a \in For(c)
      BY <3>1
    <3>3. PICK gone \in kSubset(more, idle) : c = Left(gone)
      BY <3>2 DEF Some
    <3> QED BY <3>2, <3>3 DEF For
  <2>2. PICK g \in Picks(n, free(Left(gone)), targets) : a = [cache |-> Left(gone), got |-> g]
    BY <2>1
  <2>3. gone \subseteq idle /\ Cardinality(gone) = more
    BY DEF kSubset
  <2> DEFINE out == {cache[k] : k \in gone}
             c == Left(gone)
  <2>4. IsFiniteSet(free(cache)) /\ IsFiniteSet(free(c)) /\ out \subseteq pool /\ IsFiniteSet(out)
    <3>1. out \subseteq pool
      BY <2>3
    <3> HIDE DEF out, c
    <3> QED BY <3>1, FS_Subset
  <2>5. Cardinality(out) = Cardinality(gone)
    <3> DEFINE f == [k \in gone |-> cache[k]]
    <3>1. f \in Bijection(gone, out)
      <4>1. f \in [gone -> out] /\ \A x, y \in gone : f[x] = f[y] => x = y
        BY <2>3
      <4>2. \A y \in out : \E x \in gone : f[x] = y
        OBVIOUS
      <4> HIDE DEF f, out
      <4> QED BY <4>1, <4>2 DEF Bijection, Injection, Surjection, IsInjective
    <3>2. ExistsBijection(gone, out)
      BY <3>1 DEF ExistsBijection
    <3>3. IsFiniteSet(gone)
      <4>1. f \in Injection(gone, out)
        BY <3>1 DEF Bijection
      <4> HIDE DEF f, out
      <4> QED BY <4>1, <2>4, FS_Injection
    <3> HIDE DEF out
    <3> QED BY <3>2, <3>3, FS_Bijection
  <2>6. free(cache) \cup out \subseteq free(c) /\ free(cache) \cap out = {}
    <3>1. \A k \in gone : k \in DOMAIN cache /\ cache[k] \notin held /\ cache[k] \in pool
      BY <2>3
    <3>2. DOMAIN c = DOMAIN cache \ gone /\ \A k \in DOMAIN c : c[k] = cache[k]
      OBVIOUS
    <3> HIDE DEF c
    <3>3. out \cap Range(c) = {}
      BY <3>1, <3>2 DEF Range
    <3>4. Range(c) \subseteq Range(cache)
      BY <3>2 DEF Range
    <3>5. out \subseteq Range(cache)
      BY <3>1 DEF Range
    <3> QED BY <2>4, <3>1, <3>3, <3>4, <3>5
  <2>7. n <= Cardinality(free(c))
    <3> DEFINE F == free(cache)
               G == free(c)
    <3>1. Cardinality(F \cup out) <= Cardinality(G)
      BY <2>4, <2>6, FS_Subset
    <3>2. Cardinality(F \cup out) = Cardinality(F) + Cardinality(out) - Cardinality(F \cap out)
      BY <2>4, FS_Union
    <3>3. Cardinality(F \cap out) = 0
      BY <2>6, FS_EmptySet
    <3>4. Cardinality(F) \in Nat /\ Cardinality(out) \in Nat /\ Cardinality(G) \in Nat
      BY <2>4, FS_CardinalityType
    <3>5. lack = n - Cardinality(F)
      OBVIOUS
    <3> HIDE DEF F, G, out, lack
    <3>6. more >= lack
      <4>1. lack \in Int
        BY <3>4, <3>5
      <4> QED BY <4>1, MaxOfTwo
    <3>7. more = Cardinality(out)
      BY <2>3, <2>5
    <3> HIDE DEF more
    <3> QED BY <3>1, <3>2, <3>3, <3>4, <3>5, <3>6, <3>7 DEF G
  <2>8. g \in Seq(free(c)) /\ Len(g) = n /\ IsInjective(g)
    <3> DEFINE G == free(c)
    <3>1. g \in Picks(n, G, targets) /\ IsFiniteSet(G) /\ n <= Cardinality(G)
      BY <2>2, <2>4, <2>7
    <3> HIDE DEF G
    <3>2. g \in Seq(G) /\ Len(g) = n /\ IsInjective(g)
      BY <3>1, PickedBlocks
    <3> QED BY <3>2 DEF G
  <2>9. a.cache = c /\ a.got = g
    BY <2>2
  <2>10. DOMAIN c \subseteq DOMAIN cache /\ c = [k \in DOMAIN c |-> cache[k]]
    OBVIOUS
  <2> HIDE DEF c
  <2>11. g \in Seq(pool) /\ \A i \in 1 .. Len(g) : g[i] \in free(c)
    BY <2>8
  <2>12. \A i \in 1 .. Len(g) : g[i] \notin held /\ \A k \in DOMAIN c : c[k] # g[i]
    BY <2>11 DEF Range
  <2>13. \A i, j \in 1 .. Len(g) : g[i] = g[j] => i = j
    BY <2>8 DEF IsInjective
  <2> QED BY <2>8, <2>9, <2>10, <2>11, <2>12, <2>13 DEF Allocated
<1> QED BY <1>1, <1>2

-----------------------------------------------------------------------------
\* Hashes, matches and the blocks that a cache takes in.

\* The hashes of a sequence: distinct, and the prompt fills some of them.
LEMMA PathFacts ==
    ASSUME NEW s \in Seqs
    PROVE  /\ Path[s] \in Seq(Keys) /\ Len(Path[s]) \in Nat /\ PromptBlocks[s] \in Nat \ {0}
           /\ PromptBlocks[s] <= Len(Path[s])
           /\ \A i \in 1 .. Len(Path[s]) : Path[s][i] \in Keys
           /\ \A t \in Seqs : \A i \in 1 .. Len(Path[s]) : \A j \in 1 .. Len(Path[t]) :
                Path[s][i] = Path[t][j] => i = j
<1>1. Path \in [Seqs -> Seq(Keys)] /\ PromptBlocks[s] \in 1 .. Len(Path[s])
  BY PathAssumption
<1>2. \A t \in Seqs : Path[t] \in Seq(Keys) /\ DOMAIN Path[t] = 1 .. Len(Path[t])
  BY <1>1
<1>3. \A t \in Seqs : \A i \in 1 .. Len(Path[s]) : \A j \in 1 .. Len(Path[t]) :
                Path[s][i] = Path[t][j] => i = j
  BY ONLY <1>2, PathAssumption, s \in Seqs
<1> QED BY <1>1, <1>2, <1>3

\* Blocks of the cache for the first hashes of a sequence.
IsMatch(s, pool, cache, m) ==
    /\ m \in Seq(pool) /\ Len(m) \in 0 .. full[s]
    /\ \A i \in 1 .. Len(m) : Path[s][i] \in DOMAIN cache /\ m[i] = cache[Path[s][i]]

\* PrefixCache::match returns the cached blocks of a prefix.
LEMMA MatchFacts ==
    ASSUME NEW s \in Seqs, full[s] \in Nat, full[s] <= Len(Path[s]), NEW pool, NEW cache,
           cache \in [DOMAIN cache -> pool]
    PROVE  IsMatch(s, pool, cache, Matched(s, cache))
<1> DEFINE n == MatchLen(s, cache)
           m == Matched(s, cache)
           P == {i \in Nat : Path[s][i] \in DOMAIN cache}
<1>1. n \in 0 .. full[s] /\ \A i \in 1 .. n : i \in P
  <2>1. {x \in 1 .. full[s] : \A i \in 1 .. x : Path[s][i] \in DOMAIN cache}
          = {x \in 1 .. full[s] : \A i \in 1 .. x : i \in P}
    OBVIOUS
  <2>2. n = Max({0} \cup {x \in 1 .. full[s] : \A i \in 1 .. x : i \in P})
    BY <2>1 DEF MatchLen
  <2> HIDE DEF n, P
  <2>3. P \in SUBSET Nat
    BY DEF P
  <2> DEFINE q == full[s]
  <2>4. q \in Nat /\ n = Max({0} \cup {x \in 1 .. q : \A i \in 1 .. x : i \in P})
    BY <2>2
  <2> HIDE DEF q
  <2>5. n \in 0 .. q /\ \A i \in 1 .. n : i \in P
    BY <2>3, <2>4, LongestPrefix, SMTT(20)
  <2> QED BY <2>5 DEF q
<1>2. m = [i \in 1 .. n |-> cache[Path[s][i]]]
  BY DEF Matched
<1>3. n \in Nat /\ n <= full[s] /\ \A i \in 1 .. n : Path[s][i] \in DOMAIN cache /\ cache[Path[s][i]] \in pool
  BY <1>1
<1> HIDE DEF m, n
<1>4. m \in [1 .. n -> pool] /\ \A i \in 1 .. n : m[i] = cache[Path[s][i]]
  BY <1>2, <1>3
<1>5. m \in Seq(pool) /\ Len(m) = n
  BY <1>3, <1>4
<1>6. /\ m \in Seq(pool) /\ Len(m) \in 0 .. full[s]
      /\ \A i \in 1 .. Len(m) : Path[s][i] \in DOMAIN cache /\ m[i] = cache[Path[s][i]]
  BY <1>3, <1>4, <1>5
<1>7. IsMatch(s, pool, cache, m)
  BY <1>6 DEF IsMatch
<1> QED BY <1>7 DEF m

\* dc has the entries of cache, and the complete blocks of s.
CachedOf(s, cache, dc) ==
    /\ dc = [k \in DOMAIN dc |-> dc[k]]
    /\ DOMAIN dc = DOMAIN cache \cup {Path[s][i] : i \in 1 .. kv[s]}
    /\ \A k \in DOMAIN dc :
         \/ k \in DOMAIN cache /\ dc[k] = cache[k]
         \/ \E i \in 1 .. kv[s] : Path[s][i] = k /\ dc[k] = dev[s][i]

\* BlockManagerPool::cache adds the complete blocks and replaces none.
LEMMA DevCachedFacts ==
    ASSUME NEW s, NEW cache
    PROVE  CachedOf(s, cache, DevCached(s, cache))
<1> DEFINE K == {Path[s][i] : i \in 1 .. kv[s]}
           new == [k \in K |-> dev[s][CHOOSE i \in 1 .. kv[s] : Path[s][i] = k]]
           dc == DevCached(s, cache)
<1>1. dc = Inserted(cache, new)
  BY DEF DevCached
<1>2. \A k \in K : \E i \in 1 .. kv[s] : Path[s][i] = k /\ new[k] = dev[s][i]
  OBVIOUS
<1>3. DOMAIN new = K
  OBVIOUS
<1> HIDE DEF new, dc
<1>4. DOMAIN dc = DOMAIN cache \cup K /\ dc = [k \in DOMAIN dc |-> dc[k]]
  BY <1>1, <1>3 DEF Inserted
<1>5. \A k \in DOMAIN dc : dc[k] = IF k \in DOMAIN cache THEN cache[k] ELSE new[k]
  BY <1>1, <1>3 DEF Inserted
<1>6. CachedOf(s, cache, dc)
  BY <1>2, <1>4, <1>5 DEF CachedOf
<1> QED BY <1>6 DEF dc

-----------------------------------------------------------------------------
\* Device blocks: what a step may do with the tables, the cache and the queues.

\* A position of a table stays, takes a block of the cache, or a free one.
DevKept(t, j) ==
    j <= Len(dev[t]) /\ dev'[t][j] = dev[t][j] /\ (j <= kv'[t] <=> j <= kv[t])
DevHit(t, j) ==
    j <= kv'[t] /\ Path[t][j] \in DOMAIN dcache /\ dev'[t][j] = dcache[Path[t][j]]
DevFresh(t, j) ==
    /\ dev'[t][j] \notin DevHeld
    /\ \A k \in DOMAIN dcache' : dcache'[k] # dev'[t][j]
    /\ \A u \in Seqs : \A i \in 1 .. Len(dev'[u]) : dev'[u][i] = dev'[t][j] => u = t /\ i = j
    /\ j <= kv'[t] => \E l \in Queue' : l.dst = dev'[t][j] /\ l.key = Path[t][j]

DevCounted(d, k) == \E t \in Seqs : \E j \in 1 .. kv[t] : dev[t][j] = d /\ Path[t][j] = k

DevStep ==
    /\ \A t \in Seqs : \A j \in 1 .. Len(dev'[t]) : DevKept(t, j) \/ DevHit(t, j) \/ DevFresh(t, j)
    /\ \A k \in DOMAIN dcache' :
         (k \in DOMAIN dcache /\ dcache'[k] = dcache[k]) \/ DevCounted(dcache'[k], k)
    /\ \A p \in Pairs' : p \in Pairs \/ DevCounted(p.src, p.key)
    /\ Queue \subseteq Queue'
    /\ \A l \in Queue' \ Queue : \E t \in Seqs : \E j \in 1 .. Len(dev'[t]) :
         DevFresh(t, j) /\ l.dst = dev'[t][j]
    /\ \A d \in DevBlocks : d \in DevHeld' \cup Range(dcache') => devKV'[d] = devKV[d]

\* Such a step keeps the kinds of reference to device blocks apart.
LEMMA DevStepKeepsOwn ==
    ASSUME Types, Types', DevOwn, DevStep
    PROVE  DevOwn'
<1>1. /\ \A t \in Seqs : kv[t] \in Nat /\ Len(dev[t]) \in Nat /\ kv[t] <= Len(dev[t])
      /\ \A t \in Seqs : kv'[t] \in Nat /\ Len(dev'[t]) \in Nat /\ kv'[t] <= Len(dev'[t])
  BY DEF Types, SeqTypes, FetchTypes, TierTypes, DataTypes
<1>2. \A t \in Seqs : \A j \in 1 .. Len(dev[t]) : dev[t][j] \in DevHeld
  BY DEF Types, SeqTypes, FetchTypes, TierTypes, DataTypes, DevHeld, HeldBy, Range
<1>3. \A p \in Pairs : p.src \in DevHeld
  BY DEF DevHeld
<1>4. /\ \A t \in Seqs : \A j \in 1 .. Len(dev'[t]) : DevKept(t, j) \/ DevHit(t, j) \/ DevFresh(t, j)
      /\ \A k \in DOMAIN dcache' :
           (k \in DOMAIN dcache /\ dcache'[k] = dcache[k]) \/ DevCounted(dcache'[k], k)
      /\ \A p \in Pairs' : p \in Pairs \/ DevCounted(p.src, p.key)
  BY DEF DevStep
\* Counted positions before the step.
<1>5. /\ \A d, k : DevCounted(d, k) => \A m \in DOMAIN dcache : dcache[m] = d => m = k
      /\ \A d, k, m : DevCounted(d, k) /\ DevCounted(d, m) => k = m
      /\ \A d, k : DevCounted(d, k) => d \in DevHeld
  <2>1. \A d, k : DevCounted(d, k) => d \in DevHeld
    BY <1>1, <1>2 DEF DevCounted
  <2>2. \A d, k : DevCounted(d, k) => \A m \in DOMAIN dcache : dcache[m] = d => m = k
    BY DEF DevCounted, DevOwn
  <2>3. \A d, k, m : DevCounted(d, k) /\ DevCounted(d, m) => k = m
    BY DEF DevCounted, DevOwn
  <2> QED BY <2>1, <2>2, <2>3
\* Counted positions after the step.
<1>6. ASSUME NEW t \in Seqs, NEW j \in 1 .. kv'[t]
      PROVE  \/ DevCounted(dev'[t][j], Path[t][j])
             \/ Path[t][j] \in DOMAIN dcache /\ dev'[t][j] = dcache[Path[t][j]]
             \/ DevFresh(t, j)
  <2>1. j \in 1 .. Len(dev'[t]) /\ j <= kv'[t] /\ j \in Nat
    BY <1>1
  <2>2. CASE DevKept(t, j)
    <3>1. j \in 1 .. kv[t] /\ dev'[t][j] = dev[t][j]
      BY <1>1, <2>1, <2>2 DEF DevKept
    <3> QED BY <3>1 DEF DevCounted
  <2> QED BY <1>4, <2>1, <2>2 DEF DevHit
<1>7. \A k, m \in DOMAIN dcache' : dcache'[k] = dcache'[m] => k = m
  <2>1. \A k, m \in DOMAIN dcache : dcache[k] = dcache[m] => k = m
    BY DEF DevOwn
  <2> QED BY <1>4, <1>5, <2>1
<1>8. ASSUME NEW s \in Seqs, NEW i \in 1 .. kv'[s], NEW k \in DOMAIN dcache', dcache'[k] = dev'[s][i]
      PROVE  k = Path[s][i]
  <2>1. ~DevFresh(s, i)
    BY <1>8 DEF DevFresh
  <2>2. \A m, n \in DOMAIN dcache : dcache[m] = dcache[n] => m = n
    BY DEF DevOwn
  <2> QED BY <1>4, <1>5, <1>6, <1>8, <2>1, <2>2
<1>9. ASSUME NEW s \in Seqs, NEW t \in Seqs, NEW i \in 1 .. kv'[s], NEW j \in 1 .. kv'[t],
             dev'[s][i] = dev'[t][j]
      PROVE  Path[s][i] = Path[t][j]
  <2>1. \A m, n \in DOMAIN dcache : dcache[m] = dcache[n] => m = n
    BY DEF DevOwn
  <2>2. i \in 1 .. Len(dev'[s]) /\ j \in 1 .. Len(dev'[t])
    BY <1>1
  <2>3. CASE DevFresh(s, i) \/ DevFresh(t, j)
    BY <1>9, <2>2, <2>3 DEF DevFresh
  <2>4. CASE ~DevFresh(s, i) /\ ~DevFresh(t, j)
    BY <1>5, <1>6, <1>9, <2>1, <2>4
  <2> QED BY <2>3, <2>4
<1>10. ASSUME NEW s \in Seqs, NEW i \in kv'[s] + 1 .. Len(dev'[s])
       PROVE  /\ \A t \in Seqs : \A j \in 1 .. Len(dev'[t]) : dev'[s][i] = dev'[t][j] => s = t /\ i = j
              /\ \A k \in DOMAIN dcache' : dcache'[k] # dev'[s][i]
              /\ \A p \in Pairs' : p.src # dev'[s][i]
  <2>1. i \in 1 .. Len(dev'[s]) /\ i \in Nat /\ ~(i <= kv'[s])
    BY <1>1
  <2>2. CASE DevFresh(s, i)
    <3>1. \A p \in Pairs' : p.src \in DevHeld
      BY <1>3, <1>4, <1>5
    <3>2. \A p \in Pairs' : p.src # dev'[s][i]
      BY <3>1, <2>2 DEF DevFresh
    <3> QED BY <2>1, <2>2, <3>2 DEF DevFresh
  <2>3. CASE DevKept(s, i)
    <3>1. i \in kv[s] + 1 .. Len(dev[s]) /\ i \in 1 .. Len(dev[s]) /\ dev'[s][i] = dev[s][i]
      BY <1>1, <2>1, <2>3 DEF DevKept
    <3>2. /\ \A t \in Seqs : \A j \in 1 .. Len(dev[t]) : dev[s][i] = dev[t][j] => s = t /\ i = j
          /\ \A k \in DOMAIN dcache : dcache[k] # dev[s][i]
          /\ \A p \in Pairs : p.src # dev[s][i]
      BY <3>1 DEF DevOwn
    <3>3. \A k : ~DevCounted(dev[s][i], k)
      <4>1. \A t \in Seqs : \A j \in 1 .. kv[t] : j \in 1 .. Len(dev[t])
        BY <1>1
      <4>2. i \notin 1 .. kv[s]
        BY <1>1, <3>1
      <4> QED BY <3>2, <4>1, <4>2 DEF DevCounted
    <3>4. \A k \in DOMAIN dcache' : dcache'[k] # dev[s][i]
      BY <1>4, <3>2, <3>3
    <3>5. \A p \in Pairs' : p.src # dev[s][i]
      BY <1>4, <3>2, <3>3
    <3>6. ASSUME NEW t \in Seqs, NEW j \in 1 .. Len(dev'[t]), dev[s][i] = dev'[t][j]
          PROVE  s = t /\ i = j
      <4>1. ~DevFresh(t, j)
        BY <1>2, <3>1, <3>6 DEF DevFresh
      <4>2. ~DevHit(t, j)
        BY <3>2, <3>6 DEF DevHit
      <4>3. DevKept(t, j)
        BY <1>4, <4>1, <4>2
      <4>4. j \in 1 .. Len(dev[t]) /\ dev'[t][j] = dev[t][j]
        BY <1>1, <4>3 DEF DevKept
      <4> QED BY <3>2, <3>6, <4>4
    <3> QED BY <3>1, <3>4, <3>5, <3>6
  <2> QED BY <1>4, <2>1, <2>2, <2>3 DEF DevHit
<1> QED BY <1>7, <1>8, <1>9, <1>10 DEF DevOwn

\* DevHas after a step.
DevWillHave(d, k) ==
    /\ (\A l \in Queue' : l.dst # d) => Good(devKV'[d], k)
    /\ \A l \in Queue' : l.dst = d /\ (\A m \in Queue' : m.dst = d => m = l) => l.key = k

\* Such a step keeps what device blocks are relied upon for.
LEMMA DevStepKeepsFill ==
    ASSUME Types, Types', DevFill, DevStep
    PROVE  DevFill'
<1>1. /\ \A t \in Seqs : kv[t] \in Nat /\ Len(dev[t]) \in Nat /\ kv[t] <= Len(dev[t])
      /\ \A t \in Seqs : kv'[t] \in Nat /\ Len(dev'[t]) \in Nat /\ kv'[t] <= Len(dev'[t])
      /\ \A t \in Seqs : \A j \in 1 .. Len(dev'[t]) : dev'[t][j] \in DevBlocks
      /\ \A k \in DOMAIN dcache' : dcache'[k] \in DevBlocks
  BY DEF Types, SeqTypes, FetchTypes, TierTypes, DataTypes
<1>2. \A t \in Seqs : \A j \in 1 .. Len(dev[t]) : dev[t][j] \in DevHeld
  BY DEF Types, SeqTypes, FetchTypes, TierTypes, DataTypes, DevHeld, HeldBy, Range
<1>3. /\ \A t \in Seqs : \A j \in 1 .. Len(dev'[t]) : dev'[t][j] \in DevHeld'
      /\ \A p \in Pairs' : p.src \in DevHeld' /\ p.src \in DevBlocks
  <2>1. \A t \in Seqs : \A j \in 1 .. Len(dev'[t]) : dev'[t][j] \in DevHeld'
    BY DEF Types, SeqTypes, FetchTypes, TierTypes, DataTypes, DevHeld, HeldBy, Range
  <2>2. \A p \in Pairs' : p.src \in DevHeld'
    BY DEF DevHeld
  <2>3. \A p \in Pairs' : p.src \in DevBlocks
    <3>1. Pairs' \subseteq PairSet(DevBlocks, HostBlocks)
      BY DEF Types, SeqTypes, FetchTypes, TierTypes, DataTypes, Pairs
    <3> QED BY <3>1 DEF PairSet
  <2> QED BY <2>1, <2>2, <2>3
<1>4. /\ \A t \in Seqs : \A j \in 1 .. Len(dev'[t]) : DevKept(t, j) \/ DevHit(t, j) \/ DevFresh(t, j)
      /\ \A k \in DOMAIN dcache' :
           (k \in DOMAIN dcache /\ dcache'[k] = dcache[k]) \/ DevCounted(dcache'[k], k)
      /\ \A p \in Pairs' : p \in Pairs \/ DevCounted(p.src, p.key)
      /\ Queue \subseteq Queue'
      /\ \A l \in Queue' \ Queue : \E t \in Seqs : \E j \in 1 .. Len(dev'[t]) :
           DevFresh(t, j) /\ l.dst = dev'[t][j]
      /\ \A d \in DevBlocks : d \in DevHeld' \cup Range(dcache') => devKV'[d] = devKV[d]
  BY DEF DevStep
<1>5. /\ \A d, k : DevCounted(d, k) => DevHas(d, k) /\ d \in DevHeld
      /\ \A k \in DOMAIN dcache : DevHas(dcache[k], k)
      /\ \A p \in Pairs : DevHas(p.src, p.key) /\ p.src \in DevHeld
  <2>1. \A d, k : DevCounted(d, k) => DevHas(d, k) /\ d \in DevHeld
    BY <1>1, <1>2 DEF DevCounted, DevFill
  <2>2. \A p \in Pairs : p.src \in DevHeld
    BY DEF DevHeld
  <2> QED BY <2>1, <2>2 DEF DevFill
\* A block that no position newly takes keeps its contents and its loads.
<1>6. ASSUME NEW d \in DevBlocks, NEW k, DevHas(d, k), d \in DevHeld' \cup Range(dcache'),
             \A t \in Seqs : \A j \in 1 .. Len(dev'[t]) : dev'[t][j] = d => ~DevFresh(t, j)
      PROVE  DevWillHave(d, k)
  <2>1. devKV'[d] = devKV[d]
    BY <1>4, <1>6
  <2>2. \A l \in Queue' : l.dst = d => l \in Queue
    BY <1>4, <1>6
  <2>3. \A l \in Queue : l \in Queue'
    BY <1>4
  <2>4. (\A l \in Queue' : l.dst # d) => Good(devKV'[d], k)
    BY <1>6, <2>1, <2>3 DEF DevHas
  <2>5. ASSUME NEW l \in Queue', l.dst = d, \A m \in Queue' : m.dst = d => m = l
        PROVE  l.key = k
    BY <1>6, <2>2, <2>3, <2>5 DEF DevHas
  <2> QED BY <2>4, <2>5 DEF DevWillHave
<1>7. ASSUME NEW k \in DOMAIN dcache' PROVE DevWillHave(dcache'[k], k)
  <2>1. DevHas(dcache'[k], k)
    BY <1>4, <1>5
  <2>2. dcache'[k] \in Range(dcache')
    BY DEF Range
  <2>3. \A t \in Seqs : \A j \in 1 .. Len(dev'[t]) : dev'[t][j] = dcache'[k] => ~DevFresh(t, j)
    BY DEF DevFresh
  <2> QED BY <1>1, <1>6, <2>1, <2>2, <2>3
<1>8. ASSUME NEW s \in Seqs, NEW i \in 1 .. kv'[s] PROVE DevWillHave(dev'[s][i], Path[s][i])
  <2>1. i \in 1 .. Len(dev'[s]) /\ i <= kv'[s] /\ i \in Nat
    BY <1>1
  <2>2. CASE DevFresh(s, i)
    <3>1. PICK l \in Queue' : l.dst = dev'[s][i] /\ l.key = Path[s][i]
      BY <2>1, <2>2 DEF DevFresh
    <3> QED BY <3>1 DEF DevWillHave
  <2>3. CASE ~DevFresh(s, i)
    <3>1. DevHas(dev'[s][i], Path[s][i])
      <4>1. CASE DevHit(s, i)
        BY <1>5, <4>1 DEF DevHit
      <4>2. CASE DevKept(s, i)
        <5>1. i \in 1 .. kv[s] /\ dev'[s][i] = dev[s][i]
          BY <1>1, <2>1, <4>2 DEF DevKept
        <5> QED BY <5>1 DEF DevFill
      <4> QED BY <1>4, <2>1, <2>3, <4>1, <4>2
    <3>2. \A t \in Seqs : \A j \in 1 .. Len(dev'[t]) : dev'[t][j] = dev'[s][i] => ~DevFresh(t, j)
      BY <2>1, <2>3 DEF DevFresh
    <3> QED BY <1>1, <1>3, <1>6, <2>1, <3>1, <3>2
  <2> QED BY <2>2, <2>3
<1>9. ASSUME NEW p \in Pairs' PROVE DevWillHave(p.src, p.key)
  <2>1. DevHas(p.src, p.key) /\ p.src \in DevHeld
    BY <1>4, <1>5
  <2>2. \A t \in Seqs : \A j \in 1 .. Len(dev'[t]) : dev'[t][j] = p.src => ~DevFresh(t, j)
    BY <2>1 DEF DevFresh
  <2> QED BY <1>3, <1>6, <2>1, <2>2
<1> QED BY <1>7, <1>8, <1>9 DEF DevFill, DevHas, DevWillHave, Good

-----------------------------------------------------------------------------
\* Host blocks: the same, for the steps that count nothing new.
HostKept(t, j) ==
    j <= Len(host[t]) /\ host'[t][j] = host[t][j] /\ (j <= hkv'[t] <=> j <= hkv[t])
HostHit(t, j) ==
    j <= hkv'[t] /\ Path[t][j] \in DOMAIN hcache /\ host'[t][j] = hcache[Path[t][j]]
HostFresh(t, j) ==
    /\ ~(j <= hkv'[t]) /\ host'[t][j] \notin HostHeld
    /\ \A k \in DOMAIN hcache' : hcache'[k] # host'[t][j]
    /\ \A u \in Seqs : \A i \in 1 .. Len(host'[u]) : host'[u][i] = host'[t][j] => u = t /\ i = j

\* A block that an offload will fill.
NewTarget(p) ==
    /\ \A t \in Seqs : \A j \in 1 .. Len(host'[t]) : host'[t][j] # p.dst
    /\ \A k \in DOMAIN hcache' : hcache'[k] # p.dst
    /\ \A q \in Pairs' : q.dst = p.dst => q = p

HostStep ==
    /\ \A t \in Seqs : \A j \in 1 .. Len(host'[t]) : HostKept(t, j) \/ HostHit(t, j) \/ HostFresh(t, j)
    /\ \A k \in DOMAIN hcache' : k \in DOMAIN hcache /\ hcache'[k] = hcache[k]
    /\ flying' = flying /\ offq \subseteq offq'
    /\ \A p \in offq' \ offq : p \notin Pairs /\ NewTarget(p)
    /\ \A w \in Workers : \A b \in HostBlocks :
         b \in HostHeld' \cup Range(hcache') => hostKV'[w][b] = hostKV[w][b]
    /\ store' = store

\* Such a step keeps what is known of the host tier.
LEMMA HostStepKeeps ==
    ASSUME Types, Types', HostOwn, Copied, HostKVIntact, HostStep
    PROVE  HostOwn' /\ Copied' /\ HostKVIntact'
<1>1. /\ \A t \in Seqs : hkv[t] \in Nat /\ Len(host[t]) \in Nat /\ hkv[t] <= Len(host[t])
      /\ \A t \in Seqs : hkv'[t] \in Nat /\ Len(host'[t]) \in Nat /\ hkv'[t] <= Len(host'[t])
      /\ \A t \in Seqs : \A j \in 1 .. Len(host'[t]) : host'[t][j] \in HostBlocks
      /\ \A k \in DOMAIN hcache' : hcache'[k] \in HostBlocks
  BY DEF Types, SeqTypes, FetchTypes, TierTypes, DataTypes
<1>2. /\ \A t \in Seqs : \A j \in 1 .. Len(host[t]) : host[t][j] \in HostHeld
      /\ \A t \in Seqs : \A j \in 1 .. Len(host'[t]) : host'[t][j] \in HostHeld'
  <2>1. \A t \in Seqs : host[t] \in Seq(HostBlocks) /\ host'[t] \in Seq(HostBlocks)
    BY DEF Types, SeqTypes, FetchTypes, TierTypes, DataTypes
  <2>2. \A t \in Seqs : \A j \in 1 .. Len(host[t]) : host[t][j] \in HostHeld
    BY <2>1 DEF HostHeld, HeldBy, Range
  <2>3. \A t \in Seqs : \A j \in 1 .. Len(host'[t]) : host'[t][j] \in HostHeld'
    BY <2>1 DEF HostHeld, HeldBy, Range
  <2> QED BY <2>2, <2>3
<1>3. /\ \A p \in Pairs : p.dst \in HostHeld
      /\ \A p \in Pairs' : p.dst \in HostHeld' /\ p.dst \in HostBlocks
  <2>1. Pairs' \subseteq PairSet(DevBlocks, HostBlocks)
    BY DEF Types, SeqTypes, FetchTypes, TierTypes, DataTypes, Pairs
  <2>2. \A p \in Pairs' : p.dst \in HostBlocks
    BY <2>1 DEF PairSet
  <2> QED BY <2>2 DEF HostHeld
<1>4. /\ \A t \in Seqs : \A j \in 1 .. Len(host'[t]) : HostKept(t, j) \/ HostHit(t, j) \/ HostFresh(t, j)
      /\ \A k \in DOMAIN hcache' : k \in DOMAIN hcache /\ hcache'[k] = hcache[k]
      /\ flying' = flying /\ offq \subseteq offq'
      /\ \A p \in offq' \ offq : p \notin Pairs /\ NewTarget(p)
      /\ \A w \in Workers : \A b \in HostBlocks :
           b \in HostHeld' \cup Range(hcache') => hostKV'[w][b] = hostKV[w][b]
      /\ store' = store
  BY DEF HostStep
<1>5. \A p \in Pairs' : p \in Pairs \/ NewTarget(p)
  BY <1>4 DEF Pairs
<1>6. HostOwn'
  <2>1. \A k, m \in DOMAIN hcache' : hcache'[k] = hcache'[m] => k = m
    BY <1>4 DEF HostOwn
  <2>2. ASSUME NEW s \in Seqs, NEW i \in hkv'[s] + 1 .. Len(host'[s])
        PROVE  /\ \A t \in Seqs : \A j \in 1 .. Len(host'[t]) :
                    host'[s][i] = host'[t][j] => s = t /\ i = j
               /\ \A k \in DOMAIN hcache' : hcache'[k] # host'[s][i]
    <3>1. i \in 1 .. Len(host'[s]) /\ i \in Nat /\ ~(i <= hkv'[s])
      BY <1>1
    <3>2. CASE HostFresh(s, i)
      BY <3>1, <3>2 DEF HostFresh
    <3>3. CASE HostKept(s, i)
      <4>1. i \in hkv[s] + 1 .. Len(host[s]) /\ i \in 1 .. Len(host[s]) /\ host'[s][i] = host[s][i]
        BY <1>1, <3>1, <3>3 DEF HostKept
      <4>2. /\ \A t \in Seqs : \A j \in 1 .. Len(host[t]) : host[s][i] = host[t][j] => s = t /\ i = j
            /\ \A k \in DOMAIN hcache : hcache[k] # host[s][i]
        BY <4>1 DEF HostOwn
      <4>3. ASSUME NEW t \in Seqs, NEW j \in 1 .. Len(host'[t]), host[s][i] = host'[t][j]
            PROVE  s = t /\ i = j
        <5>1. ~HostFresh(t, j)
          BY <1>2, <4>1, <4>3 DEF HostFresh
        <5>2. ~HostHit(t, j)
          BY <4>2, <4>3 DEF HostHit
        <5>3. HostKept(t, j)
          BY <1>4, <5>1, <5>2
        <5>4. j \in 1 .. Len(host[t]) /\ host'[t][j] = host[t][j]
          BY <1>1, <5>3 DEF HostKept
        <5> QED BY <4>2, <4>3, <5>4
      <4> QED BY <1>4, <4>1, <4>2, <4>3
    <3> QED BY <1>4, <3>1, <3>2, <3>3 DEF HostHit
  <2>3. ASSUME NEW p \in Pairs'
        PROVE  /\ \A q \in Pairs' : p.dst = q.dst => p = q
               /\ \A s \in Seqs : \A i \in 1 .. Len(host'[s]) : host'[s][i] # p.dst
               /\ \A k \in DOMAIN hcache' : hcache'[k] # p.dst
    <3>1. CASE NewTarget(p)
      BY <3>1 DEF NewTarget
    <3>2. CASE p \in Pairs
      <4>1. /\ \A q \in Pairs : p.dst = q.dst => p = q
            /\ \A s \in Seqs : \A i \in 1 .. Len(host[s]) : host[s][i] # p.dst
            /\ \A k \in DOMAIN hcache : hcache[k] # p.dst
        BY <3>2 DEF HostOwn
      <4>2. \A q \in Pairs' : p.dst = q.dst => p = q
        BY <1>5, <4>1 DEF NewTarget
      <4>3. ASSUME NEW s \in Seqs, NEW i \in 1 .. Len(host'[s]) PROVE host'[s][i] # p.dst
        <5>1. CASE HostKept(s, i)
          BY <1>1, <4>1, <5>1 DEF HostKept
        <5>2. CASE HostHit(s, i)
          BY <4>1, <5>2 DEF HostHit
        <5>3. CASE HostFresh(s, i)
          BY <1>3, <3>2, <5>3 DEF HostFresh
        <5> QED BY <1>4, <5>1, <5>2, <5>3
      <4> QED BY <1>4, <4>1, <4>2, <4>3
    <3> QED BY <1>5, <3>1, <3>2
  <2>4. \A f \in flying' : offq' \cap f.pairs = {}
    <3>1. \A f \in flying : \A p \in f.pairs : p \in Pairs /\ p \notin offq
      BY DEF HostOwn, Pairs
    <3> QED BY <1>4, <3>1
  <2>5. \A f, g \in flying' : f # g => f.pairs \cap g.pairs = {}
    BY <1>4 DEF HostOwn
  <2> QED BY <2>1, <2>2, <2>3, <2>4, <2>5 DEF HostOwn
<1>7. Copied'
  <2>1. ASSUME NEW f \in flying', NEW w \in f.copied, NEW p \in f.pairs
        PROVE  Good(hostKV'[w][p.dst], p.key)
    <3>1. f \in flying /\ f.copied \subseteq Workers
      BY <1>4 DEF Types, SeqTypes, FetchTypes, TierTypes, DataTypes
    <3>2. p \in Pairs'
      BY <1>4 DEF Pairs
    <3>3. hostKV'[w][p.dst] = hostKV[w][p.dst]
      BY <1>3, <1>4, <3>1, <3>2
    <3> QED BY <3>1, <3>3 DEF Copied
  <2> QED BY <2>1 DEF Copied, Good
<1>8. HostKVIntact'
  <2> SUFFICES ASSUME NEW w \in Workers
               PROVE  /\ \A k \in DOMAIN hcache' : Good(hostKV'[w][hcache'[k]], k)
                      /\ \A s \in Seqs : \A i \in 1 .. hkv'[s] :
                           Good(hostKV'[w][host'[s][i]], Path[s][i])
                      /\ \A k \in DOMAIN store'[w] : Good(store'[w][k], k)
    BY DEF HostKVIntact, Good
  <2>1. /\ \A k \in DOMAIN hcache : Good(hostKV[w][hcache[k]], k)
        /\ \A s \in Seqs : \A i \in 1 .. hkv[s] : Good(hostKV[w][host[s][i]], Path[s][i])
        /\ \A k \in DOMAIN store[w] : Good(store[w][k], k)
    BY DEF HostKVIntact
  <2>2. ASSUME NEW k \in DOMAIN hcache' PROVE Good(hostKV'[w][hcache'[k]], k)
    <3>1. hcache'[k] \in Range(hcache') /\ hcache'[k] \in HostBlocks
      BY <1>1 DEF Range
    <3> QED BY <1>4, <2>1, <3>1
  <2>3. ASSUME NEW s \in Seqs, NEW i \in 1 .. hkv'[s] PROVE Good(hostKV'[w][host'[s][i]], Path[s][i])
    <3>1. i \in 1 .. Len(host'[s]) /\ i <= hkv'[s]
      BY <1>1
    <3>2. hostKV'[w][host'[s][i]] = hostKV[w][host'[s][i]]
      BY <1>1, <1>2, <1>4, <3>1
    <3>3. CASE HostHit(s, i)
      BY <2>1, <3>2, <3>3 DEF HostHit
    <3>4. CASE HostKept(s, i)
      BY <1>1, <2>1, <3>1, <3>2, <3>4 DEF HostKept
    <3> QED BY <1>4, <3>1, <3>3, <3>4 DEF HostFresh
  <2> QED BY <1>4, <2>1, <2>2, <2>3
<1> QED BY <1>6, <1>7, <1>8

\* A prefetch that the step does not touch.
SameProgress(s, w) ==
    /\ hkv'[s] = hkv[s] /\ host'[s] = host[s] /\ result'[s][w] = result[s][w]
    /\ task'[s][w] = task[s][w] /\ stream'[s][w] = stream[s][w] /\ client'[s][w] = client[s][w]
    /\ \A j \in 1 .. Len(host[s]) : hostKV'[w][host[s][j]] = hostKV[w][host[s][j]]

\* A prefetch whose state and blocks are untouched has come as far as before.
LEMMA ProgressKept ==
    ASSUME Types, Types', Fetching, NEW s \in awaiting, NEW w \in Workers, SameProgress(s, w),
           Len(host[s]) = PromptBlocks[s] + 1
    PROVE  \E c \in [0 .. Len(stream'[s][w]) -> 0 .. PromptBlocks[s]] :
           \E o \in 0 .. PromptBlocks[s] : Progress(s, w, c, o)'
<1>1. PICK c \in [0 .. Len(stream[s][w]) -> 0 .. PromptBlocks[s]] :
         \E o \in 0 .. PromptBlocks[s] : Progress(s, w, c, o)
  BY DEF Fetching
<1>2. PICK o \in 0 .. PromptBlocks[s] : Progress(s, w, c, o)
  BY <1>1
<1>3. /\ s \in Seqs /\ hkv[s] \in Nat /\ PromptBlocks[s] \in Nat /\ Len(task[s][w]) \in Nat
      /\ \A j \in 1 .. PromptBlocks[s] : host[s][j] \in HostBlocks
  <2>1. s \in Seqs
    BY DEF Types, SeqTypes, FetchTypes, TierTypes, DataTypes
  <2>2. PromptBlocks[s] \in Nat
    BY <2>1, PathFacts
  <2>3. hkv[s] \in Nat /\ host[s] \in Seq(HostBlocks) /\ Len(task[s][w]) \in Nat
    BY <2>1 DEF Types, SeqTypes, FetchTypes, TierTypes, DataTypes
  <2> QED BY <2>1, <2>2, <2>3
<1>5. \A j \in 1 .. PromptBlocks[s] : hostKV'[w][host'[s][j]] = hostKV[w][host[s][j]]
  <2>1. /\ host'[s] = host[s]
        /\ \A j \in 1 .. Len(host[s]) : hostKV'[w][host[s][j]] = hostKV[w][host[s][j]]
    BY DEF SameProgress
  <2>2. \A j \in 1 .. PromptBlocks[s] : j \in 1 .. Len(host[s])
    BY ONLY <1>3, Len(host[s]) = PromptBlocks[s] + 1
  <2> QED BY ONLY <2>1, <2>2
<1>6. \A i \in 0 .. Len(stream[s][w]) : \A j \in hkv[s] + 1 .. hkv[s] + c[i] :
         j \in 1 .. PromptBlocks[s]
  <2>1. /\ \A i \in 0 .. Len(stream[s][w]) : c[i] <= o
        /\ hkv[s] + o + Len(task[s][w]) <= PromptBlocks[s]
    BY <1>2 DEF Progress
  <2> SUFFICES ASSUME NEW i \in 0 .. Len(stream[s][w]) PROVE hkv[s] + c[i] <= PromptBlocks[s] /\ c[i] \in Nat
    BY <1>3
  <2>2. c[i] \in 0 .. PromptBlocks[s] /\ c[i] <= o
    BY <2>1
  <2> QED BY ONLY <1>3, <2>1, <2>2, o \in 0 .. PromptBlocks[s]
<1>7. Progress(s, w, c, o)'
  <2>1. \A i \in 0 .. Len(stream[s][w]) : \A j \in hkv[s] + 1 .. hkv[s] + c[i] :
          Good(hostKV'[w][host'[s][j]], Path[s][j])
    BY <1>2, <1>5, <1>6 DEF Progress
  <2>2. /\ c[0] = result'[s][w]
        /\ \A i \in 1 .. Len(stream'[s][w]) : c[i] = c[i - 1] + stream'[s][w][i]
        /\ \A i \in 0 .. Len(stream'[s][w]) : c[i] <= o
        /\ client'[s][w] = "open" => c[Len(stream'[s][w])] = o
        /\ hkv'[s] + o + Len(task'[s][w]) <= PromptBlocks[s]
        /\ \A i \in 1 .. Len(task'[s][w]) :
             task'[s][w][i] = [blk |-> host'[s][hkv'[s] + o + i], key |-> Path[s][hkv'[s] + o + i]]
    BY <1>2 DEF Progress, SameProgress
  <2>3. \A i \in 0 .. Len(stream'[s][w]) : \A j \in hkv'[s] + 1 .. hkv'[s] + c[i] :
          Good(hostKV'[w][host'[s][j]], Path[s][j])
    BY <2>1 DEF SameProgress
  <2> QED BY <2>2, <2>3 DEF Progress, Good
<1>8. stream'[s][w] = stream[s][w]
  BY DEF SameProgress
<1> QED BY <1>7, <1>8

\* A prefetch of a step that writes no block that is held.
SameFetch(s, w) ==
    /\ hkv'[s] = hkv[s] /\ host'[s] = host[s] /\ result'[s][w] = result[s][w]
    /\ task'[s][w] = task[s][w] /\ stream'[s][w] = stream[s][w] /\ client'[s][w] = client[s][w]
    /\ \A b \in HostBlocks :
         b \in HostHeld' \cup Range(hcache') => hostKV'[w][b] = hostKV[w][b]

\* The same when the blocks stay held, so that their contents stay.
LEMMA FetchKept ==
    ASSUME Types, Types', Fetching, NEW s \in awaiting, NEW w \in Workers, SameFetch(s, w),
           Len(host[s]) = PromptBlocks[s] + 1
    PROVE  \E c \in [0 .. Len(stream'[s][w]) -> 0 .. PromptBlocks[s]] :
           \E o \in 0 .. PromptBlocks[s] : Progress(s, w, c, o)'
<1>1. s \in Seqs
  BY DEF Types, SeqTypes, FetchTypes, TierTypes, DataTypes
<1>2. host'[s] \in Seq(HostBlocks)
  BY <1>1 DEF Types, SeqTypes, FetchTypes, TierTypes, DataTypes
<1>3. \A j \in 1 .. Len(host'[s]) : host'[s][j] \in HostHeld' /\ host'[s][j] \in HostBlocks
  BY <1>1, <1>2 DEF HostHeld, HeldBy, Range
<1>4. SameProgress(s, w)
  BY <1>3 DEF SameProgress, SameFetch
<1> QED BY <1>4, ProgressKept

-----------------------------------------------------------------------------
\* Types by its parts.
LEMMA TypeParts ==
    /\ Types <=> SeqTypes /\ FetchTypes /\ TierTypes /\ DataTypes
    /\ Types' <=> SeqTypes' /\ FetchTypes' /\ TierTypes' /\ DataTypes'
BY DEF Types

\* What a step leaves of the contents.
DevAgrees == \A d \in DevBlocks : d \in DevHeld' \cup Range(dcache') => devKV'[d] = devKV[d]
HostAgrees ==
    \A w \in Workers : \A b \in HostBlocks :
        b \in HostHeld' \cup Range(hcache') => hostKV'[w][b] = hostKV[w][b]

\* Scrub wipes only what nothing refers to.
LEMMA ScrubFacts ==
    ASSUME DataTypes, Scrub
    PROVE  DataTypes' /\ DevAgrees /\ HostAgrees /\ store' = store
<1>1. Junk \in Content
  BY DEF Content
<1> DEFINE D == DevHeld' \cup Range(dcache')
           H == HostHeld' \cup Range(hcache')
<1>2. /\ devKV' = [b \in DevBlocks |-> IF b \in D THEN devKV[b] ELSE Junk]
      /\ hostKV' = [w \in Workers |-> [b \in HostBlocks |-> IF b \in H THEN hostKV[w][b] ELSE Junk]]
      /\ store' = store
  BY DEF Scrub
<1>3. devKV \in [DevBlocks -> Content] /\ hostKV \in [Workers -> [HostBlocks -> Content]]
  BY DEF DataTypes
<1> HIDE DEF D, H
<1>4. devKV' \in [DevBlocks -> Content] /\ hostKV' \in [Workers -> [HostBlocks -> Content]]
  BY <1>1, <1>2, <1>3
<1>5. DataTypes'
  BY <1>2, <1>4 DEF DataTypes
<1>6. (\A d \in DevBlocks : d \in D => devKV'[d] = devKV[d])
      /\ (\A w \in Workers : \A b \in HostBlocks : b \in H => hostKV'[w][b] = hostKV[w][b])
  BY <1>2
<1> QED BY <1>2, <1>5, <1>6 DEF DevAgrees, HostAgrees, D, H

\* Untouched contents agree.
LEMMA DataSame ==
    ASSUME DataTypes, UNCHANGED dataVars
    PROVE  DataTypes' /\ DevAgrees /\ HostAgrees /\ store' = store
BY DEF DataTypes, dataVars, DevAgrees, HostAgrees

\* Steps that leave the references of a tier alone.
LEMMA SameDev ==
    ASSUME SeqTypes, UNCHANGED <<dev, kv, dcache, Queue>>, Pairs' \subseteq Pairs, DevAgrees
    PROVE  DevStep
<1>1. \A t \in Seqs : \A j \in 1 .. Len(dev'[t]) : DevKept(t, j)
  BY DEF DevKept, SeqTypes
<1> QED BY <1>1 DEF DevStep, DevAgrees

\* A step that leaves the host tier alone is a step of it.
LEMMA SameHost ==
    ASSUME SeqTypes, UNCHANGED <<host, hkv, hcache, offq, flying, store>>, HostAgrees
    PROVE  HostStep
<1>1. \A t \in Seqs : \A j \in 1 .. Len(host'[t]) : HostKept(t, j)
  BY DEF HostKept, SeqTypes
<1> QED BY <1>1 DEF HostStep, HostAgrees

\* The pairs of an offload are those queued and those under way.
LEMMA SamePairs ==
    ASSUME UNCHANGED <<offq, flying>>
    PROVE  Pairs' = Pairs
BY DEF Pairs

\* Steps that leave the prefetches alone.
LEMMA SameFetches ==
    ASSUME IInv, Types', UNCHANGED fetchVars, HostAgrees,
           \A s \in awaiting : status'[s] = status[s] /\ full'[s] = full[s]
                               /\ host'[s] = host[s] /\ hkv'[s] = hkv[s]
    PROVE  Awaits' /\ Fetching'
<1>1. /\ awaiting' = awaiting /\ flag' = flag /\ result' = result /\ task' = task
      /\ stream' = stream /\ client' = client /\ faulty' = faulty
  BY DEF fetchVars
<1>2. Types /\ Awaits /\ Fetching
  BY DEF IInv
<1>3. Awaits'
  <2> SUFFICES ASSUME NEW s \in Seqs PROVE Awaited(s)'
    BY DEF Awaits
  <2>1. Awaited(s)
    BY <1>2 DEF Awaits
  <2>2. Open(s)' = Open(s)
    BY <1>1 DEF Open
  <2> QED BY <1>1, <2>1, <2>2 DEF Awaited
<1>4. Fetching'
  <2> SUFFICES ASSUME NEW s \in awaiting, NEW w \in Workers
               PROVE  \E c \in [0 .. Len(stream'[s][w]) -> 0 .. PromptBlocks[s]] :
                      \E o \in 0 .. PromptBlocks[s] : Progress(s, w, c, o)'
    BY <1>1 DEF Fetching
  <2>1. Len(host[s]) = PromptBlocks[s] + 1
    BY <1>2 DEF Awaits, Awaited, Types, SeqTypes, FetchTypes, TierTypes, DataTypes
  <2>2. SameFetch(s, w)
    BY <1>1 DEF SameFetch, HostAgrees
  <2> QED BY <1>2, <2>1, <2>2, FetchKept
<1> QED BY <1>3, <1>4

\* The parts of the invariant that DevStep and HostStep take care of.
LEMMA IInvAfterStep ==
    ASSUME IInv, Types', Batched', Shapes', Awaits', Fetching', DevStep, HostStep
    PROVE  IInv'
<1>1. Types /\ DevOwn /\ DevFill /\ HostOwn /\ Copied /\ HostKVIntact
  BY DEF IInv
<1>2. DevOwn' /\ DevFill'
  BY <1>1, DevStepKeepsOwn, DevStepKeepsFill
<1>3. HostOwn' /\ Copied' /\ HostKVIntact'
  BY <1>1, HostStepKeeps
<1> QED BY <1>2, <1>3 DEF IInv

-----------------------------------------------------------------------------
\* The steps of a prefetch.

\* The open streams of a prefetch can be counted.
LEMMA OpenIsFinite ==
    ASSUME NEW s
    PROVE  IsFiniteSet(Open(s)) /\ Cardinality(Open(s)) \in Nat
<1>1. Open(s) \in SUBSET Workers /\ IsFiniteSet(Workers)
  BY TiersAssumption DEF Open
<1>2. IsFiniteSet(Open(s))
  BY <1>1, FS_Subset
<1> QED BY <1>2, FS_CardinalityType

\* An open end is awaited.
LEMMA OpenIsAwaited ==
    ASSUME IInv, NEW s \in Seqs, NEW w \in Workers, client[s][w] = "open"
    PROVE  s \in awaiting /\ status[s] = "waiting"
<1>1. Awaited(s)
  BY DEF IInv, Awaits
<1> QED BY <1>1 DEF Awaited, PerWorker

\* Steps of the streams alone.
LEMMA StreamStep ==
    ASSUME IInv, UNCHANGED <<seqVars, awaiting, tierVars, dataVars>>, FetchTypes',
           NEW s \in Seqs, status[s] = "waiting", \A t \in Seqs \ {s} : task'[t] = task[t],
           Awaits', Fetching'
    PROVE  IInv'
<1>1. /\ Types /\ Batched /\ Shapes
      /\ SeqTypes /\ FetchTypes /\ TierTypes /\ DataTypes
  BY TypeParts DEF IInv
<1>2. /\ pc' = pc /\ status' = status /\ full' = full /\ dev' = dev /\ kv' = kv /\ host' = host /\ hkv' = hkv
      /\ dcache' = dcache /\ hcache' = hcache /\ loads' = loads /\ copying' = copying /\ offq' = offq
      /\ flying' = flying /\ UNCHANGED dataVars
  BY DEF seqVars, tierVars
<1>3. SeqTypes' /\ TierTypes' /\ DataTypes' /\ DevAgrees /\ HostAgrees /\ store' = store
  <2>1. SeqTypes'
    BY <1>1, <1>2 DEF SeqTypes
  <2>2. TierTypes'
    BY <1>1, <1>2 DEF TierTypes
  <2> QED BY <1>1, <1>2, <2>1, <2>2, DataSame
<1>4. Types'
  BY <1>3, TypeParts
<1>5. Batched'
  BY <1>1, <1>2 DEF Batched
<1>6. Shapes'
  <2> SUFFICES ASSUME NEW t \in Seqs PROVE Shape(t)'
    BY DEF Shapes
  <2>1. Shape(t)
    BY <1>1 DEF Shapes
  <2>2. status[t] = "new" => task'[t] = task[t]
    OBVIOUS
  <2> QED BY <1>2, <2>1, <2>2 DEF Shape
<1>7. DevStep
  <2>1. Pairs' = Pairs
    BY <1>2, SamePairs
  <2>2. Queue' = Queue
    BY <1>2 DEF Queue
  <2> QED BY <1>1, <1>2, <1>3, <2>1, <2>2, SameDev
<1>8. HostStep
  BY <1>1, <1>2, <1>3, SameHost
<1> QED BY <1>4, <1>5, <1>6, <1>7, <1>8, IInvAfterStep

\* A stream whose end the engine closes, counting the worker or not.
Closes(s, w) ==
    /\ client[s][w] = "open" /\ client' = [client EXCEPT ![s][w] = "closed"]
    /\ awaiting' = awaiting /\ status' = status /\ full' = full /\ host' = host
    /\ \A t \in Seqs \ {s} : /\ task'[t] = task[t] /\ stream'[t] = stream[t]
                             /\ flag'[t] = flag[t] /\ result'[t] = result[t]
                             /\ t \in faulty' <=> t \in faulty
    /\ \A x \in Workers \ {w} : task'[s][x] = task[s][x] /\ stream'[s][x] = stream[s][x]
    /\ \/ flag'[s] = flag[s] /\ s \in faulty'
       \/ flag'[s] = flag[s] - 1 /\ (s \in faulty' <=> s \in faulty)

\* Closing one stream keeps the flag at or above the open streams.
LEMMA CloseKeepsAwaits ==
    ASSUME IInv, NEW s \in Seqs, NEW w \in Workers, Closes(s, w)
    PROVE  Awaits'
<1> USE DEF Closes
<1>1. Awaits /\ Types
  BY DEF IInv
<1>2. client \in [Seqs -> [Workers -> {"open", "closed"}]] /\ flag[s] \in Nat
  BY <1>1, TiersAssumption, FS_CardinalityType DEF Types, SeqTypes, FetchTypes, TierTypes, DataTypes
<1>3. /\ \A t \in Seqs \ {s} : client'[t] = client[t]
      /\ \A x \in Workers : client'[s][x] = IF x = w THEN "closed" ELSE client[s][x]
  BY <1>2
<1>4. ASSUME NEW t \in Seqs \ {s} PROVE Awaited(t)'
  <2>1. Open(t)' = Open(t)
    BY <1>3 DEF Open
  <2> QED BY <1>1, <1>3, <2>1 DEF Awaits, Awaited
<1>5. Awaited(s)'
  <2>1. Awaited(s) /\ s \in awaiting /\ status[s] = "waiting"
    BY <1>1, OpenIsAwaited DEF Awaits
  <2>2. Open(s)' = Open(s) \ {w} /\ w \in Open(s)
    BY <1>3 DEF Open
  <2>3. IsFiniteSet(Open(s)) /\ Cardinality(Open(s)) \in Nat
    BY OpenIsFinite
  <2>4. Cardinality(Open(s) \ {w}) = Cardinality(Open(s)) - 1
    BY <2>2, <2>3, FS_RemoveElement
  <2>5. Cardinality(Open(s)') <= flag'[s]
    BY <1>2, <2>1, <2>2, <2>3, <2>4 DEF Awaited
  <2>6. s \notin faulty' => flag'[s] = Cardinality(Open(s)')
    BY <1>2, <2>1, <2>2, <2>3, <2>4 DEF Awaited
  <2>7. s \notin faulty' => \A x \in Open(s)' : task'[s][x] # <<>> \/ 0 \in Range(stream'[s][x])
    <3> SUFFICES ASSUME s \notin faulty', NEW x \in Open(s)'
                 PROVE  task'[s][x] # <<>> \/ 0 \in Range(stream'[s][x])
      OBVIOUS
    <3>1. x \in Open(s) /\ x \in Workers \ {w} /\ s \notin faulty
      BY <2>2 DEF Open
    <3>2. task[s][x] # <<>> \/ 0 \in Range(stream[s][x])
      BY <2>1, <3>1 DEF Awaited
    <3> QED BY <3>1, <3>2
  <2> QED BY <2>1, <2>5, <2>6, <2>7 DEF Awaited
<1> QED BY <1>4, <1>5 DEF Awaits

\* One worker's prefetch moves; the others have come as far as before.
LEMMA OneFetchMoves ==
    ASSUME IInv, Types', awaiting' = awaiting, NEW s \in Seqs, NEW w \in Workers,
           \A t \in awaiting : \A x \in Workers : t # s \/ x # w => SameFetch(t, x),
           s \in awaiting =>
              \E c \in [0 .. Len(stream'[s][w]) -> 0 .. PromptBlocks[s]] :
              \E o \in 0 .. PromptBlocks[s] : Progress(s, w, c, o)'
    PROVE  Fetching'
<1>1. Types /\ Awaits /\ Fetching
  BY DEF IInv
<1>2. ASSUME NEW t \in awaiting, NEW x \in Workers
      PROVE  \E c \in [0 .. Len(stream'[t][x]) -> 0 .. PromptBlocks[t]] :
             \E o \in 0 .. PromptBlocks[t] : Progress(t, x, c, o)'
  <2>1. CASE t = s /\ x = w
    BY <1>2, <2>1
  <2>2. CASE t # s \/ x # w
    <3>1. SameFetch(t, x)
      BY <2>2
    <3>2. Len(host[t]) = PromptBlocks[t] + 1
      BY <1>1 DEF Awaits, Awaited, Types, SeqTypes, FetchTypes, TierTypes, DataTypes
    <3> QED BY <1>1, <3>1, <3>2, FetchKept
  <2> QED BY <2>1, <2>2
<1> QED BY <1>2 DEF Fetching

\* The types that a step of the streams does not touch.
LEMMA StreamTypes ==
    ASSUME IInv, UNCHANGED <<seqVars, tierVars, dataVars>>, FetchTypes'
    PROVE  Types' /\ HostAgrees
<1>1. SeqTypes /\ TierTypes /\ DataTypes
  BY TypeParts DEF IInv
<1>2. SeqTypes'
  BY <1>1 DEF seqVars, SeqTypes
<1>3. TierTypes'
  BY <1>1 DEF tierVars, TierTypes
<1> QED BY <1>1, <1>2, <1>3, DataSame, TypeParts

\* A worker is given up before it starts, or while it is silent.
LEMMA ConnectFailsKeepsIInv ==
    ASSUME IInv, NEW s \in Seqs, NEW w \in Workers, ConnectFails(s, w) \/ IdleTimeout(s, w)
    PROVE  IInv'
<1>1. /\ client[s][w] = "open" /\ client' = [client EXCEPT ![s][w] = "closed"]
      /\ faulty' = faulty \cup {s} /\ UNCHANGED <<seqVars, awaiting, flag, result, stream, tierVars, dataVars>>
      /\ task' = task \/ task' = [task EXCEPT ![s][w] = <<>>]
  BY DEF ConnectFails, IdleTimeout, FaultAt
<1>2. s \in awaiting /\ status[s] = "waiting"
  BY <1>1, OpenIsAwaited
<1>3. FetchTypes
  BY TypeParts DEF IInv
<1>4. /\ \A t \in Seqs : \A x \in Workers : t # s \/ x # w =>
           task'[t][x] = task[t][x] /\ client'[t][x] = client[t][x]
      /\ \A t \in Seqs \ {s} : task'[t] = task[t]
      /\ task'[s][w] \in {<<>>, task[s][w]} /\ client'[s][w] = "closed"
  BY <1>1, <1>3, SMTT(20) DEF FetchTypes
<1>5. FetchTypes'
  <2>1. task' \in [Seqs -> [Workers -> Seq([blk : HostBlocks, key : Keys])]]
    <3> DEFINE Q == Seq([blk : HostBlocks, key : Keys])
    <3>1. <<>> \in Q
      OBVIOUS
    <3>2. task \in [Seqs -> [Workers -> Q]]
      BY <1>3 DEF FetchTypes
    <3> HIDE DEF Q
    <3>3. task' \in [Seqs -> [Workers -> Q]]
      BY <1>1, <3>1, <3>2
    <3> QED BY <3>3 DEF Q
  <2>2. client' \in [Seqs -> [Workers -> {"open", "closed"}]]
    BY <1>1, <1>3 DEF FetchTypes
  <2> QED BY <1>1, <1>3, <2>1, <2>2 DEF FetchTypes
<1>6. Awaits'
  <2>1. /\ status' = status /\ full' = full /\ host' = host /\ awaiting' = awaiting /\ flag' = flag
        /\ result' = result /\ stream' = stream
    BY <1>1 DEF seqVars
  <2>2. Closes(s, w)
    BY <1>1, <1>4, <2>1 DEF Closes
  <2> QED BY <2>2, CloseKeepsAwaits
<1>7. Types' /\ HostAgrees
  BY <1>1, <1>5, StreamTypes
<1>8. Fetching'
  <2>1. \A t \in awaiting : \A x \in Workers : t # s \/ x # w => SameFetch(t, x)
    BY <1>1, <1>3, <1>4, <1>7 DEF SameFetch, seqVars, HostAgrees, FetchTypes
  <2>2. PICK c \in [0 .. Len(stream[s][w]) -> 0 .. PromptBlocks[s]] :
           \E o \in 0 .. PromptBlocks[s] : Progress(s, w, c, o)
    BY <1>2 DEF IInv, Fetching
  <2>3. PICK o \in 0 .. PromptBlocks[s] : Progress(s, w, c, o)
    BY <2>2
  <2>4. Progress(s, w, c, o)'
    <3>1. hkv[s] \in Nat /\ PromptBlocks[s] \in Nat /\ Len(task[s][w]) \in Nat
      BY PathFacts DEF IInv, Types, SeqTypes, FetchTypes, TierTypes, DataTypes
    <3>2. /\ hkv' = hkv /\ host' = host /\ result' = result /\ stream' = stream /\ hostKV' = hostKV
      BY <1>1 DEF seqVars, dataVars
    <3>3. /\ hkv[s] + o + Len(task'[s][w]) <= PromptBlocks[s]
          /\ \A i \in 1 .. Len(task'[s][w]) :
               task'[s][w][i] = [blk |-> host[s][hkv[s] + o + i], key |-> Path[s][hkv[s] + o + i]]
      <4>1. CASE task'[s][w] = <<>>
        BY <2>3, <3>1, <4>1 DEF Progress
      <4>2. CASE task'[s][w] = task[s][w]
        BY <2>3, <4>2 DEF Progress
      <4> QED BY <1>4, <4>1, <4>2
    <3> QED BY <1>4, <2>3, <3>2, <3>3 DEF Progress, Good
  <2> QED BY <1>1, <1>7, <2>1, <2>4, OneFetchMoves
<1> QED BY <1>1, <1>2, <1>4, <1>5, <1>6, <1>8, StreamStep

\* A count arrives: it is added, or it ends the stream.
LEMMA ReceiveKeepsIInv ==
    ASSUME IInv, NEW s \in Seqs, NEW w \in Workers, Receive(s, w)
    PROVE  IInv'
<1> DEFINE q == stream[s][w]
           n == Head(q)
<1>1. /\ client[s][w] = "open" /\ q # <<>>
      /\ UNCHANGED <<seqVars, awaiting, task, faulty, tierVars, dataVars>>
      /\ \/ /\ n > 0 /\ flag[s] > 0
            /\ result' = [result EXCEPT ![s][w] = @ + n]
            /\ stream' = [stream EXCEPT ![s][w] = Tail(@)]
            /\ UNCHANGED <<flag, client>>
         \/ /\ ~(n > 0 /\ flag[s] > 0)
            /\ flag' = [flag EXCEPT ![s] = @ - 1]
            /\ client' = [client EXCEPT ![s][w] = "closed"]
            /\ stream' = [stream EXCEPT ![s][w] = <<>>]
            /\ UNCHANGED result
  BY DEF Receive
<1>2. s \in awaiting /\ status[s] = "waiting"
  BY <1>1, OpenIsAwaited
<1>3. FetchTypes
  BY TypeParts DEF IInv
<1>4. q \in Seq(0 .. Batch) /\ Batch \in Nat /\ n \in 0 .. Batch /\ Len(q) \in Nat /\ Len(q) >= 1
      /\ Tail(q) \in Seq(0 .. Batch) /\ Len(Tail(q)) = Len(q) - 1 /\ n = q[1]
      /\ (\A i \in 1 .. Len(q) - 1 : Tail(q)[i] = q[i + 1])
  <2>1. q \in Seq(0 .. Batch) /\ Batch \in Nat
    BY <1>3, BatchAssumption DEF FetchTypes
  <2> HIDE DEF q
  <2> QED BY <1>1, <2>1
<1>5. PICK c \in [0 .. Len(q) -> 0 .. PromptBlocks[s]] :
         \E o \in 0 .. PromptBlocks[s] : Progress(s, w, c, o)
  BY <1>2 DEF IInv, Fetching
<1>6. PICK o \in 0 .. PromptBlocks[s] : Progress(s, w, c, o)
  BY <1>5
<1>7. /\ c[0] = result[s][w] /\ \A i \in 1 .. Len(q) : c[i] = c[i - 1] + q[i]
      /\ \A i \in 0 .. Len(q) : c[i] <= o
      /\ c[Len(q)] = o
      /\ \A i \in 0 .. Len(q) : \A j \in hkv[s] + 1 .. hkv[s] + c[i] :
           Good(hostKV[w][host[s][j]], Path[s][j])
      /\ hkv[s] + o + Len(task[s][w]) <= PromptBlocks[s]
      /\ \A i \in 1 .. Len(task[s][w]) :
           task[s][w][i] = [blk |-> host[s][hkv[s] + o + i], key |-> Path[s][hkv[s] + o + i]]
  BY <1>1, <1>6 DEF Progress
<1>8. hkv' = hkv /\ host' = host /\ hostKV' = hostKV /\ task' = task /\ status' = status /\ full' = full
      /\ awaiting' = awaiting /\ faulty' = faulty
  BY <1>1 DEF seqVars, dataVars
<1>9. CASE n > 0 /\ flag[s] > 0
  <2>1. /\ result' = [result EXCEPT ![s][w] = @ + n]
        /\ stream' = [stream EXCEPT ![s][w] = Tail(@)] /\ flag' = flag /\ client' = client
    BY <1>1, <1>9
  <2>2. c[1] = result[s][w] + n /\ c[1] \in 0 .. PromptBlocks[s]
    <3> HIDE DEF q
    <3>1. 1 \in 1 .. Len(q) /\ 1 \in 0 .. Len(q) /\ 1 - 1 = 0
      BY <1>4
    <3>2. c[1] \in 0 .. PromptBlocks[s]
      BY <1>5, <3>1
    <3>3. c[1] = c[1 - 1] + q[1]
      BY <1>7, <3>1
    <3> QED BY <1>4, <1>7, <3>1, <3>2, <3>3
  <2>3. /\ \A t \in Seqs : \A x \in Workers : t # s \/ x # w =>
             result'[t][x] = result[t][x] /\ stream'[t][x] = stream[t][x]
        /\ \A t \in Seqs \ {s} : stream'[t] = stream[t] /\ result'[t] = result[t]
        /\ stream'[s][w] = Tail(q) /\ result'[s][w] = c[1]
    BY <1>3, <2>1, <2>2 DEF FetchTypes
  <2>4. FetchTypes'
    <3>1. PromptBlocks[s] \in Nat
      BY PathFacts
    <3>2. result' \in [Seqs -> [Workers -> Nat]] /\ \A t \in Seqs : \A x \in Workers : result'[t][x] <= PromptBlocks[t]
      BY <1>3, <2>1, <2>2, <2>3, <3>1, SMTT(20) DEF FetchTypes
    <3>3. stream' \in [Seqs -> [Workers -> Seq(0 .. Batch)]]
      BY <1>3, <1>4, <2>1 DEF FetchTypes
    <3> QED BY <1>3, <1>8, <2>1, <3>2, <3>3 DEF FetchTypes
  <2>5. Types' /\ HostAgrees
    BY <1>1, <2>4, StreamTypes
  <2>6. Awaits'
    <3> SUFFICES ASSUME NEW t \in Seqs PROVE Awaited(t)'
      BY DEF Awaits
    <3>1. Awaited(t) /\ Open(t)' = Open(t)
      BY <2>1 DEF IInv, Awaits, Open
    <3>2. t \notin awaiting => t # s
      BY <1>2
    <3>3. ASSUME NEW x \in Open(t), 0 \in Range(stream[t][x]) PROVE 0 \in Range(stream'[t][x])
      <4>1. CASE t = s /\ x = w
        <5>1. PICK i \in 1 .. Len(q) : q[i] = 0
          BY <1>4, <3>3, <4>1 DEF Range
        <5>2. i - 1 \in 1 .. Len(q) - 1 /\ Tail(q)[i - 1] = 0
          BY <1>4, <1>9, <5>1
        <5>3. i - 1 \in DOMAIN Tail(q)
          BY <1>4, <5>2
        <5> QED BY <2>3, <4>1, <5>2, <5>3 DEF Range
      <4> QED BY <2>3, <3>3, <4>1 DEF Open
    <3> QED BY <1>8, <2>1, <2>3, <3>1, <3>2, <3>3 DEF Awaited
  <2>7. Fetching'
    <3>1. \A t \in awaiting : \A x \in Workers : t # s \/ x # w => SameFetch(t, x)
      BY <1>3, <1>8, <2>1, <2>3, <2>5 DEF SameFetch, HostAgrees, FetchTypes
    <3> DEFINE m == Len(q)
               P == PromptBlocks[s]
    <3>2. /\ m \in Nat /\ m >= 1 /\ c \in [0 .. m -> 0 .. P]
          /\ \A i \in 1 .. m : c[i] = c[i - 1] + q[i]
          /\ \A i \in 1 .. m - 1 : Tail(q)[i] = q[i + 1]
          /\ \A i \in 0 .. m : c[i] <= o
          /\ c[m] = o
      BY <1>4, <1>7
    <3>3. Len(stream'[s][w]) = m - 1 /\ stream'[s][w] = Tail(q) /\ result'[s][w] = c[1]
      BY <1>4, <2>3
    <3>4. \A i \in 0 .. m : \A j \in hkv[s] + 1 .. hkv[s] + c[i] :
            Good(hostKV[w][host[s][j]], Path[s][j])
      BY <1>7
    <3> HIDE DEF m, P, q
    <3>5. PICK e \in [0 .. m - 1 -> 0 .. P] : \A i \in 0 .. m - 1 : e[i] = c[i + 1] /\ i + 1 \in 0 .. m
      <4> DEFINE d == [i \in 0 .. m - 1 |-> c[i + 1]]
      <4>1. d \in [0 .. m - 1 -> 0 .. P] /\ \A i \in 0 .. m - 1 : d[i] = c[i + 1] /\ i + 1 \in 0 .. m
        BY <3>2
      <4> QED BY <4>1
    <3>6. e[0] = c[1] /\ e[m - 1] = c[m]
      BY <3>2, <3>5
    <3>7. \A i \in 1 .. m - 1 : e[i] = e[i - 1] + Tail(q)[i]
      <4> SUFFICES ASSUME NEW i \in 1 .. m - 1 PROVE e[i] = e[i - 1] + Tail(q)[i]
        OBVIOUS
      <4>0. i \in 0 .. m - 1 /\ i - 1 \in 0 .. m - 1 /\ i - 1 + 1 = i
        BY <3>2
      <4>1. e[i] = c[i + 1] /\ e[i - 1] = c[i]
        BY ONLY <3>5, <4>0
      <4>2. c[i + 1] = c[i] + q[i + 1]
        BY <3>2
      <4> QED BY <3>2, <4>1, <4>2
    <3>8. Progress(s, w, e, o)'
      <4>1. \A i \in 0 .. m - 1 : e[i] <= o /\ \A j \in hkv[s] + 1 .. hkv[s] + e[i] :
              Good(hostKV[w][host[s][j]], Path[s][j])
        BY <3>2, <3>4, <3>5
      <4> QED BY <1>7, <1>8, <3>2, <3>3, <3>6, <3>7, <4>1 DEF Progress, Good
    <3>9. s \in awaiting => \E d \in [0 .. Len(stream'[s][w]) -> 0 .. PromptBlocks[s]] :
                             \E z \in 0 .. PromptBlocks[s] : Progress(s, w, d, z)'
      BY <3>3, <3>5, <3>8 DEF P
    <3> QED BY <1>8, <2>5, <3>1, <3>9, OneFetchMoves
  <2> QED BY <1>1, <1>2, <1>8, <2>4, <2>6, <2>7, StreamStep
<1>10. CASE ~(n > 0 /\ flag[s] > 0)
  <2>1. /\ flag' = [flag EXCEPT ![s] = @ - 1]
        /\ client' = [client EXCEPT ![s][w] = "closed"]
        /\ stream' = [stream EXCEPT ![s][w] = <<>>] /\ result' = result
    BY <1>1, <1>10
  <2>2. /\ \A t \in Seqs : \A x \in Workers : t # s \/ x # w =>
             client'[t][x] = client[t][x] /\ stream'[t][x] = stream[t][x]
        /\ \A t \in Seqs \ {s} : stream'[t] = stream[t] /\ flag'[t] = flag[t]
        /\ stream'[s][w] = <<>> /\ client'[s][w] = "closed" /\ flag'[s] = flag[s] - 1
    BY <1>3, <2>1 DEF FetchTypes
  <2>3. flag[s] >= 1 /\ Cardinality(Workers) \in Nat
    <3>1. Awaited(s) /\ w \in Open(s)
      BY <1>1 DEF IInv, Awaits, Open
    <3>2. IsFiniteSet(Open(s)) /\ Cardinality(Open(s)) \in Nat /\ Cardinality(Open(s)) # 0
      BY <3>1, OpenIsFinite, FS_EmptySet
    <3>3. Cardinality(Workers) \in Nat
      BY TiersAssumption, FS_CardinalityType
    <3>4. flag[s] \in 0 .. Cardinality(Workers)
      BY <1>3 DEF FetchTypes
    <3> QED BY <3>1, <3>2, <3>3, <3>4 DEF Awaited
  <2>4. FetchTypes'
    <3>1. flag' \in [Seqs -> 0 .. Cardinality(Workers)]
      BY <1>3, <2>1, <2>3 DEF FetchTypes
    <3>2. client' \in [Seqs -> [Workers -> {"open", "closed"}]]
      BY <1>3, <2>1 DEF FetchTypes
    <3>3. stream' \in [Seqs -> [Workers -> Seq(0 .. Batch)]]
      BY <1>3, <2>1 DEF FetchTypes
    <3> QED BY <1>3, <1>8, <2>1, <3>1, <3>2, <3>3 DEF FetchTypes
  <2>5. Types' /\ HostAgrees
    BY <1>1, <2>4, StreamTypes
  <2>6. Awaits'
    <3>1. Closes(s, w)
      BY <1>1, <1>8, <2>1, <2>2 DEF Closes
    <3> QED BY <3>1, CloseKeepsAwaits
  <2>7. Fetching'
    <3>1. \A t \in awaiting : \A x \in Workers : t # s \/ x # w => SameFetch(t, x)
      <4> SUFFICES ASSUME NEW t \in awaiting, NEW x \in Workers, t # s \/ x # w
                   PROVE  SameFetch(t, x)
        OBVIOUS
      <4>1. t \in Seqs
        BY <1>1 DEF IInv, Types, SeqTypes, FetchTypes, TierTypes, DataTypes
      <4>2. client'[t][x] = client[t][x] /\ stream'[t][x] = stream[t][x]
        BY ONLY <2>2, <4>1, x \in Workers, t # s \/ x # w
      <4> QED BY <1>8, <2>1, <4>2 DEF SameFetch
    <3> DEFINE e == [i \in 0 .. 0 |-> c[0]]
    <3>0. c[0] \in 0 .. PromptBlocks[s]
      <4> DEFINE m == Len(q)
      <4>1. m \in Nat /\ c \in [0 .. m -> 0 .. PromptBlocks[s]]
        BY <1>4
      <4> HIDE DEF m
      <4> QED BY <4>1
    <3>2. e \in [0 .. 0 -> 0 .. PromptBlocks[s]] /\ e[0] = c[0] /\ \A i \in 0 .. 0 : e[i] = c[0]
      BY ONLY <3>0
    <3> HIDE DEF e
    <3>3. 0 \in 0 .. Len(q) /\ Len(stream'[s][w]) = 0
      BY <1>4, <2>2
    <3>4. Progress(s, w, e, o)'
      BY <1>7, <1>8, <2>1, <2>2, <3>2, <3>3 DEF Progress, Good
    <3> QED BY <1>8, <2>5, <3>1, <3>2, <3>3, <3>4, OneFetchMoves
  <2> QED BY <1>1, <1>2, <1>8, <2>4, <2>6, <2>7, StreamStep
<1> QED BY <1>9, <1>10

\* What one batch writes, on worker w, and what it reports.
FetchWrites(s, w, n) ==
    LET left == task[s][w]
        mine == {host[s][j] : j \in hkv[s] + 1 .. Len(host[s])}
    IN  /\ \A x \in Workers \ {w} : hostKV'[x] = hostKV[x]
        /\ hostKV' \in [Workers -> [HostBlocks -> Content]]
        /\ \A b \in HostBlocks : b \notin mine => hostKV'[w][b] \in {hostKV[w][b], Stale}
        /\ \A b \in HostBlocks : (\A i \in 1 .. Len(left) : left[i].blk # b) => hostKV'[w][b] = hostKV[w][b]
        /\ \A i \in 1 .. n : left[i].blk \in mine /\ (\A k \in 1 .. Len(left) : left[k].blk = left[i].blk => k = i)
                             => Good(hostKV'[w][left[i].blk], left[i].key)

FetchReports(s, w, n) ==
    LET left == task[s][w]
        done == Len(left) <= Batch \/ n < Batch
        next == IF done THEN <<>> ELSE SubSeq(left, Batch + 1, Len(left))
    IN  /\ n \in 0 .. Batch /\ n <= Len(left) /\ left # <<>> /\ (~done => n = Batch)
        /\ \/ /\ client[s][w] = "open"
              /\ \E r \in {<<n>>, <<n, 0>>} : /\ stream' = [stream EXCEPT ![s][w] = @ \o r]
                                              /\ done => 0 \in Range(r)
              /\ task' = [task EXCEPT ![s][w] = next]
           \/ /\ client[s][w] = "closed" /\ stream' = stream
              /\ \E t \in {<<>>, next} : task' = [task EXCEPT ![s][w] = t]

\* What a batch writes to host memory and reports.
LEMMA FetchFacts ==
    ASSUME IInv, NEW s \in Seqs, NEW w \in Workers, Fetch(s, w)
    PROVE  \E n \in Nat : FetchWrites(s, w, n) /\ FetchReports(s, w, n)
<1> DEFINE left == task[s][w]
           size == Min({Batch, Len(left)})
           present == Max({0} \cup {m \in 1 .. size : \A i \in 1 .. m : left[i].key \in DOMAIN store[w]})
           mine == {host[s][j] : j \in hkv[s] + 1 .. Len(host[s])}
           used == HostHeld \cup Range(hcache)
           Done(n) == n # size \/ Len(left) <= Batch
           Rest(n) == IF Done(n) THEN <<>> ELSE SubSeq(left, Batch + 1, Len(left))
           Got(n, i) == IF left[i].blk \notin mine THEN Stale
                        ELSE IF i <= n THEN store[w][left[i].key] ELSE Junk
           Index(n, b) == {i \in 1 .. Min({n + 1, present}) : left[i].blk = b}
<1>1. left # <<>>
  BY DEF Fetch
<1>2. PICK n \in 0 .. present :
        /\ hostKV' = [hostKV EXCEPT ![w] = [b \in HostBlocks |->
                         IF b \notin used \/ Index(n, b) = {} THEN @[b] ELSE Got(n, Max(Index(n, b)))]]
        /\ \/ /\ client[s][w] = "open"
              /\ stream' = [stream EXCEPT ![s][w] = @ \o Report(n, Done(n))]
              /\ task' = [task EXCEPT ![s][w] = Rest(n)]
           \/ /\ client[s][w] = "closed"
              /\ \E t \in {<<>>, Rest(n)} : task' = [task EXCEPT ![s][w] = t]
              /\ UNCHANGED stream
  BY Zenon DEF Fetch
<1>3. /\ FetchTypes /\ DataTypes /\ Batch \in Nat \ {0}
  BY TypeParts, BatchAssumption DEF IInv
<1>4. /\ left \in Seq([blk : HostBlocks, key : Keys]) /\ Len(left) \in Nat /\ Len(left) >= 1
      /\ \A i \in 1 .. Len(left) : left[i].blk \in HostBlocks /\ left[i].key \in Keys
  <2> DEFINE Q == [blk : HostBlocks, key : Keys]
  <2>1. left \in Seq(Q)
    BY <1>3 DEF FetchTypes
  <2>2. \A r \in Q : r.blk \in HostBlocks /\ r.key \in Keys
    OBVIOUS
  <2> HIDE DEF left, Q
  <2>3. Len(left) \in Nat /\ Len(left) >= 1 /\ \A i \in 1 .. Len(left) : left[i] \in Q
    BY <1>1, <2>1
  <2> QED BY <2>1, <2>2, <2>3 DEF Q
<1> HIDE DEF left
<1>5. size = IF Batch <= Len(left) THEN Batch ELSE Len(left)
  BY <1>3, <1>4, MinOfTwo
<1> HIDE DEF size
<1>6. present \in 0 .. size /\ \A i \in 1 .. present : left[i].key \in DOMAIN store[w]
  <2> DEFINE P == {i \in Nat : left[i].key \in DOMAIN store[w]}
             T == {m \in 1 .. size : \A i \in 1 .. m : i \in P}
  <2>1. size \in Nat
    BY <1>3, <1>4, <1>5
  <2>2. T = {m \in 1 .. size : \A i \in 1 .. m : left[i].key \in DOMAIN store[w]}
    OBVIOUS
  <2>3. present = Max({0} \cup T)
    BY <2>2
  <2> HIDE DEF present
  <2>4. P \in SUBSET Nat
    OBVIOUS
  <2>5. present \in 0 .. size /\ \A i \in 1 .. present : i \in P
    <3> HIDE DEF P
    <3>1. present = Max({0} \cup {m \in 1 .. size : \A i \in 1 .. m : i \in P})
      BY <2>3
    <3> QED BY ONLY <2>1, <2>4, <3>1, LongestPrefix
  <2> QED BY <2>5
<1> HIDE DEF present
<1>7. present \in Nat /\ present <= size /\ size <= Len(left) /\ size <= Batch /\ n \in Nat /\ n <= present
      /\ size \in Nat
  BY <1>3, <1>4, <1>5, <1>6
<1> DEFINE top == Min({n + 1, present})
<1>8. top \in Nat /\ n <= top /\ top <= present
  <2>1. top = IF n + 1 <= present THEN n + 1 ELSE present
    BY <1>7, MinOfTwo
  <2> HIDE DEF top
  <2> QED BY <1>7, <2>1
<1>9. ASSUME NEW b, Index(n, b) # {}
      PROVE  Max(Index(n, b)) \in 1 .. top /\ left[Max(Index(n, b))].blk = b
  <2> DEFINE I == Index(n, b)
  <2>0. I = {i \in 1 .. top : left[i].blk = b} /\ I # {}
    BY <1>9
  <2> HIDE DEF I, top
  <2>1. I \in SUBSET Nat /\ I # {} /\ (\A i \in I : i <= top) /\ \A i \in I : i \in 1 .. top /\ left[i].blk = b
    BY ONLY <1>8, <2>0
  <2>2. Max(I) \in I
    BY <1>8, <2>1, MaxOfBounded
  <2> QED BY <2>1, <2>2 DEF I
<1>10. \A i \in 1 .. present : store[w][left[i].key] \in Content /\ Good(store[w][left[i].key], left[i].key)
  <2>1. \A k \in DOMAIN store[w] : store[w][k] \in Content /\ Good(store[w][k], k)
    BY <1>3 DEF DataTypes, IInv, HostKVIntact
  <2> QED BY <1>6, <2>1
<1>11. /\ \A x \in Workers \ {w} : hostKV'[x] = hostKV[x]
       /\ \A b \in HostBlocks :
            hostKV'[w][b] = IF b \notin used \/ Index(n, b) = {} THEN hostKV[w][b] ELSE Got(n, Max(Index(n, b)))
       /\ hostKV' = [x \in Workers |-> hostKV'[x]] /\ hostKV'[w] = [b \in HostBlocks |-> hostKV'[w][b]]
       /\ hostKV \in [Workers -> [HostBlocks -> Content]]
  <2>1. hostKV \in [Workers -> [HostBlocks -> Content]]
    BY <1>3 DEF DataTypes
  <2> DEFINE Val(b) == IF b \notin used \/ Index(n, b) = {} THEN hostKV[w][b] ELSE Got(n, Max(Index(n, b)))
  <2>2. hostKV' = [hostKV EXCEPT ![w] = [b \in HostBlocks |-> Val(b)]]
    BY <1>2
  <2> HIDE DEF Val
  <2>3. /\ \A x \in Workers \ {w} : hostKV'[x] = hostKV[x]
        /\ hostKV'[w] = [b \in HostBlocks |-> Val(b)]
        /\ hostKV' = [x \in Workers |-> hostKV'[x]]
    BY <2>1, <2>2
  <2>4. \A b \in HostBlocks : hostKV'[w][b] = Val(b)
    BY <2>3
  <2>5. hostKV'[w] = [b \in HostBlocks |-> hostKV'[w][b]]
    BY <2>3
  <2> QED BY <2>1, <2>3, <2>4, <2>5 DEF Val
<1>12. \A b \in HostBlocks : hostKV'[w][b] \in Content
  <2> SUFFICES ASSUME NEW b \in HostBlocks PROVE hostKV'[w][b] \in Content
    OBVIOUS
  <2>1. hostKV[w][b] \in Content /\ Stale \in Content /\ Junk \in Content
    BY <1>11 DEF Content
  <2>2. Index(n, b) # {} => Got(n, Max(Index(n, b))) \in Content
    <3> SUFFICES ASSUME Index(n, b) # {} PROVE Got(n, Max(Index(n, b))) \in Content
      OBVIOUS
    <3> DEFINE i == Max(Index(n, b))
    <3>1. i \in 1 .. top
      BY <1>9
    <3> HIDE DEF i, top
    <3>2. i <= n => i \in 1 .. present
      BY <1>7, <1>8, <3>1
    <3>3. Got(n, i) \in Content
      BY <1>10, <2>1, <3>2
    <3> QED BY <3>3 DEF i
  <2> HIDE DEF Got, Index
  <2> QED BY <1>11, <2>1, <2>2
<1>13. FetchWrites(s, w, n)
  <2>1. hostKV' \in [Workers -> [HostBlocks -> Content]]
    <3>1. hostKV'[w] \in [HostBlocks -> Content]
      BY <1>11, <1>12
    <3>2. \A x \in Workers : hostKV'[x] \in [HostBlocks -> Content]
      BY <1>11, <3>1
    <3> QED BY <1>11, <3>2
  <2>2. ASSUME NEW b \in HostBlocks, b \notin mine PROVE hostKV'[w][b] \in {hostKV[w][b], Stale}
    <3>1. Index(n, b) # {} => Got(n, Max(Index(n, b))) = Stale
      BY <1>9, <2>2
    <3> HIDE DEF Got, Index
    <3> QED BY <1>11, <3>1
  <2>3. ASSUME NEW b \in HostBlocks, \A i \in 1 .. Len(left) : left[i].blk # b
        PROVE  hostKV'[w][b] = hostKV[w][b]
    <3>1. Index(n, b) = {}
      BY <1>7, <1>8, <2>3
    <3> HIDE DEF Got, Index
    <3> QED BY <1>11, <3>1
  <2>4. ASSUME NEW i \in 1 .. n, left[i].blk \in mine,
               \A k \in 1 .. Len(left) : left[k].blk = left[i].blk => k = i
        PROVE  Good(hostKV'[w][left[i].blk], left[i].key)
    <3> DEFINE b == left[i].blk
    <3>1. i \in 1 .. top /\ i \in 1 .. present /\ i \in 1 .. Len(left) /\ b \in HostBlocks /\ i <= n
      BY <1>4, <1>7, <1>8
    <3>2. b \in used
      <4>1. host[s] \in Seq(HostBlocks) /\ hkv[s] \in Nat
        BY TypeParts DEF IInv, SeqTypes
      <4>2. mine \subseteq Range(host[s])
        BY <4>1 DEF Range
      <4> QED BY <2>4, <4>2 DEF HostHeld, HeldBy
    <3>3. i \in Index(n, b)
      BY <3>1
    <3>4. Max(Index(n, b)) = i
      <4>1. Max(Index(n, b)) \in 1 .. top /\ left[Max(Index(n, b))].blk = b
        BY <1>9, <3>3
      <4> HIDE DEF Index
      <4> QED BY <1>7, <1>8, <2>4, <4>1
    <3>5. hostKV'[w][b] = Got(n, i)
      <4> HIDE DEF Got, Index
      <4> QED BY <1>11, <3>1, <3>2, <3>3, <3>4
    <3>6. Got(n, i) = store[w][left[i].key]
      BY <2>4, <3>1
    <3> QED BY <1>10, <3>1, <3>5, <3>6
  <2> QED BY <1>11, <2>1, <2>2, <2>3, <2>4 DEF FetchWrites, left
<1>14. FetchReports(s, w, n)
  <2> DEFINE done == Len(left) <= Batch \/ n < Batch
             rest == IF done THEN <<>> ELSE SubSeq(left, Batch + 1, Len(left))
  <2>1. Done(n) <=> done
    BY <1>3, <1>4, <1>5, <1>7
  <2>2. ~done => n = Batch
    BY <1>3, <1>7
  <2>3. rest = Rest(n)
    BY <2>1
  <2>4. /\ Report(n, Done(n)) \in {<<n>>, <<n, 0>>}
        /\ done => 0 \in Range(Report(n, Done(n)))
    <3>1. \A m : 0 \in Range(<<m, 0>>) /\ 0 \in Range(<<0>>)
      BY DEF Range
    <3> QED BY <2>1, <3>1 DEF Report
  <2> HIDE DEF done, rest, Done, Rest
  <2>5. \/ /\ client[s][w] = "open"
           /\ \E r \in {<<n>>, <<n, 0>>} : /\ stream' = [stream EXCEPT ![s][w] = @ \o r]
                                           /\ done => 0 \in Range(r)
           /\ task' = [task EXCEPT ![s][w] = rest]
        \/ /\ client[s][w] = "closed" /\ stream' = stream
           /\ \E t \in {<<>>, rest} : task' = [task EXCEPT ![s][w] = t]
    BY <1>2, <2>3, <2>4
  <2>6. n \in 0 .. Batch /\ n <= Len(left) /\ left # <<>> /\ (~done => n = Batch)
    BY <1>1, <1>3, <1>4, <1>7, <2>2 DEF left
  <2> QED BY <2>5, <2>6 DEF FetchReports, done, rest, left
<1> QED BY <1>7, <1>13, <1>14

\* A worker fetches a batch: what it writes is its own or marked Stale.
LEMMA FetchKeepsIInv ==
    ASSUME IInv, NEW s \in Seqs, NEW w \in Workers, Fetch(s, w)
    PROVE  IInv'
<1> DEFINE left == task[s][w]
           mine == {host[s][j] : j \in hkv[s] + 1 .. Len(host[s])}
           done(n) == Len(left) <= Batch \/ n < Batch
           rest(n) == IF done(n) THEN <<>> ELSE SubSeq(left, Batch + 1, Len(left))
<1>1. PICK n \in Nat : FetchWrites(s, w, n) /\ FetchReports(s, w, n)
  BY FetchFacts
<1>2. UNCHANGED <<seqVars, awaiting, flag, result, client, faulty, tierVars, devKV, store>>
  BY Zenon DEF Fetch
<1>3. /\ Types /\ SeqTypes /\ FetchTypes /\ TierTypes /\ DataTypes /\ Batched /\ Shapes /\ Awaits
      /\ Fetching /\ DevOwn /\ DevFill /\ HostOwn /\ Copied /\ HostKVIntact /\ Batch \in Nat \ {0}
  BY TypeParts, BatchAssumption DEF IInv
<1>4. /\ pc' = pc /\ status' = status /\ full' = full /\ dev' = dev /\ kv' = kv /\ host' = host /\ hkv' = hkv
      /\ awaiting' = awaiting /\ flag' = flag /\ result' = result /\ client' = client /\ faulty' = faulty
      /\ dcache' = dcache /\ hcache' = hcache /\ loads' = loads /\ copying' = copying /\ offq' = offq
      /\ flying' = flying /\ devKV' = devKV /\ store' = store /\ Pairs' = Pairs /\ Queue' = Queue
  <2>1. offq' = offq /\ flying' = flying /\ loads' = loads /\ copying' = copying
    BY <1>2 DEF tierVars
  <2> QED BY <1>2, <2>1, SamePairs DEF seqVars, tierVars, Queue
<1>5. /\ \A x \in Workers \ {w} : hostKV'[x] = hostKV[x]
      /\ hostKV' \in [Workers -> [HostBlocks -> Content]]
      /\ \A b \in HostBlocks : b \notin mine => hostKV'[w][b] \in {hostKV[w][b], Stale}
      /\ \A b \in HostBlocks : (\A i \in 1 .. Len(left) : left[i].blk # b) => hostKV'[w][b] = hostKV[w][b]
      /\ \A i \in 1 .. n : left[i].blk \in mine /\ (\A k \in 1 .. Len(left) : left[k].blk = left[i].blk => k = i)
                           => Good(hostKV'[w][left[i].blk], left[i].key)
  BY <1>1 DEF FetchWrites
<1>6. /\ n \in 0 .. Batch /\ n <= Len(left) /\ left # <<>> /\ (~done(n) => n = Batch)
      /\ \/ /\ client[s][w] = "open"
            /\ \E r \in {<<n>>, <<n, 0>>} : /\ stream' = [stream EXCEPT ![s][w] = @ \o r]
                                            /\ done(n) => 0 \in Range(r)
            /\ task' = [task EXCEPT ![s][w] = rest(n)]
         \/ /\ client[s][w] = "closed" /\ stream' = stream
            /\ \E t \in {<<>>, rest(n)} : task' = [task EXCEPT ![s][w] = t]
  BY <1>1 DEF FetchReports
<1>7. PICK r : /\ r \in {<<>>, <<n>>, <<n, 0>>} /\ stream' = [stream EXCEPT ![s][w] = @ \o r]
               /\ client[s][w] = "open" => r # <<>> /\ (done(n) => 0 \in Range(r))
               /\ client[s][w] = "closed" => r = <<>>
  <2>1. CASE client[s][w] = "open"
    BY <1>6, <2>1
  <2>2. CASE client[s][w] # "open"
    <3>1. stream[s][w] \o <<>> = stream[s][w]
      BY <1>3 DEF FetchTypes
    <3>2. stream' = [stream EXCEPT ![s][w] = @ \o <<>>]
      BY <1>3, <1>6, <2>2, <3>1 DEF FetchTypes
    <3> QED BY <1>6, <2>2, <3>2
  <2> QED BY <2>1, <2>2
<1>8. PICK u : /\ u \in {<<>>, rest(n)} /\ task' = [task EXCEPT ![s][w] = u]
               /\ client[s][w] = "open" => u = rest(n)
  BY <1>6
<1>9. /\ left \in Seq([blk : HostBlocks, key : Keys]) /\ Len(left) \in Nat /\ Len(left) >= 1
      /\ \A i \in 1 .. Len(left) : left[i].blk \in HostBlocks
  <2> DEFINE Q == [blk : HostBlocks, key : Keys]
  <2>1. left \in Seq(Q)
    BY <1>3 DEF FetchTypes
  <2>2. \A v \in Q : v.blk \in HostBlocks
    OBVIOUS
  <2> HIDE DEF left, Q
  <2>3. Len(left) \in Nat /\ Len(left) >= 1 /\ \A i \in 1 .. Len(left) : left[i] \in Q
    BY <1>6, <2>1 DEF left
  <2> QED BY <2>1, <2>2, <2>3 DEF Q
<1>10. /\ \A t \in Seqs : \A x \in Workers : t # s \/ x # w =>
            task'[t][x] = task[t][x] /\ stream'[t][x] = stream[t][x]
       /\ \A t \in Seqs \ {s} : task'[t] = task[t] /\ stream'[t] = stream[t]
       /\ task'[s][w] = u /\ stream'[s][w] = stream[s][w] \o r
  BY <1>3, <1>7, <1>8 DEF FetchTypes
<1>11. rest(n) \in Seq([blk : HostBlocks, key : Keys]) /\ (~done(n) => rest(n) # <<>>)
       /\ (~done(n) => Len(rest(n)) = Len(left) - Batch /\ \A i \in 1 .. Len(left) - Batch : rest(n)[i] = left[Batch + i])
  <2> DEFINE Q == [blk : HostBlocks, key : Keys]
  <2>1. CASE done(n)
    BY <2>1
  <2>2. CASE ~done(n)
    <3>1. left \in Seq(Q) /\ Batch \in Nat /\ Len(left) \in Nat /\ Batch + 1 <= Len(left) /\ rest(n) = SubSeq(left, Batch + 1, Len(left))
      BY <1>3, <1>9, <2>2, SMTT(20)
    <3> HIDE DEF Q, left, rest
    <3>2. Batch \in 0 .. Len(left)
      BY <3>1
    <3>3. /\ SubSeq(left, Batch + 1, Len(left)) \in Seq(Q)
          /\ Len(SubSeq(left, Batch + 1, Len(left))) = Len(left) - Batch
      BY <3>1, <3>2, SplitQueue
    <3>4. \A i \in 1 .. Len(left) - Batch : SubSeq(left, Batch + 1, Len(left))[i] = left[Batch + i]
      <4> SUFFICES ASSUME NEW i \in 1 .. Len(left) - Batch
                   PROVE  SubSeq(left, Batch + 1, Len(left))[i] = left[Batch + i]
        OBVIOUS
      <4>1. SubSeq(left, Batch + 1, Len(left))[i] = left[Batch + 1 + i - 1]
        BY <3>1, SubSeqProperties
      <4>2. Batch + 1 + i - 1 = Batch + i
        BY <3>1
      <4> QED BY <4>1, <4>2
    <3>5. rest(n) # <<>>
      <4>1. Len(left) - Batch # 0
        BY ONLY <3>1
      <4>2. rest(n) = SubSeq(left, Batch + 1, Len(left))
        BY ONLY <3>1
      <4>3. Len(rest(n)) # 0
        BY ONLY <3>3, <4>1, <4>2
      <4> QED BY <4>3
    <3> QED BY <3>1, <3>3, <3>4, <3>5 DEF Q
  <2> QED BY <2>1, <2>2
<1> HIDE DEF left, rest
<1>31. r \in Seq(0 .. Batch) /\ stream[s][w] \in Seq(0 .. Batch)
  <2>1. n \in 0 .. Batch /\ 0 \in 0 .. Batch
    BY <1>3, <1>6
  <2>2. <<>> \in Seq(0 .. Batch) /\ <<n>> \in Seq(0 .. Batch) /\ <<n, 0>> \in Seq(0 .. Batch)
    BY <2>1
  <2> QED BY <1>3, <1>7, <2>2 DEF FetchTypes
<1>12. FetchTypes'
  <2>1. task' \in [Seqs -> [Workers -> Seq([blk : HostBlocks, key : Keys])]]
    <3> DEFINE Q == Seq([blk : HostBlocks, key : Keys])
    <3>1. u \in Q
      <4>1. <<>> \in Q
        OBVIOUS
      <4> HIDE DEF Q
      <4>2. rest(n) \in Q
        BY <1>11 DEF Q
      <4> QED BY <1>8, <4>1, <4>2
    <3>2. task \in [Seqs -> [Workers -> Q]]
      BY <1>3 DEF FetchTypes
    <3> HIDE DEF Q
    <3>3. task' \in [Seqs -> [Workers -> Q]]
      BY <1>8, <3>1, <3>2
    <3> QED BY <3>3 DEF Q
  <2>2. stream' \in [Seqs -> [Workers -> Seq(0 .. Batch)]]
    <3>2. stream[s][w] \o r \in Seq(0 .. Batch)
      BY <1>31
    <3> QED BY <1>3, <1>7, <3>2 DEF FetchTypes
  <2> QED BY <1>3, <1>4, <2>1, <2>2 DEF FetchTypes
<1>13. Types'
  <2>1. SeqTypes'
    BY <1>3, <1>4 DEF SeqTypes
  <2>2. TierTypes'
    BY <1>3, <1>4 DEF TierTypes
  <2>3. DataTypes'
    BY <1>3, <1>4, <1>5 DEF DataTypes
  <2> QED BY <1>12, <2>1, <2>2, <2>3, TypeParts
<1>14. Batched' /\ Shapes'
  <2>1. Batched'
    BY <1>3, <1>4 DEF Batched
  <2>2. status[s] # "new"
    <3>1. Shape(s)
      BY <1>3 DEF Shapes
    <3> QED BY <1>6, <3>1 DEF Shape, PerWorker, left
  <2>3. ASSUME NEW t \in Seqs PROVE Shape(t)'
    <3>1. Shape(t)
      BY <1>3 DEF Shapes
    <3>2. status[t] = "new" => task'[t] = task[t]
      BY <1>10, <2>2
    <3> QED BY <1>4, <3>1, <3>2 DEF Shape
  <2> QED BY <2>1, <2>3 DEF Shapes
<1>15. Awaits'
  <2>1. ASSUME NEW t \in Seqs PROVE Awaited(t)'
    <3>1. Awaited(t) /\ Open(t)' = Open(t)
      BY <1>3, <1>4 DEF Awaits, Open
    <3>2. t \notin awaiting => stream'[t] = stream[t]
      <4>1. CASE t # s
        BY <1>10, <4>1
      <4>2. CASE t = s /\ t \notin awaiting
        <5>1. client[s][w] = "closed"
          BY <3>1, <4>2 DEF Awaited, PerWorker
        <5>2. stream' = stream
          BY <1>6, <5>1
        <5> QED BY <5>2
      <4> QED BY <4>1, <4>2
    <3>3. ASSUME NEW x \in Open(t), task[t][x] # <<>> \/ 0 \in Range(stream[t][x])
          PROVE  task'[t][x] # <<>> \/ 0 \in Range(stream'[t][x])
      <4>1. CASE t # s \/ x # w
        BY <1>10, <3>3, <4>1 DEF Open
      <4>2. CASE t = s /\ x = w
        <5>1. client[s][w] = "open" /\ u = rest(n) /\ (done(n) => 0 \in Range(r)) /\ r # <<>>
          BY <1>7, <1>8, <4>2 DEF Open
        <5>2. CASE ~done(n)
          BY <1>10, <1>11, <4>2, <5>1, <5>2
        <5>3. CASE done(n)
          <6>2. Range(stream[s][w] \o r) = Range(stream[s][w]) \union Range(r)
            BY <1>31, ConcatQueue
          <6> QED BY <1>10, <4>2, <5>1, <5>3, <6>2
        <5> QED BY <5>2, <5>3
      <4> QED BY <4>1, <4>2
    <3> QED BY <1>4, <3>1, <3>2, <3>3 DEF Awaited
  <2> QED BY <2>1 DEF Awaits
\* Blocks someone relies on are not written, or marked.
<1>16. ASSUME NEW x \in Workers, NEW b \in HostBlocks, b \notin mine, NEW k, Good(hostKV[x][b], k)
       PROVE  Good(hostKV'[x][b], k)
  <2>1. CASE x = w
    BY <1>5, <1>16, <2>1 DEF Good
  <2>2. CASE x # w
    BY <1>5, <1>16, <2>2
  <2> QED BY <2>1, <2>2
<1>17. /\ \A t \in Seqs : host[t] \in Seq(HostBlocks) /\ Len(host[t]) \in Nat /\ hkv[t] \in Nat /\ hkv[t] <= Len(host[t])
       /\ \A t \in Seqs : \A j \in 1 .. Len(host[t]) : host[t][j] \in HostBlocks
  BY <1>3, SMTT(20) DEF SeqTypes
<1>18. ASSUME NEW t \in Seqs, NEW j \in 1 .. Len(host[t]), t # s \/ j <= hkv[s]
       PROVE  host[t][j] \notin mine
  <2> SUFFICES ASSUME NEW i \in hkv[s] + 1 .. Len(host[s]), host[s][i] = host[t][j] PROVE FALSE
    OBVIOUS
  <2>1. s = t /\ i = j
    BY <1>3 DEF HostOwn
  <2> QED BY <1>17, <1>18, <2>1
<1>19. HostOwn'
  BY <1>3, <1>4 DEF HostOwn
<1>20. Copied'
  <2>1. ASSUME NEW f \in flying, NEW x \in f.copied, NEW p \in f.pairs
        PROVE  Good(hostKV'[x][p.dst], p.key)
    <3>1. f \in [pairs : SUBSET PairSet(DevBlocks, HostBlocks), copied : SUBSET Workers]
      BY <1>3 DEF TierTypes
    <3>2. x \in Workers /\ p.dst \in HostBlocks /\ p \in Pairs
      BY <3>1 DEF PairSet, Pairs
    <3>3. p.dst \notin mine
      <4>1. \A j \in 1 .. Len(host[s]) : host[s][j] # p.dst
        BY <1>3, <3>2 DEF HostOwn
      <4> QED BY <1>17, <4>1
    <3>4. Good(hostKV[x][p.dst], p.key)
      BY <1>3 DEF Copied
    <3> QED BY <1>16, <3>2, <3>3, <3>4
  <2> QED BY <1>4, <2>1 DEF Copied, Good
<1>21. HostKVIntact'
  <2> SUFFICES ASSUME NEW x \in Workers
               PROVE  /\ \A k \in DOMAIN hcache : Good(hostKV'[x][hcache[k]], k)
                      /\ \A t \in Seqs : \A i \in 1 .. hkv[t] : Good(hostKV'[x][host[t][i]], Path[t][i])
                      /\ \A k \in DOMAIN store[x] : Good(store[x][k], k)
    BY <1>4 DEF HostKVIntact, Good
  <2>1. /\ \A k \in DOMAIN hcache : Good(hostKV[x][hcache[k]], k)
        /\ \A t \in Seqs : \A i \in 1 .. hkv[t] : Good(hostKV[x][host[t][i]], Path[t][i])
        /\ \A k \in DOMAIN store[x] : Good(store[x][k], k)
    BY <1>3 DEF HostKVIntact
  <2>2. ASSUME NEW k \in DOMAIN hcache PROVE Good(hostKV'[x][hcache[k]], k)
    <3>1. hcache[k] \in HostBlocks
      BY <1>3 DEF TierTypes
    <3>2. hcache[k] \notin mine
      BY <1>3 DEF HostOwn
    <3> QED BY <1>16, <2>1, <3>1, <3>2
  <2>3. ASSUME NEW t \in Seqs, NEW i \in 1 .. hkv[t] PROVE Good(hostKV'[x][host[t][i]], Path[t][i])
    <3>1. i \in 1 .. Len(host[t]) /\ (t = s => i <= hkv[s])
      BY <1>17
    <3>2. host[t][i] \notin mine
      BY <1>18, <3>1
    <3> QED BY <1>16, <1>17, <2>1, <3>1, <3>2
  <2> QED BY <2>1, <2>2, <2>3
<1>22. DevOwn' /\ DevFill'
  <2>1. DevAgrees
    BY <1>4 DEF DevAgrees
  <2>2. DevStep
    BY <1>3, <1>4, <2>1, SameDev
  <2> QED BY <1>3, <1>13, <2>2, DevStepKeepsOwn, DevStepKeepsFill
<1>23. ASSUME NEW t \in awaiting, NEW x \in Workers, x # w
       PROVE  \E c \in [0 .. Len(stream'[t][x]) -> 0 .. PromptBlocks[t]] :
              \E o \in 0 .. PromptBlocks[t] : Progress(t, x, c, o)'
  <2>1. t \in Seqs /\ Len(host[t]) = PromptBlocks[t] + 1
    BY <1>3 DEF Awaits, Awaited, FetchTypes
  <2>2. SameFetch(t, x)
    BY <1>4, <1>5, <1>10, <1>23, <2>1 DEF SameFetch
  <2> QED BY <1>3, <1>13, <2>1, <2>2, FetchKept
<1>24. ASSUME NEW t \in awaiting, t # s
       PROVE  \E c \in [0 .. Len(stream'[t][w]) -> 0 .. PromptBlocks[t]] :
              \E o \in 0 .. PromptBlocks[t] : Progress(t, w, c, o)'
  <2>1. t \in Seqs /\ Len(host[t]) = PromptBlocks[t] + 1 /\ PromptBlocks[t] \in Nat
    BY <1>3, PathFacts DEF Awaits, Awaited, FetchTypes
  <2>2. PICK c \in [0 .. Len(stream[t][w]) -> 0 .. PromptBlocks[t]] :
           \E o \in 0 .. PromptBlocks[t] : Progress(t, w, c, o)
    BY <1>3 DEF Fetching
  <2>3. PICK o \in 0 .. PromptBlocks[t] : Progress(t, w, c, o)
    BY <2>2
  <2>4. ASSUME NEW i \in 0 .. Len(stream[t][w]), NEW j \in hkv[t] + 1 .. hkv[t] + c[i]
        PROVE  Good(hostKV'[w][host[t][j]], Path[t][j])
    <3>1. hkv[t] + o + Len(task[t][w]) <= PromptBlocks[t] /\ c[i] <= o
      BY <2>3 DEF Progress
    <3>5. Len(task[t][w]) \in Nat
      BY <1>3, <2>1 DEF FetchTypes
    <3>2. c[i] \in 0 .. PromptBlocks[t]
      OBVIOUS
    <3>3. j \in 1 .. Len(host[t])
      <4>1. hkv[t] \in Nat /\ Len(host[t]) = PromptBlocks[t] + 1 /\ PromptBlocks[t] \in Nat
        BY <1>17, <2>1
      <4> QED BY ONLY <3>1, <3>2, <3>5, <4>1, o \in 0 .. PromptBlocks[t], j \in hkv[t] + 1 .. hkv[t] + c[i], SMTT(20)
    <3>4. Good(hostKV[w][host[t][j]], Path[t][j])
      BY <2>3 DEF Progress
    <3> QED BY <1>16, <1>17, <1>18, <1>24, <2>1, <3>3, <3>4
  <2>5. Progress(t, w, c, o)'
    <3>1. stream'[t] = stream[t] /\ task'[t] = task[t]
      BY <1>10, <1>24, <2>1
    <3> QED BY <1>4, <2>3, <2>4, <3>1 DEF Progress, Good
  <2> QED BY <1>10, <1>24, <2>1, <2>5
<1>25. ASSUME s \in awaiting
       PROVE  \E c \in [0 .. Len(stream'[s][w]) -> 0 .. PromptBlocks[s]] :
              \E o \in 0 .. PromptBlocks[s] : Progress(s, w, c, o)'
  <2> DEFINE P == PromptBlocks[s]
             h == hkv[s]
             L == Len(stream[s][w])
  <2>1. PICK c \in [0 .. L -> 0 .. P] : \E o \in 0 .. P : Progress(s, w, c, o)
    BY <1>3, <1>25 DEF Fetching
  <2>2. PICK o \in 0 .. P : Progress(s, w, c, o)
    BY <2>1
  <2>3. /\ c[0] = result[s][w] /\ \A i \in 1 .. L : c[i] = c[i - 1] + stream[s][w][i]
        /\ \A i \in 0 .. L : c[i] <= o
        /\ client[s][w] = "open" => c[L] = o
        /\ h + o + Len(left) <= P
        /\ \A i \in 1 .. Len(left) : left[i] = [blk |-> host[s][h + o + i], key |-> Path[s][h + o + i]]
        /\ \A i \in 0 .. L : \A j \in h + 1 .. h + c[i] : Good(hostKV[w][host[s][j]], Path[s][j])
    BY <2>2 DEF Progress, left
  <2>4. P \in Nat /\ h \in Nat /\ L \in Nat /\ o \in Nat /\ Len(host[s]) = P + 1 /\ c \in [0 .. L -> 0 .. P]
    BY <1>3, <1>17, <1>25, <1>31, PathFacts DEF Awaits, Awaited
  <2> HIDE DEF P, h, L
  <2>5. \A i \in 1 .. Len(left) :
          /\ left[i].blk = host[s][h + o + i] /\ left[i].key = Path[s][h + o + i]
          /\ h + o + i \in h + 1 .. Len(host[s])
    <3> SUFFICES ASSUME NEW i \in 1 .. Len(left)
                 PROVE  /\ left[i].blk = host[s][h + o + i] /\ left[i].key = Path[s][h + o + i]
                        /\ h + o + i \in h + 1 .. Len(host[s])
      OBVIOUS
    <3>1. left[i] = [blk |-> host[s][h + o + i], key |-> Path[s][h + o + i]]
      BY <2>3
    <3>2. Len(left) \in Nat /\ h + o + Len(left) <= P
      BY <1>9, <2>3
    <3>3. h + o + i \in h + 1 .. Len(host[s])
      BY ONLY <2>4, <3>2, i \in 1 .. Len(left)
    <3> QED BY <3>1, <3>3
  \* The blocks behind o are not written.
  <2>6. ASSUME NEW j \in h + 1 .. h + o PROVE hostKV'[w][host[s][j]] = hostKV[w][host[s][j]]
    <3>1. j \in h + 1 .. Len(host[s]) /\ j \in 1 .. Len(host[s])
      BY <1>9, <2>3, <2>4
    <3>2. ASSUME NEW i \in 1 .. Len(left) PROVE left[i].blk # host[s][j]
      <4>1. h + o + i \in 1 .. Len(host[s]) /\ h + o + i # j
        BY <2>4, <2>5, SMTT(20)
      <4>2. host[s][j] # host[s][h + o + i]
        BY <1>3, <3>1, <4>1 DEF HostOwn, h
      <4> QED BY <2>5, <4>2
    <3> QED BY <1>5, <1>17, <3>1, <3>2
  \* The blocks that follow are fetched.
  <2>7. ASSUME NEW i \in 1 .. n PROVE Good(hostKV'[w][host[s][h + o + i]], Path[s][h + o + i])
    <3>1. i \in 1 .. Len(left)
      BY <1>6, <1>9
    <3>2. left[i].blk \in mine
      BY <2>5, <3>1 DEF h
    <3>3. ASSUME NEW k \in 1 .. Len(left), left[k].blk = left[i].blk PROVE k = i
      <4>1. h + o + i \in h + 1 .. Len(host[s]) /\ h + o + k \in 1 .. Len(host[s])
        BY <2>4, <2>5, <3>1
      <4>2. host[s][h + o + i] = host[s][h + o + k]
        BY <2>5, <3>1, <3>3
      <4>3. h + o + i = h + o + k
        BY <1>3, <4>1, <4>2 DEF HostOwn, h
      <4> QED BY <2>4, <4>3
    <3> QED BY <1>5, <2>5, <3>1, <3>2, <3>3
  \* What the worker has behind it now.
  <2>8. PICK z \in 0 .. P :
          /\ o <= z /\ h + z + Len(u) <= P
          /\ \A i \in 1 .. Len(u) : u[i] = [blk |-> host[s][h + z + i], key |-> Path[s][h + z + i]]
          /\ client[s][w] = "open" => z = o + n
    <3>1. CASE u = <<>> /\ client[s][w] = "open"
      <4>1. o + n \in 0 .. P /\ o <= o + n /\ h + (o + n) + 0 <= P
        BY <1>6, <1>9, <2>3, <2>4, SMTT(20)
      <4> QED BY <3>1, <4>1
    <3>2. CASE u = <<>> /\ client[s][w] # "open"
      <4>1. o <= o /\ h + o + 0 <= P
        BY <1>9, <2>3, <2>4
      <4> QED BY <3>2, <4>1
    <3>3. CASE u # <<>>
      <4>1. u = rest(n) /\ ~done(n)
        BY <1>8, <3>3 DEF rest
      <4>2. n = Batch /\ Len(u) = Len(left) - Batch /\ \A i \in 1 .. Len(left) - Batch : u[i] = left[Batch + i]
        BY <1>6, <1>11, <4>1
      <4>3. Batch \in Nat /\ Len(left) \in Nat /\ Batch <= Len(left)
        BY <1>3, <1>6, <1>9, <4>2
      <4>4. o + Batch \in 0 .. P /\ o <= o + Batch /\ h + (o + Batch) + Len(u) <= P
        <5>1. h + o + Len(left) <= P
          BY <2>3
        <5>2. Len(u) = Len(left) - Batch
          BY <4>2
        <5>3. P \in Nat /\ h \in Nat /\ o \in Nat
          BY <2>4
        <5> QED BY ONLY <4>3, <5>1, <5>2, <5>3
      <4>5. ASSUME NEW i \in 1 .. Len(u)
            PROVE  u[i] = [blk |-> host[s][h + (o + Batch) + i], key |-> Path[s][h + (o + Batch) + i]]
        <5>1. Batch + i \in 1 .. Len(left) /\ i \in 1 .. Len(left) - Batch /\ h + o + (Batch + i) = h + (o + Batch) + i
          <6>1. Len(u) = Len(left) - Batch
            BY <4>2
          <6>2. h \in Nat /\ o \in Nat
            BY <2>4
          <6> QED BY ONLY <4>3, <6>1, <6>2, i \in 1 .. Len(u)
        <5>2. left[Batch + i] = [blk |-> host[s][h + o + (Batch + i)], key |-> Path[s][h + o + (Batch + i)]]
          BY <2>3, <5>1
        <5> QED BY <4>2, <5>1, <5>2
      <4> QED BY <4>2, <4>4, <4>5
    <3> QED BY <3>1, <3>2, <3>3
  <2> DEFINE v == stream[s][w] \o r
  <2>9. /\ v = stream'[s][w] /\ Len(v) = L + Len(r) /\ Len(r) \in 0 .. 2
        /\ \A i \in 1 .. L : v[i] = stream[s][w][i]
        /\ \A i \in L + 1 .. Len(v) : v[i] = r[i - L]
    <3>1. Len(r) \in 0 .. 2
      BY <1>7
    <3> QED BY <1>10, <1>31, <3>1 DEF L
  <2>10. client[s][w] \in {"open", "closed"}
    BY <1>3 DEF FetchTypes
  \* The counts of the reports under way.
  <2>11. PICK d \in [0 .. Len(v) -> 0 .. P] :
           /\ \A i \in 0 .. L : d[i] = c[i]
           /\ \A i \in L + 1 .. Len(v) : d[i] = z
    <3> DEFINE e == [i \in 0 .. Len(v) |-> IF i <= L THEN c[i] ELSE z]
    <3>1. Len(v) \in Nat /\ L <= Len(v)
      BY <2>4, <2>9
    <3> HIDE DEF v
    <3>2. e \in [0 .. Len(v) -> 0 .. P]
      BY <2>4, <3>1
    <3>3. (\A i \in 0 .. L : e[i] = c[i]) /\ \A i \in L + 1 .. Len(v) : e[i] = z
      BY <2>4, <3>1
    <3> HIDE DEF e
    <3> QED BY <3>2, <3>3
  <2> HIDE DEF v
  <2>12. \A i \in 1 .. Len(v) : d[i] = d[i - 1] + v[i]
    <3> SUFFICES ASSUME NEW i \in 1 .. Len(v) PROVE d[i] = d[i - 1] + v[i]
      OBVIOUS
    <3>1. CASE i \in 1 .. L
      <4>1. i - 1 \in 0 .. L /\ i \in 0 .. L
        BY <2>4, <3>1
      <4> QED BY <2>3, <2>9, <2>11, <3>1, <4>1
    <3>2. CASE i = L + 1
      <4>1. r # <<>> /\ client[s][w] = "open"
        BY <1>7, <2>4, <2>9, <2>10, <3>2
      <4>2. r[1] = n /\ i \in L + 1 .. Len(v) /\ i - L = 1 /\ i - 1 = L /\ L \in 0 .. L
        BY <1>7, <2>4, <3>2, <4>1
      <4>3. d[i] = z /\ d[i - 1] = o /\ v[i] = n
        BY <2>3, <2>9, <2>11, <4>1, <4>2
      <4> QED BY <2>8, <4>1, <4>3
    <3>3. CASE i \notin 1 .. L /\ i # L + 1
      <4>0. Len(v) = L + Len(r) /\ Len(r) \in 0 .. 2
        BY <2>9
      <4>1. i = L + 2 /\ Len(r) = 2
        <5>1. L \in Nat
          BY <2>4
        <5> QED BY ONLY <3>3, <4>0, <5>1, i \in 1 .. Len(v), SMTT(20)
      <4>2. r = <<n, 0>>
        <5>1. CASE r = <<>>
          BY ONLY <4>1, <5>1
        <5>2. CASE r = <<n>>
          BY ONLY <4>1, <5>2, n \in Nat
        <5> QED BY <1>7, <5>1, <5>2
      <4>3. i \in L + 1 .. Len(v) /\ i - 1 \in L + 1 .. Len(v) /\ i - L = 2
        BY <2>4, <4>1
      <4>4. d[i] = z /\ d[i - 1] = z /\ v[i] = 0
        BY <2>9, <2>11, <4>2, <4>3, SMTT(20)
      <4> QED BY <2>4, <4>4
    <3> QED BY <3>1, <3>2, <3>3
  <2>13. ASSUME NEW i \in 0 .. Len(v)
         PROVE  d[i] <= z /\ \A j \in h + 1 .. h + d[i] : Good(hostKV'[w][host[s][j]], Path[s][j])
    <3>0. z \in Nat /\ o <= z
      BY <2>4, <2>8
    <3>1. CASE i \in 0 .. L
      <4>1. d[i] = c[i] /\ c[i] <= o /\ c[i] \in Nat
        BY <2>3, <2>4, <2>11, <3>1
      <4>2. \A j \in h + 1 .. h + c[i] : j \in h + 1 .. h + o
        BY <2>4, <4>1
      <4>3. \A j \in h + 1 .. h + c[i] : Good(hostKV'[w][host[s][j]], Path[s][j])
        BY <2>3, <2>6, <3>1, <4>2
      <4> QED BY <2>4, <3>0, <4>1, <4>3
    <3>2. CASE i \notin 0 .. L
      <4>1. i \in L + 1 .. Len(v) /\ r # <<>>
        BY <2>4, <2>9, <3>2
      <4>2. client[s][w] = "open" /\ d[i] = z
        BY <1>7, <2>10, <2>11, <4>1
      <4>3. z = o + n /\ c[L] = o /\ L \in 0 .. L
        BY <2>3, <2>4, <2>8, <4>2
      <4>4. ASSUME NEW j \in h + 1 .. h + z PROVE Good(hostKV'[w][host[s][j]], Path[s][j])
        <5>1. CASE j \in h + 1 .. h + o
          BY <2>3, <2>6, <4>3, <5>1
        <5>2. CASE j \notin h + 1 .. h + o
          <6>1. j - h - o \in 1 .. n /\ h + o + (j - h - o) = j
            BY <2>4, <4>3, <5>2
          <6> QED BY <2>7, <6>1
        <5> QED BY <5>1, <5>2
      <4> QED BY <3>0, <4>2, <4>4
    <3> QED BY <3>1, <3>2
  <2>14. d[0] = result[s][w]
    BY <2>3, <2>4, <2>11
  <2>15. client[s][w] = "open" => d[Len(v)] = z
    <3>1. client[s][w] = "open" => Len(r) # 0
      BY <1>7
    <3> QED BY <2>4, <2>9, <2>11, <3>1
  <2>16. Progress(s, w, d, z)'
    BY <1>4, <1>10, <2>8, <2>9, <2>12, <2>13, <2>14, <2>15 DEF Progress, Good, P, h
  <2> QED BY <2>9, <2>16 DEF P
<1>26. Fetching'
  <2>1. ASSUME NEW t \in awaiting, NEW x \in Workers
        PROVE  \E c \in [0 .. Len(stream'[t][x]) -> 0 .. PromptBlocks[t]] :
               \E o \in 0 .. PromptBlocks[t] : Progress(t, x, c, o)'
    <3>1. CASE x # w
      BY <1>23, <3>1
    <3>2. CASE x = w /\ t # s
      BY <1>24, <3>2
    <3>3. CASE x = w /\ t = s
      BY <1>25, <3>3
    <3> QED BY <3>1, <3>2, <3>3
  <2> QED BY <1>4, <2>1 DEF Fetching
<1> QED BY <1>13, <1>14, <1>15, <1>19, <1>20, <1>21, <1>22, <1>26 DEF IInv

-----------------------------------------------------------------------------
\* Steps of one sequence.

\* What a step of another sequence leaves of a sequence.
SameSeq(t) ==
    /\ status'[t] = status[t] /\ full'[t] = full[t] /\ host'[t] = host[t] /\ hkv'[t] = hkv[t]
    /\ dev'[t] = dev[t] /\ kv'[t] = kv[t]
SameStreams(t) ==
    /\ t \in awaiting' <=> t \in awaiting
    /\ t \in faulty' <=> t \in faulty
    /\ flag'[t] = flag[t] /\ result'[t] = result[t] /\ task'[t] = task[t]
    /\ stream'[t] = stream[t] /\ client'[t] = client[t]

\* The statuses and the counts of the others are as they were.
LEMMA ShapesOfOne ==
    ASSUME Shapes, NEW s \in Seqs, \A t \in Seqs \ {s} : SameSeq(t) /\ task'[t] = task[t], Shape(s)'
    PROVE  Shapes'
<1>1. ASSUME NEW t \in Seqs \ {s} PROVE Shape(t)'
  <2>1. Shape(t) /\ SameSeq(t) /\ task'[t] = task[t]
    BY DEF Shapes
  <2> QED BY <2>1 DEF Shape, SameSeq
<1> QED BY <1>1 DEF Shapes

\* The prefetches of the others are as they were.
LEMMA FetchesOfOne ==
    ASSUME IInv, Types', HostAgrees, NEW s \in Seqs,
           \A t \in Seqs \ {s} : SameSeq(t) /\ SameStreams(t), Awaited(s)',
           s \in awaiting' => \A w \in Workers :
              \E c \in [0 .. Len(stream'[s][w]) -> 0 .. PromptBlocks[s]] :
              \E o \in 0 .. PromptBlocks[s] : Progress(s, w, c, o)'
    PROVE  Awaits' /\ Fetching'
<1>1. Types /\ Awaits /\ Fetching
  BY DEF IInv
<1>2. ASSUME NEW t \in Seqs \ {s} PROVE Awaited(t)'
  <2>1. Awaited(t) /\ SameSeq(t) /\ SameStreams(t)
    BY <1>1 DEF Awaits
  <2>2. Open(t)' = Open(t)
    BY <2>1 DEF Open, SameStreams
  <2> QED BY <2>1, <2>2 DEF Awaited, SameSeq, SameStreams
<1>3. awaiting' \subseteq Seqs
  BY DEF Types, SeqTypes, FetchTypes, TierTypes, DataTypes
<1>4. ASSUME NEW t \in awaiting', NEW w \in Workers
      PROVE  \E c \in [0 .. Len(stream'[t][w]) -> 0 .. PromptBlocks[t]] :
             \E o \in 0 .. PromptBlocks[t] : Progress(t, w, c, o)'
  <2>1. CASE t = s
    BY <1>4, <2>1
  <2>2. CASE t # s
    <3>1. t \in Seqs \ {s} /\ SameSeq(t) /\ SameStreams(t)
      BY <1>3, <2>2
    <3>2. t \in awaiting /\ Len(host[t]) = PromptBlocks[t] + 1
      BY <1>1, <3>1 DEF Awaits, Awaited, SameStreams
    <3>3. SameFetch(t, w)
      BY <3>1 DEF SameFetch, SameSeq, SameStreams, HostAgrees
    <3> QED BY <1>1, <3>2, <3>3, FetchKept
  <2> QED BY <2>1, <2>2
<1>5. Awaits'
  BY <1>2 DEF Awaits
<1>6. Fetching'
  BY <1>4 DEF Fetching
<1> QED BY <1>5, <1>6

\* The types of the prefetches depend on their variables only.
LEMMA SameFetchTypes ==
    ASSUME FetchTypes, UNCHANGED fetchVars
    PROVE  FetchTypes'
BY DEF FetchTypes, fetchVars

\* A placed request joins the batch.
LEMMA AcceptKeepsIInv ==
    ASSUME IInv, NEW s \in Seqs, Accept(s)
    PROVE  IInv'
<1>1. /\ status[s] = "placed" /\ status' = [status EXCEPT ![s] = "prefill"] /\ pc' = pc /\ full' = full
      /\ dev' = dev /\ kv' = kv /\ host' = host /\ hkv' = hkv
      /\ dcache' = dcache /\ hcache' = hcache /\ loads' = loads /\ copying' = copying /\ offq' = offq
      /\ flying' = flying /\ UNCHANGED fetchVars /\ UNCHANGED dataVars
  BY DEF Accept, tierVars
<1>2. /\ Batched /\ Shapes /\ Awaits
      /\ SeqTypes /\ FetchTypes /\ TierTypes /\ DataTypes
  BY TypeParts DEF IInv
<1>3. status \in [Seqs -> {"new", "waiting", "placed", "prefill", "running", "decode", "gone"}]
  BY <1>2 DEF SeqTypes
<1>4. status'[s] = "prefill" /\ \A t \in Seqs \ {s} : status'[t] = status[t]
  BY <1>1, <1>3
<1>5. SeqTypes' /\ TierTypes' /\ DataTypes' /\ DevAgrees /\ HostAgrees /\ store' = store /\ FetchTypes'
  <2>1. SeqTypes'
    BY <1>1, <1>2 DEF SeqTypes
  <2>2. TierTypes'
    BY <1>1, <1>2 DEF TierTypes
  <2> QED BY <1>1, <1>2, <2>1, <2>2, DataSame, SameFetchTypes
<1>6. Types'
  BY <1>5, TypeParts
<1>7. Batched'
  BY <1>1, <1>2, <1>4 DEF Batched
<1>8. Shapes'
  <2>1. \A t \in Seqs \ {s} : SameSeq(t) /\ task'[t] = task[t]
    BY <1>1, <1>4 DEF SameSeq, fetchVars
  <2>2. Shape(s)
    BY <1>2 DEF Shapes
  <2>3. Shape(s)'
    BY <1>1, <1>4, <2>2 DEF Shape
  <2> QED BY <1>2, <2>1, <2>3, ShapesOfOne
<1>9. Awaits' /\ Fetching'
  <2>1. \A t \in awaiting : t \in Seqs \ {s}
    BY <1>1, <1>2 DEF Awaits, Awaited, FetchTypes
  <2> QED BY <1>1, <1>4, <1>5, <1>6, <2>1, SameFetches
<1>10. DevStep
  <2>1. Pairs' = Pairs
    BY <1>1, SamePairs
  <2>2. Queue' = Queue
    BY <1>1 DEF Queue
  <2> QED BY <1>1, <1>2, <1>5, <2>1, <2>2, SameDev
<1>11. HostStep
  BY <1>1, <1>2, <1>5, SameHost
<1> QED BY <1>6, <1>7, <1>8, <1>9, <1>10, <1>11, IInvAfterStep

-----------------------------------------------------------------------------
\* The copies.

\* The queued offloads are launched.
LEMMA LaunchKeepsHost ==
    ASSUME IInv, UNCHANGED <<host, hkv, hcache, hostKV, store>>, flying' = Launched, offq' = {}
    PROVE  Pairs' = Pairs /\ HostOwn' /\ Copied' /\ HostKVIntact'
<1> DEFINE n == [pairs |-> offq, copied |-> {}]
<1>1. n.pairs = offq /\ n.copied = {}
  OBVIOUS
<1> HIDE DEF n
<1>2. (offq = {} /\ flying' = flying) \/ flying' = flying \cup {n}
  BY DEF Launched, n
<1>3. Pairs' = Pairs
  BY <1>1, <1>2 DEF Pairs
<1>4. HostOwn /\ Copied /\ HostKVIntact
  BY DEF IInv
<1>5. \A f, g \in flying' : f # g => f.pairs \cap g.pairs = {}
  <2>1. /\ \A f \in flying : offq \cap f.pairs = {}
        /\ \A f, g \in flying : f # g => f.pairs \cap g.pairs = {}
    BY <1>4 DEF HostOwn
  <2> QED BY <1>1, <1>2, <2>1
<1>6. HostOwn'
  BY <1>3, <1>4, <1>5 DEF HostOwn
<1>7. Copied'
  BY <1>1, <1>2, <1>4 DEF Copied, Good
<1>8. HostKVIntact'
  BY <1>4 DEF HostKVIntact, Good
<1> QED BY <1>3, <1>6, <1>7, <1>8

\* transfer_blocks hands the queues over to the copies.
LEMMA TransferKeepsIInv ==
    ASSUME IInv, Transfer \/ TransferNoBatch
    PROVE  IInv'
<1>1. /\ pc = "build" /\ (\A s \in Seqs : status[s] # "placed") /\ status' = status /\ full' = full
      /\ dev' = dev /\ kv' = kv /\ host' = host /\ hkv' = hkv
      /\ dcache' = dcache /\ hcache' = hcache
      /\ flying' = Launched /\ offq' = {} /\ UNCHANGED fetchVars /\ UNCHANGED dataVars
      /\ \/ pc' = "run" /\ copying' = loads /\ loads' = {}
         \/ pc' = pc /\ copying' = copying /\ loads' = loads
  BY DEF Transfer, TransferNoBatch, seqVars, Building, BatchOf
<1>2. /\ Batched /\ Shapes /\ DevOwn /\ DevFill
      /\ SeqTypes /\ FetchTypes /\ TierTypes /\ DataTypes
  BY TypeParts DEF IInv
<1>3. copying = {} /\ Queue' = Queue
  BY <1>1, <1>2 DEF Batched, Queue
<1>4. Pairs' = Pairs /\ HostOwn' /\ Copied' /\ HostKVIntact'
  BY <1>1, LaunchKeepsHost DEF dataVars
<1>5. TierTypes'
  <2> DEFINE n == [pairs |-> offq, copied |-> {}]
             F == [pairs : SUBSET PairSet(DevBlocks, HostBlocks), copied : SUBSET Workers]
  <2>1. offq \in SUBSET PairSet(DevBlocks, HostBlocks) /\ flying \subseteq F
    BY <1>2 DEF TierTypes
  <2>2. n \in F
    BY <2>1
  <2>3. flying' \subseteq F
    BY <1>1, <2>1, <2>2 DEF Launched
  <2>4. loads' \cup copying' \subseteq loads \cup copying
    BY <1>1
  <2> QED BY <1>1, <1>2, <2>3, <2>4 DEF TierTypes
<1>6. SeqTypes' /\ FetchTypes' /\ DataTypes' /\ DevAgrees /\ HostAgrees
  <2>1. SeqTypes'
    BY <1>1, <1>2 DEF SeqTypes
  <2> QED BY <1>1, <1>2, <2>1, DataSame, SameFetchTypes
<1>7. Types'
  BY <1>5, <1>6, TypeParts
<1>8. Batched'
  BY <1>1, <1>3 DEF Batched
<1>9. Shapes'
  <2> SUFFICES ASSUME NEW t \in Seqs PROVE Shape(t)'
    BY DEF Shapes
  <2>1. Shape(t)
    BY <1>2 DEF Shapes
  <2> QED BY <1>1, <2>1 DEF Shape, fetchVars
<1>10. Awaits' /\ Fetching'
  BY <1>1, <1>6, <1>7, SameFetches
<1>11. DevStep
  BY <1>1, <1>2, <1>3, <1>4, <1>6, SameDev
<1>12. DevOwn' /\ DevFill'
  BY <1>2, <1>7, <1>11, DevStepKeepsOwn, DevStepKeepsFill, TypeParts
<1> QED BY <1>4, <1>7, <1>8, <1>9, <1>10, <1>12 DEF IInv

\* The blocks that someone relies upon.
DevRelied(d, k) ==
    \/ k \in DOMAIN dcache /\ dcache[k] = d
    \/ DevCounted(d, k)
    \/ \E p \in Pairs : p.src = d /\ p.key = k

\* Every reference that relies on a device block has what it relies on.
LEMMA ReliedHas ==
    ASSUME Types, DevFill, NEW d, NEW k, DevRelied(d, k)
    PROVE  d \in DevBlocks /\ DevHas(d, k)
<1>1. CASE k \in DOMAIN dcache /\ dcache[k] = d
  BY <1>1 DEF Types, SeqTypes, FetchTypes, TierTypes, DataTypes, DevFill
<1>2. CASE DevCounted(d, k)
  <2>0. PICK t \in Seqs : \E j \in 1 .. kv[t] : dev[t][j] = d /\ Path[t][j] = k
    BY <1>2 DEF DevCounted
  <2>1. PICK j \in 1 .. kv[t] : dev[t][j] = d /\ Path[t][j] = k
    BY <2>0
  <2>2. dev[t] \in Seq(DevBlocks) /\ kv[t] \in Nat /\ kv[t] <= Len(dev[t])
    BY DEF Types, SeqTypes, FetchTypes, TierTypes, DataTypes
  <2>3. j \in 1 .. Len(dev[t])
    BY <2>2
  <2> QED BY <2>1, <2>2, <2>3 DEF DevFill
<1>3. CASE \E p \in Pairs : p.src = d /\ p.key = k
  <2>1. Pairs \subseteq PairSet(DevBlocks, HostBlocks)
    BY DEF Types, SeqTypes, FetchTypes, TierTypes, DataTypes, Pairs
  <2> QED BY <1>3, <2>1 DEF DevFill, PairSet
<1> QED BY <1>1, <1>2, <1>3 DEF DevRelied

\* Host blocks that stand for a hash have its keys and values.
LEMMA StandsForGood ==
    ASSUME HostKVIntact, NEW b, NEW k, StandsFor(b, k), NEW w \in Workers
    PROVE  Good(hostKV[w][b], k)
BY DEF StandsFor, HostKVIntact

\* After its loads a block has what it is relied upon for.
LEMMA LoadedFacts ==
    ASSUME IInv, loads = {}, NEW d \in DevBlocks
    PROVE  /\ Loaded(d, copying) \in Content
           /\ \A k : DevHas(d, k) => Good(Loaded(d, copying), k)
<1> DEFINE mine == {x \in copying : x.dst = d}
           l == CHOOSE x \in mine : TRUE
           found == {hostKV[w][l.src] : w \in Workers}
           some == CHOOSE c \in found : TRUE
<1>1. Types /\ HostKVIntact /\ Queue = copying
  BY DEF IInv, Queue
<1>2. Loaded(d, copying) =
        IF mine = {} THEN devKV[d]
        ELSE IF mine # {l} \/ ~StandsFor(l.src, l.key) \/ Stale \in found THEN Stale
        ELSE IF Cardinality(found) = 1 THEN some
        ELSE Junk
  BY Zenon DEF Loaded
<1>3. Stale \in Content /\ Junk \in Content /\ devKV[d] \in Content
  BY <1>1 DEF Content, Types, SeqTypes, FetchTypes, TierTypes, DataTypes
<1>4. CASE mine = {}
  <2>1. \A x \in Queue : x.dst # d
    BY <1>1, <1>4
  <2>2. Loaded(d, copying) = devKV[d]
    <3> HIDE DEF mine, l, found, some
    <3> QED BY <1>2, <1>4
  <2> QED BY <1>3, <2>1, <2>2 DEF DevHas
<1>5. CASE mine # {}
  <2>1. l \in mine /\ l \in copying /\ l.dst = d
    BY <1>5
  <2>2. l.src \in HostBlocks
    BY <1>1, <2>1 DEF Types, SeqTypes, FetchTypes, TierTypes, DataTypes, PairSet
  <2>3. found \subseteq Content /\ some \in found
    <3>1. found \subseteq Content
      <4> HIDE DEF l
      <4> QED BY <1>1, <2>2 DEF Types, SeqTypes, FetchTypes, TierTypes, DataTypes
    <3>2. found # {}
      BY TiersAssumption
    <3> HIDE DEF found
    <3> QED BY <3>1, <3>2
  <2>4. CASE mine # {l} \/ ~StandsFor(l.src, l.key) \/ Stale \in found
    <3>1. Loaded(d, copying) = Stale
      <4> HIDE DEF mine, l, found, some
      <4> QED BY <1>2, <1>5, <2>4
    <3> QED BY <1>3, <3>1 DEF Good
  <2>5. CASE ~(mine # {l} \/ ~StandsFor(l.src, l.key) \/ Stale \in found)
    <3>1. mine = {l} /\ StandsFor(l.src, l.key) /\ Stale \notin found
      BY <2>5
    <3>2. \A w \in Workers : hostKV[w][l.src] = l.key
      <4>1. \A w \in Workers : Good(hostKV[w][l.src], l.key)
        BY <1>1, <3>1, StandsForGood
      <4> QED BY <3>1, <4>1 DEF Good
    <3>3. found = {l.key}
      BY <3>2, TiersAssumption
    <3>4. Cardinality(found) = 1 /\ some = l.key
      <4>1. some = l.key
        BY <2>3, <3>3
      <4>2. Cardinality({l.key}) = 1
        BY FS_Singleton
      <4> QED BY <3>3, <4>1, <4>2
    <3>5. Loaded(d, copying) = l.key
      <4> HIDE DEF mine, l, found, some
      <4> QED BY <1>2, <1>5, <2>5, <3>4
    <3>6. \A k : DevHas(d, k) => l.key = k
      <4>1. l \in Queue /\ \A m \in Queue : m.dst = d => m = l
        BY <1>1, <2>1, <3>1
      <4> HIDE DEF l, mine
      <4> QED BY <2>1, <4>1 DEF DevHas
    <3> QED BY <2>3, <3>4, <3>5, <3>6 DEF Good
  <2> QED BY <2>4, <2>5
<1> QED BY <1>4, <1>5

\* The host-to-device copies of the step.
LEMMA LoadCopyKeepsIInv ==
    ASSUME IInv, LoadCopy
    PROVE  IInv'
<1>1. /\ copying # {} /\ devKV' = [d \in DevBlocks |-> Loaded(d, copying)] /\ copying' = {}
      /\ UNCHANGED seqVars /\ UNCHANGED fetchVars
      /\ pc' = pc /\ status' = status /\ full' = full /\ dev' = dev /\ kv' = kv /\ host' = host /\ hkv' = hkv
      /\ dcache' = dcache /\ hcache' = hcache /\ loads' = loads
      /\ offq' = offq /\ flying' = flying /\ hostKV' = hostKV /\ store' = store
  BY DEF LoadCopy, seqVars
<1>2. /\ Types /\ Batched /\ Shapes /\ DevOwn /\ DevFill /\ HostOwn /\ Copied /\ HostKVIntact
      /\ SeqTypes /\ FetchTypes /\ TierTypes /\ DataTypes
  BY TypeParts DEF IInv
<1>3. pc = "run" /\ loads = {} /\ Queue' = {}
  BY <1>1, <1>2 DEF Batched, Queue, SeqTypes
<1>4. Pairs' = Pairs
  BY <1>1, SamePairs
<1>5. \A d \in DevBlocks : /\ Loaded(d, copying) \in Content
                           /\ \A k : DevHas(d, k) => Good(Loaded(d, copying), k)
  BY <1>3, LoadedFacts
<1>6. /\ \A d \in DevBlocks : devKV'[d] = Loaded(d, copying)
      /\ devKV' \in [DevBlocks -> Content]
  BY <1>1, <1>5
<1>7. Types'
  <2>1. SeqTypes'
    BY <1>1, <1>2 DEF SeqTypes
  <2>2. TierTypes'
    BY <1>1, <1>2 DEF TierTypes
  <2>3. DataTypes'
    BY <1>1, <1>2, <1>6 DEF DataTypes
  <2> QED BY <1>1, <1>2, <2>1, <2>2, <2>3, SameFetchTypes, TypeParts
<1>8. Batched'
  BY <1>1, <1>2, <1>3 DEF Batched
<1>9. Shapes'
  <2> SUFFICES ASSUME NEW t \in Seqs PROVE Shape(t)'
    BY DEF Shapes
  <2>1. Shape(t)
    BY <1>2 DEF Shapes
  <2> QED BY <1>1, <2>1 DEF Shape, fetchVars
<1>10. Awaits' /\ Fetching'
  <2>1. HostAgrees
    BY <1>1 DEF HostAgrees
  <2> QED BY <1>1, <1>7, <2>1, SameFetches
<1>11. DevOwn'
  BY <1>1, <1>2, <1>4 DEF DevOwn
<1>12. DevFill'
  <2>1. \A d, k : DevRelied(d, k) => Good(devKV'[d], k)
    BY <1>2, <1>5, <1>6, ReliedHas
  <2>2. \A k \in DOMAIN dcache : Good(devKV'[dcache[k]], k)
    BY <2>1 DEF DevRelied
  <2>3. \A s \in Seqs : \A i \in 1 .. kv[s] : Good(devKV'[dev[s][i]], Path[s][i])
    BY <2>1 DEF DevRelied, DevCounted
  <2>4. \A p \in Pairs : Good(devKV'[p.src], p.key)
    BY <2>1 DEF DevRelied
  <2> QED BY <1>1, <1>3, <1>4, <2>2, <2>3, <2>4 DEF DevFill, DevHas, Good
<1>13. HostOwn'
  BY <1>1, <1>2, <1>4 DEF HostOwn
<1>14. Copied' /\ HostKVIntact'
  BY <1>1, <1>2 DEF Copied, HostKVIntact, Good
<1> QED BY <1>7, <1>8, <1>9, <1>10, <1>11, <1>12, <1>13, <1>14 DEF IInv

\* A block that is relied upon is held or cached.
LEMMA ReliedIsUsed ==
    ASSUME Types, NEW d, NEW k, DevRelied(d, k)
    PROVE  d \in DevHeld \cup Range(dcache)
<1>1. CASE k \in DOMAIN dcache /\ dcache[k] = d
  BY <1>1 DEF Range
<1>2. CASE DevCounted(d, k)
  <2>1. PICK t \in Seqs : \E j \in 1 .. kv[t] : dev[t][j] = d /\ Path[t][j] = k
    BY <1>2 DEF DevCounted
  <2>2. PICK j \in 1 .. kv[t] : dev[t][j] = d
    BY <2>1
  <2>3. /\ kv[t] \in Nat /\ Len(dev[t]) \in Nat /\ kv[t] <= Len(dev[t])
        /\ DOMAIN dev[t] = 1 .. Len(dev[t])
    BY DEF Types, SeqTypes
  <2>4. j \in DOMAIN dev[t]
    BY <2>2, <2>3
  <2> QED BY <2>2, <2>4 DEF DevHeld, HeldBy, Range
<1>3. CASE \E p \in Pairs : p.src = d /\ p.key = k
  BY <1>3 DEF DevHeld
<1> QED BY <1>1, <1>2, <1>3 DEF DevRelied

\* Blocks are marked Stale, and the loads are dropped, if at all, with their
\* targets among them.
LEMMA SpoilKeepsIInv ==
    ASSUME IInv, NEW bs, Spoil(bs), UNCHANGED seqVars, UNCHANGED fetchVars,
           UNCHANGED <<dcache, hcache, loads, offq, flying, hostKV, store>>,
           \/ copying' = copying
           \/ copying # {} /\ copying' = {} /\ \A l \in copying : l.dst \in bs
    PROVE  IInv'
<1>1. /\ UNCHANGED <<pc, status, full, dev, kv, host, hkv>>
      /\ devKV' = [b \in DevBlocks |-> IF b \in bs \cap (DevHeld \cup Range(dcache))
                                        THEN Stale ELSE devKV[b]]
  BY DEF Spoil, seqVars
<1>2. /\ Types /\ Batched /\ Shapes /\ DevOwn /\ DevFill /\ HostOwn /\ Copied /\ HostKVIntact
      /\ SeqTypes /\ FetchTypes /\ TierTypes /\ DataTypes
  BY TypeParts DEF IInv
<1>3. Pairs' = Pairs
  BY SamePairs
<1>4. devKV' \in [DevBlocks -> Content]
  BY <1>1, <1>2 DEF DataTypes, Content
<1>5. Types'
  <2>1. SeqTypes'
    BY <1>1, <1>2 DEF SeqTypes
  <2>2. TierTypes'
    BY <1>2 DEF TierTypes
  <2>3. DataTypes'
    BY <1>2, <1>4 DEF DataTypes
  <2> QED BY <1>2, <2>1, <2>2, <2>3, SameFetchTypes, TypeParts
<1>6. Batched'
  BY <1>1, <1>2 DEF Batched
<1>7. Shapes'
  <2> SUFFICES ASSUME NEW t \in Seqs PROVE Shape(t)'
    BY DEF Shapes
  <2>1. Shape(t)
    BY <1>2 DEF Shapes
  <2> QED BY <1>1, <2>1 DEF Shape, fetchVars
<1>8. Awaits' /\ Fetching'
  <2>1. HostAgrees
    BY DEF HostAgrees
  <2> QED BY <1>1, <1>5, <2>1, SameFetches
<1>9. DevOwn'
  BY <1>1, <1>2, <1>3 DEF DevOwn
<1>10. ASSUME NEW d, NEW k, DevRelied(d, k) PROVE DevHas(d, k)'
  <2>1. d \in DevBlocks /\ DevHas(d, k) /\ d \in DevHeld \cup Range(dcache)
    BY <1>2, <1>10, ReliedHas, ReliedIsUsed
  <2>2. devKV'[d] = IF d \in bs THEN Stale ELSE devKV[d]
    BY <1>1, <2>1
  <2>3. CASE copying' = copying
    BY <2>1, <2>2, <2>3 DEF DevHas, Queue, Good
  <2>4. CASE copying # {} /\ copying' = {} /\ \A l \in copying : l.dst \in bs
    <3>1. Queue = copying /\ Queue' = {}
      BY <1>2, <2>4 DEF Batched, Queue, SeqTypes
    <3> QED BY <2>1, <2>2, <2>4, <3>1 DEF DevHas, Good
  <2> QED BY <2>3, <2>4
<1>11. DevFill'
  <2>1. \A k \in DOMAIN dcache : DevHas(dcache[k], k)'
    BY <1>10 DEF DevRelied
  <2>2. \A s \in Seqs : \A i \in 1 .. kv[s] : DevHas(dev[s][i], Path[s][i])'
    <3>1. \A s \in Seqs : \A i \in 1 .. kv[s] : DevRelied(dev[s][i], Path[s][i])
      BY DEF DevRelied, DevCounted
    <3> QED BY <1>1, <1>10, <3>1
  <2>3. \A p \in Pairs : DevHas(p.src, p.key)'
    BY <1>10 DEF DevRelied
  <2> QED BY <1>1, <1>3, <2>1, <2>2, <2>3 DEF DevFill
<1>12. HostOwn'
  BY <1>1, <1>2, <1>3 DEF HostOwn
<1>13. Copied' /\ HostKVIntact'
  BY <1>1, <1>2 DEF Copied, HostKVIntact, Good
<1> QED BY <1>5, <1>6, <1>7, <1>8, <1>9, <1>11, <1>12, <1>13 DEF IInv

\* Loads that fail, that are not waited for, and that come late.
LEMMA UnsafeLoadsKeepIInv ==
    ASSUME IInv, LoadFails \/ SkipWait \/ \E b \in late : LateCopy(b)
    PROVE  IInv'
<1>1. CASE LoadFails
  BY <1>1, SpoilKeepsIInv DEF LoadFails
<1>2. CASE SkipWait
  BY <1>2, SpoilKeepsIInv DEF SkipWait
<1>3. ASSUME NEW b \in late, LateCopy(b) PROVE IInv'
  <2>1. UNCHANGED <<dcache, hcache, loads, copying, offq, flying>>
    BY <1>3 DEF LateCopy, tierVars
  <2> QED BY <1>3, <2>1, SpoilKeepsIInv DEF LateCopy
<1> QED BY <1>1, <1>2, <1>3

\* The forward pass.
LEMMA ComputeKeepsIInv ==
    ASSUME IInv, Compute
    PROVE  IInv'
<1> DEFINE Upto(s) == full[s] + (IF status[s] = "decode" THEN 1 ELSE 0)
           batch == BatchOf({"prefill", "decode"})
           Written(b) == {s \in batch : \E i \in kv[s] + 1 .. Upto(s) : dev[s][i] = b}
           Wrong(s) == {devKV[dev[s][i]] : i \in {j \in 1 .. kv[s] : devKV[dev[s][j]] # Path[s][j]}}
           Value(s, b) == CASE Wrong(s) = {} -> Path[s][CHOOSE i \in 1 .. Upto(s) : dev[s][i] = b]
                            [] Stale \in Wrong(s) -> Stale
                            [] OTHER -> Junk
<1>1. /\ pc = "run" /\ copying = {} /\ pc' = "build"
      /\ devKV' = [b \in DevBlocks |-> IF Written(b) = {} THEN devKV[b]
                                       ELSE Value(CHOOSE s \in Written(b) : TRUE, b)]
      /\ kv' = [s \in Seqs |-> IF s \in batch THEN Upto(s) ELSE kv[s]]
      /\ full' = [s \in Seqs |-> Upto(s)]
      /\ status' = [s \in Seqs |-> IF s \in batch THEN "running" ELSE status[s]]
      /\ dev' = dev /\ host' = host /\ hkv' = hkv /\ hostKV' = hostKV /\ store' = store
      /\ UNCHANGED fetchVars
      /\ dcache' = dcache /\ hcache' = hcache /\ loads' = loads /\ copying' = copying
      /\ offq' = offq /\ flying' = flying
  BY Zenon DEF Compute, LoadsDone, tierVars
<1>2. /\ Types /\ Batched /\ Shapes /\ Awaits /\ DevOwn /\ DevFill /\ HostOwn /\ Copied /\ HostKVIntact
      /\ SeqTypes /\ FetchTypes /\ TierTypes /\ DataTypes
  BY TypeParts DEF IInv
<1>3. loads = {} /\ Queue = {} /\ Queue' = {}
  BY <1>1, <1>2 DEF Batched, Queue
<1>4. Pairs' = Pairs
  BY <1>1, SamePairs
<1> HIDE DEF Written, Wrong, Value
\* The sequences of the batch.
<1>5. \A s \in Seqs : s \in batch <=> status[s] \in {"prefill", "decode"}
  BY DEF BatchOf
<1>6. ASSUME NEW s \in Seqs
      PROVE  /\ full[s] \in Nat /\ kv[s] \in Nat /\ Len(dev[s]) \in Nat /\ kv[s] <= full[s] /\ hkv[s] <= full[s]
             /\ hkv[s] \in Nat /\ PromptBlocks[s] \in Nat /\ PromptBlocks[s] <= full[s]
             /\ full[s] <= Upto(s) /\ Upto(s) \in Nat /\ Upto(s) <= Len(Path[s]) /\ Len(Path[s]) \in Nat
             /\ s \in batch => Upto(s) + 1 = Len(dev[s])
             /\ status[s] # "decode" => Upto(s) = full[s]
  <2>1. Shape(s)
    BY <1>2 DEF Shapes
  <2>2. /\ full[s] \in Nat /\ kv[s] \in Nat /\ Len(dev[s]) \in Nat /\ full[s] <= Len(Path[s]) /\ hkv[s] \in Nat
        /\ PromptBlocks[s] <= full[s] /\ PromptBlocks[s] \in Nat /\ Len(Path[s]) \in Nat
    BY <1>2, PathFacts DEF SeqTypes
  <2>3. CASE status[s] = "decode"
    BY <2>1, <2>2, <2>3 DEF Shape
  <2>4. CASE status[s] # "decode"
    BY <1>5, <2>1, <2>2, <2>4 DEF Shape
  <2> QED BY <2>3, <2>4
<1>7. /\ \A s \in Seqs : kv'[s] = (IF s \in batch THEN Upto(s) ELSE kv[s]) /\ full'[s] = Upto(s)
      /\ \A s \in Seqs : status'[s] = IF s \in batch THEN "running" ELSE status[s]
  BY <1>1
<1> HIDE DEF batch
\* Open blocks of the batch are written by one sequence, at one position.
<1>8. ASSUME NEW s \in batch, NEW i \in kv[s] + 1 .. Upto(s)
      PROVE  s \in Seqs /\ i \in kv[s] + 1 .. Len(dev[s]) /\ i \in 1 .. Upto(s) /\ i \in Nat
  <2>1. s \in Seqs
    BY DEF batch, BatchOf
  <2>2. kv[s] \in Nat /\ Len(dev[s]) \in Nat /\ Upto(s) \in Nat /\ Upto(s) + 1 = Len(dev[s])
    BY <1>6, <2>1
  <2> HIDE DEF Upto
  <2>3. i \in kv[s] + 1 .. Len(dev[s]) /\ i \in 1 .. Upto(s) /\ i \in Nat
    BY <2>2
  <2> QED BY <2>1, <2>3
<1>9. \A d, k : DevRelied(d, k) => Good(devKV[d], k) /\ Written(d) = {}
  <2> SUFFICES ASSUME NEW d, NEW k, DevRelied(d, k) PROVE Good(devKV[d], k) /\ Written(d) = {}
    OBVIOUS
  <2>1. Good(devKV[d], k)
    BY <1>2, <1>3, ReliedHas DEF DevHas
  <2>2. ASSUME NEW s \in batch, NEW i \in kv[s] + 1 .. Upto(s), dev[s][i] = d PROVE FALSE
    <3>1. s \in Seqs /\ i \in kv[s] + 1 .. Len(dev[s])
      BY <1>8
    <3>2. /\ \A t \in Seqs : \A j \in 1 .. Len(dev[t]) : dev[s][i] = dev[t][j] => s = t /\ i = j
          /\ \A m \in DOMAIN dcache : dcache[m] # dev[s][i]
          /\ \A p \in Pairs : p.src # dev[s][i]
      BY <1>2, <3>1 DEF DevOwn
    <3>3. \A t \in Seqs : \A j \in 1 .. kv[t] : j \in 1 .. Len(dev[t])
      <4>1. \A t \in Seqs : kv[t] \in Nat /\ Len(dev[t]) \in Nat /\ kv[t] <= Len(dev[t])
        BY <1>2 DEF SeqTypes
      <4> QED BY <4>1
    <3>4. kv[s] \in Nat /\ i \notin 1 .. kv[s]
      BY <1>6, <3>1
    <3> QED BY <2>2, <3>2, <3>3, <3>4 DEF DevRelied, DevCounted
  <2> QED BY <2>1, <2>2 DEF Written
<1>10. ASSUME NEW s \in batch, NEW i \in kv[s] + 1 .. Upto(s)
       PROVE  Good(devKV'[dev[s][i]], Path[s][i])
  <2>1. s \in Seqs /\ i \in kv[s] + 1 .. Len(dev[s]) /\ i \in 1 .. Upto(s)
    BY <1>8
  <2> DEFINE b == dev[s][i]
  <2>2. \A t \in Seqs : \A j \in 1 .. Len(dev[t]) : b = dev[t][j] => s = t /\ i = j
    BY <1>2, <2>1 DEF DevOwn
  <2>3. Written(b) = {s}
    <3>1. s \in Written(b)
      BY DEF Written
    <3>2. ASSUME NEW t \in Written(b) PROVE t = s
      <4>1. PICK j \in kv[t] + 1 .. Upto(t) : dev[t][j] = b
        BY DEF Written
      <4>2. t \in batch
        BY DEF Written
      <4>3. t \in Seqs /\ j \in kv[t] + 1 .. Len(dev[t])
        BY <1>8, <4>2
      <4>4. j \in 1 .. Len(dev[t])
        BY <1>6, <4>3
      <4> QED BY <2>2, <4>1, <4>3, <4>4
    <3> QED BY <3>1, <3>2
  <2>4. b \in DevBlocks
    <3>1. dev[s] \in Seq(DevBlocks) /\ kv[s] \in Nat
      BY <1>2, <2>1 DEF SeqTypes
    <3> QED BY <2>1, <3>1
  <2>5. (CHOOSE t \in Written(b) : TRUE) = s
    BY <2>3
  <2>6. devKV'[b] = Value(s, b)
    BY <1>1, <2>3, <2>4, <2>5
  <2>7. (CHOOSE j \in 1 .. Upto(s) : dev[s][j] = b) = i
    <3>1. \A j \in 1 .. Upto(s) : j \in 1 .. Len(dev[s])
      BY <1>6, <2>1
    <3>2. \A j \in 1 .. Upto(s) : dev[s][j] = b => j = i
      BY <2>1, <2>2, <3>1
    <3> QED BY <2>1, <3>2
  <2>8. Wrong(s) \subseteq {Stale}
    <3>1. \A j \in 1 .. kv[s] : DevRelied(dev[s][j], Path[s][j])
      BY <2>1 DEF DevRelied, DevCounted
    <3>2. \A j \in 1 .. kv[s] : devKV[dev[s][j]] \in {Path[s][j], Stale}
      BY <1>9, <3>1 DEF Good
    <3> QED BY <3>2 DEF Wrong
  <2>9. CASE Wrong(s) = {}
    <3>1. Stale \notin Wrong(s)
      BY <2>9
    <3>2. Value(s, b) = Path[s][CHOOSE j \in 1 .. Upto(s) : dev[s][j] = b]
      BY <2>9, <3>1 DEF Value
    <3> QED BY <2>6, <2>7, <3>2 DEF Good
  <2>10. CASE Wrong(s) # {}
    <3>1. Stale \in Wrong(s)
      BY <2>8, <2>10
    <3>2. Value(s, b) = Stale
      BY <2>10, <3>1 DEF Value
    <3> QED BY <2>6, <3>2 DEF Good
  <2> QED BY <2>9, <2>10
<1>11. ASSUME NEW b \in DevBlocks, Written(b) = {} PROVE devKV'[b] = devKV[b]
  BY <1>1, <1>11
<1>12. \A d, k : DevRelied(d, k) => Good(devKV'[d], k)
  BY <1>2, <1>9, <1>11, ReliedHas
<1>13. devKV' \in [DevBlocks -> Content]
  <2>1. ASSUME NEW b \in DevBlocks PROVE devKV'[b] \in Content
    <3>1. CASE Written(b) = {}
      BY <1>2, <1>11, <3>1 DEF DataTypes
    <3>2. CASE Written(b) # {}
      <4>1. PICK s \in batch : \E i \in kv[s] + 1 .. Upto(s) : dev[s][i] = b
        BY <3>2 DEF Written
      <4>2. PICK i \in kv[s] + 1 .. Upto(s) : dev[s][i] = b
        BY <4>1
      <4>3. Good(devKV'[b], Path[s][i])
        BY <1>10, <4>2
      <4>4. s \in Seqs /\ i \in 1 .. Upto(s)
        BY <1>8
      <4>5. i \in 1 .. Len(Path[s])
        BY <1>6, <4>4
      <4>6. Path[s][i] \in Keys
        BY <4>4, <4>5, PathFacts
      <4> QED BY <4>3, <4>6 DEF Good, Content
    <3> QED BY <3>1, <3>2
  <2>2. devKV' = [b \in DevBlocks |-> devKV'[b]]
    BY <1>1
  <2> QED BY <2>1, <2>2
<1>14. SeqTypes'
  <2>1. \A s \in Seqs : Upto(s) \in PromptBlocks[s] .. Len(Path[s]) /\ Upto(s) \in Nat
                        /\ kv'[s] \in Nat /\ kv'[s] <= Len(dev[s])
    <3> SUFFICES ASSUME NEW s \in Seqs
                 PROVE  Upto(s) \in PromptBlocks[s] .. Len(Path[s]) /\ Upto(s) \in Nat
                        /\ kv'[s] \in Nat /\ kv'[s] <= Len(dev[s])
      OBVIOUS
    <3>1. kv[s] <= Len(dev[s])
      BY <1>2 DEF SeqTypes
    <3> HIDE DEF Upto
    <3> QED BY <1>6, <1>7, <3>1
  <2> HIDE DEF Upto
  <2>2. full' \in [Seqs -> Nat] /\ kv' \in [Seqs -> Nat]
    <3>1. full' = [s \in Seqs |-> full'[s]] /\ kv' = [s \in Seqs |-> kv'[s]]
      BY <1>1
    <3> QED BY <1>7, <2>1, <3>1
  <2>3. status' \in [Seqs -> {"new", "waiting", "placed", "prefill", "running", "decode", "gone"}]
    BY <1>1, <1>2 DEF SeqTypes
  <2> QED BY <1>1, <1>2, <1>7, <2>1, <2>2, <2>3 DEF SeqTypes
<1>15. Types'
  <2>1. TierTypes'
    BY <1>1, <1>2 DEF TierTypes
  <2>2. DataTypes'
    BY <1>1, <1>2, <1>13 DEF DataTypes
  <2> QED BY <1>1, <1>2, <1>14, <2>1, <2>2, SameFetchTypes, TypeParts
<1>16. Batched'
  BY <1>1 DEF Batched
<1>17. Shapes'
  <2> SUFFICES ASSUME NEW s \in Seqs PROVE Shape(s)'
    BY DEF Shapes
  <2>1. Shape(s) /\ task'[s] = task[s]
    BY <1>1, <1>2 DEF Shapes, fetchVars
  <2>2. CASE s \in batch
    <3>1. status'[s] = "running" /\ kv'[s] = Upto(s) /\ full'[s] = Upto(s)
      BY <1>7, <2>2
    <3> QED BY <1>1, <1>6, <2>2, <3>1 DEF Shape
  <2>3. CASE s \notin batch
    <3>1. status'[s] = status[s] /\ kv'[s] = kv[s] /\ full'[s] = full[s]
      BY <1>5, <1>6, <1>7, <2>3
    <3> QED BY <1>1, <2>1, <3>1 DEF Shape
  <2> QED BY <2>2, <2>3
<1>18. Awaits' /\ Fetching'
  <2>1. HostAgrees
    BY <1>1 DEF HostAgrees
  <2>2. \A s \in awaiting : s \in Seqs /\ status[s] = "waiting"
    BY <1>2 DEF Awaits, Awaited, FetchTypes
  <2>3. \A s \in awaiting : status'[s] = status[s] /\ full'[s] = full[s]
    BY <1>5, <1>6, <1>7, <2>2
  <2> QED BY <1>1, <1>15, <2>1, <2>3, SameFetches
<1>19. \A s \in Seqs : kv[s] <= kv'[s] /\ kv[s] \in Nat /\ kv'[s] \in Nat
  <2> SUFFICES ASSUME NEW s \in Seqs PROVE kv[s] <= kv'[s] /\ kv[s] \in Nat /\ kv'[s] \in Nat
    OBVIOUS
  <2> HIDE DEF Upto
  <2> QED BY <1>6, <1>7
<1>20. \A s \in Seqs : \A i \in 1 .. kv'[s] : i \in 1 .. kv[s] \/ (s \in batch /\ i \in kv[s] + 1 .. Upto(s))
  <2> HIDE DEF Upto
  <2> QED BY <1>6, <1>7
<1>21. DevOwn'
  <2>1. \A s \in Seqs : \A i \in 1 .. kv'[s] : i \in 1 .. kv[s] \/ i \in kv[s] + 1 .. Len(dev[s])
    BY <1>8, <1>20
  <2>2. \A t \in Seqs : \A j \in 1 .. kv'[t] : j \in 1 .. Len(dev[t])
    <3>1. \A t \in Seqs : kv'[t] \in Nat /\ Len(dev[t]) \in Nat /\ kv'[t] <= Len(dev[t])
      BY <1>1, <1>14 DEF SeqTypes
    <3> QED BY <3>1
  <2>3. \A s \in Seqs : \A i \in 1 .. kv'[s] : \A k \in DOMAIN dcache :
          dcache[k] = dev[s][i] => k = Path[s][i]
    BY <1>2, <2>1 DEF DevOwn
  <2>4. ASSUME NEW s \in Seqs, NEW t \in Seqs, NEW i \in 1 .. kv'[s], NEW j \in 1 .. kv'[t], dev[s][i] = dev[t][j]
        PROVE  Path[s][i] = Path[t][j]
    <3>1. CASE i \in kv[s] + 1 .. Len(dev[s])
      BY <1>2, <2>2, <2>4, <3>1 DEF DevOwn
    <3>2. CASE j \in kv[t] + 1 .. Len(dev[t])
      BY <1>2, <2>2, <2>4, <3>2 DEF DevOwn
    <3>3. CASE i \in 1 .. kv[s] /\ j \in 1 .. kv[t]
      BY <1>2, <2>4, <3>3 DEF DevOwn
    <3> QED BY <2>1, <3>1, <3>2, <3>3
  <2>5. \A s \in Seqs : \A i \in kv'[s] + 1 .. Len(dev[s]) : i \in kv[s] + 1 .. Len(dev[s])
    <3>1. \A s \in Seqs : Len(dev[s]) \in Nat
      BY <1>6
    <3> QED BY <1>19, <3>1
  <2> QED BY <1>1, <1>2, <1>4, <2>3, <2>4, <2>5 DEF DevOwn
<1>22. DevFill'
  <2>1. \A k \in DOMAIN dcache : Good(devKV'[dcache[k]], k)
    BY <1>12 DEF DevRelied
  <2>2. \A s \in Seqs : \A i \in 1 .. kv'[s] : Good(devKV'[dev[s][i]], Path[s][i])
    BY <1>10, <1>12, <1>20 DEF DevRelied, DevCounted
  <2>3. \A p \in Pairs : Good(devKV'[p.src], p.key)
    BY <1>12 DEF DevRelied
  <2> QED BY <1>1, <1>3, <1>4, <2>1, <2>2, <2>3 DEF DevFill, DevHas, Good
<1>23. HostOwn'
  BY <1>1, <1>2, <1>4 DEF HostOwn
<1>24. Copied' /\ HostKVIntact'
  BY <1>1, <1>2 DEF Copied, HostKVIntact, Good
<1> QED BY <1>15, <1>16, <1>17, <1>18, <1>21, <1>22, <1>23, <1>24 DEF IInv

\* One worker copies an offload and puts it into the store.
LEMMA OffloadCopyKeepsIInv ==
    ASSUME IInv, NEW f \in flying, NEW w \in Workers, OffloadCopy(f, w)
    PROVE  IInv'
<1> DEFINE From(b) == {p \in f.pairs : p.dst = b}
           after == [b \in HostBlocks |-> IF From(b) = {} THEN hostKV[w][b]
                                          ELSE Offered((CHOOSE p \in From(b) : TRUE).src)]
           K == {p.key : p \in f.pairs}
           new == [k \in K |-> after[(CHOOSE p \in f.pairs : p.key = k).dst]]
           g == [f EXCEPT !.copied = @ \cup {w}]
<1>1. /\ w \notin f.copied /\ hostKV' = [hostKV EXCEPT ![w] = after]
      /\ store' = [store EXCEPT ![w] = Inserted(@, new)]
      /\ flying' = (flying \ {f}) \cup {g}
      /\ UNCHANGED seqVars /\ UNCHANGED fetchVars
      /\ pc' = pc /\ status' = status /\ full' = full /\ dev' = dev /\ kv' = kv /\ host' = host /\ hkv' = hkv
      /\ dcache' = dcache /\ hcache' = hcache /\ loads' = loads /\ copying' = copying
      /\ offq' = offq /\ devKV' = devKV
  BY Zenon DEF OffloadCopy, seqVars
<1>2. /\ Types /\ Batched /\ Shapes /\ Awaits /\ Fetching
      /\ DevOwn /\ DevFill /\ HostOwn /\ Copied /\ HostKVIntact
      /\ SeqTypes /\ FetchTypes /\ TierTypes /\ DataTypes
  BY TypeParts DEF IInv
<1>3. /\ f \in [pairs : SUBSET PairSet(DevBlocks, HostBlocks), copied : SUBSET Workers]
      /\ \A p \in f.pairs : p \in Pairs /\ p.src \in DevBlocks /\ p.dst \in HostBlocks /\ p.key \in Keys
  <2>1. f \in [pairs : SUBSET PairSet(DevBlocks, HostBlocks), copied : SUBSET Workers]
    BY <1>2 DEF TierTypes
  <2>2. \A p \in f.pairs : p \in PairSet(DevBlocks, HostBlocks) /\ p \in Pairs
    BY <2>1 DEF Pairs
  <2> QED BY <2>1, <2>2 DEF PairSet
<1>4. /\ g.pairs = f.pairs /\ g.copied = f.copied \cup {w}
      /\ g \in [pairs : SUBSET PairSet(DevBlocks, HostBlocks), copied : SUBSET Workers]
  BY <1>3
<1> HIDE DEF g
<1>5. Pairs' = Pairs
  BY <1>1, <1>4 DEF Pairs
\* The copies.
<1>6. ASSUME NEW p \in f.pairs PROVE after[p.dst] \in Content /\ Good(after[p.dst], p.key)
  <2>1. From(p.dst) = {p}
    BY <1>2, <1>3 DEF HostOwn
  <2>2. after[p.dst] = Offered(p.src)
    BY <1>3, <2>1
  <2>3. devKV[p.src] \in Content /\ Stale \in Content
    BY <1>2, <1>3 DEF DataTypes, Content
  <2>4. DevHas(p.src, p.key)
    BY <1>2, <1>3 DEF DevFill
  <2> HIDE DEF after
  <2> QED BY <2>2, <2>3, <2>4 DEF Offered, DevHas, Queue, Good
<1>7. ASSUME NEW b \in HostBlocks, \A p \in f.pairs : p.dst # b PROVE after[b] = hostKV[w][b]
  BY <1>7
<1>8. after \in [HostBlocks -> Content]
  <2>1. ASSUME NEW b \in HostBlocks PROVE after[b] \in Content
    <3>1. CASE \E p \in f.pairs : p.dst = b
      BY <1>6, <3>1
    <3>2. CASE ~ \E p \in f.pairs : p.dst = b
      BY <1>2, <1>7, <3>2 DEF DataTypes
    <3> QED BY <3>1, <3>2
  <2>2. after = [b \in HostBlocks |-> after[b]]
    OBVIOUS
  <2> QED BY <2>1, <2>2
<1> HIDE DEF after
<1>9. /\ hostKV' \in [Workers -> [HostBlocks -> Content]] /\ hostKV'[w] = after
      /\ \A x \in Workers \ {w} : hostKV'[x] = hostKV[x]
  BY <1>1, <1>2, <1>8 DEF DataTypes
<1>10. \A x \in Workers : \A b \in HostBlocks :
         (\A p \in f.pairs : p.dst # b) => hostKV'[x][b] = hostKV[x][b]
  BY <1>7, <1>9
\* The puts.
<1>11. DOMAIN new = K /\ \A k \in K : new[k] \in Content /\ Good(new[k], k)
  <2>1. ASSUME NEW k \in K PROVE new[k] \in Content /\ Good(new[k], k)
    <3> DEFINE p == CHOOSE p \in f.pairs : p.key = k
    <3>1. p \in f.pairs /\ p.key = k
      OBVIOUS
    <3>2. new[k] = after[p.dst]
      OBVIOUS
    <3> HIDE DEF p, new
    <3> QED BY <1>6, <3>1, <3>2
  <2> QED BY <2>1
<1> HIDE DEF new
<1>12. /\ store' = [x \in Workers |-> store'[x]] /\ \A x \in Workers \ {w} : store'[x] = store[x]
       /\ store'[w] = Inserted(store[w], new)
  BY <1>1, <1>2 DEF DataTypes
<1>13. ASSUME NEW x \in Workers
       PROVE  /\ store'[x] \in [DOMAIN store'[x] -> Content] /\ DOMAIN store'[x] \subseteq Keys
              /\ \A k \in DOMAIN store'[x] : Good(store'[x][k], k)
  <2>1. /\ store[x] \in [DOMAIN store[x] -> Content] /\ DOMAIN store[x] \subseteq Keys
        /\ \A k \in DOMAIN store[x] : Good(store[x][k], k)
    BY <1>2 DEF DataTypes, HostKVIntact
  <2>2. CASE x # w
    BY <1>12, <2>1, <2>2
  <2>3. CASE x = w
    <3> DEFINE old == store[x]
               now == store'[x]
    <3>1. now = [k \in DOMAIN old \cup K |-> IF k \in DOMAIN old THEN old[k] ELSE new[k]]
      BY <1>11, <1>12, <2>3 DEF Inserted
    <3>2. K \subseteq Keys
      BY <1>3
    <3> HIDE DEF old, now, K
    <3>3. /\ DOMAIN now = DOMAIN old \cup K
          /\ \A k \in DOMAIN now : now[k] = IF k \in DOMAIN old THEN old[k] ELSE new[k]
      BY <3>1
    <3>4. \A k \in DOMAIN old : old[k] \in Content /\ Good(old[k], k) /\ k \in Keys
      BY <2>1 DEF old
    <3>5. \A k \in DOMAIN now : now[k] \in Content /\ Good(now[k], k) /\ k \in Keys
      BY <1>11, <3>2, <3>3, <3>4
    <3>6. now = [k \in DOMAIN now |-> now[k]]
      BY <3>1
    <3>7. now \in [DOMAIN now -> Content] /\ DOMAIN now \subseteq Keys /\ \A k \in DOMAIN now : Good(now[k], k)
      BY <3>5, <3>6
    <3> QED BY <3>7 DEF now
  <2> QED BY <2>2, <2>3
<1>14. Types'
  <2>1. SeqTypes'
    BY <1>1, <1>2 DEF SeqTypes
  <2>2. TierTypes'
    BY <1>1, <1>2, <1>4 DEF TierTypes
  <2>3. DataTypes'
    BY <1>1, <1>2, <1>9, <1>12, <1>13 DEF DataTypes
  <2> QED BY <1>1, <1>2, <2>1, <2>2, <2>3, SameFetchTypes, TypeParts
<1>15. Batched'
  BY <1>1, <1>2 DEF Batched
<1>16. Shapes'
  <2> SUFFICES ASSUME NEW t \in Seqs PROVE Shape(t)'
    BY DEF Shapes
  <2>1. Shape(t)
    BY <1>2 DEF Shapes
  <2> QED BY <1>1, <2>1 DEF Shape, fetchVars
<1>17. \A s \in Seqs : \A i \in 1 .. Len(host[s]) : \A x \in Workers :
         hostKV'[x][host[s][i]] = hostKV[x][host[s][i]]
  <2>1. \A s \in Seqs : \A i \in 1 .. Len(host[s]) : host[s][i] \in HostBlocks
    BY <1>2 DEF SeqTypes
  <2>2. \A s \in Seqs : \A i \in 1 .. Len(host[s]) : \A p \in f.pairs : p.dst # host[s][i]
    BY <1>2, <1>3 DEF HostOwn
  <2> QED BY <1>10, <2>1, <2>2
<1>18. Awaits'
  <2> SUFFICES ASSUME NEW s \in Seqs PROVE Awaited(s)'
    BY DEF Awaits
  <2>1. Awaited(s) /\ Open(s)' = Open(s)
    BY <1>1, <1>2 DEF Awaits, Open, fetchVars
  <2> QED BY <1>1, <2>1 DEF Awaited, fetchVars
<1>19. Fetching'
  <2>1. ASSUME NEW s \in awaiting, NEW x \in Workers
        PROVE  \E c \in [0 .. Len(stream'[s][x]) -> 0 .. PromptBlocks[s]] :
               \E o \in 0 .. PromptBlocks[s] : Progress(s, x, c, o)'
    <3>1. s \in Seqs
      BY <1>2 DEF FetchTypes
    <3>2. Len(host[s]) = PromptBlocks[s] + 1
      BY <1>2, <3>1 DEF Awaits, Awaited
    <3>3. SameProgress(s, x)
      BY <1>1, <1>17, <3>1 DEF SameProgress, fetchVars
    <3> QED BY <1>2, <1>14, <3>2, <3>3, ProgressKept
  <2>2. awaiting' = awaiting
    BY <1>1 DEF fetchVars
  <2> QED BY <2>1, <2>2 DEF Fetching
<1>20. DevOwn' /\ DevFill'
  <2>1. DevStep
    <3>1. DevAgrees
      BY <1>1 DEF DevAgrees
    <3>2. Queue' = Queue
      BY <1>1 DEF Queue
    <3> QED BY <1>1, <1>2, <1>5, <3>1, <3>2, SameDev
  <2> QED BY <1>2, <1>14, <2>1, DevStepKeepsOwn, DevStepKeepsFill
<1>21. HostOwn'
  <2>1. /\ \A h \in flying : offq \cap h.pairs = {}
        /\ \A h, i \in flying : h # i => h.pairs \cap i.pairs = {}
    BY <1>2 DEF HostOwn
  <2>2. \A h \in flying' : h = g \/ h \in flying \ {f}
    BY <1>1
  <2>3. /\ \A h \in flying' : offq' \cap h.pairs = {}
        /\ \A h, i \in flying' : h # i => h.pairs \cap i.pairs = {}
    BY <1>1, <1>4, <2>1, <2>2
  <2> QED BY <1>1, <1>2, <1>5, <2>3 DEF HostOwn
<1>22. Copied'
  <2>1. ASSUME NEW h \in flying', NEW x \in h.copied, NEW p \in h.pairs
        PROVE  Good(hostKV'[x][p.dst], p.key)
    <3>1. CASE h = g /\ x = w
      BY <1>4, <1>6, <1>9, <3>1
    <3>2. CASE h = g /\ x # w
      <4>1. x \in f.copied /\ p \in f.pairs /\ x \in Workers \ {w}
        BY <1>3, <1>4, <3>2
      <4> QED BY <1>2, <1>9, <4>1 DEF Copied
    <3>3. CASE h # g
      <4>1. h \in flying \ {f}
        BY <1>1, <3>3
      <4>2. h \in [pairs : SUBSET PairSet(DevBlocks, HostBlocks), copied : SUBSET Workers]
        BY <1>2, <4>1 DEF TierTypes
      <4>3. x \in Workers /\ p \in Pairs /\ p.dst \in HostBlocks
        BY <4>1, <4>2 DEF Pairs, PairSet
      <4>4. p \notin f.pairs
        BY <1>2, <4>1 DEF HostOwn
      <4>5. \A q \in f.pairs : q.dst # p.dst
        BY <1>2, <1>3, <4>3, <4>4 DEF HostOwn
      <4> QED BY <1>2, <1>10, <4>1, <4>3, <4>5 DEF Copied
    <3> QED BY <3>1, <3>2, <3>3
  <2> QED BY <2>1 DEF Copied, Good
<1>23. HostKVIntact'
  <2> SUFFICES ASSUME NEW x \in Workers
               PROVE  /\ \A k \in DOMAIN hcache : Good(hostKV'[x][hcache[k]], k)
                      /\ \A s \in Seqs : \A i \in 1 .. hkv[s] : Good(hostKV'[x][host[s][i]], Path[s][i])
                      /\ \A k \in DOMAIN store'[x] : Good(store'[x][k], k)
    BY <1>1 DEF HostKVIntact, Good
  <2>1. /\ \A k \in DOMAIN hcache : Good(hostKV[x][hcache[k]], k)
        /\ \A s \in Seqs : \A i \in 1 .. hkv[s] : Good(hostKV[x][host[s][i]], Path[s][i])
    BY <1>2 DEF HostKVIntact
  <2>2. \A k \in DOMAIN hcache : hcache[k] \in HostBlocks /\ \A p \in f.pairs : p.dst # hcache[k]
    BY <1>2, <1>3 DEF TierTypes, HostOwn
  <2>3. \A s \in Seqs : \A i \in 1 .. hkv[s] : i \in 1 .. Len(host[s])
    <3>1. \A s \in Seqs : hkv[s] \in Nat /\ Len(host[s]) \in Nat /\ hkv[s] <= Len(host[s])
      BY <1>2 DEF SeqTypes
    <3> QED BY <3>1
  <2> QED BY <1>10, <1>13, <1>17, <2>1, <2>2, <2>3
<1> QED BY <1>14, <1>15, <1>16, <1>18, <1>19, <1>20, <1>21, <1>22, <1>23 DEF IInv

\* The last copy of an offload is made: its blocks enter the cache.
LEMMA OffloadDoneKeepsIInv ==
    ASSUME IInv, NEW f \in flying, OffloadDone(f)
    PROVE  IInv'
<1> DEFINE K == {p.key : p \in f.pairs}
           Of(k) == CHOOSE p \in f.pairs : p.key = k
           new == [k \in K |-> Of(k).dst]
<1>1. /\ f.copied = Workers /\ hcache' = Inserted(hcache, new) /\ flying' = flying \ {f}
      /\ UNCHANGED seqVars /\ UNCHANGED fetchVars
      /\ pc' = pc /\ status' = status /\ full' = full /\ dev' = dev /\ kv' = kv /\ host' = host /\ hkv' = hkv
      /\ dcache' = dcache /\ loads' = loads /\ copying' = copying /\ offq' = offq /\ Scrub
  BY DEF OffloadDone, AllCopied, seqVars
<1>2. /\ Types /\ Batched /\ Shapes /\ Awaits /\ Fetching
      /\ DevOwn /\ DevFill /\ HostOwn /\ Copied /\ HostKVIntact
      /\ SeqTypes /\ FetchTypes /\ TierTypes /\ DataTypes
  BY TypeParts DEF IInv
<1>3. /\ f \in [pairs : SUBSET PairSet(DevBlocks, HostBlocks), copied : SUBSET Workers]
      /\ \A p \in f.pairs : p \in Pairs /\ p.src \in DevBlocks /\ p.dst \in HostBlocks /\ p.key \in Keys
  <2>1. f \in [pairs : SUBSET PairSet(DevBlocks, HostBlocks), copied : SUBSET Workers]
    BY <1>2 DEF TierTypes
  <2>2. \A p \in f.pairs : p \in PairSet(DevBlocks, HostBlocks) /\ p \in Pairs
    BY <2>1 DEF Pairs
  <2> QED BY <2>1, <2>2 DEF PairSet
<1>4. DataTypes' /\ DevAgrees /\ HostAgrees /\ store' = store
  BY <1>1, <1>2, ScrubFacts
<1>5. \A k \in K : Of(k) \in f.pairs /\ Of(k).key = k /\ new[k] = Of(k).dst
  OBVIOUS
<1>6. DOMAIN new = K /\ K \subseteq Keys
  BY <1>3
<1> HIDE DEF new, K, Of
\* An entry of the cache is old, or one of the pairs.
<1>7. /\ hcache' = [k \in DOMAIN hcache' |-> hcache'[k]] /\ DOMAIN hcache' \subseteq Keys
      /\ \A k \in DOMAIN hcache' : \/ k \in DOMAIN hcache /\ hcache'[k] = hcache[k]
                                   \/ \E p \in f.pairs : p.key = k /\ hcache'[k] = p.dst
  <2>1. hcache' = [k \in DOMAIN hcache \cup K |-> IF k \in DOMAIN hcache THEN hcache[k] ELSE new[k]]
    BY <1>1, <1>6 DEF Inserted
  <2>2. DOMAIN hcache \subseteq Keys
    BY <1>2 DEF TierTypes
  <2> QED BY <1>5, <1>6, <2>1, <2>2
<1>8. \A p \in Pairs' : p \in Pairs /\ p \notin f.pairs
  BY <1>1, <1>2 DEF Pairs, HostOwn
<1>9. Types'
  <2>1. SeqTypes'
    BY <1>1, <1>2 DEF SeqTypes
  <2>2. \A k \in DOMAIN hcache' : hcache'[k] \in HostBlocks
    BY <1>2, <1>3, <1>7 DEF TierTypes
  <2>3. hcache' \in [DOMAIN hcache' -> HostBlocks]
    BY <1>7, <2>2
  <2>4. TierTypes'
    BY <1>1, <1>2, <1>7, <2>3 DEF TierTypes
  <2> QED BY <1>1, <1>2, <1>4, <2>1, <2>4, SameFetchTypes, TypeParts
<1>10. Batched'
  BY <1>1, <1>2 DEF Batched
<1>11. Shapes'
  <2> SUFFICES ASSUME NEW t \in Seqs PROVE Shape(t)'
    BY DEF Shapes
  <2>1. Shape(t)
    BY <1>2 DEF Shapes
  <2> QED BY <1>1, <2>1 DEF Shape, fetchVars
<1>12. Awaits' /\ Fetching'
  BY <1>1, <1>4, <1>9, SameFetches
<1>13. DevOwn' /\ DevFill'
  <2>1. Queue' = Queue /\ Pairs' \subseteq Pairs
    BY <1>1, <1>8 DEF Queue
  <2>2. DevStep
    BY <1>1, <1>2, <1>4, <2>1, SameDev
  <2> QED BY <1>2, <1>9, <2>2, DevStepKeepsOwn, DevStepKeepsFill
<1>14. HostOwn'
  <2>1. /\ \A k, m \in DOMAIN hcache : hcache[k] = hcache[m] => k = m
        /\ \A p \in Pairs : \A q \in Pairs : p.dst = q.dst => p = q
        /\ \A p \in Pairs : \A s \in Seqs : \A i \in 1 .. Len(host[s]) : host[s][i] # p.dst
        /\ \A p \in Pairs : \A k \in DOMAIN hcache : hcache[k] # p.dst
    BY <1>2 DEF HostOwn
  <2>2. \A k, m \in DOMAIN hcache' : hcache'[k] = hcache'[m] => k = m
    BY <1>3, <1>7, <2>1
  <2>3. ASSUME NEW s \in Seqs, NEW i \in hkv[s] + 1 .. Len(host[s])
        PROVE  \A k \in DOMAIN hcache' : hcache'[k] # host[s][i]
    <3>1. i \in 1 .. Len(host[s])
      BY <1>2 DEF SeqTypes
    <3>2. \A k \in DOMAIN hcache : hcache[k] # host[s][i]
      BY <1>2 DEF HostOwn
    <3> QED BY <1>3, <1>7, <2>1, <3>1, <3>2
  <2>4. \A p \in Pairs' : \A k \in DOMAIN hcache' : hcache'[k] # p.dst
    BY <1>3, <1>7, <1>8, <2>1
  <2> QED BY <1>1, <1>2, <1>8, <2>2, <2>3, <2>4 DEF HostOwn
<1>15. Copied'
  <2>1. ASSUME NEW h \in flying', NEW w \in h.copied, NEW p \in h.pairs
        PROVE  Good(hostKV'[w][p.dst], p.key)
    <3>1. h \in flying /\ h.copied \subseteq Workers
      BY <1>1, <1>2 DEF TierTypes
    <3>2. p \in Pairs' /\ p \in Pairs
      BY <1>8 DEF Pairs
    <3>3. p.dst \in HostHeld' /\ p.dst \in HostBlocks
      <4>1. Pairs \subseteq PairSet(DevBlocks, HostBlocks)
        BY <1>2 DEF TierTypes, Pairs
      <4> QED BY <3>2, <4>1 DEF HostHeld, PairSet
    <3>4. hostKV'[w][p.dst] = hostKV[w][p.dst]
      BY <1>4, <3>1, <3>3 DEF HostAgrees
    <3> QED BY <1>2, <3>1, <3>4 DEF Copied
  <2> QED BY <2>1 DEF Copied, Good
<1>16. HostKVIntact'
  <2> SUFFICES ASSUME NEW w \in Workers
               PROVE  /\ \A k \in DOMAIN hcache' : Good(hostKV'[w][hcache'[k]], k)
                      /\ \A s \in Seqs : \A i \in 1 .. hkv[s] : Good(hostKV'[w][host[s][i]], Path[s][i])
                      /\ \A k \in DOMAIN store'[w] : Good(store'[w][k], k)
    BY <1>1 DEF HostKVIntact, Good
  <2>1. /\ \A k \in DOMAIN hcache : Good(hostKV[w][hcache[k]], k)
        /\ \A s \in Seqs : \A i \in 1 .. hkv[s] : Good(hostKV[w][host[s][i]], Path[s][i])
        /\ \A k \in DOMAIN store[w] : Good(store[w][k], k)
        /\ \A p \in f.pairs : Good(hostKV[w][p.dst], p.key)
    BY <1>1, <1>2 DEF HostKVIntact, Copied
  <2>2. ASSUME NEW k \in DOMAIN hcache' PROVE Good(hostKV'[w][hcache'[k]], k)
    <3>1. hcache'[k] \in HostBlocks /\ hcache'[k] \in Range(hcache')
      BY <1>9 DEF Types, SeqTypes, FetchTypes, TierTypes, DataTypes, Range
    <3>2. hostKV'[w][hcache'[k]] = hostKV[w][hcache'[k]]
      BY <1>4, <3>1 DEF HostAgrees
    <3> QED BY <1>7, <2>1, <3>2
  <2>3. \A s \in Seqs : \A i \in 1 .. hkv[s] : host'[s][i] \in HostHeld' /\ host[s][i] \in HostBlocks
    <3>1. \A s \in Seqs : hkv[s] \in Nat /\ Len(host[s]) \in Nat /\ hkv[s] <= Len(host[s])
      BY <1>2 DEF SeqTypes
    <3>2. \A s \in Seqs : \A i \in 1 .. hkv[s] : i \in 1 .. Len(host[s])
      BY <3>1
    <3>3. \A s \in Seqs : host[s] \in Seq(HostBlocks)
      BY <1>2 DEF SeqTypes
    <3>4. \A s \in Seqs : \A i \in 1 .. Len(host[s]) : host'[s][i] \in HostHeld' /\ host[s][i] \in HostBlocks
      BY <1>1, <3>3 DEF HostHeld, HeldBy, Range
    <3> QED BY <3>2, <3>4
  <2> QED BY <1>1, <1>4, <2>1, <2>2, <2>3 DEF HostAgrees
<1> QED BY <1>9, <1>10, <1>11, <1>12, <1>13, <1>14, <1>15, <1>16 DEF IInv

-----------------------------------------------------------------------------
\* The end of a prefetch.

\* The scheduler waits no longer.
LEMMA StopWaitingFacts ==
    ASSUME FetchTypes, NEW s \in Seqs, StopWaiting(s), task' = task, faulty' = faulty
    PROVE  FetchTypes' /\ s \notin awaiting' /\ Awaited(s)' /\ \A t \in Seqs \ {s} : SameStreams(t)
<1>1. /\ awaiting' = awaiting \ {s} /\ flag' = [flag EXCEPT ![s] = 0]
      /\ result' = [result EXCEPT ![s] = PerWorker(0)]
      /\ stream' = [stream EXCEPT ![s] = PerWorker(<<>>)]
      /\ client' = [client EXCEPT ![s] = PerWorker("closed")]
  BY DEF StopWaiting
<1>2. /\ flag \in [Seqs -> 0 .. Cardinality(Workers)] /\ Cardinality(Workers) \in Nat
      /\ result \in [Seqs -> [Workers -> Nat]] /\ stream \in [Seqs -> [Workers -> Seq(0 .. Batch)]]
      /\ client \in [Seqs -> [Workers -> {"open", "closed"}]]
      /\ \A t \in Seqs : \A w \in Workers : result[t][w] <= PromptBlocks[t]
  BY TiersAssumption, FS_CardinalityType DEF FetchTypes
<1>3. /\ PerWorker(0) \in [Workers -> Nat] /\ PerWorker("closed") \in [Workers -> {"open", "closed"}]
      /\ PerWorker(<<>>) \in [Workers -> Seq(0 .. Batch)]
  BY DEF PerWorker
<1>4. /\ flag'[s] = 0 /\ result'[s] = PerWorker(0) /\ stream'[s] = PerWorker(<<>>)
      /\ client'[s] = PerWorker("closed")
      /\ \A t \in Seqs \ {s} : /\ flag'[t] = flag[t] /\ result'[t] = result[t] /\ stream'[t] = stream[t]
                               /\ client'[t] = client[t]
  BY <1>1, <1>2
<1>5. FetchTypes'
  <2>1. flag' \in [Seqs -> 0 .. Cardinality(Workers)]
    BY <1>1, <1>2
  <2>2. result' \in [Seqs -> [Workers -> Nat]] /\ stream' \in [Seqs -> [Workers -> Seq(0 .. Batch)]]
    BY <1>1, <1>2, <1>3
  <2>3. client' \in [Seqs -> [Workers -> {"open", "closed"}]]
    BY <1>1, <1>2, <1>3
  <2>4. PromptBlocks[s] \in Nat /\ \A w \in Workers : result'[s][w] = 0
    BY <1>4, PathFacts DEF PerWorker
  <2>5. ASSUME NEW t \in Seqs, NEW w \in Workers PROVE result'[t][w] <= PromptBlocks[t]
    <3>1. CASE t = s
      BY <2>4, <3>1
    <3>2. CASE t # s
      BY <1>2, <1>4, <3>2
    <3> QED BY <3>1, <3>2
  <2> QED BY <1>1, <2>1, <2>2, <2>3, <2>5 DEF FetchTypes
<1>6. Awaited(s)'
  <2>1. Open(s)' = {}
    BY <1>4 DEF Open, PerWorker
  <2>2. Cardinality({}) = 0
    BY FS_EmptySet
  <2> QED BY <1>1, <1>4, <2>1, <2>2 DEF Awaited
<1>7. \A t \in Seqs \ {s} : SameStreams(t)
  BY <1>1, <1>4 DEF SameStreams
<1> QED BY <1>1, <1>5, <1>6, <1>7

\* What every worker has fetched is there on every worker.
LEMMA FetchedFacts ==
    ASSUME IInv, NEW s \in Seqs, s \in awaiting
    PROVE  /\ Fetched(s) \in Nat /\ hkv[s] + Fetched(s) <= PromptBlocks[s]
           /\ \A w \in Workers : \A j \in hkv[s] + 1 .. hkv[s] + Fetched(s) :
                Good(hostKV[w][host[s][j]], Path[s][j])
<1> DEFINE R == {result[s][w] : w \in Workers} \cup {Len(host[s])}
           n == Fetched(s)
<1>1. Types /\ Fetching
  BY DEF IInv
<1>2. /\ result[s] \in [Workers -> Nat] /\ Len(host[s]) \in Nat /\ hkv[s] \in Nat /\ PromptBlocks[s] \in Nat
  BY <1>1, PathFacts DEF Types, SeqTypes, FetchTypes, TierTypes, DataTypes
<1>3. R \in SUBSET Nat /\ R # {} /\ \A w \in Workers : result[s][w] \in R
  BY <1>2
<1>4. n = Min(R)
  BY DEF Fetched
<1> HIDE DEF R, n
<1>5. n \in Nat /\ \A w \in Workers : n <= result[s][w]
  BY <1>3, <1>4, MinOfNats
<1>6. ASSUME NEW w \in Workers
      PROVE  /\ hkv[s] + n <= PromptBlocks[s]
             /\ \A j \in hkv[s] + 1 .. hkv[s] + n : Good(hostKV[w][host[s][j]], Path[s][j])
  <2>1. PICK c \in [0 .. Len(stream[s][w]) -> 0 .. PromptBlocks[s]] :
           \E o \in 0 .. PromptBlocks[s] : Progress(s, w, c, o)
    BY <1>1 DEF Fetching
  <2>2. PICK o \in 0 .. PromptBlocks[s] : Progress(s, w, c, o)
    BY <2>1
  <2>3. /\ Len(stream[s][w]) \in Nat /\ Len(task[s][w]) \in Nat
    BY <1>1 DEF Types, SeqTypes, FetchTypes, TierTypes, DataTypes
  <2>4. 0 \in 0 .. Len(stream[s][w])
    BY <2>3
  <2>5. c[0] = result[s][w] /\ c[0] <= o /\ hkv[s] + o + Len(task[s][w]) <= PromptBlocks[s]
        /\ \A j \in hkv[s] + 1 .. hkv[s] + c[0] : Good(hostKV[w][host[s][j]], Path[s][j])
    BY <2>2, <2>4 DEF Progress
  <2>6. n <= c[0] /\ c[0] \in Nat /\ o \in Nat
    BY <1>2, <1>5, <2>5
  <2>7. hkv[s] + n <= PromptBlocks[s]
    BY ONLY <1>2, <1>5, <2>3, <2>5, <2>6, SMTT(20)
  <2>8. \A j \in hkv[s] + 1 .. hkv[s] + n : j \in hkv[s] + 1 .. hkv[s] + c[0]
    BY <1>2, <1>5, <2>6
  <2> QED BY <2>5, <2>7, <2>8
<1> QED BY <1>5, <1>6, TiersAssumption DEF n

\* The blocks that all workers have fetched are counted and cached.
LEMMA UpdatePrefetchKeepsIInv ==
    ASSUME IInv, NEW s \in Seqs, UpdatePrefetch(s)
    PROVE  IInv'
<1> DEFINE to == hkv[s] + Fetched(s)
           new == hkv[s] + 1 .. to
           K == {Path[s][i] : i \in new}
           fun == [k \in K |-> host[s][CHOOSE i \in new : Path[s][i] = k]]
<1>1. /\ pc = "build" /\ status[s] = "waiting" /\ s \in awaiting
      /\ hkv' = [hkv EXCEPT ![s] = to] /\ hcache' = Inserted(hcache, fun) /\ StopWaiting(s)
      /\ pc' = pc /\ status' = status /\ full' = full /\ dev' = dev /\ kv' = kv /\ host' = host
      /\ task' = task /\ faulty' = faulty
      /\ dcache' = dcache /\ loads' = loads /\ copying' = copying /\ offq' = offq /\ flying' = flying
      /\ devKV' = devKV /\ hostKV' = hostKV /\ store' = store /\ UNCHANGED dataVars
  BY DEF UpdatePrefetch, Building, dataVars
<1>2. /\ Types /\ Batched /\ Shapes /\ Awaits /\ Fetching
      /\ DevOwn /\ DevFill /\ HostOwn /\ Copied /\ HostKVIntact
      /\ SeqTypes /\ FetchTypes /\ TierTypes /\ DataTypes
  BY TypeParts DEF IInv
<1>3. /\ hkv[s] \in Nat /\ Fetched(s) \in Nat /\ to \in Nat /\ to <= PromptBlocks[s] /\ PromptBlocks[s] \in Nat
      /\ full[s] = PromptBlocks[s] /\ Len(host[s]) = PromptBlocks[s] + 1 /\ hkv[s] <= to
      /\ Len(Path[s]) \in Nat /\ PromptBlocks[s] <= Len(Path[s])
      /\ \A w \in Workers : \A j \in new : Good(hostKV[w][host[s][j]], Path[s][j])
  <2>1. Fetched(s) \in Nat /\ to <= PromptBlocks[s]
        /\ \A w \in Workers : \A j \in new : Good(hostKV[w][host[s][j]], Path[s][j])
    BY <1>1, FetchedFacts
  <2>2. hkv[s] \in Nat /\ PromptBlocks[s] \in Nat /\ Len(Path[s]) \in Nat /\ PromptBlocks[s] <= Len(Path[s])
    BY <1>2, PathFacts DEF SeqTypes
  <2>3. full[s] = PromptBlocks[s] /\ Len(host[s]) = PromptBlocks[s] + 1
    BY <1>1, <1>2 DEF Awaits, Awaited
  <2> QED BY <2>1, <2>2, <2>3
<1>4. \A k \in K : \E i \in new : Path[s][i] = k /\ fun[k] = host[s][i]
  OBVIOUS
<1>5. DOMAIN fun = K
  OBVIOUS
<1> HIDE DEF fun, to
<1>6. \A i \in new : i \in hkv[s] + 1 .. Len(host[s]) /\ i \in 1 .. Len(host[s]) /\ i \in 1 .. Len(Path[s]) /\ i <= to
  BY <1>3
<1>7. hkv'[s] = to /\ \A t \in Seqs \ {s} : hkv'[t] = hkv[t]
  BY <1>1, <1>2 DEF SeqTypes
<1>8. /\ hcache' = [k \in DOMAIN hcache' |-> hcache'[k]] /\ DOMAIN hcache' \subseteq Keys
      /\ \A k \in DOMAIN hcache' : \/ k \in DOMAIN hcache /\ hcache'[k] = hcache[k]
                                   \/ \E i \in new : Path[s][i] = k /\ hcache'[k] = host[s][i]
  <2>1. hcache' = [k \in DOMAIN hcache \cup K |-> IF k \in DOMAIN hcache THEN hcache[k] ELSE fun[k]]
    BY <1>1, <1>5 DEF Inserted
  <2>2. DOMAIN hcache \subseteq Keys
    BY <1>2 DEF TierTypes
  <2>3. K \subseteq Keys
    BY <1>6, PathFacts
  <2> HIDE DEF K
  <2> QED BY <1>4, <2>1, <2>2, <2>3
<1>9. host[s] \in Seq(HostBlocks) /\ \A i \in 1 .. Len(host[s]) : host[s][i] \in HostBlocks
  BY <1>2 DEF SeqTypes
<1>10. /\ FetchTypes' /\ s \notin awaiting' /\ Awaited(s)' /\ \A t \in Seqs \ {s} : SameStreams(t)
  BY <1>1, <1>2, StopWaitingFacts
<1>11. Types'
  <2>1. hkv' \in [Seqs -> Nat] /\ \A t \in Seqs : hkv'[t] <= Len(host[t])
    <3>1. hkv \in [Seqs -> Nat] /\ \A t \in Seqs : hkv[t] <= Len(host[t])
      BY <1>2 DEF SeqTypes
    <3>2. to <= Len(host[s])
      BY <1>3
    <3> QED BY <1>1, <1>3, <1>7, <3>1, <3>2
  <2>2. SeqTypes'
    BY <1>1, <1>2, <2>1 DEF SeqTypes
  <2>3. \A k \in DOMAIN hcache' : hcache'[k] \in HostBlocks
    BY <1>2, <1>6, <1>8, <1>9 DEF TierTypes
  <2>4. hcache' \in [DOMAIN hcache' -> HostBlocks]
    BY <1>8, <2>3
  <2>5. TierTypes'
    BY <1>1, <1>2, <1>8, <2>4 DEF TierTypes
  <2> QED BY <1>1, <1>2, <1>10, <2>2, <2>5, DataSame, TypeParts
<1>12. Batched'
  BY <1>1, <1>2 DEF Batched
<1>13. \A t \in Seqs \ {s} : SameSeq(t) /\ task'[t] = task[t]
  BY <1>1, <1>7 DEF SameSeq
<1>14. Shapes'
  <2>1. Shape(s)
    BY <1>2 DEF Shapes
  <2>2. Shape(s)'
    BY <1>1, <1>3, <1>7, <2>1 DEF Shape
  <2> QED BY <1>2, <1>13, <2>2, ShapesOfOne
<1>15. Awaits' /\ Fetching'
  <2>1. HostAgrees
    BY <1>1 DEF HostAgrees
  <2> QED BY <1>10, <1>11, <1>13, <2>1, FetchesOfOne
<1>16. Pairs' = Pairs
  BY <1>1, SamePairs
<1>17. DevOwn' /\ DevFill'
  <2>1. Queue' = Queue
    BY <1>1 DEF Queue
  <2>2. DevAgrees
    BY <1>1 DEF DevAgrees
  <2>3. DevStep
    BY <1>1, <1>2, <1>16, <2>1, <2>2, SameDev
  <2> QED BY <1>2, <1>11, <2>3, DevStepKeepsOwn, DevStepKeepsFill
\* The blocks that are counted now were open.
<1>18. \A i \in new :
         /\ \A t \in Seqs : \A j \in 1 .. Len(host[t]) : host[s][i] = host[t][j] => s = t /\ i = j
         /\ \A k \in DOMAIN hcache : hcache[k] # host[s][i]
         /\ \A p \in Pairs : host[s][i] # p.dst
  BY <1>2, <1>6 DEF HostOwn
<1> HIDE DEF new
<1>19. HostOwn'
  <2>1. \A k, m \in DOMAIN hcache' : hcache'[k] = hcache'[m] => k = m
    <3>1. \A k, m \in DOMAIN hcache : hcache[k] = hcache[m] => k = m
      BY <1>2 DEF HostOwn
    <3> QED BY <1>6, <1>8, <1>18, <3>1
  <2>2. ASSUME NEW t \in Seqs, NEW i \in hkv'[t] + 1 .. Len(host[t])
        PROVE  i \in hkv[t] + 1 .. Len(host[t]) /\ i \in 1 .. Len(host[t]) /\ (t = s => i \notin new)
    <3>1. hkv[t] \in Nat /\ Len(host[t]) \in Nat
      BY <1>2 DEF SeqTypes
    <3>2. CASE t = s
      BY <1>3, <1>7, <3>1, <3>2 DEF new
    <3>3. CASE t # s
      BY <1>7, <3>1, <3>3
    <3> QED BY <3>2, <3>3
  <2>3. ASSUME NEW t \in Seqs, NEW i \in hkv'[t] + 1 .. Len(host[t])
        PROVE  /\ \A u \in Seqs : \A j \in 1 .. Len(host[u]) : host[t][i] = host[u][j] => t = u /\ i = j
               /\ \A k \in DOMAIN hcache' : hcache'[k] # host[t][i]
    <3>1. /\ \A u \in Seqs : \A j \in 1 .. Len(host[u]) : host[t][i] = host[u][j] => t = u /\ i = j
          /\ \A k \in DOMAIN hcache : hcache[k] # host[t][i]
      BY <1>2, <2>2 DEF HostOwn
    <3>2. \A j \in new : host[s][j] # host[t][i]
      BY <1>18, <2>2
    <3> QED BY <1>8, <3>1, <3>2
  <2>4. \A p \in Pairs : \A k \in DOMAIN hcache' : hcache'[k] # p.dst
    <3>1. \A p \in Pairs : \A k \in DOMAIN hcache : hcache[k] # p.dst
      BY <1>2 DEF HostOwn
    <3> QED BY <1>8, <1>18, <3>1
  <2> QED BY <1>1, <1>2, <1>16, <2>1, <2>3, <2>4 DEF HostOwn
<1>20. Copied'
  BY <1>1, <1>2 DEF Copied, Good
<1>21. HostKVIntact'
  <2> SUFFICES ASSUME NEW w \in Workers
               PROVE  /\ \A k \in DOMAIN hcache' : Good(hostKV[w][hcache'[k]], k)
                      /\ \A t \in Seqs : \A i \in 1 .. hkv'[t] : Good(hostKV[w][host[t][i]], Path[t][i])
                      /\ \A k \in DOMAIN store[w] : Good(store[w][k], k)
    BY <1>1 DEF HostKVIntact, Good
  <2>1. /\ \A k \in DOMAIN hcache : Good(hostKV[w][hcache[k]], k)
        /\ \A t \in Seqs : \A i \in 1 .. hkv[t] : Good(hostKV[w][host[t][i]], Path[t][i])
        /\ \A k \in DOMAIN store[w] : Good(store[w][k], k)
    BY <1>2 DEF HostKVIntact
  <2>2. \A t \in Seqs : \A i \in 1 .. hkv'[t] : i \in 1 .. hkv[t] \/ (t = s /\ i \in new)
    <3>1. \A i \in 1 .. to : i \in 1 .. hkv[s] \/ i \in new
      BY <1>3 DEF new
    <3> QED BY <1>7, <3>1
  <2> QED BY <1>3, <1>8, <2>1, <2>2, SMTT(20)
<1> QED BY <1>11, <1>12, <1>14, <1>15, <1>17, <1>19, <1>20, <1>21 DEF IInv

-----------------------------------------------------------------------------
\* Allocations.

\* A table that the blocks of an allocation are appended to.
Grown(pool, m, held, a, tb) ==
    /\ tb \in Seq(pool) /\ Len(tb) = Len(m) + Len(a.got) /\ Len(a.got) \in Nat /\ Len(m) \in Nat
    /\ \A i \in 1 .. Len(m) : tb[i] = m[i] /\ i \in 1 .. Len(tb)
    /\ \A i \in 1 .. Len(a.got) : tb[Len(m) + i] = a.got[i]
    /\ \A j \in 1 .. Len(tb) : j > Len(m) =>
         /\ tb[j] \notin held /\ (\A k \in DOMAIN a.cache : a.cache[k] # tb[j])
         /\ \A i \in 1 .. Len(tb) : tb[i] = tb[j] => i = j

\* A table grows by what was allocated.
LEMMA GrownTable ==
    ASSUME NEW pool, NEW m \in Seq(pool), NEW n, NEW cache, NEW held, NEW a,
           Allocated(n, pool, cache, held, a), Range(m) \subseteq held
    PROVE  Grown(pool, m, held, a, m \o a.got)
<1> DEFINE g == a.got
           tb == m \o a.got
<1>1. /\ g \in Seq(pool) /\ (\A i, j \in 1 .. Len(g) : g[i] = g[j] => i = j)
      /\ \A i \in 1 .. Len(g) : g[i] \notin held /\ \A k \in DOMAIN a.cache : a.cache[k] # g[i]
  BY DEF Allocated
<1> HIDE DEF g
<1>2. tb = m \o g
  BY DEF g
<1> HIDE DEF tb
<1>3. tb \in Seq(pool) /\ Len(tb) = Len(m) + Len(g) /\ Len(g) \in Nat /\ Len(m) \in Nat
  BY <1>1, <1>2
<1>4. \A i \in 1 .. Len(m) + Len(g) : tb[i] = IF i <= Len(m) THEN m[i] ELSE g[i - Len(m)]
  BY <1>1, <1>2, ConcatAt
<1>5. \A i \in 1 .. Len(m) : tb[i] = m[i] /\ i \in 1 .. Len(tb) /\ m[i] \in held
  <2>1. \A i \in 1 .. Len(m) : m[i] \in held
    BY DEF Range
  <2> QED BY <1>3, <1>4, <2>1
<1>6. \A i \in 1 .. Len(g) : tb[Len(m) + i] = g[i]
  <2> SUFFICES ASSUME NEW i \in 1 .. Len(g) PROVE tb[Len(m) + i] = g[i]
    OBVIOUS
  <2>1. Len(m) + i \in 1 .. Len(m) + Len(g) /\ ~(Len(m) + i <= Len(m)) /\ (Len(m) + i) - Len(m) = i
    BY <1>3
  <2> QED BY <1>4, <2>1
<1>7. \A j \in 1 .. Len(tb) : j > Len(m) => j - Len(m) \in 1 .. Len(g) /\ tb[j] = g[j - Len(m)]
  BY <1>3, <1>4
<1>8. ASSUME NEW j \in 1 .. Len(tb), j > Len(m), NEW i \in 1 .. Len(tb), tb[i] = tb[j]
      PROVE  i = j
  <2>1. CASE i <= Len(m)
    <3>1. i \in 1 .. Len(m)
      BY <1>3, <2>1
    <3> QED BY <1>1, <1>5, <1>7, <1>8, <3>1, SMTT(20)
  <2>2. CASE i > Len(m)
    <3>1. i - Len(m) = j - Len(m)
      BY <1>1, <1>7, <1>8, <2>2
    <3> QED BY <1>3, <3>1
  <2> QED BY <1>3, <2>1, <2>2
<1>9. ASSUME NEW j \in 1 .. Len(tb), j > Len(m)
      PROVE  /\ tb[j] \notin held /\ (\A k \in DOMAIN a.cache : a.cache[k] # tb[j])
             /\ \A i \in 1 .. Len(tb) : tb[i] = tb[j] => i = j
  <2>1. PICK x \in 1 .. Len(g) : tb[j] = g[x]
    BY <1>7, <1>9
  <2>2. \A i \in 1 .. Len(tb) : tb[i] = tb[j] => i = j
    BY <1>8, <1>9
  <2> QED BY <1>1, <2>1, <2>2
<1>10. \A i \in 1 .. Len(m) : tb[i] = m[i] /\ i \in 1 .. Len(tb)
  BY <1>5
<1>11. Grown(pool, m, held, a, tb)
  BY ONLY <1>3, <1>6, <1>9, <1>10 DEF g, Grown
<1> QED BY <1>11 DEF tb

\* What allocate leaves of a cache.
CacheLeft(pool, cache, c) ==
    /\ c \in [DOMAIN c -> pool] /\ DOMAIN c \subseteq Keys
    /\ \A k \in DOMAIN c : k \in DOMAIN cache /\ c[k] = cache[k]

\* allocate only removes entries of the cache.
LEMMA CacheFacts ==
    ASSUME NEW n, NEW pool, NEW cache, cache \in [DOMAIN cache -> pool], DOMAIN cache \subseteq Keys,
           NEW held, NEW a, Allocated(n, pool, cache, held, a)
    PROVE  CacheLeft(pool, cache, a.cache)
<1> DEFINE c == a.cache
<1>1. DOMAIN c \subseteq DOMAIN cache /\ c = [k \in DOMAIN c |-> cache[k]]
  BY DEF Allocated
<1> HIDE DEF c
<1>2. \A k \in DOMAIN c : k \in DOMAIN cache /\ c[k] = cache[k]
  BY <1>1
<1>3. c \in [DOMAIN c -> pool]
  BY <1>1, <1>2
<1>4. CacheLeft(pool, cache, c)
  BY <1>1, <1>2, <1>3 DEF CacheLeft
<1> QED BY <1>4 DEF c

\* What allocate returns in each tier.
LEMMA HostAllocated ==
    ASSUME IInv, NEW n \in Nat, NEW more, NEW a \in HostAllocations(n, more)
    PROVE  Allocated(n, HostBlocks, hcache, HostHeld \cup more, a)
<1> DEFINE held == HostHeld \cup more
<1>1. /\ hcache \in [DOMAIN hcache -> HostBlocks] /\ IsFiniteSet(HostBlocks)
      /\ \A k, m \in DOMAIN hcache : hcache[k] = hcache[m] => k = m
  BY TiersAssumption DEF IInv, Types, SeqTypes, FetchTypes, TierTypes, DataTypes, HostOwn
<1>2. a \in Allocations(n, HostBlocks, HostTargets, hcache, held)
  BY DEF HostAllocations
<1> HIDE DEF held
<1>3. Allocated(n, HostBlocks, hcache, held, a)
  BY <1>1, <1>2, AllocationFacts
<1> QED BY <1>3 DEF held

\* DevAllocations returns what Allocated says.
LEMMA DevAllocated ==
    ASSUME IInv, NEW n \in Nat, NEW more, NEW a \in DevAllocations(n, more)
    PROVE  Allocated(n, DevBlocks, dcache, DevHeld \cup more, a)
<1> DEFINE held == DevHeld \cup more
<1>1. /\ dcache \in [DOMAIN dcache -> DevBlocks] /\ IsFiniteSet(DevBlocks)
      /\ \A k, m \in DOMAIN dcache : dcache[k] = dcache[m] => k = m
  BY TiersAssumption DEF IInv, Types, SeqTypes, FetchTypes, TierTypes, DataTypes, DevOwn
<1>2. a \in Allocations(n, DevBlocks, Targets, dcache, held)
  BY DEF DevAllocations
<1> HIDE DEF held
<1>3. Allocated(n, DevBlocks, dcache, held, a)
  BY <1>1, <1>2, AllocationFacts
<1> QED BY <1>3 DEF held

\* The blocks of the tables are held.
LEMMA TablesAreHeld ==
    ASSUME SeqTypes
    PROVE  /\ \A t \in Seqs : Range(dev[t]) \subseteq DevHeld /\ Range(host[t]) \subseteq HostHeld
           /\ \A t \in Seqs : \A j \in 1 .. Len(dev[t]) : dev[t][j] \in DevHeld
           /\ \A t \in Seqs : \A j \in 1 .. Len(host[t]) : host[t][j] \in HostHeld
<1>1. \A t \in Seqs : dev[t] \in Seq(DevBlocks) /\ host[t] \in Seq(HostBlocks)
  BY DEF SeqTypes
<1>2. \A t \in Seqs : Range(dev[t]) \subseteq DevHeld /\ Range(host[t]) \subseteq HostHeld
  BY DEF DevHeld, HostHeld, HeldBy
<1>3. /\ \A t \in Seqs : \A j \in 1 .. Len(dev[t]) : dev[t][j] \in Range(dev[t])
      /\ \A t \in Seqs : \A j \in 1 .. Len(host[t]) : host[t][j] \in Range(host[t])
  BY <1>1 DEF Range
<1> QED BY <1>2, <1>3

\* A request is added: host blocks are matched and the rest is prefetched.
LEMMA AddRequestKeepsIInv ==
    ASSUME IInv, NEW s \in Seqs, AddRequest(s)
    PROVE  IInv'
<1> DEFINE m == Matched(s, hcache)
           P == PromptBlocks[s]
           n == P + 1 - Len(m)
           N == IF n <= 1 THEN 0 ELSE n
<1>1. status[s] = "new"
  BY DEF AddRequest
<1>2. /\ Types /\ Batched /\ Shapes /\ Awaits /\ Fetching
      /\ DevOwn /\ DevFill /\ HostOwn /\ Copied /\ HostKVIntact
      /\ SeqTypes /\ FetchTypes /\ TierTypes /\ DataTypes
  BY TypeParts DEF IInv
<1>3. /\ dev[s] = <<>> /\ kv[s] = 0 /\ host[s] = <<>> /\ hkv[s] = 0 /\ full[s] = P
  BY <1>1, <1>2 DEF Shapes, Shape
<1>4. P \in Nat \ {0} /\ Path[s] \in Seq(Keys) /\ P <= Len(Path[s]) /\ \A i \in 1 .. Len(Path[s]) : Path[s][i] \in Keys
  BY PathFacts
<1>5. s \notin awaiting /\ result[s] = PerWorker(0) /\ stream[s] = PerWorker(<<>>)
  BY <1>1, <1>2 DEF Awaits, Awaited
<1>6. /\ m \in Seq(HostBlocks) /\ Len(m) \in 0 .. P
      /\ \A i \in 1 .. Len(m) : Path[s][i] \in DOMAIN hcache /\ m[i] = hcache[Path[s][i]]
  <2>1. hcache \in [DOMAIN hcache -> HostBlocks]
    BY <1>2 DEF TierTypes
  <2>2. full[s] \in Nat /\ full[s] <= Len(Path[s])
    BY <1>3, <1>4
  <2>3. /\ m \in Seq(HostBlocks) /\ Len(m) \in 0 .. full[s]
        /\ \A i \in 1 .. Len(m) : Path[s][i] \in DOMAIN hcache /\ m[i] = hcache[Path[s][i]]
    <3>1. IsMatch(s, HostBlocks, hcache, m)
      BY <2>1, <2>2, MatchFacts
    <3> HIDE DEF m
    <3> QED BY <3>1 DEF IsMatch
  <2> HIDE DEF m
  <2> QED BY <1>3, <2>3
<1>7. PICK accepted \in BOOLEAN : \E a \in HostAllocations(N, Range(m)) :
        LET fetch == a.got # <<>>
            wait == fetch /\ accepted
        IN  /\ hcache' = a.cache
            /\ status' = [status EXCEPT ![s] = IF accepted THEN "waiting" ELSE "gone"]
            /\ host' = [host EXCEPT ![s] = IF accepted THEN m \o a.got ELSE <<>>]
            /\ hkv' = [hkv EXCEPT ![s] = IF accepted THEN Len(m) ELSE 0]
            /\ task' = [task EXCEPT ![s] = PerWorker(
                          IF fetch THEN [i \in 1 .. n - 1 |->
                                          [blk |-> a.got[i], key |-> Path[s][Len(m) + i]]]
                          ELSE <<>>)]
            /\ flag' = [flag EXCEPT ![s] = IF wait THEN Cardinality(Workers) ELSE 0]
            /\ awaiting' = IF wait THEN awaiting \cup {s} ELSE awaiting
            /\ client' = [client EXCEPT ![s] = PerWorker(IF wait THEN "open" ELSE "closed")]
  BY Zenon DEF AddRequest
<1> HIDE DEF m
<1>8. PICK a \in HostAllocations(N, Range(m)) :
        LET fetch == a.got # <<>>
            wait == fetch /\ accepted
        IN  /\ hcache' = a.cache
            /\ status' = [status EXCEPT ![s] = IF accepted THEN "waiting" ELSE "gone"]
            /\ host' = [host EXCEPT ![s] = IF accepted THEN m \o a.got ELSE <<>>]
            /\ hkv' = [hkv EXCEPT ![s] = IF accepted THEN Len(m) ELSE 0]
            /\ task' = [task EXCEPT ![s] = PerWorker(
                          IF fetch THEN [i \in 1 .. n - 1 |->
                                          [blk |-> a.got[i], key |-> Path[s][Len(m) + i]]]
                          ELSE <<>>)]
            /\ flag' = [flag EXCEPT ![s] = IF wait THEN Cardinality(Workers) ELSE 0]
            /\ awaiting' = IF wait THEN awaiting \cup {s} ELSE awaiting
            /\ client' = [client EXCEPT ![s] = PerWorker(IF wait THEN "open" ELSE "closed")]
  BY <1>7
<1> DEFINE g == a.got
           fetch == g # <<>>
           wait == fetch /\ accepted
           q == IF fetch THEN [i \in 1 .. n - 1 |-> [blk |-> g[i], key |-> Path[s][Len(m) + i]]] ELSE <<>>
<1>9. /\ hcache' = a.cache
      /\ status' = [status EXCEPT ![s] = IF accepted THEN "waiting" ELSE "gone"]
      /\ host' = [host EXCEPT ![s] = IF accepted THEN m \o g ELSE <<>>]
      /\ hkv' = [hkv EXCEPT ![s] = IF accepted THEN Len(m) ELSE 0]
      /\ task' = [task EXCEPT ![s] = PerWorker(q)]
      /\ flag' = [flag EXCEPT ![s] = IF wait THEN Cardinality(Workers) ELSE 0]
      /\ awaiting' = IF wait THEN awaiting \cup {s} ELSE awaiting
      /\ client' = [client EXCEPT ![s] = PerWorker(IF wait THEN "open" ELSE "closed")]
  BY <1>8, Zenon
<1>10. /\ pc' = pc /\ full' = full /\ dev' = dev /\ kv' = kv /\ result' = result /\ stream' = stream
       /\ faulty' = faulty /\ dcache' = dcache /\ loads' = loads /\ copying' = copying /\ offq' = offq
       /\ flying' = flying /\ Scrub
  BY DEF AddRequest
<1>11. n \in Nat /\ n >= 1 /\ N \in Nat /\ Len(m) \in Nat /\ n + Len(m) = P + 1 /\ Len(m) <= P
  <2>1. P \in Nat /\ Len(m) \in 0 .. P
    BY <1>4, <1>6
  <2> HIDE DEF P
  <2> QED BY ONLY <2>1
<1> HIDE DEF N
<1>12. Allocated(N, HostBlocks, hcache, HostHeld \cup Range(m), a)
  BY <1>11, HostAllocated
<1>13. DataTypes' /\ DevAgrees /\ HostAgrees /\ store' = store
  BY <1>2, <1>10, ScrubFacts
<1> DEFINE tb == m \o g
<1>14. /\ tb \in Seq(HostBlocks) /\ Len(tb) = Len(m) + Len(g) /\ Len(g) \in Nat
       /\ \A i \in 1 .. Len(m) : tb[i] = m[i] /\ i \in 1 .. Len(tb)
       /\ \A i \in 1 .. Len(g) : tb[Len(m) + i] = g[i]
       /\ \A j \in 1 .. Len(tb) : j > Len(m) =>
            /\ tb[j] \notin HostHeld \cup Range(m) /\ (\A k \in DOMAIN a.cache : a.cache[k] # tb[j])
            /\ \A i \in 1 .. Len(tb) : tb[i] = tb[j] => i = j
  <2> DEFINE held == HostHeld \cup Range(m)
  <2>1. Range(m) \subseteq held /\ Allocated(N, HostBlocks, hcache, held, a)
    BY <1>12
  <2> HIDE DEF held
  <2>2. Grown(HostBlocks, m, held, a, tb)
    BY <1>6, <2>1, GrownTable
  <2> HIDE DEF tb
  <2>3. Grown(HostBlocks, m, HostHeld \cup Range(m), a, tb)
    BY <2>2 DEF held
  <2> QED BY <2>3 DEF Grown
<1>15. /\ a.cache \in [DOMAIN a.cache -> HostBlocks] /\ DOMAIN a.cache \subseteq Keys
       /\ \A k \in DOMAIN a.cache : k \in DOMAIN hcache /\ a.cache[k] = hcache[k]
  <2>1. CacheLeft(HostBlocks, hcache, a.cache)
    BY <1>2, <1>12, CacheFacts DEF TierTypes
  <2> QED BY <2>1 DEF CacheLeft
<1>16. fetch => Len(g) = n /\ n >= 2
  <2>1. g = <<>> \/ Len(g) = N
    BY <1>12 DEF Allocated
  <2>2. g \in Seq(HostBlocks)
    BY <1>12 DEF Allocated
  <2>3. Len(g) = 0 => g = <<>>
    BY <2>2
  <2> HIDE DEF g
  <2> QED BY <1>11, <2>1, <2>3 DEF N
<1>17. \A i \in 1 .. Len(g) : g[i] \in HostBlocks
  <2>1. g \in Seq(HostBlocks)
    BY <1>12 DEF Allocated
  <2> HIDE DEF g
  <2> QED BY <2>1
<1> HIDE DEF n, g, tb
\* The task.
<1>18. /\ q \in Seq([blk : HostBlocks, key : Keys])
       /\ fetch => /\ Len(q) = n - 1 /\ q # <<>>
                   /\ \A i \in 1 .. n - 1 : q[i] = [blk |-> g[i], key |-> Path[s][Len(m) + i]]
  <2>1. CASE ~fetch
    BY <2>1
  <2>2. CASE fetch
    <3> DEFINE T == [blk : HostBlocks, key : Keys]
               R(i) == [blk |-> g[i], key |-> Path[s][Len(m) + i]]
    <3>1. ASSUME NEW i \in 1 .. n - 1 PROVE R(i) \in T
      <4>1. i \in 1 .. Len(g) /\ Len(m) + i \in 1 .. Len(Path[s])
        BY <1>4, <1>11, <1>16, <2>2
      <4> QED BY <1>4, <1>17, <4>1
    <3>2. q = [i \in 1 .. n - 1 |-> R(i)]
      BY <2>2
    <3>3. n - 1 \in Nat /\ n - 1 >= 1
      BY <1>11, <1>16, <2>2
    <3> HIDE DEF q, R, T
    <3>4. q \in [1 .. n - 1 -> T] /\ \A i \in 1 .. n - 1 : q[i] = R(i)
      BY <3>1, <3>2
    <3>5. q \in Seq(T) /\ Len(q) = n - 1
      BY <3>3, <3>4
    <3> QED BY <3>3, <3>4, <3>5 DEF R, T
  <2> QED BY <2>1, <2>2
<1> HIDE DEF q, fetch
\* The variables of s.
<1>19. /\ status'[s] = (IF accepted THEN "waiting" ELSE "gone")
       /\ host'[s] = (IF accepted THEN tb ELSE <<>>)
       /\ hkv'[s] = (IF accepted THEN Len(m) ELSE 0)
       /\ task'[s] = PerWorker(q) /\ flag'[s] = (IF wait THEN Cardinality(Workers) ELSE 0)
       /\ client'[s] = PerWorker(IF wait THEN "open" ELSE "closed")
  BY <1>2, <1>9 DEF SeqTypes, FetchTypes, tb
<1>20. \A t \in Seqs \ {s} : SameSeq(t) /\ SameStreams(t) /\ task'[t] = task[t]
  BY <1>2, <1>9, <1>10 DEF SeqTypes, FetchTypes, SameSeq, SameStreams
<1>21. SeqTypes'
  <2>1. status' \in [Seqs -> {"new", "waiting", "placed", "prefill", "running", "decode", "gone"}]
    BY <1>2, <1>9 DEF SeqTypes
  <2>2. host' \in [Seqs -> Seq(HostBlocks)]
    <3>1. (IF accepted THEN m \o g ELSE <<>>) \in Seq(HostBlocks)
      BY <1>14 DEF tb
    <3> QED BY <1>2, <1>9, <3>1 DEF SeqTypes
  <2>3. hkv' \in [Seqs -> Nat]
    BY <1>2, <1>9, <1>11 DEF SeqTypes
  <2>4. \A t \in Seqs : hkv'[t] <= Len(host'[t])
    <3>1. hkv'[s] <= Len(host'[s])
      <4>1. CASE accepted
        BY <1>11, <1>14, <1>19, <4>1
      <4>2. CASE ~accepted
        <5>1. hkv'[s] = 0 /\ host'[s] = <<>>
          BY <1>19, <4>2
        <5> QED BY <5>1
      <4> QED BY <4>1, <4>2
    <3> QED BY <1>2, <1>20, <3>1 DEF SameSeq, SeqTypes
  <2> QED BY <1>2, <1>10, <2>1, <2>2, <2>3, <2>4 DEF SeqTypes
<1>22. FetchTypes'
  <2>1. Cardinality(Workers) \in Nat
    BY TiersAssumption, FS_CardinalityType
  <2>2. flag' \in [Seqs -> 0 .. Cardinality(Workers)]
    <3>1. (IF wait THEN Cardinality(Workers) ELSE 0) \in 0 .. Cardinality(Workers)
      BY <2>1
    <3> HIDE DEF wait
    <3> QED BY <1>2, <1>9, <3>1 DEF FetchTypes
  <2>3. task' \in [Seqs -> [Workers -> Seq([blk : HostBlocks, key : Keys])]]
    <3> DEFINE T == Seq([blk : HostBlocks, key : Keys])
    <3>1. PerWorker(q) \in [Workers -> T]
      BY <1>18 DEF PerWorker
    <3>2. task \in [Seqs -> [Workers -> T]]
      BY <1>2 DEF FetchTypes
    <3> HIDE DEF T
    <3>3. task' \in [Seqs -> [Workers -> T]]
      BY <1>9, <3>1, <3>2
    <3> QED BY <3>3 DEF T
  <2>4. client' \in [Seqs -> [Workers -> {"open", "closed"}]]
    <3>1. PerWorker(IF wait THEN "open" ELSE "closed") \in [Workers -> {"open", "closed"}]
      BY DEF PerWorker
    <3> HIDE DEF wait
    <3> QED BY <1>2, <1>9, <3>1 DEF FetchTypes
  <2>5. awaiting' \subseteq Seqs
    BY <1>2, <1>9 DEF FetchTypes
  <2> QED BY <1>2, <1>10, <2>2, <2>3, <2>4, <2>5 DEF FetchTypes
<1>23. Types'
  <2>1. TierTypes'
    BY <1>2, <1>9, <1>10, <1>15 DEF TierTypes
  <2> QED BY <1>13, <1>21, <1>22, <2>1, TypeParts
<1>24. Batched'
  <2>1. \A t \in Seqs : status'[t] = "placed" => status[t] = "placed"
    BY <1>19, <1>20 DEF SameSeq
  <2> QED BY <1>2, <1>10, <2>1 DEF Batched
<1>25. Shapes'
  <2>1. Shape(s)'
    BY <1>3, <1>4, <1>10, <1>11, <1>19 DEF Shape
  <2> QED BY <1>2, <1>20, <2>1, ShapesOfOne
<1>26. Awaited(s)'
  <2>1. s \in awaiting' <=> wait
    BY <1>5, <1>9
  <2>2. result'[s] = PerWorker(0) /\ stream'[s] = PerWorker(<<>>) /\ full'[s] = P
    BY <1>3, <1>5, <1>10
  <2>3. CASE wait
    <3>1. Open(s)' = Workers
      BY <1>19, <2>3 DEF Open, PerWorker
    <3>2. status'[s] = "waiting" /\ host'[s] = tb /\ flag'[s] = Cardinality(Workers) /\ fetch
      BY <1>19, <2>3
    <3>3. Len(tb) = P + 1
      <4>1. Len(tb) = Len(m) + Len(g) /\ Len(g) = n
        BY <1>14, <1>16, <3>2
      <4> HIDE DEF P
      <4> QED BY ONLY <1>4, <1>11, <4>1
    <3>4. \A w \in Workers : task'[s][w] # <<>>
      BY <1>18, <1>19, <3>2 DEF PerWorker
    <3>5. Cardinality(Workers) \in Nat
      BY TiersAssumption, FS_CardinalityType
    <3> QED BY <2>1, <2>2, <2>3, <3>1, <3>2, <3>3, <3>4, <3>5 DEF Awaited
  <2>4. CASE ~wait
    <3>1. flag'[s] = 0 /\ client'[s] = PerWorker("closed") /\ s \notin awaiting'
      BY <1>19, <2>1, <2>4
    <3>2. Open(s)' = {}
      BY <3>1 DEF Open, PerWorker
    <3>3. Cardinality({}) = 0
      BY FS_EmptySet
    <3> QED BY <2>2, <3>1, <3>2, <3>3 DEF Awaited
  <2> QED BY <2>3, <2>4
<1>27. ASSUME s \in awaiting', NEW w \in Workers
       PROVE  \E c \in [0 .. Len(stream'[s][w]) -> 0 .. PromptBlocks[s]] :
              \E o \in 0 .. PromptBlocks[s] : Progress(s, w, c, o)'
  <2>1. wait
    BY <1>5, <1>9, <1>27
  <2>2. /\ stream'[s][w] = <<>> /\ result'[s][w] = 0 /\ hkv'[s] = Len(m) /\ host'[s] = tb /\ task'[s][w] = q
    BY <1>5, <1>10, <1>19, <2>1 DEF PerWorker
  <2> DEFINE c == [i \in 0 .. 0 |-> 0]
  <2>3. c \in [0 .. 0 -> 0 .. P] /\ c[0] = 0 /\ (\A i \in 0 .. 0 : c[i] = 0) /\ 0 \in 0 .. P
    BY <1>4
  <2> HIDE DEF c
  <2>4. Len(stream'[s][w]) = 0
    BY <2>2
  <2>5. Len(m) + 0 + Len(q) <= P
    <3>1. Len(q) = n - 1
      BY <1>18, <2>1
    <3> HIDE DEF P
    <3> QED BY ONLY <1>4, <1>11, <3>1
  <2>6. \A i \in 1 .. Len(q) : q[i] = [blk |-> tb[Len(m) + 0 + i], key |-> Path[s][Len(m) + 0 + i]]
    <3> SUFFICES ASSUME NEW i \in 1 .. Len(q) PROVE q[i] = [blk |-> tb[Len(m) + 0 + i], key |-> Path[s][Len(m) + 0 + i]]
      OBVIOUS
    <3>1. i \in 1 .. n - 1 /\ i \in 1 .. Len(g) /\ Len(m) + 0 + i = Len(m) + i
      BY <1>11, <1>16, <1>18, <2>1
    <3> QED BY <1>14, <1>18, <2>1, <3>1
  <2>7. \A i \in 0 .. 0 : \A j \in Len(m) + 1 .. Len(m) + c[i] : FALSE
    BY <1>11, <2>3
  <2>8. Progress(s, w, c, 0)'
    <3>1. /\ c[0] = result'[s][w]
          /\ \A i \in 1 .. Len(stream'[s][w]) : c[i] = c[i - 1] + stream'[s][w][i]
          /\ \A i \in 0 .. Len(stream'[s][w]) : c[i] <= 0
          /\ client'[s][w] = "open" => c[Len(stream'[s][w])] = 0
      BY <2>2, <2>3, <2>4
    <3>2. /\ hkv'[s] + 0 + Len(task'[s][w]) <= PromptBlocks[s]
          /\ \A i \in 1 .. Len(task'[s][w]) :
               task'[s][w][i] = [blk |-> host'[s][hkv'[s] + 0 + i], key |-> Path[s][hkv'[s] + 0 + i]]
      BY <2>2, <2>5, <2>6
    <3>3. \A i \in 0 .. Len(stream'[s][w]) : \A j \in hkv'[s] + 1 .. hkv'[s] + c[i] :
            Good(hostKV'[w][host'[s][j]], Path[s][j])
      BY <2>2, <2>4, <2>7
    <3> QED BY <3>1, <3>2, <3>3 DEF Progress, Good
  <2> QED BY <2>3, <2>4, <2>8
<1>28. Awaits' /\ Fetching'
  BY <1>13, <1>20, <1>23, <1>26, <1>27, FetchesOfOne
<1>29. DevStep
  <2>1. Pairs' = Pairs
    BY <1>10, SamePairs
  <2>2. Queue' = Queue
    BY <1>10 DEF Queue
  <2> QED BY <1>2, <1>10, <1>13, <2>1, <2>2, SameDev
<1>30. HostStep
  <2>1. ASSUME NEW t \in Seqs, NEW j \in 1 .. Len(host'[t])
        PROVE  HostKept(t, j) \/ HostHit(t, j) \/ HostFresh(t, j)
    <3>1. CASE t # s
      <4>1. host'[t] = host[t] /\ hkv'[t] = hkv[t]
        BY <1>20, <3>1 DEF SameSeq
      <4>2. Len(host[t]) \in Nat
        BY <1>2 DEF SeqTypes
      <4>3. j <= Len(host[t])
        BY <4>1, <4>2
      <4> QED BY <4>1, <4>3 DEF HostKept
    <3>2. CASE t = s /\ ~accepted
      <4>1. host'[t] = <<>>
        BY <1>19, <3>2
      <4> QED BY <4>1
    <3>3. CASE t = s /\ accepted
      <4>1. host'[t] = tb /\ hkv'[t] = Len(m) /\ j \in 1 .. Len(tb)
        BY <1>19, <3>3
      <4>2. CASE j <= Len(m)
        <5>1. j \in 1 .. Len(m)
          BY <1>11, <1>14, <4>1, <4>2
        <5> QED BY <1>6, <1>14, <3>3, <4>1, <5>1 DEF HostHit
      <4>3. CASE j > Len(m)
        <5>1. /\ tb[j] \notin HostHeld /\ (\A k \in DOMAIN hcache' : hcache'[k] # tb[j])
              /\ \A i \in 1 .. Len(tb) : tb[i] = tb[j] => i = j
          BY <1>9, <1>14, <4>1, <4>3
        <5>2. ASSUME NEW u \in Seqs, NEW i \in 1 .. Len(host'[u]), host'[u][i] = tb[j] PROVE u = s /\ i = j
          <6>1. CASE u = s
            BY <1>19, <3>3, <5>1, <5>2, <6>1
          <6>2. CASE u # s
            <7>1. host'[u] = host[u]
              BY <1>20, <6>2 DEF SameSeq
            <7>2. tb[j] \in HostHeld
              BY <1>2, <5>2, <7>1, TablesAreHeld
            <7> QED BY <5>1, <7>2
          <6> QED BY <6>1, <6>2
        <5>3. ~(j <= Len(m))
          BY <1>11, <1>14, <4>1, <4>3
        <5> QED BY <3>3, <4>1, <5>1, <5>2, <5>3 DEF HostFresh
      <4> QED BY <1>11, <1>14, <4>1, <4>2, <4>3
    <3> QED BY <3>1, <3>2, <3>3
  <2>2. \A k \in DOMAIN hcache' : k \in DOMAIN hcache /\ hcache'[k] = hcache[k]
    BY <1>9, <1>15
  <2> QED BY <1>10, <1>13, <2>1, <2>2 DEF HostStep, HostAgrees
<1> QED BY <1>23, <1>24, <1>25, <1>28, <1>29, <1>30, IInvAfterStep

\* Steps that only evict from a cache, or give the blocks of a table back.
LEMMA EvictDev ==
    ASSUME SeqTypes, UNCHANGED <<dev, kv, Queue>>, Pairs' \subseteq Pairs, DevAgrees,
           CacheLeft(DevBlocks, dcache, dcache')
    PROVE  DevStep
<1>1. \A t \in Seqs : \A j \in 1 .. Len(dev'[t]) : DevKept(t, j)
  BY DEF DevKept, SeqTypes
<1> QED BY <1>1 DEF DevStep, DevAgrees, CacheLeft

\* Host tables are kept or dropped.
LEMMA DropHost ==
    ASSUME SeqTypes, UNCHANGED <<offq, flying, store>>, HostAgrees, CacheLeft(HostBlocks, hcache, hcache'),
           \A t \in Seqs : host'[t] = <<>> \/ (host'[t] = host[t] /\ hkv'[t] = hkv[t])
    PROVE  HostStep
<1>1. ASSUME NEW t \in Seqs, NEW j \in 1 .. Len(host'[t]) PROVE HostKept(t, j)
  <2>1. host'[t] = host[t] /\ hkv'[t] = hkv[t] /\ Len(host[t]) \in Nat
    BY DEF SeqTypes
  <2> QED BY <2>1 DEF HostKept
<1> QED BY <1>1 DEF HostStep, HostAgrees, CacheLeft

\* The host part of Sequence::reset.
LEMMA ResetHostFacts ==
    ASSUME SeqTypes, NEW s \in Seqs, ResetHost(s)
    PROVE  /\ host' \in [Seqs -> Seq(HostBlocks)] /\ hkv' \in [Seqs -> Nat]
           /\ host'[s] = <<>> /\ hkv'[s] = 0
           /\ \A t \in Seqs \ {s} : host'[t] = host[t] /\ hkv'[t] = hkv[t]
           /\ \A t \in Seqs : hkv'[t] <= Len(host'[t])
<1>1. /\ host' = [host EXCEPT ![s] = <<>>] /\ hkv' = [hkv EXCEPT ![s] = 0]
      /\ host \in [Seqs -> Seq(HostBlocks)] /\ hkv \in [Seqs -> Nat] /\ \A t \in Seqs : hkv[t] <= Len(host[t])
  BY DEF ResetHost, SeqTypes
<1>2. /\ host'[s] = <<>> /\ hkv'[s] = 0
      /\ \A t \in Seqs \ {s} : host'[t] = host[t] /\ hkv'[t] = hkv[t]
  BY <1>1
<1>3. hkv'[s] <= Len(host'[s])
  BY <1>2
<1>4. \A t \in Seqs : hkv'[t] <= Len(host'[t])
  BY <1>1, <1>2, <1>3
<1>5. host' \in [Seqs -> Seq(HostBlocks)] /\ hkv' \in [Seqs -> Nat]
  BY <1>1
<1> QED BY <1>2, <1>4, <1>5

\* The prefill does not fit: the sequence gives its host blocks back.
LEMMA AllocateFails ==
    ASSUME IInv, NEW s \in Seqs, status[s] = "waiting", s \notin awaiting, ResetHost(s),
           status' = Unplaced(s), UNCHANGED <<dev, kv, loads, pc, full, hcache, copying, offq, flying>>,
           UNCHANGED fetchVars, Scrub, CacheLeft(DevBlocks, dcache, dcache')
    PROVE  IInv'
<1>1. /\ Batched /\ Shapes /\ Awaits
      /\ SeqTypes /\ FetchTypes /\ TierTypes /\ DataTypes
  BY TypeParts DEF IInv
<1>2. /\ host' \in [Seqs -> Seq(HostBlocks)] /\ hkv' \in [Seqs -> Nat]
      /\ host'[s] = <<>> /\ hkv'[s] = 0
      /\ \A t \in Seqs \ {s} : host'[t] = host[t] /\ hkv'[t] = hkv[t]
      /\ \A t \in Seqs : hkv'[t] <= Len(host'[t])
  BY <1>1, ResetHostFacts
<1>3. status'[s] \in {"gone", "waiting"} /\ \A t \in Seqs \ {s} : status'[t] = status[t]
  BY <1>1 DEF SeqTypes, Unplaced
<1>4. DataTypes' /\ DevAgrees /\ HostAgrees /\ store' = store
  BY <1>1, ScrubFacts
<1>5. Types'
  <2>1. status' \in [Seqs -> {"new", "waiting", "placed", "prefill", "running", "decode", "gone"}]
    BY <1>1 DEF SeqTypes, Unplaced
  <2>2. SeqTypes'
    BY <1>1, <1>2, <2>1 DEF SeqTypes
  <2>3. TierTypes'
    BY <1>1 DEF TierTypes, CacheLeft
  <2> QED BY <1>1, <1>4, <2>2, <2>3, SameFetchTypes, TypeParts
<1>6. Batched'
  <2>1. \A t \in Seqs : status'[t] = "placed" => status[t] = "placed"
    BY <1>3
  <2> QED BY <1>1, <2>1 DEF Batched
<1>7. Shapes'
  <2>1. \A t \in Seqs \ {s} : SameSeq(t) /\ task'[t] = task[t]
    BY <1>2, <1>3 DEF SameSeq, fetchVars
  <2>2. Shape(s) /\ full[s] \in Nat
    BY <1>1 DEF Shapes, SeqTypes
  <2>3. Shape(s)'
    BY <1>2, <1>3, <2>2 DEF Shape
  <2> QED BY <1>1, <2>1, <2>3, ShapesOfOne
<1>8. Awaits' /\ Fetching'
  <2>1. \A t \in awaiting : t \in Seqs \ {s}
    BY <1>1 DEF FetchTypes
  <2> QED BY <1>2, <1>3, <1>4, <1>5, <2>1, SameFetches
<1>9. Pairs' = Pairs /\ Queue' = Queue
  BY SamePairs DEF Queue
<1>10. DevStep
  BY <1>1, <1>4, <1>9, EvictDev
<1>11. HostStep
  <2>1. CacheLeft(HostBlocks, hcache, hcache')
    BY <1>1 DEF CacheLeft, TierTypes
  <2>2. \A t \in Seqs : host'[t] = <<>> \/ (host'[t] = host[t] /\ hkv'[t] = hkv[t])
    BY <1>2
  <2> QED BY <1>1, <1>4, <2>1, <2>2, DropHost
<1> QED BY <1>5, <1>6, <1>7, <1>8, <1>10, <1>11, IInvAfterStep

\* A prefill gets its device blocks and the loads to fill them.
LEMMA AllocateKeepsIInv ==
    ASSUME IInv, NEW s \in Seqs, Allocate(s)
    PROVE  IInv'
<1> DEFINE m == Matched(s, dcache)
           n == full[s] + 1 - Len(m)
           ht == IF host[s] = <<>> THEN Matched(s, hcache) ELSE host[s]
           hk == IF host[s] = <<>> THEN Len(ht) ELSE hkv[s]
<1>1. PICK a \in DevAllocations(n, Range(m)) :
        /\ dcache' = a.cache
        /\ IF a.got = <<>>
           THEN /\ ResetHost(s) /\ status' = Unplaced(s)
                /\ UNCHANGED <<dev, kv, loads>>
           ELSE /\ dev' = [dev EXCEPT ![s] = m \o a.got]
                /\ kv' = [kv EXCEPT ![s] = Max({Len(m), hk})]
                /\ host' = [host EXCEPT ![s] = ht] /\ hkv' = [hkv EXCEPT ![s] = hk]
                /\ loads' = loads \cup LoadsFor(s, m \o a.got, Len(m), ht, hk)
                /\ status' = [status EXCEPT ![s] = IF LatencyAware THEN "placed" ELSE "prefill"]
  BY Zenon DEF Allocate
<1>2. /\ pc = "build" /\ status[s] = "waiting" /\ s \notin awaiting /\ pc' = pc /\ full' = full
      /\ UNCHANGED fetchVars /\ hcache' = hcache /\ copying' = copying /\ offq' = offq /\ flying' = flying /\ Scrub
  BY DEF Allocate, Building
<1>3. /\ Types /\ Batched /\ Shapes /\ Awaits
      /\ SeqTypes /\ FetchTypes /\ TierTypes /\ DataTypes
  BY TypeParts DEF IInv
<1>4. /\ full[s] \in Nat /\ full[s] <= Len(Path[s]) /\ Len(Path[s]) \in Nat /\ hkv[s] \in Nat /\ hkv[s] <= full[s]
      /\ dev[s] = <<>> /\ kv[s] = 0 /\ host[s] \in Seq(HostBlocks) /\ hkv[s] <= Len(host[s])
      /\ \A i \in 1 .. Len(Path[s]) : Path[s][i] \in Keys
  <2>1. Shape(s)
    BY <1>3 DEF Shapes
  <2>2. full[s] <= Len(Path[s]) /\ Len(Path[s]) \in Nat /\ \A i \in 1 .. Len(Path[s]) : Path[s][i] \in Keys
    BY <1>3, PathFacts DEF SeqTypes
  <2> QED BY <1>2, <1>3, <2>1, <2>2 DEF Shape, SeqTypes
<1>5. IsMatch(s, DevBlocks, dcache, m)
  BY <1>3, <1>4, MatchFacts DEF TierTypes
<1>6. IsMatch(s, HostBlocks, hcache, Matched(s, hcache))
  BY <1>3, <1>4, MatchFacts DEF TierTypes
<1>7. ht \in Seq(HostBlocks) /\ hk \in Nat /\ hk <= full[s] /\ hk <= Len(ht)
  <2>1. CASE host[s] = <<>>
    <3> DEFINE x == Matched(s, hcache)
    <3>1. ht = x /\ hk = Len(x)
      BY <2>1
    <3> HIDE DEF x, ht, hk
    <3>2. x \in Seq(HostBlocks) /\ Len(x) \in 0 .. full[s]
      BY <1>6 DEF IsMatch, x
    <3> QED BY <1>4, <3>1, <3>2
  <2>2. CASE host[s] # <<>>
    BY <1>4, <2>2
  <2> QED BY <2>1, <2>2
\* The host tier.
<1>8. \A j \in 1 .. Len(ht) :
        \/ host[s] # <<>> /\ ht = host[s] /\ hk = hkv[s]
        \/ j <= hk /\ Path[s][j] \in DOMAIN hcache /\ ht[j] = hcache[Path[s][j]]
  <2>1. CASE host[s] = <<>>
    <3> DEFINE x == Matched(s, hcache)
    <3>1. ht = x /\ hk = Len(x)
      BY <2>1
    <3> HIDE DEF x, ht, hk
    <3> QED BY <1>6, <3>1 DEF IsMatch, x
  <2>2. CASE host[s] # <<>>
    BY <2>2
  <2> QED BY <2>1, <2>2
<1> HIDE DEF m, ht, hk
<1>9. m \in Seq(DevBlocks) /\ Len(m) \in Nat /\ Len(m) <= full[s]
      /\ \A i \in 1 .. Len(m) : Path[s][i] \in DOMAIN dcache /\ m[i] = dcache[Path[s][i]]
  BY <1>4, <1>5 DEF IsMatch
<1>10. n \in Nat /\ n >= 1 /\ n + Len(m) = full[s] + 1
  <2> DEFINE lm == Len(m)
             f == full[s]
  <2>1. lm \in Nat /\ f \in Nat /\ lm <= f
    BY <1>4, <1>9
  <2>2. n = f + 1 - lm
    OBVIOUS
  <2> HIDE DEF n, lm, f
  <2>3. n \in Nat /\ n >= 1 /\ n + lm = f + 1
    BY ONLY <2>1, <2>2
  <2> QED BY <2>3 DEF lm, f
<1> HIDE DEF n
<1>11. Allocated(n, DevBlocks, dcache, DevHeld \cup Range(m), a)
  BY <1>10, DevAllocated
<1>12. CacheLeft(DevBlocks, dcache, dcache')
  BY <1>1, <1>3, <1>11, CacheFacts DEF TierTypes
<1>13. CASE a.got = <<>>
  <2>1. /\ ResetHost(s) /\ status' = Unplaced(s) /\ dev' = dev /\ kv' = kv /\ loads' = loads
    BY <1>1, <1>13
  <2> QED BY <1>2, <1>12, <2>1, AllocateFails
<1>14. CASE a.got # <<>>
  <2> DEFINE tb == m \o a.got
             top == Max({Len(m), hk})
  <2>1. /\ dev' = [dev EXCEPT ![s] = tb] /\ kv' = [kv EXCEPT ![s] = top]
        /\ host' = [host EXCEPT ![s] = ht] /\ hkv' = [hkv EXCEPT ![s] = hk]
        /\ loads' = loads \cup LoadsFor(s, tb, Len(m), ht, hk)
        /\ status' = [status EXCEPT ![s] = IF LatencyAware THEN "placed" ELSE "prefill"]
    BY <1>1, <1>14
  <2>2. top = (IF Len(m) >= hk THEN Len(m) ELSE hk)
    <3>1. Len(m) \in Int /\ hk \in Int
      BY <1>7, <1>9
    <3> QED BY ONLY <3>1, MaxOfTwo DEF top
  <2>3. Grown(DevBlocks, m, DevHeld \cup Range(m), a, tb)
    BY <1>9, <1>11, GrownTable
  <2> HIDE DEF tb, top
  <2>4. Len(a.got) = n
    BY <1>11, <1>14 DEF Allocated
  <2>5. /\ tb \in Seq(DevBlocks) /\ Len(tb) = full[s] + 1
        /\ \A i \in 1 .. Len(m) : tb[i] = m[i]
        /\ \A j \in 1 .. Len(tb) : j > Len(m) =>
             /\ tb[j] \notin DevHeld /\ (\A k \in DOMAIN dcache' : dcache'[k] # tb[j])
             /\ \A i \in 1 .. Len(tb) : tb[i] = tb[j] => i = j
    <3>1. /\ tb \in Seq(DevBlocks) /\ Len(tb) = Len(m) + Len(a.got)
          /\ \A i \in 1 .. Len(m) : tb[i] = m[i]
          /\ \A j \in 1 .. Len(tb) : j > Len(m) =>
               /\ tb[j] \notin DevHeld \cup Range(m) /\ (\A k \in DOMAIN a.cache : a.cache[k] # tb[j])
               /\ \A i \in 1 .. Len(tb) : tb[i] = tb[j] => i = j
      BY <2>3 DEF Grown
    <3>2. Len(tb) = full[s] + 1
      BY ONLY <1>4, <1>9, <1>10, <2>4, <3>1
    <3> QED BY <1>1, <3>1, <3>2
  <2>6. top \in Nat /\ top <= full[s] /\ Len(m) <= top /\ hk <= top /\ (top = Len(m) \/ top = hk)
    BY <1>4, <1>7, <1>9, <2>2
  <2>7. /\ status'[s] \in {"placed", "prefill"} /\ dev'[s] = tb /\ kv'[s] = top /\ host'[s] = ht /\ hkv'[s] = hk
        /\ \A t \in Seqs \ {s} : /\ status'[t] = status[t] /\ dev'[t] = dev[t] /\ kv'[t] = kv[t]
                                 /\ host'[t] = host[t] /\ hkv'[t] = hkv[t]
    BY <1>3, <2>1 DEF SeqTypes
  <2>8. DataTypes' /\ DevAgrees /\ HostAgrees /\ store' = store
    BY <1>2, <1>3, ScrubFacts
  \* The loads.
  <2> DEFINE new == LoadsFor(s, tb, Len(m), ht, hk)
  <2>9. ASSUME NEW l \in new
        PROVE  \E i \in 1 .. Len(tb) :
                 /\ i > Len(m) /\ l.dst = tb[i] /\ l \in PairSet(HostBlocks, DevBlocks)
    <3>1. PICK i \in Len(m) + 1 .. hk : l = [src |-> ht[i], dst |-> tb[i], key |-> Path[s][i]]
      BY DEF LoadsFor
    <3>2. i \in 1 .. Len(tb) /\ i > Len(m) /\ i \in 1 .. Len(ht) /\ i \in 1 .. Len(Path[s])
      <4> DEFINE lm == Len(m)
                 lt == Len(tb)
                 lh == Len(ht)
                 lp == Len(Path[s])
                 f == full[s]
      <4>1. /\ lm \in Nat /\ lt \in Nat /\ lh \in Nat /\ lp \in Nat /\ f \in Nat /\ hk \in Nat
            /\ lt = f + 1 /\ hk <= f /\ hk <= lh /\ f <= lp /\ i \in lm + 1 .. hk
        BY <1>4, <1>7, <1>9, <2>5
      <4> HIDE DEF lm, lt, lh, lp, f
      <4>2. i \in 1 .. lt /\ i > lm /\ i \in 1 .. lh /\ i \in 1 .. lp
        BY ONLY <4>1
      <4> QED BY ONLY <4>2 DEF lm, lt, lh, lp
    <3>3. ht[i] \in HostBlocks /\ tb[i] \in DevBlocks /\ Path[s][i] \in Keys
      <4>1. Path[s][i] \in Keys
        BY ONLY <1>4, <3>2
      <4>2. ht[i] \in HostBlocks /\ tb[i] \in DevBlocks
        BY ONLY <1>7, <2>5, <3>2
      <4> QED BY <4>1, <4>2
    <3> QED BY <3>1, <3>2, <3>3 DEF PairSet
  <2>10. ASSUME NEW j \in 1 .. Len(tb), j > Len(m), j <= top
         PROVE  \E l \in new : l.dst = tb[j] /\ l.key = Path[s][j]
    <3>1. j \in Len(m) + 1 .. hk
      BY <1>7, <1>9, <2>5, <2>6, <2>10
    <3>2. [src |-> ht[j], dst |-> tb[j], key |-> Path[s][j]] \in new
      BY <3>1 DEF LoadsFor
    <3> QED BY <3>2
  <2> HIDE DEF new
  <2>11. Queue' = Queue \cup new /\ Pairs' = Pairs
    BY <1>2, <2>1, SamePairs DEF Queue, new
  <2>12. Types'
    <3>1. status' \in [Seqs -> {"new", "waiting", "placed", "prefill", "running", "decode", "gone"}]
      BY <1>3, <2>1 DEF SeqTypes
    <3>2. dev' \in [Seqs -> Seq(DevBlocks)] /\ host' \in [Seqs -> Seq(HostBlocks)]
      BY <1>3, <1>7, <2>1, <2>5 DEF SeqTypes
    <3>3. kv' \in [Seqs -> Nat] /\ hkv' \in [Seqs -> Nat]
      BY <1>3, <1>7, <2>1, <2>6 DEF SeqTypes
    <3>4. ASSUME NEW t \in Seqs PROVE kv'[t] <= Len(dev'[t]) /\ hkv'[t] <= Len(host'[t])
      <4>1. CASE t = s
        <5>1. top <= Len(tb)
          BY ONLY <1>4, <2>5, <2>6
        <5> QED BY <1>7, <2>7, <4>1, <5>1
      <4>2. CASE t # s
        BY <1>3, <2>7, <4>2 DEF SeqTypes
      <4> QED BY <4>1, <4>2
    <3>5. SeqTypes'
      BY <1>2, <1>3, <3>1, <3>2, <3>3, <3>4 DEF SeqTypes
    <3>6. new \subseteq PairSet(HostBlocks, DevBlocks)
      BY <2>9
    <3>7. TierTypes'
      BY <1>2, <1>3, <1>12, <2>1, <3>6 DEF TierTypes, CacheLeft, new
    <3> QED BY <1>2, <1>3, <2>8, <3>5, <3>7, SameFetchTypes, TypeParts
  <2>13. Batched'
    BY <1>2, <1>3 DEF Batched
  <2>14. Shapes'
    <3>1. \A t \in Seqs \ {s} : SameSeq(t) /\ task'[t] = task[t]
      BY <1>2, <2>7 DEF SameSeq, fetchVars
    <3>2. Shape(s)'
      BY <1>2, <1>7, <2>5, <2>6, <2>7 DEF Shape
    <3> QED BY <1>3, <3>1, <3>2, ShapesOfOne
  <2>15. Awaits' /\ Fetching'
    <3>1. \A t \in awaiting : t \in Seqs \ {s}
      BY <1>2, <1>3 DEF FetchTypes
    <3> QED BY <1>2, <2>7, <2>8, <2>12, <3>1, SameFetches
  <2>16. ASSUME NEW j \in 1 .. Len(tb), j > Len(m) PROVE DevFresh(s, j)
    <3>1. /\ tb[j] \notin DevHeld /\ (\A k \in DOMAIN dcache' : dcache'[k] # tb[j])
          /\ \A i \in 1 .. Len(tb) : tb[i] = tb[j] => i = j
      BY <2>5, <2>16
    <3>2. ASSUME NEW u \in Seqs, NEW i \in 1 .. Len(dev'[u]), dev'[u][i] = tb[j] PROVE u = s /\ i = j
      <4>1. CASE u = s
        BY <2>7, <3>1, <3>2, <4>1
      <4>2. CASE u # s
        <5>1. dev'[u] = dev[u]
          BY <2>7, <4>2
        <5>2. tb[j] \in DevHeld
          BY <1>3, <3>2, <5>1, TablesAreHeld
        <5> QED BY <3>1, <5>2
      <4> QED BY <4>1, <4>2
    <3>3. j <= top => \E l \in Queue' : l.dst = tb[j] /\ l.key = Path[s][j]
      BY <2>10, <2>11, <2>16
    <3> QED BY <2>7, <3>1, <3>2, <3>3 DEF DevFresh
  <2>17. DevStep
    <3>1. ASSUME NEW t \in Seqs, NEW j \in 1 .. Len(dev'[t])
          PROVE  DevKept(t, j) \/ DevHit(t, j) \/ DevFresh(t, j)
      <4>1. CASE t # s
        <5>1. dev'[t] = dev[t] /\ kv'[t] = kv[t] /\ Len(dev[t]) \in Nat
          BY <1>3, <2>7, <4>1 DEF SeqTypes
        <5> QED BY <5>1 DEF DevKept
      <4>2. CASE t = s /\ j > Len(m)
        BY <2>7, <2>16, <4>2
      <4>3. CASE t = s /\ ~(j > Len(m))
        <5>1. j \in 1 .. Len(m) /\ j <= top
          <6>1. j \in Nat /\ j >= 1
            BY <4>3
          <6> QED BY ONLY <1>9, <2>6, <4>3, <6>1
        <5>2. tb[j] = dcache[Path[s][j]] /\ Path[s][j] \in DOMAIN dcache
          BY <1>9, <2>5, <5>1
        <5> QED BY <2>7, <4>3, <5>1, <5>2 DEF DevHit
      <4> QED BY <4>1, <4>2, <4>3
    <3>2. \A l \in Queue' \ Queue : \E t \in Seqs : \E j \in 1 .. Len(dev'[t]) :
            DevFresh(t, j) /\ l.dst = dev'[t][j]
      <4>1. ASSUME NEW l \in Queue' \ Queue
            PROVE  \E t \in Seqs : \E j \in 1 .. Len(dev'[t]) : DevFresh(t, j) /\ l.dst = dev'[t][j]
        <5>1. l \in new
          BY <2>11
        <5>2. PICK i \in 1 .. Len(tb) : i > Len(m) /\ l.dst = tb[i]
          BY <2>9, <5>1
        <5>3. DevFresh(s, i)
          BY <2>16, <5>2
        <5> QED BY <2>7, <5>2, <5>3
      <4> QED BY <4>1
    <3> QED BY <1>12, <2>8, <2>11, <3>1, <3>2 DEF DevStep, DevAgrees, CacheLeft
  <2>18. HostStep
    <3>1. ASSUME NEW t \in Seqs, NEW j \in 1 .. Len(host'[t]) PROVE HostKept(t, j) \/ HostHit(t, j)
      <4>1. CASE host'[t] = host[t] /\ hkv'[t] = hkv[t]
        <5>1. Len(host[t]) \in Nat
          BY <1>3 DEF SeqTypes
        <5> QED BY <4>1, <5>1 DEF HostKept
      <4>2. CASE ~(host'[t] = host[t] /\ hkv'[t] = hkv[t])
        <5>1. t = s /\ j \in 1 .. Len(ht)
          BY <2>7, <4>2
        <5>2. j <= hk /\ Path[s][j] \in DOMAIN hcache /\ ht[j] = hcache[Path[s][j]]
          BY <1>8, <2>7, <4>2, <5>1
        <5> QED BY <2>7, <5>1, <5>2 DEF HostHit
      <4> QED BY <4>1, <4>2
    <3> QED BY <1>2, <2>8, <3>1 DEF HostStep, HostAgrees
  <2> QED BY <2>12, <2>13, <2>14, <2>15, <2>17, <2>18, IInvAfterStep
<1> QED BY <1>13, <1>14

-----------------------------------------------------------------------------
\* Giving the blocks of a sequence back.

\* An open block has one reference, also once the complete blocks are cached.
LEMMA OneReference ==
    ASSUME IInv, NEW s \in Seqs, NEW cache, CacheLeft(DevBlocks, dcache, cache),
           NEW i \in kv[s] + 1 .. Len(dev[s])
    PROVE  DevRefs(dev[s][i], dev, DevCached(s, cache)) = 1
<1> DEFINE b == dev[s][i]
           dc == DevCached(s, cache)
<1>1. Types /\ SeqTypes /\ DevOwn
  BY TypeParts DEF IInv
<1>0. dc = DevCached(s, cache) /\ CachedOf(s, cache, dc)
  BY DevCachedFacts
<1> HIDE DEF dc
<1>2. kv[s] \in Nat /\ Len(dev[s]) \in Nat /\ i \in 1 .. Len(dev[s]) /\ ~(i <= kv[s]) /\ dev[s] \in Seq(DevBlocks)
      /\ kv[s] <= Len(dev[s])
  <2>1. kv[s] \in Nat /\ Len(dev[s]) \in Nat /\ dev[s] \in Seq(DevBlocks) /\ kv[s] <= Len(dev[s])
    BY <1>1 DEF SeqTypes
  <2> QED BY <2>1
<1>3. /\ \A t \in Seqs : \A j \in 1 .. Len(dev[t]) : b = dev[t][j] => s = t /\ i = j
      /\ \A k \in DOMAIN dcache : dcache[k] # b
      /\ \A p \in Pairs : p.src # b
  BY <1>1 DEF DevOwn
<1>4. {t \in Seqs : b \in Range(dev[t])} = {s}
  <2>1. b \in Range(dev[s])
    BY <1>2 DEF Range
  <2>2. ASSUME NEW t \in Seqs, b \in Range(dev[t]) PROVE t = s
    <3>1. dev[t] \in Seq(DevBlocks)
      BY <1>1 DEF SeqTypes
    <3>2. PICK j \in 1 .. Len(dev[t]) : dev[t][j] = b
      BY <2>2, <3>1 DEF Range
    <3> QED BY <1>3, <3>2
  <2> QED BY <2>1, <2>2
<1>5. {k \in DOMAIN dc : dc[k] = b} = {}
  <2>1. ASSUME NEW k \in DOMAIN dc, dc[k] = b PROVE FALSE
    <3>1. \/ k \in DOMAIN cache /\ dc[k] = cache[k]
          \/ \E j \in 1 .. kv[s] : Path[s][j] = k /\ dc[k] = dev[s][j]
      BY <1>0 DEF CachedOf
    <3>2. CASE k \in DOMAIN cache /\ dc[k] = cache[k]
      BY <1>3, <2>1, <3>2 DEF CacheLeft
    <3>3. CASE \E j \in 1 .. kv[s] : Path[s][j] = k /\ dc[k] = dev[s][j]
      <4> HIDE DEF b
      <4>1. PICK j \in 1 .. kv[s] : dc[k] = dev[s][j]
        BY <3>3
      <4>2. j \in 1 .. Len(dev[s]) /\ j # i
        BY <1>2
      <4> QED BY <1>3, <2>1, <4>1, <4>2
    <3> QED BY <3>1, <3>2, <3>3
  <2> QED BY <2>1
<1>6. {p \in Pairs : p.src = b} = {}
  BY <1>3
<1>7. /\ Cardinality({t \in Seqs : b \in Range(dev[t])}) = 1
      /\ Cardinality({k \in DOMAIN dc : dc[k] = b}) = 0
      /\ Cardinality({p \in Pairs : p.src = b}) = 0
  BY <1>4, <1>5, <1>6, FS_EmptySet, FS_Singleton
<1> QED BY <1>0, <1>7 DEF DevRefs

\* A pair that an offload of the blocks of s queues: a complete block, and a
\* host block that nothing but s refers to.
OffloadPair(s, p) ==
    /\ p \in PairSet(DevBlocks, HostBlocks)
    /\ \E i \in 1 .. kv[s] : p.src = dev[s][i] /\ p.key = Path[s][i]
    /\ \A t \in Seqs \ {s} : \A j \in 1 .. Len(host[t]) : host[t][j] # p.dst
    /\ \A k \in DOMAIN hcache' : hcache'[k] # p.dst
    /\ \A q \in Pairs : q.dst # p.dst

\* The blocks of the host tier that receive them: open ones of s, then new ones.
HostTarget(s, cache, hb, i) ==
    /\ hb[i] \in HostBlocks /\ i \in Nat /\ i >= 1
    /\ \A t \in Seqs \ {s} : \A j \in 1 .. Len(host[t]) : host[t][j] # hb[i]
    /\ \A k \in DOMAIN cache : cache[k] # hb[i]
    /\ \A q \in Pairs : q.dst # hb[i]
    /\ \A j \in hkv[s] + 1 .. Len(hb) : hb[i] = hb[j] => i = j

\* Every position beyond the count of the host table is such a target.
LEMMA OffloadTargets ==
    ASSUME IInv, NEW s \in Seqs, NEW n \in Nat, NEW a, NEW hb,
           Allocated(n, HostBlocks, hcache, HostHeld, a), Grown(HostBlocks, host[s], HostHeld, a, hb),
           NEW i \in hkv[s] + 1 .. Len(hb)
    PROVE  Len(hb) \in {Len(host[s]), Len(host[s]) + n} /\ HostTarget(s, a.cache, hb, i)
<1> DEFINE lh == Len(host[s])
           lb == Len(hb)
           hk == hkv[s]
<1>1. Types /\ SeqTypes /\ HostOwn
  BY TypeParts DEF IInv
<1>2. i \in hk + 1 .. lb
  OBVIOUS
<1>17. hb \in Seq(HostBlocks)
  BY DEF Grown
<1>18. Len(hb) \in Nat /\ \A j \in 1 .. Len(hb) : hb[j] \in HostBlocks
  BY ONLY <1>17
<1>3. lb = lh + Len(a.got) /\ Len(a.got) \in Nat /\ hb \in Seq(HostBlocks) /\ lb \in Nat
  BY <1>17, <1>18 DEF Grown
<1>4. \A j \in 1 .. lh : hb[j] = host[s][j]
  BY DEF Grown
<1>5. hk \in Nat /\ hk <= lh /\ lh \in Nat
  BY <1>1 DEF SeqTypes
<1>6. \A j \in 1 .. lb : j > lh =>
           /\ hb[j] \notin HostHeld /\ (\A k \in DOMAIN a.cache : a.cache[k] # hb[j])
           /\ \A m \in 1 .. lb : hb[m] = hb[j] => m = j
  BY DEF Grown
<1>7. \A j \in 1 .. lb : hb[j] \in HostBlocks
  BY ONLY <1>18
<1>8. a.got = <<>> \/ Len(a.got) = n
  BY DEF Allocated
<1>9. lb \in {lh, lh + n}
  <2>1. CASE a.got = <<>>
    <3>1. Len(a.got) = 0
      BY <2>1
    <3> HIDE DEF lh, lb
    <3> QED BY ONLY <1>3, <1>5, <3>1
  <2>2. CASE Len(a.got) = n
    BY <1>3, <2>2
  <2> QED BY <1>8, <2>1, <2>2
<1>10. \A j \in hk + 1 .. lh :
         /\ \A t \in Seqs : \A m \in 1 .. Len(host[t]) : host[s][j] = host[t][m] => s = t /\ j = m
         /\ \A k \in DOMAIN hcache : hcache[k] # host[s][j]
  BY <1>1 DEF HostOwn
<1>11. \A q \in Pairs : \A m \in 1 .. lh : host[s][m] # q.dst
  BY <1>1 DEF HostOwn
<1>12. \A t \in Seqs : \A j \in 1 .. Len(host[t]) : host[t][j] \in HostHeld
  BY <1>1, TablesAreHeld
<1> HIDE DEF lh, lb, hk
<1>13. \A j \in hk + 1 .. lb : j \in Nat /\ j \in 1 .. lb /\ (j > lh \/ j \in hk + 1 .. lh)
  BY ONLY <1>3, <1>5
<1>14. \A j \in hk + 1 .. lh : j \in 1 .. lh
  BY ONLY <1>5
<1>15. CASE i > lh
  <2>1. /\ hb[i] \notin HostHeld /\ (\A k \in DOMAIN a.cache : a.cache[k] # hb[i])
        /\ \A m \in 1 .. lb : hb[m] = hb[i] => m = i
    BY <1>2, <1>6, <1>13, <1>15
  <2>2. \A t \in Seqs \ {s} : \A j \in 1 .. Len(host[t]) : host[t][j] # hb[i]
    BY <1>12, <2>1
  <2>3. \A q \in Pairs : q.dst # hb[i]
    BY <2>1 DEF HostHeld
  <2>4. \A j \in hk + 1 .. lb : hb[i] = hb[j] => i = j
    BY <1>13, <2>1
  <2> QED BY <2>1, <2>2, <2>3, <2>4, <1>2, <1>7, <1>9, <1>13 DEF lh, lb, hk, HostTarget
<1>16. CASE i \in hk + 1 .. lh
  <2>1. hb[i] = host[s][i] /\ i \in 1 .. lh
    BY <1>4, <1>14, <1>16
  <2>2. /\ \A t \in Seqs : \A j \in 1 .. Len(host[t]) : host[s][i] = host[t][j] => s = t /\ i = j
        /\ \A k \in DOMAIN hcache : hcache[k] # host[s][i]
    BY <1>10, <1>16
  <2>3. \A t \in Seqs \ {s} : \A j \in 1 .. Len(host[t]) : host[t][j] # hb[i]
    BY <2>1, <2>2
  <2>4. \A k \in DOMAIN a.cache : a.cache[k] # hb[i]
    BY <2>1, <2>2 DEF Allocated
  <2>5. \A q \in Pairs : q.dst # hb[i]
    BY <1>11, <2>1
  <2>6. ASSUME NEW j \in hk + 1 .. lb, hb[i] = hb[j] PROVE i = j
    <3>1. CASE j > lh
      <4>1. j \in 1 .. lb /\ i \in 1 .. lb
        BY <1>2, <1>13
      <4> QED BY <1>6, <2>6, <3>1, <4>1
    <3>2. CASE j \in hk + 1 .. lh
      <4>1. hb[j] = host[s][j] /\ j \in 1 .. lh
        BY <1>4, <1>14, <3>2
      <4> QED BY <2>1, <2>2, <2>6, <4>1 DEF lh
    <3> QED BY <1>13, <3>1, <3>2
  <2> QED BY <2>1, <2>3, <2>4, <2>5, <2>6, <1>2, <1>7, <1>9, <1>13 DEF lh, lb, hk, HostTarget
<1> QED BY <1>2, <1>13, <1>15, <1>16

\* What deallocate leaves: no table of s, its complete blocks in the device
\* cache, and pairs that an offload of them may use.
Returned(s, cache) ==
    /\ dev' = [dev EXCEPT ![s] = <<>>] /\ kv' = [kv EXCEPT ![s] = 0] /\ ResetHost(s)
    /\ dcache' = DevCached(s, cache) /\ CacheLeft(HostBlocks, hcache, hcache')
    /\ offq \subseteq offq'
    /\ \A p \in offq' \ offq : OffloadPair(s, p)
    /\ \A p, q \in offq' \ offq : p.dst = q.dst => p = q

\* A block that is queued for the host tier is complete: an open one has one
\* reference, and a complete one two, the table's and the cache's.
LEMMA DeallocateFacts ==
    ASSUME IInv, NEW s \in Seqs, NEW cache, CacheLeft(DevBlocks, dcache, cache), Deallocate(s, cache)
    PROVE  Returned(s, cache)
<1> DEFINE dc == DevCached(s, cache)
           offload == Len(host[s]) < Len(dev[s])
           needed == IF offload THEN Max({kv[s] - Len(host[s]), 0}) ELSE 0
           Hb(a) == host[s] \o a.got
           Moved(hb) == {i \in hkv[s] + 1 .. Len(hb) : DevRefs(dev[s][i], dev, dc) = 2}
           Pair(hb, i) == [src |-> dev[s][i], dst |-> hb[i], key |-> Path[s][i]]
           New(hb) == {Pair(hb, i) : i \in Moved(hb)}
<1>1. PICK a \in HostAllocations(needed, {}) :
        /\ dcache' = dc /\ hcache' = a.cache
        /\ offq' = IF offload THEN offq \cup New(Hb(a)) ELSE offq
        /\ dev' = [dev EXCEPT ![s] = <<>>] /\ kv' = [kv EXCEPT ![s] = 0] /\ ResetHost(s)
  BY Zenon DEF Deallocate
<1>2. Types /\ SeqTypes /\ TierTypes /\ Shape(s)
  BY TypeParts DEF IInv, Shapes
<1>3. /\ kv[s] \in Nat /\ Len(dev[s]) \in Nat /\ Len(host[s]) \in Nat /\ hkv[s] \in Nat
      /\ kv[s] <= Len(dev[s]) /\ kv[s] <= full[s] /\ full[s] <= Len(Path[s]) /\ full[s] \in Nat
      /\ dev[s] \in Seq(DevBlocks) /\ host[s] \in Seq(HostBlocks)
  BY <1>2 DEF SeqTypes, Shape
<1>4. /\ needed \in Nat
      /\ offload => Len(host[s]) + needed <= Len(dev[s])
  <2> DEFINE d == kv[s] - Len(host[s])
  <2>1. d \in Int
    BY <1>3
  <2>2. Max({d, 0}) = IF d >= 0 THEN d ELSE 0
    BY <2>1, MaxOfTwo
  <2>3. needed = IF offload THEN (IF d >= 0 THEN d ELSE 0) ELSE 0
    BY <2>2
  <2> HIDE DEF needed
  <2> QED BY <1>3, <2>3
<1>5. Allocated(needed, HostBlocks, hcache, HostHeld, a)
  <2>1. HostHeld \cup {} = HostHeld
    OBVIOUS
  <2>2. Allocated(needed, HostBlocks, hcache, HostHeld \cup {}, a)
    BY <1>4, HostAllocated
  <2> QED BY <2>1, <2>2
<1>6. Range(host[s]) \subseteq HostHeld
  BY <1>2, TablesAreHeld
<1>7. PICK hb : hb = Hb(a) /\ Grown(HostBlocks, host[s], HostHeld, a, hb)
  BY <1>3, <1>5, <1>6, GrownTable
<1>8. offq' = IF offload THEN offq \cup New(hb) ELSE offq
  BY <1>1, <1>7
<1>9. CacheLeft(HostBlocks, hcache, hcache')
  BY <1>1, <1>2, <1>5, CacheFacts DEF TierTypes
<1> HIDE DEF needed
<1>10. ASSUME offload, NEW i \in Moved(hb)
       PROVE  HostTarget(s, hcache', hb, i) /\ i \in 1 .. kv[s] /\ i \in hkv[s] + 1 .. Len(hb)
  <2>1. i \in hkv[s] + 1 .. Len(hb) /\ DevRefs(dev[s][i], dev, dc) = 2
    OBVIOUS
  <2>2. Len(hb) \in {Len(host[s]), Len(host[s]) + needed} /\ HostTarget(s, hcache', hb, i)
    BY <1>1, <1>4, <1>5, <1>7, <2>1, OffloadTargets
  <2>3. i \in Nat /\ i >= 1
    BY <2>2 DEF HostTarget
  <2>4. i \in 1 .. Len(dev[s])
    BY ONLY <1>3, <1>4, <1>10, <2>1, <2>2, <2>3
  <2>5. i \notin kv[s] + 1 .. Len(dev[s])
    BY <2>1, OneReference
  <2> QED BY <1>3, <2>1, <2>2, <2>3, <2>4, <2>5
<1>11. ASSUME offload, NEW p \in New(hb) PROVE OffloadPair(s, p)
  <2>1. PICK i \in Moved(hb) : p = Pair(hb, i)
    OBVIOUS
  <2>2. HostTarget(s, hcache', hb, i) /\ i \in 1 .. kv[s]
    BY <1>10, <1>11
  <2>3. p.src = dev[s][i] /\ p.dst = hb[i] /\ p.key = Path[s][i] /\ p = [src |-> dev[s][i], dst |-> hb[i], key |-> Path[s][i]]
    BY <2>1
  <2>4. dev[s][i] \in DevBlocks
    BY <1>3, <2>2
  <2>5. Path[s][i] \in Keys
    <3>1. Len(Path[s]) \in Nat /\ \A j \in 1 .. Len(Path[s]) : Path[s][j] \in Keys
      BY PathFacts
    <3> QED BY <1>3, <2>2, <3>1
  <2>6. p \in PairSet(DevBlocks, HostBlocks)
    BY <2>2, <2>3, <2>4, <2>5 DEF PairSet, HostTarget
  <2> QED BY <2>2, <2>3, <2>6 DEF OffloadPair, HostTarget
<1>12. ASSUME offload, NEW p \in New(hb), NEW q \in New(hb), p.dst = q.dst PROVE p = q
  <2>1. PICK i \in Moved(hb) : p = Pair(hb, i)
    OBVIOUS
  <2>2. PICK j \in Moved(hb) : q = Pair(hb, j)
    OBVIOUS
  <2>3. hb[i] = hb[j]
    BY <1>12, <2>1, <2>2
  <2>4. i = j
    BY <1>10, <1>12, <2>3 DEF HostTarget
  <2> QED BY <2>1, <2>2, <2>4
<1> HIDE DEF New, Moved, Pair, dc
<1>13. /\ offq \subseteq offq'
       /\ \A p \in offq' \ offq : offload /\ p \in New(hb)
  BY <1>8
<1> QED BY <1>1, <1>9, <1>11, <1>12, <1>13 DEF Returned, dc

\* Complete blocks enter a cache that may have been evicted from.
LEMMA CachedEntries ==
    ASSUME IInv, NEW s \in Seqs, NEW cache, CacheLeft(DevBlocks, dcache, cache), NEW dc, dc = DevCached(s, cache)
    PROVE  /\ dc \in [DOMAIN dc -> DevBlocks] /\ DOMAIN dc \subseteq Keys
           /\ \A k \in DOMAIN dc : (k \in DOMAIN dcache /\ dc[k] = dcache[k]) \/ DevCounted(dc[k], k)
<1>1. CachedOf(s, cache, dc)
  BY DevCachedFacts
<1>2. SeqTypes /\ Shape(s)
  BY TypeParts DEF IInv, Shapes
<1>3. /\ kv[s] \in Nat /\ Len(dev[s]) \in Nat /\ kv[s] <= Len(dev[s]) /\ kv[s] <= full[s]
      /\ full[s] <= Len(Path[s]) /\ full[s] \in Nat /\ dev[s] \in Seq(DevBlocks)
  BY <1>2 DEF SeqTypes, Shape
<1>4. Len(Path[s]) \in Nat /\ \A j \in 1 .. Len(Path[s]) : Path[s][j] \in Keys
  BY PathFacts
<1>5. ASSUME NEW i \in 1 .. kv[s] PROVE dev[s][i] \in DevBlocks /\ Path[s][i] \in Keys
  <2>1. i \in 1 .. Len(dev[s]) /\ i \in 1 .. Len(Path[s])
    BY <1>3, <1>4
  <2> QED BY <1>3, <1>4, <2>1
<1>6. ASSUME NEW k \in DOMAIN dc
      PROVE  /\ dc[k] \in DevBlocks /\ k \in Keys
             /\ (k \in DOMAIN dcache /\ dc[k] = dcache[k]) \/ DevCounted(dc[k], k)
  <2>1. CASE k \in DOMAIN cache /\ dc[k] = cache[k]
    BY <2>1 DEF CacheLeft
  <2>2. CASE \E i \in 1 .. kv[s] : Path[s][i] = k /\ dc[k] = dev[s][i]
    BY <1>5, <2>2 DEF DevCounted
  <2> QED BY <1>1, <2>1, <2>2 DEF CachedOf
<1>7. dc = [k \in DOMAIN dc |-> dc[k]]
  BY <1>1 DEF CachedOf
<1> QED BY <1>6, <1>7

\* A sequence gives its blocks back: it waits again or is gone.
LEMMA ReturnKeepsIInv ==
    ASSUME IInv, NEW s \in Seqs, NEW cache, CacheLeft(DevBlocks, dcache, cache), Returned(s, cache),
           NEW x \in {"waiting", "gone"}, status' = [status EXCEPT ![s] = x], status[s] # "new",
           UNCHANGED <<pc, full, task, loads, copying, flying>>, Scrub,
           FetchTypes', s \notin awaiting', Awaited(s)', \A t \in Seqs \ {s} : SameStreams(t)
    PROVE  IInv'
<1>1. /\ Types /\ Batched /\ Shapes /\ Awaits /\ HostOwn
      /\ SeqTypes /\ FetchTypes /\ TierTypes /\ DataTypes
  BY TypeParts DEF IInv
<1>2. /\ dev' = [dev EXCEPT ![s] = <<>>] /\ kv' = [kv EXCEPT ![s] = 0] /\ ResetHost(s)
      /\ CacheLeft(HostBlocks, hcache, hcache') /\ offq \subseteq offq'
  BY DEF Returned
<1>3. \A p \in offq' \ offq : OffloadPair(s, p)
  BY DEF Returned
<1>4. \A p, q \in offq' \ offq : p.dst = q.dst => p = q
  BY DEF Returned
<1>5. /\ dcache' \in [DOMAIN dcache' -> DevBlocks] /\ DOMAIN dcache' \subseteq Keys
      /\ \A k \in DOMAIN dcache' : (k \in DOMAIN dcache /\ dcache'[k] = dcache[k]) \/ DevCounted(dcache'[k], k)
  <2>1. dcache' = DevCached(s, cache)
    BY DEF Returned
  <2> QED BY <2>1, CachedEntries
<1>6. /\ host' \in [Seqs -> Seq(HostBlocks)] /\ hkv' \in [Seqs -> Nat]
      /\ host'[s] = <<>> /\ hkv'[s] = 0
      /\ \A t \in Seqs \ {s} : host'[t] = host[t] /\ hkv'[t] = hkv[t]
      /\ \A t \in Seqs : hkv'[t] <= Len(host'[t])
  BY <1>1, <1>2, ResetHostFacts
<1>7. /\ dev' \in [Seqs -> Seq(DevBlocks)] /\ kv' \in [Seqs -> Nat] /\ dev'[s] = <<>> /\ kv'[s] = 0
      /\ \A t \in Seqs \ {s} : dev'[t] = dev[t] /\ kv'[t] = kv[t]
      /\ \A t \in Seqs : kv'[t] <= Len(dev'[t])
  <2>1. /\ dev \in [Seqs -> Seq(DevBlocks)] /\ kv \in [Seqs -> Nat] /\ \A t \in Seqs : kv[t] <= Len(dev[t])
    BY <1>1 DEF SeqTypes
  <2>2. /\ dev'[s] = <<>> /\ kv'[s] = 0 /\ \A t \in Seqs \ {s} : dev'[t] = dev[t] /\ kv'[t] = kv[t]
    BY <1>2, <2>1
  <2>3. kv'[s] <= Len(dev'[s])
    BY <2>2
  <2>4. \A t \in Seqs : kv'[t] <= Len(dev'[t])
    BY <2>1, <2>2, <2>3
  <2>5. dev' \in [Seqs -> Seq(DevBlocks)] /\ kv' \in [Seqs -> Nat]
    BY <1>2, <2>1
  <2> QED BY <2>2, <2>4, <2>5
<1>8. status'[s] = x /\ \A t \in Seqs \ {s} : status'[t] = status[t]
  BY <1>1 DEF SeqTypes
<1>9. DataTypes' /\ DevAgrees /\ HostAgrees /\ store' = store
  BY <1>1, ScrubFacts
<1>10. Types'
  <2>1. status' \in [Seqs -> {"new", "waiting", "placed", "prefill", "running", "decode", "gone"}]
    BY <1>1 DEF SeqTypes
  <2>2. SeqTypes'
    BY <1>1, <1>6, <1>7, <2>1 DEF SeqTypes
  <2>3. offq' \subseteq PairSet(DevBlocks, HostBlocks)
    BY <1>1, <1>3 DEF OffloadPair, TierTypes
  <2>4. TierTypes'
    BY <1>1, <1>2, <1>5, <2>3 DEF TierTypes, CacheLeft
  <2> QED BY <1>9, <2>2, <2>4, TypeParts
<1>11. Batched'
  <2>1. \A t \in Seqs : status'[t] = "placed" => status[t] = "placed"
    BY <1>8
  <2> QED BY <1>1, <2>1 DEF Batched
<1>12. \A t \in Seqs \ {s} : SameSeq(t) /\ task'[t] = task[t]
  BY <1>6, <1>7, <1>8 DEF SameSeq
<1>13. Shapes'
  <2>1. full[s] \in Nat
    BY <1>1 DEF SeqTypes
  <2>2. Shape(s)'
    BY <1>6, <1>7, <1>8, <2>1 DEF Shape
  <2> QED BY <1>1, <1>12, <2>2, ShapesOfOne
<1>14. Awaits' /\ Fetching'
  BY <1>9, <1>10, <1>12, FetchesOfOne
<1>15. Pairs' = Pairs \cup (offq' \ offq) /\ Queue' = Queue
  BY <1>2 DEF Pairs, Queue
<1>16. DevStep
  <2>1. ASSUME NEW t \in Seqs, NEW j \in 1 .. Len(dev'[t]) PROVE DevKept(t, j)
    <3>1. t # s
      BY <1>7
    <3>2. dev'[t] = dev[t] /\ kv'[t] = kv[t] /\ Len(dev[t]) \in Nat
      BY <1>1, <1>7, <3>1 DEF SeqTypes
    <3> QED BY <3>2 DEF DevKept
  <2>2. ASSUME NEW p \in Pairs' PROVE p \in Pairs \/ DevCounted(p.src, p.key)
    BY <1>3, <1>15 DEF OffloadPair, DevCounted
  <2> QED BY <1>5, <1>9, <1>15, <2>1, <2>2 DEF DevStep, DevAgrees
<1>17. HostStep
  <2>1. ASSUME NEW t \in Seqs, NEW j \in 1 .. Len(host'[t]) PROVE HostKept(t, j)
    <3>1. t # s
      BY <1>6
    <3>2. host'[t] = host[t] /\ hkv'[t] = hkv[t] /\ Len(host[t]) \in Nat
      BY <1>1, <1>6, <3>1 DEF SeqTypes
    <3> QED BY <3>2 DEF HostKept
  <2>2. ASSUME NEW p \in offq' \ offq PROVE p \notin Pairs /\ NewTarget(p)
    <3>1. OffloadPair(s, p)
      BY <1>3
    <3>2. p \notin Pairs
      BY <3>1 DEF OffloadPair
    <3>3. \A t \in Seqs : \A j \in 1 .. Len(host'[t]) : host'[t][j] # p.dst
      <4>1. ASSUME NEW t \in Seqs, NEW j \in 1 .. Len(host'[t]) PROVE host'[t][j] # p.dst
        <5>1. t # s
          BY <1>6
        <5> QED BY <1>6, <3>1, <5>1 DEF OffloadPair
      <4> QED BY <4>1
    <3>4. \A q \in Pairs' : q.dst = p.dst => q = p
      BY <1>4, <1>15, <3>1 DEF OffloadPair
    <3> QED BY <3>1, <3>2, <3>3, <3>4 DEF NewTarget, OffloadPair
  <2> QED BY <1>2, <1>9, <2>1, <2>2 DEF HostStep, HostAgrees, CacheLeft
<1> QED BY <1>10, <1>11, <1>13, <1>14, <1>16, <1>17, IInvAfterStep

\* Without a step of its prefetch, and not waiting, a sequence is not awaited.
LEMMA NotAwaited ==
    ASSUME IInv, NEW s \in Seqs, status[s] # "waiting", UNCHANGED fetchVars
    PROVE  FetchTypes' /\ s \notin awaiting' /\ Awaited(s)' /\ \A t \in Seqs \ {s} : SameStreams(t)
<1>1. FetchTypes /\ Awaited(s)
  BY TypeParts DEF IInv, Awaits
<1>2. FetchTypes'
  BY <1>1, SameFetchTypes
<1>3. UNCHANGED <<awaiting, flag, result, task, stream, client, faulty>>
  BY DEF fetchVars
<1>4. s \notin awaiting
  BY <1>1 DEF Awaited
<1>5. Open(s)' = Open(s)
  BY <1>3 DEF Open
<1>6. Awaited(s)'
  BY <1>1, <1>3, <1>4, <1>5 DEF Awaited
<1>7. \A t \in Seqs \ {s} : SameStreams(t)
  BY <1>3 DEF SameStreams
<1> QED BY <1>2, <1>3, <1>4, <1>6, <1>7

\* The device cache as it is.
LEMMA WholeCache ==
    ASSUME IInv
    PROVE  CacheLeft(DevBlocks, dcache, dcache)
BY TypeParts DEF IInv, TierTypes, CacheLeft

\* The latency check turns a placed request away; its loads stay queued.
LEMMA AbandonKeepsIInv ==
    ASSUME IInv, NEW s \in Seqs, Abandon(s)
    PROVE  IInv'
<1>1. /\ status[s] = "placed" /\ Deallocate(s, dcache) /\ status' = Unplaced(s) /\ Scrub
      /\ UNCHANGED fetchVars /\ UNCHANGED <<pc, full, loads, copying, flying>>
  BY DEF Abandon
<1>2. task' = task
  BY <1>1 DEF fetchVars
<1>3. PICK x \in {"waiting", "gone"} : status' = [status EXCEPT ![s] = x]
  BY <1>1 DEF Unplaced
<1>4. PICK cache : cache = dcache
  OBVIOUS
<1>5. CacheLeft(DevBlocks, dcache, cache) /\ Deallocate(s, cache)
  BY <1>1, <1>4, WholeCache
<1>6. Returned(s, cache)
  BY <1>5, DeallocateFacts
<1>7. FetchTypes' /\ s \notin awaiting' /\ Awaited(s)' /\ \A t \in Seqs \ {s} : SameStreams(t)
  BY <1>1, NotAwaited
<1> QED BY <1>1, <1>2, <1>3, <1>5, <1>6, <1>7, ReturnKeepsIInv

\* A finished sequence gives its blocks back.
LEMMA FinishKeepsIInv ==
    ASSUME IInv, NEW s \in Seqs, Finish(s)
    PROVE  IInv'
<1>1. /\ status[s] = "running" /\ Deallocate(s, dcache) /\ status' = [status EXCEPT ![s] = "gone"] /\ Scrub
      /\ UNCHANGED fetchVars /\ UNCHANGED <<pc, full, loads, copying, flying>>
  BY DEF Finish
<1>2. task' = task
  BY <1>1 DEF fetchVars
<1>3. PICK cache : cache = dcache
  OBVIOUS
<1>4. CacheLeft(DevBlocks, dcache, cache) /\ Deallocate(s, cache)
  BY <1>1, <1>3, WholeCache
<1>5. Returned(s, cache)
  BY <1>4, DeallocateFacts
<1>6. FetchTypes' /\ s \notin awaiting' /\ Awaited(s)' /\ \A t \in Seqs \ {s} : SameStreams(t)
  BY <1>1, NotAwaited
<1> QED BY <1>1, <1>2, <1>4, <1>5, <1>6, ReturnKeepsIInv

\* A waiting request is cancelled; its prefetch goes on unobserved.
LEMMA CancelKeepsIInv ==
    ASSUME IInv, NEW s \in Seqs, Cancel(s)
    PROVE  IInv'
<1>1. /\ status[s] = "waiting" /\ Deallocate(s, dcache) /\ status' = [status EXCEPT ![s] = "gone"] /\ Scrub
      /\ StopWaiting(s) /\ UNCHANGED <<pc, full, task, faulty, loads, copying, flying>>
  BY DEF Cancel
<1>2. PICK cache : cache = dcache
  OBVIOUS
<1>3. CacheLeft(DevBlocks, dcache, cache) /\ Deallocate(s, cache)
  BY <1>1, <1>2, WholeCache
<1>4. Returned(s, cache)
  BY <1>3, DeallocateFacts
<1>5. FetchTypes
  BY TypeParts DEF IInv
<1>6. FetchTypes' /\ s \notin awaiting' /\ Awaited(s)' /\ \A t \in Seqs \ {s} : SameStreams(t)
  BY <1>1, <1>5, StopWaitingFacts
<1> QED BY <1>1, <1>3, <1>4, <1>6, ReturnKeepsIInv

\* A running sequence is preempted: its blocks go to a cache that evicting has
\* emptied of idle blocks.
LEMMA PreemptKeepsIInv ==
    ASSUME IInv, NEW v \in Seqs, status[v] = "running", NEW cache, CacheLeft(DevBlocks, dcache, cache),
           Deallocate(v, cache), status' = [status EXCEPT ![v] = "waiting"], Scrub,
           UNCHANGED fetchVars, UNCHANGED <<pc, full, loads, copying, flying>>
    PROVE  IInv'
<1>1. task' = task
  BY DEF fetchVars
<1>2. Returned(v, cache)
  BY DeallocateFacts
<1>3. FetchTypes' /\ v \notin awaiting' /\ Awaited(v)' /\ \A t \in Seqs \ {v} : SameStreams(t)
  BY NotAwaited
<1> QED BY <1>1, <1>2, <1>3, ReturnKeepsIInv

\* A running sequence gets the block of its next tokens.
LEMMA DecodeGrows ==
    ASSUME IInv, NEW s \in Seqs, status[s] = "running", full[s] < Len(Path[s]), pc = "build",
           NEW a, Allocated(1, DevBlocks, dcache, DevHeld, a), a.got # <<>>,
           NEW tb, Grown(DevBlocks, dev[s], DevHeld, a, tb), dev' = [dev EXCEPT ![s] = tb],
           dcache' = DevCached(s, a.cache), status' = [status EXCEPT ![s] = "decode"],
           UNCHANGED <<kv, host, hkv, hcache, offq, pc, full, loads, copying, flying>>,
           UNCHANGED fetchVars, Scrub
    PROVE  IInv'
<1> DEFINE ld == Len(dev[s])
           lt == Len(tb)
<1>1. /\ Batched /\ Shapes /\ Awaits /\ Shape(s)
      /\ SeqTypes /\ FetchTypes /\ TierTypes /\ DataTypes
  BY TypeParts DEF IInv, Shapes
<1>2. /\ kv[s] \in Nat /\ ld \in Nat /\ kv[s] <= ld /\ full[s] \in Nat /\ ld = full[s] + 1 /\ kv[s] = full[s]
      /\ dev[s] \in Seq(DevBlocks)
  BY <1>1 DEF SeqTypes, Shape
<1>3. Len(a.got) = 1
  BY DEF Allocated
<1>4. tb \in Seq(DevBlocks) /\ lt = ld + Len(a.got)
  BY DEF Grown
<1>5. lt = ld + 1 /\ lt = full[s] + 2 /\ lt \in Nat
  <2> HIDE DEF ld, lt
  <2> QED BY ONLY <1>2, <1>3, <1>4
<1>6. \A i \in 1 .. ld : tb[i] = dev[s][i]
  BY DEF Grown
<1>7. \A j \in 1 .. lt : j > ld =>
           /\ tb[j] \notin DevHeld /\ (\A k \in DOMAIN a.cache : a.cache[k] # tb[j])
           /\ \A i \in 1 .. lt : tb[i] = tb[j] => i = j
  BY DEF Grown
<1>8. CacheLeft(DevBlocks, dcache, a.cache)
  BY <1>1, CacheFacts DEF TierTypes
<1>9. CachedOf(s, a.cache, dcache')
  BY DevCachedFacts
<1>10. /\ dcache' \in [DOMAIN dcache' -> DevBlocks] /\ DOMAIN dcache' \subseteq Keys
       /\ \A k \in DOMAIN dcache' : (k \in DOMAIN dcache /\ dcache'[k] = dcache[k]) \/ DevCounted(dcache'[k], k)
  BY <1>8, CachedEntries
<1>11. dev'[s] = tb /\ status'[s] = "decode" /\ \A t \in Seqs \ {s} : dev'[t] = dev[t] /\ status'[t] = status[t]
  BY <1>1 DEF SeqTypes
<1>12. DataTypes' /\ DevAgrees /\ HostAgrees /\ store' = store
  BY <1>1, ScrubFacts
<1>13. Types'
  <2>1. status' \in [Seqs -> {"new", "waiting", "placed", "prefill", "running", "decode", "gone"}]
    BY <1>1 DEF SeqTypes
  <2>2. dev' \in [Seqs -> Seq(DevBlocks)]
    BY <1>1, <1>4 DEF SeqTypes
  <2>3. \A t \in Seqs : kv'[t] <= Len(dev'[t])
    <3>1. kv[s] <= lt
      BY ONLY <1>2, <1>5
    <3> QED BY <1>1, <1>11, <3>1 DEF SeqTypes
  <2>4. SeqTypes'
    BY <1>1, <2>1, <2>2, <2>3 DEF SeqTypes
  <2>5. TierTypes'
    BY <1>1, <1>10 DEF TierTypes
  <2> QED BY <1>1, <1>12, <2>4, <2>5, SameFetchTypes, TypeParts
<1>14. Batched'
  BY <1>1 DEF Batched
<1>15. task' = task
  BY DEF fetchVars
<1>16. Shapes'
  <2>1. \A t \in Seqs \ {s} : SameSeq(t) /\ task'[t] = task[t]
    BY <1>11, <1>15 DEF SameSeq
  <2>2. Shape(s)'
    BY <1>1, <1>2, <1>5, <1>11 DEF Shape
  <2> QED BY <1>1, <2>1, <2>2, ShapesOfOne
<1>17. Awaits' /\ Fetching'
  <2>1. \A t \in awaiting : t \in Seqs \ {s}
    BY <1>1 DEF FetchTypes, Awaits, Awaited
  <2> QED BY <1>11, <1>12, <1>13, <2>1, SameFetches
<1>18. Pairs' = Pairs /\ Queue' = Queue
  BY SamePairs DEF Queue
<1>19. \A t \in Seqs : \A j \in 1 .. Len(dev[t]) : dev[t][j] \in DevHeld
  BY <1>1, TablesAreHeld
<1>20. ASSUME NEW j \in 1 .. lt, j > ld PROVE DevFresh(s, j)
  <2>1. /\ tb[j] \notin DevHeld /\ (\A k \in DOMAIN a.cache : a.cache[k] # tb[j])
        /\ \A i \in 1 .. lt : tb[i] = tb[j] => i = j
    BY <1>7, <1>20
  <2>2. ASSUME NEW k \in DOMAIN dcache' PROVE dcache'[k] # tb[j]
    <3>1. CASE k \in DOMAIN a.cache /\ dcache'[k] = a.cache[k]
      BY <2>1, <3>1
    <3>2. CASE \E i \in 1 .. kv[s] : Path[s][i] = k /\ dcache'[k] = dev[s][i]
      <4>1. PICK i \in 1 .. kv[s] : dcache'[k] = dev[s][i]
        BY <3>2
      <4>2. i \in 1 .. Len(dev[s])
        BY <1>2
      <4> QED BY <1>19, <2>1, <4>1, <4>2
    <3> QED BY <1>9, <3>1, <3>2 DEF CachedOf
  <2>3. ASSUME NEW u \in Seqs, NEW i \in 1 .. Len(dev'[u]), dev'[u][i] = tb[j] PROVE u = s /\ i = j
    <3>1. CASE u = s
      BY <1>11, <2>1, <2>3, <3>1
    <3>2. CASE u # s
      <4>1. dev'[u] = dev[u]
        BY <1>11, <3>2
      <4> QED BY <1>19, <2>1, <2>3, <4>1
    <3> QED BY <3>1, <3>2
  <2>4. ~(j <= kv'[s])
    <3>1. kv'[s] = kv[s]
      OBVIOUS
    <3>2. j \in Nat
      BY <1>5
    <3> HIDE DEF ld
    <3> QED BY ONLY <1>2, <1>20, <3>1, <3>2
  <2> QED BY <1>11, <2>1, <2>2, <2>3, <2>4 DEF DevFresh
<1>21. DevStep
  <2>1. ASSUME NEW t \in Seqs, NEW j \in 1 .. Len(dev'[t]) PROVE DevKept(t, j) \/ DevFresh(t, j)
    <3>1. CASE t # s
      <4>1. dev'[t] = dev[t] /\ kv'[t] = kv[t] /\ Len(dev[t]) \in Nat
        BY <1>1, <1>11, <3>1 DEF SeqTypes
      <4> QED BY <4>1 DEF DevKept
    <3>2. CASE t = s /\ j > ld
      BY <1>11, <1>20, <3>2
    <3>3. CASE t = s /\ ~(j > ld)
      <4>1. j \in Nat /\ j >= 1
        OBVIOUS
      <4>2. j \in 1 .. ld /\ j <= ld
        BY ONLY <1>2, <3>3, <4>1
      <4>3. dev'[s][j] = dev[s][j] /\ kv'[s] = kv[s]
        BY <1>6, <1>11, <4>2
      <4> QED BY <3>3, <4>2, <4>3 DEF DevKept
    <3> QED BY <3>1, <3>2, <3>3
  <2> QED BY <1>10, <1>12, <1>18, <2>1 DEF DevStep, DevAgrees
<1>22. HostStep
  BY <1>1, <1>12, SameHost
<1> QED BY <1>13, <1>14, <1>16, <1>17, <1>21, <1>22, IInvAfterStep

\* A decode step gets its block or preempts a running sequence.
LEMMA DecodeKeepsIInv ==
    ASSUME IInv, NEW s \in Seqs, Decode(s)
    PROVE  IInv'
<1>1. PICK a \in DevAllocations(1, {}) :
        \/ /\ a.got # <<>>
           /\ dev' = [dev EXCEPT ![s] = dev[s] \o a.got]
           /\ dcache' = DevCached(s, a.cache)
           /\ status' = [status EXCEPT ![s] = "decode"]
           /\ UNCHANGED <<kv, host, hkv, hcache, offq>>
        \/ /\ a.got = <<>>
           /\ \E v \in BatchOf({"running"}) :
                /\ Deallocate(v, a.cache)
                /\ status' = [status EXCEPT ![v] = "waiting"]
  BY Zenon DEF Decode
<1>2. /\ pc = "build" /\ status[s] = "running" /\ full[s] < Len(Path[s]) /\ Scrub
      /\ UNCHANGED fetchVars /\ UNCHANGED <<pc, full, loads, copying, flying>>
  BY DEF Decode, Building
<1>3. SeqTypes /\ TierTypes
  BY TypeParts DEF IInv
<1>4. Allocated(1, DevBlocks, dcache, DevHeld, a)
  <2>1. DevHeld \cup {} = DevHeld /\ 1 \in Nat
    OBVIOUS
  <2>2. Allocated(1, DevBlocks, dcache, DevHeld \cup {}, a)
    BY <2>1, DevAllocated
  <2> QED BY <2>1, <2>2
<1>5. CASE a.got # <<>>
  <2>1. Range(dev[s]) \subseteq DevHeld /\ dev[s] \in Seq(DevBlocks)
    BY <1>3, TablesAreHeld DEF SeqTypes
  <2>2. PICK tb : tb = dev[s] \o a.got /\ Grown(DevBlocks, dev[s], DevHeld, a, tb)
    BY <1>4, <2>1, GrownTable
  <2>3. dev' = [dev EXCEPT ![s] = tb]
    BY <1>1, <1>5, <2>2
  <2>4. /\ dcache' = DevCached(s, a.cache) /\ status' = [status EXCEPT ![s] = "decode"]
        /\ UNCHANGED <<kv, host, hkv, hcache, offq>>
    BY <1>1, <1>5
  <2> QED BY <1>2, <1>4, <1>5, <2>2, <2>3, <2>4, DecodeGrows
<1>6. CASE a.got = <<>>
  <2>1. PICK v \in BatchOf({"running"}) :
          Deallocate(v, a.cache) /\ status' = [status EXCEPT ![v] = "waiting"]
    BY <1>1, <1>6
  <2>2. v \in Seqs /\ status[v] = "running"
    BY DEF BatchOf
  <2>3. CacheLeft(DevBlocks, dcache, a.cache)
    BY <1>3, <1>4, CacheFacts DEF TierTypes
  <2> QED BY <1>2, <2>1, <2>2, <2>3, PreemptKeepsIInv
<1> QED BY <1>5, <1>6

-----------------------------------------------------------------------------
\* The invariant.

\* Nothing has happened yet.
LEMMA InitHasIInv ==
    ASSUME Init
    PROVE  IInv
<1>1. /\ pc = "build" /\ status = [s \in Seqs |-> "new"] /\ full = PromptBlocks
      /\ dev = [s \in Seqs |-> <<>>] /\ kv = [s \in Seqs |-> 0]
      /\ host = [s \in Seqs |-> <<>>] /\ hkv = [s \in Seqs |-> 0]
  BY DEF Init
<1>2. /\ awaiting = {} /\ faulty = {} /\ flag = [s \in Seqs |-> 0]
      /\ result = [s \in Seqs |-> PerWorker(0)] /\ task = [s \in Seqs |-> PerWorker(<<>>)]
      /\ stream = [s \in Seqs |-> PerWorker(<<>>)] /\ client = [s \in Seqs |-> PerWorker("closed")]
  BY DEF Init
<1>3. /\ DOMAIN dcache = {} /\ dcache = [k \in DOMAIN dcache |-> 0]
      /\ DOMAIN hcache = {} /\ hcache = [k \in DOMAIN hcache |-> 0]
      /\ loads = {} /\ copying = {} /\ offq = {} /\ flying = {}
  BY DEF Init, NoFun
<1>4. /\ devKV = [b \in DevBlocks |-> Junk] /\ hostKV = PerWorker([b \in HostBlocks |-> Junk])
      /\ store = PerWorker([k \in Stored |-> k])
  BY DEF Init
<1>5. Pairs = {} /\ Queue = {}
  BY <1>3 DEF Pairs, Queue
<1>6. ASSUME NEW s \in Seqs
      PROVE  /\ dev[s] = <<>> /\ kv[s] = 0 /\ host[s] = <<>> /\ hkv[s] = 0
             /\ status[s] = "new" /\ full[s] = PromptBlocks[s]
             /\ Len(dev[s]) = 0 /\ Len(host[s]) = 0
             /\ PromptBlocks[s] \in Nat /\ Len(Path[s]) \in Nat /\ PromptBlocks[s] <= Len(Path[s])
  <2>1. dev[s] = <<>> /\ kv[s] = 0 /\ host[s] = <<>> /\ hkv[s] = 0 /\ status[s] = "new" /\ full[s] = PromptBlocks[s]
    BY <1>1
  <2>2. Len(dev[s]) = 0 /\ Len(host[s]) = 0
    BY <2>1
  <2>3. PromptBlocks[s] \in 1 .. Len(Path[s]) /\ Path[s] \in Seq(Keys)
    BY PathAssumption
  <2>4. Len(Path[s]) \in Nat
    BY <2>3
  <2> QED BY <2>1, <2>2, <2>3, <2>4
<1>7. \A s \in Seqs : \A w \in Workers :
        /\ result[s][w] = 0 /\ task[s][w] = <<>> /\ stream[s][w] = <<>> /\ client[s][w] = "closed"
  BY <1>2 DEF PerWorker
<1>8. Types
  <2>1. SeqTypes
    <3>1. dev \in [Seqs -> Seq(DevBlocks)] /\ host \in [Seqs -> Seq(HostBlocks)]
      BY <1>1
    <3>2. kv \in [Seqs -> Nat] /\ hkv \in [Seqs -> Nat]
      BY <1>1
    <3>3. status \in [Seqs -> {"new", "waiting", "placed", "prefill", "running", "decode", "gone"}]
      BY <1>1
    <3>4. full \in [Seqs -> Nat]
      BY <1>1, PathAssumption
    <3> QED BY <1>1, <1>6, <3>1, <3>2, <3>3, <3>4 DEF SeqTypes
  <2>2. FetchTypes
    <3>1. Cardinality(Workers) \in Nat
      BY FS_CardinalityType, TiersAssumption
    <3>2. flag \in [Seqs -> 0 .. Cardinality(Workers)]
      BY <1>2, <3>1
    <3>3. result \in [Seqs -> [Workers -> Nat]]
      BY <1>2 DEF PerWorker
    <3>4. \A s \in Seqs : \A w \in Workers : result[s][w] <= PromptBlocks[s]
      BY <1>6, <1>7
    <3>5. task \in [Seqs -> [Workers -> Seq([blk : HostBlocks, key : Keys])]]
      <4>1. PerWorker(<<>>) \in [Workers -> Seq([blk : HostBlocks, key : Keys])]
        BY DEF PerWorker
      <4> QED BY <1>2, <4>1
    <3>6. stream \in [Seqs -> [Workers -> Seq(0 .. Batch)]]
      <4>1. PerWorker(<<>>) \in [Workers -> Seq(0 .. Batch)]
        BY DEF PerWorker
      <4> QED BY <1>2, <4>1
    <3>7. client \in [Seqs -> [Workers -> {"open", "closed"}]]
      <4>1. PerWorker("closed") \in [Workers -> {"open", "closed"}]
        BY DEF PerWorker
      <4> QED BY <1>2, <4>1
    <3> QED BY <1>2, <3>2, <3>3, <3>4, <3>5, <3>6, <3>7 DEF FetchTypes
  <2>3. TierTypes
    BY <1>3 DEF TierTypes
  <2>4. DataTypes
    <3>1. devKV \in [DevBlocks -> Content]
      BY <1>4 DEF Content
    <3>2. hostKV \in [Workers -> [HostBlocks -> Content]]
      BY <1>4 DEF Content, PerWorker
    <3>3. store = [w \in Workers |-> store[w]]
      BY <1>4 DEF PerWorker
    <3>4. ASSUME NEW w \in Workers
          PROVE  store[w] \in [DOMAIN store[w] -> Content] /\ DOMAIN store[w] \subseteq Keys
      <4>1. store[w] = [k \in Stored |-> k]
        BY <1>4 DEF PerWorker
      <4> QED BY <4>1, BatchAssumption DEF Content
    <3> QED BY <3>1, <3>2, <3>3, <3>4 DEF DataTypes
  <2> QED BY <2>1, <2>2, <2>3, <2>4, TypeParts
<1>9. Batched
  BY <1>1, <1>3 DEF Batched
<1>10. Shapes
  BY <1>2, <1>6 DEF Shapes, Shape
<1>11. Awaits
  <2> SUFFICES ASSUME NEW s \in Seqs PROVE Awaited(s)
    BY DEF Awaits
  <2>1. Open(s) = {}
    BY <1>7 DEF Open
  <2>2. Cardinality(Open(s)) = 0
    BY <2>1, FS_EmptySet
  <2>3. flag[s] = 0 /\ result[s] = PerWorker(0) /\ stream[s] = PerWorker(<<>>) /\ client[s] = PerWorker("closed")
    BY <1>2
  <2> QED BY <1>2, <2>1, <2>2, <2>3 DEF Awaited
<1>12. Fetching
  BY <1>2 DEF Fetching
<1>13. DevOwn
  BY <1>3, <1>5, <1>6 DEF DevOwn
<1>14. DevFill
  BY <1>3, <1>5, <1>6 DEF DevFill
<1>15. HostOwn
  BY <1>3, <1>5, <1>6 DEF HostOwn
<1>16. Copied
  BY <1>3 DEF Copied
<1>17. HostKVIntact
  <2>1. \A w \in Workers : store[w] = [k \in Stored |-> k]
    BY <1>4 DEF PerWorker
  <2>2. \A w \in Workers : \A k \in DOMAIN store[w] : Good(store[w][k], k)
    BY <2>1 DEF Good
  <2> QED BY <1>3, <1>6, <2>2 DEF HostKVIntact
<1> QED BY <1>8, <1>9, <1>10, <1>11, <1>12, <1>13, <1>14, <1>15, <1>16, <1>17 DEF IInv

\* A step that changes nothing.
LEMMA StutterKeepsIInv ==
    ASSUME IInv, UNCHANGED vars
    PROVE  IInv'
<1>1. UNCHANGED fetchVars /\ UNCHANGED dataVars
  BY DEF vars
<1>2. UNCHANGED <<pc, status, full, dev, kv, host, hkv, dcache, hcache, loads, copying, offq, flying>>
  BY DEF vars, seqVars, tierVars
<1>3. Batched /\ Shapes /\ SeqTypes /\ FetchTypes /\ TierTypes /\ DataTypes
  BY TypeParts DEF IInv
<1>4. DataTypes' /\ DevAgrees /\ HostAgrees /\ store' = store
  BY <1>1, <1>3, DataSame
<1>5. Types'
  <2>1. SeqTypes'
    BY <1>2, <1>3 DEF SeqTypes
  <2>2. TierTypes'
    BY <1>2, <1>3 DEF TierTypes
  <2> QED BY <1>1, <1>3, <1>4, <2>1, <2>2, SameFetchTypes, TypeParts
<1>6. Batched'
  BY <1>2, <1>3 DEF Batched
<1>7. Shapes'
  BY <1>1, <1>2, <1>3 DEF Shapes, Shape, fetchVars
<1>8. Awaits' /\ Fetching'
  BY <1>1, <1>2, <1>4, <1>5, SameFetches
<1>9. Pairs' = Pairs /\ Queue' = Queue
  BY <1>2, SamePairs DEF Queue
<1>10. DevStep
  BY <1>2, <1>3, <1>4, <1>9, SameDev
<1>11. HostStep
  BY <1>2, <1>3, <1>4, SameHost
<1> QED BY <1>5, <1>6, <1>7, <1>8, <1>10, <1>11, IInvAfterStep

\* Every action keeps the invariant.
LEMMA NextKeepsIInv ==
    ASSUME IInv, [Next]_vars
    PROVE  IInv'
<1>1. ASSUME NEW s \in Seqs,
             \/ AddRequest(s) \/ UpdatePrefetch(s) \/ Allocate(s) \/ Accept(s) \/ Abandon(s)
             \/ Decode(s) \/ Finish(s) \/ Cancel(s)
      PROVE  IInv'
  BY <1>1, AddRequestKeepsIInv, UpdatePrefetchKeepsIInv, AllocateKeepsIInv, AcceptKeepsIInv,
     AbandonKeepsIInv, DecodeKeepsIInv, FinishKeepsIInv, CancelKeepsIInv
<1>2. ASSUME NEW s \in Seqs, NEW w \in Workers,
             ConnectFails(s, w) \/ Fetch(s, w) \/ Receive(s, w) \/ IdleTimeout(s, w)
      PROVE  IInv'
  BY <1>2, ConnectFailsKeepsIInv, FetchKeepsIInv, ReceiveKeepsIInv
<1>3. ASSUME \/ Transfer \/ TransferNoBatch \/ LoadCopy \/ LoadFails \/ SkipWait \/ Compute
             \/ \E b \in late : LateCopy(b)
      PROVE  IInv'
  BY <1>3, TransferKeepsIInv, LoadCopyKeepsIInv, UnsafeLoadsKeepIInv, ComputeKeepsIInv
<1>4. ASSUME NEW f \in flying, OffloadDone(f) \/ \E w \in Workers : OffloadCopy(f, w)
      PROVE  IInv'
  BY <1>4, OffloadDoneKeepsIInv, OffloadCopyKeepsIInv
<1>5. CASE UNCHANGED vars
  BY <1>5, StutterKeepsIInv
<1> QED BY <1>1, <1>2, <1>3, <1>4, <1>5 DEF Next

\* IInv is inductive.
LEMMA Invariance == Spec => []IInv
<1>1. Init => IInv
  BY InitHasIInv
<1>2. IInv /\ [Next]_vars => IInv'
  BY NextKeepsIInv
<1> QED BY <1>1, <1>2, PTL DEF Spec

\* The targets of late copies are device blocks.
LEMMA LateTargets ==
    ASSUME IInv, late \subseteq DevBlocks, [Next]_vars
    PROVE  late' \subseteq DevBlocks
<1>1. ASSUME NEW s \in Seqs,
             \/ AddRequest(s) \/ UpdatePrefetch(s) \/ Allocate(s) \/ Accept(s) \/ Abandon(s)
             \/ Decode(s) \/ Finish(s) \/ Cancel(s)
      PROVE  late' = late
  BY <1>1 DEF AddRequest, UpdatePrefetch, Allocate, Accept, Abandon, Decode, Finish, Cancel, Scrub,
              dataVars
<1>2. ASSUME NEW s \in Seqs, NEW w \in Workers,
             ConnectFails(s, w) \/ Fetch(s, w) \/ Receive(s, w) \/ IdleTimeout(s, w)
      PROVE  late' = late
  BY <1>2 DEF ConnectFails, Fetch, Receive, IdleTimeout, dataVars
<1>3. ASSUME Transfer \/ TransferNoBatch \/ LoadCopy \/ LoadFails \/ Compute \/ UNCHANGED vars
      PROVE  late' = late
  BY <1>3 DEF Transfer, TransferNoBatch, LoadCopy, LoadFails, Compute, dataVars, vars
<1>4. ASSUME NEW f \in flying, OffloadDone(f) \/ \E w \in Workers : OffloadCopy(f, w)
      PROVE  late' = late
  BY <1>4 DEF OffloadDone, OffloadCopy, Scrub
<1>5. CASE SkipWait
  <2>1. copying \subseteq PairSet(HostBlocks, DevBlocks)
    BY DEF IInv, Types, TierTypes
  <2> QED BY <1>5, <2>1 DEF SkipWait, PairSet
<1>6. ASSUME NEW b \in late, LateCopy(b) PROVE late' \subseteq DevBlocks
  BY <1>6 DEF LateCopy
<1> QED BY <1>1, <1>2, <1>3, <1>4, <1>5, <1>6 DEF Next

-----------------------------------------------------------------------------
\* Every variable keeps its type, and no sequence counts more blocks than the
\* table of that tier has: kv_cache_tokens_num never passes the blocks that
\* allocate, deallocate and update_prefetch_result leave.
THEOREM TypeCorrect == Spec => []TypeOK
<1>1. Init => late \subseteq DevBlocks
  BY DEF Init
<1>2. IInv /\ late \subseteq DevBlocks /\ [Next]_vars => (late \subseteq DevBlocks)'
  BY LateTargets
<1>3. Spec => [](late \subseteq DevBlocks)
  BY <1>1, <1>2, Invariance, PTL DEF Spec
<1>4. IInv /\ late \subseteq DevBlocks => TypeOK
  BY DEF IInv, Types, TypeOK
<1> QED BY <1>3, <1>4, Invariance, PTL

\* Whatever the device prefix cache offers, and whatever a sequence counts as
\* computed, has the keys and values of its own prefix, will have them once the
\* queued copies of transfer_blocks are done, or was left behind by one of the
\* four windows; for any number of requests, blocks and workers, and also when
\* copies fail, are not waited for, or reach blocks that were given away.
THEOREM DeviceTierIsIntact == Spec => []DeviceKVIntact
<1>1. IInv => DeviceKVIntact
  <2> SUFFICES ASSUME IInv PROVE DeviceKVIntact
    OBVIOUS
  <2> DEFINE pending == {l.dst : l \in loads \cup copying}
  <2>1. DevFill
    BY DEF IInv
  <2>2. ASSUME NEW d, NEW k, DevHas(d, k) PROVE d \in pending \/ Good(devKV[d], k)
    BY <2>2 DEF DevHas, Queue
  <2>3. \A k \in DOMAIN dcache : dcache[k] \in pending \/ Good(devKV[dcache[k]], k)
    BY <2>1, <2>2 DEF DevFill
  <2>4. \A s \in Seqs : \A i \in 1 .. kv[s] :
             dev[s][i] \in pending \/ Good(devKV[dev[s][i]], Path[s][i])
    BY <2>1, <2>2 DEF DevFill
  <2> QED BY <2>3, <2>4 DEF DeviceKVIntact
<1> QED BY <1>1, Invariance, PTL

\* Whatever host memory or the store offers is, on every worker, the keys and
\* values of that prefix: prefetches that end early on some workers, offloads
\* that complete late and blocks that change owner in between included.
THEOREM HostTierIsIntact == Spec => []HostKVIntact
<1>1. IInv => HostKVIntact
  BY DEF IInv
<1> QED BY <1>1, Invariance, PTL

\* termination_flag_ counts the workers whose stream is open, and each of them
\* has a batch to fetch or its end marker under way: when all have ended, a
\* prefetch without a fault has a flag of 0.
THEOREM PrefetchIsNotWaitedForInVain == Spec => []NoNeedlessWait
<1>1. IInv => NoNeedlessWait
  <2> SUFFICES ASSUME IInv, NEW s \in awaiting \ faulty,
                      \A w \in Workers : task[s][w] = <<>> /\ stream[s][w] = <<>>
               PROVE  flag[s] = 0
    BY DEF NoNeedlessWait
  <2>1. s \in Seqs /\ Awaited(s)
    BY TypeParts DEF IInv, Awaits, FetchTypes
  <2>2. flag[s] = Cardinality(Open(s))
    BY <2>1 DEF Awaited
  <2>3. ASSUME NEW w \in Open(s) PROVE FALSE
    <3>1. w \in Workers
      BY DEF Open
    <3>2. 0 \in Range(<<>>)
      BY <2>1, <3>1 DEF Awaited
    <3> QED BY <3>2 DEF Range
  <2>4. Open(s) = {}
    BY <2>3
  <2> QED BY <2>2, <2>4, FS_EmptySet
<1> QED BY <1>1, Invariance, PTL
=============================================================================
