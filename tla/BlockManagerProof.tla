------------------------- MODULE BlockManagerProof -------------------------
(***************************************************************************)
(* Proofs about BlockManager, for any sequences, blocks, block size,       *)
(* tokens and workloads: the KV that sequences and the prefix cache rely   *)
(* on stays theirs, the usage count covers the blocks in use, and eviction *)
(* takes the least recently used.  After facts on positions, prefixes and  *)
(* reference counts comes the invariant Mem of block tables, cache and     *)
(* content, with one lemma per way a step changes them: a match, an        *)
(* eviction, fresh blocks, a release, an insertion, a forward pass.        *)
(***************************************************************************)
EXTENDS BlockManager, QueueLemmas, TLAPS

\* The position of slot j of the c-th block of a table.
At(c, j) == (c - 1) * BlockSize + j

MemTypes(tk, bl, sh, k, ca, co) ==
    /\ tk \in [Seqs -> Seq(Tokens)] /\ bl \in [Seqs -> Seq(Blocks)]
    /\ sh \in [Seqs -> Nat] /\ k \in [Seqs -> Nat]
    /\ ca \in [DOMAIN ca -> Blocks] /\ DOMAIN ca \subseteq Seq(Tokens)
    /\ co \in [Blocks -> [Slots -> Seq(Tokens)]]

\* A table has no block twice, and slots for the computed tokens; the shared
\* blocks are full.
Tables(tk, bl, sh, k) ==
    \A s \in Seqs :
        /\ IsInjective(bl[s])
        /\ sh[s] <= Len(bl[s]) /\ sh[s] * BlockSize <= Len(tk[s])
        /\ k[s] <= Len(bl[s]) * BlockSize /\ k[s] <= Len(tk[s])

\* The slots a sequence relies on: those of shared blocks and of computed tokens.
Known(sh, k, s, c, j) == c <= sh[s] \/ At(c, j) < k[s]

TablesKV(tk, bl, sh, k, co) ==
    \A s \in Seqs : \A c \in 1 .. Len(bl[s]) : \A j \in Slots :
        Known(sh, k, s, c, j) => co[bl[s][c]][j] = SubSeq(tk[s], 1, At(c, j) + 1)

CacheKV(ca, co) ==
    \A x \in DOMAIN ca :
        /\ \E c \in 1 .. Len(x) : Len(x) = c * BlockSize
        /\ \A j \in Slots : co[ca[x]][j] = SubSeq(x, 1, Len(x) - BlockSize + j + 1)

\* A block that its sequence may still write to is not in the cache.
OpenIsPrivate(bl, sh, k, ca) ==
    \A s \in Seqs : \A c \in 1 .. Len(bl[s]) :
        c <= sh[s] \/ c * BlockSize <= k[s] \/ bl[s][c] \notin Range(ca)

\* Two sequences share a block only if the cache has it too.
SharedIsCached(bl, ca) ==
    \A s, r \in Seqs : s # r => Range(bl[s]) \cap Range(bl[r]) \subseteq Range(ca)

Mem(tk, bl, sh, k, ca, co) ==
    /\ MemTypes(tk, bl, sh, k, ca, co)
    /\ Tables(tk, bl, sh, k)
    /\ TablesKV(tk, bl, sh, k, co)
    /\ CacheKV(ca, co)
    /\ OpenIsPrivate(bl, sh, k, ca)
    /\ SharedIsCached(bl, ca)

\* The LRU list has every key of the cache once.
LruLists(list, ca) == list \in Seq(DOMAIN ca) /\ Range(list) = DOMAIN ca /\ IsInjective(list)

\* A pending pass fits the table, and leaves room for the sampled token.
Pending(tk, bl, sch, k) ==
    \A s \in Seqs :
        /\ tk[s] # <<>> => k[s] < Len(tk[s])
        /\ sch[s] > 0 => Len(tk[s]) < MaxTokens /\ sch[s] <= Len(bl[s]) * BlockSize

Use(bl) == {b \in Blocks : \E s \in Seqs : b \in Range(bl[s])}

IInv ==
    /\ TypeOK
    /\ Mem(tokens, blocks, shared, kv, cached, content)
    /\ Pending(tokens, blocks, scheduled, kv)
    /\ num_used >= Cardinality(Use(blocks))
    /\ crashed # "num_used_blocks"

-----------------------------------------------------------------------------
\* Multiples of the block size.
LEMMA Multiples ==
    ASSUME NEW c \in Nat, NEW d \in Nat
    PROVE  /\ BlockSize \in Nat \ {0} /\ c * BlockSize \in Nat
           /\ c <= d => c * BlockSize <= d * BlockSize
           /\ c < d => c * BlockSize + BlockSize <= d * BlockSize
           /\ c * BlockSize = d * BlockSize => c = d
           /\ c <= c * BlockSize
           /\ (c + d) * BlockSize = c * BlockSize + d * BlockSize
<1> DEFINE b == BlockSize
<1>1. b \in Nat \ {0}
  BY BlockSizeAssumption
<1> HIDE DEF b
<1>2. c * b \in Nat /\ d * b \in Nat /\ c <= c * b
  BY <1>1
<1>3. c <= d => c * b <= d * b
  BY <1>1
<1>4. ASSUME NEW x \in Nat, NEW y \in Nat, x < y PROVE x * b + b <= y * b
  <2>1. x + 1 <= y
    BY <1>4
  <2>2. (x + 1) * b <= y * b
    BY <1>1, <2>1
  <2> QED BY <1>1, <2>2
<1>5. c * b = d * b => c = d
  <2>1. c < d \/ d < c \/ c = d
    OBVIOUS
  <2> QED BY <1>1, <1>2, <1>4, <2>1
<1>6. (c + d) * b = c * b + d * b
  BY <1>1
<1> QED BY <1>1, <1>2, <1>3, <1>4, <1>5, <1>6 DEF b

\* The position of a slot, and the slot of a position.
LEMMA Positions ==
    ASSUME NEW c \in Nat \ {0}, NEW j \in Slots
    PROVE  /\ At(c, j) \in Nat /\ j \in Nat /\ j < BlockSize
           /\ At(c, j) = c * BlockSize - BlockSize + j
           /\ At(c, j) < c * BlockSize /\ c * BlockSize - BlockSize <= At(c, j)
           /\ At(c, j) \div BlockSize + 1 = c /\ At(c, j) % BlockSize = j
<1> DEFINE b == BlockSize
           a == (c - 1) * b + j
           q == a \div b
           r == a % b
<1>1. b \in Nat \ {0} /\ j \in 0 .. b - 1 /\ c - 1 \in Nat
  BY BlockSizeAssumption DEF Slots
<1>2. (c - 1) * b \in Nat /\ (c - 1) * b = c * b - b
  <2> HIDE DEF b
  <2> QED BY <1>1
<1>3. a \in Nat /\ a = c * b - b + j
  BY <1>1, <1>2
<1>4. q \in Int /\ r \in 0 .. b - 1 /\ a = b * q + r
  BY <1>1, <1>3
<1>5. At(c, j) = a
  BY DEF At
<1> DEFINE d == c - 1
<1>6. d \in Nat /\ a = d * b + j /\ c = d + 1
  OBVIOUS
<1> HIDE DEF a, q, r, b, d
<1>7. q = d
  <2>1. q \in Int /\ d \in Int /\ b \in Nat /\ b > 0
    BY <1>1, <1>4, <1>6
  <2>2. b * q + r = b * d + j
    BY <1>1, <1>4, <1>6
  <2>3. ASSUME q < d PROVE FALSE
    <3>1. b * (q + 1) <= b * d
      BY <2>1, <2>3
    <3>2. b * (q + 1) = b * q + b
      BY <2>1
    <3> QED BY <1>1, <1>4, <2>1, <2>2, <3>1, <3>2
  <2>4. ASSUME d < q PROVE FALSE
    <3>1. b * (d + 1) <= b * q
      BY <2>1, <2>4
    <3>2. b * (d + 1) = b * d + b
      BY <2>1
    <3> QED BY <1>1, <1>4, <2>1, <2>2, <3>1, <3>2
  <2> QED BY <2>1, <2>3, <2>4
<1>8. r = j
  <2>1. b * q \in Int /\ b * q = d * b
    BY <1>1, <1>4, <1>6, <1>7
  <2>2. d * b + j = d * b + r
    BY <1>4, <1>6, <2>1
  <2> QED BY <1>1, <1>4, <2>1, <2>2
<1>9. c * b \in Nat
  BY <1>1
<1>10. a < c * b /\ c * b - b <= a
  BY <1>1, <1>3, <1>9
<1>11. j \in Nat /\ j < b
  BY <1>1
<1>12. At(c, j) \div b + 1 = c /\ At(c, j) % b = j
  BY <1>5, <1>6, <1>7, <1>8 DEF q, r
<1> QED BY <1>3, <1>5, <1>10, <1>11, <1>12 DEF b

\* A position in the sequence is a block and a slot in it.
LEMMA Coordinates ==
    ASSUME NEW i \in Nat
    PROVE  i \div BlockSize \in Nat /\ i % BlockSize \in Slots
           /\ At(i \div BlockSize + 1, i % BlockSize) = i
<1> DEFINE b == BlockSize
           q == i \div b
           r == i % b
<1>1. b \in Nat \ {0}
  BY BlockSizeAssumption
<1>2. q \in Int /\ r \in 0 .. b - 1 /\ i = b * q + r
  BY <1>1
<1>3. r \in Slots
  BY <1>2 DEF Slots
<1> HIDE DEF q, r
<1>4. At(q + 1, r) = (q + 1 - 1) * b + r
  BY <1>1, <1>2, SMT DEF At
<1> HIDE DEF b
<1>5. q >= 0
  <2>1. ASSUME q <= -1 PROVE FALSE
    <3>1. b * q <= b * (-1)
      BY <1>1, <1>2, <2>1
    <3> QED BY <1>1, <1>2, <3>1
  <2> QED BY <1>2, <2>1
<1>6. (q + 1 - 1) * b + r = i
  <2>1. q + 1 - 1 = q /\ q * b = b * q
    BY <1>1, <1>2
  <2> QED BY <1>2, <2>1
<1>7. q \in Nat
  BY <1>2, <1>5
<1>8. q \in Nat /\ r \in Slots /\ At(q + 1, r) = i
  BY <1>3, <1>4, <1>6, <1>7
<1> QED BY <1>8 DEF b, q, r

\* The blocks that n tokens fill, and the blocks that they need.
LEMMA WholeBlocks ==
    ASSUME NEW n \in Nat
    PROVE  /\ n \div BlockSize \in Nat
           /\ \A c \in Nat : c <= n \div BlockSize <=> c * BlockSize <= n
           /\ NumBlocksFor(n) \in Nat /\ n <= NumBlocksFor(n) * BlockSize
<1> DEFINE b == BlockSize
<1>1. b \in Nat \ {0}
  BY BlockSizeAssumption
<1> HIDE DEF b
<1>2. ASSUME NEW m \in Nat PROVE m \div b \in Nat /\ m % b \in 0 .. b - 1 /\ m = (m \div b) * b + (m % b)
  <2>1. m \div b \in Nat
    BY Coordinates DEF b
  <2>2. m % b \in 0 .. b - 1 /\ m = b * (m \div b) + (m % b)
    BY <1>1, <2>1
  <2>3. b * (m \div b) = (m \div b) * b
    BY <1>1, <2>1
  <2> QED BY <2>1, <2>2, <2>3
<1> DEFINE q == n \div b
           r == n % b
<1>3. q \in Nat /\ r \in 0 .. b - 1 /\ n = q * b + r /\ q * b \in Nat
  <2>1. q \in Nat /\ r \in 0 .. b - 1 /\ n = q * b + r
    BY <1>2
  <2> QED BY <1>1, <2>1
<1> HIDE DEF q, r
<1>4. ASSUME NEW c \in Nat PROVE c <= q <=> c * b <= n
  <2>1. c <= q => c * b <= q * b
    BY <1>1, <1>3
  <2>2. q < c => q * b + b <= c * b
    BY <1>3, Multiples DEF b
  <2>3. c * b \in Nat
    BY <1>1
  <2>4. CASE c <= q
    BY <1>1, <1>3, <2>1, <2>3, <2>4
  <2>5. CASE q < c
    BY <1>1, <1>3, <2>2, <2>3, <2>5
  <2> QED BY <1>3, <2>4, <2>5
<1> DEFINE m == n + b - 1
           p == m \div b
<1>5. m \in Nat
  BY <1>1
<1>6. p \in Nat /\ m % b \in 0 .. b - 1 /\ m = p * b + (m % b)
  <2> HIDE DEF m
  <2> QED BY <1>2, <1>5
<1>7. n <= p * b
  <2> HIDE DEF p
  <2>1. p * b \in Nat
    BY <1>1, <1>6
  <2> QED BY <1>1, <1>6, <2>1
<1>8. NumBlocksFor(n) = p
  BY DEF NumBlocksFor, b
<1> HIDE DEF p
<1> QED BY <1>3, <1>4, <1>6, <1>7, <1>8 DEF b, q

-----------------------------------------------------------------------------
\* Prefixes of a token sequence.
LEMMA Prefixes ==
    ASSUME NEW S, NEW ts \in Seq(S), NEW n \in 0 .. Len(ts)
    PROVE  /\ SubSeq(ts, 1, n) \in Seq(S) /\ Len(SubSeq(ts, 1, n)) = n
           /\ \A m \in 0 .. n : SubSeq(SubSeq(ts, 1, n), 1, m) = SubSeq(ts, 1, m)
           /\ SubSeq(ts, 1, Len(ts)) = ts
           /\ \A t \in S : SubSeq(Append(ts, t), 1, n) = SubSeq(ts, 1, n)
<1> DEFINE p == SubSeq(ts, 1, n)
<1>1. Len(ts) \in Nat /\ n \in Nat /\ n <= Len(ts)
  OBVIOUS
<1>2. ASSUME NEW u \in Seq(S), NEW m \in 0 .. Len(u)
      PROVE  /\ SubSeq(u, 1, m) \in Seq(S) /\ Len(SubSeq(u, 1, m)) = m
             /\ DOMAIN SubSeq(u, 1, m) = 1 .. m
             /\ \A i \in 1 .. m : SubSeq(u, 1, m)[i] = u[i]
  BY <1>2, SplitQueue, PrefixAt
<1>3. p \in Seq(S) /\ Len(p) = n /\ \A i \in 1 .. n : p[i] = ts[i]
  BY <1>2
<1> HIDE DEF p
<1>4. ASSUME NEW m \in 0 .. n PROVE SubSeq(p, 1, m) = SubSeq(ts, 1, m)
  <2>1. m \in 0 .. Len(p) /\ m \in 0 .. Len(ts)
    BY <1>1, <1>3
  <2> DEFINE x == SubSeq(p, 1, m)
             y == SubSeq(ts, 1, m)
  <2>2. /\ x \in Seq(S) /\ Len(x) = m /\ \A i \in 1 .. m : x[i] = p[i]
        /\ y \in Seq(S) /\ Len(y) = m /\ \A i \in 1 .. m : y[i] = ts[i]
    BY <1>2, <1>3, <2>1
  <2>3. \A i \in 1 .. m : i \in 1 .. n
    BY <1>1
  <2> HIDE DEF x, y
  <2>4. \A i \in 1 .. m : x[i] = y[i]
    BY <1>3, <2>2, <2>3
  <2>5. x = y
    BY <2>2, <2>4, SeqEqual
  <2> QED BY <2>5 DEF x, y
<1>5. SubSeq(ts, 1, Len(ts)) = ts
  <2> DEFINE y == SubSeq(ts, 1, Len(ts))
  <2>1. Len(ts) \in 0 .. Len(ts)
    BY <1>1
  <2>2. y \in Seq(S) /\ Len(y) = Len(ts) /\ \A i \in 1 .. Len(ts) : y[i] = ts[i]
    BY <1>2, <2>1
  <2> HIDE DEF y
  <2>3. y = ts
    BY <2>2, SeqEqual
  <2> QED BY <2>3 DEF y
<1>6. ASSUME NEW t \in S PROVE SubSeq(Append(ts, t), 1, n) = p
  <2> DEFINE u == Append(ts, t)
             x == SubSeq(u, 1, n)
  <2>1. u \in Seq(S) /\ Len(u) = Len(ts) + 1 /\ \A i \in 1 .. Len(ts) : u[i] = ts[i]
    OBVIOUS
  <2> HIDE DEF u
  <2>2. n \in 0 .. Len(u)
    BY <1>1, <2>1
  <2>3. x \in Seq(S) /\ Len(x) = n /\ \A i \in 1 .. n : x[i] = u[i]
    BY <1>2, <2>1, <2>2
  <2> HIDE DEF x
  <2>4. \A i \in 1 .. n : i \in 1 .. Len(ts)
    BY <1>1
  <2>5. \A i \in 1 .. n : x[i] = p[i]
    BY <1>3, <2>1, <2>3, <2>4
  <2>6. x = p
    BY <1>3, <2>3, <2>5, SeqEqual
  <2> QED BY <2>6 DEF x, u
<1> QED BY <1>3, <1>4, <1>5, <1>6 DEF p

\* The key of block i of a token sequence: its length tells i, and the last
\* slot of a block that holds its KV tells the key.
LEMMA Keys ==
    ASSUME NEW S, NEW ts \in Seq(S), NEW i \in Nat \ {0}, i * BlockSize <= Len(ts)
    PROVE  /\ Key(ts, i) \in Seq(S) /\ Len(Key(ts, i)) = i * BlockSize
           /\ i \in 1 .. Len(Key(ts, i))
           /\ BlockSize - 1 \in Slots /\ At(i, BlockSize - 1) + 1 = i * BlockSize
           /\ \A j \in Slots :
                 /\ At(i, j) + 1 \in 0 .. Len(ts)
                 /\ SubSeq(Key(ts, i), 1, Len(Key(ts, i)) - BlockSize + j + 1)
                      = SubSeq(ts, 1, At(i, j) + 1)
<1> DEFINE b == BlockSize
           n == i * b
<1>1. b \in Nat \ {0} /\ n \in Nat /\ i <= n
  BY Multiples
<1>2. n \in 0 .. Len(ts) /\ Key(ts, i) = SubSeq(ts, 1, n)
  BY <1>1 DEF Key
<1>3. b - 1 \in Slots
  BY <1>1 DEF Slots
<1>4. At(i, b - 1) = n - b + (b - 1)
  BY <1>3, Positions
<1>5. At(i, b - 1) + 1 = n
  <2> HIDE DEF n, b
  <2> QED BY <1>1, <1>4
<1>6. \A j \in Slots : j \in Nat /\ At(i, j) \in Nat /\ At(i, j) < n /\ At(i, j) = n - b + j
  BY Positions
<1>p. /\ SubSeq(ts, 1, n) \in Seq(S) /\ Len(SubSeq(ts, 1, n)) = n
      /\ \A m \in 0 .. n : SubSeq(SubSeq(ts, 1, n), 1, m) = SubSeq(ts, 1, m)
  <2> HIDE DEF n
  <2> QED BY <1>2, Prefixes
<1> DEFINE k == Key(ts, i)
<1>7. k \in Seq(S) /\ Len(k) = n /\ \A m \in 0 .. n : SubSeq(k, 1, m) = SubSeq(ts, 1, m)
  BY <1>2, <1>p
<1>8. Len(k) = i * BlockSize /\ BlockSize - 1 \in Slots /\ At(i, BlockSize - 1) + 1 = i * BlockSize
  BY <1>3, <1>5, <1>7
<1> HIDE DEF n, k
<1>9. ASSUME NEW j \in Slots
      PROVE  /\ At(i, j) + 1 \in 0 .. Len(ts)
             /\ SubSeq(k, 1, Len(k) - BlockSize + j + 1) = SubSeq(ts, 1, At(i, j) + 1)
  <2>1. At(i, j) + 1 \in 0 .. n /\ Len(k) - BlockSize + j + 1 = At(i, j) + 1
    BY <1>1, <1>6, <1>7
  <2>2. At(i, j) + 1 \in 0 .. Len(ts)
    BY <1>1, <1>2, <2>1
  <2> QED BY <1>7, <2>1, <2>2
<1>10. i \in 1 .. Len(k)
  BY <1>1, <1>7
<1> QED BY <1>7, <1>8, <1>9, <1>10 DEF k

\* Different blocks have different keys.
LEMMA KeysDiffer ==
    ASSUME NEW S, NEW ts \in Seq(S), NEW i \in Nat \ {0}, i * BlockSize <= Len(ts),
           NEW m \in Nat \ {0}, m * BlockSize <= Len(ts), Key(ts, i) = Key(ts, m)
    PROVE  i = m
<1>1. i * BlockSize = m * BlockSize
  BY Keys
<1> QED BY <1>1, Multiples

-----------------------------------------------------------------------------
\* What the reference count of a block says about who has it.
LEMMA References ==
    ASSUME NEW bl, NEW ca, IsFiniteSet(DOMAIN ca), NEW b
    PROVE  /\ RefCount(bl, ca, b) \in Nat
           /\ RefCount(bl, ca, b) = 0
                <=> b \notin Range(ca) /\ \A s \in Seqs : b \notin Range(bl[s])
           /\ b \in Range(ca) /\ RefCount(bl, ca, b) <= 1 => \A s \in Seqs : b \notin Range(bl[s])
           /\ \A s, r \in Seqs :
                 s # r /\ b \in Range(ca) /\ b \in Range(bl[s]) /\ b \in Range(bl[r])
                    => RefCount(bl, ca, b) > 2
           /\ (\A x, y \in DOMAIN ca : ca[x] = ca[y] => x = y)
                 /\ (\A s \in Seqs : b \notin Range(bl[s])) => RefCount(bl, ca, b) <= 1
<1> DEFINE A == {s \in Seqs : b \in Range(bl[s])}
           C == {x \in DOMAIN ca : ca[x] = b}
<1>1. IsFiniteSet(A) /\ IsFiniteSet(C)
  BY PoolAssumption, FS_Subset
<1>2. RefCount(bl, ca, b) = Cardinality(A) + Cardinality(C)
  BY DEF RefCount
<1>3. (b \in Range(ca) <=> C # {}) /\ ((\A s \in Seqs : b \notin Range(bl[s])) <=> A = {})
  BY DEF Range
<1>4. \A s \in Seqs : b \in Range(bl[s]) <=> s \in A
  OBVIOUS
<1>5. (\A x, y \in DOMAIN ca : ca[x] = ca[y] => x = y) => \A x, y \in C : x = y
  OBVIOUS
<1>6. A \subseteq Seqs
  OBVIOUS
<1> HIDE DEF A, C
<1>7. ASSUME NEW T, IsFiniteSet(T)
      PROVE  /\ Cardinality(T) \in Nat /\ (Cardinality(T) = 0 <=> T = {})
             /\ (\A x, y \in T : x = y) => Cardinality(T) <= 1
             /\ \A x, y \in T : x # y => Cardinality(T) >= 2
  <2>1. Cardinality(T) \in Nat /\ (Cardinality(T) = 0 <=> T = {})
    BY <1>7, FS_CardinalityType, FS_EmptySet
  <2>2. ASSUME \A x, y \in T : x = y PROVE Cardinality(T) <= 1
    <3>1. CASE T = {}
      BY <2>1, <3>1
    <3>2. CASE T # {}
      <4>1. PICK x \in T : TRUE
        BY <3>2
      <4>2. T = {x}
        BY <2>2, <4>1
      <4> QED BY <4>2, FS_Singleton
    <3> QED BY <3>1, <3>2
  <2>3. ASSUME NEW x \in T, NEW y \in T, x # y PROVE Cardinality(T) >= 2
    <3>1. IsFiniteSet(T \ {x}) /\ Cardinality(T \ {x}) = Cardinality(T) - 1
      BY <1>7, FS_RemoveElement
    <3>2. T \ {x} # {}
      BY <2>3
    <3>3. Cardinality(T \ {x}) # 0 /\ Cardinality(T \ {x}) \in Nat
      BY <3>1, <3>2, FS_CardinalityType, FS_EmptySet
    <3> QED BY <2>1, <3>1, <3>3
  <2> QED BY <2>1, <2>2, <2>3
<1>8. Cardinality(A) \in Nat /\ Cardinality(C) \in Nat
      /\ (Cardinality(A) = 0 <=> A = {}) /\ (Cardinality(C) = 0 <=> C = {})
  BY <1>1, <1>7
<1>9. (\A x, y \in C : x = y) => Cardinality(C) <= 1
  BY <1>1, <1>7
<1>10. \A s, r \in A : s # r => Cardinality(A) >= 2
  BY <1>1, <1>7
<1> DEFINE a == Cardinality(A)
           c == Cardinality(C)
           n == RefCount(bl, ca, b)
<1>11. a \in Nat /\ c \in Nat /\ n = a + c /\ (a = 0 <=> A = {}) /\ (c = 0 <=> C = {})
  BY <1>2, <1>8
<1>12. ((\A x, y \in C : x = y) => c <= 1) /\ \A s, r \in A : s # r => a >= 2
  BY <1>9, <1>10
<1> HIDE DEF a, c, n
<1>13. n \in Nat /\ (n = 0 <=> a = 0 /\ c = 0) /\ (c # 0 /\ n <= 1 => a = 0)
       /\ (a >= 2 /\ c # 0 => n > 2) /\ (a = 0 /\ c <= 1 => n <= 1)
  BY <1>11
<1>14. n \in Nat /\ (n = 0 <=> b \notin Range(ca) /\ \A s \in Seqs : b \notin Range(bl[s]))
  BY <1>3, <1>11, <1>13
<1>15. b \in Range(ca) /\ n <= 1 => \A s \in Seqs : b \notin Range(bl[s])
  BY <1>3, <1>11, <1>13
<1>16. \A s, r \in Seqs : s # r /\ b \in Range(ca) /\ b \in Range(bl[s]) /\ b \in Range(bl[r]) => n > 2
  BY <1>3, <1>4, <1>11, <1>12, <1>13
<1>17. (\A x, y \in DOMAIN ca : ca[x] = ca[y] => x = y)
          /\ (\A s \in Seqs : b \notin Range(bl[s])) => n <= 1
  BY <1>3, <1>5, <1>11, <1>12, <1>13
<1> QED BY <1>14, <1>15, <1>16, <1>17 DEF n

\* The content of a block tells the key it is cached under.
LEMMA CacheInjective ==
    ASSUME NEW ca, NEW co, CacheKV(ca, co), DOMAIN ca \subseteq Seq(Tokens)
    PROVE  /\ \A x \in DOMAIN ca : co[ca[x]][BlockSize - 1] = x
           /\ \A x, y \in DOMAIN ca : ca[x] = ca[y] => x = y
<1>1. ASSUME NEW x \in DOMAIN ca PROVE co[ca[x]][BlockSize - 1] = x
  <2>1. BlockSize - 1 \in Slots /\ BlockSize \in Nat
    BY BlockSizeAssumption DEF Slots
  <2>2. co[ca[x]][BlockSize - 1] = SubSeq(x, 1, Len(x) - BlockSize + (BlockSize - 1) + 1)
    BY <2>1 DEF CacheKV
  <2>3. x \in Seq(Tokens) /\ Len(x) \in Nat
    OBVIOUS
  <2>4. Len(x) - BlockSize + (BlockSize - 1) + 1 = Len(x) /\ Len(x) \in 0 .. Len(x)
    BY <2>1, <2>3
  <2> QED BY <2>2, <2>3, <2>4, Prefixes
<1> QED BY <1>1

\* A cached block that a sequence knows is cached under the sequence's key.
LEMMA FullBlocks ==
    ASSUME NEW tk, NEW bl, NEW sh, NEW k, NEW ca, NEW co, Mem(tk, bl, sh, k, ca, co),
           NEW s \in Seqs, NEW c \in 1 .. Len(bl[s]), c <= sh[s] \/ c * BlockSize <= k[s]
    PROVE  /\ c \in Nat \ {0} /\ c * BlockSize <= Len(tk[s])
           /\ \A j \in Slots : co[bl[s][c]][j] = SubSeq(tk[s], 1, At(c, j) + 1)
           /\ co[bl[s][c]][BlockSize - 1] = Key(tk[s], c)
<1>1. /\ tk[s] \in Seq(Tokens) /\ bl[s] \in Seq(Blocks) /\ sh[s] \in Nat /\ k[s] \in Nat
      /\ sh[s] * BlockSize <= Len(tk[s]) /\ k[s] <= Len(tk[s])
  BY DEF Mem, MemTypes, Tables
<1>2. c \in Nat \ {0}
  BY <1>1
<1>3. c * BlockSize \in Nat /\ sh[s] * BlockSize \in Nat
      /\ (c <= sh[s] => c * BlockSize <= sh[s] * BlockSize)
  BY <1>1, <1>2, Multiples
<1> DEFINE e == c * BlockSize
           f == sh[s] * BlockSize
<1>4. e \in Nat /\ f \in Nat /\ (e <= f \/ e <= k[s]) /\ f <= Len(tk[s]) /\ Len(tk[s]) \in Nat
  BY <1>1, <1>3
<1>5. e <= Len(tk[s])
  <2> HIDE DEF e, f
  <2> QED BY <1>1, <1>4
<1>6. ASSUME NEW j \in Slots PROVE Known(sh, k, s, c, j)
  <2>1. At(c, j) < e /\ At(c, j) \in Nat
    BY <1>2, Positions
  <2>2. e <= k[s] => At(c, j) < k[s]
    <3> HIDE DEF e
    <3> QED BY <1>1, <1>4, <2>1
  <2> QED BY <2>2 DEF Known
<1>7. \A j \in Slots : co[bl[s][c]][j] = SubSeq(tk[s], 1, At(c, j) + 1)
  BY <1>6 DEF Mem, TablesKV
<1>8. co[bl[s][c]][BlockSize - 1] = Key(tk[s], c)
  <2>1. BlockSize - 1 \in Slots /\ At(c, BlockSize - 1) + 1 = c * BlockSize
    BY <1>1, <1>2, <1>5, Keys
  <2> QED BY <1>7, <2>1 DEF Key
<1> QED BY <1>2, <1>5, <1>7, <1>8

\* The KV invariants survive any change of content elsewhere.
LEMMA ContentFrame ==
    ASSUME NEW tk, NEW bl, NEW sh, NEW k, NEW ca, NEW co, Mem(tk, bl, sh, k, ca, co),
           NEW co2 \in [Blocks -> [Slots -> Seq(Tokens)]],
           \A b \in Range(ca) : co2[b] = co[b],
           \A s \in Seqs : \A c \in 1 .. Len(bl[s]) : \A j \in Slots :
               Known(sh, k, s, c, j) => co2[bl[s][c]][j] = co[bl[s][c]][j]
    PROVE  Mem(tk, bl, sh, k, ca, co2)
<1>1. MemTypes(tk, bl, sh, k, ca, co2)
  BY DEF Mem, MemTypes
<1>2. TablesKV(tk, bl, sh, k, co2)
  BY DEF Mem, TablesKV
<1>3. CacheKV(ca, co2)
  <2>1. \A x \in DOMAIN ca : co2[ca[x]] = co[ca[x]]
    BY DEF Range
  <2> QED BY <2>1 DEF Mem, CacheKV
<1> QED BY <1>1, <1>2, <1>3 DEF Mem

\* Giving a sequence's table up, with the same tokens or none.
Released(tk, bl, sh, k, tk2, bl2, sh2, k2, s) ==
    /\ tk2 \in [Seqs -> Seq(Tokens)] /\ bl2 \in [Seqs -> Seq(Blocks)]
    /\ sh2 \in [Seqs -> Nat] /\ k2 \in [Seqs -> Nat]
    /\ bl2[s] = <<>> /\ sh2[s] = 0 /\ k2[s] = 0
    /\ \A r \in Seqs \ {s} : tk2[r] = tk[r] /\ bl2[r] = bl[r] /\ sh2[r] = sh[r] /\ k2[r] = k[r]

\* A sequence that gives its blocks back disturbs no other.
LEMMA ReleaseKeepsMem ==
    ASSUME NEW tk, NEW bl, NEW sh, NEW k, NEW ca, NEW co, Mem(tk, bl, sh, k, ca, co),
           NEW s \in Seqs, NEW tk2, NEW bl2, NEW sh2, NEW k2,
           Released(tk, bl, sh, k, tk2, bl2, sh2, k2, s)
    PROVE  Mem(tk2, bl2, sh2, k2, ca, co)
<1>1. MemTypes(tk2, bl2, sh2, k2, ca, co)
  BY DEF Mem, MemTypes, Released
<1>2. /\ tk2[s] \in Seq(Tokens) /\ bl2[s] = <<>> /\ sh2[s] = 0 /\ k2[s] = 0
      /\ \A r \in Seqs \ {s} : tk2[r] = tk[r] /\ bl2[r] = bl[r] /\ sh2[r] = sh[r] /\ k2[r] = k[r]
  BY DEF Released
<1>3. Len(<<>>) = 0 /\ IsInjective(<<>>) /\ Range(<<>>) = {} /\ 1 .. 0 = {} /\ Len(tk2[s]) \in Nat
  BY <1>2 DEF IsInjective, Range
<1>4. 0 * BlockSize = 0
  BY BlockSizeAssumption
<1>5. Tables(tk2, bl2, sh2, k2)
  <2> SUFFICES ASSUME NEW r \in Seqs
               PROVE  /\ IsInjective(bl2[r])
                      /\ sh2[r] <= Len(bl2[r]) /\ sh2[r] * BlockSize <= Len(tk2[r])
                      /\ k2[r] <= Len(bl2[r]) * BlockSize /\ k2[r] <= Len(tk2[r])
    BY DEF Tables
  <2>1. CASE r = s
    BY <1>2, <1>3, <1>4, <2>1
  <2>2. CASE r # s
    BY <1>2, <2>2 DEF Mem, Tables
  <2> QED BY <2>1, <2>2
<1>6. TablesKV(tk2, bl2, sh2, k2, co)
  <2> SUFFICES ASSUME NEW r \in Seqs, NEW c \in 1 .. Len(bl2[r]), NEW j \in Slots,
                      Known(sh2, k2, r, c, j)
               PROVE  co[bl2[r][c]][j] = SubSeq(tk2[r], 1, At(c, j) + 1)
    BY DEF TablesKV
  <2>1. r # s
    BY <1>2, <1>3
  <2>2. tk2[r] = tk[r] /\ bl2[r] = bl[r] /\ Known(sh, k, r, c, j)
    BY <1>2, <2>1 DEF Known
  <2> QED BY <2>2 DEF Mem, TablesKV
<1>7. OpenIsPrivate(bl2, sh2, k2, ca)
  BY <1>2, <1>3 DEF Mem, OpenIsPrivate
<1>8. SharedIsCached(bl2, ca)
  BY <1>2, <1>3 DEF Mem, SharedIsCached
<1> QED BY <1>1, <1>5, <1>6, <1>7, <1>8 DEF Mem

\* Evicting keys whose blocks no table has.
LEMMA EvictKeepsMem ==
    ASSUME NEW tk, NEW bl, NEW sh, NEW k, NEW ca, NEW co, Mem(tk, bl, sh, k, ca, co),
           NEW V, \A x \in V : x \in DOMAIN ca /\ \A s \in Seqs : ca[x] \notin Range(bl[s]),
           NEW ca2, ca2 = Restrict(ca, DOMAIN ca \ V)
    PROVE  /\ Mem(tk, bl, sh, k, ca2, co)
           /\ \A x \in V : ca[x] \notin Range(ca2)
           /\ DOMAIN ca2 = DOMAIN ca \ V
           /\ Range(ca2) \subseteq Range(ca)
<1>1. DOMAIN ca2 = DOMAIN ca \ V /\ \A x \in DOMAIN ca \ V : ca2[x] = ca[x]
  BY DEF Restrict
<1>2. ca \in [DOMAIN ca -> Blocks] /\ DOMAIN ca \subseteq Seq(Tokens) /\ CacheKV(ca, co)
  BY DEF Mem, MemTypes
<1>3. ca2 \in [DOMAIN ca2 -> Blocks]
  <2>1. \A x \in DOMAIN ca \ V : ca[x] \in Blocks
    BY <1>2
  <2> QED BY <2>1 DEF Restrict
<1>4. Range(ca2) \subseteq Range(ca)
  BY <1>1 DEF Range
<1>5. \A x \in V : ca[x] \notin Range(ca2)
  <2>1. \A x, y \in DOMAIN ca : ca[x] = ca[y] => x = y
    BY <1>2, CacheInjective
  <2> QED BY <1>1, <2>1 DEF Range
<1>6. MemTypes(tk, bl, sh, k, ca2, co)
  BY <1>1, <1>3 DEF Mem, MemTypes
<1>7. CacheKV(ca2, co)
  BY <1>1, <1>2 DEF CacheKV
<1>8. OpenIsPrivate(bl, sh, k, ca2)
  BY <1>4 DEF Mem, OpenIsPrivate
<1>9. SharedIsCached(bl, ca2)
  <2> SUFFICES ASSUME NEW s \in Seqs, NEW r \in Seqs, s # r, NEW b \in Range(bl[s]) \cap Range(bl[r])
               PROVE  b \in Range(ca2)
    BY DEF SharedIsCached
  <2>1. b \in Range(ca)
    BY DEF Mem, SharedIsCached
  <2>2. PICK x \in DOMAIN ca : ca[x] = b
    BY <2>1 DEF Range
  <2>3. x \notin V
    BY <2>2
  <2> QED BY <1>1, <2>2, <2>3 DEF Range
<1>10. Mem(tk, bl, sh, k, ca2, co)
  BY <1>6, <1>7, <1>8, <1>9 DEF Mem
<1> QED BY <1>1, <1>4, <1>5, <1>10

\* Adding blocks that nobody has to a table.
Extended(bl, bl2, s, new) ==
    /\ bl2 \in [Seqs -> Seq(Blocks)] /\ bl2[s] = bl[s] \o new
    /\ \A r \in Seqs \ {s} : bl2[r] = bl[r]

\* A sequence that gets free blocks disturbs no other.
LEMMA GrowKeepsMem ==
    ASSUME NEW tk, NEW bl, NEW sh, NEW k, NEW ca, NEW co, Mem(tk, bl, sh, k, ca, co),
           NEW s \in Seqs, NEW new \in Seq(Blocks), IsInjective(new),
           \A b \in Range(new) : b \notin Range(ca) /\ \A r \in Seqs : b \notin Range(bl[r]),
           NEW bl2, Extended(bl, bl2, s, new)
    PROVE  /\ Mem(tk, bl2, sh, k, ca, co)
           /\ Len(bl2[s]) = Len(bl[s]) + Len(new) /\ Range(bl2[s]) = Range(bl[s]) \cup Range(new)
           /\ \A r \in Seqs : \A c \in 1 .. Len(bl2[r]) : \A j \in Slots :
                 Known(sh, k, r, c, j) => bl2[r][c] \notin Range(new)
<1> DEFINE t == bl[s] \o new
           n == Len(bl[s])
<1>1. /\ bl[s] \in Seq(Blocks) /\ bl \in [Seqs -> Seq(Blocks)] /\ sh[s] \in Nat /\ k[s] \in Nat
      /\ IsInjective(bl[s]) /\ sh[s] <= n /\ k[s] <= n * BlockSize /\ n \in Nat /\ Len(new) \in Nat
  BY DEF Mem, MemTypes, Tables
<1>2. /\ t \in Seq(Blocks) /\ Len(t) = n + Len(new) /\ Range(t) = Range(bl[s]) \cup Range(new)
      /\ IsInjective(t)
  <2>1. Range(bl[s]) \cap Range(new) = {}
    OBVIOUS
  <2> QED BY <1>1, <2>1, ConcatQueue
<1>3. /\ \A c \in 1 .. n : t[c] = bl[s][c]
      /\ \A c \in 1 .. Len(t) : c \in 1 .. n \/ (c > n /\ t[c] \in Range(new))
  <2>1. \A c \in 1 .. n : t[c] = bl[s][c]
    BY <1>1
  <2>2. \A c \in 1 .. n + Len(new) :
           c \in 1 .. n \/ (c > n /\ c - n \in 1 .. Len(new) /\ t[c] = new[c - n])
    BY <1>1
  <2>3. \A d \in 1 .. Len(new) : new[d] \in Range(new)
    BY DEF Range
  <2>4. Len(t) = n + Len(new)
    BY <1>2
  <2> HIDE DEF t, n
  <2> QED BY <2>1, <2>2, <2>3, <2>4
<1>4. bl2 \in [Seqs -> Seq(Blocks)] /\ bl2[s] = t /\ \A r \in Seqs \ {s} : bl2[r] = bl[r]
  BY DEF Extended
<1> HIDE DEF t
<1>5. MemTypes(tk, bl2, sh, k, ca, co)
  BY <1>4 DEF Mem, MemTypes
<1>6. n * BlockSize <= Len(t) * BlockSize /\ n * BlockSize \in Nat /\ Len(t) * BlockSize \in Nat
  <2>1. Len(t) \in Nat /\ n <= Len(t)
    BY <1>1, <1>2
  <2> HIDE DEF n
  <2> QED BY <1>1, <2>1, Multiples
<1>7. Tables(tk, bl2, sh, k)
  <2> SUFFICES ASSUME NEW r \in Seqs
               PROVE  /\ IsInjective(bl2[r])
                      /\ sh[r] <= Len(bl2[r]) /\ sh[r] * BlockSize <= Len(tk[r])
                      /\ k[r] <= Len(bl2[r]) * BlockSize /\ k[r] <= Len(tk[r])
    BY DEF Tables
  <2>1. CASE r # s
    BY <1>4, <2>1 DEF Mem, Tables
  <2>2. CASE r = s
    <3>1. sh[s] * BlockSize <= Len(tk[s]) /\ k[s] <= Len(tk[s])
      BY DEF Mem, Tables
    <3>2. sh[s] <= Len(t)
      BY <1>1, <1>2
    <3>3. k[s] <= Len(t) * BlockSize
      <4> DEFINE x == n * BlockSize
                 y == Len(t) * BlockSize
      <4>1. x \in Nat /\ y \in Nat /\ x <= y /\ k[s] <= x
        BY <1>1, <1>6
      <4>2. k[s] <= y
        <5> HIDE DEF x, y
        <5> QED BY <1>1, <4>1
      <4> QED BY <4>2
    <3> QED BY <1>2, <1>4, <2>2, <3>1, <3>2, <3>3
  <2> QED BY <2>1, <2>2
<1>8. ASSUME NEW c \in 1 .. Len(t), c \notin 1 .. n, NEW j \in Slots PROVE ~Known(sh, k, s, c, j)
  <2>1. c \in Nat \ {0} /\ n < c
    BY <1>1, <1>2, <1>8
  <2>2. c * BlockSize - BlockSize <= At(c, j) /\ At(c, j) \in Nat
    BY <2>1, Positions
  <2>3. n * BlockSize + BlockSize <= c * BlockSize /\ n * BlockSize \in Nat /\ c * BlockSize \in Nat
        /\ BlockSize \in Nat
    BY <1>1, <2>1, Multiples
  <2> DEFINE x == n * BlockSize
             y == c * BlockSize
  <2>4. x + BlockSize <= y /\ y - BlockSize <= At(c, j) /\ k[s] <= x /\ x \in Nat /\ y \in Nat
    BY <1>1, <2>2, <2>3
  <2>5. ~(At(c, j) < k[s])
    <3> HIDE DEF x, y
    <3> QED BY <1>1, <2>2, <2>3, <2>4
  <2>6. ~(c <= sh[s])
    BY <1>1, <2>1
  <2> QED BY <2>5, <2>6 DEF Known
<1>9. TablesKV(tk, bl2, sh, k, co)
  <2> SUFFICES ASSUME NEW r \in Seqs, NEW c \in 1 .. Len(bl2[r]), NEW j \in Slots, Known(sh, k, r, c, j)
               PROVE  co[bl2[r][c]][j] = SubSeq(tk[r], 1, At(c, j) + 1)
    BY DEF TablesKV
  <2>1. CASE r # s
    BY <1>4, <2>1 DEF Mem, TablesKV
  <2>2. CASE r = s
    <3>1. c \in 1 .. n
      BY <1>4, <1>8, <2>2
    <3> QED BY <1>3, <1>4, <2>2, <3>1 DEF Mem, TablesKV
  <2> QED BY <2>1, <2>2
<1>10. OpenIsPrivate(bl2, sh, k, ca)
  <2> SUFFICES ASSUME NEW r \in Seqs, NEW c \in 1 .. Len(bl2[r])
               PROVE  c <= sh[r] \/ c * BlockSize <= k[r] \/ bl2[r][c] \notin Range(ca)
    BY DEF OpenIsPrivate
  <2>1. CASE r # s
    BY <1>4, <2>1 DEF Mem, OpenIsPrivate
  <2>2. CASE r = s /\ c \in 1 .. n
    BY <1>3, <1>4, <2>2 DEF Mem, OpenIsPrivate
  <2>3. CASE r = s /\ c \notin 1 .. n
    BY <1>3, <1>4, <2>3
  <2> QED BY <2>1, <2>2, <2>3
<1>11. SharedIsCached(bl2, ca)
  BY <1>2, <1>4 DEF Mem, SharedIsCached
<1>12. ASSUME NEW r \in Seqs, NEW c \in 1 .. Len(bl2[r]), NEW j \in Slots, Known(sh, k, r, c, j)
       PROVE  bl2[r][c] \notin Range(new)
  <2>1. CASE r # s
    <3>1. bl2[r][c] \in Range(bl[r])
      <4>1. bl[r] \in Seq(Blocks)
        BY <1>1
      <4> QED BY <1>4, <2>1, <4>1 DEF Range
    <3> QED BY <3>1
  <2>2. CASE r = s
    <3>1. c \in 1 .. n
      BY <1>4, <1>8, <1>12, <2>2
    <3>2. bl2[r][c] \in Range(bl[s])
      BY <1>1, <1>3, <1>4, <2>2, <3>1 DEF Range
    <3> QED BY <3>2
  <2> QED BY <2>1, <2>2
<1>13. Mem(tk, bl2, sh, k, ca, co)
  BY <1>5, <1>7, <1>9, <1>10, <1>11 DEF Mem
<1> QED BY <1>2, <1>4, <1>12, <1>13

\* The cache after the first n blocks of a sequence, full ones, were inserted.
WithInserted(tk, bl, sh, ca, s, n) ==
    LET new == {Key(tk[s], i) : i \in sh[s] + 1 .. n} \ DOMAIN ca
    IN  [x \in DOMAIN ca \cup new |->
           IF x \in new THEN bl[s][Len(x) \div BlockSize] ELSE ca[x]]

KeysFrom(ts, from, n) == {Key(ts, i) : i \in from + 1 .. n}

\* Inserting full blocks: what was already cached stays under its key.
LEMMA InsertKeepsMem ==
    ASSUME NEW tk, NEW bl, NEW sh, NEW k, NEW ca, NEW co, Mem(tk, bl, sh, k, ca, co),
           NEW s \in Seqs, NEW n \in Nat, n <= Len(bl[s]), n * BlockSize <= k[s],
           NEW ca2, ca2 = WithInserted(tk, bl, sh, ca, s, n)
    PROVE  /\ Mem(tk, bl, sh, k, ca2, co)
           /\ DOMAIN ca2 = DOMAIN ca \cup KeysFrom(tk[s], sh[s], n)
<1> DEFINE new == {Key(tk[s], i) : i \in sh[s] + 1 .. n} \ DOMAIN ca
<1>1. /\ tk[s] \in Seq(Tokens) /\ bl \in [Seqs -> Seq(Blocks)] /\ bl[s] \in Seq(Blocks) /\ sh[s] \in Nat /\ k[s] \in Nat
      /\ ca \in [DOMAIN ca -> Blocks] /\ DOMAIN ca \subseteq Seq(Tokens) /\ CacheKV(ca, co)
  BY DEF Mem, MemTypes
<1>2. /\ DOMAIN ca2 = DOMAIN ca \cup new
      /\ \A x \in DOMAIN ca : ca2[x] = ca[x]
      /\ \A x \in new : ca2[x] = bl[s][Len(x) \div BlockSize]
  BY DEF WithInserted
<1>3. ASSUME NEW i \in sh[s] + 1 .. n
      PROVE  /\ i \in Nat \ {0} /\ i \in 1 .. Len(bl[s]) /\ i * BlockSize <= k[s]
             /\ i * BlockSize <= Len(tk[s])
             /\ Key(tk[s], i) \in Seq(Tokens) /\ Len(Key(tk[s], i)) = i * BlockSize
             /\ i \in 1 .. Len(Key(tk[s], i))
             /\ Len(Key(tk[s], i)) \div BlockSize = i
             /\ \A j \in Slots : co[bl[s][i]][j] =
                   SubSeq(Key(tk[s], i), 1, Len(Key(tk[s], i)) - BlockSize + j + 1)
  <2>1. i \in Nat \ {0} /\ i <= n /\ i \in 1 .. Len(bl[s])
    BY <1>1
  <2>2. i * BlockSize <= n * BlockSize /\ i * BlockSize \in Nat /\ n * BlockSize \in Nat
    BY <2>1, Multiples
  <2>3. i * BlockSize <= k[s]
    <3> DEFINE x == i * BlockSize
               y == n * BlockSize
    <3>1. x \in Nat /\ y \in Nat /\ x <= y /\ y <= k[s]
      BY <2>2
    <3>2. x <= k[s]
      <4> HIDE DEF x, y
      <4> QED BY <1>1, <3>1
    <3> QED BY <3>2
  <2>4. i * BlockSize <= Len(tk[s]) /\ \A j \in Slots : co[bl[s][i]][j] = SubSeq(tk[s], 1, At(i, j) + 1)
    BY <2>1, <2>3, FullBlocks
  <2>5. /\ Key(tk[s], i) \in Seq(Tokens) /\ Len(Key(tk[s], i)) = i * BlockSize
        /\ i \in 1 .. Len(Key(tk[s], i))
        /\ \A j \in Slots : SubSeq(Key(tk[s], i), 1, Len(Key(tk[s], i)) - BlockSize + j + 1)
                              = SubSeq(tk[s], 1, At(i, j) + 1)
    <3> DEFINE ts == tk[s]
    <3>1. ts \in Seq(Tokens) /\ i * BlockSize <= Len(ts)
      BY <1>1, <2>4
    <3> HIDE DEF ts
    <3>2. /\ Key(ts, i) \in Seq(Tokens) /\ Len(Key(ts, i)) = i * BlockSize
          /\ i \in 1 .. Len(Key(ts, i))
          /\ \A j \in Slots : SubSeq(Key(ts, i), 1, Len(Key(ts, i)) - BlockSize + j + 1)
                                = SubSeq(ts, 1, At(i, j) + 1)
      BY <2>1, <3>1, Keys
    <3> QED BY <3>2 DEF ts
  <2>6. (i * BlockSize) \div BlockSize = i
    <3> DEFINE m == i * BlockSize
               q == m \div BlockSize
    <3>1. m \in Nat
      BY <2>2
    <3>2. q \in Nat /\ \A c \in Nat : c <= q <=> c * BlockSize <= m
      <4> HIDE DEF m
      <4> QED BY <3>1, WholeBlocks
    <3>3. i <= q
      BY <2>1, <2>2, <3>2
    <3>4. ~(i + 1 <= q)
      <4>1. i * BlockSize + BlockSize <= (i + 1) * BlockSize /\ (i + 1) * BlockSize \in Nat
            /\ BlockSize \in Nat \ {0}
        <5>1. i \in Nat /\ i + 1 \in Nat /\ i < i + 1
          BY <2>1
        <5> DEFINE e == i + 1
        <5> HIDE DEF e
        <5>2. i * BlockSize + BlockSize <= e * BlockSize /\ e * BlockSize \in Nat
              /\ BlockSize \in Nat \ {0}
          BY <5>1, Multiples DEF e
        <5> QED BY <5>2 DEF e
      <4>2. ~((i + 1) * BlockSize <= m)
        <5> DEFINE y == (i + 1) * BlockSize
        <5>1. m + BlockSize <= y /\ y \in Nat
          BY <4>1
        <5>2. ~(y <= m)
          <6> HIDE DEF m, y
          <6> QED BY <3>1, <4>1, <5>1
        <5> QED BY <5>2
      <4> QED BY <2>1, <3>2, <4>2
    <3>5. q = i
      <4> HIDE DEF q
      <4> QED BY <2>1, <3>2, <3>3, <3>4
    <3> QED BY <3>5
  <2> QED BY <2>1, <2>3, <2>4, <2>5, <2>6
<1>4. ASSUME NEW x \in new
      PROVE  \E i \in sh[s] + 1 .. n : x = Key(tk[s], i) /\ ca2[x] = bl[s][i]
  BY <1>2, <1>3
<1>5. DOMAIN ca2 = DOMAIN ca \cup {Key(tk[s], i) : i \in sh[s] + 1 .. n}
  BY <1>2
<1>k. ca2 = [x \in DOMAIN ca2 |-> ca2[x]]
  BY DEF WithInserted
<1> HIDE DEF new
<1>6. ca2 \in [DOMAIN ca2 -> Blocks] /\ DOMAIN ca2 \subseteq Seq(Tokens)
  <2>1. ASSUME NEW x \in DOMAIN ca2 PROVE ca2[x] \in Blocks /\ x \in Seq(Tokens)
    <3>1. CASE x \in DOMAIN ca
      BY <1>1, <1>2, <3>1
    <3>2. CASE x \in new
      <4>1. PICK i \in sh[s] + 1 .. n : x = Key(tk[s], i) /\ ca2[x] = bl[s][i]
        BY <1>4, <3>2
      <4> QED BY <1>1, <1>3, <4>1
    <3> QED BY <1>2, <3>1, <3>2
  <2> QED BY <1>k, <2>1
<1>7. MemTypes(tk, bl, sh, k, ca2, co)
  BY <1>6 DEF Mem, MemTypes
<1>8. CacheKV(ca2, co)
  <2> SUFFICES ASSUME NEW x \in DOMAIN ca2
               PROVE  /\ \E c \in 1 .. Len(x) : Len(x) = c * BlockSize
                      /\ \A j \in Slots : co[ca2[x]][j] = SubSeq(x, 1, Len(x) - BlockSize + j + 1)
    BY DEF CacheKV
  <2>1. CASE x \in DOMAIN ca
    BY <1>1, <1>2, <2>1 DEF CacheKV
  <2>2. CASE x \in new
    <3>1. PICK i \in sh[s] + 1 .. n : x = Key(tk[s], i) /\ ca2[x] = bl[s][i]
      BY <1>4, <2>2
    <3> QED BY <1>3, <3>1
  <2> QED BY <1>2, <2>1, <2>2
<1>9. \A b \in Range(ca2) : b \in Range(ca) \/ \E i \in sh[s] + 1 .. n : b = bl[s][i]
  BY <1>2, <1>4 DEF Range
<1>10. Range(ca) \subseteq Range(ca2)
  BY <1>2 DEF Range
<1>11. OpenIsPrivate(bl, sh, k, ca2)
  <2> SUFFICES ASSUME NEW r \in Seqs, NEW c \in 1 .. Len(bl[r]),
                      ~(c <= sh[r]), ~(c * BlockSize <= k[r]), bl[r][c] \in Range(ca2)
               PROVE  FALSE
    BY DEF OpenIsPrivate
  <2>1. bl[r][c] \notin Range(ca)
    BY DEF Mem, OpenIsPrivate
  <2>2. PICK i \in sh[s] + 1 .. n : bl[r][c] = bl[s][i]
    BY <1>9, <2>1
  <2>3. i \in 1 .. Len(bl[s]) /\ i * BlockSize <= k[s]
    BY <1>3
  <2>4. bl[r] \in Seq(Blocks) /\ DOMAIN bl[r] = 1 .. Len(bl[r]) /\ DOMAIN bl[s] = 1 .. Len(bl[s])
    BY <1>1
  <2>5. bl[r][c] \in Range(bl[r]) /\ bl[r][c] \in Range(bl[s])
    BY <2>2, <2>3, <2>4 DEF Range
  <2>6. r = s
    BY <2>1, <2>5 DEF Mem, SharedIsCached
  <2>7. i = c
    BY <2>2, <2>3, <2>4, <2>6 DEF Mem, Tables, IsInjective
  <2> QED BY <2>3, <2>6, <2>7
<1>12. SharedIsCached(bl, ca2)
  BY <1>10 DEF Mem, SharedIsCached
<1>13. Mem(tk, bl, sh, k, ca2, co)
  BY <1>7, <1>8, <1>11, <1>12 DEF Mem
<1> QED BY <1>5, <1>13 DEF KeysFrom

\* A sequence gets another table, of blocks it had or the cache has.
LEMMA TableKeepsMem ==
    ASSUME NEW tk, NEW bl, NEW sh, NEW k, NEW ca, NEW co, Mem(tk, bl, sh, k, ca, co),
           NEW s \in Seqs, NEW t \in Seq(Blocks), IsInjective(t), NEW a \in Nat, NEW e \in Nat,
           a <= Len(t), a * BlockSize <= Len(tk[s]), e <= Len(t) * BlockSize, e <= Len(tk[s]),
           \A c \in 1 .. Len(t) : \A j \in Slots :
               c <= a \/ At(c, j) < e => co[t[c]][j] = SubSeq(tk[s], 1, At(c, j) + 1),
           \A c \in 1 .. Len(t) : c <= a \/ c * BlockSize <= e \/ t[c] \notin Range(ca),
           Range(t) \subseteq Range(bl[s]) \cup Range(ca)
    PROVE  Mem(tk, [bl EXCEPT ![s] = t], [sh EXCEPT ![s] = a], [k EXCEPT ![s] = e], ca, co)
<1> DEFINE bl2 == [bl EXCEPT ![s] = t]
           sh2 == [sh EXCEPT ![s] = a]
           k2 == [k EXCEPT ![s] = e]
<1>1. MemTypes(tk, bl2, sh2, k2, ca, co)
  BY DEF Mem, MemTypes
<1>2. /\ bl2[s] = t /\ sh2[s] = a /\ k2[s] = e
      /\ \A r \in Seqs \ {s} : bl2[r] = bl[r] /\ sh2[r] = sh[r] /\ k2[r] = k[r]
  BY DEF Mem, MemTypes
<1> HIDE DEF bl2, sh2, k2
<1>3. Tables(tk, bl2, sh2, k2)
  <2> SUFFICES ASSUME NEW r \in Seqs
               PROVE  /\ IsInjective(bl2[r])
                      /\ sh2[r] <= Len(bl2[r]) /\ sh2[r] * BlockSize <= Len(tk[r])
                      /\ k2[r] <= Len(bl2[r]) * BlockSize /\ k2[r] <= Len(tk[r])
    BY DEF Tables
  <2>1. CASE r = s
    BY <1>2, <2>1
  <2>2. CASE r # s
    BY <1>2, <2>2 DEF Mem, Tables
  <2> QED BY <2>1, <2>2
<1>4. TablesKV(tk, bl2, sh2, k2, co)
  <2> SUFFICES ASSUME NEW r \in Seqs, NEW c \in 1 .. Len(bl2[r]), NEW j \in Slots, Known(sh2, k2, r, c, j)
               PROVE  co[bl2[r][c]][j] = SubSeq(tk[r], 1, At(c, j) + 1)
    BY DEF TablesKV
  <2>1. CASE r = s
    BY <1>2, <2>1 DEF Known
  <2>2. CASE r # s
    <3>1. Known(sh, k, r, c, j)
      BY <1>2, <2>2 DEF Known
    <3> QED BY <1>2, <2>2, <3>1 DEF Mem, TablesKV
  <2> QED BY <2>1, <2>2
<1>5. OpenIsPrivate(bl2, sh2, k2, ca)
  <2> SUFFICES ASSUME NEW r \in Seqs, NEW c \in 1 .. Len(bl2[r])
               PROVE  c <= sh2[r] \/ c * BlockSize <= k2[r] \/ bl2[r][c] \notin Range(ca)
    BY DEF OpenIsPrivate
  <2>1. CASE r = s
    BY <1>2, <2>1
  <2>2. CASE r # s
    BY <1>2, <2>2 DEF Mem, OpenIsPrivate
  <2> QED BY <2>1, <2>2
<1>6. SharedIsCached(bl2, ca)
  <2>1. \A r \in Seqs \ {s} : Range(bl[s]) \cap Range(bl[r]) \subseteq Range(ca)
    BY DEF Mem, SharedIsCached
  <2>2. \A r \in Seqs \ {s} : Range(t) \cap Range(bl[r]) \subseteq Range(ca)
    BY <2>1
  <2>3. \A r, q \in Seqs \ {s} : r # q => Range(bl[r]) \cap Range(bl[q]) \subseteq Range(ca)
    BY DEF Mem, SharedIsCached
  <2> SUFFICES ASSUME NEW r \in Seqs, NEW q \in Seqs, r # q
               PROVE  Range(bl2[r]) \cap Range(bl2[q]) \subseteq Range(ca)
    BY DEF SharedIsCached
  <2>4. CASE r = s
    BY <1>2, <2>2, <2>4
  <2>5. CASE q = s
    BY <1>2, <2>2, <2>5
  <2>6. CASE r # s /\ q # s
    BY <1>2, <2>3, <2>6
  <2> QED BY <2>4, <2>5, <2>6
<1>7. Mem(tk, bl2, sh2, k2, ca, co)
  BY <1>1, <1>3, <1>4, <1>5, <1>6 DEF Mem
<1> QED BY <1>7 DEF bl2, sh2, k2

\* The LRU list after keys were moved to its back: it has them too, each once,
\* and nothing else has changed places.
LEMMA TouchLists ==
    ASSUME NEW S, NEW list \in Seq(S), IsInjective(list), NEW ts \in Seq(Tokens),
           NEW from \in Nat, NEW to \in Nat, from <= to, to * BlockSize <= Len(ts),
           \A i \in from + 1 .. to : Key(ts, i) \in S
    PROVE  /\ Touch(list, ts, from, to) \in Seq(S)
           /\ Range(Touch(list, ts, from, to)) = Range(list) \cup {Key(ts, i) : i \in from + 1 .. to}
           /\ IsInjective(Touch(list, ts, from, to))
           /\ \A a, b : Before(Touch(list, ts, from, to), a, b)
                 => b \in {Key(ts, i) : i \in from + 1 .. to} \/ Before(list, a, b)
<1> DEFINE moved == {Key(ts, i) : i \in from + 1 .. to}
           p == Without(list, moved)
           q == [j \in 1 .. to - from |-> Key(ts, to + 1 - j)]
           t == p \o q
           n == to - from
<1>1. t = Touch(list, ts, from, to)
  BY DEF Touch
<1>2. /\ p \in Seq(S) /\ Range(p) = Range(list) \ moved /\ IsInjective(p)
      /\ \A i, j \in DOMAIN p : i < j => Before(list, p[i], p[j])
  <2> HIDE DEF moved
  <2> QED BY WithoutQueue
<1>3. n \in Nat /\ \A j \in 1 .. n : to + 1 - j \in from + 1 .. to
  OBVIOUS
<1>4. \A i \in from + 1 .. to : to + 1 - i \in 1 .. n /\ to + 1 - (to + 1 - i) = i
  OBVIOUS
<1>5. q \in Seq(S) /\ Len(q) = n /\ DOMAIN q = 1 .. n /\ \A j \in 1 .. n : q[j] = Key(ts, to + 1 - j)
  <2>1. \A j \in 1 .. n : Key(ts, to + 1 - j) \in S
    BY <1>3
  <2>2. q \in [1 .. n -> S]
    BY <2>1
  <2> HIDE DEF n
  <2>3. DOMAIN q = 1 .. n
    BY <2>2
  <2>4. q \in Seq(S)
    <3> HIDE DEF q
    <3> QED BY <1>3, <2>2
  <2>5. Len(q) = n
    <3> HIDE DEF q
    <3> QED BY <1>3, <2>3, <2>4, LenProperties
  <2>6. \A j \in 1 .. n : q[j] = Key(ts, to + 1 - j)
    BY DEF n
  <2> QED BY <2>3, <2>4, <2>5, <2>6
<1>6. \A i, m \in from + 1 .. to : Key(ts, i) = Key(ts, m) => i = m
  <2> SUFFICES ASSUME NEW i \in from + 1 .. to, NEW m \in from + 1 .. to, Key(ts, i) = Key(ts, m)
               PROVE  i = m
    OBVIOUS
  <2>1. i \in Nat \ {0} /\ m \in Nat \ {0} /\ i <= to /\ m <= to
    OBVIOUS
  <2>2. /\ i * BlockSize <= to * BlockSize /\ m * BlockSize <= to * BlockSize
        /\ i * BlockSize \in Nat /\ m * BlockSize \in Nat /\ to * BlockSize \in Nat
    BY <2>1, Multiples
  <2>3. i * BlockSize <= Len(ts) /\ m * BlockSize <= Len(ts)
    <3> DEFINE x == i * BlockSize
               y == m * BlockSize
               z == to * BlockSize
    <3>1. x \in Nat /\ y \in Nat /\ z \in Nat /\ x <= z /\ y <= z /\ z <= Len(ts) /\ Len(ts) \in Nat
      BY <2>2
    <3>2. x <= Len(ts) /\ y <= Len(ts)
      <4> HIDE DEF x, y, z
      <4> QED BY <3>1
    <3> QED BY <3>2
  <2> QED BY <2>1, <2>3, KeysDiffer
<1> HIDE DEF p, q, n
<1>7. Range(q) = moved
  <2>1. Range(q) \subseteq moved
    BY <1>3, <1>5 DEF Range
  <2>2. ASSUME NEW x \in moved PROVE x \in Range(q)
    <3>1. PICK i \in from + 1 .. to : x = Key(ts, i)
      OBVIOUS
    <3>2. to + 1 - i \in 1 .. n /\ to + 1 - (to + 1 - i) = i
      BY <1>4
    <3>3. q[to + 1 - i] = x
      BY <1>5, <3>1, <3>2
    <3> QED BY <1>5, <3>2, <3>3 DEF Range
  <2> QED BY <2>1, <2>2
<1>8. IsInjective(q)
  <2> SUFFICES ASSUME NEW i \in 1 .. n, NEW j \in 1 .. n, q[i] = q[j] PROVE i = j
    BY <1>5 DEF IsInjective
  <2>1. Key(ts, to + 1 - i) = Key(ts, to + 1 - j)
    BY <1>5
  <2>2. to + 1 - i = to + 1 - j
    BY <1>3, <1>6, <2>1
  <2> QED BY <1>3, <2>2
<1> HIDE DEF moved
<1>9. t \in Seq(S) /\ Range(t) = Range(p) \cup Range(q) /\ IsInjective(t)
  <2>1. Range(p) \cap Range(q) = {}
    BY <1>2, <1>7
  <2> QED BY <1>2, <1>5, <1>8, <2>1, ConcatQueue
<1>10. Range(t) = Range(list) \cup moved
  BY <1>2, <1>7, <1>9
<1>11. ASSUME NEW a, NEW b, Before(t, a, b), b \notin moved PROVE Before(list, a, b)
  <2> DEFINE m == Len(p)
  <2>1. m \in Nat /\ DOMAIN p = 1 .. m /\ DOMAIN t = 1 .. m + n
    <3>1. m \in Nat /\ DOMAIN p = 1 .. m
      BY <1>2
    <3>2. Len(t) = m + n
      BY <1>2, <1>5, ConcatQueue
    <3>3. DOMAIN t = 1 .. Len(t)
      <4> HIDE DEF t
      <4> QED BY <1>9
    <3> QED BY <3>1, <3>2, <3>3
  <2>2. \A i \in 1 .. m + n : t[i] = IF i <= m THEN p[i] ELSE q[i - m]
    BY <1>2, <1>3, <1>5
  <2>3. PICK i \in 1 .. m + n, j \in 1 .. m + n : i < j /\ t[i] = a /\ t[j] = b
    BY <1>11, <2>1 DEF Before
  <2> HIDE DEF m, t
  <2>4. j <= m
    <3>1. ASSUME ~(j <= m) PROVE FALSE
      <4>1. j - m \in 1 .. n /\ b = q[j - m]
        BY <1>3, <2>1, <2>2, <2>3, <3>1
      <4> QED BY <1>5, <1>7, <1>11, <4>1 DEF Range
    <3> QED BY <3>1
  <2>5. i \in 1 .. m /\ j \in 1 .. m /\ a = p[i] /\ b = p[j]
    BY <1>3, <2>1, <2>2, <2>3, <2>4
  <2> QED BY <1>2, <2>1, <2>3, <2>5
<1>12. /\ t \in Seq(S) /\ Range(t) = Range(list) \cup moved /\ IsInjective(t)
       /\ \A a, b : Before(t, a, b) => b \in moved \/ Before(list, a, b)
  BY <1>9, <1>10, <1>11
<1> QED BY <1>1, <1>12 DEF moved

\* The longest run of cached blocks.
LEMMA MatchIsRun ==
    ASSUME NEW s \in Seqs, Mem(tokens, blocks, shared, kv, cached, content)
    PROVE  /\ MatchLen(s) \in Nat /\ shared[s] <= MatchLen(s)
           /\ MatchLen(s) <= Len(tokens[s]) \div BlockSize
           /\ MatchLen(s) * BlockSize <= Len(tokens[s])
           /\ \A i \in shared[s] + 1 .. MatchLen(s) : Key(tokens[s], i) \in DOMAIN cached
<1> DEFINE n == Len(tokens[s]) \div BlockSize
           runs == {m \in shared[s] .. n :
                      \A i \in shared[s] + 1 .. m : Key(tokens[s], i) \in DOMAIN cached}
<1>1. shared[s] \in Nat /\ Len(tokens[s]) \in Nat /\ shared[s] * BlockSize <= Len(tokens[s])
  BY DEF Mem, MemTypes, Tables
<1>2. n \in Nat /\ \A c \in Nat : c <= n <=> c * BlockSize <= Len(tokens[s])
  BY <1>1, WholeBlocks
<1> HIDE DEF n
<1>3. shared[s] \in runs /\ runs \subseteq shared[s] .. n
  <2>1. shared[s] \in shared[s] .. n /\ shared[s] + 1 .. shared[s] = {}
    BY <1>1, <1>2
  <2> QED BY <2>1
<1>in. \A m \in runs : \A i \in shared[s] + 1 .. m : Key(tokens[s], i) \in DOMAIN cached
  OBVIOUS
<1>def. MatchLen(s) = CHOOSE m \in runs : \A x \in runs : x <= m
  BY DEF MatchLen, n
<1> HIDE DEF runs
<1>4. \E m \in runs : \A x \in runs : x <= m
  <2> DEFINE T == {n - m : m \in runs}
  <2>1. T \in SUBSET Nat /\ T # {}
    BY <1>1, <1>2, <1>3
  <2>2. \E y \in T : \A z \in T : y <= z
    <3> HIDE DEF T
    <3> QED BY <2>1, LeastElement
  <2>3. PICK m \in runs : \A z \in T : n - m <= z
    BY <2>2
  <2>4. \A x \in runs : n - m <= n - x
    BY <2>3
  <2>5. \A x \in runs : x \in Int
    BY <1>1, <1>2, <1>3
  <2> QED BY <1>2, <2>3, <2>4, <2>5
<1>5. MatchLen(s) \in runs
  BY <1>4, <1>def
<1>6. MatchLen(s) \in Nat /\ shared[s] <= MatchLen(s) /\ MatchLen(s) <= n
  <2> DEFINE m == MatchLen(s)
             h == shared[s]
  <2>1. m \in h .. n /\ h \in Nat
    BY <1>1, <1>3, <1>5
  <2>2. m \in Nat /\ h <= m /\ m <= n
    <3> HIDE DEF m, h
    <3> QED BY <1>2, <2>1
  <2> QED BY <2>2
<1> QED BY <1>2, <1>5, <1>6, <1>in DEF n

\* The blocks of a match: those the sequence shares already, then the cached ones.
Matched(s) ==
    [i \in 1 .. MatchLen(s) |-> IF i <= shared[s] THEN blocks[s][i] ELSE cached[Key(tokens[s], i)]]

\* The blocks that PrefixCache::match returns.
LEMMA MatchedBlocks ==
    ASSUME NEW s \in Seqs, Mem(tokens, blocks, shared, kv, cached, content)
    PROVE  /\ Matched(s) \in Seq(Blocks) /\ Len(Matched(s)) = MatchLen(s) /\ IsInjective(Matched(s))
           /\ Range(Matched(s)) \subseteq Range(blocks[s]) \cup Range(cached)
           /\ \A i \in 1 .. MatchLen(s) :
                 /\ i * BlockSize <= Len(tokens[s])
                 /\ \A j \in Slots : content[Matched(s)[i]][j] = SubSeq(tokens[s], 1, At(i, j) + 1)
                 /\ content[Matched(s)[i]][BlockSize - 1] = Key(tokens[s], i)
                 /\ i <= shared[s] => i \in 1 .. Len(blocks[s]) /\ Matched(s)[i] = blocks[s][i]
                 /\ i > shared[s] => /\ Key(tokens[s], i) \in DOMAIN cached
                                     /\ Matched(s)[i] = cached[Key(tokens[s], i)]
<1> DEFINE m == MatchLen(s)
           h == shared[s]
           ts == tokens[s]
           ma == Matched(s)
<1>1. /\ m \in Nat /\ h <= m /\ m * BlockSize <= Len(ts)
      /\ \A i \in h + 1 .. m : Key(ts, i) \in DOMAIN cached
  BY MatchIsRun
<1>2. /\ h \in Nat /\ ts \in Seq(Tokens) /\ blocks[s] \in Seq(Blocks) /\ h <= Len(blocks[s])
      /\ cached \in [DOMAIN cached -> Blocks] /\ DOMAIN cached \subseteq Seq(Tokens)
      /\ CacheKV(cached, content)
  BY DEF Mem, MemTypes, Tables
<1>3. \A i \in 1 .. m : ma[i] = IF i <= h THEN blocks[s][i] ELSE cached[Key(ts, i)]
  BY DEF Matched
<1>d. DOMAIN ma = 1 .. m /\ ma = [i \in 1 .. m |-> ma[i]]
  BY DEF Matched
<1> HIDE DEF m, h, ts, ma
<1>4. ASSUME NEW i \in 1 .. m
      PROVE  /\ i \in Nat \ {0} /\ i * BlockSize <= Len(ts)
             /\ i <= h => i \in 1 .. Len(blocks[s]) /\ ma[i] = blocks[s][i]
             /\ i > h => Key(ts, i) \in DOMAIN cached /\ ma[i] = cached[Key(ts, i)]
  <2>1. i \in Nat \ {0} /\ i <= m /\ Len(ts) \in Nat
    BY <1>1, <1>2
  <2>2. i * BlockSize <= Len(ts)
    <3> DEFINE x == i * BlockSize
               z == m * BlockSize
    <3>1. x \in Nat /\ z \in Nat /\ x <= z
      BY <1>1, <2>1, Multiples
    <3>2. z <= Len(ts)
      BY <1>1
    <3>3. x <= Len(ts)
      <4> HIDE DEF x, z
      <4> QED BY <2>1, <3>1, <3>2
    <3> QED BY <3>3
  <2>3. i <= h => i \in 1 .. Len(blocks[s]) /\ ma[i] = blocks[s][i]
    BY <1>2, <1>3, <2>1
  <2>4. i > h => i \in h + 1 .. m /\ ~(i <= h)
    BY <1>1, <1>2, <2>1
  <2> QED BY <1>1, <1>3, <2>1, <2>2, <2>3, <2>4
<1>5. ASSUME NEW i \in 1 .. m
      PROVE  /\ \A j \in Slots : content[ma[i]][j] = SubSeq(ts, 1, At(i, j) + 1)
             /\ content[ma[i]][BlockSize - 1] = Key(ts, i)
             /\ ma[i] \in Blocks /\ ma[i] \in Range(blocks[s]) \cup Range(cached)
  <2>1. CASE i <= h
    <3>1. i \in 1 .. Len(blocks[s]) /\ ma[i] = blocks[s][i]
      BY <1>4, <2>1
    <3>2. /\ \A j \in Slots : content[blocks[s][i]][j] = SubSeq(ts, 1, At(i, j) + 1)
          /\ content[blocks[s][i]][BlockSize - 1] = Key(ts, i)
      BY <2>1, <3>1, FullBlocks DEF h, ts
    <3>3. blocks[s][i] \in Blocks /\ blocks[s][i] \in Range(blocks[s])
      BY <1>2, <3>1 DEF Range
    <3> QED BY <3>1, <3>2, <3>3
  <2>2. CASE i > h
    <3> DEFINE x == Key(ts, i)
    <3>1. x \in DOMAIN cached /\ ma[i] = cached[x]
      BY <1>4, <2>2
    <3>2. \A j \in Slots : content[cached[x]][j] = SubSeq(x, 1, Len(x) - BlockSize + j + 1)
      BY <1>2, <3>1 DEF CacheKV
    <3>3. \A j \in Slots : SubSeq(x, 1, Len(x) - BlockSize + j + 1) = SubSeq(ts, 1, At(i, j) + 1)
      BY <1>2, <1>4, Keys, ZenonT(40)
    <3> HIDE DEF x
    <3>4. content[cached[x]][BlockSize - 1] = x
      BY <1>2, <3>1, CacheInjective
    <3>5. cached[x] \in Blocks /\ cached[x] \in Range(cached)
      BY <1>2, <3>1 DEF Range
    <3>6. /\ \A j \in Slots : content[ma[i]][j] = SubSeq(ts, 1, At(i, j) + 1)
          /\ content[ma[i]][BlockSize - 1] = x
      BY <3>1, <3>2, <3>3, <3>4
    <3> QED BY <3>1, <3>5, <3>6 DEF x
  <2>3. i <= h \/ i > h
    BY <1>2, <1>4
  <2> QED BY <2>1, <2>2, <2>3
<1>6. ma \in Seq(Blocks) /\ Len(ma) = m
  <2>1. ma \in [1 .. m -> Blocks]
    BY <1>5, <1>d
  <2>2. ma \in Seq(Blocks)
    BY <1>1, <2>1
  <2> QED BY <1>1, <1>d, <2>2, LenProperties
<1>7. IsInjective(ma)
  <2> SUFFICES ASSUME NEW i \in 1 .. m, NEW l \in 1 .. m, ma[i] = ma[l] PROVE i = l
    BY <1>d DEF IsInjective
  <2>1. Key(ts, i) = Key(ts, l)
    BY <1>5
  <2> QED BY <1>2, <1>4, <2>1, KeysDiffer
<1>8. Range(ma) \subseteq Range(blocks[s]) \cup Range(cached)
  BY <1>5, <1>d DEF Range
<1>9. \A i \in 1 .. m :
         /\ i * BlockSize <= Len(ts)
         /\ \A j \in Slots : content[ma[i]][j] = SubSeq(ts, 1, At(i, j) + 1)
         /\ content[ma[i]][BlockSize - 1] = Key(ts, i)
         /\ i <= h => i \in 1 .. Len(blocks[s]) /\ ma[i] = blocks[s][i]
         /\ i > h => Key(ts, i) \in DOMAIN cached /\ ma[i] = cached[Key(ts, i)]
  BY <1>4, <1>5
<1> QED BY <1>6, <1>7, <1>8, <1>9 DEF m, h, ts, ma

\* The KV state that AllocateShared and Unshared give a sequence.
Shared(s, t, a, e) ==
    Mem(tokens, [blocks EXCEPT ![s] = t], [shared EXCEPT ![s] = a], [kv EXCEPT ![s] = e],
        cached, content)

\* A match that the table is long enough for replaces its head.
LEMMA HeadMatchKeepsMem ==
    ASSUME NEW s \in Seqs, Mem(tokens, blocks, shared, kv, cached, content),
           MatchLen(s) <= Len(blocks[s])
    PROVE  /\ Shared(s, Matched(s) \o SubSeq(blocks[s], MatchLen(s) + 1, Len(blocks[s])), MatchLen(s), kv[s])
           /\ Range(Matched(s) \o SubSeq(blocks[s], MatchLen(s) + 1, Len(blocks[s])))
                \subseteq Range(blocks[s]) \cup Range(Matched(s))
<1> DEFINE m == MatchLen(s)
           h == shared[s]
           e == kv[s]
           ts == tokens[s]
           old == blocks[s]
           n == Len(old)
           ma == Matched(s)
           rest == SubSeq(old, m + 1, n)
           t == ma \o rest
<1>1. m \in Nat /\ h <= m /\ m * BlockSize <= Len(ts)
  BY MatchIsRun
<1>2. /\ h \in Nat /\ e \in Nat /\ ts \in Seq(Tokens) /\ old \in Seq(Blocks) /\ n \in Nat /\ m <= n
      /\ IsInjective(old) /\ e <= n * BlockSize /\ e <= Len(ts)
      /\ DOMAIN cached \subseteq Seq(Tokens) /\ CacheKV(cached, content)
  BY DEF Mem, MemTypes, Tables
<1>3. /\ ma \in Seq(Blocks) /\ Len(ma) = m /\ IsInjective(ma)
      /\ Range(ma) \subseteq Range(old) \cup Range(cached)
      /\ \A i \in 1 .. m :
            /\ \A j \in Slots : content[ma[i]][j] = SubSeq(ts, 1, At(i, j) + 1)
            /\ i * BlockSize <= Len(ts) /\ content[ma[i]][BlockSize - 1] = Key(ts, i)
            /\ i <= h => i \in 1 .. n /\ ma[i] = old[i]
            /\ i > h => Key(ts, i) \in DOMAIN cached /\ ma[i] = cached[Key(ts, i)]
  BY MatchedBlocks
<1>k. \A c \in 1 .. n : \A j \in Slots : At(c, j) < e => content[old[c]][j] = SubSeq(ts, 1, At(c, j) + 1)
  BY DEF Mem, TablesKV, Known
<1>o. \A c \in 1 .. n : c <= h \/ c * BlockSize <= e \/ old[c] \notin Range(cached)
  BY DEF Mem, OpenIsPrivate
<1>f. \A c \in 1 .. n : c * BlockSize <= e =>
         c \in Nat \ {0} /\ c * BlockSize <= Len(ts) /\ content[old[c]][BlockSize - 1] = Key(ts, c)
  BY FullBlocks
<1> HIDE DEF m, h, e, ts, old, n, ma
<1>4. rest \in Seq(Blocks) /\ Len(rest) = n - m /\ Range(rest) \subseteq Range(old)
  <2>1. m \in 0 .. Len(old) /\ n = Len(old)
    BY <1>1, <1>2 DEF n
  <2> QED BY <1>2, <2>1, SplitQueue
<1>r. \A i \in 1 .. n - m : rest[i] = old[i + m]
  <2>0. n = Len(old)
    BY DEF n
  <2>1. \A i \in m + 1 .. n : old[i] \in Blocks
    BY <1>1, <1>2, <2>0
  <2>2. \A i \in 1 .. n - (m + 1) + 1 : rest[i] = old[m + 1 + i - 1]
    BY <1>1, <1>2, <2>0, <2>1, SubSeqProperties
  <2>3. \A i \in 1 .. n - m : i \in 1 .. n - (m + 1) + 1 /\ m + 1 + i - 1 = i + m
    BY <1>1, <1>2
  <2> QED BY <2>2, <2>3
<1> HIDE DEF rest
<1>5. /\ t \in Seq(Blocks) /\ Len(t) = n /\ DOMAIN t = 1 .. n
      /\ Range(t) = Range(ma) \cup Range(rest)
  <2>1. t \in Seq(Blocks) /\ Len(t) = m + (n - m) /\ Range(t) = Range(ma) \cup Range(rest)
    BY <1>3, <1>4, ConcatQueue
  <2>2. m + (n - m) = n
    BY <1>1, <1>2
  <2> HIDE DEF t
  <2> QED BY <2>1, <2>2
<1>6. /\ \A c \in 1 .. n : c <= m => c \in 1 .. m /\ t[c] = ma[c]
      /\ \A c \in 1 .. n : c > m => t[c] = old[c]
  <2>0. \A c \in 1 .. Len(ma) + Len(rest) : t[c] = IF c <= Len(ma) THEN ma[c] ELSE rest[c - Len(ma)]
    BY <1>3, <1>4, ConcatAt
  <2>1. \A c \in 1 .. m + Len(rest) : t[c] = IF c <= m THEN ma[c] ELSE rest[c - m]
    BY <1>3, <2>0
  <2>2. m + Len(rest) = n /\ \A c \in 1 .. n : (c <= m => c \in 1 .. m)
           /\ (c > m => c - m \in 1 .. n - m /\ (c - m) + m = c /\ ~(c <= m))
    BY <1>1, <1>2, <1>4
  <2> HIDE DEF t
  <2>3. ASSUME NEW c \in 1 .. n, c > m PROVE t[c] = old[c]
    <3>1. t[c] = rest[c - m] /\ c - m \in 1 .. n - m /\ (c - m) + m = c
      BY <2>1, <2>2, <2>3
    <3> QED BY <1>r, <3>1
  <2> QED BY <2>1, <2>2, <2>3
<1> HIDE DEF t
<1>7. \A c \in 1 .. n : c \in Nat /\ (c <= m \/ c > m)
  BY <1>1, <1>2
<1>8. ASSUME NEW c \in 1 .. n, NEW d \in 1 .. n, c <= m, d > m, t[c] = t[d] PROVE FALSE
  <2>1. c \in 1 .. m /\ ma[c] = old[d] /\ c # d
    BY <1>1, <1>6, <1>7, <1>8
  <2>2. c > h
    <3>1. ASSUME c <= h PROVE FALSE
      <4>1. old[c] = old[d]
        BY <1>3, <2>1, <3>1
      <4>2. DOMAIN old = 1 .. n
        BY <1>2 DEF n
      <4> QED BY <1>2, <2>1, <4>1, <4>2 DEF IsInjective
    <3> QED BY <1>2, <1>7, <3>1
  <2>3. old[d] \in Range(cached)
    BY <1>3, <2>1, <2>2 DEF Range
  <2>4. ~(d <= h)
    BY <1>1, <1>2, <1>7, <1>8
  <2>5. d * BlockSize <= e
    BY <1>o, <2>3, <2>4
  <2>6. Key(ts, c) = Key(ts, d) /\ d \in Nat \ {0} /\ d * BlockSize <= Len(ts)
    BY <1>3, <1>f, <2>1, <2>5
  <2>7. c = d
    <3>1. c \in Nat \ {0} /\ c * BlockSize <= Len(ts)
      BY <1>3, <2>1
    <3> QED BY <1>2, <2>6, <3>1, KeysDiffer
  <2> QED BY <2>1, <2>7
<1>9. IsInjective(t)
  <2> SUFFICES ASSUME NEW c \in 1 .. n, NEW d \in 1 .. n, t[c] = t[d] PROVE c = d
    BY <1>5 DEF IsInjective
  <2>1. CASE c <= m /\ d <= m
    <3>1. DOMAIN ma = 1 .. m
      BY <1>3
    <3> QED BY <1>3, <1>6, <2>1, <3>1 DEF IsInjective
  <2>2. CASE c > m /\ d > m
    <3>1. DOMAIN old = 1 .. n
      BY <1>2 DEF n
    <3> QED BY <1>2, <1>6, <2>2, <3>1 DEF IsInjective
  <2> QED BY <1>7, <1>8, <2>1, <2>2
<1>10. \A c \in 1 .. n : \A j \in Slots :
          c <= m \/ At(c, j) < e => content[t[c]][j] = SubSeq(ts, 1, At(c, j) + 1)
  BY <1>3, <1>6, <1>7, <1>k
<1>11. \A c \in 1 .. n : c <= m \/ c * BlockSize <= e \/ t[c] \notin Range(cached)
  <2> SUFFICES ASSUME NEW c \in 1 .. n, c > m PROVE c * BlockSize <= e \/ t[c] \notin Range(cached)
    BY <1>7
  <2>1. ~(c <= h) /\ t[c] = old[c]
    BY <1>1, <1>2, <1>6, <1>7
  <2> QED BY <1>o, <2>1
<1>12. Range(t) \subseteq Range(old) \cup Range(cached) /\ Range(t) \subseteq Range(old) \cup Range(ma)
  BY <1>3, <1>4, <1>5
<1>13. Shared(s, t, m, e)
  <2> DEFINE bl2 == [blocks EXCEPT ![s] = t]
  <2>1. \A c \in 1 .. Len(t) : \A j \in Slots :
          c <= m \/ At(c, j) < e => content[t[c]][j] = SubSeq(tokens[s], 1, At(c, j) + 1)
    BY <1>5, <1>10 DEF ts
  <2>2. \A c \in 1 .. Len(t) : c <= m \/ c * BlockSize <= e \/ t[c] \notin Range(cached)
    BY <1>5, <1>11
  <2>3. m <= Len(t) /\ m * BlockSize <= Len(tokens[s]) /\ e <= Len(t) * BlockSize /\ e <= Len(tokens[s])
    BY <1>1, <1>2, <1>5 DEF ts
  <2>4. Range(t) \subseteq Range(blocks[s]) \cup Range(cached)
    BY <1>12 DEF old
  <2> QED BY <1>1, <1>2, <1>5, <1>9, <2>1, <2>2, <2>3, <2>4, TableKeepsMem DEF Shared
<1> QED BY <1>12, <1>13 DEF t, rest, m, e, ma, old, n

\* A longer match replaces the whole table, all of it or all but a block.
LEMMA WholeMatchKeepsMem ==
    ASSUME NEW s \in Seqs, Mem(tokens, blocks, shared, kv, cached, content),
           NEW keep \in 0 .. MatchLen(s)
    PROVE  /\ Shared(s, SubSeq(Matched(s), 1, keep), keep, keep * BlockSize)
           /\ Range(SubSeq(Matched(s), 1, keep)) \subseteq Range(Matched(s))
<1> DEFINE m == MatchLen(s)
           ma == Matched(s)
           ts == tokens[s]
           t == SubSeq(ma, 1, keep)
           e == keep * BlockSize
<1>1. m \in Nat /\ m * BlockSize <= Len(ts) /\ ts \in Seq(Tokens) /\ keep \in 0 .. m
  BY MatchIsRun DEF Mem, MemTypes
<1>2. /\ ma \in Seq(Blocks) /\ Len(ma) = m /\ IsInjective(ma)
      /\ Range(ma) \subseteq Range(blocks[s]) \cup Range(cached)
      /\ \A i \in 1 .. m : \A j \in Slots : content[ma[i]][j] = SubSeq(ts, 1, At(i, j) + 1)
  BY MatchedBlocks
<1> HIDE DEF m, ma, ts
<1>3. keep \in Nat /\ keep <= m /\ \A c \in 1 .. keep : c \in 1 .. m /\ c <= keep
  BY <1>1
<1>4. /\ t \in Seq(Blocks) /\ Len(t) = keep /\ IsInjective(t) /\ Range(t) \subseteq Range(ma)
  BY <1>1, <1>2, SplitQueue
<1>5. \A c \in 1 .. keep : t[c] = ma[c]
  <2>1. \A c \in 1 .. keep : ma[c] \in Blocks
    BY <1>2, <1>3
  <2>2. \A i \in 1 .. keep - 1 + 1 : t[i] = ma[1 + i - 1]
    BY <1>2, <1>3, <2>1, SubSeqProperties
  <2>3. \A i \in 1 .. keep : i \in 1 .. keep - 1 + 1 /\ 1 + i - 1 = i
    BY <1>3
  <2> HIDE DEF t
  <2> QED BY <2>2, <2>3
<1> HIDE DEF t
<1>6. e \in Nat /\ e <= Len(ts)
  <2> DEFINE z == m * BlockSize
  <2>1. e \in Nat /\ z \in Nat /\ e <= z
    BY <1>1, <1>3, Multiples
  <2>2. z <= Len(ts) /\ Len(ts) \in Nat
    BY <1>1
  <2> HIDE DEF e, z
  <2> QED BY <2>1, <2>2
<1>7. Shared(s, t, keep, e)
  <2>1. \A c \in 1 .. Len(t) : \A j \in Slots :
          c <= keep \/ At(c, j) < e => content[t[c]][j] = SubSeq(tokens[s], 1, At(c, j) + 1)
    BY <1>2, <1>3, <1>4, <1>5 DEF ts
  <2>2. \A c \in 1 .. Len(t) : c <= keep \/ c * BlockSize <= e \/ t[c] \notin Range(cached)
    BY <1>3, <1>4
  <2>3. keep <= Len(t) /\ keep * BlockSize <= Len(tokens[s]) /\ e <= Len(t) * BlockSize /\ e <= Len(tokens[s])
    <3>1. e <= e /\ Len(t) * BlockSize = e /\ keep <= keep
      BY <1>3, <1>4, <1>6
    <3> QED BY <1>4, <1>6, <3>1 DEF ts
  <2>4. Range(t) \subseteq Range(blocks[s]) \cup Range(cached)
    BY <1>2, <1>4
  <2> HIDE DEF e
  <2> QED BY <1>3, <1>4, <1>6, <2>1, <2>2, <2>3, <2>4, TableKeepsMem DEF Shared
<1> QED BY <1>4, <1>7 DEF t, ma, m

\* The blocks in use are finitely many.
LEMMA UseIsFinite ==
    ASSUME NEW bl
    PROVE  IsFiniteSet(Use(bl)) /\ Cardinality(Use(bl)) \in Nat /\ Use(bl) \subseteq Blocks
<1>1. Use(bl) \in SUBSET Blocks
  BY DEF Use
<1> QED BY <1>1, PoolAssumption, FS_Subset, FS_CardinalityType

\* Every block of a match that was not in use is counted.
LEMMA MatchIsCounted ==
    ASSUME NEW s \in Seqs, Mem(tokens, blocks, shared, kv, cached, content), IsFiniteSet(DOMAIN cached),
           num_used \in Nat, num_used >= Cardinality(Use(blocks)),
           NEW t \in Seq(Blocks), Range(t) \subseteq Range(blocks[s]) \cup Range(Matched(s))
    PROVE  LET idle == {i \in 1 .. MatchLen(s) : RefCount(blocks, cached, Matched(s)[i]) <= 1}
           IN  /\ Cardinality(idle) \in Nat
               /\ num_used + Cardinality(idle) >= Cardinality(Use([blocks EXCEPT ![s] = t]))
<1> DEFINE m == MatchLen(s)
           ma == Matched(s)
           idle == {i \in 1 .. m : RefCount(blocks, cached, ma[i]) <= 1}
           g == [i \in idle |-> ma[i]]
           im == {ma[i] : i \in idle}
           bl2 == [blocks EXCEPT ![s] = t]
<1>1. m \in Nat
  BY MatchIsRun
<1>2. IsFiniteSet(idle) /\ Cardinality(idle) \in Nat
  <2>1. IsFiniteSet(1 .. m) /\ idle \in SUBSET (1 .. m)
    BY <1>1, FS_Interval
  <2> HIDE DEF idle
  <2> QED BY <2>1, FS_Subset, FS_CardinalityType
<1>3. \A x, y \in DOMAIN cached : cached[x] = cached[y] => x = y
  BY CacheInjective DEF Mem, MemTypes
<1>4. ma \in Seq(Blocks) /\ Len(ma) = m
  BY MatchedBlocks
<1>5. ASSUME NEW i \in 1 .. m, ~(RefCount(blocks, cached, ma[i]) <= 1) PROVE ma[i] \in Use(blocks)
  <2>1. ~(\A r \in Seqs : ma[i] \notin Range(blocks[r]))
    BY <1>3, <1>5, References
  <2>2. ma[i] \in Blocks
    BY <1>4
  <2> QED BY <2>1, <2>2 DEF Use
<1>6. Range(ma) \subseteq Use(blocks) \cup im
  <2>1. ASSUME NEW x \in Range(ma) PROVE x \in Use(blocks) \cup im
    <3>1. PICK i \in 1 .. m : x = ma[i]
      BY <1>4 DEF Range
    <3> HIDE DEF ma, m
    <3> QED BY <1>5, <3>1
  <2> QED BY <2>1
<1>7. Use(bl2) \subseteq Use(blocks) \cup im
  <2>1. \A r \in Seqs : bl2[r] = IF r = s THEN t ELSE blocks[r]
    BY DEF Mem, MemTypes
  <2> HIDE DEF bl2, im, ma
  <2>2. ASSUME NEW b \in Blocks, NEW r \in Seqs, b \in Range(bl2[r]) PROVE b \in Use(blocks) \cup im
    <3>1. CASE r # s
      BY <2>1, <2>2, <3>1 DEF Use
    <3>2. CASE r = s
      <4>1. b \in Range(blocks[s]) \cup Range(ma)
        BY <2>1, <2>2, <3>2 DEF ma
      <4> QED BY <1>6, <4>1 DEF Use
    <3> QED BY <3>1, <3>2
  <2> QED BY <2>2 DEF Use
<1>8. g \in Surjection(idle, im)
  BY DEF Surjection
<1> HIDE DEF g, im, idle, bl2
<1>9. IsFiniteSet(im) /\ Cardinality(im) <= Cardinality(idle) /\ Cardinality(im) \in Nat
  BY <1>2, <1>8, FS_Surjection, FS_CardinalityType
<1>10. IsFiniteSet(Use(blocks) \cup im)
       /\ Cardinality(Use(blocks) \cup im) <= Cardinality(Use(blocks)) + Cardinality(im)
  <2>1. IsFiniteSet(Use(blocks)) /\ Cardinality(Use(blocks)) \in Nat
    BY UseIsFinite
  <2>2. /\ IsFiniteSet(Use(blocks) \cup im)
        /\ Cardinality(Use(blocks) \cup im) =
             Cardinality(Use(blocks)) + Cardinality(im) - Cardinality(Use(blocks) \cap im)
    BY <1>9, <2>1, FS_Union
  <2>3. IsFiniteSet(Use(blocks) \cap im) /\ Cardinality(Use(blocks) \cap im) \in Nat
    BY <2>1, FS_Intersection, FS_CardinalityType
  <2> QED BY <1>9, <2>1, <2>2, <2>3
<1>11. Cardinality(Use(bl2)) <= Cardinality(Use(blocks) \cup im)
  BY <1>7, <1>10, FS_Subset
<1>12. num_used + Cardinality(idle) >= Cardinality(Use(bl2))
  <2>1. Cardinality(Use(bl2)) \in Nat /\ Cardinality(Use(blocks)) \in Nat
    BY UseIsFinite
  <2>2. Cardinality(Use(blocks) \cup im) \in Nat
    BY <1>10, FS_CardinalityType
  <2> DEFINE u == Cardinality(Use(bl2))
             v == Cardinality(Use(blocks))
             w == Cardinality(Use(blocks) \cup im)
             x == Cardinality(im)
             y == Cardinality(idle)
  <2>3. u \in Nat /\ v \in Nat /\ w \in Nat /\ x \in Nat /\ y \in Nat
        /\ u <= w /\ w <= v + x /\ x <= y /\ num_used >= v
    BY <1>2, <1>9, <1>10, <1>11, <2>1, <2>2
  <2>4. num_used + y >= u
    <3> HIDE DEF u, v, w, x, y
    <3> QED BY <2>3
  <2> QED BY <2>4
<1> QED BY <1>2, <1>12 DEF idle, bl2

-----------------------------------------------------------------------------
\* What an allocation for s may start from: the state of the sequence, the LRU
\* list and the usage after a match, or without one.
KeysOf(s) == {Key(tokens[s], i) : i \in 1 .. Len(tokens[s]) \div BlockSize}

Ready(s, st) ==
    /\ st.blocks \in Seq(Blocks) /\ st.shared \in Nat /\ st.kv \in Nat
    /\ Shared(s, st.blocks, st.shared, st.kv)
    /\ LruLists(st.lru, cached)
    /\ st.used \in Nat /\ st.used >= Cardinality(Use([blocks EXCEPT ![s] = st.blocks]))
    /\ st.kv < Len(tokens[s])
    /\ \A b \in Range(st.blocks) :
          b \in Range(blocks[s]) \/ \E x \in KeysOf(s) \cap DOMAIN cached : b = cached[x]
    /\ \A x, y : Before(st.lru, x, y) => y \in KeysOf(s) \/ Before(lru, x, y)

\* The cache has finitely many keys.
LEMMA CacheIsFinite ==
    ASSUME NEW list, NEW ca, LruLists(list, ca)
    PROVE  IsFiniteSet(DOMAIN ca)
BY QueueCardinality DEF LruLists

\* allocate may start from the blocks a sequence has.
LEMMA UnsharedIsReady ==
    ASSUME IInv, NEW s \in Seqs, tokens[s] # <<>>
    PROVE  Ready(s, Unshared(s))
<1> DEFINE st == Unshared(s)
<1>1. /\ st.blocks = blocks[s] /\ st.shared = shared[s] /\ st.kv = kv[s]
      /\ st.used = num_used /\ st.lru = lru
  BY DEF Unshared
<1>2. /\ [blocks EXCEPT ![s] = blocks[s]] = blocks /\ [shared EXCEPT ![s] = shared[s]] = shared
      /\ [kv EXCEPT ![s] = kv[s]] = kv
      /\ blocks[s] \in Seq(Blocks) /\ shared[s] \in Nat /\ kv[s] \in Nat
  BY DEF IInv, TypeOK
<1> HIDE DEF st
<1>3. Shared(s, st.blocks, st.shared, st.kv)
  BY <1>1, <1>2 DEF Shared, IInv
<1>4. LruLists(st.lru, cached)
  BY <1>1 DEF IInv, TypeOK, LruLists
<1>5. st.used \in Nat /\ st.used >= Cardinality(Use([blocks EXCEPT ![s] = st.blocks]))
  BY <1>1, <1>2 DEF IInv, TypeOK
<1>6. st.kv < Len(tokens[s])
  BY <1>1 DEF IInv, Pending
<1>7. Ready(s, st)
  BY <1>1, <1>2, <1>3, <1>4, <1>5, <1>6 DEF Ready
<1> QED BY <1>7 DEF st

\* allocate may start from the blocks that allocate_shared matched.
LEMMA AllocateSharedIsReady ==
    ASSUME IInv, NEW s \in Seqs, tokens[s] # <<>>
    PROVE  Ready(s, AllocateShared(s)) /\ AllocateShared(s).used >= num_used
<1> DEFINE m == MatchLen(s)
           ma == Matched(s)
           ts == tokens[s]
           old == blocks[s]
           idle == {i \in 1 .. m : RefCount(blocks, cached, ma[i]) <= 1}
           used == num_used + Cardinality(idle)
           list == Touch(lru, ts, shared[s], m)
           keep == IF m * BlockSize = Len(ts) THEN m - 1 ELSE m
           head == ma \o SubSeq(old, m + 1, Len(old))
           whole == SubSeq(ma, 1, keep)
           st == AllocateShared(s)
<1>1. /\ Mem(tokens, blocks, shared, kv, cached, content) /\ num_used \in Nat
      /\ num_used >= Cardinality(Use(blocks)) /\ LruLists(lru, cached)
  BY DEF IInv, TypeOK, LruLists
<1>2. /\ ts \in Seq(Tokens) /\ old \in Seq(Blocks) /\ kv[s] \in Nat /\ shared[s] \in Nat
      /\ DOMAIN cached \subseteq Seq(Tokens) /\ kv[s] < Len(ts) /\ Len(ts) \in Nat /\ Len(old) \in Nat
  BY DEF IInv, TypeOK, Pending
<1>3. /\ m \in Nat /\ shared[s] <= m /\ m <= Len(ts) \div BlockSize /\ m * BlockSize <= Len(ts)
      /\ \A i \in shared[s] + 1 .. m : Key(ts, i) \in DOMAIN cached
  BY <1>1, MatchIsRun
<1>4. /\ ma \in Seq(Blocks) /\ Len(ma) = m
      /\ \A i \in 1 .. m : /\ i <= shared[s] => i \in 1 .. Len(old) /\ ma[i] = old[i]
                           /\ i > shared[s] => Key(ts, i) \in DOMAIN cached /\ ma[i] = cached[Key(ts, i)]
  BY <1>1, MatchedBlocks
<1>5. st = IF m <= Len(old)
             THEN [blocks |-> head, shared |-> m, kv |-> kv[s], used |-> used, lru |-> list]
             ELSE [blocks |-> whole, shared |-> keep, kv |-> keep * BlockSize, used |-> used, lru |-> list]
  BY DEF AllocateShared, Matched
<1>h. m <= Len(old) => Shared(s, head, m, kv[s]) /\ Range(head) \subseteq Range(old) \cup Range(ma)
  BY <1>1, HeadMatchKeepsMem
<1>w. keep \in 0 .. m => Shared(s, whole, keep, keep * BlockSize) /\ Range(whole) \subseteq Range(ma)
  <2> HIDE DEF keep
  <2> QED BY <1>1, WholeMatchKeepsMem
<1>i. ASSUME NEW t \in Seq(Blocks), Range(t) \subseteq Range(old) \cup Range(ma)
      PROVE  Cardinality(idle) \in Nat
             /\ num_used + Cardinality(idle) >= Cardinality(Use([blocks EXCEPT ![s] = t]))
  <2>1. IsFiniteSet(DOMAIN cached)
    BY <1>1, CacheIsFinite
  <2> QED BY <1>1, <1>i, <2>1, MatchIsCounted
<1>6. ASSUME NEW i \in 1 .. m PROVE Key(ts, i) \in KeysOf(s)
  <2>1. i \in 1 .. Len(ts) \div BlockSize
    <3> DEFINE n == Len(ts) \div BlockSize
    <3>1. n \in Nat /\ m <= n
      BY <1>2, <1>3, WholeBlocks
    <3>2. i \in 1 .. n
      <4> HIDE DEF n, m
      <4> QED BY <1>3, <1>6, <3>1
    <3> QED BY <3>2
  <2> QED BY <2>1 DEF KeysOf
<1> HIDE DEF ma, idle, m, ts, old, head
<1>7. ASSUME NEW b \in Range(ma)
      PROVE  b \in Range(old) \/ \E x \in KeysOf(s) \cap DOMAIN cached : b = cached[x]
  <2>1. PICK i \in 1 .. m : b = ma[i]
    BY <1>4, <1>7 DEF Range
  <2>2. i <= shared[s] \/ i > shared[s]
    BY <1>2, <1>3
  <2>3. CASE i <= shared[s]
    <3>1. DOMAIN old = 1 .. Len(old)
      BY <1>2
    <3> QED BY <1>4, <2>1, <2>3, <3>1 DEF Range
  <2>4. CASE i > shared[s]
    BY <1>4, <1>6, <2>1, <2>4
  <2> QED BY <2>2, <2>3, <2>4
<1>8. LruLists(list, cached) /\ \A x, y : Before(list, x, y) => y \in KeysOf(s) \/ Before(lru, x, y)
  <2>1. lru \in Seq(DOMAIN cached) /\ Range(lru) = DOMAIN cached /\ IsInjective(lru)
    BY <1>1 DEF LruLists
  <2>2. /\ list \in Seq(DOMAIN cached)
        /\ Range(list) = Range(lru) \cup {Key(ts, i) : i \in shared[s] + 1 .. m}
        /\ IsInjective(list)
        /\ \A a, b : Before(list, a, b)
              => b \in {Key(ts, i) : i \in shared[s] + 1 .. m} \/ Before(lru, a, b)
    BY <1>2, <1>3, <2>1, TouchLists
  <2>3. {Key(ts, i) : i \in shared[s] + 1 .. m} \subseteq DOMAIN cached \cap KeysOf(s)
    <3>1. \A i \in shared[s] + 1 .. m : i \in 1 .. m
      BY <1>2, <1>3
    <3> QED BY <1>3, <1>6, <3>1
  <2> HIDE DEF list
  <2> QED BY <2>1, <2>2, <2>3 DEF LruLists
<1>9. CASE m <= Len(old)
  <2>1. /\ st.blocks = head /\ st.shared = m /\ st.kv = kv[s] /\ st.used = used /\ st.lru = list
    BY <1>5, <1>9
  <2>2. Shared(s, head, m, kv[s]) /\ Range(head) \subseteq Range(old) \cup Range(ma)
    BY <1>9, <1>h
  <2>3. head \in Seq(Blocks)
    <3> DEFINE bl2 == [blocks EXCEPT ![s] = head]
    <3>1. bl2 \in [Seqs -> Seq(Blocks)]
      BY <2>2 DEF Shared, Mem, MemTypes
    <3>2. bl2[s] = head
      <4>1. s \in DOMAIN blocks
        BY DEF IInv, TypeOK
      <4> QED BY <4>1
    <3> HIDE DEF bl2
    <3> QED BY <3>1, <3>2
  <2>4. used \in Nat /\ used >= Cardinality(Use([blocks EXCEPT ![s] = head])) /\ used >= num_used
    <3> DEFINE u == Cardinality(Use([blocks EXCEPT ![s] = head]))
               y == Cardinality(idle)
    <3>1. y \in Nat /\ num_used + y >= u
      <4>1. Range(head) \subseteq Range(old) \cup Range(ma)
        BY <2>2
      <4> QED BY <1>i, <4>1, <2>3
    <3>2. num_used + y \in Nat /\ num_used + y >= num_used
      <4> HIDE DEF y, u
      <4> QED BY <1>1, <3>1
    <3> QED BY <3>1, <3>2
  <2>5. \A b \in Range(head) : b \in Range(blocks[s]) \/ \E x \in KeysOf(s) \cap DOMAIN cached : b = cached[x]
    BY <1>7, <2>2 DEF old
  <2> HIDE DEF st, list, used
  <2>6. Ready(s, st)
    BY <1>2, <1>3, <1>8, <2>1, <2>2, <2>3, <2>4, <2>5 DEF Ready, ts
  <2> QED BY <2>1, <2>4, <2>6 DEF st
<1>10. CASE ~(m <= Len(old))
  <2>1. st.blocks = whole /\ st.shared = keep /\ st.kv = keep * BlockSize /\ st.used = used /\ st.lru = list
    <3> HIDE DEF st, whole, keep, used, list
    <3> QED BY <1>5, <1>10
  <2>2. keep \in 0 .. m /\ keep \in Nat
    BY <1>2, <1>3, <1>10
  <2>3. keep * BlockSize < Len(ts) /\ keep * BlockSize \in Nat
    <3> DEFINE z == m * BlockSize
    <3>1. z \in Nat /\ z <= Len(ts) /\ BlockSize \in Nat \ {0}
      BY <1>3, Multiples
    <3>2. CASE z = Len(ts)
      <4>1. keep = m - 1 /\ keep < m /\ keep \in Nat
        <5>1. keep = m - 1
          BY <3>2
        <5>2. keep \in Nat
          BY <2>2
        <5> HIDE DEF keep
        <5> QED BY <1>3, <5>1, <5>2
      <4> HIDE DEF keep
      <4>2. keep * BlockSize + BlockSize <= z /\ keep * BlockSize \in Nat
        BY <1>3, <4>1, Multiples
      <4> DEFINE x == keep * BlockSize
      <4>3. x < Len(ts)
        <5>1. x + BlockSize <= z /\ x \in Nat
          BY <4>2
        <5> HIDE DEF x, z
        <5> QED BY <1>2, <3>1, <3>2, <5>1
      <4> QED BY <4>2, <4>3
    <3>3. CASE z # Len(ts)
      <4>1. keep = m
        BY <3>3
      <4>2. z < Len(ts)
        <5> HIDE DEF z
        <5> QED BY <1>2, <3>1, <3>3
      <4> QED BY <3>1, <4>1, <4>2
    <3> QED BY <3>2, <3>3
  <2>4. Shared(s, whole, keep, keep * BlockSize) /\ Range(whole) \subseteq Range(ma)
    BY <1>w, <2>2
  <2> HIDE DEF keep
  <2>5. whole \in Seq(Blocks)
    BY <1>4, <2>2, SplitQueue
  <2> HIDE DEF whole
  <2>6. used \in Nat /\ used >= Cardinality(Use([blocks EXCEPT ![s] = whole])) /\ used >= num_used
    <3> DEFINE u == Cardinality(Use([blocks EXCEPT ![s] = whole]))
               y == Cardinality(idle)
    <3>1. y \in Nat /\ num_used + y >= u
      <4>1. Range(whole) \subseteq Range(old) \cup Range(ma)
        BY <2>4
      <4> QED BY <1>i, <4>1, <2>5
    <3>2. num_used + y \in Nat /\ num_used + y >= num_used
      <4> HIDE DEF y, u
      <4> QED BY <1>1, <3>1
    <3> QED BY <3>1, <3>2
  <2>7. \A b \in Range(whole) : b \in Range(blocks[s]) \/ \E x \in KeysOf(s) \cap DOMAIN cached : b = cached[x]
    BY <1>7, <2>4 DEF old
  <2> HIDE DEF st, list, used
  <2>8. Ready(s, st)
    BY <1>8, <2>1, <2>2, <2>3, <2>4, <2>5, <2>6, <2>7 DEF Ready, ts
  <2> QED BY <2>1, <2>6, <2>8 DEF st
<1> QED BY <1>9, <1>10

\* The parts of the invariant after a step.
LEMMA IInvAfter ==
    ASSUME Mem(tokens', blocks', shared', kv', cached', content'), LruLists(lru', cached'),
           workload' \in Workloads, scheduled' \in [Seqs -> Nat], prefill_len' \in [Seqs -> Nat],
           \A s \in Seqs : /\ Len(tokens'[s]) <= MaxTokens
                           /\ scheduled'[s] \in {0} \cup kv'[s] + 1 .. Len(tokens'[s])
                           /\ prefill_len'[s] <= Len(tokens'[s]),
           prefill_cached' \subseteq Seqs, embedding' \subseteq Seqs,
           num_used' \in Nat, num_used' >= Cardinality(Use(blocks')),
           Pending(tokens', blocks', scheduled', kv'), crashed' \in {"no", "insert_check"}
    PROVE  IInv'
<1>1. TypeOK'
  BY DEF TypeOK, Mem, MemTypes, Tables, LruLists
<1>2. crashed' # "num_used_blocks"
  OBVIOUS
<1> QED BY <1>1, <1>2 DEF IInv

\* The blocks that eviction takes are idle, and no idle one that it leaves was
\* used less recently.
LEMMA VictimsAreOldest ==
    ASSUME NEW bl, NEW list, LruLists(list, cached), NEW n \in Int
    PROVE  /\ Victims(bl, list, n) \subseteq DOMAIN cached
           /\ \A x \in Victims(bl, list, n) : \A s \in Seqs : cached[x] \notin Range(bl[s])
           /\ \A x \in Victims(bl, list, n) : \A y \in DOMAIN cached \ Victims(bl, list, n) :
                 RefCount(bl, cached, cached[y]) <= 1 => Before(list, x, y)
<1> DEFINE idle == {i \in DOMAIN list : RefCount(bl, cached, cached[list[i]]) <= 1}
           older(x) == {y \in idle : y < x}
           V == Victims(bl, list, n)
<1>1. /\ IsFiniteSet(DOMAIN cached) /\ list \in Seq(DOMAIN cached) /\ Range(list) = DOMAIN cached
      /\ DOMAIN list = 1 .. Len(list) /\ Len(list) \in Nat
  BY CacheIsFinite DEF LruLists
<1>2. V = {list[i] : i \in {x \in idle : Cardinality(older(x)) < n}}
  BY DEF Victims
<1>3. \A i \in idle : i \in DOMAIN list /\ i \in Nat /\ RefCount(bl, cached, cached[list[i]]) <= 1
  BY <1>1
<1>4. \A i \in DOMAIN list : RefCount(bl, cached, cached[list[i]]) <= 1 => i \in idle
  OBVIOUS
<1>5. \A i \in Nat : IsFiniteSet(older(i)) /\ Cardinality(older(i)) \in Nat
  <2>1. IsFiniteSet(1 .. Len(list)) /\ \A i \in Nat : older(i) \in SUBSET (1 .. Len(list))
    BY <1>1, FS_Interval
  <2> HIDE DEF older
  <2> QED BY <2>1, FS_Subset, FS_CardinalityType
<1>6. ASSUME NEW i \in Nat, NEW j \in Nat, i <= j PROVE Cardinality(older(i)) <= Cardinality(older(j))
  <2>1. older(i) \in SUBSET older(j)
    <3>1. \A y \in idle : y < i => y < j
      BY <1>3, <1>6
    <3> QED BY <3>1
  <2> HIDE DEF older
  <2> QED BY <1>5, <2>1, FS_Subset
<1> HIDE DEF idle, older, V
<1>7. ASSUME NEW x \in V
      PROVE  \E i \in idle : x = list[i] /\ Cardinality(older(i)) < n
  BY <1>2
<1>8. ASSUME NEW x \in V PROVE x \in DOMAIN cached /\ \A s \in Seqs : cached[x] \notin Range(bl[s])
  <2>1. PICK i \in idle : x = list[i]
    BY <1>7
  <2>2. x \in DOMAIN cached
    BY <1>1, <1>3, <2>1
  <2>3. cached[x] \in Range(cached)
    BY <2>2 DEF Range
  <2>4. RefCount(bl, cached, cached[x]) <= 1
    BY <1>3, <2>1
  <2> QED BY <1>1, <2>2, <2>3, <2>4, References
<1>9. ASSUME NEW x \in V, NEW y \in DOMAIN cached \ V, RefCount(bl, cached, cached[y]) <= 1
      PROVE  Before(list, x, y)
  <2>1. PICK i \in idle : x = list[i] /\ Cardinality(older(i)) < n
    BY <1>7
  <2>2. PICK j \in DOMAIN list : y = list[j]
    BY <1>1 DEF Range
  <2>3. j \in idle
    BY <1>4, <1>9, <2>2
  <2>4. ~(Cardinality(older(j)) < n)
    BY <1>2, <2>2, <2>3
  <2>5. i < j
    <3>1. ASSUME j <= i PROVE FALSE
      <4>1. Cardinality(older(j)) <= Cardinality(older(i))
        BY <1>3, <1>6, <2>3, <3>1
      <4>2. Cardinality(older(i)) \in Nat /\ Cardinality(older(j)) \in Nat
        BY <1>3, <1>5, <2>3
      <4> QED BY <2>1, <2>4, <4>1, <4>2
    <3> QED BY <1>3, <2>3, <3>1
  <2> QED BY <1>3, <2>1, <2>2, <2>5 DEF Before
<1> QED BY <1>8, <1>9 DEF V

\* Wiping blocks that nobody relies on.
LEMMA ScrubKeepsMem ==
    ASSUME NEW tk, NEW bl, NEW sh, NEW k, NEW ca, Mem(tk, bl, sh, k, ca, content),
           IsFiniteSet(DOMAIN ca), NEW F, Range(ca) \cap F = {},
           \A s \in Seqs : \A c \in 1 .. Len(bl[s]) : \A j \in Slots :
               Known(sh, k, s, c, j) => bl[s][c] \notin F
    PROVE  Mem(tk, bl, sh, k, ca, Scrub(bl, ca, F))
<1> DEFINE co2 == Scrub(bl, ca, F)
<1>1. content \in [Blocks -> [Slots -> Seq(Tokens)]] /\ ca \in [DOMAIN ca -> Blocks] /\ bl \in [Seqs -> Seq(Blocks)]
  BY DEF Mem, MemTypes
<1>2. Wiped \in [Slots -> Seq(Tokens)]
  BY DEF Wiped, Poison
<1>3. /\ co2 \in [Blocks -> [Slots -> Seq(Tokens)]]
      /\ \A b \in Blocks : b \notin F /\ RefCount(bl, ca, b) # 0 => co2[b] = content[b]
  BY <1>1, <1>2 DEF Scrub
<1> HIDE DEF co2
<1>4. ASSUME NEW b \in Range(ca) PROVE co2[b] = content[b]
  <2>1. b \in Blocks
    BY <1>1 DEF Range
  <2> QED BY <1>3, <2>1, References
<1>5. ASSUME NEW s \in Seqs, NEW c \in 1 .. Len(bl[s]), NEW j \in Slots, Known(sh, k, s, c, j)
      PROVE  co2[bl[s][c]][j] = content[bl[s][c]][j]
  <2>1. bl[s][c] \in Blocks /\ bl[s][c] \in Range(bl[s])
    BY <1>1 DEF Range
  <2>2. RefCount(bl, ca, bl[s][c]) # 0
    BY <2>1, References
  <2> QED BY <1>3, <1>5, <2>1, <2>2
<1>6. Mem(tk, bl, sh, k, ca, co2)
  BY <1>3, <1>4, <1>5, ContentFrame
<1> QED BY <1>6 DEF co2

\* The blocks only s uses are the ones that deallocation subtracts.
LEMMA ReleaseIsCounted ==
    ASSUME NEW tk, NEW bl, NEW sh, NEW k, NEW ca, NEW co, Mem(tk, bl, sh, k, ca, co),
           IsFiniteSet(DOMAIN ca), NEW s \in Seqs, NEW bl2, bl2[s] = <<>>,
           \A r \in Seqs \ {s} : bl2[r] = bl[r]
    PROVE  /\ Cardinality(Exclusive(bl, ca, s)) \in Nat
           /\ Cardinality(Use(bl2)) + Cardinality(Exclusive(bl, ca, s)) <= Cardinality(Use(bl))
<1> DEFINE X == Exclusive(bl, ca, s)
           U == Use(bl2)
<1>1. bl \in [Seqs -> Seq(Blocks)]
  BY DEF Mem, MemTypes
<1>2. bl2[s] = <<>> /\ \A r \in Seqs \ {s} : bl2[r] = bl[r]
  OBVIOUS
<1>3. Range(<<>>) = {}
  BY DEF Range
<1>4. X \subseteq Use(bl)
  <2>1. Range(bl[s]) \subseteq Blocks
    BY <1>1 DEF Range
  <2> QED BY <2>1 DEF Exclusive, Use
<1>5. U \subseteq Use(bl)
  <2> QED BY <1>2, <1>3 DEF Use
<1>6. X \cap U = {}
  <2> SUFFICES ASSUME NEW b \in X, b \in U PROVE FALSE
    OBVIOUS
  <2>1. PICK r \in Seqs : b \in Range(bl2[r])
    BY DEF Use
  <2>2. r # s /\ b \in Range(bl[r])
    <3> QED BY <1>2, <1>3, <2>1
  <2>3. b \in Range(bl[s]) /\ RefCount(bl, ca, b) <= 2
    BY DEF Exclusive
  <2>4. b \in Range(ca)
    BY <2>2, <2>3 DEF Mem, SharedIsCached
  <2>5. RefCount(bl, ca, b) > 2 /\ RefCount(bl, ca, b) \in Nat
    BY <2>2, <2>3, <2>4, References
  <2> QED BY <2>3, <2>5
<1> HIDE DEF X, U
<1>7. IsFiniteSet(Use(bl)) /\ Cardinality(Use(bl)) \in Nat
  BY UseIsFinite
<1>8. /\ IsFiniteSet(X) /\ IsFiniteSet(U) /\ Cardinality(X) \in Nat /\ Cardinality(U) \in Nat
  BY <1>4, <1>5, <1>7, FS_Subset, FS_CardinalityType
<1>9. /\ Cardinality(U \cup X) = Cardinality(U) + Cardinality(X) - Cardinality(U \cap X)
      /\ Cardinality(U \cap X) = 0
  <2>1. U \cap X = {}
    BY <1>6
  <2> QED BY <1>8, <2>1, FS_Union, FS_EmptySet
<1>10. Cardinality(U \cup X) <= Cardinality(Use(bl))
  <2>1. U \cup X \in SUBSET Use(bl)
    BY <1>4, <1>5
  <2> QED BY <1>7, <2>1, FS_Subset
<1>11. Cardinality(U) + Cardinality(X) <= Cardinality(Use(bl))
  BY <1>7, <1>8, <1>9, <1>10
<1> QED BY <1>8, <1>11 DEF X, U

\* The memory after an eviction.
LEMMA EvictedMem ==
    ASSUME NEW bl, NEW sh, NEW k, Mem(tokens, bl, sh, k, cached, content),
           NEW list, LruLists(list, cached), NEW n \in Int, NEW V, V = Victims(bl, list, n)
    PROVE  /\ Mem(tokens, bl, sh, k, Kept(V), content)
           /\ LruLists(Without(list, V), Kept(V)) /\ V \subseteq DOMAIN cached
           /\ DOMAIN Kept(V) = DOMAIN cached \ V /\ Range(Kept(V)) \subseteq Range(cached)
           /\ \A x \in V : /\ cached[x] \notin Range(Kept(V)) /\ cached[x] \in Blocks
                           /\ \A r \in Seqs : cached[x] \notin Range(bl[r])
<1> DEFINE ca == Kept(V)
           rest == Without(list, V)
<1>1. \A x \in V : x \in DOMAIN cached /\ \A r \in Seqs : cached[x] \notin Range(bl[r])
  BY VictimsAreOldest
<1>2. ca = Restrict(cached, DOMAIN cached \ V)
  BY DEF Kept
<1> HIDE DEF ca
<1>3. /\ Mem(tokens, bl, sh, k, ca, content)
      /\ \A x \in V : cached[x] \notin Range(ca)
      /\ DOMAIN ca = DOMAIN cached \ V
      /\ Range(ca) \subseteq Range(cached)
  BY <1>1, <1>2, EvictKeepsMem
<1>4. LruLists(rest, ca)
  <2>1. list \in Seq(DOMAIN cached) /\ Range(list) = DOMAIN cached /\ IsInjective(list)
    BY DEF LruLists
  <2>2. rest \in Seq(DOMAIN cached) /\ Range(rest) = DOMAIN cached \ V /\ IsInjective(rest)
    BY <2>1, WithoutQueue
  <2> HIDE DEF rest
  <2>3. rest \in Seq(Range(rest))
    <3>1. \A i \in 1 .. Len(rest) : rest[i] \in Range(rest)
      BY <2>2 DEF Range
    <3>2. Len(rest) \in Nat /\ rest \in [1 .. Len(rest) -> DOMAIN cached]
      BY <2>2
    <3> QED BY <3>1, <3>2
  <2> QED BY <1>3, <2>2, <2>3 DEF LruLists
<1>5. \A x \in V : cached[x] \in Blocks
  BY <1>1 DEF Mem, MemTypes
<1>6. /\ Mem(tokens, bl, sh, k, ca, content)
      /\ LruLists(rest, ca) /\ V \subseteq DOMAIN cached
      /\ DOMAIN ca = DOMAIN cached \ V /\ Range(ca) \subseteq Range(cached)
      /\ \A x \in V : /\ cached[x] \notin Range(ca) /\ cached[x] \in Blocks
                      /\ \A r \in Seqs : cached[x] \notin Range(bl[r])
  BY <1>1, <1>3, <1>4, <1>5
<1> QED BY <1>6 DEF ca

\* Blocks that the free list and evictions provide: nobody has them.
Provided(bl, V, extra, new) ==
    new \in Injection(1 .. extra, FreeBlocks(bl, cached) \cup {cached[x] : x \in V})

\* Blocks taken from the free list and from victims are nobody's.
LEMMA FreshBlocks ==
    ASSUME NEW bl, NEW sh, NEW k, Mem(tokens, bl, sh, k, cached, content),
           NEW list, LruLists(list, cached), NEW n \in Int, NEW V, V = Victims(bl, list, n),
           NEW extra \in Nat, NEW new, Provided(bl, V, extra, new)
    PROVE  /\ new \in Seq(Blocks) /\ Len(new) = extra /\ IsInjective(new)
           /\ \A b \in Range(new) :
                 /\ b \notin Range(Kept(V))
                 /\ \A r \in Seqs : b \notin Range(bl[r])
<1> DEFINE src == FreeBlocks(bl, cached) \cup {cached[x] : x \in V}
<1>1. /\ Range(Kept(V)) \subseteq Range(cached) /\ V \subseteq DOMAIN cached
      /\ \A x \in V : /\ cached[x] \notin Range(Kept(V)) /\ cached[x] \in Blocks
                      /\ \A r \in Seqs : cached[x] \notin Range(bl[r])
  BY EvictedMem
<1>2. IsFiniteSet(DOMAIN cached)
  BY CacheIsFinite
<1>i. new \in Injection(1 .. extra, src)
  BY DEF Provided
<1>3. ASSUME NEW b \in src
      PROVE  b \in Blocks /\ b \notin Range(Kept(V)) /\ \A r \in Seqs : b \notin Range(bl[r])
  <2>1. CASE b \in FreeBlocks(bl, cached)
    <3>1. b \in Blocks /\ RefCount(bl, cached, b) = 0
      BY <2>1 DEF FreeBlocks
    <3>2. b \notin Range(cached) /\ \A r \in Seqs : b \notin Range(bl[r])
      BY <1>2, <3>1, References
    <3> QED BY <1>1, <3>1, <3>2
  <2>2. CASE b \in {cached[x] : x \in V}
    <3>1. PICK x \in V : b = cached[x]
      BY <2>2
    <3> QED BY <1>1, <3>1
  <2> QED BY <2>1, <2>2
<1> HIDE DEF src
<1>4. new \in [1 .. extra -> src] /\ IsInjective(new) /\ DOMAIN new = 1 .. extra
  BY <1>i DEF Injection, IsInjective
<1>5. new \in [1 .. extra -> Blocks] /\ \A b \in Range(new) : b \in src
  BY <1>3, <1>4 DEF Range
<1>6. new \in Seq(Blocks)
  BY <1>5
<1>7. Len(new) = extra
  BY <1>4, <1>6, LenProperties
<1> QED BY <1>3, <1>4, <1>5, <1>6, <1>7

\* What Ready says, of the names that an allocation uses.
Start(s, st, bl, sh, k) ==
    /\ bl = [blocks EXCEPT ![s] = st.blocks] /\ sh = [shared EXCEPT ![s] = st.shared]
    /\ k = [kv EXCEPT ![s] = st.kv]

\* The memory that allocate starts from is sound.
LEMMA ReadyMem ==
    ASSUME IInv, NEW s \in Seqs, NEW st, Ready(s, st), NEW bl, NEW sh, NEW k, Start(s, st, bl, sh, k)
    PROVE  /\ Mem(tokens, bl, sh, k, cached, content) /\ LruLists(st.lru, cached)
           /\ bl \in [Seqs -> Seq(Blocks)] /\ sh \in [Seqs -> Nat] /\ k \in [Seqs -> Nat]
           /\ bl[s] = st.blocks /\ sh[s] = st.shared /\ k[s] = st.kv
           /\ \A r \in Seqs \ {s} : bl[r] = blocks[r] /\ sh[r] = shared[r] /\ k[r] = kv[r]
           /\ st.used \in Nat /\ st.used >= Cardinality(Use(bl)) /\ st.kv < Len(tokens[s])
           /\ st.blocks \in Seq(Blocks) /\ st.kv \in Nat /\ Len(st.blocks) \in Nat
<1>1. blocks \in [Seqs -> Seq(Blocks)] /\ shared \in [Seqs -> Nat] /\ kv \in [Seqs -> Nat]
  BY DEF IInv, TypeOK
<1>2. st.blocks \in Seq(Blocks) /\ st.shared \in Nat /\ st.kv \in Nat /\ st.used \in Nat
  BY DEF Ready
<1>3. Len(st.blocks) \in Nat
  BY <1>2
<1>4. Mem(tokens, bl, sh, k, cached, content) /\ LruLists(st.lru, cached)
  BY DEF Ready, Shared, Start
<1>5. st.used >= Cardinality(Use(bl)) /\ st.kv < Len(tokens[s])
  BY DEF Ready, Start
<1>6. /\ bl \in [Seqs -> Seq(Blocks)] /\ sh \in [Seqs -> Nat] /\ k \in [Seqs -> Nat]
      /\ bl[s] = st.blocks /\ sh[s] = st.shared /\ k[s] = st.kv
      /\ \A r \in Seqs \ {s} : bl[r] = blocks[r] /\ sh[r] = shared[r] /\ k[r] = kv[r]
  BY <1>1, <1>2 DEF Start
<1> QED BY <1>2, <1>3, <1>4, <1>5, <1>6

\* The state after an allocation that found its blocks.
LEMMA GrowKeepsIInv ==
    ASSUME IInv, workload' = workload, crashed = "no", NEW s \in Seqs, NEW st, Ready(s, st),
           Unfinished(s), NEW n \in Nat, st.kv < n, n <= Len(tokens[s]),
           NEW extra \in Nat, n <= (Len(st.blocks) + extra) * BlockSize,
           NEW d \in Int, NEW V, NEW bl, bl = [blocks EXCEPT ![s] = st.blocks],
           V = Victims(bl, st.lru, d), Grow(s, n, st, extra, FreeBlocks(bl, cached), V)
    PROVE  IInv'
<1> DEFINE sh == [shared EXCEPT ![s] = st.shared]
           k == [kv EXCEPT ![s] = st.kv]
           list == st.lru
           used == st.used
<1>1. PICK new \in Injection(1 .. extra, FreeBlocks(bl, cached) \cup {cached[x] : x \in V}) :
        /\ blocks' = [blocks EXCEPT ![s] = st.blocks \o new]
        /\ cached' = Kept(V)
        /\ lru' = Without(list, V)
        /\ num_used' = used + extra
        /\ scheduled' = [scheduled EXCEPT ![s] = n]
        /\ embedding' = embedding \cup {s}
        /\ kv' = k
        /\ shared' = sh
        /\ content' = Scrub(blocks', cached', Range(new))
        /\ UNCHANGED <<seqVars, crashed>>
  BY DEF Grow
<1>a. /\ V = Victims(bl, list, d) /\ list = st.lru /\ used = st.used
      /\ IInv /\ Ready(s, st) /\ s \in Seqs /\ extra \in Nat /\ d \in Int
      /\ Provided(bl, V, extra, new) /\ Start(s, st, bl, sh, k)
  BY DEF Provided, Start
<1> HIDE DEF sh, k, list, used
<1>r. /\ Mem(tokens, bl, sh, k, cached, content) /\ LruLists(list, cached)
      /\ bl \in [Seqs -> Seq(Blocks)] /\ sh \in [Seqs -> Nat] /\ k \in [Seqs -> Nat]
      /\ bl[s] = st.blocks /\ sh[s] = st.shared /\ k[s] = st.kv
      /\ \A r \in Seqs \ {s} : bl[r] = blocks[r] /\ sh[r] = shared[r] /\ k[r] = kv[r]
      /\ used \in Nat /\ used >= Cardinality(Use(bl)) /\ st.kv < Len(tokens[s])
      /\ st.blocks \in Seq(Blocks) /\ st.kv \in Nat /\ Len(st.blocks) \in Nat
  BY ONLY <1>a, ReadyMem
<1>t. blocks \in [Seqs -> Seq(Blocks)] /\ scheduled \in [Seqs -> Nat] /\ MaxTokens \in Nat
  BY PoolAssumption DEF IInv, TypeOK
<1>2. /\ new \in Seq(Blocks) /\ Len(new) = extra /\ IsInjective(new)
      /\ \A b \in Range(new) : b \notin Range(cached') /\ \A r \in Seqs : b \notin Range(bl[r])
  <2>1. /\ new \in Seq(Blocks) /\ Len(new) = extra /\ IsInjective(new)
        /\ \A b \in Range(new) : b \notin Range(Kept(V)) /\ \A r \in Seqs : b \notin Range(bl[r])
    BY ONLY <1>a, <1>r, FreshBlocks
  <2> QED BY <1>1, <2>1
<1>3. Mem(tokens, bl, sh, k, cached', content) /\ LruLists(lru', cached')
  <2>1. Mem(tokens, bl, sh, k, Kept(V), content) /\ LruLists(Without(list, V), Kept(V))
    BY ONLY <1>a, <1>r, EvictedMem
  <2> QED BY <1>1, <2>1
<1>s. /\ scheduled'[s] = n /\ scheduled' \in [Seqs -> Nat]
      /\ \A r \in Seqs \ {s} : scheduled'[r] = scheduled[r]
  BY <1>1, <1>t
<1>4. /\ blocks' \in [Seqs -> Seq(Blocks)] /\ blocks'[s] = bl[s] \o new
      /\ \A r \in Seqs \ {s} : blocks'[r] = bl[r]
  <2>1. st.blocks \o new \in Seq(Blocks)
    BY <1>2, <1>r
  <2> QED BY <1>1, <1>r, <1>t, <2>1
<1>x. Extended(bl, blocks', s, new)
  BY <1>4 DEF Extended
<1>5. /\ Mem(tokens, blocks', sh, k, cached', content)
      /\ Len(blocks'[s]) = Len(st.blocks) + extra /\ Range(blocks'[s]) = Range(bl[s]) \cup Range(new)
      /\ \A r \in Seqs : \A c \in 1 .. Len(blocks'[r]) : \A j \in Slots :
            Known(sh, k, r, c, j) => blocks'[r][c] \notin Range(new)
  <2>1. /\ Mem(tokens, blocks', sh, k, cached', content)
        /\ Len(blocks'[s]) = Len(bl[s]) + Len(new) /\ Range(blocks'[s]) = Range(bl[s]) \cup Range(new)
        /\ \A r \in Seqs : \A c \in 1 .. Len(blocks'[r]) : \A j \in Slots :
              Known(sh, k, r, c, j) => blocks'[r][c] \notin Range(new)
    BY ONLY <1>a, <1>2, <1>3, <1>x, GrowKeepsMem
  <2> QED BY <1>2, <1>r, <2>1
<1>6. Mem(tokens', blocks', shared', kv', cached', content')
  <2>1. Range(cached') \cap Range(new) = {}
    BY <1>2
  <2>2. IsFiniteSet(DOMAIN cached')
    BY <1>3, CacheIsFinite
  <2>3. Mem(tokens, blocks', sh, k, cached', Scrub(blocks', cached', Range(new)))
    BY <1>5, <2>1, <2>2, ScrubKeepsMem
  <2> QED BY <1>1, <2>3 DEF seqVars
<1>7. \A r \in Seqs : /\ Len(tokens'[r]) <= MaxTokens
                      /\ scheduled'[r] \in {0} \cup kv'[r] + 1 .. Len(tokens'[r])
                      /\ prefill_len'[r] <= Len(tokens'[r])
  <2> SUFFICES ASSUME NEW r \in Seqs
               PROVE  /\ Len(tokens[r]) <= MaxTokens
                      /\ scheduled'[r] \in {0} \cup k[r] + 1 .. Len(tokens[r])
                      /\ prefill_len[r] <= Len(tokens[r])
    BY <1>1 DEF seqVars
  <2>1. Len(tokens[r]) <= MaxTokens /\ prefill_len[r] <= Len(tokens[r])
        /\ scheduled[r] \in {0} \cup kv[r] + 1 .. Len(tokens[r])
    BY DEF IInv, TypeOK
  <2>2. CASE r = s
    <3>1. n \in st.kv + 1 .. Len(tokens[s])
      <4>1. Len(tokens[s]) \in Nat
        BY DEF IInv, TypeOK
      <4> QED BY <1>r, <4>1
    <3> QED BY <1>r, <1>s, <2>1, <2>2, <3>1
  <2>3. CASE r # s
    BY <1>r, <1>s, <2>1, <2>3
  <2> QED BY <2>2, <2>3
<1>8. Pending(tokens', blocks', scheduled', kv')
  <2> SUFFICES ASSUME NEW r \in Seqs
               PROVE  /\ tokens[r] # <<>> => k[r] < Len(tokens[r])
                      /\ scheduled'[r] > 0 => Len(tokens[r]) < MaxTokens
                                              /\ scheduled'[r] <= Len(blocks'[r]) * BlockSize
    BY <1>1 DEF Pending, seqVars
  <2>1. CASE r = s
    <3>1. Len(tokens[s]) < MaxTokens
      BY <1>t DEF Unfinished
    <3>2. n <= Len(blocks'[s]) * BlockSize
      BY <1>5
    <3> QED BY <1>r, <1>s, <2>1, <3>1, <3>2
  <2>2. CASE r # s
    <3>1. /\ tokens[r] # <<>> => kv[r] < Len(tokens[r])
          /\ scheduled[r] > 0 => Len(tokens[r]) < MaxTokens /\ scheduled[r] <= Len(blocks[r]) * BlockSize
      BY DEF IInv, Pending
    <3> QED BY <1>4, <1>r, <1>s, <2>2, <3>1
  <2> QED BY <2>1, <2>2
<1>9. num_used' \in Nat /\ num_used' >= Cardinality(Use(blocks'))
  <2>1. Use(blocks') \subseteq Use(bl) \cup Range(new)
    BY <1>4, <1>5 DEF Use
  <2>2. IsFiniteSet(Range(new)) /\ Cardinality(Range(new)) = extra
    BY <1>2, QueueCardinality
  <2>3. IsFiniteSet(Use(bl)) /\ Cardinality(Use(bl)) \in Nat /\ Cardinality(Use(blocks')) \in Nat
    BY UseIsFinite
  <2>4. IsFiniteSet(Use(bl) \cup Range(new))
        /\ Cardinality(Use(bl) \cup Range(new)) = Cardinality(Use(bl)) + extra - Cardinality(Use(bl) \cap Range(new))
    BY <2>2, <2>3, FS_Union
  <2>5. Cardinality(Use(bl) \cap Range(new)) \in Nat
    BY <2>3, FS_Intersection, FS_CardinalityType
  <2>6. Cardinality(Use(blocks')) <= Cardinality(Use(bl) \cup Range(new))
    BY <2>1, <2>4, FS_Subset
  <2>7. used + extra \in Nat /\ used + extra >= Cardinality(Use(blocks'))
    BY <1>r, <2>3, <2>4, <2>5, <2>6
  <2> QED BY <1>1, <2>7
<1>10. /\ workload' \in Workloads /\ prefill_len' \in [Seqs -> Nat] /\ prefill_cached' \subseteq Seqs
       /\ embedding' \subseteq Seqs /\ crashed' \in {"no", "insert_check"}
  BY <1>1 DEF IInv, TypeOK, seqVars
<1> QED BY <1>3, <1>6, <1>7, <1>8, <1>9, <1>10, <1>s, IInvAfter

\* The numbers of one sequence.
Counts(tk, bl, sch, k, pl, r) ==
    /\ Len(tk[r]) <= MaxTokens
    /\ sch[r] \in {0} \cup k[r] + 1 .. Len(tk[r])
    /\ pl[r] <= Len(tk[r])
    /\ tk[r] # <<>> => k[r] < Len(tk[r])
    /\ sch[r] > 0 => Len(tk[r]) < MaxTokens /\ sch[r] <= Len(bl[r]) * BlockSize

\* The counters of a sequence, from the invariant.
LEMMA CountsHold ==
    ASSUME IInv, NEW r \in Seqs
    PROVE  Counts(tokens, blocks, scheduled, kv, prefill_len, r)
<1>1. /\ Len(tokens[r]) <= MaxTokens /\ prefill_len[r] <= Len(tokens[r])
      /\ scheduled[r] \in {0} \cup kv[r] + 1 .. Len(tokens[r])
  BY DEF IInv, TypeOK
<1>2. /\ tokens[r] # <<>> => kv[r] < Len(tokens[r])
      /\ scheduled[r] > 0 => Len(tokens[r]) < MaxTokens /\ scheduled[r] <= Len(blocks[r]) * BlockSize
  BY DEF IInv, Pending
<1> QED BY <1>1, <1>2 DEF Counts

\* A step of s leaves the other sequences alone.
Others(s) ==
    \A r \in Seqs \ {s} : /\ tokens'[r] = tokens[r] /\ blocks'[r] = blocks[r] /\ kv'[r] = kv[r]
                          /\ scheduled'[r] = scheduled[r] /\ prefill_len'[r] = prefill_len[r]

\* A step of one sequence keeps the invariant if its own part holds.
LEMMA StepKeepsIInv ==
    ASSUME IInv, NEW s \in Seqs, Others(s),
           Counts(tokens', blocks', scheduled', kv', prefill_len', s),
           Mem(tokens', blocks', shared', kv', cached', content'), LruLists(lru', cached'),
           workload' = workload, scheduled' \in [Seqs -> Nat], prefill_len' \in [Seqs -> Nat],
           prefill_cached' \subseteq Seqs, embedding' \subseteq Seqs,
           num_used' \in Nat, num_used' >= Cardinality(Use(blocks')),
           crashed' \in {"no", "insert_check"}
    PROVE  IInv'
<1>1. ASSUME NEW r \in Seqs PROVE Counts(tokens', blocks', scheduled', kv', prefill_len', r)
  <2>1. CASE r = s
    BY <2>1
  <2>2. CASE r # s
    <3>1. Counts(tokens, blocks, scheduled, kv, prefill_len, r)
      BY CountsHold
    <3>2. /\ tokens'[r] = tokens[r] /\ blocks'[r] = blocks[r] /\ kv'[r] = kv[r]
          /\ scheduled'[r] = scheduled[r] /\ prefill_len'[r] = prefill_len[r]
      BY <2>2 DEF Others
    <3> QED BY <3>1, <3>2 DEF Counts
  <2> QED BY <2>1, <2>2
<1>2. \A r \in Seqs : /\ Len(tokens'[r]) <= MaxTokens
                      /\ scheduled'[r] \in {0} \cup kv'[r] + 1 .. Len(tokens'[r])
                      /\ prefill_len'[r] <= Len(tokens'[r])
  BY <1>1 DEF Counts
<1>3. Pending(tokens', blocks', scheduled', kv')
  BY <1>1 DEF Counts, Pending
<1>4. workload' \in Workloads
  BY DEF IInv, TypeOK
<1> QED BY <1>2, <1>3, <1>4, IInvAfter

\* The state after an allocation that failed.
LEMMA GiveUpKeepsIInv ==
    ASSUME IInv, workload' = workload, crashed = "no", NEW s \in Seqs, NEW st, Ready(s, st),
           scheduled[s] = 0, NEW empty, NEW d \in Int, NEW V, NEW bl,
           bl = [blocks EXCEPT ![s] = st.blocks], V = Victims(bl, st.lru, d), GiveUp(s, st, empty, V)
    PROVE  IInv'
<1> DEFINE sh == [shared EXCEPT ![s] = st.shared]
           k == [kv EXCEPT ![s] = st.kv]
           list == st.lru
           used == st.used
           X == Cardinality(Exclusive(bl, Kept(V), s))
<1>1. /\ cached' = Kept(V)
      /\ lru' = Without(list, V)
      /\ content' = Scrub(blocks', cached', {})
      /\ UNCHANGED <<tokens, scheduled, prefill_cached, crashed>>
  BY DEF GiveUp
<1>2. ASSUME empty
      PROVE  /\ blocks' = [blocks EXCEPT ![s] = <<>>] /\ shared' = [shared EXCEPT ![s] = 0]
             /\ kv' = [kv EXCEPT ![s] = 0] /\ num_used' = used - X
             /\ prefill_len' = [prefill_len EXCEPT ![s] = Len(tokens[s])]
             /\ UNCHANGED embedding
  BY <1>2 DEF GiveUp
<1>3. ASSUME ~empty
      PROVE  blocks' = bl /\ shared' = sh /\ kv' = k /\ num_used' = used
             /\ embedding' = embedding \cup {s} /\ UNCHANGED prefill_len
  BY <1>3 DEF GiveUp
<1>a. /\ V = Victims(bl, list, d) /\ list = st.lru /\ used = st.used
      /\ IInv /\ Ready(s, st) /\ s \in Seqs /\ d \in Int /\ Start(s, st, bl, sh, k)
  BY DEF Start
<1> HIDE DEF sh, k, list, used, X
<1>r. /\ Mem(tokens, bl, sh, k, cached, content) /\ LruLists(list, cached)
      /\ bl \in [Seqs -> Seq(Blocks)] /\ sh \in [Seqs -> Nat] /\ k \in [Seqs -> Nat]
      /\ bl[s] = st.blocks /\ sh[s] = st.shared /\ k[s] = st.kv
      /\ \A r \in Seqs \ {s} : bl[r] = blocks[r] /\ sh[r] = shared[r] /\ k[r] = kv[r]
      /\ used \in Nat /\ used >= Cardinality(Use(bl)) /\ st.kv < Len(tokens[s])
      /\ st.blocks \in Seq(Blocks) /\ st.kv \in Nat /\ Len(st.blocks) \in Nat
  BY ONLY <1>a, ReadyMem
<1>t. /\ blocks \in [Seqs -> Seq(Blocks)] /\ shared \in [Seqs -> Nat] /\ kv \in [Seqs -> Nat]
      /\ scheduled \in [Seqs -> Nat] /\ prefill_len \in [Seqs -> Nat] /\ tokens \in [Seqs -> Seq(Tokens)]
      /\ prefill_cached \subseteq Seqs /\ embedding \subseteq Seqs /\ Len(tokens[s]) \in Nat
  BY DEF IInv, TypeOK
<1>c. Len(tokens[s]) <= MaxTokens /\ prefill_len[s] <= Len(tokens[s])
  BY CountsHold DEF Counts
<1>4. Mem(tokens, bl, sh, k, cached', content) /\ LruLists(lru', cached') /\ IsFiniteSet(DOMAIN cached')
  <2>1. Mem(tokens, bl, sh, k, Kept(V), content) /\ LruLists(Without(list, V), Kept(V))
    BY ONLY <1>a, <1>r, EvictedMem
  <2>2. Mem(tokens, bl, sh, k, cached', content) /\ LruLists(lru', cached')
    BY <1>1, <2>1
  <2> QED BY <2>2, CacheIsFinite
<1>5. ASSUME Mem(tokens, blocks', shared', kv', cached', content)
      PROVE  Mem(tokens', blocks', shared', kv', cached', content')
  <2>1. Mem(tokens, blocks', shared', kv', cached', Scrub(blocks', cached', {}))
    BY ONLY <1>4, <1>5, ScrubKeepsMem
  <2> QED BY <1>1, <2>1
<1>6. /\ scheduled' \in [Seqs -> Nat] /\ prefill_cached' \subseteq Seqs /\ crashed' \in {"no", "insert_check"}
      /\ scheduled'[s] = 0 /\ tokens' = tokens
  BY <1>1, <1>t
<1>7. CASE empty
  <2>1. /\ blocks'[s] = <<>> /\ shared'[s] = 0 /\ kv'[s] = 0 /\ prefill_len'[s] = Len(tokens[s])
        /\ \A r \in Seqs \ {s} : blocks'[r] = bl[r] /\ shared'[r] = sh[r] /\ kv'[r] = k[r]
        /\ prefill_len' \in [Seqs -> Nat] /\ \A r \in Seqs \ {s} : prefill_len'[r] = prefill_len[r]
        /\ blocks' \in [Seqs -> Seq(Blocks)] /\ shared' \in [Seqs -> Nat] /\ kv' \in [Seqs -> Nat]
    <3>1. blocks'[s] = <<>> /\ blocks' \in [Seqs -> Seq(Blocks)] /\ \A r \in Seqs \ {s} : blocks'[r] = blocks[r]
      <4>1. blocks' = [blocks EXCEPT ![s] = <<>>]
        BY <1>2, <1>7
      <4> QED BY ONLY <1>t, <4>1
    <3>2. /\ shared'[s] = 0 /\ shared' \in [Seqs -> Nat] /\ \A r \in Seqs \ {s} : shared'[r] = shared[r]
          /\ kv'[s] = 0 /\ kv' \in [Seqs -> Nat] /\ \A r \in Seqs \ {s} : kv'[r] = kv[r]
      BY <1>2, <1>7, <1>t
    <3>3. /\ prefill_len' \in [Seqs -> Nat] /\ prefill_len'[s] = Len(tokens[s])
          /\ \A r \in Seqs \ {s} : prefill_len'[r] = prefill_len[r]
      BY <1>2, <1>7, <1>t
    <3> QED BY <1>r, <3>1, <3>2, <3>3
  <2>2. Mem(tokens', blocks', shared', kv', cached', content')
    <3>1. Released(tokens, bl, sh, k, tokens, blocks', shared', kv', s)
      BY <1>t, <2>1 DEF Released
    <3>2. Mem(tokens, blocks', shared', kv', cached', content)
      BY ONLY <1>4, <1>a, <3>1, ReleaseKeepsMem
    <3> QED BY <1>5, <3>2
  <2>3. num_used' \in Nat /\ num_used' >= Cardinality(Use(blocks'))
    <3>1. /\ Cardinality(Exclusive(bl, cached', s)) \in Nat
          /\ Cardinality(Use(blocks')) + Cardinality(Exclusive(bl, cached', s)) <= Cardinality(Use(bl))
      BY <1>4, <2>1, ReleaseIsCounted
    <3>2. X \in Nat /\ Cardinality(Use(blocks')) + X <= Cardinality(Use(bl))
      BY <1>1, <3>1 DEF X
    <3>3. Cardinality(Use(blocks')) \in Nat /\ Cardinality(Use(bl)) \in Nat
      BY UseIsFinite
    <3> QED BY <1>2, <1>7, <1>r, <3>2, <3>3
  <2>4. Others(s)
    BY <1>1, <1>r, <2>1 DEF Others
  <2>5. Counts(tokens', blocks', scheduled', kv', prefill_len', s)
    BY <1>6, <1>c, <1>r, <1>t, <2>1 DEF Counts
  <2>6. embedding' \subseteq Seqs
    BY <1>2, <1>7, <1>t
  <2> QED BY <1>4, <1>6, <2>1, <2>2, <2>3, <2>4, <2>5, <2>6, StepKeepsIInv
<1>8. CASE ~empty
  <2>1. Mem(tokens', blocks', shared', kv', cached', content')
    BY <1>3, <1>4, <1>5, <1>8
  <2>2. num_used' \in Nat /\ num_used' >= Cardinality(Use(blocks'))
    BY <1>3, <1>8, <1>r
  <2>3. Others(s)
    BY <1>1, <1>3, <1>8, <1>r DEF Others
  <2>4. Counts(tokens', blocks', scheduled', kv', prefill_len', s)
    BY <1>3, <1>6, <1>8, <1>c, <1>r, <1>t DEF Counts
  <2>5. embedding' \subseteq Seqs /\ prefill_len' \in [Seqs -> Nat]
    BY <1>3, <1>8, <1>t
  <2> QED BY <1>4, <1>6, <2>1, <2>2, <2>3, <2>4, <2>5, StepKeepsIInv
<1> QED BY <1>7, <1>8

\* The free blocks can be counted.
LEMMA FreeCount ==
    ASSUME NEW bl, NEW ca
    PROVE  Cardinality(FreeBlocks(bl, ca)) \in Nat
<1>1. FreeBlocks(bl, ca) \subseteq Blocks
  BY DEF FreeBlocks
<1> QED BY <1>1, PoolAssumption, FS_Subset, FS_CardinalityType

\* BlockManagerPool::allocate.
LEMMA AllocateFromKeepsIInv ==
    ASSUME IInv, workload' = workload, crashed = "no", NEW s \in Seqs, NEW st, Ready(s, st),
           Unfinished(s), scheduled[s] = 0, NEW n \in Nat, st.kv < n, n <= Len(tokens[s]),
           NEW empty, AllocateFrom(s, n, st, empty)
    PROVE  IInv'
<1> DEFINE bl == [blocks EXCEPT ![s] = st.blocks]
           needed == NumBlocksFor(n)
           extra == IF needed <= Len(st.blocks) THEN 0 ELSE needed - Len(st.blocks)
           free == FreeBlocks(bl, cached)
           d == extra - Cardinality(free)
           V == Victims(bl, st.lru, d)
<1>1. Grow(s, n, st, extra, free, V) \/ GiveUp(s, st, empty, V)
  BY DEF AllocateFrom
<1>w. needed \in Nat /\ n <= needed * BlockSize
  BY WholeBlocks
<1>2. needed \in Nat /\ Len(st.blocks) \in Nat
  <2>1. st.blocks \in Seq(Blocks)
    BY DEF Ready
  <2> QED BY <1>w, <2>1
<1> HIDE DEF needed
<1>3. extra \in Nat /\ needed <= Len(st.blocks) + extra
  <2> DEFINE m == Len(st.blocks)
  <2> HIDE DEF m
  <2>1. needed \in Nat /\ m \in Nat
    BY <1>2 DEF m
  <2>2. extra = IF needed <= m THEN 0 ELSE needed - m
    BY DEF m
  <2> HIDE DEF extra
  <2>3. extra \in Nat /\ needed <= m + extra
    BY ONLY <2>1, <2>2
  <2> QED BY <2>3 DEF m
<1> HIDE DEF extra
<1>4. n <= (Len(st.blocks) + extra) * BlockSize
  <2> DEFINE m == Len(st.blocks) + extra
             x == needed * BlockSize
             y == m * BlockSize
  <2>1. m \in Nat /\ needed <= m
    BY <1>2, <1>3
  <2> HIDE DEF m
  <2>2. x <= y /\ x \in Nat /\ y \in Nat
    BY <1>2, <2>1, Multiples
  <2>3. n <= x
    BY <1>w
  <2>4. n <= y
    <3> HIDE DEF x, y
    <3> QED BY <2>2, <2>3
  <2> QED BY <2>4 DEF m
<1>5. d \in Int
  <2>1. Cardinality(free) \in Nat
    BY FreeCount
  <2> HIDE DEF free
  <2> QED BY <1>3, <2>1
<1> HIDE DEF d
<1>6. CASE Grow(s, n, st, extra, free, V)
  BY <1>3, <1>4, <1>5, <1>6, GrowKeepsIInv
<1>7. CASE GiveUp(s, st, empty, V)
  BY <1>5, <1>7, GiveUpKeepsIInv
<1> QED BY <1>1, <1>6, <1>7

\* allocate for all tokens of a sequence.
LEMMA AllocateKeepsIInv ==
    ASSUME IInv, workload' = workload, crashed = "no", NEW s \in Seqs, Allocate(s)
    PROVE  IInv'
<1> DEFINE n == Len(tokens[s])
<1>1. Unfinished(s) /\ scheduled[s] = 0
  BY DEF Allocate
<1>2. tokens[s] \in Seq(Tokens) /\ n \in Nat /\ n > 0
  BY <1>1 DEF Unfinished, IInv, TypeOK
<1>3. tokens[s] # <<>>
  BY <1>2
<1>4. Ready(s, AllocateShared(s)) /\ Ready(s, Unshared(s))
  BY <1>3, UnsharedIsReady, AllocateSharedIsReady
<1>5. \E st, empty : Ready(s, st) /\ AllocateFrom(s, n, st, empty)
  BY <1>4 DEF Allocate
<1>6. PICK st, empty : Ready(s, st) /\ AllocateFrom(s, n, st, empty)
  BY <1>5
<1>7. st.kv < n /\ n <= Len(tokens[s])
  BY <1>2, <1>6 DEF Ready
<1> HIDE DEF n
<1> QED BY <1>1, <1>2, <1>6, <1>7, AllocateFromKeepsIInv

\* A higher usage count is as good.
LEMMA MoreUsedIsReady ==
    ASSUME NEW s \in Seqs, NEW u \in Nat, NEW st, Ready(s, st), st.used <= u,
           DOMAIN st = {"blocks", "shared", "kv", "used", "lru"}
    PROVE  Ready(s, [st EXCEPT !.used = u])
<1> DEFINE st2 == [st EXCEPT !.used = u]
<1>1. /\ st2.blocks = st.blocks /\ st2.shared = st.shared /\ st2.kv = st.kv /\ st2.lru = st.lru
      /\ st2.used = u
  OBVIOUS
<1> HIDE DEF st2
<1>2. st2.used \in Nat /\ st2.used >= Cardinality(Use([blocks EXCEPT ![s] = st2.blocks]))
  <2> DEFINE c == Cardinality(Use([blocks EXCEPT ![s] = st.blocks]))
  <2>1. c \in Nat
    BY UseIsFinite
  <2>2. st.used \in Nat /\ st.used >= c
    BY DEF Ready
  <2> HIDE DEF c
  <2>3. u >= c
    BY <2>1, <2>2
  <2> QED BY <1>1, <2>3 DEF c
<1>3. Ready(s, st2)
  BY <1>1, <1>2 DEF Ready
<1> QED BY <1>3 DEF st2

\* The fields of the state that allocate starts from.
LEMMA StateFields ==
    ASSUME NEW s \in Seqs
    PROVE  /\ DOMAIN AllocateShared(s) = {"blocks", "shared", "kv", "used", "lru"}
           /\ DOMAIN Unshared(s) = {"blocks", "shared", "kv", "used", "lru"}
<1>1. \A a, b, c, d, e : DOMAIN [blocks |-> a, shared |-> b, kv |-> c, used |-> d, lru |-> e]
                           = {"blocks", "shared", "kv", "used", "lru"}
  OBVIOUS
<1>2. DOMAIN Unshared(s) = {"blocks", "shared", "kv", "used", "lru"}
  BY DEF Unshared
<1>3. DOMAIN AllocateShared(s) = {"blocks", "shared", "kv", "used", "lru"}
  BY DEF AllocateShared
<1> QED BY <1>2, <1>3

\* A match without an allocation.
LEMMA MatchKeepsIInv ==
    ASSUME IInv, workload' = workload, crashed = "no", NEW s \in Seqs, NEW st, Ready(s, st),
           scheduled[s] = 0, Start(s, st, blocks', shared', kv'), num_used' = st.used, lru' = st.lru,
           content' = Scrub(blocks', cached, {}),
           UNCHANGED <<seqVars, scheduled, embedding, cached, crashed>>
    PROVE  IInv'
<1>1. tokens' = tokens /\ prefill_len' = prefill_len /\ scheduled' = scheduled /\ cached' = cached
  BY DEF seqVars
<1>r. /\ Mem(tokens, blocks', shared', kv', cached, content) /\ LruLists(st.lru, cached)
      /\ kv'[s] = st.kv
      /\ \A r \in Seqs \ {s} : blocks'[r] = blocks[r] /\ kv'[r] = kv[r]
      /\ st.used \in Nat /\ st.used >= Cardinality(Use(blocks')) /\ st.kv < Len(tokens[s]) /\ st.kv \in Nat
  BY ReadyMem
<1>2. Mem(tokens, blocks', shared', kv', cached, Scrub(blocks', cached, {}))
  <2>1. IsFiniteSet(DOMAIN cached)
    BY <1>r, CacheIsFinite
  <2> QED BY ONLY <1>r, <2>1, ScrubKeepsMem
<1>3. Mem(tokens', blocks', shared', kv', cached', content') /\ LruLists(lru', cached')
  BY <1>1, <1>2, <1>r
<1>4. Others(s)
  BY <1>1, <1>r DEF Others
<1>5. Counts(tokens', blocks', scheduled', kv', prefill_len', s)
  <2>1. Len(tokens[s]) <= MaxTokens /\ prefill_len[s] <= Len(tokens[s])
    BY CountsHold DEF Counts
  <2> QED BY <1>1, <1>r, <2>1 DEF Counts
<1>6. /\ scheduled' \in [Seqs -> Nat] /\ prefill_len' \in [Seqs -> Nat] /\ prefill_cached' \subseteq Seqs
      /\ embedding' \subseteq Seqs /\ crashed' \in {"no", "insert_check"}
  BY DEF seqVars, IInv, TypeOK
<1>7. num_used' \in Nat /\ num_used' >= Cardinality(Use(blocks'))
  BY <1>r
<1> QED BY <1>3, <1>4, <1>5, <1>6, <1>7, StepKeepsIInv

\* allocate for a chunk, with or without matching again.
LEMMA AllocateChunkKeepsIInv ==
    ASSUME IInv, workload' = workload, crashed = "no", NEW s \in Seqs, NEW n \in 1 .. MaxTokens,
           NEW rematch \in BOOLEAN, AllocateChunk(s, n, rematch)
    PROVE  IInv'
<1> DEFINE first == IF rematch \/ blocks[s] = <<>> THEN AllocateShared(s) ELSE Unshared(s)
           more == [first EXCEPT !.used = @ + (first.used - num_used)]
           st == IF first.blocks = <<>> THEN more ELSE first
<1>1. Unfinished(s) /\ scheduled[s] = 0
  BY DEF AllocateChunk
<1>2. tokens[s] # <<>> /\ n \in Nat /\ Len(tokens[s]) \in Nat
  BY <1>1, PoolAssumption DEF Unfinished, IInv, TypeOK
<1>3. n \in st.kv + 1 .. Len(tokens[s])
  BY DEF AllocateChunk
<1>4. \/ AllocateFrom(s, n, st, st.blocks = <<>>)
      \/ /\ blocks' = [blocks EXCEPT ![s] = first.blocks]
         /\ shared' = [shared EXCEPT ![s] = first.shared]
         /\ kv' = [kv EXCEPT ![s] = first.kv]
         /\ num_used' = first.used
         /\ lru' = first.lru
         /\ content' = Scrub(blocks', cached, {})
         /\ UNCHANGED <<seqVars, scheduled, embedding, cached, crashed>>
  BY DEF AllocateChunk
<1>5. Ready(s, first) /\ first.used >= num_used /\ DOMAIN first = {"blocks", "shared", "kv", "used", "lru"}
  <2>1. Unshared(s).used = num_used /\ num_used \in Nat
    BY DEF Unshared, IInv, TypeOK
  <2> QED BY <1>2, <2>1, UnsharedIsReady, AllocateSharedIsReady, StateFields
<1> HIDE DEF first
<1>6. Ready(s, st)
  <2>1. first.used \in Nat /\ num_used \in Nat
    BY <1>5 DEF Ready, IInv, TypeOK
  <2> DEFINE u == first.used + (first.used - num_used)
  <2>2. u \in Nat /\ first.used <= u
    BY <1>5, <2>1
  <2>3. more = [first EXCEPT !.used = u]
    OBVIOUS
  <2> HIDE DEF u, more
  <2>4. Ready(s, [first EXCEPT !.used = u])
    BY ONLY <1>5, <2>2, MoreUsedIsReady, s \in Seqs
  <2> QED BY <1>5, <2>3, <2>4
<1> HIDE DEF st
<1>7. CASE AllocateFrom(s, n, st, st.blocks = <<>>)
  <2>1. st.kv < n /\ n <= Len(tokens[s])
    <3>1. st.kv \in Nat
      BY <1>6 DEF Ready
    <3> QED BY <1>2, <1>3, <3>1
  <2> QED BY <1>1, <1>2, <1>6, <1>7, <2>1, AllocateFromKeepsIInv
<1>8. CASE /\ blocks' = [blocks EXCEPT ![s] = first.blocks]
           /\ shared' = [shared EXCEPT ![s] = first.shared]
           /\ kv' = [kv EXCEPT ![s] = first.kv]
           /\ num_used' = first.used
           /\ lru' = first.lru
           /\ content' = Scrub(blocks', cached, {})
           /\ UNCHANGED <<seqVars, scheduled, embedding, cached, crashed>>
  <2>1. Start(s, first, blocks', shared', kv')
    BY <1>8 DEF Start
  <2> QED BY <1>1, <1>5, <1>8, <2>1, MatchKeepsIInv
<1> QED BY <1>4, <1>7, <1>8

-----------------------------------------------------------------------------
\* A sequence whose tokens are the old ones and perhaps more.
Longer(tk, tk2, s) ==
    /\ tk2 \in [Seqs -> Seq(Tokens)] /\ \A r \in Seqs \ {s} : tk2[r] = tk[r]
    /\ Len(tk[s]) <= Len(tk2[s])
    /\ \A m \in 0 .. Len(tk[s]) : SubSeq(tk2[s], 1, m) = SubSeq(tk[s], 1, m)

\* A token more changes nothing that is known of the blocks.
LEMMA LongerKeepsMem ==
    ASSUME NEW tk, NEW bl, NEW sh, NEW k, NEW ca, NEW co, Mem(tk, bl, sh, k, ca, co),
           NEW s \in Seqs, NEW tk2, Longer(tk, tk2, s)
    PROVE  Mem(tk2, bl, sh, k, ca, co)
<1>1. /\ tk2 \in [Seqs -> Seq(Tokens)] /\ \A r \in Seqs \ {s} : tk2[r] = tk[r]
      /\ Len(tk[s]) <= Len(tk2[s]) /\ Len(tk[s]) \in Nat /\ Len(tk2[s]) \in Nat
      /\ \A m \in 0 .. Len(tk[s]) : SubSeq(tk2[s], 1, m) = SubSeq(tk[s], 1, m)
  BY DEF Longer, Mem, MemTypes
<1>2. MemTypes(tk2, bl, sh, k, ca, co)
  BY <1>1 DEF Mem, MemTypes
<1>3. sh[s] \in Nat /\ k[s] \in Nat /\ sh[s] * BlockSize <= Len(tk[s]) /\ k[s] <= Len(tk[s])
  BY DEF Mem, MemTypes, Tables
<1>4. Tables(tk2, bl, sh, k)
  <2> SUFFICES ASSUME NEW r \in Seqs
               PROVE  /\ IsInjective(bl[r])
                      /\ sh[r] <= Len(bl[r]) /\ sh[r] * BlockSize <= Len(tk2[r])
                      /\ k[r] <= Len(bl[r]) * BlockSize /\ k[r] <= Len(tk2[r])
    BY DEF Tables
  <2>1. /\ IsInjective(bl[r])
        /\ sh[r] <= Len(bl[r]) /\ sh[r] * BlockSize <= Len(tk[r])
        /\ k[r] <= Len(bl[r]) * BlockSize /\ k[r] <= Len(tk[r])
    BY DEF Mem, Tables
  <2>2. CASE r # s
    BY <1>1, <2>1, <2>2
  <2>3. CASE r = s
    <3> DEFINE x == sh[s] * BlockSize
    <3>1. x \in Nat /\ x <= Len(tk[s])
      BY <1>3, Multiples
    <3>2. x <= Len(tk2[s]) /\ k[s] <= Len(tk2[s])
      <4> HIDE DEF x
      <4> QED BY <1>1, <1>3, <3>1
    <3> QED BY <2>1, <2>3, <3>2
  <2> QED BY <2>2, <2>3
<1>5. TablesKV(tk2, bl, sh, k, co)
  <2> SUFFICES ASSUME NEW r \in Seqs, NEW c \in 1 .. Len(bl[r]), NEW j \in Slots, Known(sh, k, r, c, j)
               PROVE  co[bl[r][c]][j] = SubSeq(tk2[r], 1, At(c, j) + 1)
    BY DEF TablesKV
  <2>1. co[bl[r][c]][j] = SubSeq(tk[r], 1, At(c, j) + 1)
    BY DEF Mem, TablesKV
  <2>2. CASE r # s
    BY <1>1, <2>1, <2>2
  <2>3. CASE r = s
    <3>1. c \in Nat \ {0}
      BY DEF Mem, MemTypes
    <3>2. At(c, j) \in Nat /\ At(c, j) < c * BlockSize
      BY <3>1, Positions
    <3>3. At(c, j) < Len(tk[s])
      <4>1. CASE At(c, j) < k[s]
        BY <1>1, <1>3, <3>2, <4>1
      <4>2. CASE c <= sh[s]
        <5> DEFINE x == c * BlockSize
                   y == sh[s] * BlockSize
        <5>1. x <= y /\ x \in Nat /\ y \in Nat
          BY <1>3, <3>1, <4>2, Multiples
        <5>2. At(c, j) < x /\ y <= Len(tk[s])
          BY <1>3, <3>2
        <5> HIDE DEF x, y
        <5> QED BY <1>1, <3>2, <5>1, <5>2
      <4> QED BY <2>3, <4>1, <4>2 DEF Known
    <3>4. At(c, j) + 1 \in 0 .. Len(tk[s])
      BY <1>1, <3>2, <3>3
    <3> QED BY <1>1, <2>1, <2>3, <3>4
  <2> QED BY <2>2, <2>3
<1> QED BY <1>2, <1>4, <1>5 DEF Mem

\* A new request.
LEMMA NewSequenceKeepsIInv ==
    ASSUME IInv, workload' = workload, crashed = "no", NEW s \in Seqs, NEW p \in workload.prompts,
           NewSequence(s, p)
    PROVE  IInv'
<1>1. /\ tokens[s] = <<>> /\ tokens' = [tokens EXCEPT ![s] = p]
      /\ prefill_len' = [prefill_len EXCEPT ![s] = Len(p)]
      /\ UNCHANGED <<scheduled, kv, blocks, shared, prefill_cached, embedding,
                     cached, lru, num_used, crashed, content>>
  BY DEF NewSequence
<1>2. p \in Seq(Tokens) /\ Len(p) \in Nat /\ 0 < Len(p) /\ Len(p) < MaxTokens /\ MaxTokens \in Nat
  <2>1. workload \in Workloads
    BY DEF IInv, TypeOK
  <2>2. p \in Seq(Tokens) /\ Len(p) \in 1 .. MaxTokens - 1
    BY <2>1, WorkloadsAssumption
  <2> QED BY <2>2, PoolAssumption
<1>t. /\ tokens \in [Seqs -> Seq(Tokens)] /\ prefill_len \in [Seqs -> Nat] /\ kv \in [Seqs -> Nat]
      /\ scheduled \in [Seqs -> Nat] /\ kv[s] <= Len(tokens[s])
      /\ scheduled[s] \in {0} \cup kv[s] + 1 .. Len(tokens[s])
  BY DEF IInv, TypeOK
<1>3. kv[s] = 0 /\ scheduled[s] = 0 /\ Len(tokens[s]) = 0
  BY <1>1, <1>t
<1>4. /\ tokens' \in [Seqs -> Seq(Tokens)] /\ tokens'[s] = p /\ \A r \in Seqs \ {s} : tokens'[r] = tokens[r]
      /\ prefill_len' \in [Seqs -> Nat] /\ prefill_len'[s] = Len(p)
      /\ \A r \in Seqs \ {s} : prefill_len'[r] = prefill_len[r]
  BY <1>1, <1>2, <1>t
<1>5. Longer(tokens, tokens', s)
  <2>1. SubSeq(p, 1, 0) = SubSeq(<<>>, 1, 0)
    <3>1. 0 \in 0 .. Len(p) /\ <<>> \in Seq(Tokens) /\ 0 \in 0 .. Len(<<>>)
      BY <1>2
    <3>2. SubSeq(p, 1, 0) \in Seq(Tokens) /\ Len(SubSeq(p, 1, 0)) = 0
      BY <1>2, <3>1, Prefixes
    <3>3. SubSeq(<<>>, 1, 0) \in Seq(Tokens) /\ Len(SubSeq(<<>>, 1, 0)) = 0
      BY <3>1, Prefixes
    <3> QED BY <3>2, <3>3, EmptySeq
  <2>2. \A m \in 0 .. 0 : m = 0
    OBVIOUS
  <2> QED BY <1>1, <1>2, <1>3, <1>4, <2>1, <2>2 DEF Longer
<1>6. Mem(tokens', blocks', shared', kv', cached', content') /\ LruLists(lru', cached')
  <2>1. Mem(tokens, blocks, shared, kv, cached, content) /\ LruLists(lru, cached)
    BY DEF IInv, TypeOK, LruLists
  <2>2. Mem(tokens', blocks, shared, kv, cached, content)
    BY <1>5, <2>1, LongerKeepsMem
  <2> QED BY <1>1, <2>1, <2>2
<1>7. Counts(tokens', blocks', scheduled', kv', prefill_len', s)
  BY <1>1, <1>2, <1>3, <1>4 DEF Counts
<1>8. Others(s)
  BY <1>1, <1>4 DEF Others
<1>9. /\ prefill_cached' \subseteq Seqs /\ embedding' \subseteq Seqs /\ num_used' \in Nat
      /\ num_used' >= Cardinality(Use(blocks')) /\ scheduled' \in [Seqs -> Nat]
      /\ crashed' \in {"no", "insert_check"}
  BY <1>1 DEF IInv, TypeOK
<1> QED BY <1>4, <1>6, <1>7, <1>8, <1>9, StepKeepsIInv

\* The slots a forward pass writes: each position has one.
LEMMA WrittenSlots ==
    ASSUME IInv, NEW s \in Seqs, scheduled[s] > 0, NEW b, NEW j \in Slots
    PROVE  /\ \A c \in 1 .. Len(blocks[s]) : blocks[s][c] = b =>
                 Written(s, b, j) = IF kv[s] <= At(c, j) /\ At(c, j) < scheduled[s]
                                      THEN {At(c, j)} ELSE {}
           /\ b \notin Range(blocks[s]) => Written(s, b, j) = {}
<1> DEFINE t == blocks[s]
           W == Written(s, b, j)
<1>1. /\ t \in Seq(Blocks) /\ Len(t) \in Nat /\ DOMAIN t = 1 .. Len(t) /\ kv[s] \in Nat
      /\ scheduled[s] \in Nat
  BY DEF IInv, TypeOK
<1>2. IsInjective(t) /\ scheduled[s] <= Len(t) * BlockSize
  BY DEF IInv, Mem, Tables, Pending
<1>3. W = {i \in kv[s] .. scheduled[s] - 1 : i % BlockSize = j /\ t[i \div BlockSize + 1] = b}
  BY DEF Written
<1> HIDE DEF t, W
<1>4. ASSUME NEW i \in W
      PROVE  /\ i \in Nat /\ kv[s] <= i /\ i < scheduled[s]
             /\ \E c \in 1 .. Len(t) : t[c] = b /\ i = At(c, j)
  <2>1. i \in Nat /\ kv[s] <= i /\ i < scheduled[s] /\ i % BlockSize = j /\ t[i \div BlockSize + 1] = b
    BY <1>1, <1>3
  <2> DEFINE q == i \div BlockSize
  <2>2. q \in Nat /\ At(q + 1, j) = i
    BY <2>1, Coordinates
  <2>3. Len(t) <= q <=> Len(t) * BlockSize <= i
    BY <1>1, <2>1, WholeBlocks
  <2>4. ~(Len(t) * BlockSize <= i)
    <3> DEFINE x == Len(t) * BlockSize
    <3>1. x \in Nat /\ scheduled[s] <= x
      BY <1>1, <1>2, Multiples
    <3> HIDE DEF x
    <3>2. ~(x <= i)
      BY <1>1, <2>1, <3>1
    <3> QED BY <3>2 DEF x
  <2>5. t[q + 1] = b
    BY <2>1
  <2> HIDE DEF q
  <2>6. q + 1 \in 1 .. Len(t)
    BY <1>1, <2>2, <2>3, <2>4
  <2> QED BY <2>1, <2>2, <2>5, <2>6
<1>5. ASSUME NEW c \in 1 .. Len(t), t[c] = b, kv[s] <= At(c, j), At(c, j) < scheduled[s] PROVE At(c, j) \in W
  <2>1. c \in Nat \ {0}
    BY <1>1
  <2>2. At(c, j) \in Nat /\ At(c, j) \div BlockSize + 1 = c /\ At(c, j) % BlockSize = j
    BY <2>1, Positions
  <2>3. At(c, j) \in kv[s] .. scheduled[s] - 1
    BY <1>1, <1>5, <2>2
  <2> QED BY <1>3, <1>5, <2>2, <2>3
<1>6. ASSUME NEW c \in 1 .. Len(t), t[c] = b
      PROVE  W = IF kv[s] <= At(c, j) /\ At(c, j) < scheduled[s] THEN {At(c, j)} ELSE {}
  <2>1. \A i \in W : i = At(c, j) /\ kv[s] <= i /\ i < scheduled[s]
    <3> SUFFICES ASSUME NEW i \in W PROVE i = At(c, j) /\ kv[s] <= i /\ i < scheduled[s]
      OBVIOUS
    <3>1. PICK e \in 1 .. Len(t) : t[e] = b /\ i = At(e, j)
      BY <1>4
    <3>2. e = c
      BY <1>1, <1>2, <1>6, <3>1 DEF IsInjective
    <3> QED BY <1>4, <3>1, <3>2
  <2>2. CASE kv[s] <= At(c, j) /\ At(c, j) < scheduled[s]
    <3>1. At(c, j) \in W
      BY <1>5, <1>6, <2>2
    <3> QED BY <2>1, <2>2, <3>1
  <2>3. CASE ~(kv[s] <= At(c, j) /\ At(c, j) < scheduled[s])
    <3>1. W = {}
      BY <2>1, <2>3
    <3> QED BY <2>3, <3>1
  <2> QED BY <2>2, <2>3
<1>7. ASSUME b \notin Range(t) PROVE W = {}
  BY <1>1, <1>4, <1>7 DEF Range
<1> QED BY <1>6, <1>7 DEF t, W

\* The content after the pass: what anyone may read stays, what s computes is there.
Computed(s, co2) ==
    co2 = [b \in Blocks |-> [j \in Slots |->
             IF Written(s, b, j) = {} THEN content[b][j]
             ELSE SubSeq(tokens[s], 1, (CHOOSE i \in Written(s, b, j) : TRUE) + 1)]]

\* The forward pass writes only blocks of its sequence that are not cached.
LEMMA ForwardContent ==
    ASSUME IInv, NEW s \in Seqs, scheduled[s] > 0, NEW co2, Computed(s, co2)
    PROVE  /\ co2 \in [Blocks -> [Slots -> Seq(Tokens)]]
           /\ \A b \in Range(cached) : co2[b] = content[b]
           /\ \A b \in Blocks : b \notin Range(blocks[s]) => co2[b] = content[b]
           /\ \A c \in 1 .. Len(blocks[s]) : \A j \in Slots :
                 Known(shared, kv, s, c, j) => co2[blocks[s][c]][j] = content[blocks[s][c]][j]
           /\ \A c \in 1 .. Len(blocks[s]) : \A j \in Slots :
                 c <= shared[s] \/ At(c, j) < scheduled[s]
                    => co2[blocks[s][c]][j] = SubSeq(tokens[s], 1, At(c, j) + 1)
<1> DEFINE t == blocks[s]
           ts == tokens[s]
           n == scheduled[s]
           val(b, j) == IF Written(s, b, j) = {} THEN content[b][j]
                        ELSE SubSeq(ts, 1, (CHOOSE i \in Written(s, b, j) : TRUE) + 1)
<1>1. /\ t \in Seq(Blocks) /\ Len(t) \in Nat /\ DOMAIN t = 1 .. Len(t) /\ kv[s] \in Nat /\ n \in Nat
      /\ ts \in Seq(Tokens) /\ Len(ts) \in Nat /\ n <= Len(ts) /\ shared[s] \in Nat
      /\ content \in [Blocks -> [Slots -> Seq(Tokens)]] /\ cached \in [DOMAIN cached -> Blocks]
  BY DEF IInv, TypeOK
<1>m. Mem(tokens, blocks, shared, kv, cached, content)
  BY DEF IInv
<1>2. ASSUME NEW b \in Blocks, NEW j \in Slots PROVE co2[b][j] = val(b, j)
  BY DEF Computed
<1>3. co2 = [b \in Blocks |-> [j \in Slots |-> val(b, j)]]
  BY DEF Computed
<1>4. ASSUME NEW b \in Blocks, NEW j \in Slots, b \notin Range(t) PROVE val(b, j) = content[b][j]
  BY <1>4, WrittenSlots
<1>5. ASSUME NEW c \in 1 .. Len(t), NEW j \in Slots
      PROVE  val(t[c], j) = IF kv[s] <= At(c, j) /\ At(c, j) < n THEN SubSeq(ts, 1, At(c, j) + 1)
                            ELSE content[t[c]][j]
  <2> DEFINE W == Written(s, t[c], j)
  <2>1. W = IF kv[s] <= At(c, j) /\ At(c, j) < n THEN {At(c, j)} ELSE {}
    BY WrittenSlots
  <2>2. val(t[c], j) = IF W = {} THEN content[t[c]][j] ELSE SubSeq(ts, 1, (CHOOSE i \in W : TRUE) + 1)
    OBVIOUS
  <2> HIDE DEF W, val
  <2>3. CASE kv[s] <= At(c, j) /\ At(c, j) < n
    <3>1. W = {At(c, j)}
      BY <2>1, <2>3
    <3>2. (CHOOSE i \in W : TRUE) = At(c, j) /\ W # {}
      BY <3>1
    <3> QED BY <2>2, <2>3, <3>2
  <2>4. CASE ~(kv[s] <= At(c, j) /\ At(c, j) < n)
    BY <2>1, <2>2, <2>4
  <2> QED BY <2>3, <2>4
<1>6. ASSUME NEW c \in 1 .. Len(t), NEW j \in Slots, Known(shared, kv, s, c, j)
      PROVE  val(t[c], j) = content[t[c]][j] /\ content[t[c]][j] = SubSeq(ts, 1, At(c, j) + 1)
  <2>1. content[t[c]][j] = SubSeq(ts, 1, At(c, j) + 1)
    BY <1>6, <1>m DEF Mem, TablesKV
  <2> HIDE DEF val
  <2> QED BY <1>5, <2>1
<1>7. ASSUME NEW c \in 1 .. Len(t), NEW j \in Slots, c <= shared[s] \/ At(c, j) < n
      PROVE  val(t[c], j) = SubSeq(ts, 1, At(c, j) + 1)
  <2>1. At(c, j) \in Nat
    <3>1. c \in Nat \ {0}
      BY <1>1
    <3> QED BY <3>1, Positions
  <2> HIDE DEF val
  <2>2. CASE Known(shared, kv, s, c, j)
    BY <1>6, <2>2
  <2>3. CASE ~Known(shared, kv, s, c, j)
    <3>1. kv[s] <= At(c, j) /\ At(c, j) < n
      BY <1>1, <1>7, <2>1, <2>3 DEF Known
    <3> QED BY <1>5, <3>1
  <2> QED BY <2>2, <2>3
<1>8. ASSUME NEW b \in Range(cached), NEW j \in Slots PROVE b \in Blocks /\ val(b, j) = content[b][j]
  <2>1. b \in Blocks
    BY <1>1 DEF Range
  <2>2. CASE b \notin Range(t)
    BY <1>4, <2>1, <2>2
  <2>3. CASE b \in Range(t)
    <3>1. PICK c \in 1 .. Len(t) : b = t[c]
      BY <1>1, <2>3 DEF Range
    <3>2. c <= shared[s] \/ c * BlockSize <= kv[s]
      BY <1>m, <3>1 DEF Mem, OpenIsPrivate
    <3>3. c \in Nat \ {0}
      BY <1>1
    <3>4. At(c, j) \in Nat /\ At(c, j) < c * BlockSize
      BY <3>3, Positions
    <3>5. Known(shared, kv, s, c, j)
      <4>1. CASE c <= shared[s]
        BY <4>1 DEF Known
      <4>2. CASE c * BlockSize <= kv[s]
        <5> DEFINE x == c * BlockSize
        <5>1. x \in Nat /\ At(c, j) < x /\ x <= kv[s]
          BY <3>3, <3>4, <4>2, Multiples
        <5> HIDE DEF x
        <5>2. At(c, j) < kv[s]
          BY <1>1, <3>4, <5>1
        <5> QED BY <5>2 DEF Known
      <4> QED BY <3>2, <4>1, <4>2
    <3> HIDE DEF val
    <3> QED BY <1>6, <2>1, <3>1, <3>5
  <2> QED BY <2>1, <2>2, <2>3
<1>9. ASSUME NEW b \in Blocks, NEW j \in Slots PROVE val(b, j) \in Seq(Tokens)
  <2>1. content[b][j] \in Seq(Tokens)
    BY <1>1
  <2>2. CASE b \notin Range(t)
    BY <1>4, <2>1, <2>2
  <2>3. CASE b \in Range(t)
    <3>1. PICK c \in 1 .. Len(t) : b = t[c]
      BY <1>1, <2>3 DEF Range
    <3>2. At(c, j) \in Nat
      <4>1. c \in Nat \ {0}
        BY <1>1
      <4> QED BY <4>1, Positions
    <3> HIDE DEF val
    <3>3. CASE kv[s] <= At(c, j) /\ At(c, j) < n
      <4>1. At(c, j) + 1 \in 0 .. Len(ts)
        BY <1>1, <3>2, <3>3
      <4>2. SubSeq(ts, 1, At(c, j) + 1) \in Seq(Tokens)
        BY <1>1, <4>1, Prefixes
      <4> QED BY <1>5, <3>1, <3>3, <4>2
    <3>4. CASE ~(kv[s] <= At(c, j) /\ At(c, j) < n)
      BY <1>5, <2>1, <3>1, <3>4
    <3> QED BY <3>3, <3>4
  <2> QED BY <2>2, <2>3
<1>10. \A c \in 1 .. Len(t) : t[c] \in Blocks
  BY <1>1
<1>11. ASSUME NEW b \in Blocks, \A j \in Slots : val(b, j) = content[b][j] PROVE co2[b] = content[b]
  <2>1. content[b] = [j \in Slots |-> content[b][j]]
    BY <1>1
  <2>2. co2[b] = [j \in Slots |-> val(b, j)]
    BY <1>3
  <2> HIDE DEF val
  <2> QED BY <1>11, <2>1, <2>2
<1> HIDE DEF val
<1>12. co2 \in [Blocks -> [Slots -> Seq(Tokens)]]
  BY ONLY <1>3, <1>9
<1>13. \A b \in Range(cached) : co2[b] = content[b]
  <2> SUFFICES ASSUME NEW b \in Range(cached) PROVE co2[b] = content[b]
    OBVIOUS
  <2>1. b \in Blocks
    BY <1>1 DEF Range
  <2> QED BY ONLY <1>8, <1>11, <2>1
<1>14. \A b \in Blocks : b \notin Range(t) => co2[b] = content[b]
  BY <1>4, <1>11
<1>15. \A c \in 1 .. Len(t) : \A j \in Slots :
          /\ Known(shared, kv, s, c, j) => co2[t[c]][j] = content[t[c]][j]
          /\ c <= shared[s] \/ At(c, j) < n => co2[t[c]][j] = SubSeq(ts, 1, At(c, j) + 1)
  BY ONLY <1>2, <1>6, <1>7, <1>10
<1> QED BY <1>12, <1>13, <1>14, <1>15

\* The forward pass.
LEMMA ForwardKeepsIInv ==
    ASSUME IInv, workload' = workload, crashed = "no", NEW s \in Seqs, NEW x \in workload.sampled,
           Forward(s, x)
    PROVE  IInv'
<1> DEFINE t == blocks[s]
           ts == tokens[s]
           n == scheduled[s]
<1>1. /\ n > 0 /\ scheduled' = [scheduled EXCEPT ![s] = 0] /\ kv' = [kv EXCEPT ![s] = n]
      /\ tokens' = [tokens EXCEPT ![s] = Sampled(s, x)]
      /\ UNCHANGED <<prefill_len, blocks, shared, prefill_cached, embedding, cached, lru, num_used, crashed>>
  BY DEF Forward
<1>t. /\ t \in Seq(Blocks) /\ Len(t) \in Nat /\ kv[s] \in Nat /\ n \in Nat /\ shared[s] \in Nat
      /\ ts \in Seq(Tokens) /\ Len(ts) \in Nat /\ n \in kv[s] + 1 .. Len(ts)
      /\ tokens \in [Seqs -> Seq(Tokens)] /\ kv \in [Seqs -> Nat] /\ scheduled \in [Seqs -> Nat]
      /\ blocks \in [Seqs -> Seq(Blocks)] /\ shared \in [Seqs -> Nat] /\ prefill_len \in [Seqs -> Nat]
      /\ prefill_len[s] <= Len(ts)
  BY <1>1, SMTT(20), ZenonT(20) DEF IInv, TypeOK
<1>m. Mem(tokens, blocks, shared, kv, cached, content) /\ LruLists(lru, cached)
  BY DEF IInv, TypeOK, LruLists
<1>p. Len(ts) < MaxTokens /\ n <= Len(t) * BlockSize /\ MaxTokens \in Nat
  BY <1>1, PoolAssumption DEF IInv, Pending
<1>2. /\ content' \in [Blocks -> [Slots -> Seq(Tokens)]]
      /\ \A b \in Range(cached) : content'[b] = content[b]
      /\ \A b \in Blocks : b \notin Range(t) => content'[b] = content[b]
      /\ \A c \in 1 .. Len(t) : \A j \in Slots :
            Known(shared, kv, s, c, j) => content'[t[c]][j] = content[t[c]][j]
      /\ \A c \in 1 .. Len(t) : \A j \in Slots :
            c <= shared[s] \/ At(c, j) < n => content'[t[c]][j] = SubSeq(ts, 1, At(c, j) + 1)
  <2>1. Computed(s, content')
    BY DEF Forward, Computed
  <2> QED BY <1>1, <2>1, ForwardContent
<1>3. Mem(tokens, blocks, shared, kv, cached, content')
  <2>1. ASSUME NEW r \in Seqs, NEW c \in 1 .. Len(blocks[r]), NEW j \in Slots, Known(shared, kv, r, c, j)
        PROVE  content'[blocks[r][c]][j] = content[blocks[r][c]][j]
    <3>1. CASE r = s
      BY <1>2, <2>1, <3>1
    <3>2. CASE r # s
      <4>1. blocks[r][c] \in Blocks /\ blocks[r][c] \in Range(blocks[r])
        BY <1>t DEF Range
      <4>2. blocks[r][c] \in Range(cached) \/ blocks[r][c] \notin Range(t)
        BY <1>m, <3>2, <4>1 DEF Mem, SharedIsCached
      <4> QED BY <1>2, <4>1, <4>2
    <3> QED BY <3>1, <3>2
  <2> QED BY ONLY <1>2, <1>m, <2>1, ContentFrame
<1>4. Mem(tokens, blocks, shared, kv', cached, content')
  <2>1. /\ IsInjective(t) /\ shared[s] <= Len(t) /\ shared[s] * BlockSize <= Len(ts) /\ n <= Len(ts)
    BY <1>m, <1>t DEF Mem, Tables
  <2>2. ASSUME NEW c \in 1 .. Len(t)
        PROVE  c <= shared[s] \/ c * BlockSize <= n \/ t[c] \notin Range(cached)
    <3>1. c <= shared[s] \/ c * BlockSize <= kv[s] \/ t[c] \notin Range(cached)
      BY <1>m DEF Mem, OpenIsPrivate
    <3>2. c * BlockSize <= kv[s] => c * BlockSize <= n
      <4> DEFINE y == c * BlockSize
      <4>1. y \in Nat
        BY <1>t, Multiples
      <4> HIDE DEF y
      <4>2. y <= kv[s] => y <= n
        BY <1>t, <4>1
      <4> QED BY <4>2 DEF y
    <3> QED BY <3>1, <3>2
  <2>3. Range(t) \subseteq Range(t) \cup Range(cached)
    OBVIOUS
  <2>4. Mem(tokens, [blocks EXCEPT ![s] = t], [shared EXCEPT ![s] = shared[s]], [kv EXCEPT ![s] = n],
            cached, content')
    <3> DEFINE co2 == content'
               e == n
               a == shared[s]
    <3>1. /\ Mem(tokens, blocks, shared, kv, cached, co2)
          /\ \A c \in 1 .. Len(t) : \A j \in Slots :
                c <= a \/ At(c, j) < e => co2[t[c]][j] = SubSeq(tokens[s], 1, At(c, j) + 1)
          /\ a \in Nat /\ e \in Nat /\ t \in Seq(Blocks) /\ IsInjective(t)
          /\ a <= Len(t) /\ a * BlockSize <= Len(tokens[s]) /\ e <= Len(t) * BlockSize /\ e <= Len(tokens[s])
          /\ \A c \in 1 .. Len(t) : c <= a \/ c * BlockSize <= e \/ t[c] \notin Range(cached)
          /\ Range(t) \subseteq Range(blocks[s]) \cup Range(cached)
      BY <1>2, <1>3, <1>p, <1>t, <2>1, <2>2
    <3> HIDE DEF t, co2, e, a
    <3>2. Mem(tokens, [blocks EXCEPT ![s] = t], [shared EXCEPT ![s] = a], [kv EXCEPT ![s] = e], cached, co2)
      BY ONLY <3>1, TableKeepsMem, s \in Seqs
    <3> QED BY <3>2 DEF co2, e, a
  <2>5. [blocks EXCEPT ![s] = t] = blocks /\ [shared EXCEPT ![s] = shared[s]] = shared
    BY <1>t
  <2> QED BY <1>1, <2>4, <2>5
<1>5. /\ tokens' \in [Seqs -> Seq(Tokens)] /\ tokens'[s] = Sampled(s, x)
      /\ \A r \in Seqs \ {s} : tokens'[r] = tokens[r]
      /\ Sampled(s, x) = ts \/ (n = Len(ts) /\ x \in Tokens /\ Sampled(s, x) = Append(ts, x))
      /\ Len(Sampled(s, x)) \in Nat
      /\ Len(ts) <= Len(Sampled(s, x)) /\ Len(Sampled(s, x)) <= MaxTokens /\ n < Len(Sampled(s, x))
  <2>1. x \in Tokens
    BY WorkloadsAssumption DEF IInv, TypeOK
  <2>2. Append(ts, x) \in Seq(Tokens) /\ Len(Append(ts, x)) = Len(ts) + 1
    BY <1>t, <2>1
  <2>3. Sampled(s, x) = IF n = Len(ts) THEN Append(ts, x) ELSE ts
    BY DEF Sampled
  <2> DEFINE y == Sampled(s, x)
  <2>4. /\ y = ts \/ (n = Len(ts) /\ x \in Tokens /\ y = Append(ts, x))
        /\ y \in Seq(Tokens) /\ Len(y) \in Nat /\ Len(ts) <= Len(y) /\ Len(y) <= MaxTokens /\ n < Len(y)
    <3> HIDE DEF y, ts, n
    <3>1. CASE n = Len(ts)
      <4>1. y = Append(ts, x)
        BY <2>3, <3>1 DEF y, n, ts
      <4> QED BY <1>p, <1>t, <2>1, <2>2, <3>1, <4>1
    <3>2. CASE n # Len(ts)
      <4>1. y = ts
        BY <2>3, <3>2 DEF y, n, ts
      <4> QED BY <1>p, <1>t, <3>2, <4>1
    <3> QED BY <3>1, <3>2
  <2> HIDE DEF y
  <2>5. tokens' = [tokens EXCEPT ![s] = y]
    BY <1>1 DEF y
  <2>6. tokens' \in [Seqs -> Seq(Tokens)] /\ tokens'[s] = y /\ \A r \in Seqs \ {s} : tokens'[r] = tokens[r]
    BY <1>t, <2>4, <2>5
  <2> QED BY <2>4, <2>6 DEF y
<1>6. Longer(tokens, tokens', s)
  <2>1. ASSUME NEW m \in 0 .. Len(ts) PROVE SubSeq(Sampled(s, x), 1, m) = SubSeq(ts, 1, m)
    <3> HIDE DEF ts, n
    <3>1. x \in Tokens => SubSeq(Append(ts, x), 1, m) = SubSeq(ts, 1, m)
      BY <1>t, <2>1, Prefixes
    <3> QED BY <1>5, <3>1
  <2> QED BY <1>5, <2>1 DEF Longer
<1>7. Mem(tokens', blocks', shared', kv', cached', content') /\ LruLists(lru', cached')
  <2>1. Mem(tokens', blocks, shared, kv', cached, content')
    BY ONLY <1>4, <1>6, LongerKeepsMem, s \in Seqs
  <2> QED BY <1>1, <1>m, <2>1
<1>8. /\ kv'[s] = n /\ scheduled'[s] = 0 /\ scheduled' \in [Seqs -> Nat]
      /\ \A r \in Seqs \ {s} : kv'[r] = kv[r] /\ scheduled'[r] = scheduled[r]
  BY <1>1, <1>t
<1>9. Counts(tokens', blocks', scheduled', kv', prefill_len', s)
  <2>1. prefill_len'[s] <= Len(tokens'[s])
    BY <1>1, <1>5, <1>t
  <2> QED BY <1>5, <1>8, <2>1 DEF Counts
<1>10. Others(s)
  BY <1>1, <1>5, <1>8 DEF Others
<1>11. /\ prefill_cached' \subseteq Seqs /\ embedding' \subseteq Seqs /\ num_used' \in Nat
       /\ num_used' >= Cardinality(Use(blocks')) /\ prefill_len' \in [Seqs -> Nat]
       /\ crashed' \in {"no", "insert_check"}
  BY <1>1 DEF IInv, TypeOK
<1> QED BY <1>7, <1>8, <1>9, <1>10, <1>11, StepKeepsIInv

-----------------------------------------------------------------------------
\* PrefixCache::insert.
LEMMA InsertKeepsCache ==
    ASSUME IInv, NEW s \in Seqs, ~InsertCheckFails(s)
    PROVE  /\ Mem(tokens, blocks, shared, kv, CacheAfter(s), content)
           /\ LruLists(LruAfter(s), CacheAfter(s))
           /\ DOMAIN cached \subseteq DOMAIN CacheAfter(s)
<1> DEFINE t == blocks[s]
           ts == tokens[s]
           m == InsertedBlocks(s)
           ca == CacheAfter(s)
           keys == {Key(ts, i) : i \in shared[s] + 1 .. m}
<1>1. /\ t \in Seq(Blocks) /\ Len(t) \in Nat /\ kv[s] \in Nat /\ shared[s] \in Nat
      /\ ts \in Seq(Tokens) /\ Len(ts) \in Nat /\ kv[s] <= Len(ts)
  BY DEF IInv, TypeOK
<1>m. Mem(tokens, blocks, shared, kv, cached, content) /\ LruLists(lru, cached)
  BY DEF IInv, TypeOK, LruLists
<1>2. m \in Nat /\ m <= Len(t) /\ m * BlockSize <= kv[s]
  <2> DEFINE full == kv[s] \div BlockSize
  <2>1. full \in Nat /\ \A c \in Nat : c <= full <=> c * BlockSize <= kv[s]
    BY <1>1, WholeBlocks
  <2>2. m = IF full <= Len(t) THEN full ELSE Len(t)
    BY DEF InsertedBlocks
  <2> HIDE DEF full, m
  <2>3. m \in Nat /\ m <= Len(t) /\ m <= full
    BY <1>1, <2>1, <2>2
  <2> QED BY <2>1, <2>3
<1>3. ca = WithInserted(tokens, blocks, shared, cached, s, m)
  BY DEF CacheAfter, WithInserted
<1>4. Mem(tokens, blocks, shared, kv, ca, content) /\ DOMAIN ca = DOMAIN cached \cup keys
  <2> HIDE DEF m, ca
  <2>1. PICK n \in Nat : n = m
    BY <1>2
  <2>2. /\ n <= Len(blocks[s]) /\ n * BlockSize <= kv[s] /\ s \in Seqs
        /\ ca = WithInserted(tokens, blocks, shared, cached, s, n)
    BY <1>2, <1>3, <2>1
  <2>3. Mem(tokens, blocks, shared, kv, ca, content)
    BY ONLY <1>m, <2>2, InsertKeepsMem
  <2>4. DOMAIN ca = DOMAIN cached \cup KeysFrom(tokens[s], shared[s], n)
    BY ONLY <1>m, <2>2, InsertKeepsMem
  <2> QED BY <2>1, <2>3, <2>4 DEF KeysFrom
<1>5. m = 0 \/ shared[s] <= m
  BY <1>1, <1>2 DEF InsertCheckFails
<1> HIDE DEF ca, m
<1>6. lru \in Seq(DOMAIN cached) /\ Range(lru) = DOMAIN cached /\ IsInjective(lru)
  BY <1>m DEF LruLists
<1>7. CASE m = 0
  <2>1. keys = {}
    <3>1. shared[s] + 1 .. m = {}
      BY <1>1, <1>7
    <3> QED BY <3>1
  <2>2. DOMAIN ca = DOMAIN cached
    BY <1>4, <2>1
  <2>3. LruAfter(s) = lru
    BY <1>7 DEF LruAfter, m
  <2> QED BY <1>4, <1>6, <2>2, <2>3 DEF LruLists, ca
<1>8. CASE m # 0
  <2>1. shared[s] <= m
    BY <1>5, <1>8
  <2>2. LruAfter(s) = Touch(lru, ts, shared[s], m)
    BY <1>8 DEF LruAfter, m
  <2>3. m * BlockSize <= Len(ts)
    <3> DEFINE y == m * BlockSize
    <3>1. y \in Nat /\ y <= kv[s]
      BY <1>2, Multiples
    <3> HIDE DEF y
    <3>2. y <= Len(ts)
      BY <1>1, <3>1
    <3> QED BY <3>2 DEF y
  <2> DEFINE S == DOMAIN ca
  <2>4. lru \in Seq(S) /\ \A i \in shared[s] + 1 .. m : Key(ts, i) \in S
    <3>1. DOMAIN cached \subseteq S /\ keys \subseteq S
      BY <1>4
    <3>2. \A i \in 1 .. Len(lru) : lru[i] \in S
      BY <1>6, <3>1
    <3>3. lru \in [1 .. Len(lru) -> S] /\ Len(lru) \in Nat
      BY <1>6, <3>2
    <3>4. lru \in Seq(S)
      BY <3>3
    <3> QED BY <3>1, <3>4
  <2> DEFINE list == Touch(lru, ts, shared[s], m)
  <2> HIDE DEF S, ts
  <2>5. list \in Seq(S) /\ Range(list) = Range(lru) \cup keys /\ IsInjective(list)
    BY <1>1, <1>2, <1>6, <2>1, <2>3, <2>4, TouchLists, SMTT(20), ZenonT(20)
  <2> HIDE DEF list
  <2>6. LruLists(list, ca)
    BY <1>4, <1>6, <2>5 DEF LruLists, S
  <2> QED BY <1>4, <2>2, <2>6 DEF ca, list
<1> QED BY <1>7, <1>8

\* A failed CHECK ends the process.
LEMMA CrashKeepsIInv ==
    ASSUME IInv, workload' = workload, NEW s \in Seqs, Crash("insert_check")
    PROVE  IInv'
<1>1. /\ crashed' = "insert_check"
      /\ UNCHANGED <<tokens, prefill_len, prefill_cached, scheduled, kv, blocks, shared, embedding,
                     cached, lru, num_used, content>>
  BY DEF Crash, seqVars
<1>2. Counts(tokens', blocks', scheduled', kv', prefill_len', s)
  BY <1>1, CountsHold DEF Counts
<1>3. Others(s)
  BY <1>1 DEF Others
<1>4. Mem(tokens', blocks', shared', kv', cached', content') /\ LruLists(lru', cached')
  BY <1>1 DEF IInv, TypeOK, LruLists
<1>5. /\ prefill_cached' \subseteq Seqs /\ embedding' \subseteq Seqs /\ num_used' \in Nat
      /\ num_used' >= Cardinality(Use(blocks')) /\ prefill_len' \in [Seqs -> Nat]
      /\ scheduled' \in [Seqs -> Nat] /\ crashed' \in {"no", "insert_check"}
  BY <1>1 DEF IInv, TypeOK
<1> QED BY <1>2, <1>3, <1>4, <1>5, StepKeepsIInv

\* BlockManagerPool::cache inserts the full blocks of a sequence.
LEMMA CacheKeepsIInv ==
    ASSUME IInv, workload' = workload, crashed = "no", NEW s \in Seqs, Cache(s)
    PROVE  IInv'
<1>1. CASE InsertCheckFails(s)
  BY <1>1, CrashKeepsIInv DEF Cache
<1>2. CASE ~InsertCheckFails(s)
  <2>1. /\ prefill_cached' = prefill_cached \cup {s}
        /\ cached' = CacheAfter(s) /\ lru' = LruAfter(s)
        /\ UNCHANGED <<tokens, prefill_len, scheduled, kv, blocks, shared,
                       embedding, num_used, crashed, content>>
    BY <1>2 DEF Cache
  <2>2. Mem(tokens', blocks', shared', kv', cached', content') /\ LruLists(lru', cached')
    BY <1>2, <2>1, InsertKeepsCache
  <2>3. Counts(tokens', blocks', scheduled', kv', prefill_len', s)
    BY <2>1, CountsHold DEF Counts
  <2>4. Others(s)
    BY <2>1 DEF Others
  <2>5. /\ prefill_cached' \subseteq Seqs /\ embedding' \subseteq Seqs /\ num_used' \in Nat
        /\ num_used' >= Cardinality(Use(blocks')) /\ prefill_len' \in [Seqs -> Nat]
        /\ scheduled' \in [Seqs -> Nat] /\ crashed' \in {"no", "insert_check"}
    BY <2>1 DEF IInv, TypeOK
  <2> QED BY <2>2, <2>3, <2>4, <2>5, StepKeepsIInv
<1> QED BY <1>1, <1>2

\* BlockManagerPool::deallocate.
LEMMA DeallocateKeepsIInv ==
    ASSUME IInv, workload' = workload, crashed = "no", NEW s \in Seqs, NEW keep \in BOOLEAN,
           Deallocate(s, keep)
    PROVE  IInv'
<1> DEFINE ca == CacheAfter(s)
           X == Cardinality(Exclusive(blocks, ca, s))
           bl2 == [blocks EXCEPT ![s] = <<>>]
<1>1. CASE InsertCheckFails(s)
  BY <1>1, CrashKeepsIInv DEF Deallocate
<1>2. CASE ~InsertCheckFails(s)
  <2>1. tokens[s] # <<>> /\ scheduled[s] = 0
    BY DEF Deallocate
  <2>t. /\ blocks \in [Seqs -> Seq(Blocks)] /\ shared \in [Seqs -> Nat] /\ kv \in [Seqs -> Nat]
        /\ scheduled \in [Seqs -> Nat] /\ prefill_len \in [Seqs -> Nat] /\ tokens \in [Seqs -> Seq(Tokens)]
        /\ prefill_cached \subseteq Seqs /\ embedding \subseteq Seqs /\ tokens[s] \in Seq(Tokens)
        /\ Len(tokens[s]) \in Nat /\ num_used \in Nat /\ num_used >= Cardinality(Use(blocks))
    BY DEF IInv, TypeOK
  <2>2. /\ Mem(tokens, blocks, shared, kv, ca, content) /\ LruLists(LruAfter(s), ca)
        /\ IsFiniteSet(DOMAIN ca)
    BY <1>2, InsertKeepsCache, CacheIsFinite
  <2> HIDE DEF ca
  <2>3. bl2[s] = <<>> /\ bl2 \in [Seqs -> Seq(Blocks)] /\ \A r \in Seqs \ {s} : bl2[r] = blocks[r]
    BY ONLY <2>t, s \in Seqs
  <2> HIDE DEF bl2
  <2>4. X \in Nat /\ Cardinality(Use(bl2)) + X <= Cardinality(Use(blocks))
    BY <2>2, <2>3, ReleaseIsCounted
  <2>5. Cardinality(Use(bl2)) \in Nat /\ Cardinality(Use(blocks)) \in Nat
    BY UseIsFinite
  <2> HIDE DEF X
  <2>6. ~(num_used < X) /\ num_used - X \in Nat /\ num_used - X >= Cardinality(Use(bl2))
    BY <2>4, <2>5, <2>t
  <2>7. /\ cached' = ca
        /\ lru' = LruAfter(s)
        /\ num_used' = num_used - X
        /\ embedding' = embedding \ {s}
        /\ blocks' = bl2
        /\ shared' = [shared EXCEPT ![s] = 0]
        /\ kv' = [kv EXCEPT ![s] = 0]
        /\ content' = Scrub(blocks', cached', {})
        /\ UNCHANGED <<scheduled, crashed>>
    BY <1>2, <2>6 DEF Deallocate, ca, X, bl2
  <2>8. \/ /\ prefill_len' = [prefill_len EXCEPT ![s] = Len(tokens[s])]
           /\ UNCHANGED <<tokens, prefill_cached>>
        \/ /\ tokens' = [tokens EXCEPT ![s] = <<>>]
           /\ prefill_len' = [prefill_len EXCEPT ![s] = 0]
           /\ prefill_cached' = prefill_cached \ {s}
    BY <1>2, <2>6 DEF Deallocate, ca, X
  <2>9. /\ tokens' \in [Seqs -> Seq(Tokens)] /\ \A r \in Seqs \ {s} : tokens'[r] = tokens[r]
        /\ prefill_len' \in [Seqs -> Nat] /\ \A r \in Seqs \ {s} : prefill_len'[r] = prefill_len[r]
        /\ prefill_cached' \subseteq Seqs
        /\ tokens'[s] \in {tokens[s], <<>>} /\ prefill_len'[s] = Len(tokens'[s])
    <3>1. CASE /\ prefill_len' = [prefill_len EXCEPT ![s] = Len(tokens[s])]
               /\ UNCHANGED <<tokens, prefill_cached>>
      BY <2>t, <3>1
    <3>2. CASE /\ tokens' = [tokens EXCEPT ![s] = <<>>]
               /\ prefill_len' = [prefill_len EXCEPT ![s] = 0]
               /\ prefill_cached' = prefill_cached \ {s}
      <4>1. /\ tokens' \in [Seqs -> Seq(Tokens)] /\ tokens'[s] = <<>> /\ Len(<<>>) = 0
            /\ \A r \in Seqs \ {s} : tokens'[r] = tokens[r]
        BY ONLY <2>t, <3>2, s \in Seqs
      <4>2. /\ prefill_len' \in [Seqs -> Nat] /\ prefill_len'[s] = 0
            /\ \A r \in Seqs \ {s} : prefill_len'[r] = prefill_len[r]
        BY ONLY <2>t, <3>2, s \in Seqs
      <4> QED BY <2>t, <3>2, <4>1, <4>2
    <3> QED BY <2>8, <3>1, <3>2
  <2>10. /\ shared' \in [Seqs -> Nat] /\ shared'[s] = 0 /\ \A r \in Seqs \ {s} : shared'[r] = shared[r]
         /\ kv' \in [Seqs -> Nat] /\ kv'[s] = 0 /\ \A r \in Seqs \ {s} : kv'[r] = kv[r]
    BY ONLY <2>7, <2>t, s \in Seqs
  <2>11. Released(tokens, blocks, shared, kv, tokens', blocks', shared', kv', s)
    BY <2>3, <2>7, <2>9, <2>10 DEF Released
  <2>12. Mem(tokens', blocks', shared', kv', cached', content') /\ LruLists(lru', cached')
    <3>1. Mem(tokens', blocks', shared', kv', ca, content)
      BY ONLY <2>2, <2>11, ReleaseKeepsMem, s \in Seqs
    <3>2. Mem(tokens', blocks', shared', kv', ca, Scrub(blocks', ca, {}))
      BY ONLY <2>2, <3>1, ScrubKeepsMem
    <3> QED BY <2>2, <2>7, <3>2
  <2>13. Counts(tokens', blocks', scheduled', kv', prefill_len', s)
    <3>1. Len(tokens[s]) <= MaxTokens /\ kv[s] < Len(tokens[s]) /\ kv[s] \in Nat
      BY <2>1, <2>t, CountsHold DEF Counts
    <3>2. Len(tokens'[s]) <= MaxTokens /\ Len(tokens'[s]) \in Nat /\ (tokens'[s] # <<>> => 0 < Len(tokens'[s]))
      <4>1. Len(<<>>) = 0 /\ MaxTokens \in Nat
        BY PoolAssumption
      <4> QED BY <2>9, <2>t, <3>1, <4>1
    <3> QED BY <2>1, <2>7, <2>9, <2>10, <3>2 DEF Counts
  <2>14. Others(s)
    BY <2>3, <2>7, <2>9, <2>10 DEF Others
  <2>15. /\ embedding' \subseteq Seqs /\ num_used' \in Nat /\ num_used' >= Cardinality(Use(blocks'))
         /\ scheduled' \in [Seqs -> Nat] /\ crashed' \in {"no", "insert_check"}
    BY <2>6, <2>7, <2>t
  <2> QED BY <2>9, <2>12, <2>13, <2>14, <2>15, StepKeepsIInv
<1> QED BY <1>1, <1>2

-----------------------------------------------------------------------------
\* Nothing is allocated yet.
LEMMA InitIInv ==
    ASSUME Init
    PROVE  IInv
<1>1. /\ Len(<<>>) = 0 /\ IsInjective(<<>>) /\ Range(<<>>) = {} /\ 1 .. 0 = {} /\ 0 * BlockSize = 0
      /\ MaxTokens \in Nat
  BY BlockSizeAssumption, PoolAssumption DEF IsInjective, Range
<1>2. /\ workload \in Workloads /\ prefill_cached = {} /\ embedding = {} /\ lru = <<>> /\ num_used = 0
      /\ crashed = "no"
      /\ \A s \in Seqs : /\ tokens[s] = <<>> /\ prefill_len[s] = 0 /\ scheduled[s] = 0 /\ kv[s] = 0
                         /\ blocks[s] = <<>> /\ shared[s] = 0
  BY DEF Init
<1>3. /\ prefill_len \in [Seqs -> Nat] /\ scheduled \in [Seqs -> Nat] /\ kv \in [Seqs -> Nat]
      /\ shared \in [Seqs -> Nat]
  BY DEF Init
<1>4. tokens \in [Seqs -> Seq(Tokens)] /\ blocks \in [Seqs -> Seq(Blocks)]
  <2>1. <<>> \in Seq(Tokens) /\ <<>> \in Seq(Blocks)
    OBVIOUS
  <2> QED BY <2>1 DEF Init
<1>5. DOMAIN cached = {} /\ Range(cached) = {} /\ cached \in [DOMAIN cached -> Blocks]
  BY DEF Init, Range
<1>6. content \in [Blocks -> [Slots -> Seq(Tokens)]]
  <2>1. Wiped \in [Slots -> Seq(Tokens)]
    BY DEF Wiped, Poison
  <2> QED BY <2>1 DEF Init
<1>7. MemTypes(tokens, blocks, shared, kv, cached, content)
  BY <1>3, <1>4, <1>5, <1>6 DEF MemTypes
<1>8. Tables(tokens, blocks, shared, kv)
  BY <1>1, <1>2 DEF Tables
<1>9. TablesKV(tokens, blocks, shared, kv, content) /\ OpenIsPrivate(blocks, shared, kv, cached)
  BY <1>1, <1>2 DEF TablesKV, OpenIsPrivate
<1>10. CacheKV(cached, content) /\ SharedIsCached(blocks, cached)
  BY <1>1, <1>2, <1>5 DEF CacheKV, SharedIsCached
<1>11. Mem(tokens, blocks, shared, kv, cached, content)
  BY <1>7, <1>8, <1>9, <1>10 DEF Mem
<1>12. Pending(tokens, blocks, scheduled, kv)
  BY <1>2 DEF Pending
<1>13. num_used \in Nat /\ num_used >= Cardinality(Use(blocks))
  <2>1. Use(blocks) = {}
    BY <1>1, <1>2 DEF Use
  <2>2. Cardinality(Use(blocks)) = 0
    BY <2>1, FS_EmptySet
  <2> QED BY <1>2, <2>2
<1>14. lru \in Seq(DOMAIN cached) /\ Range(lru) = DOMAIN cached /\ IsInjective(lru)
  BY <1>1, <1>2, <1>5
<1>15. TypeOK
  BY <1>1, <1>2, <1>3, <1>4, <1>5, <1>6, <1>13, <1>14 DEF TypeOK
<1> QED BY <1>2, <1>11, <1>12, <1>13, <1>15 DEF IInv

\* Every action keeps the invariant.
LEMMA NextKeepsIInv ==
    ASSUME IInv, [Next]_vars
    PROVE  IInv'
<1>1. CASE Next
  <2>1. crashed = "no" /\ workload' = workload
    BY <1>1 DEF Next
  <2>2. PICK s \in Seqs :
          \/ \E p \in workload.prompts : NewSequence(s, p)
          \/ Allocate(s)
          \/ \E n \in 1 .. MaxTokens, rematch \in BOOLEAN : AllocateChunk(s, n, rematch)
          \/ \E t \in workload.sampled : Forward(s, t)
          \/ Cache(s)
          \/ \E keep \in BOOLEAN : Deallocate(s, keep)
    BY <1>1 DEF Next
  <2>3. ASSUME NEW p \in workload.prompts, NewSequence(s, p) PROVE IInv'
    BY <2>1, <2>3, NewSequenceKeepsIInv
  <2>4. CASE Allocate(s)
    BY <2>1, <2>4, AllocateKeepsIInv
  <2>5. ASSUME NEW n \in 1 .. MaxTokens, NEW rematch \in BOOLEAN, AllocateChunk(s, n, rematch) PROVE IInv'
    BY <2>1, <2>5, AllocateChunkKeepsIInv
  <2>6. ASSUME NEW t \in workload.sampled, Forward(s, t) PROVE IInv'
    BY <2>1, <2>6, ForwardKeepsIInv
  <2>7. CASE Cache(s)
    BY <2>1, <2>7, CacheKeepsIInv
  <2>8. ASSUME NEW keep \in BOOLEAN, Deallocate(s, keep) PROVE IInv'
    BY <2>1, <2>8, DeallocateKeepsIInv
  <2> QED BY <2>2, <2>3, <2>4, <2>5, <2>6, <2>7, <2>8
<1>2. CASE UNCHANGED vars
  <2>1. Mem(tokens', blocks', shared', kv', cached', content') /\ Pending(tokens', blocks', scheduled', kv')
    BY <1>2 DEF vars, IInv
  <2>2. TypeOK'
    BY <1>2 DEF vars, IInv, TypeOK
  <2>3. num_used' >= Cardinality(Use(blocks')) /\ crashed' # "num_used_blocks"
    BY <1>2 DEF vars, IInv
  <2> QED BY <2>1, <2>2, <2>3 DEF IInv
<1> QED BY <1>1, <1>2

\* The inductive invariant: the types, the memory invariant Mem, and the
\* bounds of pending passes and of the usage count.
THEOREM IInvHolds == Spec => []IInv
<1>1. Init => IInv
  BY InitIInv
<1>2. IInv /\ [Next]_vars => IInv'
  BY NextKeepsIInv
<1> QED BY <1>1, <1>2, PTL DEF Spec

\* The fields keep their types; the LRU list and the hash table have the same keys.
THEOREM TypeCorrect == Spec => []TypeOK
<1>1. IInv => TypeOK
  BY DEF IInv
<1> QED BY <1>1, IInvHolds, PTL

\* The KV a sequence counts as computed is in its table, whatever was matched,
\* evicted and handed out again.
THEOREM KVOfSequences == Spec => []SequenceKVIntact
<1>1. ASSUME IInv PROVE SequenceKVIntact
  <2> SUFFICES ASSUME NEW s \in Seqs, NEW i \in 0 .. kv[s] - 1
               PROVE  /\ i \div BlockSize < Len(blocks[s])
                      /\ content[blocks[s][i \div BlockSize + 1]][i % BlockSize] = SubSeq(tokens[s], 1, i + 1)
    BY DEF SequenceKVIntact
  <2> DEFINE q == i \div BlockSize
             j == i % BlockSize
             x == Len(blocks[s]) * BlockSize
  <2>1. kv[s] \in Nat /\ Len(blocks[s]) \in Nat /\ i \in Nat /\ i < kv[s]
    BY <1>1 DEF IInv, TypeOK
  <2>2. q \in Nat /\ j \in Slots /\ At(q + 1, j) = i
    BY <2>1, Coordinates
  <2>3. Len(blocks[s]) <= q <=> x <= i
    BY <2>1, WholeBlocks
  <2>4. x \in Nat /\ kv[s] <= x
    BY <1>1, <2>1, Multiples DEF IInv, Mem, Tables
  <2> HIDE DEF q, j, x
  <2>5. q + 1 \in 1 .. Len(blocks[s]) /\ q < Len(blocks[s])
    BY <2>1, <2>2, <2>3, <2>4
  <2>6. Known(shared, kv, s, q + 1, j)
    BY <2>1, <2>2 DEF Known
  <2>7. content[blocks[s][q + 1]][j] = SubSeq(tokens[s], 1, i + 1)
    BY <1>1, <2>2, <2>5, <2>6 DEF IInv, Mem, TablesKV
  <2> QED BY <2>5, <2>7 DEF q, j
<1> QED BY <1>1, IInvHolds, PTL

\* A cached block holds the KV of the prefix it is found under.
THEOREM KVOfCache == Spec => []CachedKVIntact
<1>1. IInv => CachedKVIntact
  BY DEF IInv, Mem, CacheKV, CachedKVIntact
<1> QED BY <1>1, IInvHolds, PTL

\* The usage count covers the blocks in use, and deallocation never finds it
\* too small.
THEOREM UsageIsCovered == Spec => []UsageCoversBlocksInUse
<1>1. IInv => UsageCoversBlocksInUse
  BY DEF IInv, UsageCoversBlocksInUse, InUse, Use
<1> QED BY <1>1, IInvHolds, PTL

-----------------------------------------------------------------------------
\* A match drops no cached block of the sequence: what it replaces is not in
\* the cache, or is replaced by itself.
LEMMA MatchKeepsCached ==
    ASSUME IInv, NEW s \in Seqs
    PROVE  Range(blocks[s]) \cap Range(cached) \subseteq Range(AllocateShared(s).blocks)
<1> DEFINE m == MatchLen(s)
           ma == Matched(s)
           ts == tokens[s]
           old == blocks[s]
           keep == IF m * BlockSize = Len(ts) THEN m - 1 ELSE m
           tail == SubSeq(old, m + 1, Len(old))
           head == ma \o tail
           whole == SubSeq(ma, 1, keep)
           st == AllocateShared(s)
<1>1. Mem(tokens, blocks, shared, kv, cached, content)
  BY DEF IInv
<1>2. /\ ts \in Seq(Tokens) /\ old \in Seq(Blocks) /\ shared[s] \in Nat /\ kv[s] \in Nat
      /\ DOMAIN cached \subseteq Seq(Tokens) /\ Len(old) \in Nat /\ DOMAIN old = 1 .. Len(old)
  BY DEF IInv, TypeOK
<1>3. m \in Nat
  BY <1>1, MatchIsRun
<1>4. /\ ma \in Seq(Blocks) /\ Len(ma) = m /\ DOMAIN ma = 1 .. m
      /\ \A i \in 1 .. m : /\ i <= shared[s] => ma[i] = old[i]
                           /\ i > shared[s] => ma[i] = cached[Key(ts, i)]
  <2>1. /\ ma \in Seq(Blocks) /\ Len(ma) = m
        /\ \A i \in 1 .. m : /\ i <= shared[s] => ma[i] = old[i]
                             /\ i > shared[s] => ma[i] = cached[Key(ts, i)]
    BY <1>1, MatchedBlocks
  <2> HIDE DEF ma, m
  <2> QED BY <2>1
<1>5. st.blocks = IF m <= Len(old) THEN head ELSE whole
  BY DEF AllocateShared, Matched
<1> HIDE DEF ma, m, ts, old, st
<1>6. ASSUME NEW c \in 1 .. Len(old), old[c] \in Range(cached), c <= m PROVE ma[c] = old[c]
  <2>1. c <= shared[s] \/ c * BlockSize <= kv[s]
    BY <1>1, <1>6 DEF Mem, OpenIsPrivate, old
  <2>2. content[old[c]][BlockSize - 1] = Key(ts, c)
    BY <1>1, <1>6, <2>1, FullBlocks DEF old, ts
  <2>3. PICK x \in DOMAIN cached : cached[x] = old[c]
    BY <1>6 DEF Range
  <2>4. content[cached[x]][BlockSize - 1] = x
    BY <1>1, <1>2, CacheInjective DEF Mem
  <2>5. cached[Key(ts, c)] = old[c]
    BY <2>2, <2>3, <2>4
  <2>6. c \in 1 .. m /\ (c <= shared[s] \/ c > shared[s])
    BY <1>2, <1>3, <1>6
  <2> QED BY <1>4, <2>5, <2>6
<1> SUFFICES ASSUME NEW b \in Range(old), b \in Range(cached) PROVE b \in Range(st.blocks)
  BY DEF old, st
<1>7. CASE m <= Len(old)
  <2>1. m \in 0 .. Len(old)
    BY <1>2, <1>3, <1>7
  <2>2. /\ tail \in Seq(Blocks) /\ Range(SubSeq(old, 1, m)) \cup Range(tail) = Range(old)
        /\ DOMAIN SubSeq(old, 1, m) = 1 .. m /\ \A i \in 1 .. m : SubSeq(old, 1, m)[i] = old[i]
    BY <1>2, <2>1, SplitQueue, PrefixAt
  <2>3. st.blocks = head /\ Range(head) = Range(ma) \cup Range(tail)
    <3>1. st.blocks = head
      BY <1>5, <1>7
    <3>2. Range(head) = Range(ma) \cup Range(tail)
      <4> HIDE DEF tail
      <4> QED BY <1>4, <2>2, ConcatQueue
    <3> QED BY <3>1, <3>2
  <2> HIDE DEF tail, head
  <2>4. CASE b \in Range(SubSeq(old, 1, m))
    <3>1. PICK c \in 1 .. m : b = old[c]
      BY <2>2, <2>4 DEF Range
    <3>2. c \in 1 .. Len(old) /\ c <= m
      BY <1>2, <1>3, <2>1
    <3>3. b = ma[c]
      BY <1>6, <3>1, <3>2
    <3>4. b \in Range(ma)
      BY <1>4, <3>3 DEF Range
    <3> QED BY <2>3, <3>4
  <2> QED BY <2>2, <2>3, <2>4
<1>8. CASE ~(m <= Len(old))
  <2>1. keep \in 0 .. m /\ Len(old) <= keep
    BY <1>2, <1>3, <1>8
  <2> HIDE DEF keep
  <2>2. st.blocks = whole
    BY <1>5, <1>8
  <2>3. DOMAIN whole = 1 .. keep /\ \A i \in 1 .. keep : whole[i] = ma[i]
    BY <1>4, <2>1, PrefixAt
  <2> HIDE DEF whole
  <2>4. PICK c \in 1 .. Len(old) : b = old[c]
    BY <1>2 DEF Range
  <2>5. c <= m /\ c \in 1 .. keep
    BY <1>2, <1>3, <1>8, <2>1
  <2>6. b = whole[c]
    BY <1>6, <2>3, <2>4, <2>5
  <2> QED BY <2>2, <2>3, <2>5, <2>6 DEF Range
<1> QED BY <1>3, <1>2, <1>7, <1>8

\* Keys disappear in the order of the LRU list, for an allocation of s.
Evicts(s) ==
    \A k \in DOMAIN cached \ DOMAIN cached' :
        /\ cached[k] \notin InUse
        /\ \A x \in DOMAIN cached' : cached[x] \in InUse \/ x \in KeysOf(s) \/ Before(lru, k, x)

\* The victims of an eviction are the oldest idle entries.
LEMMA VictimsInOrder ==
    ASSUME IInv, NEW s \in Seqs, NEW st, Ready(s, st),
           Range(blocks[s]) \cap Range(cached) \subseteq Range(st.blocks),
           NEW d \in Int, NEW V, NEW bl, bl = [blocks EXCEPT ![s] = st.blocks],
           V = Victims(bl, st.lru, d), cached' = Kept(V)
    PROVE  Evicts(s)
<1> DEFINE sh == [shared EXCEPT ![s] = st.shared]
           k == [kv EXCEPT ![s] = st.kv]
           list == st.lru
<1>1. IInv /\ Ready(s, st) /\ s \in Seqs /\ Start(s, st, bl, sh, k) /\ list = st.lru
      /\ V = Victims(bl, list, d) /\ d \in Int
  BY DEF Start
<1> HIDE DEF sh, k, list
<1>2. /\ Mem(tokens, bl, sh, k, cached, content) /\ LruLists(list, cached)
      /\ bl[s] = st.blocks /\ \A r \in Seqs \ {s} : bl[r] = blocks[r]
  BY ONLY <1>1, ReadyMem
<1>3. DOMAIN Kept(V) = DOMAIN cached \ V /\ V \subseteq DOMAIN cached
  BY ONLY <1>1, <1>2, EvictedMem
<1>4. /\ \A x \in V : \A r \in Seqs : cached[x] \notin Range(bl[r])
      /\ \A x \in V : \A y \in DOMAIN cached \ V :
            RefCount(bl, cached, cached[y]) <= 1 => Before(list, x, y)
  BY ONLY <1>1, <1>2, VictimsAreOldest
<1>5. /\ \A b \in Range(st.blocks) :
            b \in Range(blocks[s]) \/ \E x \in KeysOf(s) \cap DOMAIN cached : b = cached[x]
      /\ \A x, y : Before(list, x, y) => y \in KeysOf(s) \/ Before(lru, x, y)
  BY <1>1 DEF Ready
<1>6. /\ cached \in [DOMAIN cached -> Blocks] /\ IsFiniteSet(DOMAIN cached)
      /\ \A x, y \in DOMAIN cached : cached[x] = cached[y] => x = y
  <2>1. DOMAIN cached \subseteq Seq(Tokens) /\ CacheKV(cached, content) /\ cached \in [DOMAIN cached -> Blocks]
    BY <1>2 DEF Mem, MemTypes
  <2> QED BY <1>2, <2>1, CacheInjective, CacheIsFinite
<1>7. \A b \in Blocks : \A r \in Seqs : b \in Range(blocks[r]) => b \in InUse
  BY DEF InUse
<1>8. ASSUME NEW x \in V PROVE cached[x] \notin InUse
  <2>1. x \in DOMAIN cached /\ cached[x] \in Range(cached)
    BY <1>3 DEF Range
  <2>2. ASSUME NEW r \in Seqs, cached[x] \in Range(blocks[r]) PROVE FALSE
    <3>1. CASE r = s
      <4>1. cached[x] \in Range(st.blocks)
        BY <2>1, <2>2, <3>1
      <4> QED BY ONLY <1>2, <1>4, <4>1, x \in V, s \in Seqs
    <3>2. CASE r # s
      <4>1. bl[r] = blocks[r]
        BY ONLY <1>2, <3>2, r \in Seqs
      <4> QED BY ONLY <1>4, <2>2, <4>1, x \in V, r \in Seqs
    <3> QED BY <3>1, <3>2
  <2> QED BY <2>2 DEF InUse
<1>9. ASSUME NEW x \in V, NEW y \in DOMAIN cached \ V
      PROVE  cached[y] \in InUse \/ y \in KeysOf(s) \/ Before(lru, x, y)
  <2>b. cached[y] \in Blocks /\ y \in DOMAIN cached
    BY <1>6
  <2>1. CASE RefCount(bl, cached, cached[y]) <= 1
    BY ONLY <1>4, <1>5, <2>1, x \in V, y \in DOMAIN cached \ V
  <2>2. CASE ~(RefCount(bl, cached, cached[y]) <= 1)
    <3>1. PICK r \in Seqs : cached[y] \in Range(bl[r])
      BY ONLY <1>6, <2>2, References
    <3>2. CASE r # s
      <4>1. cached[y] \in Range(blocks[r])
        BY ONLY <1>2, <3>1, <3>2, r \in Seqs
      <4> QED BY ONLY <1>7, <2>b, <4>1, r \in Seqs
    <3>3. CASE r = s
      <4>1. cached[y] \in Range(st.blocks)
        BY ONLY <1>2, <3>1, <3>3
      <4>2. CASE cached[y] \in Range(blocks[s])
        BY ONLY <1>7, <2>b, <4>2, s \in Seqs
      <4>3. CASE \E z \in KeysOf(s) \cap DOMAIN cached : cached[y] = cached[z]
        BY ONLY <1>6, <2>b, <4>3
      <4> QED BY ONLY <1>5, <4>1, <4>2, <4>3
    <3> QED BY <3>2, <3>3
  <2> QED BY <2>1, <2>2
<1>10. DOMAIN cached' = DOMAIN cached \ V
  BY <1>3
<1>11. \A x \in DOMAIN cached \ DOMAIN cached' : x \in V
  BY <1>10
<1> QED BY ONLY <1>8, <1>9, <1>10, <1>11 DEF Evicts

\* What an allocation evicts was used least recently.
LEMMA AllocationEvicts ==
    ASSUME IInv, NEW s \in Seqs, NEW st, Ready(s, st),
           Range(blocks[s]) \cap Range(cached) \subseteq Range(st.blocks),
           NEW n \in Nat, NEW empty, AllocateFrom(s, n, st, empty)
    PROVE  Evicts(s) /\ \A r \in Seqs \ {s} : blocks'[r] = blocks[r]
<1> DEFINE bl == [blocks EXCEPT ![s] = st.blocks]
           needed == NumBlocksFor(n)
           extra == IF needed <= Len(st.blocks) THEN 0 ELSE needed - Len(st.blocks)
           free == FreeBlocks(bl, cached)
           d == extra - Cardinality(free)
           V == Victims(bl, st.lru, d)
<1>1. Grow(s, n, st, extra, free, V) \/ GiveUp(s, st, empty, V)
  BY DEF AllocateFrom
<1>2. d \in Int
  <2>1. Cardinality(free) \in Nat /\ needed \in Nat
    BY FreeCount, WholeBlocks
  <2>2. Len(st.blocks) \in Nat
    BY DEF Ready
  <2> DEFINE m == Len(st.blocks)
             f == Cardinality(free)
  <2> HIDE DEF needed, f, m
  <2>3. needed \in Nat /\ m \in Nat /\ f \in Nat
    BY <2>1, <2>2 DEF f, m
  <2>4. d = (IF needed <= m THEN 0 ELSE needed - m) - f
    BY DEF f, m
  <2> HIDE DEF d
  <2> QED BY ONLY <2>3, <2>4
<1>t. blocks \in [Seqs -> Seq(Blocks)]
  BY DEF IInv, TypeOK
<1> HIDE DEF d, extra
<1>3. cached' = Kept(V) /\ \E t : blocks' = [blocks EXCEPT ![s] = t]
  <2>1. CASE Grow(s, n, st, extra, free, V)
    <3>1. cached' = Kept(V)
      BY <2>1 DEF Grow
    <3>2. \E new : blocks' = [blocks EXCEPT ![s] = st.blocks \o new]
      <4> HIDE DEF free, V
      <4> QED BY <2>1 DEF Grow
    <3> QED BY <3>1, <3>2
  <2>2. CASE GiveUp(s, st, empty, V)
    <3>1. cached' = Kept(V)
      BY <2>2 DEF GiveUp
    <3>2. blocks' = [blocks EXCEPT ![s] = <<>>] \/ blocks' = bl
      <4> HIDE DEF V
      <4> QED BY <2>2 DEF GiveUp
    <3> QED BY <3>1, <3>2
  <2> QED BY <1>1, <2>1, <2>2
<1>4. \A r \in Seqs \ {s} : blocks'[r] = blocks[r]
  <2>1. PICK t : blocks' = [blocks EXCEPT ![s] = t]
    BY <1>3
  <2> QED BY ONLY <1>t, <2>1
<1>5. Evicts(s)
  BY <1>2, <1>3, VictimsInOrder
<1> QED BY <1>4, <1>5

\* The keys of a step that evicts nothing.
LEMMA NothingEvicted ==
    ASSUME NEW s \in Seqs, DOMAIN cached \subseteq DOMAIN cached'
    PROVE  Evicts(s)
BY DEF Evicts

\* What one step of s does to the tables of the others and to the cache.
StepOf(s) == Evicts(s) /\ \A r \in Seqs \ {s} : blocks'[r] = blocks[r]

\* The same for allocate.
LEMMA AllocateEvicts ==
    ASSUME IInv, NEW s \in Seqs, Allocate(s)
    PROVE  StepOf(s)
<1> DEFINE empty == blocks[s] = <<>>
           st == IF empty THEN AllocateShared(s) ELSE Unshared(s)
           n == Len(tokens[s])
<1>1. n \in Nat /\ tokens[s] # <<>>
  BY PoolAssumption DEF Allocate, Unfinished, IInv, TypeOK
<1>2. AllocateFrom(s, n, st, empty)
  BY DEF Allocate
<1>3. Ready(s, st)
  BY <1>1, UnsharedIsReady, AllocateSharedIsReady
<1>4. Unshared(s).blocks = blocks[s]
  BY DEF Unshared
<1>5. Range(blocks[s]) \cap Range(cached) \subseteq Range(st.blocks)
  BY <1>4, MatchKeepsCached
<1> HIDE DEF st, n, empty
<1> QED BY <1>1, <1>2, <1>3, <1>5, AllocationEvicts DEF StepOf

\* The same for a chunk.
LEMMA AllocateChunkEvicts ==
    ASSUME IInv, NEW s \in Seqs, NEW n \in 1 .. MaxTokens, NEW rematch \in BOOLEAN,
           AllocateChunk(s, n, rematch)
    PROVE  StepOf(s)
<1> DEFINE first == IF rematch \/ blocks[s] = <<>> THEN AllocateShared(s) ELSE Unshared(s)
           more == [first EXCEPT !.used = @ + (first.used - num_used)]
           st == IF first.blocks = <<>> THEN more ELSE first
<1>2. tokens[s] # <<>> /\ n \in Nat
  BY PoolAssumption DEF AllocateChunk, Unfinished, IInv, TypeOK
<1>4. \/ AllocateFrom(s, n, st, st.blocks = <<>>)
      \/ blocks' = [blocks EXCEPT ![s] = first.blocks] /\ cached' = cached
  BY DEF AllocateChunk
<1>5. Ready(s, first) /\ first.used >= num_used /\ DOMAIN first = {"blocks", "shared", "kv", "used", "lru"}
  <2>1. Unshared(s).used = num_used /\ num_used \in Nat
    BY DEF Unshared, IInv, TypeOK
  <2> QED BY <1>2, <2>1, UnsharedIsReady, AllocateSharedIsReady, StateFields
<1>6. Range(blocks[s]) \cap Range(cached) \subseteq Range(first.blocks)
  <2>1. Unshared(s).blocks = blocks[s]
    BY DEF Unshared
  <2> QED BY <2>1, MatchKeepsCached
<1> HIDE DEF first
<1>7. Ready(s, st) /\ st.blocks = first.blocks
  <2>1. first.used \in Nat /\ num_used \in Nat
    BY <1>5 DEF Ready, IInv, TypeOK
  <2> DEFINE u == first.used + (first.used - num_used)
  <2>2. u \in Nat /\ first.used <= u
    BY <1>5, <2>1
  <2>3. more = [first EXCEPT !.used = u] /\ more.blocks = first.blocks
    BY <1>5
  <2> HIDE DEF u, more
  <2>4. Ready(s, [first EXCEPT !.used = u])
    BY ONLY <1>5, <2>2, MoreUsedIsReady, s \in Seqs
  <2> QED BY <1>5, <2>3, <2>4
<1> HIDE DEF st
<1>8. CASE AllocateFrom(s, n, st, st.blocks = <<>>)
  <2>1. Range(blocks[s]) \cap Range(cached) \subseteq Range(st.blocks)
    BY <1>6, <1>7
  <2> DEFINE empty == st.blocks = <<>>
  <2>2. AllocateFrom(s, n, st, empty)
    BY <1>8
  <2> HIDE DEF empty
  <2> QED BY <1>2, <1>7, <2>1, <2>2, AllocationEvicts DEF StepOf
<1>9. CASE blocks' = [blocks EXCEPT ![s] = first.blocks] /\ cached' = cached
  <2>1. blocks \in [Seqs -> Seq(Blocks)]
    BY DEF IInv, TypeOK
  <2> QED BY <1>9, <2>1, NothingEvicted DEF StepOf
<1> QED BY <1>4, <1>8, <1>9

\* Every step evicts in this order or not at all.
LEMMA NextEvicts ==
    ASSUME IInv, Next
    PROVE  \E s \in Seqs : StepOf(s)
<1>1. PICK s \in Seqs :
        \/ \E p \in workload.prompts : NewSequence(s, p)
        \/ Allocate(s)
        \/ \E n \in 1 .. MaxTokens, rematch \in BOOLEAN : AllocateChunk(s, n, rematch)
        \/ \E t \in workload.sampled : Forward(s, t)
        \/ Cache(s)
        \/ \E keep \in BOOLEAN : Deallocate(s, keep)
  BY DEF Next
<1>2. CASE blocks' = blocks /\ cached' = cached
  BY <1>2, NothingEvicted DEF StepOf
<1>3. ASSUME NEW p, NewSequence(s, p) PROVE blocks' = blocks /\ cached' = cached
  BY <1>3 DEF NewSequence
<1>4. ASSUME NEW t, Forward(s, t) PROVE blocks' = blocks /\ cached' = cached
  BY <1>4 DEF Forward
<1>5. CASE Cache(s)
  <2>1. \/ blocks' = blocks /\ cached' = cached
        \/ ~InsertCheckFails(s) /\ cached' = CacheAfter(s) /\ blocks' = blocks
    BY <1>5 DEF Cache, Crash
  <2> QED BY <1>2, <2>1, InsertKeepsCache, NothingEvicted DEF StepOf
<1>6. ASSUME NEW keep, Deallocate(s, keep) PROVE StepOf(s)
  <2>1. \/ blocks' = blocks /\ cached' = cached
        \/ ~InsertCheckFails(s) /\ cached' = CacheAfter(s) /\ blocks' = [blocks EXCEPT ![s] = <<>>]
    BY <1>6 DEF Deallocate, Crash
  <2>2. blocks \in [Seqs -> Seq(Blocks)]
    BY DEF IInv, TypeOK
  <2> QED BY <1>2, <2>1, <2>2, InsertKeepsCache, NothingEvicted DEF StepOf
<1> QED BY <1>1, <1>2, <1>3, <1>4, <1>5, <1>6, AllocateEvicts, AllocateChunkEvicts

\* An eviction takes the least recently used of the keys that no sequence uses.
THEOREM EvictionIsLRU == Spec => EvictsLeastRecentlyUsed
<1> DEFINE Step ==
        \E s \in Seqs :
          /\ \A r \in Seqs \ {s} : blocks'[r] = blocks[r]
          /\ \A k \in DOMAIN cached \ DOMAIN cached' :
                /\ cached[k] \notin InUse
                /\ \A x \in DOMAIN cached' :
                      \/ cached[x] \in InUse
                      \/ \E i \in 1 .. Len(tokens[s]) \div BlockSize : x = Key(tokens[s], i)
                      \/ Before(lru, k, x)
<1>1. (\E s \in Seqs : StepOf(s)) => Step
  <2> SUFFICES ASSUME NEW s \in Seqs, StepOf(s) PROVE Step
    OBVIOUS
  <2>1. /\ \A r \in Seqs \ {s} : blocks'[r] = blocks[r]
        /\ \A k \in DOMAIN cached \ DOMAIN cached' :
              /\ cached[k] \notin InUse
              /\ \A x \in DOMAIN cached' :
                    \/ cached[x] \in InUse
                    \/ \E i \in 1 .. Len(tokens[s]) \div BlockSize : x = Key(tokens[s], i)
                    \/ Before(lru, k, x)
    BY DEF StepOf, Evicts, KeysOf
  <2> QED BY <2>1
<1> HIDE DEF Step
<1>2. IInv /\ [Next]_vars => [Step]_vars
  BY <1>1, NextEvicts
<1>3. [Step]_vars <=>
        [\E s \in Seqs :
          /\ \A r \in Seqs \ {s} : blocks'[r] = blocks[r]
          /\ \A k \in DOMAIN cached \ DOMAIN cached' :
                /\ cached[k] \notin InUse
                /\ \A x \in DOMAIN cached' :
                      \/ cached[x] \in InUse
                      \/ \E i \in 1 .. Len(tokens[s]) \div BlockSize : x = Key(tokens[s], i)
                      \/ Before(lru, k, x)]_vars
  BY DEF Step
<1> QED BY <1>2, <1>3, IInvHolds, PTL DEF Spec, EvictsLeastRecentlyUsed
=============================================================================
