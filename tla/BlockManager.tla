---------------------------- MODULE BlockManager ----------------------------
(***************************************************************************)
(* KV-cache memory management: BlockManagerPool (one data-parallel rank),  *)
(* BlockManagerImpl, PrefixCache and the per-sequence KVCacheState, with   *)
(* the prefix cache enabled.  All operations run on the scheduler thread,  *)
(* so each operation of the pool is one step.                              *)
(*                                                                         *)
(* Abstractions.  A chained XXH3 hash is the token prefix it hashes.  The  *)
(* free list is the set of blocks nobody references and a reference count  *)
(* is the number of references that exist, as the module Block proves; the *)
(* padding block is not in Blocks.  The ghost variable `content` records   *)
(* for every slot of a block the token prefix whose key/value vectors were *)
(* last written there, or Poison.                                          *)
(***************************************************************************)
EXTENDS Integers, Sequences, FiniteSets, Functions, Queues

CONSTANTS
    Seqs,            \* sequence objects
    Blocks,          \* usable block ids
    BlockSize,       \* tokens per block
    Tokens,          \* token ids
    MaxTokens,       \* bound: a sequence finishes at this length
    NumEmbeddingIds, \* ids of the EmbeddingManager
    MaxUsed,         \* bound: no match is tried when num_used would exceed it
    Workloads        \* what drives the pool: the chunked-prefill scheduler or the
                     \* continuous one, the prompts of new sequences and the
                     \* token ids that may be sampled

ASSUME BlockSizeAssumption == BlockSize \in Nat \ {0}
ASSUME PoolAssumption ==
    IsFiniteSet(Seqs) /\ IsFiniteSet(Blocks) /\ MaxTokens \in Nat
ASSUME WorkloadsAssumption ==
    \A w \in Workloads :
        /\ w.chunked \in BOOLEAN /\ w.sampled \subseteq Tokens
        /\ \A p \in w.prompts : p \in Seq(Tokens) /\ Len(p) \in 1 .. MaxTokens - 1

VARIABLES
    workload,       \* the member of Workloads this process runs, never changed
    tokens,         \* tokens[s]: prompt and generated tokens, <<>> when unused
    prefill_len,    \* max(volatile_num_prompt_tokens_, num_prompt_tokens())
    scheduled,      \* tokens in cache after the pending forward pass, 0: none
    kv,             \* kv_cache_tokens_num_
    blocks,         \* blocks_ of the KVCacheState
    shared,         \* num_owned_shared_blocks_
    prefill_cached, \* sequences with is_cache_block_for_prefill_ set
    embedding,      \* sequences that hold an embedding id
    cached,         \* cached_blocks_: key -> block
    lru,            \* lru_lst_, least recently used first
    num_used,       \* num_used_blocks_
    crashed,        \* "no", or the CHECK / LOG(FATAL) that ended the process
    content         \* ghost: what every slot of every block holds

seqVars == <<tokens, prefill_len, prefill_cached>>
vars == <<workload, tokens, prefill_len, scheduled, kv, blocks, shared, prefill_cached, embedding,
          cached, lru, num_used, crashed, content>>

Slots == 0 .. BlockSize - 1
Poison == <<>>
Wiped == [i \in Slots |-> Poison]

\* Mutant: the hash covers the block's own tokens only.
KeyUnchained(ts, i) == SubSeq(ts, (i - 1) * BlockSize + 1, i * BlockSize)

\* The hash of block i of a token sequence covers all tokens up to its end.
Key(ts, i) == SubSeq(ts, 1, i * BlockSize)

NumBlocksFor(n) == (n + BlockSize - 1) \div BlockSize

Init ==
    /\ workload \in Workloads
    /\ tokens = [s \in Seqs |-> <<>>]
    /\ prefill_len = [s \in Seqs |-> 0]
    /\ scheduled = [s \in Seqs |-> 0]
    /\ kv = [s \in Seqs |-> 0]
    /\ blocks = [s \in Seqs |-> <<>>]
    /\ shared = [s \in Seqs |-> 0]
    /\ prefill_cached = {}
    /\ embedding = {}
    /\ cached = [k \in {} |-> 0]
    /\ lru = <<>>
    /\ num_used = 0
    /\ crashed = "no"
    /\ content = [b \in Blocks |-> Wiped]

-----------------------------------------------------------------------------
\* References to a block from the sequences' block tables bl and the cache ca.
RefCount(bl, ca, b) ==
    Cardinality({s \in Seqs : b \in Range(bl[s])})
  + Cardinality({k \in DOMAIN ca : ca[k] = b})

FreeBlocks(bl, ca) == {b \in Blocks : RefCount(bl, ca, b) = 0}

\* The ghost content after a step that hands out `fresh` blocks: a block that
\* is free, or was just handed out, holds nothing anyone may rely on.
Scrub(bl, ca, fresh) ==
    [b \in Blocks |-> IF b \in fresh \/ RefCount(bl, ca, b) = 0
                        THEN Wiped ELSE content[b]]

\* Mutant: a node is appended without being unlinked.
TouchNoUnlink(list, ts, from, to) == list \o [j \in 1 .. to - from |-> Key(ts, to + 1 - j)]

\* Nodes of the keys of blocks from+1 .. to move to the back of the LRU list,
\* the deepest first, so that a child is evicted before its parent.
Touch(list, ts, from, to) ==
    Without(list, {Key(ts, i) : i \in from + 1 .. to})
        \o [j \in 1 .. to - from |-> Key(ts, to + 1 - j)]

\* PrefixCache::match: the longest run of cached blocks after the ones owned.
MatchLen(s) ==
    LET n == Len(tokens[s]) \div BlockSize
        runs == {m \in shared[s] .. n :
                   \A i \in shared[s] + 1 .. m : Key(tokens[s], i) \in DOMAIN cached}
    IN  CHOOSE m \in runs : \A x \in runs : x <= m

\* Mutant: the most recently used go first.
VictimsNewest(bl, list, n) ==
    LET idle == {i \in DOMAIN list : RefCount(bl, cached, cached[list[i]]) <= 1}
    IN  {list[i] : i \in {x \in idle : Cardinality({y \in idle : y > x}) < n}}

\* PrefixCache::evict: the first n nodes, in LRU order, that only the cache
\* references.
Victims(bl, list, n) ==
    LET idle == {i \in DOMAIN list : RefCount(bl, cached, cached[list[i]]) <= 1}
    IN  {list[i] : i \in {x \in idle : Cardinality({y \in idle : y < x}) < n}}

\* What an eviction leaves in the hash table.
Kept(victims) == Restrict(cached, DOMAIN cached \ victims)

\* BlockManagerImpl::deallocate of sequence s: usage drops by the blocks that
\* no other sequence shares (the cache may hold one more reference).
Exclusive(bl, ca, s) == {b \in Range(bl[s]) : RefCount(bl, ca, b) <= 2}

\* The KV state of a sequence and the parts of the manager that
\* BlockManagerPool::allocate_shared may change.
Unshared(s) ==
    [blocks |-> blocks[s], shared |-> shared[s], kv |-> kv[s], used |-> num_used, lru |-> lru]

\* Mutant: a matched block that only the cache referenced is not counted.
AllocateSharedUncounted(s) ==
    LET m == MatchLen(s)
    IN  [blocks |-> IF m > Len(blocks[s])
                      THEN [i \in 1 .. m |-> cached[Key(tokens[s], i)]] ELSE blocks[s],
         shared |-> m,
         kv |-> IF m > Len(blocks[s]) THEN m * BlockSize ELSE kv[s],
         used |-> num_used,
         lru |-> Touch(lru, tokens[s], shared[s], m)]

\* BlockManagerPool::allocate_shared with KVCacheState::add_shared_kv_blocks.
\* A match no longer than the table replaces the head of the table; a longer
\* one replaces the whole table, and a match of every token gives its last
\* block back so that the model has a token to compute.
AllocateShared(s) ==
    LET m == MatchLen(s)
        matched == [i \in 1 .. m |-> IF i <= shared[s] THEN blocks[s][i]
                                     ELSE cached[Key(tokens[s], i)]]
        used == num_used + Cardinality({i \in 1 .. m : RefCount(blocks, cached, matched[i]) <= 1})
        list == Touch(lru, tokens[s], shared[s], m)
        keep == IF m * BlockSize = Len(tokens[s]) THEN m - 1 ELSE m
    IN  IF m <= Len(blocks[s])
          THEN [blocks |-> matched \o SubSeq(blocks[s], m + 1, Len(blocks[s])),
                shared |-> m, kv |-> kv[s], used |-> used, lru |-> list]
          ELSE [blocks |-> SubSeq(matched, 1, keep),
                shared |-> keep, kv |-> keep * BlockSize, used |-> used, lru |-> list]

-----------------------------------------------------------------------------
\* A request arrives; its sequence starts without blocks.
NewSequence(s, p) ==
    /\ tokens[s] = <<>>
    /\ tokens' = [tokens EXCEPT ![s] = p]
    /\ prefill_len' = [prefill_len EXCEPT ![s] = Len(p)]
    /\ UNCHANGED <<scheduled, kv, blocks, shared, prefill_cached, embedding,
                   cached, lru, num_used, crashed, content>>

\* The additional blocks fit, after an eviction if need be: the sequence joins
\* the next batch.
Grow(s, n, st, extra, free, victims) ==
    \E new \in Injection(1 .. extra, free \cup {cached[k] : k \in victims}) :
        /\ blocks' = [blocks EXCEPT ![s] = st.blocks \o new]
        /\ cached' = Kept(victims)
        /\ lru' = Without(st.lru, victims)
        /\ num_used' = st.used + extra
        /\ scheduled' = [scheduled EXCEPT ![s] = n]
        /\ embedding' = embedding \cup {s}
        /\ kv' = [kv EXCEPT ![s] = st.kv]
        /\ shared' = [shared EXCEPT ![s] = st.shared]
        /\ content' = Scrub(blocks', cached', Range(new))
        /\ UNCHANGED <<seqVars, crashed>>

\* Too few blocks even after evicting every idle one, which stays evicted.  A
\* sequence that started without blocks gives its shared blocks back.  The FATAL
\* branch of deallocate, a counter of 0 that is to be lowered, is no step:
\* UsageCoversBlocksInUse says that it is not reached.
GiveUp(s, st, startedEmpty, victims) ==
    LET bl == [blocks EXCEPT ![s] = st.blocks]
    IN  /\ cached' = Kept(victims)
        /\ lru' = Without(st.lru, victims)
        /\ IF startedEmpty
             THEN /\ blocks' = [blocks EXCEPT ![s] = <<>>]
                  /\ shared' = [shared EXCEPT ![s] = 0]
                  /\ kv' = [kv EXCEPT ![s] = 0]
                  /\ num_used' = st.used - Cardinality(Exclusive(bl, Kept(victims), s))
                  /\ prefill_len' = [prefill_len EXCEPT ![s] = Len(tokens[s])]
                  /\ UNCHANGED embedding
             ELSE /\ blocks' = bl
                  /\ shared' = [shared EXCEPT ![s] = st.shared]
                  /\ kv' = [kv EXCEPT ![s] = st.kv]
                  /\ num_used' = st.used
                  /\ embedding' = embedding \cup {s}
                  /\ UNCHANGED prefill_len
        /\ content' = Scrub(blocks', cached', {})
        /\ UNCHANGED <<tokens, scheduled, prefill_cached, crashed>>

\* BlockManagerPool::allocate(sequence, n) in KV state st.
AllocateFrom(s, n, st, startedEmpty) ==
    LET bl == [blocks EXCEPT ![s] = st.blocks]
        needed == NumBlocksFor(n)
        extra == IF needed <= Len(st.blocks) THEN 0 ELSE needed - Len(st.blocks)
        free == FreeBlocks(bl, cached)
        victims == Victims(bl, st.lru, extra - Cardinality(free))
    IN  IF extra <= Cardinality(free) + Cardinality(victims)
          THEN Grow(s, n, st, extra, free, victims)
          ELSE GiveUp(s, st, startedEmpty, victims)

\* A sequence that reached MaxTokens is finished and never scheduled again.
Unfinished(s) == Len(tokens[s]) \in 1 .. MaxTokens - 1

HasEmbedding(s) == s \in embedding \/ Cardinality(embedding) < NumEmbeddingIds

\* The continuous scheduler allocates for all tokens of a sequence; a sequence
\* without blocks first takes what the prefix cache has.
Allocate(s) ==
    /\ ~workload.chunked
    /\ Unfinished(s) /\ scheduled[s] = 0
    /\ HasEmbedding(s)
    /\ LET startedEmpty == blocks[s] = <<>>
           st == IF startedEmpty THEN AllocateShared(s) ELSE Unshared(s)
       IN  /\ st.used <= MaxUsed
           /\ AllocateFrom(s, Len(tokens[s]), st, startedEmpty)

\* ChunkedPrefillScheduler::allocate_blocks_for: match when the sequence has
\* no blocks, or again (every few chunks) while its prompt is unfinished; then
\* allocate for the next chunk, whatever the budget.  A match that leaves the
\* table empty is repeated by allocate() itself.  When the embedding ids are
\* exhausted allocate() stops there and only the match remains.  The second call
\* for a sequence of the same batch, by handle_remaining_budget, is left out: a
\* chunk gets its blocks by one call.
AllocateChunk(s, n, rematch) ==
    /\ workload.chunked
    /\ Unfinished(s) /\ scheduled[s] = 0
    /\ rematch => blocks[s] # <<>> /\ 0 < kv[s] /\ kv[s] < prefill_len[s]
    /\ LET first == IF rematch \/ blocks[s] = <<>> THEN AllocateShared(s) ELSE Unshared(s)
           st == IF first.blocks = <<>>
                   THEN [first EXCEPT !.used = @ + (first.used - num_used)] ELSE first
       IN  /\ st.used <= MaxUsed
           /\ n \in st.kv + 1 .. Len(tokens[s])
           /\ IF HasEmbedding(s)
                THEN AllocateFrom(s, n, st, st.blocks = <<>>)
                ELSE /\ blocks' = [blocks EXCEPT ![s] = first.blocks]
                     /\ shared' = [shared EXCEPT ![s] = first.shared]
                     /\ kv' = [kv EXCEPT ![s] = first.kv]
                     /\ num_used' = first.used
                     /\ lru' = first.lru
                     /\ content' = Scrub(blocks', cached, {})
                     /\ UNCHANGED <<seqVars, scheduled, embedding, cached, crashed>>

\* Positions of the pending forward pass of s whose KV goes to slot j of b.
Written(s, b, j) ==
    {i \in kv[s] .. scheduled[s] - 1 :
        i % BlockSize = j /\ blocks[s][i \div BlockSize + 1] = b}

\* A token is sampled, and appended, when the pass reaches the end of the
\* sequence: not after a chunk of the prompt.
Sampled(s, t) == IF scheduled[s] = Len(tokens[s]) THEN Append(tokens[s], t) ELSE tokens[s]

\* The forward pass of the batch computes the scheduled tokens of s.
Forward(s, t) ==
    /\ scheduled[s] > 0
    /\ scheduled' = [scheduled EXCEPT ![s] = 0]
    /\ kv' = [kv EXCEPT ![s] = scheduled[s]]
    /\ content' = [b \in Blocks |-> [j \in Slots |->
                     IF Written(s, b, j) = {} THEN content[b][j]
                     ELSE SubSeq(tokens[s], 1, (CHOOSE i \in Written(s, b, j) : TRUE) + 1)]]
    /\ tokens' = [tokens EXCEPT ![s] = Sampled(s, t)]
    /\ UNCHANGED <<prefill_len, blocks, shared, prefill_cached, embedding,
                   cached, lru, num_used, crashed>>

\* PrefixCache::insert of the blocks of s whose tokens are all computed.
InsertedBlocks(s) ==
    LET full == kv[s] \div BlockSize
    IN  IF full <= Len(blocks[s]) THEN full ELSE Len(blocks[s])

\* CHECK_GE(n_blocks, existed_shared_blocks_num) in PrefixCache::insert.
InsertCheckFails(s) == InsertedBlocks(s) > 0 /\ InsertedBlocks(s) < shared[s]

\* Mutant: blocks are inserted for all tokens, computed or not.
CacheAfterAll(s) ==
    LET n == Len(tokens[s]) \div BlockSize
        m == IF n <= Len(blocks[s]) THEN n ELSE Len(blocks[s])
        new == {Key(tokens[s], i) : i \in shared[s] + 1 .. m} \ DOMAIN cached
    IN  [k \in DOMAIN cached \cup new |->
           IF k \in new THEN blocks[s][Len(k) \div BlockSize] ELSE cached[k]]

CacheAfter(s) ==
    LET new == {Key(tokens[s], i) : i \in shared[s] + 1 .. InsertedBlocks(s)} \ DOMAIN cached
    IN  [k \in DOMAIN cached \cup new |->
           IF k \in new THEN blocks[s][Len(k) \div BlockSize] ELSE cached[k]]

LruAfter(s) ==
    IF InsertedBlocks(s) = 0 THEN lru ELSE Touch(lru, tokens[s], shared[s], InsertedBlocks(s))

Crash(what) ==
    /\ crashed' = what
    /\ UNCHANGED <<seqVars, scheduled, kv, blocks, shared, embedding, cached, lru,
                   num_used, content>>

\* The continuous scheduler's decode handler caches a sequence once, in its
\* first decode step.
Cache(s) ==
    /\ ~workload.chunked
    /\ scheduled[s] > 0 /\ s \notin prefill_cached
    /\ kv[s] >= prefill_len[s] /\ Len(tokens[s]) > prefill_len[s]
    /\ IF InsertCheckFails(s) THEN Crash("insert_check")
       ELSE /\ prefill_cached' = prefill_cached \cup {s}
            /\ cached' = CacheAfter(s)
            /\ lru' = LruAfter(s)
            /\ UNCHANGED <<tokens, prefill_len, scheduled, kv, blocks, shared,
                           embedding, num_used, crashed, content>>

\* BlockManagerPool::deallocate: insert into the prefix cache, adjust the
\* usage, return the embedding id, reset the KV state.  `keep` is TRUE for a
\* preempted sequence, which will be prefilled again.
Deallocate(s, keep) ==
    LET ca == CacheAfter(s)
        mine == Exclusive(blocks, ca, s)
    IN  /\ tokens[s] # <<>> /\ scheduled[s] = 0
        /\ keep => blocks[s] # <<>>
        /\ IF InsertCheckFails(s) THEN Crash("insert_check")
           ELSE IF num_used < Cardinality(mine) THEN Crash("num_used_blocks")
           ELSE /\ cached' = ca
                /\ lru' = LruAfter(s)
                /\ num_used' = num_used - Cardinality(mine)
                /\ embedding' = embedding \ {s}
                /\ blocks' = [blocks EXCEPT ![s] = <<>>]
                /\ shared' = [shared EXCEPT ![s] = 0]
                /\ kv' = [kv EXCEPT ![s] = 0]
                /\ IF keep
                     THEN /\ prefill_len' = [prefill_len EXCEPT ![s] = Len(tokens[s])]
                          /\ UNCHANGED <<tokens, prefill_cached>>
                     ELSE /\ tokens' = [tokens EXCEPT ![s] = <<>>]
                          /\ prefill_len' = [prefill_len EXCEPT ![s] = 0]
                          /\ prefill_cached' = prefill_cached \ {s}
                /\ content' = Scrub(blocks', cached', {})
                /\ UNCHANGED <<scheduled, crashed>>

Next ==
    /\ crashed = "no"
    /\ UNCHANGED workload
    /\ \E s \in Seqs :
          \/ \E p \in workload.prompts : NewSequence(s, p)
          \/ Allocate(s)
          \/ \E n \in 1 .. MaxTokens, rematch \in BOOLEAN : AllocateChunk(s, n, rematch)
          \/ \E t \in workload.sampled : Forward(s, t)
          \/ Cache(s)
          \/ \E keep \in BOOLEAN : Deallocate(s, keep)

Spec == Init /\ [][Next]_vars

-----------------------------------------------------------------------------
\* The fields keep their types, and the LRU list and the hash table of the
\* prefix cache list the same keys (the CHECK in PrefixCache::num_blocks).
TypeOK ==
    /\ workload \in Workloads
    /\ tokens \in [Seqs -> Seq(Tokens)] /\ blocks \in [Seqs -> Seq(Blocks)]
    /\ kv \in [Seqs -> Nat] /\ scheduled \in [Seqs -> Nat]
    /\ shared \in [Seqs -> Nat] /\ prefill_len \in [Seqs -> Nat]
    /\ \A s \in Seqs :
          /\ Len(tokens[s]) <= MaxTokens
          /\ kv[s] <= Len(tokens[s])
          /\ scheduled[s] \in {0} \cup kv[s] + 1 .. Len(tokens[s])
          /\ shared[s] <= Len(blocks[s])
          /\ prefill_len[s] <= Len(tokens[s])
    /\ prefill_cached \subseteq Seqs /\ embedding \subseteq Seqs
    /\ cached \in [DOMAIN cached -> Blocks] /\ DOMAIN cached \subseteq Seq(Tokens)
    /\ lru \in Seq(DOMAIN cached) /\ Range(lru) = DOMAIN cached /\ IsInjective(lru)
    /\ content \in [Blocks -> [Slots -> Seq(Tokens)]]
    /\ num_used \in Nat
    /\ crashed \in {"no", "insert_check", "num_used_blocks"}

\* Every token a sequence counts as computed has its own KV in its own block
\* table: blocks shared through the prefix cache, replaced by a later match,
\* evicted and handed out again never leave it reading someone else's KV.
SequenceKVIntact ==
    \A s \in Seqs : \A i \in 0 .. kv[s] - 1 :
        /\ i \div BlockSize < Len(blocks[s])
        /\ content[blocks[s][i \div BlockSize + 1]][i % BlockSize] = SubSeq(tokens[s], 1, i + 1)

\* Every block in the prefix cache holds the complete KV of the token prefix
\* it is found under: a later hit can use it as it is.
CachedKVIntact ==
    \A k \in DOMAIN cached : \A j \in Slots :
        content[cached[k]][j] = SubSeq(k, 1, Len(k) - BlockSize + j + 1)

InUse == {b \in Blocks : \E s \in Seqs : b \in Range(blocks[s])}

\* num_used_blocks_ never falls below the blocks in use, so deallocate() never
\* reaches LOG(FATAL) "num_used_blocks_==0 cannot fetch_sub".
UsageCoversBlocksInUse ==
    /\ num_used >= Cardinality(InUse)
    /\ crashed # "num_used_blocks"

\* CHECK_GE(n_blocks, existed_shared_blocks_num) in PrefixCache::insert holds.
InsertCheckHolds == crashed # "insert_check"

\* PrefixCache::evict takes least recently used nodes and never one that a
\* sequence uses.  There is one sequence s that takes the step, and a key that
\* disappears was unused, and before every unused key that stays in the LRU
\* list, except the keys of s, which its own match has just moved to the back.
EvictsLeastRecentlyUsed ==
    [][\E s \in Seqs :
          /\ \A r \in Seqs \ {s} : blocks'[r] = blocks[r]
          /\ \A k \in DOMAIN cached \ DOMAIN cached' :
                /\ cached[k] \notin InUse
                /\ \A x \in DOMAIN cached' :
                      \/ cached[x] \in InUse
                      \/ \E i \in 1 .. Len(tokens[s]) \div BlockSize : x = Key(tokens[s], i)
                      \/ Before(lru, k, x)]_vars
=============================================================================
