--------------------------- MODULE HierarchyCache ---------------------------
(***************************************************************************)
(* The tiers of the KV cache: HierarchyBlockManagerPool, the prefetch      *)
(* stream between the engine and its workers, and the copies of            *)
(* HierarchyKVCacheTransfer between device, host memory and the store.     *)
(*                                                                         *)
(* Threads.  RPC threads add requests and start prefetches; the scheduler  *)
(* thread builds and runs steps; on every worker a pool thread fetches     *)
(* from the store and another copies to host memory; a thread of the       *)
(* global executor completes an offload.  The KV cache store is on, so     *)
(* both block managers are ConcurrentBlockManagerImpl and each call is     *)
(* atomic.                                                                 *)
(*                                                                         *)
(* Abstractions.  One data-parallel rank, one sequence per request.  A     *)
(* prompt has PromptBlocks full blocks and a partial one; Path[s] names    *)
(* the chained hash of every block the sequence may fill.  A block is free *)
(* when nothing refers to it (module Block) and an idle cached block may   *)
(* be evicted in any order (BlockManager has the order).  The queues of    *)
(* the scheduler are in ContinuousScheduler: here any waiting request may  *)
(* be next.  devKV, hostKV and store hold, for every block, the hash whose *)
(* keys and values were last written there.                                *)
(*                                                                         *)
(* Four windows of the code let a block be relied upon that does not hold  *)
(* what it should: a prefetch that outlives its request, a queued load     *)
(* that outlives the allocation it was made for, a load that fails, and a  *)
(* forward pass that does not wait for its loads.  What they leave behind, *)
(* and what is computed or copied from it, is marked Stale, so that the    *)
(* invariants say that nothing else goes wrong.                            *)
(***************************************************************************)
EXTENDS Integers, Sequences, FiniteSets, FiniteSetsExt, SequencesExt

CONSTANTS
    Seqs,         \* requests, of one sequence each
    Path,         \* Path[s]: hashes of the blocks a sequence may fill
    PromptBlocks, \* PromptBlocks[s]: how many of them its prompt fills
    DevBlocks,    \* blocks of the device
    HostBlocks,   \* blocks of host memory
    Workers,      \* tensor-parallel ranks, each with its own copy of a block
    Batch,        \* prefetch_bacth_size
    LatencyAware, \* enable_latency_aware_schedule
    Stored,       \* hashes in the store at the start
    MaxFaults     \* bound: failed connections and idle timeouts

Keys == UNION {Range(Path[s]) : s \in Seqs}
Junk == "junk"     \* anything, from a transfer that did not complete
Stale == "stale"   \* anything, from one of the four windows
Content == Keys \cup {Junk, Stale}

ASSUME PathAssumption ==
    /\ Path \in [Seqs -> Seq(Keys)] /\ PromptBlocks \in [Seqs -> Nat]
    /\ \A s \in Seqs : PromptBlocks[s] \in 1 .. Len(Path[s])
    /\ \A s, t \in Seqs : \A i \in DOMAIN Path[s] : \A j \in DOMAIN Path[t] :
         Path[s][i] = Path[t][j] => i = j /\ SubSeq(Path[s], 1, i) = SubSeq(Path[t], 1, j)
ASSUME BatchAssumption == Batch \in Nat \ {0} /\ Stored \subseteq Keys
ASSUME TiersAssumption ==
    /\ IsFiniteSet(Seqs) /\ IsFiniteSet(DevBlocks) /\ IsFiniteSet(HostBlocks)
    /\ IsFiniteSet(Workers) /\ Workers # {}

VARIABLES
    pc,       \* the scheduler thread builds a batch or runs one
    status,   \* new, waiting, placed, prefill, running, decode or gone
    full,     \* full[s]: blocks filled by the tokens of the sequence
    dev,      \* blocks_ of kv_state()
    kv,       \* kv_cache_tokens_num() of kv_state(), in full blocks
    host,     \* blocks_ of host_kv_state()
    hkv,      \* kv_cache_tokens_num() of host_kv_state(), in blocks
    awaiting, \* sequences whose prefetch_results_ are not empty
    flag,     \* termination_flag_
    result,   \* prefetch_results_ of every worker
    task,     \* task[s][w]: the blocks a worker still has to fetch, and their hashes
    stream,   \* stream[s][w]: counts on their way to the engine
    client,   \* client[s][w]: the engine's end, "open" or "closed"
    faulty,   \* sequences whose prefetch met a fault
    dcache,   \* prefix cache of the device
    hcache,   \* prefix cache of host memory
    loads,    \* load_block_transfer_infos_
    copying,  \* loads of the step under way that are not on the device yet
    offq,     \* offload_block_pair_queues_
    flying,   \* offloads under way: pairs and the workers that have copied
    late,     \* targets of loads that no forward pass has waited for
    devKV, hostKV, store

seqVars == <<pc, status, full, dev, kv, host, hkv>>
fetchVars == <<awaiting, flag, result, task, stream, client, faulty>>
tierVars == <<dcache, hcache, loads, copying, offq, flying>>
dataVars == <<late, devKV, hostKV, store>>
vars == <<seqVars, fetchVars, tierVars, dataVars>>

NoFun == [x \in {} |-> 0]
PerWorker(x) == [w \in Workers |-> x]

Init ==
    /\ pc = "build"
    /\ status = [s \in Seqs |-> "new"]
    /\ full = PromptBlocks
    /\ dev = [s \in Seqs |-> <<>>] /\ kv = [s \in Seqs |-> 0]
    /\ host = [s \in Seqs |-> <<>>] /\ hkv = [s \in Seqs |-> 0]
    /\ awaiting = {} /\ faulty = {}
    /\ flag = [s \in Seqs |-> 0]
    /\ result = [s \in Seqs |-> PerWorker(0)]
    /\ task = [s \in Seqs |-> PerWorker(<<>>)]
    /\ stream = [s \in Seqs |-> PerWorker(<<>>)]
    /\ client = [s \in Seqs |-> PerWorker("closed")]
    /\ dcache = NoFun /\ hcache = NoFun
    /\ loads = {} /\ copying = {} /\ offq = {} /\ flying = {}
    /\ late = {}
    /\ devKV = [b \in DevBlocks |-> Junk]
    /\ hostKV = PerWorker([b \in HostBlocks |-> Junk])
    /\ store = PerWorker([k \in Stored |-> k])

-----------------------------------------------------------------------------
\* Blocks and caches.
Pairs == offq \cup UNION {f.pairs : f \in flying}

HeldBy(tables) == UNION {Range(tables[s]) : s \in Seqs}
DevHeld == HeldBy(dev) \cup {p.src : p \in Pairs}
HostHeld == HeldBy(host) \cup {p.dst : p \in Pairs}

\* Block::ref_count of a device block, from the tables, the cache and the pairs.
DevRefs(b, tables, cache) ==
    Cardinality({s \in Seqs : b \in Range(tables[s])})
  + Cardinality({k \in DOMAIN cache : cache[k] = b})
  + Cardinality({p \in Pairs : p.src = b})

\* Longest prefix of a sequence's full blocks in a cache (PrefixCache::match).
MatchLen(s, cache) ==
    Max({0} \cup {n \in 1 .. full[s] : \A i \in 1 .. n : Path[s][i] \in DOMAIN cache})
Matched(s, cache) == [i \in 1 .. MatchLen(s, cache) |-> cache[Path[s][i]]]

\* Blocks that a load or a prefetch will still write to.
Targets == {l.dst : l \in loads} \cup late
HostTargets == {x.blk : x \in UNION {Range(task[s][w]) : s \in Seqs, w \in Workers}}

\* The next n free blocks.  Ids have no meaning, so free blocks differ only in
\* whether they are targets: these come first or last.
Picks(n, free, targets) ==
    LET hit == SetToSeq(free \cap targets)
        rest == SetToSeq(free \ targets)
    IN  {SubSeq(hit \o rest, 1, n), SubSeq(rest \o hit, 1, n)}

\* BlockManagerImpl::allocate(n): the caches it may leave after evicting idle
\* blocks, paired with the blocks it returns: n of them, or none when evicting
\* every idle block does not make enough.
Allocations(n, pool, targets, cache, held) ==
    LET idle == {k \in DOMAIN cache : cache[k] \notin held}
        free(c) == pool \ (held \cup Range(c))
        lack == n - Cardinality(free(cache))
        Without(gone) == [k \in DOMAIN cache \ gone |-> cache[k]]
    IN  IF lack > Cardinality(idle)
        THEN {[cache |-> Without(idle), got |-> <<>>]}
        ELSE UNION {{[cache |-> c, got |-> g] : g \in Picks(n, free(c), targets)}
                    : c \in {Without(gone) : gone \in kSubset(Max({lack, 0}), idle)}}

\* The same for the two tiers; `more` are blocks the caller has just matched.
DevAllocations(n, more) == Allocations(n, DevBlocks, Targets, dcache, DevHeld \cup more)
HostAllocations(n, more) == Allocations(n, HostBlocks, HostTargets, hcache, HostHeld \cup more)

\* PrefixCache::insert of blocks by their hashes; a hash that is there stays.
Inserted(cache, new) ==
    [k \in DOMAIN cache \cup DOMAIN new |-> IF k \in DOMAIN cache THEN cache[k] ELSE new[k]]

\* BlockManagerPool::cache: the device blocks that are complete.
DevCached(s, cache) ==
    Inserted(cache, [k \in {Path[s][i] : i \in 1 .. kv[s]} |->
                        dev[s][CHOOSE i \in 1 .. kv[s] : Path[s][i] = k]])

\* Host block b is counted for hash k, in a table or in the cache.
StandsFor(b, k) ==
    \/ \E s \in Seqs : \E i \in 1 .. hkv[s] : host[s][i] = b /\ Path[s][i] = k
    \/ k \in DOMAIN hcache /\ hcache[k] = b

\* A block that becomes free holds nothing anyone may rely on.
Scrub ==
    /\ devKV' = [b \in DevBlocks |-> IF b \in DevHeld' \cup Range(dcache') THEN devKV[b] ELSE Junk]
    /\ hostKV' = [w \in Workers |-> [b \in HostBlocks |->
                   IF b \in HostHeld' \cup Range(hcache') THEN hostKV[w][b] ELSE Junk]]
    /\ UNCHANGED <<late, store>>

-----------------------------------------------------------------------------
\* Mutant: the count survives the blocks.
ResetHostKeepsCount(s) == host' = [host EXCEPT ![s] = <<>>] /\ UNCHANGED hkv

\* The host part of Sequence::reset.
ResetHost(s) == host' = [host EXCEPT ![s] = <<>>] /\ hkv' = [hkv EXCEPT ![s] = 0]

\* HierarchyBlockManagerPool::deallocate, on a device cache the caller may
\* have evicted from: complete blocks enter the device cache and those that
\* no other sequence uses are queued for the host tier.
Deallocate(s, cache) ==
    LET dc == DevCached(s, cache)
        offload == Len(host[s]) < Len(dev[s])
        needed == IF offload THEN Max({kv[s] - Len(host[s]), 0}) ELSE 0
    IN  \E a \in HostAllocations(needed, {}) :
          LET hb == host[s] \o a.got
              moved == {i \in hkv[s] + 1 .. Len(hb) : DevRefs(dev[s][i], dev, dc) = 2}
          IN  /\ dcache' = dc
              /\ hcache' = a.cache
              /\ offq' = IF offload
                         THEN offq \cup {[src |-> dev[s][i], dst |-> hb[i], key |-> Path[s][i]]
                                           : i \in moved}
                         ELSE offq
              /\ dev' = [dev EXCEPT ![s] = <<>>] /\ kv' = [kv EXCEPT ![s] = 0]
              /\ ResetHost(s)

BatchOf(kind) == {s \in Seqs : status[s] \in kind}
Building == pc = "build" /\ BatchOf({"placed"}) = {}

\* Nothing runs and nothing is scheduled: a request that cannot be placed fails.
NothingRuns(s) == \A t \in Seqs \ {s} : status[t] \notin {"prefill", "running", "decode"}
Unplaced(s) == [status EXCEPT ![s] = IF NothingRuns(s) THEN "gone" ELSE "waiting"]

\* add_request on an RPC thread: prefetch_from_storage, then request_queue_.
\* A full queue destroys the request, its handles, but not its prefetch.
AddRequest(s) ==
    /\ status[s] = "new"
    /\ \E accepted \in BOOLEAN :
         LET m == Matched(s, hcache)
             n == PromptBlocks[s] + 1 - Len(m)
         IN  \E a \in HostAllocations(IF n <= 1 THEN 0 ELSE n, Range(m)) :
               LET fetch == a.got # <<>>
                   wait == fetch /\ accepted
               IN  /\ hcache' = a.cache
                   /\ status' = [status EXCEPT ![s] = IF accepted THEN "waiting" ELSE "gone"]
                   /\ host' = [host EXCEPT ![s] = IF accepted THEN m \o a.got ELSE <<>>]
                   /\ hkv' = [hkv EXCEPT ![s] = IF accepted THEN Len(m) ELSE 0]
                   /\ task' = [task EXCEPT ![s] = PerWorker(
                                 IF fetch THEN [i \in 1 .. n - 1 |->
                                                 [blk |-> a.got[i], key |-> Path[s][Len(m) + i]]]
                                 ELSE <<>>)]
                   /\ flag' = [flag EXCEPT ![s] = IF wait THEN Cardinality(Workers) ELSE 0]
                   /\ awaiting' = IF wait THEN awaiting \cup {s} ELSE awaiting
                   /\ client' = [client EXCEPT ![s] = PerWorker(IF wait THEN "open" ELSE "closed")]
    /\ UNCHANGED <<pc, full, dev, kv, result, stream, faulty,
                   dcache, loads, copying, offq, flying>>
    /\ Scrub

-----------------------------------------------------------------------------
\* The prefetch stream.  That a worker accepts it and schedules the transfer
\* changes nothing else and is no step of its own.
FaultAt(s) == Cardinality(faulty) < MaxFaults /\ faulty' = faulty \cup {s}

\* The call that opens the stream fails and the worker never starts.
ConnectFails(s, w) ==
    /\ client[s][w] = "open" /\ task[s][w] # <<>> /\ stream[s][w] = <<>>
    /\ result[s][w] = 0 /\ FaultAt(s)
    /\ client' = [client EXCEPT ![s][w] = "closed"]
    /\ task' = [task EXCEPT ![s][w] = <<>>]
    /\ UNCHANGED <<seqVars, awaiting, flag, result, stream, tierVars, dataVars>>

\* Mutant: no end marker after a batch that was fetched in full.
ReportNoEnd(n, done) == <<n>>

\* What the worker writes to the stream after a batch of which n were fetched.
Report(n, done) == IF done /\ n # 0 THEN <<n, 0>> ELSE <<n>>

\* One batch: KVCacheStore::batch_get, which counts the blocks up to the first
\* that is missing or fails, and the write of the count.  A write to a stream
\* the engine has closed fails once the worker has heard of it.
Fetch(s, w) ==
    LET left == task[s][w]
        size == Min({Batch, Len(left)})
        present == Max({0} \cup {n \in 1 .. size : \A i \in 1 .. n : left[i].key \in DOMAIN store[w]})
        mine == {host[s][j] : j \in hkv[s] + 1 .. Len(host[s])}
        used == HostHeld \cup Range(hcache)
    IN  /\ left # <<>>
        /\ \E n \in 0 .. present :
             LET done == n # size \/ Len(left) <= Batch
                 next == IF done THEN <<>> ELSE SubSeq(left, Batch + 1, Len(left))
                 Got(i) == IF left[i].blk \notin mine THEN Stale
                           ELSE IF i <= n THEN store[w][left[i].key] ELSE Junk
                 Index(b) == {i \in 1 .. Min({n + 1, present}) : left[i].blk = b}
             IN  /\ hostKV' = [hostKV EXCEPT ![w] = [b \in HostBlocks |->
                                  IF b \notin used \/ Index(b) = {} THEN @[b] ELSE Got(Max(Index(b)))]]
                 /\ \/ /\ client[s][w] = "open"
                       /\ stream' = [stream EXCEPT ![s][w] = @ \o Report(n, done)]
                       /\ task' = [task EXCEPT ![s][w] = next]
                    \/ /\ client[s][w] = "closed"
                       /\ \E t \in {<<>>, next} : task' = [task EXCEPT ![s][w] = t]
                       /\ UNCHANGED stream
        /\ UNCHANGED <<seqVars, awaiting, flag, result, client, faulty, tierVars, late, devKV,
                       store>>

\* ClientStreamReceiver::on_received_messages, while the request waits.
Receive(s, w) ==
    /\ client[s][w] = "open" /\ stream[s][w] # <<>>
    /\ LET n == Head(stream[s][w])
       IN  IF n > 0 /\ flag[s] > 0
           THEN /\ result' = [result EXCEPT ![s][w] = @ + n]
                /\ stream' = [stream EXCEPT ![s][w] = Tail(@)]
                /\ UNCHANGED <<flag, client>>
           ELSE /\ flag' = [flag EXCEPT ![s] = @ - 1]
                /\ client' = [client EXCEPT ![s][w] = "closed"]
                /\ stream' = [stream EXCEPT ![s][w] = <<>>]
                /\ UNCHANGED result
    /\ UNCHANGED <<seqVars, awaiting, task, faulty, tierVars, dataVars>>

\* on_idle_timeout, or the answer to the opening call is lost: the engine gives
\* the worker up without counting it.
IdleTimeout(s, w) ==
    /\ client[s][w] = "open" /\ stream[s][w] = <<>>
    /\ FaultAt(s)
    /\ client' = [client EXCEPT ![s][w] = "closed"]
    /\ UNCHANGED <<seqVars, awaiting, flag, result, task, stream, tierVars, dataVars>>

-----------------------------------------------------------------------------
\* The scheduler thread.

\* The flag becomes 0, or nobody looks at it any more: a report that arrives now
\* closes the stream or is lost on everyone.  The worker goes on until it ends
\* or finds the stream closed.
StopWaiting(s) ==
    /\ awaiting' = awaiting \ {s}
    /\ flag' = [flag EXCEPT ![s] = 0]
    /\ result' = [result EXCEPT ![s] = PerWorker(0)]
    /\ stream' = [stream EXCEPT ![s] = PerWorker(<<>>)]
    /\ client' = [client EXCEPT ![s] = PerWorker("closed")]

\* Blocks that every worker has fetched.
Fetched(s) == Min({result[s][w] : w \in Workers} \cup {Len(host[s])})

\* update_prefetch_result, when every worker has ended or prefetch_timeout has
\* passed: the request waits no longer and counts what it has.
UpdatePrefetch(s) ==
    /\ Building /\ status[s] = "waiting" /\ s \in awaiting
    /\ LET to == hkv[s] + Fetched(s)
           new == hkv[s] + 1 .. to
       IN  /\ hkv' = [hkv EXCEPT ![s] = to]
           /\ hcache' = Inserted(hcache, [k \in {Path[s][i] : i \in new} |->
                                            host[s][CHOOSE i \in new : Path[s][i] = k]])
    /\ StopWaiting(s)
    /\ UNCHANGED <<pc, status, full, dev, kv, host, task, faulty,
                   dcache, loads, copying, offq, flying, dataVars>>

\* Copies to the device of the blocks that only the host tier has.
LoadsFor(s, table, from, htable, to) ==
    {[src |-> htable[i], dst |-> table[i], key |-> Path[s][i]] : i \in from + 1 .. to}

\* HierarchyBlockManagerPool::allocate for a prefill.  A failure resets the
\* sequence, its host blocks included.
Allocate(s) ==
    /\ Building /\ status[s] = "waiting" /\ s \notin awaiting
    /\ BatchOf({"decode"}) = {}
    /\ LET m == Matched(s, dcache)
       IN  \E a \in DevAllocations(full[s] + 1 - Len(m), Range(m)) :
             /\ dcache' = a.cache
             /\ IF a.got = <<>>
                THEN /\ ResetHost(s)
                     /\ status' = Unplaced(s)
                     /\ UNCHANGED <<dev, kv, loads>>
                ELSE LET ht == IF host[s] = <<>> THEN Matched(s, hcache) ELSE host[s]
                         hk == IF host[s] = <<>> THEN Len(ht) ELSE hkv[s]
                     IN  /\ dev' = [dev EXCEPT ![s] = m \o a.got]
                         /\ kv' = [kv EXCEPT ![s] = Max({Len(m), hk})]
                         /\ host' = [host EXCEPT ![s] = ht] /\ hkv' = [hkv EXCEPT ![s] = hk]
                         /\ loads' = loads \cup LoadsFor(s, m \o a.got, Len(m), ht, hk)
                         /\ status' = [status EXCEPT ![s] = IF LatencyAware THEN "placed" ELSE "prefill"]
    /\ UNCHANGED <<pc, full, fetchVars, hcache, copying, offq, flying>>
    /\ Scrub

\* With enable_latency_aware_schedule the predicted latency decides only now
\* whether the request joins the batch; the loads stay queued either way.
Accept(s) ==
    /\ status[s] = "placed"
    /\ status' = [status EXCEPT ![s] = "prefill"]
    /\ UNCHANGED <<pc, full, dev, kv, host, hkv, fetchVars, tierVars, dataVars>>

Abandon(s) ==
    /\ status[s] = "placed"
    /\ Deallocate(s, dcache)
    /\ status' = Unplaced(s)
    /\ UNCHANGED <<pc, full, fetchVars, loads, copying, flying>>
    /\ Scrub

\* handle_decode_requests: one block for the next tokens, and the prompt's
\* blocks enter the cache; when there is none a running request is preempted.
Decode(s) ==
    /\ Building /\ status[s] = "running" /\ full[s] < Len(Path[s])
    /\ BatchOf({"prefill"}) = {}
    /\ \E a \in DevAllocations(1, {}) :
         \/ /\ a.got # <<>>
            /\ dev' = [dev EXCEPT ![s] = @ \o a.got]
            /\ dcache' = DevCached(s, a.cache)
            /\ status' = [status EXCEPT ![s] = "decode"]
            /\ UNCHANGED <<kv, host, hkv, hcache, offq>>
         \/ /\ a.got = <<>>
            /\ \E v \in BatchOf({"running"}) :
                 /\ Deallocate(v, a.cache)
                 /\ status' = [status EXCEPT ![v] = "waiting"]
    /\ UNCHANGED <<pc, full, fetchVars, loads, copying, flying>>
    /\ Scrub

\* A running request has finished or was cancelled.
Finish(s) ==
    /\ Building /\ status[s] = "running" /\ BatchOf({"prefill", "decode"}) = {}
    /\ Deallocate(s, dcache)
    /\ status' = [status EXCEPT ![s] = "gone"]
    /\ UNCHANGED <<pc, full, fetchVars, loads, copying, flying>>
    /\ Scrub

\* A waiting request was cancelled.  Its prefetch goes on.
Cancel(s) ==
    /\ Building /\ status[s] = "waiting"
    /\ Deallocate(s, dcache)
    /\ status' = [status EXCEPT ![s] = "gone"]
    /\ StopWaiting(s)
    /\ UNCHANGED <<pc, full, task, faulty,
                   loads, copying, flying>>
    /\ Scrub

-----------------------------------------------------------------------------
\* Copies.

Launched == IF offq = {} THEN flying ELSE flying \cup {[pairs |-> offq, copied |-> {}]}

\* transfer_blocks: the loads go with a batch, the offloads always.
Transfer ==
    /\ Building /\ BatchOf({"prefill", "decode"}) # {}
    /\ pc' = "run"
    /\ copying' = loads /\ loads' = {}
    /\ flying' = Launched /\ offq' = {}
    /\ UNCHANGED <<status, full, dev, kv, host, hkv, fetchVars, dcache, hcache, dataVars>>

TransferNoBatch ==
    /\ Building /\ BatchOf({"prefill", "decode"}) = {} /\ offq # {}
    /\ flying' = Launched /\ offq' = {}
    /\ UNCHANGED <<seqVars, fetchVars, dcache, hcache, loads, copying, dataVars>>

\* What block d holds after the loads ls: Stale when the host block was given
\* away, or the device block is the target of two loads.
Loaded(d, ls) ==
    LET mine == {l \in ls : l.dst = d}
        l == CHOOSE l \in mine : TRUE
        found == {hostKV[w][l.src] : w \in Workers}
    IN  IF mine = {} THEN devKV[d]
        ELSE IF mine # {l} \/ ~StandsFor(l.src, l.key) \/ Stale \in found THEN Stale
        ELSE IF Cardinality(found) = 1 THEN CHOOSE c \in found : TRUE
        ELSE Junk

\* h2d_batch_copy on every worker.
LoadCopy ==
    /\ copying # {}
    /\ devKV' = [d \in DevBlocks |-> Loaded(d, copying)]
    /\ copying' = {}
    /\ UNCHANGED <<seqVars, fetchVars, dcache, hcache, loads, offq, flying, late, hostKV, store>>

\* Blocks bs have unknown contents, as far as anyone may rely on them.
Spoil(bs) ==
    devKV' = [b \in DevBlocks |-> IF b \in bs \cap (DevHeld \cup Range(dcache)) THEN Stale ELSE devKV[b]]

\* h2d_batch_copy fails on a worker: it logs the error and sets the event flag, so
\* that the forward pass goes on.  (When groups of layers are left that it breaks
\* off before, the pass waits for their flags for ever: the copy never ends.)
LoadFails ==
    /\ copying # {}
    /\ Spoil({l.dst : l \in copying})
    /\ copying' = {}
    /\ UNCHANGED <<seqVars, fetchVars, dcache, hcache, loads, offq, flying, late, hostKV, store>>

\* set_layer_synchronizer finds no synchronizer, because the pool thread has not
\* come to h2d_batch_copy yet or because the call that orders the copies was lost:
\* the forward pass does not wait.
SkipWait ==
    /\ pc = "run" /\ copying # {}
    /\ Spoil({l.dst : l \in copying})
    /\ late' = late \cup {l.dst : l \in copying}
    /\ copying' = {}
    /\ UNCHANGED <<seqVars, fetchVars, dcache, hcache, loads, offq, flying, hostKV, store>>

\* The copy of block b that was not waited for, whoever has the block now.
LateCopy(b) ==
    /\ b \in late
    /\ Spoil({b})
    /\ late' = late \ {b}
    /\ UNCHANGED <<seqVars, fetchVars, tierVars, hostKV, store>>

\* Mutant: the synchronizer is there but not waited for.
LoadsDoneAlways == TRUE

\* synchronize_layer, in every layer: no copy of the step is left to wait for.
LoadsDone == copying = {}

\* The forward pass, which waits for its loads unless SkipWait was taken, fills the
\* remaining blocks of a prompt, or the block that the generated tokens complete,
\* from what the earlier blocks hold.
Compute ==
    /\ pc = "run" /\ LoadsDone
    /\ LET Upto(s) == full[s] + (IF status[s] = "decode" THEN 1 ELSE 0)
           batch == BatchOf({"prefill", "decode"})
           Written(b) == {s \in batch : \E i \in kv[s] + 1 .. Upto(s) : dev[s][i] = b}
           Wrong(s) == {devKV[dev[s][i]] : i \in {j \in 1 .. kv[s] : devKV[dev[s][j]] # Path[s][j]}}
           Value(s, b) == CASE Wrong(s) = {} -> Path[s][CHOOSE i \in 1 .. Upto(s) : dev[s][i] = b]
                            [] Stale \in Wrong(s) -> Stale
                            [] OTHER -> Junk
       IN  /\ devKV' = [b \in DevBlocks |-> IF Written(b) = {} THEN devKV[b]
                                            ELSE Value(CHOOSE s \in Written(b) : TRUE, b)]
           /\ kv' = [s \in Seqs |-> IF s \in batch THEN Upto(s) ELSE kv[s]]
           /\ full' = [s \in Seqs |-> Upto(s)]
           /\ status' = [s \in Seqs |-> IF s \in batch THEN "running" ELSE status[s]]
    /\ pc' = "build"
    /\ UNCHANGED <<dev, host, hkv, fetchVars, tierVars, late, hostKV, store>>

\* What a device block has for an offload: a queued load that outlived its
\* allocation may not have filled it yet, although the prefix cache offers it.
Offered(d) == IF d \in {l.dst : l \in loads \cup copying} THEN Stale ELSE devKV[d]

\* offload_kv_blocks on one worker: copy to host memory, then put into the
\* store what it does not have.  A put that fails is logged; what it leaves out
\* is what a fetch may find missing.
OffloadCopy(f, w) ==
    /\ w \notin f.copied
    /\ LET From(b) == {p \in f.pairs : p.dst = b}
           after == [b \in HostBlocks |-> IF From(b) = {} THEN hostKV[w][b]
                                          ELSE Offered((CHOOSE p \in From(b) : TRUE).src)]
           new == [k \in {p.key : p \in f.pairs} |-> after[(CHOOSE p \in f.pairs : p.key = k).dst]]
       IN  /\ hostKV' = [hostKV EXCEPT ![w] = after]
           /\ store' = [store EXCEPT ![w] = Inserted(@, new)]
    /\ flying' = (flying \ {f}) \cup {[f EXCEPT !.copied = @ \cup {w}]}
    /\ UNCHANGED <<seqVars, fetchVars, dcache, hcache, loads, copying, offq, late, devKV>>

\* Mutant: the first worker that answers completes the offload.
AllCopiedAny(f) == f.copied # {}

\* folly::collectAll.
AllCopied(f) == f.copied = Workers

OffloadDone(f) ==
    /\ AllCopied(f)
    /\ hcache' = Inserted(hcache, [k \in {p.key : p \in f.pairs} |->
                                     (CHOOSE p \in f.pairs : p.key = k).dst])
    /\ flying' = flying \ {f}
    /\ UNCHANGED <<seqVars, fetchVars, dcache, loads, copying, offq>>
    /\ Scrub

Next ==
    \/ \E s \in Seqs :
         \/ AddRequest(s) \/ UpdatePrefetch(s) \/ Allocate(s) \/ Accept(s) \/ Abandon(s)
         \/ Decode(s) \/ Finish(s) \/ Cancel(s)
         \/ \E w \in Workers :
              ConnectFails(s, w) \/ Fetch(s, w) \/ Receive(s, w) \/ IdleTimeout(s, w)
    \/ Transfer \/ TransferNoBatch \/ LoadCopy \/ LoadFails \/ SkipWait \/ Compute
    \/ \E b \in late : LateCopy(b)
    \/ \E f \in flying : OffloadDone(f) \/ \E w \in Workers : OffloadCopy(f, w)

Spec == Init /\ [][Next]_vars

-----------------------------------------------------------------------------
\* A load, an offload and a prefetched block, as records.
PairSet(A, B) == [src : A, dst : B, key : Keys]

\* The types of the variables, and the counts that a table bounds.
SeqTypes ==
    /\ pc \in {"build", "run"}
    /\ status \in [Seqs -> {"new", "waiting", "placed", "prefill", "running", "decode", "gone"}]
    /\ full \in [Seqs -> Nat]
    /\ dev \in [Seqs -> Seq(DevBlocks)] /\ kv \in [Seqs -> Nat]
    /\ host \in [Seqs -> Seq(HostBlocks)] /\ hkv \in [Seqs -> Nat]
    /\ \A s \in Seqs : /\ full[s] \in PromptBlocks[s] .. Len(Path[s])
                       /\ kv[s] <= Len(dev[s]) /\ hkv[s] <= Len(host[s])
FetchTypes ==
    /\ flag \in [Seqs -> 0 .. Cardinality(Workers)]
    /\ result \in [Seqs -> [Workers -> Nat]]
    /\ \A s \in Seqs : \A w \in Workers : result[s][w] <= PromptBlocks[s]
    /\ task \in [Seqs -> [Workers -> Seq([blk : HostBlocks, key : Keys])]]
    /\ stream \in [Seqs -> [Workers -> Seq(0 .. Batch)]]
    /\ client \in [Seqs -> [Workers -> {"open", "closed"}]]
    /\ awaiting \subseteq Seqs /\ faulty \subseteq Seqs
TierTypes ==
    /\ dcache \in [DOMAIN dcache -> DevBlocks] /\ DOMAIN dcache \subseteq Keys
    /\ hcache \in [DOMAIN hcache -> HostBlocks] /\ DOMAIN hcache \subseteq Keys
    /\ loads \cup copying \subseteq PairSet(HostBlocks, DevBlocks)
    /\ offq \subseteq PairSet(DevBlocks, HostBlocks)
    /\ flying \subseteq [pairs : SUBSET PairSet(DevBlocks, HostBlocks), copied : SUBSET Workers]
DataTypes ==
    /\ devKV \in [DevBlocks -> Content] /\ hostKV \in [Workers -> [HostBlocks -> Content]]
    /\ store = [w \in Workers |-> store[w]]
    /\ \A w \in Workers : store[w] \in [DOMAIN store[w] -> Content] /\ DOMAIN store[w] \subseteq Keys

\* Types; and no sequence counts more blocks than its tables have.
TypeOK == SeqTypes /\ FetchTypes /\ TierTypes /\ DataTypes /\ late \subseteq DevBlocks

Good(content, k) == content \in {k, Stale}

\* Whatever the device offers for reuse, or a running sequence has behind it,
\* is the keys and values of its own prefix once the queued loads are done:
\* the count that allocate raises before the copy is made good by the copy,
\* and a block is not offloaded, evicted or written in between.  Excepted is what
\* one of the four windows has left behind (Stale): a load that failed or that the
\* forward pass did not wait for, a load or a prefetch whose block was given away.
DeviceKVIntact ==
    LET pending == {l.dst : l \in loads \cup copying}
    IN  /\ \A k \in DOMAIN dcache : dcache[k] \in pending \/ Good(devKV[dcache[k]], k)
        /\ \A s \in Seqs : \A i \in 1 .. kv[s] :
             dev[s][i] \in pending \/ Good(devKV[dev[s][i]], Path[s][i])

\* Whatever the host tier or the store offers for reuse is, on every worker,
\* the keys and values of that prefix: a prefetch counts a block only when all
\* workers have it, and an offload enters the cache after the last copy.  The
\* exception is the same: what was offloaded from, or fetched into, a Stale block.
HostKVIntact ==
    \A w \in Workers :
        /\ \A k \in DOMAIN hcache : Good(hostKV[w][hcache[k]], k)
        /\ \A s \in Seqs : \A i \in 1 .. hkv[s] : Good(hostKV[w][host[s][i]], Path[s][i])
        /\ \A k \in DOMAIN store[w] : Good(store[w][k], k)

\* Once every worker has ended and its reports have arrived, a request whose
\* prefetch met no fault does not sit out prefetch_timeout.
NoNeedlessWait ==
    \A s \in awaiting \ faulty :
        (\A w \in Workers : task[s][w] = <<>> /\ stream[s][w] = <<>>) => flag[s] = 0
=============================================================================
