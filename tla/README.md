# A TLA+ model of xLLM's request scheduling and KV-cache memory

xLLM is an LLM inference engine. This directory holds TLA+ specifications of the
part of it that decides *which request computes when, and in whose memory*: the
continuous-batching scheduler, the paged KV-cache block manager with its prefix
cache, the reference-counted block handles underneath, and the distributed and
multi-threaded parts around them: the page allocator that several models share
and their sleep and wakeup, disaggregated prefill and decode, the tiers of the
KV cache, and expert-parallel load balancing. The models are checked with TLC on
small instances and proved safe for every instance with TLAPS.

File names below are relative to `src/xllm/core/`. `PROJECT.json` maps every
definition to the lines it models.

## 1. The system

### How a request travels

    API thread --add_request()--> request_queue_ (bounded MPMC)
                                       |  drained by prepare_batch()
                                       v
                  waiting_priority_queue_ (online / offline)
                                       |  prefill: blocks for the whole prompt
            preempted (blocks freed)   v
                  ^------------ running_requests_ (the batch) --engine_->step()--+
                  |                    |                                         |
                  +--- running_queue_ (online / offline) <--- next prepare_batch()
                                       |  finished / cancelled / failed
                                       v
                  AsyncResponseProcessor --response threads--> client

`LLMMaster` runs one scheduler thread that calls `step()` in a loop. `step()`
builds a batch (`prepare_batch()`), runs the model on it (`engine_->step()`)
and hands tokens to the response processor. API threads only write
`request_queue_`; response threads only set a request's `cancelled_` flag. All
memory operations happen on the scheduler thread.

### Inventory

| Component | State | Operations | What is hard | What makes it correct |
|---|---|---|---|---|
| `Block` handle, free list (`framework/block/block.cpp`, `block_manager_impl.cpp`) | id, shared counter; `free_blocks_`, `num_free_blocks_` | construct, copy, move, assign, destroy; allocate, free | ownership spread over vectors, cache nodes, temporaries; release before acquire | counter = number of handles; an id is free iff nobody holds it |
| Block pool, prefix cache (`block_manager_pool.cpp`, `prefix_cache/`, `request/sequence_kv_state.cpp`) | block table and token count per sequence, `cached_blocks_`, LRU list, `num_used_blocks_`, embedding ids | allocate (match, evict, extend), cache, deallocate | stale KV after eviction and re-use, re-matching, partial failure | a computed token's KV is where the table says; a cached block holds the prefix of its key |
| `ContinuousScheduler` (`scheduler/continuous_scheduler.cpp`) | request queue, two waiting queues, two running queues, batch, budgets | add, drain, reap, requeue, prefill, decode, preempt, fail, dispatch, step | cancellation from other threads, memory pressure, two classes of requests | a request is in one place, holds blocks only while it runs, is answered once, and is answered in the end |
| `AsyncResponseProcessor` | response thread per request | final and stream responses | callback cancels a request while it is being scheduled | one final answer |
| xTensor pages (`framework/xtensor/`), rate limiter, `/sleep` and `/wakeup` | free, reserved, allocated pages per model; used pages per worker; one atomic per model; three records of sleep | allocate, free, preallocate, admit, sleep, wake up | mapping outside the lock, broadcasts that fail on some workers, a model that falls asleep in between | no page lost or handed out twice, a page in use is mapped, a sleeping model is idle, handlers end |
| Disaggregated prefill/decode (`disagg_pd_scheduler.cpp`, `disagg_pd_service_impl.cpp`) | dispatch queues, `req_to_channel_map_`, hand-over tasks; `received_request_map_` | dispatch, remote allocate, prefill, first token, pull, unlink | lost, repeated, late calls; a prefill instance dies; blocks reserved remotely | one answer, no forgotten reservation, KV lands in and is read from held blocks |
| Expert load balancing (`framework/eplb/`) | distribution, layer to prepare, reports; spare buffer and tasks per device | aggregate, rebalance, order, load, report, switch | two manager threads, devices at their own pace, one buffer | all devices switch a layer together, to weights that match its routing |
| Hierarchical KV cache (`hierarchy_block_manager_pool.cpp`, `kv_cache/hierarchy_kv_cache_transfer.cpp`) | host block tables, prefetch counters, queued loads and offloads, two prefix caches | offload, load, prefetch with a timeout | per-worker copies, timeout against a late copy, cancellation | what a tier offers for reuse was completely written, on every worker |
| Schedule overlap (`step_with_schedule_overlap`) | last batch, fake tokens | build the next batch during a step | results applied one batch late | no token lost or written twice |
| Chunked prefill, mix, zero-eviction, prefill-only schedulers | as above, chunk progress | as above | partial prefills under preemption | as above, chunk order |
| `PrefixCacheWithUpload` | double-buffered event sets | record, collect | events applied by pool threads | uploaded events describe the cache |
| Workers, kernels, models, sampling, tokenizers, HTTP front end | tensors, text, sockets | | numerical or I/O code | outside the reach of this method |

`PROJECT.json` lists every component with its status and, under `hazards`, the
places in the code where something can go wrong that a unit test hardly reaches.

## 2. Modules

    Block            handles, counters, free list          <- BlockProof (TLAPS)
    BlockManager     pool + prefix cache + KV state        (takes Block's result as given)
                                                           <- BlockManagerProof (TLAPS)
    RequestService   abstract contract of a request
    ContinuousScheduler   the scheduler                    => RequestService
                                                           <- ContinuousSchedulerProof (TLAPS)
    PageAllocator    pages of several models + rate limiter + sleep/wakeup
                                                           <- PageAllocatorProof (TLAPS)
    DisaggPD         prefill instances, decode instance, RPCs, faults
                                                           <- DisaggPDProof (TLAPS)
    HierarchyCache   device, host and store tiers          (takes Block's result as given)
                                                           <- HierarchyCacheProof (TLAPS)
    ExpertBalancer   manager, engine step, executors       <- ExpertBalancerProof (TLAPS)
    Queues           erasing elements of a queue, the order of two (BlockManager, ContinuousScheduler)
    QueueLemmas      facts about queues without repetitions, for the proofs

An `MC` module of the same name gives each its constants.

### Block

Every C++ object of type `Block` is an element of `Handles`; `id[h]` is its id
or `NoBlock`. The special member functions of `block.cpp` are one action each.
`ref_count[b]` is the counter the handles of `b` share; 0 stands for "deleted".
`free_blocks` is the vector with its live prefix of length `num_free_blocks`,
id 0 is the padding block the manager keeps for itself. `fault` becomes TRUE
when an operation would use a deleted counter or fail the CHECK in `free()`.

### BlockManager

One data-parallel rank with the prefix cache on. All operations run on the
scheduler thread, so an operation of the pool is one step:

| Action | Code |
|---|---|
| `NewSequence` | `Sequence::Sequence` |
| `Allocate` | `BlockManagerPool::allocate` as the continuous scheduler calls it: embedding id, prefix match when the table is empty, eviction, extension; `GiveUp` is the failure path |
| `AllocateChunk` | `ChunkedPrefillScheduler::allocate_blocks_for`: a match before the first chunk or again between chunks, then `allocate` for part of the prompt |
| `Forward` | the batch's forward pass: KV of the scheduled tokens is written, a token is sampled after the last one |
| `Cache` | the first decode step inserts the prompt's blocks |
| `Deallocate` | release after finish, cancellation or preemption |

Two results of `Block` are used: a block's counter is the number of references,
and the free list is the set of unreferenced ids. The chained 128-bit hash of a
block is represented by the token prefix it covers (collisions are not
modelled). The ghost `content` says for every slot of every block which token
prefix its KV was computed for; a block is wiped when it is free or handed out,
so reading KV that nobody wrote for this prefix is visible. Which free
blocks are handed out, in the code the last ones of the free vector, is left
open.

`EvictsLeastRecentlyUsed` is about the order of the LRU list before a step. The
match at the start of an allocation moves the keys it finds to the back of the
list, and they stay there when the allocation fails and gives the blocks back;
the eviction in between looks at the list after the match. The property therefore
exempts the keys of the sequence that allocates, and only those.

### ContinuousScheduler

`prepare_batch()` is a sequence of phases (`pc`); one action is one iteration of
one of its loops, so that `AddRequest` (API threads) and `StreamCallback`
(response threads) interleave with it everywhere. Phases: `drain` (read the
request queue), `reap` (finished, cancelled, disconnected), `requeue`
(`handle_running_requests`, back to the running queues), `prefill` and
`prefill_offline`, `decode` and `decode_offline`, `dispatch` (final responses),
`step`. `Die` is a LOG(FATAL), a failed CHECK or a call with undefined
behaviour. Configuration: `fcfs`, one rank, one sequence per request, no prefix cache, no schedule
overlap, no speculative decoding, beam search or latency budget. Without a
prefix cache blocks are not shared, so a block table is a number.

The ghost `admitted` lists running requests in the order of their last prefill.
Sums (blocks in use, tokens of a batch) are cardinalities of sets of units
(`Units`, `Total`), and the elements of a queue that are kept are found by their
rank (`Only`, in `Queues`): neither is recursive, so both can be reasoned about.

### RequestService

What a client may rely on, whatever the scheduler: a request is rejected or
accepted, tokens are generated for accepted ones only, each is answered exactly
once and in the end. `ContinuousScheduler` is checked against it with the
refinement mapping `Status`, under its own fairness assumption.

### PageAllocator

Several models share the physical pages of the workers. The state is the
`ModelState` of every model (lists of virtual pages, `is_sleeping`,
`pending_map_ops`), `worker_pages_used_`, the limiter's counter, the master's
status, and one program counter per thread: `mgr` (the page call of a model's
block manager, which its mutex serialises), `pre` (the preallocation thread),
`adm` (the handlers of `/sleep` and `/wakeup`). One critical section of `mtx_` is
one action. The scan of the preallocation thread walks `model_states_` and lets
every plan consume physical pages before the next model's is made; `IsPlan` says
this of the numbers of planned pages (`Earlier` is the order of the walk), and
`pre.plan` keeps every model's pages until its turn (`IsTurnOf`). A broadcast runs outside the lock and either succeeds on all
workers or fails having reached any of them; `mapped` and `loaded` record what
the workers really did, so the accounts can be compared with it.

`RateLimiter::is_limited` is two actions, `CheckLimit` and `Admit`, since the
code loads the counter and increments it later. A request that slips in between
the load and a `/sleep` is recorded in `slipped`; `sleep_admission` shows that
it happens, and the invariants say what holds for models it did not happen to.

### DisaggPD

| Action | Code |
|---|---|
| `AddRequest`, `Dispatch`, `DispatchFails`, `CallAccepted`, `CallRejected`, `CallFailed` | `add_request`, `dispatch_requests` on the prefill side |
| `RecvNewRequest`, `RecvStaleRequest` | `decode_recv_new_requests`, `try_allocate`, `decode_schedule` |
| `PrefillBegin`, `PrefillFails` | `handle_prefill_requests`: the request gets its blocks (`HasRoom`) or is failed |
| `PrefillEnd` | the part of `prefill_send_first_generation` on the scheduler thread |
| `SendFirstGeneration`, `FirstGenerationReturns` | its pool thread |
| `RecvFirstGeneration`, `FirstGenerationUnknown`, `PullDone` | `decode_recv_first_generation` |
| `UnlinkInstance` | `unlink_instance` |
| `Resend`, `LoseCall`, `LoseFirstGeneration`, `ResendFirstGeneration`, `Crash` | the network and the process (external) |

A call has at most one answer that its caller sees; messages of a call that has
ended (`stale`) are still served. `faulted` collects the requests a fault has
hit: `ReservationAwaited` and `PullReadsHeldBlocks` speak about the others,
`AnsweredOnce` and `HandoverPossible` about all.

A request that is being handed over has left the prefill instance's scheduler but
keeps its blocks until FirstGeneration has returned. When the next request finds
no room beside it, nothing is running and `handle_prefill_requests` fails it
(`continuous_scheduler.cpp:405-431`), without telling the decode instance. The
ghost `refused` collects these requests: their reservations are forgotten without
any fault, which `ReservationAwaited` names as its second exception, and when they
fill the decode instance another request is refused for ever (`ShutOut`, the
exception of `EveryRequestAnswered`).

`Reserve` is one step for `try_allocate` and `decode_schedule`, which take
different locks; in between, the blocks of a duplicate may turn the answer to
another request into a 404, which the model has for other reasons. A prefill instance
also calls the callback of a non-streaming request after its prefill; that is
the prefill's output, not the final answer `answers` counts.

### ExpertBalancer

A distribution of a layer is the number of the round that computed it. A device
holds, for every layer, which weights and which routing it computes with, and a
spare `buffer` that all layers share. `BeginStep` and `EndStep` are the engine
(`get_eplb_info` into every input, `process_eplb_data` from every output),
`EplbExecute`, `GetReadyLayer` and `ResetReadyLayer` the device's step,
`PrepareBegin` and `PrepareEnd` its worker thread, `Rebalance`, `Aggregate` and
`ManagerStep` the manager's two threads. A switch during a load (`Swap` while
`loading`) leaves a mixture, `Partial`, in the layer and in the buffer.

`prepared_layer_id` is never reset and `preparing_layer_id` only at the end of a
round, so a layer whose turn comes while the last orders are still about it
(`InUse`) may be completed by old reports: its new distribution is never sent
(`eplb_reuse`), or it is switched before it is loaded, also when the last round
was over. No state is cut away; three ghosts say what is
affected. `stale`: the current layer was in use when its turn came. `suspect`: the
layers that were ever made ready while `stale`. The properties about weights and
routing speak about every other layer, at every time. `crowded`: a load was under
way when the turn of the current layer came. Only then can a report be lost
between `get_ready_layer_id` and `reset_ready_layer_id`, and the round then never
ends. `RoundsEnd` excepts these rounds only, and only while the lost report or the
layer in use is the current one.

### HierarchyCache

Device and host tables of every sequence, both prefix caches, the prefetch of
every sequence on every worker (tasks, counts under way, results,
`termination_flag_`), queued and running copies, and for every block of every
tier the hash whose KV was last written there. Hashes are the names in `Path`.
Abstractions:

* Free blocks differ only in whether a copy still targets them, so `Picks`
  hands these out first or last instead of in every order.
* `Scrub` wipes a block when it becomes free: relying on it is then visible.
* `StopWaiting` clears what nobody will read any more (results, stream).
* The scheduler is reduced to "any waiting request may be next, any running one
  may be the victim"; `ContinuousScheduler` has the queues.
* A load is copied on all layers at once. The forward pass waits for it
  (`LoadsDone`, in the code `synchronize_layer` before every group of layers),
  unless `SkipWait` was taken.

Four windows let a block be relied upon that does not hold what it should, and all
are reached:

1. A cancelled or rejected request frees its host blocks while a worker still
   fetches into them (`hierarchy_block_manager_pool.cpp:53`).
2. Loads queued for an allocation that the latency check then abandons stay queued
   and travel with the next batch (`continuous_scheduler.cpp:361-391`, although
   `hierarchy_block_manager_pool.h:78` says "BlockTransferInfo per step").
3. A copy that fails sets its event flag like one that succeeds
   (`hierarchy_kv_cache_transfer.cpp:375-387`): `LoadFails`.
4. The pool thread registers the synchronizer (`:305-309`) when it comes to the
   copy; a forward pass that looks for it before (`:130`), or whose call to copy
   was lost (`comm_channel.cpp:386`, the result is not tested), computes without waiting:
   `SkipWait`. The copy is made later, possibly into a block that has been given
   to another request by then: `LateCopy`.

What such a window leaves, and what is computed or copied from it, is marked
`Stale`; the KV invariants accept it and nothing else, so they say that these
windows are the only ones. They do not say that the order of copy and read is
kept: windows 3 and 4 are exactly where the code does not keep it. Two outcomes
are not steps: a copy that breaks off before its last group of layers leaves flags
unset that the forward pass waits for without end, and a `synchronize_layer` that
returns false makes the pass return no output.

The second window reaches
further than the load itself: the abandoned sequence counted the blocks, so
`deallocate` puts them into the device prefix cache and queues them for the host
tier before they are filled. An offload that runs before the load copies what is
there, which `Offered` marks; a load whose host block has since been given away
(`StandsFor`) or that shares its target with another is marked in `Loaded`. The
instance of the run has too few requests for such an offload; the proof covers it.

## 3. Runs

| Run | Instance | States | Checks |
|---|---|---|---|
| `block` | 4 handles, 4 ids | 348 (up to symmetry) | `TypeOK`, `RefCountExact`, `FreeListExact`, `NoFault` |
| `block_manager` | 3 sequences, 3 blocks of 2 tokens, 2 embedding ids; prompts with a common prefix under the continuous scheduler, or prompts of one token id computed in chunks with re-matching | 389,900 | `TypeOK`, `SequenceKVIntact`, `CachedKVIntact`, `UsageCoversBlocksInUse`, `EvictsLeastRecentlyUsed` |
| `scheduler_mixed` | 2 online and 1 offline request, 4 blocks; no two reach their full length together | 35,945 | `TypeOK`, `ExactlyOnePlace`, `NoBlockLeak`, `BatchReady`, `RunningQueueOrdered`, `OfflinePreemptedFirst`, refinement of `RequestService` (liveness included) |
| `scheduler_online` | 3 online requests: one outgrows the memory, one never fits, one is streamed and may be cancelled | 42,540 | `FailedOnlyIfTooLong`, `EveryRequestAnswered` |
| `page_allocator` | 2 models on 2 workers with 7 physical pages, 2 requests, 1 handler, 1 failed broadcast | 282,903 | `TypeOK`, `VirtPagesPartitioned`, `WorkerPagesAccounted`, `PagesOfAwakeModelMapped`, `AsleepIsIdle`, `SleepRecordsAgree`, `HandlersFinish` |
| `disagg_pd` | 2 prefill instances, 3 requests (1 offline), 2 decode blocks and 2 on each prefill instance, both modes, 1 network fault, 1 crash | 208,666 | `TypeOK`, `HandoverPossible`, `AnsweredOnce`, `ReservationAwaited`, `PullReadsHeldBlocks`, `EveryRequestAnswered` |
| `eplb` | 2 devices, 2 layers, 2 rounds | 1,521,731 | `TypeOK`, `WeightsMatchRouting`, `DevicesAgree`, `FreshLayersUpdated`, `RoundsEnd` |
| `hierarchy` | 2 requests with a common first block, 4 device and 4 host blocks, 2 workers, 1 fault | 406,777 | `TypeOK`, `DeviceKVIntact`, `HostKVIntact`, `NoNeedlessWait` |

Four more runs state what a comment, log message, CHECK or document says and
what the code does not do; TLC finds a behaviour of the code that contradicts it.

| Run | Property | What the counterexample shows |
|---|---|---|
| `block_manager_insert` | `InsertCheckHolds` | re-match between chunks, failed allocation, release: `CHECK_GE` in `PrefixCache::insert` fails |
| `scheduler_cancel` | `CancelledHandledBefore` | a cancellation between reap and requeue reaches LOG(FATAL) |
| `sleep_admission` | `AsleepAdmitsNothing` | a request that has read the limiter is admitted after `/sleep` has put the model to sleep |
| `eplb_reuse` | `SelectedLayersUpdated` | a round that begins with the layer in preparation never sends its distribution |

### Known behaviours outside the runs

Found with the same modules; the runs above exclude them by their instance, or
their properties by an exception they name.

* A match of the whole prompt counts the block that `add_shared_kv_blocks()`
  gives back, so `num_used_blocks_` stays one too high (`block_manager_impl.cpp:141`).
  `UsageCoversBlocksInUse` states the safe direction only.
* `handle_prefill_requests` fails a waiting request as "too long" when no
  *online* request runs (`continuous_scheduler.cpp:407`): with an offline request
  in memory it fails requests that would fit. Hence `FailedOnlyIfTooLong` is
  checked on online requests.
* `handle_abnormal_request` removes a failed request with `running_queue_->pop_top()`
  whatever queue it was given (`:759`). No run has an offline request that
  outgrows the memory. The proofs cover it: a request that fails there is alone in
  the memory (`TooLongIsAlone`), so for an offline one the online queue is empty
  and the pop is one of an empty deque; another request is never lost.
* With `enable_online_preempt_offline` off, one online and one offline request
  (four prompt tokens, two generated, in four blocks of two) wait for each other's
  blocks for ever (`:746`).
* A late duplicate of `AddNewRequests` reserves blocks again after the request
  went to the decode scheduler; together with a repeated `FirstGeneration` the
  request is decoded and answered twice. That takes two faults (`MaxFaults = 2`);
  `AnsweredOnce` holds under one.
* A `/sleep` that fails half way leaves the limiter at `kSleeping` with the master
  awake, and a `/wakeup` whose workers fail leaves the allocator awake with the
  master asleep: `SleepRecordsAgree` is about calls without a failed broadcast.
  A failed unmap puts the page into the reserved list although some workers have
  unmapped it (`page_allocator.cpp:651`); `PagesOfAwakeModelMapped` likewise.
* Two `/wakeup` calls and a `/sleep` for one model at the same time: the second
  `wakeup_model` finds the model asleep before the first one has finished, and
  wakes it up (or, with the `/sleep` in between, puts it to sleep) under requests
  that the first one's `try_wakeup` has let in. With three handlers TLC finds a
  sleeping model with a request (`AsleepIsIdle` fails without any fault). The
  proofs about sleep therefore assume `OneCallPerModel`.
* A round that is interrupted by the next one abandons its remaining layers; their
  `expert_distribution` has changed already. `FreshLayersUpdated` is about the
  layers that the last round has selected.
* A prefill instance fails a request with "Request prompt is too long, no enough
  memory to schedule a single sequence." (`continuous_scheduler.cpp:412`) although
  it would fit once the handover of the request before it is over: two requests on
  one instance whose blocks are enough for either, without any fault. The run
  `disagg_pd` reaches it; its properties name the consequences.
* `set_prepared_layer_ids` is to be called "after async loading completes"
  (`eplb_manager.h:46`), yet a layer can be made ready that no device has loaded:
  the first layer of a round that was the last one reported in the round before.
  `update_expert_weight` then swaps in what the buffer holds, and during a load a
  mixture. It happens only to layers that were in use when
  their turn came, the `suspect` ones.
* A report is lost when a second load ends between `get_ready_layer_id` and
  `reset_ready_layer_id` (`llm_worker_impl.cpp:138`): `PreparedIsReported` alone is
  violated when the second round interrupts the first during a load.

### Bounds

* Blocks of two tokens are the smallest with a partly filled block; three or
  four blocks make two sequences compete and one fit alone, so matching,
  eviction, failed allocation and preemption all occur.
* `MaxTokens` is the length at which a sequence is finished. The prompts end inside
  a block and at a block boundary; two share one full block and part of the next.
  The long prompt of `block_manager_insert` is three full blocks and one token, long
  enough to re-match in the middle. The two workloads of `block_manager` are
  alternatives chosen at the start: a deployment has one scheduler.
* `MaxUsed` stops the drift of `num_used_blocks_`, which has no bound in the code.
* Scheduler: three requests, two per batch; prompt and generation
  lengths are chosen so that a request fits alone, outgrows the memory, or
  never fits (see the comments of `MCContinuousScheduler`). In `scheduler_mixed`
  `QueueSize` 2 with three requests makes the bounded queue reject one, and the
  token budget of 5 keeps two prompts out of one batch. `Threshold` 95 percent
  is the default flag; with four blocks it means "all used".
* `page_allocator`: seven physical pages are enough for one model with its
  weights, its padding page, a page in use and one in reserve, and for both
  models only when little is in use, so that wakeups are refused as well as
  accepted. `Followed`: once a request has slipped past the limiter, no new
  request or handler starts, since the counter is then neither a count nor
  `kSleeping`. `MaxFailures` 1, one handler at a time.
* `disagg_pd`: two blocks for needs of 2, 1 and 1, so that reservations are
  refused; `MaxRetry` 1 lets a call be under way twice. `PrefillBlocks` 2 is room
  for every request alone and not for all of one instance together.
* `eplb`: two rounds over two layers give interrupted and completed rounds, and a
  second round that begins with a layer in use, with one already reported, or
  with another one.
* `hierarchy`: the first request has two full prompt blocks and grows a third, the
  second shares its first block; the store has the first request's prompt. Batches
  of one block make a prefetch take two rounds. When the first request has grown,
  the second needs a block that the first one has had: a late copy then lands in a
  block of another request.
* `CHECK_DEADLOCK FALSE`: the two `block_manager` runs, where sequences may block
  each other because the scheduler, which would preempt, is not part of the model;
  `scheduler_online`, whose behaviours may end in the LOG(FATAL) of
  `scheduler_cancel`; `page_allocator` and `sleep_admission`, which may end in a CHECK, an
  exception, or the stop after a slip; `disagg_pd` and `hierarchy`, whose requests are finite.

### Fairness

* `ContinuousScheduler`: `WF_vars(SchedulerThread)`. `LLMMaster::run()` calls `step()`
  in a loop on a thread of its own and no step of it waits for another thread longer
  than a timeout; the engine is assumed to answer. API and response threads have no
  fairness: clients need not send, and no liveness property relies on a stream
  callback. In `RequestService` each open request has weak fairness of being
  answered; that is what TLC derives from the scheduler's fairness.
* `PageAllocator`: weak fairness of the block managers, the preallocation thread and
  a handler that has begun: critical sections are left and broadcasts return.
  Nobody has to start anything.
* `DisaggPD`: weak fairness of each thread of both sides and of finishing a decode.
  Faults, clients and the unlink call have none; `EveryRequestAnswered` is about
  behaviours without a fault.
* `ExpertBalancer`: weak fairness of the manager, the engine, every device and every
  worker thread: the engine steps as long as there are requests. Rebalancing
  owes nothing.
* `HierarchyCache` has no liveness property: its scheduler is an abstraction.
  `NoNeedlessWait` states as an invariant what must not remain when the workers are done.

## 4. Proofs

### Block

`BlockProof` proves (`BlockInvariant` and its corollaries) for every finite set of handles and every number of blocks
(assumptions `HandlesAssumption`, `NumBlocksAssumption`):

* `BlockTypeOK`: `Spec => []TypeOK`
* `BlockRefCount`: `Spec => []RefCountExact`
* `BlockFreeList`: `Spec => []FreeListExact`
* `BlockNoFault`: `Spec => []NoFault`

None of these is inductive alone. The inductive invariant `IInv` is their
conjunction with

* `Conservation`: free ids plus ids in use are all ids. Without it nothing says
  that `num_free_blocks_` is below the vector's size when a handle is released,
  the CHECK in `free()`;
* the padding block keeps its one reference, so it is never returned.

Argument: every action redirects one handle (`RedirectCounts`) or moves a block
between two (`MoveCounts`); `HoldersUpdate` says how the sets of holders change
in cardinality, hence the counters stay exact. `FreeKeepsList` is the one lemma
about the free list: a release appends an id exactly when its counter drops to
zero. There is one lemma per action, and `StepPreserves` combines them.

### BlockManager

`BlockManagerProof`, for any finite sets of sequences and blocks, any block size,
token ids, embedding ids and workloads, under both schedulers
(`BlockSizeAssumption`, `PoolAssumption`, `WorkloadsAssumption`: prompts are not
empty and leave room for a token):

* `TypeCorrect`: `Spec => []TypeOK`
* `KVOfSequences`: `Spec => []SequenceKVIntact`
* `KVOfCache`: `Spec => []CachedKVIntact`
* `UsageIsCovered`: `Spec => []UsageCoversBlocksInUse`
* `EvictionIsLRU`: `Spec => EvictsLeastRecentlyUsed`

The two KV properties need each other and more. The inductive invariant `IInv`
adds to `TypeOK` and the usage count:

* `Tables`: no block is twice in a table, and neither the shared blocks nor the
  computed tokens reach beyond the table or the tokens;
* `TablesKV`: also the blocks a sequence owns as shared hold their KV, even
  beyond the computed tokens. A re-match between chunks leaves such blocks
  (it raises `num_owned_shared_blocks_` and not `kv_cache_tokens_num_`), and the
  next chunk recomputes into them: it writes what they hold already;
* `CacheKV`: a cached block holds all of its key's KV, and a key is whole blocks.
  So two keys never name one block;
* `OpenIsPrivate` and `SharedIsCached`: a block of a table that is neither shared
  nor full is not in the cache, and a block in two tables is. Together they say
  that a forward pass writes new KV only into blocks that nobody else reads;
* `Pending`: a scheduled pass has a block for each of its tokens.

`Mem` is the conjunction about tables, cache and content as a predicate of its six
arguments, so that each elementary change is one lemma whatever action makes it:
`ReleaseKeepsMem`, `EvictKeepsMem`, `GrowKeepsMem`, `InsertKeepsMem`,
`TableKeepsMem`, `LongerKeepsMem`. An allocation is a match (`Ready` says what it
leaves) followed by an eviction and fresh blocks or a release. A block's references
(`References`), the run of a match (`MatchIsRun`) and the victims of an eviction
(`VictimsAreOldest`) are proved from cardinalities and the least element of a set.

The CHECK in `PrefixCache::insert` is not among the theorems: it fails
(`block_manager_insert`), and the process ends with the memory as it was.

### ContinuousScheduler

`ContinuousSchedulerProof`, for any finite set of requests, both classes, any
prompt and generation lengths, memory, budgets and threshold
(`SchedulerAssumption`; prompts, generation limits, the block size, the token
budget and the sequence budget are not zero; the code itself raises a sequence
budget of 0 to 1, `continuous_scheduler.cpp:925`):

* `TypeCorrect`: `Spec => []TypeOK`
* `OnePlace`: `Spec => []ExactlyOnePlace`
* `BlocksAreAccounted`: `Spec => []NoBlockLeak`
* `BatchesAreReady`: `Spec => []BatchReady`
* `QueuesStayOrdered`: `Spec => []RunningQueueOrdered`
* `OfflineGoesFirst`: `Spec => OfflinePreemptedFirst`, when
  `enable_online_preempt_offline` is on
* `OnlyTooLongFails`: `Spec => []FailedOnlyIfTooLong`, without offline requests
  and with a positive threshold; section 3 says why offline requests break it
* `ImplementsServiceSafety`: `Spec => ServiceSafety`, the initial states and the
  steps of `RequestService` under the refinement mapping `Status`

None of the invariants is inductive. The inductive invariant `IInv` has three
parts:

* `PlaceInv`: the queues have no duplicates, the places are pairwise disjoint and
  together hold the unanswered requests, the queues hold requests of their class,
  and a finished sequence is in the last batch until it is reaped
  (`FinishedReaped`), which is what keeps it out of the next one;
* `BatchInv`: the budgets are exactly what the batch has left of the limits
  (`BudgetsExact`), `last_step_prefill` tells a batch of prefills from one of
  decodes, every sequence of the batch has its slots, and the memory properties;
* `OrderKept`: the batch itself is in the order of the last prefills, and lies
  after the rest of the running queues when it is a batch of prefills, before
  them when it is one of decodes. Without this nothing says that pushing it to
  the back or the front keeps a queue in order.

There is one lemma per action (`...KeepsIInv`); `PrefillJoins` and `RunnerLeaves`
are the two moves between places that several actions share. The lemmas about
`Total` (`TotalSplit`, `TotalPart`, `TotalChange`) and `Only` (`OnlyQueue`) rest on
cardinality and on the least element of a set of numbers, not on induction over
the data. For the refinement, `KindsOfSteps` sorts all actions into four: a
request is submitted, requests are answered, a batch gets a token, or nothing a
client sees changes. `OnlyTooLongFails` adds to `IInv` that a failed request was
answered, so that it does not grow afterwards.

### PageAllocator

`PageAllocatorProof`, for any models, workers, page sizes, requests, handlers and
number of failed broadcasts. Assumptions: every model comes once in the iteration
order, a model's workers are workers, a model has room for its padding page
(`register_model`), the reserve is not empty, workers and requests are finite, and
the weights and padding pages of the models that start awake fit into the pool of
every worker (`StartAssumption`: `alloc_weight_pages` and the page call of the
padding block refuse what does not fit).

* `TypeCorrect`: `Spec => []TypeOK`
* `PagesArePartitioned`: `Spec => []VirtPagesPartitioned`
* `SleepersAreIdle`: `Spec /\ []OneCallPerModel => []AsleepIsIdle`
* `RecordsAgree`: `Spec /\ []OneCallPerModel => []SleepRecordsAgree`
* `AwakePagesAreMapped`: `Spec /\ []OneCallPerModel => []PagesOfAwakeModelMapped`
* `PagesAreAccounted`: `Spec /\ []OneCallPerModel => []WorkerPagesAccounted`
* `PoolIsNotExceeded`: `Spec => [](\A w \in Workers : used[w] \in 0 .. PhyPages)`

The first two and the last hold whatever the handlers do. `OneCallPerModel` says that the
`/sleep` and `/wakeup` calls for one model do not overlap; calls for different
models may. It is a hypothesis about the operators, since nothing in the code
enforces it, and the last section of 3 shows that it is needed.

Partition needs `ListInv`: per model, free list, reserved list, plan, allocated
pages and the page of a call are pairwise disjoint, without repetitions and
together all pages (`Conserved`); the counter of free pages agrees; a call serves
a request of its model that waits for it; `pending_map_ops` is exactly the maps
under way, and zero while the model sleeps (`PendingCounted`). The last part is
what excludes the branch of the preallocation thread that would drop the planned
pages: `sleep_model` waits for pending maps, so the model cannot be asleep when a
map comes back. Every step changes one model; `CallConserves` and `PlanConserves`
say what it may do to the five places.

`AsleepIsIdle` needs `GateInv`: unless a request has slipped past the limiter, its
counter is the number of active requests, or it is `kSleeping` and there are none
(`GateCounts`), and it is `kSleeping` whenever the allocator or the master says
asleep, and from the compare-and-swap of `/sleep` to that of `/wakeup`
(`GateClosed`). The other two need `SleepInv`: how far each record has come at
every step of a handler (`RecordsFollow`), that `wakeup_model` still maps exactly
the pages of the lists although it has left the lock since it collected them, and
that a page is mapped between its map and its entry in the allocated list
(`PagesMapped`). `EffectOfHandler` reduces the ten steps of a handler to what they
do to the records of its model.

`WorkerPagesAccounted` needs `AccountInv`, which gives every model a charge: its
physical pages per virtual page times the pages it has claimed (all that are not
free, less the mapped ones while it sleeps), and its weights. `AccountExact` says
that `worker_pages_used_` is the sum of the charges of the worker's models, at
every step and not only at rest; `MemoryFollows` that what is mapped and loaded
stays within the charge. `sleep_model` discharges only what it has unmapped and
`wakeup_model` charges before it maps, so the claimed pages at every step of a
handler (`PagesCharged`, `WeightsCharged`) are what makes this inductive. A step
changes the charge of one model (`AccountGrows`, `AccountShrinks`), which also
shows that the clamp in `release_phy_pages_for_dp` is taken only after a failure; only the scan
of the preallocation thread changes several (`ScanAccount`). That the scan stays
within the pool (`ScanFits`) is shown at the last model that takes pages of the
worker: its plan was made after all others had been counted. The sums are folds
of the community modules; what they compute is shown from a least counterexample
among the subsets of a finite set (`SubsetInduction`), since the library's
induction rules cannot be instantiated.

### DisaggPD

`DisaggPDProof`, for any prefill instances, requests, blocks, needs, retries,
faults and crashes, in both modes:

* `TypeCorrect`: `Spec => []TypeOK`
* `HandoverIsPossible`: `Spec => []HandoverPossible`
* `ReservationIsAwaited`: `Spec => []ReservationAwaited`
* `PullIsSafe`: `Spec => []PullReadsHeldBlocks`
* `OneFaultAnswersOnce`: `Spec => [](faults <= 1 => AnsweredOnce)`

`ReservationIsAwaited` is about requests that neither a fault has hit nor the
prefill side has refused for want of blocks; both exceptions are real (section 2).
`AnsweredOnce` fails with two faults (section 3), so the theorem counts them; the
number of prefill crashes is not limited. The inductive invariant `IInv` says of
every instance that its queues have no repetitions and hold requests of its own,
and of every request that

* it is in at most one of the places on the prefill side (`OnePlace`) and has
  there what the place needs: the channel, the reservation, its own blocks
  (`HasWhatItNeeds`);
* each call has a bounded number of messages under way, which a retry uses up
  (`MessagesBounded`);
* nothing of it exists before its first dispatch (`NotBegun`), a request that no
  fault has hit has the messages and answers of an undisturbed exchange
  (`Unhit`), and so has every request while there was no fault (`NoFaultYet`);
* it goes to the decode scheduler at most once under one fault (`DecodedOnce`).

There is one lemma per action.

### ExpertBalancer

`ExpertBalancerProof`, for any devices, layers and rounds:

* `TypeCorrect`: `Spec => []TypeOK`
* `SwitchIsSound`: `Spec => []WeightsMatchRouting`
* `RoutingIsUniform`: `Spec => []DevicesAgree`
* `RoundsTakeEffect`: `Spec => []FreshLayersUpdated`

The last three are about the layers that were never made ready on old reports
(all but `suspect`), in every state. `IInv` is `TypeOK` and `Protocol`. A layer
that is in use when its turn comes sets `stale` until the next turn, and what
`Protocol` says of a switch excepts suspects; while `stale`, the layers that the
round has passed are suspects already (`StaleFirst`), so that `ManagerStepStaleKeeps`
adds the current one and the next turn starts afresh. `Protocol` says: a device that reports a layer ready has it completely in its buffer
(`ReadyLoaded`); a layer is ordered once, loaded once and is the last one ordered
until all devices have switched (`OrderedOnce`, `LoadedOnce`, `OrderedLast`); a
switch is ordered only when every device has reported (`SwitchAgreed`), and all
devices that have seen it route alike (`RoutingAgreed`); the layers the manager
has passed are done (`PassedUpdated`).

### HierarchyCache

`HierarchyCacheProof`, for any requests, paths, device and host blocks, workers,
batch size and faults, with and without the latency check:

* `TypeCorrect`: `Spec => []TypeOK`
* `DeviceTierIsIntact`: `Spec => []DeviceKVIntact`
* `HostTierIsIntact`: `Spec => []HostKVIntact`
* `PrefetchIsNotWaitedForInVain`: `Spec => []NoNeedlessWait`

The assumptions are that hashes are chained (equal hashes stand for equal
prefixes), that the sets are finite and that there is a worker. The inductive
invariant `IInv` distinguishes two kinds of reference to a block. A position of a
table beyond the count is *open*: it is the only reference (`DevOwn`, `HostOwn`),
so a forward pass, a load or a prefetch may write the block. Every other
reference (a counted position, a cache entry, the source of an offload) *relies*
on the contents, and all of them rely on the same hash. `DevFill` says that such
a device block has that hash, or is the target of a queued load of it, or of
several, whose outcome is then `Stale`; `Copied` that a worker that has copied
an offload has its contents; `Progress`, for every worker of a prefetch, that the
counts received and under way never pass what it has fetched, and that its task
is the rest of the open blocks. `Awaits` ties `termination_flag_` to the open
streams, each of which has a batch left or its end marker under way. `Shapes` and
`Batched` say what each status implies.

The argument about references is made once: `DevStep` and `HostStep` say what a
step may do to the tables, caches and queues of a tier, two lemmas show that this
keeps the invariant, and each action is shown to be such a step. `deallocate` is
the delicate one: it offloads blocks with exactly two references, and the proof
shows (`OneReference`) that an open block has one, so that only complete blocks
are offloaded. The two windows about loads are one argument (`SpoilKeepsIInv`): a
block that is relied upon may become `Stale` at any time, and a copy that nobody
waited for writes nothing else that is relied upon, whoever has the block when it
comes. Two definitions of the model were wrong and were found by the
proof: what a load finds when its host block has changed hands, and an offload of
a block that a queued load has not filled.

### Only model-checked

* Liveness (`EveryRequestAnswered`, `HandlersFinish`, `RoundsEnd`, the fairness
  of `RequestService`): the prover has neither fairness nor ENABLED.
* `AnsweredOnce` beyond one fault is false.

## 5. What is left out

* Beam search, speculative decoding, multiple ranks, priorities other than
  `fcfs`, latency budgets: the modules name them in their headers.
* Several sequences per request (`n`, `best_of`). Reading the code shows that
  without a prefix cache the drain loop expands such a request before it waits
  (`continuous_scheduler.cpp:814-818`), while prefill checks that a waiting
  request has one sequence (`:272`); the model covers requests with one.
* Schedule overlap, the batch construction of the chunked, mix and zero-eviction
  schedulers, `PrefixCacheWithUpload`.
* The division of a page into blocks; `map_to_kv_tensors` reporting success when a worker's pool is empty
  (the accounting that `WorkerPagesAccounted` states keeps it from being empty).
* The death of the decode instance, `link_instance`, and the prefix cache on the
  decode side of `DisaggPD`.
* EPLB's loads and policy; a worker that answers a step without output.
* Steps that are coarser than the code: `PageAllocator`'s `AllocMapped` joins the
  critical section that ends the pending operation with the one that wakes the
  preallocation thread, `Reserve` the two locks of the decode side. The second allocation for a sequence in one
  step (`handle_remaining_budget` of the chunked prefill scheduler) is not an
  action. The LOG(FATAL) of `deallocate` on too small a usage count is not a step;
  `UsageCoversBlocksInUse` says that it is not reached.
* Hash collisions of XXH3-128.
* Tensor computation, sampling, tokenization, HTTP/RPC plumbing: no control the
  method could check. These are most of the repository's lines.
* The processes' start-up and shutdown.

## 6. Plan

1. Schedule overlap as an extension of `ContinuousScheduler` (fake tokens, the
   last batch's result one step late), with a refinement of `RequestService`.
2. `ChunkedPrefillScheduler`'s batch construction on top of the pool; the
   zero-eviction simulation as an operator checked against its definition.
3. `PrefixCacheWithUpload` and the double buffer; the response processor's threads.
