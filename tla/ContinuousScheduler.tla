------------------------ MODULE ContinuousScheduler ------------------------
(***************************************************************************)
(* ContinuousScheduler: the loop that turns submitted requests into        *)
(* batches.  The scheduler thread runs prepare_batch() and the engine step *)
(* as a sequence of phases (the variable pc), one action per iteration of  *)
(* a loop; API threads add requests and response threads cancel them at    *)
(* any moment in between.                                                  *)
(*                                                                         *)
(* Configuration modelled: fcfs, one data-parallel rank, one sequence per  *)
(* request, and prefix cache, schedule overlap, speculative decoding and   *)
(* latency-aware scheduling off.  Requests are numbered in the order of created_time().  *)
(* Without a prefix cache no block is shared, so a sequence's block table  *)
(* is its length; a sequence has an embedding id iff it has blocks, and    *)
(* running_sequences_ is running_requests_.                                *)
(***************************************************************************)
EXTENDS Integers, Sequences, FiniteSets, Functions, Queues

CONSTANTS
    Requests,          \* natural numbers, in order of creation
    Offline,           \* the requests marked offline
    Stream,            \* the requests that stream their tokens
    Prompt,            \* Prompt[r]: number of prompt tokens
    MaxGen,            \* MaxGen[r]: max_generated_tokens of the stopping checker
    NumBlocks,         \* usable KV blocks, the padding block not counted
    BlockSize,
    QueueSize,         \* FLAGS_request_queue_size
    MaxTokensPerBatch,
    MaxSeqsPerBatch,   \* max_seqs_per_batch; the code takes 1 for a limit of 0
    Threshold,         \* FLAGS_prefill_scheduling_memory_usage_threshold, percent
    OnlinePreemptsOffline  \* enable_online_preempt_offline

ASSUME SchedulerAssumption ==
    /\ Requests \subseteq Nat /\ IsFiniteSet(Requests)
    /\ Offline \subseteq Requests /\ Stream \subseteq Requests
    /\ Prompt \in [Requests -> Nat \ {0}] /\ MaxGen \in [Requests -> Nat \ {0}]
    /\ BlockSize \in Nat \ {0} /\ MaxTokensPerBatch \in Nat \ {0}
    /\ NumBlocks \in Nat /\ QueueSize \in Nat /\ MaxSeqsPerBatch \in Nat \ {0}
    /\ Threshold \in Nat /\ OnlinePreemptsOffline \in BOOLEAN

VARIABLES
    pc,               \* phase of the scheduler thread
    submitted,        \* requests handed to add_request()
    request_queue,    \* request_queue_, the bounded MPMC queue
    waiting,          \* both waiting priority queues
    running_queue,    \* running_queue[off]: running_queue_ and running_queue_offline_
    running_requests, \* running_requests_: the batch being built or executed
    last_step_prefill,
    seq_budget, token_budget,   \* what is left of the batch's budgets
    finished_requests,          \* reaped, not yet handed to the response processor
    tokens,           \* tokens of the sequence, prompt included
    num_kv_blocks,    \* blocks the sequence holds
    finished,         \* requests whose sequence has met a stopping condition
    cancelled,        \* requests with cancelled_ set
    callbacks,        \* callbacks[r]: stream responses the response threads still owe
    responses,        \* responses[r]: final responses scheduled
    failed,           \* requests answered RESOURCE_EXHAUSTED by the scheduler
    fatal,            \* the CHECK, LOG(FATAL) or illegal call that ended the process
    admitted          \* ghost: running requests in the order they were prefilled

threadVars == <<pc, last_step_prefill, seq_budget, token_budget, fatal>>
clientVars == <<submitted, request_queue, cancelled, callbacks>>
vars == <<threadVars, clientVars, waiting, running_queue, running_requests,
          finished_requests, tokens, num_kv_blocks, finished, responses, failed, admitted>>

Init ==
    /\ pc = "drain"
    /\ submitted = {} /\ request_queue = <<>>
    /\ waiting = {}
    /\ running_queue = [off \in BOOLEAN |-> <<>>]
    /\ running_requests = <<>>
    /\ last_step_prefill = FALSE
    /\ seq_budget = 0 /\ token_budget = 0
    /\ finished_requests = {}
    /\ tokens = Prompt
    /\ num_kv_blocks = [r \in Requests |-> 0]
    /\ finished = {} /\ cancelled = {}
    /\ callbacks = [r \in Requests |-> 0]
    /\ responses = [r \in Requests |-> 0]
    /\ failed = {}
    /\ fatal = "none"
    /\ admitted = <<>>

-----------------------------------------------------------------------------
\* The block pool, as the scheduler sees it.

NumBlocksFor(n) == (n + BlockSize - 1) \div BlockSize

\* The units (blocks, tokens) that the requests of s have, f[r] each.
Units(f, s) == UNION {{r} \X (1 .. f[r]) : r \in s}
Total(f, s) == Cardinality(Units(f, s))

NumUsed(held) == Total(held, Requests)
NumFree(held) == NumBlocks - NumUsed(held)

NumEmbeddingIds == MaxSeqsPerBatch + 2
Holders(held) == {r \in Requests : held[r] > 0}

\* BlockManagerPool::allocate(r, tokens[r]) succeeds.
CanAllocate(held, r) ==
    /\ held[r] > 0 \/ Cardinality(Holders(held)) < NumEmbeddingIds
    /\ NumBlocksFor(tokens[r]) - held[r] <= NumFree(held)

Allocated(held, r) ==
    [held EXCEPT ![r] = IF NumBlocksFor(tokens[r]) > @ THEN NumBlocksFor(tokens[r]) ELSE @]

Deallocated(held, s) == [r \in Requests |-> IF r \in s THEN 0 ELSE held[r]]

\* kv_cache_utilization() against the threshold.
UtilizationTooHigh == 100 * NumUsed(num_kv_blocks) >= Threshold * NumBlocks

-----------------------------------------------------------------------------
\* A queue's requests, and its best one.

Class(off) == IF off THEN Offline ELSE Requests \ Offline
Waiting(off) == waiting \cap Class(off)
Top(s) == CHOOSE r \in s : \A q \in s : r <= q

Respond(s) == [r \in Requests |-> responses[r] + (IF r \in s THEN 1 ELSE 0)]

\* LOG(FATAL), a failed CHECK, or pop_front() of an empty deque, which is
\* undefined behaviour: nothing after it is modelled.
Die(why) ==
    /\ pc' = "dead"
    /\ fatal' = why
    /\ UNCHANGED <<last_step_prefill, seq_budget, token_budget, clientVars, waiting,
                   running_queue, running_requests, finished_requests, tokens,
                   num_kv_blocks, finished, responses, failed, admitted>>

-----------------------------------------------------------------------------
\* Other threads.

\* ContinuousScheduler::add_request on an API thread.  The caller answers the
\* request itself when the queue is full.
AddRequest(r) ==
    /\ pc # "dead"
    /\ r \notin submitted
    /\ submitted' = submitted \cup {r}
    /\ IF Len(request_queue) < QueueSize
         THEN request_queue' = Append(request_queue, r) /\ UNCHANGED responses
         ELSE responses' = Respond({r}) /\ UNCHANGED request_queue
    /\ UNCHANGED <<threadVars, cancelled, callbacks, waiting, running_queue,
                   running_requests, finished_requests, tokens, num_kv_blocks,
                   finished, failed, admitted>>

\* A response thread delivers a stream response; when the client is gone the
\* callback returns FALSE and the request is cancelled.
StreamCallback(r, delivered) ==
    /\ pc # "dead"
    /\ callbacks[r] > 0
    /\ callbacks' = [callbacks EXCEPT ![r] = @ - 1]
    /\ cancelled' = IF delivered THEN cancelled ELSE cancelled \cup {r}
    /\ UNCHANGED <<threadVars, submitted, request_queue, waiting, running_queue,
                   running_requests, finished_requests, tokens, num_kv_blocks,
                   finished, responses, failed, admitted>>

-----------------------------------------------------------------------------
\* prepare_batch(), phase by phase.

Drain ==
    /\ pc = "drain"
    /\ waiting' = waiting \cup Range(request_queue)
    /\ request_queue' = <<>>
    /\ pc' = "reap"
    /\ UNCHANGED <<last_step_prefill, seq_budget, token_budget, fatal, submitted,
                   cancelled, callbacks, running_queue, running_requests,
                   finished_requests, tokens, num_kv_blocks, finished, responses,
                   failed, admitted>>

\* Finished and cancelled requests leave the last batch; `gone` are the ones
\* update_connection_status() finds disconnected.
Reap(gone) ==
    LET dead == {r \in Range(running_requests) : r \in finished \cup cancelled \cup gone}
    IN  /\ pc = "reap"
        /\ cancelled' = cancelled \cup gone
        /\ num_kv_blocks' = Deallocated(num_kv_blocks, dead)
        /\ finished_requests' = finished_requests \cup dead
        /\ running_requests' = Without(running_requests, dead)
        /\ admitted' = Without(admitted, dead)
        /\ pc' = "requeue"
        /\ UNCHANGED <<last_step_prefill, seq_budget, token_budget, fatal, submitted,
                       request_queue, callbacks, waiting, running_queue, tokens,
                       finished, responses, failed>>

\* Mutant: always in front of the queue.
RequeuedInFront(off) ==
    Only(running_requests, Class(off)) \o running_queue[off]

\* The rest of the last batch returns to the running queues: new prefills
\* behind, decodes in front of the requests that were not scheduled.
Requeued(off) ==
    LET back == Only(running_requests, Class(off))
    IN  IF last_step_prefill THEN running_queue[off] \o back
                             ELSE back \o running_queue[off]

\* handle_running_requests() and the reset for the next batch.
Requeue ==
    /\ pc = "requeue"
    /\ IF Range(running_requests) \cap (finished \cup cancelled) # {}
         THEN Die("finished or cancelled request")
         ELSE /\ running_queue' = [off \in BOOLEAN |-> Requeued(off)]
              /\ running_requests' = <<>>
              /\ last_step_prefill' = FALSE
              /\ seq_budget' = MaxSeqsPerBatch
              /\ token_budget' = MaxTokensPerBatch
              /\ pc' = "prefill"
              /\ UNCHANGED <<fatal, clientVars, waiting, finished_requests, tokens,
                             num_kv_blocks, finished, responses, failed, admitted>>

-----------------------------------------------------------------------------
\* handle_prefill_requests(), called for the online queue, then the offline
\* one.

PrefillPhase(off) == pc = IF off THEN "prefill_offline" ELSE "prefill"

\* The loop looks at the top request.
PrefillLoops(off) ==
    /\ PrefillPhase(off)
    /\ Waiting(off) # {} /\ seq_budget > 0 /\ token_budget > 0
    /\ ~UtilizationTooHigh

\* A request that was cancelled while it waited.
PrefillDrop(off) ==
    LET r == Top(Waiting(off))
    IN  /\ PrefillLoops(off)
        /\ r \in finished \cup cancelled
        /\ num_kv_blocks' = Deallocated(num_kv_blocks, {r})
        /\ finished_requests' = finished_requests \cup {r}
        /\ waiting' = waiting \ {r}
        /\ UNCHANGED <<threadVars, clientVars, running_queue, running_requests, tokens,
                       finished, responses, failed, admitted>>

\* The loop considers the top request, which is alive.
PrefillTop(off) ==
    /\ PrefillLoops(off)
    /\ Top(Waiting(off)) \notin finished \cup cancelled

\* Mutant: no look at the token budget.
PrefillTriesAnyLength(off) == PrefillTop(off)

\* It fits in the token budget.
PrefillTries(off) ==
    /\ PrefillTop(off)
    /\ tokens[Top(Waiting(off))] <= token_budget

\* Request r joins the batch, given the blocks held by everyone.
Admit(r, held) ==
    /\ num_kv_blocks' = Allocated(held, r)
    /\ running_requests' = Append(running_requests, r)
    /\ seq_budget' = seq_budget - 1
    /\ token_budget' = token_budget - tokens[r]

PrefillAdmit(off) ==
    LET r == Top(Waiting(off))
    IN  /\ PrefillTries(off)
        /\ CanAllocate(num_kv_blocks, r)
        /\ Admit(r, num_kv_blocks)
        /\ waiting' = waiting \ {r}
        /\ admitted' = Append(admitted, r)
        /\ UNCHANGED <<pc, last_step_prefill, fatal, clientVars, running_queue,
                       finished_requests, tokens, finished, responses, failed>>

\* check_if_enough_to_evict(): the shortest run from the back of the offline
\* queue that holds all blocks r needs; {} when there is none.
ToEvict(r) ==
    LET q == running_queue[TRUE]
        Suffix(n) == {q[i] : i \in Len(q) - n + 1 .. Len(q)}
        Enough(n) == NumBlocksFor(tokens[r]) <= Total(num_kv_blocks, Suffix(n))
        n == CHOOSE n \in 1 .. Len(q) : Enough(n) /\ \A m \in 1 .. n - 1 : ~Enough(m)
    IN  IF \E m \in 1 .. Len(q) : Enough(m) THEN Suffix(n) ELSE {}

PrefillEvicts(off) ==
    /\ PrefillTries(off)
    /\ ~CanAllocate(num_kv_blocks, Top(Waiting(off)))
    /\ OnlinePreemptsOffline /\ ~off
    /\ ToEvict(Top(Waiting(off))) # {}

\* An online prefill preempts offline decodes and takes their blocks; the
\* second allocate() cannot fail (MemoryBound).
PrefillPreempt(off) ==
    LET r == Top(Waiting(off))
        victims == ToEvict(r)
    IN  /\ PrefillEvicts(off)
        /\ Admit(r, Deallocated(num_kv_blocks, victims))
        /\ running_queue' = [running_queue EXCEPT ![TRUE] = Without(@, victims)]
        /\ waiting' = (waiting \ {r}) \cup victims
        /\ admitted' = Append(Without(admitted, victims), r)
        /\ UNCHANGED <<pc, last_step_prefill, fatal, clientVars, finished_requests,
                       tokens, finished, responses, failed>>

\* Why the loop stops with a request at the top of the queue.
BlocksExhausted(off) ==
    /\ PrefillPhase(off)
    /\ Waiting(off) # {} /\ seq_budget > 0 /\ token_budget > 0
    /\ \/ UtilizationTooHigh
       \/ PrefillTries(off) /\ ~CanAllocate(num_kv_blocks, Top(Waiting(off)))
                            /\ ~PrefillEvicts(off)

BudgetExhausted(off) ==
    /\ PrefillTop(off)
    /\ tokens[Top(Waiting(off))] > token_budget

LoopOver(off) ==
    PrefillPhase(off) /\ (Waiting(off) = {} \/ seq_budget = 0 \/ token_budget = 0)

\* Mutants: a condition is missing, or the case is never handled.
NothingRunsIgnoringQueue(off) == running_requests = <<>> /\ Waiting(off) # {}
NothingRunsNever(off) == FALSE

\* Nothing is scheduled and nothing runs: the top request will never fit.
NothingRuns(off) ==
    running_requests = <<>> /\ Waiting(off) # {} /\ running_queue[FALSE] = <<>>

PrefillEnd(off) ==
    /\ BlocksExhausted(off) \/ BudgetExhausted(off) \/ LoopOver(off)
    /\ IF NothingRuns(off) /\ LoopOver(off)
         THEN Die("blocks and budget are enough but can not schedule")
         ELSE LET out == IF NothingRuns(off) THEN {Top(Waiting(off))} ELSE {}
              IN  /\ waiting' = waiting \ out
                  /\ num_kv_blocks' = Deallocated(num_kv_blocks, out)
                  /\ responses' = Respond(out)
                  /\ failed' = failed \cup out
                  /\ last_step_prefill' = (last_step_prefill \/ running_requests # <<>>)
                  /\ pc' = IF ~off THEN "prefill_offline"
                           ELSE IF running_requests = <<>> THEN "decode" ELSE "dispatch"
                  /\ UNCHANGED <<seq_budget, token_budget, fatal, clientVars,
                                 running_queue, running_requests, finished_requests,
                                 tokens, finished, admitted>>

-----------------------------------------------------------------------------
\* handle_decode_requests(), only when there was nothing to prefill, for the
\* online queue, then the offline one.

DecodePhase(off) == pc = IF off THEN "decode_offline" ELSE "decode"

\* The loop looks at the front of the queue.  With one sequence per request
\* the budget that lets the loop in is enough for it.
DecodeLoops(off) ==
    /\ DecodePhase(off)
    /\ running_queue[off] # <<>> /\ token_budget > 0 /\ seq_budget > 0

DecodeSchedule(off) ==
    LET r == Head(running_queue[off])
    IN  /\ DecodeLoops(off)
        /\ CanAllocate(num_kv_blocks, r)
        /\ num_kv_blocks' = Allocated(num_kv_blocks, r)
        /\ running_queue' = [running_queue EXCEPT ![off] = Tail(@)]
        /\ running_requests' = Append(running_requests, r)
        /\ seq_budget' = seq_budget - 1
        /\ token_budget' = token_budget - 1
        /\ UNCHANGED <<pc, last_step_prefill, fatal, clientVars, waiting,
                       finished_requests, tokens, finished, responses, failed, admitted>>

\* Mutant: the victim stays in its running queue.
PreemptKeepsQueue(off) ==
    LET queue == running_queue[off]
        victim == queue[Len(queue)]
    IN  /\ num_kv_blocks' = Deallocated(num_kv_blocks, {victim})
        /\ waiting' = waiting \cup {victim}
        /\ admitted' = Without(admitted, {victim})
        /\ UNCHANGED <<threadVars, clientVars, running_queue, running_requests,
                       finished_requests, tokens, finished, responses, failed>>

\* Mutant: the victim keeps its blocks.
PreemptKeepsBlocks(off) ==
    LET queue == running_queue[off]
        victim == queue[Len(queue)]
    IN  /\ running_queue' = [running_queue EXCEPT ![off] = SubSeq(@, 1, Len(@) - 1)]
        /\ waiting' = waiting \cup {victim}
        /\ admitted' = Without(admitted, {victim})
        /\ UNCHANGED <<threadVars, clientVars, running_requests, finished_requests,
                       tokens, num_kv_blocks, finished, responses, failed>>

\* A request at the back of a running queue gives all its blocks back and
\* waits for another prefill.
Preempt(off) ==
    LET queue == running_queue[off]
        victim == queue[Len(queue)]
    IN  /\ num_kv_blocks' = Deallocated(num_kv_blocks, {victim})
        /\ running_queue' = [running_queue EXCEPT ![off] = SubSeq(@, 1, Len(@) - 1)]
        /\ waiting' = waiting \cup {victim}
        /\ admitted' = Without(admitted, {victim})
        /\ UNCHANGED <<threadVars, clientVars, running_requests, finished_requests,
                       tokens, finished, responses, failed>>

\* Mutant: its own queue first.
PreemptFromOwn(off) ==
    IF Len(running_queue[off]) > 1 THEN {off}
    ELSE IF OnlinePreemptsOffline /\ ~off /\ running_queue[TRUE] # <<>> THEN {TRUE} ELSE {}

\* The queue a decode without memory preempts from, if any: the offline queue
\* first, then its own.
PreemptFrom(off) ==
    IF OnlinePreemptsOffline /\ ~off /\ running_queue[TRUE] # <<>> THEN {TRUE}
    ELSE IF Len(running_queue[off]) > 1 THEN {off} ELSE {}

DecodePreempt(off) ==
    /\ DecodeLoops(off)
    /\ ~CanAllocate(num_kv_blocks, Head(running_queue[off]))
    /\ \E from \in PreemptFrom(off) : Preempt(from)

\* handle_abnormal_request(): no memory and nobody left to preempt.
DecodeStuck(off) ==
    /\ DecodeLoops(off)
    /\ ~CanAllocate(num_kv_blocks, Head(running_queue[off]))
    /\ PreemptFrom(off) = {}

\* The request is alone in the memory: it fails.
DecodeTooLong(off) ==
    /\ DecodeStuck(off)
    /\ running_requests = <<>>
    /\ NumUsed(num_kv_blocks) = num_kv_blocks[Head(running_queue[off])]

AfterDecode(off) == pc' = IF off THEN "dispatch" ELSE "decode_offline"

\* The request is taken from the online queue, whichever queue it is in.
DecodeFail(off) ==
    LET r == Head(running_queue[off])
    IN  /\ DecodeTooLong(off)
        /\ IF running_queue[FALSE] = <<>> THEN Die("pop_front of an empty deque")
           ELSE /\ running_queue' = [running_queue EXCEPT ![FALSE] = Tail(@)]
                /\ num_kv_blocks' = Deallocated(num_kv_blocks, {r})
                /\ responses' = Respond({r})
                /\ failed' = failed \cup {r}
                /\ admitted' = Without(admitted, {r})
                /\ AfterDecode(off)
                /\ UNCHANGED <<last_step_prefill, seq_budget, token_budget, fatal,
                               clientVars, waiting, running_requests,
                               finished_requests, tokens, finished>>

DecodeEnd(off) ==
    /\ DecodePhase(off)
    /\ ~DecodeLoops(off) \/ (DecodeStuck(off) /\ ~DecodeTooLong(off))
    /\ AfterDecode(off)
    /\ UNCHANGED <<last_step_prefill, seq_budget, token_budget, fatal, clientVars,
                   waiting, running_queue, running_requests, finished_requests,
                   tokens, num_kv_blocks, finished, responses, failed, admitted>>

-----------------------------------------------------------------------------
\* Mutant: the list of reaped requests is not local to prepare_batch().
DispatchAgain ==
    /\ pc = "dispatch"
    /\ responses' = Respond(finished_requests)
    /\ pc' = IF running_requests = <<>> THEN "drain" ELSE "step"
    /\ UNCHANGED <<last_step_prefill, seq_budget, token_budget, fatal, clientVars,
                   waiting, running_queue, running_requests, finished_requests, tokens,
                   num_kv_blocks, finished, failed, admitted>>

\* The reaped requests are answered; an empty batch is prepared again.
Dispatch ==
    /\ pc = "dispatch"
    /\ responses' = Respond(finished_requests)
    /\ finished_requests' = {}
    /\ pc' = IF running_requests = <<>> THEN "drain" ELSE "step"
    /\ UNCHANGED <<last_step_prefill, seq_budget, token_budget, fatal, clientVars,
                   waiting, running_queue, running_requests, tokens, num_kv_blocks,
                   finished, failed, admitted>>

\* Every sequence of the batch gets a token.
Appended(batch) == [r \in Requests |-> tokens[r] + (IF r \in batch THEN 1 ELSE 0)]

\* The stopping checker: a sequence ends at max_generated_tokens, or earlier
\* (an EOS or stop token) for the requests in eos.
Stopped(batch, eos) == eos \cup {r \in batch : Appended(batch)[r] - Prompt[r] >= MaxGen[r]}

\* process_batch_output(): streaming requests get a response to deliver.
Streamed(batch) ==
    [r \in Requests |-> callbacks[r] + (IF r \in batch \cap Stream THEN 1 ELSE 0)]

\* engine_->step() and process_batch_output().
EngineStep(eos) ==
    LET batch == Range(running_requests)
    IN  /\ pc = "step"
        /\ eos \subseteq batch
        /\ tokens' = Appended(batch)
        /\ finished' = finished \cup Stopped(batch, eos)
        /\ callbacks' = Streamed(batch)
        /\ pc' = "drain"
        /\ UNCHANGED <<last_step_prefill, seq_budget, token_budget, fatal, submitted,
                       request_queue, cancelled, waiting, running_queue,
                       running_requests, finished_requests, num_kv_blocks, responses,
                       failed, admitted>>

SchedulerThread ==
    \/ Drain
    \/ \E gone \in SUBSET Range(running_requests) : Reap(gone)
    \/ Requeue
    \/ \E off \in BOOLEAN :
          \/ PrefillDrop(off)
          \/ PrefillAdmit(off)
          \/ PrefillPreempt(off)
          \/ PrefillEnd(off)
          \/ DecodeSchedule(off)
          \/ DecodePreempt(off)
          \/ DecodeFail(off)
          \/ DecodeEnd(off)
    \/ Dispatch
    \/ \E eos \in SUBSET Range(running_requests) : EngineStep(eos)

Next ==
    \/ SchedulerThread
    \/ \E r \in Requests : AddRequest(r)
    \/ \E r \in Stream, delivered \in BOOLEAN : StreamCallback(r, delivered)

\* The thread that calls step() in a loop is never blocked: the engine answers.
Spec == Init /\ [][Next]_vars /\ WF_vars(SchedulerThread)

-----------------------------------------------------------------------------
\* The variables keep their types.
TypeOK ==
    /\ pc \in {"drain", "reap", "requeue", "prefill", "prefill_offline", "decode",
               "decode_offline", "dispatch", "step", "dead"}
    /\ submitted \cup waiting \cup finished_requests \cup finished \cup cancelled
         \cup failed \subseteq Requests
    /\ request_queue \in Seq(Requests) /\ Len(request_queue) <= QueueSize
    /\ running_queue \in [BOOLEAN -> Seq(Requests)]
    /\ running_requests \in Seq(Requests) /\ admitted \in Seq(Requests)
    /\ last_step_prefill \in BOOLEAN
    /\ seq_budget \in 0 .. MaxSeqsPerBatch /\ token_budget \in 0 .. MaxTokensPerBatch
    /\ tokens \in [Requests -> Nat]
    /\ \A r \in Requests : tokens[r] \in Prompt[r] .. Prompt[r] + MaxGen[r]
    /\ num_kv_blocks \in [Requests -> Nat] /\ callbacks \in [Requests -> Nat]
    /\ responses \in [Requests -> Nat]
    /\ fatal \in {"none", "finished or cancelled request", "pop_front of an empty deque",
                  "blocks and budget are enough but can not schedule"}

Count(seq, r) == Cardinality({i \in DOMAIN seq : seq[i] = r})
In(s, r) == IF r \in s THEN 1 ELSE 0

\* A request that was submitted and is not answered is in exactly one of the
\* scheduler's queues, an answered one in none: draining, requeueing,
\* preempting and failing never lose or duplicate one.
ExactlyOnePlace ==
    \A r \in Requests :
        Count(request_queue, r) + In(waiting, r) + Count(running_queue[FALSE], r)
          + Count(running_queue[TRUE], r) + Count(running_requests, r)
          + In(finished_requests, r)
        = IF r \in submitted /\ responses[r] = 0 THEN 1 ELSE 0

OnlyRunningHold ==
    \A r \in Requests : num_kv_blocks[r] > 0 <=>
        r \in Range(running_queue[FALSE]) \cup Range(running_queue[TRUE])
                \cup Range(running_requests)

MemoryBound ==
    /\ NumUsed(num_kv_blocks) <= NumBlocks
    /\ Cardinality(Holders(num_kv_blocks)) <= NumEmbeddingIds

\* Only requests that run hold blocks (and an embedding id): one that waits,
\* was preempted, failed, finished or was cancelled holds none.  Neither is
\* ever handed out beyond what exists; in particular the allocation after
\* preempting offline requests succeeds ("Should be able to allocate after
\* preempting").
NoBlockLeak == OnlyRunningHold /\ MemoryBound

\* A batch given to the engine respects the sequence and token budgets, every
\* sequence in it has a slot for every token and is unfinished (the CHECK in
\* Batch::add), and prefills are not mixed with decodes.
BatchReady ==
    pc = "step" =>
        LET batch == Range(running_requests)
        IN  /\ batch # {} /\ Cardinality(batch) <= MaxSeqsPerBatch
            /\ \A r \in batch : num_kv_blocks[r] * BlockSize >= tokens[r] /\ r \notin finished
            /\ last_step_prefill =>
                  Total(tokens, batch) <= MaxTokensPerBatch

\* "keep all running request from high priority to low": whatever was
\* scheduled, left out, preempted or cancelled, a running queue lists its
\* requests in the order in which they were last prefilled, so preemption from
\* the back hits the most recent one.
RunningQueueOrdered ==
    \A off \in BOOLEAN : \A i, j \in DOMAIN running_queue[off] :
        i < j => Before(admitted, running_queue[off][i], running_queue[off][j])

\* "finished/cancelled request have be handled before": a request cancelled by
\* its response thread never reaches handle_running_requests().
CancelledHandledBefore == fatal # "finished or cancelled request"

\* "Request prompt is too long": a request is failed for want of resources only
\* if it does not fit into the whole memory or the token budget of a batch.
FailedOnlyIfTooLong ==
    \A r \in failed : NumBlocksFor(tokens[r]) > NumBlocks \/ tokens[r] > MaxTokensPerBatch

\* An online request is preempted only when no offline request is left to
\* preempt.
OfflinePreemptedFirst ==
    [][\A r \in (waiting' \ waiting) \ Offline :
          r \in Range(running_queue[FALSE]) => running_queue[TRUE] = <<>>]_vars

\* Every request handed to add_request() is answered in the end, preempted,
\* starved by prefills, cancelled or failed as it may be, unless the process dies.
EveryRequestAnswered ==
    \A r \in Requests : r \in submitted ~> (responses[r] > 0 \/ pc = "dead")

\* The scheduler implements the promise of RequestService.
Status(r) ==
    IF r \notin submitted THEN "new"
    ELSE CASE responses[r] = 0 -> "open" [] responses[r] = 1 -> "closed"
           [] OTHER -> "answered twice"

Service == INSTANCE RequestService WITH
    status <- [r \in Requests |-> Status(r)],
    generated <- [r \in Requests |-> tokens[r] - Prompt[r]]

ImplementsRequestService == Service!Spec
=============================================================================
