---------------------------- MODULE PageAllocator ----------------------------
(***************************************************************************)
(* xTensor memory: the PageAllocator that several models share, the block  *)
(* managers that draw pages from it, its preallocation thread, and the     *)
(* sleep and wakeup of a model behind the RateLimiter.                     *)
(*                                                                         *)
(* Threads.  The block manager of a model serialises its calls with its    *)
(* own mutex, so a model has at most one page call under way (`mgr`).  The *)
(* preallocation thread (`pre`), the HTTP handlers of /sleep and /wakeup   *)
(* (`adm`) and the threads that admit requests run beside it.  Each        *)
(* critical section of mtx_ is a step.  A broadcast to the workers runs    *)
(* outside the lock; it is one step with the critical section that follows *)
(* it, because no thread reads what the broadcast changes (`mapped`,       *)
(* `loaded`) and the lock is retaken before anything else happens.         *)
(*                                                                         *)
(* One data-parallel group; a request fills one page of blocks, which its  *)
(* block manager asks for and gives back, and the padding block keeps page *)
(* 0.  cond_.wait in alloc_kv_cache_page is never reached: the tests       *)
(* before it cover every case.  trim_kv_cache has no caller.               *)
(***************************************************************************)
EXTENDS Integers, Sequences, FiniteSets, Functions, FiniteSetsExt

CONSTANTS
    Models,         \* model ids
    ModelOrder,     \* the iteration order of model_states_
    Workers,        \* worker ranks
    WorkersOf,      \* WorkersOf[m]: the ranks a model runs on
    PhyPages,       \* num_total_phy_pages_ of every worker
    PhyPerVirt,     \* PhyPerVirt[m]: phy_pages_per_virt_page, 2 * num_layers
    WeightPages,    \* WeightPages[m]: weight_pages_allocated
    MinReserved,    \* min_reserved_pages_
    MaxReserved,    \* max_reserved_pages_
    MaxConcurrent,  \* FLAGS_max_concurrent_requests, 0: no limit
    StartAwake,     \* models whose master starts with MasterStatus::WAKEUP
    Requests,       \* requests
    ModelOf,        \* ModelOf[r]: the model a request is for
    Handlers,       \* threads that serve /sleep and /wakeup
    MaxFailures     \* bound: broadcasts that fail

ASSUME OrderAssumption ==
    ModelOrder \in Seq(Models) /\ Range(ModelOrder) = Models /\ IsInjective(ModelOrder)
ASSUME ReserveAssumption == MinReserved \in Nat /\ MaxReserved \in Nat \ {0}
ASSUME WorkersAssumption == IsFiniteSet(Workers) /\ WorkersOf \in [Models -> SUBSET Workers]
ASSUME RequestsAssumption == IsFiniteSet(Requests) /\ ModelOf \in [Requests -> Models]
\* register_model: a model has at least the page of its padding block.
ASSUME PagesAssumption ==
    /\ PhyPages \in Nat /\ PhyPerVirt \in [Models -> Nat \ {0}]
    /\ \A m \in Models : PhyPerVirt[m] <= PhyPages
ASSUME BoundAssumption == MaxFailures \in Nat /\ StartAwake \subseteq Models

\* What a model that starts awake takes from each of its workers: its weights and
\* the page of its padding block.  Neither is given beyond the pool.
StartPages == [m \in Models |-> PhyPerVirt[m] + WeightPages[m]]
UsedAtStart(w) == SumFunctionOnSet(StartPages, {m \in StartAwake : w \in WorkersOf[m]})
ASSUME StartAssumption ==
    WeightPages \in [Models -> Nat] /\ \A w \in Workers : UsedAtStart(w) <= PhyPages

VARIABLES
    limiter,         \* num_concurrent_requests_ of the model's RateLimiter
    status,          \* master_status_, "awake" or "asleep"
    req,             \* req[r]: how far the request has come
    holds,           \* holds[r]: the page of the block it holds, or NoPage
    is_sleeping,     \* is_sleeping of the ModelState
    pending_map_ops, \* pending_map_ops of the ModelState
    free,            \* free_virt_page_list
    reserved,        \* reserved_virt_page_list
    allocated,       \* allocated_virt_page_list
    num_free,        \* num_free_virt_pages
    used,            \* worker_pages_used_
    prealloc_needed, \* prealloc_needed_
    mgr,             \* the page call of a model's block manager
    pre,             \* the preallocation thread: its step and the pages left to map
    adm,             \* the handlers of /sleep and /wakeup
    mapped,          \* mapped[m][w]: pages of m with physical memory on worker w
    loaded,          \* loaded[m]: workers on which m's weights have physical memory
    crashed,         \* "no", "asleep" (a CHECK) or "pages" (an uncaught exception)
    slipped,         \* ghost: models that admitted a request while asleep
    failures         \* ghost: broadcasts that failed, bounded by MaxFailures

limiterVars == <<limiter, status, req, slipped>>
listVars == <<free, reserved, allocated, num_free>>
threadVars == <<mgr, pre, adm>>
workerVars == <<mapped, loaded>>
vars == <<limiter, status, req, holds, is_sleeping, pending_map_ops, free, reserved,
          allocated, num_free, used, prealloc_needed, mgr, pre, adm, mapped, loaded,
          crashed, slipped, failures>>

\* RateLimiter::kSleeping is INT32_MIN.
kSleeping == -2147483647 - 1

VirtPages(m) == 0 .. (PhyPages \div PhyPerVirt[m]) - 1
PaddingPage == 0
NoPage == -1
Idle == [op |-> "idle", page |-> NoPage, req |-> NoPage]
NoHandler == [op |-> "idle", model |-> NoPage, pages |-> {}]

\* State after every engine has initialised: the padding block holds a block of
\* page 0, and a model that starts asleep has recorded its weights and given
\* its pages back; start_prealloc_thread triggers a first round.
Init ==
    /\ limiter = [m \in Models |-> IF m \in StartAwake THEN 0 ELSE kSleeping]
    /\ status = [m \in Models |-> IF m \in StartAwake THEN "awake" ELSE "asleep"]
    /\ req = [r \in Requests |-> "new"]
    /\ holds = [r \in Requests |-> NoPage]
    /\ is_sleeping = [m \in Models |-> m \notin StartAwake]
    /\ pending_map_ops = [m \in Models |-> 0]
    /\ free = [m \in Models |-> [i \in 1 .. Cardinality(VirtPages(m)) - 1 |-> i]]
    /\ reserved = [m \in Models |-> <<>>]
    /\ allocated = [m \in Models |-> {PaddingPage}]
    /\ num_free = [m \in Models |-> Cardinality(VirtPages(m)) - 1]
    /\ used = [w \in Workers |-> UsedAtStart(w)]
    /\ prealloc_needed = TRUE
    /\ mgr = [m \in Models |-> Idle]
    /\ pre = [step |-> "wait", plan |-> [m \in Models |-> <<>>]]
    /\ adm = [a \in Handlers |-> NoHandler]
    /\ mapped = [m \in Models |-> [w \in Workers |->
                   IF m \in StartAwake /\ w \in WorkersOf[m] THEN {PaddingPage} ELSE {}]]
    /\ loaded = [m \in Models |-> IF m \in StartAwake THEN WorkersOf[m] ELSE {}]
    /\ crashed = "no"
    /\ slipped = {}
    /\ failures = 0

-----------------------------------------------------------------------------
\* Per-worker accounting.  us stands for worker_pages_used_.
MinFreePages(us, m) == PhyPages - Max({us[w] : w \in WorkersOf[m]})

ConsumePages(us, m, n) == [w \in Workers |-> IF w \in WorkersOf[m] THEN us[w] + n ELSE us[w]]

\* An underflow is logged and clamped to zero.
ReleasePages(us, m, n) ==
    [w \in Workers |-> IF w \in WorkersOf[m] THEN Max({us[w] - n, 0}) ELSE us[w]]

\* broadcast_map_to_kv_tensors and its inverse.  A worker's map and unmap are
\* idempotent.  A broadcast that reports failure may have reached any workers.
Mapped(m, pages, reached) ==
    [mapped EXCEPT ![m] = [w \in Workers |-> IF w \in reached THEN @[w] \union pages ELSE @[w]]]
Unmapped(m, pages, reached) ==
    [mapped EXCEPT ![m] = [w \in Workers |-> IF w \in reached THEN @[w] \ pages ELSE @[w]]]

Succeeds(m, reached) == reached = WorkersOf[m] /\ UNCHANGED failures
Fails(m, reached) ==
    failures < MaxFailures /\ failures' = failures + 1 /\ reached \in SUBSET WorkersOf[m]

\* Bound: clients and operators start nothing new once a request has slipped
\* past a sleeping model's limiter; what is under way goes on.
Followed == slipped = {}

-----------------------------------------------------------------------------
\* RateLimiter::is_limited: the counter is read, and incremented later.
IsLimited(m) ==
    limiter[m] = kSleeping \/ (MaxConcurrent > 0 /\ limiter[m] >= MaxConcurrent)

CheckLimit(r) ==
    /\ Followed
    /\ req[r] = "new" /\ ~IsLimited(ModelOf[r])
    /\ req' = [req EXCEPT ![r] = "checked"]
    /\ UNCHANGED <<limiter, status, slipped, holds, is_sleeping, pending_map_ops, listVars,
                   used, prealloc_needed, threadVars, workerVars, crashed, failures>>

Admit(r) ==
    LET m == ModelOf[r]
    IN  /\ req[r] = "checked"
        /\ limiter' = [limiter EXCEPT ![m] = @ + 1]
        /\ req' = [req EXCEPT ![r] = "admitted"]
        /\ slipped' = IF limiter[m] < 0 THEN slipped \union {m} ELSE slipped
        /\ UNCHANGED <<status, holds, is_sleeping, pending_map_ops, listVars, used,
                       prealloc_needed, threadVars, workerVars, crashed, failures>>

\* alloc_kv_cache_page: a sleeping model is a fatal CHECK.
NeedsPage(r) == req[r] = "admitted" /\ mgr[ModelOf[r]] = Idle

AllocWhileSleeping(r) ==
    /\ NeedsPage(r) /\ is_sleeping[ModelOf[r]]
    /\ crashed' = "asleep"
    /\ UNCHANGED <<limiterVars, holds, is_sleeping, pending_map_ops, listVars, used,
                   prealloc_needed, threadVars, workerVars, failures>>

\* The fast path: a reserved page is mapped and accounted for already.
AllocReserved(r) ==
    LET m == ModelOf[r]
    IN  /\ NeedsPage(r) /\ ~is_sleeping[m] /\ reserved[m] # <<>>
        /\ reserved' = [reserved EXCEPT ![m] = Tail(@)]
        /\ num_free' = [num_free EXCEPT ![m] = @ - 1]
        /\ allocated' = [allocated EXCEPT ![m] = @ \union {Head(reserved[m])}]
        /\ prealloc_needed' = (prealloc_needed \/ Len(reserved[m]) - 1 < MinReserved)
        /\ holds' = [holds EXCEPT ![r] = Head(reserved[m])]
        /\ req' = [req EXCEPT ![r] = "running"]
        /\ UNCHANGED <<limiter, status, slipped, is_sleeping, pending_map_ops, free, used,
                       threadVars, workerVars, crashed, failures>>

\* The slow path: a free page is taken, accounted for and mapped without the lock.
HasFreePage(m) == free[m] # <<>> /\ MinFreePages(used, m) >= PhyPerVirt[m]

AllocFree(r) ==
    LET m == ModelOf[r]
    IN  /\ NeedsPage(r) /\ ~is_sleeping[m] /\ reserved[m] = <<>> /\ HasFreePage(m)
        /\ free' = [free EXCEPT ![m] = Tail(@)]
        /\ num_free' = [num_free EXCEPT ![m] = @ - 1]
        /\ used' = ConsumePages(used, m, PhyPerVirt[m])
        /\ pending_map_ops' = [pending_map_ops EXCEPT ![m] = @ + 1]
        /\ mgr' = [mgr EXCEPT ![m] = [op |-> "map", page |-> Head(free[m]), req |-> r]]
        /\ UNCHANGED <<limiterVars, holds, is_sleeping, reserved, allocated, prealloc_needed,
                       pre, adm, workerVars, crashed, failures>>

\* Neither path: std::runtime_error, which nobody catches.
AllocExhausted(r) ==
    LET m == ModelOf[r]
    IN  /\ NeedsPage(r) /\ ~is_sleeping[m] /\ reserved[m] = <<>> /\ ~HasFreePage(m)
        /\ crashed' = "pages"
        /\ UNCHANGED <<limiterVars, holds, is_sleeping, pending_map_ops, listVars, used,
                       prealloc_needed, threadVars, workerVars, failures>>

\* Mapped: the pending operation ends and preallocation is triggered; the page
\* is recorded as allocated in a critical section of its own.  The first two are
\* critical sections of their own too, here one step: the second only sets the
\* flag that wakes the preallocation thread.
AllocMapped(m) ==
    /\ mgr[m].op = "map"
    /\ \E reached \in SUBSET WorkersOf[m] :
         /\ Succeeds(m, reached)
         /\ mapped' = Mapped(m, {mgr[m].page}, reached)
    /\ pending_map_ops' = [pending_map_ops EXCEPT ![m] = @ - 1]
    /\ prealloc_needed' = TRUE
    /\ mgr' = [mgr EXCEPT ![m].op = "track"]
    /\ UNCHANGED <<limiterVars, holds, is_sleeping, listVars, used, pre, adm, loaded, crashed>>

\* Mutant: the page of a failed map is dropped.
AllocMapFailedDrops(m) ==
    /\ mgr[m].op = "map"
    /\ \E reached \in SUBSET WorkersOf[m] :
         /\ Fails(m, reached)
         /\ mapped' = Mapped(m, {mgr[m].page}, reached)
    /\ pending_map_ops' = [pending_map_ops EXCEPT ![m] = @ - 1]
    /\ num_free' = [num_free EXCEPT ![m] = @ + 1]
    /\ used' = ReleasePages(used, m, PhyPerVirt[m])
    /\ mgr' = [mgr EXCEPT ![m] = Idle]
    /\ UNCHANGED <<limiterVars, holds, is_sleeping, free, reserved, allocated, prealloc_needed,
                   pre, adm, loaded, crashed>>

AllocMapFailed(m) ==
    /\ mgr[m].op = "map"
    /\ \E reached \in SUBSET WorkersOf[m] :
         /\ Fails(m, reached)
         /\ mapped' = Mapped(m, {mgr[m].page}, reached)
    /\ pending_map_ops' = [pending_map_ops EXCEPT ![m] = @ - 1]
    /\ free' = [free EXCEPT ![m] = <<mgr[m].page>> \o @]
    /\ num_free' = [num_free EXCEPT ![m] = @ + 1]
    /\ used' = ReleasePages(used, m, PhyPerVirt[m])
    /\ mgr' = [mgr EXCEPT ![m] = Idle]
    /\ UNCHANGED <<limiterVars, holds, is_sleeping, reserved, allocated, prealloc_needed,
                   pre, adm, loaded, crashed>>

AllocTracked(m) ==
    /\ mgr[m].op = "track"
    /\ allocated' = [allocated EXCEPT ![m] = @ \union {mgr[m].page}]
    /\ holds' = [holds EXCEPT ![mgr[m].req] = mgr[m].page]
    /\ req' = [req EXCEPT ![mgr[m].req] = "running"]
    /\ mgr' = [mgr EXCEPT ![m] = Idle]
    /\ UNCHANGED <<limiter, status, slipped, is_sleeping, pending_map_ops, free, reserved,
                   num_free, used, prealloc_needed, pre, adm, workerVars, crashed, failures>>

-----------------------------------------------------------------------------
\* free_blocks empties the page: free_kv_cache_pages.  max_reserved_pages_ minus
\* the list's size is unsigned, so a list beyond the maximum keeps every page.
FreePage(r) ==
    LET m == ModelOf[r]
        p == holds[r]
        reserve == ~is_sleeping[m] /\ Len(reserved[m]) # MaxReserved
    IN  /\ req[r] = "running" /\ mgr[m] = Idle
        /\ allocated' = [allocated EXCEPT ![m] = @ \ {p}]
        /\ num_free' = [num_free EXCEPT ![m] = @ + 1]
        /\ holds' = [holds EXCEPT ![r] = NoPage]
        /\ reserved' = IF reserve THEN [reserved EXCEPT ![m] = Append(@, p)] ELSE reserved
        /\ mgr' = IF reserve THEN mgr
                             ELSE [mgr EXCEPT ![m] = [op |-> "unmap", page |-> p, req |-> r]]
        /\ req' = [req EXCEPT ![r] = IF reserve THEN "responding" ELSE "freeing"]
        /\ UNCHANGED <<limiter, status, slipped, is_sleeping, pending_map_ops, free, used,
                       prealloc_needed, pre, adm, workerVars, crashed, failures>>

FreeUnmapped(m) ==
    /\ mgr[m].op = "unmap"
    /\ \E reached \in SUBSET WorkersOf[m] :
         /\ Succeeds(m, reached)
         /\ mapped' = Unmapped(m, {mgr[m].page}, reached)
    /\ free' = [free EXCEPT ![m] = Append(@, mgr[m].page)]
    /\ used' = ReleasePages(used, m, PhyPerVirt[m])
    /\ req' = [req EXCEPT ![mgr[m].req] = "responding"]
    /\ mgr' = [mgr EXCEPT ![m] = Idle]
    /\ UNCHANGED <<limiter, status, slipped, holds, is_sleeping, pending_map_ops, reserved,
                   allocated, num_free, prealloc_needed, pre, adm, loaded, crashed>>

\* The page counts as mapped when the broadcast reports failure.
FreeUnmapFailed(m) ==
    /\ mgr[m].op = "unmap"
    /\ \E reached \in SUBSET WorkersOf[m] :
         /\ Fails(m, reached)
         /\ mapped' = Unmapped(m, {mgr[m].page}, reached)
    /\ reserved' = [reserved EXCEPT ![m] = Append(@, mgr[m].page)]
    /\ req' = [req EXCEPT ![mgr[m].req] = "responding"]
    /\ mgr' = [mgr EXCEPT ![m] = Idle]
    /\ UNCHANGED <<limiter, status, slipped, holds, is_sleeping, pending_map_ops, free,
                   allocated, num_free, used, prealloc_needed, pre, adm, loaded, crashed>>

\* The response callback: decrease_one_request.  The client may ask again.
Respond(r) ==
    /\ req[r] = "responding"
    /\ limiter' = [limiter EXCEPT ![ModelOf[r]] = @ - 1]
    /\ req' = [req EXCEPT ![r] = "new"]
    /\ UNCHANGED <<status, slipped, holds, is_sleeping, pending_map_ops, listVars, used,
                   prealloc_needed, threadVars, workerVars, crashed, failures>>

-----------------------------------------------------------------------------
\* The preallocation thread.  One round plans pages for every model that is
\* awake, in the order of the map, each plan consuming physical pages.
NumToReserve(us, m) ==
    Min({Max({MinReserved - Len(reserved[m]), 0}), Len(free[m]),
         MinFreePages(us, m) \div PhyPerVirt[m]})

PlanOf(us, m) == IF is_sleeping[m] THEN 0 ELSE NumToReserve(us, m)

\* Models that the loop over model_states_ comes to before m.
Earlier(m) ==
    {k \in Models : \E i, j \in DOMAIN ModelOrder : i < j /\ ModelOrder[i] = k /\ ModelOrder[j] = m}

\* worker_pages_used_ when n[k] pages are planned for every model k of S.
UsedAfter(n, S) ==
    [w \in Workers |-> used[w] + SumFunctionOnSet([k \in Models |-> n[k] * PhyPerVirt[k]],
                                                 {k \in S : w \in WorkersOf[k]})]

\* How many pages of its free list the round takes for every model.
Plans == {n \in [Models -> 0 .. MinReserved] : \A m \in Models : n[m] <= Len(free[m])}
IsPlan(n) == \A m \in Models : n[m] = PlanOf(UsedAfter(n, Earlier(m)), m)

PreallocScan ==
    /\ pre.step = "wait" /\ prealloc_needed
    /\ prealloc_needed' = FALSE
    /\ \E n \in Plans :
         /\ IsPlan(n)
         /\ used' = UsedAfter(n, Models)
         /\ free' = [m \in Models |-> SubSeq(free[m], n[m] + 1, Len(free[m]))]
         /\ pre' = [step |-> IF \A m \in Models : n[m] = 0 THEN "wait" ELSE "check",
                    plan |-> [m \in Models |-> SubSeq(free[m], 1, n[m])]]
    /\ UNCHANGED <<limiterVars, holds, is_sleeping, pending_map_ops, reserved, allocated,
                   num_free, mgr, adm, workerVars, crashed, failures>>

\* The model whose pages are mapped next, and the end of its turn.
IsTurnOf(m) == pre.plan[m] # <<>> /\ \A k \in Earlier(m) : pre.plan[k] = <<>>

PreDone(m) ==
    pre' = [step |-> IF \A k \in Models \ {m} : pre.plan[k] = <<>> THEN "wait" ELSE "check",
            plan |-> [pre.plan EXCEPT ![m] = <<>>]]

\* The planned pages of a model go back to the front of its free list.
GiveBackPlan(m) ==
    /\ free' = [free EXCEPT ![m] = pre.plan[m] \o @]
    /\ used' = ReleasePages(used, m, Len(pre.plan[m]) * PhyPerVirt[m])

\* Mutant: the test for a model that fell asleep is missing.
PreallocCheckUnguarded(m) ==
    /\ pre.step = "check" /\ IsTurnOf(m)
    /\ pending_map_ops' = [pending_map_ops EXCEPT ![m] = @ + 1]
    /\ pre' = [pre EXCEPT !.step = "map"]
    /\ UNCHANGED <<limiterVars, holds, is_sleeping, listVars, used, prealloc_needed, mgr, adm,
                   workerVars, crashed, failures>>

\* A model that has gone to sleep since the scan is skipped.
PreallocCheck(m) ==
    /\ pre.step = "check" /\ IsTurnOf(m)
    /\ IF is_sleeping[m]
         THEN GiveBackPlan(m) /\ PreDone(m) /\ UNCHANGED pending_map_ops
         ELSE /\ pending_map_ops' = [pending_map_ops EXCEPT ![m] = @ + 1]
              /\ pre' = [pre EXCEPT !.step = "map"]
              /\ UNCHANGED <<free, used>>
    /\ UNCHANGED <<limiterVars, holds, is_sleeping, reserved, allocated, num_free,
                   prealloc_needed, mgr, adm, workerVars, crashed, failures>>

\* Mapped: the pages become reserved, unless the model sleeps by now; then
\* their physical pages are released and the page ids are in no list.
PreallocMapped(m) ==
    /\ pre.step = "map" /\ IsTurnOf(m)
    /\ \E reached \in SUBSET WorkersOf[m] :
         /\ Succeeds(m, reached)
         /\ mapped' = Mapped(m, Range(pre.plan[m]), reached)
    /\ pending_map_ops' = [pending_map_ops EXCEPT ![m] = @ - 1]
    /\ IF is_sleeping[m]
         THEN /\ used' = ReleasePages(used, m, Len(pre.plan[m]) * PhyPerVirt[m])
              /\ UNCHANGED reserved
         ELSE /\ reserved' = [reserved EXCEPT ![m] = @ \o pre.plan[m]]
              /\ UNCHANGED used
    /\ PreDone(m)
    /\ UNCHANGED <<limiterVars, holds, is_sleeping, free, allocated, num_free,
                   prealloc_needed, mgr, adm, loaded, crashed>>

\* Mutant: the early exit of a failed map leaves the operation pending.
PreallocMapFailedPending(m) ==
    /\ pre.step = "map" /\ IsTurnOf(m)
    /\ \E reached \in SUBSET WorkersOf[m] :
         /\ Fails(m, reached)
         /\ mapped' = Mapped(m, Range(pre.plan[m]), reached)
    /\ GiveBackPlan(m)
    /\ PreDone(m)
    /\ UNCHANGED <<limiterVars, holds, is_sleeping, pending_map_ops, reserved, allocated,
                   num_free, prealloc_needed, mgr, adm, loaded, crashed>>

PreallocMapFailed(m) ==
    /\ pre.step = "map" /\ IsTurnOf(m)
    /\ \E reached \in SUBSET WorkersOf[m] :
         /\ Fails(m, reached)
         /\ mapped' = Mapped(m, Range(pre.plan[m]), reached)
    /\ pending_map_ops' = [pending_map_ops EXCEPT ![m] = @ - 1]
    /\ GiveBackPlan(m)
    /\ PreDone(m)
    /\ UNCHANGED <<limiterVars, holds, is_sleeping, reserved, allocated, num_free,
                   prealloc_needed, mgr, adm, loaded, crashed>>

-----------------------------------------------------------------------------
\* APIService::SleepHttp and WakeupHttp with the sleep_model and wakeup_model
\* they call.  A handler that fails answers with an error and is done.
At(a, op) == adm[a].op = op
Goto(a, op) == adm' = [adm EXCEPT ![a].op = op]
Done(a) == adm' = [adm EXCEPT ![a] = NoHandler]
HandlerStarts(a, op, m) == adm' = [adm EXCEPT ![a] = [op |-> op, model |-> m, pages |-> {}]]

\* LLMMaster's status is put back when sleep fails, the limiter is not.
SleepFails(a) == Done(a) /\ status' = [status EXCEPT ![adm[a].model] = "awake"]

MappedPages(m) == Range(reserved[m]) \union allocated[m]

SleepBegin(a, m) ==
    /\ Followed
    /\ At(a, "idle") /\ status[m] = "awake"
    /\ HandlerStarts(a, "sleep_cas", m)
    /\ UNCHANGED <<limiterVars, holds, is_sleeping, pending_map_ops, listVars, used,
                   prealloc_needed, mgr, pre, workerVars, crashed, failures>>

\* try_set_sleeping: a compare-and-swap from 0.
SleepCas(a) ==
    LET m == adm[a].model
    IN  /\ At(a, "sleep_cas")
        /\ IF limiter[m] = 0
             THEN /\ limiter' = [limiter EXCEPT ![m] = kSleeping]
                  /\ status' = [status EXCEPT ![m] = "asleep"]
                  /\ Goto(a, "sleep_lock")
             ELSE Done(a) /\ UNCHANGED <<limiter, status>>
        /\ UNCHANGED <<req, slipped, holds, is_sleeping, pending_map_ops, listVars, used,
                       prealloc_needed, mgr, pre, workerVars, crashed, failures>>

\* Mutant: sleep_model does not wait for pending map operations.
SleepLockHasty(a) ==
    LET m == adm[a].model
    IN  /\ At(a, "sleep_lock") /\ ~is_sleeping[m]
        /\ is_sleeping' = [is_sleeping EXCEPT ![m] = TRUE]
        /\ adm' = [adm EXCEPT ![a].op = IF WeightPages[m] > 0 THEN "sleep_weights" ELSE "sleep_unmap",
                              ![a].pages = MappedPages(m)]
        /\ UNCHANGED <<limiterVars, holds, pending_map_ops, listVars, used, prealloc_needed,
                       mgr, pre, workerVars, crashed, failures>>

\* sleep_model: wait for pending maps, then mark the model asleep and collect its
\* mapped pages.  It refuses a model that sleeps already, which the limiter's
\* compare-and-swap excludes: HandlersFinish would find a handler refused here.
SleepLock(a) ==
    LET m == adm[a].model
    IN  /\ At(a, "sleep_lock") /\ ~is_sleeping[m] /\ pending_map_ops[m] = 0
        /\ is_sleeping' = [is_sleeping EXCEPT ![m] = TRUE]
        /\ adm' = [adm EXCEPT ![a].op = IF WeightPages[m] > 0 THEN "sleep_weights" ELSE "sleep_unmap",
                              ![a].pages = MappedPages(m)]
        /\ UNCHANGED <<limiterVars, holds, pending_map_ops, listVars, used, prealloc_needed,
                       mgr, pre, workerVars, crashed, failures>>

\* free_weight_pages.
SleepWeights(a) ==
    LET m == adm[a].model
    IN  /\ At(a, "sleep_weights")
        /\ \E reached \in SUBSET WorkersOf[m] :
             /\ loaded' = [loaded EXCEPT ![m] = @ \ reached]
             /\ \/ /\ Succeeds(m, reached)
                   /\ used' = ReleasePages(used, m, WeightPages[m])
                   /\ Goto(a, "sleep_unmap")
                   /\ UNCHANGED status
                \/ /\ Fails(m, reached)
                   /\ SleepFails(a)
                   /\ UNCHANGED used
        /\ UNCHANGED <<limiter, req, slipped, holds, is_sleeping, pending_map_ops, listVars,
                       prealloc_needed, mgr, pre, mapped, crashed>>

\* The pages are unmapped but stay in their lists, for wakeup to map again.
SleepUnmap(a) ==
    LET m == adm[a].model
    IN  /\ At(a, "sleep_unmap")
        /\ \E reached \in SUBSET WorkersOf[m] :
             /\ mapped' = Unmapped(m, adm[a].pages, reached)
             /\ \/ /\ Succeeds(m, reached)
                   /\ used' = ReleasePages(used, m, Cardinality(adm[a].pages) * PhyPerVirt[m])
                   /\ Goto(a, "sleep_workers")
                   /\ UNCHANGED status
                \/ /\ Fails(m, reached)
                   /\ SleepFails(a)
                   /\ UNCHANGED used
        /\ UNCHANGED <<limiter, req, slipped, holds, is_sleeping, pending_map_ops, listVars,
                       prealloc_needed, mgr, pre, loaded, crashed>>

\* LLMEngine::sleep: the workers' own sleep, after the allocator's.
SleepWorkers(a) ==
    /\ At(a, "sleep_workers")
    /\ \/ Done(a) /\ UNCHANGED <<status, failures>>
       \/ SleepFails(a) /\ failures < MaxFailures /\ failures' = failures + 1
    /\ UNCHANGED <<limiter, req, slipped, holds, is_sleeping, pending_map_ops, listVars, used,
                   prealloc_needed, mgr, pre, workerVars, crashed>>

WakeupBegin(a, m) ==
    /\ Followed
    /\ At(a, "idle") /\ status[m] = "asleep"
    /\ HandlerStarts(a, "wake_check", m)
    /\ UNCHANGED <<limiterVars, holds, is_sleeping, pending_map_ops, listVars, used,
                   prealloc_needed, mgr, pre, workerVars, crashed, failures>>

\* Physical pages a wakeup takes from each of the model's workers.
WakeupPages(m) == Cardinality(MappedPages(m)) * PhyPerVirt[m] + WeightPages[m]

WakeupFits(m) == MinFreePages(used, m) >= WakeupPages(m)

\* wakeup_model, phase 1: every check, then the accounting, under the lock.
WakeupReserve(a) ==
    LET m == adm[a].model
    IN  /\ At(a, "wake_check") /\ is_sleeping[m] /\ WakeupFits(m)
        /\ used' = ConsumePages(used, m, WakeupPages(m))
        /\ adm' = [adm EXCEPT ![a].op = "wake_map", ![a].pages = MappedPages(m)]
        /\ UNCHANGED <<limiterVars, holds, is_sleeping, pending_map_ops, listVars,
                       prealloc_needed, mgr, pre, workerVars, crashed, failures>>

WakeupRefused(a) ==
    LET m == adm[a].model
    IN  /\ At(a, "wake_check") /\ ~(is_sleeping[m] /\ WakeupFits(m))
        /\ Done(a)
        /\ UNCHANGED <<limiterVars, holds, is_sleeping, pending_map_ops, listVars, used,
                       prealloc_needed, mgr, pre, workerVars, crashed, failures>>

\* Mutant: only the pages in use are mapped again, not the reserved ones.
WakeupMapAllocated(a) ==
    LET m == adm[a].model
    IN  /\ At(a, "wake_map")
        /\ \E reached \in SUBSET WorkersOf[m] :
             /\ mapped' = Mapped(m, allocated[m], reached)
             /\ Succeeds(m, reached) /\ Goto(a, "wake_weights")
        /\ UNCHANGED <<limiterVars, holds, is_sleeping, pending_map_ops, listVars, used,
                       prealloc_needed, mgr, pre, loaded, crashed>>

\* Phase 2: the pages, then the weights; a failure keeps what was consumed.
WakeupMap(a) ==
    LET m == adm[a].model
    IN  /\ At(a, "wake_map")
        /\ \E reached \in SUBSET WorkersOf[m] :
             /\ mapped' = Mapped(m, adm[a].pages, reached)
             /\ \/ Succeeds(m, reached) /\ Goto(a, "wake_weights")
                \/ Fails(m, reached) /\ Done(a)
        /\ UNCHANGED <<limiterVars, holds, is_sleeping, pending_map_ops, listVars, used,
                       prealloc_needed, mgr, pre, loaded, crashed>>

\* Phase 3 marks the model awake once all of it has succeeded.
WakeupWeights(a) ==
    LET m == adm[a].model
    IN  /\ At(a, "wake_weights")
        /\ \E reached \in SUBSET WorkersOf[m] :
             /\ loaded' = [loaded EXCEPT ![m] = @ \union reached]
             /\ \/ /\ Succeeds(m, reached)
                   /\ is_sleeping' = [is_sleeping EXCEPT ![m] = FALSE]
                   /\ prealloc_needed' = TRUE
                   /\ Goto(a, "wake_workers")
                \/ /\ Fails(m, reached)
                   /\ Done(a)
                   /\ UNCHANGED <<is_sleeping, prealloc_needed>>
        /\ UNCHANGED <<limiterVars, holds, pending_map_ops, listVars, used, mgr, pre, mapped,
                       crashed>>

\* Mutant: the limiter is not restored.
WakeupWorkersKeepsLimiter(a) ==
    /\ At(a, "wake_workers")
    /\ Done(a)
    /\ status' = [status EXCEPT ![adm[a].model] = "awake"]
    /\ UNCHANGED <<limiter, failures, req, slipped, holds, is_sleeping, pending_map_ops,
                   listVars, used, prealloc_needed, mgr, pre, workerVars, crashed>>

\* The workers' own wakeup, then try_wakeup: a compare-and-swap from kSleeping.
WakeupWorkers(a) ==
    LET m == adm[a].model
    IN  /\ At(a, "wake_workers")
        /\ Done(a)
        /\ \/ /\ limiter[m] = kSleeping
              /\ limiter' = [limiter EXCEPT ![m] = 0]
              /\ status' = [status EXCEPT ![m] = "awake"]
              /\ UNCHANGED failures
           \/ /\ limiter[m] # kSleeping
              /\ UNCHANGED <<limiter, status, failures>>
           \/ /\ failures < MaxFailures
              /\ failures' = failures + 1
              /\ UNCHANGED <<limiter, status>>
        /\ UNCHANGED <<req, slipped, holds, is_sleeping, pending_map_ops, listVars, used,
                       prealloc_needed, mgr, pre, workerVars, crashed>>

-----------------------------------------------------------------------------
RequestStep(r) ==
    \/ CheckLimit(r) \/ Admit(r) \/ AllocWhileSleeping(r)
    \/ AllocReserved(r) \/ AllocFree(r) \/ AllocExhausted(r) \/ FreePage(r) \/ Respond(r)

ManagerStep(m) ==
    AllocMapped(m) \/ AllocMapFailed(m) \/ AllocTracked(m) \/ FreeUnmapped(m) \/ FreeUnmapFailed(m)

PreallocStep ==
    PreallocScan \/ \E m \in Models : PreallocCheck(m) \/ PreallocMapped(m) \/ PreallocMapFailed(m)

HandlerStep(a) ==
    \/ SleepCas(a) \/ SleepLock(a) \/ SleepWeights(a) \/ SleepUnmap(a)
    \/ SleepWorkers(a) \/ WakeupReserve(a) \/ WakeupRefused(a) \/ WakeupMap(a)
    \/ WakeupWeights(a) \/ WakeupWorkers(a)

HandlerBegins(a) == \E m \in Models : SleepBegin(a, m) \/ WakeupBegin(a, m)

Next ==
    /\ crashed = "no"
    /\ \/ \E r \in Requests : RequestStep(r)
       \/ \E m \in Models : ManagerStep(m)
       \/ PreallocStep
       \/ \E a \in Handlers : HandlerStep(a) \/ HandlerBegins(a)

\* The threads run until they block: a broadcast returns (the RPCs have a
\* timeout), a critical section is left.  Clients and operators owe nothing.
Spec ==
    /\ Init /\ [][Next]_vars
    /\ \A m \in Models : WF_vars(crashed = "no" /\ ManagerStep(m))
    /\ WF_vars(crashed = "no" /\ PreallocStep)
    /\ \A a \in Handlers : WF_vars(crashed = "no" /\ HandlerStep(a))

-----------------------------------------------------------------------------
Pages == 0 .. PhyPages - 1
ReqStates == {"new", "checked", "admitted", "running", "freeing", "responding"}
SleepOps == {"sleep_cas", "sleep_lock", "sleep_weights", "sleep_unmap", "sleep_workers"}
WakeOps == {"wake_check", "wake_map", "wake_weights", "wake_workers"}

TypeOK ==
    /\ limiter \in [Models -> Int] /\ status \in [Models -> {"awake", "asleep"}] /\ slipped \subseteq Models
    /\ req \in [Requests -> ReqStates] /\ holds \in [Requests -> Pages \union {NoPage}]
    /\ is_sleeping \in [Models -> BOOLEAN] /\ pending_map_ops \in [Models -> 0 .. 2]
    /\ free \in [Models -> Seq(Pages)] /\ reserved \in [Models -> Seq(Pages)]
    /\ allocated \in [Models -> SUBSET Pages] /\ num_free \in [Models -> Nat]
    /\ prealloc_needed \in BOOLEAN
    /\ mgr \in [Models -> [op : {"idle", "map", "track", "unmap"}, page : Pages \union {NoPage},
                           req : Requests \union {NoPage}]]
    /\ pre \in [step : {"wait", "check", "map"}, plan : [Models -> Seq(Pages)]]
    /\ adm \in [Handlers -> [op : {"idle"} \union SleepOps \union WakeOps,
                             model : Models \union {NoPage}, pages : SUBSET Pages]]
    /\ mapped \in [Models -> [Workers -> SUBSET Pages]] /\ loaded \in [Models -> SUBSET Workers]
    /\ crashed \in {"no", "asleep", "pages"} /\ failures \in 0 .. MaxFailures

\* Pages that a thread has taken out of the lists: planned by the
\* preallocation thread, or being mapped or unmapped for the block manager.
Planned(m) == Range(pre.plan[m])
InCall(m, ops) == IF mgr[m].op \in ops THEN {mgr[m].page} ELSE {}

\* No virtual page is lost or in two lists, whatever broadcasts fail and
\* whenever models fall asleep, and num_free_virt_pages_ agrees with the lists:
\* the page ids that alloc_kv_cache_page, free_kv_cache_pages and the
\* preallocation thread pass around are conserved.
VirtPagesPartitioned ==
    \A m \in Models :
      LET away == Planned(m) \union InCall(m, {"map", "track", "unmap"})
      IN  /\ Range(free[m]) \union MappedPages(m) \union away = VirtPages(m)
          /\ Len(free[m]) + Len(reserved[m]) + Cardinality(allocated[m]) + Cardinality(away)
               = Cardinality(VirtPages(m))
          /\ num_free[m] = Len(free[m]) + Len(reserved[m]) + Cardinality(Planned(m))
                             + Cardinality(InCall(m, {"unmap"}))

\* No broadcast has failed and no request was admitted by a sleeping model.
Undisturbed == failures = 0 /\ slipped = {}

Quiet(m) ==
    /\ mgr[m] = Idle /\ Planned(m) = {}
    /\ \A a \in Handlers : adm[a].op = "idle" \/ adm[a].model # m

\* Physical pages a worker really has in use.
PhysicallyUsed(w) ==
    SumFunction([m \in Models |-> Cardinality(mapped[m][w]) * PhyPerVirt[m]
                                    + (IF w \in loaded[m] THEN WeightPages[m] ELSE 0)])

AccountCovers(w) == Undisturbed => PhysicallyUsed(w) <= used[w]
AccountExactAtRest(w) == Undisturbed /\ (\A m \in Models : Quiet(m)) => used[w] = PhysicallyUsed(w)

\* worker_pages_used_ never exceeds the pool, so the unsigned
\* num_total_phy_pages_ - worker_pages_used_ never wraps, even when failures keep
\* pages consumed.  Unless something failed it never falls below what a worker
\* has mapped, so the allocator hands out no physical page twice (a worker whose
\* pool is empty reports success and leaves the page unmapped), and at rest it
\* is exactly that: no physical page leaks.
WorkerPagesAccounted ==
    \A w \in Workers : used[w] \in 0 .. PhyPages /\ AccountCovers(w) /\ AccountExactAtRest(w)

\* The pages of a model that is awake, reserved ones included, have physical
\* memory on all its workers, so that a request may write to its block.
PagesOfAwakeModelMapped ==
    Undisturbed => \A m \in Models : ~is_sleeping[m] =>
                     \A w \in WorkersOf[m] : MappedPages(m) \subseteq mapped[m][w]

\* try_set_sleeping and the wait for pending maps leave a sleeping model
\* without requests and without page calls under way, so alloc_kv_cache_page's
\* CHECK on a sleeping model fails only after a request slipped past the limiter.
AsleepIsIdle ==
    /\ crashed = "asleep" => slipped # {}
    /\ \A m \in Models : (is_sleeping[m] /\ m \notin slipped) =>
         /\ \A r \in Requests : ModelOf[r] = m => req[r] \in {"new", "checked"}
         /\ mgr[m] = Idle /\ pending_map_ops[m] = 0

\* The three records of a model's sleep (the limiter's kSleeping, the master's
\* status, the allocator's is_sleeping) agree whenever no handler is working.
SleepRecordsAgree ==
    Undisturbed => \A m \in Models :
      (\A a \in Handlers : adm[a].op = "idle" \/ adm[a].model # m) =>
        /\ (limiter[m] = kSleeping) <=> is_sleeping[m]
        /\ (status[m] = "asleep") <=> is_sleeping[m]

\* "When the model is in sleep state, it returns UNAVAILABLE": a model that is
\* asleep admits no request.
AsleepAdmitsNothing == slipped = {}

\* Every /sleep and /wakeup call is answered: sleep_model's wait for pending map
\* operations always ends.
HandlersFinish ==
    \A a \in Handlers : adm[a].op # "idle" ~> (adm[a].op = "idle" \/ crashed # "no")
=============================================================================
