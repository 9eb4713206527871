-------------------------- MODULE PageAllocatorProof --------------------------
(***************************************************************************)
(* Proofs about PageAllocator: for any models, workers, pages and          *)
(* requests, and whatever broadcasts fail, no virtual page is lost or in   *)
(* two lists and no worker's pool is exceeded; and as long as the calls of *)
(* /sleep and /wakeup for one model come one after the other, a sleeping   *)
(* model is idle, the three records of its sleep agree, the pages of a     *)
(* model that is awake are mapped, and worker_pages_used_ accounts for     *)
(* the physical pages of every worker.                                     *)
(*                                                                         *)
(* The invariant is stated per model: where its pages are, whom its block  *)
(* manager serves, how many maps are pending, what the limiter's counter   *)
(* counts, how far a handler has come, and what the model is charged for.  *)
(* What a worker has in use is the sum of the charges of its models; the   *)
(* lemmas about sums rest on a least counterexample among finite sets.     *)
(***************************************************************************)
EXTENDS PageAllocator, QueueLemmas, TLAPS

\* The pages of a call of the block manager.
Calling(m) == InCall(m, {"map", "track", "unmap"})

\* The pages V of a model, each in exactly one place: its free list f, its
\* reserved list r, the plan p, the allocated pages A or a call C.
Conserved(f, r, p, A, C, V) ==
    /\ IsInjective(f) /\ IsInjective(r) /\ IsInjective(p)
    /\ Range(f) \intersect (Range(r) \union A \union Range(p) \union C) = {}
    /\ Range(r) \intersect (A \union Range(p) \union C) = {}
    /\ A \intersect (Range(p) \union C) = {}
    /\ Range(p) \intersect C = {}
    /\ Range(f) \union Range(r) \union A \union Range(p) \union C = V

PagesConserved(m) ==
    Conserved(free[m], reserved[m], pre.plan[m], allocated[m], Calling(m), VirtPages(m))

FreeCounted(m) ==
    num_free[m] = Len(free[m]) + Len(reserved[m]) + Len(pre.plan[m])
                    + (IF mgr[m].op = "unmap" THEN 1 ELSE 0)

\* A call of the block manager serves a request of its model; a map is pending
\* while the call or the preallocation thread is at it, and never for a sleeping
\* model.
ServesOwn(m) ==
    /\ mgr[m].op = "idle" => mgr[m] = Idle
    /\ mgr[m].op # "idle" => /\ mgr[m].req \in Requests /\ ModelOf[mgr[m].req] = m
                             /\ req[mgr[m].req] = IF mgr[m].op = "unmap" THEN "freeing" ELSE "admitted"

Preallocating(m) == pre.step = "map" /\ IsTurnOf(m)

PendingCounted(m) ==
    /\ pending_map_ops[m] = (IF mgr[m].op = "map" THEN 1 ELSE 0) + (IF Preallocating(m) THEN 1 ELSE 0)
    /\ is_sleeping[m] => pending_map_ops[m] = 0
    /\ pre.step = "wait" => pre.plan[m] = <<>>

\* A request that runs holds an allocated page of its model, alone.
HoldsOwn(r) ==
    req[r] = "running" =>
        /\ holds[r] \in allocated[ModelOf[r]]
        /\ \A s \in Requests : s # r /\ req[s] = "running" /\ ModelOf[s] = ModelOf[r] => holds[s] # holds[r]

\* What the limiter counts.
Active(m) == {r \in Requests : ModelOf[r] = m /\ req[r] \notin {"new", "checked"}}

Serves(a, m) == adm[a].op # "idle" /\ adm[a].model = m

\* Unless a request has slipped past it: the counter is the number of active
\* requests, or kSleeping and there is none; it is kSleeping while the model
\* sleeps, and from the compare-and-swap of /sleep to that of /wakeup.
GateCounts(m) ==
    \/ limiter[m] = kSleeping /\ Active(m) = {}
    \/ limiter[m] = Cardinality(Active(m))

GateClosed(m) ==
    /\ is_sleeping[m] \/ status[m] = "asleep" => limiter[m] = kSleeping
    /\ \A a \in Handlers : Serves(a, m) =>
         /\ adm[a].op # "sleep_cas" => limiter[m] = kSleeping
         /\ adm[a].op = "wake_workers" => ~is_sleeping[m]

\* Without a failed broadcast: how far the records of the sleep are at every
\* step of a handler.
RecordsFollow(m) ==
    /\ (\A a \in Handlers : ~Serves(a, m)) =>
         (limiter[m] = kSleeping <=> is_sleeping[m]) /\ (status[m] = "asleep" <=> is_sleeping[m])
    /\ \A a \in Handlers : Serves(a, m) =>
         /\ adm[a].op = "sleep_cas" <=> limiter[m] # kSleeping
         /\ adm[a].op = "sleep_cas" <=> status[m] = "awake"
         /\ adm[a].op \in {"sleep_cas", "sleep_lock", "wake_workers"} <=> ~is_sleeping[m]

\* And which pages have physical memory.
PagesMapped(m) ==
    /\ ~is_sleeping[m] => \A w \in WorkersOf[m] : MappedPages(m) \subseteq mapped[m][w]
    /\ mgr[m].op = "track" => \A w \in WorkersOf[m] : mgr[m].page \in mapped[m][w]
    /\ \A a \in Handlers : Serves(a, m) =>
         /\ adm[a].op = "wake_map" => adm[a].pages = MappedPages(m)
         /\ adm[a].op = "wake_weights" => \A w \in WorkersOf[m] : MappedPages(m) \subseteq mapped[m][w]

\* The pages are conserved, whatever the handlers do.
ModelOK(m) == PagesConserved(m) /\ FreeCounted(m) /\ ServesOwn(m) /\ PendingCounted(m)
HandlerOK(a) == adm[a].op # "idle" => adm[a].model \in Models

ListInv ==
    /\ TypeOK
    /\ \A m \in Models : ModelOK(m)
    /\ \A r \in Requests : HoldsOwn(r)
    /\ \A a \in Handlers : HandlerOK(a)

\* The calls for one model come one after the other.
OneCallPerModel ==
    \A a, b \in Handlers : adm[a].op # "idle" /\ adm[b].op # "idle" /\ adm[a].model = adm[b].model => a = b

GateInv ==
    /\ \A m \in Models : m \notin slipped => GateCounts(m) /\ GateClosed(m)
    /\ crashed = "asleep" => slipped # {}

SleepInv ==
    /\ GateInv
    /\ Undisturbed => \A m \in Models : RecordsFollow(m) /\ PagesMapped(m)

\* What the allocator has charged a model for, unless a broadcast failed.  Its
\* pages, other than the free ones, and its weights are charged while it is
\* awake; sleep_model discharges the weights first and then the mapped pages,
\* wakeup_model charges both before it maps anything.
AtWork(m, ops) == \E a \in Handlers : Serves(a, m) /\ adm[a].op \in ops
PagesCharged(m) == ~is_sleeping[m] \/ AtWork(m, {"sleep_weights", "sleep_unmap", "wake_map", "wake_weights"})
WeightsCharged(m) == ~is_sleeping[m] \/ AtWork(m, {"sleep_weights", "wake_map", "wake_weights"})
Uncharged(m) == IF PagesCharged(m) THEN {} ELSE MappedPages(m)
Claimed(m) == VirtPages(m) \ (Range(free[m]) \union Uncharged(m))
Weight(m) == IF WeightsCharged(m) THEN WeightPages[m] ELSE 0

\* Physical pages of n per page of S, and x more.
Cost(S, n, x) == Cardinality(S) * n + x
Charge(m) == Cost(Claimed(m), PhyPerVirt[m], Weight(m))

\* The account of a worker: worker_pages_used_ is the sum of the charges.
Account(w) == [m \in Models |-> IF w \in WorkersOf[m] THEN Charge(m) ELSE 0]
AccountExact == \A w \in Workers : used[w] = SumFunctionOnSet(Account(w), Models)

\* The memory of a model stays within what is charged.
MemoryFollows(m) ==
    /\ \A w \in Workers : /\ mapped[m][w] \subseteq Claimed(m) \ Range(pre.plan[m])
                          /\ w \notin WorkersOf[m] => mapped[m][w] = {}
    /\ loaded[m] \subseteq WorkersOf[m]
    /\ WeightsCharged(m) \/ loaded[m] = {} \/ WeightPages[m] = 0
    /\ ~is_sleeping[m] => loaded[m] = WorkersOf[m]
    /\ \A a \in Handlers : Serves(a, m) /\ adm[a].op \in {"sleep_weights", "sleep_unmap"} =>
         adm[a].pages = MappedPages(m)

PoolInv == used \in [Workers -> 0 .. PhyPages]

AccountInv == PoolInv /\ (Undisturbed => AccountExact /\ \A m \in Models : MemoryFollows(m))

-----------------------------------------------------------------------------
\* The pages of a model are pages of the pool, the padding page among them.
LEMMA PagesOfPool ==
    ASSUME NEW m \in Models
    PROVE  /\ VirtPages(m) \subseteq Pages /\ PaddingPage \in VirtPages(m)
           /\ Cardinality(VirtPages(m)) = PhyPages \div PhyPerVirt[m]
           /\ PhyPages \div PhyPerVirt[m] \in Nat \ {0} /\ IsFiniteSet(VirtPages(m))
<1>1. PhyPages \in Nat /\ PhyPerVirt[m] \in Nat \ {0} /\ PhyPerVirt[m] <= PhyPages
  BY PagesAssumption
<1> DEFINE n == PhyPages \div PhyPerVirt[m]
<1>2. n \in Nat /\ n >= 1 /\ n <= PhyPages
  BY <1>1
<1> HIDE DEF n
<1>3. IsFiniteSet(0 .. n - 1) /\ Cardinality(0 .. n - 1) = n
  BY <1>2, FS_Interval
<1> QED BY <1>1, <1>2, <1>3 DEF n, VirtPages, Pages, PaddingPage

\* The types that a step of one model uses.
LEMMA TypesOf ==
    ASSUME TypeOK, NEW m \in Models
    PROVE  /\ free[m] \in Seq(Pages) /\ reserved[m] \in Seq(Pages) /\ pre.plan[m] \in Seq(Pages)
           /\ allocated[m] \in SUBSET Pages /\ num_free[m] \in Nat /\ pending_map_ops[m] \in 0 .. 2
           /\ mgr[m].op \in {"idle", "map", "track", "unmap"} /\ mgr[m].page \in Pages \union {NoPage}
           /\ mgr[m].req \in Requests \union {NoPage}
           /\ mgr[m] = [op |-> mgr[m].op, page |-> mgr[m].page, req |-> mgr[m].req]
           /\ pre.step \in {"wait", "check", "map"} /\ pre.plan \in [Models -> Seq(Pages)]
           /\ pre = [step |-> pre.step, plan |-> pre.plan]
           /\ is_sleeping[m] \in BOOLEAN /\ limiter[m] \in Int /\ status[m] \in {"awake", "asleep"}
           /\ mapped[m] \in [Workers -> SUBSET Pages] /\ WorkersOf[m] \in SUBSET Workers
           /\ failures \in Nat /\ MaxFailures \in Nat
BY WorkersAssumption, BoundAssumption DEF TypeOK

\* A broadcast changes the mapped pages of one model on the workers it reached.
LEMMA BroadcastTypes ==
    ASSUME TypeOK, NEW m \in Models, NEW pages \in SUBSET Pages, NEW reached
    PROVE  /\ Mapped(m, pages, reached) \in [Models -> [Workers -> SUBSET Pages]]
           /\ Unmapped(m, pages, reached) \in [Models -> [Workers -> SUBSET Pages]]
BY DEF TypeOK, Mapped, Unmapped

\* A broadcast changes the pages of one model, on workers it reached.
LEMMA BroadcastReaches ==
    ASSUME TypeOK, NEW m \in Models, NEW pages, NEW reached
    PROVE  /\ \A k \in Models : k # m => /\ Mapped(m, pages, reached)[k] = mapped[k]
                                         /\ Unmapped(m, pages, reached)[k] = mapped[k]
           /\ \A w \in Workers :
                /\ Mapped(m, pages, reached)[m][w] = IF w \in reached THEN mapped[m][w] \union pages ELSE mapped[m][w]
                /\ Unmapped(m, pages, reached)[m][w] = IF w \in reached THEN mapped[m][w] \ pages ELSE mapped[m][w]
BY DEF TypeOK, Mapped, Unmapped

-----------------------------------------------------------------------------
\* A page call: its page comes from the front of the free list and goes back to
\* an end of it, to the reserved list or to the allocated pages.
LEMMA CallConserves ==
    ASSUME NEW f \in Seq(Pages), NEW r \in Seq(Pages), NEW p \in Seq(Pages), NEW A, NEW C, NEW V,
           NEW x \in Pages, Conserved(f, r, p, A, C, V)
    PROVE  /\ C = {} /\ f # <<>> => Conserved(Tail(f), r, p, A, {Head(f)}, V)
           /\ C = {} /\ r # <<>> => Conserved(f, Tail(r), p, A \union {Head(r)}, {}, V)
           /\ C = {} /\ x \in A => /\ Conserved(f, Append(r, x), p, A \ {x}, {}, V)
                                   /\ Conserved(f, r, p, A \ {x}, {x}, V)
           /\ C = {x} => /\ Conserved(<<x>> \o f, r, p, A, {}, V)
                         /\ Conserved(Append(f, x), r, p, A, {}, V)
                         /\ Conserved(f, Append(r, x), p, A, {}, V)
                         /\ Conserved(f, r, p, A \union {x}, {}, V)
<1>1. ASSUME C = {}, f # <<>> PROVE Conserved(Tail(f), r, p, A, {Head(f)}, V)
  <2>1. /\ Head(f) \in Range(f) /\ IsInjective(Tail(f)) /\ Range(Tail(f)) = Range(f) \ {Head(f)}
    BY <1>1, TakeHead DEF Conserved
  <2> QED BY <1>1, <2>1 DEF Conserved
<1>2. ASSUME C = {}, r # <<>> PROVE Conserved(f, Tail(r), p, A \union {Head(r)}, {}, V)
  <2>1. /\ Head(r) \in Range(r) /\ IsInjective(Tail(r)) /\ Range(Tail(r)) = Range(r) \ {Head(r)}
    BY <1>2, TakeHead DEF Conserved
  <2> QED BY <1>2, <2>1 DEF Conserved
<1>3. /\ Range(Append(f, x)) = Range(f) \union {x} /\ (x \notin Range(f) => IsInjective(Append(f, x)))
      /\ Range(Append(r, x)) = Range(r) \union {x} /\ (x \notin Range(r) => IsInjective(Append(r, x)))
  BY AppendQueue DEF Conserved
<1>4. ASSUME C = {}, x \in A
      PROVE  Conserved(f, Append(r, x), p, A \ {x}, {}, V) /\ Conserved(f, r, p, A \ {x}, {x}, V)
  BY <1>3, <1>4 DEF Conserved
<1>5. ASSUME C = {x}
      PROVE  /\ Conserved(Append(f, x), r, p, A, {}, V) /\ Conserved(f, Append(r, x), p, A, {}, V)
             /\ Conserved(f, r, p, A \union {x}, {}, V)
  BY <1>3, <1>5 DEF Conserved
<1>6. ASSUME C = {x} PROVE Conserved(<<x>> \o f, r, p, A, {}, V)
  <2>1. /\ <<x>> \in Seq(Pages) /\ IsInjective(<<x>>) /\ Range(<<x>>) = {x}
    BY DEF IsInjective, Range
  <2> DEFINE s == <<x>>
  <2>2. s \in Seq(Pages) /\ IsInjective(s) /\ Range(s) = {x} /\ IsInjective(f) /\ x \notin Range(f)
    BY <1>6, <2>1 DEF Conserved
  <2> HIDE DEF s
  <2>3. Range(s \o f) = Range(s) \union Range(f) /\ IsInjective(s \o f)
    BY <2>2, ConcatQueue
  <2>4. Conserved(s \o f, r, p, A, {}, V)
    BY <1>6, <2>2, <2>3 DEF Conserved
  <2> QED BY <2>4 DEF s
<1> QED BY <1>1, <1>2, <1>4, <1>5, <1>6

\* A plan takes the front of the free list, and goes back to it or becomes
\* reserved.
LEMMA PlanConserves ==
    ASSUME NEW f \in Seq(Pages), NEW r \in Seq(Pages), NEW p \in Seq(Pages), NEW A, NEW C, NEW V,
           Conserved(f, r, p, A, C, V)
    PROVE  /\ \A n \in 0 .. Len(f) : p = <<>> =>
                Conserved(SubSeq(f, n + 1, Len(f)), r, SubSeq(f, 1, n), A, C, V)
           /\ Conserved(p \o f, r, <<>>, A, C, V)
           /\ Conserved(f, r \o p, <<>>, A, C, V)
<1>1. <<>> \in Seq(Pages) /\ Range(<<>>) = {} /\ IsInjective(<<>>)
  BY DEF Range, IsInjective
<1>2. ASSUME NEW n \in 0 .. Len(f), p = <<>>
      PROVE  Conserved(SubSeq(f, n + 1, Len(f)), r, SubSeq(f, 1, n), A, C, V)
  <2> DEFINE a == SubSeq(f, 1, n)
             b == SubSeq(f, n + 1, Len(f))
  <2>1. /\ Range(a) \union Range(b) = Range(f) /\ Range(a) \intersect Range(b) = {}
        /\ IsInjective(a) /\ IsInjective(b)
    BY SplitQueue DEF Conserved
  <2> HIDE DEF a, b
  <2>2. Range(p) = {}
    BY <1>1, <1>2
  <2>3. Conserved(b, r, a, A, C, V)
    BY <2>1, <2>2 DEF Conserved
  <2> QED BY <2>3 DEF a, b
<1>3. Conserved(p \o f, r, <<>>, A, C, V)
  <2>1. Range(p \o f) = Range(p) \union Range(f) /\ IsInjective(p \o f)
    BY ConcatQueue DEF Conserved
  <2> QED BY <1>1, <2>1 DEF Conserved
<1>4. Conserved(f, r \o p, <<>>, A, C, V)
  <2>1. Range(r \o p) = Range(r) \union Range(p) /\ IsInjective(r \o p)
    BY ConcatQueue DEF Conserved
  <2> QED BY <1>1, <2>1 DEF Conserved
<1> QED BY <1>2, <1>3, <1>4

\* The preallocation thread works on one model at a time.
LEMMA TurnUnique ==
    ASSUME NEW m \in Models, NEW k \in Models, IsTurnOf(m), IsTurnOf(k)
    PROVE  m = k
<1>1. PICK i \in DOMAIN ModelOrder : ModelOrder[i] = m
  BY OrderAssumption DEF Range
<1>2. PICK j \in DOMAIN ModelOrder : ModelOrder[j] = k
  BY OrderAssumption DEF Range
<1>3. i \in Int /\ j \in Int
  BY OrderAssumption
<1>4. ~(i < j)
  BY <1>1, <1>2 DEF IsTurnOf, Earlier
<1>5. ~(j < i)
  BY <1>1, <1>2 DEF IsTurnOf, Earlier
<1>6. i = j
  BY <1>3, <1>4, <1>5
<1> QED BY <1>1, <1>2, <1>6

-----------------------------------------------------------------------------
\* The count of free pages covers each list.
LEMMA FreeCovers ==
    ASSUME TypeOK, NEW m \in Models, FreeCounted(m)
    PROVE  /\ Len(free[m]) \in Nat /\ Len(reserved[m]) \in Nat /\ Len(pre.plan[m]) \in Nat
           /\ num_free[m] >= Len(free[m]) /\ num_free[m] >= Len(reserved[m]) /\ num_free[m] \in Nat
           /\ free[m] # <<>> => Len(free[m]) >= 1
           /\ reserved[m] # <<>> => Len(reserved[m]) >= 1
<1>1. free[m] \in Seq(Pages) /\ reserved[m] \in Seq(Pages) /\ pre.plan[m] \in Seq(Pages) /\ num_free[m] \in Nat
  BY TypesOf
<1> DEFINE f == Len(free[m])
           r == Len(reserved[m])
           p == Len(pre.plan[m])
           c == IF mgr[m].op = "unmap" THEN 1 ELSE 0
<1>2. f \in Nat /\ r \in Nat /\ p \in Nat
  BY <1>1
<1>3. num_free[m] = f + r + p + c /\ c \in Nat
  BY DEF FreeCounted
<1>4. (free[m] # <<>> => f >= 1) /\ (reserved[m] # <<>> => r >= 1)
  BY <1>1
<1> HIDE DEF f, r, p, c
<1>5. num_free[m] >= f /\ num_free[m] >= r
  BY <1>2, <1>3
<1> QED BY <1>1, <1>2, <1>4, <1>5 DEF f, r, p

\* A broadcast that fails counts as one failure more.
LEMMA FailureTypes ==
    ASSUME TypeOK, NEW m \in Models, NEW reached, Fails(m, reached)
    PROVE  failures' \in 0 .. MaxFailures
<1>1. failures \in Nat /\ MaxFailures \in Nat /\ failures < MaxFailures /\ failures' = failures + 1
  BY BoundAssumption DEF TypeOK, Fails
<1> QED BY <1>1

\* Type correctness of every step.  That a page is left to count, or a map to
\* end, is what FreeCounted and PendingCounted say.
LEMMA RequestTypes ==
    ASSUME ListInv, NEW r \in Requests, RequestStep(r)
    PROVE  TypeOK'
<1> DEFINE m == ModelOf[r]
<1>1. TypeOK /\ m \in Models /\ ModelOK(m) /\ HoldsOwn(r)
  BY RequestsAssumption DEF ListInv
<1>2. CASE CheckLimit(r)
  BY <1>1, <1>2 DEF CheckLimit, TypeOK, ReqStates, listVars, threadVars, workerVars
<1>3. CASE Admit(r)
  BY <1>1, <1>3 DEF Admit, TypeOK, ReqStates, listVars, threadVars, workerVars
<1>4. CASE AllocWhileSleeping(r) \/ AllocExhausted(r)
  BY <1>1, <1>4 DEF AllocWhileSleeping, AllocExhausted, TypeOK, limiterVars, listVars, threadVars, workerVars
<1>5. CASE AllocReserved(r)
  <2>1. reserved[m] # <<>> /\ reserved[m] \in Seq(Pages)
    BY <1>1, <1>5, TypesOf DEF AllocReserved
  <2>2. Head(reserved[m]) \in Pages /\ Tail(reserved[m]) \in Seq(Pages)
    BY <2>1, TakeHead
  <2>3. num_free[m] - 1 \in Nat
    <3>1. Len(reserved[m]) >= 1 /\ Len(reserved[m]) \in Nat /\ num_free[m] >= Len(reserved[m]) /\ num_free[m] \in Nat
      BY <1>1, <2>1, FreeCovers DEF ModelOK
    <3> QED BY <3>1
  <2> HIDE DEF m
  <2>4. num_free' \in [Models -> Nat] /\ reserved' \in [Models -> Seq(Pages)] /\ allocated' \in [Models -> SUBSET Pages]
    BY <1>1, <1>5, <2>2, <2>3 DEF AllocReserved, TypeOK, m
  <2> QED BY <1>1, <1>5, <2>2, <2>4 DEF AllocReserved, TypeOK, ReqStates, threadVars, workerVars, m
<1>6. CASE AllocFree(r)
  <2>1. free[m] # <<>> /\ free[m] \in Seq(Pages)
    BY <1>1, <1>6, TypesOf DEF AllocFree, HasFreePage
  <2>2. Head(free[m]) \in Pages /\ Tail(free[m]) \in Seq(Pages)
    BY <2>1, TakeHead
  <2>3. num_free[m] - 1 \in Nat
    <3>1. Len(free[m]) >= 1 /\ Len(free[m]) \in Nat /\ num_free[m] >= Len(free[m]) /\ num_free[m] \in Nat
      BY <1>1, <2>1, FreeCovers DEF ModelOK
    <3> QED BY <3>1
  <2>4. pending_map_ops[m] + 1 \in 0 .. 2
    BY <1>1, <1>6 DEF AllocFree, NeedsPage, Idle, ModelOK, PendingCounted
  <2> HIDE DEF m
  <2>5. /\ num_free' \in [Models -> Nat] /\ free' \in [Models -> Seq(Pages)]
        /\ pending_map_ops' \in [Models -> 0 .. 2]
    BY <1>1, <1>6, <2>2, <2>3, <2>4 DEF AllocFree, TypeOK, m
  <2> QED BY <1>1, <1>6, <2>2, <2>5 DEF AllocFree, TypeOK, limiterVars, workerVars, m
<1>7. CASE FreePage(r)
  <2>1. holds[r] \in Pages
    BY <1>1, <1>7 DEF FreePage, HoldsOwn, TypeOK
  <2>2. Append(reserved[m], holds[r]) \in Seq(Pages) /\ num_free[m] + 1 \in Nat
    <3>1. reserved[m] \in Seq(Pages) /\ num_free[m] \in Nat
      BY <1>1, TypesOf
    <3>2. Append(reserved[m], holds[r]) \in Seq(Pages)
      BY <2>1, <3>1, AppendQueue
    <3> QED BY <3>1, <3>2
  <2> HIDE DEF m
  <2>3. /\ num_free' \in [Models -> Nat] /\ reserved' \in [Models -> Seq(Pages)] /\ allocated' \in [Models -> SUBSET Pages]
    BY <1>1, <1>7, <2>2 DEF FreePage, TypeOK, m
  <2>4. mgr' \in [Models -> [op : {"idle", "map", "track", "unmap"}, page : Pages \union {NoPage},
                             req : Requests \union {NoPage}]]
    BY <1>1, <1>7, <2>1 DEF FreePage, TypeOK, m
  <2> QED BY <1>1, <1>7, <2>3, <2>4 DEF FreePage, TypeOK, ReqStates, workerVars, m
<1>8. CASE Respond(r)
  BY <1>1, <1>8 DEF Respond, TypeOK, ReqStates, listVars, threadVars, workerVars
<1> QED BY <1>2, <1>3, <1>4, <1>5, <1>6, <1>7, <1>8 DEF RequestStep

\* Types after a step of a block manager's page call.
LEMMA ManagerTypes ==
    ASSUME ListInv, NEW m \in Models, ManagerStep(m)
    PROVE  TypeOK'
<1>1. TypeOK /\ ModelOK(m)
  BY DEF ListInv
<1>2. /\ mgr[m].op # "idle" /\ mgr[m].req \in Requests
  BY <1>1 DEF ManagerStep, AllocMapped, AllocMapFailed, AllocTracked, FreeUnmapped, FreeUnmapFailed,
              ModelOK, ServesOwn
<1>3. mgr[m].page \in Pages
  <2>1. mgr[m].page \in VirtPages(m)
    BY <1>1, <1>2, TypesOf DEF ModelOK, PagesConserved, Conserved, Calling, InCall
  <2> QED BY <2>1, PagesOfPool
<1>4. \A reached : /\ Mapped(m, {mgr[m].page}, reached) \in [Models -> [Workers -> SUBSET Pages]]
                   /\ Unmapped(m, {mgr[m].page}, reached) \in [Models -> [Workers -> SUBSET Pages]]
  <2> DEFINE P == {mgr[m].page}
  <2>1. P \in SUBSET Pages
    BY <1>3
  <2> HIDE DEF P
  <2>2. \A reached : /\ Mapped(m, P, reached) \in [Models -> [Workers -> SUBSET Pages]]
                     /\ Unmapped(m, P, reached) \in [Models -> [Workers -> SUBSET Pages]]
    BY <1>1, <2>1, BroadcastTypes
  <2> QED BY <2>2 DEF P
<1>5. [mgr EXCEPT ![m] = Idle] \in [Models -> [op : {"idle", "map", "track", "unmap"}, page : Pages \union {NoPage},
                                               req : Requests \union {NoPage}]]
  BY <1>1 DEF TypeOK, Idle
<1>6. /\ free[m] \in Seq(Pages) /\ reserved[m] \in Seq(Pages) /\ failures \in Nat /\ MaxFailures \in Nat
      /\ num_free[m] \in Nat
  BY <1>1, TypesOf
<1>7. mgr[m].op = "map" => pending_map_ops[m] - 1 \in 0 .. 2
  BY <1>1 DEF ModelOK, PendingCounted
<1>8. CASE AllocMapped(m)
  <2>1. mapped' \in [Models -> [Workers -> SUBSET Pages]] /\ failures' = failures
    BY <1>4, <1>8 DEF AllocMapped, Succeeds
  <2>2. pending_map_ops' \in [Models -> 0 .. 2]
    BY <1>1, <1>7, <1>8 DEF AllocMapped, TypeOK
  <2>3. mgr' \in [Models -> [op : {"idle", "map", "track", "unmap"}, page : Pages \union {NoPage},
                             req : Requests \union {NoPage}]]
    <3>1. mgr' = [mgr EXCEPT ![m] = [op |-> "track", page |-> mgr[m].page, req |-> mgr[m].req]]
      <4>1. mgr[m] = [op |-> mgr[m].op, page |-> mgr[m].page, req |-> mgr[m].req]
        BY <1>1, TypesOf
      <4>2. [mgr[m] EXCEPT !.op = "track"] = [op |-> "track", page |-> mgr[m].page, req |-> mgr[m].req]
        BY <4>1
      <4> QED BY <1>8, <4>2 DEF AllocMapped
    <3> QED BY <1>1, <1>2, <1>3, <3>1 DEF TypeOK
  <2> QED BY <1>1, <1>8, <2>1, <2>2, <2>3 DEF AllocMapped, TypeOK, limiterVars, listVars
<1>9. CASE AllocMapFailed(m)
  <2>1. mapped' \in [Models -> [Workers -> SUBSET Pages]] /\ failures' \in 0 .. MaxFailures
    BY <1>1, <1>4, <1>9, FailureTypes DEF AllocMapFailed
  <2>2. pending_map_ops' \in [Models -> 0 .. 2] /\ num_free' \in [Models -> Nat]
    BY <1>1, <1>6, <1>7, <1>9 DEF AllocMapFailed, TypeOK
  <2>3. <<mgr[m].page>> \o free[m] \in Seq(Pages)
    BY <1>3, <1>6
  <2>4. free' \in [Models -> Seq(Pages)]
    BY <1>1, <1>9, <2>3 DEF AllocMapFailed, TypeOK
  <2> QED BY <1>1, <1>5, <1>9, <2>1, <2>2, <2>4 DEF AllocMapFailed, TypeOK, limiterVars
<1>10. CASE AllocTracked(m)
  BY <1>1, <1>2, <1>3, <1>5, <1>10 DEF AllocTracked, TypeOK, ReqStates, workerVars
<1>11. CASE FreeUnmapped(m)
  <2>1. mapped' \in [Models -> [Workers -> SUBSET Pages]] /\ failures' = failures
    BY <1>4, <1>11 DEF FreeUnmapped, Succeeds
  <2>2. Append(free[m], mgr[m].page) \in Seq(Pages)
    BY <1>3, <1>6, AppendQueue
  <2>3. free' \in [Models -> Seq(Pages)]
    BY <1>1, <1>11, <2>2 DEF FreeUnmapped, TypeOK
  <2> QED BY <1>1, <1>2, <1>5, <1>11, <2>1, <2>3 DEF FreeUnmapped, TypeOK, ReqStates
<1>12. CASE FreeUnmapFailed(m)
  <2>1. mapped' \in [Models -> [Workers -> SUBSET Pages]] /\ failures' \in 0 .. MaxFailures
    BY <1>1, <1>4, <1>12, FailureTypes DEF FreeUnmapFailed
  <2>2. Append(reserved[m], mgr[m].page) \in Seq(Pages)
    BY <1>3, <1>6, AppendQueue
  <2>3. reserved' \in [Models -> Seq(Pages)]
    BY <1>1, <1>12, <2>2 DEF FreeUnmapFailed, TypeOK
  <2> QED BY <1>1, <1>2, <1>5, <1>12, <2>1, <2>3 DEF FreeUnmapFailed, TypeOK, ReqStates
<1> QED BY <1>8, <1>9, <1>10, <1>11, <1>12 DEF ManagerStep

\* Types after a step of the preallocation thread.
LEMMA PreallocTypes ==
    ASSUME ListInv, PreallocStep
    PROVE  TypeOK'
<1>1. TypeOK /\ \A m \in Models : ModelOK(m)
  BY DEF ListInv
<1>2. CASE PreallocScan
  <2>1. PICK n \in Plans :
          /\ free' = [m \in Models |-> SubSeq(free[m], n[m] + 1, Len(free[m]))]
          /\ pre' = [step |-> IF \A m \in Models : n[m] = 0 THEN "wait" ELSE "check",
                     plan |-> [m \in Models |-> SubSeq(free[m], 1, n[m])]]
    BY <1>2 DEF PreallocScan
  <2>2. ASSUME NEW m \in Models
        PROVE  SubSeq(free[m], n[m] + 1, Len(free[m])) \in Seq(Pages) /\ SubSeq(free[m], 1, n[m]) \in Seq(Pages)
    <3>1. free[m] \in Seq(Pages)
      BY <1>1, TypesOf
    <3>2. n[m] \in 0 .. Len(free[m])
      BY <3>1, ReserveAssumption DEF Plans
    <3> QED BY <3>1, <3>2, SplitQueue
  <2>3. free' \in [Models -> Seq(Pages)] /\ pre' \in [step : {"wait", "check", "map"}, plan : [Models -> Seq(Pages)]]
    BY <2>1, <2>2
  <2> QED BY <1>1, <1>2, <2>3 DEF PreallocScan, TypeOK, limiterVars, workerVars
<1>3. ASSUME NEW m \in Models, PreallocCheck(m) \/ PreallocMapped(m) \/ PreallocMapFailed(m)
      PROVE  TypeOK'
  <2>1. /\ free[m] \in Seq(Pages) /\ reserved[m] \in Seq(Pages) /\ pre.plan[m] \in Seq(Pages)
        /\ pre = [step |-> pre.step, plan |-> pre.plan] /\ pre.plan \in [Models -> Seq(Pages)]
        /\ pending_map_ops[m] \in 0 .. 2
    BY <1>1, TypesOf
  <2>2. pre.plan[m] \o free[m] \in Seq(Pages) /\ reserved[m] \o pre.plan[m] \in Seq(Pages)
    BY <2>1, ConcatQueue
  <2>3. GiveBackPlan(m) => free' \in [Models -> Seq(Pages)]
    BY <1>1, <2>2 DEF GiveBackPlan, TypeOK
  <2>4. PreDone(m) => pre' \in [step : {"wait", "check", "map"}, plan : [Models -> Seq(Pages)]]
    BY <2>1 DEF PreDone
  <2>5. Range(pre.plan[m]) \in SUBSET Pages
    BY <2>1 DEF Range
  <2>6. \A reached : Mapped(m, Range(pre.plan[m]), reached) \in [Models -> [Workers -> SUBSET Pages]]
    BY <1>1, <2>5, BroadcastTypes
  <2>7. pre.step = "map" /\ IsTurnOf(m) => pending_map_ops[m] - 1 \in 0 .. 2
    <3>1. /\ pending_map_ops[m] = (IF mgr[m].op = "map" THEN 1 ELSE 0) + (IF Preallocating(m) THEN 1 ELSE 0)
      BY <1>1 DEF ModelOK, PendingCounted
    <3> QED BY <3>1 DEF Preallocating
  <2>8. CASE PreallocCheck(m)
    <3>1. CASE is_sleeping[m]
      BY <1>1, <2>3, <2>4, <2>8, <3>1 DEF PreallocCheck, TypeOK, limiterVars, workerVars
    <3>2. CASE ~is_sleeping[m]
      <4>1. pending_map_ops[m] + 1 \in 0 .. 2
        BY <1>1, <2>8 DEF PreallocCheck, ModelOK, PendingCounted, Preallocating
      <4>2. pending_map_ops' \in [Models -> 0 .. 2]
        BY <1>1, <2>8, <3>2, <4>1 DEF PreallocCheck, TypeOK
      <4>3. pre' = [step |-> "map", plan |-> pre.plan]
        <5>1. [pre EXCEPT !.step = "map"] = [step |-> "map", plan |-> pre.plan]
          BY <2>1
        <5> QED BY <2>8, <3>2, <5>1 DEF PreallocCheck
      <4>4. pre' \in [step : {"wait", "check", "map"}, plan : [Models -> Seq(Pages)]]
        BY <2>1, <4>3
      <4> QED BY <1>1, <2>8, <3>2, <4>2, <4>4 DEF PreallocCheck, TypeOK, limiterVars, workerVars
    <3> QED BY <3>1, <3>2
  <2>9. CASE PreallocMapped(m)
    <3>1. mapped' \in [Models -> [Workers -> SUBSET Pages]] /\ failures' = failures
      BY <2>6, <2>9 DEF PreallocMapped, Succeeds
    <3>2. pending_map_ops' \in [Models -> 0 .. 2]
      BY <1>1, <2>7, <2>9 DEF PreallocMapped, TypeOK
    <3>3. reserved' \in [Models -> Seq(Pages)]
      BY <1>1, <2>2, <2>9 DEF PreallocMapped, TypeOK
    <3> QED BY <1>1, <2>4, <2>9, <3>1, <3>2, <3>3 DEF PreallocMapped, TypeOK, limiterVars
  <2>10. CASE PreallocMapFailed(m)
    <3>1. mapped' \in [Models -> [Workers -> SUBSET Pages]] /\ failures' \in 0 .. MaxFailures
      BY <1>1, <2>6, <2>10, FailureTypes DEF PreallocMapFailed
    <3>2. pending_map_ops' \in [Models -> 0 .. 2]
      BY <1>1, <2>7, <2>10 DEF PreallocMapFailed, TypeOK
    <3> QED BY <1>1, <2>3, <2>4, <2>10, <3>1, <3>2 DEF PreallocMapFailed, TypeOK, limiterVars
  <2> QED BY <1>3, <2>8, <2>9, <2>10
<1> QED BY <1>2, <1>3 DEF PreallocStep

\* What a step of a handler does to the handler.
LEMMA HandlerMoves ==
    ASSUME TypeOK, NEW a \in Handlers
    PROVE  /\ Done(a) => adm' \in [Handlers -> [op : {"idle"} \union SleepOps \union WakeOps,
                                     model : Models \union {NoPage}, pages : SUBSET Pages]]
           /\ \A op \in SleepOps \union WakeOps : Goto(a, op) =>
                adm' = [adm EXCEPT ![a] = [op |-> op, model |-> adm[a].model, pages |-> adm[a].pages]]
           /\ \A op \in SleepOps \union WakeOps : Goto(a, op) =>
                adm' \in [Handlers -> [op : {"idle"} \union SleepOps \union WakeOps,
                            model : Models \union {NoPage}, pages : SUBSET Pages]]
           /\ \A op \in SleepOps \union WakeOps, m \in Models : HandlerStarts(a, op, m) =>
                adm' \in [Handlers -> [op : {"idle"} \union SleepOps \union WakeOps,
                            model : Models \union {NoPage}, pages : SUBSET Pages]]
<1> DEFINE Ops == {"idle"} \union SleepOps \union WakeOps
<1>1. /\ adm \in [Handlers -> [op : Ops, model : Models \union {NoPage}, pages : SUBSET Pages]]
  BY DEF TypeOK
<1>2. "idle" \in Ops /\ SleepOps \union WakeOps \subseteq Ops
  OBVIOUS
<1> HIDE DEF Ops
<1>3. /\ adm[a] = [op |-> adm[a].op, model |-> adm[a].model, pages |-> adm[a].pages]
      /\ adm[a].model \in Models \union {NoPage} /\ adm[a].pages \in SUBSET Pages
  BY <1>1
<1>4. Done(a) => adm' \in [Handlers -> [op : Ops, model : Models \union {NoPage}, pages : SUBSET Pages]]
  BY <1>1, <1>2 DEF Done, NoHandler
<1>5. ASSUME NEW op \in SleepOps \union WakeOps, Goto(a, op)
      PROVE  adm' = [adm EXCEPT ![a] = [op |-> op, model |-> adm[a].model, pages |-> adm[a].pages]]
  <2>1. [adm[a] EXCEPT !.op = op] = [op |-> op, model |-> adm[a].model, pages |-> adm[a].pages]
    BY <1>3
  <2> QED BY <1>5, <2>1 DEF Goto
<1>6. ASSUME NEW op \in SleepOps \union WakeOps, Goto(a, op)
      PROVE  adm' \in [Handlers -> [op : Ops, model : Models \union {NoPage}, pages : SUBSET Pages]]
  BY <1>1, <1>2, <1>3, <1>5, <1>6
<1>7. ASSUME NEW op \in SleepOps \union WakeOps, NEW m \in Models, HandlerStarts(a, op, m)
      PROVE  adm' \in [Handlers -> [op : Ops, model : Models \union {NoPage}, pages : SUBSET Pages]]
  BY <1>1, <1>2, <1>7 DEF HandlerStarts
<1> QED BY <1>4, <1>5, <1>6, <1>7 DEF Ops

\* A handler that goes on with the mapped pages of its model.
LEMMA HandlerCollects ==
    ASSUME TypeOK, NEW a \in Handlers, NEW m \in Models, NEW op \in SleepOps \union WakeOps,
           adm' = [adm EXCEPT ![a].op = op, ![a].pages = MappedPages(m)]
    PROVE  /\ adm' = [adm EXCEPT ![a] = [op |-> op, model |-> adm[a].model, pages |-> MappedPages(m)]]
           /\ adm' \in [Handlers -> [op : {"idle"} \union SleepOps \union WakeOps,
                          model : Models \union {NoPage}, pages : SUBSET Pages]]
<1> DEFINE Ops == {"idle"} \union SleepOps \union WakeOps
<1>1. /\ adm \in [Handlers -> [op : Ops, model : Models \union {NoPage}, pages : SUBSET Pages]]
  BY DEF TypeOK
<1>2. op \in Ops
  OBVIOUS
<1> HIDE DEF Ops
<1>3. /\ adm[a] = [op |-> adm[a].op, model |-> adm[a].model, pages |-> adm[a].pages]
      /\ adm[a].model \in Models \union {NoPage} /\ adm[a].pages \in SUBSET Pages
  BY <1>1
<1>4. MappedPages(m) \in SUBSET Pages
  <2>1. reserved[m] \in Seq(Pages) /\ allocated[m] \in SUBSET Pages
    BY TypesOf
  <2> QED BY <2>1 DEF MappedPages, Range
<1> DEFINE P == MappedPages(m)
<1> HIDE DEF P
<1>5. [[adm[a] EXCEPT !.op = op] EXCEPT !.pages = P] = [op |-> op, model |-> adm[a].model, pages |-> P]
  <2>1. [adm[a] EXCEPT !.op = op] = [op |-> op, model |-> adm[a].model, pages |-> adm[a].pages]
    BY <1>3
  <2>2. [[op |-> op, model |-> adm[a].model, pages |-> adm[a].pages] EXCEPT !.pages = P]
          = [op |-> op, model |-> adm[a].model, pages |-> P]
    OBVIOUS
  <2> QED BY <2>1, <2>2
<1>6. adm' = [adm EXCEPT ![a] = [op |-> op, model |-> adm[a].model, pages |-> P]]
  BY <1>1, <1>5 DEF P
<1>7. adm' \in [Handlers -> [op : Ops, model : Models \union {NoPage}, pages : SUBSET Pages]]
  BY <1>1, <1>2, <1>3, <1>4, <1>6, ZenonT(40) DEF P
<1> QED BY <1>6, <1>7 DEF P, Ops

\* Types after a step of a handler of /sleep or /wakeup.
LEMMA HandlerTypes ==
    ASSUME ListInv, NEW a \in Handlers, HandlerStep(a) \/ HandlerBegins(a)
    PROVE  TypeOK'
<1> DEFINE Ops == {"idle"} \union SleepOps \union WakeOps
           AdmOK == adm' \in [Handlers -> [op : Ops, model : Models \union {NoPage}, pages : SUBSET Pages]]
           m == adm[a].model
<1>1. TypeOK /\ HandlerOK(a)
  BY DEF ListInv
<1>2. (Done(a) => AdmOK) /\ \A op \in SleepOps \union WakeOps : Goto(a, op) => AdmOK
  BY <1>1, HandlerMoves
<1>3. /\ {"sleep_cas", "sleep_lock", "sleep_weights", "sleep_unmap", "sleep_workers"} \subseteq SleepOps
      /\ {"wake_check", "wake_map", "wake_weights", "wake_workers"} \subseteq WakeOps
      /\ kSleeping \in Int
  BY DEF SleepOps, WakeOps, kSleeping
<1> HIDE DEF AdmOK, m
<1>4. ASSUME NEW k \in Models, SleepBegin(a, k) \/ WakeupBegin(a, k)
      PROVE  TypeOK'
  <2>1. AdmOK
    BY <1>1, <1>3, <1>4, HandlerMoves DEF SleepBegin, WakeupBegin, AdmOK
  <2> QED BY <1>1, <1>4, <2>1 DEF SleepBegin, WakeupBegin, TypeOK, AdmOK, limiterVars, listVars, workerVars
<1>5. HandlerStep(a) => m \in Models
  BY <1>1 DEF HandlerOK, m, HandlerStep, At, SleepCas, SleepLock, SleepWeights, SleepUnmap, SleepWorkers,
              WakeupReserve, WakeupRefused, WakeupMap, WakeupWeights, WakeupWorkers
<1>6. SleepFails(a) => AdmOK /\ status' \in [Models -> {"awake", "asleep"}]
  BY <1>1, <1>2 DEF SleepFails, TypeOK, m
<1>7. CASE SleepCas(a)
  <2>1. AdmOK
    BY <1>2, <1>3, <1>7 DEF SleepCas
  <2>2. limiter' \in [Models -> Int] /\ status' \in [Models -> {"awake", "asleep"}]
    <3>1. limiter' = limiter \/ limiter' = [limiter EXCEPT ![m] = kSleeping]
      BY <1>7 DEF SleepCas, m
    <3>2. status' = status \/ status' = [status EXCEPT ![m] = "asleep"]
      BY <1>7 DEF SleepCas, m
    <3>3. limiter \in [Models -> Int] /\ status \in [Models -> {"awake", "asleep"}]
      BY <1>1 DEF TypeOK
    <3>4. limiter' \in [Models -> Int]
      BY <1>3, <3>1, <3>3
    <3> QED BY <3>2, <3>3, <3>4
  <2> QED BY <1>1, <1>7, <2>1, <2>2 DEF SleepCas, TypeOK, AdmOK, listVars, workerVars
<1>8. CASE SleepLock(a)
  <2>1. AdmOK
    <3> DEFINE op == IF WeightPages[m] > 0 THEN "sleep_weights" ELSE "sleep_unmap"
    <3>1. op \in SleepOps \union WakeOps
      BY <1>3
    <3>2. adm' = [adm EXCEPT ![a].op = op, ![a].pages = MappedPages(m)]
      BY <1>8 DEF SleepLock, m
    <3>3. m \in Models
      BY <1>5, <1>8 DEF HandlerStep
    <3> HIDE DEF op
    <3> QED BY <1>1, <3>1, <3>2, <3>3, HandlerCollects DEF AdmOK
  <2> QED BY <1>1, <1>8, <2>1 DEF SleepLock, TypeOK, AdmOK, limiterVars, listVars, workerVars
<1>9. CASE SleepWeights(a)
  <2>0. m \in Models
    BY <1>5, <1>9 DEF HandlerStep
  <2>1. PICK reached \in SUBSET WorkersOf[m] :
             /\ loaded' = [loaded EXCEPT ![m] = @ \ reached]
             /\ \/ Succeeds(m, reached) /\ Goto(a, "sleep_unmap") /\ UNCHANGED status
                \/ Fails(m, reached) /\ SleepFails(a)
    BY <1>9 DEF SleepWeights, m
  <2>2. AdmOK /\ status' \in [Models -> {"awake", "asleep"}]
    BY <1>1, <1>2, <1>3, <1>6, <2>1 DEF TypeOK
  <2>3. failures' \in 0 .. MaxFailures
    BY <1>1, <2>0, <2>1, FailureTypes DEF Succeeds, TypeOK
  <2>4. loaded' \in [Models -> SUBSET Workers]
    BY <1>1, <2>0, <2>1 DEF TypeOK
  <2> QED BY <1>1, <1>9, <2>2, <2>3, <2>4 DEF SleepWeights, TypeOK, AdmOK, listVars
<1>10. CASE SleepUnmap(a)
  <2>0. m \in Models
    BY <1>5, <1>10 DEF HandlerStep
  <2>1. PICK reached \in SUBSET WorkersOf[m] :
             /\ mapped' = Unmapped(m, adm[a].pages, reached)
             /\ \/ Succeeds(m, reached) /\ Goto(a, "sleep_workers") /\ UNCHANGED status
                \/ Fails(m, reached) /\ SleepFails(a)
    BY <1>10 DEF SleepUnmap, m
  <2>2. AdmOK /\ status' \in [Models -> {"awake", "asleep"}]
    BY <1>1, <1>2, <1>3, <1>6, <2>1 DEF TypeOK
  <2>3. failures' \in 0 .. MaxFailures
    BY <1>1, <2>0, <2>1, FailureTypes DEF Succeeds, TypeOK
  <2>4. mapped' \in [Models -> [Workers -> SUBSET Pages]]
    <3>1. adm[a].pages \in SUBSET Pages
      BY <1>1 DEF TypeOK
    <3>2. Unmapped(m, adm[a].pages, reached) \in [Models -> [Workers -> SUBSET Pages]]
      BY <1>1, <2>0, <3>1, BroadcastTypes
    <3> QED BY <2>1, <3>2
  <2> QED BY <1>1, <1>10, <2>2, <2>3, <2>4 DEF SleepUnmap, TypeOK, AdmOK, listVars
<1>11. CASE SleepWorkers(a)
  <2>1. AdmOK /\ status' \in [Models -> {"awake", "asleep"}]
    BY <1>1, <1>2, <1>6, <1>11 DEF SleepWorkers, TypeOK
  <2>2. failures' \in 0 .. MaxFailures
    <3>1. failures \in 0 .. MaxFailures /\ MaxFailures \in Nat
      BY <1>1, BoundAssumption DEF TypeOK
    <3>2. failures' = failures \/ (failures < MaxFailures /\ failures' = failures + 1)
      BY <1>11 DEF SleepWorkers
    <3> QED BY <3>1, <3>2
  <2> QED BY <1>1, <1>11, <2>1, <2>2 DEF SleepWorkers, TypeOK, AdmOK, listVars, workerVars
<1>12. CASE WakeupReserve(a)
  <2>0. m \in Models
    BY <1>5, <1>12 DEF HandlerStep
  <2>1. "wake_map" \in SleepOps \union WakeOps /\ adm' = [adm EXCEPT ![a].op = "wake_map", ![a].pages = MappedPages(m)]
    BY <1>3, <1>12 DEF WakeupReserve, m
  <2>2. AdmOK
    BY <1>1, <2>0, <2>1, HandlerCollects DEF AdmOK
  <2> QED BY <1>1, <1>12, <2>2 DEF WakeupReserve, TypeOK, AdmOK, limiterVars, listVars, workerVars
<1>13. CASE WakeupRefused(a)
  <2>1. AdmOK
    BY <1>2, <1>13 DEF WakeupRefused
  <2> QED BY <1>1, <1>13, <2>1 DEF WakeupRefused, TypeOK, AdmOK, limiterVars, listVars, workerVars
<1>14. CASE WakeupMap(a)
  <2>0. m \in Models
    BY <1>5, <1>14 DEF HandlerStep
  <2>1. PICK reached \in SUBSET WorkersOf[m] :
             /\ mapped' = Mapped(m, adm[a].pages, reached)
             /\ \/ Succeeds(m, reached) /\ Goto(a, "wake_weights")
                \/ Fails(m, reached) /\ Done(a)
    BY <1>14 DEF WakeupMap, m
  <2>2. AdmOK
    BY <1>2, <1>3, <2>1
  <2>3. failures' \in 0 .. MaxFailures
    BY <1>1, <2>0, <2>1, FailureTypes DEF Succeeds, TypeOK
  <2>4. mapped' \in [Models -> [Workers -> SUBSET Pages]]
    <3>1. adm[a].pages \in SUBSET Pages
      BY <1>1 DEF TypeOK
    <3>2. Mapped(m, adm[a].pages, reached) \in [Models -> [Workers -> SUBSET Pages]]
      BY <1>1, <2>0, <3>1, BroadcastTypes
    <3> QED BY <2>1, <3>2
  <2> QED BY <1>1, <1>14, <2>2, <2>3, <2>4 DEF WakeupMap, TypeOK, AdmOK, limiterVars, listVars
<1>15. CASE WakeupWeights(a)
  <2>0. m \in Models
    BY <1>5, <1>15 DEF HandlerStep
  <2>1. PICK reached \in SUBSET WorkersOf[m] :
             /\ loaded' = [loaded EXCEPT ![m] = @ \union reached]
             /\ \/ /\ Succeeds(m, reached) /\ Goto(a, "wake_workers")
                   /\ is_sleeping' = [is_sleeping EXCEPT ![m] = FALSE] /\ prealloc_needed' = TRUE
                \/ Fails(m, reached) /\ Done(a) /\ UNCHANGED <<is_sleeping, prealloc_needed>>
    BY <1>15 DEF WakeupWeights, m
  <2>2. AdmOK
    BY <1>2, <1>3, <2>1
  <2>3. failures' \in 0 .. MaxFailures
    BY <1>1, <2>0, <2>1, FailureTypes DEF Succeeds, TypeOK
  <2>4. loaded' \in [Models -> SUBSET Workers]
    BY <1>1, <2>0, <2>1, WorkersAssumption DEF TypeOK
  <2>5. is_sleeping' \in [Models -> BOOLEAN] /\ prealloc_needed' \in BOOLEAN
    BY <1>1, <2>1, Zenon DEF TypeOK
  <2> QED BY <1>1, <1>15, <2>2, <2>3, <2>4, <2>5 DEF WakeupWeights, TypeOK, AdmOK, limiterVars, listVars
<1>16. CASE WakeupWorkers(a)
  <2>1. AdmOK
    BY <1>2, <1>16 DEF WakeupWorkers
  <2>2. limiter' \in [Models -> Int] /\ status' \in [Models -> {"awake", "asleep"}]
    <3>1. limiter' = limiter \/ limiter' = [limiter EXCEPT ![m] = 0]
      BY <1>16 DEF WakeupWorkers, m
    <3>2. status' = status \/ status' = [status EXCEPT ![m] = "awake"]
      BY <1>16 DEF WakeupWorkers, m
    <3>3. limiter \in [Models -> Int] /\ status \in [Models -> {"awake", "asleep"}]
      BY <1>1 DEF TypeOK
    <3>4. limiter' \in [Models -> Int]
      BY <3>1, <3>3
    <3> QED BY <3>2, <3>3, <3>4
  <2>3. failures' \in 0 .. MaxFailures
    <3>1. failures \in 0 .. MaxFailures /\ MaxFailures \in Nat
      BY <1>1, BoundAssumption DEF TypeOK
    <3>2. failures' = failures \/ (failures < MaxFailures /\ failures' = failures + 1)
      BY <1>16 DEF WakeupWorkers
    <3> QED BY <3>1, <3>2
  <2> QED BY <1>1, <1>16, <2>1, <2>2, <2>3 DEF WakeupWorkers, TypeOK, AdmOK, listVars, workerVars
<1> QED BY <1>4, <1>7, <1>8, <1>9, <1>10, <1>11, <1>12, <1>13, <1>14, <1>15, <1>16 DEF HandlerStep, HandlerBegins

\* Every step keeps the types.
LEMMA TypeNext ==
    ASSUME ListInv, [Next]_vars
    PROVE  TypeOK'
<1>1. CASE UNCHANGED vars
  BY <1>1 DEF ListInv, TypeOK, vars
<1>2. CASE Next
  BY <1>2, RequestTypes, ManagerTypes, PreallocTypes, HandlerTypes DEF Next
<1> QED BY <1>1, <1>2

-----------------------------------------------------------------------------
\* A model whose lists, call and plan a step leaves alone.
LEMMA SameModel ==
    ASSUME TypeOK, NEW k \in Models, ModelOK(k),
           free'[k] = free[k], reserved'[k] = reserved[k], allocated'[k] = allocated[k],
           num_free'[k] = num_free[k], mgr'[k] = mgr[k], pre'.plan[k] = pre.plan[k],
           pending_map_ops'[k] = pending_map_ops[k], Preallocating(k)' <=> Preallocating(k),
           pre'.step = "wait" => pre.plan[k] = <<>>,
           is_sleeping'[k] => is_sleeping[k] \/ pending_map_ops[k] = 0,
           mgr[k].op # "idle" => req'[mgr[k].req] = req[mgr[k].req]
    PROVE  ModelOK(k)'
<1>1. Calling(k)' = Calling(k)
  BY DEF Calling, InCall
<1>2. PagesConserved(k)'
  BY <1>1 DEF ModelOK, PagesConserved, VirtPages
<1>3. FreeCounted(k)'
  BY DEF ModelOK, FreeCounted
<1>4. ServesOwn(k)'
  BY DEF ModelOK, ServesOwn, Idle, NoPage
<1>5. PendingCounted(k)'
  BY DEF ModelOK, PendingCounted
<1> QED BY <1>2, <1>3, <1>4, <1>5 DEF ModelOK

\* The requests that run hold what they held, and their pages stay allocated.
LEMMA SameHolders ==
    ASSUME \A s \in Requests : HoldsOwn(s), RequestsAssumption,
           \A s \in Requests : req'[s] = "running" =>
               req[s] = "running" /\ holds'[s] = holds[s]
               /\ (holds[s] \in allocated[ModelOf[s]] => holds[s] \in allocated'[ModelOf[s]])
    PROVE  \A s \in Requests : HoldsOwn(s)'
BY DEF HoldsOwn

\* One more request runs, and holds a page that was not allocated.
LEMMA NewHolder ==
    ASSUME TypeOK, \A s \in Requests : HoldsOwn(s), NEW r \in Requests, NEW x,
           x \notin allocated[ModelOf[r]],
           allocated' = [allocated EXCEPT ![ModelOf[r]] = @ \union {x}],
           holds' = [holds EXCEPT ![r] = x], req' = [req EXCEPT ![r] = "running"], req[r] # "running"
    PROVE  \A s \in Requests : HoldsOwn(s)'
<1>1. /\ \A s \in Requests : s # r => req'[s] = req[s] /\ holds'[s] = holds[s]
      /\ req'[r] = "running" /\ holds'[r] = x /\ ModelOf[r] \in Models
      /\ \A m \in Models : m # ModelOf[r] => allocated'[m] = allocated[m]
      /\ allocated'[ModelOf[r]] = allocated[ModelOf[r]] \union {x}
      /\ \A s \in Requests : ModelOf[s] \in Models
  BY RequestsAssumption DEF TypeOK
<1> QED BY <1>1 DEF HoldsOwn

\* The lists of a model and what its requests hold, after a step of a request.
LEMMA RequestLists ==
    ASSUME ListInv, NEW r \in Requests, RequestStep(r)
    PROVE  (\A k \in Models : ModelOK(k)') /\ \A s \in Requests : HoldsOwn(s)'
<1> DEFINE m == ModelOf[r]
<1>1. /\ TypeOK /\ m \in Models /\ (\A k \in Models : ModelOK(k)) /\ \A s \in Requests : HoldsOwn(s)
  BY RequestsAssumption DEF ListInv
<1>2. pre' = pre /\ is_sleeping' = is_sleeping
  BY DEF RequestStep, CheckLimit, Admit, AllocWhileSleeping, AllocReserved, AllocFree, AllocExhausted,
         FreePage, Respond, threadVars
<1>3. \A k \in Models : /\ (Preallocating(k)' <=> Preallocating(k)) /\ pre'.plan[k] = pre.plan[k]
                        /\ (is_sleeping'[k] => is_sleeping[k] \/ pending_map_ops[k] = 0)
                        /\ (pre'.step = "wait" => pre.plan[k] = <<>>)
  BY <1>1, <1>2 DEF Preallocating, IsTurnOf, ModelOK, PendingCounted
<1>4. \A s \in Requests : s # r => req'[s] = req[s]
  BY <1>1 DEF TypeOK, RequestStep, CheckLimit, Admit, AllocWhileSleeping, AllocReserved, AllocFree,
              AllocExhausted, FreePage, Respond, limiterVars
<1>5. \A k \in Models \ {m} : mgr[k].op # "idle" => req'[mgr[k].req] = req[mgr[k].req]
  BY <1>1, <1>4 DEF ModelOK, ServesOwn
<1> HIDE DEF m
<1>6. ASSUME NEW k \in Models, k # m
      PROVE  ModelOK(k)'
  <2>1. /\ free'[k] = free[k] /\ reserved'[k] = reserved[k] /\ allocated'[k] = allocated[k]
        /\ num_free'[k] = num_free[k] /\ mgr'[k] = mgr[k] /\ pending_map_ops'[k] = pending_map_ops[k]
    <3>1. /\ free \in [Models -> Seq(Pages)] /\ reserved \in [Models -> Seq(Pages)]
          /\ allocated \in [Models -> SUBSET Pages] /\ num_free \in [Models -> Nat]
          /\ DOMAIN mgr = Models /\ DOMAIN pending_map_ops = Models
      BY <1>1 DEF TypeOK
    <3>2. CASE CheckLimit(r) \/ Admit(r) \/ AllocWhileSleeping(r) \/ AllocExhausted(r) \/ Respond(r)
      BY <3>2 DEF CheckLimit, Admit, AllocWhileSleeping, AllocExhausted, Respond, listVars, threadVars
    <3>3. CASE AllocReserved(r)
      BY ONLY <1>6, <3>1, <3>3 DEF AllocReserved, threadVars, m
    <3>4. CASE AllocFree(r)
      BY ONLY <1>6, <3>1, <3>4 DEF AllocFree, m
    <3>5. CASE FreePage(r)
      BY ONLY <1>6, <3>1, <3>5 DEF FreePage, m
    <3> QED BY <3>2, <3>3, <3>4, <3>5 DEF RequestStep
  <2> QED BY <1>1, <1>3, <1>5, <1>6, <2>1, SameModel
<1>7. CASE CheckLimit(r) \/ Admit(r) \/ AllocWhileSleeping(r) \/ AllocExhausted(r) \/ Respond(r)
  <2>1. /\ UNCHANGED <<free, reserved, allocated, num_free, mgr, pending_map_ops, holds>>
        /\ req' # req => req[r] \in {"new", "checked", "responding"} /\ req'[r] # "running"
    BY <1>1, <1>7 DEF TypeOK, CheckLimit, Admit, AllocWhileSleeping, AllocExhausted, Respond, limiterVars,
                      listVars, threadVars
  <2>2. mgr[m].op # "idle" => req'[mgr[m].req] = req[mgr[m].req]
    <3>1. mgr[m].op # "idle" => mgr[m].req \in Requests /\ req[mgr[m].req] \in {"admitted", "freeing"}
      BY <1>1 DEF ModelOK, ServesOwn
    <3> QED BY <1>4, <2>1, <3>1
  <2>3. ModelOK(m)'
    BY <1>1, <1>3, <2>1, <2>2, SameModel
  <2>4. \A s \in Requests : HoldsOwn(s)'
    BY <1>1, <1>4, <2>1, SameHolders, RequestsAssumption
  <2> QED BY <1>6, <2>3, <2>4
<1>8. CASE AllocReserved(r) \/ AllocFree(r) \/ FreePage(r)
  <2>1. /\ mgr[m] = Idle /\ mgr[m].op = "idle" /\ Calling(m) = {}
    BY <1>8 DEF AllocReserved, AllocFree, FreePage, NeedsPage, Idle, m, Calling, InCall
  <2>2. /\ free[m] \in Seq(Pages) /\ reserved[m] \in Seq(Pages) /\ pre.plan[m] \in Seq(Pages)
        /\ num_free[m] \in Nat /\ pending_map_ops[m] \in 0 .. 2
    BY <1>1, TypesOf
  <2>3. Conserved(free[m], reserved[m], pre.plan[m], allocated[m], {}, VirtPages(m))
    BY <1>1, <2>1 DEF ModelOK, PagesConserved
  <2>4. /\ num_free[m] = Len(free[m]) + Len(reserved[m]) + Len(pre.plan[m])
        /\ Len(free[m]) \in Nat /\ Len(reserved[m]) \in Nat /\ Len(pre.plan[m]) \in Nat
    <3>1. num_free[m] = Len(free[m]) + Len(reserved[m]) + Len(pre.plan[m]) + 0
      BY <1>1, <2>1 DEF ModelOK, FreeCounted
    <3> QED BY <2>2, <3>1
  <2>5. VirtPages(m)' = VirtPages(m)
    BY DEF VirtPages
  <2>6. CASE AllocReserved(r)
    <3> DEFINE x == Head(reserved[m])
    <3>1. reserved[m] # <<>>
      BY <2>6 DEF AllocReserved, m
    <3>2. /\ reserved'[m] = Tail(reserved[m]) /\ num_free'[m] = num_free[m] - 1
          /\ allocated'[m] = allocated[m] \union {x} /\ req'[r] = "running" /\ req[r] = "admitted"
          /\ UNCHANGED <<free, mgr, pending_map_ops>>
      BY <1>1, <2>6 DEF AllocReserved, NeedsPage, TypeOK, threadVars, m
    <3>3. /\ Len(Tail(reserved[m])) = Len(reserved[m]) - 1 /\ x \in Range(reserved[m])
      BY <2>2, <3>1, TakeHead
    <3>4. Calling(m)' = {}
      BY <2>1, <3>2 DEF Calling, InCall
    <3>5. PagesConserved(m)'
      <4>0. PaddingPage \in Pages
        BY <1>1, PagesOfPool
      <4>1. Conserved(free[m], Tail(reserved[m]), pre.plan[m], allocated[m] \union {x}, {}, VirtPages(m))
        BY <2>2, <2>3, <3>1, <4>0, CallConserves
      <4> QED BY <1>2, <2>5, <3>2, <3>4, <4>1 DEF PagesConserved
    <3>6. FreeCounted(m)'
      <4>1. num_free'[m] = Len(free'[m]) + Len(reserved'[m]) + Len(pre'.plan[m])
        <5> DEFINE f == Len(free[m])
                   t == Len(reserved[m])
                   p == Len(pre.plan[m])
        <5>1. /\ f \in Nat /\ t \in Nat /\ p \in Nat /\ num_free'[m] = (f + t + p) - 1
              /\ Len(free'[m]) = f /\ Len(reserved'[m]) = t - 1 /\ Len(pre'.plan[m]) = p
          BY <1>2, <2>4, <3>2, <3>3
        <5> HIDE DEF f, t, p
        <5> QED BY <5>1
      <4>2. mgr'[m].op # "unmap" /\ Len(free'[m]) \in Nat /\ Len(reserved'[m]) \in Nat /\ Len(pre'.plan[m]) \in Nat
        BY <1>2, <2>1, <2>2, <3>2, <3>1
      <4> QED BY <4>1, <4>2 DEF FreeCounted
    <3>7. ServesOwn(m)'
      BY <2>1, <3>2 DEF ServesOwn, Idle, NoPage
    <3>8. PendingCounted(m)'
      BY <1>1, <1>2, <1>3, <3>2 DEF ModelOK, PendingCounted
    <3>9. \A s \in Requests : HoldsOwn(s)'
      <4>1. x \notin allocated[m]
        BY <2>3, <3>3 DEF Conserved
      <4>2. /\ allocated' = [allocated EXCEPT ![m] = @ \union {x}]
            /\ holds' = [holds EXCEPT ![r] = x] /\ req' = [req EXCEPT ![r] = "running"]
        BY <2>6 DEF AllocReserved, m
      <4> QED BY <1>1, <3>2, <4>1, <4>2, NewHolder DEF m
    <3> QED BY <1>6, <3>5, <3>6, <3>7, <3>8, <3>9 DEF ModelOK
  <2>7. CASE AllocFree(r)
    <3> DEFINE x == Head(free[m])
    <3>1. free[m] # <<>>
      BY <2>7 DEF AllocFree, HasFreePage, m
    <3>2. /\ free'[m] = Tail(free[m]) /\ num_free'[m] = num_free[m] - 1
          /\ mgr'[m] = [op |-> "map", page |-> x, req |-> r]
          /\ pending_map_ops'[m] = pending_map_ops[m] + 1 /\ req[r] = "admitted" /\ ~is_sleeping[m]
          /\ UNCHANGED <<reserved, allocated, holds, req>>
      BY <1>1, <2>7 DEF AllocFree, NeedsPage, TypeOK, limiterVars, m
    <3>3. Len(Tail(free[m])) = Len(free[m]) - 1
      BY <2>2, <3>1, TakeHead
    <3>4. Calling(m)' = {x}
      BY <3>2 DEF Calling, InCall
    <3>5. PagesConserved(m)'
      <4>0. PaddingPage \in Pages
        BY <1>1, PagesOfPool
      <4>1. Conserved(Tail(free[m]), reserved[m], pre.plan[m], allocated[m], {x}, VirtPages(m))
        BY <2>2, <2>3, <3>1, <4>0, CallConserves
      <4> QED BY <1>2, <2>5, <3>2, <3>4, <4>1 DEF PagesConserved
    <3>6. FreeCounted(m)'
      <4>1. num_free'[m] = Len(free'[m]) + Len(reserved'[m]) + Len(pre'.plan[m])
        <5> DEFINE f == Len(free[m])
                   t == Len(reserved[m])
                   p == Len(pre.plan[m])
        <5>1. /\ f \in Nat /\ t \in Nat /\ p \in Nat /\ num_free'[m] = (f + t + p) - 1
              /\ Len(free'[m]) = f - 1 /\ Len(reserved'[m]) = t /\ Len(pre'.plan[m]) = p
          BY <1>2, <2>4, <3>2, <3>3
        <5> HIDE DEF f, t, p
        <5> QED BY <5>1
      <4>2. mgr'[m].op # "unmap" /\ Len(free'[m]) \in Nat /\ Len(reserved'[m]) \in Nat /\ Len(pre'.plan[m]) \in Nat
        BY <1>2, <2>1, <2>2, <3>2, <3>1
      <4> QED BY <4>1, <4>2 DEF FreeCounted
    <3>7. ServesOwn(m)'
      BY <3>2 DEF ServesOwn, m
    <3>8. PendingCounted(m)'
      <4>1. pending_map_ops[m] = 0 + (IF Preallocating(m) THEN 1 ELSE 0)
        BY <1>1, <2>1 DEF ModelOK, PendingCounted
      <4> QED BY <1>1, <1>2, <1>3, <3>2, <4>1 DEF PendingCounted
    <3>9. \A s \in Requests : HoldsOwn(s)'
      BY <1>1, <3>2, SameHolders, RequestsAssumption
    <3> QED BY <1>6, <3>5, <3>6, <3>7, <3>8, <3>9 DEF ModelOK
  <2>8. CASE FreePage(r)
    <3> DEFINE x == holds[r]
               reserve == ~is_sleeping[m] /\ Len(reserved[m]) # MaxReserved
    <3>1. x \in allocated[m] /\ x \in Pages
      BY <1>1, <2>8 DEF FreePage, HoldsOwn, TypeOK, m
    <3>2. /\ allocated'[m] = allocated[m] \ {x} /\ num_free'[m] = num_free[m] + 1
          /\ reserved'[m] = IF reserve THEN Append(reserved[m], x) ELSE reserved[m]
          /\ mgr'[m] = IF reserve THEN Idle ELSE [op |-> "unmap", page |-> x, req |-> r]
          /\ req'[r] = IF reserve THEN "responding" ELSE "freeing"
          /\ UNCHANGED <<free, pending_map_ops>> /\ req[r] = "running"
      BY <1>1, <2>1, <2>8 DEF FreePage, TypeOK, m
    <3> HIDE DEF reserve
    <3>3. Len(Append(reserved[m], x)) = Len(reserved[m]) + 1
      BY <2>2, <3>1, AppendQueue
    <3>4. Calling(m)' = IF reserve THEN {} ELSE {x}
      BY <3>2 DEF Calling, InCall, Idle
    <3>5. PagesConserved(m)'
      <4>1. /\ Conserved(free[m], Append(reserved[m], x), pre.plan[m], allocated[m] \ {x}, {}, VirtPages(m))
            /\ Conserved(free[m], reserved[m], pre.plan[m], allocated[m] \ {x}, {x}, VirtPages(m))
        BY <2>2, <2>3, <3>1, CallConserves
      <4> QED BY <1>2, <2>5, <3>2, <3>4, <4>1 DEF PagesConserved
    <3>6. FreeCounted(m)'
      <4>1. CASE reserve
        <5> DEFINE f == Len(free[m])
                   t == Len(reserved[m])
                   p == Len(pre.plan[m])
        <5>1. /\ f \in Nat /\ t \in Nat /\ p \in Nat /\ num_free'[m] = (f + t + p) + 1
              /\ Len(free'[m]) = f /\ Len(reserved'[m]) = t + 1 /\ Len(pre'.plan[m]) = p
              /\ mgr'[m].op = "idle"
          BY <1>2, <2>4, <3>2, <3>3, <4>1 DEF Idle
        <5> HIDE DEF f, t, p
        <5> QED BY <5>1 DEF FreeCounted
      <4>2. CASE ~reserve
        <5>1. num_free'[m] = Len(free'[m]) + Len(reserved'[m]) + Len(pre'.plan[m]) + 1 /\ mgr'[m].op = "unmap"
          BY <1>2, <2>4, <3>2, <4>2
        <5> QED BY <5>1 DEF FreeCounted
      <4> QED BY <4>1, <4>2
    <3>7. ServesOwn(m)'
      BY <3>2 DEF ServesOwn, Idle, NoPage, m
    <3>8. PendingCounted(m)'
      <4>1. mgr[m].op # "map" /\ mgr'[m].op # "map"
        BY <2>1, <3>2 DEF Idle
      <4> QED BY <1>1, <1>2, <1>3, <3>2, <4>1 DEF ModelOK, PendingCounted
    <3>9. \A s \in Requests : HoldsOwn(s)'
      <4>1. /\ \A s \in Requests : s # r => holds'[s] = holds[s]
            /\ \A k \in Models : k # m => allocated'[k] = allocated[k]
            /\ req'[r] # "running" /\ \A s \in Requests : ModelOf[s] \in Models
        BY <1>1, <2>8, <3>2, RequestsAssumption DEF FreePage, TypeOK, m
      <4>2. \A s \in Requests : s # r /\ req[s] = "running" /\ ModelOf[s] = m => holds[s] # x
        BY <1>1, <3>2 DEF HoldsOwn, m
      <4> QED BY <1>1, <1>4, <3>2, <4>1, <4>2, SameHolders, RequestsAssumption
    <3> QED BY <1>6, <3>5, <3>6, <3>7, <3>8, <3>9 DEF ModelOK
  <2> QED BY <1>8, <2>6, <2>7, <2>8
<1> QED BY <1>7, <1>8 DEF RequestStep

\* The lists after a step of a block manager.
LEMMA ManagerLists ==
    ASSUME ListInv, NEW m \in Models, ManagerStep(m)
    PROVE  (\A k \in Models : ModelOK(k)') /\ \A s \in Requests : HoldsOwn(s)'
<1> DEFINE x == mgr[m].page
           r == mgr[m].req
<1>1. TypeOK /\ (\A k \in Models : ModelOK(k)) /\ \A s \in Requests : HoldsOwn(s)
  BY DEF ListInv
<1>2. /\ mgr[m].op \in {"map", "track", "unmap"} /\ r \in Requests /\ ModelOf[r] = m
      /\ req[r] = IF mgr[m].op = "unmap" THEN "freeing" ELSE "admitted"
  BY <1>1 DEF ManagerStep, AllocMapped, AllocMapFailed, AllocTracked, FreeUnmapped, FreeUnmapFailed,
              ModelOK, ServesOwn
<1>3. /\ Calling(m) = {x} /\ x \in Pages
      /\ Conserved(free[m], reserved[m], pre.plan[m], allocated[m], {x}, VirtPages(m))
  <2>1. Calling(m) = {x}
    BY <1>2 DEF Calling, InCall
  <2>2. Conserved(free[m], reserved[m], pre.plan[m], allocated[m], {x}, VirtPages(m))
    BY <1>1, <2>1 DEF ModelOK, PagesConserved
  <2>3. x \in VirtPages(m)
    BY <2>2 DEF Conserved
  <2> QED BY <2>1, <2>2, <2>3, PagesOfPool
<1>4. /\ free[m] \in Seq(Pages) /\ reserved[m] \in Seq(Pages) /\ pre.plan[m] \in Seq(Pages)
      /\ num_free[m] \in Nat /\ pending_map_ops[m] \in 0 .. 2
  BY <1>1, TypesOf
<1>5. /\ num_free[m] = Len(free[m]) + Len(reserved[m]) + Len(pre.plan[m]) + (IF mgr[m].op = "unmap" THEN 1 ELSE 0)
      /\ Len(free[m]) \in Nat /\ Len(reserved[m]) \in Nat /\ Len(pre.plan[m]) \in Nat
  <2>1. FreeCounted(m)
    BY <1>1 DEF ModelOK
  <2>2. Len(free[m]) \in Nat /\ Len(reserved[m]) \in Nat /\ Len(pre.plan[m]) \in Nat
    BY <1>4
  <2> QED BY <2>1, <2>2 DEF FreeCounted
<1>6. pending_map_ops[m] = (IF mgr[m].op = "map" THEN 1 ELSE 0) + (IF Preallocating(m) THEN 1 ELSE 0)
  BY <1>1 DEF ModelOK, PendingCounted
<1>7. pre' = pre /\ is_sleeping' = is_sleeping
  BY DEF ManagerStep, AllocMapped, AllocMapFailed, AllocTracked, FreeUnmapped, FreeUnmapFailed
<1>8. \A k \in Models : /\ (Preallocating(k)' <=> Preallocating(k)) /\ pre'.plan[k] = pre.plan[k]
                        /\ (is_sleeping'[k] => is_sleeping[k] \/ pending_map_ops[k] = 0)
                        /\ (pre'.step = "wait" => pre.plan[k] = <<>>)
                        /\ VirtPages(k)' = VirtPages(k)
  BY <1>1, <1>7 DEF Preallocating, IsTurnOf, ModelOK, PendingCounted, VirtPages
<1>9. \A s \in Requests : s # r => req'[s] = req[s]
  <2>1. req' = req \/ \E v : req' = [req EXCEPT ![r] = v]
    BY DEF ManagerStep, AllocMapped, AllocMapFailed, AllocTracked, FreeUnmapped, FreeUnmapFailed, limiterVars
  <2>2. req \in [Requests -> ReqStates]
    BY <1>1 DEF TypeOK
  <2> HIDE DEF r
  <2> QED BY <2>1, <2>2
<1>10. ASSUME NEW k \in Models, k # m
       PROVE  ModelOK(k)'
  <2>1. /\ free'[k] = free[k] /\ reserved'[k] = reserved[k] /\ allocated'[k] = allocated[k]
        /\ num_free'[k] = num_free[k] /\ mgr'[k] = mgr[k] /\ pending_map_ops'[k] = pending_map_ops[k]
    BY <1>1, <1>10 DEF TypeOK, ManagerStep, AllocMapped, AllocMapFailed, AllocTracked, FreeUnmapped,
                       FreeUnmapFailed, listVars
  <2>2. mgr[k].op # "idle" => req'[mgr[k].req] = req[mgr[k].req]
    BY <1>1, <1>2, <1>9, <1>10 DEF ModelOK, ServesOwn
  <2> QED BY <1>1, <1>8, <1>10, <2>1, <2>2, SameModel
<1>11. mgr'[m] = Idle => Calling(m)' = {} /\ ServesOwn(m)' /\ mgr'[m].op = "idle"
  BY DEF Calling, InCall, Idle, ServesOwn, NoPage
<1>12. CASE AllocMapped(m)
  <2>1. /\ mgr[m].op = "map" /\ pending_map_ops'[m] = pending_map_ops[m] - 1
        /\ UNCHANGED <<free, reserved, allocated, num_free, req, holds>>
    BY <1>1, <1>12 DEF AllocMapped, TypeOK, listVars, limiterVars
  <2>2. mgr'[m] = [op |-> "track", page |-> x, req |-> r]
    <3>1. mgr[m] = [op |-> mgr[m].op, page |-> x, req |-> r]
      BY <1>1, TypesOf
    <3>2. [mgr[m] EXCEPT !.op = "track"] = [op |-> "track", page |-> x, req |-> r]
      BY <3>1
    <3>3. mgr'[m] = [mgr[m] EXCEPT !.op = "track"]
      BY <1>1, <1>12 DEF AllocMapped, TypeOK
    <3> QED BY <3>2, <3>3
  <2>3. mgr'[m].op = "track" /\ mgr'[m].page = x /\ mgr'[m].req = r
    BY <2>2
  <2>4. Calling(m)' = {x}
    BY <2>3 DEF Calling, InCall
  <2>5. PagesConserved(m)'
    BY <1>3, <1>8, <2>1, <2>4 DEF PagesConserved
  <2>6. FreeCounted(m)'
    BY <1>5, <1>7, <2>1, <2>3 DEF FreeCounted
  <2>7. ServesOwn(m)'
    BY <1>2, <2>1, <2>3 DEF ServesOwn
  <2>8. PendingCounted(m)'
    <3>1. pending_map_ops'[m] = (IF Preallocating(m) THEN 1 ELSE 0)
      BY <1>6, <2>1
    <3>2. ~is_sleeping[m] /\ (pre.step = "wait" => pre.plan[m] = <<>>)
      BY <1>1, <1>6, <2>1 DEF ModelOK, PendingCounted
    <3> QED BY <1>7, <1>8, <2>3, <3>1, <3>2 DEF PendingCounted
  <2>9. \A s \in Requests : HoldsOwn(s)'
    BY <1>1, <2>1, SameHolders, RequestsAssumption
  <2> QED BY <1>10, <2>5, <2>6, <2>7, <2>8, <2>9 DEF ModelOK
<1>13. CASE AllocMapFailed(m)
  <2>1. /\ mgr[m].op = "map" /\ pending_map_ops'[m] = pending_map_ops[m] - 1 /\ mgr'[m] = Idle
        /\ free'[m] = <<x>> \o free[m] /\ num_free'[m] = num_free[m] + 1
        /\ UNCHANGED <<reserved, allocated, req, holds>>
    BY <1>1, <1>13 DEF AllocMapFailed, TypeOK, limiterVars
  <2>2. Len(<<x>> \o free[m]) = Len(free[m]) + 1
    BY <1>3, <1>4
  <2>3. PagesConserved(m)'
    <3>1. Conserved(<<x>> \o free[m], reserved[m], pre.plan[m], allocated[m], {}, VirtPages(m))
      BY <1>3, <1>4, CallConserves
    <3> QED BY <1>8, <1>11, <2>1, <3>1 DEF PagesConserved
  <2>4. FreeCounted(m)'
    <3> DEFINE f == Len(free[m])
               t == Len(reserved[m])
               p == Len(pre.plan[m])
    <3>1. /\ f \in Nat /\ t \in Nat /\ p \in Nat /\ num_free'[m] = (f + t + p) + 1
          /\ Len(free'[m]) = f + 1 /\ Len(reserved'[m]) = t /\ Len(pre'.plan[m]) = p /\ mgr'[m].op = "idle"
      <4>1. num_free[m] = f + t + p + 0
        BY <1>5, <2>1
      <4>2. f \in Nat /\ t \in Nat /\ p \in Nat
        BY <1>5
      <4>3. /\ num_free'[m] = num_free[m] + 1
            /\ Len(free'[m]) = f + 1 /\ Len(reserved'[m]) = t /\ Len(pre'.plan[m]) = p /\ mgr'[m].op = "idle"
        BY <1>7, <1>11, <2>1, <2>2
      <4> HIDE DEF f, t, p
      <4> QED BY <4>1, <4>2, <4>3
    <3> HIDE DEF f, t, p
    <3> QED BY <3>1 DEF FreeCounted
  <2>5. PendingCounted(m)'
    <3>1. pending_map_ops'[m] = (IF Preallocating(m) THEN 1 ELSE 0)
      BY <1>6, <2>1
    <3>2. ~is_sleeping[m] /\ (pre.step = "wait" => pre.plan[m] = <<>>)
      BY <1>1, <1>6, <2>1 DEF ModelOK, PendingCounted
    <3> QED BY <1>7, <1>8, <1>11, <2>1, <3>1, <3>2 DEF PendingCounted
  <2>6. \A s \in Requests : HoldsOwn(s)'
    BY <1>1, <2>1, SameHolders, RequestsAssumption
  <2> QED BY <1>10, <1>11, <2>1, <2>3, <2>4, <2>5, <2>6 DEF ModelOK
<1>14. ASSUME mgr'[m].op = "idle", mgr[m].op # "map", UNCHANGED pending_map_ops
       PROVE  PendingCounted(m)'
  BY <1>1, <1>7, <1>8, <1>14 DEF ModelOK, PendingCounted
<1>15. CASE AllocTracked(m)
  <2>1. /\ mgr[m].op = "track" /\ mgr'[m] = Idle /\ allocated'[m] = allocated[m] \union {x}
        /\ UNCHANGED <<free, reserved, num_free, pending_map_ops>>
    BY <1>1, <1>15 DEF AllocTracked, TypeOK
  <2>2. PagesConserved(m)'
    <3>1. Conserved(free[m], reserved[m], pre.plan[m], allocated[m] \union {x}, {}, VirtPages(m))
      BY <1>3, <1>4, CallConserves
    <3> QED BY <1>8, <1>11, <2>1, <3>1 DEF PagesConserved
  <2>3. FreeCounted(m)'
    BY <1>5, <1>7, <1>11, <2>1 DEF FreeCounted
  <2>4. \A s \in Requests : HoldsOwn(s)'
    <3>1. x \notin allocated[m] /\ req[r] # "running"
      BY <1>2, <1>3, <2>1 DEF Conserved
    <3>2. /\ allocated' = [allocated EXCEPT ![ModelOf[r]] = @ \union {x}]
          /\ holds' = [holds EXCEPT ![r] = x] /\ req' = [req EXCEPT ![r] = "running"]
      BY <1>2, <1>15 DEF AllocTracked
    <3> HIDE DEF x, r
    <3> QED BY <1>1, <1>2, <3>1, <3>2, NewHolder
  <2> QED BY <1>10, <1>11, <1>14, <2>1, <2>2, <2>3, <2>4 DEF ModelOK
<1>16. CASE FreeUnmapped(m) \/ FreeUnmapFailed(m)
  <2>1. /\ mgr[m].op = "unmap" /\ mgr'[m] = Idle /\ req'[r] = "responding"
        /\ \/ free'[m] = Append(free[m], x) /\ UNCHANGED reserved
           \/ reserved'[m] = Append(reserved[m], x) /\ UNCHANGED free
        /\ UNCHANGED <<allocated, num_free, pending_map_ops, holds>>
    BY <1>1, <1>2, <1>16 DEF FreeUnmapped, FreeUnmapFailed, TypeOK
  <2>2. Len(Append(free[m], x)) = Len(free[m]) + 1 /\ Len(Append(reserved[m], x)) = Len(reserved[m]) + 1
    BY <1>3, <1>4, AppendQueue
  <2>3. PagesConserved(m)'
    <3>1. /\ Conserved(Append(free[m], x), reserved[m], pre.plan[m], allocated[m], {}, VirtPages(m))
          /\ Conserved(free[m], Append(reserved[m], x), pre.plan[m], allocated[m], {}, VirtPages(m))
      BY <1>3, <1>4, CallConserves
    <3> QED BY <1>8, <1>11, <2>1, <3>1 DEF PagesConserved
  <2>4. FreeCounted(m)'
    <3> DEFINE f == Len(free[m])
               t == Len(reserved[m])
               p == Len(pre.plan[m])
    <3>1. f \in Nat /\ t \in Nat /\ p \in Nat /\ num_free'[m] = f + t + p + 1
      <4>1. f \in Nat /\ t \in Nat /\ p \in Nat
        BY <1>5
      <4>2. num_free[m] = f + t + p + 1 /\ num_free'[m] = num_free[m]
        BY <1>5, <2>1
      <4> QED BY <4>1, <4>2
    <3>2. Len(pre'.plan[m]) = p /\ mgr'[m].op = "idle"
      BY <1>7, <1>11, <2>1
    <3>3. (Len(free'[m]) = f + 1 /\ Len(reserved'[m]) = t) \/ (Len(free'[m]) = f /\ Len(reserved'[m]) = t + 1)
      <4>1. CASE free'[m] = Append(free[m], x) /\ UNCHANGED reserved
        <5>1. Len(free'[m]) = f + 1
          BY <2>2, <4>1
        <5>2. Len(reserved'[m]) = t
          BY <4>1
        <5> QED BY <5>1, <5>2
      <4>2. CASE reserved'[m] = Append(reserved[m], x) /\ UNCHANGED free
        <5>1. Len(reserved'[m]) = t + 1
          BY <2>2, <4>2
        <5>2. Len(free'[m]) = f
          BY <4>2
        <5> QED BY <5>1, <5>2
      <4> QED BY <2>1, <4>1, <4>2
    <3> HIDE DEF f, t, p
    <3>4. num_free'[m] = Len(free'[m]) + Len(reserved'[m]) + Len(pre'.plan[m]) + 0
      <4>1. CASE Len(free'[m]) = f + 1 /\ Len(reserved'[m]) = t
        BY <3>1, <3>2, <4>1
      <4>2. CASE Len(free'[m]) = f /\ Len(reserved'[m]) = t + 1
        BY <3>1, <3>2, <4>2
      <4> QED BY <3>3, <4>1, <4>2
    <3> QED BY <3>2, <3>4 DEF FreeCounted
  <2>5. \A s \in Requests : HoldsOwn(s)'
    BY <1>1, <1>9, <2>1, SameHolders, RequestsAssumption
  <2> QED BY <1>10, <1>11, <1>14, <2>1, <2>3, <2>4, <2>5 DEF ModelOK
<1> QED BY <1>12, <1>13, <1>15, <1>16 DEF ManagerStep

\* The lists after a step of the preallocation thread.
LEMMA PreallocLists ==
    ASSUME ListInv, PreallocStep
    PROVE  (\A k \in Models : ModelOK(k)') /\ \A s \in Requests : HoldsOwn(s)'
<1>1. TypeOK /\ (\A k \in Models : ModelOK(k)) /\ \A s \in Requests : HoldsOwn(s)
  BY DEF ListInv
<1>2. UNCHANGED <<req, holds, is_sleeping, allocated, num_free, mgr>>
  BY DEF PreallocStep, PreallocScan, PreallocCheck, PreallocMapped, PreallocMapFailed, limiterVars
<1>3. \A s \in Requests : HoldsOwn(s)'
  BY <1>1, <1>2, SameHolders, RequestsAssumption
<1>4. \A k \in Models : ServesOwn(k)' /\ Calling(k)' = Calling(k) /\ VirtPages(k)' = VirtPages(k)
  BY <1>1, <1>2 DEF ModelOK, ServesOwn, Calling, InCall, VirtPages, Idle, NoPage
<1>5. CASE PreallocScan
  <2>1. PICK n \in Plans :
          /\ free' = [m \in Models |-> SubSeq(free[m], n[m] + 1, Len(free[m]))]
          /\ pre' = [step |-> IF \A m \in Models : n[m] = 0 THEN "wait" ELSE "check",
                     plan |-> [m \in Models |-> SubSeq(free[m], 1, n[m])]]
    BY <1>5 DEF PreallocScan
  <2>2. pre.step = "wait" /\ UNCHANGED <<reserved, pending_map_ops>>
    BY <1>5 DEF PreallocScan
  <2>3. ASSUME NEW k \in Models PROVE ModelOK(k)'
    <3> DEFINE f == free[k]
               i == n[k]
    <3>1. f \in Seq(Pages) /\ reserved[k] \in Seq(Pages) /\ pre.plan[k] \in Seq(Pages) /\ num_free[k] \in Nat
      BY <1>1, TypesOf
    <3>2. i \in 0 .. Len(f)
      BY <3>1, ReserveAssumption DEF Plans
    <3>3. free'[k] = SubSeq(f, i + 1, Len(f)) /\ pre'.plan[k] = SubSeq(f, 1, i)
      BY <2>1
    <3>4. pre'.step \in {"wait", "check"} /\ (pre'.step = "wait" => i = 0)
      BY <2>1
    <3>5. pre.plan[k] = <<>> /\ ~Preallocating(k) /\ ~Preallocating(k)'
      BY <1>1, <2>2, <3>4 DEF ModelOK, PendingCounted, Preallocating
    <3>6. Len(SubSeq(f, i + 1, Len(f))) = Len(f) - i /\ Len(SubSeq(f, 1, i)) = i
      BY <3>1, <3>2, SplitQueue
    <3>7. PagesConserved(k)'
      <4>1. Conserved(f, reserved[k], pre.plan[k], allocated[k], Calling(k), VirtPages(k))
        BY <1>1 DEF ModelOK, PagesConserved
      <4>2. Conserved(SubSeq(f, i + 1, Len(f)), reserved[k], SubSeq(f, 1, i), allocated[k], Calling(k), VirtPages(k))
        BY <3>1, <3>2, <3>5, <4>1, PlanConserves
      <4> QED BY <1>2, <1>4, <2>2, <3>3, <4>2 DEF PagesConserved
    <3>8. FreeCounted(k)'
      <4> DEFINE l == Len(f)
                 t == Len(reserved[k])
                 c == IF mgr[k].op = "unmap" THEN 1 ELSE 0
      <4>1. l \in Nat /\ t \in Nat /\ c \in Nat /\ i \in 0 .. l
        BY <3>1, <3>2
      <4>2. num_free[k] = l + t + 0 + c
        BY <1>1, <3>5 DEF ModelOK, FreeCounted
      <4>3. /\ num_free'[k] = num_free[k] /\ Len(reserved'[k]) = t
            /\ (IF mgr'[k].op = "unmap" THEN 1 ELSE 0) = c
        BY <1>2, <2>2
      <4>4. Len(free'[k]) = l - i /\ Len(pre'.plan[k]) = i
        BY <3>3, <3>6
      <4> HIDE DEF l, t, c, i
      <4>5. num_free'[k] = Len(free'[k]) + Len(reserved'[k]) + Len(pre'.plan[k]) + c
        BY <4>1, <4>2, <4>3, <4>4
      <4> QED BY <4>3, <4>5 DEF FreeCounted
    <3>9. PendingCounted(k)'
      <4>1. pre'.step = "wait" => pre'.plan[k] = <<>>
        <5>1. ASSUME pre'.step = "wait" PROVE Len(pre'.plan[k]) = 0 /\ pre'.plan[k] \in Seq(Pages)
          BY <3>1, <3>2, <3>3, <3>4, <3>6, <5>1, SplitQueue
        <5> QED BY <5>1
      <4>2. pending_map_ops[k] = (IF mgr[k].op = "map" THEN 1 ELSE 0) + 0 /\ (is_sleeping[k] => pending_map_ops[k] = 0)
        BY <1>1, <3>5 DEF ModelOK, PendingCounted
      <4> QED BY <1>2, <2>2, <3>5, <4>1, <4>2 DEF PendingCounted
    <3> QED BY <1>4, <3>7, <3>8, <3>9 DEF ModelOK
  <2> QED BY <1>3, <2>3
<1>6. ASSUME NEW m \in Models, PreallocCheck(m) \/ PreallocMapped(m) \/ PreallocMapFailed(m)
      PROVE  \A k \in Models : ModelOK(k)'
  <2> DEFINE p == pre.plan[m]
  <2>1. /\ free[m] \in Seq(Pages) /\ reserved[m] \in Seq(Pages) /\ p \in Seq(Pages)
        /\ pre = [step |-> pre.step, plan |-> pre.plan] /\ pre.plan \in [Models -> Seq(Pages)]
        /\ pending_map_ops[m] \in 0 .. 2 /\ num_free[m] \in Nat
        /\ <<>> \in Seq(Pages) /\ Len(<<>>) = 0
    <3>1. <<>> \in Seq(Pages) /\ Len(<<>>) = 0
      OBVIOUS
    <3> QED BY <1>1, <3>1, TypesOf
  <2>2. IsTurnOf(m) /\ pre.step \in {"check", "map"} /\ \A k \in Models \ {m} : ~IsTurnOf(k)
    BY <1>6, TurnUnique DEF PreallocCheck, PreallocMapped, PreallocMapFailed
  <2>3. /\ Conserved(free[m], reserved[m], p, allocated[m], Calling(m), VirtPages(m))
    BY <1>1 DEF ModelOK, PagesConserved
  <2>4. /\ Conserved(p \o free[m], reserved[m], <<>>, allocated[m], Calling(m), VirtPages(m))
        /\ Conserved(free[m], reserved[m] \o p, <<>>, allocated[m], Calling(m), VirtPages(m))
    BY <2>1, <2>3, PlanConserves
  <2>5. Len(p \o free[m]) = Len(p) + Len(free[m]) /\ Len(reserved[m] \o p) = Len(reserved[m]) + Len(p)
    BY <2>1, ConcatQueue
  <2>6. /\ pending_map_ops[m] = (IF mgr[m].op = "map" THEN 1 ELSE 0) + (IF Preallocating(m) THEN 1 ELSE 0)
        /\ is_sleeping[m] => pending_map_ops[m] = 0
    BY <1>1 DEF ModelOK, PendingCounted
  <2>7. CASE PreallocCheck(m) /\ ~is_sleeping[m]
    <3>1. /\ pre' = [pre EXCEPT !.step = "map"] /\ UNCHANGED <<free, reserved>> /\ pre.step = "check"
          /\ pending_map_ops' = [pending_map_ops EXCEPT ![m] = @ + 1]
      BY <2>7 DEF PreallocCheck
    <3>2. pre'.step = "map" /\ pre'.plan = pre.plan
      BY <2>1, <3>1
    <3>3. \A k \in Models : ~Preallocating(k) /\ (Preallocating(k)' <=> k = m)
      BY <2>2, <3>1, <3>2 DEF Preallocating, IsTurnOf
    <3>4. ASSUME NEW k \in Models PROVE PendingCounted(k)'
      <4>1. /\ pending_map_ops[k] = (IF mgr[k].op = "map" THEN 1 ELSE 0) + 0
            /\ is_sleeping[k] => pending_map_ops[k] = 0
        BY <1>1, <3>3 DEF ModelOK, PendingCounted
      <4>2. pending_map_ops'[k] = IF k = m THEN pending_map_ops[k] + 1 ELSE pending_map_ops[k]
        BY <1>1, <3>1 DEF TypeOK
      <4>3. pending_map_ops'[k] = (IF mgr'[k].op = "map" THEN 1 ELSE 0) + (IF Preallocating(k)' THEN 1 ELSE 0)
        BY <1>2, <3>3, <4>1, <4>2
      <4>4. is_sleeping'[k] => pending_map_ops'[k] = 0
        BY <1>2, <2>7, <4>1, <4>2
      <4> QED BY <3>2, <4>3, <4>4 DEF PendingCounted
    <3>5. \A k \in Models : PagesConserved(k)' /\ FreeCounted(k)'
      BY <1>1, <1>2, <1>4, <3>1, <3>2 DEF ModelOK, PagesConserved, FreeCounted
    <3> QED BY <1>4, <3>4, <3>5 DEF ModelOK
  <2>8. CASE ~(PreallocCheck(m) /\ ~is_sleeping[m])
    <3>1. /\ pre'.step \in {"wait", "check"} /\ pre'.plan = [pre.plan EXCEPT ![m] = <<>>]
          /\ pre'.step = "wait" => \A k \in Models \ {m} : pre.plan[k] = <<>>
      <4>1. PreDone(m)
        BY <1>6, <2>8 DEF PreallocCheck, PreallocMapped, PreallocMapFailed
      <4> QED BY <4>1 DEF PreDone
    <3>2. /\ pre'.plan[m] = <<>> /\ \A k \in Models \ {m} : pre'.plan[k] = pre.plan[k]
      BY <2>1, <3>1
    <3>3. \A k \in Models : ~Preallocating(k)' /\ (Preallocating(k) => k = m)
      BY <2>2, <3>1 DEF Preallocating
    <3>4. \/ free' = [free EXCEPT ![m] = p \o @] /\ UNCHANGED reserved
          \/ reserved' = [reserved EXCEPT ![m] = @ \o p] /\ UNCHANGED free
      <4>1. CASE PreallocCheck(m)
        BY <2>8, <4>1 DEF PreallocCheck, GiveBackPlan
      <4>2. CASE PreallocMapped(m)
        <5>1. ~is_sleeping[m]
          <6>1. Preallocating(m)
            BY <4>2 DEF PreallocMapped, Preallocating
          <6>2. pending_map_ops[m] # 0
            BY <2>6, <6>1
          <6> QED BY <2>6, <6>2
        <5> QED BY <4>2, <5>1 DEF PreallocMapped
      <4>3. CASE PreallocMapFailed(m)
        BY <4>3 DEF PreallocMapFailed, GiveBackPlan
      <4> QED BY <1>6, <4>1, <4>2, <4>3
    <3>5. pending_map_ops'[m] = (IF mgr[m].op = "map" THEN 1 ELSE 0) /\ (is_sleeping[m] => pending_map_ops'[m] = 0)
      <4>1. CASE PreallocCheck(m)
        <5>1. pending_map_ops' = pending_map_ops /\ ~Preallocating(m)
          BY <2>8, <4>1 DEF PreallocCheck, Preallocating
        <5> QED BY <2>6, <5>1
      <4>2. CASE PreallocMapped(m) \/ PreallocMapFailed(m)
        <5>1. pending_map_ops'[m] = pending_map_ops[m] - 1 /\ Preallocating(m)
          BY <1>1, <4>2 DEF PreallocMapped, PreallocMapFailed, Preallocating, TypeOK
        <5>2. ~is_sleeping[m]
          BY <2>6, <5>1
        <5> QED BY <2>6, <5>1, <5>2
      <4> QED BY <1>6, <4>1, <4>2
    <3>6. \A k \in Models \ {m} : pending_map_ops'[k] = pending_map_ops[k]
      BY <1>1, <1>6, <2>8 DEF PreallocCheck, PreallocMapped, PreallocMapFailed, TypeOK
    <3>7. ASSUME NEW k \in Models \ {m} PROVE ModelOK(k)'
      <4>1. free'[k] = free[k] /\ reserved'[k] = reserved[k]
        BY <1>1, <3>4 DEF TypeOK
      <4> QED BY <1>1, <1>2, <3>1, <3>2, <3>3, <3>6, <4>1, SameModel
    <3>8. PagesConserved(m)'
      <4>1. \/ free'[m] = p \o free[m] /\ reserved'[m] = reserved[m]
            \/ reserved'[m] = reserved[m] \o p /\ free'[m] = free[m]
        BY <1>1, <3>4 DEF TypeOK
      <4> QED BY <1>2, <1>4, <2>4, <3>2, <4>1 DEF PagesConserved
    <3>9. FreeCounted(m)'
      <4> DEFINE f == Len(free[m])
                 t == Len(reserved[m])
                 l == Len(p)
                 c == IF mgr[m].op = "unmap" THEN 1 ELSE 0
      <4>1. f \in Nat /\ t \in Nat /\ l \in Nat /\ c \in Nat
        BY <2>1
      <4>2. num_free[m] = f + t + l + c
        BY <1>1 DEF ModelOK, FreeCounted
      <4>3. (Len(free'[m]) = l + f /\ Len(reserved'[m]) = t) \/ (Len(free'[m]) = f /\ Len(reserved'[m]) = t + l)
        <5>1. CASE free' = [free EXCEPT ![m] = p \o @] /\ UNCHANGED reserved
          <6>1. free'[m] = p \o free[m]
            BY <1>1, <5>1 DEF TypeOK
          <6>2. Len(free'[m]) = l + f
            BY <2>5, <6>1
          <6>3. Len(reserved'[m]) = t
            BY <5>1
          <6> QED BY <6>2, <6>3
        <5>2. CASE reserved' = [reserved EXCEPT ![m] = @ \o p] /\ UNCHANGED free
          <6>1. reserved'[m] = reserved[m] \o p
            BY <1>1, <5>2 DEF TypeOK
          <6> QED BY <2>5, <5>2, <6>1
        <5> QED BY <3>4, <5>1, <5>2
      <4>4. /\ num_free'[m] = num_free[m] /\ Len(pre'.plan[m]) = 0 /\ (IF mgr'[m].op = "unmap" THEN 1 ELSE 0) = c
        BY <1>2, <2>1, <3>2
      <4> HIDE DEF f, t, l, c
      <4>5. num_free'[m] = Len(free'[m]) + Len(reserved'[m]) + Len(pre'.plan[m]) + c
        <5>1. CASE Len(free'[m]) = l + f /\ Len(reserved'[m]) = t
          BY <4>1, <4>2, <4>4, <5>1
        <5>2. CASE Len(free'[m]) = f /\ Len(reserved'[m]) = t + l
          BY <4>1, <4>2, <4>4, <5>2
        <5> QED BY <4>3, <5>1, <5>2
      <4> QED BY <4>4, <4>5 DEF FreeCounted
    <3>10. PendingCounted(m)'
      BY <1>2, <3>2, <3>3, <3>5 DEF PendingCounted
    <3> QED BY <1>4, <3>7, <3>8, <3>9, <3>10 DEF ModelOK
  <2> QED BY <2>7, <2>8
<1> QED BY <1>3, <1>5, <1>6 DEF PreallocStep

\* The handlers leave the lists alone; a model falls asleep when no map is
\* pending.
LEMMA HandlerLists ==
    ASSUME ListInv, NEW a \in Handlers, HandlerStep(a) \/ HandlerBegins(a)
    PROVE  (\A k \in Models : ModelOK(k)') /\ \A s \in Requests : HoldsOwn(s)'
<1>1. TypeOK /\ (\A k \in Models : ModelOK(k)) /\ \A s \in Requests : HoldsOwn(s)
  BY DEF ListInv
<1>2. UNCHANGED <<req, holds, free, reserved, allocated, num_free, mgr, pre, pending_map_ops>>
  BY DEF HandlerStep, HandlerBegins, SleepBegin, SleepCas, SleepLock, SleepWeights, SleepUnmap, SleepWorkers,
         WakeupBegin, WakeupReserve, WakeupRefused, WakeupMap, WakeupWeights, WakeupWorkers, limiterVars, listVars
<1>3. ASSUME NEW k \in Models PROVE is_sleeping'[k] => is_sleeping[k] \/ pending_map_ops[k] = 0
  <2>1. CASE UNCHANGED is_sleeping
    BY <2>1
  <2>2. CASE SleepLock(a)
    BY <1>1, <2>2 DEF SleepLock, TypeOK
  <2>3. CASE WakeupWeights(a)
    BY <1>1, <2>3 DEF WakeupWeights, TypeOK
  <2> QED BY <2>1, <2>2, <2>3 DEF HandlerStep, HandlerBegins, SleepBegin, SleepCas, SleepWeights, SleepUnmap,
             SleepWorkers, WakeupBegin, WakeupReserve, WakeupRefused, WakeupMap, WakeupWorkers
<1>4. ASSUME NEW k \in Models PROVE ModelOK(k)'
  <2>1. (Preallocating(k)' <=> Preallocating(k)) /\ (pre'.step = "wait" => pre.plan[k] = <<>>)
    BY <1>1, <1>2 DEF Preallocating, IsTurnOf, ModelOK, PendingCounted
  <2> QED BY <1>1, <1>2, <1>3, <2>1, SameModel
<1>5. \A s \in Requests : HoldsOwn(s)'
  BY <1>1, <1>2, SameHolders, RequestsAssumption
<1> QED BY <1>4, <1>5

\* A handler at work serves one model, from its call to its answer.
LEMMA HandlerKeepsModel ==
    ASSUME TypeOK, NEW a \in Handlers, HandlerOK(a), HandlerStep(a)
    PROVE  /\ adm[a].model \in Models /\ adm[a].op # "idle"
           /\ \A b \in Handlers : b # a => adm'[b] = adm[b]
           /\ adm'[a].op = "idle" \/ adm'[a].model = adm[a].model
<1> DEFINE m == adm[a].model
<1>1. adm[a].op # "idle" /\ m \in Models
  BY DEF HandlerOK, HandlerStep, At, SleepCas, SleepLock, SleepWeights, SleepUnmap, SleepWorkers,
         WakeupReserve, WakeupRefused, WakeupMap, WakeupWeights, WakeupWorkers
<1>2. adm \in [Handlers -> [op : {"idle"} \union SleepOps \union WakeOps,
                            model : Models \union {NoPage}, pages : SUBSET Pages]]
  BY DEF TypeOK
<1>3. /\ {"sleep_cas", "sleep_lock", "sleep_weights", "sleep_unmap", "sleep_workers"} \subseteq SleepOps
      /\ {"wake_check", "wake_map", "wake_weights", "wake_workers"} \subseteq WakeOps
  BY DEF SleepOps, WakeOps
<1>4. \/ Done(a)
      \/ \E op \in SleepOps \union WakeOps :
           Goto(a, op) \/ adm' = [adm EXCEPT ![a].op = op, ![a].pages = MappedPages(m)]
  <2>1. CASE SleepLock(a)
    <3> DEFINE op == IF WeightPages[m] > 0 THEN "sleep_weights" ELSE "sleep_unmap"
    <3>1. op \in SleepOps \union WakeOps
      BY <1>3
    <3>2. adm' = [adm EXCEPT ![a].op = op, ![a].pages = MappedPages(m)]
      BY <2>1 DEF SleepLock
    <3> HIDE DEF op
    <3> QED BY <3>1, <3>2
  <2>2. CASE WakeupReserve(a)
    <3>1. adm' = [adm EXCEPT ![a].op = "wake_map", ![a].pages = MappedPages(m)] /\ "wake_map" \in WakeOps
      BY <1>3, <2>2 DEF WakeupReserve
    <3> QED BY <3>1
  <2>3. CASE ~SleepLock(a) /\ ~WakeupReserve(a)
    BY <1>3, <2>3 DEF HandlerStep, SleepFails, SleepCas, SleepWeights, SleepUnmap, SleepWorkers,
                      WakeupRefused, WakeupMap, WakeupWeights, WakeupWorkers
  <2> QED BY <2>1, <2>2, <2>3
<1>5. CASE Done(a)
  BY <1>1, <1>2, <1>5 DEF Done, NoHandler
<1>6. ASSUME NEW op \in SleepOps \union WakeOps,
             Goto(a, op) \/ adm' = [adm EXCEPT ![a].op = op, ![a].pages = MappedPages(m)]
      PROVE  (\A b \in Handlers : b # a => adm'[b] = adm[b]) /\ adm'[a].model = m
  <2>1. PICK P : adm' = [adm EXCEPT ![a] = [op |-> op, model |-> m, pages |-> P]]
    BY <1>1, <1>6, HandlerMoves, HandlerCollects
  <2> QED BY <1>2, <2>1
<1> QED BY <1>1, <1>4, <1>5, <1>6

\* Every step keeps what is known of the handlers.
LEMMA HandlersNext ==
    ASSUME ListInv, [Next]_vars
    PROVE  \A a \in Handlers : HandlerOK(a)'
<1>1. TypeOK /\ \A a \in Handlers : HandlerOK(a)
  BY DEF ListInv
<1>2. CASE UNCHANGED adm
  BY <1>1, <1>2 DEF HandlerOK
<1>3. ASSUME NEW a \in Handlers, HandlerStep(a) PROVE \A b \in Handlers : HandlerOK(b)'
  <2>1. /\ adm[a].model \in Models
        /\ \A b \in Handlers : b # a => adm'[b] = adm[b]
        /\ adm'[a].op = "idle" \/ adm'[a].model = adm[a].model
    BY <1>1, <1>3, HandlerKeepsModel
  <2> QED BY <1>1, <2>1 DEF HandlerOK
<1>4. ASSUME NEW a \in Handlers, NEW m \in Models, SleepBegin(a, m) \/ WakeupBegin(a, m)
      PROVE  \A b \in Handlers : HandlerOK(b)'
  <2>1. PICK op : adm' = [adm EXCEPT ![a] = [op |-> op, model |-> m, pages |-> {}]]
    BY <1>4 DEF SleepBegin, WakeupBegin, HandlerStarts
  <2>2. adm \in [Handlers -> [op : {"idle"} \union SleepOps \union WakeOps,
                              model : Models \union {NoPage}, pages : SUBSET Pages]]
    BY <1>1 DEF TypeOK
  <2>3. adm'[a].model = m /\ \A b \in Handlers : b # a => adm'[b] = adm[b]
    BY <2>1, <2>2
  <2> QED BY <1>1, <2>3 DEF HandlerOK
<1>5. ASSUME NEW r \in Requests, RequestStep(r) PROVE UNCHANGED adm
  BY <1>5 DEF RequestStep, CheckLimit, Admit, AllocWhileSleeping, AllocReserved, AllocFree, AllocExhausted,
              FreePage, Respond, threadVars
<1>6. ASSUME NEW m \in Models, ManagerStep(m) PROVE UNCHANGED adm
  BY <1>6 DEF ManagerStep, AllocMapped, AllocMapFailed, AllocTracked, FreeUnmapped, FreeUnmapFailed
<1>7. ASSUME PreallocStep PROVE UNCHANGED adm
  BY <1>7 DEF PreallocStep, PreallocScan, PreallocCheck, PreallocMapped, PreallocMapFailed
<1>8. UNCHANGED vars => UNCHANGED adm
  BY DEF vars
<1> QED BY <1>2, <1>3, <1>4, <1>5, <1>6, <1>7, <1>8 DEF Next, HandlerBegins

\* The lists hold every page at the start.
LEMMA ListInit ==
    ASSUME Init
    PROVE  ListInv
<1>0. kSleeping \in Int /\ MaxFailures \in Nat /\ StartAwake \subseteq Models
  BY BoundAssumption DEF kSleeping
<1>1. ASSUME NEW m \in Models
      PROVE  /\ free[m] \in Seq(Pages) /\ Range(free[m]) = VirtPages(m) \ {PaddingPage} /\ IsInjective(free[m])
             /\ Len(free[m]) = num_free[m] /\ num_free[m] \in Nat /\ PaddingPage \in VirtPages(m)
             /\ VirtPages(m) \subseteq Pages
  <2> DEFINE n == PhyPages \div PhyPerVirt[m]
  <2>1. /\ n \in Nat /\ n >= 1 /\ VirtPages(m) = 0 .. n - 1 /\ VirtPages(m) \subseteq Pages
        /\ Cardinality(VirtPages(m)) = n
    BY PagesOfPool DEF VirtPages
  <2>2. free[m] = [i \in 1 .. n - 1 |-> i] /\ num_free[m] = n - 1
    BY <2>1 DEF Init
  <2> HIDE DEF n
  <2>3. \A i \in 1 .. n - 1 : i \in Pages
    BY <2>1
  <2>4. free[m] \in Seq(Pages) /\ Len(free[m]) = n - 1
    BY <2>1, <2>2, <2>3
  <2> QED BY <2>1, <2>2, <2>4 DEF Range, IsInjective, PaddingPage
<1>2. <<>> \in Seq(Pages) /\ Len(<<>>) = 0 /\ Range(<<>>) = {} /\ IsInjective(<<>>)
  BY DEF Range, IsInjective
<1>3. TypeOK
  <2>1. free \in [Models -> Seq(Pages)] /\ num_free \in [Models -> Nat]
    BY <1>1 DEF Init
  <2>2. allocated \in [Models -> SUBSET Pages] /\ reserved \in [Models -> Seq(Pages)]
    BY <1>1, <1>2 DEF Init
  <2>3. mapped \in [Models -> [Workers -> SUBSET Pages]] /\ loaded \in [Models -> SUBSET Workers]
    <3>1. \A m \in Models, w \in Workers :
            (IF m \in StartAwake /\ w \in WorkersOf[m] THEN {PaddingPage} ELSE {}) \in SUBSET Pages
      BY <1>1
    <3> QED BY <3>1, WorkersAssumption DEF Init
  <2>4. /\ adm \in [Handlers -> [op : {"idle"} \union SleepOps \union WakeOps,
                                 model : Models \union {NoPage}, pages : SUBSET Pages]]
        /\ mgr \in [Models -> [op : {"idle", "map", "track", "unmap"}, page : Pages \union {NoPage},
                           req : Requests \union {NoPage}]]
        /\ pre \in [step : {"wait", "check", "map"}, plan : [Models -> Seq(Pages)]]
    BY <1>2 DEF Init, NoHandler, Idle
  <2>5. limiter \in [Models -> Int]
    <3>1. limiter = [m \in Models |-> IF m \in StartAwake THEN 0 ELSE kSleeping]
      BY DEF Init
    <3> QED BY <1>0, <3>1
  <2>6. status \in [Models -> {"awake", "asleep"}] /\ slipped \subseteq Models
    BY DEF Init
  <2>7. is_sleeping \in [Models -> BOOLEAN] /\ prealloc_needed \in BOOLEAN
    BY DEF Init
  <2>8. /\ pending_map_ops \in [Models -> 0 .. 2] /\ failures \in 0 .. MaxFailures
        /\ crashed \in {"no", "asleep", "pages"}
    <3>1. pending_map_ops = [m \in Models |-> 0] /\ failures = 0 /\ crashed = "no"
      BY DEF Init
    <3> QED BY <1>0, <3>1
  <2>9. req \in [Requests -> ReqStates] /\ holds \in [Requests -> Pages \union {NoPage}]
    BY DEF Init, ReqStates
  <2> QED BY <2>1, <2>2, <2>3, <2>4, <2>5, <2>6, <2>7, <2>8, <2>9 DEF TypeOK
<1>4. ASSUME NEW m \in Models PROVE ModelOK(m)
  <2>1. /\ reserved[m] = <<>> /\ pre.plan[m] = <<>> /\ allocated[m] = {PaddingPage} /\ mgr[m] = Idle
        /\ pending_map_ops[m] = 0 /\ pre.step = "wait"
    BY DEF Init
  <2>2. Calling(m) = {} /\ mgr[m].op = "idle"
    BY <2>1 DEF Calling, InCall, Idle
  <2>3. PagesConserved(m)
    BY <1>1, <1>2, <2>1, <2>2 DEF PagesConserved, Conserved
  <2>4. FreeCounted(m)
    <3>1. Len(reserved[m]) = 0 /\ Len(pre.plan[m]) = 0 /\ num_free[m] \in Nat /\ Len(free[m]) = num_free[m]
      BY <1>1, <1>2, <2>1
    <3> QED BY <2>2, <3>1 DEF FreeCounted
  <2>5. ServesOwn(m)
    BY <2>1, <2>2 DEF ServesOwn
  <2>6. PendingCounted(m)
    BY <2>1, <2>2 DEF PendingCounted, Preallocating
  <2> QED BY <2>3, <2>4, <2>5, <2>6 DEF ModelOK
<1>5. \A r \in Requests : HoldsOwn(r)
  BY DEF Init, HoldsOwn
<1>6. \A a \in Handlers : HandlerOK(a)
  BY DEF Init, HandlerOK, NoHandler
<1> QED BY <1>3, <1>4, <1>5, <1>6 DEF ListInv

\* ListInv is inductive.
LEMMA ListNext ==
    ASSUME ListInv, [Next]_vars
    PROVE  ListInv'
<1>1. TypeOK'
  BY TypeNext
<1>2. \A a \in Handlers : HandlerOK(a)'
  BY HandlersNext
<1>3. CASE UNCHANGED vars
  <2>1. TypeOK /\ (\A k \in Models : ModelOK(k)) /\ \A s \in Requests : HoldsOwn(s)
    BY DEF ListInv
  <2>2. UNCHANGED <<req, holds, free, reserved, allocated, num_free, mgr, pre, pending_map_ops, is_sleeping>>
    BY <1>3 DEF vars
  <2>3. ASSUME NEW k \in Models PROVE ModelOK(k)'
    <3>1. (Preallocating(k)' <=> Preallocating(k)) /\ (pre'.step = "wait" => pre.plan[k] = <<>>)
      BY <2>1, <2>2 DEF Preallocating, IsTurnOf, ModelOK, PendingCounted
    <3> QED BY <2>1, <2>2, <3>1, SameModel
  <2>4. \A s \in Requests : HoldsOwn(s)'
    BY <2>1, <2>2, SameHolders, RequestsAssumption
  <2> QED BY <1>1, <1>2, <2>3, <2>4 DEF ListInv
<1>4. CASE Next
  <2>1. (\A k \in Models : ModelOK(k)') /\ \A s \in Requests : HoldsOwn(s)'
    BY <1>4, RequestLists, ManagerLists, PreallocLists, HandlerLists DEF Next
  <2> QED BY <1>1, <1>2, <2>1 DEF ListInv
<1> QED BY <1>3, <1>4

-----------------------------------------------------------------------------
\* The cardinality of disjoint finite sets.
LEMMA DisjointCardinality ==
    ASSUME NEW S, NEW T, IsFiniteSet(S), IsFiniteSet(T), S \intersect T = {}
    PROVE  IsFiniteSet(S \union T) /\ Cardinality(S \union T) = Cardinality(S) + Cardinality(T)
<1>1. /\ IsFiniteSet(S \union T)
      /\ Cardinality(S \union T) = Cardinality(S) + Cardinality(T) - Cardinality(S \intersect T)
  BY FS_Union
<1>2. Cardinality(S) \in Nat /\ Cardinality(T) \in Nat /\ Cardinality(S \intersect T) = 0
  BY FS_CardinalityType, FS_EmptySet
<1> QED BY <1>1, <1>2

\* In a reachable state every page of a model is in one place, and the lists are
\* as long as they have pages.
LEMMA ConservedPartitions ==
    ASSUME ListInv
    PROVE  VirtPagesPartitioned
<1> SUFFICES ASSUME NEW m \in Models
             PROVE  LET away == Planned(m) \union InCall(m, {"map", "track", "unmap"})
                    IN  /\ Range(free[m]) \union MappedPages(m) \union away = VirtPages(m)
                        /\ Len(free[m]) + Len(reserved[m]) + Cardinality(allocated[m]) + Cardinality(away)
                             = Cardinality(VirtPages(m))
                        /\ num_free[m] = Len(free[m]) + Len(reserved[m]) + Cardinality(Planned(m))
                                           + Cardinality(InCall(m, {"unmap"}))
  BY Zenon DEF VirtPagesPartitioned
<1> DEFINE F == Range(free[m])
           R == Range(reserved[m])
           A == allocated[m]
           P == Planned(m)
           C == Calling(m)
           V == VirtPages(m)
<1>1. TypeOK /\ ModelOK(m)
  BY DEF ListInv
<1>2. free[m] \in Seq(Pages) /\ reserved[m] \in Seq(Pages) /\ pre.plan[m] \in Seq(Pages)
  BY <1>1, TypesOf
<1>3. /\ IsInjective(free[m]) /\ IsInjective(reserved[m]) /\ IsInjective(pre.plan[m])
      /\ F \intersect (R \union A \union P \union C) = {} /\ R \intersect (A \union P \union C) = {}
      /\ A \intersect (P \union C) = {} /\ P \intersect C = {}
      /\ F \union R \union A \union P \union C = V
  BY <1>1 DEF ModelOK, PagesConserved, Conserved, Planned
<1>4. /\ IsFiniteSet(F) /\ Cardinality(F) = Len(free[m]) /\ IsFiniteSet(R) /\ Cardinality(R) = Len(reserved[m])
      /\ IsFiniteSet(P) /\ Cardinality(P) = Len(pre.plan[m])
  BY <1>2, <1>3, QueueCardinality DEF Planned
<1>5. IsFiniteSet(V)
  BY PagesOfPool
<1> HIDE DEF F, R, A, P, C, V
<1>6. IsFiniteSet(A) /\ IsFiniteSet(C)
  BY <1>3, <1>5, FS_Subset
<1>7. /\ IsFiniteSet(P \union C)
      /\ IsFiniteSet(A \union (P \union C)) /\ Cardinality(A \union (P \union C)) = Cardinality(A) + Cardinality(P \union C)
  BY <1>3, <1>4, <1>6, DisjointCardinality
<1>8. /\ IsFiniteSet(R \union (A \union (P \union C)))
      /\ Cardinality(R \union (A \union (P \union C))) = Cardinality(R) + Cardinality(A \union (P \union C))
  BY <1>3, <1>4, <1>7, DisjointCardinality
<1>9. Cardinality(F \union (R \union (A \union (P \union C)))) = Cardinality(F) + Cardinality(R \union (A \union (P \union C)))
  BY <1>3, <1>4, <1>8, DisjointCardinality, ZenonT(40)
<1>10. F \union (R \union (A \union (P \union C))) = V
  BY <1>3
<1>11. Len(free[m]) + Len(reserved[m]) + Cardinality(A) + Cardinality(P \union C) = Cardinality(V)
  <2>1. Cardinality(F) \in Nat /\ Cardinality(R) \in Nat /\ Cardinality(A) \in Nat /\ Cardinality(P \union C) \in Nat
    BY <1>4, <1>6, <1>7, FS_CardinalityType
  <2>2. Cardinality(V) = Cardinality(F) + (Cardinality(R) + (Cardinality(A) + Cardinality(P \union C)))
    BY <1>7, <1>8, <1>9, <1>10
  <2>3. Cardinality(V) = Cardinality(F) + Cardinality(R) + Cardinality(A) + Cardinality(P \union C)
    BY <2>1, <2>2
  <2> QED BY <1>4, <2>3
<1>12. Cardinality(InCall(m, {"unmap"})) = IF mgr[m].op = "unmap" THEN 1 ELSE 0
  BY FS_EmptySet, FS_Singleton DEF InCall
<1>13. num_free[m] = Len(free[m]) + Len(reserved[m]) + Cardinality(P) + Cardinality(InCall(m, {"unmap"}))
  BY <1>1, <1>4, <1>12 DEF ModelOK, FreeCounted
<1>14. Range(free[m]) \union MappedPages(m) \union (P \union C) = V
  BY <1>3 DEF MappedPages, F, R, A
<1> QED BY <1>11, <1>13, <1>14 DEF F, R, A, P, C, V, Calling

\* For any models, workers, pages and requests, and whatever fails, the lists
\* hold pages of the pool, num_free_virt_pages never falls below zero and at
\* most two maps of a model are pending.
THEOREM TypeCorrect == Spec => []TypeOK
<1>1. Init => ListInv
  BY ListInit
<1>2. ListInv /\ [Next]_vars => ListInv'
  BY ListNext
<1>3. ListInv => TypeOK
  BY DEF ListInv
<1> QED BY <1>1, <1>2, <1>3, PTL DEF Spec

\* alloc_kv_cache_page, free_kv_cache_pages, the preallocation thread and the
\* handlers of /sleep and /wakeup lose no virtual page and put none in two
\* lists, and num_free_virt_pages agrees with the lists, for any number of
\* models, handlers and requests and any number of failed broadcasts.
THEOREM PagesArePartitioned == Spec => []VirtPagesPartitioned
<1>1. Init => ListInv
  BY ListInit
<1>2. ListInv /\ [Next]_vars => ListInv'
  BY ListNext
<1>3. ListInv => VirtPagesPartitioned
  BY ConservedPartitions
<1> QED BY <1>1, <1>2, <1>3, PTL DEF Spec

-----------------------------------------------------------------------------
\* kSleeping is no number of requests.
LEMMA SleepingValue == kSleeping \in Int /\ kSleeping < 0 - 1
BY DEF kSleeping

\* What the limiter counts is a finite set, and a number of requests is not
\* kSleeping.
LEMMA ActiveFinite ==
    ASSUME NEW m
    PROVE  IsFiniteSet(Active(m)) /\ Cardinality(Active(m)) \in Nat /\ Cardinality(Active(m)) # kSleeping
<1>1. IsFiniteSet(Active(m)) /\ Cardinality(Active(m)) \in Nat
  BY RequestsAssumption, FS_Subset, FS_CardinalityType DEF Active
<1> QED BY <1>1, SleepingValue

\* Behind a closed limiter that no request slipped past, there is no request
\* and no page call.
LEMMA ClosedIsIdle ==
    ASSUME ListInv, GateInv, NEW m \in Models, m \notin slipped, limiter[m] = kSleeping
    PROVE  Active(m) = {} /\ mgr[m] = Idle /\ mgr[m].op = "idle"
<1>1. Active(m) = {}
  BY ActiveFinite DEF GateInv, GateCounts
<1>2. ServesOwn(m)
  BY DEF ListInv, ModelOK
<1>3. mgr[m].op = "idle"
  BY <1>1, <1>2 DEF ServesOwn, Active
<1> QED BY <1>1, <1>2, <1>3 DEF ServesOwn

\* A closed gate has no requests behind it.
LEMMA GateGivesIdle ==
    ASSUME ListInv, GateInv
    PROVE  AsleepIsIdle
<1>1. crashed = "asleep" => slipped # {}
  BY DEF GateInv
<1>2. ASSUME NEW m \in Models, is_sleeping[m], m \notin slipped
      PROVE  /\ \A r \in Requests : ModelOf[r] = m => req[r] \in {"new", "checked"}
             /\ mgr[m] = Idle /\ pending_map_ops[m] = 0
  <2>1. limiter[m] = kSleeping
    BY <1>2 DEF GateInv, GateClosed
  <2>2. Active(m) = {} /\ mgr[m] = Idle
    BY <1>2, <2>1, ClosedIsIdle
  <2>3. pending_map_ops[m] = 0
    BY <1>2 DEF ListInv, ModelOK, PendingCounted
  <2> QED BY <2>2, <2>3 DEF Active
<1> QED BY <1>1, <1>2 DEF AsleepIsIdle

\* The records of a model's sleep after a step that is not a handler's.
LEMMA SameGate ==
    ASSUME NEW k \in Models, GateCounts(k), GateClosed(k), UNCHANGED <<adm, is_sleeping, status>>,
           limiter'[k] = limiter[k], Active(k)' = Active(k)
    PROVE  GateCounts(k)' /\ GateClosed(k)'
BY DEF GateCounts, GateClosed, Serves

\* A step that leaves the records of a model's sleep alone.
LEMMA SameRecords ==
    ASSUME NEW k \in Models, RecordsFollow(k), UNCHANGED <<adm, is_sleeping, status>>,
           limiter'[k] = kSleeping <=> limiter[k] = kSleeping
    PROVE  RecordsFollow(k)'
BY DEF RecordsFollow, Serves

\* A step that leaves the pages of a model and their memory alone.
LEMMA SameMapped ==
    ASSUME NEW k \in Models, PagesMapped(k), UNCHANGED <<adm, is_sleeping>>,
           MappedPages(k)' = MappedPages(k), mgr'[k] = mgr[k] \/ mgr'[k].op # "track",
           mapped'[k] = mapped[k]
    PROVE  PagesMapped(k)'
BY DEF PagesMapped, Serves

\* Requests are active from their admission on.
LEMMA SameActive ==
    ASSUME NEW k, \A s \in Requests : req'[s] \in {"new", "checked"} <=> req[s] \in {"new", "checked"}
    PROVE  Active(k)' = Active(k)
BY DEF Active

\* An active request keeps the limiter open.
LEMMA OpenGate ==
    ASSUME ListInv, GateInv, NEW r \in Requests, req[r] \notin {"new", "checked"}, ModelOf[r] \notin slipped
    PROVE  LET m == ModelOf[r]
           IN  limiter[m] = Cardinality(Active(m)) /\ limiter[m] # kSleeping /\ ~is_sleeping[m]
               /\ status[m] # "asleep" /\ r \in Active(m)
               /\ \A a \in Handlers : Serves(a, m) => adm[a].op = "sleep_cas"
<1> DEFINE m == ModelOf[r]
<1>1. r \in Active(m) /\ m \in Models
  BY RequestsAssumption DEF Active
<1>2. GateCounts(m) /\ GateClosed(m)
  BY <1>1 DEF GateInv
<1>3. limiter[m] = Cardinality(Active(m)) /\ limiter[m] # kSleeping
  BY <1>1, <1>2, ActiveFinite DEF GateCounts
<1> QED BY <1>1, <1>2, <1>3 DEF GateClosed

\* A limiter that counts stays open when it counts on.
LEMMA StaysOpen ==
    ASSUME NEW k \in Models, GateClosed(k), limiter[k] # kSleeping, UNCHANGED <<adm, is_sleeping, status>>
    PROVE  GateClosed(k)'
BY DEF GateClosed, Serves

\* Requests and the records.
LEMMA RequestGate ==
    ASSUME ListInv, GateInv, NEW r \in Requests, RequestStep(r)
    PROVE  /\ GateInv'
           /\ slipped \subseteq slipped'
           /\ UNCHANGED <<adm, is_sleeping, status, failures>>
           /\ \A k \in Models : k \notin slipped' => (limiter'[k] = kSleeping <=> limiter[k] = kSleeping)
<1> DEFINE m == ModelOf[r]
<1>1. TypeOK /\ m \in Models /\ limiter[m] \in Int /\ limiter \in [Models -> Int] /\ req \in [Requests -> ReqStates]
  BY RequestsAssumption DEF ListInv, TypeOK
<1>2. UNCHANGED <<adm, is_sleeping, status, failures>> /\ slipped \subseteq slipped'
  BY DEF RequestStep, CheckLimit, Admit, AllocWhileSleeping, AllocReserved, AllocFree, AllocExhausted,
         FreePage, Respond, threadVars, limiterVars
<1>3. \A s \in Requests : s # r => req'[s] = req[s]
  BY <1>1 DEF RequestStep, CheckLimit, Admit, AllocWhileSleeping, AllocReserved, AllocFree, AllocExhausted,
              FreePage, Respond, limiterVars
<1>4. \A k \in Models : k \notin slipped' => GateCounts(k) /\ GateClosed(k)
  BY <1>2 DEF GateInv
<1> HIDE DEF m
<1>5. CASE CheckLimit(r) \/ AllocWhileSleeping(r) \/ AllocReserved(r) \/ AllocFree(r) \/ AllocExhausted(r) \/ FreePage(r)
  <2>1. UNCHANGED <<limiter, slipped>>
    BY <1>5 DEF CheckLimit, AllocWhileSleeping, AllocReserved, AllocFree, AllocExhausted, FreePage, limiterVars
  <2>2. req'[r] \in {"new", "checked"} <=> req[r] \in {"new", "checked"}
    BY <1>1, <1>5 DEF CheckLimit, AllocWhileSleeping, AllocReserved, AllocFree, AllocExhausted, FreePage,
                      limiterVars, NeedsPage
  <2>3. \A k : Active(k)' = Active(k)
    BY <1>3, <2>2, SameActive
  <2>4. \A k \in Models : k \notin slipped' => GateCounts(k)' /\ GateClosed(k)'
    BY <1>2, <1>4, <2>1, <2>3, SameGate
  <2>5. crashed' = "asleep" => slipped' # {}
    <3>1. CASE AllocWhileSleeping(r)
      <4>1. req[r] \notin {"new", "checked"} /\ is_sleeping[ModelOf[r]]
        BY <3>1 DEF AllocWhileSleeping, NeedsPage
      <4>2. ModelOf[r] \in slipped
        BY <4>1, OpenGate
      <4> QED BY <2>1, <4>2
    <3>2. CASE ~AllocWhileSleeping(r)
      <4>1. crashed' \in {crashed, "pages"}
        BY <1>5, <3>2 DEF CheckLimit, AllocReserved, AllocFree, AllocExhausted, FreePage
      <4> QED BY <2>1, <4>1 DEF GateInv
    <3> QED BY <3>1, <3>2
  <2> QED BY <1>2, <2>1, <2>4, <2>5 DEF GateInv
<1>6. CASE Admit(r)
  <2>1. /\ req[r] = "checked" /\ req'[r] = "admitted" /\ limiter'[m] = limiter[m] + 1
        /\ \A k \in Models \ {m} : limiter'[k] = limiter[k]
        /\ crashed' = crashed
        /\ m \notin slipped' => limiter[m] >= 0
    BY <1>1, <1>6 DEF Admit, m
  <2>2. /\ \A k \in Models \ {m} : Active(k)' = Active(k)
        /\ Active(m)' = Active(m) \union {r} /\ r \notin Active(m)
    BY <1>3, <2>1 DEF Active, m
  <2>3. ASSUME m \notin slipped'
        PROVE  GateCounts(m)' /\ GateClosed(m)' /\ limiter[m] # kSleeping /\ limiter'[m] # kSleeping
    <3>1. limiter[m] >= 0 /\ limiter[m] # kSleeping
      BY <1>1, <2>1, <2>3, SleepingValue
    <3>2. limiter[m] = Cardinality(Active(m))
      BY <1>1, <1>4, <2>3, <3>1 DEF GateCounts
    <3>3. Cardinality(Active(m)') = Cardinality(Active(m)) + 1
      BY <2>2, ActiveFinite, FS_AddElement
    <3>4. GateClosed(m)'
      BY <1>1, <1>2, <1>4, <2>3, <3>1, StaysOpen
    <3>5. limiter'[m] # kSleeping
      BY <1>1, <2>1, <3>1, SleepingValue
    <3> QED BY <2>1, <3>1, <3>2, <3>3, <3>4, <3>5 DEF GateCounts
  <2>4. \A k \in Models \ {m} : k \notin slipped' => GateCounts(k)' /\ GateClosed(k)'
    BY <1>2, <1>4, <2>1, <2>2, SameGate
  <2>5. crashed' = "asleep" => slipped' # {}
    BY <1>2, <2>1 DEF GateInv
  <2> QED BY <1>2, <2>1, <2>3, <2>4, <2>5 DEF GateInv
<1>7. CASE Respond(r)
  <2>1. /\ req[r] = "responding" /\ req'[r] = "new" /\ limiter'[m] = limiter[m] - 1
        /\ \A k \in Models \ {m} : limiter'[k] = limiter[k]
        /\ crashed' = crashed /\ slipped' = slipped
    BY <1>1, <1>7 DEF Respond, m
  <2>2. /\ \A k \in Models \ {m} : Active(k)' = Active(k)
        /\ Active(m)' = Active(m) \ {r} /\ r \in Active(m)
    BY <1>3, <2>1 DEF Active, m
  <2>3. ASSUME m \notin slipped'
        PROVE  GateCounts(m)' /\ GateClosed(m)' /\ limiter[m] # kSleeping /\ limiter'[m] # kSleeping
    <3>1. limiter[m] = Cardinality(Active(m)) /\ limiter[m] # kSleeping
      BY <2>1, <2>3, OpenGate DEF m
    <3>2. Cardinality(Active(m)') = Cardinality(Active(m)) - 1
      BY <2>2, ActiveFinite, FS_RemoveElement
    <3>3. GateClosed(m)'
      BY <1>1, <1>2, <1>4, <2>3, <3>1, StaysOpen
    <3>4. GateCounts(m)'
      BY <2>1, <3>1, <3>2 DEF GateCounts
    <3>5. limiter'[m] # kSleeping
      <4>1. limiter[m] \in Nat
        BY <3>1, ActiveFinite
      <4> QED BY <2>1, <4>1, SleepingValue
    <3> QED BY <3>1, <3>3, <3>4, <3>5
  <2>4. \A k \in Models \ {m} : k \notin slipped' => GateCounts(k)' /\ GateClosed(k)'
    BY <1>2, <1>4, <2>1, <2>2, SameGate
  <2>5. crashed' = "asleep" => slipped' # {}
    BY <2>1 DEF GateInv
  <2> QED BY <1>2, <2>1, <2>3, <2>4, <2>5 DEF GateInv
<1> QED BY <1>5, <1>6, <1>7 DEF RequestStep

\* Block managers and the preallocation thread leave the records alone.
LEMMA ManagerGate ==
    ASSUME ListInv, GateInv, PreallocStep \/ \E m \in Models : ManagerStep(m)
    PROVE  GateInv' /\ UNCHANGED <<adm, is_sleeping, status, limiter, slipped>> /\ failures' \in {failures, failures + 1}
<1>1. TypeOK /\ (\A m \in Models : ServesOwn(m)) /\ req \in [Requests -> ReqStates]
  BY DEF ListInv, TypeOK, ModelOK
<1>2. /\ UNCHANGED <<adm, is_sleeping, status, limiter, slipped, crashed>> /\ failures' \in {failures, failures + 1}
  BY DEF PreallocStep, PreallocScan, PreallocCheck, PreallocMapped, PreallocMapFailed, ManagerStep, AllocMapped,
         AllocMapFailed, AllocTracked, FreeUnmapped, FreeUnmapFailed, limiterVars, Succeeds, Fails
<1>3. \A s \in Requests : req'[s] \in {"new", "checked"} <=> req[s] \in {"new", "checked"}
  <2>1. CASE UNCHANGED req
    BY <2>1
  <2>2. ASSUME NEW m \in Models, AllocTracked(m) \/ FreeUnmapped(m) \/ FreeUnmapFailed(m)
        PROVE  \A s \in Requests : req'[s] \in {"new", "checked"} <=> req[s] \in {"new", "checked"}
    BY <1>1, <2>2 DEF AllocTracked, FreeUnmapped, FreeUnmapFailed, ServesOwn
  <2> QED BY <2>1, <2>2 DEF PreallocStep, PreallocScan, PreallocCheck, PreallocMapped, PreallocMapFailed,
             ManagerStep, AllocMapped, AllocMapFailed, limiterVars
<1>4. \A k : Active(k)' = Active(k)
  BY <1>3, SameActive
<1>5. \A k \in Models : k \notin slipped' => GateCounts(k)' /\ GateClosed(k)'
  BY <1>2, <1>4, SameGate DEF GateInv
<1> QED BY <1>2, <1>5 DEF GateInv

\* What a handler's step does to the handlers of a model, when the calls for one
\* model come one after the other.
LEMMA HandlerServes ==
    ASSUME ListInv, OneCallPerModel, NEW a \in Handlers, HandlerStep(a), NEW m \in Models, adm[a].model = m
    PROVE  /\ m \in Models /\ Serves(a, m)
           /\ \A b \in Handlers : Serves(b, m) => b = a
           /\ \A b \in Handlers : Serves(b, m)' => b = a
           /\ \A k \in Models \ {m}, b \in Handlers : Serves(b, k)' => Serves(b, k) /\ adm'[b] = adm[b]
           /\ \A k \in Models \ {m}, b \in Handlers : Serves(b, k) => Serves(b, k)'
<1>1. /\ m \in Models /\ adm[a].op # "idle" /\ (\A b \in Handlers : b # a => adm'[b] = adm[b])
      /\ (adm'[a].op = "idle" \/ adm'[a].model = m)
  BY HandlerKeepsModel DEF ListInv
<1>2. \A b \in Handlers : Serves(b, m) => b = a
  BY <1>1 DEF OneCallPerModel, Serves
<1> QED BY <1>1, <1>2 DEF Serves

\* A model that a handler's step is not about.
LEMMA OtherGate ==
    ASSUME NEW k \in Models, limiter'[k] = limiter[k], status'[k] = status[k], is_sleeping'[k] = is_sleeping[k],
           Active(k)' = Active(k),
           \A b \in Handlers : Serves(b, k)' => Serves(b, k) /\ adm'[b] = adm[b],
           \A b \in Handlers : Serves(b, k) => Serves(b, k)'
    PROVE  /\ GateCounts(k) /\ GateClosed(k) => GateCounts(k)' /\ GateClosed(k)'
           /\ RecordsFollow(k) => RecordsFollow(k)'
           /\ MappedPages(k)' = MappedPages(k) /\ mgr'[k] = mgr[k] /\ mapped'[k] = mapped[k] =>
                (PagesMapped(k) => PagesMapped(k)')
<1>1. GateCounts(k) /\ GateClosed(k) => GateCounts(k)' /\ GateClosed(k)'
  BY DEF GateCounts, GateClosed
<1>2. RecordsFollow(k) => RecordsFollow(k)'
  BY DEF RecordsFollow
<1>3. MappedPages(k)' = MappedPages(k) /\ mgr'[k] = mgr[k] /\ mapped'[k] = mapped[k] =>
                (PagesMapped(k) => PagesMapped(k)')
  BY DEF PagesMapped
<1> QED BY <1>1, <1>2, <1>3

\* What a handler's step does to the records of its model m: the compare-and-swap
\* of /sleep, the lock, the broadcasts and the workers' sleep, their failure; the
\* checks of /wakeup, the maps and the weights, their failure, the
\* compare-and-swap of /wakeup.
SameLimiter(m) == limiter'[m] = limiter[m]
SameStatus(m) == status'[m] = status[m]
SameSleeping(m) == is_sleeping'[m] = is_sleeping[m]
NoFailure == failures' = failures
AllMapped(m, pages) ==
    \A w \in WorkersOf[m] : mapped'[m][w] = mapped[m][w] \union pages

HandlerEffect(a, m) ==
    \/ /\ adm[a].op = "sleep_cas" /\ adm'[a].op = "sleep_lock" /\ mapped' = mapped /\ NoFailure
       /\ limiter[m] = 0 /\ limiter'[m] = kSleeping /\ status'[m] = "asleep" /\ SameSleeping(m)
    \/ /\ adm[a].op \in {"sleep_cas", "wake_check"} /\ adm'[a].op = "idle" /\ mapped' = mapped /\ NoFailure
       /\ SameLimiter(m) /\ SameStatus(m) /\ SameSleeping(m)
    \/ /\ adm[a].op = "sleep_lock" /\ adm'[a].op \in {"sleep_weights", "sleep_unmap"} /\ mapped' = mapped
       /\ NoFailure /\ SameLimiter(m) /\ SameStatus(m) /\ ~is_sleeping[m] /\ is_sleeping'[m]
    \/ /\ adm[a].op \in {"sleep_weights", "sleep_unmap", "sleep_workers"} /\ NoFailure
       /\ adm'[a].op \in {"sleep_unmap", "sleep_workers", "idle"}
       /\ SameLimiter(m) /\ SameStatus(m) /\ SameSleeping(m)
    \/ /\ adm[a].op \in {"sleep_weights", "sleep_unmap", "sleep_workers"} /\ failures' = failures + 1
       /\ adm'[a].op = "idle" /\ SameLimiter(m) /\ status'[m] = "awake" /\ SameSleeping(m)
    \/ /\ adm[a].op = "wake_check" /\ adm'[a].op = "wake_map" /\ adm'[a].pages = MappedPages(m)
       /\ mapped' = mapped /\ NoFailure /\ is_sleeping[m] /\ SameLimiter(m) /\ SameStatus(m) /\ SameSleeping(m)
    \/ /\ adm[a].op = "wake_map" /\ adm'[a].op = "wake_weights" /\ AllMapped(m, adm[a].pages)
       /\ NoFailure /\ SameLimiter(m) /\ SameStatus(m) /\ SameSleeping(m)
    \/ /\ adm[a].op \in {"wake_map", "wake_weights", "wake_workers"} /\ failures' = failures + 1
       /\ adm'[a].op = "idle" /\ SameLimiter(m) /\ SameStatus(m) /\ SameSleeping(m)
    \/ /\ adm[a].op = "wake_weights" /\ adm'[a].op = "wake_workers" /\ mapped' = mapped /\ NoFailure
       /\ SameLimiter(m) /\ SameStatus(m) /\ ~is_sleeping'[m]
    \/ /\ adm[a].op = "wake_workers" /\ adm'[a].op = "idle" /\ mapped' = mapped /\ NoFailure
       /\ SameSleeping(m)
       /\ \/ limiter[m] = kSleeping /\ limiter'[m] = 0 /\ status'[m] = "awake"
          \/ limiter[m] # kSleeping /\ SameLimiter(m) /\ SameStatus(m)

\* The steps of the handlers have these effects, and no other.
LEMMA EffectOfHandler ==
    ASSUME ListInv, NEW a \in Handlers, HandlerStep(a), NEW m \in Models, adm[a].model = m
    PROVE  /\ HandlerEffect(a, m)
           /\ UNCHANGED <<req, slipped, crashed, reserved, allocated, mgr, pre>>
           /\ \A k \in Models \ {m} : /\ SameLimiter(k) /\ SameStatus(k) /\ SameSleeping(k)
                                      /\ mapped'[k] = mapped[k]
<1>1. TypeOK /\ m \in Models /\ adm[a].op # "idle"
  BY HandlerKeepsModel DEF ListInv
<1>2. /\ limiter \in [Models -> Int] /\ status \in [Models -> {"awake", "asleep"}] /\ is_sleeping \in [Models -> BOOLEAN]
      /\ adm \in [Handlers -> [op : {"idle"} \union SleepOps \union WakeOps,
                               model : Models \union {NoPage}, pages : SUBSET Pages]]
      /\ WorkersOf[m] \subseteq Workers
  BY <1>1, WorkersAssumption DEF TypeOK
<1>3. UNCHANGED <<req, slipped, crashed, reserved, allocated, mgr, pre>>
  BY DEF HandlerStep, SleepCas, SleepLock, SleepWeights, SleepUnmap, SleepWorkers, WakeupReserve, WakeupRefused,
         WakeupMap, WakeupWeights, WakeupWorkers, limiterVars, listVars
<1>4. /\ Done(a) => adm'[a].op = "idle"
      /\ \A op : Goto(a, op) => adm'[a].op = op
      /\ \A op \in SleepOps \union WakeOps : adm' = [adm EXCEPT ![a].op = op, ![a].pages = MappedPages(m)] =>
           adm'[a].op = op /\ adm'[a].pages = MappedPages(m)
  <2>1. Done(a) => adm'[a].op = "idle"
    BY <1>2 DEF Done, NoHandler
  <2>2. ASSUME NEW op, Goto(a, op) PROVE adm'[a].op = op
    <3>1. adm[a] = [op |-> adm[a].op, model |-> adm[a].model, pages |-> adm[a].pages]
      BY <1>2
    <3>2. [adm[a] EXCEPT !.op = op] = [op |-> op, model |-> adm[a].model, pages |-> adm[a].pages]
      BY <3>1
    <3>3. adm'[a] = [adm[a] EXCEPT !.op = op]
      BY <1>2, <2>2 DEF Goto
    <3> QED BY <3>2, <3>3
  <2>3. ASSUME NEW op \in SleepOps \union WakeOps, adm' = [adm EXCEPT ![a].op = op, ![a].pages = MappedPages(m)]
        PROVE  adm'[a].op = op /\ adm'[a].pages = MappedPages(m)
    <3> DEFINE P == MappedPages(m)
    <3> HIDE DEF P
    <3>1. adm'[a] = [[adm[a] EXCEPT !.op = op] EXCEPT !.pages = P]
      BY <1>2, <2>3 DEF P
    <3>2. adm[a] = [op |-> adm[a].op, model |-> adm[a].model, pages |-> adm[a].pages]
      BY <1>2
    <3>3. [adm[a] EXCEPT !.op = op] = [op |-> op, model |-> adm[a].model, pages |-> adm[a].pages]
      BY <3>2
    <3>4. adm'[a] = [op |-> op, model |-> adm[a].model, pages |-> P]
      BY <3>1, <3>3
    <3> QED BY <3>4 DEF P
  <2> QED BY <2>1, <2>2, <2>3
<1>5. CASE SleepCas(a)
  <2>1. CASE limiter[m] = 0
    BY <1>1, <1>2, <1>3, <1>4, <1>5, <2>1 DEF SleepCas, At, HandlerEffect, SameLimiter, SameStatus, SameSleeping,
                                             NoFailure, workerVars
  <2>2. CASE limiter[m] # 0
    BY <1>1, <1>2, <1>3, <1>4, <1>5, <2>2 DEF SleepCas, At, HandlerEffect, SameLimiter, SameStatus, SameSleeping,
                                             NoFailure, workerVars
  <2> QED BY <2>1, <2>2
<1>6. CASE SleepLock(a)
  <2> DEFINE op == IF WeightPages[m] > 0 THEN "sleep_weights" ELSE "sleep_unmap"
  <2>1. op \in SleepOps \union WakeOps /\ op \in {"sleep_weights", "sleep_unmap"}
    BY DEF SleepOps
  <2>2. adm' = [adm EXCEPT ![a].op = op, ![a].pages = MappedPages(m)]
    BY <1>6 DEF SleepLock
  <2> HIDE DEF op
  <2>3. adm'[a].op \in {"sleep_weights", "sleep_unmap"}
    BY <1>4, <2>1, <2>2
  <2>4. /\ ~is_sleeping[m] /\ is_sleeping'[m] /\ \A k \in Models \ {m} : is_sleeping'[k] = is_sleeping[k]
    BY <1>1, <1>2, <1>6 DEF SleepLock
  <2>5. UNCHANGED <<limiter, status, mapped, failures>> /\ adm[a].op = "sleep_lock"
    BY <1>6 DEF SleepLock, At, limiterVars, workerVars
  <2> QED BY <1>3, <2>3, <2>4, <2>5 DEF HandlerEffect, SameLimiter, SameStatus, SameSleeping, NoFailure
<1>7. CASE SleepWeights(a)
  <2>1. adm[a].op = "sleep_weights" /\ UNCHANGED <<limiter, is_sleeping, mapped>>
    BY <1>7 DEF SleepWeights, At
  <2>2. \/ NoFailure /\ adm'[a].op = "sleep_unmap" /\ UNCHANGED status
        \/ failures' = failures + 1 /\ adm'[a].op = "idle" /\ status' = [status EXCEPT ![m] = "awake"]
    BY <1>4, <1>7 DEF SleepWeights, SleepFails, Succeeds, Fails, NoFailure
  <2> QED BY <1>1, <1>2, <1>3, <2>1, <2>2 DEF HandlerEffect, SameLimiter, SameStatus, SameSleeping
<1>8. CASE SleepUnmap(a)
  <2>1. adm[a].op = "sleep_unmap" /\ UNCHANGED <<limiter, is_sleeping>>
    BY <1>8 DEF SleepUnmap, At
  <2>2. \/ NoFailure /\ adm'[a].op = "sleep_workers" /\ UNCHANGED status
        \/ failures' = failures + 1 /\ adm'[a].op = "idle" /\ status' = [status EXCEPT ![m] = "awake"]
    BY <1>4, <1>8 DEF SleepUnmap, SleepFails, Succeeds, Fails, NoFailure
  <2>3. \A k \in Models \ {m} : mapped'[k] = mapped[k]
    BY <1>1, <1>8, BroadcastReaches DEF SleepUnmap
  <2> QED BY <1>1, <1>2, <1>3, <2>1, <2>2, <2>3 DEF HandlerEffect, SameLimiter, SameStatus, SameSleeping
<1>9. CASE SleepWorkers(a)
  <2>1. adm[a].op = "sleep_workers" /\ UNCHANGED <<limiter, is_sleeping, mapped>>
    BY <1>9 DEF SleepWorkers, At, workerVars
  <2>2. \/ NoFailure /\ adm'[a].op = "idle" /\ UNCHANGED status
        \/ failures' = failures + 1 /\ adm'[a].op = "idle" /\ status' = [status EXCEPT ![m] = "awake"]
    BY <1>4, <1>9 DEF SleepWorkers, SleepFails, NoFailure
  <2> QED BY <1>1, <1>2, <1>3, <2>1, <2>2 DEF HandlerEffect, SameLimiter, SameStatus, SameSleeping
<1>10. CASE WakeupReserve(a)
  <2>1. "wake_map" \in SleepOps \union WakeOps
    BY DEF WakeOps
  <2>2. adm'[a].op = "wake_map" /\ adm'[a].pages = MappedPages(m)
    BY <1>4, <1>10, <2>1 DEF WakeupReserve
  <2>3. adm[a].op = "wake_check" /\ is_sleeping[m] /\ UNCHANGED <<limiter, status, is_sleeping, mapped, failures>>
    BY <1>10 DEF WakeupReserve, At, limiterVars, workerVars
  <2> QED BY <1>3, <2>2, <2>3 DEF HandlerEffect, SameLimiter, SameStatus, SameSleeping, NoFailure
<1>11. CASE WakeupRefused(a)
  BY <1>3, <1>4, <1>11 DEF WakeupRefused, At, HandlerEffect, SameLimiter, SameStatus, SameSleeping, NoFailure,
     limiterVars, workerVars
<1>12. CASE WakeupMap(a)
  <2>1. adm[a].op = "wake_map" /\ UNCHANGED <<limiter, status, is_sleeping>>
    BY <1>12 DEF WakeupMap, At, limiterVars
  <2>2. PICK reached : /\ mapped' = Mapped(m, adm[a].pages, reached)
                       /\ \/ Succeeds(m, reached) /\ Goto(a, "wake_weights")
                          \/ Fails(m, reached) /\ Done(a)
    BY <1>12 DEF WakeupMap
  <2>3. /\ \A k \in Models \ {m} : mapped'[k] = mapped[k]
        /\ reached = WorkersOf[m] => AllMapped(m, adm[a].pages)
    <3> DEFINE P == adm[a].pages
    <3>0. mapped' = Mapped(m, P, reached)
      BY <2>2
    <3> HIDE DEF P
    <3>1. /\ \A k \in Models : k # m => mapped'[k] = mapped[k]
          /\ \A w \in Workers : mapped'[m][w] = IF w \in reached THEN mapped[m][w] \union P ELSE mapped[m][w]
      BY <1>1, <3>0 DEF Mapped, TypeOK
    <3> QED BY <1>2, <3>1 DEF AllMapped, P
  <2>4. \/ NoFailure /\ adm'[a].op = "wake_weights" /\ AllMapped(m, adm[a].pages)
        \/ failures' = failures + 1 /\ adm'[a].op = "idle"
    BY <1>4, <2>2, <2>3 DEF Succeeds, Fails, NoFailure
  <2> QED BY <1>3, <2>1, <2>3, <2>4 DEF HandlerEffect, SameLimiter, SameStatus, SameSleeping
<1>13. CASE WakeupWeights(a)
  <2>1. adm[a].op = "wake_weights" /\ UNCHANGED <<limiter, status, mapped>>
    BY <1>13 DEF WakeupWeights, At, limiterVars
  <2>2. \/ NoFailure /\ adm'[a].op = "wake_workers" /\ is_sleeping' = [is_sleeping EXCEPT ![m] = FALSE]
        \/ failures' = failures + 1 /\ adm'[a].op = "idle" /\ UNCHANGED is_sleeping
    BY <1>4, <1>13 DEF WakeupWeights, Succeeds, Fails, NoFailure
  <2> QED BY <1>1, <1>2, <1>3, <2>1, <2>2 DEF HandlerEffect, SameLimiter, SameStatus, SameSleeping
<1>14. CASE WakeupWorkers(a)
  <2>1. adm[a].op = "wake_workers" /\ adm'[a].op = "idle" /\ UNCHANGED <<is_sleeping, mapped>>
    BY <1>4, <1>14 DEF WakeupWorkers, At, workerVars
  <2>2. \/ /\ limiter[m] = kSleeping /\ limiter' = [limiter EXCEPT ![m] = 0]
           /\ status' = [status EXCEPT ![m] = "awake"] /\ NoFailure
        \/ limiter[m] # kSleeping /\ UNCHANGED <<limiter, status>> /\ NoFailure
        \/ failures' = failures + 1 /\ UNCHANGED <<limiter, status>>
    BY <1>14 DEF WakeupWorkers, NoFailure
  <2> QED BY <1>1, <1>2, <1>3, <2>1, <2>2 DEF HandlerEffect, SameLimiter, SameStatus, SameSleeping
<1> QED BY <1>5, <1>6, <1>7, <1>8, <1>9, <1>10, <1>11, <1>12, <1>13, <1>14 DEF HandlerStep

\* Handlers and the limiter.
LEMMA HandlerGate ==
    ASSUME ListInv, GateInv, OneCallPerModel, NEW a \in Handlers, HandlerStep(a)
    PROVE  GateInv'
<1>1. PICK m \in Models : adm[a].model = m
  BY HandlerKeepsModel DEF ListInv
<1>2. /\ Serves(a, m) /\ (\A b \in Handlers : Serves(b, m) => b = a) /\ (\A b \in Handlers : Serves(b, m)' => b = a)
      /\ \A k \in Models \ {m}, b \in Handlers : Serves(b, k)' => Serves(b, k) /\ adm'[b] = adm[b]
      /\ \A k \in Models \ {m}, b \in Handlers : Serves(b, k) => Serves(b, k)'
  BY <1>1, HandlerServes
<1>3. /\ HandlerEffect(a, m) /\ UNCHANGED <<req, slipped, crashed>>
      /\ \A k \in Models \ {m} : SameLimiter(k) /\ SameStatus(k) /\ SameSleeping(k)
  BY <1>1, EffectOfHandler
<1>4. \A k : Active(k)' = Active(k)
  BY <1>3 DEF Active
<1>5. ASSUME NEW k \in Models \ {m}, k \notin slipped' PROVE GateCounts(k)' /\ GateClosed(k)'
  <2>1. GateCounts(k) /\ GateClosed(k)
    BY <1>3, <1>5 DEF GateInv
  <2>2. limiter'[k] = limiter[k] /\ status'[k] = status[k] /\ is_sleeping'[k] = is_sleeping[k]
    BY <1>3 DEF SameLimiter, SameStatus, SameSleeping
  <2> QED BY <1>2, <1>4, <2>1, <2>2, OtherGate
<1>6. ASSUME m \notin slipped' PROVE GateCounts(m)' /\ GateClosed(m)'
  <2>1. GateCounts(m) /\ GateClosed(m)
    BY <1>3, <1>6 DEF GateInv
  <2>2. (limiter[m] = kSleeping \/ limiter[m] = 0) => Active(m) = {}
    BY <2>1, ActiveFinite, FS_EmptySet, SleepingValue DEF GateCounts
  <2>3. limiter'[m] = limiter[m] \/ limiter'[m] = kSleeping \/ limiter'[m] = 0
    BY <1>3 DEF HandlerEffect, SameLimiter
  <2>4. limiter'[m] # limiter[m] => limiter[m] = kSleeping \/ limiter[m] = 0
    BY <1>3 DEF HandlerEffect, SameLimiter
  <2>5. GateCounts(m)'
    <3>1. CASE limiter'[m] = limiter[m]
      BY <1>4, <2>1, <3>1 DEF GateCounts
    <3>2. CASE limiter'[m] # limiter[m]
      <4>1. Active(m)' = {} /\ Cardinality(Active(m)') = 0
        BY <1>4, <2>2, <2>4, <3>2, FS_EmptySet
      <4> QED BY <2>3, <3>2, <4>1 DEF GateCounts
    <3> QED BY <3>1, <3>2
  <2>6. /\ is_sleeping[m] \/ status[m] = "asleep" \/ adm[a].op # "sleep_cas" => limiter[m] = kSleeping
        /\ adm[a].op = "wake_workers" => ~is_sleeping[m]
    BY <1>2, <2>1 DEF GateClosed
  <2>7. /\ is_sleeping'[m] \/ status'[m] = "asleep" => limiter'[m] = kSleeping
    BY <1>3, <2>6, SleepingValue DEF HandlerEffect, SameLimiter, SameStatus, SameSleeping
  <2>8. /\ adm'[a].op \notin {"sleep_cas", "idle"} => limiter'[m] = kSleeping
        /\ adm'[a].op = "wake_workers" => ~is_sleeping'[m]
    BY <1>3, <2>6 DEF HandlerEffect, SameLimiter
  <2>9. \A b \in Handlers : Serves(b, m)' => adm'[b].op \notin {"idle"} /\ b = a
    BY <1>2 DEF Serves
  <2> QED BY <2>5, <2>7, <2>8, <2>9 DEF GateClosed
<1> QED BY <1>3, <1>5, <1>6 DEF GateInv

\* A handler that starts changes nothing but itself.
LEMMA BeginEffect ==
    ASSUME ListInv, NEW a \in Handlers, NEW m \in Models, SleepBegin(a, m) \/ WakeupBegin(a, m)
    PROVE  /\ UNCHANGED <<limiter, status, is_sleeping, req, slipped, crashed, failures, mapped, reserved, allocated, mgr>>
           /\ slipped = {} /\ adm[a].op = "idle"
           /\ \/ status[m] = "awake" /\ adm'[a].op = "sleep_cas"
              \/ status[m] = "asleep" /\ adm'[a].op = "wake_check"
           /\ Serves(a, m)' /\ \A k \in Models \ {m} : ~Serves(a, k)'
           /\ \A b \in Handlers : b # a => adm'[b] = adm[b]
<1>1. adm \in [Handlers -> [op : {"idle"} \union SleepOps \union WakeOps,
                            model : Models \union {NoPage}, pages : SUBSET Pages]]
  BY DEF ListInv, TypeOK
<1>2. \/ status[m] = "awake" /\ adm' = [adm EXCEPT ![a] = [op |-> "sleep_cas", model |-> m, pages |-> {}]]
      \/ status[m] = "asleep" /\ adm' = [adm EXCEPT ![a] = [op |-> "wake_check", model |-> m, pages |-> {}]]
  BY DEF SleepBegin, WakeupBegin, HandlerStarts
<1>3. /\ UNCHANGED <<limiter, status, is_sleeping, req, slipped, crashed, failures, mapped, reserved, allocated, mgr>>
      /\ slipped = {} /\ adm[a].op = "idle"
  BY DEF SleepBegin, WakeupBegin, Followed, At, limiterVars, listVars, workerVars
<1>4. /\ \/ status[m] = "awake" /\ adm'[a].op = "sleep_cas"
         \/ status[m] = "asleep" /\ adm'[a].op = "wake_check"
      /\ adm'[a].model = m /\ adm'[a].op # "idle" /\ \A b \in Handlers : b # a => adm'[b] = adm[b]
  BY <1>1, <1>2
<1> QED BY <1>3, <1>4 DEF Serves

\* A handler that starts leaves the gate as it is.
LEMMA BeginGate ==
    ASSUME ListInv, GateInv, NEW a \in Handlers, NEW m \in Models, SleepBegin(a, m) \/ WakeupBegin(a, m)
    PROVE  GateInv'
<1>1. /\ UNCHANGED <<limiter, status, is_sleeping, req, slipped, crashed>> /\ slipped = {} /\ adm[a].op = "idle"
      /\ \/ status[m] = "awake" /\ adm'[a].op = "sleep_cas"
         \/ status[m] = "asleep" /\ adm'[a].op = "wake_check"
      /\ Serves(a, m)' /\ (\A k \in Models \ {m} : ~Serves(a, k)')
      /\ \A b \in Handlers : b # a => adm'[b] = adm[b]
  BY BeginEffect
<1>2. ASSUME NEW k \in Models PROVE GateCounts(k)' /\ GateClosed(k)'
  <2>1. GateCounts(k) /\ GateClosed(k)
    BY <1>1 DEF GateInv
  <2>2. GateCounts(k)'
    BY <1>1, <2>1 DEF GateCounts, Active
  <2>3. \A b \in Handlers : b # a /\ Serves(b, k)' => Serves(b, k)
    BY <1>1 DEF Serves
  <2>4. Serves(a, k)' => k = m
    BY <1>1
  <2>5. status[k] = "asleep" \/ is_sleeping[k] => limiter[k] = kSleeping
    BY <2>1 DEF GateClosed
  <2> QED BY <1>1, <2>1, <2>2, <2>3, <2>4, <2>5 DEF GateClosed
<1> QED BY <1>1, <1>2 DEF GateInv

\* GateInv is inductive.
LEMMA GateNext ==
    ASSUME ListInv, GateInv, OneCallPerModel, [Next]_vars
    PROVE  GateInv'
<1>1. CASE UNCHANGED vars
  <2>1. UNCHANGED <<limiter, status, is_sleeping, req, slipped, crashed, adm>>
    BY <1>1 DEF vars
  <2>2. \A k : Active(k)' = Active(k)
    BY <2>1 DEF Active
  <2> QED BY <2>1, <2>2, SameGate DEF GateInv
<1>2. CASE Next
  BY <1>2, RequestGate, ManagerGate, HandlerGate, BeginGate DEF Next, HandlerBegins
<1> QED BY <1>1, <1>2

\* At the start no request is active, and the limiter of a sleeping model is
\* closed; the padding page of a model that is awake is mapped.
LEMMA SleepInit ==
    ASSUME Init
    PROVE  SleepInv
<1>1. /\ \A a \in Handlers : adm[a].op = "idle"
      /\ \A r \in Requests : req[r] = "new"
      /\ crashed = "no"
  BY DEF Init, NoHandler
<1>2. ASSUME NEW m \in Models
      PROVE  \/ limiter[m] = 0 /\ status[m] = "awake" /\ ~is_sleeping[m] /\ m \in StartAwake
             \/ limiter[m] = kSleeping /\ status[m] = "asleep" /\ is_sleeping[m]
  <2>1. /\ limiter[m] = IF m \in StartAwake THEN 0 ELSE kSleeping
        /\ status[m] = IF m \in StartAwake THEN "awake" ELSE "asleep"
        /\ is_sleeping[m] = (m \notin StartAwake)
    BY DEF Init
  <2> QED BY <2>1
<1>3. ASSUME NEW m \in Models PROVE Active(m) = {} /\ Cardinality(Active(m)) = 0
  <2>1. Active(m) = {}
    BY <1>1 DEF Active
  <2> QED BY <2>1, FS_EmptySet
<1>4. \A a \in Handlers, m \in Models : ~Serves(a, m)
  BY <1>1 DEF Serves
<1>5. \A m \in Models : GateCounts(m) /\ GateClosed(m)
  BY <1>2, <1>3, <1>4 DEF GateCounts, GateClosed
<1>6. \A m \in Models : RecordsFollow(m)
  BY <1>2, <1>4, SleepingValue DEF RecordsFollow
<1>7. ASSUME NEW m \in Models PROVE PagesMapped(m)
  <2>1. reserved[m] = <<>> /\ allocated[m] = {PaddingPage} /\ mgr[m].op = "idle"
    BY DEF Init, Idle
  <2>2. MappedPages(m) = {PaddingPage}
    BY <2>1 DEF MappedPages, Range
  <2>3. m \in StartAwake => \A w \in WorkersOf[m] : mapped[m][w] = {PaddingPage}
    BY WorkersAssumption DEF Init
  <2> QED BY <1>2, <1>4, <2>1, <2>2, <2>3 DEF PagesMapped
<1> QED BY <1>1, <1>5, <1>6, <1>7 DEF SleepInv, GateInv

\* try_set_sleeping, the limiter's counter and sleep_model's wait for pending maps
\* leave a sleeping model without requests and without page calls, and the CHECK
\* of alloc_kv_cache_page fails only after a request slipped past the limiter,
\* for any number of models, handlers, requests and failed broadcasts, when the
\* calls of /sleep and /wakeup for one model come one after the other.
THEOREM SleepersAreIdle == Spec /\ []OneCallPerModel => []AsleepIsIdle
<1>1. Init => ListInv /\ GateInv
  BY ListInit, SleepInit DEF SleepInv
<1>2. ListInv /\ GateInv /\ OneCallPerModel /\ [Next]_vars => ListInv' /\ GateInv'
  BY ListNext, GateNext
<1>3. ListInv /\ GateInv => AsleepIsIdle
  BY GateGivesIdle
<1> QED BY <1>1, <1>2, <1>3, PTL DEF Spec

-----------------------------------------------------------------------------
\* Failures are counted and slipped requests remembered, so a step from a
\* disturbed state leads to a disturbed state.
LEMMA StaysDisturbed ==
    ASSUME ListInv, GateInv, [Next]_vars, Undisturbed'
    PROVE  Undisturbed /\ failures' = failures
<1>1. failures \in Nat
  BY BoundAssumption DEF ListInv, TypeOK
<1>2. slipped \subseteq slipped' /\ failures' \in {failures, failures + 1}
  <2>1. CASE UNCHANGED vars
    BY <2>1 DEF vars
  <2>2. ASSUME NEW r \in Requests, RequestStep(r) PROVE slipped \subseteq slipped' /\ failures' \in {failures, failures + 1}
    BY <2>2, RequestGate
  <2>3. CASE PreallocStep \/ \E m \in Models : ManagerStep(m)
    BY <2>3, ManagerGate
  <2>4. ASSUME NEW a \in Handlers, HandlerStep(a) PROVE slipped \subseteq slipped' /\ failures' \in {failures, failures + 1}
    <3>1. PICK m \in Models : adm[a].model = m
      BY <2>4, HandlerKeepsModel DEF ListInv
    <3>2. HandlerEffect(a, m) /\ slipped' = slipped
      BY <2>4, <3>1, EffectOfHandler
    <3> QED BY <3>2 DEF HandlerEffect, NoFailure
  <2>5. ASSUME NEW a \in Handlers, HandlerBegins(a) PROVE slipped \subseteq slipped' /\ failures' \in {failures, failures + 1}
    <3>1. PICK m \in Models : SleepBegin(a, m) \/ WakeupBegin(a, m)
      BY <2>5 DEF HandlerBegins
    <3> QED BY <3>1, BeginEffect
  <2> QED BY <2>1, <2>2, <2>3, <2>4, <2>5 DEF Next
<1> QED BY <1>1, <1>2 DEF Undisturbed

\* A handler's step and the records of its model, when nothing fails.
LEMMA HandlerRecords ==
    ASSUME ListInv, OneCallPerModel, NEW a \in Handlers, HandlerStep(a), failures \in Nat, failures' = failures,
           \A k \in Models : RecordsFollow(k)
    PROVE  \A k \in Models : RecordsFollow(k)'
<1>1. PICK m \in Models : adm[a].model = m
  BY HandlerKeepsModel DEF ListInv
<1>2. /\ Serves(a, m) /\ (\A b \in Handlers : Serves(b, m)' => b = a)
      /\ \A k \in Models \ {m}, b \in Handlers : Serves(b, k)' => Serves(b, k) /\ adm'[b] = adm[b]
      /\ \A k \in Models \ {m}, b \in Handlers : Serves(b, k) => Serves(b, k)'
  BY <1>1, HandlerServes
<1>3. /\ HandlerEffect(a, m) /\ UNCHANGED req
      /\ \A k \in Models \ {m} : SameLimiter(k) /\ SameStatus(k) /\ SameSleeping(k)
  BY <1>1, EffectOfHandler
<1>4. \A k : Active(k)' = Active(k)
  BY <1>3 DEF Active
<1>5. ASSUME NEW k \in Models \ {m} PROVE RecordsFollow(k)'
  <2>1. limiter'[k] = limiter[k] /\ status'[k] = status[k] /\ is_sleeping'[k] = is_sleeping[k]
    BY <1>3 DEF SameLimiter, SameStatus, SameSleeping
  <2> QED BY <1>2, <1>4, <2>1, OtherGate
<1>6. RecordsFollow(m)'
  <2>1. /\ adm[a].op = "sleep_cas" <=> limiter[m] # kSleeping
        /\ adm[a].op = "sleep_cas" <=> status[m] = "awake"
        /\ adm[a].op \in {"sleep_cas", "sleep_lock", "wake_workers"} <=> ~is_sleeping[m]
    BY <1>2 DEF RecordsFollow
  <2>2. status[m] \in {"awake", "asleep"}
    BY DEF ListInv, TypeOK
  <2>3. /\ adm'[a].op = "idle" =>
             (limiter'[m] = kSleeping <=> is_sleeping'[m]) /\ (status'[m] = "asleep" <=> is_sleeping'[m])
        /\ adm'[a].op # "idle" =>
             /\ adm'[a].op = "sleep_cas" <=> limiter'[m] # kSleeping
             /\ adm'[a].op = "sleep_cas" <=> status'[m] = "awake"
             /\ adm'[a].op \in {"sleep_cas", "sleep_lock", "wake_workers"} <=> ~is_sleeping'[m]
    BY <1>3, <2>1, <2>2, SleepingValue DEF HandlerEffect, SameLimiter, SameStatus, SameSleeping
  <2>4. \A b \in Handlers : Serves(b, m)' => b = a /\ adm'[a].op # "idle"
    BY <1>2 DEF Serves
  <2>5. adm'[a].op # "idle" => Serves(a, m)'
    BY <1>1, HandlerKeepsModel DEF ListInv, Serves
  <2> QED BY <2>3, <2>4, <2>5 DEF RecordsFollow
<1> QED BY <1>5, <1>6

\* A call that begins finds the records in agreement.
LEMMA BeginRecords ==
    ASSUME ListInv, OneCallPerModel', NEW a \in Handlers, NEW m \in Models, SleepBegin(a, m) \/ WakeupBegin(a, m),
           \A k \in Models : RecordsFollow(k)
    PROVE  (\A k \in Models : RecordsFollow(k)') /\ \A b \in Handlers : ~Serves(b, m)
<1>1. /\ UNCHANGED <<limiter, status, is_sleeping>> /\ adm[a].op = "idle"
      /\ \/ status[m] = "awake" /\ adm'[a].op = "sleep_cas"
         \/ status[m] = "asleep" /\ adm'[a].op = "wake_check"
      /\ Serves(a, m)' /\ (\A k \in Models \ {m} : ~Serves(a, k)')
      /\ \A b \in Handlers : b # a => adm'[b] = adm[b]
  BY BeginEffect
<1>2. \A b \in Handlers : Serves(b, m)' => b = a
  BY <1>1 DEF Serves, OneCallPerModel
<1>3. \A b \in Handlers : ~Serves(b, m)
  BY <1>1, <1>2 DEF Serves
<1>4. ASSUME NEW k \in Models \ {m} PROVE RecordsFollow(k)'
  <2>1. \A b \in Handlers : (Serves(b, k)' <=> Serves(b, k)) /\ (Serves(b, k) => adm'[b] = adm[b])
    BY <1>1 DEF Serves
  <2> QED BY <1>1, <2>1 DEF RecordsFollow
<1>5. RecordsFollow(m)'
  <2>1. (limiter[m] = kSleeping <=> is_sleeping[m]) /\ (status[m] = "asleep" <=> is_sleeping[m])
    BY <1>3 DEF RecordsFollow
  <2> QED BY <1>1, <1>2, <2>1 DEF RecordsFollow
<1> QED BY <1>3, <1>4, <1>5

\* Every step keeps the records of a model's sleep in step.
LEMMA RecordsNext ==
    ASSUME ListInv, GateInv, OneCallPerModel, OneCallPerModel', [Next]_vars, Undisturbed', Undisturbed,
           failures' = failures, \A k \in Models : RecordsFollow(k)
    PROVE  \A k \in Models : RecordsFollow(k)'
<1>1. CASE UNCHANGED vars
  BY <1>1, SameRecords DEF vars
<1>2. ASSUME NEW r \in Requests, RequestStep(r) PROVE \A k \in Models : RecordsFollow(k)'
  <2>1. /\ UNCHANGED <<adm, is_sleeping, status>>
        /\ \A k \in Models : limiter'[k] = kSleeping <=> limiter[k] = kSleeping
    BY <1>2, RequestGate DEF Undisturbed
  <2> QED BY <2>1, SameRecords
<1>3. CASE PreallocStep \/ \E m \in Models : ManagerStep(m)
  <2>1. UNCHANGED <<adm, is_sleeping, status, limiter>>
    BY <1>3, ManagerGate
  <2> QED BY <2>1, SameRecords
<1>4. ASSUME NEW a \in Handlers, HandlerStep(a) PROVE \A k \in Models : RecordsFollow(k)'
  BY <1>4, HandlerRecords DEF Undisturbed
<1>5. ASSUME NEW a \in Handlers, HandlerBegins(a) PROVE \A k \in Models : RecordsFollow(k)'
  <2>1. PICK m \in Models : SleepBegin(a, m) \/ WakeupBegin(a, m)
    BY <1>5 DEF HandlerBegins
  <2> QED BY <2>1, BeginRecords
<1> QED BY <1>1, <1>2, <1>3, <1>4, <1>5 DEF Next

-----------------------------------------------------------------------------
\* Fewer pages to be mapped, or more that are.
LEMMA LessToMap ==
    ASSUME NEW k \in Models, PagesMapped(k), UNCHANGED <<adm, is_sleeping>>,
           \A a \in Handlers : Serves(a, k) => adm[a].op # "wake_map",
           \A w \in WorkersOf[k] : MappedPages(k) \subseteq mapped[k][w] => MappedPages(k)' \subseteq mapped'[k][w],
           mgr'[k].op = "track" => \A w \in WorkersOf[k] : mgr'[k].page \in mapped'[k][w]
    PROVE  PagesMapped(k)'
BY DEF PagesMapped, Serves

\* A model with a request or a page call is awake, and no /wakeup is at it.
LEMMA ServedIsAwake ==
    ASSUME ListInv, GateInv, slipped = {}, NEW m \in Models,
           mgr[m].op # "idle" \/ \E r \in Requests : ModelOf[r] = m /\ req[r] \notin {"new", "checked"}
    PROVE  ~is_sleeping[m] /\ \A a \in Handlers : Serves(a, m) => adm[a].op = "sleep_cas"
<1>1. PICK r \in Requests : ModelOf[r] = m /\ req[r] \notin {"new", "checked"}
  <2>1. ServesOwn(m)
    BY DEF ListInv, ModelOK
  <2> QED BY <2>1 DEF ServesOwn
<1> QED BY <1>1, OpenGate

\* A request takes a reserved page, which is mapped, or gives one up.
LEMMA RequestMapped ==
    ASSUME ListInv, GateInv, slipped = {}, NEW r \in Requests, RequestStep(r), \A k \in Models : PagesMapped(k)
    PROVE  \A k \in Models : PagesMapped(k)'
<1> DEFINE m == ModelOf[r]
<1>1. TypeOK /\ m \in Models /\ reserved[m] \in Seq(Pages)
  BY RequestsAssumption, TypesOf DEF ListInv
<1>2. UNCHANGED <<adm, is_sleeping, mapped>>
  BY DEF RequestStep, CheckLimit, Admit, AllocWhileSleeping, AllocReserved, AllocFree, AllocExhausted,
         FreePage, Respond, threadVars, workerVars
<1>3. reserved \in [Models -> Seq(Pages)] /\ allocated \in [Models -> SUBSET Pages] /\ DOMAIN mgr = Models
  BY <1>1 DEF TypeOK
<1> HIDE DEF m
<1>4. ASSUME NEW k \in Models \ {m} PROVE PagesMapped(k)'
  <2>1. reserved'[k] = reserved[k] /\ allocated'[k] = allocated[k] /\ mgr'[k] = mgr[k]
    BY <1>1, <1>3 DEF RequestStep, CheckLimit, Admit, AllocWhileSleeping, AllocReserved, AllocFree, AllocExhausted,
                      FreePage, Respond, threadVars, listVars, m
  <2> QED BY <1>2, <2>1, SameMapped DEF MappedPages
<1>5. PagesMapped(m)'
  <2>1. CASE CheckLimit(r) \/ Admit(r) \/ AllocWhileSleeping(r) \/ AllocExhausted(r) \/ Respond(r)
    <3>1. UNCHANGED <<reserved, allocated, mgr>>
      BY <2>1 DEF CheckLimit, Admit, AllocWhileSleeping, AllocExhausted, Respond, threadVars, listVars
    <3> QED BY <1>1, <1>2, <3>1, SameMapped DEF MappedPages
  <2>2. CASE AllocFree(r)
    <3>1. UNCHANGED <<reserved, allocated>> /\ mgr'[m].op = "map"
      BY <1>1, <1>3, <2>2 DEF AllocFree, m
    <3> QED BY <1>1, <1>2, <3>1, SameMapped DEF MappedPages
  <2>3. CASE AllocReserved(r)
    <3>1. /\ reserved[m] # <<>> /\ reserved'[m] = Tail(reserved[m]) /\ mgr' = mgr
          /\ allocated'[m] = allocated[m] \union {Head(reserved[m])}
      BY <1>1, <1>3, <2>3 DEF AllocReserved, threadVars, m
    <3>2. IsInjective(reserved[m])
      BY <1>1 DEF ListInv, ModelOK, PagesConserved, Conserved
    <3>3. Head(reserved[m]) \in Range(reserved[m]) /\ Range(Tail(reserved[m])) = Range(reserved[m]) \ {Head(reserved[m])}
      BY <1>1, <3>1, <3>2, TakeHead
    <3>4. MappedPages(m)' = MappedPages(m)
      BY <3>1, <3>3 DEF MappedPages
    <3> QED BY <1>1, <1>2, <3>1, <3>4, SameMapped
  <2>4. CASE FreePage(r)
    <3>1. req[r] = "running" /\ mgr[m] = Idle
      BY <2>4 DEF FreePage, m
    <3>2. holds[r] \in allocated[m] /\ holds[r] \in Pages
      <4>1. holds[r] \in allocated[m]
        BY <3>1 DEF ListInv, HoldsOwn, m
      <4> QED BY <1>1, <1>3, <4>1
    <3>3. /\ allocated'[m] = allocated[m] \ {holds[r]}
          /\ \/ reserved'[m] = Append(reserved[m], holds[r]) /\ mgr' = mgr
             \/ reserved' = reserved /\ mgr'[m].op = "unmap"
      BY <1>1, <1>3, <2>4 DEF FreePage, m
    <3>4. Range(Append(reserved[m], holds[r])) = Range(reserved[m]) \union {holds[r]}
      BY <1>1, <3>2, AppendQueue
    <3>5. MappedPages(m)' \subseteq MappedPages(m) /\ mgr'[m].op # "track"
      <4>1. Range(reserved'[m]) \subseteq Range(reserved[m]) \union {holds[r]}
        BY <3>3, <3>4
      <4>2. MappedPages(m)' \subseteq MappedPages(m)
        BY <3>2, <3>3, <4>1 DEF MappedPages
      <4>3. mgr'[m].op # "track"
        BY <3>1, <3>3 DEF Idle
      <4> QED BY <4>2, <4>3
    <3>6. \A a \in Handlers : Serves(a, m) => adm[a].op # "wake_map"
      BY <1>1, <3>1, ServedIsAwake DEF m
    <3> QED BY <1>1, <1>2, <3>5, <3>6, LessToMap
  <2> QED BY <2>1, <2>2, <2>3, <2>4 DEF RequestStep
<1> QED BY <1>4, <1>5

\* A block manager records a page once it is mapped, and unmaps a page that is in
\* no list.
LEMMA ManagerMapped ==
    ASSUME ListInv, GateInv, slipped = {}, NEW m \in Models, ManagerStep(m), failures' = failures,
           \A k \in Models : PagesMapped(k)
    PROVE  \A k \in Models : PagesMapped(k)'
<1>1. TypeOK /\ failures \in Nat /\ WorkersOf[m] \subseteq Workers /\ DOMAIN mgr = Models
      /\ reserved \in [Models -> Seq(Pages)] /\ allocated \in [Models -> SUBSET Pages]
      /\ mgr[m] \in [op : {"idle", "map", "track", "unmap"}, page : Pages \union {NoPage}, req : Requests \union {NoPage}]
  BY WorkersAssumption, BoundAssumption DEF ListInv, TypeOK
<1>2. UNCHANGED <<adm, is_sleeping>> /\ mgr[m].op # "idle"
  BY DEF ManagerStep, AllocMapped, AllocMapFailed, AllocTracked, FreeUnmapped, FreeUnmapFailed
<1>3. ~is_sleeping[m] /\ \A a \in Handlers : Serves(a, m) => adm[a].op # "wake_map"
  BY <1>2, ServedIsAwake
<1>4. ~AllocMapFailed(m) /\ ~FreeUnmapFailed(m)
  BY <1>1 DEF AllocMapFailed, FreeUnmapFailed, Fails
<1>5. ASSUME NEW k \in Models \ {m} PROVE PagesMapped(k)'
  <2>1. reserved'[k] = reserved[k] /\ allocated'[k] = allocated[k] /\ mgr'[k] = mgr[k]
    BY <1>1, <1>4 DEF ManagerStep, AllocMapped, AllocTracked, FreeUnmapped, listVars
  <2>2. mapped'[k] = mapped[k]
    BY <1>1, <1>4, BroadcastReaches DEF ManagerStep, AllocMapped, AllocTracked, FreeUnmapped, workerVars
  <2> QED BY <1>2, <2>1, <2>2, SameMapped DEF MappedPages
<1>6. CASE AllocMapped(m)
  <2>1. mapped' = Mapped(m, {mgr[m].page}, WorkersOf[m]) /\ UNCHANGED <<reserved, allocated>>
    BY <1>6 DEF AllocMapped, Succeeds, listVars
  <2>2. \A w \in WorkersOf[m] : mapped'[m][w] = mapped[m][w] \union {mgr[m].page}
    <3> DEFINE P == {mgr[m].page}
    <3>1. mapped' = Mapped(m, P, WorkersOf[m])
      BY <2>1
    <3> HIDE DEF P
    <3>2. \A w \in Workers : mapped'[m][w] = IF w \in WorkersOf[m] THEN mapped[m][w] \union P ELSE mapped[m][w]
      BY <1>1, <3>1 DEF Mapped, TypeOK
    <3> QED BY <1>1, <3>2 DEF P
  <2>3. mgr'[m].page = mgr[m].page
    BY <1>1, <1>6 DEF AllocMapped
  <2> QED BY <1>2, <1>3, <1>5, <2>1, <2>2, <2>3, LessToMap, ZenonT(40) DEF MappedPages
<1>7. CASE AllocTracked(m)
  <2>1. mapped' = mapped /\ reserved' = reserved /\ allocated'[m] = allocated[m] \union {mgr[m].page}
        /\ mgr'[m] = Idle /\ mgr[m].op = "track"
    BY <1>1, <1>7 DEF AllocTracked, workerVars
  <2>2. \A w \in WorkersOf[m] : mgr[m].page \in mapped[m][w]
    BY <2>1 DEF PagesMapped
  <2>3. MappedPages(m)' = MappedPages(m) \union {mgr[m].page}
    BY <2>1 DEF MappedPages
  <2>4. mgr'[m].op # "track"
    BY <2>1 DEF Idle
  <2> QED BY <1>2, <1>3, <1>5, <2>1, <2>2, <2>3, <2>4, LessToMap
<1>8. CASE FreeUnmapped(m)
  <2>1. mapped' = Unmapped(m, {mgr[m].page}, WorkersOf[m]) /\ UNCHANGED <<reserved, allocated>>
        /\ mgr'[m] = Idle /\ mgr[m].op = "unmap"
    BY <1>1, <1>8 DEF FreeUnmapped, Succeeds
  <2>2. \A w \in WorkersOf[m] : mapped'[m][w] = mapped[m][w] \ {mgr[m].page}
    <3> DEFINE P == {mgr[m].page}
    <3>1. mapped' = Unmapped(m, P, WorkersOf[m])
      BY <2>1
    <3> HIDE DEF P
    <3>2. \A w \in Workers : mapped'[m][w] = IF w \in WorkersOf[m] THEN mapped[m][w] \ P ELSE mapped[m][w]
      BY <1>1, <3>1 DEF Unmapped, TypeOK
    <3> QED BY <1>1, <3>2 DEF P
  <2>3. mgr[m].page \notin MappedPages(m)
    <3>1. Calling(m) = {mgr[m].page}
      BY <2>1 DEF Calling, InCall
    <3> QED BY <3>1 DEF ListInv, ModelOK, PagesConserved, Conserved, MappedPages
  <2>4. MappedPages(m)' = MappedPages(m)
    BY <2>1 DEF MappedPages
  <2>5. mgr'[m].op # "track"
    BY <2>1 DEF Idle
  <2> QED BY <1>2, <1>3, <1>5, <2>2, <2>3, <2>4, <2>5, LessToMap
<1> QED BY <1>4, <1>6, <1>7, <1>8 DEF ManagerStep

\* The preallocation thread reserves the pages it has mapped, and maps none for a
\* sleeping model.
LEMMA PreallocPagesMapped ==
    ASSUME ListInv, PreallocStep, failures' = failures, \A k \in Models : PagesMapped(k) /\ RecordsFollow(k)
    PROVE  \A k \in Models : PagesMapped(k)'
<1>1. /\ TypeOK /\ failures \in Nat /\ WorkersOf \in [Models -> SUBSET Workers]
      /\ reserved \in [Models -> Seq(Pages)] /\ \A k \in Models : pre.plan[k] \in Seq(Pages)
  BY WorkersAssumption, BoundAssumption, TypesOf DEF ListInv, TypeOK
<1>2. UNCHANGED <<adm, is_sleeping, allocated, mgr>>
  BY DEF PreallocStep, PreallocScan, PreallocCheck, PreallocMapped, PreallocMapFailed
<1>3. CASE UNCHANGED <<reserved, mapped>>
  BY <1>2, <1>3, SameMapped DEF MappedPages
<1>4. ASSUME NEW m \in Models, PreallocMapped(m) PROVE \A k \in Models : PagesMapped(k)'
  <2>1. pending_map_ops[m] # 0 /\ ~is_sleeping[m]
    <3>1. PendingCounted(m) /\ Preallocating(m)
      BY <1>4 DEF ListInv, ModelOK, PreallocMapped, Preallocating
    <3> QED BY <3>1 DEF PendingCounted
  <2>2. reserved' = [reserved EXCEPT ![m] = @ \o pre.plan[m]] /\ mapped' = Mapped(m, Range(pre.plan[m]), WorkersOf[m])
    BY <1>4, <2>1 DEF PreallocMapped, Succeeds
  <2>3. /\ \A k \in Models \ {m} : mapped'[k] = mapped[k]
        /\ \A w \in WorkersOf[m] : mapped'[m][w] = mapped[m][w] \union Range(pre.plan[m])
    <3> DEFINE P == Range(pre.plan[m])
    <3>1. mapped' = Mapped(m, P, WorkersOf[m])
      BY <2>2
    <3> HIDE DEF P
    <3>2. /\ \A k \in Models : k # m => mapped'[k] = mapped[k]
          /\ \A w \in Workers : mapped'[m][w] = IF w \in WorkersOf[m] THEN mapped[m][w] \union P ELSE mapped[m][w]
      BY <1>1, <3>1 DEF Mapped, TypeOK
    <3> QED BY <1>1, <3>2 DEF P
  <2>4. ASSUME NEW k \in Models \ {m} PROVE PagesMapped(k)'
    <3>1. reserved'[k] = reserved[k]
      BY <1>1, <2>2
    <3> QED BY <1>2, <2>3, <3>1, SameMapped DEF MappedPages
  <2>5. PagesMapped(m)'
    <3>1. reserved'[m] = reserved[m] \o pre.plan[m]
      BY <1>1, <2>2
    <3>2. Range(reserved[m] \o pre.plan[m]) = Range(reserved[m]) \union Range(pre.plan[m])
      BY <1>1, ConcatQueue
    <3>3. MappedPages(m)' = MappedPages(m) \union Range(pre.plan[m])
      BY <1>2, <3>1, <3>2 DEF MappedPages
    <3>4. \A w \in WorkersOf[m] : MappedPages(m) \subseteq mapped[m][w] => MappedPages(m)' \subseteq mapped'[m][w]
      BY <2>3, <3>3
    <3>5. \A a \in Handlers : Serves(a, m) => adm[a].op # "wake_map"
      BY <2>1 DEF RecordsFollow
    <3>6. mgr'[m].op = "track" => \A w \in WorkersOf[m] : mgr'[m].page \in mapped'[m][w]
      BY <1>2, <2>3 DEF PagesMapped
    <3> QED BY <1>2, <3>4, <3>5, <3>6, LessToMap
  <2> QED BY <2>4, <2>5
<1>5. \A m \in Models : ~PreallocMapFailed(m)
  BY <1>1 DEF PreallocMapFailed, Fails
<1> QED BY <1>3, <1>4, <1>5 DEF PreallocStep, PreallocScan, PreallocCheck, workerVars

\* A handler unmaps the pages of a model that sleeps, and wakes it up once they
\* are mapped again.
LEMMA HandlerMapped ==
    ASSUME ListInv, GateInv, slipped = {}, OneCallPerModel, NEW a \in Handlers, HandlerStep(a),
           failures \in Nat, failures' = failures, \A k \in Models : PagesMapped(k) /\ RecordsFollow(k)
    PROVE  \A k \in Models : PagesMapped(k)'
<1>1. PICK m \in Models : adm[a].model = m
  BY HandlerKeepsModel DEF ListInv
<1>2. /\ Serves(a, m) /\ (\A b \in Handlers : Serves(b, m)' => b = a)
      /\ \A k \in Models \ {m}, b \in Handlers : Serves(b, k)' => Serves(b, k) /\ adm'[b] = adm[b]
      /\ \A k \in Models \ {m}, b \in Handlers : Serves(b, k) => Serves(b, k)'
  BY <1>1, HandlerServes
<1>3. /\ HandlerEffect(a, m) /\ UNCHANGED <<req, reserved, allocated, mgr>>
      /\ \A k \in Models \ {m} : /\ SameLimiter(k) /\ SameStatus(k) /\ SameSleeping(k)
                                 /\ mapped'[k] = mapped[k]
  BY <1>1, EffectOfHandler
<1>4. \A k : Active(k)' = Active(k) /\ MappedPages(k)' = MappedPages(k)
  BY <1>3 DEF Active, MappedPages
<1>5. ASSUME NEW k \in Models \ {m} PROVE PagesMapped(k)'
  <2>1. limiter'[k] = limiter[k] /\ status'[k] = status[k] /\ is_sleeping'[k] = is_sleeping[k]
    BY <1>3 DEF SameLimiter, SameStatus, SameSleeping
  <2> QED BY <1>2, <1>3, <1>4, <2>1, OtherGate
<1>6. PagesMapped(m)'
  <2> DEFINE P == MappedPages(m)
             AllAt(f) == \A w \in WorkersOf[m] : P \subseteq f[m][w]
  <2>1. adm[a].op \in {"sleep_cas", "sleep_lock", "wake_workers"} <=> ~is_sleeping[m]
    BY <1>2 DEF RecordsFollow
  <2>2. /\ ~is_sleeping[m] => AllAt(mapped)
        /\ adm[a].op = "wake_map" => adm[a].pages = P
        /\ adm[a].op = "wake_weights" => AllAt(mapped)
    BY <1>2 DEF PagesMapped
  <2>3. mgr[m].op = "track" => adm[a].op = "sleep_cas"
    BY <1>2, ServedIsAwake
  <2> HIDE DEF P
  <2>4. adm[a].op = "sleep_cas" => mapped' = mapped
    BY <1>3 DEF HandlerEffect
  <2>5. mgr'[m].op = "track" => \A w \in WorkersOf[m] : mgr'[m].page \in mapped'[m][w]
    BY <1>3, <2>3, <2>4 DEF PagesMapped
  <2>6. AllMapped(m, P) => AllAt(mapped')
    BY DEF AllMapped
  <2>7. ~is_sleeping'[m] => AllAt(mapped')
    BY <1>3, <2>1, <2>2 DEF HandlerEffect, SameSleeping
  <2>8. /\ adm'[a].op = "wake_map" => adm'[a].pages = P
        /\ adm'[a].op = "wake_weights" => AllAt(mapped')
    BY <1>3, <2>2, <2>6 DEF HandlerEffect, P
  <2> QED BY <1>2, <1>4, <2>5, <2>7, <2>8 DEF PagesMapped, P
<1> QED BY <1>5, <1>6

\* Every step keeps the pages of an awake model mapped.
LEMMA MappedNext ==
    ASSUME ListInv, GateInv, OneCallPerModel, OneCallPerModel', [Next]_vars, Undisturbed, failures' = failures,
           \A k \in Models : RecordsFollow(k) /\ PagesMapped(k)
    PROVE  \A k \in Models : PagesMapped(k)'
<1>1. CASE UNCHANGED vars
  BY <1>1, SameMapped DEF vars, MappedPages
<1>2. ASSUME NEW r \in Requests, RequestStep(r) PROVE \A k \in Models : PagesMapped(k)'
  BY <1>2, RequestMapped DEF Undisturbed
<1>3. ASSUME NEW m \in Models, ManagerStep(m) PROVE \A k \in Models : PagesMapped(k)'
  BY <1>3, ManagerMapped DEF Undisturbed
<1>4. CASE PreallocStep
  BY <1>4, PreallocPagesMapped
<1>5. ASSUME NEW a \in Handlers, HandlerStep(a) PROVE \A k \in Models : PagesMapped(k)'
  BY <1>5, HandlerMapped DEF Undisturbed
<1>6. ASSUME NEW a \in Handlers, HandlerBegins(a), NEW k \in Models PROVE PagesMapped(k)'
  <2>1. PICK m \in Models : SleepBegin(a, m) \/ WakeupBegin(a, m)
    BY <1>6 DEF HandlerBegins
  <2>2. /\ UNCHANGED <<is_sleeping, mapped, reserved, allocated, mgr>> /\ adm'[a].op \in {"sleep_cas", "wake_check"}
        /\ \A b \in Handlers : b # a => adm'[b] = adm[b]
    BY <2>1, BeginEffect
  <2>3. \A b \in Handlers : Serves(b, k)' /\ b # a => Serves(b, k) /\ adm'[b] = adm[b]
    BY <2>2 DEF Serves
  <2>4. MappedPages(k)' = MappedPages(k)
    BY <2>2 DEF MappedPages
  <2> QED BY <2>2, <2>3, <2>4 DEF PagesMapped
<1> QED BY <1>1, <1>2, <1>3, <1>4, <1>5, <1>6 DEF Next

\* SleepInv is inductive.
LEMMA SleepNext ==
    ASSUME ListInv, SleepInv, OneCallPerModel, OneCallPerModel', [Next]_vars
    PROVE  SleepInv'
<1>1. GateInv /\ GateInv'
  BY GateNext DEF SleepInv
<1>2. ASSUME Undisturbed' PROVE \A m \in Models : RecordsFollow(m)' /\ PagesMapped(m)'
  <2>1. Undisturbed /\ failures' = failures
    BY <1>1, <1>2, StaysDisturbed
  <2>2. \A m \in Models : RecordsFollow(m) /\ PagesMapped(m)
    BY <2>1 DEF SleepInv
  <2>3. \A m \in Models : RecordsFollow(m)'
    BY <1>1, <1>2, <2>1, <2>2, RecordsNext
  <2>4. \A m \in Models : PagesMapped(m)'
    BY <1>1, <2>1, <2>2, MappedNext
  <2> QED BY <2>3, <2>4
<1> QED BY <1>1, <1>2 DEF SleepInv

\* Unless a broadcast failed or a request slipped past the limiter, the limiter's
\* kSleeping, the master's status and the allocator's is_sleeping agree about
\* every model that no handler is working on: SleepHttp and WakeupHttp change all
\* three or none.
THEOREM RecordsAgree == Spec /\ []OneCallPerModel => []SleepRecordsAgree
<1>1. Init => ListInv /\ SleepInv
  BY ListInit, SleepInit
<1>2. ListInv /\ SleepInv /\ OneCallPerModel /\ OneCallPerModel' /\ [Next]_vars => ListInv' /\ SleepInv'
  BY ListNext, SleepNext
<1>3. SleepInv => SleepRecordsAgree
  BY DEF SleepInv, SleepRecordsAgree, RecordsFollow, Serves
<1> QED BY <1>1, <1>2, <1>3, PTL DEF Spec

\* Unless something failed, the allocated and the reserved pages of a model that
\* is awake have physical memory on all its workers: sleep_model unmaps them only
\* once the model sleeps, wakeup_model wakes it up only once they are mapped
\* again, and no page call or preallocation comes between.
THEOREM AwakePagesAreMapped == Spec /\ []OneCallPerModel => []PagesOfAwakeModelMapped
<1>1. Init => ListInv /\ SleepInv
  BY ListInit, SleepInit
<1>2. ListInv /\ SleepInv /\ OneCallPerModel /\ OneCallPerModel' /\ [Next]_vars => ListInv' /\ SleepInv'
  BY ListNext, SleepNext
<1>3. SleepInv => PagesOfAwakeModelMapped
  BY DEF SleepInv, PagesOfAwakeModelMapped, PagesMapped
<1> QED BY <1>1, <1>2, <1>3, PTL DEF Spec

-----------------------------------------------------------------------------
\* Sums over finite sets.

\* Induction over the subsets of a finite set, G being those of which it holds.
LEMMA SubsetInduction ==
    ASSUME NEW S, IsFiniteSet(S), NEW G,
           \A T \in SUBSET S : (\A U \in SUBSET T : U # T => U \in G) => T \in G
    PROVE  \A T \in SUBSET S : T \in G
<1> SUFFICES ASSUME \E T \in SUBSET S : T \notin G PROVE FALSE
  OBVIOUS
<1>0. \A T \in SUBSET S : IsFiniteSet(T) /\ Cardinality(T) \in Nat
  BY FS_Subset, FS_CardinalityType
<1> DEFINE N == {n \in Nat : \E T \in SUBSET S : T \notin G /\ Cardinality(T) = n}
<1>1. N \in SUBSET Nat /\ N # {}
  BY <1>0
<1>2. PICK n \in N : \A k \in N : n <= k
  BY <1>1, LeastElement
<1>3. PICK T \in SUBSET S : T \notin G /\ Cardinality(T) = n
  BY <1>2
<1>4. ASSUME NEW U \in SUBSET T, U # T PROVE U \in G
  <2> SUFFICES ASSUME U \notin G PROVE FALSE
    OBVIOUS
  <2>1. Cardinality(U) < n /\ U \in SUBSET S
    BY <1>0, <1>3, <1>4, FS_Subset
  <2>2. Cardinality(U) \in N
    BY <1>0, <2>1
  <2> QED BY <1>0, <1>1, <1>2, <2>1, <2>2
<1> QED BY <1>3, <1>4

\* The equation of the fold that sums f over the subsets of S.
Pick(s) == CHOOSE x \in s : TRUE
IsSum(g, f, D) ==
    g = [s \in D |-> IF s = {} THEN 0 ELSE f[Pick(s)] + g[s \ {Pick(s)}]]
SumFcn(f, S) == CHOOSE g : IsSum(g, f, SUBSET S)

\* The sum is the value of that fold.
LEMMA SumUnfolds ==
    ASSUME NEW f, NEW S
    PROVE  SumFunctionOnSet(f, S) = SumFcn(f, S)[S]
BY DEF SumFunctionOnSet, FoldFunctionOnSet, MapThenFoldSet, SumFcn, IsSum, Pick

\* The equation has a solution on the subsets of a finite set.
LEMMA SumExists ==
    ASSUME NEW f, NEW S, IsFiniteSet(S)
    PROVE  IsSum(SumFcn(f, S), f, SUBSET S)
<1>0. \A T \in SUBSET S : IsFiniteSet(T) /\ Cardinality(T) \in Nat
  BY FS_Subset, FS_CardinalityType
<1> DEFINE D(n) == {s \in SUBSET S : Cardinality(s) <= n}
           N == {n \in Nat : ~ \E g : IsSum(g, f, D(n))}
<1>1. N = {}
  <2> SUFFICES ASSUME N # {} PROVE FALSE
    OBVIOUS
  <2>1. PICK n \in N : \A k \in N : n <= k
    BY LeastElement
  <2>2. \A s \in SUBSET S : Cardinality(s) = 0 => s = {}
    BY <1>0, FS_EmptySet
  <2>3. n # 0
    <3> SUFFICES ASSUME n = 0 PROVE FALSE
      OBVIOUS
    <3> DEFINE g == [s \in D(0) |-> 0]
    <3>1. \A s \in D(0) : s = {}
      BY <1>0, <2>2
    <3> HIDE DEF D
    <3>2. IsSum(g, f, D(0))
      BY <3>1 DEF IsSum
    <3> QED BY <2>1, <3>2
  <2>4. n - 1 \in Nat /\ n - 1 \notin N
    <3>1. N \in SUBSET Nat
      OBVIOUS
    <3> HIDE DEF N
    <3>2. n \in Nat /\ ~(n <= n - 1)
      BY <3>1
    <3> QED BY <2>1, <2>3, <3>2
  <2>5. PICK h : IsSum(h, f, D(n - 1))
    BY <2>4
  <2>6. ASSUME NEW s \in D(n), s # {}
        PROVE  s \ {Pick(s)} \in D(n - 1) /\ s \ {Pick(s)} \in D(n)
    <3>1. Pick(s) \in s
      BY <2>6 DEF Pick
    <3>2. Cardinality(s \ {Pick(s)}) = Cardinality(s) - 1
      BY <1>0, <3>1, FS_RemoveElement
    <3> QED BY <1>0, <2>1, <2>3, <3>2
  <2> DEFINE g == [s \in D(n) |-> IF s = {} THEN 0 ELSE f[Pick(s)] + h[s \ {Pick(s)}]]
  <2> HIDE DEF D
  <2>7. ASSUME NEW t \in D(n - 1), t \in D(n) PROVE g[t] = h[t]
    BY <2>5, <2>7 DEF IsSum
  <2>8. ASSUME NEW s \in D(n), s # {} PROVE g[s] = f[Pick(s)] + g[s \ {Pick(s)}]
    <3>1. g[s \ {Pick(s)}] = h[s \ {Pick(s)}]
      BY <2>6, <2>7, <2>8
    <3> QED BY <2>8, <3>1
  <2>9. {} \in D(n) => g[{}] = 0
    OBVIOUS
  <2>10. g = [s \in D(n) |-> g[s]]
    OBVIOUS
  <2> HIDE DEF g
  <2>11. \A s \in D(n) : g[s] = IF s = {} THEN 0 ELSE f[Pick(s)] + g[s \ {Pick(s)}]
    BY <2>8, <2>9
  <2>12. IsSum(g, f, D(n))
    BY <2>10, <2>11 DEF IsSum
  <2> QED BY <2>1, <2>12
<1>2. PICK g : IsSum(g, f, D(Cardinality(S)))
  BY <1>0, <1>1
<1>3. D(Cardinality(S)) = SUBSET S
  BY <1>0, FS_Subset
<1>4. IsSum(g, f, SUBSET S)
  BY <1>2, <1>3
<1> QED BY <1>4 DEF SumFcn

\* Solutions on two sets agree on the subsets of both.
LEMMA SumAgrees ==
    ASSUME NEW f, NEW S, IsFiniteSet(S), NEW T \in SUBSET S
    PROVE  SumFcn(f, S)[T] = SumFcn(f, T)[T]
<1> DEFINE g == SumFcn(f, S)
           h == SumFcn(f, T)
           G == {U \in SUBSET T : g[U] = h[U]}
<1>0. IsFiniteSet(T)
  BY FS_Subset
<1>1. IsSum(g, f, SUBSET S) /\ IsSum(h, f, SUBSET T)
  BY <1>0, SumExists
<1> HIDE DEF g, h
<1>2. ASSUME NEW U \in SUBSET T
      PROVE  /\ g[U] = IF U = {} THEN 0 ELSE f[Pick(U)] + g[U \ {Pick(U)}]
             /\ h[U] = IF U = {} THEN 0 ELSE f[Pick(U)] + h[U \ {Pick(U)}]
  BY <1>1 DEF IsSum
<1>3. ASSUME NEW U \in SUBSET T, \A V \in SUBSET U : V # U => V \in G
      PROVE  U \in G
  <2>1. U # {} => Pick(U) \in U
    BY DEF Pick
  <2>2. U # {} => U \ {Pick(U)} \in G
    BY <1>3, <2>1
  <2> QED BY <1>2, <2>2
<1>4. \A U \in SUBSET T : U \in G
  <2> HIDE DEF G
  <2> QED BY <1>0, <1>3, SubsetInduction
<1>5. g[T] = h[T]
  BY <1>4
<1> QED BY <1>5 DEF g, h

\* Sums by the element that the fold picks, then by any element.
LEMMA SumOfEmpty ==
    ASSUME NEW f
    PROVE  SumFunctionOnSet(f, {}) = 0
<1>1. IsSum(SumFcn(f, {}), f, SUBSET {})
  BY SumExists, FS_EmptySet
<1> QED BY <1>1, SumUnfolds DEF IsSum

\* The sum takes one element out of the set after another.
LEMMA SumPicks ==
    ASSUME NEW f, NEW S, IsFiniteSet(S), S # {}
    PROVE  /\ Pick(S) \in S
           /\ SumFunctionOnSet(f, S) = f[Pick(S)] + SumFunctionOnSet(f, S \ {Pick(S)})
<1> DEFINE T == S \ {Pick(S)}
<1>1. Pick(S) \in S
  BY DEF Pick
<1>2. SumFcn(f, S)[S] = f[Pick(S)] + SumFcn(f, S)[T]
  <2> DEFINE g == SumFcn(f, S)
  <2>1. IsSum(g, f, SUBSET S)
    BY SumExists
  <2> HIDE DEF g
  <2>2. g[S] = f[Pick(S)] + g[T]
    BY <2>1 DEF IsSum
  <2> QED BY <2>2 DEF g
<1>3. SumFcn(f, S)[T] = SumFcn(f, T)[T]
  BY SumAgrees
<1> QED BY <1>1, <1>2, <1>3, SumUnfolds

\* The sum of natural numbers is one.
LEMMA SumIsNat ==
    ASSUME NEW f, NEW S, IsFiniteSet(S), \A x \in S : f[x] \in Nat
    PROVE  SumFunctionOnSet(f, S) \in Nat
<1> DEFINE G == {T \in SUBSET S : SumFunctionOnSet(f, T) \in Nat}
<1>1. ASSUME NEW T \in SUBSET S, \A U \in SUBSET T : U # T => U \in G
      PROVE  T \in G
  <2>1. CASE T = {}
    BY <2>1, SumOfEmpty
  <2>2. CASE T # {}
    <3>1. Pick(T) \in T /\ SumFunctionOnSet(f, T) = f[Pick(T)] + SumFunctionOnSet(f, T \ {Pick(T)})
      BY <2>2, SumPicks, FS_Subset
    <3>2. T \ {Pick(T)} \in G
      BY <1>1, <3>1
    <3>3. f[Pick(T)] \in Nat /\ SumFunctionOnSet(f, T \ {Pick(T)}) \in Nat
      BY <3>1, <3>2
    <3> QED BY <3>1, <3>3
  <2> QED BY <2>1, <2>2
<1>2. \A T \in SUBSET S : T \in G
  <2> HIDE DEF G
  <2> QED BY <1>1, SubsetInduction
<1> QED BY <1>2

\* Any element of the set may be taken first.
LEMMA SumTakes ==
    ASSUME NEW f, NEW S, IsFiniteSet(S), \A x \in S : f[x] \in Nat, NEW e \in S
    PROVE  SumFunctionOnSet(f, S) = f[e] + SumFunctionOnSet(f, S \ {e})
<1> DEFINE Sum(T) == SumFunctionOnSet(f, T)
           G == {T \in SUBSET S : \A x \in T : Sum(T) = f[x] + Sum(T \ {x})}
<1>0. \A T \in SUBSET S : IsFiniteSet(T) /\ Sum(T) \in Nat
  BY SumIsNat, FS_Subset
<1>1. ASSUME NEW T \in SUBSET S, T # {}
      PROVE  Pick(T) \in T /\ Sum(T) = f[Pick(T)] + Sum(T \ {Pick(T)})
  BY <1>0, <1>1, SumPicks
<1> HIDE DEF Sum
<1>2. ASSUME NEW T \in SUBSET S, \A U \in SUBSET T : U # T => U \in G, NEW x \in T
      PROVE  Sum(T) = f[x] + Sum(T \ {x})
  <2> DEFINE p == Pick(T)
  <2>1. p \in T /\ Sum(T) = f[p] + Sum(T \ {p})
    BY <1>1
  <2> HIDE DEF p
  <2>2. CASE p = x
    BY <2>1, <2>2
  <2>3. CASE p # x
    <3>1. Sum(T \ {p}) = f[x] + Sum((T \ {p}) \ {x})
      <4>1. T \ {p} \in G /\ x \in T \ {p}
        BY <1>2, <2>1, <2>3
      <4> QED BY <4>1
    <3>2. Sum(T \ {x}) = f[p] + Sum((T \ {x}) \ {p})
      <4>1. T \ {x} \in G /\ p \in T \ {x}
        BY <1>2, <2>1, <2>3
      <4> QED BY <4>1
    <3>3. (T \ {p}) \ {x} = (T \ {x}) \ {p}
      OBVIOUS
    <3>4. f[p] \in Nat /\ f[x] \in Nat /\ Sum((T \ {x}) \ {p}) \in Nat
      BY <1>0, <2>1
    <3> DEFINE q == Sum((T \ {x}) \ {p})
    <3>5. Sum(T \ {p}) = f[x] + q /\ Sum(T \ {x}) = f[p] + q /\ q \in Nat
      BY <3>1, <3>2, <3>3, <3>4
    <3> HIDE DEF q
    <3>6. Sum(T) = f[p] + (f[x] + q)
      BY <2>1, <3>5
    <3>7. \A i, j, k \in Nat : i + (j + k) = j + (i + k)
      OBVIOUS
    <3>8. Sum(T) = f[x] + (f[p] + q)
      BY ONLY <3>4, <3>5, <3>6, <3>7
    <3> QED BY <3>5, <3>8
  <2> QED BY <2>2, <2>3
<1>3. \A T \in SUBSET S : (\A U \in SUBSET T : U # T => U \in G) => T \in G
  BY <1>2
<1>4. \A T \in SUBSET S : T \in G
  <2> HIDE DEF G
  <2> QED BY <1>3, SubsetInduction
<1>5. Sum(S) = f[e] + Sum(S \ {e})
  BY <1>4
<1> QED BY <1>5 DEF Sum

\* A sum is no greater where no summand is.
LEMMA SumCompares ==
    ASSUME NEW f, NEW g, NEW S, IsFiniteSet(S),
           \A x \in S : f[x] \in Nat /\ g[x] \in Nat /\ f[x] <= g[x]
    PROVE  SumFunctionOnSet(f, S) <= SumFunctionOnSet(g, S)
<1> DEFINE F(T) == SumFunctionOnSet(f, T)
           H(T) == SumFunctionOnSet(g, T)
           G == {T \in SUBSET S : F(T) <= H(T)}
<1>0. \A T \in SUBSET S : F(T) \in Nat /\ H(T) \in Nat
  BY SumIsNat, FS_Subset
<1>1. ASSUME NEW T \in SUBSET S, NEW x \in T
      PROVE  F(T) = f[x] + F(T \ {x}) /\ H(T) = g[x] + H(T \ {x})
  BY SumTakes, FS_Subset
<1>2. F({}) = 0 /\ H({}) = 0
  BY SumOfEmpty
<1> HIDE DEF F, H
<1>3. ASSUME NEW T \in SUBSET S, \A U \in SUBSET T : U # T => U \in G
      PROVE  T \in G
  <2>1. CASE T = {}
    BY <1>2, <2>1
  <2>2. ASSUME NEW x \in T PROVE T \in G
    <3>1. T \ {x} \in G
      BY <1>3
    <3>2. F(T \ {x}) <= H(T \ {x}) /\ F(T \ {x}) \in Nat /\ H(T \ {x}) \in Nat
      BY <1>0, <3>1
    <3>3. f[x] \in Nat /\ g[x] \in Nat /\ f[x] <= g[x]
      OBVIOUS
    <3> QED BY <1>1, <3>2, <3>3
  <2> QED BY <2>1, <2>2
<1>4. \A T \in SUBSET S : T \in G
  <2> HIDE DEF G
  <2> QED BY <1>3, SubsetInduction
<1>5. F(S) <= H(S)
  BY <1>4
<1> QED BY <1>5 DEF F, H

\* The sum of equal summands, of all but one, of summands that are zero.
LEMMA SumIsEqual ==
    ASSUME NEW f, NEW g, NEW S, IsFiniteSet(S), \A x \in S : f[x] \in Nat /\ f[x] = g[x]
    PROVE  SumFunctionOnSet(f, S) = SumFunctionOnSet(g, S)
<1>1. SumFunctionOnSet(f, S) <= SumFunctionOnSet(g, S) /\ SumFunctionOnSet(g, S) <= SumFunctionOnSet(f, S)
  BY SumCompares
<1>2. SumFunctionOnSet(f, S) \in Nat /\ SumFunctionOnSet(g, S) \in Nat
  BY SumIsNat
<1> QED BY <1>1, <1>2

\* Two functions that differ in one place, and their sums.
LEMMA SumChangesAt ==
    ASSUME NEW f, NEW g, NEW S, IsFiniteSet(S), \A x \in S : f[x] \in Nat /\ g[x] \in Nat,
           NEW e \in S, \A x \in S : x # e => f[x] = g[x]
    PROVE  /\ SumFunctionOnSet(f, S) + g[e] = SumFunctionOnSet(g, S) + f[e]
           /\ f[e] <= SumFunctionOnSet(f, S)
           /\ SumFunctionOnSet(f, S) \in Nat /\ SumFunctionOnSet(g, S) \in Nat
<1>1. SumFunctionOnSet(f, S) = f[e] + SumFunctionOnSet(f, S \ {e})
  BY SumTakes
<1>2. SumFunctionOnSet(g, S) = g[e] + SumFunctionOnSet(g, S \ {e})
  BY SumTakes
<1>3. IsFiniteSet(S \ {e})
  BY FS_Subset
<1>4. SumFunctionOnSet(f, S \ {e}) = SumFunctionOnSet(g, S \ {e})
  BY <1>3, SumIsEqual
<1>5. SumFunctionOnSet(f, S \ {e}) \in Nat /\ f[e] \in Nat /\ g[e] \in Nat
  BY <1>3, SumIsNat
<1> QED BY <1>1, <1>2, <1>4, <1>5

\* Places where a function is zero add nothing to its sum.
LEMMA SumRestricts ==
    ASSUME NEW f, NEW g, NEW S, IsFiniteSet(S), NEW R \in SUBSET S, \A x \in S : f[x] \in Nat,
           \A x \in S : g[x] = IF x \in R THEN f[x] ELSE 0
    PROVE  SumFunctionOnSet(g, S) = SumFunctionOnSet(f, R)
<1> DEFINE F(T) == SumFunctionOnSet(f, T \intersect R)
           H(T) == SumFunctionOnSet(g, T)
           G == {T \in SUBSET S : F(T) = H(T)}
<1>0. \A T \in SUBSET S : F(T) \in Nat /\ H(T) \in Nat
  <2>1. \A T \in SUBSET S : IsFiniteSet(T) /\ IsFiniteSet(T \intersect R)
    BY FS_Subset
  <2> QED BY <2>1, SumIsNat
<1>1. ASSUME NEW T \in SUBSET S, NEW x \in T
      PROVE  H(T) = g[x] + H(T \ {x}) /\ F(T) = g[x] + F(T \ {x})
  <2>0. IsFiniteSet(T) /\ IsFiniteSet(T \intersect R)
    BY FS_Subset
  <2>1. H(T) = g[x] + H(T \ {x})
    BY <2>0, SumTakes
  <2>2. CASE x \in R
    <3>1. SumFunctionOnSet(f, T \intersect R) = f[x] + SumFunctionOnSet(f, (T \intersect R) \ {x})
      BY <2>0, <2>2, SumTakes
    <3>2. (T \intersect R) \ {x} = (T \ {x}) \intersect R
      OBVIOUS
    <3> QED BY <2>1, <2>2, <3>1, <3>2
  <2>3. CASE x \notin R
    <3>1. T \intersect R = (T \ {x}) \intersect R /\ g[x] = 0
      BY <2>3
    <3>2. F(T) \in Nat /\ F(T) = F(T \ {x})
      BY <1>0, <3>1
    <3> HIDE DEF F, H
    <3> QED BY <2>1, <3>1, <3>2
  <2> QED BY <2>2, <2>3
<1>2. F({}) = 0 /\ H({}) = 0
  <2>1. {} \intersect R = {}
    OBVIOUS
  <2> QED BY <2>1, SumOfEmpty
<1> HIDE DEF F, H
<1>3. ASSUME NEW T \in SUBSET S, \A U \in SUBSET T : U # T => U \in G
      PROVE  T \in G
  <2>1. CASE T = {}
    BY <1>2, <2>1
  <2>2. ASSUME NEW x \in T PROVE T \in G
    <3>1. T \ {x} \in G
      BY <1>3
    <3> QED BY <1>1, <3>1
  <2> QED BY <2>1, <2>2
<1>4. \A T \in SUBSET S : T \in G
  <2> HIDE DEF G
  <2> QED BY <1>3, SubsetInduction
<1>5. F(S) = H(S)
  BY <1>4
<1>6. S \intersect R = R
  OBVIOUS
<1> QED BY <1>5, <1>6 DEF F, H

\* The sum of sums.
LEMMA SumAdds ==
    ASSUME NEW f, NEW g, NEW h, NEW S, IsFiniteSet(S),
           \A x \in S : f[x] \in Nat /\ g[x] \in Nat /\ h[x] = f[x] + g[x]
    PROVE  SumFunctionOnSet(h, S) = SumFunctionOnSet(f, S) + SumFunctionOnSet(g, S)
<1> DEFINE F(T) == SumFunctionOnSet(f, T)
           H(T) == SumFunctionOnSet(g, T)
           K(T) == SumFunctionOnSet(h, T)
           G == {T \in SUBSET S : K(T) = F(T) + H(T)}
<1>0. \A T \in SUBSET S : F(T) \in Nat /\ H(T) \in Nat
  BY SumIsNat, FS_Subset
<1>1. ASSUME NEW T \in SUBSET S, NEW x \in T
      PROVE  F(T) = f[x] + F(T \ {x}) /\ H(T) = g[x] + H(T \ {x}) /\ K(T) = h[x] + K(T \ {x})
  <2>1. IsFiniteSet(T) /\ \A y \in T : f[y] \in Nat /\ g[y] \in Nat /\ h[y] \in Nat
    BY FS_Subset
  <2> QED BY <2>1, SumTakes
<1>2. F({}) = 0 /\ H({}) = 0 /\ K({}) = 0
  BY SumOfEmpty
<1> HIDE DEF F, H, K
<1>3. ASSUME NEW T \in SUBSET S, \A U \in SUBSET T : U # T => U \in G
      PROVE  T \in G
  <2>1. CASE T = {}
    BY <1>2, <2>1
  <2>2. ASSUME NEW x \in T PROVE T \in G
    <3>1. T \ {x} \in G
      BY <1>3
    <3> DEFINE i == F(T \ {x})
               j == H(T \ {x})
    <3>2. K(T \ {x}) = i + j /\ i \in Nat /\ j \in Nat
      BY <1>0, <3>1
    <3>3. F(T) = f[x] + i /\ H(T) = g[x] + j /\ K(T) = (f[x] + g[x]) + (i + j)
      BY <1>1, <3>2
    <3> HIDE DEF i, j
    <3>4. K(T) = F(T) + H(T)
      BY <3>2, <3>3
    <3> QED BY <3>4
  <2> QED BY <2>1, <2>2
<1>4. \A T \in SUBSET S : T \in G
  <2> HIDE DEF G
  <2> QED BY <1>3, SubsetInduction
<1>5. K(S) = F(S) + H(S)
  BY <1>4
<1> QED BY <1>5 DEF F, H, K

-----------------------------------------------------------------------------
\* Physical pages.

\* The greatest element of a bounded set of natural numbers.
LEMMA MaxOfBounded ==
    ASSUME NEW S \in SUBSET Nat, S # {}, NEW b \in Nat, \A x \in S : x <= b
    PROVE  Max(S) \in S /\ \A y \in S : y <= Max(S)
<1> DEFINE T == {n \in Nat : \A x \in S : x <= n}
<1>1. b \in T
  OBVIOUS
<1>2. PICK m \in T : \A n \in T : m <= n
  BY <1>1, LeastElement
<1>3. m \in S
  <2> SUFFICES ASSUME m \notin S PROVE FALSE
    OBVIOUS
  <2>1. PICK x \in S : TRUE
    OBVIOUS
  <2>2. m \in Nat /\ \A y \in S : y <= m /\ y # m /\ y \in Nat
    BY <1>2
  <2>3. m - 1 \in Nat /\ \A y \in S : y <= m - 1
    BY <2>1, <2>2
  <2>4. m - 1 \in T
    BY <2>3
  <2> QED BY <1>2, <2>2, <2>4
<1>4. \A y \in S : m >= y
  BY <1>2
<1>5. \E x \in S : \A y \in S : x >= y
  BY <1>3, <1>4
<1>6. Max(S) \in S /\ \A y \in S : Max(S) >= y
  BY <1>5 DEF Max
<1> QED BY <1>6

\* model_states_ holds finitely many models.
LEMMA ModelsFinite == IsFiniteSet(Models)
BY OrderAssumption, QueueCardinality

\* A worker of the model has at least the pages MinFreePages says.
LEMMA MinFreeIsFree ==
    ASSUME NEW us, \A w \in Workers : us[w] \in Nat, NEW m \in Models, NEW w \in WorkersOf[m]
    PROVE  /\ MinFreePages(us, m) \in Int
           /\ us[w] + MinFreePages(us, m) <= PhyPages
<1> DEFINE S == {us[v] : v \in WorkersOf[m]}
           b == SumFunctionOnSet(us, WorkersOf[m])
<1>1. IsFiniteSet(WorkersOf[m]) /\ \A v \in WorkersOf[m] : us[v] \in Nat
  BY WorkersAssumption, FS_Subset
<1>2. b \in Nat /\ \A v \in WorkersOf[m] : us[v] <= b
  BY <1>1, SumIsNat, SumChangesAt
<1>3. S \in SUBSET Nat /\ S # {} /\ \A x \in S : x <= b
  BY <1>1, <1>2
<1> HIDE DEF b
<1>4. Max(S) \in S /\ \A y \in S : y <= Max(S)
  BY <1>2, <1>3, MaxOfBounded
<1>5. us[w] \in S
  OBVIOUS
<1>6. MinFreePages(us, m) = PhyPages - Max(S)
  BY DEF MinFreePages
<1> HIDE DEF S
<1>7. us[w] \in Nat /\ Max(S) \in Nat /\ us[w] <= Max(S) /\ PhyPages \in Nat
  BY <1>3, <1>4, <1>5, PagesAssumption
<1> QED BY <1>6, <1>7

\* Releasing pages never takes a worker's count below zero.
LEMMA ReleaseClamps ==
    ASSUME NEW us, NEW m \in Models, NEW n \in Nat, NEW w \in Workers, us[w] \in Nat
    PROVE  ReleasePages(us, m, n)[w] = IF w \in WorkersOf[m] THEN (IF us[w] >= n THEN us[w] - n ELSE 0) ELSE us[w]
<1> DEFINE S == {us[w] - n, 0}
           x == IF us[w] >= n THEN us[w] - n ELSE 0
<1>1. x \in S /\ (\A y \in S : x >= y) /\ \A z \in S : z >= x => z = x
  OBVIOUS
<1>2. Max(S) \in S /\ Max(S) >= x
  BY <1>1 DEF Max
<1>3. Max(S) = x
  BY <1>1, <1>2
<1> QED BY <1>3 DEF ReleasePages

\* The count of a worker is a number of pages of its pool.
LEMMA NatOfInterval ==
    ASSUME PoolInv
    PROVE  \A w \in Workers : used[w] \in Nat /\ used[w] <= PhyPages
BY PagesAssumption DEF PoolInv

\* The pool after pages were taken from it or given back.
LEMMA PoolTakes ==
    ASSUME PoolInv, NEW m \in Models, NEW d \in Nat, MinFreePages(used, m) >= d,
           used' = ConsumePages(used, m, d)
    PROVE  PoolInv'
<1>1. \A w \in Workers : used[w] \in Nat /\ used[w] <= PhyPages
  BY NatOfInterval
<1>2. ASSUME NEW w \in Workers PROVE used'[w] \in 0 .. PhyPages
  <2>1. CASE w \in WorkersOf[m]
    <3>1. MinFreePages(used, m) \in Int /\ used[w] + MinFreePages(used, m) <= PhyPages
      BY <1>1, <2>1, MinFreeIsFree
    <3>2. used'[w] = used[w] + d
      BY <2>1 DEF ConsumePages
    <3> QED BY <1>1, <3>1, <3>2, PagesAssumption
  <2>2. CASE w \notin WorkersOf[m]
    BY <1>1, <2>2, PagesAssumption DEF ConsumePages
  <2> QED BY <2>1, <2>2
<1> QED BY <1>2 DEF PoolInv, ConsumePages

\* And when pages were given back.
LEMMA PoolGives ==
    ASSUME PoolInv, NEW m \in Models, NEW d \in Nat, used' = ReleasePages(used, m, d)
    PROVE  PoolInv'
<1>1. \A w \in Workers : used[w] \in Nat /\ used[w] <= PhyPages
  BY NatOfInterval
<1>2. ASSUME NEW w \in Workers PROVE used'[w] \in 0 .. PhyPages
  <2>1. used'[w] = IF w \in WorkersOf[m] THEN (IF used[w] >= d THEN used[w] - d ELSE 0) ELSE used[w]
    BY <1>1, ReleaseClamps
  <2> QED BY <1>1, <2>1, PagesAssumption
<1> QED BY <1>2 DEF PoolInv, ReleasePages

\* Whole pages that fit into M physical pages.
LEMMA DivFits ==
    ASSUME NEW M \in Int, NEW P \in Nat \ {0}, NEW n \in Nat, n <= M \div P
    PROVE  n * P <= M
<1> DEFINE q == M \div P
<1>1. q \in Int /\ q * P <= M
  OBVIOUS
<1> HIDE DEF q
<1>2. n <= q
  BY DEF q
<1>3. \A a, b \in Int, c \in Nat : a <= b => a * c <= b * c
  OBVIOUS
<1>4. n * P <= q * P
  BY <1>1, <1>2, <1>3
<1>5. n * P \in Int /\ q * P \in Int
  BY <1>1
<1> QED BY <1>1, <1>4, <1>5

\* The least of three numbers.
LEMMA MinOfThree ==
    ASSUME NEW a \in Int, NEW b \in Int, NEW c \in Int
    PROVE  Min({a, b, c}) <= c
<1> DEFINE S == {a, b, c}
           x == IF a <= b /\ a <= c THEN a ELSE IF b <= c THEN b ELSE c
<1>1. x \in S /\ \A y \in S : x <= y
  OBVIOUS
<1>2. Min(S) \in S /\ \A y \in S : Min(S) <= y
  BY <1>1 DEF Min
<1> QED BY <1>2

\* What a round of the preallocation thread takes from a worker for every model.
PlanCost(n, w) == [k \in Models |-> IF w \in WorkersOf[k] THEN n[k] * PhyPerVirt[k] ELSE 0]

\* UsedAfter adds these costs to what is used.
LEMMA PlanCosts ==
    ASSUME NEW n \in Plans, NEW w \in Workers
    PROVE  /\ \A k \in Models : PlanCost(n, w)[k] \in Nat
           /\ \A S \in SUBSET Models : /\ SumFunctionOnSet(PlanCost(n, w), S) \in Nat
                                       /\ UsedAfter(n, S)[w] = used[w] + SumFunctionOnSet(PlanCost(n, w), S)
<1> DEFINE f == [k \in Models |-> n[k] * PhyPerVirt[k]]
           g == PlanCost(n, w)
<1>1. \A k \in Models : n[k] \in Nat /\ PhyPerVirt[k] \in Nat
  BY PagesAssumption, ReserveAssumption DEF Plans
<1>2. \A k \in Models : f[k] \in Nat /\ g[k] = IF w \in WorkersOf[k] THEN f[k] ELSE 0
  BY <1>1 DEF PlanCost
<1>3. ASSUME NEW S \in SUBSET Models
      PROVE  /\ SumFunctionOnSet(g, S) \in Nat
             /\ UsedAfter(n, S)[w] = used[w] + SumFunctionOnSet(g, S)
  <2> DEFINE R == {k \in S : w \in WorkersOf[k]}
  <2>1. UsedAfter(n, S)[w] = used[w] + SumFunctionOnSet(f, R)
    BY DEF UsedAfter
  <2>2. IsFiniteSet(S) /\ (\A k \in S : f[k] \in Nat) /\ \A k \in S : g[k] = IF k \in R THEN f[k] ELSE 0
    BY <1>2, ModelsFinite, FS_Subset
  <2> HIDE DEF f, g
  <2>3. SumFunctionOnSet(g, S) = SumFunctionOnSet(f, R)
    BY <2>2, SumRestricts
  <2>4. SumFunctionOnSet(g, S) \in Nat
    <3>1. \A k \in S : g[k] \in Nat
      BY <2>2
    <3> QED BY <2>2, <3>1, SumIsNat
  <2> QED BY <2>1, <2>3, <2>4
<1> QED BY <1>2, <1>3

\* A round plans no more than the pool has: the last model that takes pages of a
\* worker finds room for them there.
LEMMA ScanFits ==
    ASSUME TypeOK, PoolInv, NEW n \in Plans, IsPlan(n), NEW w \in Workers
    PROVE  UsedAfter(n, Models)[w] \in 0 .. PhyPages
<1> DEFINE g == PlanCost(n, w)
           Sum(S) == SumFunctionOnSet(g, S)
           D == {j \in DOMAIN ModelOrder : g[ModelOrder[j]] # 0}
<1>0. PhyPages \in Nat /\ \A v \in Workers : used[v] \in Nat /\ used[v] <= PhyPages
  BY NatOfInterval, PagesAssumption
<1>1. /\ \A k \in Models : g[k] \in Nat
      /\ \A S \in SUBSET Models : Sum(S) \in Nat /\ UsedAfter(n, S)[w] = used[w] + Sum(S)
  BY PlanCosts
<1>2. /\ ModelOrder \in Seq(Models) /\ DOMAIN ModelOrder = 1 .. Len(ModelOrder) /\ Len(ModelOrder) \in Nat
      /\ \A k \in Models : \E j \in DOMAIN ModelOrder : ModelOrder[j] = k
      /\ \A i, j \in DOMAIN ModelOrder : ModelOrder[i] = ModelOrder[j] => i = j
      /\ \A j \in DOMAIN ModelOrder : ModelOrder[j] \in Models
  BY OrderAssumption DEF Range, IsInjective
<1>3. CASE D = {}
  <2>1. \A k \in Models : g[k] = 0
    BY <1>2, <1>3
  <2>2. Sum(Models) = Sum({})
    <3> HIDE DEF g
    <3> QED BY <1>1, <2>1, ModelsFinite, SumRestricts
  <2>3. Sum({}) = 0
    BY SumOfEmpty
  <2> HIDE DEF Sum
  <2> QED BY <1>0, <1>1, <2>2, <2>3
<1>4. CASE D # {}
  <2>1. PICK j \in D : \A i \in D : i <= j
    <3>1. D \in SUBSET Nat /\ \A i \in D : i <= Len(ModelOrder)
      BY <1>2
    <3> HIDE DEF D
    <3> QED BY <1>2, <1>4, <3>1, MaxOfBounded
  <2> DEFINE k == ModelOrder[j]
             U == UsedAfter(n, Earlier(k))
  <2>2. k \in Models /\ g[k] # 0 /\ j \in DOMAIN ModelOrder
    BY <1>2, <2>1
  <2>3. /\ Earlier(k) \in SUBSET (Models \ {k})
        /\ \A x \in Models \ {k} : x \notin Earlier(k) => g[x] = 0
    <3>1. ASSUME NEW x \in Models \ {k}, x \notin Earlier(k) PROVE g[x] = 0
      <4>1. PICK i \in DOMAIN ModelOrder : ModelOrder[i] = x
        BY <1>2
      <4>2. i # j /\ ~(i < j)
        BY <2>2, <3>1, <4>1 DEF Earlier
      <4>3. ~(i <= j)
        BY <1>2, <2>2, <4>2
      <4>4. i \notin D
        BY <2>1, <4>3
      <4> QED BY <4>1, <4>4
    <3>2. ASSUME NEW x \in Earlier(k) PROVE x \in Models /\ x # k
      <4>1. PICK i, l \in DOMAIN ModelOrder : i < l /\ ModelOrder[i] = x /\ ModelOrder[l] = k /\ x \in Models
        BY DEF Earlier
      <4>2. i # l
        BY <1>2, <4>1
      <4> QED BY <1>2, <4>1, <4>2
    <3> QED BY <3>1, <3>2
  <2> HIDE DEF D, k
  <2>4. Sum(Models) = g[k] + Sum(Models \ {k})
    BY <1>1, <2>2, ModelsFinite, SumTakes
  <2>5. Sum(Models \ {k}) = Sum(Earlier(k))
    <3> HIDE DEF g
    <3>1. IsFiniteSet(Models \ {k}) /\ (\A x \in Models \ {k} : g[x] \in Nat)
          /\ \A x \in Models \ {k} : g[x] = IF x \in Earlier(k) THEN g[x] ELSE 0
      BY <1>1, <2>3, ModelsFinite, FS_Subset
    <3> QED BY <2>3, <3>1, SumRestricts
  <2>6. \A v \in Workers : U[v] \in Nat
    <3>1. ASSUME NEW v \in Workers PROVE U[v] \in Nat
      <4>1. U[v] = used[v] + SumFunctionOnSet(PlanCost(n, v), Earlier(k)) /\ SumFunctionOnSet(PlanCost(n, v), Earlier(k)) \in Nat
        BY <2>3, PlanCosts
      <4> QED BY <1>0, <4>1
    <3> QED BY <3>1
  <2>7. w \in WorkersOf[k] /\ g[k] = n[k] * PhyPerVirt[k] /\ n[k] \in Nat /\ n[k] # 0 /\ PhyPerVirt[k] \in Nat \ {0}
    <3>1. n[k] \in Nat /\ PhyPerVirt[k] \in Nat \ {0}
      BY <2>2, PagesAssumption, ReserveAssumption DEF Plans
    <3>2. w \in WorkersOf[k] /\ g[k] = n[k] * PhyPerVirt[k]
      BY <2>2 DEF PlanCost
    <3>3. n[k] = 0 => n[k] * PhyPerVirt[k] = 0
      BY <3>1
    <3> QED BY <2>2, <3>1, <3>2, <3>3
  <2>8. n[k] = NumToReserve(U, k)
    <3>1. n[k] = PlanOf(U, k)
      BY <2>2 DEF IsPlan
    <3> QED BY <2>7, <3>1 DEF PlanOf
  <2>9. MinFreePages(U, k) \in Int /\ U[w] + MinFreePages(U, k) <= PhyPages
    BY <2>2, <2>6, <2>7, MinFreeIsFree
  <2>10. n[k] <= MinFreePages(U, k) \div PhyPerVirt[k]
    <3> DEFINE x == Max({MinReserved - Len(reserved[k]), 0})
               y == Len(free[k])
               z == MinFreePages(U, k) \div PhyPerVirt[k]
    <3>1. MinReserved - Len(reserved[k]) \in Int /\ y \in Int /\ z \in Int
      BY <2>2, <2>7, <2>9, ReserveAssumption, TypesOf
    <3>2. x \in Int
      <4> DEFINE e == MinReserved - Len(reserved[k])
      <4> HIDE DEF e
      <4>1. e \in Int => \E u \in {e, 0} : \A v \in {e, 0} : u >= v
        OBVIOUS
      <4>2. e \in Int => Max({e, 0}) \in {e, 0}
        BY <4>1 DEF Max
      <4> QED BY <3>1, <4>2 DEF e
    <3>3. n[k] = Min({x, y, z})
      BY <2>8 DEF NumToReserve
    <3> HIDE DEF x, y, z
    <3>4. n[k] <= z
      BY <3>1, <3>2, <3>3, MinOfThree
    <3> QED BY <3>4 DEF z
  <2>11. g[k] <= MinFreePages(U, k)
    BY <2>7, <2>9, <2>10, DivFits
  <2>12. U[w] = used[w] + Sum(Earlier(k)) /\ Sum(Earlier(k)) \in Nat
    BY <1>1, <2>3
  <2>13. UsedAfter(n, Models)[w] = used[w] + (g[k] + Sum(Earlier(k)))
    BY <1>1, <2>4, <2>5
  <2>14. used[w] \in Nat /\ g[k] \in Nat
    BY <1>0, <1>1, <2>2
  <2> HIDE DEF U, Sum, g
  <2> QED BY <1>0, <2>9, <2>11, <2>12, <2>13, <2>14
<1> QED BY <1>3, <1>4

\* Numbers of pages that a step takes or gives back.
LEMMA PageCounts ==
    ASSUME TypeOK, NEW m \in Models
    PROVE  /\ PhyPerVirt[m] \in Nat /\ WeightPages[m] \in Nat
           /\ Len(pre.plan[m]) * PhyPerVirt[m] \in Nat
           /\ \A S \in SUBSET Pages : /\ IsFiniteSet(S) /\ Cardinality(S) \in Nat
                                      /\ Cardinality(S) * PhyPerVirt[m] \in Nat
           /\ MappedPages(m) \in SUBSET Pages /\ WakeupPages(m) \in Nat
<1>1. PhyPerVirt[m] \in Nat /\ WeightPages[m] \in Nat /\ PhyPages \in Nat
  BY PagesAssumption, StartAssumption
<1>2. reserved[m] \in Seq(Pages) /\ allocated[m] \in SUBSET Pages /\ Len(pre.plan[m]) \in Nat
  <2>1. reserved[m] \in Seq(Pages) /\ allocated[m] \in SUBSET Pages /\ pre.plan[m] \in Seq(Pages)
    BY TypesOf
  <2> QED BY <2>1
<1>3. \A i, j \in Nat : i * j \in Nat
  OBVIOUS
<1>4. IsFiniteSet(Pages)
  <2>1. PhyPages - 1 \in Int
    BY <1>1
  <2> QED BY <2>1, FS_Interval DEF Pages
<1>5. \A S \in SUBSET Pages : IsFiniteSet(S) /\ Cardinality(S) \in Nat /\ Cardinality(S) * PhyPerVirt[m] \in Nat
  BY <1>1, <1>3, <1>4, FS_Subset, FS_CardinalityType
<1>6. MappedPages(m) \in SUBSET Pages
  BY <1>2 DEF MappedPages, Range
<1>7. WakeupPages(m) \in Nat
  <2>1. Cardinality(MappedPages(m)) * PhyPerVirt[m] \in Nat
    BY <1>5, <1>6
  <2> QED BY <1>1, <2>1 DEF WakeupPages
<1> QED BY <1>1, <1>2, <1>3, <1>5, <1>6, <1>7

\* used never exceeds the pool.
LEMMA PoolNext ==
    ASSUME ListInv, PoolInv, [Next]_vars
    PROVE  PoolInv'
<1>0. TypeOK
  BY DEF ListInv
<1>1. CASE UNCHANGED used
  BY <1>1 DEF PoolInv
<1>2. ASSUME NEW r \in Requests, RequestStep(r) PROVE PoolInv'
  <2> DEFINE m == ModelOf[r]
  <2>1. m \in Models
    BY RequestsAssumption
  <2>2. CASE AllocFree(r)
    <3>1. MinFreePages(used, m) >= PhyPerVirt[m] /\ used' = ConsumePages(used, m, PhyPerVirt[m])
      BY <2>2 DEF AllocFree, HasFreePage
    <3> HIDE DEF m
    <3> QED BY <1>0, <2>1, <3>1, PageCounts, PoolTakes
  <2>3. CASE ~AllocFree(r)
    <3>1. UNCHANGED used
      BY <1>2, <2>3 DEF RequestStep, CheckLimit, Admit, AllocWhileSleeping, AllocReserved, AllocExhausted, FreePage,
                        Respond
    <3> QED BY <1>1, <3>1
  <2> QED BY <2>2, <2>3
<1>3. ASSUME NEW m \in Models, ManagerStep(m) PROVE PoolInv'
  <2>1. UNCHANGED used \/ used' = ReleasePages(used, m, PhyPerVirt[m])
    BY <1>3 DEF ManagerStep, AllocMapped, AllocMapFailed, AllocTracked, FreeUnmapped, FreeUnmapFailed
  <2> QED BY <1>0, <1>1, <2>1, PageCounts, PoolGives
<1>4. CASE PreallocStep
  <2>1. CASE PreallocScan
    <3>1. PICK n \in Plans : IsPlan(n) /\ used' = UsedAfter(n, Models)
      BY <2>1 DEF PreallocScan
    <3>2. \A w \in Workers : UsedAfter(n, Models)[w] \in 0 .. PhyPages
      BY <1>0, <3>1, ScanFits
    <3> QED BY <3>1, <3>2 DEF PoolInv, UsedAfter
  <2>2. ASSUME NEW m \in Models, PreallocCheck(m) \/ PreallocMapped(m) \/ PreallocMapFailed(m) PROVE PoolInv'
    <3>1. UNCHANGED used \/ used' = ReleasePages(used, m, Len(pre.plan[m]) * PhyPerVirt[m])
      BY <2>2 DEF PreallocCheck, PreallocMapped, PreallocMapFailed, GiveBackPlan
    <3> QED BY <1>0, <1>1, <3>1, PageCounts, PoolGives
  <2> QED BY <1>4, <2>1, <2>2 DEF PreallocStep
<1>5. ASSUME NEW a \in Handlers, HandlerStep(a) PROVE PoolInv'
  <2>1. PICK m \in Models : adm[a].model = m
    BY <1>5, HandlerKeepsModel DEF ListInv
  <2>2. adm[a].pages \in SUBSET Pages
    BY <1>0 DEF TypeOK
  <2>3. \/ UNCHANGED used \/ used' = ReleasePages(used, m, WeightPages[m])
        \/ used' = ReleasePages(used, m, Cardinality(adm[a].pages) * PhyPerVirt[m])
        \/ WakeupFits(m) /\ used' = ConsumePages(used, m, WakeupPages(m))
    BY <1>5, <2>1 DEF HandlerStep, SleepCas, SleepLock, SleepWeights, SleepUnmap, SleepWorkers, WakeupReserve,
                      WakeupRefused, WakeupMap, WakeupWeights, WakeupWorkers
  <2> QED BY <1>0, <1>1, <2>2, <2>3, PageCounts, PoolGives, PoolTakes DEF WakeupFits
<1>6. ASSUME NEW a \in Handlers, HandlerBegins(a) PROVE PoolInv'
  BY <1>1, <1>6 DEF HandlerBegins, SleepBegin, WakeupBegin
<1>7. CASE UNCHANGED vars
  BY <1>1, <1>7 DEF vars
<1> QED BY <1>2, <1>3, <1>4, <1>5, <1>6, <1>7 DEF Next

-----------------------------------------------------------------------------
\* The pages a model is charged for.
LEMMA ChargeCounts ==
    ASSUME TypeOK, NEW m \in Models
    PROVE  /\ IsFiniteSet(Claimed(m)) /\ Cardinality(Claimed(m)) \in Nat /\ Claimed(m) \in SUBSET VirtPages(m)
           /\ Weight(m) \in Nat /\ Charge(m) \in Nat
           /\ \A w \in Workers : Account(w)[m] = IF w \in WorkersOf[m] THEN Charge(m) ELSE 0
<1>1. IsFiniteSet(VirtPages(m)) /\ Claimed(m) \in SUBSET VirtPages(m)
  BY PagesOfPool DEF Claimed
<1>2. IsFiniteSet(Claimed(m)) /\ Cardinality(Claimed(m)) \in Nat
  BY <1>1, FS_Subset, FS_CardinalityType
<1>3. PhyPerVirt[m] \in Nat /\ Weight(m) \in Nat
  BY PageCounts DEF Weight
<1>4. Charge(m) \in Nat
  <2>1. \A i, j \in Nat : i * j \in Nat
    OBVIOUS
  <2> QED BY <1>2, <1>3, <2>1 DEF Charge, Cost
<1> QED BY <1>1, <1>2, <1>3, <1>4 DEF Account

\* The account when a step charges, discharges, or does neither.
LEMMA AccountStays ==
    ASSUME TypeOK, AccountExact, used' = used, \A k \in Models : Charge(k)' = Charge(k)
    PROVE  AccountExact'
<1>1. ASSUME NEW w \in Workers PROVE used'[w] = SumFunctionOnSet(Account(w)', Models)
  <2>1. Account(w)' = Account(w)
    BY DEF Account
  <2> QED BY <2>1 DEF AccountExact
<1> QED BY <1>1 DEF AccountExact

\* A model is charged for d pages more on each of its workers.
LEMMA AccountGrows ==
    ASSUME TypeOK, AccountExact, NEW m \in Models, NEW d \in Nat, used' = ConsumePages(used, m, d),
           Charge(m)' = Charge(m) + d, \A k \in Models \ {m} : Charge(k)' = Charge(k)
    PROVE  AccountExact'
<1>1. ASSUME NEW w \in Workers PROVE used'[w] = SumFunctionOnSet(Account(w)', Models)
  <2> DEFINE f == Account(w)
             g == Account(w)'
  <2>1. \A k \in Models : f[k] \in Nat /\ g[k] \in Nat /\ (k # m => f[k] = g[k])
    BY ChargeCounts DEF Account
  <2>2. g[m] = IF w \in WorkersOf[m] THEN f[m] + d ELSE f[m]
    BY DEF Account
  <2>3. used[w] = SumFunctionOnSet(f, Models)
    BY DEF AccountExact
  <2>4. used'[w] = IF w \in WorkersOf[m] THEN used[w] + d ELSE used[w]
    BY DEF ConsumePages
  <2> HIDE DEF f, g
  <2>5. /\ SumFunctionOnSet(f, Models) + g[m] = SumFunctionOnSet(g, Models) + f[m]
        /\ SumFunctionOnSet(f, Models) \in Nat /\ SumFunctionOnSet(g, Models) \in Nat
    BY <2>1, ModelsFinite, SumChangesAt
  <2>6. used'[w] = SumFunctionOnSet(g, Models)
    BY <2>1, <2>2, <2>3, <2>4, <2>5
  <2> QED BY <2>6 DEF g
<1> QED BY <1>1 DEF AccountExact

\* A model is discharged of d pages: the clamp of release does not show.
LEMMA AccountShrinks ==
    ASSUME TypeOK, AccountExact, NEW m \in Models, NEW d \in Nat, used' = ReleasePages(used, m, d),
           Charge(m)' \in Nat, Charge(m) = Charge(m)' + d, \A k \in Models \ {m} : Charge(k)' = Charge(k)
    PROVE  AccountExact'
<1>1. ASSUME NEW w \in Workers PROVE used'[w] = SumFunctionOnSet(Account(w)', Models)
  <2> DEFINE f == Account(w)
             g == Account(w)'
  <2>1. \A k \in Models : f[k] \in Nat /\ g[k] \in Nat /\ (k # m => f[k] = g[k])
    BY ChargeCounts DEF Account
  <2>2. f[m] = IF w \in WorkersOf[m] THEN g[m] + d ELSE g[m]
    BY DEF Account
  <2>3. used[w] = SumFunctionOnSet(f, Models)
    BY DEF AccountExact
  <2> HIDE DEF f, g
  <2>4. /\ SumFunctionOnSet(f, Models) + g[m] = SumFunctionOnSet(g, Models) + f[m]
        /\ f[m] <= SumFunctionOnSet(f, Models)
        /\ SumFunctionOnSet(f, Models) \in Nat /\ SumFunctionOnSet(g, Models) \in Nat
    BY <2>1, ModelsFinite, SumChangesAt
  <2>5. used'[w] = IF w \in WorkersOf[m] THEN (IF used[w] >= d THEN used[w] - d ELSE 0) ELSE used[w]
    BY <2>3, <2>4, ReleaseClamps
  <2>6. used'[w] = SumFunctionOnSet(g, Models)
    BY <2>1, <2>2, <2>3, <2>4, <2>5
  <2> QED BY <2>6 DEF g
<1> QED BY <1>1 DEF AccountExact

\* What pages more, or pages less, do to a charge.
LEMMA CostOfUnion ==
    ASSUME NEW A, NEW B, IsFiniteSet(A), IsFiniteSet(B), A \intersect B = {},
           NEW P \in Nat, NEW x \in Nat, NEW e \in Nat
    PROVE  /\ Cost(A \union B, P, x + e) = Cost(A, P, x) + Cost(B, P, e)
           /\ Cost(A, P, x) \in Nat /\ Cost(B, P, e) \in Nat
<1> DEFINE a == Cardinality(A)
           b == Cardinality(B)
<1>1. Cardinality(A \union B) = a + b /\ a \in Nat /\ b \in Nat
  BY DisjointCardinality, FS_CardinalityType
<1> HIDE DEF a, b
<1>2. (a + b) * P = a * P + b * P /\ a * P \in Nat /\ b * P \in Nat
  BY <1>1
<1>3. (a + b) * P + (x + e) = (a * P + x) + (b * P + e) /\ b * P + e \in Nat /\ a * P + x \in Nat
  BY <1>2
<1> QED BY <1>1, <1>3 DEF a, b, Cost

\* A model is charged for the pages B and e pages of weights.
LEMMA ChargeGrows ==
    ASSUME TypeOK, NEW m \in Models, NEW B, IsFiniteSet(B), Claimed(m) \intersect B = {},
           Claimed(m)' = Claimed(m) \union B, NEW e \in Nat, Weight(m)' = Weight(m) + e
    PROVE  /\ Charge(m)' = Charge(m) + Cost(B, PhyPerVirt[m], e)
           /\ Cost(B, PhyPerVirt[m], e) \in Nat
<1>1. IsFiniteSet(Claimed(m)) /\ Weight(m) \in Nat /\ PhyPerVirt[m] \in Nat
  BY ChargeCounts, PageCounts
<1> DEFINE A == Claimed(m)
           P == PhyPerVirt[m]
           x == Weight(m)
<1>2. IsFiniteSet(A) /\ IsFiniteSet(B) /\ A \intersect B = {}
  BY <1>1
<1>0. x \in Nat /\ e \in Nat /\ P \in Nat
  BY <1>1
<1> HIDE DEF A, P, x
<1>3. /\ Cost(A \union B, P, x + e) = Cost(A, P, x) + Cost(B, P, e)
      /\ Cost(A, P, x) \in Nat /\ Cost(B, P, e) \in Nat
  BY ONLY <1>2, <1>0, CostOfUnion
<1> QED BY <1>3 DEF Charge, A, P, x

\* A model is discharged of the pages B and e pages of weights.
LEMMA ChargeShrinks ==
    ASSUME TypeOK, NEW m \in Models, NEW B \in SUBSET Claimed(m),
           Claimed(m)' = Claimed(m) \ B, NEW e \in Nat, Weight(m) = Weight(m)' + e, Weight(m)' \in Nat
    PROVE  /\ Charge(m) = Charge(m)' + Cost(B, PhyPerVirt[m], e)
           /\ Cost(B, PhyPerVirt[m], e) \in Nat /\ Charge(m)' \in Nat
<1> DEFINE A == Claimed(m) \ B
           P == PhyPerVirt[m]
           x == Weight(m)'
<1>1. IsFiniteSet(Claimed(m)) /\ PhyPerVirt[m] \in Nat
  BY ChargeCounts, PageCounts
<1>2. IsFiniteSet(A) /\ IsFiniteSet(B) /\ A \intersect B = {} /\ A \union B = Claimed(m)
  BY <1>1, FS_Subset
<1>3. Charge(m) = Cost(A \union B, PhyPerVirt[m], x + e)
  BY <1>2 DEF Charge
<1>4. Charge(m)' = Cost(A, PhyPerVirt[m], x)
  BY DEF Charge
<1>5. x \in Nat /\ e \in Nat /\ P \in Nat
  BY <1>1
<1> HIDE DEF A, P, x
<1>6. /\ Cost(A \union B, P, x + e) = Cost(A, P, x) + Cost(B, P, e)
      /\ Cost(A, P, x) \in Nat /\ Cost(B, P, e) \in Nat
  BY ONLY <1>2, <1>5, CostOfUnion
<1> QED BY <1>3, <1>4, <1>6 DEF P

\* A model whose sleep a step is not about.
LEMMA SameCharged ==
    ASSUME NEW k \in Models, is_sleeping'[k] = is_sleeping[k],
           \A b \in Handlers : Serves(b, k)' => Serves(b, k) /\ adm'[b] = adm[b],
           \A b \in Handlers : Serves(b, k) => Serves(b, k)'
    PROVE  /\ PagesCharged(k)' <=> PagesCharged(k)
           /\ WeightsCharged(k)' <=> WeightsCharged(k)
           /\ Weight(k)' = Weight(k)
<1>1. \A ops : AtWork(k, ops)' <=> AtWork(k, ops)
  BY DEF AtWork
<1>2. /\ PagesCharged(k)' <=> PagesCharged(k)
      /\ WeightsCharged(k)' <=> WeightsCharged(k)
  BY <1>1 DEF PagesCharged, WeightsCharged
<1> QED BY <1>2 DEF Weight

\* The charge and the memory of such a model stay.
LEMMA SameMemory ==
    ASSUME NEW k \in Models, is_sleeping'[k] = is_sleeping[k], free'[k] = free[k], pre'.plan[k] = pre.plan[k],
           MappedPages(k)' = MappedPages(k), mapped'[k] = mapped[k], loaded'[k] = loaded[k],
           \A b \in Handlers : Serves(b, k)' => Serves(b, k) /\ adm'[b] = adm[b],
           \A b \in Handlers : Serves(b, k) => Serves(b, k)'
    PROVE  /\ Charge(k)' = Charge(k)
           /\ MemoryFollows(k) => MemoryFollows(k)'
<1>1. /\ PagesCharged(k)' <=> PagesCharged(k)
      /\ WeightsCharged(k)' <=> WeightsCharged(k)
      /\ Weight(k)' = Weight(k)
  BY SameCharged
<1>2. Claimed(k)' = Claimed(k)
  BY <1>1 DEF Claimed, Uncharged, VirtPages
<1>3. Charge(k)' = Charge(k)
  BY <1>1, <1>2 DEF Charge
<1>4. MemoryFollows(k) => MemoryFollows(k)'
  BY <1>1, <1>2 DEF MemoryFollows
<1> QED BY <1>3, <1>4

\* A model that is awake and stays so, while no handler of /sleep has its lock.
LEMMA AwakeMemory ==
    ASSUME NEW k \in Models, ~is_sleeping[k], UNCHANGED <<adm, is_sleeping>>,
           \A a \in Handlers : Serves(a, k) => adm[a].op \notin {"sleep_weights", "sleep_unmap"}
    PROVE  /\ Claimed(k) = VirtPages(k) \ Range(free[k])
           /\ Claimed(k)' = VirtPages(k) \ Range(free'[k])
           /\ Weight(k)' = Weight(k)
           /\ MemoryFollows(k) /\ loaded'[k] = loaded[k]
              /\ (\A w \in Workers : /\ mapped'[k][w] \subseteq Claimed(k)' \ Range(pre'.plan[k])
                                     /\ w \notin WorkersOf[k] => mapped'[k][w] = {}) => MemoryFollows(k)'
<1>1. PagesCharged(k) /\ PagesCharged(k)' /\ WeightsCharged(k) /\ WeightsCharged(k)' /\ Weight(k)' = Weight(k)
  BY DEF PagesCharged, WeightsCharged, Weight
<1>2. Claimed(k) = VirtPages(k) \ Range(free[k]) /\ Claimed(k)' = VirtPages(k) \ Range(free'[k])
  BY <1>1 DEF Claimed, Uncharged, VirtPages
<1>3. \A a \in Handlers : Serves(a, k)' => adm'[a].op \notin {"sleep_weights", "sleep_unmap"}
  BY DEF Serves
<1>4. ASSUME MemoryFollows(k), loaded'[k] = loaded[k],
             \A w \in Workers : /\ mapped'[k][w] \subseteq Claimed(k)' \ Range(pre'.plan[k])
                                /\ w \notin WorkersOf[k] => mapped'[k][w] = {}
      PROVE  MemoryFollows(k)'
  BY <1>1, <1>3, <1>4 DEF MemoryFollows
<1> QED BY <1>1, <1>2, <1>4

-----------------------------------------------------------------------------
\* Where the pages of a model are.
LEMMA PagesPlaced ==
    ASSUME ListInv, NEW m \in Models
    PROVE  /\ free[m] \in Seq(Pages) /\ IsInjective(free[m]) /\ Range(free[m]) \subseteq VirtPages(m)
           /\ Range(pre.plan[m]) \subseteq VirtPages(m) \ (Range(free[m]) \union MappedPages(m) \union Calling(m))
           /\ MappedPages(m) \subseteq VirtPages(m) \ (Range(free[m]) \union Calling(m))
           /\ Calling(m) \subseteq VirtPages(m) \ Range(free[m])
           /\ VirtPages(m) = Range(free[m]) \union MappedPages(m) \union Range(pre.plan[m]) \union Calling(m)
<1>1. free[m] \in Seq(Pages)
  BY TypesOf DEF ListInv
<1>2. Conserved(free[m], reserved[m], pre.plan[m], allocated[m], Calling(m), VirtPages(m))
  BY DEF ListInv, ModelOK, PagesConserved
<1> QED BY <1>1, <1>2 DEF Conserved, MappedPages

\* A request takes a free page and is charged for it, or changes the place of a
\* page that its model is charged for.
LEMMA RequestAccount ==
    ASSUME ListInv, GateInv, slipped = {}, NEW r \in Requests, RequestStep(r), AccountExact,
           \A k \in Models : MemoryFollows(k)
    PROVE  AccountExact' /\ \A k \in Models : MemoryFollows(k)'
<1> DEFINE m == ModelOf[r]
<1>1. TypeOK /\ m \in Models
  BY RequestsAssumption DEF ListInv
<1>2. UNCHANGED <<adm, is_sleeping, mapped, loaded, pre>>
  BY DEF RequestStep, CheckLimit, Admit, AllocWhileSleeping, AllocReserved, AllocFree, AllocExhausted,
         FreePage, Respond, threadVars, workerVars
<1>3. /\ reserved \in [Models -> Seq(Pages)] /\ allocated \in [Models -> SUBSET Pages] /\ free \in [Models -> Seq(Pages)]
      /\ DOMAIN mgr = Models
  BY <1>1 DEF TypeOK
<1>4. \A k \in Models, b \in Handlers : (Serves(b, k)' => Serves(b, k) /\ adm'[b] = adm[b]) /\ (Serves(b, k) => Serves(b, k)')
  BY <1>2 DEF Serves
<1> HIDE DEF m
<1>5. ASSUME NEW k \in Models \ {m} PROVE Charge(k)' = Charge(k) /\ MemoryFollows(k)'
  <2>1. reserved'[k] = reserved[k] /\ allocated'[k] = allocated[k] /\ free'[k] = free[k]
    BY <1>1, <1>3 DEF RequestStep, CheckLimit, Admit, AllocWhileSleeping, AllocReserved, AllocFree, AllocExhausted,
                      FreePage, Respond, listVars, m
  <2>2. MappedPages(k)' = MappedPages(k)
    BY <2>1 DEF MappedPages
  <2> QED BY <1>2, <1>4, <2>1, <2>2, SameMemory
<1>6. CASE CheckLimit(r) \/ Admit(r) \/ AllocWhileSleeping(r) \/ AllocExhausted(r) \/ Respond(r)
  <2>1. UNCHANGED <<reserved, allocated, free, used>>
    BY <1>6 DEF CheckLimit, Admit, AllocWhileSleeping, AllocExhausted, Respond, listVars
  <2>2. MappedPages(m)' = MappedPages(m)
    BY <2>1 DEF MappedPages
  <2>3. Charge(m)' = Charge(m) /\ MemoryFollows(m)'
    BY <1>1, <1>2, <1>4, <2>1, <2>2, SameMemory
  <2>4. AccountExact'
    BY <1>1, <1>5, <2>1, <2>3, AccountStays
  <2> QED BY <1>5, <2>3, <2>4
<1>7. CASE AllocReserved(r) \/ FreePage(r) \/ AllocFree(r)
  <2>1. ~is_sleeping[m] /\ \A a \in Handlers : Serves(a, m) => adm[a].op = "sleep_cas"
    <3>1. req[r] \notin {"new", "checked"}
      BY <1>7 DEF AllocReserved, FreePage, AllocFree, NeedsPage
    <3> QED BY <1>1, <3>1, ServedIsAwake DEF m
  <2>2. /\ Claimed(m) = VirtPages(m) \ Range(free[m])
        /\ Claimed(m)' = VirtPages(m) \ Range(free'[m])
        /\ Weight(m)' = Weight(m)
        /\ MemoryFollows(m) /\ loaded'[m] = loaded[m]
              /\ (\A w \in Workers : /\ mapped'[m][w] \subseteq Claimed(m)' \ Range(pre'.plan[m])
                                     /\ w \notin WorkersOf[m] => mapped'[m][w] = {}) => MemoryFollows(m)'
    BY <1>1, <1>2, <2>1, AwakeMemory
  <2>3. \A w \in Workers : mapped[m][w] \subseteq Claimed(m) \ Range(pre.plan[m]) /\ (w \notin WorkersOf[m] => mapped[m][w] = {})
    BY <1>1 DEF MemoryFollows
  <2>4. CASE AllocReserved(r) \/ FreePage(r)
    <3>1. UNCHANGED <<free, used>>
      BY <2>4 DEF AllocReserved, FreePage
    <3>2. Claimed(m)' = Claimed(m) /\ Charge(m)' = Charge(m)
      BY <2>2, <3>1 DEF Charge
    <3>3. MemoryFollows(m)'
      BY <1>1, <1>2, <2>2, <2>3, <3>2
    <3>4. AccountExact'
      BY <1>1, <1>5, <3>1, <3>2, AccountStays
    <3> QED BY <1>5, <3>3, <3>4
  <2>5. CASE AllocFree(r)
    <3> DEFINE h == Head(free[m])
    <3>1. free[m] # <<>> /\ free'[m] = Tail(free[m]) /\ used' = ConsumePages(used, m, PhyPerVirt[m])
      BY <1>1, <1>3, <2>5 DEF AllocFree, HasFreePage, m
    <3>2. free[m] \in Seq(Pages) /\ IsInjective(free[m]) /\ Range(free[m]) \subseteq VirtPages(m)
      BY <1>1, PagesPlaced
    <3>3. h \in Range(free[m]) /\ Range(Tail(free[m])) = Range(free[m]) \ {h}
      BY <3>1, <3>2, TakeHead
    <3>4. Range(pre.plan[m]) \intersect Range(free[m]) = {}
      BY <1>1, PagesPlaced
    <3> HIDE DEF h
    <3>5. Claimed(m)' = Claimed(m) \union {h} /\ Claimed(m) \intersect {h} = {}
      BY <2>2, <3>1, <3>2, <3>3
    <3>6. IsFiniteSet({h}) /\ Cardinality({h}) = 1 /\ PhyPerVirt[m] \in Nat /\ Weight(m) \in Nat
      BY <1>1, FS_Singleton, PageCounts, ChargeCounts
    <3>7. Charge(m)' = Charge(m) + PhyPerVirt[m]
      <4>1. Weight(m)' = Weight(m) + 0 /\ 0 \in Nat
        BY <2>2, <3>6
      <4>2. Charge(m)' = Charge(m) + Cost({h}, PhyPerVirt[m], 0)
        BY <1>1, <3>5, <3>6, <4>1, ChargeGrows
      <4>3. Cost({h}, PhyPerVirt[m], 0) = PhyPerVirt[m]
        BY <3>6 DEF Cost
      <4> QED BY <4>2, <4>3
    <3>8. MemoryFollows(m)'
      <4>1. \A w \in Workers : mapped'[m][w] \subseteq Claimed(m)' \ Range(pre'.plan[m])
        BY <1>2, <2>3, <3>5
      <4> QED BY <1>1, <1>2, <2>2, <2>3, <4>1
    <3>9. AccountExact'
      BY <1>1, <1>5, <3>1, <3>6, <3>7, AccountGrows
    <3> QED BY <1>5, <3>8, <3>9
  <2> QED BY <1>7, <2>4, <2>5
<1> QED BY <1>6, <1>7 DEF RequestStep

\* A block manager maps a page that is charged for, and is discharged once it has
\* unmapped one.
LEMMA ManagerAccount ==
    ASSUME ListInv, GateInv, slipped = {}, NEW m \in Models, ManagerStep(m), failures' = failures, AccountExact,
           \A k \in Models : MemoryFollows(k)
    PROVE  AccountExact' /\ \A k \in Models : MemoryFollows(k)'
<1>1. TypeOK /\ failures \in Nat /\ WorkersOf[m] \subseteq Workers /\ DOMAIN mgr = Models
      /\ reserved \in [Models -> Seq(Pages)] /\ allocated \in [Models -> SUBSET Pages] /\ free \in [Models -> Seq(Pages)]
  BY WorkersAssumption, BoundAssumption DEF ListInv, TypeOK
<1>2. UNCHANGED <<adm, is_sleeping, pre, loaded>> /\ mgr[m].op # "idle"
  BY DEF ManagerStep, AllocMapped, AllocMapFailed, AllocTracked, FreeUnmapped, FreeUnmapFailed, workerVars
<1>3. ~AllocMapFailed(m) /\ ~FreeUnmapFailed(m)
  BY <1>1 DEF AllocMapFailed, FreeUnmapFailed, Fails
<1>4. \A k \in Models, b \in Handlers : (Serves(b, k)' => Serves(b, k) /\ adm'[b] = adm[b]) /\ (Serves(b, k) => Serves(b, k)')
  BY <1>2 DEF Serves
<1>5. ASSUME NEW k \in Models \ {m} PROVE Charge(k)' = Charge(k) /\ MemoryFollows(k)'
  <2>1. reserved'[k] = reserved[k] /\ allocated'[k] = allocated[k] /\ free'[k] = free[k]
    BY <1>1, <1>3 DEF ManagerStep, AllocMapped, AllocTracked, FreeUnmapped, listVars
  <2>2. mapped'[k] = mapped[k]
    BY <1>1, <1>3, BroadcastReaches DEF ManagerStep, AllocMapped, AllocTracked, FreeUnmapped, workerVars
  <2>3. MappedPages(k)' = MappedPages(k)
    BY <2>1 DEF MappedPages
  <2> QED BY <1>2, <1>4, <2>1, <2>2, <2>3, SameMemory
<1>6. ~is_sleeping[m] /\ \A a \in Handlers : Serves(a, m) => adm[a].op = "sleep_cas"
  BY <1>2, ServedIsAwake
<1>7. /\ Claimed(m) = VirtPages(m) \ Range(free[m])
      /\ Claimed(m)' = VirtPages(m) \ Range(free'[m])
      /\ Weight(m)' = Weight(m)
      /\ MemoryFollows(m) /\ loaded'[m] = loaded[m]
              /\ (\A w \in Workers : /\ mapped'[m][w] \subseteq Claimed(m)' \ Range(pre'.plan[m])
                                     /\ w \notin WorkersOf[m] => mapped'[m][w] = {}) => MemoryFollows(m)'
  BY <1>2, <1>6, AwakeMemory
<1>8. \A w \in Workers : mapped[m][w] \subseteq Claimed(m) \ Range(pre.plan[m]) /\ (w \notin WorkersOf[m] => mapped[m][w] = {})
  BY DEF MemoryFollows
<1> DEFINE p == mgr[m].page
<1>9. p \in Claimed(m) /\ p \notin Range(pre.plan[m]) /\ p \in Pages
  <2>1. Calling(m) = {p}
    <3>1. mgr[m].op \in {"map", "track", "unmap"}
      BY <1>1, <1>2, TypesOf
    <3> QED BY <3>1 DEF Calling, InCall
  <2>2. VirtPages(m) \subseteq Pages
    BY PagesOfPool
  <2> QED BY <1>7, <2>1, <2>2, PagesPlaced
<1>10. CASE AllocMapped(m) \/ AllocTracked(m)
  <2>1. UNCHANGED <<free, used>>
    BY <1>10 DEF AllocMapped, AllocTracked, listVars
  <2>2. Claimed(m)' = Claimed(m) /\ Charge(m)' = Charge(m)
    BY <1>7, <2>1 DEF Charge
  <2>3. \A w \in Workers : mapped'[m][w] = mapped[m][w] \/ (w \in WorkersOf[m] /\ mapped'[m][w] = mapped[m][w] \union {p})
    <3>1. CASE AllocTracked(m)
      <4>1. mapped' = mapped
        BY <3>1 DEF AllocTracked, workerVars
      <4> QED BY <4>1
    <3>2. CASE AllocMapped(m)
      <4> DEFINE P == {p}
      <4>1. mapped' = Mapped(m, P, WorkersOf[m])
        BY <3>2 DEF AllocMapped, Succeeds
      <4> HIDE DEF P
      <4>2. \A w \in Workers : mapped'[m][w] = IF w \in WorkersOf[m] THEN mapped[m][w] \union P ELSE mapped[m][w]
        BY <1>1, <4>1 DEF Mapped, TypeOK
      <4> QED BY <4>2 DEF P
    <3> QED BY <1>10, <3>1, <3>2
  <2>4. MemoryFollows(m)'
    <3>1. \A w \in Workers : /\ mapped'[m][w] \subseteq Claimed(m)' \ Range(pre'.plan[m])
                             /\ w \notin WorkersOf[m] => mapped'[m][w] = {}
      <4> HIDE DEF p
      <4> QED BY <1>2, <1>8, <1>9, <2>2, <2>3
    <3> QED BY <1>2, <1>7, <3>1
  <2>5. AccountExact'
    BY <1>1, <1>5, <2>1, <2>2, AccountStays
  <2> QED BY <1>5, <2>4, <2>5
<1>11. CASE FreeUnmapped(m)
  <2>1. free'[m] = Append(free[m], p) /\ used' = ReleasePages(used, m, PhyPerVirt[m])
        /\ mapped' = Unmapped(m, {p}, WorkersOf[m])
    BY <1>1, <1>11 DEF FreeUnmapped, Succeeds
  <2> HIDE DEF p
  <2>2. Range(free'[m]) = Range(free[m]) \union {p}
    BY <1>1, <1>9, <2>1, AppendQueue, PagesPlaced
  <2>3. Claimed(m)' = Claimed(m) \ {p}
    BY <1>7, <2>2
  <2>4. Cardinality({p}) = 1 /\ PhyPerVirt[m] \in Nat /\ Weight(m) \in Nat
    BY <1>1, FS_Singleton, PageCounts, ChargeCounts
  <2>5. Charge(m) = Charge(m)' + PhyPerVirt[m] /\ Charge(m)' \in Nat
    <3>1. Weight(m) = Weight(m)' + 0 /\ 0 \in Nat /\ Weight(m)' \in Nat /\ {p} \in SUBSET Claimed(m)
      BY <1>7, <1>9, <2>4
    <3>2. Charge(m) = Charge(m)' + Cost({p}, PhyPerVirt[m], 0) /\ Charge(m)' \in Nat
      BY <1>1, <2>3, <3>1, ChargeShrinks
    <3>3. Cost({p}, PhyPerVirt[m], 0) = PhyPerVirt[m]
      BY <2>4 DEF Cost
    <3> QED BY <3>2, <3>3
  <2>6. \A w \in Workers : mapped'[m][w] = IF w \in WorkersOf[m] THEN mapped[m][w] \ {p} ELSE mapped[m][w]
    <3> DEFINE P == {p}
    <3>1. mapped' = Unmapped(m, P, WorkersOf[m])
      BY <2>1
    <3> HIDE DEF P
    <3>2. \A w \in Workers : mapped'[m][w] = IF w \in WorkersOf[m] THEN mapped[m][w] \ P ELSE mapped[m][w]
      BY <1>1, <3>1 DEF Unmapped, TypeOK
    <3> QED BY <3>2 DEF P
  <2>7. MemoryFollows(m)'
    <3>1. \A w \in Workers : /\ mapped'[m][w] \subseteq Claimed(m)' \ Range(pre'.plan[m])
                             /\ w \notin WorkersOf[m] => mapped'[m][w] = {}
      BY <1>2, <1>8, <2>3, <2>6
    <3> QED BY <1>2, <1>7, <3>1
  <2>8. AccountExact'
    BY <1>1, <1>5, <2>1, <2>4, <2>5, AccountShrinks
  <2> QED BY <1>5, <2>7, <2>8
<1> QED BY <1>3, <1>10, <1>11 DEF ManagerStep


\* A model whose mapped pages and handlers a step leaves alone.
LEMMA UntouchedMemory ==
    ASSUME NEW k \in Models, UNCHANGED <<adm, is_sleeping>>, MappedPages(k)' = MappedPages(k), loaded'[k] = loaded[k],
           MemoryFollows(k)
    PROVE  /\ Claimed(k) = VirtPages(k) \ (Range(free[k]) \union Uncharged(k))
           /\ Claimed(k)' = VirtPages(k) \ (Range(free'[k]) \union Uncharged(k))
           /\ Uncharged(k) \subseteq MappedPages(k)
           /\ Weight(k)' = Weight(k)
           /\ (\A w \in Workers : /\ mapped'[k][w] \subseteq Claimed(k)' \ Range(pre'.plan[k])
                                  /\ w \notin WorkersOf[k] => mapped'[k][w] = {}) => MemoryFollows(k)'
<1>1. \A b \in Handlers : (Serves(b, k)' <=> Serves(b, k)) /\ adm'[b] = adm[b]
  BY DEF Serves
<1>2. /\ PagesCharged(k)' <=> PagesCharged(k)
      /\ WeightsCharged(k)' <=> WeightsCharged(k)
      /\ Weight(k)' = Weight(k)
  BY <1>1, SameCharged
<1>3. Uncharged(k)' = Uncharged(k) /\ Uncharged(k) \subseteq MappedPages(k)
  BY <1>2 DEF Uncharged
<1>4. ASSUME \A w \in Workers : /\ mapped'[k][w] \subseteq Claimed(k)' \ Range(pre'.plan[k])
                                /\ w \notin WorkersOf[k] => mapped'[k][w] = {}
      PROVE  MemoryFollows(k)'
  BY <1>1, <1>2, <1>4 DEF MemoryFollows
<1> QED BY <1>2, <1>3, <1>4 DEF Claimed, VirtPages

\* A round of the preallocation thread is charged for the pages it plans.
LEMMA ScanAccount ==
    ASSUME ListInv, PreallocScan, AccountExact, \A k \in Models : MemoryFollows(k)
    PROVE  AccountExact' /\ \A k \in Models : MemoryFollows(k)'
<1>1. TypeOK /\ pre.step = "wait" /\ UNCHANGED <<adm, is_sleeping, mapped, loaded, reserved, allocated>>
  BY DEF ListInv, PreallocScan, workerVars
<1>2. PICK n \in Plans : /\ used' = UsedAfter(n, Models)
                         /\ free' = [m \in Models |-> SubSeq(free[m], n[m] + 1, Len(free[m]))]
                         /\ pre' = [step |-> IF \A m \in Models : n[m] = 0 THEN "wait" ELSE "check",
                                    plan |-> [m \in Models |-> SubSeq(free[m], 1, n[m])]]
  BY DEF PreallocScan
<1>3. ASSUME NEW k \in Models
      PROVE  Charge(k)' = Charge(k) + n[k] * PhyPerVirt[k] /\ n[k] * PhyPerVirt[k] \in Nat /\ MemoryFollows(k)'
  <2> DEFINE B == Range(SubSeq(free[k], 1, n[k]))
             R == Range(SubSeq(free[k], n[k] + 1, Len(free[k])))
  <2>1. free[k] \in Seq(Pages) /\ IsInjective(free[k]) /\ Range(free[k]) \subseteq VirtPages(k)
        /\ MappedPages(k) \intersect Range(free[k]) = {}
    BY PagesPlaced
  <2>2. n[k] \in 0 .. Len(free[k]) /\ n[k] \in Nat
    <3>1. n[k] \in 0 .. MinReserved /\ n[k] <= Len(free[k])
      BY DEF Plans
    <3>2. Len(free[k]) \in Nat
      BY <2>1
    <3> QED BY <3>1, <3>2, ReserveAssumption
  <2>3. /\ SubSeq(free[k], 1, n[k]) \in Seq(Pages) /\ Len(SubSeq(free[k], 1, n[k])) = n[k]
        /\ IsInjective(SubSeq(free[k], 1, n[k]))
        /\ B \union R = Range(free[k]) /\ B \intersect R = {}
    BY <2>1, <2>2, SplitQueue
  <2>4. IsFiniteSet(B) /\ Cardinality(B) = n[k]
    BY <2>3, QueueCardinality
  <2>5. free'[k] = SubSeq(free[k], n[k] + 1, Len(free[k])) /\ pre'.plan[k] = SubSeq(free[k], 1, n[k])
    BY <1>2
  <2>6. Range(free'[k]) = R /\ Range(pre'.plan[k]) = B
    BY <2>5
  <2> HIDE DEF B, R
  <2>7. MappedPages(k)' = MappedPages(k) /\ loaded'[k] = loaded[k] /\ mapped'[k] = mapped[k]
    BY <1>1 DEF MappedPages
  <2>8. /\ Claimed(k) = VirtPages(k) \ (Range(free[k]) \union Uncharged(k))
        /\ Claimed(k)' = VirtPages(k) \ (Range(free'[k]) \union Uncharged(k))
        /\ Uncharged(k) \subseteq MappedPages(k)
        /\ Weight(k)' = Weight(k)
        /\ (\A w \in Workers : /\ mapped'[k][w] \subseteq Claimed(k)' \ Range(pre'.plan[k])
                               /\ w \notin WorkersOf[k] => mapped'[k][w] = {}) => MemoryFollows(k)'
    BY <1>1, <2>7, UntouchedMemory
  <2>9. Claimed(k)' = Claimed(k) \union B /\ Claimed(k) \intersect B = {}
    BY <2>1, <2>3, <2>6, <2>8
  <2>10. \A w \in Workers : mapped[k][w] \subseteq Claimed(k) /\ (w \notin WorkersOf[k] => mapped[k][w] = {})
    BY DEF MemoryFollows
  <2>11. MemoryFollows(k)'
    BY <2>6, <2>7, <2>8, <2>9, <2>10
  <2>12. Charge(k)' = Charge(k) + Cost(B, PhyPerVirt[k], 0) /\ Cost(B, PhyPerVirt[k], 0) \in Nat
    <3>1. Weight(k)' = Weight(k) + 0 /\ 0 \in Nat
      BY <1>1, <2>8, ChargeCounts
    <3> QED BY <1>1, <2>4, <2>9, <3>1, ChargeGrows
  <2>13. Cost(B, PhyPerVirt[k], 0) = n[k] * PhyPerVirt[k]
    <3>1. PhyPerVirt[k] \in Nat
      BY <1>1, PageCounts
    <3> QED BY <2>2, <2>4, <3>1 DEF Cost
  <2> QED BY <2>11, <2>12, <2>13
<1>4. ASSUME NEW w \in Workers PROVE used'[w] = SumFunctionOnSet(Account(w)', Models)
  <2> DEFINE f == Account(w)
             g == PlanCost(n, w)
             h == Account(w)'
             d(k) == n[k] * PhyPerVirt[k]
             c(k) == Charge(k)
             e(k) == Charge(k)'
  <2>1. used'[w] = used[w] + SumFunctionOnSet(g, Models)
    BY <1>2, PlanCosts
  <2>2. used[w] = SumFunctionOnSet(f, Models)
    BY DEF AccountExact
  <2>3. \A k \in Models : /\ f[k] = IF w \in WorkersOf[k] THEN c(k) ELSE 0
                          /\ g[k] = IF w \in WorkersOf[k] THEN d(k) ELSE 0
                          /\ h[k] = IF w \in WorkersOf[k] THEN e(k) ELSE 0
    BY DEF Account, PlanCost
  <2>4. \A k \in Models : c(k) \in Nat /\ d(k) \in Nat /\ e(k) = c(k) + d(k)
    BY <1>1, <1>3, ChargeCounts
  <2> HIDE DEF f, g, h, c, d, e
  <2>5. \A k \in Models : f[k] \in Nat /\ g[k] \in Nat /\ h[k] = f[k] + g[k]
    BY <2>3, <2>4
  <2>6. SumFunctionOnSet(h, Models) = SumFunctionOnSet(f, Models) + SumFunctionOnSet(g, Models)
    BY <2>5, ModelsFinite, SumAdds
  <2> QED BY <2>1, <2>2, <2>6 DEF h
<1> QED BY <1>3, <1>4 DEF AccountExact


\* The pages of a plan, and what they were charged.
LEMMA PlanCharged ==
    ASSUME ListInv, NEW m \in Models
    PROVE  /\ pre.plan[m] \in Seq(Pages) /\ IsFiniteSet(Range(pre.plan[m]))
           /\ Len(pre.plan[m]) * PhyPerVirt[m] \in Nat
           /\ Cost(Range(pre.plan[m]), PhyPerVirt[m], 0) = Len(pre.plan[m]) * PhyPerVirt[m]
<1>1. TypeOK /\ pre.plan[m] \in Seq(Pages)
  BY TypesOf DEF ListInv
<1>2. IsInjective(pre.plan[m])
  BY DEF ListInv, ModelOK, PagesConserved, Conserved
<1>3. IsFiniteSet(Range(pre.plan[m])) /\ Cardinality(Range(pre.plan[m])) = Len(pre.plan[m])
  BY <1>1, <1>2, QueueCardinality
<1>4. Len(pre.plan[m]) * PhyPerVirt[m] \in Nat
  BY <1>1, PageCounts
<1> DEFINE x == Len(pre.plan[m]) * PhyPerVirt[m]
<1>5. Cost(Range(pre.plan[m]), PhyPerVirt[m], 0) = x + 0
  BY <1>3 DEF Cost
<1>6. x \in Nat
  BY <1>4
<1> HIDE DEF x
<1>7. x + 0 = x
  BY <1>6
<1> QED BY <1>1, <1>3, <1>4, <1>5, <1>7 DEF x

\* The plan of a model that has fallen asleep is given back and discharged; the
\* plan of a model that is awake is mapped and stays charged.
LEMMA PreallocAccount ==
    ASSUME ListInv, PreallocStep, failures' = failures, \A k \in Models : RecordsFollow(k), AccountExact,
           \A k \in Models : MemoryFollows(k)
    PROVE  AccountExact' /\ \A k \in Models : MemoryFollows(k)'
<1>1. /\ TypeOK /\ failures \in Nat /\ WorkersOf \in [Models -> SUBSET Workers]
      /\ reserved \in [Models -> Seq(Pages)] /\ free \in [Models -> Seq(Pages)] /\ DOMAIN pre.plan = Models
  BY WorkersAssumption, BoundAssumption DEF ListInv, TypeOK
<1>2. UNCHANGED <<adm, is_sleeping, allocated, mgr, loaded>>
  BY DEF PreallocStep, PreallocScan, PreallocCheck, PreallocMapped, PreallocMapFailed, workerVars
<1>3. \A k \in Models, b \in Handlers : (Serves(b, k)' => Serves(b, k) /\ adm'[b] = adm[b]) /\ (Serves(b, k) => Serves(b, k)')
  BY <1>2 DEF Serves
<1>4. CASE PreallocScan
  BY <1>4, ScanAccount
<1>5. ASSUME NEW m \in Models, PreallocCheck(m), ~is_sleeping[m]
      PROVE  AccountExact' /\ \A k \in Models : MemoryFollows(k)'
  <2>1. UNCHANGED <<free, used, reserved, mapped>> /\ pre' = [pre EXCEPT !.step = "map"]
    BY <1>5 DEF PreallocCheck, workerVars
  <2>2. pre'.plan = pre.plan
    BY <1>1, <2>1 DEF TypeOK
  <2>3. \A k \in Models : MappedPages(k)' = MappedPages(k)
    BY <1>2, <2>1 DEF MappedPages
  <2>4. \A k \in Models : Charge(k)' = Charge(k) /\ MemoryFollows(k)'
    BY <1>2, <1>3, <2>1, <2>2, <2>3, SameMemory
  <2> QED BY <1>1, <2>1, <2>4, AccountStays
<1>6. ASSUME NEW m \in Models, PreallocMapped(m) \/ (PreallocCheck(m) /\ is_sleeping[m])
      PROVE  AccountExact' /\ \A k \in Models : MemoryFollows(k)'
  <2> DEFINE p == pre.plan[m]
  <2>1. pre'.plan[m] = <<>> /\ \A k \in Models \ {m} : pre'.plan[k] = pre.plan[k]
    <3>1. PreDone(m)
      BY <1>6 DEF PreallocMapped, PreallocCheck
    <3>2. pre'.plan = [pre.plan EXCEPT ![m] = <<>>]
      BY <3>1 DEF PreDone
    <3> QED BY <1>1, <3>2
  <2>2. Range(pre'.plan[m]) = {}
    BY <2>1 DEF Range
  <2>3. ASSUME NEW k \in Models \ {m} PROVE Charge(k)' = Charge(k) /\ MemoryFollows(k)'
    <3>1. reserved'[k] = reserved[k] /\ free'[k] = free[k]
      BY <1>1, <1>6 DEF PreallocMapped, PreallocCheck, GiveBackPlan
    <3>2. mapped'[k] = mapped[k]
      BY <1>1, <1>6, BroadcastReaches DEF PreallocMapped, PreallocCheck, workerVars
    <3>3. MappedPages(k)' = MappedPages(k)
      BY <1>2, <3>1 DEF MappedPages
    <3> QED BY <1>2, <1>3, <2>1, <3>1, <3>2, <3>3, SameMemory
  <2>4. /\ Range(p) \subseteq VirtPages(m) \ (Range(free[m]) \union MappedPages(m))
        /\ free[m] \in Seq(Pages) /\ p \in Seq(Pages)
    BY PagesPlaced, PlanCharged
  <2>5. \A w \in Workers : mapped[m][w] \subseteq Claimed(m) \ Range(p) /\ (w \notin WorkersOf[m] => mapped[m][w] = {})
    BY DEF MemoryFollows
  <2>6. CASE PreallocCheck(m) /\ is_sleeping[m]
    <3>1. /\ free' = [free EXCEPT ![m] = p \o @] /\ used' = ReleasePages(used, m, Len(p) * PhyPerVirt[m])
          /\ UNCHANGED <<reserved, mapped>>
      BY <2>6 DEF PreallocCheck, GiveBackPlan, workerVars
    <3>2. free'[m] = p \o free[m]
      BY <1>1, <3>1
    <3>3. Range(free'[m]) = Range(p) \union Range(free[m])
      BY <2>4, <3>2, ConcatQueue
    <3>4. MappedPages(m)' = MappedPages(m)
      BY <1>2, <3>1 DEF MappedPages
    <3>5. /\ Claimed(m) = VirtPages(m) \ (Range(free[m]) \union Uncharged(m))
          /\ Claimed(m)' = VirtPages(m) \ (Range(free'[m]) \union Uncharged(m))
          /\ Uncharged(m) \subseteq MappedPages(m)
          /\ Weight(m)' = Weight(m)
          /\ (\A w \in Workers : /\ mapped'[m][w] \subseteq Claimed(m)' \ Range(pre'.plan[m])
                                 /\ w \notin WorkersOf[m] => mapped'[m][w] = {}) => MemoryFollows(m)'
      BY <1>2, <3>4, UntouchedMemory
    <3> DEFINE B == Range(p)
    <3>6. B \subseteq Claimed(m) /\ Claimed(m)' = Claimed(m) \ B
      BY <2>4, <3>3, <3>5
    <3>7. MemoryFollows(m)'
      BY <2>2, <2>5, <3>1, <3>5, <3>6
    <3>8. Charge(m) = Charge(m)' + Len(p) * PhyPerVirt[m] /\ Charge(m)' \in Nat /\ Len(p) * PhyPerVirt[m] \in Nat
      <4>1. Weight(m) = Weight(m)' + 0 /\ 0 \in Nat /\ Weight(m)' \in Nat
        BY <1>1, <3>5, ChargeCounts
      <4>2. Charge(m) = Charge(m)' + Cost(B, PhyPerVirt[m], 0) /\ Charge(m)' \in Nat
        <5> HIDE DEF B
        <5> QED BY <1>1, <3>6, <4>1, ChargeShrinks
      <4> QED BY <4>2, PlanCharged
    <3>9. AccountExact'
      <4> DEFINE d == Len(p) * PhyPerVirt[m]
      <4>1. d \in Nat /\ used' = ReleasePages(used, m, d) /\ Charge(m)' \in Nat /\ Charge(m) = Charge(m)' + d
        BY <3>1, <3>8
      <4> HIDE DEF d
      <4> QED BY <1>1, <2>3, <4>1, AccountShrinks
    <3> QED BY <2>3, <3>7, <3>9
  <2>7. CASE PreallocMapped(m)
    <3>1. ~is_sleeping[m]
      <4>1. PendingCounted(m) /\ Preallocating(m)
        BY <2>7 DEF ListInv, ModelOK, PreallocMapped, Preallocating
      <4> QED BY <4>1 DEF PendingCounted
    <3>2. UNCHANGED <<free, used>> /\ mapped' = Mapped(m, Range(p), WorkersOf[m])
      BY <2>7, <3>1 DEF PreallocMapped, Succeeds
    <3>3. \A w \in Workers : mapped'[m][w] = IF w \in WorkersOf[m] THEN mapped[m][w] \union Range(p) ELSE mapped[m][w]
      <4> DEFINE P == Range(p)
      <4>1. mapped' = Mapped(m, P, WorkersOf[m])
        BY <3>2
      <4> HIDE DEF P
      <4>2. \A w \in Workers : mapped'[m][w] = IF w \in WorkersOf[m] THEN mapped[m][w] \union P ELSE mapped[m][w]
        BY <1>1, <4>1 DEF Mapped, TypeOK
      <4> QED BY <4>2 DEF P
    <3>4. \A a \in Handlers : Serves(a, m) => adm[a].op \notin {"sleep_weights", "sleep_unmap"}
      BY <3>1 DEF RecordsFollow
    <3>5. /\ Claimed(m) = VirtPages(m) \ Range(free[m])
          /\ Claimed(m)' = VirtPages(m) \ Range(free'[m])
          /\ Weight(m)' = Weight(m)
          /\ MemoryFollows(m) /\ loaded'[m] = loaded[m]
              /\ (\A w \in Workers : /\ mapped'[m][w] \subseteq Claimed(m)' \ Range(pre'.plan[m])
                                     /\ w \notin WorkersOf[m] => mapped'[m][w] = {}) => MemoryFollows(m)'
      BY <1>2, <3>1, <3>4, AwakeMemory
    <3>6. Claimed(m)' = Claimed(m) /\ Charge(m)' = Charge(m) /\ Range(p) \subseteq Claimed(m)
      BY <2>4, <3>2, <3>5 DEF Charge
    <3>7. \A w \in Workers : /\ mapped'[m][w] \subseteq Claimed(m)' \ Range(pre'.plan[m])
                             /\ w \notin WorkersOf[m] => mapped'[m][w] = {}
      <4> DEFINE B == Range(p)
      <4> HIDE DEF B
      <4>1. /\ \A w \in Workers : mapped[m][w] \subseteq Claimed(m) \ B /\ (w \notin WorkersOf[m] => mapped[m][w] = {})
            /\ \A w \in Workers : mapped'[m][w] = IF w \in WorkersOf[m] THEN mapped[m][w] \union B ELSE mapped[m][w]
            /\ B \subseteq Claimed(m)
        BY <2>5, <3>3, <3>6 DEF B
      <4> QED BY <2>2, <3>6, <4>1
    <3>8. MemoryFollows(m)'
      BY <1>2, <3>5, <3>7
    <3>9. AccountExact'
      BY <1>1, <2>3, <3>2, <3>6, AccountStays
    <3> QED BY <2>3, <3>8, <3>9
  <2> QED BY <1>6, <2>6, <2>7
<1>7. \A m \in Models : ~PreallocMapFailed(m)
  BY <1>1 DEF PreallocMapFailed, Fails
<1> QED BY <1>4, <1>5, <1>6, <1>7 DEF PreallocStep


-----------------------------------------------------------------------------
\* The account when a step is about one model only, which it charges or
\* discharges for pages and weights.
ChargedMore(m, d) == used' = ConsumePages(used, m, d) /\ Charge(m)' = Charge(m) + d
ChargedLess(m, d) == used' = ReleasePages(used, m, d) /\ Charge(m) = Charge(m)' + d /\ Charge(m)' \in Nat

\* The account after such a step.
LEMMA AccountOfOne ==
    ASSUME TypeOK, AccountExact, NEW m \in Models, \A k \in Models \ {m} : Charge(k)' = Charge(k),
           \/ used' = used /\ Charge(m)' = Charge(m)
           \/ \E d \in Nat : ChargedMore(m, d) \/ ChargedLess(m, d)
    PROVE  AccountExact'
<1>1. CASE used' = used /\ Charge(m)' = Charge(m)
  BY <1>1, AccountStays
<1>2. ASSUME NEW d \in Nat, ChargedMore(m, d) PROVE AccountExact'
  BY <1>2, AccountGrows DEF ChargedMore
<1>3. ASSUME NEW d \in Nat, ChargedLess(m, d) PROVE AccountExact'
  BY <1>3, AccountShrinks DEF ChargedLess
<1> QED BY <1>1, <1>2, <1>3

\* Which pages and whether the weights of a model are charged, when handler a is
\* the only one that serves it.
LEMMA ChargedBy ==
    ASSUME NEW m \in Models, NEW a \in Handlers, Serves(a, m), \A b \in Handlers : Serves(b, m) => b = a
    PROVE  /\ PagesCharged(m) <=> ~is_sleeping[m] \/ adm[a].op \in {"sleep_weights", "sleep_unmap", "wake_map", "wake_weights"}
           /\ WeightsCharged(m) <=> ~is_sleeping[m] \/ adm[a].op \in {"sleep_weights", "wake_map", "wake_weights"}
BY DEF PagesCharged, WeightsCharged, AtWork

\* And after a step of that handler.
LEMMA ChargedThen ==
    ASSUME NEW m \in Models, NEW a \in Handlers, \A b \in Handlers : Serves(b, m)' => b = a,
           adm'[a].op = "idle" \/ adm'[a].model = m
    PROVE  /\ PagesCharged(m)' <=> ~is_sleeping'[m] \/ adm'[a].op \in {"sleep_weights", "sleep_unmap", "wake_map", "wake_weights"}
           /\ WeightsCharged(m)' <=> ~is_sleeping'[m] \/ adm'[a].op \in {"sleep_weights", "wake_map", "wake_weights"}
BY DEF PagesCharged, WeightsCharged, AtWork, Serves


\* What the step of a handler for model m does to its memory, by where the
\* handler is, unless a broadcast fails.
MemoryEffect(a, m) ==
    \/ /\ adm[a].op \in {"sleep_cas", "wake_check", "sleep_workers", "wake_workers"} /\ adm'[a].op \in {"idle", "sleep_lock"}
       /\ used' = used /\ mapped' = mapped /\ loaded' = loaded /\ SameSleeping(m)
    \/ /\ adm[a].op = "sleep_lock" /\ adm'[a].op = (IF WeightPages[m] > 0 THEN "sleep_weights" ELSE "sleep_unmap")
       /\ ~is_sleeping[m] /\ is_sleeping'[m] /\ adm'[a].pages = MappedPages(m)
       /\ used' = used /\ mapped' = mapped /\ loaded' = loaded
    \/ /\ adm[a].op = "sleep_weights" /\ adm'[a].op = "sleep_unmap" /\ adm'[a].pages = adm[a].pages /\ SameSleeping(m)
       /\ used' = ReleasePages(used, m, WeightPages[m]) /\ mapped' = mapped
       /\ loaded'[m] = loaded[m] \ WorkersOf[m]
    \/ /\ adm[a].op = "sleep_unmap" /\ adm'[a].op = "sleep_workers" /\ SameSleeping(m) /\ loaded' = loaded
       /\ used' = ReleasePages(used, m, Cardinality(adm[a].pages) * PhyPerVirt[m])
       /\ mapped' = Unmapped(m, adm[a].pages, WorkersOf[m])
    \/ /\ adm[a].op = "wake_check" /\ adm'[a].op = "wake_map" /\ is_sleeping[m] /\ SameSleeping(m)
       /\ used' = ConsumePages(used, m, WakeupPages(m)) /\ mapped' = mapped /\ loaded' = loaded
    \/ /\ adm[a].op = "wake_map" /\ adm'[a].op = "wake_weights" /\ SameSleeping(m) /\ loaded' = loaded
       /\ used' = used /\ mapped' = Mapped(m, adm[a].pages, WorkersOf[m])
    \/ /\ adm[a].op = "wake_weights" /\ adm'[a].op = "wake_workers" /\ ~is_sleeping'[m]
       /\ used' = used /\ mapped' = mapped /\ loaded'[m] = loaded[m] \union WorkersOf[m]

\* The steps of the handlers have these effects on memory, and no other.
LEMMA MemoryOfHandler ==
    ASSUME ListInv, NEW a \in Handlers, HandlerStep(a), NEW m \in Models, adm[a].model = m, failures' = failures
    PROVE  /\ MemoryEffect(a, m) /\ UNCHANGED <<free, reserved, allocated, pre>>
           /\ \A k \in Models \ {m} : loaded'[k] = loaded[k]
<1>1. TypeOK /\ failures \in Nat /\ failures' # failures + 1
  BY BoundAssumption DEF ListInv, TypeOK
<1>2. /\ is_sleeping \in [Models -> BOOLEAN] /\ loaded \in [Models -> SUBSET Workers]
      /\ adm \in [Handlers -> [op : {"idle"} \union SleepOps \union WakeOps,
                               model : Models \union {NoPage}, pages : SUBSET Pages]]
  BY <1>1 DEF TypeOK
<1>3. UNCHANGED <<free, reserved, allocated, pre>>
  BY DEF HandlerStep, SleepCas, SleepLock, SleepWeights, SleepUnmap, SleepWorkers, WakeupReserve, WakeupRefused,
         WakeupMap, WakeupWeights, WakeupWorkers, listVars
<1>4. /\ Done(a) => adm'[a].op = "idle"
      /\ \A op \in SleepOps \union WakeOps : Goto(a, op) => adm'[a].op = op /\ adm'[a].pages = adm[a].pages
      /\ \A op \in SleepOps \union WakeOps : adm' = [adm EXCEPT ![a].op = op, ![a].pages = MappedPages(m)] =>
           adm'[a].op = op /\ adm'[a].pages = MappedPages(m)
  <2>1. Done(a) => adm'[a].op = "idle"
    BY <1>2 DEF Done, NoHandler
  <2>2. ASSUME NEW op \in SleepOps \union WakeOps, Goto(a, op) PROVE adm'[a].op = op /\ adm'[a].pages = adm[a].pages
    <3>1. adm' = [adm EXCEPT ![a] = [op |-> op, model |-> adm[a].model, pages |-> adm[a].pages]]
      BY <1>1, <2>2, HandlerMoves
    <3> QED BY <1>2, <3>1
  <2>3. ASSUME NEW op \in SleepOps \union WakeOps, adm' = [adm EXCEPT ![a].op = op, ![a].pages = MappedPages(m)]
        PROVE  adm'[a].op = op /\ adm'[a].pages = MappedPages(m)
    <3> DEFINE P == MappedPages(m)
    <3> HIDE DEF P
    <3>1. adm'[a] = [[adm[a] EXCEPT !.op = op] EXCEPT !.pages = P]
      BY <1>2, <2>3 DEF P
    <3>2. adm[a] = [op |-> adm[a].op, model |-> adm[a].model, pages |-> adm[a].pages]
      BY <1>2
    <3>3. [adm[a] EXCEPT !.op = op] = [op |-> op, model |-> adm[a].model, pages |-> adm[a].pages]
      BY <3>2
    <3>4. adm'[a] = [op |-> op, model |-> adm[a].model, pages |-> P]
      BY <3>1, <3>3
    <3> QED BY <3>4 DEF P
  <2> QED BY <2>1, <2>2, <2>3
<1>5. /\ "sleep_lock" \in SleepOps \union WakeOps /\ "sleep_weights" \in SleepOps \union WakeOps
      /\ "sleep_unmap" \in SleepOps \union WakeOps /\ "sleep_workers" \in SleepOps \union WakeOps
      /\ "wake_map" \in SleepOps \union WakeOps /\ "wake_weights" \in SleepOps \union WakeOps
      /\ "wake_workers" \in SleepOps \union WakeOps
  BY DEF SleepOps, WakeOps
<1>6. CASE SleepCas(a) \/ WakeupRefused(a) \/ SleepWorkers(a) \/ WakeupWorkers(a)
  <2>1. adm[a].op \in {"sleep_cas", "wake_check", "sleep_workers", "wake_workers"} /\ UNCHANGED <<used, mapped, loaded, is_sleeping>>
    BY <1>6 DEF SleepCas, WakeupRefused, SleepWorkers, WakeupWorkers, At, workerVars
  <2>2. Done(a) \/ Goto(a, "sleep_lock")
    BY <1>6 DEF SleepCas, WakeupRefused, SleepWorkers, SleepFails, WakeupWorkers
  <2>3. adm'[a].op \in {"idle", "sleep_lock"}
    BY <1>4, <1>5, <2>2
  <2> QED BY <1>3, <2>1, <2>3 DEF MemoryEffect, SameSleeping
<1>7. CASE SleepLock(a)
  <2> DEFINE op == IF WeightPages[m] > 0 THEN "sleep_weights" ELSE "sleep_unmap"
  <2>1. op \in SleepOps \union WakeOps
    BY <1>5
  <2>2. adm' = [adm EXCEPT ![a].op = op, ![a].pages = MappedPages(m)]
    BY <1>7 DEF SleepLock
  <2>3. /\ adm[a].op = "sleep_lock" /\ ~is_sleeping[m] /\ is_sleeping' = [is_sleeping EXCEPT ![m] = TRUE]
        /\ UNCHANGED <<used, mapped, loaded>>
    BY <1>7 DEF SleepLock, At, workerVars
  <2>4. is_sleeping'[m]
    BY <1>2, <2>3
  <2> HIDE DEF op
  <2>5. adm'[a].op = op /\ adm'[a].pages = MappedPages(m)
    BY <1>4, <2>1, <2>2
  <2> QED BY <1>3, <2>3, <2>4, <2>5 DEF MemoryEffect, op
<1>8. CASE SleepWeights(a)
  <2>1. adm[a].op = "sleep_weights" /\ UNCHANGED <<mapped, is_sleeping>>
    BY <1>8 DEF SleepWeights, At
  <2>2. /\ loaded' = [loaded EXCEPT ![m] = @ \ WorkersOf[m]] /\ Goto(a, "sleep_unmap")
        /\ used' = ReleasePages(used, m, WeightPages[m])
    BY <1>1, <1>8 DEF SleepWeights, Succeeds, Fails
  <2>3. loaded'[m] = loaded[m] \ WorkersOf[m] /\ \A k \in Models \ {m} : loaded'[k] = loaded[k]
    BY <1>2, <2>2
  <2>4. adm'[a].op = "sleep_unmap" /\ adm'[a].pages = adm[a].pages
    BY <1>4, <1>5, <2>2
  <2> QED BY <1>3, <2>1, <2>2, <2>3, <2>4 DEF MemoryEffect, SameSleeping
<1>9. CASE SleepUnmap(a)
  <2>1. adm[a].op = "sleep_unmap" /\ UNCHANGED <<loaded, is_sleeping>>
    BY <1>9 DEF SleepUnmap, At
  <2>2. /\ mapped' = Unmapped(m, adm[a].pages, WorkersOf[m]) /\ Goto(a, "sleep_workers")
        /\ used' = ReleasePages(used, m, Cardinality(adm[a].pages) * PhyPerVirt[m])
    BY <1>1, <1>9 DEF SleepUnmap, Succeeds, Fails
  <2>3. adm'[a].op = "sleep_workers"
    BY <1>4, <1>5, <2>2
  <2> QED BY <1>3, <2>1, <2>2, <2>3 DEF MemoryEffect, SameSleeping
<1>10. CASE WakeupReserve(a)
  <2>1. /\ adm[a].op = "wake_check" /\ UNCHANGED <<loaded, mapped, is_sleeping>> /\ is_sleeping[m]
        /\ used' = ConsumePages(used, m, WakeupPages(m))
        /\ adm' = [adm EXCEPT ![a].op = "wake_map", ![a].pages = MappedPages(m)]
    BY <1>10 DEF WakeupReserve, At, workerVars
  <2>2. adm'[a].op = "wake_map"
    BY <1>4, <1>5, <2>1
  <2> QED BY <1>3, <2>1, <2>2 DEF MemoryEffect, SameSleeping
<1>11. CASE WakeupMap(a)
  <2>1. adm[a].op = "wake_map" /\ UNCHANGED <<loaded, used, is_sleeping>>
    BY <1>11 DEF WakeupMap, At
  <2>2. mapped' = Mapped(m, adm[a].pages, WorkersOf[m]) /\ Goto(a, "wake_weights")
    BY <1>1, <1>11 DEF WakeupMap, Succeeds, Fails
  <2>3. adm'[a].op = "wake_weights"
    BY <1>4, <1>5, <2>2
  <2> QED BY <1>3, <2>1, <2>2, <2>3 DEF MemoryEffect, SameSleeping
<1>12. CASE WakeupWeights(a)
  <2>1. adm[a].op = "wake_weights" /\ UNCHANGED <<mapped, used>>
    BY <1>12 DEF WakeupWeights, At
  <2>2. /\ loaded' = [loaded EXCEPT ![m] = @ \union WorkersOf[m]] /\ Goto(a, "wake_workers")
        /\ is_sleeping' = [is_sleeping EXCEPT ![m] = FALSE]
    BY <1>1, <1>12 DEF WakeupWeights, Succeeds, Fails
  <2>3. /\ loaded'[m] = loaded[m] \union WorkersOf[m] /\ (\A k \in Models \ {m} : loaded'[k] = loaded[k])
        /\ ~is_sleeping'[m]
    BY <1>2, <2>2
  <2>4. adm'[a].op = "wake_workers"
    BY <1>4, <1>5, <2>2
  <2> QED BY <1>3, <2>1, <2>3, <2>4 DEF MemoryEffect
<1> QED BY <1>6, <1>7, <1>8, <1>9, <1>10, <1>11, <1>12 DEF HandlerStep


\* The model a handler works for: its charge changes with used, and its memory
\* stays within what is charged.
LEMMA OwnAccount ==
    ASSUME ListInv, NEW a \in Handlers, NEW m \in Models, Serves(a, m), \A b \in Handlers : Serves(b, m) => b = a,
           \A b \in Handlers : Serves(b, m)' => b = a, adm'[a].op = "idle" \/ adm'[a].model = m,
           MemoryEffect(a, m), UNCHANGED <<free, reserved, allocated, pre>>, RecordsFollow(m), PagesMapped(m),
           MemoryFollows(m)
    PROVE  /\ \/ used' = used /\ Charge(m)' = Charge(m)
              \/ \E d \in Nat : ChargedMore(m, d) \/ ChargedLess(m, d)
           /\ MemoryFollows(m)'
<1> DEFINE A == VirtPages(m) \ Range(free[m])
           Q == MappedPages(m)
           P == PhyPerVirt[m]
           W == WeightPages[m]
<1>1. /\ TypeOK /\ WorkersOf[m] \subseteq Workers /\ Q \in SUBSET Pages /\ IsFiniteSet(Q) /\ P \in Nat /\ W \in Nat
      /\ Cardinality(Q) \in Nat /\ Cardinality(Q) * P \in Nat
  BY WorkersAssumption, PageCounts DEF ListInv
<1>2. Q \subseteq A /\ Range(pre.plan[m]) \subseteq A \ Q
  BY PagesPlaced
<1>3. /\ PagesCharged(m) <=> ~is_sleeping[m] \/ adm[a].op \in {"sleep_weights", "sleep_unmap", "wake_map", "wake_weights"}
      /\ WeightsCharged(m) <=> ~is_sleeping[m] \/ adm[a].op \in {"sleep_weights", "wake_map", "wake_weights"}
  BY ChargedBy
<1>4. /\ PagesCharged(m)' <=> ~is_sleeping'[m] \/ adm'[a].op \in {"sleep_weights", "sleep_unmap", "wake_map", "wake_weights"}
      /\ WeightsCharged(m)' <=> ~is_sleeping'[m] \/ adm'[a].op \in {"sleep_weights", "wake_map", "wake_weights"}
  BY ChargedThen
<1>5. /\ Claimed(m) = IF PagesCharged(m) THEN A ELSE A \ Q
      /\ Claimed(m)' = IF PagesCharged(m)' THEN A ELSE A \ Q
  <2>1. MappedPages(m)' = Q /\ VirtPages(m)' = VirtPages(m)
    BY DEF MappedPages, VirtPages
  <2> QED BY <2>1 DEF Claimed, Uncharged
<1>6. /\ Weight(m) = (IF WeightsCharged(m) THEN W ELSE 0)
      /\ Weight(m)' = (IF WeightsCharged(m)' THEN W ELSE 0)
  BY DEF Weight
<1>7. /\ adm[a].op \in {"sleep_cas", "sleep_lock", "wake_workers"} <=> ~is_sleeping[m]
      /\ adm[a].op \in {"wake_map", "sleep_weights", "sleep_unmap"} => adm[a].pages = Q
  BY DEF RecordsFollow, PagesMapped, MemoryFollows
<1>8. /\ \A w \in Workers : /\ mapped[m][w] \subseteq Claimed(m) \ Range(pre.plan[m])
                            /\ w \notin WorkersOf[m] => mapped[m][w] = {}
      /\ loaded[m] \subseteq WorkersOf[m]
      /\ WeightsCharged(m) \/ loaded[m] = {} \/ W = 0
      /\ ~is_sleeping[m] => loaded[m] = WorkersOf[m]
  BY DEF MemoryFollows
<1>9. ASSUME /\ \A w \in Workers : /\ mapped'[m][w] \subseteq Claimed(m)' \ Range(pre.plan[m])
                                   /\ w \notin WorkersOf[m] => mapped'[m][w] = {}
             /\ loaded'[m] \subseteq WorkersOf[m]
             /\ WeightsCharged(m)' \/ loaded'[m] = {} \/ W = 0
             /\ ~is_sleeping'[m] => loaded'[m] = WorkersOf[m]
             /\ adm'[a].op \in {"sleep_weights", "sleep_unmap"} => adm'[a].pages = Q
      PROVE  MemoryFollows(m)'
  <2>1. MappedPages(m)' = Q /\ pre'.plan[m] = pre.plan[m]
    BY DEF MappedPages
  <2> HIDE DEF Q
  <2>2. \A b \in Handlers : Serves(b, m)' /\ adm'[b].op \in {"sleep_weights", "sleep_unmap"} => adm'[b].pages = Q
    BY <1>9
  <2> QED BY <1>9, <2>1, <2>2 DEF MemoryFollows
<1>10. Claimed(m)' = Claimed(m) /\ Weight(m)' = Weight(m) => Charge(m)' = Charge(m)
  BY DEF Charge
<1> HIDE DEF A, Q, P, W
<1>11. CASE /\ adm[a].op \in {"sleep_cas", "wake_check", "sleep_workers", "wake_workers"} /\ adm'[a].op \in {"idle", "sleep_lock"}
            /\ used' = used /\ mapped' = mapped /\ loaded' = loaded /\ SameSleeping(m)
  <2>1. (PagesCharged(m)' <=> PagesCharged(m)) /\ (WeightsCharged(m)' <=> WeightsCharged(m))
    BY <1>3, <1>4, <1>11 DEF SameSleeping
  <2>2. Claimed(m)' = Claimed(m) /\ Weight(m)' = Weight(m)
    BY <1>5, <1>6, <2>1
  <2> QED BY <1>8, <1>9, <1>10, <1>11, <2>1, <2>2 DEF SameSleeping
<1>12. CASE /\ adm[a].op = "sleep_lock" /\ adm'[a].op = (IF WeightPages[m] > 0 THEN "sleep_weights" ELSE "sleep_unmap")
            /\ ~is_sleeping[m] /\ is_sleeping'[m] /\ adm'[a].pages = MappedPages(m)
            /\ used' = used /\ mapped' = mapped /\ loaded' = loaded
  <2>1. PagesCharged(m)' /\ PagesCharged(m) /\ WeightsCharged(m) /\ (WeightsCharged(m)' \/ W = 0)
    BY <1>1, <1>3, <1>4, <1>12 DEF W
  <2>2. Claimed(m)' = Claimed(m) /\ Weight(m)' = Weight(m)
    BY <1>5, <1>6, <2>1
  <2>3. adm'[a].pages = Q
    BY <1>12 DEF Q
  <2> QED BY <1>8, <1>9, <1>10, <1>12, <2>1, <2>2, <2>3
<1>13. CASE /\ adm[a].op = "sleep_weights" /\ adm'[a].op = "sleep_unmap" /\ adm'[a].pages = adm[a].pages /\ SameSleeping(m)
            /\ used' = ReleasePages(used, m, WeightPages[m]) /\ mapped' = mapped
            /\ loaded'[m] = loaded[m] \ WorkersOf[m]
  <2>1. PagesCharged(m)' /\ PagesCharged(m) /\ WeightsCharged(m) /\ ~WeightsCharged(m)' /\ is_sleeping'[m]
    BY <1>3, <1>4, <1>7, <1>13 DEF SameSleeping
  <2>2. Claimed(m)' = Claimed(m) /\ Weight(m)' = 0 /\ Weight(m) = W
    BY <1>5, <1>6, <2>1
  <2>3. ChargedLess(m, W)
    <3> DEFINE B == {}
    <3>1. B \in SUBSET Claimed(m) /\ Claimed(m)' = Claimed(m) \ B /\ Weight(m) = Weight(m)' + W /\ Weight(m)' \in Nat
      BY <1>1, <2>2
    <3>2. Cardinality(B) = 0
      BY FS_EmptySet
    <3> HIDE DEF B
    <3>3. Charge(m) = Charge(m)' + Cost(B, PhyPerVirt[m], W) /\ Charge(m)' \in Nat
      BY <1>1, <3>1, ChargeShrinks
    <3>4. Cost(B, PhyPerVirt[m], W) = W
      BY <1>1, <3>2 DEF Cost, P
    <3> QED BY <1>13, <3>3, <3>4 DEF ChargedLess, W
  <2>4. loaded'[m] = {}
    BY <1>8, <1>13
  <2>5. adm'[a].pages = Q
    BY <1>7, <1>13
  <2>6. MemoryFollows(m)'
    BY <1>8, <1>9, <1>13, <2>1, <2>2, <2>4, <2>5
  <2> QED BY <1>1, <2>3, <2>6
<1>14. CASE /\ adm[a].op = "sleep_unmap" /\ adm'[a].op = "sleep_workers" /\ SameSleeping(m) /\ loaded' = loaded
            /\ used' = ReleasePages(used, m, Cardinality(adm[a].pages) * PhyPerVirt[m])
            /\ mapped' = Unmapped(m, adm[a].pages, WorkersOf[m])
  <2>1. PagesCharged(m) /\ ~PagesCharged(m)' /\ ~WeightsCharged(m) /\ ~WeightsCharged(m)' /\ is_sleeping'[m]
    BY <1>3, <1>4, <1>7, <1>14 DEF SameSleeping
  <2>2. Claimed(m) = A /\ Claimed(m)' = A \ Q /\ Weight(m)' = 0 /\ Weight(m) = 0
    BY <1>5, <1>6, <2>1
  <2>3. mapped' = Unmapped(m, Q, WorkersOf[m]) /\ used' = ReleasePages(used, m, Cardinality(Q) * P)
    BY <1>7, <1>14 DEF P
  <2>4. \A w \in Workers : mapped'[m][w] = IF w \in WorkersOf[m] THEN mapped[m][w] \ Q ELSE mapped[m][w]
    BY <1>1, <2>3 DEF Unmapped, TypeOK
  <2>5. \A w \in Workers : /\ mapped'[m][w] \subseteq Claimed(m)' \ Range(pre.plan[m])
                           /\ w \notin WorkersOf[m] => mapped'[m][w] = {}
    BY <1>8, <2>2, <2>4
  <2>6. MemoryFollows(m)'
    BY <1>8, <1>9, <1>14, <2>1, <2>5
  <2>7. ChargedLess(m, Cardinality(Q) * P)
    <3>1. Q \in SUBSET Claimed(m) /\ Claimed(m)' = Claimed(m) \ Q /\ Weight(m) = Weight(m)' + 0 /\ Weight(m)' \in Nat
      BY <1>2, <2>2
    <3>2. Charge(m) = Charge(m)' + Cost(Q, PhyPerVirt[m], 0) /\ Charge(m)' \in Nat
      BY <1>1, <3>1, ChargeShrinks
    <3>3. Cost(Q, P, 0) = Cardinality(Q) * P
      <4> DEFINE x == Cardinality(Q) * P
      <4>1. Cost(Q, P, 0) = x + 0 /\ x \in Nat
        BY <1>1 DEF Cost
      <4> HIDE DEF x
      <4>2. Cost(Q, P, 0) = x
        BY <4>1
      <4> QED BY <4>2 DEF x
    <3> QED BY <2>3, <3>2, <3>3 DEF ChargedLess, P
  <2> QED BY <1>1, <2>6, <2>7
<1>15. CASE /\ adm[a].op = "wake_check" /\ adm'[a].op = "wake_map" /\ is_sleeping[m] /\ SameSleeping(m)
            /\ used' = ConsumePages(used, m, WakeupPages(m)) /\ mapped' = mapped /\ loaded' = loaded
  <2>1. ~PagesCharged(m) /\ PagesCharged(m)' /\ ~WeightsCharged(m) /\ WeightsCharged(m)' /\ is_sleeping'[m]
    BY <1>3, <1>4, <1>15 DEF SameSleeping
  <2>2. Claimed(m) = A \ Q /\ Claimed(m)' = A /\ Weight(m)' = W /\ Weight(m) = 0
    BY <1>5, <1>6, <2>1
  <2>3. MemoryFollows(m)'
    BY <1>8, <1>9, <1>15, <2>1, <2>2
  <2>4. Claimed(m) \intersect Q = {} /\ Claimed(m)' = Claimed(m) \union Q /\ Weight(m)' = Weight(m) + W
    BY <1>1, <1>2, <2>2
  <2>5. Charge(m)' = Charge(m) + Cost(Q, PhyPerVirt[m], W) /\ Cost(Q, PhyPerVirt[m], W) \in Nat
    BY <1>1, <2>4, ChargeGrows
  <2>6. WakeupPages(m) = Cost(Q, PhyPerVirt[m], W)
    BY DEF WakeupPages, Cost, Q, W
  <2>7. ChargedMore(m, Cost(Q, PhyPerVirt[m], W))
    BY <1>15, <2>5, <2>6 DEF ChargedMore
  <2> QED BY <2>3, <2>5, <2>7
<1>16. CASE /\ adm[a].op = "wake_map" /\ adm'[a].op = "wake_weights" /\ SameSleeping(m) /\ loaded' = loaded
            /\ used' = used /\ mapped' = Mapped(m, adm[a].pages, WorkersOf[m])
  <2>1. PagesCharged(m) /\ PagesCharged(m)' /\ WeightsCharged(m) /\ WeightsCharged(m)' /\ is_sleeping'[m]
    BY <1>3, <1>4, <1>7, <1>16 DEF SameSleeping
  <2>2. Claimed(m) = A /\ Claimed(m)' = A /\ Weight(m)' = Weight(m)
    BY <1>5, <1>6, <2>1
  <2>3. mapped' = Mapped(m, Q, WorkersOf[m])
    BY <1>7, <1>16
  <2>4. \A w \in Workers : mapped'[m][w] = IF w \in WorkersOf[m] THEN mapped[m][w] \union Q ELSE mapped[m][w]
    BY <1>1, <2>3 DEF Mapped, TypeOK
  <2>5. \A w \in Workers : /\ mapped'[m][w] \subseteq Claimed(m)' \ Range(pre.plan[m])
                           /\ w \notin WorkersOf[m] => mapped'[m][w] = {}
    BY <1>2, <1>8, <2>2, <2>4
  <2>6. MemoryFollows(m)'
    BY <1>8, <1>9, <1>16, <2>1, <2>5
  <2> QED BY <1>10, <1>16, <2>2, <2>6
<1>17. CASE /\ adm[a].op = "wake_weights" /\ adm'[a].op = "wake_workers" /\ ~is_sleeping'[m]
            /\ used' = used /\ mapped' = mapped /\ loaded'[m] = loaded[m] \union WorkersOf[m]
  <2>1. PagesCharged(m) /\ PagesCharged(m)' /\ WeightsCharged(m) /\ WeightsCharged(m)'
    BY <1>3, <1>4, <1>17
  <2>2. Claimed(m)' = Claimed(m) /\ Weight(m)' = Weight(m)
    BY <1>5, <1>6, <2>1
  <2>3. loaded'[m] = WorkersOf[m]
    BY <1>8, <1>17
  <2>4. MemoryFollows(m)'
    BY <1>8, <1>9, <1>17, <2>1, <2>2, <2>3
  <2> QED BY <1>10, <1>17, <2>2, <2>4
<1> QED BY <1>11, <1>12, <1>13, <1>14, <1>15, <1>16, <1>17 DEF MemoryEffect

\* The account after a step of a handler of /sleep or /wakeup.
LEMMA HandlerAccount ==
    ASSUME ListInv, OneCallPerModel, NEW a \in Handlers, HandlerStep(a), failures' = failures,
           \A k \in Models : RecordsFollow(k) /\ PagesMapped(k), AccountExact, \A k \in Models : MemoryFollows(k)
    PROVE  AccountExact' /\ \A k \in Models : MemoryFollows(k)'
<1>1. PICK m \in Models : adm[a].model = m
  BY HandlerKeepsModel DEF ListInv
<1>2. TypeOK /\ (adm'[a].op = "idle" \/ adm'[a].model = m)
  BY <1>1, HandlerKeepsModel DEF ListInv
<1>3. /\ Serves(a, m) /\ (\A b \in Handlers : Serves(b, m) => b = a) /\ (\A b \in Handlers : Serves(b, m)' => b = a)
      /\ \A k \in Models \ {m}, b \in Handlers : Serves(b, k)' => Serves(b, k) /\ adm'[b] = adm[b]
      /\ \A k \in Models \ {m}, b \in Handlers : Serves(b, k) => Serves(b, k)'
  BY <1>1, HandlerServes
<1>4. /\ MemoryEffect(a, m) /\ UNCHANGED <<free, reserved, allocated, pre>>
      /\ \A k \in Models \ {m} : loaded'[k] = loaded[k]
  BY <1>1, MemoryOfHandler
<1>5. ASSUME NEW k \in Models \ {m} PROVE Charge(k)' = Charge(k) /\ MemoryFollows(k)'
  <2>1. is_sleeping'[k] = is_sleeping[k] /\ mapped'[k] = mapped[k]
    BY <1>1, EffectOfHandler DEF SameSleeping
  <2>2. MappedPages(k)' = MappedPages(k) /\ free'[k] = free[k] /\ pre'.plan[k] = pre.plan[k]
    BY <1>4 DEF MappedPages
  <2> QED BY <1>3, <1>4, <2>1, <2>2, SameMemory
<1>6. /\ \/ used' = used /\ Charge(m)' = Charge(m)
         \/ \E d \in Nat : ChargedMore(m, d) \/ ChargedLess(m, d)
      /\ MemoryFollows(m)'
  BY <1>2, <1>3, <1>4, OwnAccount
<1>7. AccountExact'
  BY <1>2, <1>5, <1>6, AccountOfOne
<1> QED BY <1>5, <1>6, <1>7

\* A handler that starts is not at work on the pages yet.
LEMMA BeginAccount ==
    ASSUME ListInv, NEW a \in Handlers, HandlerBegins(a), AccountExact, \A k \in Models : MemoryFollows(k)
    PROVE  AccountExact' /\ \A k \in Models : MemoryFollows(k)'
<1>1. PICK m \in Models : SleepBegin(a, m) \/ WakeupBegin(a, m)
  BY DEF HandlerBegins
<1>2. /\ UNCHANGED <<is_sleeping, mapped, reserved, allocated>> /\ adm'[a].op \in {"sleep_cas", "wake_check"}
      /\ adm[a].op = "idle" /\ \A b \in Handlers : b # a => adm'[b] = adm[b]
  BY <1>1, BeginEffect
<1>3. UNCHANGED <<free, used, pre, loaded>>
  BY <1>1 DEF SleepBegin, WakeupBegin, listVars, workerVars
<1>4. ASSUME NEW k \in Models PROVE Charge(k)' = Charge(k) /\ MemoryFollows(k)'
  <2>1. \A b \in Handlers : b # a => (Serves(b, k)' <=> Serves(b, k)) /\ adm'[b] = adm[b]
    BY <1>2 DEF Serves
  <2>2. ~Serves(a, k) /\ adm'[a].op \notin {"sleep_weights", "sleep_unmap", "wake_map", "wake_weights"}
    BY <1>2 DEF Serves
  <2>3. (PagesCharged(k)' <=> PagesCharged(k)) /\ (WeightsCharged(k)' <=> WeightsCharged(k))
    <3>1. ASSUME NEW ops \in SUBSET {"sleep_weights", "sleep_unmap", "wake_map", "wake_weights"}
          PROVE  AtWork(k, ops)' <=> AtWork(k, ops)
      BY <2>1, <2>2 DEF AtWork
    <3> QED BY <1>2, <3>1 DEF PagesCharged, WeightsCharged
  <2>4. MappedPages(k)' = MappedPages(k) /\ Weight(k)' = Weight(k)
    BY <1>2, <2>3 DEF MappedPages, Weight
  <2>5. Claimed(k)' = Claimed(k)
    BY <1>3, <2>3, <2>4 DEF Claimed, Uncharged, VirtPages
  <2>6. Charge(k)' = Charge(k)
    BY <2>4, <2>5 DEF Charge
  <2>7. \A b \in Handlers : Serves(b, k)' /\ adm'[b].op \in {"sleep_weights", "sleep_unmap"} =>
          Serves(b, k) /\ adm[b].op \in {"sleep_weights", "sleep_unmap"} /\ adm'[b].pages = adm[b].pages
    BY <2>1, <2>2
  <2>8. MemoryFollows(k)'
    BY <1>2, <1>3, <2>3, <2>4, <2>5, <2>7 DEF MemoryFollows
  <2> QED BY <2>6, <2>8
<1>5. TypeOK
  BY DEF ListInv
<1> QED BY <1>3, <1>4, <1>5, AccountStays


-----------------------------------------------------------------------------
\* Models that start awake are charged their weights and a page.
LEMMA AccountInit ==
    ASSUME Init
    PROVE  AccountInv
<1>1. ListInv /\ TypeOK
  BY ListInit DEF ListInv
<1>2. \A a \in Handlers, k \in Models : ~Serves(a, k)
  BY DEF Init, Serves, NoHandler
<1>3. ASSUME NEW m \in Models
      PROVE  Charge(m) = (IF m \in StartAwake THEN StartPages[m] ELSE 0) /\ StartPages[m] \in Nat /\ MemoryFollows(m)
  <2> DEFINE z == PaddingPage
  <2>1. /\ reserved[m] = <<>> /\ allocated[m] = {z} /\ pre.plan[m] = <<>> /\ mgr[m] = Idle
        /\ is_sleeping[m] = (m \notin StartAwake)
        /\ loaded[m] = (IF m \in StartAwake THEN WorkersOf[m] ELSE {})
        /\ \A w \in Workers : mapped[m][w] = IF m \in StartAwake /\ w \in WorkersOf[m] THEN {z} ELSE {}
    BY DEF Init
  <2>2. MappedPages(m) = {z} /\ Range(pre.plan[m]) = {} /\ Calling(m) = {}
    BY <2>1 DEF MappedPages, Range, Calling, InCall, Idle
  <2>3. VirtPages(m) \ Range(free[m]) = {z}
    BY <1>1, <2>2, PagesPlaced
  <2>4. (PagesCharged(m) <=> m \in StartAwake) /\ (WeightsCharged(m) <=> m \in StartAwake)
    BY <1>2, <2>1 DEF PagesCharged, WeightsCharged, AtWork
  <2>5. Claimed(m) = (IF m \in StartAwake THEN {z} ELSE {}) /\ Weight(m) = (IF m \in StartAwake THEN WeightPages[m] ELSE 0)
    <3> HIDE DEF z
    <3> QED BY <2>2, <2>3, <2>4 DEF Claimed, Uncharged, Weight
  <2>6. PhyPerVirt[m] \in Nat /\ WeightPages[m] \in Nat /\ StartPages[m] = PhyPerVirt[m] + WeightPages[m]
    BY PagesAssumption, StartAssumption DEF StartPages
  <2>7. Cardinality({z}) = 1 /\ Cardinality({}) = 0
    BY FS_Singleton, FS_EmptySet
  <2>8. Charge(m) = (IF m \in StartAwake THEN StartPages[m] ELSE 0) /\ StartPages[m] \in Nat
    <3> HIDE DEF z
    <3> QED BY <2>5, <2>6, <2>7 DEF Charge, Cost
  <2>9. MemoryFollows(m)
    <3> HIDE DEF z
    <3>1. \A w \in Workers : /\ mapped[m][w] \subseteq Claimed(m) \ Range(pre.plan[m])
                             /\ w \notin WorkersOf[m] => mapped[m][w] = {}
      BY <2>1, <2>2, <2>5
    <3> QED BY <1>2, <2>1, <2>4, <3>1 DEF MemoryFollows
  <2> QED BY <2>8, <2>9
<1>4. ASSUME NEW w \in Workers
      PROVE  used[w] = SumFunctionOnSet(Account(w), Models) /\ used[w] \in 0 .. PhyPages
  <2> DEFINE R == {m \in StartAwake : w \in WorkersOf[m]}
             g == Account(w)
  <2>1. used[w] = SumFunctionOnSet(StartPages, R) /\ used[w] <= PhyPages
    BY StartAssumption DEF Init, UsedAtStart
  <2>2. R \in SUBSET Models /\ IsFiniteSet(Models) /\ IsFiniteSet(R)
    BY BoundAssumption, ModelsFinite, FS_Subset
  <2>3. \A m \in Models : StartPages[m] \in Nat /\ g[m] = IF m \in R THEN StartPages[m] ELSE 0
    BY <1>3 DEF Account
  <2> HIDE DEF R, g
  <2>4. SumFunctionOnSet(g, Models) = SumFunctionOnSet(StartPages, R)
    BY <2>2, <2>3, SumRestricts
  <2>5. SumFunctionOnSet(StartPages, R) \in Nat
    BY <2>2, <2>3, SumIsNat
  <2> QED BY <2>1, <2>4, <2>5, PagesAssumption DEF g
<1>5. PoolInv
  BY <1>4 DEF PoolInv, Init
<1> QED BY <1>3, <1>4, <1>5 DEF AccountInv, AccountExact

\* AccountInv is inductive.
LEMMA AccountNext ==
    ASSUME ListInv, SleepInv, AccountInv, OneCallPerModel, [Next]_vars
    PROVE  AccountInv'
<1>1. PoolInv' /\ GateInv
  BY PoolNext DEF AccountInv, SleepInv
<1>2. ASSUME Undisturbed' PROVE AccountExact' /\ \A k \in Models : MemoryFollows(k)'
  <2>1. Undisturbed /\ failures' = failures /\ slipped = {}
    BY <1>1, <1>2, StaysDisturbed DEF Undisturbed
  <2>2. AccountExact /\ \A k \in Models : MemoryFollows(k) /\ RecordsFollow(k) /\ PagesMapped(k)
    BY <2>1 DEF AccountInv, SleepInv
  <2>3. CASE UNCHANGED vars
    <3>1. UNCHANGED <<is_sleeping, free, pre, reserved, allocated, mapped, loaded, adm, used>>
      BY <2>3 DEF vars
    <3>2. ASSUME NEW k \in Models PROVE Charge(k)' = Charge(k) /\ MemoryFollows(k)'
      <4>1. MappedPages(k)' = MappedPages(k)
        BY <3>1 DEF MappedPages
      <4>2. \A b \in Handlers : (Serves(b, k)' => Serves(b, k) /\ adm'[b] = adm[b]) /\ (Serves(b, k) => Serves(b, k)')
        BY <3>1 DEF Serves
      <4> QED BY <2>2, <3>1, <4>1, <4>2, SameMemory
    <3>3. TypeOK
      BY DEF ListInv
    <3> QED BY <2>2, <3>1, <3>2, <3>3, AccountStays
  <2>4. ASSUME NEW r \in Requests, RequestStep(r) PROVE AccountExact' /\ \A k \in Models : MemoryFollows(k)'
    BY <1>1, <2>1, <2>2, <2>4, RequestAccount
  <2>5. ASSUME NEW m \in Models, ManagerStep(m) PROVE AccountExact' /\ \A k \in Models : MemoryFollows(k)'
    BY <1>1, <2>1, <2>2, <2>5, ManagerAccount
  <2>6. CASE PreallocStep
    BY <2>1, <2>2, <2>6, PreallocAccount
  <2>7. ASSUME NEW a \in Handlers, HandlerStep(a) PROVE AccountExact' /\ \A k \in Models : MemoryFollows(k)'
    BY <2>1, <2>2, <2>7, HandlerAccount
  <2>8. ASSUME NEW a \in Handlers, HandlerBegins(a) PROVE AccountExact' /\ \A k \in Models : MemoryFollows(k)'
    BY <2>2, <2>8, BeginAccount
  <2> QED BY <2>3, <2>4, <2>5, <2>6, <2>7, <2>8 DEF Next
<1> QED BY <1>1, <1>2 DEF AccountInv

\* What a worker has in use for a model.
InUse(m, w) == Cost(mapped[m][w], PhyPerVirt[m], IF w \in loaded[m] THEN WeightPages[m] ELSE 0)

\* A worker has no more in use for a model than the model is charged for.
LEMMA InUseIsCharged ==
    ASSUME ListInv, NEW m \in Models, NEW w \in Workers, MemoryFollows(m)
    PROVE  InUse(m, w) \in Nat /\ Account(w)[m] \in Nat /\ InUse(m, w) <= Account(w)[m]
<1> DEFINE U == mapped[m][w]
           C == Claimed(m)
           P == PhyPerVirt[m]
           x == IF w \in loaded[m] THEN WeightPages[m] ELSE 0
           y == Weight(m)
           c == Cardinality(U)
           d == Cardinality(C)
<1>1. /\ TypeOK /\ P \in Nat /\ WeightPages[m] \in Nat /\ Weight(m) \in Nat /\ Charge(m) \in Nat
      /\ IsFiniteSet(C) /\ d \in Nat /\ Account(w)[m] = IF w \in WorkersOf[m] THEN Charge(m) ELSE 0
  BY PageCounts, ChargeCounts DEF ListInv
<1>2. U \subseteq C /\ (w \notin WorkersOf[m] => U = {} /\ w \notin loaded[m])
  BY DEF MemoryFollows
<1>3. c \in Nat /\ c <= d /\ (w \notin WorkersOf[m] => c = 0)
  BY <1>1, <1>2, FS_Subset, FS_CardinalityType, FS_EmptySet
<1>4. x \in Nat /\ x <= y /\ (w \notin WorkersOf[m] => x = 0)
  BY <1>1, <1>2 DEF MemoryFollows, Weight
<1>5. InUse(m, w) = c * P + x /\ Charge(m) = d * P + y
  BY DEF InUse, Charge, Cost
<1> HIDE DEF U, C, P, x, y, c, d
<1>6. \A i, j \in Nat : i * P \in Nat /\ (i <= j => i * P <= j * P) /\ 0 * P = 0
  BY <1>1
<1>7. c * P \in Nat /\ d * P \in Nat /\ c * P <= d * P /\ (c = 0 => c * P = 0)
  BY <1>1, <1>3, <1>6
<1>8. y \in Nat
  BY <1>1 DEF y
<1>9. c * P + x \in Nat /\ c * P + x <= d * P + y /\ d * P + y \in Nat /\ (c = 0 /\ x = 0 => c * P + x = 0)
  BY <1>4, <1>7, <1>8
<1> QED BY <1>1, <1>3, <1>4, <1>5, <1>9

\* When no thread works for the model, the worker has exactly that in use.
LEMMA InUseAtRest ==
    ASSUME ListInv, NEW m \in Models, NEW w \in Workers, MemoryFollows(m), PagesMapped(m), Quiet(m)
    PROVE  InUse(m, w) = Account(w)[m]
<1>1. /\ TypeOK /\ PhyPerVirt[m] \in Nat /\ WeightPages[m] \in Nat
      /\ Account(w)[m] = IF w \in WorkersOf[m] THEN Charge(m) ELSE 0
  BY PageCounts, ChargeCounts DEF ListInv
<1>2. (\A a \in Handlers : ~Serves(a, m)) /\ Range(pre.plan[m]) = {} /\ Calling(m) = {}
  BY DEF Quiet, Serves, Planned, Calling, InCall, Idle
<1>3. (PagesCharged(m) <=> ~is_sleeping[m]) /\ (WeightsCharged(m) <=> ~is_sleeping[m])
  BY <1>2 DEF PagesCharged, WeightsCharged, AtWork
<1>4. VirtPages(m) \ Range(free[m]) = MappedPages(m)
  BY <1>2, PagesPlaced
<1>5. Claimed(m) = (IF is_sleeping[m] THEN {} ELSE MappedPages(m)) /\ Weight(m) = (IF is_sleeping[m] THEN 0 ELSE WeightPages[m])
  BY <1>3, <1>4 DEF Claimed, Uncharged, Weight
<1>6. /\ mapped[m][w] \subseteq Claimed(m) /\ (w \notin WorkersOf[m] => mapped[m][w] = {}) /\ loaded[m] \subseteq WorkersOf[m]
      /\ is_sleeping[m] => loaded[m] = {} \/ WeightPages[m] = 0
      /\ ~is_sleeping[m] => loaded[m] = WorkersOf[m]
      /\ ~is_sleeping[m] /\ w \in WorkersOf[m] => MappedPages(m) \subseteq mapped[m][w]
  BY <1>3 DEF MemoryFollows, PagesMapped
<1> DEFINE x == IF w \in loaded[m] THEN WeightPages[m] ELSE 0
<1>7. CASE w \in WorkersOf[m]
  <2>1. mapped[m][w] = Claimed(m) /\ x = Weight(m)
    BY <1>5, <1>6, <1>7
  <2> QED BY <1>1, <1>7, <2>1 DEF InUse, Charge
<1>8. CASE w \notin WorkersOf[m]
  <2>1. mapped[m][w] = {} /\ x = 0 /\ Cardinality({}) = 0
    BY <1>6, <1>8, FS_EmptySet
  <2>2. InUse(m, w) = 0 * PhyPerVirt[m] + 0
    BY <2>1 DEF InUse, Cost
  <2> QED BY <1>1, <1>8, <2>2
<1> QED BY <1>7, <1>8

\* The invariants give the account.
LEMMA InvariantAccounts ==
    ASSUME ListInv, SleepInv, AccountInv
    PROVE  WorkerPagesAccounted
<1>1. ASSUME NEW w \in Workers PROVE used[w] \in 0 .. PhyPages /\ AccountCovers(w) /\ AccountExactAtRest(w)
  <2> DEFINE f == [m \in Models |-> InUse(m, w)]
             g == Account(w)
  <2>1. used[w] \in 0 .. PhyPages
    BY DEF AccountInv, PoolInv
  <2>2. PhysicallyUsed(w) = SumFunctionOnSet(f, Models)
    BY DEF PhysicallyUsed, SumFunction, InUse, Cost
  <2>3. ASSUME Undisturbed PROVE PhysicallyUsed(w) <= used[w]
    <3>1. used[w] = SumFunctionOnSet(g, Models) /\ \A m \in Models : MemoryFollows(m)
      BY <2>3 DEF AccountInv, AccountExact
    <3>2. \A m \in Models : f[m] \in Nat /\ g[m] \in Nat /\ f[m] <= g[m]
      BY <3>1, InUseIsCharged
    <3> HIDE DEF f, g
    <3>3. SumFunctionOnSet(f, Models) <= SumFunctionOnSet(g, Models)
      BY <3>2, ModelsFinite, SumCompares
    <3> QED BY <2>2, <3>1, <3>3
  <2>4. ASSUME Undisturbed, \A m \in Models : Quiet(m) PROVE used[w] = PhysicallyUsed(w)
    <3>1. used[w] = SumFunctionOnSet(g, Models) /\ \A m \in Models : MemoryFollows(m) /\ PagesMapped(m)
      BY <2>4 DEF AccountInv, AccountExact, SleepInv
    <3>2. \A m \in Models : f[m] \in Nat /\ f[m] = g[m]
      BY <2>4, <3>1, InUseIsCharged, InUseAtRest
    <3> HIDE DEF f, g
    <3>3. SumFunctionOnSet(f, Models) = SumFunctionOnSet(g, Models)
      BY <3>2, ModelsFinite, SumIsEqual
    <3> QED BY <2>2, <3>1, <3>3
  <2> QED BY <2>1, <2>3, <2>4 DEF AccountCovers, AccountExactAtRest
<1> QED BY <1>1 DEF WorkerPagesAccounted

\* worker_pages_used_ never exceeds the pool, whatever broadcasts fail; unless
\* something failed it covers what every worker has mapped, and is exactly that
\* when no thread is at work.
THEOREM PagesAreAccounted == Spec /\ []OneCallPerModel => []WorkerPagesAccounted
<1>1. Init => ListInv /\ SleepInv /\ AccountInv
  BY ListInit, SleepInit, AccountInit
<1>2. ListInv /\ SleepInv /\ AccountInv /\ OneCallPerModel /\ OneCallPerModel' /\ [Next]_vars =>
        ListInv' /\ SleepInv' /\ AccountInv'
  BY ListNext, SleepNext, AccountNext
<1>3. ListInv /\ SleepInv /\ AccountInv => WorkerPagesAccounted
  BY InvariantAccounts
<1> QED BY <1>1, <1>2, <1>3, PTL DEF Spec

\* worker_pages_used_ never exceeds the pool, whatever broadcasts fail and however
\* the calls of /sleep and /wakeup overlap, so the unsigned subtraction of
\* get_min_free_pages_in_range never wraps: whoever takes pages has tested, in the
\* same critical section, that every worker of the model has them.
THEOREM PoolIsNotExceeded == Spec => [](\A w \in Workers : used[w] \in 0 .. PhyPages)
<1>1. Init => ListInv /\ PoolInv
  BY ListInit, AccountInit DEF AccountInv
<1>2. ListInv /\ PoolInv /\ [Next]_vars => ListInv' /\ PoolInv'
  BY ListNext, PoolNext
<1>3. PoolInv => \A w \in Workers : used[w] \in 0 .. PhyPages
  BY DEF PoolInv
<1> QED BY <1>1, <1>2, <1>3, PTL DEF Spec
=============================================================================
