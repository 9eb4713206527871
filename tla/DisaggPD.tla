------------------------------ MODULE DisaggPD ------------------------------
(***************************************************************************)
(* Disaggregated prefill and decode: prefill instances, one decode         *)
(* instance, and the two RPCs between them.                                *)
(*                                                                         *)
(* A prefill instance has three threads.  The dispatch thread reserves     *)
(* blocks on the decode instance (AddNewRequests) before a request may be  *)
(* prefilled; the scheduler thread prefills it, in PUSH mode writing the   *)
(* KV cache into the reserved blocks; one pool thread then hands it over   *)
(* (FirstGeneration) and releases its own blocks, from which a decode      *)
(* instance in PULL mode reads.  The decode instance keeps a reservation   *)
(* in received_request_map_ until the first token arrives.                 *)
(*                                                                         *)
(* Faults: a message or an answer is lost, brpc sends a call again while   *)
(* the first one is still being served, a call times out while it is being *)
(* served, a prefill instance dies and the xLLM service tells the decode   *)
(* instance to unlink it.  Without any fault, a prefill instance whose     *)
(* blocks are still held by requests being handed over fails the next one. *)
(* The documented deployment is modelled: one sequence per request, no     *)
(* prefix cache.  The capacity of request_queue_ (100000) is not reached.  *)
(* The prefill batch holds one request.                                    *)
(***************************************************************************)
EXTENDS Integers, Sequences, FiniteSets, FiniteSetsExt

CONSTANTS
    Prefills,       \* prefill instances
    Requests,       \* request ids
    PrefillOf,      \* PrefillOf[r]: the instance a request is sent to
    Offline,        \* offline requests
    DecodeBlocks,   \* blocks of the decode instance
    Need,           \* Need[r]: blocks of the prompt
    Threshold,      \* prefill_scheduling_memory_usage_threshold, in percent
    PrefillBlocks,  \* blocks of a prefill instance
    Modes,          \* kv_cache_transfer_mode: a set of "PUSH", "PULL"
    MaxRetry,       \* max_retry of the brpc channel
    MaxFaults,      \* bound: faults of the network
    MaxCrashes,     \* bound: prefill instances that die
    None            \* no request

ASSUME BlocksAssumption == IsFiniteSet(DecodeBlocks)
ASSUME NeedAssumption == \A r \in Requests : Need[r] \in 1 .. Cardinality(DecodeBlocks)
ASSUME ModesAssumption == Modes \subseteq {"PUSH", "PULL"} /\ None \notin Requests
ASSUME PrefillOfAssumption == PrefillOf \in [Requests -> Prefills]
ASSUME BoundsAssumption == MaxRetry \in Nat /\ MaxFaults \in Nat /\ PrefillBlocks \in Nat

VARIABLES
    mode,        \* options_.kv_cache_transfer_mode()
    arrived,     \* requests that clients have sent
    online,      \* prefill_request_queue_ of every instance
    offline,     \* prefill_request_queue_offline_
    calling,     \* the request whose AddNewRequests call is under way, or None
    reply,       \* the answer to that call: its status code (0: none) and blocks
    retries,     \* how often brpc has sent that call again
    live,        \* live[r]: messages of the current call that are under way
    stale,       \* stale[r]: messages of calls that have ended
    channel,     \* req_to_channel_map_
    remote,      \* remote_blocks_ids of the sequence's TransferKVInfo
    ready,       \* request_queue_ and the waiting queue of a prefill instance
    engine,      \* the request being prefilled, or None
    tasks,       \* the tasks of prefill_threadpool_, which has one thread
    gen,         \* gen[r]: the FirstGeneration message
    held,        \* requests with blocks on their prefill instance
    received,    \* received_request_map_: the blocks of the request, or {}
    by_instance, \* instance_to_received_requests_map_
    running,     \* blocks of the requests in the decode instance's scheduler
    answers,     \* final answers a client has been given
    crashed,     \* prefill instances that died
    unlinked,    \* those that the decode instance has been told about
    refused,     \* ghost: requests failed by a prefill instance that had no blocks for them
    faulted,     \* ghost: requests that a fault has hit
    faults       \* ghost: faults of the network so far

dispatchVars == <<online, offline, calling, reply, retries, channel, remote>>
netVars == <<live, stale>>
prefillVars == <<ready, engine, tasks, held, refused>>
decodeVars == <<received, by_instance, running>>
faultVars == <<crashed, unlinked, faulted, faults>>
vars == <<mode, arrived, online, offline, calling, reply, retries, live, stale, channel, remote,
          ready, engine, tasks, gen, held, received, by_instance, running, refused, answers,
          crashed, unlinked, faulted, faults>>

NoReply == [code |-> 0, blocks |-> {}]
EachPrefill(v) == [p \in Prefills |-> v]
EachRequest(v) == [r \in Requests |-> v]

Init ==
    /\ mode \in Modes
    /\ arrived = {}
    /\ online = EachPrefill(<<>>) /\ offline = EachPrefill(<<>>)
    /\ calling = EachPrefill(None) /\ reply = EachPrefill(NoReply) /\ retries = EachPrefill(0)
    /\ live = EachRequest(0) /\ stale = EachRequest(0)
    /\ channel = {} /\ remote = EachRequest({})
    /\ ready = EachPrefill(<<>>) /\ engine = EachPrefill(None) /\ tasks = EachPrefill(<<>>)
    /\ gen = EachRequest("none") /\ held = {} /\ refused = {}
    /\ received = EachRequest({}) /\ by_instance = EachPrefill({}) /\ running = EachRequest({})
    /\ answers = EachRequest(0)
    /\ crashed = {} /\ unlinked = {} /\ faulted = {} /\ faults = 0

Fault(r) == faults < MaxFaults /\ faults' = faults + 1 /\ faulted' = faulted \union {r}
NoFault == UNCHANGED <<faults, faulted>>
Answer(r) == answers' = [answers EXCEPT ![r] = @ + 1]

-----------------------------------------------------------------------------
\* The dispatch thread.

Enqueue(p, r) ==
    IF r \in Offline THEN /\ offline' = [offline EXCEPT ![p] = Append(@, r)] /\ UNCHANGED online
                     ELSE /\ online' = [online EXCEPT ![p] = Append(@, r)] /\ UNCHANGED offline

AddRequest(r) ==
    /\ r \notin arrived /\ PrefillOf[r] \notin crashed
    /\ arrived' = arrived \union {r}
    /\ Enqueue(PrefillOf[r], r)
    /\ UNCHANGED <<mode, calling, reply, retries, channel, remote, netVars, prefillVars, gen,
                   decodeVars, answers, faultVars>>

\* An offline request is taken when no online request has come in time.
Dequeued(p, r) ==
    \/ /\ online[p] # <<>> /\ r = Head(online[p])
       /\ online' = [online EXCEPT ![p] = Tail(@)] /\ UNCHANGED offline
    \/ /\ online[p] = <<>> /\ offline[p] # <<>> /\ r = Head(offline[p])
       /\ offline' = [offline EXCEPT ![p] = Tail(@)] /\ UNCHANGED online

\* The request has no decode address, or no channel to it can be created.
DispatchFails(p) ==
    /\ calling[p] = None
    /\ \E r \in Requests : Dequeued(p, r) /\ Fault(r) /\ Answer(r)
    /\ UNCHANGED <<mode, arrived, calling, reply, retries, channel, remote, netVars, prefillVars,
                   gen, decodeVars, crashed, unlinked>>

Dispatch(p) ==
    /\ calling[p] = None
    /\ \E r \in Requests :
         /\ Dequeued(p, r)
         /\ channel' = channel \union {r}
         /\ calling' = [calling EXCEPT ![p] = r]
         /\ live' = [live EXCEPT ![r] = 1]
    /\ UNCHANGED <<mode, arrived, reply, retries, remote, stale, prefillVars, gen, decodeVars,
                   answers, faultVars>>

\* The call is over; messages of it that are still under way will be served.
EndCall(p) ==
    LET r == calling[p]
    IN  /\ calling' = [calling EXCEPT ![p] = None]
        /\ reply' = [reply EXCEPT ![p] = NoReply]
        /\ retries' = [retries EXCEPT ![p] = 0]
        /\ stale' = [stale EXCEPT ![r] = @ + live[r]]
        /\ live' = [live EXCEPT ![r] = 0]

\* 200: the blocks become the sequence's TransferKVInfo and the request may run.
CallAccepted(p) ==
    LET r == calling[p]
    IN  /\ r # None /\ reply[p].code = 200
        /\ EndCall(p)
        /\ remote' = [remote EXCEPT ![r] = reply[p].blocks]
        /\ ready' = [ready EXCEPT ![p] = Append(@, r)]
        /\ UNCHANGED <<mode, arrived, online, offline, channel, engine, tasks, held, refused,
                       gen, decodeVars, answers, faultVars>>

\* Mutant: a rejected request is dropped.
CallRejectedDrops(p) ==
    /\ calling[p] # None /\ reply[p].code \in {404, 500}
    /\ EndCall(p)
    /\ UNCHANGED <<mode, arrived, online, offline, channel, remote, prefillVars, gen, decodeVars,
                   answers, faultVars>>

\* Any other code: the request goes back to its queue.
CallRejected(p) ==
    LET r == calling[p]
    IN  /\ r # None /\ reply[p].code \in {404, 500}
        /\ EndCall(p)
        /\ Enqueue(p, r)
        /\ UNCHANGED <<mode, arrived, channel, remote, prefillVars, gen, decodeVars, answers,
                       faultVars>>

\* Mutant: a failed call is queued again after the client has been told.
CallFailedRequeues(p) ==
    LET r == calling[p]
    IN  /\ r # None /\ reply[p] = NoReply
        /\ live[r] = 0 /\ NoFault
        /\ EndCall(p)
        /\ Answer(r)
        /\ Enqueue(p, r)
        /\ UNCHANGED <<mode, arrived, channel, remote, prefillVars, gen, decodeVars, crashed, unlinked>>

\* cntl.Failed(): nothing more can come, or (a fault) the call timed out.
CallFailed(p) ==
    LET r == calling[p]
    IN  /\ r # None /\ reply[p] = NoReply
        /\ IF live[r] = 0 THEN NoFault ELSE Fault(r)
        /\ EndCall(p)
        /\ Answer(r)
        /\ channel' = channel \ {r}
        /\ UNCHANGED <<mode, arrived, online, offline, remote, prefillVars, gen, decodeVars,
                       crashed, unlinked>>

\* brpc sends the call again after a failure of the connection; the first
\* message may (a fault) have reached the other side.
Resend(p) ==
    LET r == calling[p]
    IN  /\ r # None /\ reply[p] = NoReply /\ retries[p] < MaxRetry
        /\ IF live[r] = 0 THEN NoFault ELSE Fault(r)
        /\ live' = [live EXCEPT ![r] = @ + 1]
        /\ retries' = [retries EXCEPT ![p] = @ + 1]
        /\ UNCHANGED <<mode, arrived, online, offline, calling, reply, channel, remote, stale,
                       prefillVars, gen, decodeVars, answers, crashed, unlinked>>

LoseCall(r) ==
    /\ live[r] > 0
    /\ Fault(r)
    /\ live' = [live EXCEPT ![r] = @ - 1]
    /\ UNCHANGED <<mode, arrived, dispatchVars, stale, prefillVars, gen, decodeVars, answers,
                   crashed, unlinked>>

-----------------------------------------------------------------------------
\* The decode instance serves AddNewRequests: decode_recv_new_requests.
InUse == UNION ({received[r] : r \in Requests} \union {running[r] : r \in Requests})

\* try_allocate: the utilization is below the threshold and the blocks are there.
Fits(r, used) ==
    /\ Cardinality(used) * 100 < Threshold * Cardinality(DecodeBlocks)
    /\ Need[r] <= Cardinality(DecodeBlocks \ used)
CanAllocate(r) == Fits(r, InUse)

\* Mutant: a request that is there already gets new blocks.
ReserveAgain(r, code, blocks) ==
    \/ /\ ~CanAllocate(r)
       /\ code = 404 /\ blocks = {} /\ UNCHANGED <<received, by_instance>>
    \/ /\ CanAllocate(r)
       /\ code = 200 /\ blocks \in kSubset(Need[r], DecodeBlocks \ InUse)
       /\ received' = [received EXCEPT ![r] = blocks]
       /\ by_instance' = [by_instance EXCEPT ![PrefillOf[r]] = @ \union {r}]

\* A duplicate is found only after its blocks were allocated; they are released.
\* One step for try_allocate and decode_schedule, which take two locks: between
\* them the blocks of a duplicate can turn the answer to another request into a
\* 404, after which that one is sent again.
Reserve(r, code, blocks) ==
    \/ /\ ~CanAllocate(r)
       /\ code = 404 /\ blocks = {} /\ UNCHANGED <<received, by_instance>>
    \/ /\ CanAllocate(r) /\ received[r] # {}
       /\ code = 500 /\ blocks = {} /\ UNCHANGED <<received, by_instance>>
    \/ /\ CanAllocate(r) /\ received[r] = {}
       /\ code = 200 /\ blocks \in kSubset(Need[r], DecodeBlocks \ InUse)
       /\ received' = [received EXCEPT ![r] = blocks]
       /\ by_instance' = [by_instance EXCEPT ![PrefillOf[r]] = @ \union {r}]

Outcomes == ({404, 500} \X {{}}) \union ({200} \X SUBSET DecodeBlocks)

\* The caller takes the first answer it gets.
RecvNewRequest(r) ==
    LET p == PrefillOf[r]
    IN  /\ live[r] > 0
        /\ live' = [live EXCEPT ![r] = @ - 1]
        /\ \E o \in Outcomes :
             /\ Reserve(r, o[1], o[2])
             /\ \/ /\ NoFault
                   /\ reply' = IF reply[p] = NoReply
                                 THEN [reply EXCEPT ![p] = [code |-> o[1], blocks |-> o[2]]]
                                 ELSE reply
                \/ Fault(r) /\ UNCHANGED reply
        /\ UNCHANGED <<mode, arrived, online, offline, calling, retries, channel, remote, stale,
                       prefillVars, gen, running, answers, crashed, unlinked>>

\* A message of a call that has ended is served like any other.
RecvStaleRequest(r) ==
    /\ stale[r] > 0
    /\ stale' = [stale EXCEPT ![r] = @ - 1]
    /\ \E o \in Outcomes : Reserve(r, o[1], o[2])
    /\ UNCHANGED <<mode, arrived, dispatchVars, live, prefillVars, gen, running, answers, faultVars>>

-----------------------------------------------------------------------------
\* The scheduler thread of a prefill instance: a step that prefills a request.
\* Its blocks are there beside those of the requests still being handed over
\* (with enable_disagg_pd the utilization is not tested first).
HasRoom(p, r) ==
    Need[r] + MapThenSumSet(LAMBDA x : Need[x], {x \in held : PrefillOf[x] = p}) <= PrefillBlocks

PrefillBegin(p) ==
    /\ engine[p] = None /\ ready[p] # <<>>
    /\ HasRoom(p, Head(ready[p]))
    /\ engine' = [engine EXCEPT ![p] = Head(ready[p])]
    /\ ready' = [ready EXCEPT ![p] = Tail(@)]
    /\ held' = held \union {Head(ready[p])}
    /\ UNCHANGED <<mode, arrived, dispatchVars, netVars, tasks, refused, gen, decodeVars, answers,
                   faultVars>>

\* The allocation fails and nothing is running: the request is failed.  Neither
\* its stub in req_to_channel_map_ nor the decode instance is told.
PrefillFails(p) ==
    LET r == Head(ready[p])
    IN  /\ engine[p] = None /\ ready[p] # <<>>
        /\ ~HasRoom(p, r)
        /\ ready' = [ready EXCEPT ![p] = Tail(@)]
        /\ refused' = refused \union {r}
        /\ Answer(r)
        /\ UNCHANGED <<mode, arrived, dispatchVars, netVars, engine, tasks, held, gen, decodeVars,
                       faultVars>>

\* Mutant: a slot of the batch that was emptied is sent once more.
PrefillEndTwice(p) ==
    /\ engine[p] # None \/ tasks[p] # <<>>
    /\ tasks' = [tasks EXCEPT ![p] = Append(@, engine[p])]
    /\ engine' = [engine EXCEPT ![p] = None]
    /\ UNCHANGED <<mode, arrived, dispatchVars, netVars, ready, held, refused, gen, decodeVars,
                   answers, faultVars>>

\* prefill_send_first_generation: the request leaves the scheduler.
PrefillEnd(p) ==
    /\ engine[p] # None
    /\ tasks' = [tasks EXCEPT ![p] = Append(@, engine[p])]
    /\ engine' = [engine EXCEPT ![p] = None]
    /\ UNCHANGED <<mode, arrived, dispatchVars, netVars, ready, held, refused, gen, decodeVars,
                   answers, faultVars>>

\* Mutant: the blocks are released before the call.
SendFirstGenerationReleases(p) ==
    /\ tasks[p] # <<>> /\ gen[Head(tasks[p])] = "none"
    /\ gen' = [gen EXCEPT ![Head(tasks[p])] = "sent"]
    /\ held' = held \ {Head(tasks[p])}
    /\ UNCHANGED <<mode, arrived, dispatchVars, netVars, ready, engine, tasks, refused, decodeVars,
                   answers, faultVars>>

\* The pool thread sends the first token of its first task.
SendFirstGeneration(p) ==
    /\ tasks[p] # <<>> /\ gen[Head(tasks[p])] = "none"
    /\ gen' = [gen EXCEPT ![Head(tasks[p])] = "sent"]
    /\ UNCHANGED <<mode, arrived, dispatchVars, netVars, prefillVars, decodeVars, answers, faultVars>>

LoseFirstGeneration(r) ==
    /\ gen[r] = "sent"
    /\ Fault(r)
    /\ gen' = [gen EXCEPT ![r] = "done"]
    /\ UNCHANGED <<mode, arrived, dispatchVars, netVars, prefillVars, decodeVars, answers,
                   crashed, unlinked>>

\* The answer is lost and brpc sends the call again.
ResendFirstGeneration(p) ==
    LET r == Head(tasks[p])
    IN  /\ tasks[p] # <<>> /\ gen[r] = "done"
        /\ Fault(r)
        /\ gen' = [gen EXCEPT ![r] = "sent"]
        /\ UNCHANGED <<mode, arrived, dispatchVars, netVars, prefillVars, decodeVars, answers,
                       crashed, unlinked>>

\* The call returns, or times out (a fault).  A failure is only logged.
FirstGenerationReturns(p) ==
    LET r == Head(tasks[p])
    IN  /\ tasks[p] # <<>>
        /\ \/ gen[r] = "done" /\ NoFault
           \/ gen[r] \in {"sent", "pulling"} /\ Fault(r)
        /\ tasks' = [tasks EXCEPT ![p] = Tail(@)]
        /\ channel' = channel \ {r}
        /\ held' = held \ {r}
        /\ UNCHANGED <<mode, arrived, online, offline, calling, reply, retries, remote, netVars,
                       ready, engine, refused, gen, decodeVars, answers, crashed, unlinked>>

-----------------------------------------------------------------------------
\* Mutant: the reservation stays in the map.
RecvFirstGenerationKeeps(r) ==
    /\ gen[r] = "sent" /\ received[r] # {}
    /\ running' = [running EXCEPT ![r] = received[r]]
    /\ gen' = [gen EXCEPT ![r] = IF mode = "PULL" THEN "pulling" ELSE "done"]
    /\ UNCHANGED <<mode, arrived, dispatchVars, netVars, prefillVars, received, by_instance,
                   answers, faultVars>>

\* The decode instance serves FirstGeneration: the reservation leaves the map;
\* in PULL mode its blocks are filled before the request is queued.
RecvFirstGeneration(r) ==
    /\ gen[r] = "sent" /\ received[r] # {}
    /\ received' = [received EXCEPT ![r] = {}]
    /\ by_instance' = [by_instance EXCEPT ![PrefillOf[r]] = @ \ {r}]
    /\ running' = [running EXCEPT ![r] = received[r]]
    /\ gen' = [gen EXCEPT ![r] = IF mode = "PULL" THEN "pulling" ELSE "done"]
    /\ UNCHANGED <<mode, arrived, dispatchVars, netVars, prefillVars, answers, faultVars>>

\* No such request: the answer is not ok.
FirstGenerationUnknown(r) ==
    /\ gen[r] = "sent" /\ received[r] = {}
    /\ gen' = [gen EXCEPT ![r] = "done"]
    /\ UNCHANGED <<mode, arrived, dispatchVars, netVars, prefillVars, decodeVars, answers, faultVars>>

PullDone(r) ==
    /\ gen[r] = "pulling"
    /\ gen' = [gen EXCEPT ![r] = "done"]
    /\ UNCHANGED <<mode, arrived, dispatchVars, netVars, prefillVars, decodeVars, answers, faultVars>>

\* The decode instance's scheduler finishes the request and answers the client.
DecodeFinish(r) ==
    /\ running[r] # {} /\ gen[r] # "pulling"
    /\ running' = [running EXCEPT ![r] = {}]
    /\ Answer(r)
    /\ UNCHANGED <<mode, arrived, dispatchVars, netVars, prefillVars, gen, received, by_instance,
                   faultVars>>

-----------------------------------------------------------------------------
\* A prefill instance dies; messages it has sent are still served.
Crash(p) ==
    LET mine == {r \in Requests : PrefillOf[r] = p}
    IN  /\ p \notin crashed /\ Cardinality(crashed) < MaxCrashes
        /\ crashed' = crashed \union {p}
        /\ faulted' = faulted \union mine
        /\ online' = [online EXCEPT ![p] = <<>>] /\ offline' = [offline EXCEPT ![p] = <<>>]
        /\ calling' = [calling EXCEPT ![p] = None] /\ reply' = [reply EXCEPT ![p] = NoReply]
        /\ retries' = [retries EXCEPT ![p] = 0]
        /\ stale' = [r \in Requests |-> IF r \in mine THEN stale[r] + live[r] ELSE stale[r]]
        /\ live' = [r \in Requests |-> IF r \in mine THEN 0 ELSE live[r]]
        /\ ready' = [ready EXCEPT ![p] = <<>>] /\ engine' = [engine EXCEPT ![p] = None]
        /\ tasks' = [tasks EXCEPT ![p] = <<>>]
        /\ held' = held \ mine /\ channel' = channel \ mine
        /\ UNCHANGED <<mode, arrived, remote, refused, gen, decodeVars, answers, unlinked, faults>>

\* unlink_instance drops the reservations of the dead instance; their blocks
\* are freed with them.
UnlinkInstance(p) ==
    /\ p \in crashed /\ p \notin unlinked
    /\ unlinked' = unlinked \union {p}
    /\ received' = [r \in Requests |-> IF r \in by_instance[p] THEN {} ELSE received[r]]
    /\ by_instance' = [by_instance EXCEPT ![p] = {}]
    /\ UNCHANGED <<mode, arrived, dispatchVars, netVars, prefillVars, gen, running, answers,
                   crashed, faulted, faults>>

-----------------------------------------------------------------------------
DispatchStep(p) ==
    DispatchFails(p) \/ Dispatch(p) \/ CallAccepted(p) \/ CallRejected(p) \/ CallFailed(p) \/ Resend(p)
PrefillStep(p) == PrefillBegin(p) \/ PrefillFails(p) \/ PrefillEnd(p)
TaskStep(p) == SendFirstGeneration(p) \/ ResendFirstGeneration(p) \/ FirstGenerationReturns(p)
ServeStep(r) ==
    \/ RecvNewRequest(r) \/ RecvStaleRequest(r)
    \/ RecvFirstGeneration(r) \/ FirstGenerationUnknown(r) \/ PullDone(r)

Next ==
    \/ \E r \in Requests : AddRequest(r) \/ ServeStep(r) \/ DecodeFinish(r)
                             \/ LoseCall(r) \/ LoseFirstGeneration(r)
    \/ \E p \in Prefills : DispatchStep(p) \/ PrefillStep(p) \/ TaskStep(p)
                             \/ Crash(p) \/ UnlinkInstance(p)

\* The threads of both sides run and the decode instance finishes what it
\* decodes.  Clients, faults and the xLLM service owe nothing.
Fairness ==
    /\ \A p \in Prefills : /\ WF_vars(DispatchStep(p)) /\ WF_vars(PrefillStep(p))
                           /\ WF_vars(TaskStep(p))
    /\ \A r \in Requests : WF_vars(ServeStep(r)) /\ WF_vars(DecodeFinish(r))

Spec == Init /\ [][Next]_vars /\ Fairness

-----------------------------------------------------------------------------
Replies == [code : {0, 200, 404, 500}, blocks : SUBSET DecodeBlocks]

TypeOK ==
    /\ mode \in Modes /\ arrived \subseteq Requests
    /\ online \in [Prefills -> Seq(Requests)] /\ offline \in [Prefills -> Seq(Requests)]
    /\ ready \in [Prefills -> Seq(Requests)] /\ tasks \in [Prefills -> Seq(Requests)]
    /\ calling \in [Prefills -> Requests \union {None}] /\ engine \in [Prefills -> Requests \union {None}]
    /\ reply \in [Prefills -> Replies]
    /\ retries \in [Prefills -> 0 .. MaxRetry]
    /\ live \in [Requests -> 0 .. MaxRetry + 1]
    /\ stale \in [Requests -> Nat] /\ answers \in [Requests -> Nat]
    /\ gen \in [Requests -> {"none", "sent", "pulling", "done"}]
    /\ remote \in [Requests -> SUBSET DecodeBlocks] /\ received \in [Requests -> SUBSET DecodeBlocks]
    /\ running \in [Requests -> SUBSET DecodeBlocks] /\ by_instance \in [Prefills -> SUBSET Requests]
    /\ channel \subseteq Requests /\ held \subseteq Requests /\ faulted \subseteq Requests
    /\ refused \subseteq Requests
    /\ crashed \subseteq Prefills /\ unlinked \subseteq crashed /\ faults \in 0 .. MaxFaults

\* A request that is being prefilled or handed over can be: the blocks its KV
\* cache is pushed into are the ones the decode instance reserved for it, and
\* req_to_channel_map_ still has the stub that prefill_send_first_generation
\* takes from it without a test.
HandoverPossible ==
    \A p \in Prefills, r \in Requests :
      /\ engine[p] = r \/ r \in Range(ready[p]) => r \in channel /\ remote[r] = received[r]
      /\ r \in Range(tasks[p]) => r \in channel

\* No client gets two final answers when at most one fault of the network (a
\* message lost, repeated or timed out) and a crash happen in the run; a second
\* fault can make a request that was already failed be decoded.
AnsweredOnce == \A r \in Requests : answers[r] <= 1

\* On its way from the dispatch thread to the end of its FirstGeneration call.
OnItsWay(r) ==
    \E p \in Prefills : r \in {calling[p], engine[p]} \union Range(ready[p]) \union Range(tasks[p])

\* Reserved blocks are forgotten in two cases only: a fault hit this very request
\* (a lost answer leaves them reserved until the unlink), or the prefill instance
\* refused it for want of its own blocks.  Otherwise, while the decode instance
\* keeps a reservation, the prefill instance is going to send the first token.
ReservationAwaited ==
    \A r \in Requests : received[r] # {} /\ r \notin faulted \union refused => OnItsWay(r)

\* The decode instance pulls only from blocks that the prefill instance still
\* holds: deallocate comes after FirstGeneration has returned.
PullReadsHeldBlocks ==
    \A r \in Requests : gen[r] = "pulling" /\ r \notin faulted => r \in held

\* What stays reserved for refused requests leaves no room for a request that is
\* still waiting for an answer.
ShutOut ==
    \E r \in arrived : answers[r] = 0 /\ ~Fits(r, UNION {received[x] : x \in refused})

\* Without faults every request is answered: one the decode instance has no
\* memory for comes back to the queue of the dispatch thread until it has.  The
\* only exception is memory reserved for requests the prefill side refused, which
\* is never given back: it can shut others (and those queued behind them) out.
EveryRequestAnswered ==
    []<>(faulted # {} \/ ShutOut \/ \A r \in arrived : answers[r] = 1)
=============================================================================
