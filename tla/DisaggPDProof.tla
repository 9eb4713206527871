---------------------------- MODULE DisaggPDProof ----------------------------
(***************************************************************************)
(* Proofs about DisaggPD: for any instances, requests and blocks and any   *)
(* number of faults and crashes, a request that is prefilled or handed     *)
(* over has its stub and its reserved blocks, a reservation is awaited     *)
(* unless the request was refused or a fault hit it, a pull reads held     *)
(* blocks unless a fault hit the request; and no client is answered twice  *)
(* before a second fault of the network.                                   *)
(*                                                                         *)
(* The invariant is stated per request: where it is on its prefill         *)
(* instance (in at most one of six places), and what that says of the call *)
(* under way, of its messages, its reservation and its answers.            *)
(***************************************************************************)
EXTENDS DisaggPD, QueueLemmas, TLAPS

Home(r) == PrefillOf[r]

\* The places of a request on its prefill instance.
InOnline(r)  == r \in Range(online[Home(r)])
InOffline(r) == r \in Range(offline[Home(r)])
IsCalling(r) == calling[Home(r)] = r
InReady(r)   == r \in Range(ready[Home(r)])
InEngine(r)  == engine[Home(r)] = r
InTasks(r)   == r \in Range(tasks[Home(r)])

Queued(r) == InOnline(r) \/ InOffline(r)
Early(r) == Queued(r) \/ IsCalling(r) \/ InReady(r) \/ InEngine(r)
Placed(r) == Early(r) \/ InTasks(r)

\* What an instance holds are its own requests, each once in a queue, and
\* there is an answer and a count of retries only while a call is under way.
QueueOK(p, q) == IsInjective(q) /\ \A r \in Range(q) : Home(r) = p

InstanceOK(p) ==
    /\ QueueOK(p, online[p]) /\ QueueOK(p, offline[p]) /\ QueueOK(p, ready[p]) /\ QueueOK(p, tasks[p])
    /\ \A r \in Requests : r \in {calling[p], engine[p]} \union by_instance[p] => Home(r) = p
    /\ calling[p] = None => reply[p] = NoReply /\ retries[p] = 0

\* A request is in one place at a time, of a live instance; it has not been
\* handed over before it is a task.
OnePlace(r) ==
    /\ InOnline(r) => r \notin Offline
    /\ InOffline(r) => r \in Offline
    /\ Queued(r) => ~IsCalling(r) /\ ~InReady(r) /\ ~InEngine(r) /\ ~InTasks(r)
    /\ IsCalling(r) => ~InReady(r) /\ ~InEngine(r) /\ ~InTasks(r)
    /\ InReady(r) => ~InEngine(r) /\ ~InTasks(r)
    /\ InEngine(r) => ~InTasks(r)
    /\ Placed(r) => r \in arrived /\ Home(r) \notin crashed
    /\ Early(r) => gen[r] = "none"

\* What its place gives a request: the channel, the reserved blocks, its own.
HasWhatItNeeds(r) ==
    /\ IsCalling(r) \/ InReady(r) \/ InEngine(r) \/ InTasks(r) => r \in channel
    /\ IsCalling(r) /\ reply[Home(r)].code = 200 =>
         received[r] = reply[Home(r)].blocks /\ received[r] # {}
    /\ InReady(r) \/ InEngine(r) => remote[r] = received[r] /\ received[r] # {}
    /\ InEngine(r) \/ InTasks(r) => r \in held

\* Messages of a call are under way only during the call, one for each try.
MessagesBounded(r) ==
    /\ live[r] > 0 => IsCalling(r)
    /\ IsCalling(r) => live[r] <= retries[Home(r)] + 1

\* Nothing is known of a request that has not arrived; none is decoded before
\* its first token was sent.
NotBegun(r) ==
    /\ r \notin arrived => received[r] = {} /\ stale[r] = 0 /\ gen[r] = "none" /\ answers[r] = 0
    /\ gen[r] = "none" => running[r] = {}

\* The one message of the call, or its answer.
OneMessage(r) ==
    \/ live[r] = 1 /\ reply[Home(r)] = NoReply
    \/ live[r] = 0 /\ reply[Home(r)] # NoReply

\* A request no fault has hit: nothing of an old call is left, its reservation
\* is there only after the answer 200, and until the first token arrived (or for
\* ever, when its prefill instance refused it).
Unhit(r) ==
    r \notin faulted =>
        /\ stale[r] = 0
        /\ IsCalling(r) => OneMessage(r) /\ (reply[Home(r)].code # 200 => received[r] = {})
        /\ Queued(r) => received[r] = {}
        /\ gen[r] \in {"pulling", "done"} => received[r] = {}
        /\ gen[r] \in {"sent", "pulling"} => InTasks(r)
        /\ received[r] # {} => Placed(r) \/ r \in refused

\* Before the first fault of the network, messages of old calls are only those
\* of a dead instance, which had not handed the request over.
NoFaultYet(r) ==
    faults = 0 =>
        /\ IsCalling(r) => OneMessage(r)
        /\ stale[r] > 0 => Home(r) \in crashed /\ gen[r] = "none"
        /\ gen[r] \in {"pulling", "done"} => received[r] = {}

\* Before the second one a request is decoded at most once: when its first token
\* is sent again, there is no reservation left and none will be made.
DecodedOnce(r) ==
    faults <= 1 =>
        /\ answers[r] <= 1 /\ (running[r] # {} => answers[r] = 0)
        /\ gen[r] = "none" /\ Placed(r) => answers[r] = 0
        /\ gen[r] = "sent" =>
             \/ answers[r] = 0 /\ running[r] = {}
             \/ received[r] = {} /\ stale[r] = 0 /\ live[r] = 0

RequestOK(r) ==
    /\ OnePlace(r) /\ HasWhatItNeeds(r) /\ MessagesBounded(r) /\ NotBegun(r)
    /\ Unhit(r) /\ NoFaultYet(r) /\ DecodedOnce(r)

\* The inductive invariant.
IInv ==
    /\ TypeOK
    /\ \A p \in Prefills : InstanceOK(p)
    /\ \A r \in Requests : RequestOK(r)

-----------------------------------------------------------------------------
\* The effect of serving an AddNewRequests message: a reservation is made only
\* where there is none, and it has at least one block.
LEMMA ReserveEffect ==
    ASSUME TypeOK, NEW r \in Requests, NEW code, NEW blocks, Reserve(r, code, blocks)
    PROVE  /\ code \in {200, 404, 500} /\ blocks \in SUBSET DecodeBlocks
           /\ received' \in [Requests -> SUBSET DecodeBlocks]
           /\ by_instance' \in [Prefills -> SUBSET Requests]
           /\ \A x \in Requests : x # r => received'[x] = received[x]
           /\ \A p \in Prefills, x \in Requests :
                x \in by_instance'[p] => x \in by_instance[p] \/ (x = r /\ p = Home(r))
           /\ received[r] # {} => received' = received /\ code # 200
           /\ code = 200 => received'[r] = blocks /\ blocks # {}
           /\ code # 200 => received' = received
           /\ code = 500 => received[r] # {}
<1> USE DEF TypeOK
<1>1. CASE ~CanAllocate(r)
  BY <1>1 DEF Reserve
<1>2. CASE CanAllocate(r) /\ received[r] # {}
  BY <1>2 DEF Reserve
<1>3. CASE CanAllocate(r) /\ received[r] = {}
  <2>1. /\ code = 200 /\ blocks \in kSubset(Need[r], DecodeBlocks \ InUse)
        /\ received' = [received EXCEPT ![r] = blocks]
        /\ by_instance' = [by_instance EXCEPT ![PrefillOf[r]] = @ \union {r}]
    BY <1>3 DEF Reserve
  <2>2. blocks \in SUBSET DecodeBlocks /\ Cardinality(blocks) = Need[r]
    BY <2>1 DEF kSubset
  <2>3. blocks # {}
    <3>1. Need[r] # 0
      BY NeedAssumption, BlocksAssumption, FS_CardinalityType
    <3>2. Cardinality({}) = 0
      BY FS_EmptySet
    <3> QED BY <2>2, <3>1, <3>2
  <2>4. PrefillOf[r] \in Prefills
    BY PrefillOfAssumption
  <2> QED BY <1>3, <2>1, <2>2, <2>3, <2>4, SMTT(20), ZenonT(20) DEF Home
<1> QED BY <1>1, <1>2, <1>3

\* The queue a request is put into.
LEMMA EnqueueEffect ==
    ASSUME TypeOK, NEW p \in Prefills, NEW r \in Requests, Enqueue(p, r)
    PROVE  /\ online' \in [Prefills -> Seq(Requests)] /\ offline' \in [Prefills -> Seq(Requests)]
           /\ \A s \in Prefills : s # p => online'[s] = online[s] /\ offline'[s] = offline[s]
           /\ Range(online'[p]) = IF r \in Offline THEN Range(online[p]) ELSE Range(online[p]) \union {r}
           /\ Range(offline'[p]) = IF r \in Offline THEN Range(offline[p]) \union {r} ELSE Range(offline[p])
           /\ IsInjective(online[p]) /\ r \notin Range(online[p]) => IsInjective(online'[p])
           /\ IsInjective(offline[p]) /\ r \notin Range(offline[p]) => IsInjective(offline'[p])
<1>1. online[p] \in Seq(Requests) /\ offline[p] \in Seq(Requests)
      /\ online \in [Prefills -> Seq(Requests)] /\ offline \in [Prefills -> Seq(Requests)]
  BY DEF TypeOK
<1>2. /\ Append(online[p], r) \in Seq(Requests) /\ Append(offline[p], r) \in Seq(Requests)
      /\ Range(Append(online[p], r)) = Range(online[p]) \union {r}
      /\ Range(Append(offline[p], r)) = Range(offline[p]) \union {r}
      /\ IsInjective(online[p]) /\ r \notin Range(online[p]) => IsInjective(Append(online[p], r))
      /\ IsInjective(offline[p]) /\ r \notin Range(offline[p]) => IsInjective(Append(offline[p], r))
  BY <1>1, AppendQueue
<1> QED BY <1>1, <1>2 DEF Enqueue

\* The queue a request is taken from.
LEMMA DequeuedEffect ==
    ASSUME TypeOK, NEW p \in Prefills, InstanceOK(p), NEW r, Dequeued(p, r)
    PROVE  /\ r \in Requests /\ r \in Range(online[p]) \union Range(offline[p])
           /\ online' \in [Prefills -> Seq(Requests)] /\ offline' \in [Prefills -> Seq(Requests)]
           /\ \A s \in Prefills : s # p => online'[s] = online[s] /\ offline'[s] = offline[s]
           /\ IsInjective(online'[p]) /\ IsInjective(offline'[p])
           /\ \/ /\ r \in Range(online[p]) /\ Range(online'[p]) = Range(online[p]) \ {r}
                 /\ Range(offline'[p]) = Range(offline[p])
              \/ /\ r \in Range(offline[p]) /\ Range(offline'[p]) = Range(offline[p]) \ {r}
                 /\ Range(online'[p]) = Range(online[p])
<1>1. /\ online[p] \in Seq(Requests) /\ offline[p] \in Seq(Requests)
      /\ online \in [Prefills -> Seq(Requests)] /\ offline \in [Prefills -> Seq(Requests)]
      /\ IsInjective(online[p]) /\ IsInjective(offline[p])
  BY DEF TypeOK, InstanceOK, QueueOK
<1>2. CASE online[p] # <<>>
  <2>1. r = Head(online[p]) /\ online' = [online EXCEPT ![p] = Tail(@)] /\ offline' = offline
    BY <1>2 DEF Dequeued
  <2>2. /\ Head(online[p]) \in Requests /\ Head(online[p]) \in Range(online[p])
        /\ Tail(online[p]) \in Seq(Requests) /\ IsInjective(Tail(online[p]))
        /\ Range(Tail(online[p])) = Range(online[p]) \ {Head(online[p])}
    BY <1>1, <1>2, TakeHead
  <2> QED BY <1>1, <2>1, <2>2
<1>3. CASE online[p] = <<>>
  <2>1. /\ r = Head(offline[p]) /\ offline' = [offline EXCEPT ![p] = Tail(@)] /\ online' = online
        /\ offline[p] # <<>>
    BY <1>3 DEF Dequeued
  <2>2. /\ Head(offline[p]) \in Requests /\ Head(offline[p]) \in Range(offline[p])
        /\ Tail(offline[p]) \in Seq(Requests) /\ IsInjective(Tail(offline[p]))
        /\ Range(Tail(offline[p])) = Range(offline[p]) \ {Head(offline[p])}
    BY <1>1, <2>1, TakeHead
  <2> QED BY <1>1, <2>1, <2>2
<1> QED BY <1>2, <1>3

-----------------------------------------------------------------------------
\* Every action keeps the types.  The bound of the messages of a call needs more
\* than the types: each is a try.
LEMMA TypeNext == IInv /\ [Next]_vars => TypeOK'
<1> SUFFICES ASSUME IInv, [Next]_vars PROVE TypeOK'
  OBVIOUS
<1>0. TypeOK /\ (\A p \in Prefills : InstanceOK(p)) /\ (\A r \in Requests : RequestOK(r))
      /\ MaxRetry \in Nat /\ MaxFaults \in Nat
  BY BoundsAssumption DEF IInv
<1> USE <1>0 DEF dispatchVars, netVars, prefillVars, decodeVars, faultVars, Fault, NoFault, Answer
<1>30. \A p \in Prefills : ready[p] \in Seq(Requests) /\ tasks[p] \in Seq(Requests)
  BY DEF TypeOK
<1>1. ASSUME NEW r \in Requests, AddRequest(r) PROVE TypeOK'
  <2>1. PrefillOf[r] \in Prefills /\ Enqueue(PrefillOf[r], r)
    BY <1>1, PrefillOfAssumption DEF AddRequest
  <2>2. online' \in [Prefills -> Seq(Requests)] /\ offline' \in [Prefills -> Seq(Requests)]
    BY <2>1, EnqueueEffect
  <2> QED BY <1>1, <2>2 DEF TypeOK, AddRequest
<1>2. ASSUME NEW r \in Requests, RecvNewRequest(r) PROVE TypeOK'
  <2>1. PICK o \in Outcomes : /\ Reserve(r, o[1], o[2])
                              /\ \/ /\ NoFault
                                    /\ reply' = IF reply[PrefillOf[r]] = NoReply
                                          THEN [reply EXCEPT ![PrefillOf[r]] = [code |-> o[1], blocks |-> o[2]]]
                                          ELSE reply
                                 \/ Fault(r) /\ UNCHANGED reply
    BY <1>2 DEF TypeOK, RecvNewRequest
  <2>2. /\ o[1] \in {200, 404, 500} /\ o[2] \in SUBSET DecodeBlocks
        /\ received' \in [Requests -> SUBSET DecodeBlocks]
        /\ by_instance' \in [Prefills -> SUBSET Requests]
    BY <2>1, ReserveEffect
  <2>3. reply' \in [Prefills -> Replies]
    <3>1. reply' = reply \/ reply' = [reply EXCEPT ![PrefillOf[r]] = [code |-> o[1], blocks |-> o[2]]]
      BY <2>1
    <3>2. [code |-> o[1], blocks |-> o[2]] \in Replies
      BY <2>2 DEF Replies
    <3> QED BY <3>1, <3>2 DEF TypeOK
  <2>4. faults' \in 0 .. MaxFaults /\ faulted' \subseteq Requests
    BY <2>1 DEF TypeOK
  <2>5. live' \in [Requests -> 0 .. MaxRetry + 1]
    BY <1>2 DEF TypeOK, RecvNewRequest
  <2> QED BY <1>2, <2>2, <2>3, <2>4, <2>5 DEF TypeOK, RecvNewRequest
<1>3. ASSUME NEW r \in Requests, RecvStaleRequest(r) PROVE TypeOK'
  <2>1. PICK o \in Outcomes : Reserve(r, o[1], o[2])
    BY <1>3 DEF TypeOK, RecvStaleRequest
  <2>2. /\ received' \in [Requests -> SUBSET DecodeBlocks]
        /\ by_instance' \in [Prefills -> SUBSET Requests]
    BY <2>1, ReserveEffect
  <2>3. stale' \in [Requests -> Nat]
    BY <1>3 DEF TypeOK, RecvStaleRequest
  <2> QED BY <1>3, <2>2, <2>3 DEF TypeOK, RecvStaleRequest
<1>4. ASSUME NEW r \in Requests, RecvFirstGeneration(r) PROVE TypeOK'
  <2>1. PrefillOf[r] \in Prefills
    BY PrefillOfAssumption
  <2>2. gen' \in [Requests -> {"none", "sent", "pulling", "done"}]
    BY <1>4 DEF TypeOK, RecvFirstGeneration
  <2> QED BY <1>4, <2>1, <2>2 DEF TypeOK, RecvFirstGeneration
<1>5. ASSUME NEW r \in Requests, FirstGenerationUnknown(r) \/ PullDone(r) PROVE TypeOK'
  <2>1. gen' = [gen EXCEPT ![r] = "done"]
    BY <1>5 DEF FirstGenerationUnknown, PullDone
  <2>2. gen' \in [Requests -> {"none", "sent", "pulling", "done"}]
    BY <2>1 DEF TypeOK
  <2> QED BY <1>5, <2>2 DEF TypeOK, FirstGenerationUnknown, PullDone
<1>6. ASSUME NEW r \in Requests, DecodeFinish(r) PROVE TypeOK'
  BY <1>6 DEF TypeOK, DecodeFinish
<1>7. ASSUME NEW r \in Requests, LoseCall(r) PROVE TypeOK'
  BY <1>7 DEF TypeOK, LoseCall
<1>8. ASSUME NEW r \in Requests, LoseFirstGeneration(r) PROVE TypeOK'
  BY <1>8 DEF TypeOK, LoseFirstGeneration
<1>9. ASSUME NEW p \in Prefills, DispatchFails(p) PROVE TypeOK'
  <2>1. PICK r \in Requests : Dequeued(p, r) /\ Fault(r) /\ Answer(r)
    BY <1>9 DEF TypeOK, DispatchFails
  <2>2. online' \in [Prefills -> Seq(Requests)] /\ offline' \in [Prefills -> Seq(Requests)]
    BY <2>1, DequeuedEffect
  <2>3. faults' \in 0 .. MaxFaults /\ faulted' \subseteq Requests /\ answers' \in [Requests -> Nat]
    BY <2>1 DEF TypeOK
  <2> QED BY <1>9, <2>2, <2>3 DEF TypeOK, DispatchFails
<1>10. ASSUME NEW p \in Prefills, Dispatch(p) PROVE TypeOK'
  <2>1. PICK r \in Requests : /\ Dequeued(p, r)
                              /\ channel' = channel \union {r}
                              /\ calling' = [calling EXCEPT ![p] = r]
                              /\ live' = [live EXCEPT ![r] = 1]
    BY <1>10 DEF TypeOK, Dispatch
  <2>2. online' \in [Prefills -> Seq(Requests)] /\ offline' \in [Prefills -> Seq(Requests)]
    BY <2>1, DequeuedEffect
  <2>3. /\ channel' \subseteq Requests /\ calling' \in [Prefills -> Requests \union {None}]
        /\ live' \in [Requests -> 0 .. MaxRetry + 1]
    BY <2>1 DEF TypeOK
  <2> QED BY <1>10, <2>2, <2>3 DEF TypeOK, Dispatch
<1>11. ASSUME NEW p \in Prefills, calling[p] # None, EndCall(p)
       PROVE  /\ calling[p] \in Requests
              /\ calling' \in [Prefills -> Requests \union {None}]
              /\ reply' \in [Prefills -> Replies]
              /\ retries' \in [Prefills -> 0 .. MaxRetry]
              /\ live' \in [Requests -> 0 .. MaxRetry + 1] /\ stale' \in [Requests -> Nat]
  <2>1. NoReply \in Replies
    BY DEF NoReply, Replies
  <2> QED BY <1>11, <2>1 DEF TypeOK, EndCall
<1>12. ASSUME NEW p \in Prefills, CallAccepted(p) PROVE TypeOK'
  <2>1. calling[p] \in Requests /\ EndCall(p)
    BY <1>12, <1>11 DEF TypeOK, CallAccepted
  <2>2. Append(ready[p], calling[p]) \in Seq(Requests)
    BY <2>1, <1>30, AppendQueue
  <2>3. ready' \in [Prefills -> Seq(Requests)] /\ remote' \in [Requests -> SUBSET DecodeBlocks]
    BY <1>12, <2>1, <2>2 DEF TypeOK, Replies, CallAccepted
  <2>9. /\ calling' \in [Prefills -> Requests \union {None}]
        /\ reply' \in [Prefills -> Replies]
        /\ retries' \in [Prefills -> 0 .. MaxRetry]
        /\ live' \in [Requests -> 0 .. MaxRetry + 1] /\ stale' \in [Requests -> Nat]
    BY <1>11, <1>12, <2>1 DEF CallAccepted
  <2> QED BY <1>12, <2>1, <2>3, <2>9 DEF TypeOK, CallAccepted
<1>13. ASSUME NEW p \in Prefills, CallRejected(p) PROVE TypeOK'
  <2>1. calling[p] \in Requests /\ EndCall(p) /\ Enqueue(p, calling[p])
    BY <1>13, <1>11 DEF TypeOK, CallRejected
  <2>2. online' \in [Prefills -> Seq(Requests)] /\ offline' \in [Prefills -> Seq(Requests)]
    BY <2>1, EnqueueEffect
  <2>9. /\ calling' \in [Prefills -> Requests \union {None}]
        /\ reply' \in [Prefills -> Replies]
        /\ retries' \in [Prefills -> 0 .. MaxRetry]
        /\ live' \in [Requests -> 0 .. MaxRetry + 1] /\ stale' \in [Requests -> Nat]
    BY <1>11, <1>13, <2>1 DEF CallRejected
  <2> QED BY <1>13, <2>1, <2>2, <2>9 DEF TypeOK, CallRejected
<1>14. ASSUME NEW p \in Prefills, CallFailed(p) PROVE TypeOK'
  <2>1. calling[p] \in Requests /\ EndCall(p)
    BY <1>14, <1>11 DEF TypeOK, CallFailed
  <2>2. faults' \in 0 .. MaxFaults /\ faulted' \subseteq Requests
    <3>1. (faults' = faults /\ faulted' = faulted)
            \/ (faults < MaxFaults /\ faults' = faults + 1 /\ faulted' = faulted \union {calling[p]})
      BY <1>14 DEF CallFailed
    <3>2. faults \in 0 .. MaxFaults /\ faulted \subseteq Requests /\ calling[p] \in Requests
      BY <2>1 DEF TypeOK
    <3>3. faults' \in 0 .. MaxFaults
      BY <3>1, <3>2
    <3> QED BY <3>1, <3>2, <3>3
  <2>3. answers' \in [Requests -> Nat]
    BY <1>14, <2>1 DEF TypeOK, CallFailed
  <2>9. /\ calling' \in [Prefills -> Requests \union {None}]
        /\ reply' \in [Prefills -> Replies]
        /\ retries' \in [Prefills -> 0 .. MaxRetry]
        /\ live' \in [Requests -> 0 .. MaxRetry + 1] /\ stale' \in [Requests -> Nat]
    BY <1>11, <1>14, <2>1 DEF CallFailed
  <2> QED BY <1>14, <2>1, <2>2, <2>3, <2>9 DEF TypeOK, CallFailed
<1>15. ASSUME NEW p \in Prefills, Resend(p) PROVE TypeOK'
  <2>1. calling[p] \in Requests /\ retries[p] < MaxRetry
    BY <1>15 DEF TypeOK, Resend
  <2>2. Home(calling[p]) = p
    BY <2>1 DEF TypeOK, InstanceOK
  <2>3. live[calling[p]] <= retries[p] + 1
    BY <2>1, <2>2 DEF TypeOK, RequestOK, MessagesBounded, IsCalling
  <2>4. live' \in [Requests -> 0 .. MaxRetry + 1] /\ retries' \in [Prefills -> 0 .. MaxRetry]
    BY <1>15, <2>1, <2>3, SMTT(20), ZenonT(20) DEF TypeOK, Resend
  <2>5. faults' \in 0 .. MaxFaults /\ faulted' \subseteq Requests
    BY <1>15, <2>1, SMTT(20), ZenonT(20) DEF TypeOK, Resend
  <2> QED BY <1>15, <2>4, <2>5 DEF TypeOK, Resend
<1>16. ASSUME NEW p \in Prefills, PrefillBegin(p) PROVE TypeOK'
  <2>1. Head(ready[p]) \in Requests /\ Tail(ready[p]) \in Seq(Requests)
    BY <1>16, <1>30, TakeHead DEF PrefillBegin
  <2> QED BY <1>16, <2>1 DEF TypeOK, PrefillBegin
<1>24. ASSUME NEW p \in Prefills, PrefillFails(p) PROVE TypeOK'
  <2>1. Head(ready[p]) \in Requests /\ Tail(ready[p]) \in Seq(Requests)
    BY <1>24, <1>30, TakeHead DEF PrefillFails
  <2>2. ready' \in [Prefills -> Seq(Requests)] /\ answers' \in [Requests -> Nat]
    <3> DEFINE r == Head(ready[p])
               rest == Tail(ready[p])
    <3>1. /\ ready' = [ready EXCEPT ![p] = rest] /\ answers' = [answers EXCEPT ![r] = @ + 1]
          /\ ready \in [Prefills -> Seq(Requests)] /\ answers \in [Requests -> Nat]
      BY <1>24 DEF TypeOK, PrefillFails
    <3>2. r \in Requests /\ rest \in Seq(Requests)
      BY <2>1
    <3> HIDE DEF r, rest
    <3> QED BY ONLY <3>1, <3>2, p \in Prefills
  <2>3. refused' \subseteq Requests
    BY <1>24, <2>1 DEF TypeOK, PrefillFails
  <2> QED BY <1>24, <2>2, <2>3 DEF TypeOK, PrefillFails
<1>17. ASSUME NEW p \in Prefills, PrefillEnd(p) PROVE TypeOK'
  <2>1. engine[p] \in Requests
    BY <1>17 DEF TypeOK, PrefillEnd
  <2>2. Append(tasks[p], engine[p]) \in Seq(Requests)
    BY <2>1, <1>30, AppendQueue
  <2> QED BY <1>17, <2>2 DEF TypeOK, PrefillEnd
<1>18. ASSUME NEW p \in Prefills, SendFirstGeneration(p) PROVE TypeOK'
  BY <1>18 DEF TypeOK, SendFirstGeneration
<1>19. ASSUME NEW p \in Prefills, ResendFirstGeneration(p) PROVE TypeOK'
  <2>1. Head(tasks[p]) \in Requests
    BY <1>19, <1>30, TakeHead DEF ResendFirstGeneration
  <2>2. faults' \in 0 .. MaxFaults /\ faulted' \subseteq Requests
    <3>1. (faults < MaxFaults /\ faults' = faults + 1 /\ faulted' = faulted \union {Head(tasks[p])})
      BY <1>19 DEF ResendFirstGeneration
    <3>2. faults \in 0 .. MaxFaults /\ faulted \subseteq Requests /\ Head(tasks[p]) \in Requests
      BY <2>1 DEF TypeOK
    <3>3. faults' \in 0 .. MaxFaults
      BY <3>1, <3>2
    <3> QED BY <3>1, <3>2, <3>3
  <2>3. gen' \in [Requests -> {"none", "sent", "pulling", "done"}]
    BY <1>19, <2>1 DEF TypeOK, ResendFirstGeneration
  <2> QED BY <1>19, <2>2, <2>3 DEF TypeOK, ResendFirstGeneration
<1>20. ASSUME NEW p \in Prefills, FirstGenerationReturns(p) PROVE TypeOK'
  <2>1. Head(tasks[p]) \in Requests /\ Tail(tasks[p]) \in Seq(Requests)
    BY <1>20, <1>30, TakeHead DEF FirstGenerationReturns
  <2>2. faults' \in 0 .. MaxFaults /\ faulted' \subseteq Requests
    <3>1. (faults' = faults /\ faulted' = faulted)
            \/ (faults < MaxFaults /\ faults' = faults + 1 /\ faulted' = faulted \union {Head(tasks[p])})
      BY <1>20 DEF FirstGenerationReturns
    <3>2. faults \in 0 .. MaxFaults /\ faulted \subseteq Requests /\ Head(tasks[p]) \in Requests
      BY <2>1 DEF TypeOK
    <3>3. faults' \in 0 .. MaxFaults
      BY <3>1, <3>2
    <3> QED BY <3>1, <3>2, <3>3
  <2>3. tasks' \in [Prefills -> Seq(Requests)]
    BY <1>20, <2>1 DEF TypeOK, FirstGenerationReturns
  <2> QED BY <1>20, <2>2, <2>3 DEF TypeOK, FirstGenerationReturns
<1>21. ASSUME NEW p \in Prefills, Crash(p) PROVE TypeOK'
  <2>1. NoReply \in Replies
        /\ <<>> \in Seq(Requests)
    BY DEF NoReply, Replies
  <2>2. /\ online' \in [Prefills -> Seq(Requests)] /\ offline' \in [Prefills -> Seq(Requests)]
        /\ ready' \in [Prefills -> Seq(Requests)] /\ tasks' \in [Prefills -> Seq(Requests)]
    BY <1>21, <2>1 DEF TypeOK, Crash
  <2>3. /\ calling' \in [Prefills -> Requests \union {None}]
        /\ engine' \in [Prefills -> Requests \union {None}]
        /\ reply' \in [Prefills -> Replies]
        /\ retries' \in [Prefills -> 0 .. MaxRetry]
    BY <1>21, <2>1 DEF TypeOK, Crash
  <2>4. live' \in [Requests -> 0 .. MaxRetry + 1] /\ stale' \in [Requests -> Nat]
    BY <1>21 DEF TypeOK, Crash
  <2> QED BY <1>21, <2>2, <2>3, <2>4 DEF TypeOK, Crash
<1>22. ASSUME NEW p \in Prefills, UnlinkInstance(p) PROVE TypeOK'
  BY <1>22 DEF TypeOK, UnlinkInstance
<1>23. CASE UNCHANGED vars
  BY <1>23 DEF TypeOK, vars
<1> QED
  BY <1>1, <1>2, <1>3, <1>4, <1>5, <1>6, <1>7, <1>8, <1>9, <1>10, <1>12, <1>13, <1>14, <1>15,
     <1>16, <1>17, <1>18, <1>19, <1>20, <1>21, <1>22, <1>23, <1>24
  DEF Next, ServeStep, DispatchStep, PrefillStep, TaskStep

-----------------------------------------------------------------------------
\* A step leaves a request where it is.
SamePlace(r) ==
    /\ InOnline(r)' <=> InOnline(r)
    /\ InOffline(r)' <=> InOffline(r)
    /\ IsCalling(r)' <=> IsCalling(r)
    /\ InReady(r)' <=> InReady(r)
    /\ InEngine(r)' <=> InEngine(r)
    /\ InTasks(r)' <=> InTasks(r)

\* It leaves what the decode instance and the client know of it.
SameService(r) ==
    /\ gen'[r] = gen[r] /\ received'[r] = received[r] /\ running'[r] = running[r]
    /\ answers'[r] = answers[r]

\* It leaves its messages and their answers.
SameCall(r) ==
    /\ live'[r] = live[r] /\ stale'[r] = stale[r]
    /\ IsCalling(r) => reply'[Home(r)] = reply[Home(r)] /\ retries'[Home(r)] = retries[Home(r)]

\* It leaves what its prefill instance keeps of it.
SameKept(r) ==
    /\ remote'[r] = remote[r]
    /\ r \in channel' <=> r \in channel
    /\ r \in held' <=> r \in held
    /\ r \in arrived' <=> r \in arrived
    /\ Home(r) \in crashed' <=> Home(r) \in crashed

\* It leaves the request alone; at most it is a fault that hits another one.
Untouched(r) ==
    /\ SamePlace(r) /\ SameService(r) /\ SameCall(r) /\ SameKept(r)
    /\ r \in faulted' <=> r \in faulted
    /\ faults' >= faults

\* The derived places.
LEMMA PlaceDerived ==
    ASSUME NEW r \in Requests, SamePlace(r)
    PROVE  (Queued(r)' <=> Queued(r)) /\ (Early(r)' <=> Early(r)) /\ (Placed(r)' <=> Placed(r))
BY DEF SamePlace, Queued, Early, Placed

\* What the invariant says of a request stays true when it is left alone.
LEMMA UntouchedOK ==
    ASSUME IInv, TypeOK', refused \subseteq refused', NEW r \in Requests, Untouched(r)
    PROVE  RequestOK(r)'
<1>1. RequestOK(r) /\ faults \in Nat /\ faults' \in Nat
  BY BoundsAssumption DEF IInv, TypeOK
<1>2. /\ SamePlace(r) /\ SameService(r) /\ SameCall(r) /\ SameKept(r)
      /\ r \in faulted' <=> r \in faulted
      /\ faults' >= faults
      /\ Queued(r)' <=> Queued(r)
      /\ Early(r)' <=> Early(r)
      /\ Placed(r)' <=> Placed(r)
  BY PlaceDerived DEF Untouched
<1>3. OnePlace(r)'
  BY <1>1, <1>2 DEF RequestOK, OnePlace, SamePlace, SameKept, SameService
<1>4. HasWhatItNeeds(r)'
  BY <1>1, <1>2 DEF RequestOK, HasWhatItNeeds, SamePlace, SameKept, SameService, SameCall, Home
<1>5. MessagesBounded(r)' /\ NotBegun(r)'
  BY <1>1, <1>2 DEF RequestOK, MessagesBounded, NotBegun, SamePlace, SameKept, SameService, SameCall, Home
<1>6. IsCalling(r) => (OneMessage(r)' <=> OneMessage(r))
  BY <1>2 DEF OneMessage, SameCall, Home
<1>7. Unhit(r)'
  BY <1>1, <1>2, <1>6 DEF RequestOK, Unhit, SamePlace, SameService, SameCall, Home
<1>8. NoFaultYet(r)'
  BY <1>1, <1>2, <1>6 DEF RequestOK, NoFaultYet, SamePlace, SameKept, SameService, SameCall
<1>9. DecodedOnce(r)'
  BY <1>1, <1>2 DEF RequestOK, DecodedOnce, SameService, SameCall
<1> QED BY <1>3, <1>4, <1>5, <1>7, <1>8, <1>9 DEF RequestOK

\* A step that leaves the queues, the calls and the engines leaves every place.
LEMMA PlacesKept ==
    ASSUME UNCHANGED <<online, offline, calling, ready, engine, tasks>>, NEW r \in Requests
    PROVE  /\ SamePlace(r)
           /\ Queued(r)' <=> Queued(r)
           /\ Early(r)' <=> Early(r)
           /\ Placed(r)' <=> Placed(r)
<1>1. SamePlace(r)
  BY DEF SamePlace, InOnline, InOffline, IsCalling, InReady, InEngine, InTasks, Home
<1> QED BY <1>1, PlaceDerived

\* And every instance, if it leaves the answers and the reservations too.
LEMMA InstancesKept ==
    ASSUME IInv, UNCHANGED <<online, offline, calling, ready, engine, tasks, reply, retries, by_instance>>
    PROVE  \A p \in Prefills : InstanceOK(p)'
BY DEF IInv, InstanceOK, Home

-----------------------------------------------------------------------------
\* The steps of FirstGeneration, of the pull and of decoding: they concern one
\* request, which is past its early places and stays where it is.
AfterPrefill(h) ==
    /\ h \in arrived /\ ~Early(h)
    /\ UNCHANGED <<arrived, online, offline, calling, reply, retries, channel, remote, live, stale,
                   ready, engine, tasks, held, crashed>>
    /\ \A r \in Requests : r # h => SameService(r) /\ (r \in faulted' <=> r \in faulted)
    /\ faults' >= faults
    /\ gen'[h] # "none"

\* Only what such a step does to the reservation and to the answers is left to
\* be shown.
LEMMA AfterPrefillKeeps ==
    ASSUME IInv, TypeOK', refused \subseteq refused', NEW h \in Requests, AfterPrefill(h), Unhit(h)', NoFaultYet(h)', DecodedOnce(h)'
    PROVE  \A r \in Requests : RequestOK(r)'
<1>1. ASSUME NEW r \in Requests, r # h PROVE RequestOK(r)'
  <2>1. Untouched(r)
    BY <1>1, PlacesKept DEF AfterPrefill, Untouched, SameCall, SameKept
  <2> QED BY <2>1, UntouchedOK
<1>2. /\ SamePlace(h) /\ (Queued(h)' <=> Queued(h)) /\ (Early(h)' <=> Early(h)) /\ (Placed(h)' <=> Placed(h))
      /\ RequestOK(h)
  BY PlacesKept DEF AfterPrefill, IInv
<1>3. OnePlace(h)' /\ NotBegun(h)'
  BY <1>2 DEF AfterPrefill, RequestOK, OnePlace, NotBegun, SamePlace
<1>4. HasWhatItNeeds(h)' /\ MessagesBounded(h)'
  BY <1>2 DEF AfterPrefill, RequestOK, HasWhatItNeeds, MessagesBounded, SamePlace, Home, Early
<1> QED BY <1>1, <1>3, <1>4 DEF RequestOK

\* A request whose first token was sent is past its early places.
LEMMA PastEarly ==
    ASSUME IInv, NEW h \in Requests, InTasks(h) \/ gen[h] # "none"
    PROVE  h \in arrived /\ ~Early(h)
BY DEF IInv, RequestOK, OnePlace, NotBegun, Early, Queued, Placed

\* The pool thread's task is a request of its instance.
LEMMA HeadOfTasks ==
    ASSUME IInv, NEW p \in Prefills, tasks[p] # <<>>
    PROVE  Head(tasks[p]) \in Requests /\ InTasks(Head(tasks[p])) /\ Home(Head(tasks[p])) = p
<1>1. tasks[p] \in Seq(Requests) /\ QueueOK(p, tasks[p])
  BY DEF IInv, TypeOK, InstanceOK
<1>2. Head(tasks[p]) \in Requests /\ Head(tasks[p]) \in Range(tasks[p])
  BY <1>1, TakeHead
<1> QED BY <1>1, <1>2 DEF InTasks, QueueOK

\* The first token is sent: nothing was decoded before.
LEMMA SendFirstGenerationKeeps ==
    ASSUME IInv, TypeOK', refused \subseteq refused', NEW p \in Prefills, SendFirstGeneration(p)
    PROVE  (\A s \in Prefills : InstanceOK(s)') /\ (\A r \in Requests : RequestOK(r)')
<1>1. PICK h \in Requests : h = Head(tasks[p]) /\ InTasks(h)
  BY HeadOfTasks DEF SendFirstGeneration
<1>2. /\ gen[h] = "none" /\ gen' = [gen EXCEPT ![h] = "sent"]
      /\ UNCHANGED <<arrived, online, offline, calling, reply, retries, channel, remote, live, stale,
                     ready, engine, tasks, held, received, by_instance, running, answers, crashed,
                     faulted, faults>>
  BY <1>1 DEF SendFirstGeneration, dispatchVars, netVars, prefillVars, decodeVars, faultVars
<1>3. gen'[h] = "sent" /\ (\A r \in Requests : r # h => gen'[r] = gen[r]) /\ faults \in Nat
      /\ RequestOK(h)
  BY <1>2, BoundsAssumption DEF IInv, TypeOK
<1>4. AfterPrefill(h)
  BY <1>1, <1>2, <1>3, PastEarly DEF AfterPrefill, SameService
<1>5. SamePlace(h) /\ (Queued(h)' <=> Queued(h)) /\ (Placed(h)' <=> Placed(h)) /\ Placed(h)
      /\ ~IsCalling(h) /\ ~Queued(h) /\ Home(h) \notin crashed
  BY <1>1, <1>2, <1>3, PlacesKept DEF RequestOK, OnePlace, Placed
<1>6. Unhit(h)' /\ NoFaultYet(h)'
  BY <1>1, <1>2, <1>3, <1>5 DEF RequestOK, Unhit, NoFaultYet, SamePlace
<1>7. DecodedOnce(h)'
  BY <1>2, <1>3, <1>5 DEF RequestOK, DecodedOnce, NotBegun
<1> QED BY <1>2, <1>4, <1>6, <1>7, AfterPrefillKeeps, InstancesKept

\* It is sent again after its answer was lost.  If that is the first fault, the
\* reservation is gone and nothing can make a new one.
LEMMA ResendFirstGenerationKeeps ==
    ASSUME IInv, TypeOK', refused \subseteq refused', NEW p \in Prefills, ResendFirstGeneration(p)
    PROVE  (\A s \in Prefills : InstanceOK(s)') /\ (\A r \in Requests : RequestOK(r)')
<1>1. PICK h \in Requests : h = Head(tasks[p]) /\ InTasks(h)
  BY HeadOfTasks DEF ResendFirstGeneration
<1>2. /\ gen[h] = "done" /\ gen' = [gen EXCEPT ![h] = "sent"]
      /\ faults' = faults + 1 /\ faulted' = faulted \union {h}
      /\ UNCHANGED <<arrived, online, offline, calling, reply, retries, channel, remote, live, stale,
                     ready, engine, tasks, held, received, by_instance, running, answers, crashed>>
  BY <1>1 DEF ResendFirstGeneration, Fault, dispatchVars, netVars, prefillVars, decodeVars
<1>3. gen'[h] = "sent" /\ (\A r \in Requests : r # h => gen'[r] = gen[r]) /\ faults \in Nat
      /\ RequestOK(h) /\ live[h] \in Nat /\ stale[h] \in Nat
  BY <1>2, BoundsAssumption DEF IInv, TypeOK
<1>4. AfterPrefill(h)
  BY <1>1, <1>2, <1>3, PastEarly DEF AfterPrefill, SameService
<1>5. (Placed(h)' <=> Placed(h)) /\ ~IsCalling(h)
  BY <1>1, <1>2, <1>3, PlacesKept DEF RequestOK, OnePlace
<1>6. Unhit(h)' /\ NoFaultYet(h)'
  BY <1>2, <1>3 DEF Unhit, NoFaultYet
<1>7. DecodedOnce(h)'
  <2>1. live[h] = 0
    BY <1>3, <1>5 DEF RequestOK, MessagesBounded
  <2>2. faults = 0 => received[h] = {} /\ stale[h] = 0
    BY <1>2, <1>3 DEF RequestOK, NoFaultYet
  <2>3. faults + 1 <= 1 => faults = 0
    BY <1>3
  <2> QED BY <1>2, <1>3, <2>1, <2>2, <2>3 DEF RequestOK, DecodedOnce
<1> QED BY <1>2, <1>4, <1>6, <1>7, AfterPrefillKeeps, InstancesKept

\* It is lost: the call is over.
LEMMA LoseFirstGenerationKeeps ==
    ASSUME IInv, TypeOK', refused \subseteq refused', NEW h \in Requests, LoseFirstGeneration(h)
    PROVE  (\A s \in Prefills : InstanceOK(s)') /\ (\A r \in Requests : RequestOK(r)')
<1>1. /\ gen[h] = "sent" /\ gen' = [gen EXCEPT ![h] = "done"]
      /\ faults' = faults + 1 /\ faulted' = faulted \union {h}
      /\ UNCHANGED <<arrived, online, offline, calling, reply, retries, channel, remote, live, stale,
                     ready, engine, tasks, held, received, by_instance, running, answers, crashed>>
  BY DEF LoseFirstGeneration, Fault, dispatchVars, netVars, prefillVars, decodeVars
<1>2. gen'[h] = "done" /\ (\A r \in Requests : r # h => gen'[r] = gen[r]) /\ faults \in Nat
      /\ RequestOK(h)
  BY <1>1, BoundsAssumption DEF IInv, TypeOK
<1>3. AfterPrefill(h)
  BY <1>1, <1>2, PastEarly DEF AfterPrefill, SameService
<1>4. Unhit(h)' /\ NoFaultYet(h)'
  BY <1>1, <1>2 DEF Unhit, NoFaultYet
<1>5. DecodedOnce(h)'
  BY <1>1, <1>2 DEF RequestOK, DecodedOnce
<1> QED BY <1>1, <1>3, <1>4, <1>5, AfterPrefillKeeps, InstancesKept

\* The decode instance does not know the request, or has pulled its KV cache.
LEMMA ServedKeeps ==
    ASSUME IInv, TypeOK', refused \subseteq refused', NEW h \in Requests, FirstGenerationUnknown(h) \/ PullDone(h)
    PROVE  (\A s \in Prefills : InstanceOK(s)') /\ (\A r \in Requests : RequestOK(r)')
<1>1. /\ (gen[h] = "sent" /\ received[h] = {}) \/ gen[h] = "pulling"
      /\ gen' = [gen EXCEPT ![h] = "done"]
      /\ UNCHANGED <<arrived, online, offline, calling, reply, retries, channel, remote, live, stale,
                     ready, engine, tasks, held, received, by_instance, running, answers, crashed,
                     faulted, faults>>
  BY DEF FirstGenerationUnknown, PullDone, dispatchVars, netVars, prefillVars, decodeVars, faultVars
<1>2. gen'[h] = "done" /\ (\A r \in Requests : r # h => gen'[r] = gen[r]) /\ faults \in Nat
      /\ RequestOK(h)
  BY <1>1, BoundsAssumption DEF IInv, TypeOK
<1>3. AfterPrefill(h)
  BY <1>1, <1>2, PastEarly DEF AfterPrefill, SameService
<1>4. SamePlace(h) /\ (Queued(h)' <=> Queued(h)) /\ (Placed(h)' <=> Placed(h))
      /\ ~IsCalling(h) /\ ~Queued(h)
  BY <1>1, <1>3, PlacesKept DEF AfterPrefill, Early
<1>5. Unhit(h)' /\ NoFaultYet(h)'
  BY <1>1, <1>2, <1>4 DEF RequestOK, Unhit, NoFaultYet, SamePlace
<1>6. DecodedOnce(h)'
  BY <1>1, <1>2 DEF RequestOK, DecodedOnce
<1> QED BY <1>1, <1>3, <1>5, <1>6, AfterPrefillKeeps, InstancesKept

\* The first token arrives and the reservation becomes the blocks of a running
\* request: by DecodedOnce it was not decoded before.
LEMMA RecvFirstGenerationKeepsInv ==
    ASSUME IInv, TypeOK', refused \subseteq refused', NEW h \in Requests, RecvFirstGeneration(h)
    PROVE  (\A s \in Prefills : InstanceOK(s)') /\ (\A r \in Requests : RequestOK(r)')
<1>1. /\ gen[h] = "sent" /\ received[h] # {} /\ received' = [received EXCEPT ![h] = {}]
      /\ by_instance' = [by_instance EXCEPT ![PrefillOf[h]] = @ \ {h}]
      /\ running' = [running EXCEPT ![h] = received[h]]
      /\ gen' = [gen EXCEPT ![h] = IF mode = "PULL" THEN "pulling" ELSE "done"]
      /\ UNCHANGED <<arrived, online, offline, calling, reply, retries, channel, remote, live, stale,
                     ready, engine, tasks, held, answers, crashed, faulted, faults>>
  BY DEF RecvFirstGeneration, dispatchVars, netVars, prefillVars, faultVars
<1>2. /\ gen'[h] \in {"pulling", "done"} /\ received'[h] = {}
      /\ \A r \in Requests :
           r # h => gen'[r] = gen[r] /\ received'[r] = received[r] /\ running'[r] = running[r]
      /\ faults \in Nat /\ RequestOK(h)
  BY <1>1, BoundsAssumption DEF IInv, TypeOK
<1>3. AfterPrefill(h)
  BY <1>1, <1>2, PastEarly DEF AfterPrefill, SameService
<1>4. SamePlace(h) /\ (Queued(h)' <=> Queued(h)) /\ (Placed(h)' <=> Placed(h))
      /\ ~IsCalling(h) /\ ~Queued(h)
  BY <1>1, <1>3, PlacesKept DEF AfterPrefill, Early
<1>5. Unhit(h)' /\ NoFaultYet(h)'
  BY <1>1, <1>2, <1>4 DEF RequestOK, Unhit, NoFaultYet, SamePlace
<1>6. DecodedOnce(h)'
  BY <1>1, <1>2 DEF RequestOK, DecodedOnce
<1>7. \A s \in Prefills : InstanceOK(s)'
  <2>1. \A s \in Prefills : by_instance'[s] \subseteq by_instance[s]
    BY <1>1 DEF IInv, TypeOK
  <2> QED BY <1>1, <2>1 DEF IInv, InstanceOK, Home
<1> QED BY <1>3, <1>5, <1>6, <1>7, AfterPrefillKeeps

\* The decode instance answers the client: by DecodedOnce for the first time.
LEMMA DecodeFinishKeeps ==
    ASSUME IInv, TypeOK', refused \subseteq refused', NEW h \in Requests, DecodeFinish(h)
    PROVE  (\A s \in Prefills : InstanceOK(s)') /\ (\A r \in Requests : RequestOK(r)')
<1>1. /\ running[h] # {} /\ running' = [running EXCEPT ![h] = {}]
      /\ answers' = [answers EXCEPT ![h] = @ + 1]
      /\ UNCHANGED <<arrived, online, offline, calling, reply, retries, channel, remote, live, stale,
                     ready, engine, tasks, held, gen, received, by_instance, crashed, faulted, faults>>
  BY DEF DecodeFinish, Answer, dispatchVars, netVars, prefillVars, faultVars
<1>2. /\ running'[h] = {} /\ answers'[h] = answers[h] + 1 /\ answers[h] \in Nat
      /\ \A r \in Requests : r # h => answers'[r] = answers[r] /\ running'[r] = running[r]
      /\ faults \in Nat /\ RequestOK(h)
  BY <1>1, BoundsAssumption DEF IInv, TypeOK
<1>3. gen[h] # "none"
  BY <1>1, <1>2 DEF RequestOK, NotBegun
<1>4. AfterPrefill(h)
  BY <1>1, <1>2, <1>3, PastEarly DEF AfterPrefill, SameService
<1>5. SamePlace(h) /\ (Queued(h)' <=> Queued(h)) /\ (Placed(h)' <=> Placed(h))
      /\ ~IsCalling(h) /\ ~Queued(h)
  BY <1>1, <1>4, PlacesKept DEF AfterPrefill, Early
<1>6. Unhit(h)' /\ NoFaultYet(h)'
  BY <1>1, <1>2, <1>5 DEF RequestOK, Unhit, NoFaultYet, SamePlace
<1>7. DecodedOnce(h)'
  BY <1>1, <1>2, <1>3 DEF RequestOK, DecodedOnce
<1> QED BY <1>1, <1>4, <1>6, <1>7, AfterPrefillKeeps, InstancesKept

-----------------------------------------------------------------------------
\* The messages of AddNewRequests: no request changes its place.

\* A message is served while its call is under way.
LEMMA RecvNewRequestKeeps ==
    ASSUME IInv, TypeOK', refused \subseteq refused', NEW h \in Requests, RecvNewRequest(h)
    PROVE  (\A s \in Prefills : InstanceOK(s)') /\ (\A r \in Requests : RequestOK(r)')
<1>1. PICK o \in Outcomes :
        /\ Reserve(h, o[1], o[2])
        /\ \/ /\ faults' = faults /\ faulted' = faulted
              /\ reply' = IF reply[Home(h)] = NoReply
                            THEN [reply EXCEPT ![Home(h)] = [code |-> o[1], blocks |-> o[2]]]
                            ELSE reply
           \/ faults' = faults + 1 /\ faulted' = faulted \union {h} /\ reply' = reply
  BY DEF RecvNewRequest, Fault, NoFault, Home
<1>2. /\ live[h] > 0 /\ live' = [live EXCEPT ![h] = @ - 1]
      /\ UNCHANGED <<arrived, online, offline, calling, retries, channel, remote, stale, ready, engine,
                     tasks, held, gen, running, answers, crashed>>
  BY DEF RecvNewRequest, prefillVars
<1>3. /\ o[1] \in {200, 404, 500}
      /\ \A x \in Requests : x # h => received'[x] = received[x]
      /\ \A s \in Prefills, x \in Requests :
           x \in by_instance'[s] => x \in by_instance[s] \/ (x = h /\ s = Home(h))
      /\ received[h] # {} => received' = received /\ o[1] # 200
      /\ o[1] = 200 => received'[h] = o[2] /\ o[2] # {}
      /\ o[1] # 200 => received' = received
      /\ o[1] = 500 => received[h] # {}
  BY <1>1, ReserveEffect DEF IInv
<1>4. /\ live[h] \in Nat /\ live'[h] = live[h] - 1 /\ (\A x \in Requests : x # h => live'[x] = live[x])
      /\ faults \in Nat /\ faults' \in Nat /\ faults' >= faults
      /\ Home(h) \in Prefills /\ reply \in [Prefills -> Replies] /\ retries[Home(h)] \in Nat
      /\ RequestOK(h)
  <2>1. RequestOK(h) /\ Home(h) \in Prefills /\ reply \in [Prefills -> Replies]
    BY PrefillOfAssumption DEF IInv, TypeOK, Home
  <2>2. retries[Home(h)] \in Nat /\ faults \in Nat
    BY <2>1, BoundsAssumption DEF IInv, TypeOK
  <2>3. live[h] \in Nat /\ live'[h] = live[h] - 1 /\ (\A x \in Requests : x # h => live'[x] = live[x])
    BY <1>2, BoundsAssumption DEF IInv, TypeOK
  <2>4. faults' \in Nat /\ faults' >= faults
    BY <1>1, <2>2
  <2> QED BY <2>1, <2>2, <2>3, <2>4
<1>5. /\ \A s \in Prefills : s # Home(h) => reply'[s] = reply[s]
      /\ NoReply.code = 0
      /\ \/ /\ faults' = faults /\ faulted' = faulted /\ reply[Home(h)] = NoReply
            /\ reply'[Home(h)].code = o[1] /\ reply'[Home(h)].blocks = o[2]
         \/ faults' = faults /\ faulted' = faulted /\ reply' = reply /\ reply[Home(h)] # NoReply
         \/ faults' = faults + 1 /\ faulted' = faulted \union {h} /\ reply' = reply
  BY <1>1, <1>4 DEF NoReply
<1>6. IsCalling(h) /\ calling[Home(h)] = h /\ gen[h] = "none" /\ h \in arrived
  BY <1>2, <1>4 DEF RequestOK, MessagesBounded, OnePlace, Early, Placed, IsCalling
<1>7. ASSUME NEW r \in Requests, r # h PROVE RequestOK(r)'
  <2>1. IsCalling(r) => Home(r) # Home(h)
    BY <1>6, <1>7 DEF IsCalling
  <2>2. SameCall(r)
    BY <1>2, <1>4, <1>5, <1>7, <2>1, PrefillOfAssumption DEF SameCall, Home
  <2>3. Untouched(r)
    BY <1>2, <1>3, <1>4, <1>5, <1>7, <2>2, PlacesKept DEF Untouched, SameService, SameKept
  <2> QED BY <2>3, UntouchedOK
<1>8. RequestOK(h)'
  <2>1. /\ SamePlace(h) /\ (Queued(h)' <=> Queued(h)) /\ (Early(h)' <=> Early(h)) /\ (Placed(h)' <=> Placed(h))
        /\ ~Queued(h) /\ ~InReady(h) /\ ~InEngine(h) /\ ~InTasks(h) /\ Placed(h)
    BY <1>2, <1>4, <1>6, PlacesKept DEF RequestOK, OnePlace, Placed, Early
  <2>2. OnePlace(h)' /\ NotBegun(h)'
    BY <1>2, <1>4, <1>6, <2>1 DEF RequestOK, OnePlace, NotBegun, SamePlace
  <2>3. received'[h] = received[h] \/ received[h] = {}
    BY <1>3
  <2>4. HasWhatItNeeds(h)'
    BY <1>2, <1>3, <1>4, <1>5, <2>1 DEF RequestOK, HasWhatItNeeds, SamePlace, Home
  <2>5. MessagesBounded(h)'
    BY <1>2, <1>4, <1>6, <2>1 DEF RequestOK, MessagesBounded, SamePlace, Home
  <2>6. OneMessage(h) /\ faults' = faults =>
          /\ OneMessage(h)' /\ reply[Home(h)] = NoReply /\ reply'[Home(h)].code = o[1]
    BY <1>2, <1>3, <1>4, <1>5 DEF OneMessage, Home
  <2>7. Unhit(h)'
    <3> SUFFICES ASSUME h \notin faulted' PROVE Unhit(h)'
      BY DEF Unhit
    <3>1. h \notin faulted /\ faults' = faults
      BY <1>5
    <3>2. OneMessage(h) /\ stale[h] = 0 /\ (reply[Home(h)].code # 200 => received[h] = {})
      BY <1>4, <1>6, <3>1 DEF RequestOK, Unhit
    <3>3. OneMessage(h)' /\ received[h] = {} /\ reply'[Home(h)].code = o[1]
      BY <1>5, <2>6, <3>1, <3>2
    <3>4. reply'[Home(h)].code # 200 => received'[h] = {}
      BY <1>3, <3>3
    <3> QED BY <1>2, <1>6, <2>1, <3>2, <3>3, <3>4 DEF Unhit, SamePlace, Home
  <2>8. NoFaultYet(h)'
    BY <1>2, <1>4, <1>5, <1>6, <2>1, <2>6 DEF RequestOK, NoFaultYet, SamePlace
  <2>9. DecodedOnce(h)'
    BY <1>2, <1>4, <1>6, <2>1 DEF RequestOK, DecodedOnce
  <2> QED BY <2>2, <2>4, <2>5, <2>7, <2>8, <2>9 DEF RequestOK
<1>9. ASSUME NEW s \in Prefills PROVE InstanceOK(s)'
  <2>1. InstanceOK(s) /\ h # None
    BY ModesAssumption DEF IInv
  <2>2. calling[s] = None => reply'[s] = reply[s]
    BY <1>5, <1>6, <2>1
  <2> QED BY <1>2, <1>3, <2>1, <2>2 DEF InstanceOK, Home
<1> QED BY <1>7, <1>8, <1>9

\* A message of a call that has ended is served: by Unhit a fault has hit the
\* request, and by DecodedOnce it was not decoded yet or will never be.
LEMMA RecvStaleRequestKeeps ==
    ASSUME IInv, TypeOK', refused \subseteq refused', NEW h \in Requests, RecvStaleRequest(h)
    PROVE  (\A s \in Prefills : InstanceOK(s)') /\ (\A r \in Requests : RequestOK(r)')
<1>1. PICK o \in Outcomes : Reserve(h, o[1], o[2])
  BY DEF RecvStaleRequest
<1>2. /\ stale[h] > 0 /\ stale' = [stale EXCEPT ![h] = @ - 1]
      /\ UNCHANGED <<arrived, online, offline, calling, reply, retries, channel, remote, live, ready,
                     engine, tasks, held, gen, running, answers, crashed, faulted, faults>>
  BY DEF RecvStaleRequest, dispatchVars, prefillVars, faultVars
<1>3. /\ \A x \in Requests : x # h => received'[x] = received[x]
      /\ \A s \in Prefills, x \in Requests :
           x \in by_instance'[s] => x \in by_instance[s] \/ (x = h /\ s = Home(h))
      /\ received[h] # {} => received' = received
  BY <1>1, ReserveEffect DEF IInv
<1>4. /\ stale[h] \in Nat /\ stale'[h] = stale[h] - 1
      /\ \A x \in Requests : x # h => stale'[x] = stale[x]
      /\ faults \in Nat /\ RequestOK(h)
  BY <1>2, BoundsAssumption DEF IInv, TypeOK
<1>5. ASSUME NEW r \in Requests, r # h PROVE RequestOK(r)'
  <2>1. Untouched(r)
    BY <1>2, <1>3, <1>4, <1>5, PlacesKept DEF Untouched, SameService, SameCall, SameKept
  <2> QED BY <2>1, UntouchedOK
<1>6. RequestOK(h)'
  <2>1. SamePlace(h) /\ (Queued(h)' <=> Queued(h)) /\ (Early(h)' <=> Early(h)) /\ (Placed(h)' <=> Placed(h))
    BY <1>2, PlacesKept
  <2>2. h \in faulted /\ h \in arrived
    BY <1>2, <1>4 DEF RequestOK, Unhit, NotBegun
  <2>3. OnePlace(h)' /\ NotBegun(h)' /\ MessagesBounded(h)'
    BY <1>2, <1>4, <2>1, <2>2 DEF RequestOK, OnePlace, NotBegun, MessagesBounded, SamePlace, Home
  <2>4. HasWhatItNeeds(h)'
    BY <1>2, <1>3, <1>4, <2>1 DEF RequestOK, HasWhatItNeeds, SamePlace, Home
  <2>5. Unhit(h)'
    BY <1>2, <2>2 DEF Unhit
  <2>6. NoFaultYet(h)'
    BY <1>2, <1>4, <2>1 DEF RequestOK, NoFaultYet, OneMessage, SamePlace, Home
  <2>7. DecodedOnce(h)'
    BY <1>2, <1>4, <2>1 DEF RequestOK, DecodedOnce
  <2> QED BY <2>3, <2>4, <2>5, <2>6, <2>7 DEF RequestOK
<1>7. \A s \in Prefills : InstanceOK(s)'
  BY <1>2, <1>3 DEF IInv, InstanceOK, Home
<1> QED BY <1>5, <1>6, <1>7

\* A message is lost.
LEMMA LoseCallKeeps ==
    ASSUME IInv, TypeOK', refused \subseteq refused', NEW h \in Requests, LoseCall(h)
    PROVE  (\A s \in Prefills : InstanceOK(s)') /\ (\A r \in Requests : RequestOK(r)')
<1>1. /\ live[h] > 0 /\ live' = [live EXCEPT ![h] = @ - 1]
      /\ faults' = faults + 1 /\ faulted' = faulted \union {h}
      /\ UNCHANGED <<arrived, online, offline, calling, reply, retries, channel, remote, stale, ready,
                     engine, tasks, held, gen, received, by_instance, running, answers, crashed>>
  BY DEF LoseCall, Fault, dispatchVars, prefillVars, decodeVars
<1>2. /\ live[h] \in Nat /\ live'[h] = live[h] - 1 /\ (\A x \in Requests : x # h => live'[x] = live[x])
      /\ faults \in Nat /\ RequestOK(h) /\ retries[Home(h)] \in Nat
  <2>1. RequestOK(h) /\ Home(h) \in Prefills
    BY PrefillOfAssumption DEF IInv, Home
  <2>2. retries[Home(h)] \in Nat /\ faults \in Nat
    BY <2>1, BoundsAssumption DEF IInv, TypeOK
  <2>3. live[h] \in Nat /\ live'[h] = live[h] - 1 /\ (\A x \in Requests : x # h => live'[x] = live[x])
    BY <1>1, BoundsAssumption DEF IInv, TypeOK
  <2> QED BY <2>1, <2>2, <2>3
<1>3. ASSUME NEW r \in Requests, r # h PROVE RequestOK(r)'
  <2>1. Untouched(r)
    BY <1>1, <1>2, <1>3, PlacesKept DEF Untouched, SameService, SameCall, SameKept
  <2> QED BY <2>1, UntouchedOK
<1>4. RequestOK(h)'
  <2>1. SamePlace(h) /\ (Queued(h)' <=> Queued(h)) /\ (Early(h)' <=> Early(h)) /\ (Placed(h)' <=> Placed(h))
    BY <1>1, PlacesKept
  <2>2. OnePlace(h)' /\ NotBegun(h)' /\ HasWhatItNeeds(h)'
    BY <1>1, <1>2, <2>1 DEF RequestOK, OnePlace, NotBegun, HasWhatItNeeds, SamePlace, Home
  <2>3. MessagesBounded(h)'
    BY <1>1, <1>2, <2>1 DEF RequestOK, MessagesBounded, SamePlace, Home
  <2>4. Unhit(h)' /\ NoFaultYet(h)'
    BY <1>1, <1>2 DEF Unhit, NoFaultYet
  <2>5. DecodedOnce(h)'
    BY <1>1, <1>2, <2>1 DEF RequestOK, DecodedOnce
  <2> QED BY <2>2, <2>3, <2>4, <2>5 DEF RequestOK
<1> QED BY <1>1, <1>3, <1>4, InstancesKept

\* brpc sends the call again: by OneMessage a request that no fault has hit has a
\* message under way or its answer.
LEMMA ResendKeeps ==
    ASSUME IInv, TypeOK', refused \subseteq refused', NEW p \in Prefills, Resend(p)
    PROVE  (\A s \in Prefills : InstanceOK(s)') /\ (\A r \in Requests : RequestOK(r)')
<1>1. PICK h \in Requests : h = calling[p] /\ Home(h) = p
  BY DEF Resend, IInv, TypeOK, InstanceOK
<1>2. /\ reply[p] = NoReply
      /\ \/ live[h] = 0 /\ faults' = faults /\ faulted' = faulted
         \/ faults' = faults + 1 /\ faulted' = faulted \union {h}
      /\ live' = [live EXCEPT ![h] = @ + 1]
      /\ retries' = [retries EXCEPT ![p] = @ + 1]
      /\ UNCHANGED <<arrived, online, offline, calling, reply, channel, remote, stale, ready, engine,
                     tasks, held, gen, received, by_instance, running, answers, crashed>>
  BY <1>1 DEF Resend, Fault, NoFault, prefillVars, decodeVars
<1>3. /\ live[h] \in Nat /\ live'[h] = live[h] + 1 /\ (\A x \in Requests : x # h => live'[x] = live[x])
      /\ retries[p] \in Nat /\ retries'[p] = retries[p] + 1
      /\ \A s \in Prefills : s # p => retries'[s] = retries[s]
      /\ faults \in Nat /\ faults' >= faults /\ RequestOK(h) /\ IsCalling(h)
  BY <1>1, <1>2, BoundsAssumption, SMTT(20), ZenonT(20) DEF IInv, TypeOK, IsCalling
<1>4. ASSUME NEW r \in Requests, r # h PROVE RequestOK(r)'
  <2>1. IsCalling(r) => Home(r) # p /\ Home(r) \in Prefills
    BY <1>1, <1>4, PrefillOfAssumption DEF IsCalling, Home
  <2>2. Untouched(r)
    BY <1>2, <1>3, <1>4, <2>1, PlacesKept DEF Untouched, SameService, SameCall, SameKept
  <2> QED BY <2>2, UntouchedOK
<1>5. RequestOK(h)'
  <2>1. /\ SamePlace(h) /\ (Queued(h)' <=> Queued(h)) /\ (Early(h)' <=> Early(h)) /\ (Placed(h)' <=> Placed(h))
        /\ gen[h] = "none"
    BY <1>2, <1>3, PlacesKept DEF RequestOK, OnePlace, Early
  <2>2. OnePlace(h)' /\ NotBegun(h)' /\ HasWhatItNeeds(h)'
    BY <1>2, <1>3, <2>1 DEF RequestOK, OnePlace, NotBegun, HasWhatItNeeds, SamePlace, Home
  <2>3. MessagesBounded(h)'
    BY <1>1, <1>2, <1>3, <2>1 DEF RequestOK, MessagesBounded, SamePlace, Home
  <2>4. h \in faulted' /\ faults' # 0
    BY <1>1, <1>2, <1>3 DEF RequestOK, Unhit, NoFaultYet, OneMessage
  <2>5. DecodedOnce(h)'
    BY <1>2, <1>3, <2>1 DEF RequestOK, DecodedOnce
  <2> QED BY <2>2, <2>3, <2>4, <2>5 DEF RequestOK, Unhit, NoFaultYet
<1>6. \A s \in Prefills : InstanceOK(s)'
  <2>1. \A s \in Prefills : calling[s] = None => s # p
    BY <1>1, ModesAssumption
  <2> QED BY <1>2, <1>3, <2>1 DEF IInv, InstanceOK, Home
<1> QED BY <1>4, <1>5, <1>6

-----------------------------------------------------------------------------
\* The steps that move one request.
Moves(h) ==
    \A s \in Prefills, x \in Requests : x # h =>
        /\ x \in Range(online'[s]) <=> x \in Range(online[s])
        /\ x \in Range(offline'[s]) <=> x \in Range(offline[s])
        /\ x \in Range(ready'[s]) <=> x \in Range(ready[s])
        /\ x \in Range(tasks'[s]) <=> x \in Range(tasks[s])
        /\ calling'[s] = x <=> calling[s] = x
        /\ engine'[s] = x <=> engine[s] = x

\* The others stay where they are.
LEMMA OthersStay ==
    ASSUME NEW h \in Requests, Moves(h), NEW r \in Requests, r # h
    PROVE  SamePlace(r)
BY PrefillOfAssumption DEF Moves, SamePlace, InOnline, InOffline, IsCalling, InReady, InEngine, InTasks, Home

\* A request arrives.
LEMMA AddRequestKeeps ==
    ASSUME IInv, TypeOK', refused \subseteq refused', NEW h \in Requests, AddRequest(h)
    PROVE  (\A s \in Prefills : InstanceOK(s)') /\ (\A r \in Requests : RequestOK(r)')
<1>1. PICK p \in Prefills : p = Home(h)
  BY PrefillOfAssumption DEF Home
<1>2. /\ h \notin arrived /\ p \notin crashed /\ arrived' = arrived \union {h} /\ Enqueue(p, h)
      /\ UNCHANGED <<calling, reply, retries, channel, remote, live, stale, ready, engine, tasks, held,
                     gen, received, by_instance, running, answers, crashed, faulted, faults>>
  BY <1>1 DEF AddRequest, netVars, prefillVars, decodeVars, faultVars, Home
<1>3. /\ \A s \in Prefills : s # p => online'[s] = online[s] /\ offline'[s] = offline[s]
      /\ Range(online'[p]) = IF h \in Offline THEN Range(online[p]) ELSE Range(online[p]) \union {h}
      /\ Range(offline'[p]) = IF h \in Offline THEN Range(offline[p]) \union {h} ELSE Range(offline[p])
      /\ IsInjective(online[p]) /\ h \notin Range(online[p]) => IsInjective(online'[p])
      /\ IsInjective(offline[p]) /\ h \notin Range(offline[p]) => IsInjective(offline'[p])
  BY <1>2, EnqueueEffect DEF IInv
<1>4. /\ RequestOK(h) /\ faults \in Nat /\ live[h] \in Nat
      /\ \A s \in Prefills : InstanceOK(s)
  BY BoundsAssumption DEF IInv, TypeOK
<1>5. /\ ~Placed(h) /\ received[h] = {} /\ stale[h] = 0 /\ gen[h] = "none" /\ running[h] = {}
      /\ answers[h] = 0 /\ live[h] = 0
  BY <1>2, <1>4 DEF RequestOK, OnePlace, NotBegun, MessagesBounded, Placed, Early
<1>6. ~InOnline(h) /\ ~InOffline(h) /\ ~IsCalling(h) /\ ~InReady(h) /\ ~InEngine(h) /\ ~InTasks(h)
  BY <1>5 DEF Placed, Early, Queued
<1>7. /\ (InOnline(h)' <=> h \notin Offline) /\ (InOffline(h)' <=> h \in Offline)
      /\ ~IsCalling(h)' /\ ~InReady(h)' /\ ~InEngine(h)' /\ ~InTasks(h)'
  BY <1>1, <1>2, <1>3, <1>6 DEF InOnline, InOffline, IsCalling, InReady, InEngine, InTasks, Home
<1>8. RequestOK(h)'
  <2>1. OnePlace(h)' /\ NotBegun(h)'
    BY <1>1, <1>2, <1>5, <1>7 DEF OnePlace, NotBegun, Placed, Early, Queued, Home
  <2>2. HasWhatItNeeds(h)' /\ MessagesBounded(h)'
    BY <1>2, <1>5, <1>7 DEF HasWhatItNeeds, MessagesBounded
  <2>3. Unhit(h)' /\ NoFaultYet(h)'
    BY <1>2, <1>5, <1>7 DEF Unhit, NoFaultYet
  <2>4. DecodedOnce(h)'
    BY <1>2, <1>5 DEF DecodedOnce
  <2> QED BY <2>1, <2>2, <2>3, <2>4 DEF RequestOK
<1>9. ASSUME NEW r \in Requests, r # h PROVE RequestOK(r)'
  <2>1. Moves(h)
    BY <1>2, <1>3 DEF Moves
  <2>2. Untouched(r)
    BY <1>2, <1>4, <1>9, <2>1, OthersStay DEF Untouched, SameService, SameCall, SameKept
  <2> QED BY <2>2, UntouchedOK
<1>10. ASSUME NEW s \in Prefills PROVE InstanceOK(s)'
  <2>2. CASE s # p
    BY <1>2, <1>3, <1>4, <2>2 DEF InstanceOK, Home
  <2>3. CASE s = p
    <3>1. h \notin Range(online[p]) /\ h \notin Range(offline[p])
      BY <1>1, <1>6 DEF InOnline, InOffline
    <3>2. QueueOK(p, online'[p]) /\ QueueOK(p, offline'[p])
      BY <1>1, <1>3, <1>4, <3>1 DEF InstanceOK, QueueOK
    <3> QED BY <1>2, <1>4, <2>3, <3>2 DEF InstanceOK, QueueOK, Home
  <2> QED BY <2>2, <2>3
<1> QED BY <1>8, <1>9, <1>10

\* No channel to the decode instance: the client is told.
LEMMA DispatchFailsKeeps ==
    ASSUME IInv, TypeOK', refused \subseteq refused', NEW p \in Prefills, DispatchFails(p)
    PROVE  (\A s \in Prefills : InstanceOK(s)') /\ (\A r \in Requests : RequestOK(r)')
<1>1. PICK h \in Requests : /\ Dequeued(p, h) /\ answers' = [answers EXCEPT ![h] = @ + 1]
                            /\ faults' = faults + 1 /\ faulted' = faulted \union {h}
  BY DEF DispatchFails, Fault, Answer
<1>2. UNCHANGED <<arrived, calling, reply, retries, channel, remote, live, stale, ready, engine, tasks,
                  held, gen, received, by_instance, running, crashed>>
  BY DEF DispatchFails, netVars, prefillVars, decodeVars
<1>3. /\ RequestOK(h) /\ faults \in Nat /\ answers[h] \in Nat /\ answers'[h] = answers[h] + 1
      /\ \A x \in Requests : x # h => answers'[x] = answers[x]
      /\ \A s \in Prefills : InstanceOK(s)
  BY <1>1, BoundsAssumption DEF IInv, TypeOK
<1>4. /\ h \in Range(online[p]) \union Range(offline[p])
      /\ \A s \in Prefills : s # p => online'[s] = online[s] /\ offline'[s] = offline[s]
      /\ IsInjective(online'[p]) /\ IsInjective(offline'[p])
      /\ \/ /\ h \in Range(online[p]) /\ Range(online'[p]) = Range(online[p]) \ {h}
            /\ Range(offline'[p]) = Range(offline[p])
         \/ /\ h \in Range(offline[p]) /\ Range(offline'[p]) = Range(offline[p]) \ {h}
            /\ Range(online'[p]) = Range(online[p])
  BY <1>1, <1>3, DequeuedEffect DEF IInv
<1>5. Home(h) = p
  BY <1>3, <1>4 DEF InstanceOK, QueueOK
<1>6. /\ Queued(h) /\ Placed(h) /\ Early(h) /\ ~IsCalling(h) /\ ~InReady(h) /\ ~InEngine(h) /\ ~InTasks(h)
      /\ (InOnline(h) => h \notin Offline) /\ (InOffline(h) => h \in Offline)
      /\ gen[h] = "none" /\ h \in arrived
  BY <1>3, <1>4, <1>5 DEF RequestOK, OnePlace, Queued, Placed, Early, InOnline, InOffline
<1>7. ~InOnline(h)' /\ ~InOffline(h)' /\ ~IsCalling(h)' /\ ~InReady(h)' /\ ~InEngine(h)' /\ ~InTasks(h)'
  BY <1>2, <1>4, <1>5, <1>6 DEF InOnline, InOffline, IsCalling, InReady, InEngine, InTasks, Home
<1>8. RequestOK(h)'
  <2>1. ~Placed(h)' /\ ~Early(h)' /\ ~Queued(h)'
    BY <1>7 DEF Placed, Early, Queued
  <2>2. OnePlace(h)' /\ NotBegun(h)'
    BY <1>2, <1>3, <1>6, <1>7, <2>1 DEF RequestOK, OnePlace, NotBegun
  <2>3. HasWhatItNeeds(h)' /\ MessagesBounded(h)'
    BY <1>2, <1>3, <1>6, <1>7 DEF RequestOK, HasWhatItNeeds, MessagesBounded
  <2>4. Unhit(h)' /\ NoFaultYet(h)'
    BY <1>1, <1>3 DEF Unhit, NoFaultYet
  <2>5. DecodedOnce(h)'
    BY <1>1, <1>2, <1>3, <1>6, <2>1 DEF RequestOK, DecodedOnce, NotBegun
  <2> QED BY <2>2, <2>3, <2>4, <2>5 DEF RequestOK
<1>9. ASSUME NEW r \in Requests, r # h PROVE RequestOK(r)'
  <2>1. Moves(h)
    BY <1>2, <1>4 DEF Moves
  <2>2. Untouched(r)
    BY <1>1, <1>2, <1>3, <1>9, <2>1, OthersStay DEF Untouched, SameService, SameCall, SameKept
  <2> QED BY <2>2, UntouchedOK
<1>10. ASSUME NEW s \in Prefills PROVE InstanceOK(s)'
  <2>1. CASE s # p
    BY <1>2, <1>3, <1>4, <2>1 DEF InstanceOK, Home
  <2>2. CASE s = p
    <3>1. QueueOK(p, online'[p]) /\ QueueOK(p, offline'[p])
      BY <1>3, <1>4 DEF InstanceOK, QueueOK
    <3> QED BY <1>2, <1>3, <2>2, <3>1 DEF InstanceOK, QueueOK, Home
  <2> QED BY <2>1, <2>2
<1> QED BY <1>8, <1>9, <1>10

\* The dispatch thread calls AddNewRequests: one message is under way.
LEMMA DispatchKeeps ==
    ASSUME IInv, TypeOK', refused \subseteq refused', NEW p \in Prefills, Dispatch(p)
    PROVE  (\A s \in Prefills : InstanceOK(s)') /\ (\A r \in Requests : RequestOK(r)')
<1>1. PICK h \in Requests : /\ Dequeued(p, h) /\ channel' = channel \union {h}
                            /\ calling' = [calling EXCEPT ![p] = h]
                            /\ live' = [live EXCEPT ![h] = 1]
  BY DEF Dispatch
<1>2. /\ calling[p] = None
      /\ UNCHANGED <<arrived, reply, retries, remote, stale, ready, engine, tasks, held, gen, received,
                     by_instance, running, answers, crashed, faulted, faults>>
  BY DEF Dispatch, prefillVars, decodeVars, faultVars
<1>3. /\ RequestOK(h) /\ faults \in Nat /\ live'[h] = 1 /\ (\A x \in Requests : x # h => live'[x] = live[x])
      /\ calling'[p] = h /\ (\A s \in Prefills : s # p => calling'[s] = calling[s])
      /\ \A s \in Prefills : InstanceOK(s)
  BY <1>1, BoundsAssumption DEF IInv, TypeOK
<1>4. /\ h \in Range(online[p]) \union Range(offline[p])
      /\ \A s \in Prefills : s # p => online'[s] = online[s] /\ offline'[s] = offline[s]
      /\ IsInjective(online'[p]) /\ IsInjective(offline'[p])
      /\ \/ /\ h \in Range(online[p]) /\ Range(online'[p]) = Range(online[p]) \ {h}
            /\ Range(offline'[p]) = Range(offline[p])
         \/ /\ h \in Range(offline[p]) /\ Range(offline'[p]) = Range(offline[p]) \ {h}
            /\ Range(online'[p]) = Range(online[p])
  BY <1>1, <1>3, DequeuedEffect DEF IInv
<1>5. Home(h) = p /\ reply[p] = NoReply /\ retries[p] = 0
  BY <1>2, <1>3, <1>4 DEF InstanceOK, QueueOK
<1>6. /\ Queued(h) /\ Placed(h) /\ Early(h) /\ ~IsCalling(h) /\ ~InReady(h) /\ ~InEngine(h) /\ ~InTasks(h)
      /\ (InOnline(h) => h \notin Offline) /\ (InOffline(h) => h \in Offline)
      /\ gen[h] = "none" /\ h \in arrived /\ p \notin crashed
  BY <1>3, <1>4, <1>5 DEF RequestOK, OnePlace, Queued, Placed, Early, InOnline, InOffline
<1>7. ~InOnline(h)' /\ ~InOffline(h)' /\ IsCalling(h)' /\ ~InReady(h)' /\ ~InEngine(h)' /\ ~InTasks(h)'
  BY <1>2, <1>3, <1>4, <1>5, <1>6 DEF InOnline, InOffline, IsCalling, InReady, InEngine, InTasks, Home
<1>8. RequestOK(h)'
  <2>1. Placed(h)' /\ Early(h)' /\ ~Queued(h)'
    BY <1>7 DEF Placed, Early, Queued
  <2>2. OnePlace(h)' /\ NotBegun(h)'
    BY <1>2, <1>3, <1>5, <1>6, <1>7, <2>1 DEF RequestOK, OnePlace, NotBegun, Home
  <2>3. HasWhatItNeeds(h)' /\ MessagesBounded(h)'
    BY <1>1, <1>2, <1>3, <1>5, <1>7 DEF HasWhatItNeeds, MessagesBounded, NoReply, Home
  <2>4. OneMessage(h)'
    BY <1>2, <1>3, <1>5 DEF OneMessage, Home
  <2>5. Unhit(h)' /\ NoFaultYet(h)'
    BY <1>2, <1>3, <1>6, <1>7, <2>1, <2>4 DEF RequestOK, Unhit, NoFaultYet, Home
  <2>6. DecodedOnce(h)'
    BY <1>2, <1>3, <1>6 DEF RequestOK, DecodedOnce
  <2> QED BY <2>2, <2>3, <2>5, <2>6 DEF RequestOK
<1>9. ASSUME NEW r \in Requests, r # h PROVE RequestOK(r)'
  <2>1. Moves(h)
    BY <1>2, <1>3, <1>4, ModesAssumption DEF Moves
  <2>2. Untouched(r)
    BY <1>1, <1>2, <1>3, <1>9, <2>1, OthersStay DEF Untouched, SameService, SameCall, SameKept
  <2> QED BY <2>2, UntouchedOK
<1>10. ASSUME NEW s \in Prefills PROVE InstanceOK(s)'
  <2>1. CASE s # p
    BY <1>2, <1>3, <1>4, <2>1 DEF InstanceOK, Home
  <2>2. CASE s = p
    <3>1. QueueOK(p, online'[p]) /\ QueueOK(p, offline'[p])
      BY <1>3, <1>4 DEF InstanceOK, QueueOK
    <3> QED BY <1>2, <1>3, <1>5, <2>2, <3>1 DEF InstanceOK, QueueOK, Home
  <2> QED BY <2>1, <2>2
<1> QED BY <1>8, <1>9, <1>10

\* The end of the call of h: its messages that are under way belong to no call.
CallEnds(p, h) ==
    /\ h = calling[p] /\ Home(h) = p /\ IsCalling(h) /\ h \in arrived /\ gen[h] = "none"
    /\ ~InOnline(h) /\ ~InOffline(h) /\ ~InReady(h) /\ ~InEngine(h) /\ ~InTasks(h)
    /\ Placed(h) /\ p \notin crashed
    /\ calling'[p] = None /\ (\A s \in Prefills : s # p => calling'[s] = calling[s])
    /\ reply'[p] = NoReply /\ (\A s \in Prefills : s # p => reply'[s] = reply[s])
    /\ retries'[p] = 0 /\ (\A s \in Prefills : s # p => retries'[s] = retries[s])
    /\ live[h] \in Nat /\ stale[h] \in Nat
    /\ live'[h] = 0 /\ (\A x \in Requests : x # h => live'[x] = live[x])
    /\ stale'[h] = stale[h] + live[h] /\ (\A x \in Requests : x # h => stale'[x] = stale[x])

\* EndCall ends the call of a request of the instance, which is nowhere else.
LEMMA EndCallEffect ==
    ASSUME IInv, NEW p \in Prefills, calling[p] # None, EndCall(p)
    PROVE  \E h \in Requests : CallEnds(p, h)
<1>1. PICK h \in Requests : h = calling[p] /\ Home(h) = p
  BY DEF IInv, TypeOK, InstanceOK
<1>2. RequestOK(h) /\ IsCalling(h)
  BY <1>1 DEF IInv, IsCalling
<1>3. /\ h \in arrived /\ gen[h] = "none" /\ Placed(h) /\ p \notin crashed
      /\ ~InOnline(h) /\ ~InOffline(h) /\ ~InReady(h) /\ ~InEngine(h) /\ ~InTasks(h)
  BY <1>1, <1>2 DEF RequestOK, OnePlace, Placed, Early, Queued
<1>4. /\ calling'[p] = None /\ (\A s \in Prefills : s # p => calling'[s] = calling[s])
      /\ reply'[p] = NoReply /\ (\A s \in Prefills : s # p => reply'[s] = reply[s])
      /\ retries'[p] = 0 /\ (\A s \in Prefills : s # p => retries'[s] = retries[s])
  BY DEF EndCall, IInv, TypeOK
<1>5. /\ live[h] \in Nat /\ stale[h] \in Nat
      /\ live'[h] = 0 /\ (\A x \in Requests : x # h => live'[x] = live[x])
      /\ stale'[h] = stale[h] + live[h] /\ (\A x \in Requests : x # h => stale'[x] = stale[x])
  BY <1>1, BoundsAssumption DEF EndCall, IInv, TypeOK
<1> QED BY <1>1, <1>2, <1>3, <1>4, <1>5 DEF CallEnds

\* The other requests when a call ends: their calls are on other instances.
LEMMA OtherCalls ==
    ASSUME NEW p \in Prefills, NEW h \in Requests, h = calling[p], NEW r \in Requests, r # h, IsCalling(r)
    PROVE  Home(r) # p /\ Home(r) \in Prefills
BY PrefillOfAssumption DEF IsCalling, Home

\* 200: the blocks of the answer are still the reserved ones, by HasWhatItNeeds,
\* and the message of a request that no fault has hit was served, by OneMessage.
LEMMA CallAcceptedKeeps ==
    ASSUME IInv, TypeOK', refused \subseteq refused', NEW p \in Prefills, CallAccepted(p)
    PROVE  (\A s \in Prefills : InstanceOK(s)') /\ (\A r \in Requests : RequestOK(r)')
<1>0. calling[p] # None /\ EndCall(p)
  BY DEF CallAccepted
<1>1. PICK h \in Requests : CallEnds(p, h)
  BY <1>0, EndCallEffect
<1> USE DEF CallEnds
<1>2. /\ reply[p].code = 200 /\ remote' = [remote EXCEPT ![h] = reply[p].blocks]
      /\ ready' = [ready EXCEPT ![p] = Append(@, h)]
      /\ UNCHANGED <<arrived, online, offline, channel, engine, tasks, held, gen, received, by_instance,
                     running, answers, crashed, faulted, faults>>
  BY <1>1 DEF CallAccepted, decodeVars, faultVars
<1>3. /\ remote'[h] = reply[p].blocks /\ (\A x \in Requests : x # h => remote'[x] = remote[x])
      /\ RequestOK(h) /\ faults \in Nat /\ h # None
      /\ \A s \in Prefills : InstanceOK(s)
  BY <1>2, BoundsAssumption, ModesAssumption, SMTT(20), ZenonT(20) DEF IInv, TypeOK
<1>4. /\ Range(ready'[p]) = Range(ready[p]) \union {h} /\ IsInjective(ready'[p])
      /\ \A s \in Prefills : s # p => ready'[s] = ready[s]
  <2>1. ready \in [Prefills -> Seq(Requests)] /\ ready[p] \in Seq(Requests)
    BY DEF IInv, TypeOK
  <2>2. h \notin Range(ready[p]) /\ IsInjective(ready[p])
    BY <1>1, <1>3 DEF InReady, InstanceOK, QueueOK
  <2>3. /\ Range(Append(ready[p], h)) = Range(ready[p]) \union {h}
        /\ IsInjective(Append(ready[p], h))
    BY <2>1, <2>2, AppendQueue
  <2> QED BY <1>2, <2>1, <2>3
<1>5. ~InOnline(h)' /\ ~InOffline(h)' /\ ~IsCalling(h)' /\ InReady(h)' /\ ~InEngine(h)' /\ ~InTasks(h)'
  BY <1>1, <1>2, <1>3, <1>4 DEF InOnline, InOffline, IsCalling, InReady, InEngine, InTasks, Home
<1>6. RequestOK(h)'
  <2>1. Placed(h)' /\ Early(h)' /\ ~Queued(h)'
    BY <1>5 DEF Placed, Early, Queued
  <2>2. OnePlace(h)' /\ NotBegun(h)'
    BY <1>1, <1>2, <1>3, <1>5, <2>1 DEF RequestOK, OnePlace, NotBegun, Home
  <2>3. HasWhatItNeeds(h)' /\ MessagesBounded(h)'
    BY <1>1, <1>2, <1>3, <1>5 DEF RequestOK, HasWhatItNeeds, MessagesBounded, Home
  <2>4. OneMessage(h) => live[h] = 0
    BY <1>1, <1>2 DEF OneMessage, NoReply
  <2>5. Unhit(h)'
    BY <1>1, <1>2, <1>3, <1>5, <2>1, <2>4 DEF RequestOK, Unhit
  <2>6. NoFaultYet(h)'
    BY <1>1, <1>2, <1>3, <1>5, <2>1, <2>4 DEF RequestOK, NoFaultYet, Home
  <2>7. DecodedOnce(h)'
    BY <1>1, <1>2, <1>3 DEF RequestOK, DecodedOnce
  <2> QED BY <2>2, <2>3, <2>5, <2>6, <2>7 DEF RequestOK
<1>7. ASSUME NEW r \in Requests, r # h PROVE RequestOK(r)'
  <2>1. Moves(h)
    BY <1>1, <1>2, <1>4, ModesAssumption DEF Moves
  <2>2. Untouched(r)
    BY <1>1, <1>2, <1>3, <1>7, <2>1, OthersStay, OtherCalls DEF Untouched, SameService, SameCall, SameKept
  <2> QED BY <2>2, UntouchedOK
<1>8. ASSUME NEW s \in Prefills PROVE InstanceOK(s)'
  <2>1. CASE s # p
    BY <1>1, <1>2, <1>3, <1>4, <2>1 DEF InstanceOK, Home
  <2>2. CASE s = p
    <3>1. QueueOK(p, ready'[p])
      BY <1>1, <1>3, <1>4 DEF InstanceOK, QueueOK
    <3> QED BY <1>1, <1>2, <1>3, <2>2, <3>1, ModesAssumption DEF InstanceOK, QueueOK, Home
  <2> QED BY <2>1, <2>2
<1> QED BY <1>6, <1>7, <1>8

\* Another code: the request is queued again, without a reservation unless a
\* fault hit it.
LEMMA CallRejectedKeeps ==
    ASSUME IInv, TypeOK', refused \subseteq refused', NEW p \in Prefills, CallRejected(p)
    PROVE  (\A s \in Prefills : InstanceOK(s)') /\ (\A r \in Requests : RequestOK(r)')
<1>0. calling[p] # None /\ EndCall(p)
  BY DEF CallRejected
<1>1. PICK h \in Requests : CallEnds(p, h)
  BY <1>0, EndCallEffect
<1> USE DEF CallEnds
<1>2. /\ reply[p].code \in {404, 500} /\ Enqueue(p, h)
      /\ UNCHANGED <<arrived, channel, remote, ready, engine, tasks, held, gen, received, by_instance,
                     running, answers, crashed, faulted, faults>>
  BY <1>1 DEF CallRejected, prefillVars, decodeVars, faultVars
<1>3. /\ RequestOK(h) /\ faults \in Nat /\ h # None
      /\ \A s \in Prefills : InstanceOK(s)
  <2>1. TypeOK /\ RequestOK(h) /\ (\A s \in Prefills : InstanceOK(s))
    BY DEF IInv
  <2>2. faults \in Nat
    BY <2>1, BoundsAssumption DEF TypeOK
  <2> QED BY <2>1, <2>2, ModesAssumption
<1>4. /\ \A s \in Prefills : s # p => online'[s] = online[s] /\ offline'[s] = offline[s]
      /\ Range(online'[p]) = IF h \in Offline THEN Range(online[p]) ELSE Range(online[p]) \union {h}
      /\ Range(offline'[p]) = IF h \in Offline THEN Range(offline[p]) \union {h} ELSE Range(offline[p])
      /\ IsInjective(online[p]) /\ h \notin Range(online[p]) => IsInjective(online'[p])
      /\ IsInjective(offline[p]) /\ h \notin Range(offline[p]) => IsInjective(offline'[p])
  <2>1. TypeOK /\ Enqueue(p, h)
    BY <1>2 DEF IInv
  <2> QED BY <2>1, EnqueueEffect
<1>5. /\ (InOnline(h)' <=> h \notin Offline) /\ (InOffline(h)' <=> h \in Offline)
      /\ ~IsCalling(h)' /\ ~InReady(h)' /\ ~InEngine(h)' /\ ~InTasks(h)'
  BY <1>1, <1>2, <1>3, <1>4 DEF InOnline, InOffline, IsCalling, InReady, InEngine, InTasks, Home
<1>6. RequestOK(h)'
  <2>1. Placed(h)' /\ Early(h)' /\ Queued(h)'
    BY <1>5 DEF Placed, Early, Queued
  <2>2. OnePlace(h)' /\ NotBegun(h)'
    BY <1>1, <1>2, <1>3, <1>5, <2>1 DEF RequestOK, OnePlace, NotBegun, Home
  <2>3. HasWhatItNeeds(h)' /\ MessagesBounded(h)'
    BY <1>1, <1>5 DEF HasWhatItNeeds, MessagesBounded
  <2>4. OneMessage(h) => live[h] = 0
    BY <1>1, <1>2 DEF OneMessage, NoReply
  <2>5. Unhit(h)'
    BY <1>1, <1>2, <1>3, <1>5, <2>1, <2>4 DEF RequestOK, Unhit
  <2>6. NoFaultYet(h)'
    BY <1>1, <1>2, <1>3, <1>5, <2>1, <2>4 DEF RequestOK, NoFaultYet, Home
  <2>7. DecodedOnce(h)'
    BY <1>1, <1>2, <1>3 DEF RequestOK, DecodedOnce
  <2> QED BY <2>2, <2>3, <2>5, <2>6, <2>7 DEF RequestOK
<1>7. ASSUME NEW r \in Requests, r # h PROVE RequestOK(r)'
  <2>1. Moves(h)
    BY <1>1, <1>2, <1>4, ModesAssumption DEF Moves
  <2>2. Untouched(r)
    BY <1>1, <1>2, <1>3, <1>7, <2>1, OthersStay, OtherCalls DEF Untouched, SameService, SameCall, SameKept
  <2> QED BY <2>2, UntouchedOK
<1>8. ASSUME NEW s \in Prefills PROVE InstanceOK(s)'
  <2>1. CASE s # p
    BY <1>1, <1>2, <1>3, <1>4, <2>1 DEF InstanceOK, Home
  <2>2. CASE s = p
    <3>1. h \notin Range(online[p]) /\ h \notin Range(offline[p])
      BY <1>1 DEF InOnline, InOffline
    <3>2. QueueOK(p, online'[p]) /\ QueueOK(p, offline'[p])
      BY <1>1, <1>3, <1>4, <3>1 DEF InstanceOK, QueueOK
    <3> QED BY <1>1, <1>2, <1>3, <2>2, <3>2, ModesAssumption DEF InstanceOK, QueueOK, Home
  <2> QED BY <2>1, <2>2
<1> QED BY <1>6, <1>7, <1>8

\* cntl.Failed(): the client is told.  A fault has hit the request, for without
\* one there is a message under way or its answer, by OneMessage.
LEMMA CallFailedKeeps ==
    ASSUME IInv, TypeOK', refused \subseteq refused', NEW p \in Prefills, CallFailed(p)
    PROVE  (\A s \in Prefills : InstanceOK(s)') /\ (\A r \in Requests : RequestOK(r)')
<1>0. calling[p] # None /\ EndCall(p)
  BY DEF CallFailed
<1>1. PICK h \in Requests : CallEnds(p, h)
  BY <1>0, EndCallEffect
<1> USE DEF CallEnds
<1>2. /\ reply[p] = NoReply /\ channel' = channel \ {h} /\ answers' = [answers EXCEPT ![h] = @ + 1]
      /\ \/ live[h] = 0 /\ faults' = faults /\ faulted' = faulted
         \/ faults' = faults + 1 /\ faulted' = faulted \union {h}
      /\ UNCHANGED <<arrived, online, offline, remote, ready, engine, tasks, held, gen, received,
                     by_instance, running, crashed>>
  BY <1>1 DEF CallFailed, Fault, NoFault, Answer, prefillVars, decodeVars
<1>3. /\ RequestOK(h) /\ faults \in Nat /\ faults' >= faults /\ h # None
      /\ answers[h] \in Nat /\ answers'[h] = answers[h] + 1
      /\ \A x \in Requests : x # h => answers'[x] = answers[x]
      /\ \A s \in Prefills : InstanceOK(s)
  <2>1. TypeOK /\ RequestOK(h) /\ (\A s \in Prefills : InstanceOK(s)) /\ h # None
    BY ModesAssumption DEF IInv
  <2>2. faults \in Nat /\ faults' >= faults
    BY <1>2, <2>1, BoundsAssumption DEF TypeOK
  <2>3. /\ answers[h] \in Nat /\ answers'[h] = answers[h] + 1
        /\ \A x \in Requests : x # h => answers'[x] = answers[x]
    BY <1>2, <2>1 DEF TypeOK
  <2> QED BY <2>1, <2>2, <2>3
<1>4. ~InOnline(h)' /\ ~InOffline(h)' /\ ~IsCalling(h)' /\ ~InReady(h)' /\ ~InEngine(h)' /\ ~InTasks(h)'
  BY <1>1, <1>2, <1>3 DEF InOnline, InOffline, IsCalling, InReady, InEngine, InTasks, Home
<1>5. h \in faulted' /\ faults' # 0
  <2>1. OneMessage(h) => live[h] # 0
    BY <1>1, <1>2 DEF OneMessage
  <2> QED BY <1>1, <1>2, <1>3, <2>1 DEF RequestOK, Unhit, NoFaultYet
<1>6. RequestOK(h)'
  <2>1. ~Placed(h)' /\ ~Early(h)' /\ ~Queued(h)'
    BY <1>4 DEF Placed, Early, Queued
  <2>2. OnePlace(h)' /\ NotBegun(h)'
    BY <1>1, <1>2, <1>3, <1>4, <2>1 DEF RequestOK, OnePlace, NotBegun
  <2>3. HasWhatItNeeds(h)' /\ MessagesBounded(h)'
    BY <1>1, <1>4 DEF HasWhatItNeeds, MessagesBounded
  <2>4. Unhit(h)' /\ NoFaultYet(h)'
    BY <1>5 DEF Unhit, NoFaultYet
  <2>5. DecodedOnce(h)'
    BY <1>1, <1>2, <1>3, <2>1 DEF RequestOK, DecodedOnce, NotBegun
  <2> QED BY <2>2, <2>3, <2>4, <2>5 DEF RequestOK
<1>7. ASSUME NEW r \in Requests, r # h PROVE RequestOK(r)'
  <2>1. Moves(h)
    BY <1>1, <1>2, ModesAssumption DEF Moves
  <2>2. Untouched(r)
    BY <1>1, <1>2, <1>3, <1>7, <2>1, OthersStay, OtherCalls DEF Untouched, SameService, SameCall, SameKept
  <2> QED BY <2>2, UntouchedOK
<1>8. ASSUME NEW s \in Prefills PROVE InstanceOK(s)'
  BY <1>1, <1>2, <1>3, ModesAssumption DEF InstanceOK, QueueOK, Home
<1> QED BY <1>6, <1>7, <1>8

-----------------------------------------------------------------------------
\* The scheduler thread takes the first request that is ready.
LEMMA PrefillBeginKeeps ==
    ASSUME IInv, TypeOK', refused \subseteq refused', NEW p \in Prefills, PrefillBegin(p)
    PROVE  (\A s \in Prefills : InstanceOK(s)') /\ (\A r \in Requests : RequestOK(r)')
<1>0. /\ engine[p] = None /\ ready[p] # <<>> /\ ready[p] \in Seq(Requests) /\ IsInjective(ready[p])
      /\ \A x \in Range(ready[p]) : Home(x) = p
  BY DEF PrefillBegin, IInv, TypeOK, InstanceOK, QueueOK
<1>1. PICK h \in Requests :
        /\ h = Head(ready[p]) /\ h \in Range(ready[p]) /\ Home(h) = p /\ InReady(h)
        /\ IsInjective(Tail(ready[p])) /\ Range(Tail(ready[p])) = Range(ready[p]) \ {h}
  BY <1>0, TakeHead DEF InReady
<1>2. /\ engine' = [engine EXCEPT ![p] = h] /\ ready' = [ready EXCEPT ![p] = Tail(@)]
      /\ held' = held \union {h}
      /\ UNCHANGED <<arrived, online, offline, calling, reply, retries, channel, remote, live, stale,
                     tasks, gen, received, by_instance, running, answers, crashed, faulted, faults>>
  BY <1>1 DEF PrefillBegin, dispatchVars, netVars, decodeVars, faultVars
<1>3. /\ engine'[p] = h /\ (\A s \in Prefills : s # p => engine'[s] = engine[s] /\ ready'[s] = ready[s])
      /\ ready'[p] = Tail(ready[p])
  BY <1>2 DEF IInv, TypeOK
<1>4. /\ RequestOK(h) /\ faults \in Nat /\ live[h] \in Nat /\ h # None
      /\ \A s \in Prefills : InstanceOK(s)
  BY BoundsAssumption, ModesAssumption, SMTT(20), ZenonT(20) DEF IInv, TypeOK
<1>5. /\ ~Queued(h) /\ Placed(h) /\ Early(h) /\ ~IsCalling(h) /\ ~InEngine(h) /\ ~InTasks(h)
      /\ ~InOnline(h) /\ ~InOffline(h)
      /\ gen[h] = "none" /\ h \in arrived /\ p \notin crashed
  BY <1>1, <1>4 DEF RequestOK, OnePlace, Queued, Placed, Early
<1>6. ~InOnline(h)' /\ ~InOffline(h)' /\ ~IsCalling(h)' /\ ~InReady(h)' /\ InEngine(h)' /\ ~InTasks(h)'
  BY <1>1, <1>2, <1>3, <1>5 DEF InOnline, InOffline, IsCalling, InReady, InEngine, InTasks, Home
<1>7. RequestOK(h)'
  <2>1. Placed(h)' /\ Early(h)' /\ ~Queued(h)'
    BY <1>6 DEF Placed, Early, Queued
  <2>2. OnePlace(h)' /\ NotBegun(h)'
    BY <1>1, <1>2, <1>4, <1>5, <1>6, <2>1 DEF RequestOK, OnePlace, NotBegun, Home
  <2>3. HasWhatItNeeds(h)' /\ MessagesBounded(h)'
    BY <1>1, <1>2, <1>4, <1>5, <1>6 DEF RequestOK, HasWhatItNeeds, MessagesBounded, Home
  <2>4. Unhit(h)' /\ NoFaultYet(h)'
    BY <1>2, <1>4, <1>5, <1>6, <2>1 DEF RequestOK, Unhit, NoFaultYet, Home
  <2>5. DecodedOnce(h)'
    BY <1>2, <1>4, <1>5, <2>1 DEF RequestOK, DecodedOnce
  <2> QED BY <2>2, <2>3, <2>4, <2>5 DEF RequestOK
<1>8. ASSUME NEW r \in Requests, r # h PROVE RequestOK(r)'
  <2>1. Moves(h)
    BY <1>0, <1>1, <1>2, <1>3, ModesAssumption DEF Moves
  <2>2. Untouched(r)
    BY <1>2, <1>4, <1>8, <2>1, OthersStay DEF Untouched, SameService, SameCall, SameKept
  <2> QED BY <2>2, UntouchedOK
<1>9. ASSUME NEW s \in Prefills PROVE InstanceOK(s)'
  <2>1. CASE s # p
    BY <1>2, <1>3, <1>4, <2>1 DEF InstanceOK, Home
  <2>2. CASE s = p
    <3>1. QueueOK(p, ready'[p])
      BY <1>0, <1>1, <1>3 DEF QueueOK
    <3> QED BY <1>1, <1>2, <1>3, <1>4, <2>2, <3>1 DEF InstanceOK, QueueOK, Home
  <2> QED BY <2>1, <2>2
<1> QED BY <1>7, <1>8, <1>9

\* The first request that is ready is failed: it is in no place any more and its
\* client has its answer; the reservation and the stub stay.
LEMMA PrefillFailsKeeps ==
    ASSUME IInv, TypeOK', NEW p \in Prefills, PrefillFails(p)
    PROVE  (\A s \in Prefills : InstanceOK(s)') /\ (\A r \in Requests : RequestOK(r)')
<1>0. /\ engine[p] = None /\ ready[p] # <<>> /\ ready[p] \in Seq(Requests) /\ IsInjective(ready[p])
      /\ \A x \in Range(ready[p]) : Home(x) = p
  BY DEF PrefillFails, IInv, TypeOK, InstanceOK, QueueOK
<1>1. PICK h \in Requests :
        /\ h = Head(ready[p]) /\ h \in Range(ready[p]) /\ Home(h) = p /\ InReady(h)
        /\ IsInjective(Tail(ready[p])) /\ Range(Tail(ready[p])) = Range(ready[p]) \ {h}
  BY <1>0, TakeHead DEF InReady
<1>2. /\ ready' = [ready EXCEPT ![p] = Tail(@)] /\ refused' = refused \union {h}
      /\ answers' = [answers EXCEPT ![h] = @ + 1]
      /\ UNCHANGED <<arrived, online, offline, calling, reply, retries, channel, remote, live, stale,
                     engine, tasks, held, gen, received, by_instance, running, crashed, faulted, faults>>
  BY <1>1 DEF PrefillFails, Answer, dispatchVars, netVars, decodeVars, faultVars
<1>3. /\ \A s \in Prefills : s # p => ready'[s] = ready[s]
      /\ ready'[p] = Tail(ready[p])
  BY <1>2 DEF IInv, TypeOK
<1>4. /\ RequestOK(h) /\ faults \in Nat /\ live[h] \in Nat /\ h # None
      /\ answers[h] \in Nat /\ answers'[h] = answers[h] + 1
      /\ \A r \in Requests : r # h => answers'[r] = answers[r]
      /\ \A s \in Prefills : InstanceOK(s)
  BY <1>2, BoundsAssumption, ModesAssumption, SMTT(20), ZenonT(20) DEF IInv, TypeOK
<1>5. /\ ~Queued(h) /\ Placed(h) /\ Early(h) /\ ~IsCalling(h) /\ ~InEngine(h) /\ ~InTasks(h)
      /\ ~InOnline(h) /\ ~InOffline(h)
      /\ gen[h] = "none" /\ h \in arrived /\ p \notin crashed
  BY <1>1, <1>4 DEF RequestOK, OnePlace, Queued, Placed, Early
<1>6. ~InOnline(h)' /\ ~InOffline(h)' /\ ~IsCalling(h)' /\ ~InReady(h)' /\ ~InEngine(h)' /\ ~InTasks(h)'
  BY <1>1, <1>2, <1>3, <1>5 DEF InOnline, InOffline, IsCalling, InReady, InEngine, InTasks, Home
<1>7. RequestOK(h)'
  <2>1. ~Placed(h)' /\ ~Early(h)' /\ ~Queued(h)'
    BY <1>6 DEF Placed, Early, Queued
  <2>2. OnePlace(h)' /\ NotBegun(h)'
    BY <1>2, <1>4, <1>5, <1>6, <2>1 DEF RequestOK, OnePlace, NotBegun
  <2>3. HasWhatItNeeds(h)' /\ MessagesBounded(h)'
    BY <1>2, <1>4, <1>5, <1>6 DEF RequestOK, HasWhatItNeeds, MessagesBounded, Home
  <2>4. Unhit(h)' /\ NoFaultYet(h)'
    BY <1>2, <1>4, <1>5, <1>6, <2>1 DEF RequestOK, Unhit, NoFaultYet, Home
  <2>5. DecodedOnce(h)'
    <3>1. running[h] = {}
      BY <1>4, <1>5 DEF RequestOK, NotBegun
    <3> QED BY <1>2, <1>4, <1>5, <2>1, <3>1 DEF RequestOK, DecodedOnce
  <2> QED BY <2>2, <2>3, <2>4, <2>5 DEF RequestOK
<1>8. ASSUME NEW r \in Requests, r # h PROVE RequestOK(r)'
  <2>1. Moves(h)
    BY <1>0, <1>1, <1>2, <1>3 DEF Moves
  <2>2. Untouched(r)
    BY <1>2, <1>4, <1>8, <2>1, OthersStay DEF Untouched, SameService, SameCall, SameKept
  <2>3. refused \subseteq refused'
    BY <1>2
  <2> QED BY <2>2, <2>3, UntouchedOK
<1>9. ASSUME NEW s \in Prefills PROVE InstanceOK(s)'
  <2>1. CASE s # p
    BY <1>2, <1>3, <1>4, <2>1 DEF InstanceOK, Home
  <2>2. CASE s = p
    <3>1. QueueOK(p, ready'[p])
      BY <1>0, <1>1, <1>3 DEF QueueOK
    <3> QED BY <1>1, <1>2, <1>3, <1>4, <2>2, <3>1 DEF InstanceOK, QueueOK, Home
  <2> QED BY <2>1, <2>2
<1> QED BY <1>7, <1>8, <1>9

\* The prefilled request becomes a task of the pool thread.
LEMMA PrefillEndKeeps ==
    ASSUME IInv, TypeOK', refused \subseteq refused', NEW p \in Prefills, PrefillEnd(p)
    PROVE  (\A s \in Prefills : InstanceOK(s)') /\ (\A r \in Requests : RequestOK(r)')
<1>1. PICK h \in Requests : h = engine[p] /\ Home(h) = p /\ InEngine(h)
  BY DEF PrefillEnd, IInv, TypeOK, InstanceOK, InEngine
<1>2. /\ engine' = [engine EXCEPT ![p] = None] /\ tasks' = [tasks EXCEPT ![p] = Append(@, h)]
      /\ UNCHANGED <<arrived, online, offline, calling, reply, retries, channel, remote, live, stale,
                     ready, held, gen, received, by_instance, running, answers, crashed, faulted, faults>>
  BY <1>1 DEF PrefillEnd, dispatchVars, netVars, decodeVars, faultVars
<1>3. /\ RequestOK(h) /\ faults \in Nat /\ live[h] \in Nat /\ h # None
      /\ \A s \in Prefills : InstanceOK(s)
  BY BoundsAssumption, ModesAssumption, SMTT(20), ZenonT(20) DEF IInv, TypeOK
<1>4. /\ ~Queued(h) /\ Placed(h) /\ Early(h) /\ ~IsCalling(h) /\ ~InReady(h) /\ ~InTasks(h)
      /\ ~InOnline(h) /\ ~InOffline(h)
      /\ gen[h] = "none" /\ h \in arrived /\ p \notin crashed
  BY <1>1, <1>3 DEF RequestOK, OnePlace, Queued, Placed, Early
<1>5. /\ engine'[p] = None /\ (\A s \in Prefills : s # p => engine'[s] = engine[s] /\ tasks'[s] = tasks[s])
      /\ Range(tasks'[p]) = Range(tasks[p]) \union {h} /\ IsInjective(tasks'[p])
  <2>1. /\ tasks \in [Prefills -> Seq(Requests)] /\ tasks[p] \in Seq(Requests)
        /\ engine'[p] = None /\ (\A s \in Prefills : s # p => engine'[s] = engine[s])
    BY <1>2 DEF IInv, TypeOK
  <2>2. h \notin Range(tasks[p]) /\ IsInjective(tasks[p])
    BY <1>1, <1>3, <1>4 DEF InTasks, InstanceOK, QueueOK
  <2>3. Range(Append(tasks[p], h)) = Range(tasks[p]) \union {h} /\ IsInjective(Append(tasks[p], h))
    BY <2>1, <2>2, AppendQueue
  <2> QED BY <1>2, <2>1, <2>3
<1>6. ~InOnline(h)' /\ ~InOffline(h)' /\ ~IsCalling(h)' /\ ~InReady(h)' /\ ~InEngine(h)' /\ InTasks(h)'
  BY <1>1, <1>2, <1>5, <1>3, <1>4 DEF InOnline, InOffline, IsCalling, InReady, InEngine, InTasks, Home
<1>7. RequestOK(h)'
  <2>1. Placed(h)' /\ ~Early(h)' /\ ~Queued(h)'
    BY <1>6 DEF Placed, Early, Queued
  <2>2. OnePlace(h)' /\ NotBegun(h)'
    BY <1>1, <1>2, <1>3, <1>4, <1>6, <2>1 DEF RequestOK, OnePlace, NotBegun, Home
  <2>3. HasWhatItNeeds(h)' /\ MessagesBounded(h)'
    BY <1>1, <1>2, <1>3, <1>4, <1>6 DEF RequestOK, HasWhatItNeeds, MessagesBounded, Home
  <2>4. Unhit(h)' /\ NoFaultYet(h)'
    BY <1>2, <1>3, <1>4, <1>6, <2>1 DEF RequestOK, Unhit, NoFaultYet, Home
  <2>5. DecodedOnce(h)'
    BY <1>2, <1>3, <1>4, <2>1 DEF RequestOK, DecodedOnce
  <2> QED BY <2>2, <2>3, <2>4, <2>5 DEF RequestOK
<1>8. ASSUME NEW r \in Requests, r # h PROVE RequestOK(r)'
  <2>1. Moves(h)
    BY <1>1, <1>2, <1>5, ModesAssumption DEF Moves
  <2>2. Untouched(r)
    BY <1>2, <1>3, <1>8, <2>1, OthersStay DEF Untouched, SameService, SameCall, SameKept
  <2> QED BY <2>2, UntouchedOK
<1>9. ASSUME NEW s \in Prefills PROVE InstanceOK(s)'
  <2>1. CASE s # p
    BY <1>2, <1>5, <1>3, <2>1 DEF InstanceOK, Home
  <2>2. CASE s = p
    <3>1. QueueOK(p, tasks'[p])
      BY <1>1, <1>5, <1>3 DEF InstanceOK, QueueOK
    <3> QED BY <1>1, <1>2, <1>5, <1>3, <2>2, <3>1, ModesAssumption DEF InstanceOK, QueueOK, Home
  <2> QED BY <2>1, <2>2
<1> QED BY <1>7, <1>8, <1>9

\* The call returns or times out: the instance forgets the request.
LEMMA FirstGenerationReturnsKeeps ==
    ASSUME IInv, TypeOK', refused \subseteq refused', NEW p \in Prefills, FirstGenerationReturns(p)
    PROVE  (\A s \in Prefills : InstanceOK(s)') /\ (\A r \in Requests : RequestOK(r)')
<1>0. /\ tasks[p] # <<>> /\ tasks[p] \in Seq(Requests) /\ IsInjective(tasks[p])
      /\ \A x \in Range(tasks[p]) : Home(x) = p
  BY DEF FirstGenerationReturns, IInv, TypeOK, InstanceOK, QueueOK
<1>1. PICK h \in Requests :
        /\ h = Head(tasks[p]) /\ h \in Range(tasks[p]) /\ Home(h) = p /\ InTasks(h)
        /\ IsInjective(Tail(tasks[p])) /\ Range(Tail(tasks[p])) = Range(tasks[p]) \ {h}
  BY <1>0, TakeHead DEF InTasks
<1>2. /\ tasks' = [tasks EXCEPT ![p] = Tail(@)] /\ channel' = channel \ {h} /\ held' = held \ {h}
      /\ \/ gen[h] = "done" /\ faults' = faults /\ faulted' = faulted
         \/ faults' = faults + 1 /\ faulted' = faulted \union {h}
      /\ UNCHANGED <<arrived, online, offline, calling, reply, retries, remote, live, stale, ready,
                     engine, gen, received, by_instance, running, answers, crashed>>
  BY <1>1 DEF FirstGenerationReturns, Fault, NoFault, netVars, decodeVars
<1>3. /\ tasks'[p] = Tail(tasks[p]) /\ (\A s \in Prefills : s # p => tasks'[s] = tasks[s])
  BY <1>2 DEF IInv, TypeOK
<1>4. /\ RequestOK(h) /\ faults \in Nat /\ faults' >= faults /\ live[h] \in Nat
      /\ \A s \in Prefills : InstanceOK(s)
  <2>1. TypeOK /\ RequestOK(h) /\ (\A s \in Prefills : InstanceOK(s))
    BY DEF IInv
  <2> QED BY <1>2, <2>1, BoundsAssumption DEF TypeOK
<1>5. /\ ~Queued(h) /\ Placed(h) /\ ~Early(h) /\ ~IsCalling(h) /\ ~InReady(h) /\ ~InEngine(h)
      /\ ~InOnline(h) /\ ~InOffline(h) /\ h \in arrived /\ p \notin crashed
  BY <1>1, <1>4 DEF RequestOK, OnePlace, Queued, Placed, Early
<1>6. ~InOnline(h)' /\ ~InOffline(h)' /\ ~IsCalling(h)' /\ ~InReady(h)' /\ ~InEngine(h)' /\ ~InTasks(h)'
  BY <1>1, <1>2, <1>3, <1>5 DEF InOnline, InOffline, IsCalling, InReady, InEngine, InTasks, Home
<1>7. RequestOK(h)'
  <2>1. ~Placed(h)' /\ ~Early(h)' /\ ~Queued(h)'
    BY <1>6 DEF Placed, Early, Queued
  <2>2. OnePlace(h)' /\ NotBegun(h)'
    BY <1>2, <1>4, <1>5, <1>6, <2>1 DEF RequestOK, OnePlace, NotBegun
  <2>3. HasWhatItNeeds(h)' /\ MessagesBounded(h)'
    BY <1>2, <1>4, <1>5, <1>6 DEF RequestOK, HasWhatItNeeds, MessagesBounded
  <2>4. Unhit(h)'
    BY <1>2, <1>4, <1>5, <1>6, <2>1 DEF RequestOK, Unhit
  <2>5. NoFaultYet(h)'
    BY <1>2, <1>4, <1>6 DEF RequestOK, NoFaultYet, Home
  <2>6. DecodedOnce(h)'
    BY <1>2, <1>4, <2>1 DEF RequestOK, DecodedOnce
  <2> QED BY <2>2, <2>3, <2>4, <2>5, <2>6 DEF RequestOK
<1>8. ASSUME NEW r \in Requests, r # h PROVE RequestOK(r)'
  <2>1. Moves(h)
    BY <1>0, <1>1, <1>2, <1>3 DEF Moves
  <2>2. Untouched(r)
    BY <1>2, <1>4, <1>8, <2>1, OthersStay DEF Untouched, SameService, SameCall, SameKept
  <2> QED BY <2>2, UntouchedOK
<1>9. ASSUME NEW s \in Prefills PROVE InstanceOK(s)'
  <2>1. CASE s # p
    BY <1>2, <1>3, <1>4, <2>1 DEF InstanceOK, Home
  <2>2. CASE s = p
    <3>1. QueueOK(p, tasks'[p])
      BY <1>0, <1>1, <1>3 DEF QueueOK
    <3> QED BY <1>2, <1>4, <2>2, <3>1 DEF InstanceOK, QueueOK, Home
  <2> QED BY <2>1, <2>2
<1> QED BY <1>7, <1>8, <1>9

-----------------------------------------------------------------------------
\* An instance dies: its requests are in no place any more, and the messages it
\* sent for them will be served.
LEMMA CrashKeeps ==
    ASSUME IInv, TypeOK', refused \subseteq refused', NEW p \in Prefills, Crash(p)
    PROVE  (\A s \in Prefills : InstanceOK(s)') /\ (\A r \in Requests : RequestOK(r)')
<1>1. /\ crashed' = crashed \union {p}
      /\ faulted' = faulted \union {r \in Requests : Home(r) = p}
      /\ held' = held \ {r \in Requests : Home(r) = p} /\ channel' = channel \ {r \in Requests : Home(r) = p}
      /\ UNCHANGED <<arrived, remote, gen, received, by_instance, running, answers, faults>>
  BY DEF Crash, decodeVars, Home
<1>2. /\ online'[p] = <<>> /\ offline'[p] = <<>> /\ ready'[p] = <<>> /\ tasks'[p] = <<>>
      /\ \A s \in Prefills : s # p => /\ online'[s] = online[s] /\ offline'[s] = offline[s]
                                      /\ ready'[s] = ready[s] /\ tasks'[s] = tasks[s]
  BY DEF Crash, IInv, TypeOK
<1>3. /\ calling'[p] = None /\ engine'[p] = None /\ reply'[p] = NoReply /\ retries'[p] = 0
      /\ \A s \in Prefills : s # p => /\ calling'[s] = calling[s] /\ engine'[s] = engine[s]
                                      /\ reply'[s] = reply[s] /\ retries'[s] = retries[s]
  BY DEF Crash, IInv, TypeOK
<1>4. \A r \in Requests :
        /\ Home(r) = p => stale'[r] = stale[r] + live[r] /\ live'[r] = 0
        /\ Home(r) # p => stale'[r] = stale[r] /\ live'[r] = live[r]
  BY DEF Crash, Home
<1>5. Range(<<>>) = {} /\ IsInjective(<<>>)
  BY DEF Range, IsInjective
<1>6. TypeOK /\ (\A s \in Prefills : InstanceOK(s)) /\ None \notin Requests
  BY ModesAssumption DEF IInv
<1>7. ASSUME NEW r \in Requests, Home(r) # p PROVE RequestOK(r)'
  <2>1. Home(r) \in Prefills
    BY PrefillOfAssumption DEF Home
  <2>2. SamePlace(r)
    BY <1>2, <1>3, <1>7, <2>1
    DEF SamePlace, InOnline, InOffline, IsCalling, InReady, InEngine, InTasks, Home
  <2>3. faults' >= faults
    BY <1>1, <1>6, BoundsAssumption DEF TypeOK
  <2>4. Untouched(r)
    BY <1>1, <1>3, <1>4, <1>7, <2>1, <2>2, <2>3 DEF Untouched, SameService, SameCall, SameKept
  <2> QED BY <2>4, UntouchedOK
<1>8. ASSUME NEW r \in Requests, Home(r) = p PROVE RequestOK(r)'
  <2>1. ~InOnline(r)' /\ ~InOffline(r)' /\ ~IsCalling(r)' /\ ~InReady(r)' /\ ~InEngine(r)' /\ ~InTasks(r)'
    BY <1>2, <1>3, <1>5, <1>6, <1>8 DEF InOnline, InOffline, IsCalling, InReady, InEngine, InTasks, Home
  <2>2. ~Placed(r)' /\ ~Early(r)' /\ ~Queued(r)'
    BY <2>1 DEF Placed, Early, Queued
  <2>3. RequestOK(r) /\ live[r] \in Nat /\ stale[r] \in Nat /\ faults \in Nat
    BY BoundsAssumption DEF IInv, TypeOK
  <2>4. live[r] > 0 => r \in arrived /\ gen[r] = "none"
    BY <2>3 DEF RequestOK, MessagesBounded, OnePlace, Placed, Early
  <2>5. stale'[r] = stale[r] + live[r] /\ live'[r] = 0 /\ Home(r) \in crashed' /\ r \in faulted'
    BY <1>1, <1>4, <1>8
  <2>6. OnePlace(r)' /\ NotBegun(r)'
    BY <1>1, <2>1, <2>2, <2>3, <2>4, <2>5 DEF RequestOK, OnePlace, NotBegun
  <2>7. HasWhatItNeeds(r)' /\ MessagesBounded(r)'
    BY <2>1, <2>5 DEF HasWhatItNeeds, MessagesBounded
  <2>8. Unhit(r)' /\ NoFaultYet(r)'
    BY <1>1, <2>1, <2>3, <2>4, <2>5 DEF RequestOK, Unhit, NoFaultYet, Home
  <2>9. DecodedOnce(r)'
    BY <1>1, <2>2, <2>3, <2>4, <2>5 DEF RequestOK, DecodedOnce
  <2> QED BY <2>6, <2>7, <2>8, <2>9 DEF RequestOK
<1>9. ASSUME NEW s \in Prefills PROVE InstanceOK(s)'
  <2>1. CASE s # p
    BY <1>1, <1>2, <1>3, <1>6, <2>1 DEF InstanceOK, Home
  <2>2. CASE s = p
    BY <1>1, <1>2, <1>3, <1>5, <1>6, <2>2 DEF InstanceOK, QueueOK, Home
  <2> QED BY <2>1, <2>2
<1> QED BY <1>7, <1>8, <1>9

\* The decode instance drops the reservations of a dead instance, whose requests
\* are in no place.
LEMMA UnlinkInstanceKeeps ==
    ASSUME IInv, TypeOK', refused \subseteq refused', NEW p \in Prefills, UnlinkInstance(p)
    PROVE  (\A s \in Prefills : InstanceOK(s)') /\ (\A r \in Requests : RequestOK(r)')
<1>1. /\ p \in crashed
      /\ received' = [r \in Requests |-> IF r \in by_instance[p] THEN {} ELSE received[r]]
      /\ by_instance' = [by_instance EXCEPT ![p] = {}]
      /\ UNCHANGED <<arrived, online, offline, calling, reply, retries, channel, remote, live, stale,
                     ready, engine, tasks, held, gen, running, answers, crashed, faulted, faults>>
  BY DEF UnlinkInstance, dispatchVars, netVars, prefillVars
<1>2. TypeOK /\ (\A s \in Prefills : InstanceOK(s)) /\ (\A r \in Requests : RequestOK(r))
  BY DEF IInv
<1>3. ASSUME NEW r \in Requests PROVE RequestOK(r)'
  <2>1. /\ SamePlace(r) /\ (Queued(r)' <=> Queued(r)) /\ (Early(r)' <=> Early(r)) /\ (Placed(r)' <=> Placed(r))
        /\ faults \in Nat
    BY <1>1, <1>2, PlacesKept, BoundsAssumption DEF TypeOK
  <2>2. CASE r \notin by_instance[p]
    <3>1. Untouched(r)
      BY <1>1, <2>1, <2>2 DEF Untouched, SameService, SameCall, SameKept
    <3> QED BY <3>1, UntouchedOK
  <2>3. CASE r \in by_instance[p]
    <3>1. RequestOK(r) /\ Home(r) = p /\ received'[r] = {}
      BY <1>1, <1>2, <2>3 DEF InstanceOK
    <3>2. ~Placed(r) /\ ~Queued(r) /\ ~IsCalling(r) /\ ~InReady(r) /\ ~InEngine(r) /\ ~InTasks(r)
      BY <1>1, <3>1 DEF RequestOK, OnePlace, Placed, Early
    <3>3. OnePlace(r)' /\ NotBegun(r)'
      BY <1>1, <2>1, <3>1 DEF RequestOK, OnePlace, NotBegun, SamePlace
    <3>4. HasWhatItNeeds(r)' /\ MessagesBounded(r)'
      BY <1>1, <2>1, <3>1, <3>2 DEF RequestOK, HasWhatItNeeds, MessagesBounded, SamePlace
    <3>5. Unhit(r)' /\ NoFaultYet(r)'
      BY <1>1, <2>1, <3>1, <3>2 DEF RequestOK, Unhit, NoFaultYet, SamePlace
    <3>6. DecodedOnce(r)'
      BY <1>1, <2>1, <3>1 DEF RequestOK, DecodedOnce
    <3> QED BY <3>3, <3>4, <3>5, <3>6 DEF RequestOK
  <2> QED BY <2>2, <2>3
<1>4. \A s \in Prefills : by_instance'[s] \subseteq by_instance[s]
  BY <1>1, <1>2 DEF TypeOK
<1>5. \A s \in Prefills : InstanceOK(s)'
  BY <1>1, <1>2, <1>4 DEF InstanceOK, Home
<1> QED BY <1>3, <1>5

-----------------------------------------------------------------------------
\* Nothing has arrived: every place is empty.
LEMMA InitIInv == Init => IInv
<1> SUFFICES ASSUME Init PROVE IInv
  OBVIOUS
<1>1. /\ {} \in SUBSET DecodeBlocks /\ NoReply \in Replies /\ None \notin Requests
      /\ <<>> \in Seq(Requests) /\ MaxRetry \in Nat /\ MaxFaults \in Nat
  BY BoundsAssumption, ModesAssumption DEF NoReply, Replies
<1>2. TypeOK
  BY <1>1 DEF Init, TypeOK, EachPrefill, EachRequest
<1>3. Range(<<>>) = {} /\ IsInjective(<<>>)
  BY DEF Range, IsInjective
<1>4. ASSUME NEW p \in Prefills PROVE InstanceOK(p)
  BY <1>1, <1>3 DEF Init, InstanceOK, QueueOK, EachPrefill
<1>5. ASSUME NEW r \in Requests PROVE RequestOK(r)
  <2>1. Home(r) \in Prefills
    BY PrefillOfAssumption DEF Home
  <2>2. ~InOnline(r) /\ ~InOffline(r) /\ ~IsCalling(r) /\ ~InReady(r) /\ ~InEngine(r) /\ ~InTasks(r)
    BY <1>1, <1>3, <2>1 DEF Init, EachPrefill, InOnline, InOffline, IsCalling, InReady, InEngine, InTasks
  <2>3. ~Queued(r) /\ ~Early(r) /\ ~Placed(r)
    BY <2>2 DEF Queued, Early, Placed
  <2>4. /\ gen[r] = "none" /\ received[r] = {} /\ running[r] = {} /\ answers[r] = 0
        /\ live[r] = 0 /\ stale[r] = 0
    BY DEF Init, EachRequest
  <2>5. OnePlace(r) /\ HasWhatItNeeds(r) /\ MessagesBounded(r) /\ NotBegun(r)
    BY <2>2, <2>3, <2>4 DEF OnePlace, HasWhatItNeeds, MessagesBounded, NotBegun
  <2>6. Unhit(r) /\ NoFaultYet(r) /\ DecodedOnce(r)
    BY <2>2, <2>3, <2>4 DEF Unhit, NoFaultYet, DecodedOnce
  <2> QED BY <2>5, <2>6 DEF RequestOK
<1> QED BY <1>2, <1>4, <1>5 DEF IInv

\* What was refused stays refused: it is not an answer that is taken back.
LEMMA RefusedStay == [Next]_vars => refused \subseteq refused'
<1> SUFFICES ASSUME [Next]_vars PROVE refused \subseteq refused'
  OBVIOUS
<1>1. ASSUME NEW r \in Requests,
             AddRequest(r) \/ ServeStep(r) \/ DecodeFinish(r) \/ LoseCall(r) \/ LoseFirstGeneration(r)
      PROVE  refused' = refused
  BY <1>1 DEF AddRequest, ServeStep, DecodeFinish, LoseCall, LoseFirstGeneration, RecvNewRequest,
     RecvStaleRequest, RecvFirstGeneration, FirstGenerationUnknown, PullDone, prefillVars
<1>2. ASSUME NEW p \in Prefills, DispatchStep(p) \/ TaskStep(p) \/ Crash(p) \/ UnlinkInstance(p)
      PROVE  refused' = refused
  BY <1>2 DEF DispatchStep, TaskStep, Crash, UnlinkInstance, DispatchFails, Dispatch, CallAccepted,
     CallRejected, CallFailed, Resend, SendFirstGeneration, ResendFirstGeneration,
     FirstGenerationReturns, prefillVars
<1>3. ASSUME NEW p \in Prefills, PrefillStep(p) PROVE refused \subseteq refused'
  BY <1>3 DEF PrefillStep, PrefillBegin, PrefillFails, PrefillEnd
<1>4. CASE UNCHANGED vars
  BY <1>4 DEF vars
<1> QED BY <1>1, <1>2, <1>3, <1>4 DEF Next

\* Every step keeps the invariant.
LEMMA NextIInv == IInv /\ [Next]_vars => IInv'
<1> SUFFICES ASSUME IInv, [Next]_vars PROVE IInv'
  OBVIOUS
<1> DEFINE Kept == (\A s \in Prefills : InstanceOK(s)') /\ (\A r \in Requests : RequestOK(r)')
<1>1. TypeOK' /\ refused \subseteq refused'
  BY TypeNext, RefusedStay
<1>2. ASSUME NEW r \in Requests,
             AddRequest(r) \/ DecodeFinish(r) \/ LoseCall(r) \/ LoseFirstGeneration(r)
      PROVE  Kept
  BY <1>1, <1>2, AddRequestKeeps, DecodeFinishKeeps, LoseCallKeeps, LoseFirstGenerationKeeps
<1>3. ASSUME NEW r \in Requests, ServeStep(r) PROVE Kept
  <2>1. CASE RecvNewRequest(r)
    BY <1>1, <2>1, RecvNewRequestKeeps
  <2>2. CASE RecvStaleRequest(r)
    BY <1>1, <2>2, RecvStaleRequestKeeps
  <2>3. CASE RecvFirstGeneration(r)
    BY <1>1, <2>3, RecvFirstGenerationKeepsInv
  <2>4. CASE FirstGenerationUnknown(r) \/ PullDone(r)
    BY <1>1, <2>4, ServedKeeps
  <2> QED BY <1>3, <2>1, <2>2, <2>3, <2>4 DEF ServeStep
<1>4. ASSUME NEW p \in Prefills, DispatchStep(p) PROVE Kept
  <2>1. CASE DispatchFails(p)
    BY <1>1, <2>1, DispatchFailsKeeps
  <2>2. CASE Dispatch(p)
    BY <1>1, <2>2, DispatchKeeps
  <2>3. CASE CallAccepted(p)
    BY <1>1, <2>3, CallAcceptedKeeps
  <2>4. CASE CallRejected(p)
    BY <1>1, <2>4, CallRejectedKeeps
  <2>5. CASE CallFailed(p)
    BY <1>1, <2>5, CallFailedKeeps
  <2>6. CASE Resend(p)
    BY <1>1, <2>6, ResendKeeps
  <2> QED BY <1>4, <2>1, <2>2, <2>3, <2>4, <2>5, <2>6 DEF DispatchStep
<1>5. ASSUME NEW p \in Prefills, PrefillStep(p) PROVE Kept
  BY <1>1, <1>5, PrefillBeginKeeps, PrefillFailsKeeps, PrefillEndKeeps DEF PrefillStep
<1>6. ASSUME NEW p \in Prefills, TaskStep(p) PROVE Kept
  BY <1>1, <1>6, SendFirstGenerationKeeps, ResendFirstGenerationKeeps, FirstGenerationReturnsKeeps
  DEF TaskStep
<1>7. ASSUME NEW p \in Prefills, Crash(p) \/ UnlinkInstance(p) PROVE Kept
  BY <1>1, <1>7, CrashKeeps, UnlinkInstanceKeeps
<1>8. ASSUME UNCHANGED vars PROVE Kept
  <2>1. ASSUME NEW r \in Requests PROVE RequestOK(r)'
    <3>1. faults' >= faults
      BY <1>8, BoundsAssumption DEF vars, IInv, TypeOK
    <3>2. Untouched(r)
      BY <1>8, <3>1, PlacesKept DEF vars, Untouched, SameService, SameCall, SameKept
    <3> QED BY <1>1, <3>2, UntouchedOK
  <2>2. \A s \in Prefills : InstanceOK(s)'
    BY <1>8, InstancesKept DEF vars
  <2> QED BY <2>1, <2>2
<1>9. Kept
  BY <1>2, <1>3, <1>4, <1>5, <1>6, <1>7, <1>8 DEF Next
<1> QED BY <1>1, <1>9 DEF IInv

\* The invariant holds in every reachable state.
LEMMA Invariance == Spec => []IInv
<1> QED BY InitIInv, NextIInv, PTL DEF Spec

-----------------------------------------------------------------------------
\* Every variable keeps its type; a call has at most as many messages under way
\* as brpc made tries.
THEOREM TypeCorrect == Spec => []TypeOK
<1>1. IInv => TypeOK
  BY DEF IInv
<1> QED BY <1>1, Invariance, PTL

\* Whatever is lost, repeated or late and whoever dies: a request that is
\* prefilled is pushed into the blocks reserved for it, and the stub that
\* prefill_send_first_generation takes from req_to_channel_map_ is there.
THEOREM HandoverIsPossible == Spec => []HandoverPossible
<1>1. IInv => HandoverPossible
  <2> SUFFICES ASSUME IInv, NEW p \in Prefills, NEW r \in Requests
               PROVE  /\ engine[p] = r \/ r \in Range(ready[p]) => r \in channel /\ remote[r] = received[r]
                      /\ r \in Range(tasks[p]) => r \in channel
    BY DEF HandoverPossible
  <2>1. InstanceOK(p) /\ RequestOK(r)
    BY DEF IInv
  <2>2. engine[p] = r \/ r \in Range(ready[p]) \/ r \in Range(tasks[p]) => Home(r) = p
    BY <2>1 DEF InstanceOK, QueueOK
  <2> QED BY <2>1, <2>2 DEF RequestOK, HasWhatItNeeds, InReady, InEngine, InTasks
<1> QED BY <1>1, Invariance, PTL

\* Blocks stay reserved on the decode instance only for a request that its
\* prefill instance is still going to hand over, that a fault has hit, or that its
\* prefill instance has failed because it had no blocks for it.
THEOREM ReservationIsAwaited == Spec => []ReservationAwaited
<1>1. IInv => ReservationAwaited
  <2> SUFFICES ASSUME IInv, NEW r \in Requests, received[r] # {}, r \notin faulted \union refused
               PROVE  OnItsWay(r)
    BY DEF ReservationAwaited
  <2>1. RequestOK(r) /\ Home(r) \in Prefills
    BY PrefillOfAssumption DEF IInv, Home
  <2>2. IsCalling(r) \/ InReady(r) \/ InEngine(r) \/ InTasks(r)
    BY <2>1 DEF RequestOK, Unhit, Placed, Early
  <2> QED BY <2>1, <2>2 DEF OnItsWay, IsCalling, InReady, InEngine, InTasks
<1> QED BY <1>1, Invariance, PTL

\* A pull reads from blocks that the prefill instance still holds, unless a fault
\* has hit the request (its FirstGeneration call timed out, its instance died).
THEOREM PullIsSafe == Spec => []PullReadsHeldBlocks
<1>1. IInv => PullReadsHeldBlocks
  <2> SUFFICES ASSUME IInv, NEW r \in Requests, gen[r] = "pulling", r \notin faulted
               PROVE  r \in held
    BY DEF PullReadsHeldBlocks
  <2>1. RequestOK(r)
    BY DEF IInv
  <2> QED BY <2>1 DEF RequestOK, Unhit, HasWhatItNeeds
<1> QED BY <1>1, Invariance, PTL

\* Until the second fault of the network no client gets two final answers,
\* however many instances die.  Two faults suffice for a second answer: a late
\* duplicate of AddNewRequests reserves blocks again, and a FirstGeneration that
\* is sent again finds them.
THEOREM OneFaultAnswersOnce == Spec => [](faults <= 1 => AnsweredOnce)
<1>1. IInv => (faults <= 1 => AnsweredOnce)
  BY DEF IInv, RequestOK, DecodedOnce, AnsweredOnce
<1> QED BY <1>1, Invariance, PTL
=============================================================================
