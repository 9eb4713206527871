------------------------ MODULE ExpertBalancerProof ------------------------
(***************************************************************************)
(* Proofs about ExpertBalancer: for any devices, layers and rounds, every  *)
(* layer that was never made ready on old reports computes with the        *)
(* weights its routing map points to, all devices route it alike between   *)
(* two steps, and a settled manager has updated it if it was selected.     *)
(*                                                                         *)
(* The spare buffer of a device is shared by all layers and filled by a    *)
(* thread nobody waits for.  What protects it is that a device which has   *)
(* reported a layer is quiet (nothing queued, loading or about to be       *)
(* ordered) until the layer is switched, and that the order for the layer  *)
(* being prepared is the last one in the device's queue.  That holds for a *)
(* layer that was not in use when its turn came; nothing is claimed of one *)
(* that was (stale), and what it does to the buffer is over before the     *)
(* next order is carried out.                                              *)
(***************************************************************************)
EXTENDS ExpertBalancer, SequenceTheorems, WellFoundedInduction, TLAPS

\* No task is queued, worked on, or carried by a step the device has to execute.
Quiet(d) ==
    /\ tasks[d] = <<>> /\ loading[d] = NoTask
    /\ phase[d] = "execute" => info = NoInfo

\* The spare buffer holds distribution v of layer l.
Holds(d, l, v) == buffer[d] = Weights(l, v) /\ map_buffer[d][l] = v

\* Device d has loaded the layer that is being prepared.
Loaded(d) == to_be_prepared \in {prepared[d], out[d], ready_layer[d]}

\* The order to prepare it is somewhere between the manager and the buffer.
Ordered(d) ==
    \/ loading[d].layer = to_be_prepared
    \/ \E i \in DOMAIN tasks[d] : tasks[d][i].layer = to_be_prepared
    \/ phase[d] = "execute" /\ info.prepare.layer = to_be_prepared

\* Every layer has the weights of its routing map.
WeightsOfRouting ==
    \A d \in Devices, l \in Layers \ suspect : weights[d][l] = Weights(l, routing[d][l])

\* A layer that may be switched is in the buffer of all devices, which agree.
ReadyLoaded ==
    ready # NoLayer /\ ready \notin suspect =>
        /\ \A d \in Devices : Quiet(d) /\ Holds(d, ready, map_buffer[d][ready])
        /\ \A d, e \in Devices : map_buffer[d][ready] = map_buffer[e][ready]

\* The layer being prepared was ordered once, and after the last switch.
OrderedOnce ==
    to_be_prepared # NoLayer /\ ~stale =>
        \A d \in Devices :
            Loaded(d) \/ Ordered(d) => preparing = to_be_prepared /\ ready = NoLayer

\* A device that has loaded it stays quiet and reports it once.
LoadedAndReported(d) ==
    /\ Loaded(d) => Quiet(d) /\ Holds(d, to_be_prepared, dist[to_be_prepared])
    /\ prepared[d] = to_be_prepared =>
         ready_layer[d] = NoLayer /\ out[d] = NoLayer /\ info = NoInfo
    /\ out[d] = to_be_prepared =>
         \/ phase[d] = "reset" /\ ready_layer[d] = to_be_prepared
         \/ phase[d] = "output" /\ ready_layer[d] = NoLayer

LoadedOnce == to_be_prepared # NoLayer /\ ~stale => \A d \in Devices : LoadedAndReported(d)

\* An order for it carries its distribution and is the last one of the device.
LastOrder(d) ==
    /\ loading[d].layer = to_be_prepared =>
         /\ loading[d].dist = dist[to_be_prepared] /\ buffer[d] = Filling
         /\ map_buffer[d][to_be_prepared] = dist[to_be_prepared]
         /\ tasks[d] = <<>> /\ (phase[d] = "execute" => info = NoInfo)
    /\ \A i \in DOMAIN tasks[d] :
         tasks[d][i].layer = to_be_prepared =>
             /\ i = Len(tasks[d]) /\ tasks[d][i].dist = dist[to_be_prepared]
             /\ phase[d] = "execute" => info = NoInfo
    /\ phase[d] = "execute" /\ info.prepare.layer = to_be_prepared =>
         info.prepare.dist = dist[to_be_prepared]

OrderedLast == to_be_prepared # NoLayer /\ ~stale => \A d \in Devices : LastOrder(d)

\* Until a device executes the switch its buffer is untouched; the devices that
\* have switched route as the others will.
SwitchAgreed ==
    info.update # NoLayer /\ info.update \notin suspect =>
        \A d \in Devices : phase[d] = "execute" =>
            /\ tasks[d] = <<>> /\ loading[d] = NoTask
            /\ Holds(d, info.update, map_buffer[d][info.update])
            /\ \A e \in Devices :
                 map_buffer[d][info.update] =
                     IF phase[e] = "execute" THEN map_buffer[e][info.update]
                                             ELSE routing[e][info.update]

\* Two devices route alike, but for a layer only one of them has switched.
RoutingAgreed ==
    \A d, e \in Devices, l \in Layers \ suspect :
        l # info.update \/ (phase[d] = "execute" <=> phase[e] = "execute") =>
            routing[d][l] = routing[e][l]

\* A selected layer the manager is past runs with its new distribution, or is
\* about to be switched to it.
PassedUpdated ==
    \A l \in enabled \ suspect : to_be_prepared = NoLayer \/ l < to_be_prepared =>
        \A d \in Devices :
            IF l = ready \/ (l = info.update /\ phase[d] = "execute")
            THEN map_buffer[d][l] = dist[l]
            ELSE weights[d][l] = Weights(l, dist[l])

\* A round has old reports only at its beginning: once a layer of it was loaded as
\* ordered, the devices are quiet when the turn of the next one comes.
StaleFirst == stale => \A l \in enabled : l < to_be_prepared => l \in suspect

\* The inductive invariant.
Protocol ==
    /\ WeightsOfRouting /\ ReadyLoaded /\ OrderedOnce /\ LoadedOnce /\ OrderedLast
    /\ SwitchAgreed /\ RoutingAgreed /\ PassedUpdated /\ StaleFirst

IInv == TypeOK /\ Protocol

-----------------------------------------------------------------------------
\* Min, which FiniteSetsExt defines with CHOOSE, is the least layer of a set.
LEMMA MinOfLayers ==
    ASSUME NEW S \in SUBSET Layers, S # {}
    PROVE  Min(S) \in S /\ \A l \in S : Min(S) <= l
<1>1. S \subseteq Nat
  BY LayerNumAssumption DEF Layers
<1> DEFINE Less == {p \in Nat \X Nat : p[1] < p[2]}
<1>2. IsWellFoundedOn(Less, Nat)
  BY NatLessThanWellFounded DEF OpToRel
<1> HIDE DEF Less
<1>3. PICK m \in S : \A l \in S : ~(<<l, m>> \in Less)
  BY <1>1, <1>2, WFMin
<1>4. \A l \in S : m <= l
  <2>1. \A k, n \in Nat : k < n => <<k, n>> \in Less
    BY DEF Less
  <2>2. \A k, n \in Nat : k < n \/ n <= k
    OBVIOUS
  <2> QED BY <1>1, <1>3, <2>1, <2>2, Zenon
<1> QED BY <1>4 DEF Min

\* find_next_true: a layer of the set at or after start with none of the set in
\* between, or NoLayer when there is none.
LEMMA NextTrue ==
    ASSUME NEW S \in SUBSET Layers, NEW start \in Int
    PROVE  /\ FindNextTrue(S, start) \in LayerIds
           /\ FindNextTrue(S, start) # NoLayer =>
                /\ FindNextTrue(S, start) >= start
                /\ \A l \in S : l >= start => FindNextTrue(S, start) <= l
           /\ FindNextTrue(S, start) = NoLayer => \A l \in S : l < start
<1> DEFINE rest == {l \in S : l >= start}
<1>1. Layers \subseteq Int /\ NoLayer \notin Layers
  BY LayerNumAssumption DEF Layers, NoLayer
<1>2. CASE rest = {}
  <2>1. FindNextTrue(S, start) = NoLayer
    BY <1>2 DEF FindNextTrue
  <2> QED BY <2>1, <1>1, <1>2 DEF LayerIds
<1>3. CASE rest # {}
  <2>1. FindNextTrue(S, start) = Min(rest)
    BY <1>3 DEF FindNextTrue
  <2>2. Min(rest) \in rest /\ \A l \in rest : Min(rest) <= l
    BY <1>3, MinOfLayers
  <2> QED BY <2>1, <2>2, <1>1 DEF LayerIds
<1> QED BY <1>2, <1>3

-----------------------------------------------------------------------------
\* Every action keeps the types.
LEMMA TypeNext == TypeOK /\ [Next]_vars => TypeOK'
<1> SUFFICES ASSUME TypeOK, [Next]_vars PROVE TypeOK'
  OBVIOUS
<1> USE LayerNumAssumption, MaxRoundsAssumption DEF TypeOK
<1>1. ASSUME NEW selected \in SUBSET Layers, Rebalance(selected) PROVE TypeOK'
  <2>1. FindNextTrue(selected, 0) \in LayerIds
    <3>1. 0 \in Int
      OBVIOUS
    <3> QED BY <3>1, NextTrue, Zenon
  <2>2. rounds + 1 \in 0 .. MaxRounds
    BY <1>1 DEF Rebalance
  <2>3. dist' \in [Layers -> 0 .. MaxRounds]
    BY <1>1, <2>2 DEF Rebalance
  <2>4. stale' \in BOOLEAN /\ crowded' \in BOOLEAN /\ load_queue' \in BOOLEAN
    BY <1>1 DEF Rebalance, Turn
  <2> QED BY <1>1, <2>1, <2>2, <2>3, <2>4 DEF Rebalance, stepVars, loaderVars, layerVars
<1>2. CASE Aggregate
  BY <1>2 DEF Aggregate, managerVars, stepVars, loaderVars, layerVars
<1>3. CASE ManagerStep
  <2>1. FindNextTrue(enabled, to_be_prepared + 1) \in LayerIds
    <3>1. to_be_prepared + 1 \in Int /\ enabled \in SUBSET Layers
      BY DEF LayerIds, Layers, NoLayer
    <3> QED BY <3>1, NextTrue, Zenon
  <2>2. preparing' \in LayerIds
    BY <1>3 DEF ManagerStep, LayerIds
  <2>3. stale' \in BOOLEAN /\ crowded' \in BOOLEAN
    BY <1>3 DEF ManagerStep, Turn
  <2>4. suspect' \subseteq Layers
    BY <1>3 DEF ManagerStep, LayerIds
  <2> QED BY <1>3, <2>1, <2>2, <2>3, <2>4 DEF ManagerStep, stepVars, loaderVars, layerVars
<1>4. CASE BeginStep
  <2>1. to_be_prepared # NoLayer => Weights(to_be_prepared, dist[to_be_prepared]) \in Tasks
    BY DEF LayerIds, Weights, Tasks
  <2>2. info' \in [update : LayerIds, prepare : Tasks \union {NoTask}]
    BY <1>4, <2>1 DEF BeginStep, MustPrepare
  <2>3. NoLayer \in LayerIds
    BY DEF LayerIds
  <2>4. phase' \in [Devices -> {"done", "execute", "forward", "reset", "output"}]
    BY <1>4 DEF BeginStep
  <2> QED BY <1>4, <2>2, <2>3, <2>4 DEF BeginStep, loaderVars, layerVars
<1>5. CASE EndStep
  <2>1. NoInfo \in [update : LayerIds, prepare : Tasks \union {NoTask}] /\ NoLayer \in LayerIds
    BY DEF NoInfo, LayerIds
  <2>2. prepared' \in [Devices -> LayerIds]
    BY <1>5 DEF EndStep, SetPrepared
  <2>3. phase' \in [Devices -> {"done", "execute", "forward", "reset", "output"}]
        /\ out' \in [Devices -> LayerIds]
    BY <1>5, <2>1 DEF EndStep
  <2> QED BY <1>5, <2>1, <2>2, <2>3 DEF EndStep, loaderVars, layerVars
<1>6. ASSUME NEW d \in Devices, EplbExecute(d) PROVE TypeOK'
  <2>1. tasks' \in [Devices -> Seq(Tasks)]
    BY <1>6 DEF EplbExecute
  <2>2. /\ buffer' \in [Devices -> Loads] /\ weights' \in [Devices -> [Layers -> Loads]]
        /\ routing' \in [Devices -> [Layers -> 0 .. MaxRounds]]
    <3>1. CASE info.update = NoLayer
      BY <1>6, <3>1 DEF EplbExecute, layerVars
    <3>2. CASE info.update # NoLayer
      <4>1. info.update \in Layers /\ Swap(d, info.update)
        BY <1>6, <3>2 DEF EplbExecute, LayerIds
      <4> QED BY <4>1 DEF Swap, Loads
    <3> QED BY <3>1, <3>2
  <2>3. phase' \in [Devices -> {"done", "execute", "forward", "reset", "output"}]
    BY <1>6 DEF EplbExecute
  <2> QED BY <1>6, <2>1, <2>2, <2>3 DEF EplbExecute, managerVars
<1>7. ASSUME NEW d \in Devices, GetReadyLayer(d) PROVE TypeOK'
  BY <1>7 DEF GetReadyLayer, managerVars, loaderVars, layerVars
<1>8. ASSUME NEW d \in Devices, ResetReadyLayer(d) PROVE TypeOK'
  <2>1. NoLayer \in LayerIds
    BY DEF LayerIds
  <2> QED BY <1>8, <2>1 DEF ResetReadyLayer, managerVars, layerVars
<1>9. ASSUME NEW d \in Devices, PrepareBegin(d) PROVE TypeOK'
  <2>1. Head(tasks[d]) \in Tasks /\ Tail(tasks[d]) \in Seq(Tasks)
    BY <1>9 DEF PrepareBegin
  <2>2. Head(tasks[d]).layer \in Layers /\ Head(tasks[d]).dist \in 0 .. MaxRounds
    BY <2>1 DEF Tasks
  <2>3. map_buffer' \in [Devices -> [Layers -> 0 .. MaxRounds]]
    BY <1>9, <2>2 DEF PrepareBegin
  <2>4. buffer' \in [Devices -> Loads]
    BY <1>9 DEF PrepareBegin, Loads
  <2> QED BY <1>9, <2>1, <2>3, <2>4 DEF PrepareBegin, managerVars, stepVars
<1>10. ASSUME NEW d \in Devices, PrepareEnd(d) PROVE TypeOK'
  <2>1. loading[d] \in Tasks /\ loading[d].layer \in LayerIds
    BY <1>10 DEF PrepareEnd, Tasks, LayerIds
  <2>2. buffer' \in [Devices -> Loads]
    BY <1>10, <2>1 DEF PrepareEnd, Loads
  <2> QED BY <1>10, <2>1, <2>2 DEF PrepareEnd, managerVars, stepVars
<1>11. CASE UNCHANGED vars
  BY <1>11 DEF vars
<1> QED
  BY <1>1, <1>2, <1>3, <1>4, <1>5, <1>6, <1>7, <1>8, <1>9, <1>10, <1>11
  DEF Next, EngineStep, DeviceStep, LoaderStep

-----------------------------------------------------------------------------
\* A new round: if the layer it begins with is not in use, nothing that is under
\* way can be taken for it.
LEMMA RebalanceKeeps ==
    ASSUME TypeOK, Protocol, NEW selected \in SUBSET Layers, Rebalance(selected)
    PROVE  Protocol'
<1> DEFINE first == FindNextTrue(selected, 0)
<1>1. /\ to_be_prepared' = first /\ enabled' = selected
      /\ stale' = (first # NoLayer /\ InUse(first)) /\ suspect' = suspect
      /\ UNCHANGED <<prepared, ready, preparing, info, phase, out, tasks, loading, ready_layer,
                     map_buffer, buffer, weights, routing>>
  BY DEF Rebalance, Turn, stepVars, loaderVars, layerVars
<1>2. \A l \in selected : first # NoLayer /\ ~(l < first)
  <2>1. 0 \in Int
    OBVIOUS
  <2>2. /\ first \in LayerIds
        /\ first # NoLayer => \A l \in selected : l >= 0 => first <= l
        /\ first = NoLayer => \A l \in selected : l < 0
    BY <2>1, NextTrue, Zenon
  <2>3. \A l \in Layers : l \in Int /\ l >= 0
    BY LayerNumAssumption DEF Layers
  <2> QED BY <2>2, <2>3 DEF LayerIds, NoLayer
<1> HIDE DEF first
<1>3. first # NoLayer /\ ~stale' => \A d \in Devices : ~(Loaded(d) \/ Ordered(d))'
  BY <1>1 DEF InUse, Loaded, Ordered
<1>4. OrderedOnce'
  BY <1>1, <1>3 DEF OrderedOnce
<1>5. LoadedOnce' /\ OrderedLast'
  BY <1>1, <1>3 DEF LoadedOnce, OrderedLast, LoadedAndReported, LastOrder, Loaded, Ordered
<1>6. WeightsOfRouting' /\ ReadyLoaded' /\ SwitchAgreed' /\ RoutingAgreed'
  BY <1>1 DEF Protocol, WeightsOfRouting, ReadyLoaded, SwitchAgreed, RoutingAgreed, Quiet, Holds
<1>7. PassedUpdated' /\ StaleFirst'
  BY <1>1, <1>2 DEF PassedUpdated, StaleFirst
<1> QED BY <1>4, <1>5, <1>6, <1>7 DEF Protocol

\* All devices have reported the layer being prepared: it is in their buffers and
\* they are quiet, so it can be made ready; nothing of the next layer is under way.
LEMMA ManagerStepKeeps ==
    ASSUME TypeOK, Protocol, ManagerStep, ~stale
    PROVE  Protocol'
<1> DEFINE next == FindNextTrue(enabled, to_be_prepared + 1)
<1>1. /\ to_be_prepared # NoLayer /\ ready' = to_be_prepared /\ to_be_prepared' = next
      /\ stale' = (next # NoLayer /\ InUse(next)) /\ suspect' = suspect
      /\ UNCHANGED <<dist, enabled, prepared, info, phase, out, tasks, loading, ready_layer,
                     map_buffer, buffer, weights, routing>>
      /\ \A d \in Devices : prepared[d] = to_be_prepared
  BY DEF ManagerStep, Turn, AllPrepared, stepVars, loaderVars, layerVars
<1>2. /\ to_be_prepared \in Int /\ enabled \subseteq Int
      /\ next # NoLayer => next > to_be_prepared
      /\ \A l \in enabled : next = NoLayer \/ l < next => l <= to_be_prepared
  <2>1. Layers \subseteq Int /\ to_be_prepared \in Layers /\ enabled \in SUBSET Layers
    BY <1>1, LayerNumAssumption DEF TypeOK, LayerIds, Layers
  <2>2. to_be_prepared + 1 \in Int
    BY <2>1
  <2>3. /\ next \in LayerIds
        /\ next # NoLayer =>
             /\ next >= to_be_prepared + 1
             /\ \A l \in enabled : l >= to_be_prepared + 1 => next <= l
        /\ next = NoLayer => \A l \in enabled : l < to_be_prepared + 1
    BY <2>1, <2>2, NextTrue, Zenon
  <2> HIDE DEF next
  <2> QED BY <2>1, <2>3 DEF LayerIds
<1> HIDE DEF next
<1>3. ASSUME NEW d \in Devices
      PROVE  /\ Quiet(d) /\ Holds(d, to_be_prepared, dist[to_be_prepared])
             /\ ready_layer[d] = NoLayer /\ out[d] = NoLayer
             /\ preparing = to_be_prepared /\ ready = NoLayer /\ info = NoInfo
  BY <1>1 DEF Protocol, LoadedOnce, LoadedAndReported, OrderedOnce, Loaded
<1>4. next # NoLayer => \A d \in Devices : ~(Loaded(d) \/ Ordered(d))'
  <2> SUFFICES ASSUME next # NoLayer, NEW d \in Devices PROVE ~Loaded(d)' /\ ~Ordered(d)'
    OBVIOUS
  <2>1. Quiet(d) /\ ready_layer[d] = NoLayer /\ out[d] = NoLayer /\ prepared[d] = to_be_prepared
    BY <1>1, <1>3
  <2>2. ~Loaded(d)'
    BY <1>1, <1>2, <2>1 DEF Loaded
  <2>3. ~Ordered(d)'
    BY <1>1, <2>1 DEF Ordered, Quiet, NoTask, NoInfo, Weights
  <2> QED BY <2>2, <2>3
<1>5. OrderedOnce' /\ LoadedOnce' /\ OrderedLast'
  BY <1>1, <1>4 DEF OrderedOnce, LoadedOnce, OrderedLast, LoadedAndReported, LastOrder, Loaded, Ordered
<1>6. ReadyLoaded'
  BY <1>1, <1>3 DEF ReadyLoaded, Quiet, Holds
<1>7. WeightsOfRouting' /\ SwitchAgreed' /\ RoutingAgreed'
  BY <1>1 DEF Protocol, WeightsOfRouting, SwitchAgreed, RoutingAgreed, Holds
<1>8. PassedUpdated'
  <2> SUFFICES ASSUME NEW l \in enabled \ suspect, next = NoLayer \/ l < next, NEW d \in Devices
               PROVE  IF l = ready' \/ (l = info.update /\ phase[d] = "execute")
                      THEN map_buffer[d][l] = dist[l]
                      ELSE weights[d][l] = Weights(l, dist[l])
    BY <1>1 DEF PassedUpdated
  <2>1. CASE l = to_be_prepared
    BY <1>1, <1>3, <2>1 DEF Holds
  <2>2. CASE l < to_be_prepared
    <3>1. ready = NoLayer /\ l # NoLayer
      BY <1>3, LayerNumAssumption DEF TypeOK, Layers, NoLayer
    <3> QED BY <1>1, <1>2, <2>2, <3>1 DEF Protocol, PassedUpdated
  <2>3. l = to_be_prepared \/ l < to_be_prepared
    BY <1>2
  <2> QED BY <2>1, <2>2, <2>3
<1>9. ~stale'
  <2> SUFFICES ASSUME next # NoLayer, InUse(next) PROVE FALSE
    BY <1>1
  <2>1. next # to_be_prepared
    BY <1>2
  <2>2. preparing = to_be_prepared
    BY <1>3, DevicesAssumption
  <2>3. ASSUME NEW d \in Devices
        PROVE  /\ next \notin {prepared[d], loading[d].layer, ready_layer[d], out[d], info.prepare.layer}
               /\ \A k \in DOMAIN tasks[d] : tasks[d][k].layer # next
    BY <1>1, <1>3, <2>1 DEF Quiet, NoTask, NoInfo, Weights
  <2> QED BY <2>1, <2>2, <2>3 DEF InUse
<1>10. StaleFirst'
  BY <1>9 DEF StaleFirst
<1> QED BY <1>5, <1>6, <1>7, <1>8, <1>10 DEF Protocol

\* All devices have reported the layer, but it was in use when its turn came: it is
\* suspect from now on.  The layers of this round before it are so already, and
\* the next one is either in use too, or nothing under way can be taken for it.
LEMMA ManagerStepStaleKeeps ==
    ASSUME TypeOK, Protocol, ManagerStep, stale
    PROVE  Protocol'
<1> DEFINE next == FindNextTrue(enabled, to_be_prepared + 1)
<1>1. /\ to_be_prepared # NoLayer /\ ready' = to_be_prepared /\ to_be_prepared' = next
      /\ next # NoLayer => preparing' = preparing
      /\ stale' = (next # NoLayer /\ InUse(next)) /\ suspect' = suspect \union {to_be_prepared}
      /\ UNCHANGED <<dist, enabled, prepared, info, phase, out, tasks, loading, ready_layer,
                     map_buffer, buffer, weights, routing>>
  BY DEF ManagerStep, Turn, stepVars, loaderVars, layerVars
<1>2. \A l \in enabled : next = NoLayer \/ l < next => l < to_be_prepared \/ l = to_be_prepared
  <2>1. Layers \subseteq Int /\ to_be_prepared \in Layers /\ enabled \in SUBSET Layers
    BY <1>1, LayerNumAssumption DEF TypeOK, LayerIds, Layers
  <2>2. to_be_prepared + 1 \in Int
    BY <2>1
  <2>3. /\ next \in LayerIds
        /\ next # NoLayer => \A l \in enabled : l >= to_be_prepared + 1 => next <= l
        /\ next = NoLayer => \A l \in enabled : l < to_be_prepared + 1
    BY <2>1, <2>2, NextTrue, Zenon
  <2> HIDE DEF next
  <2> QED BY <2>1, <2>3 DEF LayerIds
<1> HIDE DEF next
<1>3. next # NoLayer /\ ~stale' => \A d \in Devices : ~(Loaded(d) \/ Ordered(d))'
  BY <1>1 DEF InUse, Loaded, Ordered
<1>4. OrderedOnce' /\ LoadedOnce' /\ OrderedLast'
  BY <1>1, <1>3 DEF OrderedOnce, LoadedOnce, OrderedLast, LoadedAndReported, LastOrder, Loaded, Ordered
<1>5. ReadyLoaded'
  BY <1>1 DEF ReadyLoaded
<1>6. WeightsOfRouting' /\ SwitchAgreed' /\ RoutingAgreed'
  BY <1>1 DEF Protocol, WeightsOfRouting, SwitchAgreed, RoutingAgreed, Holds
<1>7. \A l \in enabled : next = NoLayer \/ l < next => l \in suspect'
  BY <1>1, <1>2 DEF Protocol, StaleFirst
<1>8. PassedUpdated' /\ StaleFirst'
  BY <1>1, <1>7 DEF PassedUpdated, StaleFirst
<1> QED BY <1>4, <1>5, <1>6, <1>8 DEF Protocol

\* A step begins: its orders are a switch to a layer that all devices hold, or
\* the first order for the layer being prepared, or both, or none.
LEMMA BeginStepKeeps ==
    ASSUME TypeOK, Protocol, BeginStep
    PROVE  Protocol'
<1>1. /\ \A d \in Devices : phase[d] = "done" /\ out[d] = NoLayer
      /\ \A d \in Devices : phase'[d] = "execute"
      /\ ready' = NoLayer /\ info'.update = ready
      /\ preparing' = IF MustPrepare THEN to_be_prepared ELSE preparing
      /\ info'.prepare = IF MustPrepare THEN Weights(to_be_prepared, dist[to_be_prepared]) ELSE NoTask
      /\ UNCHANGED <<stale, suspect, dist, enabled, to_be_prepared, prepared, out, tasks, loading, ready_layer,
                     map_buffer, buffer, weights, routing>>
  BY DEF BeginStep, StepIdle, loaderVars, layerVars
<1>2. preparing = to_be_prepared /\ ready = NoLayer => info' = NoInfo
  BY DEF BeginStep, MustPrepare, NoInfo
<1>3. WeightsOfRouting' /\ ReadyLoaded'
  BY <1>1 DEF Protocol, WeightsOfRouting, ReadyLoaded
<1>4. OrderedOnce'
  BY <1>1 DEF OrderedOnce, MustPrepare
<1>5. LoadedOnce'
  <2> SUFFICES ASSUME to_be_prepared # NoLayer, ~stale, NEW d \in Devices
               PROVE  LoadedAndReported(d)'
    BY <1>1 DEF LoadedOnce
  <2>1. LoadedAndReported(d)
    BY DEF Protocol, LoadedOnce
  <2>2. Loaded(d) => info' = NoInfo
    BY <1>2 DEF Protocol, OrderedOnce
  <2>3. Loaded(d) => Quiet(d)'
    BY <1>1, <2>1, <2>2 DEF LoadedAndReported, Quiet
  <2> QED BY <1>1, <2>1, <2>2, <2>3 DEF LoadedAndReported, Loaded, Holds
<1>6. OrderedLast'
  <2> SUFFICES ASSUME to_be_prepared # NoLayer, ~stale, NEW d \in Devices
               PROVE  LastOrder(d)'
    BY <1>1 DEF OrderedLast
  <2>1. CASE MustPrepare
    <3>1. loading[d].layer # to_be_prepared
          /\ \A i \in DOMAIN tasks[d] : tasks[d][i].layer # to_be_prepared
      BY <2>1 DEF Protocol, OrderedOnce, Ordered, MustPrepare
    <3> QED BY <1>1, <2>1, <3>1 DEF LastOrder, Weights
  <2>2. CASE ~MustPrepare
    <3>1. info'.prepare.layer # to_be_prepared
      BY <1>1, <2>2 DEF NoTask, Weights
    <3>2. Ordered(d) => info' = NoInfo
      BY <1>2 DEF Protocol, OrderedOnce
    <3> QED BY <1>1, <3>1, <3>2 DEF Protocol, OrderedLast, LastOrder, Ordered
  <2> QED BY <2>1, <2>2
<1>7. SwitchAgreed'
  BY <1>1 DEF Protocol, ReadyLoaded, SwitchAgreed, Quiet, Holds
<1>8. RoutingAgreed'
  BY <1>1 DEF Protocol, RoutingAgreed
<1>9. PassedUpdated'
  <2> SUFFICES ASSUME NEW l \in enabled \ suspect, to_be_prepared = NoLayer \/ l < to_be_prepared,
                      NEW d \in Devices
               PROVE  IF l = ready THEN map_buffer[d][l] = dist[l]
                                   ELSE weights[d][l] = Weights(l, dist[l])
    <3>1. NoLayer \notin enabled
      BY LayerNumAssumption DEF TypeOK, Layers, NoLayer
    <3> QED BY <1>1, <3>1 DEF PassedUpdated
  <2> QED BY <1>1 DEF Protocol, PassedUpdated
<1>10. StaleFirst'
  BY <1>1 DEF Protocol, StaleFirst
<1> QED BY <1>3, <1>4, <1>5, <1>6, <1>7, <1>8, <1>9, <1>10 DEF Protocol

\* A device executes the orders: by SwitchAgreed its buffer holds the layer it
\* swaps in, and an order to prepare becomes the last task of its queue.
LEMMA EplbExecuteKeeps ==
    ASSUME TypeOK, Protocol, NEW d \in Devices, EplbExecute(d)
    PROVE  Protocol'
<1> DEFINE u == info.update
<1>1. /\ phase[d] = "execute" /\ phase'[d] = "forward"
      /\ \A e \in Devices \ {d} : phase'[e] = phase[e] /\ tasks'[e] = tasks[e]
      /\ tasks'[d] = IF info.prepare = NoTask THEN tasks[d] ELSE Append(tasks[d], info.prepare)
      /\ UNCHANGED <<stale, suspect, dist, enabled, to_be_prepared, prepared, ready, preparing, info, out, loading,
                     ready_layer, map_buffer>>
  BY DEF EplbExecute, managerVars, TypeOK
<1>2. /\ \A e \in Devices \ {d} :
             buffer'[e] = buffer[e] /\ weights'[e] = weights[e] /\ routing'[e] = routing[e]
      /\ u = NoLayer =>
             buffer'[d] = buffer[d] /\ weights'[d] = weights[d] /\ routing'[d] = routing[d]
      /\ u # NoLayer =>
             /\ u \in Layers
             /\ weights'[d][u] = (IF loading[d] = NoTask THEN buffer[d] ELSE Partial)
             /\ routing'[d][u] = map_buffer[d][u]
             /\ \A l \in Layers \ {u} : weights'[d][l] = weights[d][l] /\ routing'[d][l] = routing[d][l]
  <2>1. CASE u = NoLayer
    BY <2>1 DEF EplbExecute, layerVars
  <2>2. CASE u # NoLayer
    <3>1. u \in Layers /\ Swap(d, u)
      BY <2>2 DEF EplbExecute, TypeOK, LayerIds
    <3> QED BY <3>1, <2>2 DEF Swap, TypeOK
  <2> QED BY <2>1, <2>2
<1>3. /\ NoInfo.update = NoLayer /\ NoInfo.prepare = NoTask /\ NoTask.layer = NoLayer
      /\ NoLayer \notin Layers /\ enabled \subseteq Layers
  BY LayerNumAssumption DEF NoInfo, NoTask, Weights, NoLayer, Layers, TypeOK
<1>4. u # NoLayer /\ u \notin suspect =>
          loading[d] = NoTask /\ buffer[d] = Weights(u, map_buffer[d][u])
  BY <1>1 DEF Protocol, SwitchAgreed, Holds
<1> HIDE DEF u
<1>5. Quiet(d) => info = NoInfo /\ tasks'[d] = tasks[d] /\ buffer'[d] = buffer[d]
  BY <1>1, <1>2, <1>3 DEF Quiet, u
<1>6. \A e \in Devices : Quiet(e) => Quiet(e)' /\ buffer'[e] = buffer[e]
  BY <1>1, <1>2, <1>5 DEF Quiet
<1>7. WeightsOfRouting'
  BY <1>1, <1>2, <1>4 DEF Protocol, WeightsOfRouting
<1>8. ReadyLoaded'
  BY <1>1, <1>6 DEF Protocol, ReadyLoaded, Holds
<1>9. ASSUME to_be_prepared # NoLayer, ~stale, NEW e \in Devices
      PROVE  /\ Loaded(e) \/ Ordered(e) => preparing = to_be_prepared /\ ready = NoLayer
             /\ LoadedAndReported(e) /\ LastOrder(e)
  BY <1>9 DEF Protocol, OrderedOnce, LoadedOnce, OrderedLast
<1>10. ASSUME to_be_prepared # NoLayer, ~stale, NEW e \in Devices PROVE (Loaded(e) \/ Ordered(e))' => Loaded(e) \/ Ordered(e)
  <2>1. CASE e # d
    BY <1>1, <2>1 DEF Loaded, Ordered
  <2>2. CASE e = d
    <3>1. ASSUME NEW i \in DOMAIN tasks'[d], tasks'[d][i].layer = to_be_prepared PROVE Ordered(d)
      <4>1. CASE info.prepare = NoTask
        BY <1>1, <3>1, <4>1 DEF Ordered
      <4>2. CASE info.prepare # NoTask
        <5>1. tasks[d] \in Seq(Tasks) /\ info.prepare \in Tasks
          BY <4>2 DEF TypeOK
        <5>2. (i \in DOMAIN tasks[d] /\ tasks'[d][i] = tasks[d][i]) \/ tasks'[d][i] = info.prepare
          BY <1>1, <4>2, <3>1, <5>1
        <5> QED BY <1>1, <3>1, <5>2 DEF Ordered
      <4> QED BY <4>1, <4>2
    <3> QED BY <1>1, <2>2, <3>1 DEF Loaded, Ordered
  <2> QED BY <2>1, <2>2
<1>11. OrderedOnce'
  BY <1>1, <1>9, <1>10 DEF OrderedOnce
<1>12. LoadedOnce'
  <2> SUFFICES ASSUME to_be_prepared # NoLayer, ~stale, NEW e \in Devices PROVE LoadedAndReported(e)'
    BY <1>1 DEF LoadedOnce
  <2>1. Loaded(e)' = Loaded(e)
    BY <1>1 DEF Loaded
  <2>2. out[e] = to_be_prepared => e # d
    BY <1>1, <1>9 DEF LoadedAndReported
  <2> QED BY <1>1, <1>6, <1>9, <2>1, <2>2 DEF LoadedAndReported, Holds
<1>13. OrderedLast'
  <2> SUFFICES ASSUME to_be_prepared # NoLayer, ~stale, NEW e \in Devices PROVE LastOrder(e)'
    BY <1>1 DEF OrderedLast
  <2>1. CASE e # d
    BY <1>1, <1>2, <1>9, <2>1 DEF LastOrder
  <2>2. CASE e = d /\ info.prepare = NoTask
    <3>1. LastOrder(d)
      BY <1>9
    <3>2. loading[d].layer = to_be_prepared => buffer'[d] = buffer[d]
      BY <1>1, <1>2, <1>3, <3>1 DEF LastOrder, u
    <3> QED BY <1>1, <2>2, <3>1, <3>2 DEF LastOrder
  <2>3. CASE e = d /\ info.prepare # NoTask
    <3>1. tasks[d] \in Seq(Tasks) /\ info.prepare \in Tasks /\ info # NoInfo
      BY <2>3, <1>3 DEF TypeOK
    <3>2. LastOrder(d)
      BY <1>9
    <3>3. loading[d].layer # to_be_prepared
          /\ \A i \in DOMAIN tasks[d] : tasks[d][i].layer # to_be_prepared
      BY <1>1, <3>1, <3>2 DEF LastOrder
    <3>4. info.prepare.layer = to_be_prepared => info.prepare.dist = dist[to_be_prepared]
      BY <1>1, <3>2 DEF LastOrder
    <3>5. ASSUME NEW i \in DOMAIN tasks'[d], tasks'[d][i].layer = to_be_prepared
          PROVE  i = Len(tasks'[d]) /\ tasks'[d][i].dist = dist[to_be_prepared]
      <4>1. tasks'[d] = Append(tasks[d], info.prepare)
        BY <1>1, <2>3
      <4>2. Len(tasks'[d]) = Len(tasks[d]) + 1 /\ i \in 1 .. Len(tasks[d]) + 1
            /\ DOMAIN tasks[d] = 1 .. Len(tasks[d]) /\ Len(tasks[d]) \in Nat
        BY <4>1, <3>1, <3>5
      <4>3. CASE i = Len(tasks[d]) + 1
        <5>1. tasks'[d][i] = info.prepare
          BY <4>1, <4>3, <3>1
        <5> QED BY <5>1, <4>2, <4>3, <3>4, <3>5
      <4>4. CASE i \in DOMAIN tasks[d]
        <5>1. tasks'[d][i] = tasks[d][i]
          BY <4>1, <4>4, <3>1
        <5> QED BY <5>1, <4>4, <3>3, <3>5
      <4> QED BY <4>2, <4>3, <4>4
    <3> QED BY <1>1, <2>3, <3>3, <3>5 DEF LastOrder
  <2> QED BY <2>1, <2>2, <2>3
<1>14. SwitchAgreed'
  BY <1>1, <1>2 DEF Protocol, SwitchAgreed, Holds, u
<1>15. RoutingAgreed'
  <2> SUFFICES ASSUME NEW a \in Devices, NEW e \in Devices, NEW l \in Layers \ suspect,
                      l # u \/ (phase'[a] = "execute" <=> phase'[e] = "execute")
               PROVE  routing'[a][l] = routing'[e][l]
    BY <1>1 DEF RoutingAgreed, u
  <2>1. CASE l # u
    BY <1>2, <2>1 DEF Protocol, RoutingAgreed, u
  <2>2. CASE l = u
    <3>1. u # NoLayer /\ u \notin suspect
      BY <2>2, <1>3
    <3>2. \A b \in Devices : phase'[b] # "execute" => routing'[b][u] = map_buffer[d][u]
      BY <1>1, <1>2, <3>1 DEF Protocol, SwitchAgreed, u
    <3>3. CASE phase'[a] # "execute"
      BY <2>2, <3>2, <3>3
    <3>4. CASE phase'[a] = "execute"
      <4>1. phase'[e] = "execute" /\ a # d /\ e # d
        BY <1>1, <2>2, <3>4
      <4> QED BY <1>1, <1>2, <4>1, <2>2, <3>4 DEF Protocol, RoutingAgreed, u
    <3> QED BY <3>3, <3>4
  <2> QED BY <2>1, <2>2
<1>16. PassedUpdated'
  <2> SUFFICES ASSUME NEW l \in enabled \ suspect, to_be_prepared = NoLayer \/ l < to_be_prepared,
                      NEW e \in Devices
               PROVE  IF l = ready \/ (l = u /\ phase'[e] = "execute")
                      THEN map_buffer[e][l] = dist[l]
                      ELSE weights'[e][l] = Weights(l, dist[l])
    BY <1>1 DEF PassedUpdated, u
  <2>1. IF l = ready \/ (l = u /\ phase[e] = "execute")
        THEN map_buffer[e][l] = dist[l]
        ELSE weights[e][l] = Weights(l, dist[l])
    BY DEF Protocol, PassedUpdated, u
  <2>2. l \in Layers /\ l # NoLayer
    BY <1>3
  <2>3. CASE e = d /\ l = u
    BY <1>1, <1>2, <1>4, <2>1, <2>2, <2>3
  <2>4. CASE e # d \/ l # u
    <3>1. weights'[e][l] = weights[e][l]
      BY <1>2, <2>2, <2>4
    <3> QED BY <1>1, <2>1, <2>4, <3>1
  <2> QED BY <2>3, <2>4
<1>17. StaleFirst'
  BY <1>1 DEF Protocol, StaleFirst
<1> QED BY <1>7, <1>8, <1>11, <1>12, <1>13, <1>14, <1>15, <1>16, <1>17 DEF Protocol

\* What Protocol says of the layer being prepared, for one device.
LEMMA ProtocolOfDevice ==
    ASSUME Protocol, to_be_prepared # NoLayer, ~stale, NEW e \in Devices
    PROVE  /\ Loaded(e) \/ Ordered(e) => preparing = to_be_prepared /\ ready = NoLayer
           /\ LoadedAndReported(e) /\ LastOrder(e)
BY DEF Protocol, OrderedOnce, LoadedOnce, OrderedLast

\* The device reads the report of its worker thread.
LEMMA GetReadyLayerKeeps ==
    ASSUME TypeOK, Protocol, NEW d \in Devices, GetReadyLayer(d)
    PROVE  Protocol'
<1>1. /\ phase[d] = "forward" /\ phase'[d] = IF ready_layer[d] = NoLayer THEN "output" ELSE "reset"
      /\ out'[d] = ready_layer[d]
      /\ \A e \in Devices \ {d} : phase'[e] = phase[e] /\ out'[e] = out[e]
      /\ \A e \in Devices : phase'[e] = "execute" <=> phase[e] = "execute"
      /\ UNCHANGED <<stale, suspect, dist, enabled, to_be_prepared, prepared, ready, preparing, info, tasks, loading,
                     ready_layer, map_buffer, buffer, weights, routing>>
  BY DEF GetReadyLayer, managerVars, loaderVars, layerVars, TypeOK
<1>2. \A e \in Devices : /\ Quiet(e)' <=> Quiet(e)
                         /\ Ordered(e)' <=> Ordered(e)
                         /\ Loaded(e)' => Loaded(e)
                         /\ LastOrder(e)' <=> LastOrder(e)
  BY <1>1 DEF Quiet, Ordered, Loaded, LastOrder
<1>3. OrderedOnce' /\ OrderedLast'
  BY <1>1, <1>2, ProtocolOfDevice DEF OrderedOnce, OrderedLast
<1>4. LoadedOnce'
  <2> SUFFICES ASSUME to_be_prepared # NoLayer, ~stale, NEW e \in Devices PROVE LoadedAndReported(e)'
    BY <1>1 DEF LoadedOnce
  <2>1. LoadedAndReported(e)
    BY ProtocolOfDevice
  <2>2. CASE e # d
    BY <1>1, <1>2, <2>1, <2>2 DEF LoadedAndReported, Holds
  <2>3. CASE e = d
    BY <1>1, <1>2, <2>1, <2>3 DEF LoadedAndReported, Holds
  <2> QED BY <2>2, <2>3
<1>5. WeightsOfRouting' /\ ReadyLoaded'
  BY <1>1, <1>2 DEF Protocol, WeightsOfRouting, ReadyLoaded, Holds
<1>6. SwitchAgreed' /\ RoutingAgreed'
  BY <1>1 DEF Protocol, SwitchAgreed, RoutingAgreed, Holds
<1>7. PassedUpdated' /\ StaleFirst'
  BY <1>1 DEF Protocol, PassedUpdated, StaleFirst
<1> QED BY <1>3, <1>4, <1>5, <1>6, <1>7 DEF Protocol

\* It resets the report it has read.  Were a report that the worker thread has put
\* in its place lost, the layer would never be ready, but nothing would go wrong.
LEMMA ResetReadyLayerKeeps ==
    ASSUME TypeOK, Protocol, NEW d \in Devices, ResetReadyLayer(d)
    PROVE  Protocol'
<1>1. /\ phase[d] = "reset" /\ phase'[d] = "output" /\ ready_layer'[d] = NoLayer
      /\ \A e \in Devices \ {d} : phase'[e] = phase[e] /\ ready_layer'[e] = ready_layer[e]
      /\ \A e \in Devices : phase'[e] = "execute" <=> phase[e] = "execute"
      /\ UNCHANGED <<stale, suspect, dist, enabled, to_be_prepared, prepared, ready, preparing, info, out, tasks,
                     loading, map_buffer, buffer, weights, routing>>
  BY DEF ResetReadyLayer, managerVars, layerVars, TypeOK
<1>2. \A e \in Devices : /\ Quiet(e)' <=> Quiet(e)
                         /\ Ordered(e)' <=> Ordered(e)
                         /\ to_be_prepared # NoLayer /\ Loaded(e)' => Loaded(e)
                         /\ LastOrder(e)' <=> LastOrder(e)
  BY <1>1 DEF Quiet, Ordered, Loaded, LastOrder
<1>3. OrderedOnce' /\ OrderedLast'
  BY <1>1, <1>2, ProtocolOfDevice DEF OrderedOnce, OrderedLast
<1>4. LoadedOnce'
  <2> SUFFICES ASSUME to_be_prepared # NoLayer, ~stale, NEW e \in Devices PROVE LoadedAndReported(e)'
    BY <1>1 DEF LoadedOnce
  <2>1. LoadedAndReported(e)
    BY ProtocolOfDevice
  <2> QED BY <1>1, <1>2, <2>1 DEF LoadedAndReported, Holds
<1>5. WeightsOfRouting' /\ ReadyLoaded'
  BY <1>1, <1>2 DEF Protocol, WeightsOfRouting, ReadyLoaded, Holds
<1>6. SwitchAgreed' /\ RoutingAgreed'
  BY <1>1 DEF Protocol, SwitchAgreed, RoutingAgreed, Holds
<1>7. PassedUpdated' /\ StaleFirst'
  BY <1>1 DEF Protocol, PassedUpdated, StaleFirst
<1> QED BY <1>3, <1>4, <1>5, <1>6, <1>7 DEF Protocol

\* The results of a step are processed: no device is left in the middle of a
\* switch, and the reports on the layer being prepared are taken over.
LEMMA EndStepKeeps ==
    ASSUME TypeOK, Protocol, EndStep
    PROVE  Protocol'
<1>1. /\ \A d \in Devices : phase[d] = "output" /\ phase'[d] = "done" /\ out'[d] = NoLayer
      /\ \A d \in Devices : prepared'[d] = IF out[d] = to_be_prepared THEN out[d] ELSE prepared[d]
      /\ info' = NoInfo
      /\ UNCHANGED <<stale, suspect, dist, enabled, to_be_prepared, ready, preparing, tasks, loading, ready_layer,
                     map_buffer, buffer, weights, routing>>
  BY DEF EndStep, SetPrepared, loaderVars, layerVars
<1>2. \A e \in Devices : /\ Quiet(e)' <=> Quiet(e)
                         /\ Ordered(e)' <=> Ordered(e)
                         /\ to_be_prepared # NoLayer => (Loaded(e)' <=> Loaded(e))
                         /\ LastOrder(e)' <=> LastOrder(e)
  BY <1>1 DEF Quiet, Ordered, Loaded, LastOrder
<1>3. OrderedOnce' /\ OrderedLast'
  BY <1>1, <1>2, ProtocolOfDevice DEF OrderedOnce, OrderedLast
<1>4. LoadedOnce'
  <2> SUFFICES ASSUME to_be_prepared # NoLayer, ~stale, NEW e \in Devices PROVE LoadedAndReported(e)'
    BY <1>1 DEF LoadedOnce
  <2>1. LoadedAndReported(e)
    BY ProtocolOfDevice
  <2> QED BY <1>1, <1>2, <2>1 DEF LoadedAndReported, Holds
<1>5. WeightsOfRouting' /\ ReadyLoaded'
  BY <1>1, <1>2 DEF Protocol, WeightsOfRouting, ReadyLoaded, Holds
<1>6. SwitchAgreed' /\ RoutingAgreed'
  BY <1>1 DEF Protocol, SwitchAgreed, RoutingAgreed, NoInfo
<1>7. PassedUpdated' /\ StaleFirst'
  BY <1>1 DEF Protocol, PassedUpdated, StaleFirst
<1> QED BY <1>3, <1>4, <1>5, <1>6, <1>7 DEF Protocol

\* The front and the rest of a queue.
LEMMA QueueFront ==
    ASSUME NEW S, NEW q \in Seq(S), q # <<>>
    PROVE  /\ Head(q) \in S /\ Head(q) = q[1] /\ 1 \in DOMAIN q /\ Len(q) \in Nat \ {0}
           /\ Len(Tail(q)) = Len(q) - 1 /\ Tail(q) \in Seq(S)
           /\ \A i \in DOMAIN Tail(q) : i \in Nat /\ i + 1 \in DOMAIN q /\ Tail(q)[i] = q[i + 1]
           /\ Len(q) = 1 => Tail(q) = <<>>
<1>1. Head(q) \in S /\ Head(q) = q[1] /\ 1 \in DOMAIN q /\ Len(q) \in Nat \ {0}
  OBVIOUS
<1>2. Len(Tail(q)) = Len(q) - 1 /\ Tail(q) \in Seq(S)
  OBVIOUS
<1>3. \A i \in DOMAIN Tail(q) : i \in Nat /\ i + 1 \in DOMAIN q /\ Tail(q)[i] = q[i + 1]
  <2>1. DOMAIN Tail(q) = 1 .. Len(q) - 1 /\ DOMAIN q = 1 .. Len(q)
    BY <1>2
  <2>2. \A i \in 1 .. Len(Tail(q)) : Tail(q)[i] = q[i + 1]
    BY HeadTailProperties
  <2> QED BY <1>1, <1>2, <2>1, <2>2
<1>4. Len(q) = 1 => Tail(q) = <<>>
  <2>1. Tail(q) # <<>> => Len(Tail(q)) \in Nat \ {0}
    BY <1>2, EmptySeq, Zenon
  <2> QED BY <1>2, <2>1
<1> QED BY <1>1, <1>2, <1>3, <1>4

\* The worker thread takes a task and begins to overwrite the buffer: the device
\* is not quiet, so nobody relies on what is in it.
LEMMA PrepareBeginKeeps ==
    ASSUME TypeOK, Protocol, NEW d \in Devices, PrepareBegin(d)
    PROVE  Protocol'
<1> DEFINE t == Head(tasks[d])
<1>1. /\ loading[d] = NoTask /\ tasks[d] # <<>> /\ tasks[d] \in Seq(Tasks)
      /\ t \in Tasks /\ t.layer \in Layers
      /\ loading'[d] = t /\ tasks'[d] = Tail(tasks[d]) /\ buffer'[d] = Filling
      /\ map_buffer'[d][t.layer] = t.dist
      /\ \A l \in Layers \ {t.layer} : map_buffer'[d][l] = map_buffer[d][l]
      /\ \A e \in Devices \ {d} : /\ loading'[e] = loading[e] /\ tasks'[e] = tasks[e]
                                  /\ map_buffer'[e] = map_buffer[e] /\ buffer'[e] = buffer[e]
      /\ UNCHANGED <<stale, suspect, dist, enabled, to_be_prepared, prepared, ready, preparing, info, phase, out,
                     ready_layer, weights, routing>>
  <2>1. loading[d] = NoTask /\ tasks[d] # <<>> /\ tasks[d] \in Seq(Tasks)
    BY DEF PrepareBegin, TypeOK
  <2>2. t \in Tasks /\ t.layer \in Layers
    <3>1. t \in Tasks
      BY <2>1, QueueFront, Zenon
    <3> HIDE DEF t
    <3> QED BY <3>1 DEF Tasks
  <2> HIDE DEF t
  <2>3. /\ loading' = [loading EXCEPT ![d] = t]
        /\ tasks' = [tasks EXCEPT ![d] = Tail(@)]
        /\ map_buffer' = [map_buffer EXCEPT ![d][t.layer] = t.dist]
        /\ buffer' = [buffer EXCEPT ![d] = Filling]
    BY DEF PrepareBegin, t
  <2> QED BY <2>1, <2>2, <2>3 DEF PrepareBegin, managerVars, stepVars, TypeOK
<1>2. /\ t = tasks[d][1] /\ 1 \in DOMAIN tasks[d] /\ Len(tasks[d]) \in Nat
      /\ Len(Tail(tasks[d])) = Len(tasks[d]) - 1
      /\ \A i \in DOMAIN Tail(tasks[d]) :
           i \in Nat /\ i + 1 \in DOMAIN tasks[d] /\ Tail(tasks[d])[i] = tasks[d][i + 1]
      /\ Len(tasks[d]) = 1 => Tail(tasks[d]) = <<>>
  BY <1>1, QueueFront
<1> HIDE DEF t
<1>3. ~Quiet(d) /\ \A e \in Devices : Quiet(e) => e # d /\ Quiet(e)'
  BY <1>1 DEF Quiet
<1>4. WeightsOfRouting' /\ RoutingAgreed'
  BY <1>1 DEF Protocol, WeightsOfRouting, RoutingAgreed
<1>5. ReadyLoaded'
  BY <1>1, <1>3 DEF Protocol, ReadyLoaded, Holds
<1>6. ASSUME NEW e \in Devices PROVE (Loaded(e) \/ Ordered(e))' => Loaded(e) \/ Ordered(e)
  <2>1. CASE e # d
    BY <1>1, <2>1 DEF Loaded, Ordered
  <2>2. CASE e = d
    <3>1. loading'[d].layer = to_be_prepared => Ordered(d)
      BY <1>1, <1>2 DEF Ordered
    <3>2. (\E i \in DOMAIN tasks'[d] : tasks'[d][i].layer = to_be_prepared) => Ordered(d)
      BY <1>1, <1>2 DEF Ordered
    <3> QED BY <1>1, <2>2, <3>1, <3>2 DEF Loaded, Ordered
  <2> QED BY <2>1, <2>2
<1>7. OrderedOnce'
  BY <1>1, <1>6, ProtocolOfDevice DEF OrderedOnce
<1>8. ASSUME to_be_prepared # NoLayer, ~stale, NEW e \in Devices PROVE LoadedAndReported(e)' /\ LastOrder(e)'
  <2>1. LoadedAndReported(e) /\ LastOrder(e)
    BY <1>8, ProtocolOfDevice
  <2>2. CASE e # d
    BY <1>1, <2>1, <2>2 DEF LoadedAndReported, LastOrder, Loaded, Quiet, Holds
  <2>3. CASE e = d
    <3>1. LoadedAndReported(d)'
      BY <1>1, <1>3, <2>1, <2>3 DEF LoadedAndReported, Loaded
    <3>2. t.layer = to_be_prepared =>
            /\ t.dist = dist[to_be_prepared] /\ Len(tasks[d]) = 1
            /\ phase[d] = "execute" => info = NoInfo
      BY <1>2, <2>1, <2>3 DEF LastOrder
    <3>3. ASSUME NEW i \in DOMAIN tasks'[d], tasks'[d][i].layer = to_be_prepared
          PROVE  /\ i = Len(tasks'[d]) /\ tasks'[d][i].dist = dist[to_be_prepared]
                 /\ phase[d] = "execute" => info = NoInfo
      <4>1. i + 1 \in DOMAIN tasks[d] /\ tasks'[d][i] = tasks[d][i + 1] /\ i \in Nat
        BY <1>1, <1>2, <3>3
      <4>2. i + 1 = Len(tasks[d]) /\ tasks[d][i + 1].dist = dist[to_be_prepared]
            /\ (phase[d] = "execute" => info = NoInfo)
        BY <2>1, <2>3, <3>3, <4>1 DEF LastOrder
      <4> QED BY <1>1, <1>2, <4>1, <4>2
    <3>4. LastOrder(d)'
      BY <1>1, <1>2, <2>1, <2>3, <3>2, <3>3 DEF LastOrder
    <3> QED BY <2>3, <3>1, <3>4
  <2> QED BY <2>2, <2>3
<1>9. LoadedOnce' /\ OrderedLast'
  BY <1>1, <1>8 DEF LoadedOnce, OrderedLast
<1>10. SwitchAgreed'
  BY <1>1 DEF Protocol, SwitchAgreed, Holds
<1>11. PassedUpdated'
  <2> SUFFICES ASSUME NEW l \in enabled \ suspect, to_be_prepared = NoLayer \/ l < to_be_prepared,
                      NEW e \in Devices
               PROVE  IF l = ready \/ (l = info.update /\ phase[e] = "execute")
                      THEN map_buffer'[e][l] = dist[l]
                      ELSE weights[e][l] = Weights(l, dist[l])
    BY <1>1 DEF PassedUpdated
  <2>1. l = ready \/ (l = info.update /\ phase[e] = "execute") => e # d
    <3>1. l # NoLayer
      BY LayerNumAssumption DEF TypeOK, Layers, NoLayer
    <3> QED BY <1>1, <1>3, <3>1 DEF Protocol, ReadyLoaded, SwitchAgreed
  <2> QED BY <1>1, <2>1 DEF Protocol, PassedUpdated
<1>12. StaleFirst'
  BY <1>1 DEF Protocol, StaleFirst
<1> QED BY <1>4, <1>5, <1>7, <1>9, <1>10, <1>11, <1>12 DEF Protocol

\* The worker thread is done.  Its task was the last one if it was for the layer
\* being prepared, so the device is quiet when the layer is reported.
LEMMA PrepareEndKeeps ==
    ASSUME TypeOK, Protocol, NEW d \in Devices, PrepareEnd(d)
    PROVE  Protocol'
<1>1. /\ loading[d] # NoTask /\ loading[d] \in Tasks
      /\ buffer'[d] = IF buffer[d] = Filling THEN loading[d] ELSE Partial
      /\ ready_layer'[d] = loading[d].layer /\ loading'[d] = NoTask
      /\ \A e \in Devices \ {d} : /\ loading'[e] = loading[e] /\ buffer'[e] = buffer[e]
                                  /\ ready_layer'[e] = ready_layer[e]
      /\ UNCHANGED <<stale, suspect, dist, enabled, to_be_prepared, prepared, ready, preparing, info, phase, out,
                     tasks, map_buffer, weights, routing>>
  BY DEF PrepareEnd, managerVars, stepVars, TypeOK
<1>2. /\ NoTask.layer = NoLayer
      /\ loading[d] = Weights(loading[d].layer, loading[d].dist)
  BY <1>1 DEF NoTask, Weights, Tasks
<1>3. ~Quiet(d) /\ \A e \in Devices : Quiet(e) => e # d /\ Quiet(e)'
  BY <1>1 DEF Quiet
<1>4. WeightsOfRouting' /\ RoutingAgreed'
  BY <1>1 DEF Protocol, WeightsOfRouting, RoutingAgreed
<1>5. ReadyLoaded'
  BY <1>1, <1>3 DEF Protocol, ReadyLoaded, Holds
<1>6. ASSUME to_be_prepared # NoLayer, ~stale, NEW e \in Devices
      PROVE  (Loaded(e) \/ Ordered(e))' => Loaded(e) \/ Ordered(e)
  <2>1. CASE e # d
    BY <1>1, <2>1 DEF Loaded, Ordered
  <2>2. CASE e = d
    BY <1>1, <1>2, <1>6, <2>2 DEF Loaded, Ordered
  <2> QED BY <2>1, <2>2
<1>7. OrderedOnce'
  BY <1>1, <1>6, ProtocolOfDevice DEF OrderedOnce
<1>8. ASSUME to_be_prepared # NoLayer, ~stale, NEW e \in Devices PROVE LoadedAndReported(e)' /\ LastOrder(e)'
  <2>1. LoadedAndReported(e) /\ LastOrder(e)
    BY <1>8, ProtocolOfDevice
  <2>2. CASE e # d
    BY <1>1, <2>1, <2>2 DEF LoadedAndReported, LastOrder, Loaded, Quiet, Holds
  <2>3. CASE e = d
    <3>1. prepared[d] # to_be_prepared /\ out[d] # to_be_prepared
      BY <1>3, <2>1, <2>3 DEF LoadedAndReported, Loaded
    <3>2. loading[d].layer = to_be_prepared =>
             Quiet(d)' /\ Holds(d, to_be_prepared, dist[to_be_prepared])'
      BY <1>1, <1>2, <2>1, <2>3 DEF LastOrder, Quiet, Holds
    <3>3. LoadedAndReported(d)'
      BY <1>1, <3>1, <3>2 DEF LoadedAndReported, Loaded
    <3>4. LastOrder(d)'
      BY <1>1, <1>2, <1>8, <2>1, <2>3 DEF LastOrder
    <3> QED BY <2>3, <3>3, <3>4
  <2> QED BY <2>2, <2>3
<1>9. LoadedOnce' /\ OrderedLast'
  BY <1>1, <1>8 DEF LoadedOnce, OrderedLast
<1>10. SwitchAgreed'
  BY <1>1 DEF Protocol, SwitchAgreed, Holds
<1>11. PassedUpdated' /\ StaleFirst'
  BY <1>1 DEF Protocol, PassedUpdated, StaleFirst
<1> QED BY <1>4, <1>5, <1>7, <1>9, <1>10, <1>11 DEF Protocol

-----------------------------------------------------------------------------
\* Before the first round nothing is ordered and all devices are alike.
LEMMA InitIInv == Init => IInv
<1> SUFFICES ASSUME Init PROVE IInv
  OBVIOUS
<1> USE LayerNumAssumption, MaxRoundsAssumption
<1>1. TypeOK
  <2>1. NoInfo \in [update : LayerIds, prepare : Tasks \union {NoTask}] /\ NoLayer \in LayerIds
    BY DEF NoInfo, LayerIds
  <2>2. NoTask \in Loads /\ \A l \in Layers : Weights(l, 0) \in Loads
    BY DEF Loads, Tasks, Weights
  <2>3. /\ buffer \in [Devices -> Loads] /\ weights \in [Devices -> [Layers -> Loads]]
        /\ map_buffer \in [Devices -> [Layers -> 0 .. MaxRounds]]
        /\ routing \in [Devices -> [Layers -> 0 .. MaxRounds]]
        /\ dist \in [Layers -> 0 .. MaxRounds] /\ rounds \in 0 .. MaxRounds
    BY <2>2 DEF Init
  <2>4. /\ prepared \in [Devices -> LayerIds] /\ out \in [Devices -> LayerIds]
        /\ ready_layer \in [Devices -> LayerIds]
        /\ loading \in [Devices -> Tasks \union {NoTask}] /\ tasks \in [Devices -> Seq(Tasks)]
        /\ phase \in [Devices -> {"done", "execute", "forward", "reset", "output"}]
    BY <2>1 DEF Init
  <2>5. /\ {load_queue, stale, crowded} \subseteq BOOLEAN
        /\ enabled \subseteq Layers /\ suspect \subseteq Layers
    BY DEF Init
  <2> QED BY <2>1, <2>3, <2>4, <2>5 DEF Init, TypeOK
<1>2. WeightsOfRouting /\ ReadyLoaded /\ OrderedOnce /\ LoadedOnce /\ OrderedLast
  BY DEF Init, WeightsOfRouting, ReadyLoaded, OrderedOnce, LoadedOnce, OrderedLast
<1>3. SwitchAgreed /\ RoutingAgreed /\ PassedUpdated /\ StaleFirst
  BY DEF Init, SwitchAgreed, RoutingAgreed, PassedUpdated, StaleFirst, NoInfo
<1> QED BY <1>1, <1>2, <1>3 DEF IInv, Protocol

\* The invariant is inductive: one case per action.
LEMMA NextIInv == IInv /\ [Next]_vars => IInv'
<1> SUFFICES ASSUME IInv, [Next]_vars PROVE Protocol'
  BY TypeNext DEF IInv
<1>1. TypeOK
  BY DEF IInv
<1>2. Protocol
  BY DEF IInv
<1>3. ASSUME NEW selected \in SUBSET Layers, Rebalance(selected) PROVE Protocol'
  BY <1>1, <1>2, <1>3, RebalanceKeeps
<1>4. CASE Aggregate \/ UNCHANGED vars
  <2>1. UNCHANGED <<stale, suspect, dist, enabled, to_be_prepared, prepared, ready, preparing, info, phase, out,
                    tasks, loading, ready_layer, map_buffer, buffer, weights, routing>>
    BY <1>4 DEF Aggregate, vars, managerVars, stepVars, loaderVars, layerVars
  <2>2. WeightsOfRouting' /\ ReadyLoaded' /\ RoutingAgreed' /\ SwitchAgreed' /\ PassedUpdated'
        /\ StaleFirst'
    BY <1>2, <2>1 DEF Protocol, WeightsOfRouting, ReadyLoaded, RoutingAgreed, SwitchAgreed,
                      PassedUpdated, StaleFirst, Quiet, Holds
  <2>3. OrderedOnce' /\ LoadedOnce' /\ OrderedLast'
    BY <1>2, <2>1 DEF Protocol, OrderedOnce, LoadedOnce, OrderedLast, LoadedAndReported, LastOrder,
                      Loaded, Ordered, Quiet, Holds
  <2> QED BY <2>2, <2>3 DEF Protocol
<1>5. CASE ManagerStep
  BY <1>1, <1>2, <1>5, ManagerStepKeeps, ManagerStepStaleKeeps
<1>6. CASE BeginStep
  BY <1>1, <1>2, <1>6, BeginStepKeeps
<1>7. CASE EndStep
  BY <1>1, <1>2, <1>7, EndStepKeeps
<1>8. ASSUME NEW d \in Devices, EplbExecute(d) PROVE Protocol'
  BY <1>1, <1>2, <1>8, EplbExecuteKeeps
<1>9. ASSUME NEW d \in Devices, GetReadyLayer(d) PROVE Protocol'
  BY <1>1, <1>2, <1>9, GetReadyLayerKeeps
<1>10. ASSUME NEW d \in Devices, ResetReadyLayer(d) PROVE Protocol'
  BY <1>1, <1>2, <1>10, ResetReadyLayerKeeps
<1>11. ASSUME NEW d \in Devices, PrepareBegin(d) PROVE Protocol'
  BY <1>1, <1>2, <1>11, PrepareBeginKeeps
<1>12. ASSUME NEW d \in Devices, PrepareEnd(d) PROVE Protocol'
  BY <1>1, <1>2, <1>12, PrepareEndKeeps
<1> QED
  BY <1>3, <1>4, <1>5, <1>6, <1>7, <1>8, <1>9, <1>10, <1>11, <1>12
  DEF Next, EngineStep, DeviceStep, LoaderStep

\* The inductive invariant holds throughout.
LEMMA Invariance == Spec => []IInv
BY InitIInv, NextIInv, PTL DEF Spec

\* TypeOK holds in every state of every instance: an order, a report or a buffer
\* always names a layer and a distribution of some round.
THEOREM TypeCorrect == Spec => []TypeOK
<1>1. IInv => TypeOK
  BY DEF IInv
<1> QED BY Invariance, <1>1, PTL

\* WeightsMatchRouting: however many devices load at their own pace, no device
\* swaps in a buffer that is half loaded or holds another layer or distribution,
\* for every layer that was never made ready on old reports.
THEOREM SwitchIsSound == Spec => []WeightsMatchRouting
<1>1. IInv => WeightsMatchRouting
  BY DEF IInv, Protocol, WeightsOfRouting, WeightsMatchRouting
<1> QED BY Invariance, <1>1, PTL

\* DevicesAgree: between two steps all devices route every layer that was never
\* made ready on old reports by the same distribution, also while other layers
\* are switched on old reports.
THEOREM RoutingIsUniform == Spec => []DevicesAgree
<1>1. IInv => DevicesAgree
  BY DEF IInv, Protocol, RoutingAgreed, StepIdle, DevicesAgree
<1> QED BY Invariance, <1>1, PTL

\* FreshLayersUpdated: when the manager has no more orders, every layer of the
\* last round that was never made ready on old reports runs with its new
\* distribution on every device.
THEOREM RoundsTakeEffect == Spec => []FreshLayersUpdated
<1>1. IInv => FreshLayersUpdated
  <2> SUFFICES ASSUME IInv, Settled, NEW d \in Devices, NEW l \in enabled \ suspect
               PROVE  weights[d][l] = Weights(l, dist[l])
    BY DEF FreshLayersUpdated
  <2>1. l # NoLayer
    BY LayerNumAssumption DEF IInv, TypeOK, Layers, NoLayer
  <2> QED BY <2>1 DEF IInv, Protocol, PassedUpdated, Settled, StepIdle
<1> QED BY Invariance, <1>1, PTL
=============================================================================
