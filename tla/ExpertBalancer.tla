--------------------------- MODULE ExpertBalancer ---------------------------
(***************************************************************************)
(* Expert-parallel load balancing (EPLB): the EplbManager with its two     *)
(* threads, the engine that carries its orders to the devices with every   *)
(* step, and the EplbExecutor of every device with its worker thread.      *)
(*                                                                         *)
(* A layer is moved to a new distribution in two phases.  All devices load *)
(* its weights into their spare buffer while they go on computing; when    *)
(* every one has reported that it is done, the next step makes all of them *)
(* swap the buffer in.  A device has one spare buffer for all layers.      *)
(*                                                                         *)
(* A distribution of a layer is the number of the round that computed it.  *)
(* Loads, and the policy that turns them into distributions, are left out: *)
(* a later round may select any layers.  Schedule overlap is off, so the   *)
(* results of a step are processed before the next one is built.           *)
(***************************************************************************)
EXTENDS Integers, Sequences, FiniteSets, FiniteSetsExt

CONSTANTS
    Devices,      \* devices
    LayerNum,     \* layer_num_
    MaxRounds     \* bound: rebalancing rounds

ASSUME DevicesAssumption == Devices # {}
ASSUME LayerNumAssumption == LayerNum \in Nat \ {0}
ASSUME MaxRoundsAssumption == MaxRounds \in Nat

Layers == 0 .. LayerNum - 1
NoLayer == -1

VARIABLES
    rounds,       \* rounds so far
    load_queue,   \* expert_load_queue is not empty
    dist,         \* expert_distribution
    enabled,      \* enable_update_vec, as the set of layers that are true
    to_be_prepared,
    prepared,     \* prepared_layer_id
    ready,        \* ready_layer_id of the manager
    preparing,    \* preparing_layer_id
    info,         \* the EplbInfo of the step under way
    phase,        \* what a device has done of the step under way
    out,          \* prepared_layer_id of a device's ForwardOutput
    tasks,        \* tasks_ of a device's executor
    loading,      \* the task its worker thread works on, or NoTask
    ready_layer,  \* ready_layer_id_ of the executor
    buffer,       \* ExpertBuffer::Instance(): whose weights it holds
    map_buffer,   \* expert_routing_map_buffer_ of every layer
    weights,      \* the weights a layer computes with
    routing,      \* expert_routing_map_ of a layer
    stale,        \* ghost: the layer to be prepared was in use when its turn came
    crowded,      \* ghost: a load of any layer was under way then
    suspect       \* ghost: layers that were made ready while stale

managerVars == <<rounds, dist, enabled, to_be_prepared, prepared, ready, preparing, stale,
                 crowded, suspect>>
stepVars == <<info, phase, out>>
loaderVars == <<tasks, loading, ready_layer, map_buffer>>
layerVars == <<buffer, weights, routing>>
vars == <<rounds, load_queue, dist, enabled, to_be_prepared, prepared, ready, preparing, info,
          phase, out, tasks, loading, ready_layer, buffer, map_buffer, weights, routing, stale,
          crowded, suspect>>

Weights(l, v) == [layer |-> l, dist |-> v]
NoTask == Weights(NoLayer, 0)
Partial == Weights(NoLayer, -1)
Filling == Weights(NoLayer, -2)
NoInfo == [update |-> NoLayer, prepare |-> NoTask]

Init ==
    /\ rounds = 0 /\ load_queue = FALSE
    /\ dist = [l \in Layers |-> 0] /\ enabled = {}
    /\ to_be_prepared = NoLayer /\ prepared = [d \in Devices |-> NoLayer]
    /\ ready = NoLayer /\ preparing = NoLayer
    /\ info = NoInfo /\ phase = [d \in Devices |-> "done"] /\ out = [d \in Devices |-> NoLayer]
    /\ tasks = [d \in Devices |-> <<>>] /\ loading = [d \in Devices |-> NoTask]
    /\ ready_layer = [d \in Devices |-> NoLayer]
    /\ buffer = [d \in Devices |-> NoTask]
    /\ map_buffer = [d \in Devices |-> [l \in Layers |-> 0]]
    /\ weights = [d \in Devices |-> [l \in Layers |-> Weights(l, 0)]]
    /\ routing = [d \in Devices |-> [l \in Layers |-> 0]]
    /\ stale = FALSE /\ crowded = FALSE /\ suspect = {}

\* Mutant: the end of the vector is taken for a layer.
FindNextTrueEnd(set, start) ==
    LET rest == {l \in set : l >= start}
    IN  IF rest = {} THEN LayerNum ELSE Min(rest)

\* find_next_true
FindNextTrue(set, start) ==
    LET rest == {l \in set : l >= start}
    IN  IF rest = {} THEN NoLayer ELSE Min(rest)

-----------------------------------------------------------------------------
\* A layer that the last orders are still about: reported as prepared, ordered
\* and not yet superseded, or somewhere on its way through a device.
InUse(l) ==
    \/ l = preparing
    \/ \E d \in Devices :
         \/ l \in {prepared[d], loading[d].layer, ready_layer[d], out[d], info.prepare.layer}
         \/ \E i \in DOMAIN tasks[d] : tasks[d][i].layer = l

\* Something is queued, being loaded or being reported on a device.
Busy ==
    \E d \in Devices :
        \/ tasks[d] # <<>> \/ loading[d] # NoTask
        \/ {ready_layer[d], out[d], info.prepare.layer} # {NoLayer}

\* What the ghosts note when the turn of layer l (or of none) has come.
Turn(l) ==
    /\ stale' = (l # NoLayer /\ InUse(l))
    /\ crowded' = (l # NoLayer /\ Busy)

\* rebalance_experts_loop: the queued loads are added up; when the interval is
\* over, a new distribution is computed for the layers whose load has changed:
\* for all of them in the first round, which compares with a load of zeros.
Rebalance(selected) ==
    LET first == FindNextTrue(selected, 0)
    IN  /\ load_queue /\ rounds < MaxRounds
        /\ rounds = 0 => selected = Layers
        /\ load_queue' = FALSE
        /\ rounds' = rounds + 1
        /\ dist' = [l \in Layers |-> IF l \in selected THEN rounds + 1 ELSE dist[l]]
        /\ enabled' = selected
        /\ to_be_prepared' = first
        /\ Turn(first)
        /\ UNCHANGED <<suspect, prepared, ready, preparing, stepVars, loaderVars, layerVars>>

\* The interval is not over: the loads are only added up.
Aggregate ==
    /\ load_queue
    /\ load_queue' = FALSE
    /\ UNCHANGED <<managerVars, stepVars, loaderVars, layerVars>>

\* Mutant: one device is enough.
AllPreparedAny == \E d \in Devices : prepared[d] = to_be_prepared

AllPrepared == \A d \in Devices : prepared[d] = to_be_prepared

\* Mutant: the layer after next is prepared.
ManagerStepSkips ==
    /\ to_be_prepared # NoLayer /\ AllPrepared
    /\ ready' = to_be_prepared
    /\ to_be_prepared' = FindNextTrue(enabled, to_be_prepared + 2)
    /\ preparing' = IF to_be_prepared' = NoLayer THEN NoLayer ELSE preparing
    /\ Turn(to_be_prepared')
    /\ suspect' = IF stale THEN suspect \union {to_be_prepared} ELSE suspect
    /\ UNCHANGED <<rounds, load_queue, dist, enabled, prepared, stepVars, loaderVars, layerVars>>

\* eplb_manager_loop: every device has reported the layer, so it may be switched
\* and the next one prepared.
ManagerStep ==
    /\ to_be_prepared # NoLayer /\ AllPrepared
    /\ ready' = to_be_prepared
    /\ to_be_prepared' = FindNextTrue(enabled, to_be_prepared + 1)
    /\ preparing' = IF to_be_prepared' = NoLayer THEN NoLayer ELSE preparing
    /\ Turn(to_be_prepared')
    /\ suspect' = IF stale THEN suspect \union {to_be_prepared} ELSE suspect
    /\ UNCHANGED <<rounds, load_queue, dist, enabled, prepared, stepVars, loaderVars, layerVars>>

-----------------------------------------------------------------------------
\* The engine.  prepare_inputs puts get_eplb_info into every device's input.
StepIdle == \A d \in Devices : phase[d] = "done" /\ out[d] = NoLayer

MustPrepare == preparing # to_be_prepared /\ to_be_prepared # NoLayer

\* The orders of a step: to switch the layer that is ready, and to prepare the
\* next one if that was not ordered before.
BeginStep ==
    /\ StepIdle
    /\ info' = [update |-> ready,
                prepare |-> IF MustPrepare THEN Weights(to_be_prepared, dist[to_be_prepared]) ELSE NoTask]
    /\ preparing' = IF MustPrepare THEN to_be_prepared ELSE preparing
    /\ ready' = NoLayer
    /\ phase' = [d \in Devices |-> "execute"]
    /\ UNCHANGED <<rounds, load_queue, dist, enabled, to_be_prepared, prepared, stale, crowded,
                   suspect, out, loaderVars, layerVars>>

\* update_expert_weight swaps the buffer and the layer's weights.  When the worker
\* thread is loading into the buffer, both end up with a mixture.
Swap(d, l) ==
    /\ weights' = [weights EXCEPT ![d][l] = IF loading[d] = NoTask THEN buffer[d] ELSE Partial]
    /\ buffer' = [buffer EXCEPT ![d] = IF loading[d] = NoTask THEN weights[d][l] ELSE Partial]
    /\ routing' = [routing EXCEPT ![d][l] = map_buffer[d][l]]

\* eplb_execute on a device: first the switch, then the order to prepare.
EplbExecute(d) ==
    /\ phase[d] = "execute"
    /\ phase' = [phase EXCEPT ![d] = "forward"]
    /\ IF info.update # NoLayer THEN Swap(d, info.update) ELSE UNCHANGED layerVars
    /\ tasks' = IF info.prepare = NoTask THEN tasks
                ELSE [tasks EXCEPT ![d] = Append(@, info.prepare)]
    /\ UNCHANGED <<managerVars, load_queue, info, out, loading, ready_layer, map_buffer>>

\* Mutant: the report is reset whether there was one or not.
GetReadyLayerResets(d) ==
    /\ phase[d] = "forward"
    /\ out' = [out EXCEPT ![d] = ready_layer[d]]
    /\ phase' = [phase EXCEPT ![d] = "reset"]
    /\ UNCHANGED <<managerVars, load_queue, info, loaderVars, layerVars>>

\* After the forward pass the device reads what its worker thread has done...
GetReadyLayer(d) ==
    /\ phase[d] = "forward"
    /\ out' = [out EXCEPT ![d] = ready_layer[d]]
    /\ phase' = [phase EXCEPT ![d] = IF ready_layer[d] = NoLayer THEN "output" ELSE "reset"]
    /\ UNCHANGED <<managerVars, load_queue, info, loaderVars, layerVars>>

\* ... and resets it, under a lock of its own.
ResetReadyLayer(d) ==
    /\ phase[d] = "reset"
    /\ ready_layer' = [ready_layer EXCEPT ![d] = NoLayer]
    /\ phase' = [phase EXCEPT ![d] = "output"]
    /\ UNCHANGED <<managerVars, load_queue, info, out, tasks, loading, map_buffer, layerVars>>

\* Mutant: a device without a report counts as prepared.
SetPreparedAlways == [d \in Devices |-> to_be_prepared]

\* set_prepared_layer_ids takes the reports on the layer it waits for.
SetPrepared == [d \in Devices |-> IF out[d] = to_be_prepared THEN out[d] ELSE prepared[d]]

\* process_eplb_data, once all devices have answered.
EndStep ==
    /\ \A d \in Devices : phase[d] = "output"
    /\ prepared' = SetPrepared
    /\ load_queue' = TRUE
    /\ phase' = [d \in Devices |-> "done"]
    /\ out' = [d \in Devices |-> NoLayer]
    /\ info' = NoInfo
    /\ UNCHANGED <<rounds, dist, enabled, to_be_prepared, ready, preparing, stale, crowded,
                   suspect, loaderVars, layerVars>>

-----------------------------------------------------------------------------
\* eplb_worker_loop takes a task and loads the experts of its layer.
PrepareBegin(d) ==
    /\ loading[d] = NoTask /\ tasks[d] # <<>>
    /\ loading' = [loading EXCEPT ![d] = Head(tasks[d])]
    /\ tasks' = [tasks EXCEPT ![d] = Tail(@)]
    /\ map_buffer' = [map_buffer EXCEPT ![d][Head(tasks[d]).layer] = Head(tasks[d]).dist]
    /\ buffer' = [buffer EXCEPT ![d] = Filling]
    /\ UNCHANGED <<managerVars, load_queue, stepVars, ready_layer, weights, routing>>

\* The stream is synchronized, then the layer is ready.  A switch in mid-load has
\* spoilt it.
PrepareEnd(d) ==
    /\ loading[d] # NoTask
    /\ buffer' = [buffer EXCEPT ![d] = IF @ = Filling THEN loading[d] ELSE Partial]
    /\ ready_layer' = [ready_layer EXCEPT ![d] = loading[d].layer]
    /\ loading' = [loading EXCEPT ![d] = NoTask]
    /\ UNCHANGED <<managerVars, load_queue, stepVars, tasks, map_buffer, weights, routing>>

-----------------------------------------------------------------------------
EngineStep == BeginStep \/ EndStep
DeviceStep(d) == EplbExecute(d) \/ GetReadyLayer(d) \/ ResetReadyLayer(d)
LoaderStep(d) == PrepareBegin(d) \/ PrepareEnd(d)

Next ==
    \/ Aggregate \/ \E selected \in SUBSET Layers : Rebalance(selected)
    \/ ManagerStep \/ EngineStep
    \/ \E d \in Devices : DeviceStep(d) \/ LoaderStep(d)

\* The engine keeps stepping while there are requests; the threads run.
Spec ==
    /\ Init /\ [][Next]_vars
    /\ WF_vars(ManagerStep) /\ WF_vars(EngineStep)
    /\ \A d \in Devices : WF_vars(DeviceStep(d)) /\ WF_vars(LoaderStep(d))

-----------------------------------------------------------------------------
LayerIds == Layers \union {NoLayer}
Tasks == [layer : Layers, dist : 0 .. MaxRounds]
Loads == Tasks \union {NoTask, Partial, Filling}

TypeOK ==
    /\ rounds \in 0 .. MaxRounds /\ {load_queue, stale, crowded} \subseteq BOOLEAN
    /\ suspect \subseteq Layers
    /\ dist \in [Layers -> 0 .. MaxRounds] /\ enabled \subseteq Layers
    /\ to_be_prepared \in LayerIds /\ ready \in LayerIds /\ preparing \in LayerIds
    /\ prepared \in [Devices -> LayerIds] /\ out \in [Devices -> LayerIds]
    /\ info \in [update : LayerIds, prepare : Tasks \union {NoTask}]
    /\ phase \in [Devices -> {"done", "execute", "forward", "reset", "output"}]
    /\ tasks \in [Devices -> Seq(Tasks)]
    /\ loading \in [Devices -> Tasks \union {NoTask}] /\ ready_layer \in [Devices -> LayerIds]
    /\ buffer \in [Devices -> Loads] /\ weights \in [Devices -> [Layers -> Loads]]
    /\ map_buffer \in [Devices -> [Layers -> 0 .. MaxRounds]]
    /\ routing \in [Devices -> [Layers -> 0 .. MaxRounds]]

\* A layer computes with the weights its routing map points to: no device swaps
\* in a buffer that is half loaded, or that holds another layer or distribution.
\* Excepted are the layers that were ever made ready on old reports: they were in
\* use when their turn came, and prepared_layer_id, which is never reset, may have
\* been complete before they were loaded.
WeightsMatchRouting ==
    \A d \in Devices, l \in Layers \ suspect : weights[d][l] = Weights(l, routing[d][l])

\* Between two steps all devices route by the same distribution of every layer,
\* though each has loaded it at its own pace; with the same exception.
DevicesAgree ==
    StepIdle => \A d, e \in Devices, l \in Layers \ suspect : routing[d][l] = routing[e][l]

\* The manager has no more orders to give.
Settled == to_be_prepared = NoLayer /\ ready = NoLayer /\ StepIdle

\* "When the similarity between consecutive loads for a layer is below
\* eplb_update_threshold, that layer is updated": once the manager is done, every
\* selected layer runs with its new distribution.
SelectedLayersUpdated ==
    Settled => \A d \in Devices, l \in enabled : weights[d][l] = Weights(l, dist[l])

\* The same for the layers that were never made ready on old reports, also when
\* the round interrupted another one.
FreshLayersUpdated ==
    Settled => \A d \in Devices, l \in enabled \ suspect : weights[d][l] = Weights(l, dist[l])

\* get_ready_layer_id: "return int32_t Layer ID with prepared weights (-1 if none)":
\* a device that has the layer to be prepared in its buffer has reported it or is
\* going to.
PreparedIsReported ==
    to_be_prepared # NoLayer =>
        \A d \in Devices :
            buffer[d] = Weights(to_be_prepared, dist[to_be_prepared]) =>
                to_be_prepared \in {prepared[d], out[d], ready_layer[d]}

\* Every round comes to its end, also one that interrupted another one, with two
\* exceptions: its current layer was in use when its turn came, or the turn came
\* while an older load was under way and the report on the layer was then lost
\* between get_ready_layer_id and reset_ready_layer_id.
RoundsEnd == []<>(Settled \/ stale \/ (crowded /\ ~PreparedIsReported))
=============================================================================
