------------------------------ MODULE WriteQueue ------------------------------
(***************************************************************************)
(* The in-memory queue between the DMA producer thread and the NVMe writer *)
(* thread of a storage worker (StorageWriteQueue, src/src/ccb_commands.c), *)
(* with the worker state machine of src/src/storage_worker.c.  Every       *)
(* operation is one lock section, so one step.  A slot's state counters    *)
(* are the cardinalities proved equal to them in SlotTableProofs.          *)
(*                                                                         *)
(* The writer sleeps on the condition variable not_empty; writer_waiting   *)
(* holds while it does and a signal or broadcast clears it, so a wakeup    *)
(* that the code forgets would leave it asleep.                            *)
(***************************************************************************)
EXTENDS DmaRing

VARIABLES
    slots,                  \* q->slots.states
    items,                  \* q->items[head..tail): the FIFO of filled slots
    worker_state, error,    \* q->worker_state, q->error
    requeue_enabled, writer_ready, producer_ready,
    writer_waiting          \* the writer is inside pthread_cond_wait

queueVars == <<slots, items, worker_state, error, requeue_enabled,
               writer_ready, producer_ready, writer_waiting>>

\* StorageSlotState
SlotStates == {"DMA_WRITABLE", "DMA_COMPLETED_UNHARVESTED", "READY_FOR_NVME",
               "NVME_BUSY", "REQUEUE_PENDING", "FREE"}

\* PendingDdrSlot: a filled slot, the frame it held when it was harvested, and
\* where in the file it goes.
Item == [slot : Slots, frame : 1 .. MaxFrames, lba : Nat \ {0}]

\* StorageWorkerState, in the order of the enum.
WorkerStates == {"INIT", "READY", "ARMED", "RUNNING", "WAIT_BOUNDARY", "DMA_QUIESCING",
                 "HARVESTING", "DRAINING", "DRAINED_WAIT_STOP", "FINALIZING", "DONE", "FAILED"}

\* storage_worker.c: transition_allowed
transition_allowed(expected, next) ==
    \/ next = "FAILED" /\ expected \notin {"DONE", "FAILED"}
    \/ <<expected, next>> \in
         {<<"INIT", "READY">>, <<"READY", "ARMED">>, <<"ARMED", "RUNNING">>,
          <<"RUNNING", "WAIT_BOUNDARY">>, <<"RUNNING", "DRAINING">>,
          <<"WAIT_BOUNDARY", "DMA_QUIESCING">>, <<"DMA_QUIESCING", "HARVESTING">>,
          <<"HARVESTING", "DRAINING">>, <<"DRAINING", "DRAINED_WAIT_STOP">>,
          <<"DRAINED_WAIT_STOP", "FINALIZING">>, <<"FINALIZING", "DONE">>}

\* A can_requeue that still allows a slot back after STOP was seen.
can_requeue_until_quiesce == worker_state \in {"RUNNING", "WAIT_BOUNDARY", "DMA_QUIESCING"}

\* storage_worker_stop_latched, _producer_done, _can_requeue
stop_latched == worker_state \notin {"INIT", "READY", "ARMED", "RUNNING"}
producer_done == worker_state \in {"DRAINING", "DRAINED_WAIT_STOP", "FINALIZING",
                                   "DONE", "FAILED"}
can_requeue == worker_state = "RUNNING"

QueueInit ==    \* storage_queue_init, then storage_queue_mark_ready
    /\ slots = [s \in Slots |-> "DMA_WRITABLE"]
    /\ items = <<>>
    /\ worker_state = "READY" /\ error = FALSE
    /\ requeue_enabled = TRUE
    /\ writer_ready = FALSE /\ producer_ready = FALSE
    /\ writer_waiting = FALSE

QueueTypeOK ==
    /\ slots \in [Slots -> SlotStates]
    /\ items \in Seq(Item)
    /\ worker_state \in WorkerStates /\ error \in BOOLEAN
    /\ requeue_enabled \in BOOLEAN /\ writer_ready \in BOOLEAN /\ producer_ready \in BOOLEAN
    /\ writer_waiting \in BOOLEAN

\* A wakeup that is never sent.
no_broadcast == UNCHANGED writer_waiting

\* pthread_cond_broadcast or _signal on not_empty
broadcast == writer_waiting' = FALSE

\* storage_queue_transition_locked
TransitionOK(expected, next) == worker_state = expected /\ transition_allowed(expected, next)
transition_locked(expected, next) ==
    IF TransitionOK(expected, next)
    THEN worker_state' = next /\ UNCHANGED error
    ELSE error' = TRUE /\ UNCHANGED worker_state

\* storage_queue_fail_locked
fail_locked ==
    /\ worker_state' = IF worker_state \in {"DONE", "FAILED"} THEN worker_state ELSE "FAILED"
    /\ error' = TRUE

\* storage_fail_fatal, storage_queue_request_abort: fail and wake every waiter.
fail_and_wake ==
    /\ fail_locked /\ broadcast
    /\ UNCHANGED <<slots, items, requeue_enabled, writer_ready, producer_ready>>

\* storage_queue_enable_run
queue_enable_run ==
    /\ transition_locked("READY", "ARMED") /\ broadcast
    /\ UNCHANGED <<slots, items, requeue_enabled, writer_ready, producer_ready>>

\* storage_queue_set_writer_ready
queue_set_writer_ready(success) ==
    /\ IF success /\ worker_state = "ARMED" /\ ~writer_ready
       THEN writer_ready' = TRUE /\ UNCHANGED <<worker_state, error>>
       ELSE fail_locked /\ UNCHANGED writer_ready
    /\ broadcast
    /\ UNCHANGED <<slots, items, requeue_enabled, producer_ready>>

\* storage_queue_set_producer_ready
ProducerReadyOK == worker_state = "ARMED" /\ writer_ready /\ ~producer_ready
queue_set_producer_ready(success) ==
    /\ IF success /\ ProducerReadyOK
       THEN producer_ready' = TRUE /\ UNCHANGED <<worker_state, error>>
       ELSE fail_locked /\ UNCHANGED producer_ready
    /\ broadcast
    /\ UNCHANGED <<slots, items, requeue_enabled, writer_ready>>

\* storage_queue_mark_running (does not wake anybody)
MarkRunningOK == writer_ready /\ producer_ready /\ TransitionOK("ARMED", "RUNNING")
queue_mark_running ==
    /\ IF writer_ready /\ producer_ready
       THEN transition_locked("ARMED", "RUNNING")
       ELSE fail_locked
    /\ UNCHANGED <<slots, items, requeue_enabled, writer_ready, producer_ready, writer_waiting>>

\* storage_queue_request_stop_state
RequestStopOK == worker_state = "RUNNING" \/ stop_latched
queue_request_stop_state ==
    /\ IF worker_state = "RUNNING" THEN transition_locked("RUNNING", "WAIT_BOUNDARY")
       ELSE IF ~stop_latched THEN fail_locked
       ELSE UNCHANGED <<worker_state, error>>
    /\ broadcast
    /\ UNCHANGED <<slots, items, requeue_enabled, writer_ready, producer_ready>>

\* storage_queue_latch_stop moves on from RUNNING or WAIT_BOUNDARY only.
LatchedState(state) ==
    IF state \in {"RUNNING", "WAIT_BOUNDARY"} THEN "DMA_QUIESCING" ELSE state

queue_latch_stop ==
    /\ worker_state' = LatchedState(worker_state) /\ UNCHANGED error
    /\ requeue_enabled' = FALSE
    /\ dma_latch_stop
    /\ broadcast
    /\ UNCHANGED <<slots, items, writer_ready, producer_ready>>

\* storage_queue_mark_harvesting
MarkHarvestingOK == worker_state = "FAILED" \/ TransitionOK("DMA_QUIESCING", "HARVESTING")
queue_mark_harvesting ==
    /\ IF worker_state = "FAILED" THEN UNCHANGED <<worker_state, error>>
       ELSE transition_locked("DMA_QUIESCING", "HARVESTING")
    /\ broadcast
    /\ UNCHANGED <<slots, items, requeue_enabled, writer_ready, producer_ready>>

\* storage_queue_finish; a state it does not expect becomes FAILED and asks for STOP.
FinishFails == worker_state \notin {"RUNNING", "HARVESTING", "DRAINING", "FINALIZING",
                                    "DONE", "FAILED"}
queue_finish ==
    /\ IF worker_state \in {"RUNNING", "HARVESTING"}
       THEN worker_state' = "DRAINING" /\ UNCHANGED error
       ELSE IF FinishFails THEN fail_locked
       ELSE UNCHANGED <<worker_state, error>>
    /\ broadcast
    /\ UNCHANGED <<slots, items, requeue_enabled, writer_ready, producer_ready>>

\* storage_queue_mark_finalizing, then _mark_done: DRAINING to DONE by two calls.
queue_mark_finalizing ==
    /\ IF worker_state = "DRAINING" THEN worker_state' = "FINALIZING" /\ UNCHANGED error
       ELSE error' = TRUE /\ UNCHANGED worker_state
    /\ UNCHANGED <<slots, items, requeue_enabled, writer_ready, producer_ready, writer_waiting>>
queue_mark_done ==
    /\ transition_locked("FINALIZING", "DONE")
    /\ UNCHANGED <<slots, items, requeue_enabled, writer_ready, producer_ready, writer_waiting>>

------------------------------------------------------------------------------
(* The producer's hand-over of a harvested batch.                          *)

SlotsOf(batch) == {batch[i].slot : i \in DOMAIN batch}
WritableCount == Cardinality({s \in Slots : slots[s] = "DMA_WRITABLE"})

\* A push that does not look at the slots' owners.
PushRejectedOnlyWhenFull(batch) == error \/ Len(batch) > NSlots - Len(items)

\* storage_local_queue_push_batch validates the whole batch first ...
PushRejected(batch) ==
    \/ error
    \/ Len(batch) > NSlots - Len(items)
    \/ Len(batch) > WritableCount
    \/ \E s \in SlotsOf(batch) : slots[s] # "DMA_WRITABLE"
    \/ Cardinality(SlotsOf(batch)) # Len(batch)

\* ... then moves every slot WRITABLE -> COMPLETED_UNHARVESTED -> READY.
MoveSlots(table, set, state) == [s \in Slots |-> IF s \in set THEN state ELSE table[s]]

\* After a batch: `released` slots went to FREE (storage_release_harvested_slot),
\* `failed` ones to COMPLETED_UNHARVESTED (storage_mark_harvest_slot_failed),
\* and `batch` was pushed unless that is empty or refused.
\* A release or a mark finds the slot WRITABLE or sets q->error.
hand_over(batch, released, failed) ==
    LET writable(set) == {s \in set : slots[s] = "DMA_WRITABLE"}
        table == MoveSlots(MoveSlots(slots, writable(released), "FREE"),
                           writable(failed), "DMA_COMPLETED_UNHARVESTED")
        spoiled == failed # {} \/ writable(released) # released
        pushed == batch # <<>> /\ ~spoiled /\ ~PushRejected(batch)
    IN  /\ slots' = IF pushed THEN MoveSlots(table, SlotsOf(batch), "READY_FOR_NVME") ELSE table
        /\ items' = IF pushed THEN items \o batch ELSE items
        /\ error' = (error \/ spoiled \/ (batch # <<>> /\ ~pushed))
        /\ writer_waiting' = IF batch # <<>> \/ failed # {} THEN FALSE ELSE writer_waiting
        /\ UNCHANGED <<worker_state, requeue_enabled, writer_ready, producer_ready>>

\* hand_over succeeds as a push.
HandOverPushes(batch, released, failed) ==
    /\ failed = {} /\ \A s \in released : slots[s] = "DMA_WRITABLE"
    /\ batch # <<>> /\ ~PushRejected(batch)

------------------------------------------------------------------------------
(* The writer's side.                                                      *)

\* storage_queue_pop: whether it sleeps, and its result otherwise.
PopSleeps(wait) == wait /\ ~producer_done /\ ~error /\ items = <<>>

PopResult == CASE error -> "ERROR"
               [] items = <<>> /\ producer_done -> "DRAINED"
               [] items = <<>> /\ ~producer_done -> "TEMP_EMPTY"
               [] OTHER -> "ITEM"

queue_pop_item ==
    /\ items' = Tail(items)
    /\ slots' = [slots EXCEPT ![Head(items).slot] = "NVME_BUSY"]
    /\ UNCHANGED <<worker_state, error, requeue_enabled, writer_ready, producer_ready,
                   writer_waiting>>

\* A completion that gives the slot back whatever the worker's state.
always_requeue == TRUE

\* storage_complete_slot: should_requeue
should_requeue == requeue_enabled /\ can_requeue

\* storage_complete_slot of a NVME_BUSY slot.  dma_requeue_one runs inside the
\* queue lock, so a STOP latch comes before or after it.
complete_slot(slot) ==
    IF ~should_requeue
    THEN /\ slots' = [slots EXCEPT ![slot] = "FREE"]
         /\ IF dma_requeue_after_stop_count # 0 THEN fail_locked /\ broadcast
            ELSE UNCHANGED <<worker_state, error, writer_waiting>>
         /\ UNCHANGED <<items, requeue_enabled, writer_ready, producer_ready, dmaVars>>
    ELSE /\ dma_requeue_one(slot)
         /\ IF requeue_refused \/ ~requeue_ok
            THEN /\ slots' = [slots EXCEPT ![slot] = "REQUEUE_PENDING"]
                 /\ fail_locked /\ broadcast
            ELSE /\ slots' = [slots EXCEPT ![slot] = "DMA_WRITABLE"]
                 /\ UNCHANGED <<worker_state, error, writer_waiting>>
         /\ UNCHANGED <<items, requeue_enabled, writer_ready, producer_ready>>

\* storage_complete_slot returns -1.
CompleteFails == IF should_requeue THEN requeue_refused \/ ~requeue_ok
                 ELSE dma_requeue_after_stop_count # 0
==============================================================================
