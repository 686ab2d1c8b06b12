---------------------------- MODULE CaptureWorker ----------------------------
(***************************************************************************)
(* One storage worker process of src/src/ccb_commands.c from the start     *)
(* gate to its result: the producer thread (the capture loop and the stop  *)
(* and cleanup paths of execute_write_with_result_mode), the NVMe writer   *)
(* thread (storage_nvme_writer_thread, or storage_nvme_cross_slot_writer_  *)
(* thread when CrossSlot), the S2MM engine of DmaRing and the NVMe device. *)
(* A step is one lock section or one access to the hardware, so the two    *)
(* threads and the two devices interleave between any two of them.         *)
(* Deadlines have no clock: where the code tests one, the step that gives  *)
(* up is simply enabled.  The capture is unbounded (no requested_size) and *)
(* not a dry run.                                                          *)
(***************************************************************************)
EXTENDS WriteQueue

CONSTANTS
    CrossSlot,    \* which writer thread runs
    MaxActive,    \* max_active_slots of the cross-slot engine
    StableScans   \* STORAGE_STOP_STABLE_EMPTY_SCANS

\* Faults: "dma" the engine fails by itself; "reset" dma_reset_full may fail;
\* "ipc" an event cannot be sent; "sched" a thread's real-time setup or the
\* engine creation fails; "nvme" an NVMe command fails or makes no progress;
\* "slow_writer" a join of the writer reaches its deadline.
FaultKinds == {"dma", "reset", "ipc", "sched", "nvme", "slow_writer"}

ASSUME CaptureWorkerAssumption ==
    /\ CrossSlot \in BOOLEAN
    /\ MaxActive \in Nat \ {0}
    /\ StableScans \in Nat \ {0}
    /\ Faults \subseteq FaultKinds

VARIABLES
    stop_requested,   \* g_storage_stop_requested or a control message latched
    \* producer thread
    ppc,              \* where it is
    stop_phase,       \* stop_state.state
    batch,            \* harvest_items[0..harvest_count)
    harvest_fatal,    \* the harvest that filled batch returned -1
    integrity,        \* producer_stats.receive_integrity_ok
    captured,         \* frames queued, in file order: bytes_captured, next_queue_lba
    harvested,        \* dma_harvested_payload_bytes, in frames
    tail_unqueued,    \* tail_unqueued_bytes, in frames
    scans,            \* consecutive_empty_scans
    quiesce_result,   \* result of storage_dma_quiesce_epoch ("NONE": not called)
    dma_stop_failed, writer_started,
    queue_destroyed, runtime_closed,
    result,           \* "none", then what the function returns
    \* writer thread and NVMe device
    wpc, active,      \* where it is; popped items not yet retired
    inflight,         \* those whose commands the device has not completed
    nvme_engine_quiesced,
    media,            \* the frame on each LBA of the file (0: not written)
    bytes_written

prodVars == <<ppc, stop_phase, batch, harvest_fatal, integrity, captured, harvested,
              tail_unqueued, scans, quiesce_result, dma_stop_failed, writer_started,
              queue_destroyed, runtime_closed, result>>
writerVars == <<wpc, active, inflight, nvme_engine_quiesced, media, bytes_written>>
vars == <<dmaVars, queueVars, prodVars, writerVars, stop_requested>>

\* Parts of prodVars that most producer steps leave alone.
countVars == <<captured, harvested, tail_unqueued>>
endVars == <<queue_destroyed, runtime_closed, result>>
stopVars == <<stop_phase, scans, quiesce_result, dma_stop_failed, writer_started>>
batchVars == <<batch, harvest_fatal>>

\* Bound: LBAs of the file, enough for every frame to be queued twice.
Lbas == 1 .. 2 * MaxFrames

Init ==
    /\ DmaInit /\ QueueInit
    /\ stop_requested = FALSE
    /\ ppc = "gate" /\ stop_phase = "NONE"
    /\ batch = <<>> /\ harvest_fatal = FALSE
    /\ integrity = TRUE
    /\ captured = <<>> /\ harvested = 0 /\ tail_unqueued = 0
    /\ scans = 0 /\ quiesce_result = "NONE" /\ dma_stop_failed = FALSE
    /\ writer_started = TRUE
    /\ queue_destroyed = FALSE /\ runtime_closed = FALSE /\ result = "none"
    /\ wpc = "wait_run" /\ active = {} /\ inflight = {}
    /\ nvme_engine_quiesced = TRUE        \* storage_queue_init
    /\ media = [l \in Lbas |-> 0]
    /\ bytes_written = 0

\* SIGTERM, a STOP or AUTO_DRAIN message, ring pressure or input idle.
RequestStop ==
    /\ ~stop_requested /\ ppc # "done"
    /\ stop_requested' = TRUE
    /\ UNCHANGED <<dmaVars, queueVars, prodVars, writerVars>>

\* The producer records an error and jumps to `out`, or goes on.
GoOut == ppc' = "out" /\ integrity' = FALSE
GoTo(pc) == ppc' = pc /\ UNCHANGED integrity

dma_quiesced == quiesce_result \in {"OK", "RESET_RECOVERED"}

------------------------------------------------------------------------------
(* Producer: start.                                                        *)

\* storage_wait_start_gate: ARM, dma_start, RUN.
P_Gate ==
    /\ ppc = "gate"
    /\ dma_start_s2mm_ring
    /\ GoTo("enable")
    /\ UNCHANGED <<queueVars, stopVars, batchVars, countVars, endVars, writerVars, stop_requested>>

\* The gate fails before ARM (engine untouched) or between ARM and RUN.
P_GateFail ==
    /\ ppc = "gate"
    /\ dma_start_s2mm_ring \/ UNCHANGED dmaVars
    /\ GoOut
    /\ UNCHANGED <<queueVars, stopVars, batchVars, countVars, endVars, writerVars, stop_requested>>

P_EnableRun ==
    /\ ppc = "enable"
    /\ queue_enable_run
    /\ IF TransitionOK("READY", "ARMED") THEN GoTo("wait_writer") ELSE GoOut
    /\ UNCHANGED <<dmaVars, stopVars, batchVars, countVars, endVars, writerVars, stop_requested>>

\* storage_queue_wait_writer_ready: ready, failed, or the deadline.
P_WaitWriterReady ==
    /\ ppc = "wait_writer"
    /\ \/ writer_ready /\ GoTo("prod_ready")
       \/ ~writer_ready /\ GoOut
    /\ UNCHANGED <<dmaVars, queueVars, stopVars, batchVars, countVars, endVars, writerVars,
                   stop_requested>>

\* storage_apply_producer_rt and storage_queue_set_producer_ready; a failure
\* ends in storage_fail_fatal.
P_ProducerReady(success) ==
    /\ ppc = "prod_ready"
    /\ success \/ "sched" \in Faults
    /\ queue_set_producer_ready(success)
    /\ IF success /\ ProducerReadyOK
       THEN GoTo("mark_running") /\ UNCHANGED stop_requested
       ELSE GoOut /\ stop_requested' = TRUE
    /\ UNCHANGED <<dmaVars, stopVars, batchVars, countVars, endVars, writerVars>>

P_MarkRunning ==
    /\ ppc = "mark_running"
    /\ MarkRunningOK
    /\ queue_mark_running
    /\ GoTo("loop")
    /\ UNCHANGED <<dmaVars, stopVars, batchVars, countVars, endVars, writerVars, stop_requested>>

\* The transition is refused, or RUNNING is reached but its event is not sent:
\* storage_fail_fatal either way.
P_MarkRunningFail ==
    /\ ppc = "mark_running"
    /\ ~MarkRunningOK \/ "ipc" \in Faults
    /\ fail_and_wake
    /\ GoOut /\ stop_requested' = TRUE
    /\ UNCHANGED <<dmaVars, stopVars, batchVars, countVars, endVars, writerVars>>

------------------------------------------------------------------------------
(* Producer: the capture loop.                                             *)

P_SeeError ==
    /\ ppc = "loop" /\ error
    /\ GoOut
    /\ UNCHANGED <<dmaVars, queueVars, stopVars, batchVars, countVars, endVars, writerVars,
                   stop_requested>>

\* First sight of STOP: no slot goes back to the engine from here on.
P_SeeStop ==
    /\ ppc = "loop" /\ ~error
    /\ stop_requested /\ stop_phase = "NONE"
    /\ queue_request_stop_state
    /\ stop_phase' = "WAIT_BOUNDARY"
    /\ \/ RequestStopOK /\ GoTo("loop")
       \/ (~RequestStopOK \/ "ipc" \in Faults) /\ GoOut
    /\ UNCHANGED <<dmaVars, scans, quiesce_result, dma_stop_failed, writer_started, batchVars,
                   countVars, endVars, writerVars, stop_requested>>

\* storage_stop_boundary_should_quiesce: between packets, or at the deadline
\* with the packet still open, which costs the capture its integrity.
P_Boundary ==
    /\ ppc = "loop" /\ ~error /\ stop_phase = "WAIT_BOUNDARY"
    /\ queue_latch_stop
    /\ stop_phase' = "DMA_QUIESCING"
    /\ ppc' = "quiesce"
    /\ integrity' = (integrity /\ ~dma_rx_packet_open)
    /\ UNCHANGED <<scans, quiesce_result, dma_stop_failed, writer_started, batchVars,
                   countVars, endVars, writerVars, stop_requested>>

P_BoundaryEventFail ==
    /\ ppc = "loop" /\ ~error /\ stop_phase = "WAIT_BOUNDARY"
    /\ "ipc" \in Faults /\ ~dma_rx_packet_open
    /\ GoOut
    /\ UNCHANGED <<dmaVars, queueVars, stopVars, batchVars, countVars, endVars, writerVars,
                   stop_requested>>

P_ClearRunStop ==
    /\ ppc = "quiesce"
    /\ clear_run_stop
    /\ GoTo("quiesce_wait")
    /\ UNCHANGED <<queueVars, stopVars, batchVars, countVars, endVars, writerVars, stop_requested>>

P_Quiesced(outcome) ==
    /\ ppc = "quiesce_wait" /\ outcome \in QuiesceOutcomes
    /\ dma_quiesce(outcome)
    /\ quiesce_result' = outcome
    /\ IF outcome = "FAILED"
       THEN stop_phase' = "FAILED" /\ GoOut /\ UNCHANGED queueVars
       ELSE /\ queue_mark_harvesting
            /\ \/ MarkHarvestingOK /\ stop_phase' = "HARVESTING" /\ GoTo("loop")
               \/ (~MarkHarvestingOK \/ "ipc" \in Faults) /\ UNCHANGED stop_phase /\ GoOut
    /\ UNCHANGED <<scans, dma_stop_failed, writer_started, batchVars, countVars, endVars,
                   writerVars, stop_requested>>

\* The loop goes on to harvest: running, waiting for a boundary, or stopped.
Harvesting == stop_phase = "HARVESTING"
MayHarvest == /\ ppc = "loop" /\ ~error
              /\ \/ stop_phase = "NONE" /\ ~stop_requested
                 \/ stop_phase = "WAIT_BOUNDARY" /\ dma_rx_packet_open
                 \/ Harvesting

P_Harvest ==
    /\ MayHarvest
    /\ \E k \in HarvestCounts(Harvesting) \ {0} :
          /\ dma_harvest(HarvestedItems(k), Harvesting)
          /\ batch' = HarvestedItems(k)
          /\ harvest_fatal' \in HarvestFailures(Harvesting, k)
    /\ GoTo("enqueue")
    /\ UNCHANGED <<queueVars, stopVars, countVars, endVars, writerVars, stop_requested>>

NothingHarvested(fatal) == /\ 0 \in HarvestCounts(Harvesting)
                           /\ fatal \in HarvestFailures(Harvesting, 0)

\* storage_capture_bd_snapshot: no writable slot, an engine that is not running,
\* or an error recorded before.
SnapshotFails == WritableCount = 0 \/ ~integrity \/ dmasr \in {"error", "halted"}

\* The harvest itself fails.  Or, with nothing to harvest while running, the
\* descriptor snapshot does, no first frame came in time, or an input-idle
\* event cannot be sent.
P_ReceiveFail ==
    /\ MayHarvest
    /\ \/ NothingHarvested(TRUE)
       \/ /\ NothingHarvested(FALSE) /\ ~Harvesting
          /\ \/ SnapshotFails
             \/ ~stop_requested /\ (harvested = 0 \/ "ipc" \in Faults)
    /\ GoOut
    /\ UNCHANGED <<dmaVars, queueVars, stopVars, batchVars, countVars, endVars, writerVars,
                   stop_requested>>

\* storage_stop_harvest_observe: the stopped ring was found empty.
StableEmpty == dma_quiesced /\ CompletedUnharvested(slots) = 0 /\ ~dma_rx_packet_open

ScanEmpty == MayHarvest /\ Harvesting /\ NothingHarvested(FALSE)

P_Scan ==
    /\ ScanEmpty
    /\ scans' = IF StableEmpty THEN scans + 1 ELSE 0
    /\ IF scans' >= StableScans THEN GoTo("finish") ELSE GoTo("loop")
    /\ UNCHANGED <<dmaVars, queueVars, stop_phase, quiesce_result, dma_stop_failed,
                   writer_started, batchVars, countVars, endVars, writerVars, stop_requested>>

\* The stop harvest reaches its deadline, or its event is not sent.
P_ScanFail ==
    /\ ScanEmpty
    /\ \/ ~StableEmpty /\ stop_phase' = "FAILED"
       \/ "ipc" \in Faults /\ StableEmpty /\ UNCHANGED stop_phase
    /\ GoOut
    /\ UNCHANGED <<dmaVars, queueVars, scans, quiesce_result, dma_stop_failed,
                   writer_started, batchVars, countVars, endVars, writerVars, stop_requested>>

------------------------------------------------------------------------------
(* Producer: a harvested batch.                                            *)

Kind(i) == frames[batch[i].frame]

\* storage_stop_tail_disposition: only a sector-aligned buffer may be queued.
Queueable(i) == Kind(i) \in {"mid", "eof"}

\* An invalid byte count, or an unaligned one in a slot that is not writable
\* (its release is refused), ends the loop over the batch.
EndsBatch(i) == \/ Kind(i) = "inv"
                \/ ~Queueable(i) /\ slots[batch[i].slot] # "DMA_WRITABLE"

\* Indices the loop processes; the cleanup loop of `out` never breaks.
Processed(breaks) ==
    {i \in DOMAIN batch : ~breaks \/ \A j \in 1 .. i - 1 : ~EndsBatch(j)}

\* The indices that are queued, in order.
QueuedOf(done) ==
    LET set == {i \in done : Queueable(i)}
    IN  {q \in [1 .. Cardinality(set) -> set] : \A m, n \in DOMAIN q : m < n => q[m] < q[n]}
FailedOf(done) == {batch[i].slot : i \in {j \in done : Kind(j) = "inv"}}
ReleasedOf(done) == {batch[i].slot : i \in {j \in done : ~Queueable(j) /\ Kind(j) # "inv"}}

\* The items pushed: consecutive LBAs after what is already captured.
PendingOf(q) ==
    [n \in DOMAIN q |-> [slot |-> batch[q[n]].slot, frame |-> batch[q[n]].frame,
                         lba |-> Len(captured) + n]]

FramesOf(pending) == [n \in DOMAIN pending |-> pending[n].frame]

\* Counters after the batch; queued ones move only when the push succeeded.
CountBatch(done, pending, pushed) ==
    LET tails == {j \in done : ~Queueable(j) /\ Kind(j) # "inv"
                                /\ slots[batch[j].slot] = "DMA_WRITABLE"}
        valid == {j \in done : Kind(j) # "inv"}
    IN  /\ harvested' = harvested + Cardinality(valid)
        /\ tail_unqueued' = tail_unqueued + Cardinality(tails)
        /\ captured' = IF pushed THEN captured \o FramesOf(pending) ELSE captured

\* The hand-over of the capture loop.  Anything but a clean push (or a batch of
\* tails only) is fatal; a tail is recorded as a deferred error.
P_Enqueue ==
    /\ ppc = "enqueue"
    /\ \E q \in QueuedOf(Processed(TRUE)) :
       LET done == Processed(TRUE)
           pending == PendingOf(q)
           spoiled == \E i \in done : EndsBatch(i)
           pushed == ~spoiled /\ pending # <<>> /\ ~PushRejected(pending)
       IN  /\ hand_over(pending, ReleasedOf(done), FailedOf(done))
           /\ CountBatch(done, pending, pushed)
           /\ IF spoiled \/ harvest_fatal \/ (pending # <<>> /\ ~pushed)
              THEN GoOut
              ELSE ppc' = "loop" /\ integrity' = (integrity /\ \A i \in done : Queueable(i))
    /\ batch' = <<>> /\ harvest_fatal' = FALSE /\ scans' = 0
    /\ UNCHANGED <<dmaVars, stop_phase, quiesce_result, dma_stop_failed, writer_started,
                   endVars, writerVars, stop_requested>>

------------------------------------------------------------------------------
(* Producer: the end of a capture that stopped cleanly.                    *)

P_Finish ==
    /\ ppc = "finish"
    /\ queue_finish
    /\ stop_requested' = (stop_requested \/ FinishFails)
    /\ ppc' = "join" /\ integrity' = (integrity /\ ~dma_tail_incomplete)
    /\ UNCHANGED <<dmaVars, stopVars, batchVars, countVars, endVars, writerVars>>

\* storage_join_writer_deadline succeeds; the event may not be sent.
P_Join ==
    /\ ppc = "join" /\ wpc = "exit"
    /\ writer_started' = FALSE
    /\ \/ GoTo("finalize")
       \/ "ipc" \in Faults /\ ppc' = "out_final" /\ integrity' = FALSE
    /\ UNCHANGED <<dmaVars, queueVars, stop_phase, scans, quiesce_result, dma_stop_failed,
                   batchVars, countVars, endVars, writerVars, stop_requested>>

\* It reaches its deadline: storage_queue_request_abort, and a second join.
P_JoinTimeout ==
    /\ ppc \in {"join", "out_join"} /\ wpc # "exit" /\ "slow_writer" \in Faults
    /\ fail_and_wake
    /\ ppc' = (IF ppc = "join" THEN "join_abort" ELSE "out_join_abort") /\ integrity' = FALSE
    /\ UNCHANGED <<dmaVars, stopVars, batchVars, countVars, endVars, writerVars, stop_requested>>

P_JoinAbort ==
    /\ ppc \in {"join_abort", "out_join_abort"}
    /\ \/ wpc = "exit" /\ writer_started' = FALSE /\ GoTo("out_final")
       \/ /\ wpc # "exit" /\ "slow_writer" \in Faults /\ UNCHANGED writer_started
          /\ GoTo(IF ppc = "join_abort" THEN "out_finish" ELSE "out_final")
    /\ UNCHANGED <<dmaVars, queueVars, stop_phase, scans, quiesce_result, dma_stop_failed,
                   batchVars, countVars, endVars, writerVars, stop_requested>>

\* dma_finalize_stop_s2mm_with_state, storage_queue_mark_finalizing.
P_Finalize ==
    /\ ppc = "finalize"
    /\ \E outcome \in FinalizeOutcomes(slots, quiesce_result) :
          /\ dma_finalize(outcome, slots)
          /\ dma_stop_failed' = (dma_stop_failed \/ outcome = "FAILED")
          /\ integrity' = (integrity /\ outcome # "FAILED")
    /\ queue_mark_finalizing
    /\ ppc' = IF error' THEN "out_final" ELSE "complete"
    /\ UNCHANGED <<stop_phase, scans, quiesce_result, writer_started, batchVars, countVars,
                   endVars, writerVars, stop_requested>>

\* storage_drain_invariant_ok on the final snapshot, and the other conditions
\* of integrity_ok.
DrainInvariant ==
    /\ dma_quiesced
    /\ harvested = Len(captured) + tail_unqueued
    /\ Len(captured) = bytes_written
    /\ items = <<>> /\ inflight = {}
    /\ \A s \in Slots : slots[s] \notin {"DMA_COMPLETED_UNHARVESTED", "NVME_BUSY"}

\* A result that trusts the byte counters alone.
ResultIgnoresIntegrity == DrainInvariant

ResultOK == integrity /\ ~dma_stop_failed /\ tail_unqueued = 0 /\ DrainInvariant

\* storage_queue_mark_done, storage_queue_destroy, the result, the fall through
\* `out:` (a second finalize of the halted engine) and channel_runtime_close.
P_Complete ==
    /\ ppc = "complete"
    /\ queue_mark_done
    /\ ppc' = "done"
    /\ result' = IF ResultOK THEN "ok" ELSE "failed"
    /\ queue_destroyed' = nvme_engine_quiesced
    /\ runtime_closed' = dma_quiesced
    /\ UNCHANGED <<dmaVars, stopVars, batchVars, countVars, integrity, writerVars, stop_requested>>

------------------------------------------------------------------------------
(* Producer: the cleanup path `out`.                                       *)

\* STOP is latched if it was not (stop_phase past WAIT_BOUNDARY: it was).
P_Out ==
    /\ ppc = "out"
    /\ IF stop_phase \in {"NONE", "WAIT_BOUNDARY"}
       THEN /\ worker_state' = IF RequestStopOK THEN LatchedState(worker_state) ELSE "FAILED"
            /\ error' = (error \/ ~RequestStopOK)
            /\ requeue_enabled' = FALSE
            /\ dma_latch_stop /\ broadcast
            /\ stop_phase' = "DMA_QUIESCING"
            /\ UNCHANGED <<slots, items, writer_ready, producer_ready>>
       ELSE UNCHANGED <<queueVars, dmaVars, stop_phase>>
    /\ GoTo("out_quiesce")
    /\ UNCHANGED <<scans, quiesce_result, dma_stop_failed, writer_started, batchVars,
                   countVars, endVars, writerVars, stop_requested>>

\* storage_dma_quiesce_once runs the quiesce at most once per stop.
P_OutQuiesce ==
    /\ ppc = "out_quiesce"
    /\ IF quiesce_result = "NONE" THEN clear_run_stop ELSE UNCHANGED dmaVars
    /\ GoTo(CASE quiesce_result = "NONE" -> "out_quiesce_wait"
              [] quiesce_result = "FAILED" -> "out_finish"
              [] OTHER -> "out_harvest")
    /\ dma_stop_failed' = (dma_stop_failed \/ quiesce_result = "FAILED")
    /\ UNCHANGED <<queueVars, stop_phase, scans, quiesce_result, writer_started, batchVars,
                   countVars, endVars, writerVars, stop_requested>>

P_OutQuiesced(outcome) ==
    /\ ppc = "out_quiesce_wait" /\ outcome \in QuiesceOutcomes
    /\ dma_quiesce(outcome)
    /\ quiesce_result' = outcome
    /\ IF outcome = "FAILED"
       THEN dma_stop_failed' = TRUE /\ GoTo("out_finish") /\ UNCHANGED queueVars
       ELSE UNCHANGED dma_stop_failed /\ GoTo("out_harvest") /\ queue_mark_harvesting
    /\ UNCHANGED <<stop_phase, scans, writer_started, batchVars, countVars, endVars,
                   writerVars, stop_requested>>

P_OutHarvest ==
    /\ ppc = "out_harvest"
    /\ \E k \in HarvestCounts(TRUE) \ {0} :
          /\ dma_harvest(HarvestedItems(k), TRUE)
          /\ IF TRUE \in HarvestFailures(TRUE, k)
             THEN GoTo("out_finish") /\ UNCHANGED batch
             ELSE GoTo("out_enqueue") /\ batch' = HarvestedItems(k)
    /\ UNCHANGED <<queueVars, stopVars, harvest_fatal, countVars, endVars, writerVars,
                   stop_requested>>

\* Stable empty, failed, or the deadline.
P_OutHarvestEnd ==
    /\ ppc = "out_harvest"
    /\ GoTo("out_finish")
    /\ UNCHANGED <<dmaVars, queueVars, stopVars, batchVars, countVars, endVars, writerVars,
                   stop_requested>>

P_OutEnqueue ==
    /\ ppc = "out_enqueue"
    /\ \E q \in QueuedOf(Processed(FALSE)) :
       LET done == Processed(FALSE)
           pending == PendingOf(q)
           pushed == HandOverPushes(pending, ReleasedOf(done), FailedOf(done))
       IN  /\ hand_over(pending, ReleasedOf(done), FailedOf(done))
           /\ CountBatch(done, pending, pushed)
           /\ GoTo(IF pending # <<>> /\ ~pushed THEN "out_finish" ELSE "out_harvest")
    /\ batch' = <<>>
    /\ UNCHANGED <<dmaVars, stopVars, harvest_fatal, endVars, writerVars, stop_requested>>

P_OutFinish ==
    /\ ppc = "out_finish"
    /\ queue_finish
    /\ stop_requested' = (stop_requested \/ FinishFails)
    /\ GoTo("out_join")
    /\ UNCHANGED <<dmaVars, stopVars, batchVars, countVars, endVars, writerVars>>

P_OutJoin ==
    /\ ppc = "out_join" /\ wpc = "exit"
    /\ writer_started' = FALSE
    /\ GoTo("out_final")
    /\ UNCHANGED <<dmaVars, queueVars, stop_phase, scans, quiesce_result, dma_stop_failed,
                   batchVars, countVars, endVars, writerVars, stop_requested>>

\* A close that forgets that the engine may still write to DDR.
MayReleaseAlways == TRUE

\* The queue and the mappings are released only when the engine is stopped ...
MayRelease == dma_quiesced

\* ... and the NVMe side is believed to be.
P_OutFinal ==
    /\ ppc = "out_final"
    /\ IF ~writer_started /\ dma_quiesced /\ quiesce_result # "RESET_RECOVERED"
       THEN \E outcome \in FinalizeOutcomes(slots, quiesce_result) :
                /\ dma_finalize(outcome, slots)
                /\ dma_stop_failed' = (dma_stop_failed \/ outcome = "FAILED")
       ELSE UNCHANGED <<dmaVars, dma_stop_failed>>
    /\ queue_destroyed' = (nvme_engine_quiesced /\ MayRelease)
    /\ runtime_closed' = (nvme_engine_quiesced /\ MayRelease)
    /\ result' = "failed" /\ ppc' = "done"
    /\ UNCHANGED <<queueVars, stop_phase, scans, quiesce_result, writer_started, integrity,
                   batchVars, countVars, writerVars, stop_requested>>

Producer ==
    \/ P_Gate \/ P_GateFail \/ P_EnableRun \/ P_WaitWriterReady
    \/ \E b \in BOOLEAN : P_ProducerReady(b)
    \/ P_MarkRunning \/ P_MarkRunningFail
    \/ P_SeeError \/ P_SeeStop \/ P_Boundary \/ P_BoundaryEventFail \/ P_ClearRunStop
    \/ \E r \in {"OK", "FAILED", "RESET_RECOVERED"} : P_Quiesced(r)
    \/ P_Harvest \/ P_ReceiveFail \/ P_Scan \/ P_ScanFail \/ P_Enqueue
    \/ P_Finish \/ P_Join \/ P_JoinTimeout \/ P_JoinAbort \/ P_Finalize \/ P_Complete
    \/ P_Out \/ P_OutQuiesce
    \/ \E r \in {"OK", "FAILED", "RESET_RECOVERED"} : P_OutQuiesced(r)
    \/ P_OutHarvest \/ P_OutHarvestEnd \/ P_OutEnqueue \/ P_OutFinish \/ P_OutJoin
    \/ P_OutFinal

------------------------------------------------------------------------------
(* Writer thread.                                                          *)

\* storage_queue_wait_run: sleep, leave, or go on once ARMED.
W_WaitRun ==
    /\ wpc = "wait_run" /\ ~writer_waiting
    /\ IF worker_state \in {"INIT", "READY"}
       THEN writer_waiting' = TRUE /\ UNCHANGED wpc
       ELSE /\ wpc' = IF error \/ worker_state # "ARMED" THEN "exit" ELSE "ready"
            /\ UNCHANGED writer_waiting
    /\ UNCHANGED <<slots, items, worker_state, error, requeue_enabled, writer_ready,
                   producer_ready, active, inflight, nvme_engine_quiesced, media,
                   bytes_written, dmaVars, prodVars, stop_requested>>

\* Real-time setup (and engine creation), storage_queue_set_writer_ready.
W_Ready(success) ==
    /\ wpc = "ready"
    /\ success \/ "sched" \in Faults
    /\ queue_set_writer_ready(success)
    /\ wpc' = IF success THEN "top" ELSE "exit"
    /\ stop_requested' = (stop_requested \/ ~success)
    /\ UNCHANGED <<active, inflight, nvme_engine_quiesced, media, bytes_written, dmaVars, prodVars>>

\* Loop head: storage_queue_abort_requested, then whether the engine has room.
W_Top ==
    /\ wpc = "top"
    /\ wpc' = CASE worker_state = "FAILED" -> IF CrossSlot THEN "fail" ELSE "exit"
                [] Cardinality(active) < MaxActive -> "pop"
                [] OTHER -> "step"
    /\ UNCHANGED <<active, inflight, nvme_engine_quiesced, media, bytes_written, dmaVars,
                   queueVars, prodVars, stop_requested>>

\* storage_queue_pop goes to sleep; it only waits when nothing is active.
W_PopSleep ==
    /\ wpc = "pop" /\ ~writer_waiting
    /\ PopSleeps(active = {})
    /\ writer_waiting' = TRUE
    /\ UNCHANGED <<slots, items, worker_state, error, requeue_enabled, writer_ready,
                   producer_ready, dmaVars, prodVars, writerVars, stop_requested>>

\* A popped slot's commands belong to the device until it completes them.
W_PopItem ==
    /\ wpc = "pop" /\ ~writer_waiting /\ PopResult = "ITEM"
    /\ queue_pop_item
    /\ active' = active \cup {Head(items)}
    /\ inflight' = inflight \cup {Head(items)}
    /\ wpc' = "step"
    /\ UNCHANGED <<nvme_engine_quiesced, media, bytes_written, dmaVars, prodVars, stop_requested>>

\* nvme_cross_slot_engine_add or the padding check refuses the popped item.
W_AddFail ==
    /\ wpc = "pop" /\ ~writer_waiting /\ PopResult = "ITEM"
    /\ CrossSlot /\ "nvme" \in Faults
    /\ queue_pop_item
    /\ wpc' = "fail"
    /\ UNCHANGED <<active, inflight, nvme_engine_quiesced, media, bytes_written, dmaVars,
                   prodVars, stop_requested>>

\* storage_fail_fatal and the end of the writer.
WriterFails == fail_and_wake /\ stop_requested' = TRUE /\ wpc' = "exit"

W_PopOther ==
    /\ wpc = "pop" /\ ~writer_waiting /\ ~PopSleeps(active = {})
    /\ CASE PopResult = "ERROR" /\ ~CrossSlot -> WriterFails
         [] PopResult = "ERROR" /\ CrossSlot ->
                wpc' = "fail" /\ UNCHANGED <<queueVars, stop_requested>>
         [] PopResult = "DRAINED" /\ ~CrossSlot ->
                wpc' = "exit" /\ UNCHANGED <<queueVars, stop_requested>>
         [] PopResult \in {"DRAINED", "TEMP_EMPTY"} /\ CrossSlot ->
                wpc' = "step" /\ UNCHANGED <<queueVars, stop_requested>>
         [] OTHER -> FALSE
    /\ UNCHANGED <<active, inflight, nvme_engine_quiesced, media, bytes_written, dmaVars, prodVars>>

\* A retirement that waits for submission only, not for completion.
RetirableWhenSubmitted == active

\* Contexts whose commands have all completed, in any order: the cross-slot
\* engine retires whichever slot is finished first.
Retirable == active \ inflight

\* storage_cross_slot_done_cb, or the legacy writer after flush_slot_to_nvme:
\* storage_complete_slot gives the slot back.
W_Retire(it) ==
    /\ wpc = "step" /\ it \in Retirable
    /\ complete_slot(it.slot)
    /\ bytes_written' = bytes_written + 1
    /\ active' = active \ {it}
    /\ wpc' = CASE CompleteFails -> IF CrossSlot THEN "fail" ELSE "exit"
                [] CrossSlot -> "step"
                [] OTHER -> "top"
    /\ stop_requested' = (stop_requested \/ CompleteFails)
    /\ UNCHANGED <<inflight, nvme_engine_quiesced, media, prodVars>>

\* A decision that forgets the slots still owned by the engine.
DrainedIgnoresActive == ~error /\ items = <<>> /\ producer_done

\* storage_cross_slot_writer_decide after an engine step.
DecidesError == error
DecidesDrained == ~error /\ items = <<>> /\ active = {} /\ producer_done

W_Decide ==
    /\ CrossSlot /\ wpc = "step"
    /\ wpc' = CASE DecidesError -> "fail" [] DecidesDrained -> "exit" [] OTHER -> "top"
    /\ nvme_engine_quiesced' = IF DecidesDrained THEN active = {} /\ inflight = {}
                               ELSE nvme_engine_quiesced
    /\ UNCHANGED <<active, inflight, media, bytes_written, dmaVars, queueVars, prodVars,
                   stop_requested>>

\* nvme_cross_slot_engine_step fails: command error, no progress, or an abort.
W_StepFail ==
    /\ CrossSlot /\ wpc = "step" /\ active # {}
    /\ "nvme" \in Faults \/ worker_state = "FAILED"
    /\ wpc' = "fail"
    /\ UNCHANGED <<active, inflight, nvme_engine_quiesced, media, bytes_written, dmaVars,
                   queueVars, prodVars, stop_requested>>

\* flush_slot_to_nvme fails.  storage_fail_fatal keeps the memory alive only if
\* ownership was marked unresolved, which a doorbell that is not accepted does;
\* a command error, an unknown CID or a lack of progress returns with commands
\* in flight and marks nothing.
W_FlushFail ==
    /\ ~CrossSlot /\ wpc = "step" /\ active # {} /\ "nvme" \in Faults
    /\ WriterFails
    /\ nvme_engine_quiesced' \in {nvme_engine_quiesced, FALSE}
    /\ UNCHANGED <<active, inflight, media, bytes_written, dmaVars, prodVars>>

\* nvme_cross_slot_engine_drain_abort: until nothing is in flight, or the
\* deadline; then nvme_engine_quiesced and storage_fail_fatal.
W_DrainAbort ==
    /\ wpc = "fail"
    /\ WriterFails
    /\ nvme_engine_quiesced' = (inflight = {})
    /\ active' = IF inflight = {} THEN {} ELSE active
    /\ UNCHANGED <<inflight, media, bytes_written, dmaVars, prodVars>>

Writer == \/ W_WaitRun \/ (\E b \in BOOLEAN : W_Ready(b)) \/ W_Top \/ W_PopSleep
          \/ W_PopItem \/ W_AddFail \/ W_PopOther \/ (\E it \in active : W_Retire(it))
          \/ W_Decide \/ W_StepFail \/ W_FlushFail \/ W_DrainAbort

------------------------------------------------------------------------------
(* The devices (external).                                                 *)

\* The NVMe device reads the DDR slot and writes the medium.
NvmeComplete(it) ==
    /\ it \in inflight
    /\ media' = [media EXCEPT ![it.lba] = ddr[it.slot]]
    /\ inflight' = inflight \ {it}
    /\ UNCHANGED <<wpc, active, nvme_engine_quiesced, bytes_written, dmaVars, queueVars,
                   prodVars, stop_requested>>

Nvme == \E it \in inflight : NvmeComplete(it)

DmaEngine == /\ (\E kind \in Kinds : HwReceive(kind)) \/ HwFetchStale \/ HwHalt \/ HwFault
             /\ UNCHANGED <<queueVars, prodVars, writerVars, stop_requested>>

\* Both threads have ended; what the devices still do has no effect on them.
Ended == ppc = "done" /\ wpc = "exit" /\ UNCHANGED vars

Next == RequestStop \/ Producer \/ Writer \/ Nvme \/ DmaEngine \/ Ended

\* The scheduler runs both threads; the device completes its commands, and
\* every engine step of the writer polls the completion queue.
Fairness == /\ WF_vars(Producer) /\ WF_vars(Writer) /\ WF_vars(Nvme)
            /\ SF_vars(\E it \in active : W_Retire(it))

Spec == Init /\ [][Next]_vars /\ Fairness

------------------------------------------------------------------------------
(* Properties.                                                             *)

TypeOK ==
    /\ DmaTypeOK /\ QueueTypeOK
    /\ batch \in Seq([slot : Slots, frame : 1 .. MaxFrames])
    /\ captured \in Seq(1 .. MaxFrames)
    /\ quiesce_result \in {"NONE", "OK", "FAILED", "RESET_RECOVERED"}
    /\ active \subseteq Item /\ inflight \subseteq active
    /\ media \in [Lbas -> 0 .. MaxFrames] /\ bytes_written \in Nat
    /\ result \in {"none", "ok", "failed"}

\* A capture reported good is on the medium, whole and in order: every frame
\* the engine completed before it halted is at its own LBA exactly once
\* (harvest, queue, out-of-order retirement, stop harvest and final drain).
GoodCaptureIsComplete ==
    result = "ok" => /\ captured = [n \in 1 .. Len(frames) |-> n]
                     /\ \A l \in 1 .. Len(frames) : media[l] = l

\* The medium never holds anything but the frame queued for that LBA: a slot's
\* DDR buffer is not overwritten between harvest and NVMe completion, not even
\* when the capture fails.
MediumHoldsQueuedFrames ==
    \A l \in Lbas : media[l] # 0 => l <= Len(captured) /\ media[l] = captured[l]

\* dma_requeue_one is never reached after the STOP latch: the latch and the
\* completion's requeue are serialised by the queue lock.
NoRequeueAfterLatch == dma_requeue_after_stop_count = 0

\* Once STOP has been seen no slot is offered to the engine again: what it may
\* still write only shrinks.
EngineWindowShrinksAfterStop == [][stop_latched => HwWindow' \subseteq HwWindow]_vars

\* Slot table, FIFO and writer agree about who owns each slot.
OwnersAgree ==
    /\ \A s \in Slots : slots[s] = "READY_FOR_NVME" <=>
                        Cardinality({i \in DOMAIN items : items[i].slot = s}) = 1
    /\ \A it \in active : slots[it.slot] = "NVME_BUSY"
    /\ \A it1, it2 \in active : it1.slot = it2.slot => it1 = it2

\* The DDR mapping is never released while the DMA engine may write to it.
NoCloseUnderDma == runtime_closed => HwWindow = {}

\* Nor while the NVMe device may still read it, if the writer has been joined
\* (execute_write_with_result_mode releases the mappings of a writer that both
\* joins missed as well, because nvme_engine_quiesced starts out true).  The
\* cross-slot writer drains its engine before it leaves; the one-slot writer
\* does not, and its close may find commands in the device.
NoCloseUnderNvme == runtime_closed /\ ~writer_started => inflight = {}

\* While a capture is still good the engine never fetches a BD whose Completed
\* bit is set (PG021: SGIntErr).
NoStaleFetch ==
    integrity /\ curdesc \in HwWindow => bd[curdesc] = 0

\* Nothing enters the queue once the writer may have left it as drained.
NoPushAfterProducerDone ==
    [][producer_done => items' = items \/ (items # <<>> /\ items' = Tail(items))]_vars

\* A writer that left without an error left nothing behind: no filled slot in
\* the queue and no slot in the NVMe engine.
WriterLeavesNothing == wpc = "exit" /\ ~error => items = <<>> /\ active = {}

\* After STOP the worker always reaches its end, both threads: no lost wakeup,
\* no wait on a boundary, a harvest or a join that never comes.
StopEnds == stop_requested ~> (ppc = "done" /\ wpc = "exit")
==============================================================================
