------------------------ MODULE CaptureSafetyProofs -------------------------
(***************************************************************************)
(* Proofs about CaptureWorker for every ring size, number of frames, fault *)
(* set and either writer thread, in three parts.                           *)
(*                                                                         *)
(* Types: every variable keeps its type.                                   *)
(*                                                                         *)
(* Safety: SafeInv ties the STOP latch of the ring to the queue's          *)
(* requeue_enabled, the recorded quiesce result to the engine's state, and *)
(* the worker state to where the producer is.                              *)
(*                                                                         *)
(* Ownership: who owns a slot, and what a writer that has left still owns. *)
(* OwnInv is OwnersAgree in a form that is inductive: the FIFO names each  *)
(* READY slot once and nothing else.  LeaveInv ties the writer's exit to   *)
(* the queue, the worker state and the join.                               *)
(***************************************************************************)
EXTENDS CaptureWorker, FiniteSetTheorems, SequenceTheorems, TLAPS

BatchItem == [slot : Slots, frame : 1 .. MaxFrames]

------------------------------------------------------------------------------
(* The ring.                                                               *)

\* Arithmetic modulo the ring size stays in the ring.
LEMMA ModInRing == \A x \in Int : x % NSlots \in Slots
  BY DmaRingAssumption DEF Slots

\* The engine keeps the ring's types.
LEMMA EngineTypes ==
  ASSUME DmaTypeOK,
         (\E kind \in Kinds : HwReceive(kind)) \/ HwFetchStale \/ HwHalt \/ HwFault
  PROVE  DmaTypeOK'
  <1>1. ASSUME NEW kind \in Kinds, HwReceive(kind) PROVE DmaTypeOK'
    <2>1. Succ(curdesc) \in Slots
      <3>1. curdesc + 1 \in Int
        BY DEF DmaTypeOK, Slots
      <3> QED BY <3>1, ModInRing DEF Succ
    <2>2. /\ frames' \in Seq(Kinds) /\ Len(frames') = Len(frames) + 1
          /\ Len(frames) + 1 \in 0 .. MaxFrames
      BY <1>1, DmaRingAssumption DEF HwReceive, DmaTypeOK
    <2>3. Len(frames') <= MaxFrames
      BY <2>2, DmaRingAssumption
    <2>4. bd' \in [Slots -> 0 .. MaxFrames] /\ ddr' \in [Slots -> 0 .. MaxFrames]
      BY <1>1, <2>2 DEF HwReceive, DmaTypeOK
    <2> QED BY <1>1, <2>1, <2>2, <2>3, <2>4 DEF HwReceive, DmaTypeOK, ringVars
  <1>2. CASE HwFetchStale
    BY <1>2 DEF HwFetchStale, DmaTypeOK, ringVars
  <1>3. CASE HwHalt
    BY <1>3 DEF HwHalt, DmaTypeOK, ringVars
  <1>4. CASE HwFault
    BY <1>4 DEF HwFault, DmaTypeOK, ringVars
  <1> QED BY <1>1, <1>2, <1>3, <1>4

\* A harvest returns items of the ring, each a frame the engine completed.
LEMMA HarvestTypes ==
  ASSUME DmaTypeOK, NEW b \in BOOLEAN, NEW k \in HarvestCounts(b)
  PROVE  k \in Nat /\ HarvestedItems(k) \in Seq(BatchItem) /\ Len(HarvestedItems(k)) = k
  <1>1. HarvestLimit(b) \in Nat
    BY DmaRingAssumption DEF HarvestLimit, Least, DmaTypeOK
  <1>2. k \in Nat /\ \A i \in 0 .. k - 1 : Completed(i)
    BY <1>1 DEF HarvestCounts
  <1>3. \A i \in 1 .. k : NthBd(i - 1) \in Slots /\ bd[NthBd(i - 1)] # 0
    <2> SUFFICES ASSUME NEW i \in 1 .. k
                 PROVE  NthBd(i - 1) \in Slots /\ bd[NthBd(i - 1)] # 0
      OBVIOUS
    <2>1. i - 1 \in 0 .. k - 1 /\ next_harvest_bd + (i - 1) \in Int
      BY <1>2 DEF DmaTypeOK, Slots
    <2>2. bd[NthBd(i - 1)] # 0
      BY <1>2, <2>1 DEF Completed
    <2> QED BY <2>1, <2>2, ModInRing DEF NthBd
  <1>4. \A i \in 1 .. k : bd[NthBd(i - 1)] \in 1 .. MaxFrames
    BY <1>3, DmaRingAssumption DEF DmaTypeOK
  <1>5. HarvestedItems(k) = [i \in 1 .. k |-> [slot |-> NthBd(i - 1), frame |-> bd[NthBd(i - 1)]]]
    BY DEF HarvestedItems
  <1> HIDE DEF HarvestedItems, NthBd
  <1> QED BY <1>2, <1>3, <1>4, <1>5 DEF BatchItem

\* Every dma_* call keeps the ring's types.
LEMMA DmaCallTypes ==
  ASSUME DmaTypeOK,
         \/ UNCHANGED dmaVars
         \/ dma_start_s2mm_ring
         \/ \E slot \in Slots : dma_requeue_one(slot)
         \/ dma_latch_stop
         \/ clear_run_stop
         \/ \E outcome : dma_quiesce(outcome)
         \/ \E outcome, states : dma_finalize(outcome, states)
         \/ \E b \in BOOLEAN : \E k \in HarvestCounts(b) : dma_harvest(HarvestedItems(k), b)
  PROVE  DmaTypeOK'
  <1>1. CASE UNCHANGED dmaVars
    BY <1>1 DEF DmaTypeOK, dmaVars
  <1>2. CASE dma_start_s2mm_ring
    <2>1. 0 \in Slots /\ NSlots - 1 \in Slots /\ NSlots \in 0 .. NSlots
      BY DmaRingAssumption DEF Slots
    <2> QED BY <1>2, <2>1 DEF DmaTypeOK, dma_start_s2mm_ring
  <1>3. ASSUME NEW slot \in Slots, dma_requeue_one(slot) PROVE DmaTypeOK'
    <2>1. CASE requeue_refused
      BY <1>3, <2>1 DEF DmaTypeOK, dma_requeue_one, engineVars
    <2>2. CASE ~requeue_refused
      <3>1. bd' \in [Slots -> 0 .. MaxFrames]
        BY <1>3, <2>2, DmaRingAssumption DEF DmaTypeOK, dma_requeue_one, clear_completed
      <3>2. dma_hw_desc_count' \in 0 .. NSlots
        BY <1>3, <2>2, DmaRingAssumption DEF DmaTypeOK, dma_requeue_one, requeue_ok
      <3> QED BY <1>3, <2>2, <3>1, <3>2 DEF DmaTypeOK, dma_requeue_one
    <2> QED BY <2>1, <2>2
  <1>4. CASE dma_latch_stop
    BY <1>4 DEF DmaTypeOK, dma_latch_stop, engineVars
  <1>5. CASE clear_run_stop
    BY <1>5 DEF DmaTypeOK, clear_run_stop, ringVars
  <1>6. ASSUME NEW outcome, dma_quiesce(outcome) PROVE DmaTypeOK'
    BY <1>6, DmaRingAssumption DEF DmaTypeOK, dma_quiesce, dmaVars
  <1>7. ASSUME NEW outcome, NEW states, dma_finalize(outcome, states) PROVE DmaTypeOK'
    <2>1. dma_hw_desc_count' \in 0 .. NSlots
      BY <1>7, DmaRingAssumption DEF DmaTypeOK, dma_finalize
    <2> QED BY <1>7, <2>1 DEF DmaTypeOK, dma_finalize
  <1>8. ASSUME NEW b \in BOOLEAN, NEW k \in HarvestCounts(b), dma_harvest(HarvestedItems(k), b)
        PROVE  DmaTypeOK'
    <2>1. k \in Nat /\ Len(HarvestedItems(k)) = k
      BY HarvestTypes
    <2>2. NthBd(k) \in Slots
      <3>1. next_harvest_bd + k \in Int
        BY <2>1 DEF DmaTypeOK, Slots
      <3> QED BY <3>1, ModInRing DEF NthBd
    <2>3. HwOwnedAfter(k) \in 0 .. NSlots
      BY <2>1, DmaRingAssumption DEF HwOwnedAfter, Least, DmaTypeOK
    <2>4. bd' \in [Slots -> 0 .. MaxFrames]
      BY <1>8, DmaRingAssumption DEF dma_harvest, BdAfterHarvest, DmaTypeOK
    <2>5. dma_rx_packet_open' \in BOOLEAN
      BY <1>8 DEF dma_harvest, PacketOpenAfter, DmaTypeOK, Eof
    <2> QED BY <1>8, <2>1, <2>2, <2>3, <2>4, <2>5 DEF dma_harvest, DmaTypeOK
  <1> QED BY <1>1, <1>2, <1>3, <1>4, <1>5, <1>6, <1>7, <1>8

------------------------------------------------------------------------------
(* The queue.                                                              *)

\* A state transition, a failure and a wakeup keep their variables' types.
LEMMA TransitionTypes ==
  ASSUME QueueTypeOK
  PROVE  /\ \A expected \in WorkerStates, next \in WorkerStates :
                transition_locked(expected, next)
                    => worker_state' \in WorkerStates /\ error' \in BOOLEAN
         /\ fail_locked => worker_state' \in WorkerStates /\ error' \in BOOLEAN
         /\ broadcast => writer_waiting' \in BOOLEAN
  BY DEF QueueTypeOK, transition_locked, fail_locked, broadcast, WorkerStates

\* The calls that change the worker's state and flags only.
LEMMA QueueStateTypes ==
  ASSUME QueueTypeOK,
         \/ UNCHANGED queueVars
         \/ fail_and_wake
         \/ queue_enable_run
         \/ \E b : queue_set_writer_ready(b)
         \/ \E b : queue_set_producer_ready(b)
         \/ queue_mark_running
         \/ queue_request_stop_state
         \/ queue_latch_stop
         \/ queue_mark_harvesting
         \/ queue_finish
         \/ queue_mark_finalizing
         \/ queue_mark_done
  PROVE  QueueTypeOK'
  <1>0. {"READY", "ARMED", "RUNNING", "WAIT_BOUNDARY", "DMA_QUIESCING", "HARVESTING",
         "DRAINING", "FINALIZING", "DONE"} \subseteq WorkerStates
    BY DEF WorkerStates
  <1>1. CASE UNCHANGED queueVars
    BY <1>1 DEF QueueTypeOK, queueVars
  <1>2. CASE fail_and_wake
    BY <1>2, TransitionTypes DEF QueueTypeOK, fail_and_wake
  <1>3. CASE queue_enable_run
    BY <1>0, <1>3, TransitionTypes DEF QueueTypeOK, queue_enable_run
  <1>4. ASSUME NEW b, queue_set_writer_ready(b) PROVE QueueTypeOK'
    BY <1>4, TransitionTypes DEF QueueTypeOK, queue_set_writer_ready
  <1>5. ASSUME NEW b, queue_set_producer_ready(b) PROVE QueueTypeOK'
    BY <1>5, TransitionTypes DEF QueueTypeOK, queue_set_producer_ready
  <1>6. CASE queue_mark_running
    BY <1>0, <1>6, TransitionTypes DEF QueueTypeOK, queue_mark_running
  <1>7. CASE queue_request_stop_state
    BY <1>0, <1>7, TransitionTypes DEF QueueTypeOK, queue_request_stop_state
  <1>8. CASE queue_latch_stop
    BY <1>0, <1>8, TransitionTypes DEF QueueTypeOK, queue_latch_stop, LatchedState
  <1>9. CASE queue_mark_harvesting
    BY <1>0, <1>9, TransitionTypes DEF QueueTypeOK, queue_mark_harvesting
  <1>10. CASE queue_finish
    BY <1>0, <1>10, TransitionTypes DEF QueueTypeOK, queue_finish
  <1>11. CASE queue_mark_finalizing
    BY <1>0, <1>11 DEF QueueTypeOK, queue_mark_finalizing
  <1>12. CASE queue_mark_done
    BY <1>0, <1>12, TransitionTypes DEF QueueTypeOK, queue_mark_done
  <1> QED BY <1>1, <1>2, <1>3, <1>4, <1>5, <1>6, <1>7, <1>8, <1>9, <1>10, <1>11, <1>12

\* A hand-over of typed items keeps the queue's types.
LEMMA HandOverTypes ==
  ASSUME QueueTypeOK, NEW pending \in Seq(Item), NEW released, NEW failed,
         hand_over(pending, released, failed)
  PROVE  QueueTypeOK'
  <1>1. \A table \in [Slots -> SlotStates] : \A set : \A state \in SlotStates :
            MoveSlots(table, set, state) \in [Slots -> SlotStates]
    BY DEF MoveSlots
  <1>2. {"FREE", "DMA_COMPLETED_UNHARVESTED", "READY_FOR_NVME"} \subseteq SlotStates
    BY DEF SlotStates
  <1>3. slots' \in [Slots -> SlotStates]
    <2> HIDE DEF MoveSlots
    <2> QED BY <1>1, <1>2 DEF hand_over, QueueTypeOK
  <1>4. items' \in Seq(Item)
    BY DEF hand_over, QueueTypeOK
  <1>5. error' \in BOOLEAN /\ writer_waiting' \in BOOLEAN
    BY DEF hand_over, QueueTypeOK
  <1> QED BY <1>3, <1>4, <1>5 DEF hand_over, QueueTypeOK

\* So does the writer's pop, which returns a typed item.
LEMMA PopTypes ==
  ASSUME QueueTypeOK, items # <<>>, queue_pop_item
  PROVE  QueueTypeOK' /\ Head(items) \in Item
  <1>1. Head(items) \in Item /\ Tail(items) \in Seq(Item)
    BY DEF QueueTypeOK
  <1>2. slots' \in [Slots -> SlotStates]
    BY <1>1 DEF QueueTypeOK, queue_pop_item, SlotStates, Item
  <1> QED BY <1>1, <1>2 DEF QueueTypeOK, queue_pop_item

\* The completion of a slot keeps the types of queue and ring.
LEMMA CompleteTypes ==
  ASSUME QueueTypeOK, DmaTypeOK, NEW slot \in Slots, complete_slot(slot)
  PROVE  QueueTypeOK' /\ DmaTypeOK'
  <1>1. CASE ~should_requeue
    <2>1. DmaTypeOK'
      BY <1>1, DmaCallTypes DEF complete_slot
    <2>2. slots' \in [Slots -> SlotStates]
      BY <1>1 DEF QueueTypeOK, complete_slot, SlotStates
    <2> QED BY <1>1, <2>1, <2>2, TransitionTypes DEF QueueTypeOK, complete_slot
  <1>2. CASE should_requeue
    <2>1. DmaTypeOK'
      BY <1>2, DmaCallTypes DEF complete_slot
    <2>2. slots' \in [Slots -> SlotStates]
      BY <1>2 DEF QueueTypeOK, complete_slot, SlotStates
    <2> QED BY <1>2, <2>1, <2>2, TransitionTypes DEF QueueTypeOK, complete_slot
  <1> QED BY <1>1, <1>2

------------------------------------------------------------------------------
(* Type correctness of the worker.                                         *)

\* storage_queue_pop returns an item only when there is one.
LEMMA PopItemNonempty == PopResult = "ITEM" => items # <<>>
  BY DEF PopResult

\* A function on an initial segment of the naturals is a sequence, and sequences
\* can be joined.
LEMMA SeqTypes ==
  ASSUME NEW S
  PROVE  /\ \A n \in Nat : \A f \in [1 .. n -> S] : f \in Seq(S)
         /\ \A s, t \in Seq(S) : s \o t \in Seq(S)
  OBVIOUS

\* What the producer pushes is typed: slots and frames of the batch, LBAs that
\* follow what was captured.
LEMMA PendingTypes ==
  ASSUME TypeOK, NEW breaks \in BOOLEAN, NEW q \in QueuedOf(Processed(breaks))
  PROVE  PendingOf(q) \in Seq(Item) /\ FramesOf(PendingOf(q)) \in Seq(1 .. MaxFrames)
  <1> DEFINE set == {i \in Processed(breaks) : Queueable(i)}
  <1>1. set \subseteq 1 .. Len(batch) /\ Len(batch) \in Nat
    BY DEF Processed, TypeOK
  <1>2. Cardinality(set) \in Nat
    <2>1. IsFiniteSet(1 .. Len(batch))
      BY <1>1, FS_Interval
    <2> QED BY <1>1, <2>1, FS_Subset, FS_CardinalityType
  <1>3. q \in [1 .. Cardinality(set) -> set]
    BY DEF QueuedOf
  <1> HIDE DEF set
  <1>4. \A n \in 1 .. Cardinality(set) :
            batch[q[n]].slot \in Slots /\ batch[q[n]].frame \in 1 .. MaxFrames
                /\ Len(captured) + n \in Nat \ {0}
    <2> SUFFICES ASSUME NEW n \in 1 .. Cardinality(set)
                 PROVE  batch[q[n]].slot \in Slots /\ batch[q[n]].frame \in 1 .. MaxFrames
                            /\ Len(captured) + n \in Nat \ {0}
      OBVIOUS
    <2>1. q[n] \in 1 .. Len(batch)
      BY <1>1, <1>3
    <2>2. batch[q[n]] \in BatchItem
      <3>1. batch \in Seq(BatchItem)
        BY DEF TypeOK, BatchItem
      <3> QED BY <1>1, <2>1, <3>1
    <2>3. Len(captured) \in Nat
      BY DEF TypeOK
    <2> QED BY <1>2, <2>2, <2>3 DEF BatchItem
  <1>5. PendingOf(q) = [n \in 1 .. Cardinality(set) |->
            [slot |-> batch[q[n]].slot, frame |-> batch[q[n]].frame, lba |-> Len(captured) + n]]
    BY <1>3 DEF PendingOf
  <1>6. PendingOf(q) \in [1 .. Cardinality(set) -> Item]
    BY <1>4, <1>5 DEF Item
  <1>7. FramesOf(PendingOf(q)) \in [1 .. Cardinality(set) -> 1 .. MaxFrames]
    BY <1>6 DEF FramesOf, Item
  <1> QED BY <1>2, <1>6, <1>7, SeqTypes

\* Every step of the producer keeps the types.
LEMMA ProducerTypes == TypeOK /\ Producer => TypeOK'
  <1> SUFFICES ASSUME TypeOK, Producer PROVE TypeOK'
    OBVIOUS
  <1> USE DEF GoTo, GoOut, stopVars, batchVars, countVars, endVars, writerVars
  <1>1. CASE P_Gate
    <2>1. DmaTypeOK' /\ QueueTypeOK'
      BY <1>1, DmaCallTypes, QueueStateTypes DEF P_Gate, TypeOK
    <2> QED BY <1>1, <2>1 DEF P_Gate, TypeOK
  <1>2. CASE P_GateFail
    <2>1. DmaTypeOK' /\ QueueTypeOK'
      BY <1>2, DmaCallTypes, QueueStateTypes DEF P_GateFail, TypeOK
    <2> QED BY <1>2, <2>1 DEF P_GateFail, TypeOK
  <1>3. CASE P_EnableRun
    <2>1. DmaTypeOK' /\ QueueTypeOK'
      BY <1>3, DmaCallTypes, QueueStateTypes DEF P_EnableRun, TypeOK
    <2> QED BY <1>3, <2>1 DEF P_EnableRun, TypeOK
  <1>4. CASE P_WaitWriterReady
    <2>1. DmaTypeOK' /\ QueueTypeOK'
      BY <1>4, DmaCallTypes, QueueStateTypes DEF P_WaitWriterReady, TypeOK
    <2> QED BY <1>4, <2>1 DEF P_WaitWriterReady, TypeOK
  <1>5. ASSUME NEW b \in BOOLEAN, P_ProducerReady(b) PROVE TypeOK'
    <2>1. DmaTypeOK' /\ QueueTypeOK'
      BY <1>5, DmaCallTypes, QueueStateTypes DEF P_ProducerReady, TypeOK
    <2> QED BY <1>5, <2>1 DEF P_ProducerReady, TypeOK
  <1>6. CASE P_MarkRunning
    <2>1. DmaTypeOK' /\ QueueTypeOK'
      BY <1>6, DmaCallTypes, QueueStateTypes DEF P_MarkRunning, TypeOK
    <2> QED BY <1>6, <2>1 DEF P_MarkRunning, TypeOK
  <1>7. CASE P_MarkRunningFail
    <2>1. DmaTypeOK' /\ QueueTypeOK'
      BY <1>7, DmaCallTypes, QueueStateTypes DEF P_MarkRunningFail, TypeOK
    <2> QED BY <1>7, <2>1 DEF P_MarkRunningFail, TypeOK
  <1>8. CASE P_SeeError
    <2>1. DmaTypeOK' /\ QueueTypeOK'
      BY <1>8, DmaCallTypes, QueueStateTypes DEF P_SeeError, TypeOK
    <2> QED BY <1>8, <2>1 DEF P_SeeError, TypeOK
  <1>9. CASE P_SeeStop
    <2>1. DmaTypeOK' /\ QueueTypeOK'
      BY <1>9, DmaCallTypes, QueueStateTypes DEF P_SeeStop, TypeOK
    <2> QED BY <1>9, <2>1 DEF P_SeeStop, TypeOK
  <1>10. CASE P_Boundary
    <2>1. DmaTypeOK' /\ QueueTypeOK'
      BY <1>10, DmaCallTypes, QueueStateTypes DEF P_Boundary, TypeOK, queue_latch_stop
    <2> QED BY <1>10, <2>1 DEF P_Boundary, TypeOK
  <1>11. CASE P_BoundaryEventFail
    <2>1. DmaTypeOK' /\ QueueTypeOK'
      BY <1>11, DmaCallTypes, QueueStateTypes DEF P_BoundaryEventFail, TypeOK
    <2> QED BY <1>11, <2>1 DEF P_BoundaryEventFail, TypeOK
  <1>12. CASE P_ClearRunStop
    <2>1. DmaTypeOK' /\ QueueTypeOK'
      BY <1>12, DmaCallTypes, QueueStateTypes DEF P_ClearRunStop, TypeOK
    <2> QED BY <1>12, <2>1 DEF P_ClearRunStop, TypeOK
  <1>13. ASSUME NEW r \in {"OK", "FAILED", "RESET_RECOVERED"}, P_Quiesced(r) PROVE TypeOK'
    <2>1. DmaTypeOK' /\ QueueTypeOK'
      BY <1>13, DmaCallTypes, QueueStateTypes DEF P_Quiesced, TypeOK
    <2> QED BY <1>13, <2>1 DEF P_Quiesced, TypeOK
  <1>14. CASE P_Harvest
    <2>1. PICK k \in HarvestCounts(Harvesting) :
              dma_harvest(HarvestedItems(k), Harvesting) /\ batch' \in {batch, HarvestedItems(k)}
      BY <1>14 DEF P_Harvest
    <2>2. DmaTypeOK'
      BY <2>1, DmaCallTypes DEF TypeOK, Harvesting
    <2>3. batch' \in Seq(BatchItem)
      BY <2>1, HarvestTypes DEF TypeOK, Harvesting, BatchItem
    <2>4. QueueTypeOK'
      BY <1>14, QueueStateTypes DEF P_Harvest, TypeOK
    <2> QED BY <1>14, <2>2, <2>3, <2>4 DEF P_Harvest, TypeOK, BatchItem
  <1>15. CASE P_ReceiveFail
    <2>1. DmaTypeOK' /\ QueueTypeOK'
      BY <1>15, DmaCallTypes, QueueStateTypes DEF P_ReceiveFail, TypeOK
    <2> QED BY <1>15, <2>1 DEF P_ReceiveFail, TypeOK
  <1>16. CASE P_Scan
    <2>1. DmaTypeOK' /\ QueueTypeOK'
      BY <1>16, DmaCallTypes, QueueStateTypes DEF P_Scan, TypeOK
    <2> QED BY <1>16, <2>1 DEF P_Scan, TypeOK
  <1>17. CASE P_ScanFail
    <2>1. DmaTypeOK' /\ QueueTypeOK'
      BY <1>17, DmaCallTypes, QueueStateTypes DEF P_ScanFail, TypeOK
    <2> QED BY <1>17, <2>1 DEF P_ScanFail, TypeOK
  <1>18. CASE P_Enqueue
    <2>1. PICK q \in QueuedOf(Processed(TRUE)) :
                 /\ hand_over(PendingOf(q), ReleasedOf(Processed(TRUE)), FailedOf(Processed(TRUE)))
                 /\ captured' \in {captured, captured \o FramesOf(PendingOf(q))}
      BY <1>18 DEF P_Enqueue, CountBatch
    <2>2. PendingOf(q) \in Seq(Item) /\ FramesOf(PendingOf(q)) \in Seq(1 .. MaxFrames)
      BY PendingTypes
    <2>3. QueueTypeOK'
      BY <2>1, <2>2, HandOverTypes DEF TypeOK
    <2>4. captured' \in Seq(1 .. MaxFrames)
      BY <2>1, <2>2, SeqTypes DEF TypeOK
    <2>5. DmaTypeOK'
      BY <1>18, DmaCallTypes DEF P_Enqueue, TypeOK
    <2> QED BY <1>18, <2>3, <2>4, <2>5 DEF P_Enqueue, TypeOK
  <1>19. CASE P_Finish
    <2>1. DmaTypeOK' /\ QueueTypeOK'
      BY <1>19, DmaCallTypes, QueueStateTypes DEF P_Finish, TypeOK
    <2> QED BY <1>19, <2>1 DEF P_Finish, TypeOK
  <1>20. CASE P_Join
    <2>1. DmaTypeOK' /\ QueueTypeOK'
      BY <1>20, DmaCallTypes, QueueStateTypes DEF P_Join, TypeOK
    <2> QED BY <1>20, <2>1 DEF P_Join, TypeOK
  <1>21. CASE P_JoinTimeout
    <2>1. DmaTypeOK' /\ QueueTypeOK'
      BY <1>21, DmaCallTypes, QueueStateTypes DEF P_JoinTimeout, TypeOK
    <2> QED BY <1>21, <2>1 DEF P_JoinTimeout, TypeOK
  <1>22. CASE P_JoinAbort
    <2>1. DmaTypeOK' /\ QueueTypeOK'
      BY <1>22, DmaCallTypes, QueueStateTypes DEF P_JoinAbort, TypeOK
    <2> QED BY <1>22, <2>1 DEF P_JoinAbort, TypeOK
  <1>23. CASE P_Finalize
    <2>1. DmaTypeOK' /\ QueueTypeOK'
      BY <1>23, DmaCallTypes, QueueStateTypes DEF P_Finalize, TypeOK
    <2> QED BY <1>23, <2>1 DEF P_Finalize, TypeOK
  <1>24. CASE P_Complete
    <2>1. DmaTypeOK' /\ QueueTypeOK'
      BY <1>24, DmaCallTypes, QueueStateTypes DEF P_Complete, TypeOK
    <2> QED BY <1>24, <2>1 DEF P_Complete, TypeOK
  <1>25. CASE P_Out
    <2>1. QueueTypeOK'
      <3>1. CASE stop_phase \in {"NONE", "WAIT_BOUNDARY"}
        BY <1>25, <3>1, TransitionTypes DEF P_Out, TypeOK, QueueTypeOK, LatchedState, WorkerStates
      <3>2. CASE stop_phase \notin {"NONE", "WAIT_BOUNDARY"}
        BY <1>25, <3>2, QueueStateTypes DEF P_Out, TypeOK
      <3> QED BY <3>1, <3>2
    <2>2. DmaTypeOK'
      BY <1>25, DmaCallTypes DEF P_Out, TypeOK
    <2> QED BY <1>25, <2>1, <2>2 DEF P_Out, TypeOK
  <1>26. CASE P_OutQuiesce
    <2>1. DmaTypeOK' /\ QueueTypeOK'
      BY <1>26, DmaCallTypes, QueueStateTypes DEF P_OutQuiesce, TypeOK
    <2> QED BY <1>26, <2>1 DEF P_OutQuiesce, TypeOK
  <1>27. ASSUME NEW r \in {"OK", "FAILED", "RESET_RECOVERED"}, P_OutQuiesced(r) PROVE TypeOK'
    <2>1. DmaTypeOK' /\ QueueTypeOK'
      BY <1>27, DmaCallTypes, QueueStateTypes DEF P_OutQuiesced, TypeOK
    <2> QED BY <1>27, <2>1 DEF P_OutQuiesced, TypeOK
  <1>28. CASE P_OutHarvest
    <2>1. PICK k \in HarvestCounts(TRUE) :
              dma_harvest(HarvestedItems(k), TRUE) /\ batch' \in {batch, HarvestedItems(k)}
      BY <1>28 DEF P_OutHarvest
    <2>2. DmaTypeOK'
      BY <2>1, DmaCallTypes DEF TypeOK, Harvesting
    <2>3. batch' \in Seq(BatchItem)
      BY <2>1, HarvestTypes DEF TypeOK, Harvesting, BatchItem
    <2>4. QueueTypeOK'
      BY <1>28, QueueStateTypes DEF P_OutHarvest, TypeOK
    <2> QED BY <1>28, <2>2, <2>3, <2>4 DEF P_OutHarvest, TypeOK, BatchItem
  <1>29. CASE P_OutHarvestEnd
    <2>1. DmaTypeOK' /\ QueueTypeOK'
      BY <1>29, DmaCallTypes, QueueStateTypes DEF P_OutHarvestEnd, TypeOK
    <2> QED BY <1>29, <2>1 DEF P_OutHarvestEnd, TypeOK
  <1>30. CASE P_OutEnqueue
    <2>1. PICK q \in QueuedOf(Processed(FALSE)) :
                 /\ hand_over(PendingOf(q), ReleasedOf(Processed(FALSE)), FailedOf(Processed(FALSE)))
                 /\ captured' \in {captured, captured \o FramesOf(PendingOf(q))}
      BY <1>30 DEF P_OutEnqueue, CountBatch
    <2>2. PendingOf(q) \in Seq(Item) /\ FramesOf(PendingOf(q)) \in Seq(1 .. MaxFrames)
      BY PendingTypes
    <2>3. QueueTypeOK'
      BY <2>1, <2>2, HandOverTypes DEF TypeOK
    <2>4. captured' \in Seq(1 .. MaxFrames)
      BY <2>1, <2>2, SeqTypes DEF TypeOK
    <2>5. DmaTypeOK'
      BY <1>30, DmaCallTypes DEF P_OutEnqueue, TypeOK
    <2> QED BY <1>30, <2>3, <2>4, <2>5 DEF P_OutEnqueue, TypeOK
  <1>31. CASE P_OutFinish
    <2>1. DmaTypeOK' /\ QueueTypeOK'
      BY <1>31, DmaCallTypes, QueueStateTypes DEF P_OutFinish, TypeOK
    <2> QED BY <1>31, <2>1 DEF P_OutFinish, TypeOK
  <1>32. CASE P_OutJoin
    <2>1. DmaTypeOK' /\ QueueTypeOK'
      BY <1>32, DmaCallTypes, QueueStateTypes DEF P_OutJoin, TypeOK
    <2> QED BY <1>32, <2>1 DEF P_OutJoin, TypeOK
  <1>33. CASE P_OutFinal
    <2>1. DmaTypeOK' /\ QueueTypeOK'
      BY <1>33, DmaCallTypes, QueueStateTypes DEF P_OutFinal, TypeOK
    <2> QED BY <1>33, <2>1 DEF P_OutFinal, TypeOK
  <1> QED BY <1>1, <1>2, <1>3, <1>4, <1>5, <1>6, <1>7, <1>8, <1>9, <1>10, <1>11, <1>12, <1>13, <1>14, <1>15, <1>16, <1>17, <1>18, <1>19, <1>20, <1>21, <1>22, <1>23, <1>24, <1>25, <1>26, <1>27, <1>28, <1>29, <1>30, <1>31, <1>32, <1>33 DEF Producer

\* Every step of the writer keeps the types.
LEMMA WriterTypes == TypeOK /\ Writer => TypeOK'
  <1> SUFFICES ASSUME TypeOK, Writer PROVE TypeOK'
    OBVIOUS
  <1> USE DEF prodVars, writerVars
  <1>1. CASE W_WaitRun
    <2>1. DmaTypeOK'
      BY <1>1, DmaCallTypes DEF W_WaitRun, TypeOK
    <2>2. QueueTypeOK'
      BY <1>1 DEF W_WaitRun, TypeOK, QueueTypeOK
    <2> QED BY <1>1, <2>1, <2>2 DEF W_WaitRun, TypeOK
  <1>2. ASSUME NEW b \in BOOLEAN, W_Ready(b) PROVE TypeOK'
    <2>1. DmaTypeOK' /\ QueueTypeOK'
      BY <1>2, DmaCallTypes, QueueStateTypes DEF W_Ready, TypeOK
    <2> QED BY <1>2, <2>1 DEF W_Ready, TypeOK
  <1>3. CASE W_Top
    <2>1. DmaTypeOK' /\ QueueTypeOK'
      BY <1>3, DmaCallTypes, QueueStateTypes DEF W_Top, TypeOK
    <2> QED BY <1>3, <2>1 DEF W_Top, TypeOK
  <1>4. CASE W_PopSleep
    <2>1. DmaTypeOK'
      BY <1>4, DmaCallTypes DEF W_PopSleep, TypeOK
    <2>2. QueueTypeOK'
      BY <1>4 DEF W_PopSleep, TypeOK, QueueTypeOK
    <2> QED BY <1>4, <2>1, <2>2 DEF W_PopSleep, TypeOK
  <1>5. CASE W_PopItem
    <2>1. QueueTypeOK' /\ Head(items) \in Item
      BY <1>5, PopTypes, PopItemNonempty DEF W_PopItem, TypeOK
    <2>2. DmaTypeOK'
      BY <1>5, DmaCallTypes DEF W_PopItem, TypeOK
    <2> QED BY <1>5, <2>1, <2>2 DEF W_PopItem, TypeOK
  <1>6. CASE W_AddFail
    <2>1. QueueTypeOK'
      BY <1>6, PopTypes, PopItemNonempty DEF W_AddFail, TypeOK
    <2>2. DmaTypeOK'
      BY <1>6, DmaCallTypes DEF W_AddFail, TypeOK
    <2> QED BY <1>6, <2>1, <2>2 DEF W_AddFail, TypeOK
  <1>7. CASE W_PopOther
    <2>1. QueueTypeOK'
      BY <1>7, QueueStateTypes DEF W_PopOther, WriterFails, TypeOK
    <2>2. DmaTypeOK'
      BY <1>7, DmaCallTypes DEF W_PopOther, TypeOK
    <2> QED BY <1>7, <2>1, <2>2 DEF W_PopOther, TypeOK
  <1>8. ASSUME NEW it \in active, W_Retire(it) PROVE TypeOK'
    <2>1. it.slot \in Slots /\ it \notin inflight
      BY <1>8 DEF W_Retire, Retirable, TypeOK, Item
    <2>2. QueueTypeOK' /\ DmaTypeOK'
      BY <1>8, <2>1, CompleteTypes DEF W_Retire, TypeOK
    <2>3. inflight' \subseteq active' /\ active' \subseteq Item /\ bytes_written' \in Nat
      BY <1>8, <2>1 DEF W_Retire, TypeOK
    <2> QED BY <1>8, <2>2, <2>3 DEF W_Retire, TypeOK
  <1>9. CASE W_Decide
    <2>1. DmaTypeOK' /\ QueueTypeOK'
      BY <1>9, DmaCallTypes, QueueStateTypes DEF W_Decide, TypeOK
    <2> QED BY <1>9, <2>1 DEF W_Decide, TypeOK
  <1>10. CASE W_StepFail
    <2>1. DmaTypeOK' /\ QueueTypeOK'
      BY <1>10, DmaCallTypes, QueueStateTypes DEF W_StepFail, TypeOK
    <2> QED BY <1>10, <2>1 DEF W_StepFail, TypeOK
  <1>11. CASE W_FlushFail
    <2>1. DmaTypeOK' /\ QueueTypeOK'
      BY <1>11, DmaCallTypes, QueueStateTypes DEF W_FlushFail, WriterFails, TypeOK
    <2> QED BY <1>11, <2>1 DEF W_FlushFail, TypeOK
  <1>12. CASE W_DrainAbort
    <2>1. DmaTypeOK' /\ QueueTypeOK'
      BY <1>12, DmaCallTypes, QueueStateTypes DEF W_DrainAbort, WriterFails, TypeOK
    <2> QED BY <1>12, <2>1 DEF W_DrainAbort, TypeOK
  <1> QED BY <1>1, <1>2, <1>3, <1>4, <1>5, <1>6, <1>7, <1>8, <1>9, <1>10, <1>11, <1>12
          DEF Writer

\* Every step of the worker and of its devices keeps the types.
LEMMA NextTypes == TypeOK /\ [Next]_vars => TypeOK'
  <1> SUFFICES ASSUME TypeOK, [Next]_vars PROVE TypeOK'
    OBVIOUS
  <1>1. CASE UNCHANGED vars
    <2>1. DmaTypeOK' /\ QueueTypeOK'
      BY <1>1, DmaCallTypes, QueueStateTypes DEF vars, TypeOK
    <2> QED BY <1>1, <2>1 DEF vars, TypeOK, prodVars, writerVars
  <1>2. CASE RequestStop
    <2>1. DmaTypeOK' /\ QueueTypeOK'
      BY <1>2, DmaCallTypes, QueueStateTypes DEF RequestStop, TypeOK
    <2> QED BY <1>2, <2>1 DEF RequestStop, TypeOK, prodVars, writerVars
  <1>3. ASSUME NEW it \in inflight, NvmeComplete(it) PROVE TypeOK'
    <2>1. DmaTypeOK' /\ QueueTypeOK'
      BY <1>3, DmaCallTypes, QueueStateTypes DEF NvmeComplete, TypeOK
    <2>2. ddr[it.slot] \in 0 .. MaxFrames
      BY DEF TypeOK, DmaTypeOK, Item
    <2>3. media' \in [Lbas -> 0 .. MaxFrames]
      BY <1>3, <2>2 DEF NvmeComplete, TypeOK
    <2> QED BY <1>3, <2>1, <2>3 DEF NvmeComplete, TypeOK, prodVars
  <1>4. CASE DmaEngine
    <2>1. DmaTypeOK'
      BY <1>4, EngineTypes DEF DmaEngine, TypeOK
    <2>2. QueueTypeOK'
      BY <1>4, QueueStateTypes DEF DmaEngine, TypeOK
    <2> QED BY <1>4, <2>1, <2>2 DEF DmaEngine, TypeOK, prodVars, writerVars
  <1>5. CASE Ended
    BY <1>1, <1>5 DEF Ended
  <1> QED BY <1>1, <1>2, <1>3, <1>4, <1>5, ProducerTypes, WriterTypes DEF Next, Nvme

\* The worker starts well-typed.
LEMMA InitTypes == Init => TypeOK
  <1> SUFFICES ASSUME Init PROVE TypeOK
    OBVIOUS
  <1>1. 0 \in Slots /\ 0 \in 0 .. MaxFrames /\ 0 \in 0 .. NSlots
    BY DmaRingAssumption DEF Slots
  <1>2. DmaTypeOK
    BY <1>1, DmaRingAssumption DEF Init, DmaInit, DmaTypeOK
  <1>3. QueueTypeOK
    <2>1. slots \in [Slots -> SlotStates] /\ items \in Seq(Item)
      BY DEF Init, QueueInit, SlotStates
    <2>2. worker_state \in WorkerStates
      BY DEF Init, QueueInit, WorkerStates
    <2> QED BY <2>1, <2>2 DEF Init, QueueInit, QueueTypeOK
  <1> QED BY <1>1, <1>2, <1>3 DEF Init, TypeOK

\* Type correctness of the storage worker: in particular the hardware-owned
\* count never leaves 0 .. NSlots and every queued item names a slot of the ring.
THEOREM WorkerTypeOK == Spec => []TypeOK
  BY InitTypes, NextTypes, PTL DEF Spec

------------------------------------------------------------------------------
(* Safety.                                                                 *)

\* Where the producer is once storage_queue_finish has been called.
PostFinish == {"join", "join_abort", "finalize", "complete", "done", "out_finish",
               "out_join", "out_join_abort", "out_final"}

\* The states from which the writer may leave as drained.
Drained == {"DRAINING", "DRAINED_WAIT_STOP", "FINALIZING", "DONE"}

SafeInv ==
    /\ dma_requeue_after_stop_count = 0
    /\ dma_stop_latched => ~requeue_enabled
    /\ dma_quiesced => dmasr = "halted"
    /\ ppc = "gate" => quiesce_result = "NONE" /\ worker_state = "READY" /\ wpc = "wait_run"
    /\ runtime_closed => dma_quiesced /\ ppc = "done"
    /\ worker_state = "FAILED" => error
    /\ worker_state \in Drained => ppc \in PostFinish

\* The invariant holds when the worker starts.
LEMMA InitSafe == Init => SafeInv
  BY DEF Init, DmaInit, QueueInit, SafeInv, dma_quiesced, Drained

\* A hand-over may set q->error but leaves the worker state and the requeue flag.
LEMMA HandOverKeeps ==
  ASSUME NEW pending, NEW released, NEW failed, hand_over(pending, released, failed)
  PROVE  worker_state' = worker_state /\ requeue_enabled' = requeue_enabled /\ (error => error')
  <1>1. worker_state' = worker_state /\ requeue_enabled' = requeue_enabled
    BY DEF hand_over
  <1>2. error => error'
    BY Zenon DEF hand_over
  <1> QED BY <1>1, <1>2

\* Every step of the producer keeps it.
LEMMA ProducerSafe == TypeOK /\ SafeInv /\ Producer => SafeInv'
  <1> SUFFICES ASSUME TypeOK, SafeInv, Producer PROVE SafeInv'
    OBVIOUS
  <1> USE DEF SafeInv, dma_quiesced, Drained, PostFinish, GoTo, GoOut, dmaVars, queueVars,
              ringVars, engineVars, prodVars, writerVars, stopVars, batchVars, countVars, endVars,
              broadcast, fail_locked
  <1>1. CASE P_Gate
    BY <1>1 DEF P_Gate, dma_start_s2mm_ring
  <1>2. CASE P_GateFail
    BY <1>2 DEF P_GateFail, dma_start_s2mm_ring
  <1>3. CASE P_EnableRun
    BY <1>3 DEF P_EnableRun, queue_enable_run, transition_locked, TransitionOK, transition_allowed
  <1>4. CASE P_WaitWriterReady
    BY <1>4 DEF P_WaitWriterReady
  <1>5. ASSUME NEW b \in BOOLEAN, P_ProducerReady(b) PROVE SafeInv'
    BY <1>5 DEF P_ProducerReady, queue_set_producer_ready
  <1>6. CASE P_MarkRunning
    BY <1>6 DEF P_MarkRunning, queue_mark_running, transition_locked, TransitionOK, transition_allowed
  <1>7. CASE P_MarkRunningFail
    BY <1>7 DEF P_MarkRunningFail, fail_and_wake
  <1>8. CASE P_SeeError
    BY <1>8 DEF P_SeeError
  <1>9. CASE P_SeeStop
    BY <1>9 DEF P_SeeStop, queue_request_stop_state, stop_latched, transition_locked, TransitionOK, transition_allowed
  <1>10. CASE P_Boundary
    BY <1>10 DEF P_Boundary, queue_latch_stop, LatchedState, dma_latch_stop
  <1>11. CASE P_BoundaryEventFail
    BY <1>11 DEF P_BoundaryEventFail
  <1>12. CASE P_ClearRunStop
    BY <1>12 DEF P_ClearRunStop, clear_run_stop
  <1>13. ASSUME NEW r \in {"OK", "FAILED", "RESET_RECOVERED"}, P_Quiesced(r) PROVE SafeInv'
    BY <1>13 DEF P_Quiesced, QuiesceOutcomes, dma_quiesce, queue_mark_harvesting, transition_locked, TransitionOK, transition_allowed
  <1>14. CASE P_Harvest
    BY <1>14 DEF P_Harvest, MayHarvest, Harvesting, dma_harvest
  <1>15. CASE P_ReceiveFail
    BY <1>15 DEF P_ReceiveFail, MayHarvest, Harvesting
  <1>16. CASE P_Scan
    BY <1>16 DEF P_Scan, ScanEmpty, MayHarvest, Harvesting
  <1>17. CASE P_ScanFail
    BY <1>17 DEF P_ScanFail, ScanEmpty, MayHarvest, Harvesting
  <1>18. CASE P_Enqueue
    <2>1. worker_state' = worker_state /\ requeue_enabled' = requeue_enabled /\ (error => error')
      BY <1>18, HandOverKeeps DEF P_Enqueue
    <2>2. UNCHANGED <<dmaVars, quiesce_result, endVars, writerVars>> /\ ppc = "enqueue"
          /\ ppc' \in {"out", "loop"}
      BY <1>18 DEF P_Enqueue
    <2> QED BY <2>1, <2>2
  <1>19. CASE P_Finish
    BY <1>19 DEF P_Finish, queue_finish, FinishFails
  <1>20. CASE P_Join
    BY <1>20 DEF P_Join
  <1>21. CASE P_JoinTimeout
    BY <1>21 DEF P_JoinTimeout, fail_and_wake
  <1>22. CASE P_JoinAbort
    BY <1>22 DEF P_JoinAbort
  <1>23. CASE P_Finalize
    BY <1>23 DEF P_Finalize, dma_finalize, queue_mark_finalizing
  <1>24. CASE P_Complete
    BY <1>24 DEF P_Complete, queue_mark_done, transition_locked, TransitionOK, transition_allowed
  <1>25. CASE P_Out
    BY <1>25 DEF P_Out, LatchedState, dma_latch_stop
  <1>26. CASE P_OutQuiesce
    BY <1>26 DEF P_OutQuiesce, clear_run_stop
  <1>27. ASSUME NEW r \in {"OK", "FAILED", "RESET_RECOVERED"}, P_OutQuiesced(r) PROVE SafeInv'
    BY <1>27 DEF P_OutQuiesced, QuiesceOutcomes, dma_quiesce, queue_mark_harvesting, transition_locked, TransitionOK, transition_allowed
  <1>28. CASE P_OutHarvest
    <2>1. UNCHANGED <<queueVars, stopVars, endVars, writerVars>> /\ ppc = "out_harvest"
      BY <1>28 DEF P_OutHarvest
    <2>2. ppc' \in {"out_finish", "out_enqueue"}
      BY <1>28 DEF P_OutHarvest
    <2>3. UNCHANGED <<dmasr, dma_stop_latched, dma_requeue_after_stop_count>>
      BY <1>28 DEF P_OutHarvest, dma_harvest
    <2> QED BY <2>1, <2>2, <2>3
  <1>29. CASE P_OutHarvestEnd
    BY <1>29 DEF P_OutHarvestEnd
  <1>30. CASE P_OutEnqueue
    <2>1. worker_state' = worker_state /\ requeue_enabled' = requeue_enabled /\ (error => error')
      BY <1>30, HandOverKeeps DEF P_OutEnqueue
    <2>2. UNCHANGED <<dmaVars, stopVars, endVars, writerVars>> /\ ppc = "out_enqueue"
          /\ ppc' \in {"out_finish", "out_harvest"}
      BY <1>30 DEF P_OutEnqueue
    <2> QED BY <2>1, <2>2
  <1>31. CASE P_OutFinish
    BY <1>31 DEF P_OutFinish, queue_finish, FinishFails
  <1>32. CASE P_OutJoin
    BY <1>32 DEF P_OutJoin
  <1>33. CASE P_OutFinal
    BY <1>33 DEF P_OutFinal, dma_finalize, MayRelease
  <1> QED BY <1>1, <1>2, <1>3, <1>4, <1>5, <1>6, <1>7, <1>8, <1>9, <1>10, <1>11, <1>12, <1>13, <1>14, <1>15, <1>16, <1>17, <1>18, <1>19, <1>20, <1>21, <1>22, <1>23, <1>24, <1>25, <1>26, <1>27, <1>28, <1>29, <1>30, <1>31, <1>32, <1>33 DEF Producer

\* Every step of the writer keeps it: a completion requeues only while the
\* worker is RUNNING with requeue_enabled, so never under the latch.
LEMMA WriterSafe == TypeOK /\ SafeInv /\ Writer => SafeInv'
  <1> SUFFICES ASSUME TypeOK, SafeInv, Writer PROVE SafeInv'
    OBVIOUS
  <1> USE DEF SafeInv, dma_quiesced, Drained, PostFinish, GoTo, GoOut, dmaVars, queueVars,
              ringVars, engineVars, prodVars, writerVars, stopVars, batchVars, countVars, endVars,
              broadcast, fail_locked
  <1>1. CASE W_WaitRun
    BY <1>1 DEF W_WaitRun
  <1>2. ASSUME NEW b \in BOOLEAN, W_Ready(b) PROVE SafeInv'
    BY <1>2 DEF W_Ready, queue_set_writer_ready
  <1>3. CASE W_Top
    BY <1>3 DEF W_Top
  <1>4. CASE W_PopSleep
    BY <1>4 DEF W_PopSleep
  <1>5. CASE W_PopItem
    BY <1>5 DEF W_PopItem, queue_pop_item
  <1>6. CASE W_AddFail
    BY <1>6 DEF W_AddFail, queue_pop_item
  <1>7. CASE W_PopOther
    BY <1>7 DEF W_PopOther, WriterFails, fail_and_wake
  <1>8. ASSUME NEW it \in active, W_Retire(it) PROVE SafeInv'
    BY <1>8 DEF W_Retire, complete_slot, CompleteFails, should_requeue, dma_requeue_one, requeue_refused, can_requeue
  <1>9. CASE W_Decide
    BY <1>9 DEF W_Decide
  <1>10. CASE W_StepFail
    BY <1>10 DEF W_StepFail
  <1>11. CASE W_FlushFail
    BY <1>11 DEF W_FlushFail, WriterFails, fail_and_wake
  <1>12. CASE W_DrainAbort
    BY <1>12 DEF W_DrainAbort, WriterFails, fail_and_wake
  <1> QED BY <1>1, <1>2, <1>3, <1>4, <1>5, <1>6, <1>7, <1>8, <1>9, <1>10, <1>11, <1>12 DEF Writer

\* Every step keeps it; the devices only stop a running engine.
LEMMA NextSafe == TypeOK /\ SafeInv /\ [Next]_vars => SafeInv'
  <1> SUFFICES ASSUME TypeOK, SafeInv, [Next]_vars PROVE SafeInv'
    OBVIOUS
  <1> USE DEF SafeInv, dma_quiesced, Drained, PostFinish, dmaVars, queueVars, ringVars, prodVars,
              writerVars
  <1>1. CASE UNCHANGED vars
    BY <1>1 DEF vars
  <1>2. CASE RequestStop
    BY <1>2 DEF RequestStop
  <1>3. ASSUME NEW it \in inflight, NvmeComplete(it) PROVE SafeInv'
    BY <1>3 DEF NvmeComplete
  <1>4. CASE DmaEngine
    BY <1>4 DEF DmaEngine, HwReceive, HwFetchStale, HwHalt, HwFault, HwWindow
  <1>5. CASE Ended
    BY <1>1, <1>5 DEF Ended
  <1> QED BY <1>1, <1>2, <1>3, <1>4, <1>5, ProducerSafe, WriterSafe DEF Next, Nvme

\* The inductive invariant holds in every behaviour.
LEMMA SafeInvariant == Spec => [](TypeOK /\ SafeInv)
  <1>1. Init => TypeOK /\ SafeInv
    BY InitTypes, InitSafe
  <1>2. (TypeOK /\ SafeInv) /\ [Next]_vars => (TypeOK /\ SafeInv)'
    BY NextTypes, NextSafe
  <1> QED BY <1>1, <1>2, PTL DEF Spec

\* storage_complete_slot never reaches dma_requeue_one after the STOP latch: the
\* counter that the code treats as fatal stays 0 in every interleaving.
THEOREM NoLateRequeue == Spec => []NoRequeueAfterLatch
  <1>1. SafeInv => NoRequeueAfterLatch
    BY DEF SafeInv, NoRequeueAfterLatch
  <1> QED BY <1>1, SafeInvariant, PTL

\* channel_runtime_close never unmaps DDR under a DMA engine that may write to it.
THEOREM DdrOutlivesDma == Spec => []NoCloseUnderDma
  <1>1. SafeInv => NoCloseUnderDma
    BY DEF SafeInv, NoCloseUnderDma, HwWindow
  <1> QED BY <1>1, SafeInvariant, PTL

------------------------------------------------------------------------------
(* Action properties: what STOP takes away from the engine, and the queue    *)
(* from the producer.                                                        *)

\* A step that gives the engine no descriptor and does not start it.
EngineNotFed ==
    /\ UNCHANGED <<curdesc, taildesc, dma_idle>>
    /\ dmasr' \in {dmasr, "halted", "error"} \/ (dmasr = "running" /\ dmasr' = "stopping")

\* Such a step does not enlarge what the engine may write.
LEMMA NotFedShrinks == EngineNotFed => HwWindow' \subseteq HwWindow
  BY DEF EngineNotFed, HwWindow

\* Remainders of what two positions of the ring can differ by.
LEMMA RingDifference ==
  /\ \A a \in 0 .. NSlots - 1 : a % NSlots = a
  /\ \A a \in -NSlots .. -1 : a % NSlots = a + NSlots
  /\ NSlots % NSlots = 0
  <1>1. NSlots \in Nat \ {0}
    BY DmaRingAssumption
  <1>2. \A a \in 0 .. NSlots - 1 : a % NSlots = a
    BY <1>1
  <1>3. \A a \in -NSlots .. -1 : a % NSlots = a + NSlots
    BY <1>1
  <1>4. NSlots % NSlots = 0
    BY <1>1
  <1> QED BY <1>2, <1>3, <1>4

\* Receiving a frame moves CURDESC past the descriptor it used: the window loses it.
LEMMA ReceiveShrinks ==
  ASSUME DmaTypeOK, NEW kind, HwReceive(kind)
  PROVE  HwWindow' \subseteq HwWindow
  <1>1. CASE curdesc = taildesc
    BY <1>1 DEF HwReceive, HwWindow
  <1>2. CASE curdesc # taildesc
    <2> SUFFICES ASSUME NEW s \in HwWindow' PROVE s \in HwWindow
      OBVIOUS
    <2>1. /\ NSlots \in Nat \ {0} /\ s \in 0 .. NSlots - 1
          /\ curdesc \in 0 .. NSlots - 1 /\ taildesc \in 0 .. NSlots - 1
      BY DmaRingAssumption DEF HwWindow, DmaTypeOK, Slots
    <2>2. curdesc' = IF curdesc = NSlots - 1 THEN 0 ELSE curdesc + 1
      <3>1. curdesc' = (curdesc + 1) % NSlots
        BY DEF HwReceive, Succ
      <3>2. CASE curdesc = NSlots - 1
        <4>1. curdesc + 1 = NSlots
          BY <2>1, <3>2
        <4> QED BY <3>1, <3>2, <4>1, RingDifference
      <3>3. CASE curdesc # NSlots - 1
        <4>1. curdesc + 1 \in 0 .. NSlots - 1
          BY <2>1, <3>3
        <4> QED BY <3>1, <3>3, <4>1, RingDifference
      <3> QED BY <3>2, <3>3
    <2>3. /\ (s - curdesc') % NSlots <= (taildesc - curdesc') % NSlots
          /\ ~dma_idle /\ dmasr \in {"running", "stopping"}
      BY <1>2 DEF HwReceive, HwWindow
    <2>4. \A x, y \in 0 .. NSlots - 1 :
            (x - y) % NSlots = IF x >= y THEN x - y ELSE x - y + NSlots
      BY <2>1, RingDifference
    <2>5. (s - curdesc) % NSlots <= (taildesc - curdesc) % NSlots
      <3> DEFINE d(x, y) == IF x >= y THEN x - y ELSE x - y + NSlots
      <3>1. curdesc' \in 0 .. NSlots - 1
        BY <2>1, <2>2
      <3>2. d(s, curdesc') <= d(taildesc, curdesc')
        BY <2>1, <2>3, <2>4, <3>1
      <3>3. d(s, curdesc) <= d(taildesc, curdesc)
        BY <1>2, <2>1, <2>2, <3>2
      <3> HIDE DEF d
      <3>4. (s - curdesc) % NSlots = d(s, curdesc)
            /\ (taildesc - curdesc) % NSlots = d(taildesc, curdesc)
        BY <2>1, <2>4 DEF d
      <3> QED BY <3>3, <3>4
    <2> QED BY <2>1, <2>3, <2>5 DEF HwWindow, Slots
  <1> QED BY <1>1, <1>2

\* After STOP no step of the producer feeds the engine: it starts only at the
\* gate, when the worker is still READY.
LEMMA ProducerNeverFeeds == TypeOK /\ SafeInv /\ stop_latched /\ Producer => EngineNotFed
  <1> SUFFICES ASSUME SafeInv, stop_latched, Producer PROVE EngineNotFed
    OBVIOUS
  <1> USE DEF SafeInv, stop_latched, EngineNotFed, dmaVars, ringVars, engineVars
  <1>1. CASE P_Gate
    BY <1>1 DEF P_Gate, dma_start_s2mm_ring
  <1>2. CASE P_GateFail
    BY <1>2 DEF P_GateFail, dma_start_s2mm_ring
  <1>3. CASE P_EnableRun
    BY <1>3 DEF P_EnableRun, queue_enable_run
  <1>4. CASE P_WaitWriterReady
    BY <1>4 DEF P_WaitWriterReady
  <1>5. ASSUME NEW b \in BOOLEAN, P_ProducerReady(b) PROVE EngineNotFed
    BY <1>5 DEF P_ProducerReady, queue_set_producer_ready
  <1>6. CASE P_MarkRunning
    BY <1>6 DEF P_MarkRunning, queue_mark_running
  <1>7. CASE P_MarkRunningFail
    BY <1>7 DEF P_MarkRunningFail, fail_and_wake
  <1>8. CASE P_SeeError
    BY <1>8 DEF P_SeeError
  <1>9. CASE P_SeeStop
    BY <1>9 DEF P_SeeStop, queue_request_stop_state
  <1>10. CASE P_Boundary
    BY <1>10 DEF P_Boundary, queue_latch_stop, dma_latch_stop
  <1>11. CASE P_BoundaryEventFail
    BY <1>11 DEF P_BoundaryEventFail
  <1>12. CASE P_ClearRunStop
    BY <1>12 DEF P_ClearRunStop, clear_run_stop
  <1>13. ASSUME NEW r \in {"OK", "FAILED", "RESET_RECOVERED"}, P_Quiesced(r) PROVE EngineNotFed
    BY <1>13 DEF P_Quiesced, dma_quiesce, queue_mark_harvesting
  <1>14. CASE P_Harvest
    BY <1>14 DEF P_Harvest, dma_harvest
  <1>15. CASE P_ReceiveFail
    BY <1>15 DEF P_ReceiveFail
  <1>16. CASE P_Scan
    BY <1>16 DEF P_Scan
  <1>17. CASE P_ScanFail
    BY <1>17 DEF P_ScanFail
  <1>18. CASE P_Enqueue
    BY <1>18 DEF P_Enqueue
  <1>19. CASE P_Finish
    BY <1>19 DEF P_Finish, queue_finish
  <1>20. CASE P_Join
    BY <1>20 DEF P_Join
  <1>21. CASE P_JoinTimeout
    BY <1>21 DEF P_JoinTimeout, fail_and_wake
  <1>22. CASE P_JoinAbort
    BY <1>22 DEF P_JoinAbort
  <1>23. CASE P_Finalize
    BY <1>23 DEF P_Finalize, dma_finalize, queue_mark_finalizing
  <1>24. CASE P_Complete
    BY <1>24 DEF P_Complete, queue_mark_done
  <1>25. CASE P_Out
    BY <1>25 DEF P_Out, dma_latch_stop
  <1>26. CASE P_OutQuiesce
    BY <1>26 DEF P_OutQuiesce, clear_run_stop
  <1>27. ASSUME NEW r \in {"OK", "FAILED", "RESET_RECOVERED"}, P_OutQuiesced(r) PROVE EngineNotFed
    BY <1>27 DEF P_OutQuiesced, dma_quiesce, queue_mark_harvesting
  <1>28. CASE P_OutHarvest
    BY <1>28 DEF P_OutHarvest, dma_harvest
  <1>29. CASE P_OutHarvestEnd
    BY <1>29 DEF P_OutHarvestEnd
  <1>30. CASE P_OutEnqueue
    BY <1>30 DEF P_OutEnqueue
  <1>31. CASE P_OutFinish
    BY <1>31 DEF P_OutFinish, queue_finish
  <1>32. CASE P_OutJoin
    BY <1>32 DEF P_OutJoin
  <1>33. CASE P_OutFinal
    BY <1>33 DEF P_OutFinal, dma_finalize
  <1> QED BY <1>1, <1>2, <1>3, <1>4, <1>5, <1>6, <1>7, <1>8, <1>9, <1>10, <1>11, <1>12, <1>13, <1>14,
             <1>15, <1>16, <1>17, <1>18, <1>19, <1>20, <1>21, <1>22, <1>23, <1>24, <1>25, <1>26,
             <1>27, <1>28, <1>29, <1>30, <1>31, <1>32, <1>33 DEF Producer

\* Nor does a step of the writer: a completion requeues only while RUNNING.
LEMMA WriterNeverFeeds == TypeOK /\ SafeInv /\ stop_latched /\ Writer => EngineNotFed
  <1> SUFFICES ASSUME SafeInv, stop_latched, Writer PROVE EngineNotFed
    OBVIOUS
  <1> USE DEF stop_latched, EngineNotFed, dmaVars
  <1>1. CASE W_WaitRun
    BY <1>1 DEF W_WaitRun
  <1>2. ASSUME NEW b \in BOOLEAN, W_Ready(b) PROVE EngineNotFed
    BY <1>2 DEF W_Ready, queue_set_writer_ready
  <1>3. CASE W_Top
    BY <1>3 DEF W_Top
  <1>4. CASE W_PopSleep
    BY <1>4 DEF W_PopSleep
  <1>5. CASE W_PopItem
    BY <1>5 DEF W_PopItem, queue_pop_item
  <1>6. CASE W_AddFail
    BY <1>6 DEF W_AddFail, queue_pop_item
  <1>7. CASE W_PopOther
    BY <1>7 DEF W_PopOther, WriterFails, fail_and_wake
  <1>8. ASSUME NEW it \in active, W_Retire(it) PROVE EngineNotFed
    BY <1>8 DEF W_Retire, complete_slot, should_requeue, can_requeue
  <1>9. CASE W_Decide
    BY <1>9 DEF W_Decide
  <1>10. CASE W_StepFail
    BY <1>10 DEF W_StepFail
  <1>11. CASE W_FlushFail
    BY <1>11 DEF W_FlushFail, WriterFails, fail_and_wake
  <1>12. CASE W_DrainAbort
    BY <1>12 DEF W_DrainAbort, WriterFails, fail_and_wake
  <1> QED BY <1>1, <1>2, <1>3, <1>4, <1>5, <1>6, <1>7, <1>8, <1>9, <1>10, <1>11, <1>12 DEF Writer

\* Once STOP has been seen, the descriptors the engine may still write only get
\* fewer: no completion hands a slot back, whatever the two threads and the
\* engine are doing (storage_queue_request_stop_state against storage_complete_slot).
THEOREM StopTakesSlotsBack == Spec => EngineWindowShrinksAfterStop
  <1>1. TypeOK /\ SafeInv /\ [Next]_vars => [stop_latched => HwWindow' \subseteq HwWindow]_vars
    <2> SUFFICES ASSUME TypeOK, SafeInv, [Next]_vars, stop_latched
                 PROVE  HwWindow' \subseteq HwWindow
      OBVIOUS
    <2> USE NotFedShrinks DEF EngineNotFed, dmaVars
    <2>1. CASE UNCHANGED vars
      BY <2>1 DEF vars
    <2>2. CASE RequestStop
      BY <2>2 DEF RequestStop
    <2>3. CASE Nvme
      BY <2>3 DEF Nvme, NvmeComplete
    <2>4. CASE DmaEngine
      BY <2>4, ReceiveShrinks DEF DmaEngine, HwFetchStale, HwHalt, HwFault, TypeOK
    <2>5. CASE Ended
      BY <2>1, <2>5 DEF Ended
    <2> QED BY <2>1, <2>2, <2>3, <2>4, <2>5, ProducerNeverFeeds, WriterNeverFeeds DEF Next
  <1> QED BY <1>1, SafeInvariant, PTL DEF Spec, EngineWindowShrinksAfterStop

\* What may happen to the FIFO once the producer is done.
FifoOnlyDrains == items' = items \/ (items # <<>> /\ items' = Tail(items))

\* A hand-over that finds q->error set queues nothing.
LEMMA HandOverRefused ==
  ASSUME NEW pending, NEW released, NEW failed, error, hand_over(pending, released, failed)
  PROVE  items' = items
  BY DEF hand_over, PushRejected

\* A producer that is done but still holds a batch is one whose worker FAILED:
\* q->error is set and the batch is refused.
LEMMA ProducerPushesNothing == SafeInv /\ producer_done /\ Producer => FifoOnlyDrains
  <1> SUFFICES ASSUME SafeInv, producer_done, Producer PROVE FifoOnlyDrains
    OBVIOUS
  <1> USE DEF FifoOnlyDrains, queueVars
  <1>1. CASE P_Gate
    BY <1>1 DEF P_Gate, dma_start_s2mm_ring
  <1>2. CASE P_GateFail
    BY <1>2 DEF P_GateFail, dma_start_s2mm_ring
  <1>3. CASE P_EnableRun
    BY <1>3 DEF P_EnableRun, queue_enable_run
  <1>4. CASE P_WaitWriterReady
    BY <1>4 DEF P_WaitWriterReady
  <1>5. ASSUME NEW b \in BOOLEAN, P_ProducerReady(b) PROVE FifoOnlyDrains
    BY <1>5 DEF P_ProducerReady, queue_set_producer_ready
  <1>6. CASE P_MarkRunning
    BY <1>6 DEF P_MarkRunning, queue_mark_running
  <1>7. CASE P_MarkRunningFail
    BY <1>7 DEF P_MarkRunningFail, fail_and_wake
  <1>8. CASE P_SeeError
    BY <1>8 DEF P_SeeError
  <1>9. CASE P_SeeStop
    BY <1>9 DEF P_SeeStop, queue_request_stop_state
  <1>10. CASE P_Boundary
    BY <1>10 DEF P_Boundary, queue_latch_stop, dma_latch_stop
  <1>11. CASE P_BoundaryEventFail
    BY <1>11 DEF P_BoundaryEventFail
  <1>12. CASE P_ClearRunStop
    BY <1>12 DEF P_ClearRunStop, clear_run_stop
  <1>13. ASSUME NEW r \in {"OK", "FAILED", "RESET_RECOVERED"}, P_Quiesced(r) PROVE FifoOnlyDrains
    BY <1>13 DEF P_Quiesced, dma_quiesce, queue_mark_harvesting
  <1>14. CASE P_Harvest
    BY <1>14 DEF P_Harvest, dma_harvest
  <1>15. CASE P_ReceiveFail
    BY <1>15 DEF P_ReceiveFail
  <1>16. CASE P_Scan
    BY <1>16 DEF P_Scan
  <1>17. CASE P_ScanFail
    BY <1>17 DEF P_ScanFail
  <1>18. CASE P_Enqueue
    <2>1. error
      BY <1>18 DEF P_Enqueue, SafeInv, producer_done, Drained, PostFinish
    <2> QED BY <1>18, <2>1, HandOverRefused DEF P_Enqueue
  <1>19. CASE P_Finish
    BY <1>19 DEF P_Finish, queue_finish
  <1>20. CASE P_Join
    BY <1>20 DEF P_Join
  <1>21. CASE P_JoinTimeout
    BY <1>21 DEF P_JoinTimeout, fail_and_wake
  <1>22. CASE P_JoinAbort
    BY <1>22 DEF P_JoinAbort
  <1>23. CASE P_Finalize
    BY <1>23 DEF P_Finalize, dma_finalize, queue_mark_finalizing
  <1>24. CASE P_Complete
    BY <1>24 DEF P_Complete, queue_mark_done
  <1>25. CASE P_Out
    BY <1>25 DEF P_Out, dma_latch_stop
  <1>26. CASE P_OutQuiesce
    BY <1>26 DEF P_OutQuiesce, clear_run_stop
  <1>27. ASSUME NEW r \in {"OK", "FAILED", "RESET_RECOVERED"}, P_OutQuiesced(r) PROVE FifoOnlyDrains
    BY <1>27 DEF P_OutQuiesced, dma_quiesce, queue_mark_harvesting
  <1>28. CASE P_OutHarvest
    BY <1>28 DEF P_OutHarvest, dma_harvest
  <1>29. CASE P_OutHarvestEnd
    BY <1>29 DEF P_OutHarvestEnd
  <1>30. CASE P_OutEnqueue
    <2>1. error
      BY <1>30 DEF P_OutEnqueue, SafeInv, producer_done, Drained, PostFinish
    <2> QED BY <1>30, <2>1, HandOverRefused DEF P_OutEnqueue
  <1>31. CASE P_OutFinish
    BY <1>31 DEF P_OutFinish, queue_finish
  <1>32. CASE P_OutJoin
    BY <1>32 DEF P_OutJoin
  <1>33. CASE P_OutFinal
    BY <1>33 DEF P_OutFinal, dma_finalize
  <1> QED BY <1>1, <1>2, <1>3, <1>4, <1>5, <1>6, <1>7, <1>8, <1>9, <1>10, <1>11, <1>12, <1>13, <1>14,
             <1>15, <1>16, <1>17, <1>18, <1>19, <1>20, <1>21, <1>22, <1>23, <1>24, <1>25, <1>26,
             <1>27, <1>28, <1>29, <1>30, <1>31, <1>32, <1>33 DEF Producer

\* The writer only takes items out.
LEMMA WriterOnlyPops == Writer => FifoOnlyDrains
  <1> SUFFICES ASSUME Writer PROVE FifoOnlyDrains
    OBVIOUS
  <1> USE PopItemNonempty DEF FifoOnlyDrains, queueVars
  <1>1. CASE W_WaitRun
    BY <1>1 DEF W_WaitRun
  <1>2. ASSUME NEW b \in BOOLEAN, W_Ready(b) PROVE FifoOnlyDrains
    BY <1>2 DEF W_Ready, queue_set_writer_ready
  <1>3. CASE W_Top
    BY <1>3 DEF W_Top
  <1>4. CASE W_PopSleep
    BY <1>4 DEF W_PopSleep
  <1>5. CASE W_PopItem
    BY <1>5 DEF W_PopItem, queue_pop_item
  <1>6. CASE W_AddFail
    BY <1>6 DEF W_AddFail, queue_pop_item
  <1>7. CASE W_PopOther
    BY <1>7 DEF W_PopOther, WriterFails, fail_and_wake
  <1>8. ASSUME NEW it \in active, W_Retire(it) PROVE FifoOnlyDrains
    BY <1>8 DEF W_Retire, complete_slot, should_requeue, can_requeue
  <1>9. CASE W_Decide
    BY <1>9 DEF W_Decide
  <1>10. CASE W_StepFail
    BY <1>10 DEF W_StepFail
  <1>11. CASE W_FlushFail
    BY <1>11 DEF W_FlushFail, WriterFails, fail_and_wake
  <1>12. CASE W_DrainAbort
    BY <1>12 DEF W_DrainAbort, WriterFails, fail_and_wake
  <1> QED BY <1>1, <1>2, <1>3, <1>4, <1>5, <1>6, <1>7, <1>8, <1>9, <1>10, <1>11, <1>12 DEF Writer

\* Nothing enters the queue once the producer counts as done, so a writer that
\* saw it empty and left (storage_queue_pop, storage_cross_slot_writer_decide)
\* cannot have left a frame behind.
THEOREM DrainedStaysDrained == Spec => NoPushAfterProducerDone
  <1>1. SafeInv /\ [Next]_vars => [producer_done => FifoOnlyDrains]_vars
    <2> SUFFICES ASSUME SafeInv, [Next]_vars, producer_done PROVE FifoOnlyDrains
      OBVIOUS
    <2> USE DEF queueVars
    <2>1. CASE UNCHANGED vars
      BY <2>1 DEF vars, FifoOnlyDrains
    <2>2. CASE RequestStop
      BY <2>2 DEF RequestStop, FifoOnlyDrains
    <2>3. CASE Nvme
      BY <2>3 DEF Nvme, NvmeComplete, FifoOnlyDrains
    <2>4. CASE DmaEngine
      BY <2>4 DEF DmaEngine, FifoOnlyDrains
    <2>5. CASE Ended
      BY <2>1, <2>5 DEF Ended
    <2> QED BY <2>1, <2>2, <2>3, <2>4, <2>5, ProducerPushesNothing, WriterOnlyPops DEF Next
  <1> QED BY <1>1, SafeInvariant, PTL DEF Spec, NoPushAfterProducerDone, FifoOnlyDrains

------------------------------------------------------------------------------
(* Ownership.                                                              *)

\* The FIFO names exactly the slots that are READY_FOR_NVME, each once.
QueueOwns(table, q) ==
    /\ \A i \in 1 .. Len(q) : table[q[i].slot] = "READY_FOR_NVME"
    /\ \A i, j \in 1 .. Len(q) : q[i].slot = q[j].slot => i = j
    /\ \A s \in Slots : table[s] = "READY_FOR_NVME" => \E i \in 1 .. Len(q) : q[i].slot = s

\* The popped items are NVME_BUSY slots, each once.
WriterOwns(table, popped) ==
    /\ \A it \in popped : table[it.slot] = "NVME_BUSY"
    /\ \A it1, it2 \in popped : it1.slot = it2.slot => it1 = it2

OwnInv == QueueOwns(slots, items) /\ WriterOwns(slots, active)

LeaveInv ==
    /\ wpc \in {"wait_run", "ready"} => ~writer_ready /\ active = {}
    /\ worker_state \in {"READY", "ARMED", "FAILED"} \/ writer_ready
    \* the legacy writer holds one slot, and only while it flushes it
    /\ ~CrossSlot => \A a, b \in active : a = b
    /\ ~CrossSlot /\ active # {} => wpc = "step" \/ (wpc = "exit" /\ error)
    /\ wpc = "exit" /\ ~error => producer_done /\ items = <<>> /\ active = {}
    /\ CrossSlot /\ wpc = "exit" /\ nvme_engine_quiesced => inflight = {}
    /\ ~writer_started \/ ppc = "finalize" => wpc = "exit"
    /\ ppc = "complete" => wpc = "exit" /\ active = {}
    /\ CrossSlot /\ runtime_closed /\ ~writer_started => inflight = {}

\* Both hold when the worker starts.
LEMMA InitOwn == Init => OwnInv /\ LeaveInv
  <1> SUFFICES ASSUME Init PROVE OwnInv /\ LeaveInv
    OBVIOUS
  <1>1. Len(items) = 0 /\ active = {} /\ inflight = {}
    BY DEF Init, QueueInit
  <1>2. OwnInv
    BY <1>1 DEF Init, QueueInit, OwnInv, QueueOwns, WriterOwns
  <1>3. LeaveInv
    BY <1>1 DEF Init, QueueInit, LeaveInv
  <1> QED BY <1>2, <1>3

------------------------------------------------------------------------------
(* What a step of the producer leaves alone.                               *)

\* The facts about a producer step that both invariants use: it touches the
\* slots and the FIFO only in a hand-over, never clears q->error, never takes a
\* worker out of its last states and never makes it run before the writer is ready.
Bystander ==
    /\ UNCHANGED <<active, inflight, wpc, nvme_engine_quiesced, writer_ready>>
    /\ UNCHANGED <<slots, items>> \/ P_Enqueue \/ P_OutEnqueue
    /\ error => error'
    /\ producer_done => producer_done'
    /\ worker_state' \in {worker_state, "READY", "ARMED", "FAILED"} \/ writer_ready

LEMMA ProducerBystander ==
  ASSUME TypeOK, SafeInv, LeaveInv, Producer PROVE Bystander
  <1> USE DEF Bystander, GoTo, GoOut, dmaVars, queueVars, producer_done,
              prodVars, writerVars, stopVars, batchVars, countVars, endVars,
              broadcast, fail_locked
  <1>0. worker_state \in {"READY", "ARMED", "FAILED"} \/ writer_ready
    BY DEF LeaveInv
  <1>1. CASE P_Gate
    BY <1>1 DEF P_Gate, dma_start_s2mm_ring
  <1>2. CASE P_GateFail
    BY <1>2 DEF P_GateFail, dma_start_s2mm_ring
  <1>3. CASE P_EnableRun
    BY <1>3 DEF P_EnableRun, queue_enable_run, transition_locked, TransitionOK, transition_allowed
  <1>4. CASE P_WaitWriterReady
    BY <1>4 DEF P_WaitWriterReady
  <1>5. ASSUME NEW b \in BOOLEAN, P_ProducerReady(b) PROVE Bystander
    BY <1>5 DEF P_ProducerReady, queue_set_producer_ready
  <1>6. CASE P_MarkRunning
    BY <1>6 DEF P_MarkRunning, MarkRunningOK, queue_mark_running, transition_locked, TransitionOK, transition_allowed
  <1>7. CASE P_MarkRunningFail
    BY <1>7 DEF P_MarkRunningFail, fail_and_wake
  <1>8. CASE P_SeeError
    BY <1>8 DEF P_SeeError
  <1>9. CASE P_SeeStop
    BY <1>0, <1>9 DEF P_SeeStop, queue_request_stop_state, stop_latched, transition_locked, TransitionOK, transition_allowed
  <1>10. CASE P_Boundary
    BY <1>0, <1>10 DEF P_Boundary, queue_latch_stop, LatchedState, dma_latch_stop
  <1>11. CASE P_BoundaryEventFail
    BY <1>11 DEF P_BoundaryEventFail
  <1>12. CASE P_ClearRunStop
    BY <1>12 DEF P_ClearRunStop, clear_run_stop
  <1>13. ASSUME NEW r \in {"OK", "FAILED", "RESET_RECOVERED"}, P_Quiesced(r) PROVE Bystander
    BY <1>0, <1>13 DEF P_Quiesced, dma_quiesce, queue_mark_harvesting, transition_locked, TransitionOK, transition_allowed
  <1>14. CASE P_Harvest
    BY <1>14 DEF P_Harvest, dma_harvest
  <1>15. CASE P_ReceiveFail
    BY <1>15 DEF P_ReceiveFail
  <1>16. CASE P_Scan
    BY <1>16 DEF P_Scan
  <1>17. CASE P_ScanFail
    BY <1>17 DEF P_ScanFail
  <1>18. CASE P_Enqueue
    <2>1. worker_state' = worker_state /\ (error => error')
      BY <1>18, HandOverKeeps DEF P_Enqueue
    <2>2. UNCHANGED <<writerVars, writer_ready>>
      BY <1>18 DEF P_Enqueue, hand_over
    <2> QED BY <1>18, <2>1, <2>2
  <1>19. CASE P_Finish
    BY <1>0, <1>19 DEF P_Finish, queue_finish, FinishFails
  <1>20. CASE P_Join
    BY <1>20 DEF P_Join
  <1>21. CASE P_JoinTimeout
    BY <1>21 DEF P_JoinTimeout, fail_and_wake
  <1>22. CASE P_JoinAbort
    BY <1>22 DEF P_JoinAbort
  <1>23. CASE P_Finalize
    BY <1>0, <1>23 DEF P_Finalize, dma_finalize, queue_mark_finalizing
  <1>24. CASE P_Complete
    BY <1>0, <1>24 DEF P_Complete, queue_mark_done, transition_locked, TransitionOK, transition_allowed
  <1>25. CASE P_Out
    BY <1>0, <1>25, Zenon DEF P_Out, LatchedState, dma_latch_stop
  <1>26. CASE P_OutQuiesce
    BY <1>26 DEF P_OutQuiesce, clear_run_stop
  <1>27. ASSUME NEW r \in {"OK", "FAILED", "RESET_RECOVERED"}, P_OutQuiesced(r) PROVE Bystander
    BY <1>0, <1>27 DEF P_OutQuiesced, dma_quiesce, queue_mark_harvesting, transition_locked, TransitionOK, transition_allowed
  <1>28. CASE P_OutHarvest
    BY <1>28 DEF P_OutHarvest, dma_harvest
  <1>29. CASE P_OutHarvestEnd
    BY <1>29 DEF P_OutHarvestEnd
  <1>30. CASE P_OutEnqueue
    <2>1. worker_state' = worker_state /\ (error => error')
      BY <1>30, HandOverKeeps DEF P_OutEnqueue
    <2>2. UNCHANGED <<writerVars, writer_ready>>
      BY <1>30 DEF P_OutEnqueue, hand_over
    <2> QED BY <1>30, <2>1, <2>2
  <1>31. CASE P_OutFinish
    BY <1>0, <1>31 DEF P_OutFinish, queue_finish, FinishFails
  <1>32. CASE P_OutJoin
    BY <1>32 DEF P_OutJoin
  <1>33. CASE P_OutFinal
    BY <1>33 DEF P_OutFinal, dma_finalize
  <1> QED BY <1>1, <1>2, <1>3, <1>4, <1>5, <1>6, <1>7, <1>8, <1>9, <1>10, <1>11, <1>12, <1>13, <1>14,
             <1>15, <1>16, <1>17, <1>18, <1>19, <1>20, <1>21, <1>22, <1>23, <1>24, <1>25, <1>26,
             <1>27, <1>28, <1>29, <1>30, <1>31, <1>32, <1>33 DEF Producer

------------------------------------------------------------------------------
(* What the writer leaves behind.                                          *)

\* A step of the producer keeps LeaveInv: it joins only a writer that has left, and
\* pushes nothing once the writer may have left.
LEMMA ProducerLeave ==
  ASSUME TypeOK, SafeInv, LeaveInv, Producer PROVE LeaveInv'
  <1>1. Bystander
    BY ProducerBystander
  <1>2. producer_done => FifoOnlyDrains
    BY ProducerPushesNothing
  <1>3. /\ wpc \in {"wait_run", "ready"} => ~writer_ready /\ active = {}
        /\ worker_state \in {"READY", "ARMED", "FAILED"} \/ writer_ready
        /\ ~CrossSlot => \A a, b \in active : a = b
        /\ ~CrossSlot /\ active # {} => wpc = "step" \/ (wpc = "exit" /\ error)
        /\ CrossSlot /\ wpc = "exit" /\ nvme_engine_quiesced => inflight = {}
    BY DEF LeaveInv
  <1>4. wpc = "exit" /\ ~error => producer_done /\ items = <<>> /\ active = {}
    BY DEF LeaveInv
  <1>5. wpc' = "exit" /\ ~error' => (producer_done /\ items = <<>> /\ active = {})'
    BY <1>1, <1>2, <1>4 DEF Bystander, FifoOnlyDrains
  <1>6. /\ ~writer_started' \/ ppc' = "finalize" => wpc = "exit"
        /\ ppc' = "complete" => wpc = "exit" /\ active = {}
        /\ CrossSlot /\ runtime_closed' /\ ~writer_started' => inflight = {}
    <2> USE DEF GoTo, GoOut, prodVars, stopVars, batchVars, countVars, endVars
    <2>0. /\ ~writer_started \/ ppc = "finalize" => wpc = "exit"
          /\ ppc = "complete" => wpc = "exit" /\ active = {}
          /\ CrossSlot /\ runtime_closed /\ ~writer_started => inflight = {}
          /\ runtime_closed => ppc = "done"
      BY DEF LeaveInv, SafeInv
    <2>1. CASE P_Join \/ P_JoinAbort \/ P_OutJoin
      BY <2>0, <2>1 DEF P_Join, P_JoinAbort, P_OutJoin
    <2>2. CASE P_Finalize
      <3>1. ppc' = "complete" => ~error' /\ error' = (error \/ worker_state # "DRAINING")
        BY <2>2 DEF P_Finalize, queue_mark_finalizing, TypeOK, QueueTypeOK
      <3>2. ppc' = "complete" => ~error
        BY <3>1
      <3>3. UNCHANGED <<writer_started, runtime_closed>> /\ ppc = "finalize"
            /\ ppc' \in {"out_final", "complete"}
        BY <2>2 DEF P_Finalize
      <3> QED BY <1>4, <2>0, <3>2, <3>3
    <2>3. CASE P_Complete
      <3>1. inflight = {}
        BY <2>0, <2>3 DEF P_Complete, TypeOK
      <3> QED BY <2>0, <2>3, <3>1 DEF P_Complete
    <2>4. CASE P_OutFinal
      <3>1. UNCHANGED writer_started /\ ppc' = "done" /\ (runtime_closed' => nvme_engine_quiesced)
        BY <2>4 DEF P_OutFinal
      <3> QED BY <1>3, <2>0, <3>1
    <2>5. CASE ~(P_Join \/ P_JoinAbort \/ P_OutJoin \/ P_Finalize \/ P_Complete \/ P_OutFinal)
      <3>1. UNCHANGED <<writer_started, runtime_closed>> /\ ppc' \notin {"finalize", "complete"}
        BY <2>5 DEF Producer, P_Gate, P_GateFail, P_EnableRun, P_WaitWriterReady, P_ProducerReady,
             P_MarkRunning, P_MarkRunningFail, P_SeeError, P_SeeStop, P_Boundary,
             P_BoundaryEventFail, P_ClearRunStop, P_Quiesced, P_Harvest, P_ReceiveFail, P_Scan,
             P_ScanFail, P_Enqueue, P_Finish, P_JoinTimeout, P_Out, P_OutQuiesce, P_OutQuiesced,
             P_OutHarvest, P_OutHarvestEnd, P_OutEnqueue, P_OutFinish
      <3> QED BY <2>0, <3>1
    <2> QED BY <2>1, <2>2, <2>3, <2>4, <2>5
  <1> QED BY <1>1, <1>3, <1>5, <1>6 DEF Bystander, LeaveInv

\* A step of the writer keeps it: every way out of its loop either records an error
\* or has seen the queue drained and the engine empty.
LEMMA WriterLeave ==
  ASSUME TypeOK, SafeInv, LeaveInv, Writer PROVE LeaveInv'
  <1> USE DEF LeaveInv, dmaVars, queueVars, prodVars, writerVars, broadcast, fail_locked
  <1>0. /\ CrossSlot \in BOOLEAN /\ inflight \subseteq active
        /\ dma_requeue_after_stop_count = 0 /\ (worker_state = "FAILED" => error)
        /\ runtime_closed => ppc = "done"
    BY CaptureWorkerAssumption DEF TypeOK, SafeInv
  <1>1. CASE W_WaitRun
    BY <1>0, <1>1 DEF W_WaitRun, producer_done
  <1>2. ASSUME NEW b \in BOOLEAN, W_Ready(b) PROVE LeaveInv'
    BY <1>0, <1>2 DEF W_Ready, queue_set_writer_ready, producer_done
  <1>3. CASE W_Top
    BY <1>0, <1>3 DEF W_Top, producer_done
  <1>4. CASE W_PopSleep
    BY <1>0, <1>4 DEF W_PopSleep, producer_done
  <1>5. CASE W_PopItem
    BY <1>0, <1>5 DEF W_PopItem, queue_pop_item
  <1>6. CASE W_AddFail
    BY <1>0, <1>6 DEF W_AddFail, queue_pop_item
  <1>7. CASE W_PopOther
    BY <1>0, <1>7 DEF W_PopOther, WriterFails, fail_and_wake, PopResult, producer_done
  <1>8. ASSUME NEW it \in active, W_Retire(it) PROVE LeaveInv'
    BY <1>0, <1>8 DEF W_Retire, Retirable, complete_slot, CompleteFails, should_requeue,
                      dma_requeue_one, requeue_refused, can_requeue
  <1>9. CASE W_Decide
    BY <1>0, <1>9 DEF W_Decide, DecidesDrained, DecidesError, producer_done
  <1>10. CASE W_StepFail
    BY <1>0, <1>10 DEF W_StepFail
  <1>11. CASE W_FlushFail
    BY <1>0, <1>11 DEF W_FlushFail, WriterFails, fail_and_wake
  <1>12. CASE W_DrainAbort
    BY <1>0, <1>12 DEF W_DrainAbort, WriterFails, fail_and_wake
  <1> QED BY <1>1, <1>2, <1>3, <1>4, <1>5, <1>6, <1>7, <1>8, <1>9, <1>10, <1>11, <1>12 DEF Writer

\* Every step keeps it.
LEMMA NextLeave == TypeOK /\ SafeInv /\ LeaveInv /\ [Next]_vars => LeaveInv'
  <1> SUFFICES ASSUME TypeOK, SafeInv, LeaveInv, [Next]_vars PROVE LeaveInv'
    OBVIOUS
  <1> USE DEF LeaveInv, queueVars, prodVars, writerVars, producer_done
  <1>1. CASE UNCHANGED vars
    BY <1>1 DEF vars
  <1>2. CASE RequestStop
    BY <1>2 DEF RequestStop
  <1>3. ASSUME NEW it \in inflight, NvmeComplete(it) PROVE LeaveInv'
    BY <1>3 DEF NvmeComplete
  <1>4. CASE DmaEngine
    BY <1>4 DEF DmaEngine
  <1>5. CASE Ended
    BY <1>1, <1>5 DEF Ended
  <1> QED BY <1>1, <1>2, <1>3, <1>4, <1>5, ProducerLeave, WriterLeave DEF Next, Nvme

LEMMA LeaveInvariant == Spec => [](TypeOK /\ SafeInv /\ LeaveInv)
  <1>1. Init => TypeOK /\ SafeInv /\ LeaveInv
    BY InitTypes, InitSafe, InitOwn
  <1>2. (TypeOK /\ SafeInv /\ LeaveInv) /\ [Next]_vars => (TypeOK /\ SafeInv /\ LeaveInv)'
    BY NextTypes, NextSafe, NextLeave
  <1> QED BY <1>1, <1>2, PTL DEF Spec

\* A writer thread that left without recording an error left no filled slot in the
\* queue and no slot in the NVMe engine, in every interleaving with the producer.
THEOREM WriterDrainsAll == Spec => []WriterLeavesNothing
  <1>1. LeaveInv => WriterLeavesNothing
    BY DEF LeaveInv, WriterLeavesNothing
  <1> QED BY <1>1, LeaveInvariant, PTL

\* channel_runtime_close of a joined cross-slot writer finds no command in the NVMe
\* device, after success and on every path through `out`.
THEOREM DdrOutlivesNvme == ASSUME CrossSlot PROVE Spec => []NoCloseUnderNvme
  <1>1. LeaveInv => NoCloseUnderNvme
    BY DEF LeaveInv, NoCloseUnderNvme
  <1> QED BY <1>1, LeaveInvariant, PTL

------------------------------------------------------------------------------
(* Who owns a slot.                                                        *)

\* An initial segment of the naturals has as many members as it says.
LEMMA SegmentSize ==
  ASSUME NEW n \in Nat PROVE IsFiniteSet(1 .. n) /\ Cardinality(1 .. n) = n
  BY FS_Interval

\* A batch with as many slots as items names each slot once: the check with
\* which storage_local_queue_push_batch refuses duplicates is enough.
LEMMA DistinctSlots ==
  ASSUME NEW q \in Seq(Item), Cardinality(SlotsOf(q)) = Len(q)
  PROVE  \A i, j \in 1 .. Len(q) : q[i].slot = q[j].slot => i = j
  <1> DEFINE f == [i \in 1 .. Len(q) |-> q[i].slot]
  <1>1. Len(q) \in Nat /\ DOMAIN q = 1 .. Len(q)
    OBVIOUS
  <1>2. IsFiniteSet(1 .. Len(q)) /\ Cardinality(1 .. Len(q)) = Len(q)
    BY <1>1, SegmentSize
  <1>3. f \in Surjection(1 .. Len(q), SlotsOf(q))
    BY <1>1 DEF SlotsOf, Surjection
  <1>4. f \in Injection(1 .. Len(q), SlotsOf(q))
    <2> HIDE DEF f
    <2> QED BY <1>2, <1>3, FS_SurjSameCardinalityImpliesInj
  <1> QED BY <1>4 DEF Injection, IsInjective

\* A slot that a hand-over does not queue stays as it was, or is taken from the
\* writable ones.
SetAside(s) == \/ slots'[s] = slots[s]
               \/ slots[s] = "DMA_WRITABLE" /\ slots'[s] \in {"FREE", "DMA_COMPLETED_UNHARVESTED"}

\* What a hand-over does: it queues the whole batch, of distinct writable slots, or
\* none of it.
LEMMA HandOverEffect ==
  ASSUME QueueTypeOK, NEW pending \in Seq(Item), NEW released, NEW failed,
         hand_over(pending, released, failed)
  PROVE  \/ /\ ~HandOverPushes(pending, released, failed)
            /\ items' = items /\ \A s \in Slots : SetAside(s)
         \/ /\ HandOverPushes(pending, released, failed)
            /\ items' = items \o pending
            /\ \A i \in 1 .. Len(pending) : /\ slots[pending[i].slot] = "DMA_WRITABLE"
                                            /\ slots'[pending[i].slot] = "READY_FOR_NVME"
            /\ \A i, j \in 1 .. Len(pending) : pending[i].slot = pending[j].slot => i = j
            /\ \A s \in Slots : SetAside(s) \/ \E i \in 1 .. Len(pending) : pending[i].slot = s
  <1> DEFINE writable(set) == {s \in set : slots[s] = "DMA_WRITABLE"}
             table == MoveSlots(MoveSlots(slots, writable(released), "FREE"),
                                writable(failed), "DMA_COMPLETED_UNHARVESTED")
             pushes == HandOverPushes(pending, released, failed)
  <1>1. pushes <=> /\ pending # <<>> /\ ~(failed # {} \/ writable(released) # released)
                   /\ ~PushRejected(pending)
    BY DEF HandOverPushes
  <1>2. /\ slots' = IF pushes THEN MoveSlots(table, SlotsOf(pending), "READY_FOR_NVME") ELSE table
        /\ items' = IF pushes THEN items \o pending ELSE items
    BY <1>1 DEF hand_over
  <1>3. \A s \in Slots : \/ table[s] = slots[s]
                         \/ /\ slots[s] = "DMA_WRITABLE"
                            /\ table[s] \in {"FREE", "DMA_COMPLETED_UNHARVESTED"}
    BY DEF MoveSlots
  <1>4. DOMAIN pending = 1 .. Len(pending) /\ \A i \in 1 .. Len(pending) : pending[i].slot \in Slots
    <2>1. DOMAIN pending = 1 .. Len(pending) /\ \A i \in 1 .. Len(pending) : pending[i] \in Item
      OBVIOUS
    <2> QED BY <2>1 DEF Item
  <1> HIDE DEF table
  <1>5. CASE ~pushes
    BY <1>2, <1>3, <1>5 DEF SetAside
  <1>6. CASE pushes
    <2>1. \A i \in 1 .. Len(pending) : slots[pending[i].slot] = "DMA_WRITABLE"
      BY <1>4, <1>6 DEF HandOverPushes, PushRejected, SlotsOf
    <2>2. \A i, j \in 1 .. Len(pending) : pending[i].slot = pending[j].slot => i = j
      BY <1>6, DistinctSlots DEF HandOverPushes, PushRejected
    <2>3. \A s \in Slots : slots'[s] = IF s \in SlotsOf(pending) THEN "READY_FOR_NVME" ELSE table[s]
      BY <1>2, <1>6 DEF MoveSlots
    <2>4. \A s : s \in SlotsOf(pending) <=> \E i \in 1 .. Len(pending) : pending[i].slot = s
      BY <1>4 DEF SlotsOf
    <2>5. \A i \in 1 .. Len(pending) : slots'[pending[i].slot] = "READY_FOR_NVME"
      BY <1>4, <2>3, <2>4
    <2>6. \A s \in Slots : SetAside(s) \/ \E i \in 1 .. Len(pending) : pending[i].slot = s
      BY <1>3, <2>3, <2>4 DEF SetAside
    <2> QED BY <1>2, <1>6, <2>1, <2>2, <2>5, <2>6
  <1> QED BY <1>5, <1>6

\* A hand-over keeps the owners in agreement.
LEMMA HandOverOwns ==
  ASSUME TypeOK, OwnInv, UNCHANGED active, NEW pending \in Seq(Item), NEW released, NEW failed,
         hand_over(pending, released, failed)
  PROVE  OwnInv'
  <1> DEFINE pushed == /\ items' = items \o pending
                       /\ \A i \in 1 .. Len(pending) : /\ slots[pending[i].slot] = "DMA_WRITABLE"
                                                       /\ slots'[pending[i].slot] = "READY_FOR_NVME"
                       /\ \A i, j \in 1 .. Len(pending) : pending[i].slot = pending[j].slot => i = j
                       /\ \A s \in Slots : SetAside(s) \/ \E i \in 1 .. Len(pending) : pending[i].slot = s
  <1>1. (items' = items /\ \A s \in Slots : SetAside(s)) \/ pushed
    BY HandOverEffect DEF TypeOK
  <1>2. /\ items \in Seq(Item) /\ active \subseteq Item
        /\ \A i \in 1 .. Len(items) : items[i].slot \in Slots
        /\ \A i \in 1 .. Len(pending) : pending[i].slot \in Slots
        /\ \A it \in active : it.slot \in Slots
    <2>1. items \in Seq(Item) /\ active \subseteq Item
      BY DEF TypeOK, QueueTypeOK
    <2>2. /\ \A i \in 1 .. Len(items) : items[i] \in Item
          /\ \A i \in 1 .. Len(pending) : pending[i] \in Item
      BY <2>1
    <2>3. \A it \in Item : it.slot \in Slots
      BY DEF Item
    <2> QED BY <2>1, <2>2, <2>3
  <1>3. QueueOwns(slots, items) /\ WriterOwns(slots, active)
    BY DEF OwnInv
  <1>4. WriterOwns(slots', active)
    <2>1. ASSUME NEW it \in active PROVE slots'[it.slot] = "NVME_BUSY"
      <3>1. slots[it.slot] = "NVME_BUSY" /\ it.slot \in Slots
        BY <1>2, <1>3 DEF WriterOwns
      <3>2. SetAside(it.slot)
        BY <1>1, <3>1
      <3> QED BY <3>1, <3>2 DEF SetAside
    <2> QED BY <1>3, <2>1 DEF WriterOwns
  <1>5. QueueOwns(slots', items')
    <2>1. CASE items' = items /\ \A s \in Slots : SetAside(s)
      BY SMTT(30), <1>2, <1>3, <2>1 DEF QueueOwns, SetAside
    <2>2. CASE pushed
      <3>1. /\ Len(items') = Len(items) + Len(pending) /\ Len(items) \in Nat /\ Len(pending) \in Nat
            /\ \A i \in 1 .. Len(items) : items'[i] = items[i]
            /\ \A i \in 1 .. Len(pending) : items'[Len(items) + i] = pending[i]
        BY <1>2, <2>2
      <3>2. \A k \in 1 .. Len(items') : k \in 1 .. Len(items)
                \/ \E i \in 1 .. Len(pending) : k = Len(items) + i
        <4> SUFFICES ASSUME NEW k \in 1 .. Len(items'), k \notin 1 .. Len(items)
                     PROVE  \E i \in 1 .. Len(pending) : k = Len(items) + i
          OBVIOUS
        <4>1. k - Len(items) \in 1 .. Len(pending) /\ k = Len(items) + (k - Len(items))
          BY <3>1
        <4> QED BY <4>1
      <3>3. \A i \in 1 .. Len(items) :
                /\ slots[items[i].slot] = "READY_FOR_NVME" /\ slots'[items[i].slot] = "READY_FOR_NVME"
                /\ \A j \in 1 .. Len(pending) : pending[j].slot # items[i].slot
        BY SMTT(30), <1>2, <1>3, <2>2 DEF QueueOwns, SetAside
      <3>4. \A k \in 1 .. Len(items') : slots'[items'[k].slot] = "READY_FOR_NVME"
        <4> SUFFICES ASSUME NEW k \in 1 .. Len(items')
                     PROVE  slots'[items'[k].slot] = "READY_FOR_NVME"
          OBVIOUS
        <4>1. CASE k \in 1 .. Len(items)
          BY <3>1, <3>3, <4>1
        <4>2. ASSUME NEW i \in 1 .. Len(pending), k = Len(items) + i
              PROVE  slots'[items'[k].slot] = "READY_FOR_NVME"
          BY <2>2, <3>1, <4>2
        <4> QED BY <3>2, <4>1, <4>2
      <3>5. \A j, k \in 1 .. Len(items') : items'[j].slot = items'[k].slot => j = k
        <4> SUFFICES ASSUME NEW j \in 1 .. Len(items'), NEW k \in 1 .. Len(items'),
                            items'[j].slot = items'[k].slot
                     PROVE  j = k
          OBVIOUS
        <4>1. CASE j \in 1 .. Len(items) /\ k \in 1 .. Len(items)
          BY <1>3, <3>1, <4>1 DEF QueueOwns
        <4>2. ASSUME NEW i \in 1 .. Len(pending), k = Len(items) + i, j \in 1 .. Len(items)
              PROVE  FALSE
          BY <3>1, <3>3, <4>2
        <4>3. ASSUME NEW i \in 1 .. Len(pending), j = Len(items) + i, k \in 1 .. Len(items)
              PROVE  FALSE
          BY <3>1, <3>3, <4>3
        <4>4. ASSUME NEW i \in 1 .. Len(pending), j = Len(items) + i,
                     NEW n \in 1 .. Len(pending), k = Len(items) + n
              PROVE  j = k
          <5>1. pending[i].slot = pending[n].slot
            BY <3>1, <4>4
          <5> QED BY <2>2, <4>4, <5>1
        <4> QED BY <3>2, <4>1, <4>2, <4>3, <4>4
      <3>6. \A s \in Slots : slots'[s] = "READY_FOR_NVME" => \E k \in 1 .. Len(items') : items'[k].slot = s
        <4> SUFFICES ASSUME NEW s \in Slots, slots'[s] = "READY_FOR_NVME"
                     PROVE  \E k \in 1 .. Len(items') : items'[k].slot = s
          OBVIOUS
        <4>1. CASE SetAside(s)
          <5>1. PICK i \in 1 .. Len(items) : items[i].slot = s
            BY <1>3, <4>1 DEF SetAside, QueueOwns
          <5>2. i \in 1 .. Len(items') /\ items'[i].slot = s
            BY <3>1, <5>1
          <5> QED BY <5>2
        <4>2. ASSUME NEW i \in 1 .. Len(pending), pending[i].slot = s
              PROVE  \E k \in 1 .. Len(items') : items'[k].slot = s
          <5>1. Len(items) + i \in 1 .. Len(items') /\ items'[Len(items) + i].slot = s
            BY <3>1, <4>2
          <5> QED BY <5>1
        <4> QED BY <2>2, <4>1, <4>2
      <3> QED BY <3>4, <3>5, <3>6 DEF QueueOwns
    <2> QED BY <1>1, <2>1, <2>2
  <1> QED BY <1>4, <1>5 DEF OwnInv

\* The writer's pop moves the head of the FIFO to the popped items (or, when the
\* engine refuses it, to nobody: the slot stays NVME_BUSY).
LEMMA PopOwns ==
  ASSUME TypeOK, OwnInv, items # <<>>, queue_pop_item,
         active' \in {active, active \cup {Head(items)}}
  PROVE  OwnInv'
  <1>1. /\ items \in Seq(Item) /\ active \subseteq Item /\ slots \in [Slots -> SlotStates]
        /\ QueueOwns(slots, items) /\ WriterOwns(slots, active)
    BY DEF TypeOK, QueueTypeOK, OwnInv
  <1>2. /\ Len(items) \in Nat \ {0} /\ Head(items) = items[1]
        /\ Len(items') = Len(items) - 1
        /\ \A i \in 1 .. Len(items') : items'[i] = items[i + 1] /\ i + 1 \in 1 .. Len(items)
    BY <1>1 DEF queue_pop_item
  <1>3. \A i \in 1 .. Len(items) : items[i].slot \in Slots
    <2>1. \A i \in 1 .. Len(items) : items[i] \in Item
      BY <1>1
    <2> QED BY <2>1 DEF Item
  <1>4. \A s \in Slots : slots'[s] = IF s = items[1].slot THEN "NVME_BUSY" ELSE slots[s]
    BY <1>1, <1>2 DEF queue_pop_item
  <1>5. QueueOwns(slots', items')
    <2>1. \A i \in 1 .. Len(items') : items'[i].slot # items[1].slot
      BY <1>1, <1>2 DEF QueueOwns
    <2>2. \A i \in 1 .. Len(items') : slots'[items'[i].slot] = "READY_FOR_NVME"
      BY <1>1, <1>2, <1>3, <1>4, <2>1 DEF QueueOwns
    <2>3. \A i, j \in 1 .. Len(items') : items'[i].slot = items'[j].slot => i = j
      <3> SUFFICES ASSUME NEW i \in 1 .. Len(items'), NEW j \in 1 .. Len(items'),
                          items'[i].slot = items'[j].slot
                   PROVE  i = j
        OBVIOUS
      <3>1. i + 1 = j + 1
        BY <1>1, <1>2 DEF QueueOwns
      <3> QED BY <1>2, <3>1
    <2>4. \A s \in Slots : slots'[s] = "READY_FOR_NVME" => \E i \in 1 .. Len(items') : items'[i].slot = s
      <3> SUFFICES ASSUME NEW s \in Slots, slots'[s] = "READY_FOR_NVME"
                   PROVE  \E i \in 1 .. Len(items') : items'[i].slot = s
        OBVIOUS
      <3>1. PICK k \in 1 .. Len(items) : items[k].slot = s
        BY <1>1, <1>4 DEF QueueOwns
      <3>2. k # 1
        BY <1>4, <3>1
      <3>3. k - 1 \in 1 .. Len(items') /\ (k - 1) + 1 = k
        BY <1>2, <3>2
      <3>4. items'[k - 1] = items[k]
        BY <1>2, <3>3
      <3> QED BY <3>1, <3>3, <3>4
    <2> QED BY <2>2, <2>3, <2>4 DEF QueueOwns
  <1>6. WriterOwns(slots', active')
    <2>1. /\ slots[items[1].slot] = "READY_FOR_NVME" /\ slots'[items[1].slot] = "NVME_BUSY"
      BY <1>1, <1>2, <1>3, <1>4 DEF QueueOwns
    <2>2. \A it \in active : it.slot \in Slots /\ it.slot # items[1].slot
      BY <1>1, <2>1 DEF WriterOwns, Item
    <2> QED BY <1>1, <1>2, <1>4, <2>1, <2>2 DEF WriterOwns
  <1> QED BY <1>5, <1>6 DEF OwnInv

\* storage_complete_slot takes the retired slot away from the writer and gives it
\* to nobody who has another claim to it.
LEMMA CompleteOwns ==
  ASSUME TypeOK, OwnInv, NEW it \in active, complete_slot(it.slot), active' = active \ {it}
  PROVE  OwnInv'
  <1>1. /\ items \in Seq(Item) /\ active \subseteq Item /\ slots \in [Slots -> SlotStates]
        /\ QueueOwns(slots, items) /\ WriterOwns(slots, active)
    BY DEF TypeOK, QueueTypeOK, OwnInv
  <1>2. it.slot \in Slots /\ \A other \in active' : other.slot \in Slots
    BY <1>1 DEF Item
  <1>3. PICK st \in {"FREE", "REQUEUE_PENDING", "DMA_WRITABLE"} :
            slots' = [slots EXCEPT ![it.slot] = st] /\ items' = items
    BY DEF complete_slot
  <1>4. \A s \in Slots : slots'[s] = IF s = it.slot THEN st ELSE slots[s]
    BY <1>1, <1>3
  <1>5. slots[it.slot] = "NVME_BUSY"
    BY <1>1 DEF WriterOwns
  <1>6. QueueOwns(slots', items')
    <2>1. \A i \in 1 .. Len(items) : items[i].slot \in Slots
      <3>1. \A i \in 1 .. Len(items) : items[i] \in Item
        BY <1>1
      <3> QED BY <3>1 DEF Item
    <2>2. \A i \in 1 .. Len(items) : items[i].slot # it.slot
      BY <1>1, <1>5 DEF QueueOwns
    <2> QED BY <1>1, <1>3, <1>4, <1>5, <2>1, <2>2 DEF QueueOwns
  <1>7. WriterOwns(slots', active')
    BY <1>1, <1>2, <1>4 DEF WriterOwns
  <1> QED BY <1>6, <1>7 DEF OwnInv

\* Every step keeps the owners in agreement.
LEMMA NextOwn == TypeOK /\ SafeInv /\ LeaveInv /\ OwnInv /\ [Next]_vars => OwnInv'
  <1> SUFFICES ASSUME TypeOK, SafeInv, LeaveInv, OwnInv, [Next]_vars PROVE OwnInv'
    OBVIOUS
  <1>0. UNCHANGED <<slots, items, active>> => OwnInv'
    BY DEF OwnInv
  <1>1. CASE Producer
    <2>1. Bystander
      BY <1>1, ProducerBystander
    <2>2. CASE P_Enqueue
      <3>1. PICK q \in QueuedOf(Processed(TRUE)) :
                hand_over(PendingOf(q), ReleasedOf(Processed(TRUE)), FailedOf(Processed(TRUE)))
        BY <2>2 DEF P_Enqueue
      <3>2. PendingOf(q) \in Seq(Item)
        BY PendingTypes
      <3> QED BY <2>1, <3>1, <3>2, HandOverOwns DEF Bystander
    <2>3. CASE P_OutEnqueue
      <3>1. PICK q \in QueuedOf(Processed(FALSE)) :
                hand_over(PendingOf(q), ReleasedOf(Processed(FALSE)), FailedOf(Processed(FALSE)))
        BY <2>3 DEF P_OutEnqueue
      <3>2. PendingOf(q) \in Seq(Item)
        BY PendingTypes
      <3> QED BY <2>1, <3>1, <3>2, HandOverOwns DEF Bystander
    <2> QED BY <1>0, <2>1, <2>2, <2>3 DEF Bystander
  <1>2. CASE Writer
    <2> USE DEF queueVars, writerVars
    <2>1. CASE W_PopItem \/ W_AddFail
      BY <2>1, PopOwns, PopItemNonempty DEF W_PopItem, W_AddFail
    <2>2. ASSUME NEW it \in active, W_Retire(it) PROVE OwnInv'
      BY <2>2, CompleteOwns DEF W_Retire
    <2>3. CASE W_DrainAbort
      BY <2>3 DEF W_DrainAbort, WriterFails, fail_and_wake, OwnInv, WriterOwns
    <2>4. CASE W_WaitRun \/ (\E b \in BOOLEAN : W_Ready(b)) \/ W_Top \/ W_PopSleep
      BY <1>0, <2>4 DEF W_WaitRun, W_Ready, queue_set_writer_ready, W_Top, W_PopSleep
    <2>5. CASE W_PopOther \/ W_FlushFail
      BY <1>0, <2>5 DEF W_PopOther, W_FlushFail, WriterFails, fail_and_wake
    <2>6. CASE W_Decide \/ W_StepFail
      BY <1>0, <2>6 DEF W_Decide, W_StepFail
    <2> QED BY <1>2, <2>1, <2>2, <2>3, <2>4, <2>5, <2>6 DEF Writer
  <1>3. CASE UNCHANGED vars \/ RequestStop \/ Nvme \/ DmaEngine \/ Ended
    BY <1>0, <1>3 DEF vars, RequestStop, Nvme, NvmeComplete, DmaEngine, Ended, queueVars, writerVars
  <1> QED BY <1>1, <1>2, <1>3 DEF Next

\* All that is known about the owners of the slots.
LEMMA OwnInvariant == Spec => [](TypeOK /\ SafeInv /\ LeaveInv /\ OwnInv)
  <1>1. Init => TypeOK /\ SafeInv /\ LeaveInv /\ OwnInv
    BY InitTypes, InitSafe, InitOwn
  <1>2. (TypeOK /\ SafeInv /\ LeaveInv /\ OwnInv) /\ [Next]_vars
            => (TypeOK /\ SafeInv /\ LeaveInv /\ OwnInv)'
    BY NextTypes, NextSafe, NextLeave, NextOwn
  <1> QED BY <1>1, <1>2, PTL DEF Spec

\* The inductive form says what OwnersAgree says with a cardinality.
LEMMA OwnersFollow == TypeOK /\ OwnInv => OwnersAgree
  <1> SUFFICES ASSUME TypeOK, OwnInv PROVE OwnersAgree
    OBVIOUS
  <1>1. /\ DOMAIN items = 1 .. Len(items) /\ Len(items) \in Nat
        /\ QueueOwns(slots, items) /\ WriterOwns(slots, active)
    BY DEF TypeOK, QueueTypeOK, OwnInv
  <1>2. ASSUME NEW s \in Slots
        PROVE  slots[s] = "READY_FOR_NVME" <=> Cardinality({i \in DOMAIN items : items[i].slot = s}) = 1
    <2> DEFINE set == {i \in DOMAIN items : items[i].slot = s}
    <2>1. IsFiniteSet(set)
      <3>1. IsFiniteSet(1 .. Len(items)) /\ set \subseteq 1 .. Len(items)
        BY <1>1, FS_Interval
      <3> QED BY <3>1, FS_Subset
    <2>2. Cardinality(set) = 1 <=> \E x : set = {x}
      BY <2>1, FS_Singleton
    <2>3. ASSUME slots[s] = "READY_FOR_NVME" PROVE \E x : set = {x}
      <3>1. PICK i \in 1 .. Len(items) : items[i].slot = s
        BY <1>1, <2>3 DEF QueueOwns
      <3>2. set = {i}
        BY <1>1, <3>1 DEF QueueOwns
      <3> QED BY <3>2
    <2>4. ASSUME NEW x, set = {x} PROVE slots[s] = "READY_FOR_NVME"
      <3>1. x \in 1 .. Len(items) /\ items[x].slot = s
        BY <1>1, <2>4
      <3> QED BY <1>1, <3>1 DEF QueueOwns
    <2> QED BY <2>2, <2>3, <2>4
  <1> QED BY <1>1, <1>2 DEF OwnersAgree, WriterOwns

\* Slot table, FIFO and writer agree about the owner of every slot in every
\* interleaving: no slot is queued twice, or popped while somebody else has it.
THEOREM OwnersAlwaysAgree == Spec => []OwnersAgree
  BY OwnInvariant, OwnersFollow, PTL
==============================================================================
