----------------------- MODULE CaptureCompleteProofs ------------------------
(***************************************************************************)
(* What the medium holds, for the writer that flushes one slot at a time   *)
(* (CrossSlot = FALSE) and every ring size, fault set and kind of frame.   *)
(*                                                                         *)
(* A DDR buffer must not be overwritten between its harvest and the end of *)
(* its NVMe command.  Two facts keep it: the engine never writes through a *)
(* descriptor whose Completed bit is set, and the bit of a harvested slot  *)
(* is cleared only when the slot goes back or the engine has halted.  What *)
(* could still go wrong is a slot harvested a second time while it is      *)
(* being written: it would be given back, filled again and then queued as  *)
(* what it held before.  RingInv excludes that: seen from next_harvest_bd, *)
(* the writable slots lie before the popped one, that before the queued    *)
(* ones and those before the batch, and dma_hw_desc_count is at most the   *)
(* number of the writable ones, so a harvest stops before the others.      *)
(***************************************************************************)
EXTENDS CaptureSafetyProofs

\* How far after h a slot comes in the ring.
Dist(s, h) == (s - h) % NSlots

Before(A, B, h) == \A a \in A, b \in B : Dist(a, h) < Dist(b, h)
Ascending(q, h) == \A i, j \in 1 .. Len(q) : i < j => Dist(q[i].slot, h) < Dist(q[j].slot, h)

\* Writable slots that are not part of the harvested batch.
Offered(table, b) == {s \in Slots : table[s] = "DMA_WRITABLE" /\ s \notin SlotsOf(b)}
PoppedSlots(popped) == {it.slot : it \in popped}

RingOrder(h, count, table, popped, q, b) ==
    /\ count <= Cardinality(Offered(table, b))
    /\ Before(Offered(table, b), PoppedSlots(popped) \cup SlotsOf(q) \cup SlotsOf(b), h)
    /\ Before(PoppedSlots(popped), SlotsOf(q) \cup SlotsOf(b), h)
    /\ Before(SlotsOf(q), SlotsOf(b), h)
    /\ Ascending(q, h) /\ Ascending(b, h)

\* While slots may still be given back.
Live == /\ ppc \in {"gate", "enable", "wait_writer", "prod_ready", "mark_running", "loop", "enqueue"}
        /\ worker_state \in {"READY", "ARMED", "RUNNING"}

RingInv ==
    Live => RingOrder(next_harvest_bd, dma_hw_desc_count, slots, active, items, batch)

\* Where the producer is, what it has seen of STOP, and what it holds.
ControlInv ==
    /\ stop_phase # "NONE" => stop_latched
    /\ stop_phase = "HARVESTING" => dma_quiesced
    /\ ppc \in {"out_harvest", "out_enqueue"} => dma_quiesced
    /\ ppc \in {"quiesce", "quiesce_wait", "out_quiesce", "out_quiesce_wait", "out_harvest",
               "out_enqueue"} => stop_phase # "NONE"
    /\ ppc = "out_quiesce_wait" => quiesce_result = "NONE"
    /\ ppc = "gate" => items = <<>> /\ \A s \in Slots : slots[s] = "DMA_WRITABLE"
    /\ batch # <<>> => ppc \in {"enqueue", "out_enqueue"}

\* The engine is no longer fetching descriptors.
Dead(sr) == sr \in {"halted", "error"}

\* A filled slot on its way to the medium: it holds the frame that was queued for
\* its LBA, and the engine cannot write to it.
Carried(it, file, memory, status, sr) ==
    /\ it.lba <= Len(file) /\ file[it.lba] = it.frame
    /\ memory[it.slot] = it.frame
    /\ status[it.slot] # 0 \/ Dead(sr)

\* A harvested slot the producer may still queue.
Harvested(b, table, memory, status, sr) ==
    \A i \in 1 .. Len(b) : table[b[i].slot] = "DMA_WRITABLE" =>
        memory[b[i].slot] = b[i].frame /\ (status[b[i].slot] # 0 \/ Dead(sr))

OnMedium(medium, file) ==
    \A l \in Lbas : medium[l] # 0 => l <= Len(file) /\ medium[l] = file[l]

DataInv ==
    /\ \A s \in Slots : bd[s] # 0 => ddr[s] = bd[s]
    /\ \A i \in 1 .. Len(items) : Carried(items[i], captured, ddr, bd, dmasr)
    /\ \A it \in active : Carried(it, captured, ddr, bd, dmasr)
    /\ Harvested(batch, slots, ddr, bd, dmasr)
    /\ OnMedium(media, captured)

------------------------------------------------------------------------------
(* Control.                                                                *)

\* A step that does not touch what the rest of this module is about, and neither
\* restarts the engine nor makes the worker live again.
Quiet ==
    /\ UNCHANGED <<bd, ddr, batch, captured, slots, items, active, media, next_harvest_bd>>
    /\ Dead(dmasr) => Dead(dmasr')
    /\ Live' => Live /\ UNCHANGED dma_hw_desc_count

\* The steps of the producer that are not.
Busy == P_Gate \/ P_GateFail \/ P_Harvest \/ P_Enqueue \/ P_OutHarvest \/ P_OutEnqueue

\* Every step of the producer keeps ControlInv, and all but six are quiet.
LEMMA ProducerControl ==
  ASSUME TypeOK, SafeInv, ControlInv, Producer PROVE ControlInv' /\ (Quiet \/ Busy)
  <1> USE DEF ControlInv, Quiet, Busy, Dead, Live, GoTo, GoOut, dmaVars, queueVars, ringVars,
              engineVars, prodVars, writerVars, stopVars, batchVars, countVars, endVars,
              broadcast, fail_locked, stop_latched, dma_quiesced
  <1>1. CASE P_Gate
    BY <1>1 DEF P_Gate, dma_start_s2mm_ring
  <1>2. CASE P_GateFail
    BY <1>2 DEF P_GateFail, dma_start_s2mm_ring
  <1>3. CASE P_EnableRun
    BY <1>3 DEF P_EnableRun, queue_enable_run, transition_locked, TransitionOK, transition_allowed
  <1>4. CASE P_WaitWriterReady
    BY <1>4 DEF P_WaitWriterReady
  <1>5. ASSUME NEW b \in BOOLEAN, P_ProducerReady(b) PROVE ControlInv' /\ (Quiet \/ Busy)
    BY <1>5 DEF P_ProducerReady, queue_set_producer_ready
  <1>6. CASE P_MarkRunning
    BY <1>6 DEF P_MarkRunning, queue_mark_running, transition_locked, TransitionOK, transition_allowed
  <1>7. CASE P_MarkRunningFail
    BY <1>7 DEF P_MarkRunningFail, fail_and_wake
  <1>8. CASE P_SeeError
    BY <1>8 DEF P_SeeError
  <1>9. CASE P_SeeStop
    BY <1>9 DEF P_SeeStop, queue_request_stop_state, transition_locked, TransitionOK, transition_allowed
  <1>10. CASE P_Boundary
    BY <1>10 DEF P_Boundary, queue_latch_stop, LatchedState, dma_latch_stop
  <1>11. CASE P_BoundaryEventFail
    BY <1>11 DEF P_BoundaryEventFail
  <1>12. CASE P_ClearRunStop
    BY <1>12 DEF P_ClearRunStop, clear_run_stop
  <1>13. ASSUME NEW r \in {"OK", "FAILED", "RESET_RECOVERED"}, P_Quiesced(r)
         PROVE  ControlInv' /\ (Quiet \/ Busy)
    BY <1>13 DEF P_Quiesced, dma_quiesce, queue_mark_harvesting, transition_locked, TransitionOK, transition_allowed
  <1>14. CASE P_Harvest
    BY <1>14 DEF P_Harvest, MayHarvest, Harvesting, dma_harvest
  <1>15. CASE P_ReceiveFail
    BY <1>15 DEF P_ReceiveFail, MayHarvest, Harvesting
  <1>16. CASE P_Scan
    BY <1>16 DEF P_Scan, ScanEmpty, MayHarvest, Harvesting
  <1>17. CASE P_ScanFail
    BY <1>17 DEF P_ScanFail, ScanEmpty, MayHarvest, Harvesting
  <1>18. CASE P_Enqueue
    <2>1. worker_state' = worker_state
      BY <1>18, HandOverKeeps DEF P_Enqueue
    <2>2. UNCHANGED <<quiesce_result, stop_phase>> /\ batch' = <<>> /\ ppc = "enqueue"
          /\ ppc' \in {"out", "loop"}
      BY <1>18 DEF P_Enqueue
    <2> QED BY <1>18, <2>1, <2>2
  <1>19. CASE P_Finish
    BY <1>19 DEF P_Finish, queue_finish, FinishFails
  <1>20. CASE P_Join
    BY <1>20 DEF P_Join
  <1>21. CASE P_JoinTimeout
    BY <1>21 DEF P_JoinTimeout, fail_and_wake
  <1>22. CASE P_JoinAbort
    BY <1>22 DEF P_JoinAbort
  <1>23. CASE P_Finalize
    BY <1>23 DEF P_Finalize, dma_finalize, queue_mark_finalizing
  <1>24. CASE P_Complete
    BY <1>24 DEF P_Complete, queue_mark_done, transition_locked, TransitionOK, transition_allowed
  <1>25. CASE P_Out
    BY <1>25 DEF P_Out, LatchedState, dma_latch_stop, RequestStopOK
  <1>26. CASE P_OutQuiesce
    BY <1>26 DEF P_OutQuiesce, clear_run_stop, TypeOK
  <1>27. ASSUME NEW r \in {"OK", "FAILED", "RESET_RECOVERED"}, P_OutQuiesced(r)
         PROVE  ControlInv' /\ (Quiet \/ Busy)
    BY <1>27 DEF P_OutQuiesced, dma_quiesce, queue_mark_harvesting, transition_locked, TransitionOK, transition_allowed
  <1>28. CASE P_OutHarvest
    <2>1. UNCHANGED <<queueVars, stopVars>> /\ ppc = "out_harvest"
          /\ ppc' \in {"out_finish", "out_enqueue"} /\ (ppc' = "out_finish" => batch' = batch)
      BY <1>28 DEF P_OutHarvest
    <2> QED BY <1>28, <2>1
  <1>29. CASE P_OutHarvestEnd
    BY <1>29 DEF P_OutHarvestEnd
  <1>30. CASE P_OutEnqueue
    <2>1. worker_state' = worker_state
      BY <1>30, HandOverKeeps DEF P_OutEnqueue
    <2>2. UNCHANGED stopVars /\ batch' = <<>> /\ ppc = "out_enqueue"
          /\ ppc' \in {"out_finish", "out_harvest"}
      BY <1>30 DEF P_OutEnqueue
    <2> QED BY <1>30, <2>1, <2>2
  <1>31. CASE P_OutFinish
    BY <1>31 DEF P_OutFinish, queue_finish, FinishFails
  <1>32. CASE P_OutJoin
    BY <1>32 DEF P_OutJoin
  <1>33. CASE P_OutFinal
    BY <1>33 DEF P_OutFinal, dma_finalize
  <1> QED BY <1>1, <1>2, <1>3, <1>4, <1>5, <1>6, <1>7, <1>8, <1>9, <1>10, <1>11, <1>12, <1>13, <1>14,
             <1>15, <1>16, <1>17, <1>18, <1>19, <1>20, <1>21, <1>22, <1>23, <1>24, <1>25, <1>26,
             <1>27, <1>28, <1>29, <1>30, <1>31, <1>32, <1>33 DEF Producer

\* The writer and the devices keep it too: at the gate the writer waits, and no step of
\* theirs takes a worker back from its stop.
LEMMA OthersControl ==
  ASSUME TypeOK, SafeInv, ControlInv, Writer \/ RequestStop \/ Nvme \/ DmaEngine \/ UNCHANGED vars
  PROVE  ControlInv' /\ (Live' => Live) /\ UNCHANGED <<ppc, batch, captured>>
  <1> USE DEF Live, dmaVars, queueVars, prodVars, writerVars, stop_latched, fail_locked
  <1>1. /\ UNCHANGED <<ppc, batch, captured, stop_phase, quiesce_result>>
        /\ worker_state' \in {worker_state, "FAILED"}
    <2>1. CASE Writer
      BY <2>1 DEF Writer, W_WaitRun, W_Ready, queue_set_writer_ready, W_Top, W_PopSleep, W_PopItem,
                  W_AddFail, queue_pop_item, W_PopOther, WriterFails, fail_and_wake, W_Retire,
                  complete_slot, W_Decide, W_StepFail, W_FlushFail, W_DrainAbort
    <2>2. CASE RequestStop \/ Nvme \/ DmaEngine \/ UNCHANGED vars
      BY <2>2 DEF RequestStop, Nvme, NvmeComplete, DmaEngine, vars
    <2> QED BY <2>1, <2>2
  <1>2. ppc = "gate" => UNCHANGED <<slots, items>>
    <2>1. CASE Writer
      BY <2>1 DEF SafeInv, Writer, W_WaitRun, W_Ready, W_Top, W_PopSleep, W_PopItem,
                  W_AddFail, W_PopOther, W_Retire, W_Decide, W_StepFail, W_FlushFail, W_DrainAbort
    <2>2. CASE RequestStop \/ Nvme \/ DmaEngine \/ UNCHANGED vars
      BY <2>2 DEF RequestStop, Nvme, NvmeComplete, DmaEngine, vars
    <2> QED BY <2>1, <2>2
  <1> QED BY <1>1, <1>2 DEF ControlInv, dma_quiesced

------------------------------------------------------------------------------
(* The ring.                                                               *)

\* Distances in the ring, without remainders.
LEMMA DistValue ==
  \A x, y \in Slots : /\ Dist(x, y) = IF x >= y THEN x - y ELSE x - y + NSlots
                      /\ Dist(x, y) \in 0 .. NSlots - 1
  <1> SUFFICES ASSUME NEW x \in Slots, NEW y \in Slots
               PROVE  /\ Dist(x, y) = IF x >= y THEN x - y ELSE x - y + NSlots
                      /\ Dist(x, y) \in 0 .. NSlots - 1
    OBVIOUS
  <1>1. NSlots \in Nat \ {0} /\ x \in 0 .. NSlots - 1 /\ y \in 0 .. NSlots - 1
    BY DmaRingAssumption DEF Slots
  <1>2. CASE x >= y
    <2>1. x - y \in 0 .. NSlots - 1
      BY <1>1, <1>2
    <2> QED BY <1>2, <2>1, RingDifference DEF Dist
  <1>3. CASE ~(x >= y)
    <2>1. x - y \in -NSlots .. -1 /\ x - y + NSlots \in 0 .. NSlots - 1
      BY <1>1, <1>3
    <2> QED BY <1>3, <2>1, RingDifference DEF Dist
  <1> QED BY <1>2, <1>3

\* The i-th descriptor after the harvest position.
LEMMA NthValue ==
  ASSUME next_harvest_bd \in Slots
  PROVE  \A i \in 0 .. NSlots :
             /\ NthBd(i) = IF next_harvest_bd + i < NSlots THEN next_harvest_bd + i
                           ELSE next_harvest_bd + i - NSlots
             /\ NthBd(i) \in Slots
  <1> SUFFICES ASSUME NEW i \in 0 .. NSlots
               PROVE  /\ NthBd(i) = IF next_harvest_bd + i < NSlots THEN next_harvest_bd + i
                                    ELSE next_harvest_bd + i - NSlots
                      /\ NthBd(i) \in Slots
    OBVIOUS
  <1>1. NSlots \in Nat \ {0} /\ next_harvest_bd \in 0 .. NSlots - 1
    BY DmaRingAssumption DEF Slots
  <1>2. \A a \in 0 .. NSlots - 1 : (a + NSlots) % NSlots = a
    BY <1>1
  <1>3. CASE next_harvest_bd + i < NSlots
    <2>1. next_harvest_bd + i \in 0 .. NSlots - 1
      BY <1>1, <1>3
    <2> QED BY <1>3, <2>1, RingDifference DEF NthBd, Slots
  <1>4. CASE ~(next_harvest_bd + i < NSlots)
    <2>1. next_harvest_bd + i - NSlots \in 0 .. NSlots - 1
      BY <1>1, <1>4
    <2>2. (next_harvest_bd + i - NSlots) + NSlots = next_harvest_bd + i
      BY <1>1
    <2>3. NthBd(i) = next_harvest_bd + i - NSlots
      BY <1>2, <2>1, <2>2 DEF NthBd
    <2> QED BY <1>4, <2>1, <2>3 DEF Slots
  <1> QED BY <1>3, <1>4

\* A harvest of k descriptors moves every slot k places forward, the k harvested
\* ones to the end.
LEMMA DistAfterHarvest ==
  ASSUME next_harvest_bd \in Slots, NEW k \in 0 .. NSlots, NEW s \in Slots
  PROVE  Dist(s, NthBd(k)) = IF Dist(s, next_harvest_bd) >= k THEN Dist(s, next_harvest_bd) - k
                             ELSE Dist(s, next_harvest_bd) - k + NSlots
  <1>1. NSlots \in Nat \ {0} /\ next_harvest_bd \in 0 .. NSlots - 1 /\ s \in 0 .. NSlots - 1
    BY DmaRingAssumption DEF Slots
  <1>2. /\ NthBd(k) = IF next_harvest_bd + k < NSlots THEN next_harvest_bd + k
                      ELSE next_harvest_bd + k - NSlots
        /\ NthBd(k) \in Slots
    BY NthValue
  <1>3. /\ Dist(s, NthBd(k)) = IF s >= NthBd(k) THEN s - NthBd(k) ELSE s - NthBd(k) + NSlots
        /\ Dist(s, next_harvest_bd) = IF s >= next_harvest_bd THEN s - next_harvest_bd
                                      ELSE s - next_harvest_bd + NSlots
    BY <1>2, DistValue
  <1> QED BY <1>1, <1>2, <1>3

\* The descriptor at a distance, and the distance of a descriptor.
LEMMA NthDist ==
  ASSUME next_harvest_bd \in Slots
  PROVE  /\ \A i \in 0 .. NSlots - 1 : Dist(NthBd(i), next_harvest_bd) = i
         /\ \A s \in Slots : NthBd(Dist(s, next_harvest_bd)) = s
  <1>1. NSlots \in Nat \ {0} /\ next_harvest_bd \in 0 .. NSlots - 1
    BY DmaRingAssumption DEF Slots
  <1>2. ASSUME NEW i \in 0 .. NSlots - 1 PROVE Dist(NthBd(i), next_harvest_bd) = i
    <2>1. /\ NthBd(i) = IF next_harvest_bd + i < NSlots THEN next_harvest_bd + i
                        ELSE next_harvest_bd + i - NSlots
          /\ NthBd(i) \in Slots
      BY <1>1, NthValue
    <2>2. Dist(NthBd(i), next_harvest_bd) =
              IF NthBd(i) >= next_harvest_bd THEN NthBd(i) - next_harvest_bd
              ELSE NthBd(i) - next_harvest_bd + NSlots
      BY <2>1, DistValue
    <2> QED BY <1>1, <2>1, <2>2
  <1>3. ASSUME NEW s \in Slots PROVE NthBd(Dist(s, next_harvest_bd)) = s
    <2>1. /\ Dist(s, next_harvest_bd) = IF s >= next_harvest_bd THEN s - next_harvest_bd
                                        ELSE s - next_harvest_bd + NSlots
          /\ Dist(s, next_harvest_bd) \in 0 .. NSlots - 1
      BY DistValue
    <2> DEFINE i == Dist(s, next_harvest_bd)
    <2>2. NthBd(i) = IF next_harvest_bd + i < NSlots THEN next_harvest_bd + i
                     ELSE next_harvest_bd + i - NSlots
      BY <1>1, <2>1, NthValue
    <2> QED BY <1>1, <2>1, <2>2 DEF Slots
  <1> QED BY <1>2, <1>3

\* At most p slots lie closer than p.
LEMMA CountBefore ==
  ASSUME NEW h \in Slots, NEW A \in SUBSET Slots, NEW p \in Nat, \A a \in A : Dist(a, h) < p
  PROVE  IsFiniteSet(A) /\ Cardinality(A) <= p
  <1> DEFINE f == [a \in A |-> Dist(a, h) + 1]
  <1>1. IsFiniteSet(1 .. p) /\ Cardinality(1 .. p) = p
    BY SegmentSize
  <1>2. f \in [A -> 1 .. p]
    <2> SUFFICES ASSUME NEW a \in A PROVE Dist(a, h) + 1 \in 1 .. p
      OBVIOUS
    <2>1. Dist(a, h) \in 0 .. NSlots - 1 /\ Dist(a, h) < p
      BY DistValue
    <2> QED BY <2>1, DmaRingAssumption
  <1>3. \A a, b \in A : f[a] = f[b] => a = b
    <2> SUFFICES ASSUME NEW a \in A, NEW b \in A, Dist(a, h) + 1 = Dist(b, h) + 1 PROVE a = b
      OBVIOUS
    <2>1. /\ Dist(a, h) = IF a >= h THEN a - h ELSE a - h + NSlots
          /\ Dist(b, h) = IF b >= h THEN b - h ELSE b - h + NSlots
      BY DistValue
    <2>2. NSlots \in Nat /\ a \in 0 .. NSlots - 1 /\ b \in 0 .. NSlots - 1 /\ h \in 0 .. NSlots - 1
      BY DmaRingAssumption DEF Slots
    <2> QED BY <2>1, <2>2
  <1>4. f \in Injection(A, 1 .. p)
    BY <1>2, <1>3 DEF Injection, IsInjective
  <1> HIDE DEF f
  <1> QED BY <1>1, <1>4, FS_Injection

\* A running harvest takes descriptors the engine was given, and no others.
LEMMA HarvestBound ==
  ASSUME DmaTypeOK, NEW b \in BOOLEAN, NEW k \in HarvestCounts(b)
  PROVE  k \in 0 .. NSlots /\ (~b => k <= dma_hw_desc_count)
  <1>1. /\ HarvestLimit(b) \in Nat /\ HarvestLimit(b) <= NSlots
        /\ ~b => HarvestLimit(b) <= dma_hw_desc_count
    BY DmaRingAssumption DEF HarvestLimit, Least, DmaTypeOK
  <1>2. k \in 0 .. HarvestLimit(b)
    BY DEF HarvestCounts
  <1> QED BY <1>1, <1>2, DmaRingAssumption DEF DmaTypeOK

\* The slots of a harvested batch are the first k of the ring, in their order.
LEMMA HarvestSlots ==
  ASSUME DmaTypeOK, NEW b \in BOOLEAN, NEW k \in HarvestCounts(b)
  PROVE  /\ Len(HarvestedItems(k)) = k
         /\ SlotsOf(HarvestedItems(k)) = {s \in Slots : Dist(s, next_harvest_bd) < k}
         /\ \A i \in 1 .. k : HarvestedItems(k)[i].slot \in Slots
                /\ Dist(HarvestedItems(k)[i].slot, next_harvest_bd) = i - 1
                /\ HarvestedItems(k)[i].slot = NthBd(i - 1)
                /\ HarvestedItems(k)[i].frame = bd[NthBd(i - 1)]
  <1>1. k \in 0 .. NSlots /\ next_harvest_bd \in Slots /\ Len(HarvestedItems(k)) = k
        /\ NSlots \in Nat \ {0}
    BY HarvestBound, HarvestTypes, DmaRingAssumption DEF DmaTypeOK
  <1>2. DOMAIN HarvestedItems(k) = 1 .. k
        /\ \A i \in 1 .. k : /\ HarvestedItems(k)[i].slot = NthBd(i - 1)
                             /\ HarvestedItems(k)[i].frame = bd[NthBd(i - 1)]
    BY DEF HarvestedItems
  <1>3. \A i \in 1 .. k : i - 1 \in 0 .. NSlots - 1
    BY <1>1
  <1>4. \A i \in 1 .. k : NthBd(i - 1) \in Slots /\ Dist(NthBd(i - 1), next_harvest_bd) = i - 1
    BY <1>1, <1>3, NthValue, NthDist
  <1>5. SlotsOf(HarvestedItems(k)) = {s \in Slots : Dist(s, next_harvest_bd) < k}
    <2>1. ASSUME NEW s \in SlotsOf(HarvestedItems(k))
          PROVE  s \in Slots /\ Dist(s, next_harvest_bd) < k
      <3>1. PICK i \in 1 .. k : s = NthBd(i - 1)
        BY <1>2 DEF SlotsOf
      <3>2. i - 1 < k
        BY <1>1
      <3> QED BY <1>4, <3>1, <3>2
    <2>2. ASSUME NEW s \in Slots, Dist(s, next_harvest_bd) < k
          PROVE  s \in SlotsOf(HarvestedItems(k))
      <3>1. Dist(s, next_harvest_bd) \in 0 .. NSlots - 1
        BY <1>1, DistValue
      <3>2. /\ Dist(s, next_harvest_bd) + 1 \in 1 .. k
            /\ (Dist(s, next_harvest_bd) + 1) - 1 = Dist(s, next_harvest_bd)
        BY <1>1, <2>2, <3>1
      <3>3. NthBd(Dist(s, next_harvest_bd)) = s
        BY <1>1, NthDist
      <3>4. HarvestedItems(k)[Dist(s, next_harvest_bd) + 1].slot = s
        BY <1>2, <3>2, <3>3
      <3> QED BY <1>2, <3>2, <3>4 DEF SlotsOf
    <2> QED BY <2>1, <2>2
  <1> QED BY <1>1, <1>2, <1>4, <1>5

\* What the order needs to know about the slots it relates.
SlotsTyped(table, popped, q, b) ==
    PoppedSlots(popped) \subseteq Slots /\ SlotsOf(q) \subseteq Slots /\ SlotsOf(b) \subseteq Slots

LEMMA TypesOfSlots ==
  ASSUME TypeOK
  PROVE  /\ SlotsTyped(slots, active, items, batch)
         /\ next_harvest_bd \in Slots /\ dma_hw_desc_count \in 0 .. NSlots
  <1>1. \A it \in Item : it.slot \in Slots
    BY DEF Item
  <1>2. PoppedSlots(active) \subseteq Slots
    BY <1>1 DEF TypeOK, PoppedSlots
  <1>3. SlotsOf(items) \subseteq Slots
    <2>1. items \in Seq(Item)
      BY DEF TypeOK, QueueTypeOK
    <2>2. \A i \in DOMAIN items : items[i] \in Item
      BY <2>1
    <2> QED BY <1>1, <2>2 DEF SlotsOf
  <1>4. SlotsOf(batch) \subseteq Slots
    <2>1. batch \in Seq(BatchItem)
      BY DEF TypeOK, BatchItem
    <2>2. \A i \in DOMAIN batch : batch[i] \in BatchItem
      BY <2>1
    <2> QED BY <2>2 DEF SlotsOf, BatchItem
  <1> QED BY <1>2, <1>3, <1>4 DEF SlotsTyped, TypeOK, DmaTypeOK

LEMMA OfferedFinite ==
  ASSUME NEW table, NEW b
  PROVE  /\ Offered(table, b) \in SUBSET Slots
         /\ IsFiniteSet(Offered(table, b)) /\ Cardinality(Offered(table, b)) \in Nat
  <1>1. IsFiniteSet(Slots)
    BY DmaRingAssumption, FS_Interval DEF Slots
  <1>2. Offered(table, b) \in SUBSET Slots
    BY DEF Offered
  <1> QED BY <1>1, <1>2, FS_Subset, FS_CardinalityType

\* A running harvest does not reach a slot that is queued or being written, and
\* leaves the ring in order.
LEMMA HarvestRing ==
  ASSUME TypeOK, batch = <<>>,
         RingOrder(next_harvest_bd, dma_hw_desc_count, slots, active, items, batch),
         NEW k \in HarvestCounts(FALSE), dma_harvest(HarvestedItems(k), FALSE)
  PROVE  RingOrder(next_harvest_bd', dma_hw_desc_count', slots, active, items, HarvestedItems(k))
  <1> DEFINE h == next_harvest_bd
             W == Offered(slots, batch)
             W2 == Offered(slots, HarvestedItems(k))
             H == SlotsOf(HarvestedItems(k))
             D(s) == Dist(s, h)
             D2(s) == Dist(s, NthBd(k))
             Q == PoppedSlots(active) \cup SlotsOf(items)
  <1>1. /\ k \in 0 .. NSlots /\ k <= dma_hw_desc_count /\ NSlots \in Nat \ {0}
        /\ h \in Slots /\ dma_hw_desc_count \in 0 .. NSlots
    BY HarvestBound, DmaRingAssumption DEF TypeOK, DmaTypeOK
  <1>2. /\ Len(HarvestedItems(k)) = k
        /\ H = {s \in Slots : D(s) < k}
        /\ \A i \in 1 .. k : HarvestedItems(k)[i].slot \in Slots /\ D(HarvestedItems(k)[i].slot) = i - 1
    BY HarvestSlots DEF TypeOK
  <1>3. next_harvest_bd' = NthBd(k) /\ dma_hw_desc_count' = dma_hw_desc_count - k
    BY <1>1, <1>2 DEF dma_harvest, HwOwnedAfter, Least
  <1>4. W = {s \in Slots : slots[s] = "DMA_WRITABLE"} /\ W2 = W \ H
    BY DEF Offered, SlotsOf
  <1>5. /\ Q \subseteq Slots /\ PoppedSlots(active) \subseteq Slots /\ SlotsOf(items) \subseteq Slots
        /\ \A i \in 1 .. Len(items) : items[i].slot \in SlotsOf(items)
    BY TypesOfSlots DEF SlotsTyped, TypeOK, QueueTypeOK, SlotsOf
  <1>6. /\ dma_hw_desc_count <= Cardinality(W)
        /\ \A w \in W, s \in Q : D(w) < D(s)
        /\ \A a \in PoppedSlots(active), s \in SlotsOf(items) : D(a) < D(s)
        /\ Ascending(items, h)
    BY DEF RingOrder, Before
  <1>7. \A s \in Q : D(s) >= k
    <2> SUFFICES ASSUME NEW s \in Q, ~(D(s) >= k) PROVE FALSE
      OBVIOUS
    <2>1. D(s) \in Nat /\ D(s) < k
      BY <1>1, <1>5, DistValue
    <2>2. W \in SUBSET Slots /\ \A w \in W : Dist(w, h) < D(s)
      BY <1>6, OfferedFinite
    <2>3. Cardinality(W) <= D(s) /\ Cardinality(W) \in Nat
      <3> HIDE DEF W
      <3>1. Cardinality(W) <= D(s)
        BY <1>1, <2>1, <2>2, CountBefore
      <3> QED BY <3>1, OfferedFinite DEF W
    <2> QED BY <1>1, <1>6, <2>1, <2>3
  <1>8. \A s \in Slots : D(s) \in 0 .. NSlots - 1 /\ D2(s) = IF D(s) >= k THEN D(s) - k ELSE D(s) - k + NSlots
    BY <1>1, DistAfterHarvest, DistValue
  <1>9. W2 \subseteq Slots /\ H \subseteq Slots /\ \A w \in W2 : w \in W /\ D(w) >= k
    BY <1>1, <1>2, <1>4, <1>8
  <1> HIDE DEF W, W2, H, D, D2, Q, h
  <1>10. dma_hw_desc_count - k <= Cardinality(W2)
    <2>1. IsFiniteSet(W) /\ IsFiniteSet(W2) /\ Cardinality(W) \in Nat /\ Cardinality(W2) \in Nat
      BY OfferedFinite DEF W, W2
    <2>2. IsFiniteSet(H) /\ Cardinality(H) <= k
      <3>1. H \in SUBSET Slots /\ \A s \in H : Dist(s, h) < k /\ k \in Nat
        BY <1>1, <1>2, <1>9 DEF D
      <3>2. k \in Nat /\ \A s \in H : Dist(s, h) < k
        BY <1>1, <3>1
      <3> QED BY <1>1, <3>1, <3>2, CountBefore
    <2>3. /\ IsFiniteSet(W2 \cup H)
          /\ Cardinality(W2 \cup H) = Cardinality(W2) + Cardinality(H) - Cardinality(W2 \cap H)
      BY <2>1, <2>2, FS_Union
    <2>4. W \in SUBSET (W2 \cup H)
      BY <1>4
    <2>5. Cardinality(W) <= Cardinality(W2 \cup H)
      BY <2>3, <2>4, FS_Subset
    <2>6. Cardinality(H) \in Nat /\ Cardinality(W2 \cap H) \in Nat
      <3>1. W2 \cap H \in SUBSET H
        OBVIOUS
      <3>2. IsFiniteSet(W2 \cap H)
        BY <2>2, <3>1, FS_Subset
      <3> QED BY <2>2, <3>2, FS_CardinalityType
    <2> QED BY <1>1, <1>6, <2>1, <2>2, <2>3, <2>5, <2>6
  <1>11. \A s \in H : D2(s) = D(s) - k + NSlots /\ D(s) \in 0 .. NSlots - 1 /\ D(s) < k
    BY <1>1, <1>2, <1>8, <1>9
  <1>12. \A s \in W2 \cup Q : s \in Slots /\ D2(s) = D(s) - k /\ D(s) \in 0 .. NSlots - 1
    BY <1>5, <1>7, <1>8, <1>9
  <1>13. \A w \in W2, s \in Q : D2(w) < D2(s)
    <2> SUFFICES ASSUME NEW w \in W2, NEW s \in Q PROVE D2(w) < D2(s)
      OBVIOUS
    <2>1. D(w) < D(s)
      BY <1>6, <1>9 DEF D
    <2> QED BY <1>1, <1>12, <2>1
  <1>14. \A w \in W2 \cup Q, s \in H : D2(w) < D2(s)
    <2> SUFFICES ASSUME NEW w \in W2 \cup Q, NEW s \in H PROVE D2(w) < D2(s)
      OBVIOUS
    <2>1. D2(w) = D(w) - k /\ D(w) \in 0 .. NSlots - 1
      BY <1>12
    <2>2. D2(s) = D(s) - k + NSlots /\ D(s) \in 0 .. NSlots - 1
      BY <1>11
    <2> QED BY <1>1, <2>1, <2>2
  <1>15. \A a \in PoppedSlots(active), s \in SlotsOf(items) : D2(a) < D2(s)
    <2> SUFFICES ASSUME NEW a \in PoppedSlots(active), NEW s \in SlotsOf(items) PROVE D2(a) < D2(s)
      OBVIOUS
    <2>1. D(a) < D(s)
      BY <1>6 DEF D
    <2>2. a \in Q /\ s \in Q
      BY DEF Q
    <2> QED BY <1>1, <1>12, <2>1, <2>2
  <1>16. Ascending(items, NthBd(k))
    <2> SUFFICES ASSUME NEW i \in 1 .. Len(items), NEW j \in 1 .. Len(items), i < j
                 PROVE  D2(items[i].slot) < D2(items[j].slot)
      BY DEF Ascending, D2
    <2>1. D(items[i].slot) < D(items[j].slot)
      BY <1>6 DEF Ascending, D
    <2>2. items[i].slot \in Q /\ items[j].slot \in Q
      BY <1>5 DEF Q
    <2> QED BY <1>1, <1>12, <2>1, <2>2
  <1>17. Ascending(HarvestedItems(k), NthBd(k))
    <2> SUFFICES ASSUME NEW i \in 1 .. k, NEW j \in 1 .. k, i < j
                 PROVE  D2(HarvestedItems(k)[i].slot) < D2(HarvestedItems(k)[j].slot)
      BY <1>2 DEF Ascending, D2
    <2>1. /\ D(HarvestedItems(k)[i].slot) = i - 1 /\ HarvestedItems(k)[i].slot \in H
          /\ D(HarvestedItems(k)[j].slot) = j - 1 /\ HarvestedItems(k)[j].slot \in H
      BY <1>1, <1>2
    <2> QED BY <1>1, <1>11, <2>1
  <1>18. Before(W2, Q \cup H, NthBd(k))
    BY <1>13, <1>14 DEF Before, D2
  <1>19. Before(PoppedSlots(active), SlotsOf(items) \cup H, NthBd(k))
    BY <1>14, <1>15 DEF Before, D2, Q
  <1>20. Before(SlotsOf(items), H, NthBd(k))
    BY <1>14 DEF Before, D2, Q
  <1> QED BY <1>3, <1>10, <1>16, <1>17, <1>18, <1>19, <1>20 DEF RingOrder, W2, H, Q

\* The writer's pop takes the queued slot that is next in the ring.
LEMMA PopRing ==
  ASSUME TypeOK, OwnInv, active = {}, items # <<>>, queue_pop_item, active' = {Head(items)},
         UNCHANGED <<batch, next_harvest_bd, dma_hw_desc_count>>,
         RingOrder(next_harvest_bd, dma_hw_desc_count, slots, active, items, batch)
  PROVE  RingOrder(next_harvest_bd, dma_hw_desc_count, slots', active', items', batch)
  <1> DEFINE h == next_harvest_bd
  <1>1. /\ items \in Seq(Item) /\ slots \in [Slots -> SlotStates] /\ QueueOwns(slots, items)
    BY DEF TypeOK, QueueTypeOK, OwnInv
  <1>2. /\ Len(items) \in Nat \ {0} /\ Head(items) = items[1] /\ DOMAIN items = 1 .. Len(items)
        /\ items' \in Seq(Item) /\ DOMAIN items' = 1 .. Len(items') /\ Len(items') = Len(items) - 1
        /\ \A i \in 1 .. Len(items') : items'[i] = items[i + 1] /\ i + 1 \in 1 .. Len(items)
    BY <1>1 DEF queue_pop_item
  <1>3. Offered(slots', batch) = Offered(slots, batch)
    <2>1. slots[items[1].slot] = "READY_FOR_NVME"
      BY <1>1, <1>2 DEF QueueOwns
    <2>2. \A s \in Slots : slots'[s] = IF s = items[1].slot THEN "NVME_BUSY" ELSE slots[s]
      BY <1>1, <1>2 DEF queue_pop_item
    <2> QED BY <2>1, <2>2 DEF Offered
  <1>4. PoppedSlots(active') = {items[1].slot} /\ items[1].slot \in SlotsOf(items)
    BY <1>2 DEF PoppedSlots, SlotsOf
  <1>5. SlotsOf(items') \subseteq SlotsOf(items)
    BY <1>2 DEF SlotsOf
  <1>6. /\ dma_hw_desc_count <= Cardinality(Offered(slots, batch))
        /\ Before(Offered(slots, batch), SlotsOf(items) \cup SlotsOf(batch), h)
        /\ Before(SlotsOf(items), SlotsOf(batch), h)
        /\ Ascending(items, h) /\ Ascending(batch, h)
    BY DEF RingOrder, Before
  <1>7. Before({items[1].slot}, SlotsOf(items') \cup SlotsOf(batch), h)
    <2>1. \A s \in SlotsOf(items') : Dist(items[1].slot, h) < Dist(s, h)
      <3> SUFFICES ASSUME NEW i \in 1 .. Len(items')
                   PROVE  Dist(items[1].slot, h) < Dist(items'[i].slot, h)
        BY <1>2 DEF SlotsOf
      <3>1. i + 1 \in 1 .. Len(items) /\ 1 \in 1 .. Len(items) /\ 1 < i + 1
        BY <1>2
      <3> QED BY <1>2, <1>6, <3>1 DEF Ascending
    <2> QED BY <1>4, <1>6, <2>1 DEF Before
  <1>8. Ascending(items', h)
    <2> SUFFICES ASSUME NEW i \in 1 .. Len(items'), NEW j \in 1 .. Len(items'), i < j
                 PROVE  Dist(items'[i].slot, h) < Dist(items'[j].slot, h)
      BY DEF Ascending
    <2>1. i + 1 < j + 1
      BY <1>2
    <2> QED BY <1>2, <1>6, <2>1 DEF Ascending
  <1>9. Before(Offered(slots, batch), {items[1].slot} \cup SlotsOf(items') \cup SlotsOf(batch), h)
    BY <1>4, <1>5, <1>6 DEF Before
  <1>10. Before(SlotsOf(items'), SlotsOf(batch), h)
    BY <1>5, <1>6 DEF Before
  <1> QED BY <1>3, <1>4, <1>6, <1>7, <1>8, <1>9, <1>10 DEF RingOrder

\* The slot that storage_complete_slot gives back is the one after those the engine
\* was given before.
LEMMA RetireRing ==
  ASSUME TypeOK, OwnInv, NEW it \in active, active = {it}, complete_slot(it.slot),
         active' = {}, UNCHANGED batch, worker_state' # "FAILED", worker_state # "DONE",
         RingOrder(next_harvest_bd, dma_hw_desc_count, slots, active, items, batch)
  PROVE  RingOrder(next_harvest_bd', dma_hw_desc_count', slots', active', items', batch)
  <1> DEFINE h == next_harvest_bd
             W == Offered(slots, batch)
             W2 == Offered(slots', batch)
  <1>1. /\ slots \in [Slots -> SlotStates] /\ it.slot \in Slots /\ slots[it.slot] = "NVME_BUSY"
        /\ dma_hw_desc_count \in 0 .. NSlots
    BY DEF TypeOK, QueueTypeOK, DmaTypeOK, OwnInv, WriterOwns, Item
  <1>2. /\ dma_hw_desc_count <= Cardinality(W)
        /\ Before(W, {it.slot} \cup SlotsOf(items) \cup SlotsOf(batch), h)
        /\ Before({it.slot}, SlotsOf(items) \cup SlotsOf(batch), h)
        /\ Before(SlotsOf(items), SlotsOf(batch), h)
        /\ Ascending(items, h) /\ Ascending(batch, h)
        /\ PoppedSlots(active') = {}
    BY DEF RingOrder, PoppedSlots
  <1>3. items' = items /\ next_harvest_bd' = next_harvest_bd
    BY DEF complete_slot, dmaVars, dma_requeue_one, engineVars
  <1>4. CASE ~should_requeue
    <2>1. dma_hw_desc_count' = dma_hw_desc_count /\ slots' = [slots EXCEPT ![it.slot] = "FREE"]
      BY <1>4 DEF complete_slot, dmaVars
    <2>2. W2 = W
      BY <1>1, <2>1 DEF Offered
    <2>3. Before(W2, SlotsOf(items) \cup SlotsOf(batch), h) /\ Before({}, SlotsOf(items) \cup SlotsOf(batch), h)
      BY <1>2, <2>2 DEF Before
    <2> QED BY <1>2, <1>3, <2>1, <2>2, <2>3 DEF RingOrder
  <1>5. CASE should_requeue
    <2>1. ~(requeue_refused \/ ~requeue_ok)
      BY <1>5 DEF complete_slot, fail_locked, should_requeue, can_requeue
    <2>2. /\ dma_hw_desc_count' = dma_hw_desc_count + 1
          /\ slots' = [slots EXCEPT ![it.slot] = "DMA_WRITABLE"]
      BY <1>5, <2>1 DEF complete_slot, dma_requeue_one
    <2>3. it.slot \notin SlotsOf(batch)
      <3> SUFFICES ASSUME it.slot \in SlotsOf(batch) PROVE FALSE
        OBVIOUS
      <3>1. Dist(it.slot, h) < Dist(it.slot, h)
        BY <1>2 DEF Before
      <3>2. Dist(it.slot, h) \in Int
        <4>1. it.slot \in Slots /\ next_harvest_bd \in Slots
          BY <1>1, TypesOfSlots
        <4> QED BY <4>1, DistValue
      <3> QED BY <3>1, <3>2
    <2>4. W2 = W \cup {it.slot} /\ it.slot \notin W
      BY <1>1, <2>2, <2>3 DEF Offered
    <2>5. Cardinality(W2) = Cardinality(W) + 1 /\ Cardinality(W) \in Nat
      <3>1. IsFiniteSet(W) /\ Cardinality(W) \in Nat
        BY OfferedFinite
      <3> HIDE DEF W, W2
      <3> QED BY <2>4, <3>1, FS_AddElement
    <2>6. dma_hw_desc_count' <= Cardinality(W2)
      BY <1>1, <1>2, <2>2, <2>5
    <2> HIDE DEF W, W2
    <2>7. Before(W2, SlotsOf(items) \cup SlotsOf(batch), h)
      BY <1>2, <2>4 DEF Before
    <2>8. Before({}, SlotsOf(items) \cup SlotsOf(batch), h)
      BY DEF Before
    <2> QED BY <1>2, <1>3, <2>6, <2>7, <2>8 DEF RingOrder, W2
  <1> QED BY <1>4, <1>5

------------------------------------------------------------------------------
(* The hand-over of a batch.                                               *)

\* A non-empty set of naturals has a least member.
LEMMA LeastOf ==
  ASSUME NEW S \in SUBSET Nat, S # {}
  PROVE  \E x \in S : \A y \in S : x <= y
  <1> DEFINE R == {ss \in Nat \X Nat : ss[1] < ss[2]}
  <1>1. IsWellFoundedOn(R, Nat)
    BY NatLessThanWellFounded DEF OpToRel
  <1>2. \E x \in S : \A y \in S : ~(<<y, x>> \in R)
    <2> HIDE DEF R
    <2> QED BY <1>1, WFMin
  <1>3. PICK x \in S : \A y \in S : ~(<<y, x>> \in R)
    BY <1>2
  <1>4. \A y \in S : ~(y < x)
    BY <1>3
  <1> QED BY <1>4

\* The loop over a batch that meets nothing that ends it processes all of it.
LEMMA ProcessedAll ==
  ASSUME TypeOK, \A i \in Processed(TRUE) : ~EndsBatch(i)
  PROVE  Processed(TRUE) = 1 .. Len(batch) /\ \A i \in 1 .. Len(batch) : ~EndsBatch(i)
  <1>1. DOMAIN batch = 1 .. Len(batch) /\ Len(batch) \in Nat
    BY DEF TypeOK
  <1> DEFINE ends == {i \in 1 .. Len(batch) : EndsBatch(i)}
  <1>2. ends = {}
    <2> SUFFICES ASSUME ends # {} PROVE FALSE
      OBVIOUS
    <2>1. ends \in SUBSET Nat
      BY <1>1
    <2>2. PICK x \in ends : \A y \in ends : x <= y
      <3> HIDE DEF ends
      <3> QED BY <2>1, LeastOf
    <2>3. \A j \in 1 .. x - 1 : ~EndsBatch(j)
      <3> SUFFICES ASSUME NEW j \in 1 .. x - 1, EndsBatch(j) PROVE FALSE
        OBVIOUS
      <3>1. x \in 1 .. Len(batch) /\ j \in 1 .. Len(batch)
        BY <1>1, <2>2
      <3> QED BY <1>1, <2>2, <3>1
    <2>4. x \in Processed(TRUE)
      BY <1>1, <2>2, <2>3 DEF Processed
    <2> QED BY <2>2, <2>4
  <1>3. \A i \in 1 .. Len(batch) : \A j \in 1 .. i - 1 : j \in 1 .. Len(batch)
    BY <1>1
  <1> QED BY <1>1, <1>2, <1>3 DEF Processed

\* What is queued of a batch: every queueable item that was processed, in order.
LEMMA PendingFacts ==
  ASSUME TypeOK, NEW breaks \in BOOLEAN, NEW q \in QueuedOf(Processed(breaks))
  PROVE  /\ PendingOf(q) \in Seq(Item) /\ DOMAIN q = 1 .. Len(PendingOf(q))
         /\ \A n \in 1 .. Len(PendingOf(q)) :
                /\ q[n] \in 1 .. Len(batch) /\ q[n] \in Processed(breaks) /\ Queueable(q[n])
                /\ PendingOf(q)[n].slot = batch[q[n]].slot
                /\ PendingOf(q)[n].frame = batch[q[n]].frame
                /\ PendingOf(q)[n].lba = Len(captured) + n
         /\ \A m, n \in 1 .. Len(PendingOf(q)) : m < n => q[m] < q[n]
         /\ \A i \in Processed(breaks) : Queueable(i) => \E n \in 1 .. Len(PendingOf(q)) : q[n] = i
  <1> DEFINE set == {i \in Processed(breaks) : Queueable(i)}
  <1>1. set \subseteq 1 .. Len(batch) /\ Len(batch) \in Nat
    BY DEF Processed, TypeOK
  <1>2. IsFiniteSet(set) /\ Cardinality(set) \in Nat
    <2>1. IsFiniteSet(1 .. Len(batch))
      BY <1>1, FS_Interval
    <2> QED BY <1>1, <2>1, FS_Subset, FS_CardinalityType
  <1>3. /\ q \in [1 .. Cardinality(set) -> set]
        /\ \A m, n \in 1 .. Cardinality(set) : m < n => q[m] < q[n]
    BY DEF QueuedOf
  <1>4. PendingOf(q) \in Seq(Item)
    BY PendingTypes
  <1>5. PendingOf(q) = [n \in 1 .. Cardinality(set) |->
            [slot |-> batch[q[n]].slot, frame |-> batch[q[n]].frame, lba |-> Len(captured) + n]]
    BY <1>3 DEF PendingOf
  <1>6. Len(PendingOf(q)) = Cardinality(set)
    <2> HIDE DEF set
    <2>1. DOMAIN PendingOf(q) = 1 .. Cardinality(set)
      BY <1>5
    <2>2. DOMAIN PendingOf(q) = 1 .. Len(PendingOf(q)) /\ Len(PendingOf(q)) \in Nat
      BY <1>4
    <2> QED BY <1>2, <2>1, <2>2
  <1>7. \A i \in set : \E n \in 1 .. Cardinality(set) : q[n] = i
    <2>1. \A m, n \in 1 .. Cardinality(set) : q[m] = q[n] => m = n
      <3> SUFFICES ASSUME NEW m \in 1 .. Cardinality(set), NEW n \in 1 .. Cardinality(set), m # n
                   PROVE  q[m] # q[n]
        OBVIOUS
      <3>1. q[m] \in Nat /\ q[n] \in Nat
        BY <1>1, <1>3
      <3>2. m < n \/ n < m
        BY <1>2
      <3> QED BY <1>3, <3>1, <3>2
    <2>2. q \in Injection(1 .. Cardinality(set), set)
      <3> HIDE DEF set
      <3> QED BY <1>3, <2>1 DEF Injection, IsInjective
    <2>3. Cardinality(1 .. Cardinality(set)) = Cardinality(set)
      BY <1>2, SegmentSize
    <2>4. q \in Surjection(1 .. Cardinality(set), set)
      <3> HIDE DEF set
      <3> QED BY <1>2, <2>2, <2>3, FS_Injection
    <2> HIDE DEF set
    <2> QED BY <2>4 DEF Surjection
  <1>8. \A n \in 1 .. Cardinality(set) : q[n] \in set
    BY <1>3
  <1>9. \A n \in 1 .. Cardinality(set) : /\ PendingOf(q)[n].slot = batch[q[n]].slot
                                         /\ PendingOf(q)[n].frame = batch[q[n]].frame
                                         /\ PendingOf(q)[n].lba = Len(captured) + n
    BY <1>5
  <1> QED BY <1>1, <1>3, <1>4, <1>6, <1>7, <1>8, <1>9

\* A hand-over moves only the slots it is given, and a released slot is no longer
\* writable.
LEMMA HandOverTouches ==
  ASSUME QueueTypeOK, NEW pending, NEW released, NEW failed, hand_over(pending, released, failed)
  PROVE  \A s \in Slots :
           /\ s \notin SlotsOf(pending) \cup released \cup failed => slots'[s] = slots[s]
           /\ s \in released => slots'[s] # "DMA_WRITABLE"
  <1> DEFINE writable(set) == {s \in set : slots[s] = "DMA_WRITABLE"}
             table == MoveSlots(MoveSlots(slots, writable(released), "FREE"),
                                writable(failed), "DMA_COMPLETED_UNHARVESTED")
  <1>1. slots' = table \/ slots' = MoveSlots(table, SlotsOf(pending), "READY_FOR_NVME")
    BY DEF hand_over
  <1>2. \A s \in Slots : /\ s \notin released \cup failed => table[s] = slots[s]
                         /\ s \in released => table[s] # "DMA_WRITABLE"
    BY DEF MoveSlots
  <1> HIDE DEF table
  <1> QED BY <1>1, <1>2 DEF MoveSlots

\* The producer and the queue agree about whether a batch was pushed.
LEMMA PushedAlike ==
  ASSUME TypeOK, NEW pending, NEW done
  PROVE  LET spoiled == \E i \in done : EndsBatch(i)
         IN  (~spoiled /\ pending # <<>> /\ ~PushRejected(pending))
                 <=> HandOverPushes(pending, ReleasedOf(done), FailedOf(done))
  <1>1. (\E i \in done : EndsBatch(i)) <=>
            \/ FailedOf(done) # {}
            \/ \E s \in ReleasedOf(done) : slots[s] # "DMA_WRITABLE"
    <2>1. \A i : EndsBatch(i) <=> \/ Kind(i) = "inv"
                                  \/ ~Queueable(i) /\ Kind(i) # "inv" /\ slots[batch[i].slot] # "DMA_WRITABLE"
      BY DEF EndsBatch, Queueable
    <2>2. FailedOf(done) # {} <=> \E i \in done : Kind(i) = "inv"
      BY DEF FailedOf
    <2>3. (\E s \in ReleasedOf(done) : slots[s] # "DMA_WRITABLE") <=>
              \E i \in done : ~Queueable(i) /\ Kind(i) # "inv" /\ slots[batch[i].slot] # "DMA_WRITABLE"
      BY DEF ReleasedOf
    <2> HIDE DEF Kind, Queueable
    <2> QED BY <2>1, <2>2, <2>3
  <1> QED BY <1>1 DEF HandOverPushes


\* A hand-over after which the loop goes on took the slots of the batch from the
\* engine, and those it queued are in the order of the ring.
LEMMA EnqueueRing ==
  ASSUME TypeOK, OwnInv, P_Enqueue, ppc' = "loop",
         RingOrder(next_harvest_bd, dma_hw_desc_count, slots, active, items, batch)
  PROVE  RingOrder(next_harvest_bd, dma_hw_desc_count, slots', active, items', batch')
  <1> DEFINE h == next_harvest_bd
             done == Processed(TRUE)
  <1>1. PICK q \in QueuedOf(done) :
           /\ hand_over(PendingOf(q), ReleasedOf(done), FailedOf(done))
           /\ ~(\E i \in done : EndsBatch(i))
           /\ PendingOf(q) # <<>> => ~PushRejected(PendingOf(q))
    BY DEF P_Enqueue, GoOut
  <1> DEFINE pending == PendingOf(q)
  <1>2. batch' = <<>>
    BY DEF P_Enqueue
  <1>3. done = 1 .. Len(batch) /\ \A i \in 1 .. Len(batch) : ~EndsBatch(i)
    BY <1>1, ProcessedAll
  <1>4. /\ pending \in Seq(Item)
        /\ \A n \in 1 .. Len(pending) : q[n] \in 1 .. Len(batch) /\ pending[n].slot = batch[q[n]].slot
        /\ \A m, n \in 1 .. Len(pending) : m < n => q[m] < q[n]
        /\ \A i \in 1 .. Len(batch) : Queueable(i) => \E n \in 1 .. Len(pending) : q[n] = i
    BY <1>3, PendingFacts
  <1>5. /\ items \in Seq(Item) /\ DOMAIN items = 1 .. Len(items) /\ Len(items) \in Nat
        /\ DOMAIN batch = 1 .. Len(batch) /\ Len(batch) \in Nat
        /\ DOMAIN pending = 1 .. Len(pending) /\ Len(pending) \in Nat
    BY <1>4 DEF TypeOK, QueueTypeOK
  <1> HIDE DEF pending
  <1>6. SlotsOf(pending) \subseteq SlotsOf(batch)
    BY <1>4, <1>5 DEF SlotsOf
  <1>7. FailedOf(done) = {} /\ ReleasedOf(done) \subseteq SlotsOf(batch)
        /\ \A s \in ReleasedOf(done) : slots[s] = "DMA_WRITABLE"
    BY <1>3, <1>5 DEF FailedOf, ReleasedOf, EndsBatch, SlotsOf
  <1>8. \A s \in SlotsOf(batch) : s \in SlotsOf(pending) \cup ReleasedOf(done)
    <2> SUFFICES ASSUME NEW i \in 1 .. Len(batch)
                 PROVE  batch[i].slot \in SlotsOf(pending) \cup ReleasedOf(done)
      BY <1>5 DEF SlotsOf
    <2>1. CASE Queueable(i)
      <3>1. PICK n \in 1 .. Len(pending) : q[n] = i
        BY <1>4, <2>1
      <3> QED BY <1>4, <1>5, <3>1 DEF SlotsOf
    <2>2. CASE ~Queueable(i)
      <3>1. Kind(i) # "inv"
        BY <1>3 DEF EndsBatch
      <3> QED BY <1>3, <2>2, <3>1 DEF ReleasedOf
    <2> QED BY <2>1, <2>2
  <1>9. pending # <<>> <=> HandOverPushes(pending, ReleasedOf(done), FailedOf(done))
    BY <1>1, <1>7 DEF HandOverPushes, pending
  <1>10. /\ items' = IF pending # <<>> THEN items \o pending ELSE items
         /\ \A s \in SlotsOf(pending) : slots'[s] # "DMA_WRITABLE"
    <2>1. hand_over(pending, ReleasedOf(done), FailedOf(done))
      BY <1>1 DEF pending
    <2>2. \/ ~HandOverPushes(pending, ReleasedOf(done), FailedOf(done)) /\ items' = items
          \/ /\ HandOverPushes(pending, ReleasedOf(done), FailedOf(done)) /\ items' = items \o pending
             /\ \A i \in 1 .. Len(pending) : slots'[pending[i].slot] = "READY_FOR_NVME"
      BY <1>4, <2>1, HandOverEffect DEF TypeOK
    <2>3. pending = <<>> => SlotsOf(pending) = {}
      BY DEF SlotsOf
    <2> QED BY <1>5, <1>9, <2>2, <2>3 DEF SlotsOf
  <1>11. \A s \in Slots : /\ s \notin SlotsOf(batch) => slots'[s] = slots[s]
                          /\ s \in SlotsOf(batch) => slots'[s] # "DMA_WRITABLE"
    <2>1. \A s \in Slots :
           /\ s \notin SlotsOf(pending) \cup ReleasedOf(done) \cup FailedOf(done) => slots'[s] = slots[s]
           /\ s \in ReleasedOf(done) => slots'[s] # "DMA_WRITABLE"
      BY <1>1, HandOverTouches DEF TypeOK, pending
    <2> QED BY <1>6, <1>7, <1>8, <1>10, <2>1
  <1>12. Offered(slots', batch') = Offered(slots, batch) /\ SlotsOf(batch') = {}
    BY <1>2, <1>11 DEF Offered, SlotsOf
  <1>13. /\ dma_hw_desc_count <= Cardinality(Offered(slots, batch))
         /\ Before(Offered(slots, batch), PoppedSlots(active) \cup SlotsOf(items) \cup SlotsOf(batch), h)
         /\ Before(PoppedSlots(active), SlotsOf(items) \cup SlotsOf(batch), h)
         /\ Before(SlotsOf(items), SlotsOf(batch), h)
         /\ Ascending(items, h) /\ Ascending(batch, h)
    BY DEF RingOrder
  <1>14. SlotsOf(items') \subseteq SlotsOf(items) \cup SlotsOf(batch)
    <2>1. CASE pending = <<>>
      BY <1>10, <2>1
    <2>2. CASE pending # <<>>
      <3>1. SlotsOf(items \o pending) \subseteq SlotsOf(items) \cup SlotsOf(pending)
        <4> SUFFICES ASSUME NEW k \in 1 .. Len(items \o pending)
                     PROVE  (items \o pending)[k].slot \in SlotsOf(items) \cup SlotsOf(pending)
          BY <1>4, <1>5 DEF SlotsOf
        <4>1. CASE k \in 1 .. Len(items)
          BY <1>4, <1>5, <4>1 DEF SlotsOf
        <4>2. CASE k \notin 1 .. Len(items)
          <5>1. k - Len(items) \in 1 .. Len(pending) /\ (items \o pending)[k] = pending[k - Len(items)]
            BY <1>4, <1>5, <4>2
          <5> QED BY <1>5, <5>1 DEF SlotsOf
        <4> QED BY <4>1, <4>2
      <3> QED BY <1>6, <1>10, <2>2, <3>1
    <2> QED BY <2>1, <2>2
  <1>15. Ascending(pending, h)
    <2> SUFFICES ASSUME NEW m \in 1 .. Len(pending), NEW n \in 1 .. Len(pending), m < n
                 PROVE  Dist(pending[m].slot, h) < Dist(pending[n].slot, h)
      BY DEF Ascending
    <2>1. q[m] < q[n] /\ q[m] \in 1 .. Len(batch) /\ q[n] \in 1 .. Len(batch)
      BY <1>4
    <2> QED BY <1>4, <1>13, <2>1 DEF Ascending
  <1>16. Ascending(items', h)
    <2>1. CASE pending = <<>>
      BY <1>10, <1>13, <2>1
    <2>2. CASE pending # <<>>
      <3> SUFFICES ASSUME NEW i \in 1 .. Len(items \o pending), NEW j \in 1 .. Len(items \o pending), i < j
                   PROVE  Dist((items \o pending)[i].slot, h) < Dist((items \o pending)[j].slot, h)
        BY <1>10, <2>2 DEF Ascending
      <3>1. CASE j \in 1 .. Len(items)
        <4>1. i \in 1 .. Len(items) /\ (items \o pending)[i] = items[i] /\ (items \o pending)[j] = items[j]
          BY <1>4, <1>5, <3>1
        <4> QED BY <1>13, <3>1, <4>1 DEF Ascending
      <3>2. CASE j \notin 1 .. Len(items)
        <4>1. j - Len(items) \in 1 .. Len(pending) /\ (items \o pending)[j] = pending[j - Len(items)]
          BY <1>4, <1>5, <3>2
        <4>2. CASE i \in 1 .. Len(items)
          <5>1. (items \o pending)[i] = items[i] /\ items[i].slot \in SlotsOf(items)
                /\ pending[j - Len(items)].slot \in SlotsOf(batch)
            BY <1>4, <1>5, <1>6, <4>1, <4>2 DEF SlotsOf
          <5> QED BY <1>13, <4>1, <5>1 DEF Before
        <4>3. CASE i \notin 1 .. Len(items)
          <5>1. /\ i - Len(items) \in 1 .. Len(pending) /\ (items \o pending)[i] = pending[i - Len(items)]
                /\ i - Len(items) < j - Len(items)
            BY <1>4, <1>5, <4>3
          <5> QED BY <1>15, <4>1, <5>1 DEF Ascending
        <4> QED BY <4>2, <4>3
      <3> QED BY <3>1, <3>2
    <2> QED BY <2>1, <2>2
  <1>17. Ascending(batch', h)
    BY <1>2 DEF Ascending
  <1>18. /\ Before(Offered(slots, batch), PoppedSlots(active) \cup SlotsOf(items'), h)
         /\ Before(PoppedSlots(active), SlotsOf(items'), h) /\ Before(SlotsOf(items'), {}, h)
    BY <1>13, <1>14 DEF Before
  <1> QED BY <1>12, <1>13, <1>16, <1>17, <1>18 DEF RingOrder


------------------------------------------------------------------------------
(* Every step keeps the ring in order.                                     *)

\* At the gate the engine is given every slot, in the order of the ring.
LEMMA GateRing ==
  ASSUME TypeOK, SafeInv, LeaveInv, ControlInv, P_Gate
  PROVE  RingOrder(next_harvest_bd', dma_hw_desc_count', slots', active', items', batch')
  <1>1. /\ items = <<>> /\ batch = <<>> /\ active = {}
        /\ \A s \in Slots : slots[s] = "DMA_WRITABLE"
    BY DEF P_Gate, ControlInv, SafeInv, LeaveInv
  <1>2. /\ UNCHANGED <<items, batch, active, slots>>
        /\ dma_hw_desc_count' = NSlots
    BY DEF P_Gate, dma_start_s2mm_ring, queueVars, batchVars, writerVars
  <1>3. Offered(slots, <<>>) = Slots /\ PoppedSlots({}) = {} /\ SlotsOf(<<>>) = {}
    BY <1>1 DEF Offered, PoppedSlots, SlotsOf
  <1>4. Cardinality(Slots) = NSlots
    <2>1. NSlots \in Nat \ {0} /\ 0 \in Int /\ NSlots - 1 \in Int /\ ~(0 > NSlots - 1)
      BY DmaRingAssumption
    <2>2. Cardinality(0 .. NSlots - 1) = (NSlots - 1) - 0 + 1
      BY <2>1, FS_Interval
    <2> QED BY <2>1, <2>2 DEF Slots
  <1>5. NSlots \in Nat
    BY DmaRingAssumption
  <1> QED BY <1>1, <1>2, <1>3, <1>4, <1>5 DEF RingOrder, Before, Ascending

LEMMA ProducerRing ==
  ASSUME TypeOK, SafeInv, LeaveInv, OwnInv, ControlInv, RingInv, Producer
  PROVE  RingInv'
  <1> SUFFICES ASSUME Live'
               PROVE  RingOrder(next_harvest_bd', dma_hw_desc_count', slots', active', items', batch')
    BY DEF RingInv
  <1>1. Quiet \/ Busy
    BY ProducerControl
  <1>2. CASE Quiet
    BY <1>2 DEF Quiet, RingInv
  <1>3. CASE P_Gate
    BY <1>3, GateRing
  <1>4. CASE P_Harvest
    <2>1. PICK k \in HarvestCounts(Harvesting) : /\ dma_harvest(HarvestedItems(k), Harvesting)
                                                 /\ batch' = HarvestedItems(k)
      BY <1>4 DEF P_Harvest
    <2>2. UNCHANGED <<slots, items, active, worker_state>> /\ ppc = "loop"
      BY <1>4 DEF P_Harvest, MayHarvest, queueVars, writerVars
    <2>3. Live /\ batch = <<>>
      BY <2>2 DEF Live, ControlInv
    <2>4. Harvesting = FALSE
      BY <2>3 DEF Live, ControlInv, Harvesting, stop_latched
    <2>5. RingOrder(next_harvest_bd, dma_hw_desc_count, slots, active, items, batch)
      BY <2>3 DEF RingInv
    <2>6. k \in HarvestCounts(FALSE) /\ dma_harvest(HarvestedItems(k), FALSE)
      BY <2>1, <2>4
    <2>7. RingOrder(next_harvest_bd', dma_hw_desc_count', slots, active, items, HarvestedItems(k))
      BY <2>3, <2>5, <2>6, HarvestRing
    <2> QED BY <2>1, <2>2, <2>7
  <1>5. CASE P_Enqueue
    <2>1. worker_state' = worker_state
      BY <1>5, HandOverKeeps DEF P_Enqueue
    <2>2. /\ ppc = "enqueue" /\ ppc' \in {"out", "loop"}
          /\ UNCHANGED <<next_harvest_bd, dma_hw_desc_count, active>>
      BY <1>5 DEF P_Enqueue, GoOut, dmaVars, writerVars
    <2>3. Live /\ ppc' = "loop"
      BY <2>1, <2>2 DEF Live
    <2> QED BY <1>5, <2>2, <2>3, EnqueueRing DEF RingInv
  <1>6. CASE P_GateFail \/ P_OutHarvest \/ P_OutEnqueue
    BY <1>6 DEF P_GateFail, P_OutHarvest, P_OutEnqueue, GoOut, GoTo, Live
  <1> QED BY <1>1, <1>2, <1>3, <1>4, <1>5, <1>6 DEF Busy

\* The legacy writer pops one slot at a time, so it gives them back in the order
\* of the ring.
LEMMA OthersRing ==
  ASSUME ~CrossSlot, TypeOK, SafeInv, LeaveInv, OwnInv, ControlInv, RingInv,
         Writer \/ RequestStop \/ Nvme \/ DmaEngine \/ UNCHANGED vars
  PROVE  RingInv'
  <1> SUFFICES ASSUME Live'
               PROVE  RingOrder(next_harvest_bd', dma_hw_desc_count', slots', active', items', batch')
    BY DEF RingInv
  <1>1. Live /\ UNCHANGED batch
    BY OthersControl
  <1>2. RingOrder(next_harvest_bd, dma_hw_desc_count, slots, active, items, batch)
    BY <1>1 DEF RingInv
  <1>3. CASE W_PopItem
    <2>1. active = {} /\ items # <<>>
      BY <1>3, PopItemNonempty DEF W_PopItem, LeaveInv
    <2>2. /\ queue_pop_item /\ active' = {Head(items)}
          /\ UNCHANGED <<next_harvest_bd, dma_hw_desc_count>>
      BY <1>3, <2>1 DEF W_PopItem, dmaVars
    <2> QED BY <1>1, <1>2, <2>1, <2>2, PopRing
  <1>4. ASSUME NEW it \in active, W_Retire(it)
        PROVE  RingOrder(next_harvest_bd', dma_hw_desc_count', slots', active', items', batch')
    <2>1. active = {it}
      BY DEF LeaveInv
    <2>2. complete_slot(it.slot) /\ active' = {}
      BY <1>4, <2>1 DEF W_Retire
    <2>3. worker_state' # "FAILED" /\ worker_state # "DONE"
      BY <1>1 DEF Live
    <2> QED BY <1>1, <1>2, <2>1, <2>2, <2>3, RetireRing
  <1>5. CASE W_DrainAbort
    BY <1>5 DEF W_DrainAbort, WriterFails, fail_and_wake, fail_locked, Live
  <1>6. CASE UNCHANGED <<next_harvest_bd, dma_hw_desc_count, slots, active, items>>
    BY <1>1, <1>2, <1>6
  <1>7. \/ UNCHANGED <<next_harvest_bd, dma_hw_desc_count, slots, active, items>>
        \/ W_PopItem \/ W_DrainAbort \/ \E it \in active : W_Retire(it)
    <2>1. CASE Writer
      BY <2>1 DEF Writer, W_WaitRun, W_Ready, queue_set_writer_ready, W_Top, W_PopSleep,
                  W_AddFail, W_PopOther, WriterFails, fail_and_wake,
                  W_Decide, W_StepFail, W_FlushFail, dmaVars, queueVars, writerVars
    <2>2. CASE RequestStop \/ Nvme \/ DmaEngine \/ UNCHANGED vars
      BY <2>2 DEF RequestStop, Nvme, NvmeComplete, DmaEngine, HwReceive, HwFetchStale, HwHalt, HwFault,
                  vars, dmaVars, queueVars, writerVars, ringVars
    <2> QED BY <2>1, <2>2
  <1> QED BY <1>3, <1>4, <1>5, <1>6, <1>7


------------------------------------------------------------------------------
(* Every step keeps what is on its way to the medium.                      *)

LEMMA DataTypes ==
  ASSUME TypeOK
  PROVE  /\ items \in Seq(Item) /\ Len(items) \in Nat
         /\ \A i \in 1 .. Len(items) : items[i] \in Item /\ items[i].slot \in Slots
                                       /\ items[i].lba \in Nat \ {0}
         /\ Len(batch) \in Nat /\ \A i \in 1 .. Len(batch) : batch[i].slot \in Slots
         /\ \A it \in active : it.slot \in Slots /\ it.lba \in Nat \ {0}
         /\ bd \in [Slots -> 0 .. MaxFrames] /\ ddr \in [Slots -> 0 .. MaxFrames]
         /\ slots \in [Slots -> SlotStates] /\ media \in [Lbas -> 0 .. MaxFrames]
         /\ captured \in Seq(1 .. MaxFrames)
  <1>1. items \in Seq(Item) /\ batch \in Seq(BatchItem) /\ active \subseteq Item
    BY DEF TypeOK, QueueTypeOK, BatchItem
  <1>2. /\ Len(items) \in Nat /\ \A i \in 1 .. Len(items) : items[i] \in Item
        /\ Len(batch) \in Nat /\ \A i \in 1 .. Len(batch) : batch[i] \in BatchItem
    BY <1>1
  <1>3. \A it \in Item : it.slot \in Slots /\ it.lba \in Nat \ {0}
    BY DEF Item
  <1>4. \A b \in BatchItem : b.slot \in Slots
    BY DEF BatchItem
  <1>5. /\ bd \in [Slots -> 0 .. MaxFrames] /\ ddr \in [Slots -> 0 .. MaxFrames]
        /\ slots \in [Slots -> SlotStates] /\ media \in [Lbas -> 0 .. MaxFrames]
        /\ captured \in Seq(1 .. MaxFrames)
    BY DEF TypeOK, DmaTypeOK, QueueTypeOK
  <1> QED BY <1>1, <1>2, <1>3, <1>4, <1>5

\* A harvest: a stop harvest clears status words, but of an engine that has halted.
LEMMA HarvestData ==
  ASSUME TypeOK, DataInv, NEW b \in BOOLEAN, b => Dead(dmasr), NEW k \in HarvestCounts(b),
         dma_harvest(HarvestedItems(k), b), batch' \in {<<>>, HarvestedItems(k)},
         UNCHANGED <<captured, slots, items, active, media>>
  PROVE  DataInv'
  <1>1. UNCHANGED <<ddr, dmasr>>
    BY DEF dma_harvest
  <1>2. \A s \in Slots : bd'[s] = bd[s] \/ (bd'[s] = 0 /\ Dead(dmasr))
    BY DEF dma_harvest, BdAfterHarvest
  <1>3. \A s \in Slots : bd[s] # 0 => ddr[s] = bd[s]
    BY DEF DataInv
  <1>4. /\ Len(HarvestedItems(k)) = k /\ k \in 0 .. NSlots /\ NSlots \in Nat
        /\ \A i \in 1 .. k : /\ HarvestedItems(k)[i].slot \in Slots
                             /\ HarvestedItems(k)[i].slot = NthBd(i - 1)
                             /\ HarvestedItems(k)[i].frame = bd[NthBd(i - 1)]
    BY HarvestSlots, HarvestBound, DmaRingAssumption DEF TypeOK
  <1>5. \A i \in 1 .. k : bd[HarvestedItems(k)[i].slot] # 0
    <2> SUFFICES ASSUME NEW i \in 1 .. k PROVE bd[NthBd(i - 1)] # 0
      BY <1>4
    <2>1. i - 1 \in 0 .. k - 1
      BY <1>4
    <2>2. Completed(i - 1)
      BY <2>1 DEF HarvestCounts
    <2> QED BY <2>2 DEF Completed
  <1>6. Harvested(batch', slots', ddr', bd', dmasr')
    <2>1. CASE batch' = <<>>
      BY <2>1 DEF Harvested
    <2>2. CASE batch' = HarvestedItems(k)
      BY <1>1, <1>2, <1>3, <1>4, <1>5, <2>2 DEF Harvested
    <2> QED BY <2>1, <2>2
  <1>7. \A i \in 1 .. Len(items') : Carried(items'[i], captured', ddr', bd', dmasr')
    BY <1>1, <1>2, DataTypes DEF DataInv, Carried
  <1>8. \A it \in active' : Carried(it, captured', ddr', bd', dmasr')
    BY <1>1, <1>2, DataTypes DEF DataInv, Carried
  <1>9. OnMedium(media', captured')
    BY DEF DataInv
  <1> QED BY <1>1, <1>2, <1>3, <1>6, <1>7, <1>8, <1>9 DEF DataInv

\* What is queued stays queued at its LBA.
Extends(file, new) ==
    Len(file) <= Len(new) /\ \A l \in 1 .. Len(file) : new[l] = file[l]

\* A hand-over: what it queues is in DDR, at the LBAs that follow.
LEMMA HandOverData ==
  ASSUME TypeOK, DataInv, NEW breaks \in BOOLEAN, NEW q \in QueuedOf(Processed(breaks)),
         NEW released, NEW failed, hand_over(PendingOf(q), released, failed),
         captured' = IF HandOverPushes(PendingOf(q), released, failed)
                     THEN captured \o FramesOf(PendingOf(q)) ELSE captured,
         batch' = <<>>, UNCHANGED <<bd, ddr, dmasr, active, media>>
  PROVE  DataInv'
  <1> DEFINE pending == PendingOf(q)
             pushes == HandOverPushes(pending, released, failed)
  <1>1. /\ pending \in Seq(Item) /\ Len(pending) \in Nat /\ DOMAIN pending = 1 .. Len(pending)
        /\ \A n \in 1 .. Len(pending) : /\ q[n] \in 1 .. Len(batch)
                                        /\ pending[n].slot = batch[q[n]].slot
                                        /\ pending[n].frame = batch[q[n]].frame
                                        /\ pending[n].lba = Len(captured) + n
    <2>1. pending \in Seq(Item)
      BY PendingFacts
    <2>2. Len(pending) \in Nat /\ DOMAIN pending = 1 .. Len(pending)
      BY <2>1
    <2> QED BY <2>1, <2>2, PendingFacts
  <1>2. \/ ~pushes /\ items' = items
        \/ /\ pushes /\ items' = items \o pending
           /\ \A i \in 1 .. Len(pending) : slots[pending[i].slot] = "DMA_WRITABLE"
    BY <1>1, HandOverEffect DEF TypeOK
  <1> DEFINE G == FramesOf(pending)
  <1>3. /\ G = [n \in 1 .. Len(pending) |-> pending[n].frame]
        /\ G \in Seq(1 .. MaxFrames) /\ Len(G) = Len(pending)
        /\ \A n \in 1 .. Len(pending) : G[n] = pending[n].frame
    <2>1. G = [n \in 1 .. Len(pending) |-> pending[n].frame]
      BY <1>1 DEF FramesOf
    <2>2. \A n \in 1 .. Len(pending) : pending[n].frame \in 1 .. MaxFrames
      <3>1. \A n \in 1 .. Len(pending) : pending[n] \in Item
        BY <1>1
      <3> QED BY <3>1 DEF Item
    <2> HIDE DEF pending, G
    <2> QED BY <1>1, <2>1, <2>2
  <1> HIDE DEF pending, pushes, G
  <1>4. captured \in Seq(1 .. MaxFrames) /\ Len(captured) \in Nat
    BY DataTypes
  <1>5. captured' = IF pushes THEN captured \o G ELSE captured
    BY DEF pushes, G, pending
  <1>6. Extends(captured, captured')
    BY <1>3, <1>4, <1>5 DEF Extends
  <1>7. \A it : it.lba \in Nat \ {0} /\ Carried(it, captured, ddr, bd, dmasr) => Carried(it, captured', ddr', bd', dmasr')
    <2> SUFFICES ASSUME NEW it, it.lba \in Nat \ {0}, Carried(it, captured, ddr, bd, dmasr)
                 PROVE  Carried(it, captured', ddr', bd', dmasr')
      OBVIOUS
    <2>1. it.lba \in 1 .. Len(captured) /\ Len(captured') \in Nat
      BY <1>3, <1>4, <1>5 DEF Carried
    <2>2. it.lba <= Len(captured') /\ captured'[it.lba] = it.frame
      BY <1>4, <1>6, <2>1 DEF Carried, Extends
    <2> QED BY <2>2 DEF Carried
  <1>8. pushes => \A n \in 1 .. Len(pending) : Carried(pending[n], captured', ddr', bd', dmasr')
    <2> SUFFICES ASSUME pushes, NEW n \in 1 .. Len(pending)
                 PROVE  Carried(pending[n], captured', ddr', bd', dmasr')
      OBVIOUS
    <2>1. slots[batch[q[n]].slot] = "DMA_WRITABLE" /\ q[n] \in 1 .. Len(batch)
      BY <1>1, <1>2
    <2>2. ddr[pending[n].slot] = pending[n].frame /\ (bd[pending[n].slot] # 0 \/ Dead(dmasr))
      BY <1>1, <2>1 DEF DataInv, Harvested
    <2>3. Len(captured) + n <= Len(captured') /\ captured'[Len(captured) + n] = G[n]
      <3>1. captured' = captured \o G /\ n \in 1 .. Len(G) /\ Len(G) \in Nat
        BY <1>1, <1>3, <1>5
      <3>2. /\ Len(captured \o G) = Len(captured) + Len(G)
            /\ Len(captured) + n \in 1 .. Len(captured) + Len(G)
            /\ ~(Len(captured) + n <= Len(captured)) /\ (Len(captured) + n) - Len(captured) = n
        BY <1>3, <1>4, <3>1
      <3>3. (captured \o G)[Len(captured) + n] = G[(Len(captured) + n) - Len(captured)]
        BY <1>3, <1>4, <3>2
      <3> QED BY <1>4, <3>1, <3>2, <3>3
    <2> QED BY <1>1, <1>3, <2>2, <2>3 DEF Carried
  <1>9. \A i \in 1 .. Len(items') : Carried(items'[i], captured', ddr', bd', dmasr')
    <2>1. \A i \in 1 .. Len(items) : Carried(items[i], captured', ddr', bd', dmasr')
      BY <1>7, DataTypes DEF DataInv
    <2>2. CASE pushes
      <3> SUFFICES ASSUME NEW i \in 1 .. Len(items \o pending)
                   PROVE  Carried((items \o pending)[i], captured', ddr', bd', dmasr')
        BY <1>2, <2>2
      <3>1. \/ i \in 1 .. Len(items) /\ (items \o pending)[i] = items[i]
            \/ i - Len(items) \in 1 .. Len(pending) /\ (items \o pending)[i] = pending[i - Len(items)]
        BY <1>1, DataTypes
      <3> QED BY <1>8, <2>1, <2>2, <3>1
    <2> QED BY <1>2, <2>1, <2>2
  <1>10. \A it \in active' : Carried(it, captured', ddr', bd', dmasr')
    BY <1>7, DataTypes DEF DataInv
  <1>11. OnMedium(media', captured')
    <2> SUFFICES ASSUME NEW l \in Lbas, media[l] # 0
                 PROVE  l <= Len(captured') /\ captured'[l] = media[l]
      BY DEF OnMedium
    <2>1. l <= Len(captured) /\ media[l] = captured[l] /\ l \in Nat \ {0}
      BY DmaRingAssumption DEF DataInv, OnMedium, Lbas
    <2>2. l \in 1 .. Len(captured) /\ Len(captured') \in Nat
      BY <1>3, <1>4, <1>5, <2>1
    <2> QED BY <1>4, <1>6, <2>1, <2>2 DEF Extends
  <1>12. Harvested(batch', slots', ddr', bd', dmasr')
    BY DEF Harvested
  <1>13. \A s \in Slots : bd'[s] # 0 => ddr'[s] = bd'[s]
    BY DEF DataInv
  <1> QED BY <1>9, <1>10, <1>11, <1>12, <1>13 DEF DataInv


LEMMA ProducerData ==
  ASSUME TypeOK, SafeInv, LeaveInv, ControlInv, DataInv, Producer
  PROVE  DataInv'
  <1>1. Quiet \/ Busy
    BY ProducerControl
  <1>2. CASE Quiet
    <2>1. /\ UNCHANGED <<bd, ddr, batch, captured, slots, items, active, media>>
          /\ Dead(dmasr) => Dead(dmasr')
      BY <1>2 DEF Quiet
    <2>2. \A i \in 1 .. Len(items') : Carried(items'[i], captured', ddr', bd', dmasr')
      BY <2>1 DEF DataInv, Carried
    <2>3. \A it \in active' : Carried(it, captured', ddr', bd', dmasr')
      BY <2>1 DEF DataInv, Carried
    <2>4. Harvested(batch', slots', ddr', bd', dmasr')
      BY <2>1 DEF DataInv, Harvested
    <2> QED BY <2>1, <2>2, <2>3, <2>4 DEF DataInv
  <1>3. CASE P_Gate \/ P_GateFail
    <2>1. items = <<>> /\ batch = <<>> /\ active = {}
      BY <1>3 DEF P_Gate, P_GateFail, ControlInv, SafeInv, LeaveInv
    <2>2. UNCHANGED <<bd, ddr, batch, captured, items, active, media>>
      BY <1>3 DEF P_Gate, P_GateFail, dma_start_s2mm_ring, dmaVars, queueVars, batchVars, countVars,
                  writerVars
    <2> QED BY <2>1, <2>2 DEF DataInv, Harvested
  <1>4. CASE P_Harvest
    <2>1. PICK k \in HarvestCounts(Harvesting) : /\ dma_harvest(HarvestedItems(k), Harvesting)
                                                 /\ batch' = HarvestedItems(k)
      BY <1>4 DEF P_Harvest
    <2>2. UNCHANGED <<captured, slots, items, active, media>>
      BY <1>4 DEF P_Harvest, queueVars, countVars, writerVars
    <2>3. Harvesting => Dead(dmasr)
      BY DEF Harvesting, ControlInv, SafeInv, Dead
    <2>4. Harvesting \in BOOLEAN
      BY DEF Harvesting
    <2> QED BY <2>1, <2>2, <2>3, <2>4, HarvestData
  <1>5. CASE P_OutHarvest
    <2>1. batch = <<>> /\ Dead(dmasr)
      BY <1>5 DEF P_OutHarvest, ControlInv, SafeInv, Dead
    <2>2. PICK k \in HarvestCounts(TRUE) : /\ dma_harvest(HarvestedItems(k), TRUE)
                                           /\ batch' = batch \/ batch' = HarvestedItems(k)
      BY <1>5 DEF P_OutHarvest
    <2>3. UNCHANGED <<captured, slots, items, active, media>>
      BY <1>5 DEF P_OutHarvest, queueVars, countVars, writerVars
    <2> QED BY <2>1, <2>2, <2>3, HarvestData
  <1>6. CASE P_Enqueue
    <2> DEFINE done == Processed(TRUE)
    <2>1. PICK q \in QueuedOf(done) :
             /\ hand_over(PendingOf(q), ReleasedOf(done), FailedOf(done))
             /\ captured' = IF /\ ~(\E i \in done : EndsBatch(i)) /\ PendingOf(q) # <<>>
                               /\ ~PushRejected(PendingOf(q))
                            THEN captured \o FramesOf(PendingOf(q)) ELSE captured
      BY <1>6 DEF P_Enqueue, CountBatch
    <2>2. batch' = <<>> /\ UNCHANGED <<bd, ddr, dmasr, active, media>>
      BY <1>6 DEF P_Enqueue, dmaVars, writerVars
    <2>3. (~(\E i \in done : EndsBatch(i)) /\ PendingOf(q) # <<>> /\ ~PushRejected(PendingOf(q)))
              <=> HandOverPushes(PendingOf(q), ReleasedOf(done), FailedOf(done))
      BY PushedAlike
    <2> QED BY <2>1, <2>2, <2>3, HandOverData
  <1>7. CASE P_OutEnqueue
    <2> DEFINE done == Processed(FALSE)
    <2>1. PICK q \in QueuedOf(done) :
             /\ hand_over(PendingOf(q), ReleasedOf(done), FailedOf(done))
             /\ captured' = IF HandOverPushes(PendingOf(q), ReleasedOf(done), FailedOf(done))
                            THEN captured \o FramesOf(PendingOf(q)) ELSE captured
      BY <1>7 DEF P_OutEnqueue, CountBatch
    <2>2. batch' = <<>> /\ UNCHANGED <<bd, ddr, dmasr, active, media>>
      BY <1>7 DEF P_OutEnqueue, dmaVars, writerVars
    <2> QED BY <2>1, <2>2, HandOverData
  <1> QED BY <1>1, <1>2, <1>3, <1>4, <1>5, <1>6, <1>7 DEF Busy

\* A retired slot is cleared and given back: no queued slot and no harvested one that
\* may still be queued is this one.
LEMMA RetireData ==
  ASSUME TypeOK, OwnInv, ControlInv, RingInv, DataInv, NEW it \in active, active = {it},
         complete_slot(it.slot), active' = {}, UNCHANGED <<batch, captured, media>>
  PROVE  DataInv'
  <1>1. /\ slots[it.slot] = "NVME_BUSY" /\ \A i \in 1 .. Len(items) : items[i].slot # it.slot
        /\ it.slot \in Slots
    BY DataTypes DEF OwnInv, QueueOwns, WriterOwns
  <1>2. /\ UNCHANGED <<ddr, dmasr, items>>
        /\ \A s \in Slots : s # it.slot => bd'[s] = bd[s] /\ slots'[s] = slots[s]
        /\ bd'[it.slot] \in {bd[it.slot], 0}
        /\ slots'[it.slot] = "DMA_WRITABLE" => worker_state = "RUNNING"
    BY <1>1, DataTypes DEF complete_slot, dma_requeue_one, clear_completed, dmaVars, engineVars,
                           should_requeue, can_requeue
  <1>3. slots'[it.slot] = "DMA_WRITABLE" => \A i \in 1 .. Len(batch) : batch[i].slot # it.slot
    <2> SUFFICES ASSUME worker_state = "RUNNING", NEW i \in 1 .. Len(batch), batch[i].slot = it.slot
                 PROVE  FALSE
      BY <1>2
    <2>1. batch # <<>> /\ DOMAIN batch = 1 .. Len(batch)
      BY DEF TypeOK
    <2>2. Live
      BY <2>1 DEF ControlInv, stop_latched, Live
    <2>3. it.slot \in SlotsOf(batch) /\ it.slot \in PoppedSlots(active)
      BY <2>1 DEF SlotsOf, PoppedSlots
    <2>4. Dist(it.slot, next_harvest_bd) < Dist(it.slot, next_harvest_bd)
      BY <2>2, <2>3 DEF RingInv, RingOrder, Before
    <2>5. Dist(it.slot, next_harvest_bd) \in Int
      <3>1. it.slot \in Slots /\ next_harvest_bd \in Slots
        BY <1>1, TypesOfSlots
      <3> QED BY <3>1, DistValue
    <2> QED BY <2>4, <2>5
  <1>4. \A i \in 1 .. Len(items') : Carried(items'[i], captured', ddr', bd', dmasr')
    BY <1>1, <1>2, DataTypes DEF DataInv, Carried
  <1>5. Harvested(batch', slots', ddr', bd', dmasr')
    <2> SUFFICES ASSUME NEW i \in 1 .. Len(batch), slots'[batch[i].slot] = "DMA_WRITABLE"
                 PROVE  /\ ddr[batch[i].slot] = batch[i].frame
                        /\ bd'[batch[i].slot] # 0 \/ Dead(dmasr)
      BY <1>2 DEF Harvested
    <2>1. batch[i].slot # it.slot /\ batch[i].slot \in Slots
      BY <1>3, DataTypes
    <2> QED BY <1>2, <2>1 DEF DataInv, Harvested
  <1>6. \A s \in Slots : bd'[s] # 0 => ddr'[s] = bd'[s]
    BY <1>1, <1>2 DEF DataInv
  <1> QED BY <1>4, <1>5, <1>6 DEF DataInv

LEMMA OthersData ==
  ASSUME ~CrossSlot, TypeOK, SafeInv, LeaveInv, OwnInv, ControlInv, RingInv, DataInv,
         Writer \/ RequestStop \/ Nvme \/ DmaEngine \/ UNCHANGED vars
  PROVE  DataInv'
  <1>1. UNCHANGED <<batch, captured>>
    BY OthersControl
  <1>2. CASE W_PopItem
    <2>1. items # <<>> /\ UNCHANGED <<bd, ddr, dmasr, media>> /\ active' = active \cup {Head(items)}
          /\ queue_pop_item
      BY <1>2, PopItemNonempty DEF W_PopItem, dmaVars
    <2>2. /\ Len(items) \in Nat \ {0} /\ Head(items) = items[1] /\ Len(items') = Len(items) - 1
          /\ \A i \in 1 .. Len(items') : items'[i] = items[i + 1] /\ i + 1 \in 1 .. Len(items)
      BY <2>1, DataTypes DEF queue_pop_item
    <2>3. \A s \in Slots : slots'[s] = "DMA_WRITABLE" => slots[s] = "DMA_WRITABLE"
      BY <2>1, DataTypes DEF queue_pop_item
    <2>4. \A i \in 1 .. Len(items) : Carried(items[i], captured', ddr', bd', dmasr')
      BY <1>1, <2>1 DEF DataInv
    <2>5. \A i \in 1 .. Len(items') : Carried(items'[i], captured', ddr', bd', dmasr')
      BY <2>2, <2>4
    <2>6. \A it \in active' : Carried(it, captured', ddr', bd', dmasr')
      <3>1. 1 \in 1 .. Len(items)
        BY <2>2
      <3>2. \A it \in active : Carried(it, captured', ddr', bd', dmasr')
        BY <1>1, <2>1 DEF DataInv
      <3> QED BY <2>1, <2>2, <2>4, <3>1, <3>2
    <2>7. Harvested(batch', slots', ddr', bd', dmasr')
      BY <1>1, <2>1, <2>3, DataTypes DEF DataInv, Harvested
    <2> QED BY <1>1, <2>1, <2>5, <2>6, <2>7 DEF DataInv
  <1>3. ASSUME NEW it \in active, W_Retire(it) PROVE DataInv'
    <2>1. active = {it}
      BY DEF LeaveInv
    <2> QED BY <1>1, <1>3, <2>1, RetireData DEF W_Retire
  <1>4. ASSUME NEW it \in inflight, NvmeComplete(it) PROVE DataInv'
    <2>1. it \in active /\ it.lba \in Nat \ {0}
      BY DataTypes DEF TypeOK
    <2>2. /\ UNCHANGED <<bd, ddr, dmasr, items, active, slots>>
          /\ media' = [media EXCEPT ![it.lba] = ddr[it.slot]]
      BY <1>4 DEF NvmeComplete, dmaVars, queueVars
    <2>3. it.lba <= Len(captured) /\ captured[it.lba] = ddr[it.slot]
      BY <2>1 DEF DataInv, Carried
    <2>4. OnMedium(media', captured')
      <3> SUFFICES ASSUME NEW l \in Lbas, media'[l] # 0
                   PROVE  l <= Len(captured) /\ media'[l] = captured[l]
        BY <1>1 DEF OnMedium
      <3>1. media'[l] = IF l = it.lba THEN ddr[it.slot] ELSE media[l]
        BY <2>2, DataTypes
      <3> QED BY <2>3, <3>1 DEF DataInv, OnMedium
    <2> QED BY <1>1, <2>2, <2>4 DEF DataInv
  <1>5. ASSUME NEW kind \in Kinds, HwReceive(kind),
               UNCHANGED <<slots, items, active, media>> PROVE DataInv'
    <2>1. curdesc \in Slots /\ bd[curdesc] = 0 /\ ~Dead(dmasr) /\ UNCHANGED dmasr
      BY <1>5 DEF HwReceive, HwWindow, Dead, TypeOK, DmaTypeOK
    <2>2. \A s \in Slots : /\ s # curdesc => bd'[s] = bd[s] /\ ddr'[s] = ddr[s]
                           /\ s = curdesc => bd'[s] = ddr'[s]
      BY <1>5, <2>1, DataTypes DEF HwReceive
    <2>3. \A i \in 1 .. Len(items') : Carried(items'[i], captured', ddr', bd', dmasr')
      BY <1>1, <1>5, <2>1, <2>2, DataTypes DEF DataInv, Carried
    <2>4. \A it \in active' : Carried(it, captured', ddr', bd', dmasr')
      BY <1>1, <1>5, <2>1, <2>2, DataTypes DEF DataInv, Carried
    <2>5. Harvested(batch', slots', ddr', bd', dmasr')
      BY <1>1, <1>5, <2>1, <2>2, DataTypes DEF DataInv, Harvested
    <2>6. \A s \in Slots : bd'[s] # 0 => ddr'[s] = bd'[s]
      BY <2>2 DEF DataInv
    <2> QED BY <1>1, <1>5, <2>3, <2>4, <2>5, <2>6 DEF DataInv
  <1>6. CASE /\ UNCHANGED <<bd, ddr, slots, items, media>> /\ active' \subseteq active
             /\ Dead(dmasr) => Dead(dmasr')
    <2>1. \A i \in 1 .. Len(items') : Carried(items'[i], captured', ddr', bd', dmasr')
      BY <1>1, <1>6 DEF DataInv, Carried
    <2>2. \A it \in active' : Carried(it, captured', ddr', bd', dmasr')
      BY <1>1, <1>6 DEF DataInv, Carried
    <2>3. Harvested(batch', slots', ddr', bd', dmasr')
      BY <1>1, <1>6 DEF DataInv, Harvested
    <2> QED BY <1>1, <1>6, <2>1, <2>2, <2>3 DEF DataInv
  <1>7. \/ /\ UNCHANGED <<bd, ddr, slots, items, media>> /\ active' \subseteq active
           /\ Dead(dmasr) => Dead(dmasr')
        \/ W_PopItem \/ (\E it \in active : W_Retire(it)) \/ (\E it \in inflight : NvmeComplete(it))
        \/ (\E kind \in Kinds : HwReceive(kind)) /\ UNCHANGED <<slots, items, active, media>>
    <2>1. CASE Writer
      <3>1. CASE W_DrainAbort
        BY <3>1 DEF W_DrainAbort, WriterFails, fail_and_wake, dmaVars
      <3>2. CASE W_PopItem \/ \E it \in active : W_Retire(it)
        BY <3>2
      <3>3. CASE \/ W_WaitRun \/ (\E b \in BOOLEAN : W_Ready(b)) \/ W_Top \/ W_PopSleep
                 \/ W_AddFail \/ W_PopOther \/ W_Decide \/ W_StepFail \/ W_FlushFail
        BY <3>3 DEF W_WaitRun, W_Ready, queue_set_writer_ready, W_Top, W_PopSleep,
                  W_AddFail, W_PopOther, WriterFails, fail_and_wake,
                  W_Decide, W_StepFail, W_FlushFail, dmaVars, queueVars, writerVars
      <3> QED BY <2>1, <3>1, <3>2, <3>3 DEF Writer
    <2>2. CASE RequestStop \/ Nvme \/ UNCHANGED vars
      BY <2>2 DEF RequestStop, Nvme, vars, dmaVars, queueVars, writerVars
    <2>3. CASE DmaEngine
      BY <2>3 DEF DmaEngine, HwFetchStale, HwHalt, HwFault, Dead, queueVars, writerVars
    <2> QED BY <2>1, <2>2, <2>3
  <1> QED BY <1>2, <1>3, <1>4, <1>5, <1>6, <1>7

------------------------------------------------------------------------------
(* The theorem.                                                            *)

LEMMA InitMedium == Init => ControlInv /\ RingInv /\ DataInv
  <1> SUFFICES ASSUME Init PROVE ControlInv /\ RingInv /\ DataInv
    OBVIOUS
  <1>1. /\ items = <<>> /\ batch = <<>> /\ active = {} /\ dma_hw_desc_count = 0
        /\ slots = [s \in Slots |-> "DMA_WRITABLE"] /\ bd = [s \in Slots |-> 0]
        /\ media = [l \in Lbas |-> 0] /\ stop_phase = "NONE" /\ ppc = "gate"
    BY DEF Init, DmaInit, QueueInit
  <1>2. ControlInv
    BY <1>1 DEF ControlInv
  <1>3. DataInv
    BY <1>1 DEF DataInv, Harvested, OnMedium
  <1>4. RingInv
    <2>1. PoppedSlots({}) = {} /\ SlotsOf(<<>>) = {}
      BY DEF PoppedSlots, SlotsOf
    <2>2. 0 <= Cardinality(Offered(slots, <<>>))
      BY OfferedFinite
    <2> QED BY <1>1, <2>1, <2>2 DEF RingInv, RingOrder, Before, Ascending
  <1> QED BY <1>2, <1>3, <1>4

LEMMA NextMedium ==
  ASSUME ~CrossSlot, TypeOK, SafeInv, LeaveInv, OwnInv, ControlInv, RingInv, DataInv, [Next]_vars
  PROVE  ControlInv' /\ RingInv' /\ DataInv'
  <1>1. CASE Producer
    BY <1>1, ProducerControl, ProducerRing, ProducerData
  <1>2. CASE Writer \/ RequestStop \/ Nvme \/ DmaEngine \/ UNCHANGED vars
    BY <1>2, OthersControl, OthersRing, OthersData
  <1> QED BY <1>1, <1>2 DEF Next, Ended

LEMMA MediumInvariant ==
  ASSUME ~CrossSlot
  PROVE  Spec => [](/\ TypeOK /\ SafeInv /\ LeaveInv /\ OwnInv
                    /\ ControlInv /\ RingInv /\ DataInv)
  <1>1. TypeOK /\ SafeInv /\ LeaveInv /\ OwnInv /\ ControlInv /\ RingInv /\ DataInv /\ [Next]_vars
            => ControlInv' /\ RingInv' /\ DataInv'
    BY NextMedium
  <1> QED BY <1>1, InitMedium, OwnInvariant, PTL DEF Spec

\* With the writer that flushes one slot at a time, whatever fails or is asked to
\* stop: the medium never holds anything but the frame queued for its LBA, so no DDR
\* buffer is overwritten between dma_harvest_batch and the completion of its command.
THEOREM MediumAlwaysRight ==
  ASSUME ~CrossSlot PROVE Spec => []MediumHoldsQueuedFrames
  <1>1. DataInv => MediumHoldsQueuedFrames
    BY DEF DataInv, OnMedium, MediumHoldsQueuedFrames
  <1> QED BY <1>1, MediumInvariant, PTL

-----------------------------------------------------------------------------
(***************************************************************************)
(* A capture that is reported good is whole, and its engine never fetched  *)
(* a stale descriptor: for the writer that flushes one slot at a time and  *)
(* every ring size, fault set and kind of frame.                           *)
(*                                                                         *)
(* While the capture is good the ring is known exactly.  Seen from         *)
(* next_harvest_bd there are first the completed slots that wait for the   *)
(* harvest, in the order of arrival, then the cleared ones the engine may  *)
(* still fetch, dma_hw_desc_count together.  As long as slots go back, all *)
(* the others are popped, queued or in the batch, so the slot given back   *)
(* is the one after TAILDESC.  A stop harvest may run into a slot that was *)
(* harvested before; such a batch is refused as a whole, because that slot *)
(* is not writable.                                                        *)
(***************************************************************************)

\* Frames taken from the ring, and frames that wait in it.
Taken == Len(captured) + Len(batch)
Waiting == Len(frames) - Taken

D(s) == Dist(s, next_harvest_bd)

\* Every slot of the batch is still the engine's in the slot table.
BatchWritable == \A j \in 1 .. Len(batch) : slots[batch[j].slot] = "DMA_WRITABLE"

\* The frames were taken in the order of their arrival, none missing ...
InOrder == /\ \A l \in 1 .. Len(captured) : captured[l] = l
           /\ \A j \in 1 .. Len(batch) : batch[j].frame = Len(captured) + j

\* ... those that wait come next, and behind them all is cleared ...
Arrived == /\ Waiting \in 0 .. NSlots
           /\ \A s \in Slots : D(s) < Waiting => /\ bd[s] = Taken + D(s) + 1
                                                 /\ s \in Offered(slots, batch)
           /\ \A s \in Offered(slots, batch) : D(s) >= Waiting => bd[s] = 0

\* ... up to where the engine may go.
Given == /\ \A s \in Slots : D(s) < dma_hw_desc_count => s \in Offered(slots, batch)
         /\ \A s \in HwWindow : Waiting <= D(s) /\ D(s) < dma_hw_desc_count
         /\ Dead(dmasr) \/ curdesc = NthBd(Waiting)

\* While slots go back none is lost.
Tight == /\ \A s \in Offered(slots, batch) : D(s) < dma_hw_desc_count
         /\ Waiting <= dma_hw_desc_count
         /\ \A s \in Slots : \/ slots[s] \in {"DMA_WRITABLE", "READY_FOR_NVME"}
                             \/ slots[s] = "NVME_BUSY" /\ s \in PoppedSlots(active)

ExactRing ==
    /\ BatchWritable => InOrder /\ Arrived /\ Given
    /\ BatchWritable \/ (dma_quiesced /\ stop_latched)
    /\ Live /\ ppc # "gate" => Tight

SeqInv == integrity => ExactRing

\* The cleanup path, where the capture is lost.
Lost == {"out", "out_quiesce", "out_quiesce_wait", "out_harvest", "out_enqueue", "out_finish",
         "out_join", "out_join_abort", "join_abort"}

PathInv ==
    /\ ppc = "gate" => /\ frames = <<>> /\ captured = <<>> /\ dmasr = "halted"
                       /\ \A s \in Slots : bd[s] = 0
    /\ ppc \in Lost => ~integrity
    /\ dmasr = "stopping" => stop_latched
    /\ requeue_enabled \/ stop_latched
    /\ ppc \in {"loop", "enqueue"} => worker_state \notin {"READY", "ARMED"}
    /\ worker_state \in {"READY", "ARMED"} => items = <<>> /\ active = {}
    /\ worker_state = "RUNNING" /\ integrity => ppc \in {"loop", "enqueue"}
    /\ result = "ok" => /\ integrity /\ ppc = "done" /\ wpc = "exit"
                        /\ items = <<>> /\ inflight = {}

\* Where the producer is once the stopped ring was found empty.
Ending == {"finish", "join", "finalize", "complete", "done", "out_final"}

\* Then everything the engine completed has been queued.
EndInv == integrity /\ ppc \in Ending =>
              dma_quiesced /\ stop_phase # "NONE" /\ Len(captured) = Len(frames)

\* No LBA of the file is forgotten: its frame is queued, being written or on the medium.
Cover == \A l \in Lbas : l <= Len(captured) =>
             \/ media[l] # 0
             \/ \E i \in 1 .. Len(items) : items[i].lba = l
             \/ \E it \in inflight : it.lba = l

------------------------------------------------------------------------------
(* Control.                                                                *)

\* A step that leaves the ring alone, does not feed the engine and does not end the
\* harvest of the stopped ring (P_Scan is the one that may).
Calm ==
    /\ ppc \notin {"gate", "enqueue", "out_enqueue"}
    /\ UNCHANGED <<bd, batch, captured, slots, items, active, next_harvest_bd, frames>>
    /\ EngineNotFed
    /\ integrity' => integrity
    /\ \/ dma_hw_desc_count' = dma_hw_desc_count
       \/ integrity' => dma_hw_desc_count' = 0 /\ Dead(dmasr') /\ ~Live'
    /\ Live' => Live
    /\ integrity' /\ ppc' \in Ending =>
           \/ ppc \in Ending /\ stop_phase' = stop_phase /\ quiesce_result' = quiesce_result
           \/ P_Scan

LEMMA ProducerPath ==
  ASSUME TypeOK, SafeInv, LeaveInv, ControlInv, PathInv, EndInv, Producer
  PROVE  PathInv' /\ (Calm \/ Busy)
  <1> USE DEF PathInv, Calm, Busy, Dead, Live, Lost, Ending, EngineNotFed, GoTo, GoOut, dmaVars, queueVars,
              ringVars, engineVars, prodVars, writerVars, stopVars, batchVars, countVars, endVars,
              broadcast, fail_locked, stop_latched
  <1>1. CASE P_Gate
    BY <1>1 DEF P_Gate, dma_start_s2mm_ring, SafeInv
  <1>2. CASE P_GateFail
    BY <1>2 DEF P_GateFail, dma_start_s2mm_ring, SafeInv
  <1>3. CASE P_EnableRun
    BY <1>3 DEF P_EnableRun, queue_enable_run, transition_locked, TransitionOK, transition_allowed
  <1>4. CASE P_WaitWriterReady
    BY <1>4 DEF P_WaitWriterReady
  <1>5. ASSUME NEW b \in BOOLEAN, P_ProducerReady(b) PROVE PathInv' /\ (Calm \/ Busy)
    BY <1>5 DEF P_ProducerReady, queue_set_producer_ready
  <1>6. CASE P_MarkRunning
    BY <1>6 DEF P_MarkRunning, queue_mark_running, MarkRunningOK, transition_locked, TransitionOK,
                transition_allowed
  <1>7. CASE P_MarkRunningFail
    BY <1>7 DEF P_MarkRunningFail, fail_and_wake
  <1>8. CASE P_SeeError
    BY <1>8 DEF P_SeeError
  <1>9. CASE P_SeeStop
    BY <1>9 DEF P_SeeStop, queue_request_stop_state, transition_locked, TransitionOK, transition_allowed
  <1>10. CASE P_Boundary
    BY <1>10 DEF P_Boundary, queue_latch_stop, LatchedState, dma_latch_stop, ControlInv
  <1>11. CASE P_BoundaryEventFail
    BY <1>11 DEF P_BoundaryEventFail
  <1>12. CASE P_ClearRunStop
    BY <1>12 DEF P_ClearRunStop, clear_run_stop, ControlInv
  <1>13. ASSUME NEW r \in {"OK", "FAILED", "RESET_RECOVERED"}, P_Quiesced(r)
         PROVE  PathInv' /\ (Calm \/ Busy)
    BY <1>13 DEF P_Quiesced, dma_quiesce, queue_mark_harvesting, transition_locked, TransitionOK,
                 transition_allowed, ControlInv
  <1>14. CASE P_Harvest
    BY <1>14 DEF P_Harvest, MayHarvest, Harvesting, dma_harvest
  <1>15. CASE P_ReceiveFail
    BY <1>15 DEF P_ReceiveFail, MayHarvest, Harvesting
  <1>16. CASE P_Scan
    BY <1>16 DEF P_Scan, ScanEmpty, MayHarvest, Harvesting, ControlInv
  <1>17. CASE P_ScanFail
    BY <1>17 DEF P_ScanFail, ScanEmpty, MayHarvest, Harvesting
  <1>18. CASE P_Enqueue
    <2>1. worker_state' = worker_state /\ requeue_enabled' = requeue_enabled
      BY <1>18, HandOverKeeps DEF P_Enqueue
    <2>2. UNCHANGED <<dmasr, active, result>> /\ ppc = "enqueue" /\ ppc' \in {"out", "loop"}
          /\ (ppc' = "out" => ~integrity')
      BY <1>18 DEF P_Enqueue
    <2> QED BY <1>18, <2>1, <2>2
  <1>19. CASE P_Finish
    BY <1>19 DEF P_Finish, queue_finish, FinishFails, EndInv, ControlInv
  <1>20. CASE P_Join
    BY <1>20 DEF P_Join
  <1>21. CASE P_JoinTimeout
    BY <1>21 DEF P_JoinTimeout, fail_and_wake
  <1>22. CASE P_JoinAbort
    BY <1>22 DEF P_JoinAbort
  <1>23. CASE P_Finalize
    BY <1>23 DEF P_Finalize, dma_finalize, queue_mark_finalizing, EndInv, SafeInv
  <1>24. CASE P_Complete
    BY <1>24 DEF P_Complete, queue_mark_done, transition_locked, TransitionOK, transition_allowed,
                 ResultOK, DrainInvariant, LeaveInv
  <1>25. CASE P_Out
    BY <1>25 DEF P_Out, LatchedState, dma_latch_stop, RequestStopOK
  <1>26. CASE P_OutQuiesce
    BY <1>26 DEF P_OutQuiesce, clear_run_stop, TypeOK, ControlInv
  <1>27. ASSUME NEW r \in {"OK", "FAILED", "RESET_RECOVERED"}, P_OutQuiesced(r)
         PROVE  PathInv' /\ (Calm \/ Busy)
    BY <1>27 DEF P_OutQuiesced, dma_quiesce, queue_mark_harvesting, transition_locked, TransitionOK,
                 transition_allowed, ControlInv
  <1>28. CASE P_OutHarvest
    <2>1. UNCHANGED <<queueVars, dmasr, active, result, integrity>> /\ ppc = "out_harvest"
          /\ ppc' \in {"out_finish", "out_enqueue"}
      BY <1>28 DEF P_OutHarvest, dma_harvest
    <2> QED BY <1>28, <2>1
  <1>29. CASE P_OutHarvestEnd
    BY <1>29 DEF P_OutHarvestEnd
  <1>30. CASE P_OutEnqueue
    <2>1. worker_state' = worker_state /\ requeue_enabled' = requeue_enabled
      BY <1>30, HandOverKeeps DEF P_OutEnqueue
    <2>2. UNCHANGED <<dmasr, active, result, integrity>> /\ ppc = "out_enqueue"
          /\ ppc' \in {"out_finish", "out_harvest"}
      BY <1>30 DEF P_OutEnqueue
    <2> QED BY <1>30, <2>1, <2>2 DEF ControlInv
  <1>31. CASE P_OutFinish
    BY <1>31 DEF P_OutFinish, queue_finish, FinishFails
  <1>32. CASE P_OutJoin
    BY <1>32 DEF P_OutJoin
  <1>33. CASE P_OutFinal
    BY <1>33 DEF P_OutFinal, dma_finalize, SafeInv
  <1> QED BY <1>1, <1>2, <1>3, <1>4, <1>5, <1>6, <1>7, <1>8, <1>9, <1>10, <1>11, <1>12, <1>13, <1>14,
             <1>15, <1>16, <1>17, <1>18, <1>19, <1>20, <1>21, <1>22, <1>23, <1>24, <1>25, <1>26,
             <1>27, <1>28, <1>29, <1>30, <1>31, <1>32, <1>33 DEF Producer

\* The writer and the devices keep it.
LEMMA OthersPath ==
  ASSUME TypeOK, SafeInv, LeaveInv, ControlInv, PathInv,
         Writer \/ RequestStop \/ Nvme \/ DmaEngine \/ UNCHANGED vars
  PROVE  /\ PathInv' /\ (Live' => Live)
         /\ UNCHANGED <<ppc, batch, captured, integrity, stop_phase, quiesce_result, result>>
         /\ stop_latched => stop_latched'
  <1> USE DEF dmaVars, queueVars, prodVars, writerVars, stop_latched, fail_locked
  <1>1. /\ UNCHANGED <<ppc, batch, captured, integrity, stop_phase, quiesce_result, result,
                       requeue_enabled>>
        /\ worker_state' \in {worker_state, "FAILED"}
    <2>1. CASE Writer
      BY <2>1 DEF Writer, W_WaitRun, W_Ready, queue_set_writer_ready, W_Top, W_PopSleep, W_PopItem,
                  W_AddFail, queue_pop_item, W_PopOther, WriterFails, fail_and_wake, W_Retire,
                  complete_slot, W_Decide, W_StepFail, W_FlushFail, W_DrainAbort
    <2>2. CASE RequestStop \/ Nvme \/ DmaEngine \/ UNCHANGED vars
      BY <2>2 DEF RequestStop, Nvme, NvmeComplete, DmaEngine, vars
    <2> QED BY <2>1, <2>2
  <1>2. Live' => Live
    BY <1>1 DEF Live
  <1>3. ppc = "gate" => /\ frames' = frames /\ bd' = bd /\ dmasr' = dmasr
    <2>1. CASE Writer
      BY <2>1 DEF PathInv, SafeInv, Writer, W_WaitRun, W_Ready, W_Top, W_PopSleep, W_PopItem,
                  W_AddFail, W_PopOther, W_Retire, W_Decide, W_StepFail, W_FlushFail, W_DrainAbort
    <2>2. CASE DmaEngine
      BY <2>2 DEF PathInv, DmaEngine, HwReceive, HwFetchStale, HwHalt, HwFault, HwWindow
    <2>3. CASE RequestStop \/ Nvme \/ UNCHANGED vars
      BY <2>3 DEF RequestStop, Nvme, NvmeComplete, vars
    <2> QED BY <2>1, <2>2, <2>3
  <1>4. dmasr' = "stopping" => dmasr = "stopping"
    <2>1. CASE Writer
      <3>1. dmasr' = dmasr
        BY <2>1 DEF Writer, W_WaitRun, W_Ready, W_Top, W_PopSleep, W_PopItem, W_AddFail, W_PopOther,
                    W_Retire, complete_slot, dma_requeue_one, engineVars, W_Decide, W_StepFail,
                    W_FlushFail, W_DrainAbort
      <3> QED BY <3>1
    <2>2. CASE DmaEngine
      BY <2>2 DEF DmaEngine, HwReceive, HwFetchStale, HwHalt, HwFault
    <2>3. CASE RequestStop \/ Nvme \/ UNCHANGED vars
      BY <2>3 DEF RequestStop, Nvme, NvmeComplete, vars
    <2> QED BY <2>1, <2>2, <2>3
  <1>5. worker_state \in {"READY", "ARMED"} => UNCHANGED <<items, active>>
    <2>1. CASE Writer
      <3>1. CASE W_PopItem \/ W_AddFail
        BY <3>1, PopItemNonempty DEF PathInv, W_PopItem, W_AddFail
      <3>2. CASE \E it \in active : W_Retire(it)
        BY <3>2 DEF PathInv
      <3>3. CASE W_DrainAbort
        BY <3>3 DEF PathInv, W_DrainAbort, WriterFails, fail_and_wake
      <3>4. CASE \/ W_WaitRun \/ (\E b \in BOOLEAN : W_Ready(b)) \/ W_Top \/ W_PopSleep
                 \/ W_PopOther \/ W_Decide \/ W_StepFail \/ W_FlushFail
        BY <3>4 DEF W_WaitRun, W_Ready, queue_set_writer_ready, W_Top, W_PopSleep, W_PopOther,
                    WriterFails, fail_and_wake, W_Decide, W_StepFail, W_FlushFail
      <3> QED BY <2>1, <3>1, <3>2, <3>3, <3>4 DEF Writer
    <2>2. CASE RequestStop \/ Nvme \/ DmaEngine \/ UNCHANGED vars
      BY <2>2 DEF RequestStop, Nvme, NvmeComplete, DmaEngine, vars
    <2> QED BY <2>1, <2>2
  <1>6. wpc = "exit" => UNCHANGED <<wpc, items>> /\ inflight' \subseteq inflight
    <2>1. CASE Writer
      BY <2>1 DEF Writer, W_WaitRun, W_Ready, W_Top, W_PopSleep, W_PopItem, W_AddFail, W_PopOther,
                  W_Retire, W_Decide, W_StepFail, W_FlushFail, W_DrainAbort
    <2>2. CASE RequestStop \/ Nvme \/ DmaEngine \/ UNCHANGED vars
      BY <2>2 DEF RequestStop, Nvme, NvmeComplete, DmaEngine, vars
    <2> QED BY <2>1, <2>2
  <1>7. PathInv'
    BY <1>1, <1>3, <1>4, <1>5, <1>6 DEF PathInv
  <1> QED BY <1>1, <1>2, <1>7

------------------------------------------------------------------------------
(* The exact ring.                                                         *)

LEMMA SeqFacts ==
  ASSUME TypeOK
  PROVE  /\ NSlots \in Nat \ {0} /\ next_harvest_bd \in Slots /\ dma_hw_desc_count \in 0 .. NSlots
         /\ Len(captured) \in Nat /\ Len(batch) \in Nat /\ Len(frames) \in Nat
         /\ Taken \in Nat /\ Waiting \in Int /\ Len(frames) = Taken + Waiting
         /\ \A s \in Slots : D(s) \in 0 .. NSlots - 1
         /\ \A s, t \in Slots : D(s) = D(t) => s = t
  <1>1. /\ NSlots \in Nat \ {0} /\ next_harvest_bd \in Slots /\ dma_hw_desc_count \in 0 .. NSlots
        /\ Len(captured) \in Nat /\ Len(batch) \in Nat /\ Len(frames) \in Nat
    BY DmaRingAssumption DEF TypeOK, DmaTypeOK
  <1>2. Taken \in Nat /\ Waiting \in Int /\ Len(frames) = Taken + Waiting
    BY <1>1 DEF Taken, Waiting
  <1>3. \A s \in Slots : D(s) \in 0 .. NSlots - 1
    BY <1>1, DistValue DEF D
  <1>4. \A s, t \in Slots : D(s) = D(t) => s = t
    BY <1>1, NthDist DEF D
  <1> QED BY <1>1, <1>2, <1>3, <1>4

\* Nothing changes for a ring that is left alone, except that the engine may stop and a
\* reset forgets how much it was given.
LEMMA CalmSeq ==
  ASSUME TypeOK, ControlInv, SeqInv, Calm PROVE SeqInv'
  <1> SUFFICES ASSUME integrity' PROVE ExactRing'
    BY DEF SeqInv
  <1>1. batch = <<>> /\ batch' = <<>> /\ integrity
    BY DEF Calm, ControlInv
  <1>2. BatchWritable /\ BatchWritable'
    BY <1>1 DEF BatchWritable
  <1>3. InOrder /\ Arrived /\ Given
    BY <1>1, <1>2 DEF SeqInv, ExactRing
  <1>4. /\ Taken' = Taken /\ Waiting' = Waiting /\ \A s : D(s)' = D(s) /\ NthBd(s)' = NthBd(s)
        /\ Offered(slots', batch') = Offered(slots, batch)
    BY DEF Calm, Taken, Waiting, D, NthBd
  <1>5. InOrder' /\ Arrived'
    BY <1>3, <1>4 DEF Calm, InOrder, Arrived
  <1>6. HwWindow' \subseteq HwWindow /\ curdesc' = curdesc /\ (Dead(dmasr) => Dead(dmasr'))
    BY NotFedShrinks DEF Calm, EngineNotFed, Dead
  <1>7. Given'
    <2>1. CASE dma_hw_desc_count' = dma_hw_desc_count
      BY <1>3, <1>4, <1>6, <2>1 DEF Given
    <2>2. CASE dma_hw_desc_count' = 0 /\ Dead(dmasr')
      <3>1. HwWindow' = {}
        BY <2>2 DEF HwWindow, Dead
      <3>2. \A s \in Slots : ~(D(s) < 0)
        BY SeqFacts
      <3> QED BY <1>4, <2>2, <3>1, <3>2 DEF Given
    <2> QED BY <2>1, <2>2 DEF Calm
  <1>8. Live' /\ ppc' # "gate" => Tight'
    <2> SUFFICES ASSUME Live' PROVE Tight'
      OBVIOUS
    <2>1. Live /\ ppc # "gate" /\ dma_hw_desc_count' = dma_hw_desc_count
      BY DEF Calm
    <2>2. Tight
      BY <1>1, <2>1 DEF SeqInv, ExactRing
    <2> QED BY <1>4, <2>1, <2>2 DEF Tight, Calm
  <1> QED BY <1>2, <1>5, <1>7, <1>8 DEF ExactRing

\* The slot after a slot.
LEMMA SuccValue ==
  ASSUME NEW s \in Slots
  PROVE  Succ(s) = (IF s + 1 < NSlots THEN s + 1 ELSE 0) /\ Succ(s) \in Slots
  <1>1. NSlots \in Nat \ {0} /\ s \in 0 .. NSlots - 1
    BY DmaRingAssumption DEF Slots
  <1>2. CASE s + 1 < NSlots
    <2>1. s + 1 \in 0 .. NSlots - 1
      BY <1>1, <1>2
    <2> QED BY <1>2, <2>1, RingDifference DEF Succ, Slots
  <1>3. CASE ~(s + 1 < NSlots)
    <2>1. s + 1 = NSlots
      BY <1>1, <1>3
    <2>2. Succ(s) = 0
      BY <2>1, RingDifference DEF Succ
    <2> QED BY <1>1, <1>3, <2>2 DEF Slots
  <1> QED BY <1>2, <1>3

\* A frame goes to the slot behind those that wait.
LEMMA ReceiveSeq ==
  ASSUME TypeOK, SafeInv, SeqInv, NEW kind, HwReceive(kind),
         UNCHANGED <<batch, captured, slots, active, integrity, ppc, quiesce_result, worker_state>>
  PROVE  SeqInv'
  <1> SUFFICES ASSUME integrity PROVE ExactRing'
    BY DEF SeqInv
  <1>1. ExactRing /\ ~Dead(dmasr) /\ UNCHANGED <<dmasr, next_harvest_bd, dma_hw_desc_count>>
    BY DEF SeqInv, HwReceive, HwWindow, Dead, ringVars
  <1>2. BatchWritable /\ BatchWritable'
    BY <1>1 DEF ExactRing, SafeInv, Dead, BatchWritable
  <1>3. InOrder /\ Arrived /\ Given
    BY <1>1, <1>2 DEF ExactRing
  <1> DEFINE u == Waiting
             c == dma_hw_desc_count
  <1>4. /\ curdesc \in Slots /\ u <= D(curdesc) /\ D(curdesc) < c /\ curdesc = NthBd(u)
        /\ u \in 0 .. NSlots /\ bd[curdesc] = 0
    BY <1>1, <1>3 DEF Given, Arrived, HwReceive, TypeOK, DmaTypeOK
  <1>5. /\ NSlots \in Nat \ {0} /\ c \in 0 .. NSlots /\ D(curdesc) \in 0 .. NSlots - 1
        /\ Taken \in Nat /\ Len(frames) = Taken + u /\ next_harvest_bd \in Slots
    BY <1>4, SeqFacts
  <1>6. u \in 0 .. NSlots - 1 /\ u < c /\ D(curdesc) = u
    <2>1. u \in 0 .. NSlots - 1 /\ u < c
      BY <1>4, <1>5
    <2> QED BY <1>4, <1>5, <2>1, NthDist DEF D
  <1>7. /\ Taken' = Taken /\ Waiting' = u + 1 /\ \A s : D(s)' = D(s) /\ NthBd(s)' = NthBd(s)
        /\ Offered(slots', batch') = Offered(slots, batch)
    <2>1. Len(frames') = Len(frames) + 1
      BY DEF HwReceive, TypeOK, DmaTypeOK
    <2>2. Taken' = Taken
      BY DEF Taken
    <2> QED BY <1>1, <1>5, <2>1, <2>2 DEF Waiting, D, NthBd
  <1>8. InOrder'
    BY <1>3 DEF InOrder
  <1>9. /\ \A s \in Slots : s # curdesc => bd'[s] = bd[s]
        /\ bd'[curdesc] = Taken + u + 1
    BY <1>4, <1>5 DEF HwReceive, TypeOK, DmaTypeOK
  <1>10. \A s \in Slots : /\ D(s) \in 0 .. NSlots - 1
                          /\ D(s) = u => s = curdesc
                          /\ s = curdesc => D(s) = u
    BY <1>4, <1>6, SeqFacts
  <1>11. curdesc \in Offered(slots, batch)
    BY <1>3, <1>4 DEF Given
  <1> HIDE DEF u, c
  <1>12. Arrived'
    <2>1. Waiting' \in 0 .. NSlots
      BY <1>5, <1>6, <1>7
    <2>2. ASSUME NEW s \in Slots, D(s) < u + 1
          PROVE  bd'[s] = Taken + D(s) + 1 /\ s \in Offered(slots, batch)
      <3>1. CASE D(s) = u
        BY <1>9, <1>10, <1>11, <3>1
      <3>2. CASE D(s) # u
        <4>1. s # curdesc /\ D(s) < u
          BY <1>5, <1>6, <1>10, <2>2, <3>2
        <4> QED BY <1>3, <1>9, <4>1 DEF Arrived, u
      <3> QED BY <3>1, <3>2
    <2>3. ASSUME NEW s \in Offered(slots, batch), D(s) >= u + 1
          PROVE  bd'[s] = 0
      <3>1. s \in Slots
        BY DEF Offered
      <3>2. s # curdesc /\ D(s) >= u
        BY <1>5, <1>6, <1>10, <2>3, <3>1
      <3> QED BY <1>3, <1>9, <3>1, <3>2 DEF Arrived, u
    <2> QED BY <1>7, <2>1, <2>2, <2>3 DEF Arrived
  <1>13. curdesc' = NthBd(u + 1)
    <2>1. /\ NthBd(u) = IF next_harvest_bd + u < NSlots THEN next_harvest_bd + u
                        ELSE next_harvest_bd + u - NSlots
          /\ NthBd(u + 1) = IF next_harvest_bd + (u + 1) < NSlots THEN next_harvest_bd + (u + 1)
                            ELSE next_harvest_bd + (u + 1) - NSlots
      BY <1>5, <1>6, NthValue
    <2>2. curdesc' = Succ(curdesc) /\ curdesc = NthBd(u) /\ curdesc \in 0 .. NSlots - 1
      BY <1>4 DEF HwReceive, u, Slots
    <2>3. Succ(curdesc) = IF curdesc + 1 < NSlots THEN curdesc + 1 ELSE 0
      BY <1>4, SuccValue
    <2>4. next_harvest_bd \in 0 .. NSlots - 1
      BY <1>5 DEF Slots
    <2> QED BY <1>5, <1>6, <2>1, <2>2, <2>3, <2>4
  <1>14. \A s \in HwWindow' : s \in HwWindow /\ s # curdesc
    <2>1. HwWindow' \subseteq HwWindow
      BY ReceiveShrinks DEF TypeOK
    <2>2. curdesc \notin HwWindow'
      <3> SUFFICES ASSUME curdesc \in HwWindow' PROVE FALSE
        OBVIOUS
      <3>1. curdesc # taildesc /\ Dist(curdesc, curdesc') <= Dist(taildesc, curdesc')
        BY DEF HwReceive, HwWindow, Dist
      <3>2. curdesc' \in Slots /\ taildesc \in Slots /\ NSlots \in Nat
            /\ curdesc' = IF curdesc + 1 < NSlots THEN curdesc + 1 ELSE 0
        BY <1>4, <1>5, SuccValue DEF HwReceive, TypeOK, DmaTypeOK
      <3>3. /\ Dist(curdesc, curdesc') = IF curdesc >= curdesc' THEN curdesc - curdesc'
                                         ELSE curdesc - curdesc' + NSlots
            /\ Dist(taildesc, curdesc') = IF taildesc >= curdesc' THEN taildesc - curdesc'
                                          ELSE taildesc - curdesc' + NSlots
        BY <1>4, <3>2, DistValue
      <3>4. curdesc \in 0 .. NSlots - 1 /\ taildesc \in 0 .. NSlots - 1
        BY <1>4, <3>2 DEF Slots
      <3> QED BY <3>1, <3>2, <3>3, <3>4
    <2> QED BY <2>1, <2>2
  <1>15. Given'
    <2>1. \A s \in HwWindow' : u + 1 <= D(s) /\ D(s) < c
      <3> SUFFICES ASSUME NEW s \in HwWindow' PROVE u + 1 <= D(s) /\ D(s) < c
        OBVIOUS
      <3>1. s \in Slots /\ u <= D(s) /\ D(s) < c
        BY <1>3, <1>14 DEF Given, HwWindow, u, c
      <3>2. D(s) # u
        BY <1>10, <1>14, <3>1
      <3> QED BY <1>6, <1>10, <3>1, <3>2
    <2>2. \A s \in Slots : D(s) < c => s \in Offered(slots, batch)
      BY <1>3 DEF Given, c
    <2> QED BY <1>1, <1>7, <1>13, <2>1, <2>2 DEF Given, c
  <1>16. Live' /\ ppc' # "gate" => Tight'
    <2> SUFFICES ASSUME Live', ppc # "gate" PROVE Tight'
      OBVIOUS
    <2>1. Tight
      BY <1>1 DEF ExactRing, Live
    <2>2. Waiting' <= dma_hw_desc_count
      BY <1>5, <1>6, <1>7 DEF c
    <2> QED BY <1>1, <1>7, <2>1, <2>2 DEF Tight
  <1> QED BY <1>2, <1>8, <1>12, <1>15, <1>16 DEF ExactRing

\* The writer's pop moves a queued slot, none of the engine's.
LEMMA PopSeq ==
  ASSUME TypeOK, OwnInv, SeqInv, items # <<>>, queue_pop_item, active' = active \cup {Head(items)},
         UNCHANGED <<batch, captured, dmaVars, integrity, ppc, quiesce_result>>
  PROVE  SeqInv'
  <1> SUFFICES ASSUME integrity PROVE ExactRing'
    BY DEF SeqInv
  <1>1. ExactRing /\ worker_state' = worker_state
    BY DEF SeqInv, queue_pop_item
  <1>2. /\ items \in Seq(Item) /\ Head(items) = items[1] /\ 1 \in 1 .. Len(items)
        /\ items[1].slot \in Slots /\ slots \in [Slots -> SlotStates]
    BY DataTypes
  <1>3. slots[items[1].slot] = "READY_FOR_NVME"
    BY <1>2 DEF OwnInv, QueueOwns
  <1>4. \A s \in Slots : slots'[s] = IF s = items[1].slot THEN "NVME_BUSY" ELSE slots[s]
    BY <1>2 DEF queue_pop_item
  <1>5. Offered(slots', batch') = Offered(slots, batch) /\ (BatchWritable' <=> BatchWritable)
    <2>1. \A j \in 1 .. Len(batch) : batch[j].slot \in Slots
      BY DataTypes
    <2> QED BY <1>3, <1>4, <2>1 DEF Offered, BatchWritable
  <1>6. /\ Taken' = Taken /\ Waiting' = Waiting /\ HwWindow' = HwWindow
        /\ \A s : D(s)' = D(s) /\ NthBd(s)' = NthBd(s)
    BY DEF Taken, Waiting, D, NthBd, HwWindow, dmaVars
  <1>7. BatchWritable' => InOrder' /\ Arrived' /\ Given'
    BY <1>1, <1>5, <1>6 DEF ExactRing, InOrder, Arrived, Given, dmaVars
  <1>8. BatchWritable' \/ (dma_quiesced' /\ stop_latched')
    BY <1>1, <1>5 DEF ExactRing, dma_quiesced, stop_latched
  <1>9. Live' /\ ppc' # "gate" => Tight'
    <2> SUFFICES ASSUME Live', ppc # "gate" PROVE Tight'
      OBVIOUS
    <2>1. Tight
      BY <1>1 DEF ExactRing, Live
    <2>2. /\ PoppedSlots(active) \subseteq PoppedSlots(active')
          /\ items[1].slot \in PoppedSlots(active')
      BY <1>2 DEF PoppedSlots
    <2> QED BY <1>4, <1>5, <1>6, <2>1, <2>2 DEF Tight, dmaVars
  <1> QED BY <1>7, <1>8, <1>9 DEF ExactRing

\* The popped slot is the one after the last that the engine was given.
LEMMA PoppedNext ==
  ASSUME TypeOK, OwnInv, NEW it \in active, active = {it}, Tight, Given,
         RingOrder(next_harvest_bd, dma_hw_desc_count, slots, active, items, batch)
  PROVE  it.slot \in Slots /\ D(it.slot) = dma_hw_desc_count /\ dma_hw_desc_count < NSlots
  <1> DEFINE c == dma_hw_desc_count
             t == it.slot
  <1>1. /\ t \in Slots /\ slots[t] = "NVME_BUSY" /\ PoppedSlots(active) = {t}
    BY DataTypes DEF OwnInv, WriterOwns, PoppedSlots
  <1>2. t \notin Offered(slots, batch)
    BY <1>1 DEF Offered
  <1>3. /\ c \in 0 .. NSlots /\ D(t) \in 0 .. NSlots - 1 /\ NSlots \in Nat \ {0}
        /\ next_harvest_bd \in Slots
    BY <1>1, SeqFacts
  <1>4. D(t) >= c /\ c < NSlots
    <2>1. ~(D(t) < c)
      BY <1>1, <1>2 DEF Given
    <2> QED BY <1>3, <2>1
  <1>5. ~(D(t) > c)
    <2> SUFFICES ASSUME D(t) > c PROVE FALSE
      OBVIOUS
    <2> DEFINE s == NthBd(c)
    <2>1. s \in Slots /\ D(s) = c
      BY <1>3, <1>4, NthValue, NthDist DEF D
    <2>2. s # t
      BY <1>3, <2>1
    <2> HIDE DEF s
    <2>3. s \notin Offered(slots, batch)
      BY <1>3, <2>1 DEF Tight
    <2>4. s \in SlotsOf(items) \cup SlotsOf(batch)
      <3>1. CASE slots[s] = "DMA_WRITABLE"
        BY <2>1, <2>3, <3>1 DEF Offered
      <3>2. CASE slots[s] = "READY_FOR_NVME"
        <4>1. PICK i \in 1 .. Len(items) : items[i].slot = s
          BY <2>1, <3>2 DEF OwnInv, QueueOwns
        <4>2. i \in DOMAIN items
          BY DataTypes
        <4> QED BY <4>1, <4>2 DEF SlotsOf
      <3> QED BY <1>1, <2>1, <2>2, <3>1, <3>2 DEF Tight
    <2>5. D(t) < D(s)
      BY <1>1, <2>4 DEF RingOrder, Before, D
    <2> QED BY <1>3, <2>1, <2>5
  <1> QED BY <1>1, <1>3, <1>4, <1>5

\* Giving a slot back extends what the engine may fetch by the next slot; a slot that
\* does not go back was not the engine's.
LEMMA RetireSeq ==
  ASSUME TypeOK, SafeInv, OwnInv, PathInv, RingInv, SeqInv, NEW it \in active, active = {it},
         complete_slot(it.slot), active' = {},
         UNCHANGED <<batch, captured, integrity, ppc, quiesce_result>>
  PROVE  SeqInv'
  <1> SUFFICES ASSUME integrity PROVE ExactRing'
    BY DEF SeqInv
  <1> DEFINE t == it.slot
             c == dma_hw_desc_count
  <1>1. ExactRing
    BY DEF SeqInv
  <1>2. /\ t \in Slots /\ slots[t] = "NVME_BUSY" /\ slots \in [Slots -> SlotStates]
        /\ bd \in [Slots -> 0 .. MaxFrames]
        /\ \A j \in 1 .. Len(batch) : batch[j].slot \in Slots
    BY DataTypes DEF OwnInv, WriterOwns
  <1>3. UNCHANGED <<frames, next_harvest_bd, dmasr, curdesc>>
    BY DEF complete_slot, dma_requeue_one, dmaVars, engineVars
  <1>4. /\ Taken' = Taken /\ Waiting' = Waiting
        /\ \A s : D(s)' = D(s) /\ NthBd(s)' = NthBd(s)
    BY <1>3 DEF Taken, Waiting, D, NthBd
  <1>5. InOrder => InOrder'
    BY DEF InOrder
  <1>6. CASE ~should_requeue
    <2>1. /\ slots' = [slots EXCEPT ![t] = "FREE"] /\ UNCHANGED <<dmaVars, worker_state>>
      BY <1>6 DEF complete_slot, SafeInv
    <2>2. \A s \in Slots : slots'[s] = IF s = t THEN "FREE" ELSE slots[s]
      BY <1>2, <2>1
    <2>3. Offered(slots', batch') = Offered(slots, batch) /\ (BatchWritable' <=> BatchWritable)
      BY <1>2, <2>2 DEF Offered, BatchWritable
    <2>4. HwWindow' = HwWindow
      BY <2>1 DEF HwWindow, dmaVars
    <2>5. BatchWritable' => InOrder' /\ Arrived' /\ Given'
      BY <1>1, <1>4, <1>5, <2>1, <2>3, <2>4 DEF ExactRing, Arrived, Given, dmaVars
    <2>6. BatchWritable' \/ (dma_quiesced' /\ stop_latched')
      BY <1>1, <2>1, <2>3 DEF ExactRing, dma_quiesced, stop_latched
    <2>7. ~Live'
      BY <1>6, <2>1 DEF Live, PathInv, should_requeue, can_requeue, stop_latched
    <2> QED BY <2>5, <2>6, <2>7 DEF ExactRing
  <1>7. CASE should_requeue
    <2>1. /\ worker_state = "RUNNING" /\ requeue_enabled /\ ~requeue_refused
          /\ ~stop_latched
      BY <1>7 DEF should_requeue, can_requeue, SafeInv, requeue_refused, stop_latched
    <2>2. Live /\ ppc \in {"loop", "enqueue"}
      BY <2>1 DEF PathInv, Live
    <2>3. BatchWritable /\ InOrder /\ Arrived /\ Given /\ Tight
      BY <1>1, <2>1, <2>2 DEF ExactRing
    <2>4. D(t) = c /\ c < NSlots /\ c \in 0 .. NSlots /\ NSlots \in Nat \ {0}
      BY <2>2, <2>3, PoppedNext, SeqFacts DEF RingInv
    <2>5. /\ bd' = [bd EXCEPT ![t] = 0] /\ taildesc' = t /\ dma_idle' = FALSE
      BY <1>7, <2>1 DEF complete_slot, dma_requeue_one, clear_completed
    <2>6. \A s \in Slots : bd'[s] = IF s = t THEN 0 ELSE bd[s]
      BY <1>2, <2>5
    <2>7. Waiting \in 0 .. NSlots /\ Waiting <= c /\ Taken \in Nat
      BY <2>3, SeqFacts DEF Arrived, Tight
    <2>8. CASE ~requeue_ok
      <3>1. /\ slots' = [slots EXCEPT ![t] = "REQUEUE_PENDING"] /\ worker_state' = "FAILED"
            /\ dma_hw_desc_count' = c
        BY <1>7, <2>1, <2>8 DEF complete_slot, dma_requeue_one, fail_locked
      <3>2. \A s \in Slots : slots'[s] = IF s = t THEN "REQUEUE_PENDING" ELSE slots[s]
        BY <1>2, <3>1
      <3>3. Offered(slots', batch') = Offered(slots, batch) /\ (BatchWritable' <=> BatchWritable)
        BY <1>2, <3>2 DEF Offered, BatchWritable
      <3>4. Dead(dmasr')
        BY <1>3, <2>1, <2>4, <2>8 DEF requeue_ok, Dead, PathInv, TypeOK, DmaTypeOK
      <3>5. HwWindow' = {}
        BY <3>4 DEF HwWindow, Dead
      <3>6. t \notin Offered(slots, batch)
        BY <1>2 DEF Offered
      <3>7. Arrived'
        <4> HIDE DEF t
        <4>1. \A s \in Slots : D(s) < Waiting => bd'[s] = Taken + D(s) + 1 /\ s \in Offered(slots, batch)
          BY <2>3, <2>6, <3>6 DEF Arrived
        <4>2. \A s \in Offered(slots, batch) : D(s) >= Waiting => bd'[s] = 0
          <5>1. \A s \in Offered(slots, batch) : s \in Slots
            BY DEF Offered
          <5> QED BY <2>3, <2>6, <5>1 DEF Arrived
        <4> QED BY <1>4, <2>7, <3>3, <4>1, <4>2 DEF Arrived
      <3>8. Given'
        BY <1>4, <2>3, <3>1, <3>3, <3>4, <3>5 DEF Given
      <3>9. ~Live'
        BY <3>1 DEF Live
      <3> QED BY <1>5, <2>3, <3>3, <3>7, <3>8, <3>9 DEF ExactRing
    <2>9. CASE requeue_ok
      <3>1. /\ slots' = [slots EXCEPT ![t] = "DMA_WRITABLE"] /\ dma_hw_desc_count' = c + 1
        BY <1>7, <2>1, <2>9 DEF complete_slot, dma_requeue_one
      <3>2. \A s \in Slots : slots'[s] = IF s = t THEN "DMA_WRITABLE" ELSE slots[s]
        BY <1>2, <3>1
      <3>3. t \notin SlotsOf(batch) /\ t \notin Offered(slots, batch)
        <4>1. \A j \in DOMAIN batch : slots[batch[j].slot] = "DMA_WRITABLE"
          BY <2>3 DEF BatchWritable, TypeOK
        <4> QED BY <1>2, <4>1 DEF SlotsOf, Offered
      <3>4. Offered(slots', batch') = Offered(slots, batch) \cup {t} /\ BatchWritable'
        BY <1>2, <2>3, <3>2, <3>3 DEF Offered, BatchWritable
      <3>5. \A s \in Slots : D(s) \in 0 .. NSlots - 1 /\ (D(s) = c => s = t)
        BY <1>2, <2>4, SeqFacts
      <3>6. Arrived'
        <4>1. \A s \in Slots : D(s) < Waiting => s # t /\ D(s) < c
          BY <2>4, <2>7, <3>5
        <4> HIDE DEF t
        <4>2. \A s \in Slots : D(s) < Waiting => /\ bd'[s] = Taken + D(s) + 1
                                                 /\ s \in Offered(slots', batch')
          BY <2>3, <2>6, <3>4, <4>1 DEF Arrived
        <4>3. \A s \in Offered(slots', batch') : D(s) >= Waiting => bd'[s] = 0
          <5>1. \A s \in Offered(slots', batch') : s \in Slots
            BY DEF Offered
          <5> QED BY <2>3, <2>6, <3>4, <5>1 DEF Arrived
        <4> QED BY <1>4, <2>7, <4>2, <4>3 DEF Arrived
      <3>7. Given'
        <4>1. \A s \in Slots : D(s) < c + 1 => s \in Offered(slots', batch')
          <5> SUFFICES ASSUME NEW s \in Slots, D(s) < c + 1 PROVE s \in Offered(slots', batch')
            OBVIOUS
          <5>1. D(s) < c \/ s = t
            BY <2>4, <3>5
          <5> QED BY <2>3, <3>4, <5>1 DEF Given
        <4>2. Dead(dmasr') \/ curdesc' = NthBd(Waiting)
          BY <1>3, <2>3 DEF Given
        <4>3. ASSUME NEW s \in HwWindow' PROVE Waiting <= D(s) /\ D(s) < c + 1
          <5>1. s \in Slots /\ ~Dead(dmasr) /\ Dist(s, curdesc) <= Dist(t, curdesc)
            BY <1>3, <2>5 DEF HwWindow, Dead, Dist
          <5>2. curdesc = NthBd(Waiting) /\ next_harvest_bd \in Slots
            BY <1>3, <4>2, <5>1, SeqFacts
          <5>3. /\ Dist(s, curdesc) = IF D(s) >= Waiting THEN D(s) - Waiting
                                      ELSE D(s) - Waiting + NSlots
                /\ Dist(t, curdesc) = IF D(t) >= Waiting THEN D(t) - Waiting
                                      ELSE D(t) - Waiting + NSlots
            BY <1>2, <2>7, <5>1, <5>2, DistAfterHarvest DEF D
          <5>4. D(s) \in 0 .. NSlots - 1
            BY <3>5, <5>1
          <5> HIDE DEF t, c
          <5> QED BY <2>4, <2>7, <5>1, <5>3, <5>4
        <4> QED BY <1>4, <3>1, <4>1, <4>2, <4>3 DEF Given
      <3>8. Tight'
        <4>1. \A s \in Offered(slots', batch') : D(s) < c + 1
          <5>1. \A s \in Offered(slots, batch) : D(s) < c /\ s \in Slots
            BY <2>3 DEF Tight, Offered
          <5> QED BY <2>4, <3>4, <3>5, <5>1
        <4>2. Waiting' <= dma_hw_desc_count'
          BY <1>4, <2>4, <2>7, <3>1
        <4>3. \A s \in Slots : slots'[s] \in {"DMA_WRITABLE", "READY_FOR_NVME"}
          <5>1. PoppedSlots(active) = {t}
            BY DEF PoppedSlots
          <5> QED BY <2>3, <3>2, <5>1 DEF Tight
        <4> QED BY <1>4, <3>1, <4>1, <4>2, <4>3 DEF Tight
      <3> QED BY <1>5, <2>3, <3>4, <3>6, <3>7, <3>8 DEF ExactRing
    <2> QED BY <2>8, <2>9
  <1> QED BY <1>6, <1>7

\* Positions seen from where a harvest ends.
LEMMA NthStep ==
  ASSUME next_harvest_bd \in Slots, NEW k \in 0 .. NSlots, NEW u \in k .. NSlots
  PROVE  (NthBd(k) + (u - k)) % NSlots = NthBd(u)
  <1>1. NSlots \in Nat \ {0} /\ next_harvest_bd \in 0 .. NSlots - 1 /\ u \in 0 .. NSlots
    BY DmaRingAssumption DEF Slots
  <1>2. /\ NthBd(k) = IF next_harvest_bd + k < NSlots THEN next_harvest_bd + k
                      ELSE next_harvest_bd + k - NSlots
        /\ NthBd(k) \in 0 .. NSlots - 1
        /\ NthBd(u) = IF next_harvest_bd + u < NSlots THEN next_harvest_bd + u
                      ELSE next_harvest_bd + u - NSlots
        /\ NthBd(u) \in 0 .. NSlots - 1
    BY <1>1, NthValue DEF Slots
  <1>3. CASE NthBd(k) + (u - k) < NSlots
    <2>1. NthBd(k) + (u - k) \in 0 .. NSlots - 1
      BY <1>1, <1>2, <1>3
    <2>2. NthBd(k) + (u - k) = NthBd(u)
      BY <1>1, <1>2, <1>3
    <2> QED BY <2>1, <2>2, RingDifference
  <1>4. CASE ~(NthBd(k) + (u - k) < NSlots)
    <2>1. NthBd(k) + (u - k) = NthBd(u) + NSlots
      BY <1>1, <1>2, <1>4
    <2>2. \A a \in 0 .. NSlots - 1 : (a + NSlots) % NSlots = a
      BY <1>1
    <2> QED BY <1>2, <2>1, <2>2
  <1> QED BY <1>3, <1>4

\* A harvest takes the frames that wait, in order; if it takes more, which only a stop
\* harvest does, its batch has a slot that is not writable.
LEMMA HarvestSeq ==
  ASSUME TypeOK, batch = <<>>, InOrder, Arrived, Given, NEW b \in BOOLEAN,
         NEW k \in HarvestCounts(b), dma_harvest(HarvestedItems(k), b),
         batch' = HarvestedItems(k), UNCHANGED <<captured, slots, active>>
  PROVE  /\ BatchWritable' => InOrder' /\ Arrived' /\ Given'
         /\ BatchWritable' \/ b
         /\ ~b /\ Tight => Tight'
  <1> DEFINE u == Waiting
             c == dma_hw_desc_count
             W == Offered(slots, batch)
             H == SlotsOf(HarvestedItems(k))
             E(s) == Dist(s, NthBd(k))
  <1>1. /\ NSlots \in Nat \ {0} /\ next_harvest_bd \in Slots /\ c \in 0 .. NSlots
        /\ k \in 0 .. NSlots /\ (~b => k <= c)
        /\ u \in 0 .. NSlots /\ Taken \in Nat /\ Taken = Len(captured) /\ Len(frames) = Taken + u
        /\ Len(captured) \in Nat
    <2>1. Taken = Len(captured)
      BY SeqFacts DEF Taken
    <2> QED BY <2>1, HarvestBound, SeqFacts DEF Arrived, TypeOK
  <1>2. /\ Len(HarvestedItems(k)) = k
        /\ H = {s \in Slots : D(s) < k}
        /\ \A i \in 1 .. k : /\ HarvestedItems(k)[i].slot \in Slots
                             /\ D(HarvestedItems(k)[i].slot) = i - 1
                             /\ HarvestedItems(k)[i].slot = NthBd(i - 1)
                             /\ HarvestedItems(k)[i].frame = bd[NthBd(i - 1)]
    BY HarvestSlots DEF TypeOK, D
  <1>3. \A i \in 1 .. k : bd[HarvestedItems(k)[i].slot] # 0
    <2> SUFFICES ASSUME NEW i \in 1 .. k PROVE bd[NthBd(i - 1)] # 0
      BY <1>2
    <2>1. i - 1 \in 0 .. k - 1
      BY <1>1
    <2>2. Completed(i - 1)
      BY <2>1 DEF HarvestCounts
    <2> QED BY <2>2 DEF Completed
  <1>4. /\ next_harvest_bd' = NthBd(k) /\ UNCHANGED <<frames, dmasr, curdesc, taildesc, dma_idle>>
        /\ \A s \in Slots : s \notin H => bd'[s] = bd[s]
        /\ dma_hw_desc_count' = IF c <= k THEN 0 ELSE c - k
    <2>1. dma_hw_desc_count' = IF c <= k THEN 0 ELSE c - k
      BY <1>1, <1>2 DEF dma_harvest, HwOwnedAfter, Least
    <2>2. \A s \in Slots : s \notin H => bd'[s] = bd[s]
      BY DEF dma_harvest, BdAfterHarvest, SlotsOf
    <2> QED BY <1>2, <2>1, <2>2 DEF dma_harvest
  <1>5. \A s \in Slots : /\ D(s) \in 0 .. NSlots - 1
                         /\ D(s)' = E(s)
                         /\ E(s) = IF D(s) >= k THEN D(s) - k ELSE D(s) - k + NSlots
    BY <1>1, <1>4, DistAfterHarvest, SeqFacts DEF D
  <1>6. /\ W = {s \in Slots : slots[s] = "DMA_WRITABLE"}
        /\ \A s : s \in Offered(slots', batch') <=> s \in W /\ s \notin H
        /\ \A s \in W : s \in Slots
    BY DEF Offered, SlotsOf
  <1>7. /\ \A s \in Slots : D(s) < u => bd[s] = Taken + D(s) + 1 /\ s \in W
        /\ \A s \in W : D(s) >= u => bd[s] = 0
        /\ \A s \in Slots : D(s) < c => s \in W
        /\ \A s \in HwWindow : u <= D(s) /\ D(s) < c
        /\ Dead(dmasr) \/ curdesc = NthBd(u)
    BY DEF Arrived, Given
  <1> HIDE DEF u, c, W, H, E
  <1>8. CASE k <= u
    <2>1. BatchWritable'
      <3> SUFFICES ASSUME NEW j \in 1 .. k PROVE slots[HarvestedItems(k)[j].slot] = "DMA_WRITABLE"
        BY <1>2 DEF BatchWritable
      <3>1. j - 1 < u
        BY <1>1, <1>8
      <3> QED BY <1>2, <1>6, <1>7, <3>1
    <2>2. Taken' = Taken + k /\ Waiting' = u - k
      <3>1. Len(batch') = k
        BY <1>2
      <3> QED BY <1>1, <1>4, <3>1 DEF Taken, Waiting
    <2>3. InOrder'
      <3>1. \A j \in 1 .. k : HarvestedItems(k)[j].frame = Len(captured) + j
        <4> SUFFICES ASSUME NEW j \in 1 .. k PROVE HarvestedItems(k)[j].frame = Len(captured) + j
          OBVIOUS
        <4>1. /\ HarvestedItems(k)[j].slot \in Slots /\ D(HarvestedItems(k)[j].slot) = j - 1
              /\ HarvestedItems(k)[j].frame = bd[HarvestedItems(k)[j].slot]
          BY <1>2
        <4>2. j - 1 < u
          BY <1>1, <1>8
        <4>3. bd[HarvestedItems(k)[j].slot] = Taken + (j - 1) + 1
          BY <1>7, <4>1, <4>2
        <4> QED BY <1>1, <4>1, <4>3
      <3> QED BY <1>2, <3>1 DEF InOrder
    <2>4. ASSUME NEW s \in Slots, E(s) < u - k
          PROVE  bd'[s] = Taken + k + E(s) + 1 /\ s \in W /\ s \notin H
      <3>1. D(s) >= k /\ E(s) = D(s) - k /\ D(s) < u /\ D(s) \in Nat
        BY <1>1, <1>5, <1>8, <2>4
      <3>2. s \notin H
        BY <1>1, <1>2, <3>1
      <3>3. bd'[s] = Taken + D(s) + 1 /\ s \in W
        BY <1>4, <1>7, <3>1, <3>2
      <3> QED BY <1>1, <3>1, <3>2, <3>3
    <2>5. ASSUME NEW s \in W, s \notin H, E(s) >= u - k PROVE bd'[s] = 0
      <3>1. s \in Slots /\ ~(D(s) < k) /\ D(s) \in 0 .. NSlots - 1
        BY <1>2, <1>5, <1>6, <2>5
      <3>2. D(s) >= u
        BY <1>1, <1>5, <2>5, <3>1
      <3> QED BY <1>4, <1>7, <2>5, <3>1, <3>2
    <2>6. Arrived'
      <3>1. Waiting' \in 0 .. NSlots
        BY <1>1, <1>8, <2>2
      <3>2. \A s \in Slots : D(s)' < Waiting' => bd'[s] = Taken' + D(s)' + 1 /\ s \in Offered(slots', batch')
        BY <1>5, <1>6, <2>2, <2>4
      <3>3. \A s \in Offered(slots', batch') : D(s)' >= Waiting' => bd'[s] = 0
        BY <1>5, <1>6, <2>2, <2>5
      <3> QED BY <3>1, <3>2, <3>3 DEF Arrived
    <2>7. Given'
      <3>1. ASSUME NEW s \in Slots, E(s) < dma_hw_desc_count' PROVE s \in W /\ s \notin H
        <4>1. c > k /\ D(s) >= k /\ D(s) < c
          BY <1>1, <1>4, <1>5, <3>1
        <4>2. s \notin H
          BY <1>1, <1>2, <1>5, <4>1
        <4> QED BY <1>7, <4>1, <4>2
      <3>2. HwWindow' = HwWindow
        BY <1>4 DEF HwWindow
      <3>3. ASSUME NEW s \in HwWindow PROVE s \in Slots /\ u - k <= E(s) /\ E(s) < dma_hw_desc_count'
        <4>1. s \in Slots /\ u <= D(s) /\ D(s) < c /\ D(s) \in 0 .. NSlots - 1
          BY <1>5, <1>7 DEF HwWindow
        <4> QED BY <1>1, <1>4, <1>5, <1>8, <4>1
      <3>4. Dead(dmasr') \/ curdesc' = NthBd(Waiting)'
        <4>1. NthBd(Waiting)' = (NthBd(k) + (u - k)) % NSlots
          BY <1>4, <2>2 DEF NthBd
        <4>2. u \in k .. NSlots
          BY <1>1, <1>8
        <4> QED BY <1>1, <1>4, <1>7, <4>1, <4>2, NthStep
      <3>5. \A s \in Slots : D(s)' < dma_hw_desc_count' => s \in Offered(slots', batch')
        BY <1>5, <1>6, <3>1
      <3>6. \A s \in HwWindow' : Waiting' <= D(s)' /\ D(s)' < dma_hw_desc_count'
        BY <1>5, <2>2, <3>2, <3>3
      <3> QED BY <3>4, <3>5, <3>6 DEF Given
    <2>8. ASSUME ~b, Tight PROVE Tight'
      <3>1. k <= c /\ dma_hw_desc_count' = c - k
        BY <1>1, <1>4, <2>8
      <3>2. \A s \in Offered(slots', batch') : D(s)' < dma_hw_desc_count'
        <4> SUFFICES ASSUME NEW s \in W, s \notin H PROVE E(s) < c - k
          BY <1>5, <1>6, <3>1
        <4>1. s \in Slots /\ D(s) < c /\ ~(D(s) < k) /\ D(s) \in 0 .. NSlots - 1
          BY <1>2, <1>5, <1>6, <2>8 DEF Tight, W, c
        <4> QED BY <1>1, <1>5, <3>1, <4>1
      <3>3. Waiting' <= dma_hw_desc_count'
        <4>1. u <= c
          BY <2>8 DEF Tight, u, c
        <4> QED BY <1>1, <2>2, <3>1, <4>1
      <3> QED BY <2>8, <3>2, <3>3 DEF Tight
    <2> QED BY <2>1, <2>3, <2>6, <2>7, <2>8
  <1>9. CASE ~(k <= u)
    <2>1. /\ u + 1 \in 1 .. k /\ (u + 1) - 1 = u
      BY <1>1, <1>9
    <2> DEFINE s == HarvestedItems(k)[u + 1].slot
    <2>2. s \in Slots /\ D(s) = u /\ bd[s] # 0
      BY <1>2, <1>3, <2>1
    <2>3. s \notin W
      BY <1>1, <1>7, <2>2
    <2>4. ~BatchWritable'
      <3>1. slots[s] # "DMA_WRITABLE" /\ u + 1 \in 1 .. Len(batch') /\ batch'[u + 1].slot = s
        BY <1>2, <1>6, <2>1, <2>2, <2>3
      <3> QED BY <3>1 DEF BatchWritable
    <2>5. b
      <3> SUFFICES ASSUME ~b PROVE FALSE
        OBVIOUS
      <3>1. D(s) < c
        BY <1>1, <1>9, <2>2
      <3> QED BY <1>7, <2>2, <2>3, <3>1
    <2> QED BY <2>4, <2>5
  <1> QED BY <1>8, <1>9

\* An increasing numbering that leaves nothing out is the identity.
Numbers(q, L, M) ==
    /\ L \in Nat /\ M \in Nat /\ q \in [1 .. L -> 1 .. M]
    /\ \A m, n \in 1 .. L : m < n => q[m] < q[n]
    /\ \A i \in 1 .. M : \E n \in 1 .. L : q[n] = i

LEMMA IncreasingOnto ==
  ASSUME NEW q, NEW L, NEW M, Numbers(q, L, M)
  PROVE  L = M /\ \A n \in 1 .. L : q[n] = n
  <1> USE DEF Numbers
  <1> DEFINE off == {n \in 1 .. L : q[n] # n}
  <1>1. off = {}
    <2> SUFFICES ASSUME off # {} PROVE FALSE
      OBVIOUS
    <2>1. off \in SUBSET Nat
      OBVIOUS
    <2>2. PICK x \in off : \A y \in off : x <= y
      <3> HIDE DEF off
      <3> QED BY <2>1, LeastOf
    <2>3. x \in 1 .. L /\ q[x] \in 1 .. M /\ q[x] # x
      BY <2>2
    <2>4. \A y \in 1 .. L : y < x => q[y] = y
      BY <2>2
    <2>5. CASE q[x] < x
      <3>1. q[x] \in 1 .. L
        BY <2>3, <2>5
      <3>2. q[q[x]] = q[x] /\ q[q[x]] < q[x]
        BY <2>3, <2>4, <2>5, <3>1
      <3> QED BY <2>3, <3>2
    <2>6. CASE q[x] > x
      <3>1. x \in 1 .. M
        BY <2>3, <2>6
      <3>2. PICK n \in 1 .. L : q[n] = x
        BY <3>1
      <3>3. n < x \/ n = x \/ x < n
        BY <2>3
      <3>4. x < n => q[x] < q[n]
        BY <2>3
      <3> QED BY <2>3, <2>4, <2>6, <3>2, <3>3, <3>4
    <2> QED BY <2>3, <2>5, <2>6
  <1>2. \A n \in 1 .. L : q[n] = n
    BY <1>1
  <1>3. L <= M
    BY <1>2
  <1>4. M <= L
    <2>1. CASE M = 0
      BY <2>1
    <2>2. CASE M # 0
      <3>1. M \in 1 .. M
        BY <2>2
      <3>2. PICK n \in 1 .. L : q[n] = M
        BY <3>1
      <3> QED BY <1>2, <3>2
    <2> QED BY <2>1, <2>2
  <1> QED BY <1>2, <1>3, <1>4

\* A hand-over that leaves the capture good queued the whole batch, in order.
LEMMA EnqueueWhole ==
  ASSUME TypeOK, P_Enqueue, integrity'
  PROVE  /\ integrity /\ ppc = "enqueue" /\ ppc' = "loop" /\ batch' = <<>>
         /\ UNCHANGED <<dmaVars, active, worker_state, quiesce_result>>
         /\ BatchWritable
         /\ \A s \in Slots : slots'[s] = IF s \in SlotsOf(batch) THEN "READY_FOR_NVME" ELSE slots[s]
         /\ Len(captured') = Len(captured) + Len(batch)
         /\ \A l \in 1 .. Len(captured) : captured'[l] = captured[l]
         /\ \A j \in 1 .. Len(batch) : captured'[Len(captured) + j] = batch[j].frame
  <1> DEFINE done == Processed(TRUE)
  <1>1. PICK q \in QueuedOf(done) :
           /\ hand_over(PendingOf(q), ReleasedOf(done), FailedOf(done))
           /\ ~(\E i \in done : EndsBatch(i)) /\ \A i \in done : Queueable(i)
           /\ PendingOf(q) # <<>> => ~PushRejected(PendingOf(q))
           /\ captured' = IF PendingOf(q) # <<>> THEN captured \o FramesOf(PendingOf(q)) ELSE captured
           /\ integrity /\ ppc' = "loop"
    BY DEF P_Enqueue, GoOut, CountBatch
  <1> DEFINE pending == PendingOf(q)
  <1>2. batch' = <<>> /\ ppc = "enqueue" /\ UNCHANGED <<dmaVars, active, worker_state, quiesce_result>>
    BY HandOverKeeps DEF P_Enqueue, writerVars
  <1>3. done = 1 .. Len(batch) /\ Len(batch) \in Nat /\ DOMAIN batch = 1 .. Len(batch)
    <2>1. \A i \in Processed(TRUE) : ~EndsBatch(i)
      BY <1>1
    <2>2. Processed(TRUE) = 1 .. Len(batch)
      BY <2>1, ProcessedAll
    <2>3. Len(batch) \in Nat /\ DOMAIN batch = 1 .. Len(batch)
      BY DEF TypeOK
    <2> QED BY <2>2, <2>3
  <1>4. /\ pending \in Seq(Item)
        /\ \A n \in 1 .. Len(pending) : q[n] \in 1 .. Len(batch)
        /\ \A m, n \in 1 .. Len(pending) : m < n => q[m] < q[n]
        /\ \A i \in 1 .. Len(batch) : \E n \in 1 .. Len(pending) : q[n] = i
        /\ \A n \in 1 .. Len(pending) : pending[n].slot = batch[q[n]].slot
                                        /\ pending[n].frame = batch[q[n]].frame
    BY <1>1, <1>3, PendingFacts
  <1>5. Len(pending) \in Nat /\ DOMAIN pending = 1 .. Len(pending) /\ (pending = <<>> <=> Len(pending) = 0)
    BY <1>4
  <1>6. Len(pending) = Len(batch) /\ \A n \in 1 .. Len(pending) : q[n] = n
    <2> HIDE DEF pending, done
    <2>1. q \in [1 .. Len(pending) -> 1 .. Len(batch)]
      <3>1. DOMAIN q = 1 .. Len(pending) /\ q = [n \in DOMAIN q |-> q[n]]
        BY PendingFacts DEF QueuedOf, pending, done
      <3> QED BY <1>4, <3>1
    <2>2. /\ Len(pending) \in Nat /\ Len(batch) \in Nat
          /\ \A m, n \in 1 .. Len(pending) : m < n => q[m] < q[n]
          /\ \A i \in 1 .. Len(batch) : \E n \in 1 .. Len(pending) : q[n] = i
      BY <1>3, <1>4, <1>5
    <2>3. Numbers(q, Len(pending), Len(batch))
      BY <2>1, <2>2 DEF Numbers
    <2> QED BY <2>3, IncreasingOnto
  <1>7. \A n \in 1 .. Len(batch) : pending[n].slot = batch[n].slot /\ pending[n].frame = batch[n].frame
    BY <1>4, <1>6
  <1>8. FailedOf(done) = {} /\ ReleasedOf(done) = {}
    BY <1>1 DEF FailedOf, ReleasedOf, EndsBatch
  <1>9. pending # <<>> <=> HandOverPushes(pending, ReleasedOf(done), FailedOf(done))
    BY <1>1, <1>8 DEF HandOverPushes
  <1>10. hand_over(pending, {}, {})
    BY <1>1, <1>8
  <1>11. SlotsOf(pending) = SlotsOf(batch)
    <2> HIDE DEF pending
    <2> QED BY <1>3, <1>5, <1>6, <1>7 DEF SlotsOf
  <1>12. \/ pending = <<>>
         \/ \A i \in 1 .. Len(pending) : /\ slots[pending[i].slot] = "DMA_WRITABLE"
                                         /\ slots'[pending[i].slot] = "READY_FOR_NVME"
    BY <1>1, <1>4, <1>9, HandOverEffect DEF TypeOK
  <1> HIDE DEF pending
  <1>13. BatchWritable
    BY <1>5, <1>6, <1>7, <1>12 DEF BatchWritable
  <1>14. \A s \in Slots : slots'[s] = IF s \in SlotsOf(batch) THEN "READY_FOR_NVME" ELSE slots[s]
    <2>1. \A s \in Slots : s \notin SlotsOf(pending) => slots'[s] = slots[s]
      BY <1>10, HandOverTouches DEF TypeOK
    <2>2. \A s \in SlotsOf(pending) : slots'[s] = "READY_FOR_NVME"
      BY <1>5, <1>12 DEF SlotsOf
    <2> QED BY <1>11, <2>1, <2>2
  <1> DEFINE G == FramesOf(pending)
  <1>15. /\ G \in Seq(1 .. MaxFrames) /\ Len(G) = Len(batch)
         /\ \A n \in 1 .. Len(batch) : G[n] = batch[n].frame
    <2>1. G = [n \in 1 .. Len(batch) |-> batch[n].frame]
      BY <1>5, <1>6, <1>7 DEF FramesOf
    <2>2. \A n \in 1 .. Len(batch) : batch[n].frame \in 1 .. MaxFrames
      <3>1. batch \in Seq(BatchItem)
        BY DEF TypeOK, BatchItem
      <3>2. \A n \in 1 .. Len(batch) : batch[n] \in BatchItem
        BY <3>1
      <3> QED BY <3>2 DEF BatchItem
    <2> HIDE DEF G
    <2> QED BY <1>3, <2>1, <2>2
  <1>16. captured \in Seq(1 .. MaxFrames) /\ Len(captured) \in Nat
    BY DataTypes
  <1>17. captured' = IF pending # <<>> THEN captured \o G ELSE captured
    BY <1>1 DEF pending
  <1> HIDE DEF G
  <1>18. /\ Len(captured') = Len(captured) + Len(batch)
         /\ \A l \in 1 .. Len(captured) : captured'[l] = captured[l]
    <2>1. CASE pending = <<>>
      <3>1. captured' = captured /\ Len(batch) = 0
        BY <1>5, <1>6, <1>17, <2>1
      <3> QED BY <1>16, <3>1
    <2>2. CASE pending # <<>>
      <3>1. captured' = captured \o G
        BY <1>17, <2>2
      <3> QED BY <1>15, <1>16, <3>1
    <2> QED BY <2>1, <2>2
  <1>19. \A j \in 1 .. Len(batch) : captured'[Len(captured) + j] = batch[j].frame
    <2> SUFFICES ASSUME NEW j \in 1 .. Len(batch) PROVE captured'[Len(captured) + j] = batch[j].frame
      OBVIOUS
    <2>1. pending # <<>> /\ captured' = captured \o G
      BY <1>3, <1>5, <1>6, <1>17
    <2>2. /\ Len(captured) + j \in 1 .. Len(captured) + Len(G)
          /\ ~(Len(captured) + j <= Len(captured)) /\ (Len(captured) + j) - Len(captured) = j
      BY <1>3, <1>15, <1>16
    <2>3. (captured \o G)[Len(captured) + j] = G[(Len(captured) + j) - Len(captured)]
      BY <1>15, <1>16, <2>2
    <2> QED BY <1>15, <2>1, <2>2, <2>3
  <1> QED BY <1>1, <1>2, <1>13, <1>14, <1>18, <1>19

\* What a good hand-over queues was not the engine's any more.
LEMMA EnqueueSeq ==
  ASSUME TypeOK, SeqInv, P_Enqueue PROVE SeqInv'
  <1> SUFFICES ASSUME integrity' PROVE ExactRing'
    BY DEF SeqInv
  <1>1. /\ integrity /\ ppc = "enqueue" /\ ppc' = "loop" /\ batch' = <<>>
        /\ UNCHANGED <<dmaVars, active, worker_state, quiesce_result>>
        /\ BatchWritable
        /\ \A s \in Slots : slots'[s] = IF s \in SlotsOf(batch) THEN "READY_FOR_NVME" ELSE slots[s]
        /\ Len(captured') = Len(captured) + Len(batch)
        /\ \A l \in 1 .. Len(captured) : captured'[l] = captured[l]
        /\ \A j \in 1 .. Len(batch) : captured'[Len(captured) + j] = batch[j].frame
    BY EnqueueWhole
  <1>2. InOrder /\ Arrived /\ Given /\ (Live /\ ppc # "gate" => Tight)
    BY <1>1 DEF SeqInv, ExactRing
  <1>3. Offered(slots', batch') = Offered(slots, batch)
    BY <1>1 DEF Offered, SlotsOf
  <1>4. /\ Taken' = Taken /\ Waiting' = Waiting /\ HwWindow' = HwWindow
        /\ \A s : D(s)' = D(s) /\ NthBd(s)' = NthBd(s)
    <2>1. Len(captured) \in Nat /\ Len(batch) \in Nat /\ Len(batch') = 0
      BY <1>1, SeqFacts
    <2>2. Taken' = Taken
      BY <1>1, <2>1 DEF Taken
    <2> QED BY <1>1, <2>2 DEF Waiting, D, NthBd, HwWindow, dmaVars
  <1>5. InOrder'
    <2>1. Len(captured) \in Nat /\ Len(batch) \in Nat
      BY SeqFacts
    <2>2. \A l \in 1 .. Len(captured') : captured'[l] = l
      <3> SUFFICES ASSUME NEW l \in 1 .. Len(captured') PROVE captured'[l] = l
        OBVIOUS
      <3>1. CASE l \in 1 .. Len(captured)
        BY <1>1, <1>2, <3>1 DEF InOrder
      <3>2. CASE l \notin 1 .. Len(captured)
        <4>1. l - Len(captured) \in 1 .. Len(batch) /\ Len(captured) + (l - Len(captured)) = l
          BY <1>1, <2>1, <3>2
        <4>2. /\ captured'[Len(captured) + (l - Len(captured))] = batch[l - Len(captured)].frame
              /\ batch[l - Len(captured)].frame = Len(captured) + (l - Len(captured))
          BY <1>1, <1>2, <4>1 DEF InOrder
        <4> QED BY <4>1, <4>2
      <3> QED BY <3>1, <3>2
    <2> QED BY <1>1, <2>2 DEF InOrder
  <1>6. Arrived' /\ Given'
    BY <1>1, <1>2, <1>3, <1>4 DEF Arrived, Given, dmaVars
  <1>7. BatchWritable'
    BY <1>1 DEF BatchWritable
  <1>8. Live' /\ ppc' # "gate" => Tight'
    <2> SUFFICES ASSUME Live' PROVE Tight'
      OBVIOUS
    <2>1. Tight
      BY <1>1, <1>2 DEF Live
    <2> QED BY <1>1, <1>3, <1>4, <2>1 DEF Tight, dmaVars
  <1> QED BY <1>5, <1>6, <1>7, <1>8 DEF ExactRing

\* At the gate the engine is given the whole ring, which is empty.
LEMMA GateSeq ==
  ASSUME TypeOK, ControlInv, PathInv, P_Gate PROVE SeqInv'
  <1> SUFFICES ExactRing'
    BY DEF SeqInv
  <1>1. /\ batch' = <<>> /\ frames' = <<>> /\ captured' = <<>> /\ bd' = bd
        /\ \A s \in Slots : slots'[s] = "DMA_WRITABLE" /\ bd[s] = 0
        /\ curdesc' = 0 /\ next_harvest_bd' = 0 /\ dma_hw_desc_count' = NSlots
    BY DEF P_Gate, dma_start_s2mm_ring, ControlInv, PathInv, queueVars, batchVars, countVars
  <1>2. Taken' = 0 /\ Waiting' = 0 /\ Offered(slots', batch') = Slots /\ NSlots \in Nat \ {0}
    <2>1. Taken' = 0
      BY <1>1 DEF Taken
    <2>2. Waiting' = 0
      BY <1>1, <2>1 DEF Waiting
    <2> QED BY <1>1, <2>1, <2>2, DmaRingAssumption DEF Offered, SlotsOf
  <1>3. \A s \in Slots : D(s)' \in 0 .. NSlots - 1
    <2>1. 0 \in Slots
      BY <1>2 DEF Slots
    <2> QED BY <1>1, <2>1, DistValue DEF D
  <1>4. NthBd(Waiting)' = 0
    <2>1. NthBd(Waiting)' = 0 % NSlots
      BY <1>1, <1>2 DEF NthBd
    <2> QED BY <1>2, <2>1, RingDifference
  <1>5. HwWindow' \subseteq Slots
    BY DEF HwWindow
  <1>6. BatchWritable' /\ InOrder'
    BY <1>1 DEF BatchWritable, InOrder
  <1>7. Arrived'
    <2>1. \A s \in Slots : ~(D(s)' < 0)
      BY <1>2, <1>3
    <2> QED BY <1>1, <1>2, <2>1 DEF Arrived
  <1>8. \A s \in Slots : 0 <= D(s)' /\ D(s)' < NSlots
    BY <1>2, <1>3
  <1>9. Given'
    BY <1>1, <1>2, <1>4, <1>5, <1>8 DEF Given
  <1>10. Tight'
    BY <1>1, <1>2, <1>8 DEF Tight
  <1> QED BY <1>6, <1>7, <1>9, <1>10 DEF ExactRing

LEMMA ProducerSeq ==
  ASSUME TypeOK, SafeInv, LeaveInv, ControlInv, PathInv, EndInv, SeqInv, Producer
  PROVE  SeqInv'
  <1>1. Calm \/ Busy
    BY ProducerPath
  <1>2. CASE Calm
    BY <1>2, CalmSeq
  <1>3. CASE P_Gate
    BY <1>3, GateSeq
  <1>4. CASE P_Harvest
    <2> SUFFICES ASSUME integrity' PROVE ExactRing'
      BY DEF SeqInv
    <2>1. PICK k \in HarvestCounts(Harvesting) : /\ dma_harvest(HarvestedItems(k), Harvesting)
                                                 /\ batch' = HarvestedItems(k)
      BY <1>4 DEF P_Harvest
    <2>2. /\ UNCHANGED <<captured, slots, active, worker_state, quiesce_result>> /\ ppc = "loop"
          /\ integrity
      BY <1>4 DEF P_Harvest, MayHarvest, queueVars, countVars, writerVars, stopVars, GoTo
    <2>3. batch = <<>> /\ BatchWritable
      BY <2>2 DEF ControlInv, BatchWritable
    <2>4. InOrder /\ Arrived /\ Given /\ (Live => Tight)
      BY <2>2, <2>3 DEF SeqInv, ExactRing
    <2>5. Harvesting \in BOOLEAN
      BY DEF Harvesting
    <2>6. /\ BatchWritable' => InOrder' /\ Arrived' /\ Given'
          /\ BatchWritable' \/ Harvesting
          /\ ~Harvesting /\ Tight => Tight'
      BY <2>1, <2>2, <2>3, <2>4, <2>5, HarvestSeq
    <2>7. Harvesting => dma_quiesced' /\ stop_latched'
      BY <2>2 DEF Harvesting, ControlInv, dma_quiesced, stop_latched
    <2>8. Live' => Live /\ ~Harvesting
      BY <2>2, <2>7 DEF Live, stop_latched
    <2> QED BY <2>4, <2>6, <2>7, <2>8 DEF ExactRing
  <1>5. CASE P_Enqueue
    BY <1>5, EnqueueSeq
  <1>6. CASE P_GateFail \/ P_OutHarvest \/ P_OutEnqueue
    <2>1. ~integrity'
      BY <1>6 DEF P_GateFail, P_OutHarvest, P_OutEnqueue, GoOut, GoTo, PathInv, Lost
    <2> QED BY <2>1 DEF SeqInv
  <1> QED BY <1>1, <1>2, <1>3, <1>4, <1>5, <1>6 DEF Busy

\* The writer and the devices.
LEMMA OthersSeq ==
  ASSUME ~CrossSlot, TypeOK, SafeInv, LeaveInv, OwnInv, ControlInv, PathInv, RingInv, SeqInv,
         Writer \/ RequestStop \/ Nvme \/ DmaEngine \/ UNCHANGED vars
  PROVE  SeqInv'
  <1>1. /\ Live' => Live
        /\ UNCHANGED <<ppc, batch, captured, integrity, quiesce_result>>
        /\ stop_latched => stop_latched'
    BY OthersPath
  <1>2. CASE W_PopItem
    <2>1. /\ items # <<>> /\ queue_pop_item /\ active' = active \cup {Head(items)}
          /\ UNCHANGED dmaVars
      BY <1>2, PopItemNonempty DEF W_PopItem
    <2> QED BY <1>1, <2>1, PopSeq
  <1>3. ASSUME NEW it \in active, W_Retire(it) PROVE SeqInv'
    <2>1. active = {it}
      BY DEF LeaveInv
    <2>2. complete_slot(it.slot) /\ active' = {}
      BY <1>3, <2>1 DEF W_Retire
    <2> QED BY <1>1, <2>1, <2>2, RetireSeq
  <1>4. ASSUME NEW kind \in Kinds, HwReceive(kind), UNCHANGED <<slots, active, worker_state>>
        PROVE  SeqInv'
    BY <1>1, <1>4, ReceiveSeq
  <1>5. CASE /\ UNCHANGED <<bd, slots, frames, curdesc, taildesc, dma_idle, next_harvest_bd,
                            dma_hw_desc_count>>
             /\ dmasr' = dmasr \/ Dead(dmasr')
             /\ active' = active \/ ~Live'
    <2> SUFFICES ASSUME integrity PROVE ExactRing'
      BY <1>1 DEF SeqInv
    <2>1. ExactRing
      BY DEF SeqInv
    <2>2. /\ Taken' = Taken /\ Waiting' = Waiting /\ \A s : D(s)' = D(s) /\ NthBd(s)' = NthBd(s)
          /\ Offered(slots', batch') = Offered(slots, batch) /\ (BatchWritable' <=> BatchWritable)
      BY <1>1, <1>5 DEF Taken, Waiting, D, NthBd, BatchWritable
    <2>3. HwWindow' \subseteq HwWindow
      BY <1>5 DEF HwWindow, Dead
    <2>4. BatchWritable' => InOrder' /\ Arrived' /\ Given'
      BY <1>1, <1>5, <2>1, <2>2, <2>3 DEF ExactRing, InOrder, Arrived, Given
    <2>5. BatchWritable' \/ (dma_quiesced' /\ stop_latched')
      BY <1>1, <2>1, <2>2 DEF ExactRing, dma_quiesced
    <2>6. Live' /\ ppc' # "gate" => Tight'
      BY <1>1, <1>5, <2>1, <2>2 DEF ExactRing, Tight
    <2> QED BY <2>4, <2>5, <2>6 DEF ExactRing
  <1>6. \/ /\ UNCHANGED <<bd, slots, frames, curdesc, taildesc, dma_idle, next_harvest_bd,
                          dma_hw_desc_count>>
           /\ dmasr' = dmasr \/ Dead(dmasr')
           /\ active' = active \/ ~Live'
        \/ W_PopItem \/ (\E it \in active : W_Retire(it))
        \/ (\E kind \in Kinds : HwReceive(kind)) /\ UNCHANGED <<slots, active, worker_state>>
    <2>1. CASE Writer
      <3>1. CASE W_DrainAbort
        BY <3>1 DEF W_DrainAbort, WriterFails, fail_and_wake, fail_locked, Live, dmaVars
      <3>2. CASE W_PopItem \/ \E it \in active : W_Retire(it)
        BY <3>2
      <3>3. CASE \/ W_WaitRun \/ (\E b \in BOOLEAN : W_Ready(b)) \/ W_Top \/ W_PopSleep
                 \/ W_AddFail \/ W_PopOther \/ W_Decide \/ W_StepFail \/ W_FlushFail
        BY <3>3 DEF W_WaitRun, W_Ready, queue_set_writer_ready, W_Top, W_PopSleep,
                  W_AddFail, W_PopOther, WriterFails, fail_and_wake,
                  W_Decide, W_StepFail, W_FlushFail, dmaVars, queueVars, writerVars
      <3> QED BY <2>1, <3>1, <3>2, <3>3 DEF Writer
    <2>2. CASE RequestStop \/ Nvme \/ UNCHANGED vars
      BY <2>2 DEF RequestStop, Nvme, NvmeComplete, vars, dmaVars, queueVars, writerVars
    <2>3. CASE DmaEngine
      BY <2>3 DEF DmaEngine, HwFetchStale, HwHalt, HwFault, Dead, queueVars, writerVars, ringVars
    <2> QED BY <2>1, <2>2, <2>3
  <1> QED BY <1>2, <1>3, <1>4, <1>5, <1>6

------------------------------------------------------------------------------
(* The end.                                                                *)

\* A stopped ring in which no descriptor is found completed is empty: every frame the
\* engine received has been taken.
LEMMA EmptyRing ==
  ASSUME TypeOK, Arrived, batch = <<>>, CompletedUnharvested(slots) = 0
  PROVE  Len(captured) = Len(frames)
  <1> DEFINE left == {s \in Slots : \/ slots[s] = "DMA_WRITABLE" /\ bd[s] # 0
                                    \/ slots[s] = "DMA_COMPLETED_UNHARVESTED"}
  <1>1. left = {}
    <2>1. IsFiniteSet(left)
      <3>1. IsFiniteSet(Slots)
        BY DmaRingAssumption, FS_Interval DEF Slots
      <3> QED BY <3>1, FS_Subset
    <2>2. Cardinality(left) = 0
      BY DEF CompletedUnharvested
    <2> HIDE DEF left
    <2> QED BY <2>1, <2>2, FS_EmptySet
  <1>2. /\ NSlots \in Nat \ {0} /\ next_harvest_bd \in Slots /\ Waiting \in 0 .. NSlots
        /\ Taken \in Nat /\ Len(frames) = Taken + Waiting /\ Len(captured) = Taken
    <2>1. Len(captured) = Taken
      BY SeqFacts DEF Taken
    <2> QED BY <2>1, SeqFacts DEF Arrived
  <1>3. Waiting = 0
    <2> SUFFICES ASSUME Waiting # 0 PROVE FALSE
      OBVIOUS
    <2>1. D(next_harvest_bd) = 0
      BY <1>2, DistValue DEF D, Slots
    <2>2. bd[next_harvest_bd] = Taken + 0 + 1 /\ next_harvest_bd \in Offered(slots, batch)
      BY <1>2, <2>1 DEF Arrived
    <2>3. next_harvest_bd \in left
      BY <1>2, <2>2 DEF Offered
    <2> QED BY <1>1, <2>3
  <1> QED BY <1>2, <1>3

LEMMA ProducerEnd ==
  ASSUME TypeOK, SafeInv, LeaveInv, ControlInv, PathInv, EndInv, SeqInv, Producer
  PROVE  EndInv'
  <1> SUFFICES ASSUME integrity', ppc' \in Ending
               PROVE  dma_quiesced' /\ stop_phase' # "NONE" /\ Len(captured') = Len(frames')
    BY DEF EndInv
  <1>1. Calm \/ Busy
    BY ProducerPath
  <1>2. CASE Busy
    <2>1. ppc' \notin Ending \/ ~integrity'
      BY <1>2 DEF Busy, P_Gate, P_GateFail, P_Harvest, P_Enqueue, P_OutHarvest, P_OutEnqueue, GoTo, GoOut,
                  Ending
    <2> QED BY <2>1
  <1>3. CASE Calm /\ ~P_Scan
    BY <1>3 DEF Calm, EndInv, dma_quiesced
  <1>4. CASE Calm /\ P_Scan
    <2>1. /\ integrity /\ batch = <<>> /\ UNCHANGED <<captured, frames, stop_phase, quiesce_result>>
          /\ Harvesting /\ ppc = "loop"
      BY <1>4 DEF Calm, ControlInv, P_Scan, ScanEmpty, MayHarvest
    <2>2. StableEmpty
      <3> SUFFICES ASSUME ~StableEmpty PROVE FALSE
        OBVIOUS
      <3>1. scans' = 0
        BY <1>4 DEF P_Scan
      <3>2. ~(scans' >= StableScans)
        BY <3>1, CaptureWorkerAssumption
      <3>3. ppc' = "loop"
        BY <1>4, <3>2 DEF P_Scan, GoTo
      <3> QED BY <3>3 DEF Ending
    <2>3. Arrived
      BY <2>1 DEF SeqInv, ExactRing, BatchWritable
    <2>4. Len(captured) = Len(frames)
      BY <2>1, <2>2, <2>3, EmptyRing DEF StableEmpty
    <2> QED BY <2>1, <2>2, <2>4 DEF StableEmpty, Harvesting, dma_quiesced
  <1> QED BY <1>1, <1>2, <1>3, <1>4

\* A halted engine receives nothing.
LEMMA OthersEnd ==
  ASSUME TypeOK, SafeInv, LeaveInv, ControlInv, PathInv, EndInv,
         Writer \/ RequestStop \/ Nvme \/ DmaEngine \/ UNCHANGED vars
  PROVE  EndInv'
  <1>1. UNCHANGED <<ppc, captured, integrity, stop_phase, quiesce_result>>
    BY OthersPath
  <1>2. dma_quiesced => frames' = frames
    <2>1. CASE Writer
      BY <2>1 DEF Writer, W_WaitRun, W_Ready, W_Top, W_PopSleep, W_PopItem, W_AddFail, W_PopOther,
                  W_Retire, complete_slot, dma_requeue_one, engineVars, W_Decide, W_StepFail,
                  W_FlushFail, W_DrainAbort, dmaVars
    <2>2. CASE DmaEngine
      BY <2>2 DEF DmaEngine, HwReceive, HwFetchStale, HwHalt, HwFault, HwWindow, SafeInv
    <2>3. CASE RequestStop \/ Nvme \/ UNCHANGED vars
      BY <2>3 DEF RequestStop, Nvme, NvmeComplete, vars, dmaVars
    <2> QED BY <2>1, <2>2, <2>3
  <1> QED BY <1>1, <1>2 DEF EndInv, dma_quiesced

------------------------------------------------------------------------------
(* Nothing queued is forgotten.                                            *)

LEMMA HandOverCover ==
  ASSUME TypeOK, Cover, NEW breaks \in BOOLEAN, NEW q \in QueuedOf(Processed(breaks)),
         NEW released, NEW failed, hand_over(PendingOf(q), released, failed),
         captured' = IF HandOverPushes(PendingOf(q), released, failed)
                     THEN captured \o FramesOf(PendingOf(q)) ELSE captured,
         UNCHANGED <<inflight, media>>
  PROVE  Cover'
  <1> DEFINE pending == PendingOf(q)
             pushes == HandOverPushes(pending, released, failed)
             G == FramesOf(pending)
  <1>1. /\ pending \in Seq(Item) /\ Len(pending) \in Nat /\ DOMAIN pending = 1 .. Len(pending)
        /\ \A n \in 1 .. Len(pending) : pending[n].lba = Len(captured) + n
    <2>1. pending \in Seq(Item)
      BY PendingFacts
    <2>2. Len(pending) \in Nat /\ DOMAIN pending = 1 .. Len(pending)
      BY <2>1
    <2> QED BY <2>1, <2>2, PendingFacts
  <1>2. (~pushes /\ items' = items) \/ (pushes /\ items' = items \o pending)
    BY <1>1, HandOverEffect DEF TypeOK
  <1>3. items \in Seq(Item) /\ Len(items) \in Nat /\ captured \in Seq(1 .. MaxFrames) /\ Len(captured) \in Nat
    BY DataTypes
  <1>4. G \in Seq(1 .. MaxFrames) /\ Len(G) = Len(pending)
    <2>1. G = [n \in 1 .. Len(pending) |-> pending[n].frame]
      BY <1>1 DEF FramesOf
    <2>2. \A n \in 1 .. Len(pending) : pending[n].frame \in 1 .. MaxFrames
      <3>1. \A n \in 1 .. Len(pending) : pending[n] \in Item
        BY <1>1
      <3> QED BY <3>1 DEF Item
    <2> HIDE DEF pending, G
    <2> QED BY <1>1, <2>1, <2>2
  <1>5. captured' = IF pushes THEN captured \o G ELSE captured
    OBVIOUS
  <1> HIDE DEF pending, pushes, G
  <1>6. CASE ~pushes
    BY <1>2, <1>5, <1>6 DEF Cover
  <1>7. CASE pushes
    <2>1. /\ items' = items \o pending /\ Len(items') = Len(items) + Len(pending)
          /\ Len(captured') = Len(captured) + Len(pending)
      <3>1. items' = items \o pending /\ captured' = captured \o G
        BY <1>2, <1>5, <1>7
      <3>2. Len(items \o pending) = Len(items) + Len(pending)
        BY <1>1, <1>3
      <3>3. Len(captured \o G) = Len(captured) + Len(pending)
        BY <1>3, <1>4
      <3> QED BY <3>1, <3>2, <3>3
    <2>2. \A i \in 1 .. Len(items) : i \in 1 .. Len(items') /\ items'[i] = items[i]
      BY <1>1, <1>3, <2>1
    <2>3. \A n \in 1 .. Len(pending) :
              Len(items) + n \in 1 .. Len(items') /\ items'[Len(items) + n] = pending[n]
      <3> SUFFICES ASSUME NEW n \in 1 .. Len(pending)
                   PROVE  Len(items) + n \in 1 .. Len(items') /\ items'[Len(items) + n] = pending[n]
        OBVIOUS
      <3>1. /\ Len(items) + n \in 1 .. Len(items) + Len(pending)
            /\ ~(Len(items) + n <= Len(items)) /\ (Len(items) + n) - Len(items) = n
        BY <1>1, <1>3
      <3>2. (items \o pending)[Len(items) + n] = pending[(Len(items) + n) - Len(items)]
        BY <1>1, <1>3, <3>1
      <3> QED BY <2>1, <3>1, <3>2
    <2> SUFFICES ASSUME NEW l \in Lbas, l <= Len(captured')
                 PROVE  \/ media[l] # 0
                        \/ \E i \in 1 .. Len(items') : items'[i].lba = l
                        \/ \E it \in inflight : it.lba = l
      BY DEF Cover
    <2>4. CASE l <= Len(captured)
      BY <2>2, <2>4 DEF Cover
    <2>5. CASE ~(l <= Len(captured))
      <3>1. l \in Nat
        BY DmaRingAssumption DEF Lbas
      <3>2. l - Len(captured) \in 1 .. Len(pending) /\ Len(captured) + (l - Len(captured)) = l
        BY <1>1, <1>3, <2>1, <2>5, <3>1
      <3>3. pending[l - Len(captured)].lba = l
        BY <1>1, <3>2
      <3> QED BY <2>3, <3>2, <3>3
    <2> QED BY <2>4, <2>5
  <1> QED BY <1>6, <1>7

LEMMA ProducerCover ==
  ASSUME TypeOK, SafeInv, LeaveInv, ControlInv, Cover, Producer
  PROVE  Cover'
  <1>1. (Quiet \/ Busy) /\ inflight' = inflight
    BY ProducerControl, ProducerBystander DEF Bystander
  <1>2. CASE Quiet
    BY <1>1, <1>2 DEF Quiet, Cover
  <1>3. CASE P_Gate \/ P_GateFail \/ P_Harvest \/ P_OutHarvest
    <2>1. UNCHANGED <<captured, items, media>>
      BY <1>3 DEF P_Gate, P_GateFail, P_Harvest, P_OutHarvest, queueVars, countVars, writerVars
    <2> QED BY <1>1, <2>1 DEF Cover
  <1>4. CASE P_Enqueue
    <2> DEFINE done == Processed(TRUE)
    <2>1. PICK q \in QueuedOf(done) :
             /\ hand_over(PendingOf(q), ReleasedOf(done), FailedOf(done))
             /\ captured' = IF /\ ~(\E i \in done : EndsBatch(i)) /\ PendingOf(q) # <<>>
                               /\ ~PushRejected(PendingOf(q))
                            THEN captured \o FramesOf(PendingOf(q)) ELSE captured
      BY <1>4 DEF P_Enqueue, CountBatch
    <2>2. media' = media
      BY <1>4 DEF P_Enqueue, writerVars
    <2>3. (~(\E i \in done : EndsBatch(i)) /\ PendingOf(q) # <<>> /\ ~PushRejected(PendingOf(q)))
              <=> HandOverPushes(PendingOf(q), ReleasedOf(done), FailedOf(done))
      BY PushedAlike
    <2> QED BY <1>1, <2>1, <2>2, <2>3, HandOverCover
  <1>5. CASE P_OutEnqueue
    <2> DEFINE done == Processed(FALSE)
    <2>1. PICK q \in QueuedOf(done) :
             /\ hand_over(PendingOf(q), ReleasedOf(done), FailedOf(done))
             /\ captured' = IF HandOverPushes(PendingOf(q), ReleasedOf(done), FailedOf(done))
                            THEN captured \o FramesOf(PendingOf(q)) ELSE captured
      BY <1>5 DEF P_OutEnqueue, CountBatch
    <2>2. media' = media
      BY <1>5 DEF P_OutEnqueue, writerVars
    <2> QED BY <1>1, <2>1, <2>2, HandOverCover
  <1> QED BY <1>1, <1>2, <1>3, <1>4, <1>5 DEF Busy

\* The device writes what is in DDR, which is a frame.
LEMMA OthersCover ==
  ASSUME ~CrossSlot, TypeOK, SafeInv, ControlInv, DataInv, Cover,
         Writer \/ RequestStop \/ Nvme \/ DmaEngine \/ UNCHANGED vars
  PROVE  Cover'
  <1>1. captured' = captured
    BY OthersControl
  <1>2. CASE W_PopItem
    <2>1. /\ items \in Seq(Item) /\ items # <<>> /\ items' = Tail(items)
          /\ inflight' = inflight \cup {Head(items)} /\ media' = media
      BY <1>2, PopItemNonempty, DataTypes DEF W_PopItem, queue_pop_item
    <2>2. /\ Len(items) \in Nat \ {0} /\ Head(items) = items[1] /\ Len(items') = Len(items) - 1
          /\ \A i \in 1 .. Len(items') : items'[i] = items[i + 1]
      BY <2>1
    <2>3. \A i \in 1 .. Len(items) : i = 1 \/ (i - 1 \in 1 .. Len(items') /\ items'[i - 1] = items[i])
      <3> SUFFICES ASSUME NEW i \in 1 .. Len(items), i # 1
                   PROVE  i - 1 \in 1 .. Len(items') /\ items'[i - 1] = items[i]
        OBVIOUS
      <3>1. i - 1 \in 1 .. Len(items') /\ (i - 1) + 1 = i
        BY <2>2
      <3> QED BY <2>2, <3>1
    <2> SUFFICES ASSUME NEW l \in Lbas, l <= Len(captured), media[l] = 0,
                        \A it \in inflight' : it.lba # l
                 PROVE  \E i \in 1 .. Len(items') : items'[i].lba = l
      BY <1>1, <2>1 DEF Cover
    <2>4. PICK i \in 1 .. Len(items) : items[i].lba = l
      BY <2>1 DEF Cover
    <2>5. i # 1
      BY <2>1, <2>2, <2>4
    <2> QED BY <2>3, <2>4, <2>5
  <1>3. ASSUME NEW it \in inflight, NvmeComplete(it) PROVE Cover'
    <2>1. /\ media' = [media EXCEPT ![it.lba] = ddr[it.slot]] /\ inflight' = inflight \ {it}
          /\ items' = items /\ media \in [Lbas -> 0 .. MaxFrames]
      BY <1>3, DataTypes DEF NvmeComplete, queueVars
    <2>2. ddr[it.slot] # 0
      <3>1. it \in active /\ it \in Item
        BY DEF TypeOK
      <3>2. it.frame \in 1 .. MaxFrames
        BY <3>1 DEF Item
      <3>3. ddr[it.slot] = it.frame
        BY <3>1 DEF DataInv, Carried
      <3> QED BY <3>2, <3>3, DmaRingAssumption
    <2> SUFFICES ASSUME NEW l \in Lbas, l <= Len(captured)
                 PROVE  \/ media'[l] # 0
                        \/ \E i \in 1 .. Len(items') : items'[i].lba = l
                        \/ \E jt \in inflight' : jt.lba = l
      BY <1>1 DEF Cover
    <2>3. CASE l = it.lba
      BY <2>1, <2>2, <2>3
    <2>4. CASE l # it.lba
      <3>1. media'[l] = media[l]
        BY <2>1, <2>4
      <3> QED BY <2>1, <2>4, <3>1 DEF Cover
    <2> QED BY <2>3, <2>4
  <1>4. CASE UNCHANGED <<items, inflight, media>>
    BY <1>1, <1>4 DEF Cover
  <1>5. UNCHANGED <<items, inflight, media>> \/ W_PopItem \/ \E it \in inflight : NvmeComplete(it)
    <2>1. CASE Writer
      <3>1. CASE \E it \in active : W_Retire(it)
        BY <3>1 DEF W_Retire, complete_slot
      <3>2. CASE \/ W_WaitRun \/ (\E b \in BOOLEAN : W_Ready(b)) \/ W_Top \/ W_PopSleep
                 \/ W_AddFail \/ W_PopOther \/ W_Decide \/ W_StepFail \/ W_FlushFail \/ W_DrainAbort
        BY <3>2 DEF W_WaitRun, W_Ready, queue_set_writer_ready, W_Top, W_PopSleep,
                  W_AddFail, W_PopOther, WriterFails, fail_and_wake, W_DrainAbort,
                  W_Decide, W_StepFail, W_FlushFail, dmaVars, queueVars, writerVars
      <3> QED BY <2>1, <3>1, <3>2 DEF Writer
    <2>2. CASE RequestStop \/ Nvme \/ DmaEngine \/ UNCHANGED vars
      BY <2>2 DEF RequestStop, Nvme, DmaEngine, vars, queueVars, writerVars
    <2> QED BY <2>1, <2>2
  <1> QED BY <1>2, <1>3, <1>4, <1>5

------------------------------------------------------------------------------
(* The theorems.                                                           *)

CompleteInv == PathInv /\ SeqInv /\ EndInv /\ Cover

LEMMA InitComplete == Init => CompleteInv
  <1> SUFFICES ASSUME Init PROVE CompleteInv
    OBVIOUS
  <1>1. /\ ppc = "gate" /\ frames = <<>> /\ captured = <<>> /\ dmasr = "halted" /\ batch = <<>>
        /\ bd = [s \in Slots |-> 0] /\ slots = [s \in Slots |-> "DMA_WRITABLE"]
        /\ items = <<>> /\ active = {} /\ worker_state = "READY" /\ requeue_enabled
        /\ result = "none" /\ dma_hw_desc_count = 0 /\ next_harvest_bd = 0 /\ dma_idle
    BY DEF Init, DmaInit, QueueInit
  <1>2. PathInv
    BY <1>1 DEF PathInv, Lost
  <1>3. EndInv
    BY <1>1 DEF EndInv, Ending
  <1>4. Cover
    <2>1. Len(captured) = 0 /\ \A l \in Lbas : ~(l <= 0)
      BY <1>1, DmaRingAssumption DEF Lbas
    <2> QED BY <2>1 DEF Cover
  <1>5. SeqInv
    <2>1. Taken = 0 /\ Waiting = 0 /\ NSlots \in Nat \ {0}
      <3>1. Taken = 0
        BY <1>1 DEF Taken
      <3> QED BY <1>1, <3>1, DmaRingAssumption DEF Waiting
    <2>2. \A s \in Slots : ~(D(s) < 0)
      <3>1. 0 \in Slots
        BY <2>1 DEF Slots
      <3>2. \A s \in Slots : Dist(s, 0) \in 0 .. NSlots - 1
        BY <3>1, DistValue
      <3> QED BY <1>1, <2>1, <3>2 DEF D
    <2>3. HwWindow = {} /\ Dead(dmasr)
      BY <1>1 DEF HwWindow, Dead
    <2>4. BatchWritable /\ InOrder
      BY <1>1 DEF BatchWritable, InOrder
    <2>5. Arrived
      <3>1. \A s \in Offered(slots, batch) : s \in Slots
        BY DEF Offered
      <3> QED BY <1>1, <2>1, <2>2, <3>1 DEF Arrived
    <2>6. Given
      BY <1>1, <2>2, <2>3 DEF Given
    <2> QED BY <1>1, <2>4, <2>5, <2>6 DEF SeqInv, ExactRing
  <1> QED BY <1>2, <1>3, <1>4, <1>5 DEF CompleteInv

LEMMA NextComplete ==
  ASSUME ~CrossSlot, TypeOK, SafeInv, LeaveInv, OwnInv, ControlInv, RingInv, DataInv, CompleteInv,
         [Next]_vars
  PROVE  CompleteInv'
  <1>1. CASE Producer
    BY <1>1, ProducerPath, ProducerSeq, ProducerEnd, ProducerCover DEF CompleteInv
  <1>2. CASE Writer \/ RequestStop \/ Nvme \/ DmaEngine \/ UNCHANGED vars
    BY <1>2, OthersPath, OthersSeq, OthersEnd, OthersCover DEF CompleteInv
  <1> QED BY <1>1, <1>2 DEF Next, Ended

LEMMA CompleteInvariant ==
  ASSUME ~CrossSlot
  PROVE  Spec => [](TypeOK /\ SafeInv /\ ControlInv /\ DataInv /\ CompleteInv)
  <1>1. TypeOK /\ SafeInv /\ LeaveInv /\ OwnInv /\ ControlInv /\ RingInv /\ DataInv /\ CompleteInv
            /\ [Next]_vars => CompleteInv'
    BY NextComplete
  <1> QED BY <1>1, InitComplete, MediumInvariant, PTL DEF Spec

\* With the writer that flushes one slot at a time, a capture that
\* execute_write_with_result_mode reports as good is on the medium whole and in
\* order: each frame the engine completed before it halted was harvested once, queued
\* at its own LBA, written from its own DDR slot and drained before the result.
THEOREM CompleteWhenGood ==
  ASSUME ~CrossSlot PROVE Spec => []GoodCaptureIsComplete
  <1>1. TypeOK /\ SafeInv /\ ControlInv /\ DataInv /\ CompleteInv => GoodCaptureIsComplete
    <2> SUFFICES ASSUME TypeOK, ControlInv, DataInv, CompleteInv, result = "ok"
                 PROVE  /\ captured = [n \in 1 .. Len(frames) |-> n]
                        /\ \A l \in 1 .. Len(frames) : media[l] = l
      BY DEF GoodCaptureIsComplete
    <2>1. integrity /\ ppc = "done" /\ items = <<>> /\ inflight = {} /\ batch = <<>>
      BY DEF CompleteInv, PathInv, ControlInv
    <2>2. Len(captured) = Len(frames)
      BY <2>1 DEF CompleteInv, EndInv, Ending
    <2>3. InOrder
      BY <2>1 DEF CompleteInv, SeqInv, ExactRing, BatchWritable
    <2>4. captured = [n \in 1 .. Len(frames) |-> n]
      <3>1. captured \in Seq(1 .. MaxFrames)
        BY DataTypes
      <3>2. captured = [n \in 1 .. Len(captured) |-> captured[n]]
        BY <3>1
      <3> QED BY <2>2, <2>3, <3>2 DEF InOrder
    <2>5. ASSUME NEW l \in 1 .. Len(frames) PROVE media[l] = l
      <3>1. l \in Lbas /\ l <= Len(captured) /\ l \in 1 .. Len(captured)
        <4>1. Len(frames) \in Nat /\ Len(frames) <= MaxFrames
          BY SeqFacts DEF TypeOK, DmaTypeOK
        <4> QED BY <2>2, <4>1, DmaRingAssumption DEF Lbas
      <3>2. media[l] # 0
        BY <2>1, <3>1 DEF CompleteInv, Cover
      <3>3. media[l] = captured[l]
        BY <3>1, <3>2 DEF DataInv, OnMedium
      <3> QED BY <2>3, <3>1, <3>3 DEF InOrder
    <2> QED BY <2>4, <2>5
  <1> QED BY <1>1, CompleteInvariant, PTL

\* With that writer the engine of a capture that is still good never fetches a
\* descriptor whose Completed bit is set: dma_requeue_one clears the status word before
\* it moves TAILDESC, and TAILDESC is never moved past a slot that was not given back.
THEOREM NeverStaleFetch ==
  ASSUME ~CrossSlot PROVE Spec => []NoStaleFetch
  <1>1. TypeOK /\ SafeInv /\ ControlInv /\ DataInv /\ CompleteInv => NoStaleFetch
    <2> SUFFICES ASSUME TypeOK, SafeInv, CompleteInv, integrity, curdesc \in HwWindow
                 PROVE  bd[curdesc] = 0
      BY DEF NoStaleFetch
    <2>1. ~dma_quiesced /\ curdesc \in Slots
      BY DEF HwWindow, SafeInv
    <2>2. Arrived /\ Given
      BY <2>1 DEF CompleteInv, SeqInv, ExactRing
    <2>3. Waiting <= D(curdesc) /\ D(curdesc) < dma_hw_desc_count
      BY <2>2 DEF Given
    <2>4. curdesc \in Offered(slots, batch)
      BY <2>1, <2>2, <2>3 DEF Given
    <2>5. D(curdesc) >= Waiting
      BY <2>1, <2>3, SeqFacts
    <2> QED BY <2>2, <2>4, <2>5 DEF Arrived
  <1> QED BY <1>1, CompleteInvariant, PTL
=============================================================================
