------------------------------- MODULE DmaRing -------------------------------
(***************************************************************************)
(* The S2MM scatter-gather ring of one channel: the AXI DMA engine that    *)
(* fills DDR slots (external hardware, modelled from how src/src/ccb_hw.c  *)
(* drives it), and the dma_* functions with which the worker starts it,    *)
(* harvests completed descriptors, gives slots back and stops it.          *)
(*                                                                         *)
(* A buffer descriptor (BD) is a slot.  Its status word is 0 when cleared, *)
(* and f when the engine has set Completed for the f-th received buffer    *)
(* ("frame").  Frames are named by their order of arrival; the kind of     *)
(* frame f says what its status word reports:                              *)
(*   mid    a full buffer, the packet goes on (no RXEOF)                   *)
(*   eof    a sector-aligned buffer that ends the packet (RXEOF)           *)
(*   short  a buffer that ends the packet off a sector boundary            *)
(*   inv    a zero or oversized byte count                                 *)
(*   bad    one of the descriptor error bits is set                        *)
(***************************************************************************)
EXTENDS Integers, Sequences, FiniteSets, FiniteSetsExt

CONSTANTS
    NSlots,       \* rt->dma_desc_count
    MaxFrames,    \* bound: frames the source sends
    Kinds,        \* kinds of frame the source may send
    HarvestMax,   \* harvest_items[] limit of one dma_harvest_batch call
    Faults        \* which external faults happen; see CaptureWorker

ASSUME DmaRingAssumption ==
    /\ NSlots \in Nat \ {0}
    /\ MaxFrames \in Nat
    /\ HarvestMax \in Nat \ {0}
    /\ Kinds \subseteq {"mid", "eof", "short", "inv", "bad"}

Slots == 0 .. NSlots - 1
Succ(s) == (s + 1) % NSlots

VARIABLES
    \* engine registers and memory
    dmasr,                \* "halted", "running", "stopping" (RS cleared) or "error"
    curdesc, taildesc,    \* next BD the engine fetches; last BD it may fetch
    dma_idle,             \* the BD at TAILDESC was processed
    bd,                   \* BD status words
    ddr,                  \* the frame each DDR slot holds (0: none)
    frames,               \* kinds of the frames received so far
    \* ChannelRuntime fields
    next_harvest_bd, dma_hw_desc_count,
    dma_stop_latched,     \* also stands for ~dma_requeue_enabled
    dma_rx_packet_open,
    dma_requeue_after_stop_count

engineVars == <<dmasr, curdesc, taildesc, dma_idle, bd, ddr, frames>>
ringVars == <<next_harvest_bd, dma_hw_desc_count, dma_stop_latched,
              dma_rx_packet_open, dma_requeue_after_stop_count>>
dmaVars == <<dmasr, curdesc, taildesc, dma_idle, bd, ddr, frames,
             next_harvest_bd, dma_hw_desc_count, dma_stop_latched,
             dma_rx_packet_open, dma_requeue_after_stop_count>>

\* dma_prepare_s2mm_ring: status words cleared, engine reset and halted.
DmaInit ==
    /\ dmasr = "halted" /\ curdesc = 0 /\ taildesc = 0 /\ dma_idle = TRUE
    /\ bd = [s \in Slots |-> 0]
    /\ ddr = [s \in Slots |-> 0]
    /\ frames = <<>>
    /\ next_harvest_bd = 0 /\ dma_hw_desc_count = 0
    /\ dma_stop_latched = FALSE /\ dma_rx_packet_open = FALSE
    /\ dma_requeue_after_stop_count = 0

DmaTypeOK ==
    /\ dmasr \in {"halted", "running", "stopping", "error"}
    /\ curdesc \in Slots /\ taildesc \in Slots /\ dma_idle \in BOOLEAN
    /\ bd \in [Slots -> 0 .. MaxFrames] /\ ddr \in [Slots -> 0 .. MaxFrames]
    /\ frames \in Seq(Kinds) /\ Len(frames) <= MaxFrames
    /\ next_harvest_bd \in Slots /\ dma_hw_desc_count \in 0 .. NSlots
    /\ dma_stop_latched \in BOOLEAN /\ dma_rx_packet_open \in BOOLEAN
    /\ dma_requeue_after_stop_count \in Nat

------------------------------------------------------------------------------
(* The engine (external, PG021 tail-pointer mode).                         *)

Eof(f) == frames[f] \in {"eof", "short", "inv"}
Sof(f) == f = 1 \/ Eof(f - 1)

\* The BDs the engine may still fetch and write: CURDESC up to TAILDESC.
HwWindow == IF dma_idle \/ dmasr \notin {"running", "stopping"} THEN {}
            ELSE {s \in Slots : (s - curdesc) % NSlots <= (taildesc - curdesc) % NSlots}

\* The engine fetches the next BD.  A cleared one receives a frame, ...
HwReceive(kind) ==
    /\ curdesc \in HwWindow
    /\ bd[curdesc] = 0
    /\ Len(frames) < MaxFrames
    /\ frames' = Append(frames, kind)
    /\ bd' = [bd EXCEPT ![curdesc] = Len(frames) + 1]
    /\ ddr' = [ddr EXCEPT ![curdesc] = Len(frames) + 1]
    /\ curdesc' = Succ(curdesc)
    /\ dma_idle' = (curdesc = taildesc)
    /\ UNCHANGED <<dmasr, taildesc, ringVars>>

\* ... and one that still has Completed set raises SGIntErr and stops the engine.
HwFetchStale ==
    /\ curdesc \in HwWindow
    /\ bd[curdesc] # 0
    /\ dmasr' = "error"
    /\ UNCHANGED <<curdesc, taildesc, dma_idle, bd, ddr, frames, ringVars>>

\* The engine halts some time after RS is cleared.
HwHalt ==
    /\ dmasr = "stopping"
    /\ dmasr' = "halted"
    /\ UNCHANGED <<curdesc, taildesc, dma_idle, bd, ddr, frames, ringVars>>

\* A bus or internal error stops it at any time.
HwFault ==
    /\ "dma" \in Faults
    /\ dmasr \in {"running", "stopping"}
    /\ dmasr' = "error"
    /\ UNCHANGED <<curdesc, taildesc, dma_idle, bd, ddr, frames, ringVars>>

------------------------------------------------------------------------------
(* ccb_hw.c                                                                *)

\* dma_start_s2mm_ring: RS set, TAILDESC at the last BD, all BDs the engine's.
dma_start_s2mm_ring ==
    /\ dmasr' = "running" /\ curdesc' = 0 /\ taildesc' = NSlots - 1 /\ dma_idle' = FALSE
    /\ dma_hw_desc_count' = NSlots
    /\ next_harvest_bd' = 0
    /\ dma_stop_latched' = FALSE
    /\ UNCHANGED <<bd, ddr, frames, dma_rx_packet_open, dma_requeue_after_stop_count>>

\* A requeue that never writes the status word.
requeue_keeps_completed(slot) == bd

\* dma_requeue_one clears the status word before TAILDESC moves.
clear_completed(slot) == [bd EXCEPT ![slot] = 0]

\* dma_requeue_one after the stop latch returns -2 and only counts.
requeue_refused == dma_stop_latched

\* The register checks of dma_requeue_one after the TAILDESC write.
requeue_ok == dmasr = "running" /\ dma_hw_desc_count < NSlots

dma_requeue_one(slot) ==
    IF requeue_refused
    THEN /\ dma_requeue_after_stop_count' = dma_requeue_after_stop_count + 1
         /\ UNCHANGED <<engineVars, next_harvest_bd, dma_hw_desc_count,
                        dma_stop_latched, dma_rx_packet_open>>
    ELSE /\ bd' = clear_completed(slot)
         /\ taildesc' = slot
         /\ dma_idle' = FALSE
         /\ dma_hw_desc_count' = IF requeue_ok THEN dma_hw_desc_count + 1
                                 ELSE dma_hw_desc_count
         /\ UNCHANGED <<dmasr, curdesc, ddr, frames, next_harvest_bd, dma_stop_latched,
                        dma_rx_packet_open, dma_requeue_after_stop_count>>

\* The i-th BD (from 0) a harvest looks at.
NthBd(i) == (next_harvest_bd + i) % NSlots
Completed(i) == bd[NthBd(i)] # 0 /\ frames[bd[NthBd(i)]] # "bad"
ErrorBit(i) == bd[NthBd(i)] # 0 /\ frames[bd[NthBd(i)]] = "bad"

Least(a, b) == IF a <= b THEN a ELSE b

\* A harvest bound that ignores the hardware-owned count.
HarvestLimitIgnoresCount(allow_halted) == Least(HarvestMax, NSlots)

\* dma_harvest_batch may take only BDs it believes the engine was given; after
\* the stop (allow_halted) the count is ignored, a reset has zeroed it.
HarvestLimit(allow_halted) ==
    Least(HarvestMax, IF allow_halted THEN NSlots ELSE dma_hw_desc_count)

\* The engine has failed, or has halted while it should run.
EngineStopped(allow_halted) == dmasr = "error" \/ (~allow_halted /\ dmasr = "halted")

\* dma_harvest_batch_impl: possible numbers of items.  A stopped engine may have
\* stopped before any item; the 100 us budget of a running harvest may end it
\* after any item; otherwise it takes all it can.
HarvestCounts(allow_halted) ==
    LET limit == HarvestLimit(allow_halted)
        exhausted(k) == k = limit \/ ~Completed(k)
    IN  {k \in 0 .. limit :
            /\ \A i \in 0 .. k - 1 : Completed(i)
            /\ CASE EngineStopped(allow_halted) -> k < limit \/ limit = 0
                 [] allow_halted -> exhausted(k)
                 [] OTHER -> k > 0 \/ exhausted(0)}

\* Whether k items may be returned with the code -1: the engine has stopped, or
\* the next BD has an error bit (unless the budget ended before it was read).
HarvestFailures(allow_halted, k) ==
    CASE k = HarvestLimit(allow_halted) -> {FALSE}
      [] EngineStopped(allow_halted) -> {TRUE}
      [] ErrorBit(k) -> IF allow_halted \/ k = 0 THEN {TRUE} ELSE BOOLEAN
      [] OTHER -> {FALSE}

HarvestedItems(k) == [i \in 1 .. k |-> [slot |-> NthBd(i - 1), frame |-> bd[NthBd(i - 1)]]]

\* RXSOF opens a packet, RXEOF closes it; a continuation leaves it as it was.
PacketOpenAfter(items) ==
    LET marks == {i \in DOMAIN items : Sof(items[i].frame) \/ Eof(items[i].frame)}
    IN  IF marks = {} THEN dma_rx_packet_open ELSE ~Eof(items[Max(marks)].frame)

\* A stop harvest clears the status words it consumed, a running one does not.
BdAfterHarvest(items, allow_halted) ==
    IF allow_halted THEN [s \in Slots |-> IF \E i \in DOMAIN items : items[i].slot = s
                                          THEN 0 ELSE bd[s]]
    ELSE bd

\* A count that is decremented whether or not the engine owned anything.
HwOwnedUnderflow(k) == dma_hw_desc_count - k

\* Each harvested BD leaves the engine, but a reset has zeroed the count.
HwOwnedAfter(k) == dma_hw_desc_count - Least(dma_hw_desc_count, k)

dma_harvest(items, allow_halted) ==
    LET k == Len(items) IN
    /\ bd' = BdAfterHarvest(items, allow_halted)
    /\ next_harvest_bd' = NthBd(k)
    /\ dma_hw_desc_count' = HwOwnedAfter(k)
    /\ dma_rx_packet_open' = PacketOpenAfter(items)
    /\ UNCHANGED <<dmasr, curdesc, taildesc, dma_idle, ddr, frames,
                   dma_stop_latched, dma_requeue_after_stop_count>>

\* dma_latch_stop
dma_latch_stop ==
    /\ dma_stop_latched' = TRUE
    /\ UNCHANGED <<engineVars, next_harvest_bd, dma_hw_desc_count,
                   dma_rx_packet_open, dma_requeue_after_stop_count>>

\* dma_s2mm_tail_incomplete (a partial BD never exposes its length here).
dma_tail_incomplete == dma_rx_packet_open

\* completed_unharvested of dma_get_bd_snapshot, given the slot states.
CompletedUnharvested(slot_states) ==
    Cardinality({s \in Slots : \/ slot_states[s] = "DMA_WRITABLE" /\ bd[s] # 0
                               \/ slot_states[s] = "DMA_COMPLETED_UNHARVESTED"})

\* dma_quiesce_s2mm_with_state, first half: RS is cleared.
clear_run_stop ==
    /\ dmasr' = IF dmasr = "running" THEN "stopping" ELSE dmasr
    /\ UNCHANGED <<curdesc, taildesc, dma_idle, bd, ddr, frames, ringVars>>

\* dma_stop_reset_safe
dma_stop_reset_safe == dma_stop_latched /\ dmasr # "error" /\ ~dma_rx_packet_open

\* Second half: wait for Halted; on the deadline reset only if that is safe.
QuiesceOutcomes ==
    CASE dmasr = "error" -> {"FAILED"}
      [] dmasr = "halted" -> {"OK"}
      [] OTHER -> IF ~dma_stop_reset_safe THEN {"FAILED"}
                  ELSE IF "reset" \in Faults THEN {"FAILED", "RESET_RECOVERED"}
                  ELSE {"RESET_RECOVERED"}

dma_quiesce(outcome) ==
    IF outcome = "RESET_RECOVERED"
    THEN /\ dmasr' = "halted" /\ dma_hw_desc_count' = 0
         /\ UNCHANGED <<curdesc, taildesc, dma_idle, bd, ddr, frames, next_harvest_bd,
                        dma_stop_latched, dma_rx_packet_open, dma_requeue_after_stop_count>>
    ELSE UNCHANGED dmaVars

\* dma_finalize_stop_s2mm_with_state: the last reset, refused while a packet is
\* open or a completed BD has not been harvested.
FinalizeRefused(slot_states) ==
    \/ ~dma_stop_latched
    \/ dma_tail_incomplete
    \/ CompletedUnharvested(slot_states) # 0

FinalizeOutcomes(slot_states, quiesced) ==
    IF quiesced = "RESET_RECOVERED" THEN {"RESET_RECOVERED"}
    ELSE IF FinalizeRefused(slot_states) THEN {"FAILED"}
    ELSE IF "reset" \in Faults THEN {"OK", "FAILED"} ELSE {"OK"}

dma_finalize(outcome, slot_states) ==
    /\ dma_hw_desc_count' = IF outcome = "RESET_RECOVERED" \/ FinalizeRefused(slot_states)
                            THEN dma_hw_desc_count ELSE 0
    /\ dmasr' = IF outcome = "OK" THEN "halted" ELSE dmasr
    /\ UNCHANGED <<curdesc, taildesc, dma_idle, bd, ddr, frames, next_harvest_bd,
                   dma_stop_latched, dma_rx_packet_open, dma_requeue_after_stop_count>>
==============================================================================
