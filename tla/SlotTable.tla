------------------------------ MODULE SlotTable ------------------------------
(***************************************************************************)
(* The DDR slot ownership table (src/src/storage_queue.c).  Every slot has *)
(* one of six states, and the table caches how many slots are in each, so  *)
(* that the capture path never scans the ring: the producer decides that   *)
(* the ring is exhausted, and push_batch that a harvest fits, from the     *)
(* cached counts alone.                                                    *)
(***************************************************************************)
EXTENDS Integers, FiniteSets

CONSTANT NSlots          \* table->capacity, fixed by storage_slot_table_init

ASSUME SlotTableAssumption == NSlots \in Nat \ {0}

Slots == 0 .. NSlots - 1

SlotStates == {"DMA_WRITABLE", "DMA_COMPLETED_UNHARVESTED", "READY_FOR_NVME",
               "NVME_BUSY", "REQUEUE_PENDING", "FREE"}

\* A caller may pass a state number outside the enum (count_for_state: default).
AnyState == SlotStates \cup {"INVALID"}

VARIABLES
    states,     \* states[slot]
    counts,     \* counts[state], the six cached counters
    total       \* counts.total

vars == <<states, counts, total>>

CountSum(c) == c["DMA_WRITABLE"] + c["DMA_COMPLETED_UNHARVESTED"]
                 + c["READY_FOR_NVME"] + c["NVME_BUSY"]
                 + c["REQUEUE_PENDING"] + c["FREE"]

\* storage_slot_table_valid
table_valid(c, t) == t = NSlots /\ CountSum(c) = t

\* storage_slot_table_init
Init == /\ states = [s \in Slots |-> "DMA_WRITABLE"]
        /\ counts = [st \in SlotStates |-> IF st = "DMA_WRITABLE" THEN NSlots ELSE 0]
        /\ total = NSlots

Moved(c, expected, next) ==
    [c EXCEPT ![expected] = @ - 1, ![next] = @ + 1]

\* A faulty refuses that trusts the caller about the state of the slot.
refuses_unchecked_state(slot, expected, next) ==
    \/ ~table_valid(counts, total)
    \/ slot \notin Slots
    \/ expected = next
    \/ expected \notin SlotStates
    \/ next \notin SlotStates
    \/ counts[expected] = 0

\* The early returns of storage_slot_transition.
refuses(slot, expected, next) ==
    \/ ~table_valid(counts, total)
    \/ slot \notin Slots
    \/ states[slot] # expected
    \/ expected = next
    \/ expected \notin SlotStates
    \/ next \notin SlotStates
    \/ counts[expected] = 0

\* storage_slot_transition that returns 0; the counters are checked again
\* after the move, and the move undone when they no longer add up.
accepts(slot, expected, next) ==
    ~refuses(slot, expected, next) /\ table_valid(Moved(counts, expected, next), total)

slot_transition(slot, expected, next) ==
    /\ accepts(slot, expected, next)
    /\ states' = [states EXCEPT ![slot] = next]
    /\ counts' = Moved(counts, expected, next)
    /\ UNCHANGED total

\* storage_slot_transition that returns -1: nothing changes.
slot_transition_refused(slot, expected, next) ==
    ~accepts(slot, expected, next) /\ UNCHANGED vars

\* Any caller, with any slot number and any pair of states.
Next == \E slot \in 0 .. NSlots, expected, next \in AnyState :
            \/ slot_transition(slot, expected, next)
            \/ slot_transition_refused(slot, expected, next)

Spec == Init /\ [][Next]_vars

------------------------------------------------------------------------------
InState(st) == {s \in Slots : states[s] = st}

\* The types, for the proofs: a counter is decremented only when it is positive.
TypeOK == /\ states \in [Slots -> SlotStates]
          /\ counts \in [SlotStates -> Nat]
          /\ total \in Nat

\* The cached counters never drift from the table: each equals the number of
\* slots really in that state, whatever calls were made and refused.  The
\* ring-exhausted and queue-capacity decisions read only the counters.
CountsAgree == \A st \in SlotStates : counts[st] = Cardinality(InState(st))
==============================================================================
