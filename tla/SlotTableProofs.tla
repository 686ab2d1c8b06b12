--------------------------- MODULE SlotTableProofs ---------------------------
(***************************************************************************)
(* For every capacity: the six cached counters of the slot table equal the *)
(* numbers of slots in those states, so the callers that read only the     *)
(* counters see the table.                                                 *)
(***************************************************************************)
EXTENDS SlotTable, FiniteSetTheorems, TLAPS

\* The set of slots is finite and has NSlots members.
LEMMA SlotsFinite == IsFiniteSet(Slots) /\ Cardinality(Slots) = NSlots
  BY SlotTableAssumption, FS_Interval DEF Slots

\* Every class of slots in one state is finite.
LEMMA InStateFinite == \A st : IsFiniteSet(InState(st)) /\ Cardinality(InState(st)) \in Nat
  <1>1. \A st : InState(st) \subseteq Slots
    BY DEF InState
  <1> QED BY <1>1, SlotsFinite, FS_Subset, FS_CardinalityType

\* A transition takes the slot out of one class and puts it into another;
\* the counters follow.
LEMMA MoveKeepsCounts ==
  ASSUME TypeOK, CountsAgree,
         NEW slot \in Slots, NEW expected \in SlotStates, NEW next \in SlotStates,
         states[slot] = expected, expected # next,
         states' = [states EXCEPT ![slot] = next],
         counts' = Moved(counts, expected, next)
  PROVE  CountsAgree'
  <1>1. counts' \in [SlotStates -> Int] /\ states' \in [Slots -> SlotStates]
    BY DEF TypeOK, Moved
  <1>2. SUFFICES ASSUME NEW st \in SlotStates
                 PROVE  counts'[st] = Cardinality(InState(st)')
    BY DEF CountsAgree
  <1>3. CASE st = expected
    <2>1. InState(st)' = InState(st) \ {slot} /\ slot \in InState(st)
      BY <1>1, <1>3 DEF InState, TypeOK
    <2>2. Cardinality(InState(st)') = Cardinality(InState(st)) - 1
      BY <2>1, InStateFinite, FS_RemoveElement
    <2> QED BY <1>3, <2>2 DEF CountsAgree, TypeOK, Moved
  <1>4. CASE st = next
    <2>1. InState(st)' = InState(st) \cup {slot} /\ slot \notin InState(st)
      BY <1>1, <1>4 DEF InState, TypeOK
    <2>2. Cardinality(InState(st)') = Cardinality(InState(st)) + 1
      BY <2>1, InStateFinite, FS_AddElement
    <2> QED BY <1>4, <2>2 DEF CountsAgree, TypeOK, Moved
  <1>5. CASE st # expected /\ st # next
    <2>1. InState(st)' = InState(st)
      BY <1>1, <1>5 DEF InState, TypeOK
    <2> QED BY <1>5, <2>1 DEF CountsAgree, TypeOK, Moved
  <1> QED BY <1>3, <1>4, <1>5

IndInv == TypeOK /\ CountsAgree /\ table_valid(counts, total)

\* At start every slot is DMA-writable.
LEMMA InitInd == Init => IndInv
  <1> SUFFICES ASSUME Init PROVE IndInv
    OBVIOUS
  <1>1. TypeOK
    BY SlotTableAssumption DEF Init, TypeOK, SlotStates
  <1>2. InState("DMA_WRITABLE") = Slots
    BY DEF Init, InState
  <1>3. \A st \in SlotStates \ {"DMA_WRITABLE"} : InState(st) = {}
    BY DEF Init, InState, SlotStates
  <1>4. CountsAgree
    BY <1>2, <1>3, SlotsFinite, FS_EmptySet DEF Init, CountsAgree, SlotStates
  <1>5. table_valid(counts, total)
    BY SlotTableAssumption DEF Init, table_valid, CountSum, SlotStates
  <1> QED BY <1>1, <1>4, <1>5 DEF IndInv

\* An accepted transition decrements a counter that is not zero.
LEMMA MovedType ==
  ASSUME TypeOK, NEW slot \in 0 .. NSlots, NEW expected \in AnyState, NEW next \in AnyState,
         ~refuses(slot, expected, next)
  PROVE  /\ slot \in Slots /\ expected \in SlotStates /\ next \in SlotStates
         /\ states[slot] = expected /\ expected # next
         /\ Moved(counts, expected, next) \in [SlotStates -> Nat]
  <1>1. /\ slot \in Slots /\ expected \in SlotStates /\ next \in SlotStates
        /\ states[slot] = expected /\ expected # next /\ counts[expected] # 0
    BY DEF refuses
  <1>2. Moved(counts, expected, next) \in [SlotStates -> Nat]
    BY <1>1 DEF Moved, TypeOK
  <1> QED BY <1>1, <1>2

\* Every call keeps the invariant.
LEMMA NextInd == IndInv /\ [Next]_vars => IndInv'
  <1> SUFFICES ASSUME IndInv, [Next]_vars PROVE IndInv'
    OBVIOUS
  <1>1. CASE UNCHANGED vars
    BY <1>1 DEF vars, IndInv, TypeOK, CountsAgree, InState, table_valid
  <1>2. CASE Next
    <2>1. PICK slot \in 0 .. NSlots, expected \in AnyState, next \in AnyState :
              \/ slot_transition(slot, expected, next)
              \/ slot_transition_refused(slot, expected, next)
      BY <1>2 DEF Next
    <2>2. CASE slot_transition_refused(slot, expected, next)
      BY <1>1, <2>2 DEF slot_transition_refused
    <2>3. CASE slot_transition(slot, expected, next)
      <3>1. /\ slot \in Slots /\ expected \in SlotStates /\ next \in SlotStates
            /\ states[slot] = expected /\ expected # next
            /\ Moved(counts, expected, next) \in [SlotStates -> Nat]
        BY <2>3, MovedType DEF IndInv, slot_transition, accepts
      <3>2. TypeOK'
        BY <2>3, <3>1 DEF IndInv, TypeOK, slot_transition
      <3>3. CountsAgree'
        BY <2>3, <3>1, MoveKeepsCounts DEF IndInv, slot_transition
      <3>4. table_valid(counts, total)'
        BY <2>3 DEF slot_transition, accepts, table_valid
      <3> QED BY <3>2, <3>3, <3>4 DEF IndInv
    <2> QED BY <2>1, <2>2, <2>3
  <1> QED BY <1>1, <1>2

\* The table keeps its type: no counter goes below zero.
THEOREM SlotTableTypeOK == Spec => []TypeOK
  <1>1. IndInv => TypeOK
    BY DEF IndInv
  <1> QED BY <1>1, InitInd, NextInd, PTL DEF Spec

\* The counters storage_slot_table keeps never drift from the slot states.
THEOREM SlotCountersExact == Spec => []CountsAgree
  <1>1. IndInv => CountsAgree
    BY DEF IndInv
  <1> QED BY <1>1, InitInd, NextInd, PTL DEF Spec
==============================================================================
