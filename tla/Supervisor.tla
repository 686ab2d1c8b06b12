----------------------------- MODULE Supervisor -----------------------------
(***************************************************************************)
(* The task supervisor of ccb_storage_supervisor.c: the parent's record of *)
(* what the storage workers of one capture have reported, and the verdict  *)
(* it derives from it.  The functions of the C file are operators from one *)
(* record to the next; StorageTask drives them.                            *)
(*                                                                         *)
(* The channel masks are sets of channels.  Error codes, reasons and byte  *)
(* counts are left out: a final result is "good", "short" (whole, but with *)
(* fewer bytes than a good one) or "bad" (a flag or a byte count of the    *)
(* WriteResult says that data is missing).                                 *)
(***************************************************************************)
EXTENDS Naturals, FiniteSets

CONSTANTS
    Channels,    \* the channels of the file plan
    SplitPair    \* ch0 and ch1, which carry the halves of one stream

ASSUME ChannelsAssumption ==
    Channels \subseteq Nat /\ IsFiniteSet(Channels) /\ Channels # {}

ASSUME SplitPairAssumption == \A c, d \in SplitPair : c # d => SplitPair = {c, d}

Results == {"good", "short", "bad"}

\* Time stamps that name a stop.  Two readings of the clock never agree, so
\* an epoch is known by who took it: the supervisor when every input was idle,
\* the parent for a STOP, or a worker that was given none.
NoEpoch == 0
DrainEpoch == 1
StopEpoch == 2
OwnEpoch(c) == 3 + c
Epochs == {NoEpoch, DrainEpoch, StopEpoch} \cup {OwnEpoch(c) : c \in Channels}

\* StorageWorkerStopPhase: STOP_REQUESTED .. FINALIZED are 1 .. 6.
DmaQuiesced == 3
WriterDrained == 5
Finalized == 6
FailedFatal == 7

SupervisorInit(target) ==
    [target |-> target, ready |-> {}, armed |-> {}, running |-> {},
     idle |-> {}, drained |-> {}, final |-> {}, fatal |-> {},
     unavailable |-> {}, stopRequested |-> {}, stopSent |-> {},
     drainSent |-> {}, stopEpoch |-> NoEpoch, drainEpoch |-> NoEpoch,
     phase |-> [c \in Channels |-> 0],
     result |-> [c \in Channels |-> "bad"],
     failed |-> FALSE, aggregateReady |-> FALSE, emitted |-> FALSE,
     terminal |-> "ACTIVE"]

-----------------------------------------------------------------------------
\* Mutant: a failure after the aggregate leaves the verdict.
FailQuietly(s) ==
    [s EXCEPT !.failed = TRUE, !.stopRequested = @ \cup (s.target \ s.final)]

\* The first failure asks every channel that has not finished to stop; after
\* the aggregate was formed it also turns the verdict.
Fail(s) ==
    [s EXCEPT !.failed = TRUE,
              !.stopRequested = @ \cup (s.target \ s.final),
              !.terminal = IF s.aggregateReady THEN "FAILED" ELSE @]

\* Mutant: the halves of the split stream are not compared.
EachGood(s) == \A c \in s.target : s.result[c] # "bad"

AllGood(s) ==
    /\ \A c \in s.target : s.result[c] # "bad"
    /\ SplitPair \subseteq s.target
          => \A c, d \in SplitPair : s.result[c] = s.result[d]

\* The verdict falls once, when every channel has reported or is lost.
ResultStatus(s) ==
    IF s.terminal # "ACTIVE" \/ s.final \cup s.unavailable # s.target
    THEN s
    ELSE [s EXCEPT !.aggregateReady = TRUE,
                   !.terminal = IF ~s.failed /\ s.unavailable = {} /\ AllGood(s)
                                THEN "SUCCESS" ELSE "FAILED"]

MarkUnavailable(s, lost) ==
    ResultStatus(Fail([s EXCEPT !.unavailable = @ \cup lost]))

HandleWorkerEof(s, c) ==
    IF c \in s.final THEN s
    ELSE ResultStatus([Fail(s) EXCEPT !.unavailable = @ \cup {c}])

HandleWorkerExit(s, c, code) ==
    ResultStatus(
        IF c \notin s.final THEN [Fail(s) EXCEPT !.unavailable = @ \cup {c}]
        ELSE IF code # 0 THEN Fail(s)
        ELSE s)

-----------------------------------------------------------------------------
\* storage_supervisor_handle_event.  Which events are in order, ...
InOrder(s, c, e) ==
    CASE e.type = "READY"   -> c \notin s.ready \cup s.armed \cup s.running
      [] e.type = "ARMED"   -> c \in s.ready \ (s.armed \cup s.running)
      [] e.type = "RUNNING" -> c \in s.armed \ s.running
      [] e.type = "IDLE"    -> c \in s.running \ (s.drained \cup s.final)
      [] e.type = "ACTIVE"  -> /\ c \in s.running \ (s.drained \cup s.final)
                               /\ s.drainEpoch = NoEpoch
      [] e.type = "DRAIN_READY" ->
            c \in s.running \ (s.drained \cup s.final) /\ e.epoch # NoEpoch
      [] e.type = "STOP_PHASE" -> c \in s.running \ s.final /\ e.epoch # NoEpoch
      [] e.type = "FATAL"   -> c \notin s.final \cup s.fatal
      [] e.type = "FINAL"   -> c \in (s.drained \cup s.fatal) \ s.final

\* ... which of them carry the epoch of a stop, ...
CarriesEpoch(e) == e.type \in {"DRAIN_READY", "STOP_PHASE"}

AdoptEpoch(s, e) ==
    IF CarriesEpoch(e) /\ s.stopEpoch = NoEpoch
    THEN [s EXCEPT !.stopEpoch = e.epoch] ELSE s

\* ... whether that is the epoch the others stop at and the phase the next
\* one (the packet boundary may be skipped when waiting for it timed out), ...
Agrees(s, c, e) ==
    /\ CarriesEpoch(e) => e.epoch = s.stopEpoch
    /\ e.type = "STOP_PHASE" =>
          IF e.phase = FailedFatal THEN s.phase[c] # FailedFatal
          ELSE \/ e.phase = s.phase[c] + 1
               \/ s.phase[c] = 1 /\ e.phase = DmaQuiesced /\ e.late

\* ... and what an accepted event records.
Record(s, c, e) ==
    CASE e.type = "READY"   -> [s EXCEPT !.ready = @ \cup {c}]
      [] e.type = "ARMED"   -> [s EXCEPT !.armed = @ \cup {c}]
      [] e.type = "RUNNING" -> [s EXCEPT !.running = @ \cup {c}]
      [] e.type = "IDLE"    -> [s EXCEPT !.idle = @ \cup {c}]
      [] e.type = "ACTIVE"  -> [s EXCEPT !.idle = @ \ {c}]
      [] e.type = "DRAIN_READY" -> [s EXCEPT !.drained = @ \cup {c}]
      [] e.type = "STOP_PHASE"  -> [s EXCEPT !.phase[c] = e.phase]
      [] e.type = "FATAL"   -> Fail([s EXCEPT !.fatal = @ \cup {c}])
      [] e.type = "FINAL"   -> [s EXCEPT !.final = @ \cup {c},
                                         !.result[c] = e.result]

Accept(s, c, e) ==
    IF Agrees(s, c, e)
    THEN [ok |-> TRUE, sup |-> ResultStatus(Record(s, c, e))]
    ELSE [ok |-> FALSE, sup |-> Fail(s)]

HandleEvent(s, c, e) ==
    IF InOrder(s, c, e) THEN Accept(AdoptEpoch(s, e), c, e)
    ELSE [ok |-> FALSE, sup |-> Fail(s)]

-----------------------------------------------------------------------------
\* The inputs of all channels are idle and no drain has begun.
AutoDrainReady(s) ==
    s.drainEpoch = NoEpoch /\ s.target # {} /\ s.target \subseteq s.idle

BeginAutoDrain(s) == [s EXCEPT !.drainEpoch = DrainEpoch]

MarkAutoDrainSent(s, sent) == [s EXCEPT !.drainSent = @ \cup sent]

AutoDrainPending(s) == IF s.drainEpoch = NoEpoch THEN {} ELSE s.target \ s.drainSent

\* Mutant: only channels that already run are stopped.
RequestStopRunning(s, mask) ==
    [s EXCEPT !.stopRequested = @ \cup (mask \cap s.running)]

RequestStop(s, mask) ==
    [s EXCEPT !.stopRequested = @ \cup (mask \cap s.target)]

\* A stop that was sent is on record with its epoch.
MarkStopSent(s, sent, epoch) ==
    [s EXCEPT !.stopSent = @ \cup sent,
              !.stopEpoch = IF @ = NoEpoch THEN epoch ELSE @]

PendingStops(s) == s.stopRequested \ s.stopSent
=============================================================================
