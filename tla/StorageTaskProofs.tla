-------------------------- MODULE StorageTaskProofs --------------------------
(***************************************************************************)
(* Proofs about StorageTask for every set of channels and every bound on   *)
(* tasks and faults.                                                       *)
(*                                                                         *)
(* The parent's handlers are operators from one parent state to the next,  *)
(* so an invariant is a predicate on a parent state S and on the workers.  *)
(* Sound holds wherever one handler calls another; Judged, that a verdict  *)
(* is emitted as soon as it falls, only between the steps.                 *)
(***************************************************************************)
EXTENDS StorageTask, FiniteSetTheorems, SequenceTheorems, TLAPS

-----------------------------------------------------------------------------
(* Types.                                                                  *)

Mask == SUBSET Channels
Verdicts == {"ACTIVE", "SUCCESS", "FAILED"}
Answers == {"none", "ok", "failed"}

Supervisors ==
    [target : Mask, ready : Mask, armed : Mask, running : Mask, idle : Mask, drained : Mask,
     final : Mask, fatal : Mask, unavailable : Mask, stopRequested : Mask, stopSent : Mask,
     drainSent : Mask, stopEpoch : Nat, drainEpoch : Nat, phase : [Channels -> Nat],
     result : [Channels -> Results], failed : BOOLEAN, aggregateReady : BOOLEAN,
     emitted : BOOLEAN, terminal : Verdicts]
Captures == [state : Busy \cup {"IDLE", "DONE", "FAILED"}, epoch : Nat]
Children ==
    [live : BOOLEAN, state : {"IDLE", "RUNNING", "ERROR"}, control : BOOLEAN, event : BOOLEAN,
     gaveUp : BOOLEAN, ready : BOOLEAN, armed : BOOLEAN, running : BOOLEAN, fatal : BOOLEAN,
     final : Results \cup {"none"}]
Starts == [active : BOOLEAN, prepare : BOOLEAN,
           phase : {"NONE", "PREP_READY", "ARM_WAIT", "RUN_WAIT", "FAILED"}]
Stops == [active : BOOLEAN, forced : BOOLEAN]
Logs == [tasks : Nat, committed : BOOLEAN, cause : BOOLEAN, startAck : Answers, stopAck : Answers]
Messages == [type : {"ARM", "RUN", "STOP", "AUTO_DRAIN"}, epoch : Nat]
Events ==
    [type : {"READY", "ARMED", "RUNNING", "IDLE", "ACTIVE", "FATAL"}]
       \cup [type : {"STOP_PHASE"}, phase : 0 .. FailedFatal, epoch : Nat, late : BOOLEAN]
       \cup [type : {"DRAIN_READY"}, epoch : Nat]
       \cup [type : {"FINAL"}, result : Results]

ParentStates ==
    [sup : Supervisors, cap : Captures, task : [Channels -> Children], start : Starts,
     stop : Stops, log : Logs, ctl : [Channels -> Seq(Messages)], evt : [Channels -> Seq(Events)],
     proc : [Channels -> {"none", "alive", "closing", "zombie"}], killed : Mask]

WorkerPcs == {"boot", "arm", "run", "rec", "stopping", "wait", "final", "fatal", "exit",
              "hung", "gone"}
Workers ==
    [pc : WorkerPcs, epoch : Nat, stopLatched : BOOLEAN, result : Results, idle : BOOLEAN,
     idled : Nat, armed : BOOLEAN, failed : BOOLEAN, code : {0, 1}]

-----------------------------------------------------------------------------
(* The supervisor s, with the controller cp and the workers w.             *)

\* A worker that reads no stop any more, has drained its input, has sent its result.
Latched(v) == v.pc \in {"stopping", "wait", "final", "fatal", "exit", "hung"}
Drained(v) == v.pc \in {"wait", "final", "fatal", "exit", "hung"}
Ended(v) == v.pc \in {"exit", "hung"}

\* The verdict falls with the last report; what it found good stays good.
VerdictInv(s, cp) ==
    /\ s.target = {} \/ s.terminal # "ACTIVE" \/ s.final \cup s.unavailable # s.target
    /\ s.aggregateReady <=> s.terminal # "ACTIVE"
    /\ s.terminal = "SUCCESS" => /\ ~s.failed /\ s.unavailable = {} /\ s.final = s.target
                                 /\ AllGood(s)
    /\ s.emitted => s.terminal # "ACTIVE" /\ cp.state \notin Busy

\* What it has recorded of the workers, ...
RecordInv(s, w) ==
    /\ s.fatal # {} => s.failed
    /\ \A c \in s.drained :
          /\ Drained(w[c]) /\ w[c].epoch # NoEpoch
          /\ s.failed \/ s.emitted \/ s.stopEpoch = w[c].epoch
    /\ \A c \in s.final :
          /\ Ended(w[c]) /\ s.result[c] = w[c].result
          /\ c \in s.drained \/ s.failed

\* ... and a STOP has the epoch of the drain that it meets.
StopInv(s, cp) ==
    s.failed \/ s.emitted
    \/ IF cp.epoch # NoEpoch THEN s.stopEpoch = cp.epoch
       ELSE s.stopEpoch \in {NoEpoch, s.drainEpoch} /\ s.stopRequested = {}

SupInv(s, cp, w) == VerdictInv(s, cp) /\ RecordInv(s, w) /\ StopInv(s, cp)

-----------------------------------------------------------------------------
(* The parent state S.                                                     *)

\* A supervisor has a plan once the controller has left IDLE.
PlanInv(S) ==
    /\ S.start.active <=> S.start.phase # "NONE"
    /\ S.stop.active => S.log.tasks > 0
    /\ \/ S.sup.target = Channels /\ S.cap.state # "IDLE"
       \/ /\ S.sup.target = {} /\ S.cap = [state |-> "IDLE", epoch |-> NoEpoch]
          /\ ~S.start.active /\ (RejectedPlans \/ S.log.tasks = 0)
          /\ S.sup.drained = {} /\ S.sup.final = {} /\ \A c \in Channels : ~S.task[c].live

\* Who is not there any more has reported or is lost.
LiveInv(S) ==
    /\ \A c \in Channels : S.task[c].live <=> S.proc[c] # "none"
    /\ S.cap.state \in Busy
          => \A c \in Channels : S.task[c].live \/ c \in S.sup.final \cup S.sup.unavailable

\* The workers of a capture that may be listed.
Whole(w) ==
    /\ \A c \in Channels : Ended(w[c]) /\ w[c].result \in {"good", "short"}
    /\ \A c, d \in Channels : w[c].epoch = w[d].epoch /\ w[c].epoch # NoEpoch
    /\ \A c, d \in SplitPair \cap Channels : w[c].result = w[d].result

\* What the operator and the file list are told.
LogInv(S, w) ==
    /\ S.log.committed => S.sup.emitted /\ Whole(w)
    /\ RejectedPlans \/ /\ S.sup.emitted /\ S.sup.terminal = "SUCCESS" => S.log.committed
                        /\ S.log.stopAck = "ok" => S.log.committed

-----------------------------------------------------------------------------
(* The pipes of a child.                                                   *)

ArmedAll(w) == \A c \in Channels : w[c].armed

\* An event of the worker v, and a message to one of the workers w.
EventInv(e, v) ==
    /\ e.type = "ARMED" => v.armed
    /\ CarriesEpoch(e) => Latched(v)
    /\ e.type = "DRAIN_READY" => Drained(v) /\ e.epoch = v.epoch
    /\ e.type = "STOP_PHASE" /\ e.phase # FailedFatal => e.epoch = v.epoch
    /\ e.type = "FINAL" => Ended(v) /\ e.result = v.result

MessageInv(m, stopAt, drainAt) ==
    /\ m.type = "STOP" => m.epoch = stopAt /\ m.epoch # NoEpoch
    /\ m.type = "AUTO_DRAIN" => m.epoch = drainAt /\ m.epoch # NoEpoch
    /\ m.type \in {"ARM", "RUN"} => m.epoch = NoEpoch

\* FATAL comes before the phase FAILED_FATAL, whose epoch may be the worker's own.
IsOwn(e) == e.type = "STOP_PHASE" /\ e.phase = FailedFatal
FatalFirst(q) ==
    \A i \in DOMAIN q : IsOwn(q[i]) => \E j \in DOMAIN q : j < i /\ q[j].type = "FATAL"

PipeInv(S, w, c) ==
    /\ S.task[c].armed => w[c].armed
    /\ \A i \in DOMAIN S.ctl[c] : S.ctl[c][i].type = "RUN" => ArmedAll(w)
    /\ S.task[c].live =>
          /\ w[c].epoch \in {NoEpoch, S.cap.epoch, S.sup.drainEpoch}
          /\ \A i \in DOMAIN S.ctl[c] : MessageInv(S.ctl[c][i], S.cap.epoch, S.sup.drainEpoch)
          /\ \A i \in DOMAIN S.evt[c] : EventInv(S.evt[c][i], w[c])
          /\ S.sup.failed \/ FatalFirst(S.evt[c])

-----------------------------------------------------------------------------
Sound(S, w) ==
    /\ S \in ParentStates /\ SupInv(S.sup, S.cap, w) /\ PlanInv(S) /\ LiveInv(S)
    /\ LogInv(S, w) /\ \A c \in Channels : PipeInv(S, w, c)

\* Between two steps a verdict that has fallen is emitted, or the start has failed.
Judged(S) == \/ S.sup.terminal = "ACTIVE" \/ S.sup.emitted
             \/ S.sup.terminal = "FAILED" /\ S.cap.state \notin Busy

\* A worker records only when it was let through both gates.
WorkerInv(w) ==
    /\ w \in [Channels -> Workers]
    /\ \A c \in Channels : w[c].pc \in {"rec", "stopping", "wait", "final"} => ArmedAll(w)

TaskInv == WorkerInv(wk) /\ Sound(ParentState, wk) /\ Judged(ParentState)

-----------------------------------------------------------------------------
(* The operators of Supervisor.                                            *)

\* All of SupInv but that a due verdict has fallen.
Undecided(s, cp, w) ==
    /\ s.aggregateReady <=> s.terminal # "ACTIVE"
    /\ s.terminal = "SUCCESS" => /\ ~s.failed /\ s.unavailable = {} /\ s.final = s.target
                                 /\ AllGood(s)
    /\ s.emitted => s.terminal # "ACTIVE" /\ cp.state \notin Busy
    /\ RecordInv(s, w) /\ StopInv(s, cp)

\* What no event takes back.
Later(s, t) ==
    /\ t.target = s.target /\ t.emitted = s.emitted
    /\ t.drainEpoch = s.drainEpoch \/ s.drainEpoch = NoEpoch
    /\ s.failed => t.failed
    /\ s.final \cup s.unavailable \subseteq t.final \cup t.unavailable
    /\ s.terminal = "FAILED" => t.terminal = "FAILED"

LEMMA FailFields ==
  ASSUME NEW s \in Supervisors
  PROVE  /\ Fail(s) \in Supervisors /\ Later(s, Fail(s)) /\ Fail(s).failed
         /\ Fail(s).terminal = IF s.aggregateReady THEN "FAILED" ELSE s.terminal
         /\ Fail(s).aggregateReady = s.aggregateReady /\ Fail(s).final = s.final
         /\ Fail(s).unavailable = s.unavailable /\ Fail(s).drained = s.drained
         /\ Fail(s).fatal = s.fatal /\ Fail(s).result = s.result
         /\ Fail(s).stopEpoch = s.stopEpoch
         /\ Fail(s).aggregateReady <=> s.aggregateReady
  BY DEF Fail, Supervisors, Mask, Verdicts, Later

LEMMA FailUndecided ==
  ASSUME NEW s \in Supervisors, NEW cp, NEW w, Undecided(s, cp, w)
  PROVE  Undecided(Fail(s), cp, w)
  <1>1. Fail(s).emitted = s.emitted
    BY FailFields DEF Later
  <1> QED BY <1>1, FailFields DEF Undecided, RecordInv, StopInv, Supervisors, Mask, Verdicts

LEMMA FailSup ==
  ASSUME NEW s \in Supervisors, NEW cp, NEW w, SupInv(s, cp, w)
  PROVE  SupInv(Fail(s), cp, w)
  <1>1. Undecided(Fail(s), cp, w)
    BY FailUndecided DEF SupInv, VerdictInv, Undecided
  <1>2. Fail(s).target = s.target
    BY FailFields DEF Later
  <1> QED BY <1>1, <1>2, FailFields DEF SupInv, VerdictInv, Undecided

LEMMA ResultFields ==
  ASSUME NEW s \in Supervisors
  PROVE  /\ ResultStatus(s) \in Supervisors /\ Later(s, ResultStatus(s))
         /\ ResultStatus(s).failed = s.failed /\ ResultStatus(s).drained = s.drained
         /\ ResultStatus(s).final = s.final /\ ResultStatus(s).unavailable = s.unavailable
  BY DEF ResultStatus, Supervisors, Mask, Verdicts, Later

LEMMA ResultSup ==
  ASSUME NEW s \in Supervisors, NEW cp, NEW w, Undecided(s, cp, w)
  PROVE  SupInv(ResultStatus(s), cp, w)
  <1>1. CASE s.terminal # "ACTIVE" \/ s.final \cup s.unavailable # s.target
    BY <1>1 DEF ResultStatus, Undecided, SupInv, VerdictInv
  <1>2. CASE s.terminal = "ACTIVE" /\ s.final \cup s.unavailable = s.target
    <2> DEFINE good == ~s.failed /\ s.unavailable = {} /\ AllGood(s)
              t == [s EXCEPT !.aggregateReady = TRUE,
                             !.terminal = IF good THEN "SUCCESS" ELSE "FAILED"]
    <2>1. ResultStatus(s) = t
      BY <1>2 DEF ResultStatus
    <2>2. RecordInv(t, w)
      BY DEF Undecided, RecordInv, Supervisors
    <2>3. StopInv(t, cp)
      BY DEF Undecided, StopInv, Supervisors
    <2>4. AllGood(t) = AllGood(s)
      BY DEF AllGood, Supervisors
    <2>5. VerdictInv(t, cp)
      BY <1>2, <2>4 DEF Undecided, VerdictInv, Supervisors, Mask
    <2> QED BY <2>1, <2>2, <2>3, <2>5 DEF SupInv
  <1> QED BY <1>1, <1>2 DEF Supervisors

LEMMA ResultSame ==
  ASSUME NEW s \in Supervisors, NEW cp, NEW w, SupInv(s, cp, w), s.target # {}
  PROVE  ResultStatus(s) = s
  BY DEF ResultStatus, SupInv, VerdictInv

\* A child that is lost.
LEMMA Unavailable ==
  ASSUME NEW s \in Supervisors, NEW cp, NEW w, SupInv(s, cp, w), NEW lost \in Mask
  PROVE  LET t == [Fail(s) EXCEPT !.unavailable = @ \cup lost] IN
         /\ t \in Supervisors /\ Later(s, t) /\ lost \subseteq t.unavailable
         /\ Undecided(t, cp, w)
  <1> DEFINE f == Fail(s)
            t == [f EXCEPT !.unavailable = @ \cup lost]
  <1>1. f \in Supervisors /\ Later(s, f) /\ f.failed /\ (f.aggregateReady <=> s.aggregateReady)
        /\ f.terminal = IF s.aggregateReady THEN "FAILED" ELSE s.terminal
    BY FailFields
  <1>2. Undecided(f, cp, w)
    BY FailUndecided DEF SupInv, VerdictInv, Undecided
  <1> HIDE DEF f
  <1>3. t \in Supervisors /\ Later(f, t) /\ lost \subseteq t.unavailable
    BY <1>1 DEF Supervisors, Mask, Later
  <1>4. Later(s, t)
    BY <1>1, <1>3 DEF Later
  <1>5. s.aggregateReady <=> s.terminal # "ACTIVE"
    BY DEF SupInv, VerdictInv
  <1>6. f.terminal # "SUCCESS"
    BY <1>1, <1>5 DEF Supervisors
  <1>7. Undecided(t, cp, w)
    BY <1>1, <1>2, <1>6 DEF Undecided, RecordInv, StopInv, Supervisors
  <1> QED BY <1>3, <1>4, <1>7 DEF f

LEMMA LaterLater ==
  ASSUME NEW s, NEW t, NEW u, Later(s, t), Later(t, u)
  PROVE  Later(s, u)
  BY DEF Later

LEMMA EofSup ==
  ASSUME NEW s \in Supervisors, NEW cp, NEW w, SupInv(s, cp, w), NEW c \in Channels
  PROVE  LET t == HandleWorkerEof(s, c) IN
         /\ t \in Supervisors /\ Later(s, t) /\ SupInv(t, cp, w) /\ t.drained = s.drained
         /\ t.final = s.final
  <1> DEFINE t == [Fail(s) EXCEPT !.unavailable = @ \cup {c}]
  <1>1. t \in Supervisors /\ Later(s, t) /\ Undecided(t, cp, w)
    BY Unavailable DEF Mask
  <1>2. t.drained = s.drained /\ t.final = s.final
    BY FailFields DEF Supervisors
  <1> HIDE DEF t
  <1>3. LET u == ResultStatus(t) IN
        /\ u \in Supervisors /\ Later(s, u) /\ SupInv(u, cp, w) /\ u.drained = s.drained
        /\ u.final = s.final
    BY <1>1, <1>2, ResultFields, ResultSup, LaterLater
  <1>4. HandleWorkerEof(s, c) = IF c \in s.final THEN s ELSE ResultStatus(t)
    BY DEF HandleWorkerEof, t
  <1>5. Later(s, s)
    BY DEF Later
  <1> QED BY <1>3, <1>4, <1>5

LEMMA ExitSup ==
  ASSUME NEW s \in Supervisors, NEW cp, NEW w, SupInv(s, cp, w), NEW c \in Channels, NEW code
  PROVE  LET t == HandleWorkerExit(s, c, code) IN
         /\ t \in Supervisors /\ Later(s, t) /\ SupInv(t, cp, w) /\ t.drained = s.drained
         /\ t.final = s.final /\ c \in t.final \cup t.unavailable
  <1> DEFINE t == [Fail(s) EXCEPT !.unavailable = @ \cup {c}]
            u == IF c \notin s.final THEN t ELSE IF code # 0 THEN Fail(s) ELSE s
  <1>1. t \in Supervisors /\ Later(s, t) /\ c \in t.unavailable /\ Undecided(t, cp, w)
    BY Unavailable DEF Mask
  <1>2. t.drained = s.drained /\ t.final = s.final
    BY FailFields DEF Supervisors
  <1>3. Undecided(s, cp, w) /\ Later(s, s)
    BY DEF SupInv, VerdictInv, Undecided, Later
  <1>4. Undecided(Fail(s), cp, w)
    BY <1>3, FailUndecided
  <1> HIDE DEF t
  <1>5. /\ u \in Supervisors /\ Later(s, u) /\ Undecided(u, cp, w) /\ u.drained = s.drained
        /\ u.final = s.final /\ c \in u.final \cup u.unavailable
    BY <1>1, <1>2, <1>3, <1>4, FailFields
  <1>6. HandleWorkerExit(s, c, code) = ResultStatus(u)
    BY DEF HandleWorkerExit, t
  <1> HIDE DEF u
  <1> QED BY <1>5, <1>6, ResultFields, ResultSup, LaterLater

-----------------------------------------------------------------------------
(* storage_supervisor_handle_event.                                        *)

LEMMA EventTypes ==
  ASSUME NEW e \in Events
  PROVE  /\ e.type \in {"READY", "ARMED", "RUNNING", "IDLE", "ACTIVE", "FATAL", "STOP_PHASE",
                        "DRAIN_READY", "FINAL"}
         /\ CarriesEpoch(e) => e.epoch \in Nat
         /\ e.type = "STOP_PHASE" => e.phase \in Nat
         /\ e.type = "FINAL" => e.result \in Results
  BY DEF Events, CarriesEpoch, FailedFatal

\* What is known of an event that is being handled.
Credible(s, cp, w, c, e) ==
    /\ s.target = Channels /\ e \in Events /\ EventInv(e, w[c])
    /\ w[c].epoch \in {NoEpoch, cp.epoch, s.drainEpoch}
    /\ IsOwn(e) => s.failed

LEMMA AdoptSup ==
  ASSUME NEW s \in Supervisors, NEW cp \in Captures, NEW w, SupInv(s, cp, w), NEW c \in Channels,
         NEW e, Credible(s, cp, w, c, e)
  PROVE  LET t == AdoptEpoch(s, e) IN
         /\ t \in Supervisors /\ Later(s, t) /\ SupInv(t, cp, w) /\ t.failed = s.failed
         /\ t.final = s.final
  <1>1. CASE ~(CarriesEpoch(e) /\ s.stopEpoch = NoEpoch)
    BY <1>1 DEF AdoptEpoch, Later
  <1>2. CASE CarriesEpoch(e) /\ s.stopEpoch = NoEpoch
    <2> DEFINE t == [s EXCEPT !.stopEpoch = e.epoch]
    <2>1. AdoptEpoch(s, e) = t
      BY <1>2 DEF AdoptEpoch
    <2>2. t \in Supervisors /\ Later(s, t) /\ t.failed = s.failed /\ t.final = s.final
      BY <1>2, EventTypes DEF Supervisors, Later, Credible
    <2>3. VerdictInv(t, cp)
      BY DEF SupInv, VerdictInv, AllGood, Supervisors
    <2>4. s.failed \/ e.epoch = w[c].epoch
      BY <1>2 DEF Credible, EventInv, IsOwn, CarriesEpoch
    <2>5. StopInv(t, cp)
      BY <1>2, <2>4 DEF SupInv, StopInv, Supervisors, Credible
    <2>6. RecordInv(t, w)
      BY <1>2, <2>4 DEF SupInv, RecordInv, Supervisors
    <2> QED BY <2>1, <2>2, <2>3, <2>5, <2>6 DEF SupInv
  <1> QED BY <1>1, <1>2

LEMMA RecordSup ==
  ASSUME NEW s \in Supervisors, NEW cp \in Captures, NEW w, SupInv(s, cp, w), NEW c \in Channels,
         NEW e, Credible(s, cp, w, c, e), InOrder(s, c, e), Agrees(s, c, e)
  PROVE  LET t == Record(s, c, e) IN
         /\ t \in Supervisors /\ Later(s, t) /\ Undecided(t, cp, w)
         /\ e.type = "FATAL" => t.failed
  <1>1. Undecided(s, cp, w) /\ s.terminal \in Verdicts
    BY DEF SupInv, VerdictInv, Undecided, Supervisors
  <1>2. CASE e.type \in {"READY", "ARMED", "RUNNING", "IDLE", "ACTIVE"}
    <2> DEFINE t == Record(s, c, e)
    <2>1. t \in Supervisors
      <3>1. t \in {[s EXCEPT !.ready = @ \cup {c}], [s EXCEPT !.armed = @ \cup {c}],
                  [s EXCEPT !.running = @ \cup {c}], [s EXCEPT !.idle = @ \cup {c}],
                  [s EXCEPT !.idle = @ \ {c}]}
        BY <1>2 DEF Record
      <3>2. [s EXCEPT !.ready = @ \cup {c}] \in Supervisors
        BY DEF Supervisors, Mask
      <3>3. [s EXCEPT !.armed = @ \cup {c}] \in Supervisors
        BY DEF Supervisors, Mask
      <3>4. [s EXCEPT !.running = @ \cup {c}] \in Supervisors
        BY DEF Supervisors, Mask
      <3>5. /\ [s EXCEPT !.idle = @ \cup {c}] \in Supervisors
            /\ [s EXCEPT !.idle = @ \ {c}] \in Supervisors
        BY DEF Supervisors, Mask
      <3> HIDE DEF t
      <3> QED BY <3>1, <3>2, <3>3, <3>4, <3>5
    <2>2. /\ t.terminal = s.terminal /\ t.final = s.final /\ t.unavailable = s.unavailable
          /\ t.failed = s.failed /\ t.aggregateReady = s.aggregateReady /\ t.result = s.result
          /\ t.target = s.target /\ t.emitted = s.emitted /\ t.drained = s.drained
          /\ t.fatal = s.fatal /\ t.stopEpoch = s.stopEpoch /\ t.drainEpoch = s.drainEpoch
          /\ t.stopRequested = s.stopRequested
      BY <1>2 DEF Record, Supervisors
    <2> HIDE DEF t
    <2>3. Undecided(t, cp, w)
      BY <1>1, <2>2 DEF Undecided, RecordInv, StopInv, AllGood
    <2>4. Later(s, t)
      BY <2>2 DEF Later
    <2> QED BY <1>2, <2>1, <2>3, <2>4 DEF t
  <1>3. CASE e.type = "DRAIN_READY"
    <2> DEFINE t == [s EXCEPT !.drained = @ \cup {c}]
    <2>1. Record(s, c, e) = t
      BY <1>3 DEF Record
    <2>2. t \in Supervisors /\ Later(s, t)
      BY DEF Supervisors, Mask, Later
    <2>3. e.epoch = s.stopEpoch /\ e.epoch # NoEpoch /\ Drained(w[c]) /\ e.epoch = w[c].epoch
      BY <1>3 DEF Agrees, InOrder, CarriesEpoch, Credible, EventInv
    <2>4. Undecided(t, cp, w)
      BY <1>1, <2>3 DEF Undecided, RecordInv, StopInv, AllGood, Supervisors
    <2> QED BY <1>3, <2>1, <2>2, <2>4
  <1>4. CASE e.type = "STOP_PHASE"
    <2> DEFINE t == [s EXCEPT !.phase[c] = e.phase]
    <2>1. Record(s, c, e) = t
      BY <1>4 DEF Record
    <2>2. t \in Supervisors /\ Later(s, t)
      <3>1. e.phase \in Nat
        BY <1>4, EventTypes DEF Credible
      <3>2. t \in Supervisors
        BY <3>1 DEF Supervisors
      <3> QED BY <3>2 DEF Supervisors, Later
    <2>3. Undecided(t, cp, w)
      BY <1>1 DEF Undecided, RecordInv, StopInv, AllGood, Supervisors
    <2> QED BY <1>4, <2>1, <2>2, <2>3
  <1>5. CASE e.type = "FATAL"
    <2> DEFINE u == [s EXCEPT !.fatal = @ \cup {c}]
              t == Fail(u)
    <2>1. Record(s, c, e) = t
      BY <1>5 DEF Record
    <2>2. u \in Supervisors /\ Later(s, u)
      BY DEF Supervisors, Mask, Later
    <2>3. c \notin s.final /\ s.final # s.target
      BY <1>5 DEF InOrder, Credible
    <2>4. s.terminal # "SUCCESS"
      BY <1>1, <2>3 DEF Undecided
    <2>5. /\ u.terminal = s.terminal /\ u.final = s.final /\ u.unavailable = s.unavailable
          /\ u.failed = s.failed /\ u.aggregateReady = s.aggregateReady /\ u.result = s.result
          /\ u.emitted = s.emitted /\ u.drained = s.drained /\ u.stopEpoch = s.stopEpoch
      BY DEF Supervisors
    <2> HIDE DEF u
    <2>6. /\ t \in Supervisors /\ Later(u, t) /\ t.failed
          /\ t.terminal = (IF s.aggregateReady THEN "FAILED" ELSE s.terminal)
          /\ (t.aggregateReady <=> s.aggregateReady) /\ t.final = s.final
          /\ t.drained = s.drained /\ t.result = s.result /\ t.emitted = s.emitted
      BY <2>2, <2>5, FailFields DEF Later
    <2> HIDE DEF t
    <2>7. Undecided(t, cp, w)
      BY <1>1, <2>4, <2>6 DEF Undecided, RecordInv, StopInv
    <2>8. Later(s, t)
      BY <2>2, <2>6, LaterLater
    <2> QED BY <2>1, <2>6, <2>7, <2>8
  <1>6. CASE e.type = "FINAL"
    <2> DEFINE t == [s EXCEPT !.final = @ \cup {c}, !.result[c] = e.result]
    <2>1. Record(s, c, e) = t
      BY <1>6 DEF Record
    <2>2. t \in Supervisors /\ Later(s, t)
      <3>1. e.result \in Results
        BY <1>6, EventTypes DEF Credible
      <3>2. t \in Supervisors
        BY <3>1 DEF Supervisors, Mask
      <3> QED BY <3>2 DEF Supervisors, Later
    <2>3. c \in s.drained \cup s.fatal /\ c \notin s.final /\ s.final # s.target
      BY <1>6 DEF InOrder, Credible
    <2>4. s.terminal # "SUCCESS"
      BY <1>1, <2>3 DEF Undecided
    <2>5. Ended(w[c]) /\ e.result = w[c].result
      BY <1>6 DEF Credible, EventInv
    <2>6. RecordInv(t, w)
      BY <1>1, <2>3, <2>5 DEF Undecided, RecordInv, Supervisors
    <2>7. StopInv(t, cp)
      BY <1>1 DEF Undecided, StopInv, Supervisors
    <2>8. Undecided(t, cp, w)
      BY <1>1, <2>4, <2>6, <2>7 DEF Undecided, Supervisors
    <2> QED BY <1>6, <2>1, <2>2, <2>8
  <1> QED BY <1>2, <1>3, <1>4, <1>5, <1>6, EventTypes DEF Credible

LEMMA EventSup ==
  ASSUME NEW s \in Supervisors, NEW cp \in Captures, NEW w, SupInv(s, cp, w), NEW c \in Channels,
         NEW e, Credible(s, cp, w, c, e)
  PROVE  LET h == HandleEvent(s, c, e) IN
         /\ h.sup \in Supervisors /\ Later(s, h.sup) /\ SupInv(h.sup, cp, w)
         /\ e.type = "FATAL" => h.sup.failed
  <1> DEFINE h == HandleEvent(s, c, e)
            a == AdoptEpoch(s, e)
  <1>1. CASE ~InOrder(s, c, e)
    <2>1. h.sup = Fail(s)
      BY <1>1 DEF HandleEvent
    <2> QED BY <2>1, FailFields, FailSup
  <1>2. CASE InOrder(s, c, e)
    <2>1. h = Accept(a, c, e)
      BY <1>2 DEF HandleEvent
    <2>2. a \in Supervisors /\ Later(s, a) /\ SupInv(a, cp, w) /\ a.failed = s.failed
      BY AdoptSup
    <2>3. Credible(a, cp, w, c, e)
      BY <2>2 DEF Credible, Later
    <2>4. InOrder(a, c, e)
      BY <1>2 DEF InOrder, AdoptEpoch, Supervisors
    <2> HIDE DEF a
    <2>5. CASE ~Agrees(a, c, e)
      <3>1. h.sup = Fail(a)
        BY <2>1, <2>5 DEF Accept
      <3> QED BY <2>2, <3>1, FailFields, FailSup, LaterLater
    <2>6. CASE Agrees(a, c, e)
      <3> DEFINE r == Record(a, c, e)
      <3>1. h.sup = ResultStatus(r)
        BY <2>1, <2>6 DEF Accept
      <3>2. /\ r \in Supervisors /\ Later(a, r) /\ Undecided(r, cp, w)
            /\ (e.type = "FATAL" => r.failed)
        BY <2>2, <2>3, <2>4, <2>6, RecordSup
      <3> HIDE DEF r
      <3>3. h.sup \in Supervisors /\ Later(r, h.sup) /\ SupInv(h.sup, cp, w)
        BY <3>1, <3>2, ResultFields, ResultSup
      <3> QED BY <2>2, <3>2, <3>3, LaterLater DEF Later
    <2> QED BY <2>5, <2>6
  <1> QED BY <1>1, <1>2

-----------------------------------------------------------------------------
(* What every handler does to the parent's memory, and why it stays sound. *)

\* Within one task the plan is fixed, epochs are taken once, failures and reports
\* are not taken back, a capture that has ended stays ended, and who is not there any
\* more is accounted for.
Follows(S, T) ==
    /\ T.sup.target = S.sup.target
    /\ S.sup.failed => T.sup.failed
    /\ S.sup.final \cup S.sup.unavailable \subseteq T.sup.final \cup T.sup.unavailable
    /\ T.sup.drainEpoch = S.sup.drainEpoch \/ S.sup.drainEpoch = NoEpoch
    /\ T.cap.state \in Busy => S.cap.state \in Busy
    /\ T.cap.state = "IDLE" <=> S.cap.state = "IDLE"
    /\ S.cap.state = "IDLE" => T.cap = S.cap
    /\ T.cap.epoch = S.cap.epoch \/ S.cap.epoch = NoEpoch
    /\ T.log.tasks = S.log.tasks
    /\ \A c \in Channels :
         /\ T.task[c].live <=> T.proc[c] # "none"
         /\ T.task[c].live => S.task[c].live
         /\ S.task[c].live => T.task[c].live \/ c \in T.sup.final \cup T.sup.unavailable
         /\ T.evt[c] \in {S.evt[c], <<>>}

\* Without a child nothing is reported.
Reports(S, T) ==
    (\A c \in Channels : ~S.task[c].live)
       => T.sup.drained = S.sup.drained /\ T.sup.final = S.sup.final

\* A message is sent under the epoch in force, RUN when all have armed.
Sends(S, T, w) ==
    \A c \in Channels :
       \/ T.ctl[c] = S.ctl[c]
       \/ \E m \in Messages : /\ T.ctl[c] = Append(S.ctl[c], m)
                              /\ MessageInv(m, T.cap.epoch, T.sup.drainEpoch)
                              /\ m.type = "RUN" => ArmedAll(w)

Notes(S, T, w) == \A c \in Channels : T.task[c].armed => S.task[c].armed \/ w[c].armed

Pends(T) ==
    /\ T.start.active <=> T.start.phase # "NONE"
    /\ T.sup.target = {} => ~T.start.active
    /\ T.stop.active => T.log.tasks > 0

LEMMA Appended ==
  ASSUME NEW A, NEW q \in Seq(A), NEW m \in A
  PROVE  /\ Append(q, m) \in Seq(A)
         /\ \A i \in DOMAIN Append(q, m) : \/ i \in DOMAIN q /\ Append(q, m)[i] = q[i]
                                           \/ Append(q, m)[i] = m
  OBVIOUS

LEMMA Change ==
  ASSUME NEW S, NEW w, Sound(S, w), NEW T \in ParentStates, SupInv(T.sup, T.cap, w),
         Follows(S, T), Reports(S, T), Sends(S, T, w), Notes(S, T, w), Pends(T), LogInv(T, w)
  PROVE  Sound(T, w)
  <1>1. S \in ParentStates
    BY DEF Sound
  <1>2. PlanInv(T)
    <2>1. CASE S.sup.target = Channels /\ S.cap.state # "IDLE"
      BY <2>1 DEF Follows, Pends, PlanInv
    <2>2. CASE ~(S.sup.target = Channels /\ S.cap.state # "IDLE")
      <3>1. /\ S.sup.target = {} /\ S.cap = [state |-> "IDLE", epoch |-> NoEpoch]
            /\ (RejectedPlans \/ S.log.tasks = 0) /\ S.sup.drained = {} /\ S.sup.final = {}
            /\ \A c \in Channels : ~S.task[c].live
        BY <2>2 DEF Sound, PlanInv
      <3>2. T.sup.drained = {} /\ T.sup.final = {} /\ \A c \in Channels : ~T.task[c].live
        BY <3>1 DEF Follows, Reports
      <3>3. T.sup.target = {} /\ T.cap = S.cap /\ T.log.tasks = S.log.tasks /\ ~T.start.active
        BY <3>1 DEF Follows, Pends
      <3> QED BY <3>1, <3>2, <3>3 DEF PlanInv, Pends
    <2> QED BY <2>1, <2>2
  <1>3. LiveInv(T)
    BY DEF Sound, LiveInv, Follows
  <1>4. ASSUME NEW c \in Channels PROVE PipeInv(T, w, c)
    <2>1. PipeInv(S, w, c)
      BY DEF Sound
    <2>2. T.task[c].armed => w[c].armed
      BY <2>1 DEF Notes, PipeInv
    <2>3. S.ctl[c] \in Seq(Messages) /\ S.evt[c] \in Seq(Events)
      BY <1>1 DEF ParentStates
    <2>4. \A i \in DOMAIN T.ctl[c] : T.ctl[c][i].type = "RUN" => ArmedAll(w)
      <3>1. CASE T.ctl[c] = S.ctl[c]
        BY <2>1, <3>1 DEF PipeInv
      <3>2. ASSUME NEW m \in Messages, T.ctl[c] = Append(S.ctl[c], m), m.type = "RUN" => ArmedAll(w)
            PROVE  \A i \in DOMAIN T.ctl[c] : T.ctl[c][i].type = "RUN" => ArmedAll(w)
        BY <2>1, <2>3, <3>2, Appended DEF PipeInv
      <3> QED BY <3>1, <3>2 DEF Sends
    <2>5. ASSUME T.task[c].live
          PROVE  /\ w[c].epoch \in {NoEpoch, T.cap.epoch, T.sup.drainEpoch}
                 /\ \A i \in DOMAIN T.ctl[c] : MessageInv(T.ctl[c][i], T.cap.epoch, T.sup.drainEpoch)
      <3>1. /\ w[c].epoch \in {NoEpoch, S.cap.epoch, S.sup.drainEpoch}
            /\ \A i \in DOMAIN S.ctl[c] : MessageInv(S.ctl[c][i], S.cap.epoch, S.sup.drainEpoch)
        BY <2>1, <2>5 DEF PipeInv, Follows
      <3>2. \A i \in DOMAIN S.ctl[c] : MessageInv(S.ctl[c][i], T.cap.epoch, T.sup.drainEpoch)
        BY <3>1 DEF MessageInv, Follows
      <3>3. CASE T.ctl[c] = S.ctl[c]
        BY <3>1, <3>2, <3>3 DEF Follows
      <3>4. ASSUME NEW m \in Messages, T.ctl[c] = Append(S.ctl[c], m),
                   MessageInv(m, T.cap.epoch, T.sup.drainEpoch)
            PROVE  \A i \in DOMAIN T.ctl[c] : MessageInv(T.ctl[c][i], T.cap.epoch, T.sup.drainEpoch)
        BY <2>3, <3>2, <3>4, Appended
      <3> QED BY <3>1, <3>3, <3>4 DEF Sends, Follows
    <2>6. ASSUME T.task[c].live
          PROVE  /\ \A i \in DOMAIN T.evt[c] : EventInv(T.evt[c][i], w[c])
                 /\ T.sup.failed \/ FatalFirst(T.evt[c])
      <3>1. /\ \A i \in DOMAIN S.evt[c] : EventInv(S.evt[c][i], w[c])
            /\ S.sup.failed \/ FatalFirst(S.evt[c])
        BY <2>1, <2>6 DEF PipeInv, Follows
      <3>2. CASE T.evt[c] = S.evt[c]
        BY <3>1, <3>2 DEF Follows
      <3>3. CASE T.evt[c] = <<>>
        BY <3>3 DEF FatalFirst
      <3> QED BY <3>2, <3>3 DEF Follows
    <2> QED BY <2>2, <2>4, <2>5, <2>6 DEF PipeInv
  <1> QED BY <1>2, <1>3, <1>4 DEF Sound

-----------------------------------------------------------------------------
(* Handlers that report nothing: the verdict and the answers stay.         *)

Quiet(S, T) ==
    /\ Follows(S, T)
    /\ T.sup.terminal = S.sup.terminal /\ T.sup.emitted = S.sup.emitted
    /\ T.sup.drained = S.sup.drained /\ T.sup.final = S.sup.final
    /\ T.sup.unavailable = S.sup.unavailable
    /\ T.start.active = S.start.active /\ T.stop = S.stop /\ T.log = S.log /\ T.proc = S.proc
    /\ \A c \in Channels : T.task[c].live = S.task[c].live /\ T.task[c].armed = S.task[c].armed

LEMMA Unchanged ==
  ASSUME NEW S, NEW w, Sound(S, w)
  PROVE  Quiet(S, S)
  BY DEF Quiet, Follows, Sound, LiveInv

LEMMA QuietQuiet ==
  ASSUME NEW S, NEW T, NEW U, Quiet(S, T), Quiet(T, U)
  PROVE  Quiet(S, U)
  <1>1. Follows(S, U)
    BY DEF Quiet, Follows
  <1> QED BY <1>1 DEF Quiet

LEMMA QuietJudged ==
  ASSUME NEW S, NEW T, Quiet(S, T), Judged(S)
  PROVE  Judged(T)
  BY DEF Quiet, Follows, Judged

LEMMA QuietLog ==
  ASSUME NEW S, NEW T, NEW w, Quiet(S, T), LogInv(S, w)
  PROVE  LogInv(T, w)
  BY DEF Quiet, LogInv

\* The controller is asked to stop.
LEMMA CaptureStop ==
  ASSUME NEW cp \in Captures, NEW epoch \in Nat, cp.epoch = NoEpoch
  PROVE  LET x == CaptureRequestStop(cp, epoch) IN
         /\ x \in Captures
         /\ x.state \in Busy <=> cp.state \in Busy
         /\ x.state = "IDLE" <=> cp.state = "IDLE"
         /\ x.epoch = IF cp.state = "IDLE" THEN NoEpoch ELSE epoch
         /\ cp.state = "IDLE" => x = cp
  BY DEF CaptureRequestStop, Captures, Busy, Stoppable

LEMMA Plans ==
  ASSUME NEW S, NEW w, Sound(S, w), NEW c \in Channels, S.task[c].live
  PROVE  S.sup.target = Channels /\ S.cap.state # "IDLE"
  BY DEF Sound, PlanInv

LEMMA PartTypes ==
  ASSUME NEW S \in ParentStates
  PROVE  /\ S.sup \in Supervisors /\ S.cap \in Captures /\ S.task \in [Channels -> Children]
         /\ S.start \in Starts /\ S.stop \in Stops /\ S.log \in Logs
         /\ S.ctl \in [Channels -> Seq(Messages)] /\ S.evt \in [Channels -> Seq(Events)]
         /\ S.proc \in [Channels -> {"none", "alive", "closing", "zombie"}] /\ S.killed \in Mask
         /\ S.cap.state \in Busy \cup {"IDLE", "DONE", "FAILED"} /\ S.cap.epoch \in Nat
         /\ S.sup.drainEpoch \in Nat /\ S.sup.stopEpoch \in Nat
  BY DEF ParentStates, Supervisors, Captures

LEMMA StoppedOnce ==
  ASSUME NEW cp \in Captures, NEW epoch \in Nat, epoch # NoEpoch
  PROVE  LET x == StoppedAt(cp, epoch) IN
         /\ x \in Captures
         /\ x.state \in Busy <=> cp.state \in Busy
         /\ x.state = "IDLE" <=> cp.state = "IDLE"
         /\ cp.epoch # NoEpoch => x = cp
         /\ cp.epoch = NoEpoch => x.epoch = IF cp.state = "IDLE" THEN NoEpoch ELSE epoch
         /\ cp.state = "IDLE" => x = cp
  <1>1. CASE cp.epoch = NoEpoch
    BY <1>1, CaptureStop DEF StoppedAt
  <1>2. CASE cp.epoch # NoEpoch
    BY <1>2 DEF StoppedAt
  <1> QED BY <1>1, <1>2

\* A message sent to some of the children.
LEMMA SendTypes ==
  ASSUME NEW pipes \in [Channels -> Seq(Messages)], NEW to, NEW m \in Messages
  PROVE  Send(pipes, to, m) \in [Channels -> Seq(Messages)]
  BY Appended DEF Send

LEMMA SendStopsFields ==
  ASSUME NEW S \in ParentStates, NEW capture \in Captures, NEW due, NEW sent \in Mask
  PROVE  LET T == SendStops(S, capture, due, sent) IN
         /\ T \in ParentStates
         /\ T.sup = MarkStopSent(S.sup, sent, capture.epoch)
         /\ T.cap = capture /\ T.start = S.start /\ T.stop = S.stop /\ T.log = S.log
         /\ T.evt = S.evt /\ T.proc = S.proc /\ T.killed = S.killed
         /\ T.ctl = Send(S.ctl, sent, Message("STOP", capture.epoch))
         /\ \A c \in Channels : /\ T.task[c].live = S.task[c].live
                                /\ T.task[c].armed = S.task[c].armed
  <1> DEFINE sp == MarkStopSent(S.sup, sent, capture.epoch)
            ct == Send(S.ctl, sent, Message("STOP", capture.epoch))
            tk == [c \in Channels |->
                     IF c \in due \ sent
                     THEN [S.task[c] EXCEPT !.control = FALSE, !.gaveUp = TRUE] ELSE S.task[c]]
            T == [S EXCEPT !.cap = capture, !.sup = sp, !.ctl = ct, !.task = tk]
  <1>1. SendStops(S, capture, due, sent) = T
    BY Zenon DEF SendStops
  <1>2. capture.epoch \in Nat /\ Message("STOP", capture.epoch) \in Messages
    BY DEF Captures, Messages, Message
  <1>3. S.sup \in Supervisors /\ S.ctl \in [Channels -> Seq(Messages)]
        /\ S.task \in [Channels -> Children]
    BY PartTypes
  <1>4. sp \in Supervisors
    BY <1>2, <1>3 DEF MarkStopSent, Supervisors, Mask
  <1>5. ct \in [Channels -> Seq(Messages)]
    BY <1>2, <1>3, SendTypes
  <1>6. /\ tk \in [Channels -> Children]
        /\ \A c \in Channels : tk[c].live = S.task[c].live /\ tk[c].armed = S.task[c].armed
    <2>1. ASSUME NEW v \in Children
          PROVE  LET x == [v EXCEPT !.control = FALSE, !.gaveUp = TRUE]
                 IN  x \in Children /\ x.live = v.live /\ x.armed = v.armed
      BY DEF Children
    <2>2. \A c \in Channels : S.task[c] \in Children
      BY <1>3
    <2> QED BY <2>1, <2>2
  <1> HIDE DEF sp, ct, tk
  <1>7. /\ T \in ParentStates /\ T.sup = sp /\ T.cap = capture /\ T.start = S.start
        /\ T.stop = S.stop /\ T.log = S.log /\ T.evt = S.evt /\ T.proc = S.proc
        /\ T.killed = S.killed /\ T.ctl = ct /\ T.task = tk
    BY <1>4, <1>5, <1>6 DEF ParentStates
  <1> HIDE DEF T
  <1> QED BY <1>1, <1>6, <1>7 DEF sp, ct

\* storage_try_send_pending_stops
LEMMA StopsSent ==
  ASSUME NEW S, NEW w, Sound(S, w)
  PROVE  LET T == TrySendPendingStops(S) IN
         Sound(T, w) /\ Quiet(S, T) /\ T.start = S.start
  <1> DEFINE pending == PendingStops(S.sup)
            capture == StoppedAt(S.cap, StopEpoch)
            due == {c \in pending : S.task[c].live /\ ~S.task[c].gaveUp}
            sent == {c \in due : CanSend(S, c)}
            T == SendStops(S, capture, due, sent)
            m == Message("STOP", capture.epoch)
            epoch == IF S.sup.stopEpoch = NoEpoch THEN capture.epoch ELSE S.sup.stopEpoch
  <1>1. CASE pending = {}
    BY <1>1, Unchanged DEF TrySendPendingStops
  <1>2. CASE pending # {}
    <2>1. S \in ParentStates /\ SupInv(S.sup, S.cap, w) /\ LogInv(S, w) /\ PlanInv(S)
      BY DEF Sound
    <2>2. S.sup \in Supervisors /\ S.cap \in Captures
      BY <2>1, PartTypes
    <2>3. T = TrySendPendingStops(S)
      BY <1>2 DEF TrySendPendingStops
    <2>4. /\ capture \in Captures /\ (capture.state \in Busy <=> S.cap.state \in Busy)
          /\ (capture.state = "IDLE" <=> S.cap.state = "IDLE")
          /\ (S.cap.state = "IDLE" => capture = S.cap)
          /\ (S.cap.epoch # NoEpoch => capture = S.cap)
          /\ (S.cap.state # "IDLE" => capture.epoch # NoEpoch)
      <3>1. StopEpoch \in Nat /\ StopEpoch # NoEpoch
        BY DEF StopEpoch, NoEpoch
      <3> QED BY <2>2, <3>1, StoppedOnce
    <2> HIDE DEF capture
    <2>5. capture.epoch \in Nat /\ m \in Messages /\ m.type = "STOP" /\ m.epoch = capture.epoch
      BY <2>4 DEF Captures, Messages, Message
    <2>6. sent \in Mask /\ \A c \in sent : c \in Channels /\ S.task[c].live
      BY <2>2 DEF PendingStops, Supervisors, Mask
    <2> HIDE DEF sent, due
    <2>7. /\ T \in ParentStates
          /\ T.sup = MarkStopSent(S.sup, sent, capture.epoch)
          /\ T.cap = capture /\ T.start = S.start /\ T.stop = S.stop /\ T.log = S.log
          /\ T.evt = S.evt /\ T.proc = S.proc /\ T.killed = S.killed
          /\ T.ctl = Send(S.ctl, sent, m)
          /\ \A c \in Channels : /\ T.task[c].live = S.task[c].live
                                 /\ T.task[c].armed = S.task[c].armed
      BY <2>1, <2>4, <2>6, SendStopsFields
    <2> HIDE DEF T, m, epoch, pending
    <2>8. /\ T.sup.terminal = S.sup.terminal /\ T.sup.emitted = S.sup.emitted
           /\ T.sup.drained = S.sup.drained /\ T.sup.final = S.sup.final
           /\ T.sup.unavailable = S.sup.unavailable /\ T.sup.failed = S.sup.failed
           /\ T.sup.target = S.sup.target /\ T.sup.drainEpoch = S.sup.drainEpoch
           /\ T.sup.stopRequested = S.sup.stopRequested /\ T.sup.stopEpoch = epoch
           /\ T.sup.aggregateReady = S.sup.aggregateReady /\ T.sup.result = S.sup.result
           /\ T.sup.fatal = S.sup.fatal
      BY <2>2, <2>7 DEF Supervisors, MarkStopSent, epoch
    <2>9. Quiet(S, T)
      <3>1. LiveInv(S)
        BY DEF Sound
      <3> QED BY <3>1, <2>4, <2>7, <2>8 DEF Quiet, Follows, LiveInv
    <2>10. SupInv(T.sup, T.cap, w)
      <3>1. VerdictInv(T.sup, T.cap)
        BY <2>1, <2>4, <2>7, <2>8 DEF SupInv, VerdictInv, AllGood
      <3>2. S.sup.failed \/ S.sup.emitted \/ (epoch = S.sup.stopEpoch /\ T.cap = S.cap)
        BY <1>2, <2>1, <2>4, <2>7 DEF SupInv, StopInv, epoch, pending, PendingStops
      <3>3. RecordInv(T.sup, w) /\ StopInv(T.sup, T.cap)
        BY <2>1, <2>8, <3>2 DEF SupInv, RecordInv, StopInv
      <3> QED BY <3>1, <3>3 DEF SupInv
    <2>11. Sends(S, T, w)
      <3>1. ASSUME NEW c \in sent PROVE MessageInv(m, T.cap.epoch, T.sup.drainEpoch)
        <4>1. S.cap.state # "IDLE"
          BY <2>6, Plans
        <4> QED BY <2>4, <2>5, <2>7, <4>1 DEF MessageInv
      <3> QED BY <2>5, <2>7, <3>1 DEF Sends, Send
    <2>12. Reports(S, T) /\ Notes(S, T, w)
      BY <2>7, <2>8 DEF Reports, Notes
    <2>13. Pends(T)
      BY <2>1, <2>7, <2>8, ChannelsAssumption DEF Pends, PlanInv
    <2>14. LogInv(T, w)
      BY <2>1, <2>9, QuietLog
    <2>15. Sound(T, w)
      BY <2>7, <2>9, <2>10, <2>11, <2>12, <2>13, <2>14, Change DEF Quiet
    <2> QED BY <2>3, <2>7, <2>9, <2>15
  <1> QED BY <1>1, <1>2

\* storage_try_send_auto_drains
LEMMA DrainsSent ==
  ASSUME NEW S, NEW w, Sound(S, w)
  PROVE  LET T == TrySendAutoDrains(S) IN
         /\ Sound(T, w) /\ Quiet(S, T) /\ T.evt = S.evt /\ T.task = S.task /\ T.start = S.start
         /\ T.sup.failed = S.sup.failed
  <1> DEFINE sent == {c \in AutoDrainPending(S.sup) : S.task[c].live /\ CanSend(S, c)}
            sp == MarkAutoDrainSent(S.sup, sent)
            m == Message("AUTO_DRAIN", S.sup.drainEpoch)
            ct == Send(S.ctl, sent, m)
            T == [S EXCEPT !.sup = sp, !.ctl = ct]
  <1>1. S \in ParentStates /\ SupInv(S.sup, S.cap, w) /\ LogInv(S, w) /\ PlanInv(S) /\ LiveInv(S)
    BY DEF Sound
  <1>2. /\ S.sup \in Supervisors /\ S.ctl \in [Channels -> Seq(Messages)]
        /\ S.sup.drainEpoch \in Nat /\ S.sup.target \in Mask
    BY <1>1, PartTypes DEF Supervisors
  <1>3. TrySendAutoDrains(S) = T
    BY Zenon DEF TrySendAutoDrains, SendDrains
  <1>4. m \in Messages /\ m.type = "AUTO_DRAIN" /\ m.epoch = S.sup.drainEpoch
    BY <1>2 DEF Messages, Message
  <1>5. sent \in Mask /\ \A c \in sent : S.sup.drainEpoch # NoEpoch
    BY <1>2 DEF AutoDrainPending, Mask
  <1> HIDE DEF sent, m
  <1>6. /\ sp \in Supervisors /\ sp.terminal = S.sup.terminal /\ sp.emitted = S.sup.emitted
        /\ sp.drained = S.sup.drained /\ sp.final = S.sup.final
        /\ sp.unavailable = S.sup.unavailable /\ sp.failed = S.sup.failed
        /\ sp.target = S.sup.target /\ sp.drainEpoch = S.sup.drainEpoch
        /\ sp.stopRequested = S.sup.stopRequested /\ sp.stopEpoch = S.sup.stopEpoch
        /\ sp.aggregateReady = S.sup.aggregateReady /\ sp.result = S.sup.result
        /\ sp.fatal = S.sup.fatal
    BY <1>2, <1>5 DEF Supervisors, MarkAutoDrainSent, Mask
  <1>7. ct \in [Channels -> Seq(Messages)]
    BY <1>2, <1>4, SendTypes
  <1> HIDE DEF sp, ct
  <1>8. /\ T \in ParentStates /\ T.sup = sp /\ T.cap = S.cap /\ T.start = S.start
        /\ T.stop = S.stop /\ T.log = S.log /\ T.evt = S.evt /\ T.proc = S.proc
        /\ T.killed = S.killed /\ T.ctl = ct /\ T.task = S.task
    BY <1>1, <1>6, <1>7 DEF ParentStates
  <1> HIDE DEF T
  <1>9. Quiet(S, T)
    BY <1>1, <1>6, <1>8 DEF Quiet, Follows, LiveInv
  <1>10. SupInv(T.sup, T.cap, w)
    BY <1>1, <1>6, <1>8 DEF SupInv, VerdictInv, RecordInv, StopInv, AllGood
  <1>11. Sends(S, T, w)
    BY <1>4, <1>5, <1>6, <1>8 DEF Sends, Send, MessageInv, ct
  <1>12. Reports(S, T) /\ Notes(S, T, w) /\ Pends(T)
    BY <1>1, <1>6, <1>8, ChannelsAssumption DEF Reports, Notes, Pends, PlanInv
  <1>13. Sound(T, w)
    BY <1>1, <1>8, <1>9, <1>10, <1>11, <1>12, QuietLog, Change DEF Quiet
  <1> QED BY <1>3, <1>6, <1>8, <1>9, <1>13

\* request_storage_stop_all before its messages are sent.
LEMMA StopRequested ==
  ASSUME NEW S, NEW w, Sound(S, w)
  PROVE  LET T == RequestStopAt(S, StoppedAt(S.cap, EpochOfStop(S))) IN
         Sound(T, w) /\ Quiet(S, T) /\ T.start = S.start
  <1> DEFINE capture == StoppedAt(S.cap, EpochOfStop(S))
            live == {c \in Channels : S.task[c].live}
            sp == [RequestStop(S.sup, live) EXCEPT !.stopEpoch = capture.epoch]
            T == [S EXCEPT !.cap = capture, !.sup = sp]
  <1>1. S \in ParentStates /\ SupInv(S.sup, S.cap, w) /\ LogInv(S, w) /\ PlanInv(S) /\ LiveInv(S)
    BY DEF Sound
  <1>2. S.sup \in Supervisors /\ S.cap \in Captures /\ S.sup.drainEpoch \in Nat
    BY <1>1, PartTypes
  <1>3. RequestStopAt(S, capture) = T
    BY Zenon DEF RequestStopAt
  <1>4. /\ EpochOfStop(S) \in Nat /\ EpochOfStop(S) # NoEpoch
        /\ S.sup.drainEpoch # NoEpoch => EpochOfStop(S) = S.sup.drainEpoch
    BY <1>2 DEF EpochOfStop, StopEpoch, NoEpoch
  <1>5. /\ capture \in Captures /\ (capture.state \in Busy <=> S.cap.state \in Busy)
        /\ (capture.state = "IDLE" <=> S.cap.state = "IDLE")
        /\ (S.cap.state = "IDLE" => capture = S.cap)
        /\ (S.cap.epoch # NoEpoch => capture = S.cap)
        /\ (S.cap.state # "IDLE" /\ S.cap.epoch = NoEpoch => capture.epoch = EpochOfStop(S))
    BY <1>2, <1>4, StoppedOnce
  <1> HIDE DEF capture
  <1>6. capture.epoch \in Nat
    BY <1>5 DEF Captures
  <1>7. /\ sp \in Supervisors /\ sp.terminal = S.sup.terminal /\ sp.emitted = S.sup.emitted
        /\ sp.drained = S.sup.drained /\ sp.final = S.sup.final
        /\ sp.unavailable = S.sup.unavailable /\ sp.failed = S.sup.failed
        /\ sp.target = S.sup.target /\ sp.drainEpoch = S.sup.drainEpoch
        /\ sp.aggregateReady = S.sup.aggregateReady /\ sp.result = S.sup.result
        /\ sp.fatal = S.sup.fatal /\ sp.stopEpoch = capture.epoch
        /\ sp.stopRequested = S.sup.stopRequested \cup (live \cap S.sup.target)
    BY <1>2, <1>6 DEF Supervisors, RequestStop, Mask
  <1> HIDE DEF sp
  <1>8. /\ T \in ParentStates /\ T.sup = sp /\ T.cap = capture /\ T.start = S.start
        /\ T.stop = S.stop /\ T.log = S.log /\ T.evt = S.evt /\ T.proc = S.proc
        /\ T.killed = S.killed /\ T.ctl = S.ctl /\ T.task = S.task
    BY <1>1, <1>5, <1>7 DEF ParentStates
  <1> HIDE DEF T
  <1>9. Quiet(S, T)
    BY <1>1, <1>5, <1>7, <1>8 DEF Quiet, Follows, LiveInv
  <1>10. SupInv(T.sup, T.cap, w)
    <2>1. VerdictInv(sp, capture)
      BY <1>1, <1>5, <1>7 DEF SupInv, VerdictInv, AllGood
    <2>2. CASE S.cap.state = "IDLE"
      <3>1. S.sup.target = {} /\ S.cap.epoch = NoEpoch /\ S.sup.drained = {}
        BY <1>1, <2>2, ChannelsAssumption DEF PlanInv
      <3>2. capture = S.cap /\ sp.stopRequested = S.sup.stopRequested
        BY <1>5, <1>7, <2>2, <3>1
      <3> QED BY <1>1, <1>7, <1>8, <2>1, <3>1, <3>2 DEF SupInv, RecordInv, StopInv
    <2>3. CASE S.cap.state # "IDLE" /\ S.cap.epoch # NoEpoch
      BY <1>1, <1>5, <1>7, <1>8, <2>1, <2>3 DEF SupInv, RecordInv, StopInv
    <2>4. CASE S.cap.state # "IDLE" /\ S.cap.epoch = NoEpoch
      <3>1. StopInv(sp, capture)
        BY <1>4, <1>5, <1>7, <2>4 DEF StopInv
      <3>2. ASSUME NEW c \in S.sup.drained, ~S.sup.failed, ~S.sup.emitted
            PROVE  capture.epoch = w[c].epoch
        BY <1>1, <1>4, <1>5, <2>4, <3>2 DEF SupInv, RecordInv, StopInv
      <3>3. RecordInv(sp, w)
        BY <1>1, <1>7, <3>2 DEF SupInv, RecordInv
      <3> QED BY <1>8, <2>1, <3>1, <3>3 DEF SupInv
    <2> QED BY <2>2, <2>3, <2>4
  <1>11. Sends(S, T, w) /\ Reports(S, T) /\ Notes(S, T, w) /\ Pends(T)
    BY <1>1, <1>7, <1>8, ChannelsAssumption DEF Sends, Reports, Notes, Pends, PlanInv
  <1>12. Sound(T, w)
    BY <1>1, <1>8, <1>9, <1>10, <1>11, QuietLog, Change DEF Quiet
  <1> QED BY <1>3, <1>8, <1>9, <1>12 DEF capture

LEMMA StopAllRequested ==
  ASSUME NEW S, NEW w, Sound(S, w)
  PROVE  LET T == RequestStorageStopAll(S) IN
         Sound(T, w) /\ Quiet(S, T) /\ T.start = S.start
  BY StopRequested, StopsSent, QuietQuiet DEF RequestStorageStopAll

-----------------------------------------------------------------------------
(* A new supervisor record, with what the parent notes of the children.    *)

LEMMA LaterLog ==
  ASSUME NEW S, NEW T, NEW w, LogInv(S, w), SupInv(S.sup, S.cap, w), S.sup \in Supervisors,
         Later(S.sup, T.sup), T.log = S.log
  PROVE  LogInv(T, w)
  <1>1. T.sup.emitted = S.sup.emitted
    BY DEF Later
  <1>2. T.sup.emitted /\ T.sup.terminal = "SUCCESS" => S.sup.terminal = "SUCCESS"
    BY <1>1 DEF SupInv, VerdictInv, Later, Supervisors, Verdicts
  <1> QED BY <1>1, <1>2 DEF LogInv

Recorded(S, sp, tk) == [S EXCEPT !.sup = sp, !.task = tk]

LEMMA NewRecord ==
  ASSUME NEW S, NEW w, Sound(S, w), NEW sp \in Supervisors, SupInv(sp, S.cap, w),
         Later(S.sup, sp),
         (\A c \in Channels : ~S.task[c].live) => sp.drained = S.sup.drained /\ sp.final = S.sup.final,
         NEW tk \in [Channels -> Children],
         \A c \in Channels : /\ tk[c].live = S.task[c].live
                             /\ tk[c].armed => S.task[c].armed \/ w[c].armed,
         NEW T, T = Recorded(S, sp, tk)
  PROVE  /\ Sound(T, w) /\ Follows(S, T) /\ T.sup = sp /\ T.task = tk /\ T.cap = S.cap
         /\ T.start = S.start /\ T.stop = S.stop /\ T.log = S.log /\ T.ctl = S.ctl
         /\ T.evt = S.evt /\ T.proc = S.proc /\ T.killed = S.killed
  <1>1. S \in ParentStates /\ SupInv(S.sup, S.cap, w) /\ LogInv(S, w) /\ PlanInv(S) /\ LiveInv(S)
    BY DEF Sound
  <1>2. /\ T \in ParentStates /\ T.sup = sp /\ T.task = tk /\ T.cap = S.cap
        /\ T.start = S.start /\ T.stop = S.stop /\ T.log = S.log /\ T.ctl = S.ctl
        /\ T.evt = S.evt /\ T.proc = S.proc /\ T.killed = S.killed
    BY <1>1 DEF ParentStates, Recorded
  <1>3. Follows(S, T)
    BY <1>1, <1>2 DEF Follows, Later, LiveInv
  <1>4. Reports(S, T) /\ Sends(S, T, w) /\ Notes(S, T, w)
    BY <1>2 DEF Reports, Sends, Notes
  <1>5. T.sup.target = S.sup.target
    BY <1>2 DEF Later
  <1>6. Pends(T)
    BY <1>1, <1>2, <1>5, ChannelsAssumption DEF Pends, PlanInv
  <1>7. LogInv(T, w)
    BY <1>1, <1>2, PartTypes, LaterLog
  <1>8. Sound(T, w)
    BY <1>2, <1>3, <1>4, <1>6, <1>7, Change
  <1> QED BY <1>2, <1>3, <1>8

\* storage_supervisor_emit_aggregate
LEMMA EndedCapture ==
  ASSUME NEW cp \in Captures, NEW committed \in BOOLEAN
  PROVE  LET x == CaptureEnded(cp, committed) IN
         /\ x \in Captures /\ x.state \notin Busy
         /\ x.state = "IDLE" <=> cp.state = "IDLE"
         /\ cp.state = "IDLE" => x = cp
         /\ x.epoch = cp.epoch \/ cp.epoch = NoEpoch
  <1> DEFINE epoch == IF cp.epoch # NoEpoch THEN cp.epoch ELSE StopEpoch
            st == IF cp.state \in Stoppable THEN CaptureRequestStop(cp, epoch) ELSE cp
            co == [st EXCEPT !.state = IF @ = "STOPPING" THEN "COMMITTING" ELSE @]
  <1>1. CaptureEnded(cp, committed)
          = IF ~committed THEN CaptureFail(co)
            ELSE [co EXCEPT !.state = IF @ = "COMMITTING" THEN "DONE" ELSE @]
    BY Zenon DEF CaptureEnded
  <1>2. /\ st \in Captures /\ st.state \notin Stoppable
        /\ (st.state = "IDLE" <=> cp.state = "IDLE") /\ (cp.state = "IDLE" => st = cp)
        /\ (st.epoch = cp.epoch \/ cp.epoch = NoEpoch)
    BY DEF Captures, CaptureRequestStop, StopEpoch, Busy, Stoppable
  <1> HIDE DEF st
  <1>3. /\ co \in Captures /\ co.state \notin Stoppable \cup {"STOPPING"}
        /\ (co.state = "IDLE" <=> cp.state = "IDLE") /\ (cp.state = "IDLE" => co = cp)
        /\ (co.epoch = cp.epoch \/ cp.epoch = NoEpoch)
    BY <1>2 DEF Captures, Busy, Stoppable
  <1> HIDE DEF co
  <1>4. CASE committed
    BY <1>1, <1>3, <1>4 DEF Captures, Busy, Stoppable
  <1>5. CASE ~committed
    BY <1>1, <1>3, <1>5 DEF Captures, CaptureFail, Busy, Stoppable
  <1> QED BY <1>4, <1>5

\* A verdict SUCCESS means that the workers have recorded a whole capture.
LEMMA WholeWhenGood ==
  ASSUME NEW S, NEW w, Sound(S, w), S.sup.terminal = "SUCCESS", ~S.sup.emitted, S.sup.target # {}
  PROVE  Whole(w)
  <1>1. /\ S.sup.target = Channels /\ S.sup.final = Channels /\ ~S.sup.failed /\ AllGood(S.sup)
        /\ S.sup.result \in [Channels -> Results]
    BY PartTypes DEF Sound, PlanInv, SupInv, VerdictInv, Supervisors
  <1>2. \A c \in Channels : /\ Ended(w[c]) /\ S.sup.result[c] = w[c].result
                            /\ S.sup.stopEpoch = w[c].epoch /\ w[c].epoch # NoEpoch
    BY <1>1 DEF Sound, SupInv, RecordInv
  <1>3. \A c \in Channels : w[c].result \in {"good", "short"}
    BY <1>1, <1>2 DEF AllGood, Results
  <1>4. \A c, d \in SplitPair \cap Channels : w[c].result = w[d].result
    <2>1. CASE SplitPair \subseteq Channels
      BY <1>1, <1>2, <2>1 DEF AllGood
    <2>2. CASE ~(SplitPair \subseteq Channels)
      BY <2>2, SplitPairAssumption
    <2> QED BY <2>1, <2>2
  <1> QED BY <1>2, <1>3, <1>4 DEF Whole

LEMMA EmitOnce ==
  ASSUME NEW S, NEW w, Sound(S, w), NEW ok \in BOOLEAN,
         S.sup.terminal # "ACTIVE", ~S.sup.emitted
  PROVE  LET committed == S.sup.terminal = "SUCCESS" /\ ok /\ S.sup.target # {}
             T == Emitted(S, committed, ok) IN
         /\ Sound(T, w) /\ Follows(S, T) /\ T.sup.emitted /\ T.start = S.start /\ T.stop = S.stop
         /\ T.proc = S.proc /\ T.task = S.task /\ T.evt = S.evt
         /\ T.log.stopAck = S.log.stopAck
  <1> DEFINE committed == S.sup.terminal = "SUCCESS" /\ ok /\ S.sup.target # {}
            f == IF S.sup.terminal = "SUCCESS" /\ ~committed THEN Fail(S.sup) ELSE S.sup
            sp == [f EXCEPT !.emitted = TRUE]
            cp == CaptureEnded(S.cap, committed)
            T == Emitted(S, committed, ok)
  <1>1. S \in ParentStates /\ SupInv(S.sup, S.cap, w) /\ LogInv(S, w) /\ PlanInv(S) /\ LiveInv(S)
    BY DEF Sound
  <1>2. S.sup \in Supervisors /\ S.cap \in Captures /\ S.log \in Logs
    BY <1>1, PartTypes
  <1>3. committed \in BOOLEAN
    BY <1>2
  <1>4. T = [S EXCEPT !.sup = sp, !.cap = cp, !.log.committed = committed,
                      !.log.cause = @ \/ ~ok]
    BY Zenon DEF Emitted
  <1>5. /\ cp \in Captures /\ cp.state \notin Busy /\ (cp.state = "IDLE" <=> S.cap.state = "IDLE")
        /\ (S.cap.state = "IDLE" => cp = S.cap)
        /\ (cp.epoch = S.cap.epoch \/ S.cap.epoch = NoEpoch)
    BY <1>2, <1>3, EndedCapture
  <1> HIDE DEF cp
  <1>6. committed => Whole(w)
    BY WholeWhenGood
  <1>7. /\ f \in Supervisors /\ Later(S.sup, f) /\ SupInv(f, S.cap, w)
        /\ f.final = S.sup.final /\ f.drained = S.sup.drained
        /\ f.terminal # "ACTIVE" /\ (f.terminal = "SUCCESS" => committed)
    <2>1. S.sup.aggregateReady
      BY <1>1 DEF SupInv, VerdictInv
    <2>2. Later(S.sup, S.sup) /\ f \in {Fail(S.sup), S.sup}
      BY DEF Later
    <2> QED BY <1>1, <1>2, <2>1, <2>2, FailFields, FailSup
  <1> HIDE DEF f
  <1>8. /\ sp \in Supervisors /\ sp.terminal = f.terminal /\ sp.emitted
        /\ sp.drained = f.drained /\ sp.final = f.final
        /\ sp.unavailable = f.unavailable /\ sp.failed = f.failed
        /\ sp.target = f.target /\ sp.drainEpoch = f.drainEpoch
        /\ sp.stopRequested = f.stopRequested /\ sp.stopEpoch = f.stopEpoch
        /\ sp.aggregateReady = f.aggregateReady /\ sp.result = f.result
        /\ sp.fatal = f.fatal
    BY <1>7 DEF Supervisors
  <1> HIDE DEF sp
  <1>9. /\ T.sup = sp /\ T.task = S.task /\ T.cap = cp
        /\ T.start = S.start /\ T.stop = S.stop /\ T.ctl = S.ctl
        /\ T.evt = S.evt /\ T.proc = S.proc /\ T.killed = S.killed
        /\ T.log = [S.log EXCEPT !.committed = committed, !.cause = @ \/ ~ok]
    BY <1>1, <1>2, <1>4 DEF ParentStates, Logs
  <1>10. /\ T.log \in Logs /\ T.log.committed = committed /\ T.log.tasks = S.log.tasks
        /\ T.log.stopAck = S.log.stopAck
    BY <1>2, <1>3, <1>9 DEF Logs
  <1>11. T \in ParentStates
    BY <1>1, <1>4, <1>5, <1>8, <1>9, <1>10 DEF ParentStates
  <1> HIDE DEF T
  <1>12. SupInv(T.sup, T.cap, w)
    BY <1>5, <1>7, <1>8, <1>9 DEF SupInv, VerdictInv, RecordInv, StopInv, AllGood
  <1>13. Follows(S, T)
    BY <1>1, <1>5, <1>7, <1>8, <1>9, <1>10 DEF Follows, Later, LiveInv
  <1>14. Reports(S, T) /\ Sends(S, T, w) /\ Notes(S, T, w)
    BY <1>7, <1>8, <1>9 DEF Reports, Sends, Notes
  <1>15. Pends(T)
    BY <1>1, <1>9, <1>10, <1>13, ChannelsAssumption DEF Pends, PlanInv, Follows
  <1>16. LogInv(T, w)
    BY <1>1, <1>6, <1>7, <1>8, <1>9, <1>10 DEF LogInv
  <1>17. Sound(T, w)
    BY <1>11, <1>12, <1>13, <1>14, <1>15, <1>16, Change
  <1> QED BY <1>8, <1>9, <1>10, <1>13, <1>17 DEF T

\* A verdict that has fallen is emitted.
LEMMA AggregateEmitted ==
  ASSUME NEW S, NEW w, Sound(S, w), NEW ok \in BOOLEAN
  PROVE  LET T == EmitAggregate(S, ok) IN
         /\ Sound(T, w) /\ Judged(T) /\ Follows(S, T) /\ T.start = S.start /\ T.stop = S.stop
         /\ T.proc = S.proc /\ T.task = S.task /\ T.evt = S.evt
         /\ T.log.stopAck = S.log.stopAck
  <1> DEFINE R == [S EXCEPT !.sup = ResultStatus(@)]
            T == EmitJudged(R, ok)
  <1>1. S \in ParentStates /\ SupInv(S.sup, S.cap, w)
    BY DEF Sound
  <1>2. S.sup \in Supervisors /\ S.task \in [Channels -> Children]
    BY <1>1, PartTypes
  <1>3. /\ ResultStatus(S.sup) \in Supervisors /\ Later(S.sup, ResultStatus(S.sup))
        /\ SupInv(ResultStatus(S.sup), S.cap, w)
        /\ ResultStatus(S.sup).drained = S.sup.drained /\ ResultStatus(S.sup).final = S.sup.final
    <2>1. Undecided(S.sup, S.cap, w)
      BY <1>1 DEF SupInv, VerdictInv, Undecided
    <2> QED BY <1>2, <2>1, ResultFields, ResultSup
  <1>4. R = Recorded(S, ResultStatus(S.sup), S.task)
    BY <1>1 DEF ParentStates, Recorded
  <1> HIDE DEF R
  <1>5. /\ Sound(R, w) /\ Follows(S, R) /\ R.sup = ResultStatus(S.sup) /\ R.start = S.start
        /\ R.stop = S.stop /\ R.proc = S.proc /\ R.task = S.task /\ R.evt = S.evt /\ R.log = S.log
    BY <1>2, <1>3, <1>4, NewRecord
  <1>6. CASE R.sup.emitted \/ R.sup.terminal = "ACTIVE"
    <2>1. T = R /\ Judged(R)
      BY <1>6 DEF EmitJudged, Judged
    <2> QED BY <1>5, <2>1 DEF EmitAggregate, R
  <1>7. CASE ~(R.sup.emitted \/ R.sup.terminal = "ACTIVE")
    <2> DEFINE committed == R.sup.terminal = "SUCCESS" /\ ok /\ R.sup.target # {}
    <2>1. T = Emitted(R, committed, ok)
      BY <1>7 DEF EmitJudged
    <2> HIDE DEF T
    <2>2. /\ Sound(T, w) /\ Follows(R, T) /\ T.sup.emitted /\ T.start = R.start /\ T.stop = R.stop
          /\ T.proc = R.proc /\ T.task = R.task /\ T.evt = R.evt
          /\ T.log.stopAck = R.log.stopAck
      BY <1>5, <1>7, <2>1, EmitOnce
    <2>3. Judged(T)
      BY <2>2 DEF Judged
    <2>4. Follows(S, T)
      BY <1>5, <2>2 DEF Follows
    <2> QED BY <1>5, <2>2, <2>3, <2>4 DEF EmitAggregate, R, T
  <1> QED BY <1>6, <1>7

-----------------------------------------------------------------------------
(* drain_storage_events                                                    *)

\* What is kept while the events of child c are handled.
Draining(S, w, c) ==
    Sound(S, w) /\ S.task[c].live /\ S.proc[c] # "none" /\ S.evt[c] = <<>>

LEMMA SeenTypes ==
  ASSUME NEW t \in Children, NEW e \in Events
  PROVE  /\ Seen(t, e) \in Children /\ Seen(t, e).live = t.live
         /\ Seen(t, e).armed => t.armed \/ e.type = "ARMED"
  BY EventTypes DEF Seen, Children, Results

LEMMA DrainBegun ==
  ASSUME NEW s \in Supervisors, NEW cp \in Captures, NEW w, SupInv(s, cp, w), AutoDrainReady(s)
  PROVE  LET t == BeginAutoDrain(s) IN
         /\ t \in Supervisors /\ Later(s, t) /\ SupInv(t, cp, w) /\ t.failed = s.failed
         /\ t.drained = s.drained /\ t.final = s.final
  <1> DEFINE t == BeginAutoDrain(s)
  <1>1. /\ t \in Supervisors /\ t.terminal = s.terminal /\ t.emitted = s.emitted
        /\ t.drained = s.drained /\ t.final = s.final
        /\ t.unavailable = s.unavailable /\ t.failed = s.failed
        /\ t.target = s.target /\ t.drainEpoch = DrainEpoch
        /\ t.stopRequested = s.stopRequested /\ t.stopEpoch = s.stopEpoch
        /\ t.aggregateReady = s.aggregateReady /\ t.result = s.result
        /\ t.fatal = s.fatal
    BY DEF BeginAutoDrain, Supervisors, DrainEpoch
  <1>2. s.drainEpoch = NoEpoch
    BY DEF AutoDrainReady
  <1> HIDE DEF t
  <1>3. Later(s, t)
    BY <1>1, <1>2 DEF Later
  <1>4. SupInv(t, cp, w)
    BY <1>1, <1>2 DEF SupInv, VerdictInv, RecordInv, StopInv, AllGood
  <1> QED BY <1>1, <1>3, <1>4 DEF t

LEMMA EventDrained ==
  ASSUME NEW S, NEW w, NEW c \in Channels, Draining(S, w, c), NEW e \in Events,
         EventInv(e, w[c]), IsOwn(e) => S.sup.failed
  PROVE  LET T == DrainOne(S, c, e) IN
         /\ Draining(T, w, c) /\ T.start = S.start /\ T.stop = S.stop
         /\ S.sup.failed => T.sup.failed
         /\ e.type = "FATAL" => T.sup.failed
  <1> DEFINE h == HandleEvent(S.sup, c, e)
            T == DrainOne(S, c, e)
            bad == [S.task EXCEPT ![c].fatal = TRUE]
            tk == [S.task EXCEPT ![c] = Seen(@, e)]
            W == Recorded(S, h.sup, tk)
            W2 == Recorded(S, BeginAutoDrain(h.sup), tk)
  <1>1. Sound(S, w) /\ S \in ParentStates /\ SupInv(S.sup, S.cap, w) /\ S.task[c].live
    BY DEF Sound, Draining
  <1>2. S.sup \in Supervisors /\ S.cap \in Captures /\ S.task \in [Channels -> Children]
    BY <1>1, PartTypes
  <1>3. Credible(S.sup, S.cap, w, c, e)
    <2>1. S.sup.target = Channels
      BY <1>1, Plans
    <2>2. w[c].epoch \in {NoEpoch, S.cap.epoch, S.sup.drainEpoch}
      BY <1>1 DEF Sound, PipeInv
    <2> QED BY <2>1, <2>2 DEF Credible
  <1>4. /\ h.sup \in Supervisors /\ Later(S.sup, h.sup) /\ SupInv(h.sup, S.cap, w)
        /\ (e.type = "FATAL" => h.sup.failed)
    BY <1>1, <1>2, <1>3, EventSup
  <1>5. S.sup.failed => h.sup.failed
    BY <1>4 DEF Later
  <1>6. T = Noted(S, c, e, h)
    BY DEF DrainOne
  <1> HIDE DEF h, T
  <1>7. /\ bad \in [Channels -> Children]
        /\ \A d \in Channels : bad[d].live = S.task[d].live /\ bad[d].armed = S.task[d].armed
    <2>1. ASSUME NEW v \in Children
          PROVE  LET x == [v EXCEPT !.fatal = TRUE]
                 IN  x \in Children /\ x.live = v.live /\ x.armed = v.armed
      BY DEF Children
    <2> QED BY <1>2, <2>1
  <1>8. /\ tk \in [Channels -> Children]
        /\ \A d \in Channels : /\ tk[d].live = S.task[d].live
                               /\ tk[d].armed => S.task[d].armed \/ w[d].armed
    <2>1. e.type = "ARMED" => w[c].armed
      BY DEF EventInv
    <2>2. S.task[c] \in Children
      BY <1>2
    <2>3. /\ Seen(S.task[c], e) \in Children /\ Seen(S.task[c], e).live = S.task[c].live
          /\ Seen(S.task[c], e).armed => S.task[c].armed \/ e.type = "ARMED"
      BY <2>2, SeenTypes
    <2>4. \A d \in Channels : tk[d] = IF d = c THEN Seen(S.task[c], e) ELSE S.task[d]
      BY <1>2
    <2>5. tk \in [Channels -> Children]
      BY <1>2, <2>3
    <2> HIDE DEF tk
    <2> QED BY <2>1, <2>3, <2>4, <2>5
  <1>9. ~\A d \in Channels : ~S.task[d].live
    BY <1>1
  <1>10. CASE ~h.ok
    <2>1. T = Recorded(S, h.sup, bad)
      BY <1>1, <1>6, <1>10 DEF Noted, Recorded, ParentStates
    <2> HIDE DEF bad
    <2>2. /\ Sound(T, w) /\ T.sup = h.sup /\ T.task = bad /\ T.evt = S.evt /\ T.proc = S.proc
          /\ T.start = S.start /\ T.stop = S.stop
      BY <1>1, <1>4, <1>7, <1>9, <2>1, NewRecord
    <2> QED BY <1>4, <1>5, <1>7, <2>2 DEF Draining, T
  <1> HIDE DEF bad, tk
  <1>11. CASE h.ok /\ ~AutoDrainReady(h.sup)
    <2>1. T = W
      BY <1>1, <1>6, <1>11 DEF Noted, Recorded, ParentStates, tk
    <2>2. /\ Sound(W, w) /\ W.sup = h.sup /\ W.task = tk /\ W.evt = S.evt /\ W.proc = S.proc
          /\ W.start = S.start /\ W.stop = S.stop
      BY <1>1, <1>4, <1>8, <1>9, NewRecord
    <2> HIDE DEF W
    <2> QED BY <1>4, <1>5, <1>8, <2>1, <2>2 DEF Draining, T
  <1>12. CASE h.ok /\ AutoDrainReady(h.sup)
    <2>1. T = TrySendAutoDrains(W2)
      BY <1>1, <1>6, <1>12 DEF Noted, Recorded, ParentStates, tk
    <2>2. /\ BeginAutoDrain(h.sup) \in Supervisors /\ Later(h.sup, BeginAutoDrain(h.sup))
          /\ SupInv(BeginAutoDrain(h.sup), S.cap, w)
          /\ BeginAutoDrain(h.sup).failed = h.sup.failed
      BY <1>2, <1>4, <1>12, DrainBegun
    <2>3. Later(S.sup, BeginAutoDrain(h.sup))
      BY <1>4, <2>2, LaterLater
    <2>4. /\ Sound(W2, w) /\ W2.sup = BeginAutoDrain(h.sup) /\ W2.task = tk /\ W2.evt = S.evt
          /\ W2.proc = S.proc
          /\ W2.start = S.start /\ W2.stop = S.stop
      BY <1>1, <1>8, <1>9, <2>2, <2>3, NewRecord
    <2> HIDE DEF W2
    <2>5. /\ Sound(T, w) /\ Quiet(W2, T) /\ T.evt = W2.evt /\ T.task = W2.task
          /\ T.start = W2.start /\ T.sup.failed = W2.sup.failed
      BY <2>1, <2>4, DrainsSent
    <2>6. T.proc = W2.proc /\ T.stop = W2.stop
      BY <2>5 DEF Quiet
    <2> QED BY <1>4, <1>5, <1>8, <2>2, <2>4, <2>5, <2>6 DEF Draining, T
  <1> QED BY <1>10, <1>11, <1>12

DrainKeeps(c, seq, w, S, m, s) ==
    /\ Draining(s, w, c) /\ s.start = S.start /\ s.stop = S.stop
    /\ s.sup.failed \/ FatalFirst(seq)
    /\ \A j \in DOMAIN seq : j < m /\ seq[j].type = "FATAL" => s.sup.failed

DrainLoop == INSTANCE FoldInduction WITH
    Body <- LAMBDA p, i, s : DrainOne(s, p[1], p[2][i]),
    Keeps <- LAMBDA p, m, s : DrainKeeps(p[1], p[2], p[3], p[4], m, s),
    Last <- Max

LEMMA MaxIsLargest ==
  ASSUME NEW T \in SUBSET Nat, NEW bound \in Nat, \A x \in T : x < bound, NEW s \in SUBSET T, s # {}
  PROVE  Max(s) \in s /\ \A x \in s : x <= Max(s)
  <1>1. s \in SUBSET Nat /\ \A x \in s : x \in Nat /\ x < bound
    OBVIOUS
  <1>2. PICK x \in s : \A y \in s : y <= x
    BY <1>1, DrainLoop!LargestExists
  <1>3. \A y \in s : x >= y
    BY <1>1, <1>2
  <1>4. Max(s) \in s /\ \A y \in s : Max(s) >= y
    BY <1>3 DEF Max
  <1> QED BY <1>1, <1>4

\* One event of the loop.
LEMMA DrainStep ==
  ASSUME NEW w, NEW c \in Channels, NEW seq \in Seq(Events), NEW S,
         \A i \in DOMAIN seq : EventInv(seq[i], w[c]),
         NEW m \in Nat, NEW s, DrainKeeps(c, seq, w, S, m, s)
  PROVE  IF m \in DOMAIN seq THEN DrainKeeps(c, seq, w, S, m + 1, DrainOne(s, c, seq[m]))
         ELSE DrainKeeps(c, seq, w, S, m + 1, s)
  <1>1. /\ DOMAIN seq \subseteq Nat
        /\ \A j \in DOMAIN seq : j \in Nat /\ (j < m + 1 <=> j < m \/ j = m)
    OBVIOUS
  <1>2. CASE m \notin DOMAIN seq
    BY <1>1, <1>2 DEF DrainKeeps
  <1>3. CASE m \in DOMAIN seq
    <2> DEFINE e == seq[m]
              t == DrainOne(s, c, e)
    <2>1. e \in Events /\ EventInv(e, w[c])
      BY <1>3
    <2>2. IsOwn(e) => s.sup.failed
      BY <1>1, <1>3 DEF DrainKeeps, FatalFirst
    <2>3. Draining(s, w, c)
      BY DEF DrainKeeps
    <2> HIDE DEF e
    <2>4. /\ Draining(t, w, c) /\ t.start = s.start /\ t.stop = s.stop
          /\ s.sup.failed => t.sup.failed
          /\ e.type = "FATAL" => t.sup.failed
      BY <2>1, <2>2, <2>3, EventDrained
    <2> HIDE DEF t
    <2>5. DrainKeeps(c, seq, w, S, m + 1, t)
      BY <1>1, <2>4 DEF DrainKeeps, e
    <2> QED BY <1>3, <2>5 DEF e, t
  <1> QED BY <1>2, <1>3

LEMMA EventsFolded ==
  ASSUME NEW w, NEW c \in Channels, NEW seq \in Seq(Events), NEW S,
         \A i \in DOMAIN seq : EventInv(seq[i], w[c]), DrainKeeps(c, seq, w, S, 0, S)
  PROVE  DrainKeeps(c, seq, w, S, Len(seq) + 1,
                    FoldLeft(LAMBDA s, e : DrainOne(s, c, e), S, seq))
  <1> DEFINE D == DOMAIN seq
            b == Len(seq) + 1
            p == <<c, seq, w, S>>
            Iter(g) == g = [s \in SUBSET D |->
                              IF s = {} THEN S ELSE DrainOne(g[s \ {Max(s)}], c, seq[Max(s)])]
            g == CHOOSE h : Iter(h)
  <1>1. D \in SUBSET Nat /\ b \in Nat /\ \A x \in D : x < b
    OBVIOUS
  <1>2. p[1] = c /\ p[2] = seq /\ p[3] = w /\ p[4] = S
    OBVIOUS
  <1> HIDE DEF D, b, p
  <1>3. DrainLoop!LastIsLargest(D)
    BY <1>1, MaxIsLargest DEF DrainLoop!LastIsLargest
  <1>4. Iter(g)
    <2>1. PICK h : DrainLoop!IsLoop(h, p, S, D)
      BY <1>1, <1>3, DrainLoop!LoopExists
    <2>2. Iter(h)
      BY <2>1, <1>2 DEF DrainLoop!IsLoop
    <2> QED BY <2>2
  <1>5. DrainLoop!IsLoop(g, p, S, D)
    <2> HIDE DEF g
    <2> QED BY <1>4, <1>2 DEF DrainLoop!IsLoop
  <1>6. \A m \in Nat : \A s : DrainKeeps(c, seq, w, S, m, s)
           => IF m \in D THEN DrainKeeps(c, seq, w, S, m + 1, DrainOne(s, c, seq[m]))
              ELSE DrainKeeps(c, seq, w, S, m + 1, s)
    BY DrainStep DEF D
  <1>7. DrainKeeps(c, seq, w, S, b, g[D])
    <2> HIDE DEF g
    <2> QED BY <1>1, <1>2, <1>3, <1>5, <1>6, DrainLoop!LoopKeeps
  <1>8. FoldLeft(LAMBDA s, e : DrainOne(s, c, e), S, seq) = g[D]
    BY DEF FoldLeft, MapThenFoldSet, D
  <1> QED BY <1>7, <1>8 DEF b

LEMMA PipeEmptied ==
  ASSUME NEW S, NEW w, Sound(S, w), NEW c \in Channels, S.task[c].live
  PROVE  LET U == [S EXCEPT !.evt[c] = <<>>] IN
         /\ Draining(U, w, c) /\ U.start = S.start /\ U.stop = S.stop /\ U.sup = S.sup
  <1> DEFINE ev == [S.evt EXCEPT ![c] = <<>>]
            U == [S EXCEPT !.evt = ev]
  <1>1. S \in ParentStates /\ SupInv(S.sup, S.cap, w) /\ LogInv(S, w) /\ PlanInv(S) /\ LiveInv(S)
    BY DEF Sound
  <1>2. S.evt \in [Channels -> Seq(Events)]
    BY <1>1, PartTypes
  <1>3. /\ ev \in [Channels -> Seq(Events)] /\ ev[c] = <<>>
        /\ \A d \in Channels : ev[d] \in {S.evt[d], <<>>}
    BY <1>2
  <1>4. U = [S EXCEPT !.evt[c] = <<>>]
    BY <1>1 DEF ParentStates
  <1> HIDE DEF ev
  <1>5. /\ U \in ParentStates /\ U.sup = S.sup /\ U.task = S.task /\ U.cap = S.cap
        /\ U.start = S.start /\ U.stop = S.stop /\ U.log = S.log /\ U.ctl = S.ctl
        /\ U.evt = ev /\ U.proc = S.proc /\ U.killed = S.killed
    BY <1>1, <1>3 DEF ParentStates
  <1> HIDE DEF U
  <1>6. Follows(S, U) /\ Reports(S, U) /\ Sends(S, U, w) /\ Notes(S, U, w)
    BY <1>1, <1>3, <1>5 DEF Follows, Reports, Sends, Notes, LiveInv
  <1>7. Pends(U) /\ LogInv(U, w)
    BY <1>1, <1>5, ChannelsAssumption DEF Pends, PlanInv, LogInv
  <1>8. Sound(U, w)
    BY <1>1, <1>5, <1>6, <1>7, Change
  <1>9. U.proc[c] # "none"
    BY <1>1, <1>5 DEF LiveInv
  <1> QED BY <1>3, <1>4, <1>5, <1>8, <1>9 DEF Draining

LEMMA AllDrained ==
  ASSUME NEW S, NEW w, Sound(S, w), NEW c \in Channels, S.task[c].live
  PROVE  LET T == DrainAll(S, c) IN
         Sound(T, w) /\ T.task[c].live /\ T.start = S.start /\ T.stop = S.stop
  <1> DEFINE U == [S EXCEPT !.evt[c] = <<>>]
            seq == S.evt[c]
            F == FoldLeft(LAMBDA s, e : DrainOne(s, c, e), U, seq)
  <1>1. Draining(U, w, c) /\ U.start = S.start /\ U.stop = S.stop /\ U.sup = S.sup
    BY PipeEmptied
  <1>2. /\ seq \in Seq(Events) /\ (S.sup.failed \/ FatalFirst(seq))
        /\ \A i \in DOMAIN seq : EventInv(seq[i], w[c])
    BY PartTypes DEF Sound, PipeInv
  <1>3. DrainAll(S, c) = TrySendAutoDrains(F)
    BY DEF DrainAll
  <1> HIDE DEF U, seq
  <1>4. DrainKeeps(c, seq, w, U, 0, U)
    <2>1. \A j \in DOMAIN seq : ~(j < 0)
      BY <1>2
    <2> QED BY <1>1, <1>2, <2>1 DEF DrainKeeps
  <1>5. DrainKeeps(c, seq, w, U, Len(seq) + 1, F)
    BY <1>2, <1>4, EventsFolded
  <1> HIDE DEF F
  <1>6. Sound(F, w) /\ F.task[c].live /\ F.start = U.start /\ F.stop = U.stop
    BY <1>5 DEF DrainKeeps, Draining
  <1>7. LET T == TrySendAutoDrains(F) IN
        Sound(T, w) /\ Quiet(F, T) /\ T.task = F.task /\ T.start = F.start
    BY <1>6, DrainsSent
  <1> QED BY <1>1, <1>3, <1>6, <1>7 DEF Quiet

LEMMA EofHandled ==
  ASSUME NEW S, NEW w, Sound(S, w), NEW c \in Channels
  PROVE  LET T == AtEof(S, c) IN Sound(T, w) /\ T.start = S.start /\ T.stop = S.stop
  <1>1. CASE S.proc[c] = "alive"
    BY <1>1 DEF AtEof
  <1>2. CASE S.proc[c] # "alive"
    <2> DEFINE sp == HandleWorkerEof(S.sup, c)
              tk == [S.task EXCEPT ![c].event = FALSE]
    <2>1. S \in ParentStates /\ SupInv(S.sup, S.cap, w)
      BY DEF Sound
    <2>2. S.sup \in Supervisors /\ S.task \in [Channels -> Children]
      BY <2>1, PartTypes
    <2>3. /\ sp \in Supervisors /\ Later(S.sup, sp) /\ SupInv(sp, S.cap, w)
          /\ sp.drained = S.sup.drained /\ sp.final = S.sup.final
      BY <2>1, <2>2, EofSup
    <2>4. /\ tk \in [Channels -> Children]
          /\ \A d \in Channels : tk[d].live = S.task[d].live /\ tk[d].armed = S.task[d].armed
      <3>1. ASSUME NEW v \in Children
            PROVE  LET x == [v EXCEPT !.event = FALSE]
                   IN  x \in Children /\ x.live = v.live /\ x.armed = v.armed
        BY DEF Children
      <3> QED BY <2>2, <3>1
    <2>5. AtEof(S, c) = Recorded(S, sp, tk)
      BY <1>2, <2>1 DEF AtEof, Recorded, ParentStates
    <2> HIDE DEF sp, tk
    <2> QED BY <2>3, <2>4, <2>5, NewRecord
  <1> QED BY <1>1, <1>2

LEMMA ChildReaped ==
  ASSUME NEW S, NEW w, Sound(S, w), NEW c \in Channels, S.task[c].live, NEW good \in BOOLEAN
  PROVE  LET T == Reaped(S, c, good) IN Sound(T, w) /\ T.start = S.start /\ T.stop = S.stop
  <1> DEFINE sp == HandleWorkerExit(S.sup, c, wk[c].code)
            ch == [S.task[c] EXCEPT !.live = FALSE, !.control = FALSE, !.event = FALSE,
                                    !.state = IF good THEN "IDLE" ELSE "ERROR"]
            pr == [S.proc EXCEPT ![c] = "none"]
            tk == [S.task EXCEPT ![c] = ch]
            T == [S EXCEPT !.sup = sp, !.proc = pr, !.task = tk]
  <1>1. S \in ParentStates /\ SupInv(S.sup, S.cap, w) /\ LogInv(S, w) /\ PlanInv(S) /\ LiveInv(S)
    BY DEF Sound
  <1>2. /\ S.sup \in Supervisors /\ S.task \in [Channels -> Children]
        /\ S.proc \in [Channels -> {"none", "alive", "closing", "zombie"}]
    BY <1>1, PartTypes
  <1>3. Reaped(S, c, good) = T
    BY <1>1 DEF Reaped, ParentStates
  <1>4. /\ sp \in Supervisors /\ Later(S.sup, sp) /\ SupInv(sp, S.cap, w)
        /\ sp.drained = S.sup.drained /\ sp.final = S.sup.final
        /\ c \in sp.final \cup sp.unavailable
    BY <1>1, <1>2, ExitSup
  <1>5. ch \in Children /\ ~ch.live /\ ch.armed = S.task[c].armed
    <2> DEFINE v == S.task[c]
    <2>1. v \in Children
      BY <1>2
    <2> HIDE DEF v
    <2>2. LET x == [v EXCEPT !.live = FALSE, !.control = FALSE, !.event = FALSE,
                             !.state = IF good THEN "IDLE" ELSE "ERROR"]
          IN  x \in Children /\ ~x.live /\ x.armed = v.armed
      BY <2>1 DEF Children
    <2> QED BY <2>2 DEF v
  <1> HIDE DEF ch
  <1>6. /\ tk \in [Channels -> Children]
        /\ \A d \in Channels : /\ tk[d].live <=> S.task[d].live /\ d # c
                               /\ tk[d].armed = S.task[d].armed
    BY <1>2, <1>5 DEF Children
  <1>7. /\ pr \in [Channels -> {"none", "alive", "closing", "zombie"}]
        /\ \A d \in Channels : pr[d] # "none" <=> S.proc[d] # "none" /\ d # c
    BY <1>2
  <1> HIDE DEF sp, pr, tk
  <1>8. /\ T \in ParentStates /\ T.sup = sp /\ T.task = tk /\ T.cap = S.cap
        /\ T.start = S.start /\ T.stop = S.stop /\ T.log = S.log /\ T.ctl = S.ctl
        /\ T.evt = S.evt /\ T.proc = pr /\ T.killed = S.killed
    BY <1>1, <1>4, <1>6, <1>7 DEF ParentStates
  <1> HIDE DEF T
  <1>9. Follows(S, T)
    BY <1>1, <1>4, <1>6, <1>7, <1>8 DEF Follows, Later, LiveInv
  <1>10. Reports(S, T) /\ Sends(S, T, w) /\ Notes(S, T, w)
    BY <1>4, <1>6, <1>8 DEF Reports, Sends, Notes
  <1>11. T.sup.target = S.sup.target
    BY <1>9 DEF Follows
  <1>12. Pends(T)
    BY <1>1, <1>8, <1>11, ChannelsAssumption DEF Pends, PlanInv
  <1>13. LogInv(T, w)
    BY <1>1, <1>2, <1>4, <1>8, LaterLog
  <1>14. Sound(T, w)
    BY <1>4, <1>8, <1>9, <1>10, <1>12, <1>13, Change
  <1> QED BY <1>3, <1>8, <1>14

LEMMA ExitFinished ==
  ASSUME NEW S, NEW w, Sound(S, w), NEW c \in Channels, S.task[c].live, NEW ok \in BOOLEAN
  PROVE  LET T == FinishWorkerExit(S, c, ok) IN
         Sound(T, w) /\ Judged(T) /\ T.start = S.start /\ T.stop = S.stop
  <1> DEFINE U == IF S.task[c].event THEN DrainAll(S, c) ELSE S
            R == Reaped(U, c, TRUE)
            Q == Reaped(U, c, FALSE)
            V == AfterExit(U, c)
            W == TrySendPendingStops(V)
  <1>1. Sound(U, w) /\ U.task[c].live /\ U.start = S.start /\ U.stop = S.stop
    BY AllDrained
  <1>2. FinishWorkerExit(S, c, ok) = EmitAggregate(W, ok)
    BY DEF FinishWorkerExit
  <1> HIDE DEF U
  <1>3. /\ Sound(R, w) /\ R.start = U.start /\ R.stop = U.stop
        /\ Sound(Q, w) /\ Q.start = U.start /\ Q.stop = U.stop
    BY <1>1, ChildReaped
  <1>4. V = R \/ V = RequestStorageStopAll(Q)
    BY DEF AfterExit
  <1> HIDE DEF R, Q, V
  <1>5. Sound(V, w) /\ V.start = U.start /\ V.stop = U.stop
    BY <1>3, <1>4, StopAllRequested DEF Quiet
  <1>6. Sound(W, w) /\ W.start = U.start /\ W.stop = U.stop
    BY <1>5, StopsSent DEF Quiet
  <1> HIDE DEF W
  <1> QED BY <1>1, <1>2, <1>6, AggregateEmitted

\* check_task
LEMMA TaskChecked ==
  ASSUME NEW S, NEW w, Sound(S, w), Judged(S), NEW c \in Channels, NEW ok \in BOOLEAN
  PROVE  LET T == CheckTask(S, c, ok) IN
         Sound(T, w) /\ Judged(T) /\ T.start = S.start /\ T.stop = S.stop
  <1>1. CASE ~S.task[c].live
    BY <1>1 DEF CheckTask
  <1>2. CASE S.task[c].live /\ S.proc[c] = "zombie"
    BY <1>2, ExitFinished DEF CheckTask
  <1>3. CASE S.task[c].live /\ S.proc[c] # "zombie"
    <2> DEFINE D == DrainAll(S, c)
              U == IF S.task[c].event THEN AtEof(D, c) ELSE S
              W == TrySendPendingStops(U)
    <2>1. Sound(D, w) /\ D.start = S.start /\ D.stop = S.stop
      BY <1>3, AllDrained
    <2>2. CheckTask(S, c, ok) = EmitAggregate(W, ok)
      BY <1>3 DEF CheckTask
    <2> HIDE DEF D
    <2>3. Sound(U, w) /\ U.start = S.start /\ U.stop = S.stop
      BY <2>1, EofHandled
    <2> HIDE DEF U
    <2>4. Sound(W, w) /\ W.start = S.start /\ W.stop = S.stop
      BY <2>3, StopsSent DEF Quiet
    <2> HIDE DEF W
    <2> QED BY <2>2, <2>4, AggregateEmitted
  <1> QED BY <1>1, <1>2, <1>3

-----------------------------------------------------------------------------
(* The start barrier.                                                      *)

Staged(S, cp, st) == [S EXCEPT !.cap = cp, !.start = st]

LEMMA NewStage ==
  ASSUME NEW S, NEW w, Sound(S, w), NEW cp \in Captures, NEW st \in Starts,
         cp.state \in Busy => S.cap.state \in Busy, cp.state = "IDLE" <=> S.cap.state = "IDLE",
         cp.epoch = S.cap.epoch, st.active <=> st.phase # "NONE",
         st.active => S.sup.target # {},
         NEW T, T = Staged(S, cp, st)
  PROVE  /\ Sound(T, w) /\ Follows(S, T) /\ (Judged(S) => Judged(T))
         /\ T.sup = S.sup /\ T.task = S.task /\ T.cap = cp /\ T.start = st /\ T.stop = S.stop
         /\ T.log = S.log /\ T.ctl = S.ctl /\ T.evt = S.evt /\ T.proc = S.proc
         /\ T.killed = S.killed
  <1>1. S \in ParentStates /\ SupInv(S.sup, S.cap, w) /\ LogInv(S, w) /\ PlanInv(S) /\ LiveInv(S)
    BY DEF Sound
  <1>2. /\ T \in ParentStates /\ T.sup = S.sup /\ T.task = S.task /\ T.cap = cp
        /\ T.start = st /\ T.stop = S.stop /\ T.log = S.log /\ T.ctl = S.ctl
        /\ T.evt = S.evt /\ T.proc = S.proc /\ T.killed = S.killed
    BY <1>1 DEF ParentStates, Staged
  <1>3. S.cap \in Captures
    BY <1>1, PartTypes
  <1>4. S.cap.state = "IDLE" => cp = S.cap
    BY <1>3 DEF Captures
  <1>5. Follows(S, T) /\ Reports(S, T) /\ Sends(S, T, w) /\ Notes(S, T, w)
    BY <1>1, <1>2, <1>4 DEF Follows, Reports, Sends, Notes, LiveInv
  <1>6. Pends(T) /\ LogInv(T, w)
    BY <1>1, <1>2 DEF Pends, PlanInv, LogInv
  <1>7. SupInv(T.sup, T.cap, w)
    BY <1>1, <1>2 DEF SupInv, VerdictInv, RecordInv, StopInv
  <1>8. Sound(T, w)
    BY <1>2, <1>5, <1>6, <1>7, Change
  <1>9. Judged(S) => Judged(T)
    BY <1>2 DEF Judged
  <1> QED BY <1>2, <1>5, <1>8, <1>9

LEMMA StartFailed ==
  ASSUME NEW S, NEW w, Sound(S, w)
  PROVE  LET T == PendingStartFail(S) IN
         /\ Sound(T, w) /\ Follows(S, T) /\ T.stop = S.stop /\ T.log = S.log
         /\ T.start.active = S.start.active
         /\ Judged(S) => Judged(T)
         /\ S.start.active => T.cap.state \notin Busy \/ S.start.phase = "FAILED"
  <1>1. CASE ~S.start.active \/ S.start.phase = "FAILED"
    BY <1>1, Unchanged DEF PendingStartFail, Quiet
  <1>2. CASE S.start.active /\ S.start.phase # "FAILED"
    <2> DEFINE cp == CaptureFail(S.cap)
              st == [S.start EXCEPT !.phase = "FAILED"]
              U == [S EXCEPT !.start.phase = "FAILED", !.cap = CaptureFail(@)]
              T == RequestStorageStopAll(U)
    <2>1. S \in ParentStates /\ S.cap \in Captures /\ S.start \in Starts
      BY PartTypes DEF Sound
    <2>2. PendingStartFail(S) = T
      BY <1>2 DEF PendingStartFail
    <2>3. U = Staged(S, cp, st)
      BY <2>1 DEF Staged, ParentStates
    <2>4. /\ cp \in Captures /\ cp.state \notin Busy /\ (cp.state = "IDLE" <=> S.cap.state = "IDLE")
          /\ cp.epoch = S.cap.epoch
      BY <2>1 DEF CaptureFail, Captures, Busy, Stoppable
    <2>5. st \in Starts /\ st.active = S.start.active /\ st.phase = "FAILED"
      BY <2>1 DEF Starts
    <2>6. S.sup.target # {}
      BY <1>2, ChannelsAssumption DEF Sound, PlanInv
    <2> HIDE DEF U, cp, st
    <2>7. cp.state \in Busy => S.cap.state \in Busy
      BY <2>4
    <2>8. (st.active <=> st.phase # "NONE") /\ (st.active => S.sup.target # {})
      BY <1>2, <2>5, <2>6
    <2>9. /\ Sound(U, w) /\ Follows(S, U) /\ (Judged(S) => Judged(U)) /\ U.start = st
          /\ U.cap = cp /\ U.stop = S.stop /\ U.log = S.log
      BY <2>3, <2>4, <2>5, <2>7, <2>8, NewStage
    <2>10. Sound(T, w) /\ Quiet(U, T) /\ T.start = U.start
      BY <2>9, StopAllRequested
    <2> HIDE DEF T
    <2>11. Judged(U) => Judged(T)
      BY <2>10, QuietJudged
    <2>12. Follows(S, T)
      BY <2>9, <2>10 DEF Follows, Quiet
    <2>13. T.cap.state \notin Busy
      BY <2>4, <2>9, <2>10 DEF Quiet, Follows
    <2> QED BY <2>2, <2>5, <2>9, <2>10, <2>11, <2>12, <2>13 DEF Quiet
  <1> QED BY <1>1, <1>2

LEMMA StartAnswer ==
  ASSUME NEW S, NEW w, Sound(S, w), Judged(S), NEW answer \in Answers
  PROVE  LET T == StartAcked(S, answer) IN Sound(T, w) /\ Judged(T)
  <1> DEFINE lg == [S.log EXCEPT !.startAck = answer]
            T == [S EXCEPT !.start = NoStart, !.log = lg]
  <1>1. S \in ParentStates /\ SupInv(S.sup, S.cap, w) /\ LogInv(S, w) /\ PlanInv(S) /\ LiveInv(S)
    BY DEF Sound
  <1>2. S.log \in Logs
    BY <1>1, PartTypes
  <1>3. StartAcked(S, answer) = T
    BY <1>1 DEF StartAcked, ParentStates
  <1>4. /\ lg \in Logs /\ lg.tasks = S.log.tasks /\ lg.committed = S.log.committed
        /\ lg.stopAck = S.log.stopAck
    BY <1>2 DEF Logs
  <1>5. NoStart \in Starts /\ ~NoStart.active /\ NoStart.phase = "NONE"
    BY DEF NoStart, Starts
  <1> HIDE DEF lg
  <1>6. /\ T \in ParentStates /\ T.sup = S.sup /\ T.task = S.task /\ T.cap = S.cap
        /\ T.start = NoStart /\ T.stop = S.stop /\ T.log = lg /\ T.ctl = S.ctl
        /\ T.evt = S.evt /\ T.proc = S.proc /\ T.killed = S.killed
    BY <1>1, <1>4, <1>5 DEF ParentStates
  <1> HIDE DEF T
  <1>7. Follows(S, T) /\ Reports(S, T) /\ Sends(S, T, w) /\ Notes(S, T, w)
    BY <1>1, <1>4, <1>6 DEF Follows, Reports, Sends, Notes, LiveInv
  <1>8. Pends(T) /\ LogInv(T, w)
    BY <1>1, <1>4, <1>5, <1>6 DEF Pends, PlanInv, LogInv
  <1>9. Sound(T, w)
    BY <1>1, <1>6, <1>7, <1>8, Change
  <1>10. Judged(T)
    BY <1>6 DEF Judged
  <1> QED BY <1>3, <1>9, <1>10

LEMMA FailedStartServiced ==
  ASSUME NEW S, NEW w, Sound(S, w), Judged(S), NEW ok \in BOOLEAN
  PROVE  LET T == ServiceFailedStart(S, ok) IN Sound(T, w) /\ Judged(T)
  <1> DEFINE R == RequestStorageStopAll(S)
            E == EmitAggregate(R, ok)
  <1>1. Sound(R, w) /\ Judged(R)
    BY StopAllRequested, QuietJudged
  <1>2. ServiceFailedStart(S, ok) \in {S, R, StartAcked(E, "failed")}
    BY DEF ServiceFailedStart
  <1> HIDE DEF R
  <1>3. Sound(E, w) /\ Judged(E)
    BY <1>1, AggregateEmitted
  <1> HIDE DEF E
  <1>4. Sound(StartAcked(E, "failed"), w) /\ Judged(StartAcked(E, "failed"))
    BY <1>3, StartAnswer DEF Answers
  <1> QED BY <1>1, <1>2, <1>4

\* ARM or RUN for one child; RUN only when all have armed.
LEMMA GateSent ==
  ASSUME NEW S, NEW w, Sound(S, w), Judged(S), NEW c \in Channels, NEW type \in {"ARM", "RUN"},
         type = "RUN" => ArmedAll(w)
  PROVE  LET T == SendOrFail(S, c, type) IN
         Sound(T, w) /\ Judged(T) /\ T.start.active = S.start.active
  <1>1. CASE ~(S.task[c].state = "RUNNING" /\ CanSend(S, c))
    BY <1>1, StartFailed DEF SendOrFail
  <1>2. CASE S.task[c].state = "RUNNING" /\ CanSend(S, c)
    <2> DEFINE m == Message(type, NoEpoch)
              ct == Send(S.ctl, {c}, m)
              T == [S EXCEPT !.ctl = ct]
    <2>1. S \in ParentStates /\ SupInv(S.sup, S.cap, w) /\ LogInv(S, w) /\ PlanInv(S) /\ LiveInv(S)
      BY DEF Sound
    <2>2. SendOrFail(S, c, type) = T
      BY <1>2 DEF SendOrFail
    <2>3. m \in Messages /\ m.type = type /\ m.epoch = NoEpoch
      BY DEF Messages, Message, NoEpoch
    <2> HIDE DEF m
    <2>4. ct \in [Channels -> Seq(Messages)]
      BY <2>1, <2>3, PartTypes, SendTypes
    <2>5. \A d \in Channels : ct[d] = S.ctl[d] \/ ct[d] = Append(S.ctl[d], m)
      BY DEF Send
    <2> HIDE DEF ct
    <2>6. /\ T \in ParentStates /\ T.sup = S.sup /\ T.task = S.task /\ T.cap = S.cap
          /\ T.start = S.start /\ T.stop = S.stop /\ T.log = S.log /\ T.ctl = ct
          /\ T.evt = S.evt /\ T.proc = S.proc /\ T.killed = S.killed
      BY <2>1, <2>4 DEF ParentStates
    <2> HIDE DEF T
    <2>7. MessageInv(m, T.cap.epoch, T.sup.drainEpoch)
      BY <2>3 DEF MessageInv
    <2>8. Sends(S, T, w)
      BY <2>3, <2>5, <2>6, <2>7 DEF Sends
    <2>9. Follows(S, T) /\ Reports(S, T) /\ Notes(S, T, w)
      BY <2>1, <2>6 DEF Follows, Reports, Notes, LiveInv
    <2>10. Pends(T) /\ LogInv(T, w)
      BY <2>1, <2>6, ChannelsAssumption DEF Pends, PlanInv, LogInv
    <2>11. Sound(T, w)
      BY <2>1, <2>6, <2>8, <2>9, <2>10, Change
    <2>12. Judged(T)
      BY <2>6 DEF Judged
    <2> QED BY <2>2, <2>6, <2>11, <2>12
  <1> QED BY <1>1, <1>2

-----------------------------------------------------------------------------
(* The loops over storage_tasks[].                                         *)

Held(S, w, s) == Sound(s, w) /\ Judged(s) /\ (S.start.active => s.start.active)

\* The parameters of a loop are the state before it, the workers and the outcome of calls.
ArmLoop == INSTANCE FoldInduction WITH
    Body <- LAMBDA p, c, s : ArmTarget(s, c, p[3]),
    Keeps <- LAMBDA p, m, s : Held(p[1], p[2], s), Last <- Max

RunLoop == INSTANCE FoldInduction WITH
    Body <- LAMBDA p, c, s : RunTarget(s, c),
    Keeps <- LAMBDA p, m, s : Held(p[1], p[2], s), Last <- Max

CheckLoop == INSTANCE FoldInduction WITH
    Body <- LAMBDA p, c, s : CheckStartTarget(s, c, p[3]),
    Keeps <- LAMBDA p, m, s : Held(p[1], p[2], s), Last <- Max

KillLoop == INSTANCE FoldInduction WITH
    Body <- LAMBDA p, c, s : KillTarget(s, c, p[3]),
    Keeps <- LAMBDA p, m, s : Held(p[1], p[2], s), Last <- Max

LEMMA ChannelsBounded == \E b \in Nat : \A c \in Channels : c < b
  <1> DEFINE A == {n \in Nat : \A f \in [1 .. n -> Nat] : \E b \in Nat : \A i \in 1 .. n : f[i] < b}
  <1>1. 0 \in A
    OBVIOUS
  <1>2. ASSUME NEW n \in A PROVE n + 1 \in A
    <2>1. n \in Nat /\ n + 1 \in Nat
      OBVIOUS
    <2> SUFFICES ASSUME NEW f \in [1 .. n + 1 -> Nat]
                 PROVE  \E b \in Nat : \A i \in 1 .. n + 1 : f[i] < b
      BY <2>1
    <2> DEFINE h == [i \in 1 .. n |-> f[i]]
    <2>2. n \in Nat /\ n + 1 \in 1 .. n + 1 /\ \A i \in 1 .. n : i \in 1 .. n + 1
      OBVIOUS
    <2>3. h \in [1 .. n -> Nat]
      BY <2>2
    <2>4. PICK b \in Nat : \A i \in 1 .. n : h[i] < b
      BY <2>3
    <2>5. f[n + 1] \in Nat /\ \A i \in 1 .. n : f[i] < b /\ f[i] \in Nat
      BY <2>2, <2>4
    <2>6. \A i \in 1 .. n + 1 : i \in 1 .. n \/ i = n + 1
      BY <2>2
    <2>7. \A i \in 1 .. n + 1 : f[i] < b + f[n + 1] + 1
      BY <2>5, <2>6
    <2>8. b + f[n + 1] + 1 \in Nat
      BY <2>5
    <2> QED BY <2>7, <2>8
  <1>3. A = Nat
    <2>1. A \in SUBSET Nat
      OBVIOUS
    <2> HIDE DEF A
    <2> QED BY <1>1, <1>2, <2>1, ArmLoop!SetInduction
  <1>4. PICK n \in Nat : ExistsSurjection(1 .. n, Channels)
    BY ChannelsAssumption, FS_NatSurjection
  <1>5. PICK f \in [1 .. n -> Channels] : \A c \in Channels : \E i \in 1 .. n : f[i] = c
    BY <1>4 DEF ExistsSurjection, Surjection
  <1>6. f \in [1 .. n -> Nat]
    BY ChannelsAssumption
  <1>7. n \in A
    BY <1>3
  <1>8. PICK b \in Nat : \A i \in 1 .. n : f[i] < b
    BY <1>6, <1>7
  <1> QED BY <1>5, <1>8

\* A channel is marked for SIGKILL.
LEMMA KillMarked ==
  ASSUME NEW S, NEW w, Sound(S, w), NEW c \in Channels
  PROVE  LET T == [S EXCEPT !.killed = @ \cup {c}] IN
         Sound(T, w) /\ T.start = S.start /\ (Judged(S) => Judged(T))
  <1> DEFINE T == [S EXCEPT !.killed = S.killed \cup {c}]
  <1>1. S \in ParentStates /\ SupInv(S.sup, S.cap, w) /\ LogInv(S, w) /\ PlanInv(S) /\ LiveInv(S)
    BY DEF Sound
  <1>2. S.killed \cup {c} \in Mask
    BY <1>1, PartTypes DEF Mask
  <1>3. /\ T \in ParentStates /\ T.sup = S.sup /\ T.task = S.task /\ T.cap = S.cap
        /\ T.start = S.start /\ T.stop = S.stop /\ T.log = S.log /\ T.ctl = S.ctl
        /\ T.evt = S.evt /\ T.proc = S.proc
    BY <1>1, <1>2 DEF ParentStates
  <1> HIDE DEF T
  <1>4. Follows(S, T) /\ Reports(S, T) /\ Sends(S, T, w) /\ Notes(S, T, w)
    BY <1>1, <1>3 DEF Follows, Reports, Sends, Notes, LiveInv
  <1>5. Pends(T) /\ LogInv(T, w)
    BY <1>1, <1>3, ChannelsAssumption DEF Pends, PlanInv, LogInv
  <1>6. Sound(T, w)
    BY <1>1, <1>3, <1>4, <1>5, Change
  <1>7. Judged(S) => Judged(T)
    BY <1>3 DEF Judged
  <1> QED BY <1>3, <1>6, <1>7 DEF T

LEMMA ArmStep ==
  ASSUME NEW S, NEW w, NEW s, Held(S, w, s), NEW c \in Channels, NEW ok \in BOOLEAN
  PROVE  Held(S, w, ArmTarget(s, c, ok))
  <1>1. Sound(s, w) /\ Judged(s) /\ (S.start.active => s.start.active)
    BY DEF Held
  <1> DEFINE t == CheckTask(s, c, ok)
            u == SendOrFail(t, c, "ARM")
  <1>2. Sound(t, w) /\ Judged(t) /\ t.start = s.start
    BY <1>1, TaskChecked
  <1>3. ArmTarget(s, c, ok) = s \/ ArmTarget(s, c, ok) = u
    BY DEF ArmTarget
  <1> HIDE DEF t
  <1>4. Sound(u, w) /\ Judged(u) /\ u.start.active = t.start.active
    BY <1>2, GateSent
  <1> HIDE DEF u
  <1> QED BY <1>1, <1>2, <1>3, <1>4 DEF Held

LEMMA RunStep ==
  ASSUME NEW S, NEW w, NEW s, Held(S, w, s), NEW c \in Channels, ArmedAll(w)
  PROVE  Held(S, w, RunTarget(s, c))
  <1>1. Sound(s, w) /\ Judged(s) /\ (S.start.active => s.start.active)
    BY DEF Held
  <1> DEFINE u == SendOrFail(s, c, "RUN")
  <1>2. RunTarget(s, c) = s \/ RunTarget(s, c) = u
    BY DEF RunTarget
  <1>3. Sound(u, w) /\ Judged(u) /\ u.start.active = s.start.active
    BY <1>1, GateSent
  <1> HIDE DEF u
  <1> QED BY <1>1, <1>2, <1>3 DEF Held

LEMMA CheckStep ==
  ASSUME NEW S, NEW w, NEW s, Held(S, w, s), NEW c \in Channels, NEW ok \in BOOLEAN
  PROVE  Held(S, w, CheckStartTarget(s, c, ok))
  <1>1. Sound(s, w) /\ Judged(s) /\ (S.start.active => s.start.active)
    BY DEF Held
  <1> DEFINE t == CheckTask(s, c, ok)
            u == PendingStartFail(t)
  <1>2. Sound(t, w) /\ Judged(t) /\ t.start = s.start
    BY <1>1, TaskChecked
  <1>3. CheckStartTarget(s, c, ok) = t \/ CheckStartTarget(s, c, ok) = u
    BY DEF CheckStartTarget, FailUnlessLive
  <1> HIDE DEF t
  <1>4. Sound(u, w) /\ Judged(u) /\ u.start.active = t.start.active
    BY <1>2, StartFailed
  <1> HIDE DEF u
  <1> QED BY <1>1, <1>2, <1>3, <1>4 DEF Held

LEMMA KillStep ==
  ASSUME NEW S, NEW w, NEW s, Held(S, w, s), NEW c \in Channels, NEW ok \in BOOLEAN
  PROVE  Held(S, w, KillTarget(s, c, ok))
  <1>1. Sound(s, w) /\ Judged(s) /\ (S.start.active => s.start.active)
    BY DEF Held
  <1> DEFINE t == FinishWorkerExit(s, c, ok)
            u == [s EXCEPT !.killed = @ \cup {c}]
  <1>2. s.task[c].live => Sound(t, w) /\ Judged(t) /\ t.start = s.start
    BY <1>1, ExitFinished
  <1>3. \/ KillTarget(s, c, ok) = s \/ KillTarget(s, c, ok) = u
        \/ s.task[c].live /\ KillTarget(s, c, ok) = t
    BY DEF KillTarget
  <1>4. Sound(u, w) /\ Judged(u) /\ u.start = s.start
    BY <1>1, KillMarked
  <1> HIDE DEF t, u
  <1> QED BY <1>1, <1>2, <1>3, <1>4 DEF Held

LEMMA Armed ==
  ASSUME NEW S, NEW w, Held(S, w, S), NEW ok \in BOOLEAN, NEW channels \in SUBSET Channels
  PROVE  Held(S, w, ForChannels(channels, LAMBDA s, c : ArmTarget(s, c, ok), S))
  <1> DEFINE p == <<S, w, ok>>
            Iter(g) == g = [s \in SUBSET channels |->
                              IF s = {} THEN S ELSE ArmTarget(g[s \ {Max(s)}], Max(s), ok)]
            g == CHOOSE h : Iter(h)
  <1>1. PICK b \in Nat : channels \in SUBSET Nat /\ \A x \in channels : x < b
    BY ChannelsBounded, ChannelsAssumption
  <1>2. p[1] = S /\ p[2] = w /\ p[3] = ok
    OBVIOUS
  <1> HIDE DEF p
  <1>3. ArmLoop!LastIsLargest(channels)
    BY <1>1, MaxIsLargest DEF ArmLoop!LastIsLargest
  <1>4. Iter(g)
    <2>1. PICK h : ArmLoop!IsLoop(h, p, S, channels)
      BY <1>1, <1>3, ArmLoop!LoopExists
    <2>2. Iter(h)
      BY <2>1, <1>2 DEF ArmLoop!IsLoop
    <2> QED BY <2>2
  <1>5. ArmLoop!IsLoop(g, p, S, channels)
    <2> HIDE DEF g
    <2> QED BY <1>4, <1>2 DEF ArmLoop!IsLoop
  <1>6. \A m \in Nat : \A s : Held(S, w, s) => IF m \in channels
                                                  THEN Held(S, w, ArmTarget(s, m, ok))
                                                  ELSE Held(S, w, s)
    BY ArmStep
  <1>7. Held(S, w, g[channels])
    <2> HIDE DEF g
    <2> QED BY <1>1, <1>2, <1>3, <1>5, <1>6, ArmLoop!LoopKeeps
  <1>8. ForChannels(channels, LAMBDA s, c : ArmTarget(s, c, ok), S) = g[channels]
    BY DEF ForChannels, MapThenFoldSet
  <1> QED BY <1>7, <1>8

LEMMA RunsSent ==
  ASSUME NEW S, NEW w, Held(S, w, S), ArmedAll(w), NEW channels \in SUBSET Channels
  PROVE  Held(S, w, ForChannels(channels, RunTarget, S))
  <1> DEFINE p == <<S, w>>
            Iter(g) == g = [s \in SUBSET channels |->
                              IF s = {} THEN S ELSE RunTarget(g[s \ {Max(s)}], Max(s))]
            g == CHOOSE h : Iter(h)
  <1>1. PICK b \in Nat : channels \in SUBSET Nat /\ \A x \in channels : x < b
    BY ChannelsBounded, ChannelsAssumption
  <1>2. p[1] = S /\ p[2] = w
    OBVIOUS
  <1> HIDE DEF p
  <1>3. RunLoop!LastIsLargest(channels)
    BY <1>1, MaxIsLargest DEF RunLoop!LastIsLargest
  <1>4. Iter(g)
    <2>1. PICK h : RunLoop!IsLoop(h, p, S, channels)
      BY <1>1, <1>3, RunLoop!LoopExists
    <2>2. Iter(h)
      BY <2>1, <1>2 DEF RunLoop!IsLoop
    <2> QED BY <2>2
  <1>5. RunLoop!IsLoop(g, p, S, channels)
    <2> HIDE DEF g
    <2> QED BY <1>4, <1>2 DEF RunLoop!IsLoop
  <1>6. \A m \in Nat : \A s : Held(S, w, s) => IF m \in channels THEN Held(S, w, RunTarget(s, m))
                                          ELSE Held(S, w, s)
    BY RunStep
  <1>7. Held(S, w, g[channels])
    <2> HIDE DEF g
    <2> QED BY <1>1, <1>2, <1>3, <1>5, <1>6, RunLoop!LoopKeeps
  <1>8. ForChannels(channels, RunTarget, S) = g[channels]
    BY DEF ForChannels, MapThenFoldSet
  <1> QED BY <1>7, <1>8

LEMMA StartChecked ==
  ASSUME NEW S, NEW w, Held(S, w, S), NEW ok \in BOOLEAN, NEW channels \in SUBSET Channels
  PROVE  Held(S, w, ForChannels(channels, LAMBDA s, c : CheckStartTarget(s, c, ok), S))
  <1> DEFINE p == <<S, w, ok>>
            Iter(g) == g = [s \in SUBSET channels |->
                              IF s = {} THEN S ELSE CheckStartTarget(g[s \ {Max(s)}], Max(s), ok)]
            g == CHOOSE h : Iter(h)
  <1>1. PICK b \in Nat : channels \in SUBSET Nat /\ \A x \in channels : x < b
    BY ChannelsBounded, ChannelsAssumption
  <1>2. p[1] = S /\ p[2] = w /\ p[3] = ok
    OBVIOUS
  <1> HIDE DEF p
  <1>3. CheckLoop!LastIsLargest(channels)
    BY <1>1, MaxIsLargest DEF CheckLoop!LastIsLargest
  <1>4. Iter(g)
    <2>1. PICK h : CheckLoop!IsLoop(h, p, S, channels)
      BY <1>1, <1>3, CheckLoop!LoopExists
    <2>2. Iter(h)
      BY <2>1, <1>2 DEF CheckLoop!IsLoop
    <2> QED BY <2>2
  <1>5. CheckLoop!IsLoop(g, p, S, channels)
    <2> HIDE DEF g
    <2> QED BY <1>4, <1>2 DEF CheckLoop!IsLoop
  <1>6. \A m \in Nat : \A s : Held(S, w, s) => IF m \in channels
                                                  THEN Held(S, w, CheckStartTarget(s, m, ok))
                                                  ELSE Held(S, w, s)
    BY CheckStep
  <1>7. Held(S, w, g[channels])
    <2> HIDE DEF g
    <2> QED BY <1>1, <1>2, <1>3, <1>5, <1>6, CheckLoop!LoopKeeps
  <1>8. ForChannels(channels, LAMBDA s, c : CheckStartTarget(s, c, ok), S) = g[channels]
    BY DEF ForChannels, MapThenFoldSet
  <1> QED BY <1>7, <1>8

LEMMA AllKilled ==
  ASSUME NEW S, NEW w, Held(S, w, S), NEW ok \in BOOLEAN, NEW channels \in SUBSET Channels
  PROVE  Held(S, w, ForChannels(channels, LAMBDA s, c : KillTarget(s, c, ok), S))
  <1> DEFINE p == <<S, w, ok>>
            Iter(g) == g = [s \in SUBSET channels |->
                              IF s = {} THEN S ELSE KillTarget(g[s \ {Max(s)}], Max(s), ok)]
            g == CHOOSE h : Iter(h)
  <1>1. PICK b \in Nat : channels \in SUBSET Nat /\ \A x \in channels : x < b
    BY ChannelsBounded, ChannelsAssumption
  <1>2. p[1] = S /\ p[2] = w /\ p[3] = ok
    OBVIOUS
  <1> HIDE DEF p
  <1>3. KillLoop!LastIsLargest(channels)
    BY <1>1, MaxIsLargest DEF KillLoop!LastIsLargest
  <1>4. Iter(g)
    <2>1. PICK h : KillLoop!IsLoop(h, p, S, channels)
      BY <1>1, <1>3, KillLoop!LoopExists
    <2>2. Iter(h)
      BY <2>1, <1>2 DEF KillLoop!IsLoop
    <2> QED BY <2>2
  <1>5. KillLoop!IsLoop(g, p, S, channels)
    <2> HIDE DEF g
    <2> QED BY <1>4, <1>2 DEF KillLoop!IsLoop
  <1>6. \A m \in Nat : \A s : Held(S, w, s) => IF m \in channels
                                                  THEN Held(S, w, KillTarget(s, m, ok))
                                                  ELSE Held(S, w, s)
    BY KillStep
  <1>7. Held(S, w, g[channels])
    <2> HIDE DEF g
    <2> QED BY <1>1, <1>2, <1>3, <1>5, <1>6, KillLoop!LoopKeeps
  <1>8. ForChannels(channels, LAMBDA s, c : KillTarget(s, c, ok), S) = g[channels]
    BY DEF ForChannels, MapThenFoldSet
  <1> QED BY <1>7, <1>8

-----------------------------------------------------------------------------
(* The start barrier and STOP as a whole.                                  *)

Judgement(S, w) == Sound(S, w) /\ Judged(S)

LEMMA ToHeld ==
  ASSUME NEW S, NEW w, Judgement(S, w)
  PROVE  Held(S, w, S) /\ S.sup.target \in SUBSET Channels
  <1>1. S.sup \in Supervisors
    BY PartTypes DEF Judgement, Sound
  <1> QED BY <1>1 DEF Judgement, Held, Supervisors, Mask

LEMMA BarrierBegun ==
  ASSUME NEW S, NEW w, Judgement(S, w), S.cap.state = "READY", NEW ok \in BOOLEAN
  PROVE  Judgement(BeginRunBarrier(S, ok), w)
  <1> DEFINE cp == [S.cap EXCEPT !.state = "STARTING"]
            st == [active |-> TRUE, prepare |-> FALSE, phase |-> "ARM_WAIT"]
            U == [S EXCEPT !.cap.state = "STARTING", !.start = st]
            T == ForChannels(U.sup.target, LAMBDA s, c : ArmTarget(s, c, ok), U)
  <1>1. Sound(S, w) /\ Judged(S) /\ S \in ParentStates /\ S.cap \in Captures /\ PlanInv(S)
    BY PartTypes DEF Judgement, Sound
  <1>2. BeginRunBarrier(S, ok) = T
    BY DEF BeginRunBarrier, Each
  <1>3. U = Staged(S, cp, st)
    BY <1>1 DEF Staged, ParentStates
  <1>4. cp \in Captures /\ cp.state = "STARTING" /\ cp.epoch = S.cap.epoch
    BY <1>1 DEF Captures, Busy, Stoppable
  <1>5. st \in Starts /\ st.active /\ st.phase # "NONE"
    BY DEF Starts
  <1>6. S.sup.target # {}
    BY <1>1, ChannelsAssumption DEF PlanInv
  <1>7. S.cap.state \in Busy
    BY DEF Busy, Stoppable
  <1> HIDE DEF U, cp, st
  <1>8. Sound(U, w) /\ Judged(U)
    BY <1>1, <1>3, <1>4, <1>5, <1>6, <1>7, NewStage
  <1>9. Held(U, w, U) /\ U.sup.target \in SUBSET Channels
    BY <1>8, ToHeld DEF Judgement
  <1>10. Held(U, w, T)
    BY <1>9, Armed
  <1> QED BY <1>2, <1>10 DEF Held, Judgement

LEMMA AllRunsSent ==
  ASSUME NEW S, NEW w, Judgement(S, w), S.start.active, ArmedAll(w)
  PROVE  Judgement(SendRuns(S), w)
  <1> DEFINE T == ForChannels(S.sup.target, RunTarget, S)
            st == [T.start EXCEPT !.phase = IF @ = "FAILED" THEN @ ELSE "RUN_WAIT"]
            U == [T EXCEPT !.start.phase = IF @ = "FAILED" THEN @ ELSE "RUN_WAIT"]
  <1>1. Held(S, w, S) /\ S.sup.target \in SUBSET Channels
    BY ToHeld
  <1>2. SendRuns(S) = U
    BY DEF SendRuns, Each
  <1>3. Held(S, w, T)
    BY <1>1, RunsSent
  <1> HIDE DEF T
  <1>4. Sound(T, w) /\ Judged(T) /\ T.start.active
    BY <1>3 DEF Held
  <1>5. T \in ParentStates /\ T.cap \in Captures /\ T.start \in Starts /\ PlanInv(T)
    BY <1>4, PartTypes DEF Sound
  <1>6. U = Staged(T, T.cap, st)
    BY <1>5 DEF Staged, ParentStates
  <1>7. st \in Starts /\ st.active /\ st.phase # "NONE"
    BY <1>4, <1>5 DEF Starts
  <1>8. T.sup.target # {}
    BY <1>4, <1>5, ChannelsAssumption DEF PlanInv
  <1> HIDE DEF U, st
  <1>9. Sound(U, w) /\ Judged(U)
    BY <1>4, <1>5, <1>6, <1>7, <1>8, NewStage
  <1> QED BY <1>2, <1>9 DEF Judgement

\* All have reported ARMED, so all have armed.
LEMMA ReportedArmed ==
  ASSUME NEW S, NEW w, Sound(S, w), S.start.active, Reported(S, "armed")
  PROVE  ArmedAll(w)
  <1>1. S.sup.target = Channels
    BY DEF Sound, PlanInv
  <1>2. \A c \in Channels : S.task[c]["armed"]
    BY <1>1 DEF Reported
  <1>3. \A c \in Channels : S.task[c].armed => w[c].armed
    BY DEF Sound, PipeInv
  <1> QED BY <1>2, <1>3 DEF ArmedAll

LEMMA FailServiced ==
  ASSUME NEW S, NEW w, Judgement(S, w), NEW ok \in BOOLEAN
  PROVE  /\ Judgement(ServiceFailedStart(S, ok), w) /\ Judgement(PendingStartFail(S), w)
         /\ Judgement(ServiceFailedStart(PendingStartFail(S), ok), w)
  <1>1. Judgement(PendingStartFail(S), w)
    BY StartFailed DEF Judgement
  <1> QED BY <1>1, FailedStartServiced DEF Judgement

\* The controller takes the next state of a start.
LEMMA StageTaken ==
  ASSUME NEW S, NEW w, Judgement(S, w), NEW state \in {"READY", "RUNNING"}, S.cap.state \in Busy,
         NEW st \in {NoStart, S.start},
         NEW T, T = [S EXCEPT !.cap.state = state, !.start = st]
  PROVE  Judgement(T, w)
  <1> DEFINE cp == [S.cap EXCEPT !.state = state]
  <1>1. Sound(S, w) /\ Judged(S) /\ S \in ParentStates /\ S.cap \in Captures /\ S.start \in Starts
        /\ PlanInv(S)
    BY PartTypes DEF Judgement, Sound
  <1>2. T = Staged(S, cp, st)
    BY <1>1 DEF Staged, ParentStates
  <1>3. cp \in Captures /\ cp.state = state /\ cp.state # "IDLE" /\ cp.epoch = S.cap.epoch
    BY <1>1 DEF Captures, Busy, Stoppable
  <1>4. st \in Starts /\ (st.active <=> st.phase # "NONE")
    <2>1. NoStart \in Starts /\ ~NoStart.active /\ NoStart.phase = "NONE"
      BY DEF Starts, NoStart
    <2>2. S.start.active <=> S.start.phase # "NONE"
      BY <1>1 DEF PlanInv
    <2> QED BY <1>1, <2>1, <2>2
  <1>5. S.sup.target # {} /\ S.cap.state # "IDLE"
    BY <1>1, ChannelsAssumption DEF PlanInv, Busy, Stoppable
  <1> HIDE DEF cp
  <1>6. Sound(T, w) /\ (Judged(S) => Judged(T))
    BY <1>1, <1>2, <1>3, <1>4, <1>5, NewStage
  <1> QED BY <1>1, <1>6 DEF Judgement

LEMMA Advanced ==
  ASSUME NEW S, NEW w, Judgement(S, w), NEW ok \in BOOLEAN
  PROVE  Judgement(Advance(S, ok), w)
  <1>1. Sound(S, w) /\ S \in ParentStates /\ PlanInv(S)
    BY DEF Judgement, Sound
  <1>2. CASE S.start.phase = "PREP_READY" /\ Reported(S, "ready")
    <2> DEFINE T == [S EXCEPT !.cap.state = "READY", !.start = NoStart]
    <2>1. Advance(S, ok) = IF ok /\ S.cap.state = "PREPARING" THEN T
                           ELSE ServiceFailedStart(PendingStartFail(S), ok)
      BY <1>2 DEF Advance
    <2>2. S.cap.state = "PREPARING" => Judgement(T, w)
      BY StageTaken DEF Busy, Stoppable
    <2> QED BY <2>1, <2>2, FailServiced
  <1>3. CASE S.start.phase = "ARM_WAIT" /\ Reported(S, "armed")
    <2> DEFINE T == SendRuns(S)
    <2>1. Advance(S, ok) = ServiceFailedStart(T, ok)
      BY <1>3 DEF Advance
    <2>2. S.start.active
      BY <1>1, <1>3 DEF PlanInv
    <2>3. Judgement(T, w)
      BY <1>1, <1>3, <2>2, ReportedArmed, AllRunsSent
    <2> HIDE DEF T
    <2> QED BY <2>1, <2>3, FailServiced
  <1>4. CASE S.start.phase = "RUN_WAIT" /\ Reported(S, "running")
    <2> DEFINE T == [S EXCEPT !.cap.state = "RUNNING"]
    <2>1. Advance(S, ok) = IF S.cap.state = "STARTING" THEN StartAcked(T, "ok")
                           ELSE PendingStartFail(S)
      BY <1>4 DEF Advance
    <2>2. T = [S EXCEPT !.cap.state = "RUNNING", !.start = S.start]
      BY <1>1 DEF ParentStates
    <2>3. S.cap.state = "STARTING" => Judgement(T, w)
      BY <2>2, StageTaken DEF Busy, Stoppable
    <2> HIDE DEF T
    <2>4. S.cap.state = "STARTING" => Judgement(StartAcked(T, "ok"), w)
      BY <2>3, StartAnswer DEF Judgement, Answers
    <2> QED BY <2>1, <2>4, FailServiced
  <1>5. CASE /\ ~(S.start.phase = "PREP_READY" /\ Reported(S, "ready"))
             /\ ~(S.start.phase = "ARM_WAIT" /\ Reported(S, "armed"))
             /\ ~(S.start.phase = "RUN_WAIT" /\ Reported(S, "running"))
    <2>1. Advance(S, ok) = ServiceFailedStart(S, ok)
      BY <1>5 DEF Advance
    <2> QED BY <2>1, FailServiced
  <1> QED BY <1>2, <1>3, <1>4, <1>5

LEMMA StartServiced ==
  ASSUME NEW S, NEW w, Judgement(S, w), NEW ok \in BOOLEAN, NEW late \in BOOLEAN
  PROVE  Judgement(ServiceStart(S, ok, late), w)
  <1> DEFINE T == ForChannels(S.sup.target, LAMBDA s, c : CheckStartTarget(s, c, ok), S)
            U == IF late THEN PendingStartFail(T) ELSE T
  <1>1. ServiceStart(S, ok, late) = Advance(U, ok)
    BY DEF ServiceStart, Each
  <1>2. Held(S, w, T)
    BY ToHeld, StartChecked
  <1> HIDE DEF T
  <1>3. Judgement(T, w)
    BY <1>2 DEF Held, Judgement
  <1>4. Judgement(U, w)
    BY <1>3, FailServiced
  <1> HIDE DEF U
  <1> QED BY <1>1, <1>4, Advanced

-----------------------------------------------------------------------------
\* The pending STOP and the answers.
Noticed(S, st, lg) == [S EXCEPT !.stop = st, !.log = lg]

LEMMA NewNotice ==
  ASSUME NEW S, NEW w, Judgement(S, w), NEW st \in Stops, NEW lg \in Logs,
         st.active => S.log.tasks > 0,
         lg.tasks = S.log.tasks, lg.committed = S.log.committed,
         lg.stopAck = "ok" => S.log.stopAck = "ok" \/ RejectedPlans \/ S.log.committed,
         NEW T, T = Noticed(S, st, lg)
  PROVE  Judgement(T, w)
  <1>1. S \in ParentStates /\ SupInv(S.sup, S.cap, w) /\ LogInv(S, w) /\ PlanInv(S) /\ LiveInv(S)
        /\ Sound(S, w)
    BY DEF Judgement, Sound
  <1>2. /\ T \in ParentStates /\ T.sup = S.sup /\ T.task = S.task /\ T.cap = S.cap
        /\ T.start = S.start /\ T.stop = st /\ T.log = lg /\ T.ctl = S.ctl
        /\ T.evt = S.evt /\ T.proc = S.proc /\ T.killed = S.killed
    BY <1>1 DEF ParentStates, Noticed
  <1>3. Follows(S, T) /\ Reports(S, T) /\ Sends(S, T, w) /\ Notes(S, T, w)
    BY <1>1, <1>2 DEF Follows, Reports, Sends, Notes, LiveInv
  <1>4. Pends(T)
    BY <1>1, <1>2, ChannelsAssumption DEF Pends, PlanInv
  <1>5. LogInv(T, w)
    BY <1>1, <1>2 DEF LogInv
  <1>6. Sound(T, w)
    BY <1>1, <1>2, <1>3, <1>4, <1>5, Change
  <1>7. Judged(T)
    BY <1>2 DEF Judged, Judgement
  <1> QED BY <1>6, <1>7 DEF Judgement

LEMMA TasksStopped ==
  ASSUME NEW S, NEW w, Judgement(S, w), NEW ok \in BOOLEAN
  PROVE  Judgement(StopAllStorageTasks(S, ok), w)
  <1> DEFINE T == ForChannels(Channels, LAMBDA s, c : KillTarget(s, c, ok), S)
            U == TrySendPendingStops(T)
  <1>1. StopAllStorageTasks(S, ok) = EmitAggregate(U, ok)
    BY DEF StopAllStorageTasks
  <1>2. Held(S, w, T)
    BY ToHeld, AllKilled
  <1> HIDE DEF T
  <1>3. Sound(U, w)
    BY <1>2, StopsSent DEF Held
  <1> HIDE DEF U
  <1> QED BY <1>1, <1>3, AggregateEmitted DEF Judgement

LEMMA StopAnswer ==
  ASSUME NEW S, NEW w, Judgement(S, w), S.stop.active, NEW ok \in BOOLEAN
  PROVE  Judgement(AnswerStop(S, ok), w)
  <1> DEFINE E == EmitAggregate(S, ok)
            good == ResultStatus(S.sup).terminal = "SUCCESS"
            lg == [E.log EXCEPT !.stopAck = IF good THEN "ok" ELSE "failed"]
            T == [E EXCEPT !.stop = NoStop,
                           !.log.stopAck = IF good THEN "ok" ELSE "failed"]
  <1>1. S \in ParentStates /\ SupInv(S.sup, S.cap, w) /\ LogInv(S, w) /\ PlanInv(S) /\ Sound(S, w)
    BY DEF Judgement, Sound
  <1>2. AnswerStop(S, ok) = T
    BY DEF AnswerStop
  <1>3. Sound(E, w) /\ Judged(E)
    BY <1>1, AggregateEmitted
  <1>4. good => RejectedPlans \/ E.log.committed
    <2> SUFFICES ASSUME good, ~RejectedPlans PROVE E.log.committed
      OBVIOUS
    <2>1. S.log \in Logs /\ S.sup \in Supervisors
      BY <1>1, PartTypes
    <2>2. S.log.tasks # 0
      BY <1>1, <2>1 DEF PlanInv, Logs
    <2>3. S.sup.target = Channels
      BY <1>1, <2>2 DEF PlanInv
    <2>4. ResultStatus(S.sup) = S.sup
      BY <1>1, <2>3, ChannelsAssumption DEF ResultStatus, SupInv, VerdictInv
    <2>5. S.sup.terminal = "SUCCESS" /\ S.sup.emitted
      BY <2>4 DEF Judgement, Judged
    <2>6. S.log.committed
      BY <1>1, <2>5 DEF LogInv
    <2>7. [S EXCEPT !.sup = S.sup] = S
      BY <1>1 DEF ParentStates
    <2>8. E = S
      BY <2>4, <2>5, <2>7 DEF EmitAggregate, EmitJudged
    <2> QED BY <2>6, <2>8
  <1> HIDE DEF E, good
  <1>5. E \in ParentStates /\ E.log \in Logs
    BY <1>3, PartTypes DEF Sound
  <1>6. /\ lg \in Logs /\ lg.tasks = E.log.tasks /\ lg.committed = E.log.committed
        /\ (lg.stopAck = "ok" => good)
    BY <1>5 DEF Logs, Answers
  <1>7. NoStop \in Stops /\ ~NoStop.active
    BY DEF NoStop, Stops
  <1>8. T = Noticed(E, NoStop, lg)
    BY <1>5 DEF Noticed, ParentStates
  <1>9. Judgement(E, w)
    BY <1>3 DEF Judgement
  <1>10. lg.stopAck = "ok" => RejectedPlans \/ E.log.committed
    BY <1>4, <1>6
  <1> HIDE DEF lg, T
  <1>11. Judgement(T, w)
    BY <1>6, <1>7, <1>8, <1>9, <1>10, NewNotice
  <1> QED BY <1>2, <1>11

LEMMA StopServiced ==
  ASSUME NEW S, NEW w, Judgement(S, w), S.stop.active, NEW ok \in BOOLEAN, NEW late \in BOOLEAN
  PROVE  Judgement(ServiceStop(S, ok, late), w)
  <1> DEFINE st == [S.stop EXCEPT !.forced = TRUE]
            lg == [S.log EXCEPT !.cause = TRUE]
            T == [S EXCEPT !.stop.forced = TRUE, !.log.cause = TRUE]
  <1>1. S \in ParentStates /\ S.stop \in Stops /\ S.log \in Logs /\ PlanInv(S)
    BY PartTypes DEF Judgement, Sound
  <1>2. T = Noticed(S, st, lg)
    BY <1>1 DEF Noticed, ParentStates
  <1>3. /\ st \in Stops /\ lg \in Logs /\ lg.tasks = S.log.tasks
        /\ lg.committed = S.log.committed /\ lg.stopAck = S.log.stopAck
    BY <1>1 DEF Stops, Logs
  <1>4. S.log.tasks > 0
    BY <1>1 DEF PlanInv
  <1>5. ServiceStop(S, ok, late) \in {AnswerStop(S, ok), StopAllStorageTasks(T, ok), S}
    BY DEF ServiceStop
  <1> HIDE DEF T, st, lg
  <1>6. Judgement(T, w)
    BY <1>2, <1>3, <1>4, NewNotice
  <1> QED BY <1>5, <1>6, StopAnswer, TasksStopped

-----------------------------------------------------------------------------
(* The workers' steps.                                                     *)

Recording(v) == v.pc \in {"rec", "stopping", "wait", "final"}

\* What the step of a worker does not take back.
Moves(v, x) ==
    /\ v.armed => x.armed
    /\ Latched(v) => Latched(x) /\ x.epoch = v.epoch
    /\ Drained(v) => Drained(x)
    /\ Ended(v) => Ended(x) /\ x.result = v.result

LEMMA Concatenated ==
  ASSUME NEW A, NEW q \in Seq(A), NEW r \in Seq(A)
  PROVE  /\ q \o r \in Seq(A)
         /\ \A i \in DOMAIN (q \o r) :
               \/ i \in DOMAIN q /\ (q \o r)[i] = q[i]
               \/ /\ i - Len(q) \in DOMAIN r /\ (q \o r)[i] = r[i - Len(q)]
                  /\ \A j \in DOMAIN r : j < i - Len(q) => /\ j + Len(q) \in DOMAIN (q \o r)
                                                           /\ j + Len(q) < i
                                                           /\ (q \o r)[j + Len(q)] = r[j]
         /\ \A i \in DOMAIN q : i \in DOMAIN (q \o r) /\ (q \o r)[i] = q[i]
  <1>1. Len(q) \in Nat /\ Len(r) \in Nat /\ DOMAIN q = 1 .. Len(q) /\ DOMAIN r = 1 .. Len(r)
    OBVIOUS
  <1>2. q \o r \in Seq(A) /\ DOMAIN (q \o r) = 1 .. Len(q) + Len(r)
    OBVIOUS
  <1>3. \A i \in 1 .. Len(q) + Len(r) :
           (q \o r)[i] = IF i <= Len(q) THEN q[i] ELSE r[i - Len(q)]
    OBVIOUS
  <1> QED BY <1>1, <1>2, <1>3

LEMMA OldEvents ==
  ASSUME NEW v, NEW x, Moves(v, x), NEW e, EventInv(e, v)
  PROVE  EventInv(e, x)
  BY DEF Moves, EventInv, CarriesEpoch

LEMMA EventsAdded ==
  ASSUME NEW v, NEW x, Moves(v, x), NEW q \in Seq(Events), NEW new \in Seq(Events),
         \A i \in DOMAIN q : EventInv(q[i], v), \A i \in DOMAIN new : EventInv(new[i], x)
  PROVE  /\ \A i \in DOMAIN (q \o new) : EventInv((q \o new)[i], x)
         /\ (FatalFirst(q) /\ FatalFirst(new) => FatalFirst(q \o new))
  <1>1. \A i \in DOMAIN q : EventInv(q[i], x)
    BY OldEvents
  <1>2. \A i \in DOMAIN (q \o new) : EventInv((q \o new)[i], x)
    BY <1>1, Concatenated
  <1>3. ASSUME FatalFirst(q), FatalFirst(new) PROVE FatalFirst(q \o new)
    <2> SUFFICES ASSUME NEW i \in DOMAIN (q \o new), IsOwn((q \o new)[i])
                 PROVE  \E j \in DOMAIN (q \o new) : j < i /\ (q \o new)[j].type = "FATAL"
      BY DEF FatalFirst
    <2>1. CASE i \in DOMAIN q /\ (q \o new)[i] = q[i]
      BY <1>3, <2>1, Concatenated DEF FatalFirst
    <2>2. CASE /\ i - Len(q) \in DOMAIN new /\ (q \o new)[i] = new[i - Len(q)]
               /\ \A j \in DOMAIN new : j < i - Len(q) => /\ j + Len(q) \in DOMAIN (q \o new)
                                                          /\ j + Len(q) < i
                                                          /\ (q \o new)[j + Len(q)] = new[j]
      <3>1. PICK j \in DOMAIN new : j < i - Len(q) /\ new[j].type = "FATAL"
        BY <1>3, <2>2 DEF FatalFirst
      <3> QED BY <2>2, <3>1
    <2> QED BY <2>1, <2>2, Concatenated
  <1> QED BY <1>2, <1>3

LEMMA Tails ==
  ASSUME NEW A, NEW q \in Seq(A), q # <<>>
  PROVE  /\ Tail(q) \in Seq(A) /\ Head(q) \in A /\ 1 \in DOMAIN q /\ Head(q) = q[1]
         /\ \A i \in DOMAIN Tail(q) : i + 1 \in DOMAIN q /\ Tail(q)[i] = q[i + 1]
  OBVIOUS

LEMMA WorkerMoved ==
  ASSUME TaskInv, UNCHANGED MyParts, NEW c \in Channels, proc[c] # "none",
         wk' \in [Channels -> Workers], \A d \in Channels : d # c => wk'[d] = wk[d],
         Moves(wk[c], wk'[c]), wk'[c].epoch \in {NoEpoch, wk[c].epoch, cap.epoch, sup.drainEpoch},
         Recording(wk'[c]) => Recording(wk[c]) \/ ArmedAll(wk),
         NEW new \in Seq(Events), \A i \in DOMAIN new : EventInv(new[i], wk'[c]), FatalFirst(new),
         evt' = evt \/ evt' = [evt EXCEPT ![c] = @ \o new],
         ctl' = ctl \/ (ctl[c] # <<>> /\ ctl' = [ctl EXCEPT ![c] = Tail(@)]),
         NEW p \in {"alive", "closing", "zombie"}, proc' = proc \/ proc' = [proc EXCEPT ![c] = p]
  PROVE  TaskInv'
  <1> DEFINE S == ParentState
            w == wk
            x == wk'
            T == ParentState'
  <1>1. /\ S \in ParentStates /\ SupInv(sup, cap, w) /\ PlanInv(S) /\ LiveInv(S) /\ LogInv(S, w)
        /\ WorkerInv(w) /\ Judged(S) /\ \A d \in Channels : PipeInv(S, w, d)
    BY DEF TaskInv, Sound, ParentState
  <1>2. /\ S.sup = sup /\ S.cap = cap /\ S.task = task /\ S.start = start /\ S.stop = stop
        /\ S.log = log /\ S.ctl = ctl /\ S.evt = evt /\ S.proc = proc /\ S.killed = killed
    BY DEF ParentState
  <1>3. /\ T.sup = sup /\ T.cap = cap /\ T.task = task /\ T.start = start /\ T.stop = stop
        /\ T.log = log /\ T.ctl = ctl' /\ T.evt = evt' /\ T.proc = proc' /\ T.killed = killed
        /\ T = [sup |-> sup, cap |-> cap, task |-> task, start |-> start, stop |-> stop,
                log |-> log, ctl |-> ctl', evt |-> evt', proc |-> proc', killed |-> killed]
    BY DEF ParentState, MyParts
  <1>4. /\ sup \in Supervisors /\ cap \in Captures /\ task \in [Channels -> Children]
        /\ start \in Starts /\ stop \in Stops /\ log \in Logs /\ killed \in Mask
        /\ ctl \in [Channels -> Seq(Messages)] /\ evt \in [Channels -> Seq(Events)]
        /\ proc \in [Channels -> {"none", "alive", "closing", "zombie"}]
        /\ w \in [Channels -> Workers]
    BY <1>1, <1>2, PartTypes DEF WorkerInv
  <1>5. \A d \in Channels : Moves(w[d], x[d])
    BY DEF Moves
  <1>6. /\ ctl' \in [Channels -> Seq(Messages)]
        /\ \A d \in Channels : \/ ctl'[d] = ctl[d]
                               \/ ctl[d] # <<>> /\ ctl'[d] = Tail(ctl[d])
    <2>1. CASE ctl' = ctl
      BY <2>1, <1>4
    <2>2. CASE ctl[c] # <<>> /\ ctl' = [ctl EXCEPT ![c] = Tail(@)]
      <3>1. Tail(ctl[c]) \in Seq(Messages)
        BY <1>4, <2>2, Tails
      <3> QED BY <1>4, <2>2, <3>1
    <2> QED BY <2>1, <2>2
  <1>7. /\ evt' \in [Channels -> Seq(Events)]
        /\ \A d \in Channels : evt'[d] = evt[d] \/ (d = c /\ evt'[d] = evt[d] \o new)
    <2>1. evt[c] \o new \in Seq(Events)
      BY <1>4, Concatenated
    <2> QED BY <1>4, <2>1
  <1>8. /\ proc' \in [Channels -> {"none", "alive", "closing", "zombie"}]
        /\ \A d \in Channels : proc'[d] # "none" <=> proc[d] # "none"
    BY <1>4
  <1>9. T \in ParentStates
    BY <1>3, <1>6, <1>7, <1>8, <1>4 DEF ParentStates
  <1>10. ArmedAll(w) => ArmedAll(x)
    BY <1>5 DEF ArmedAll, Moves
  <1> HIDE DEF S, w, x, T
  <1>11. SupInv(T.sup, T.cap, x)
    <2>1. RecordInv(sup, w) /\ sup.drained \subseteq Channels /\ sup.final \subseteq Channels
      BY <1>1, <1>4 DEF SupInv, Supervisors, Mask
    <2>2. \A d \in Channels : Drained(w[d]) => Latched(w[d])
      BY DEF Drained, Latched
    <2>3. RecordInv(sup, x)
      BY <1>5, <2>1, <2>2 DEF RecordInv, Moves
    <2> QED BY <1>1, <1>3, <2>3 DEF SupInv
  <1>12. PlanInv(T) /\ LiveInv(T)
    BY <1>1, <1>2, <1>3, <1>8 DEF PlanInv, LiveInv
  <1>13. LogInv(T, x)
    <2>1. \A d \in Channels : Ended(w[d]) => Latched(w[d])
      BY DEF Ended, Latched
    <2>2. Whole(w) => Whole(x)
      BY <1>5, <2>1 DEF Whole, Moves
    <2> QED BY <1>1, <1>2, <1>3, <2>2 DEF LogInv
  <1>14. ASSUME NEW d \in Channels PROVE PipeInv(T, x, d)
    <2>1. PipeInv(S, w, d) /\ ctl[d] \in Seq(Messages) /\ evt[d] \in Seq(Events)
      BY <1>1, <1>4
    <2>2. T.task[d].armed => x[d].armed
      BY <2>1, <1>2, <1>3, <1>5 DEF PipeInv, Moves
    <2>3. \A i \in DOMAIN ctl'[d] : \E j \in DOMAIN ctl[d] : ctl'[d][i] = ctl[d][j]
      <3>1. CASE ctl'[d] = ctl[d]
        BY <3>1
      <3>2. CASE ctl[d] # <<>> /\ ctl'[d] = Tail(ctl[d])
        <4>1. \A i \in DOMAIN Tail(ctl[d]) : i + 1 \in DOMAIN ctl[d] /\ Tail(ctl[d])[i] = ctl[d][i + 1]
          BY <2>1, <3>2, Tails
        <4> QED BY <3>2, <4>1
      <3> QED BY <1>6, <3>1, <3>2
    <2>4. \A i \in DOMAIN ctl'[d] : ctl'[d][i].type = "RUN" => ArmedAll(x)
      BY <2>1, <2>3, <1>2, <1>10 DEF PipeInv
    <2>5. ASSUME task[d].live
          PROVE  /\ x[d].epoch \in {NoEpoch, cap.epoch, sup.drainEpoch}
                 /\ \A i \in DOMAIN ctl'[d] : MessageInv(ctl'[d][i], cap.epoch, sup.drainEpoch)
      BY <2>1, <2>3, <2>5, <1>2 DEF PipeInv, x, w
    <2>6. ASSUME task[d].live
          PROVE  /\ \A i \in DOMAIN evt'[d] : EventInv(evt'[d][i], x[d])
                 /\ sup.failed \/ FatalFirst(evt'[d])
      <3>1. /\ \A i \in DOMAIN evt[d] : EventInv(evt[d][i], w[d])
            /\ sup.failed \/ FatalFirst(evt[d])
        BY <2>1, <2>6, <1>2 DEF PipeInv
      <3>2. Moves(w[d], x[d])
        BY <1>5
      <3>3. CASE evt'[d] = evt[d]
        BY <3>1, <3>2, <3>3, OldEvents
      <3>4. CASE d = c /\ evt'[d] = evt[d] \o new
        <4>1. \A i \in DOMAIN new : EventInv(new[i], x[d])
          BY <3>4 DEF x
        <4>2. /\ \A i \in DOMAIN (evt[d] \o new) : EventInv((evt[d] \o new)[i], x[d])
              /\ FatalFirst(evt[d]) => FatalFirst(evt[d] \o new)
          BY <2>1, <3>1, <3>2, <4>1, EventsAdded
        <4> QED BY <3>1, <3>4, <4>2
      <3> QED BY <1>7, <3>3, <3>4
    <2> QED BY <1>3, <2>2, <2>4, <2>5, <2>6 DEF PipeInv
  <1>15. Sound(T, x)
    BY <1>9, <1>11, <1>12, <1>13, <1>14 DEF Sound
  <1>16. Judged(T)
    BY <1>1, <1>2, <1>3 DEF Judged
  <1>17. WorkerInv(x)
    <2>1. \A d \in Channels : Recording(x[d]) => Recording(w[d]) \/ ArmedAll(w)
      BY DEF x, w
    <2>2. \A d \in Channels : Recording(w[d]) => ArmedAll(w)
      BY <1>1 DEF WorkerInv, Recording
    <2>3. \A d \in Channels : Recording(x[d]) => ArmedAll(x)
      BY <2>1, <2>2, <1>10
    <2>4. x \in [Channels -> Workers]
      BY DEF x
    <2> QED BY <2>3, <2>4 DEF WorkerInv, Recording
  <1> QED BY <1>15, <1>16, <1>17 DEF TaskInv, x, T

\* Events that the worker v may write.
Reportable(new, v) ==
    new \in Seq(Events) /\ (\A i \in DOMAIN new : EventInv(new[i], v)) /\ FatalFirst(new)

LEMMA NoEvents ==
  ASSUME NEW v
  PROVE  Reportable(<<>>, v)
  BY DEF Reportable, FatalFirst

LEMMA OneEvent ==
  ASSUME NEW v, NEW e \in Events, EventInv(e, v), ~IsOwn(e)
  PROVE  Reportable(<<e>>, v)
  BY DEF Reportable, FatalFirst

LEMMA AloneEvent ==
  ASSUME NEW v, NEW e, Reportable(<<e>>, v)
  PROVE  e \in Events /\ EventInv(e, v) /\ ~IsOwn(e)
  <1>1. 1 \in DOMAIN <<e>> /\ <<e>>[1] = e
    OBVIOUS
  <1>2. \A j \in DOMAIN <<e>> : ~(j < 1)
    OBVIOUS
  <1>3. <<e>> \in Seq(Events) => <<e>>[1] \in Events
    BY <1>1
  <1> QED BY <1>1, <1>2, <1>3 DEF Reportable, FatalFirst

LEMMA TwoEvents ==
  ASSUME NEW v, NEW e, NEW f, Reportable(<<e>>, v), Reportable(<<f>>, v)
  PROVE  Reportable(<<e, f>>, v)
  <1>1. /\ e \in Events /\ EventInv(e, v) /\ ~IsOwn(e)
        /\ f \in Events /\ EventInv(f, v) /\ ~IsOwn(f)
    BY AloneEvent
  <1>2. /\ <<e, f>> \in Seq(Events) /\ DOMAIN <<e, f>> = 1 .. 2
        /\ \A i \in 1 .. 2 : <<e, f>>[i] = e \/ <<e, f>>[i] = f
    BY <1>1
  <1> QED BY <1>1, <1>2 DEF Reportable, FatalFirst

LEMMA ManyEvents ==
  ASSUME NEW v, NEW q, NEW r, Reportable(q, v), Reportable(r, v)
  PROVE  Reportable(q \o r, v)
  <1>1. Moves(v, v)
    BY DEF Moves
  <1>2. q \o r \in Seq(Events)
    BY Concatenated DEF Reportable
  <1> QED BY <1>1, <1>2, EventsAdded DEF Reportable

\* Events without an epoch, and those of a stop.
LEMMA PlainEvent ==
  ASSUME NEW v, NEW type \in {"READY", "RUNNING", "IDLE", "ACTIVE", "FATAL"}
  PROVE  Reportable(<<Event(type)>>, v)
  <1>1. Event(type) \in Events /\ Event(type).type = type
    BY DEF Events, Event
  <1>2. EventInv(Event(type), v) /\ ~IsOwn(Event(type))
    BY <1>1 DEF EventInv, IsOwn, CarriesEpoch
  <1> QED BY <1>1, <1>2, OneEvent

LEMMA StopEvent ==
  ASSUME NEW v \in Workers, Latched(v), NEW phase \in 1 .. Finalized, NEW late \in BOOLEAN
  PROVE  Reportable(<<PhaseEvent(phase, v.epoch, late)>>, v)
  <1> DEFINE e == PhaseEvent(phase, v.epoch, late)
  <1>1. e.type = "STOP_PHASE" /\ e.phase = phase /\ e.epoch = v.epoch
    BY DEF PhaseEvent
  <1>2. e \in Events
    BY DEF PhaseEvent, Events, Workers, FailedFatal, Finalized
  <1>3. phase # FailedFatal
    BY DEF FailedFatal, Finalized
  <1> HIDE DEF e
  <1>4. EventInv(e, v) /\ ~IsOwn(e)
    BY <1>1, <1>3 DEF EventInv, IsOwn, CarriesEpoch
  <1> QED BY <1>2, <1>4, OneEvent DEF e

-----------------------------------------------------------------------------
LEMMA WorkerFacts ==
  ASSUME TaskInv, NEW c \in Channels
  PROVE  /\ wk \in [Channels -> Workers] /\ wk[c] \in Workers
         /\ ctl \in [Channels -> Seq(Messages)] /\ evt \in [Channels -> Seq(Events)]
         /\ proc \in [Channels -> {"none", "alive", "closing", "zombie"}]
         /\ \A i \in DOMAIN ctl[c] : ctl[c][i].type = "RUN" => ArmedAll(wk)
         /\ Running(c) => \A i \in DOMAIN ctl[c] : MessageInv(ctl[c][i], cap.epoch, sup.drainEpoch)
  <1>1. /\ ParentState \in ParentStates /\ LiveInv(ParentState) /\ PipeInv(ParentState, wk, c)
        /\ WorkerInv(wk)
    BY DEF TaskInv, Sound
  <1>2. /\ ParentState.ctl = ctl /\ ParentState.evt = evt /\ ParentState.proc = proc
        /\ ParentState.task = task /\ ParentState.cap = cap /\ ParentState.sup = sup
    BY DEF ParentState
  <1>3. Running(c) => task[c].live
    BY <1>1, <1>2 DEF Running, LiveInv
  <1>4. /\ ctl \in [Channels -> Seq(Messages)] /\ evt \in [Channels -> Seq(Events)]
        /\ proc \in [Channels -> {"none", "alive", "closing", "zombie"}]
    BY <1>1, <1>2, PartTypes
  <1>5. wk \in [Channels -> Workers] /\ wk[c] \in Workers
    BY <1>1 DEF WorkerInv
  <1> QED BY <1>1, <1>2, <1>3, <1>4, <1>5 DEF PipeInv

\* A step of the worker c to the state x, with the events new.
LEMMA WorkerTo ==
  ASSUME TaskInv, UNCHANGED MyParts, NEW c \in Channels, Running(c),
         NEW x \in Workers, wk' = [wk EXCEPT ![c] = x], Moves(wk[c], x),
         x.epoch \in {NoEpoch, wk[c].epoch, cap.epoch, sup.drainEpoch},
         Recording(x) => Recording(wk[c]) \/ ArmedAll(wk),
         NEW new, Reportable(new, x),
         evt' = evt \/ evt' = [evt EXCEPT ![c] = @ \o new],
         ctl' = ctl \/ (ctl[c] # <<>> /\ ctl' = [ctl EXCEPT ![c] = Tail(@)]),
         proc' = proc \/ proc' = [proc EXCEPT ![c] = "closing"]
  PROVE  TaskInv'
  <1>1. /\ wk' \in [Channels -> Workers] /\ wk'[c] = x
        /\ \A d \in Channels : d # c => wk'[d] = wk[d]
    BY WorkerFacts
  <1>2. new \in Seq(Events) /\ (\A i \in DOMAIN new : EventInv(new[i], wk'[c])) /\ FatalFirst(new)
    BY <1>1 DEF Reportable
  <1>3. proc[c] # "none"
    BY DEF Running
  <1> QED BY <1>1, <1>2, <1>3, WorkerMoved

LEMMA KeepsReady ==
  ASSUME TaskInv, NEW c \in Channels, Ready(c)
  PROVE  TaskInv'
  <1> DEFINE x == [wk[c] EXCEPT !.pc = "arm"]
  <1>1. wk \in [Channels -> Workers] /\ wk[c] \in Workers
    BY WorkerFacts
  <1>2. x \in Workers /\ x.pc = "arm" /\ x.epoch = wk[c].epoch /\ x.armed = wk[c].armed
    BY <1>1 DEF Workers, WorkerPcs
  <1>3. wk' = [wk EXCEPT ![c] = x]
    BY DEF Ready
  <1> HIDE DEF x
  <1>4. Moves(wk[c], x) /\ ~Recording(x)
    BY <1>2 DEF Ready, Moves, Latched, Drained, Ended, Recording
  <1>5. evt' = [evt EXCEPT ![c] = @ \o <<Event("READY")>>]
    BY DEF Ready, Emit
  <1> QED BY <1>2, <1>3, <1>4, <1>5, PlainEvent, WorkerTo DEF Ready

LEMMA KeepsGate ==
  ASSUME TaskInv, NEW c \in Channels, Gate(c)
  PROVE  TaskInv'
  <1> DEFINE m == Head(ctl[c])
  <1>1. /\ wk \in [Channels -> Workers] /\ wk[c] \in Workers /\ Running(c) /\ UNCHANGED MyParts
        /\ proc' = proc /\ ctl[c] # <<>> /\ ctl' = [ctl EXCEPT ![c] = Tail(@)]
        /\ wk[c].pc \in {"arm", "run"} /\ ctl[c] \in Seq(Messages)
    BY WorkerFacts DEF Gate
  <1>2. m \in Messages /\ 1 \in DOMAIN ctl[c] /\ m = ctl[c][1]
    BY <1>1, Tails
  <1>3. m \in Messages /\ m.epoch \in Nat /\ 1 \in DOMAIN ctl[c] /\ m = ctl[c][1]
    BY <1>2 DEF Messages
  <1>4. MessageInv(m, cap.epoch, sup.drainEpoch) /\ (m.type = "RUN" => ArmedAll(wk))
    BY <1>1, <1>3, WorkerFacts
  <1> HIDE DEF m
  <1>5. CASE /\ wk[c].pc = "arm" /\ m.type = "ARM"
             /\ Emit(c, <<Event("ARMED")>>)
             /\ wk' = [wk EXCEPT ![c].pc = "run", ![c].armed = TRUE]
    <2> DEFINE x == [wk[c] EXCEPT !.pc = "run", !.armed = TRUE]
              e == Event("ARMED")
    <2>1. x \in Workers /\ x.pc = "run" /\ x.epoch = wk[c].epoch /\ x.armed
      BY <1>1 DEF Workers, WorkerPcs
    <2>2. wk' = [wk EXCEPT ![c] = x]
      BY <1>1, <1>5
    <2> HIDE DEF x
    <2>3. Moves(wk[c], x) /\ ~Recording(x)
      BY <1>5, <2>1 DEF Moves, Latched, Drained, Ended, Recording
    <2>4. e \in Events /\ EventInv(e, x) /\ ~IsOwn(e)
      BY <2>1 DEF Event, Events, EventInv, IsOwn, CarriesEpoch
    <2>5. evt' = [evt EXCEPT ![c] = @ \o <<e>>]
      BY <1>5 DEF Emit
    <2> HIDE DEF e
    <2> QED BY <1>1, <2>1, <2>2, <2>3, <2>4, <2>5, OneEvent, WorkerTo
  <1>6. CASE /\ wk[c].pc = "run" /\ m.type = "RUN"
             /\ Emit(c, <<Event("RUNNING")>>)
             /\ wk' = [wk EXCEPT ![c].pc = "rec"]
    <2> DEFINE x == [wk[c] EXCEPT !.pc = "rec"]
    <2>1. x \in Workers /\ x.pc = "rec" /\ x.epoch = wk[c].epoch /\ x.armed = wk[c].armed
      BY <1>1 DEF Workers, WorkerPcs
    <2>2. wk' = [wk EXCEPT ![c] = x]
      BY <1>1, <1>6
    <2> HIDE DEF x
    <2>3. Moves(wk[c], x)
      BY <1>6, <2>1 DEF Moves, Latched, Drained, Ended
    <2>4. evt' = [evt EXCEPT ![c] = @ \o <<Event("RUNNING")>>]
      BY <1>6 DEF Emit
    <2> QED BY <1>1, <1>4, <1>6, <2>1, <2>2, <2>3, <2>4, PlainEvent, WorkerTo
  <1>7. CASE /\ m.type = "STOP"
             /\ Emit(c, <<Event("FATAL")>>)
             /\ wk' = [wk EXCEPT ![c].pc = "fatal", ![c].failed = TRUE,
                                 ![c].stopLatched = TRUE, ![c].epoch = m.epoch]
    <2> DEFINE x == [wk[c] EXCEPT !.pc = "fatal", !.failed = TRUE, !.stopLatched = TRUE,
                                  !.epoch = m.epoch]
    <2>1. x \in Workers /\ x.pc = "fatal" /\ x.epoch = m.epoch /\ x.armed = wk[c].armed
      BY <1>1, <1>3 DEF Workers, WorkerPcs
    <2>2. wk' = [wk EXCEPT ![c] = x]
      BY <1>1, <1>7
    <2> HIDE DEF x
    <2>3. Moves(wk[c], x) /\ ~Recording(x)
      BY <1>1, <2>1 DEF Moves, Latched, Drained, Ended, Recording
    <2>4. x.epoch = cap.epoch
      BY <1>4, <1>7, <2>1 DEF MessageInv
    <2>5. evt' = [evt EXCEPT ![c] = @ \o <<Event("FATAL")>>]
      BY <1>7 DEF Emit
    <2> QED BY <1>1, <2>1, <2>2, <2>3, <2>4, <2>5, PlainEvent, WorkerTo
  <1> QED BY <1>5, <1>6, <1>7 DEF Gate, m

LEMMA KeepsLatchStop ==
  ASSUME TaskInv, NEW c \in Channels, LatchStop(c)
  PROVE  TaskInv'
  <1> DEFINE m == Head(ctl[c])
            x == [wk[c] EXCEPT !.pc = "stopping", !.epoch = m.epoch,
                               !.stopLatched = m.type = "STOP"]
  <1>1. /\ wk \in [Channels -> Workers] /\ wk[c] \in Workers /\ Running(c) /\ UNCHANGED MyParts
        /\ proc' = proc /\ ctl[c] # <<>> /\ ctl' = [ctl EXCEPT ![c] = Tail(@)]
        /\ wk[c].pc = "rec" /\ ctl[c] \in Seq(Messages)
    BY WorkerFacts DEF LatchStop
  <1>2. m \in Messages /\ 1 \in DOMAIN ctl[c] /\ m = ctl[c][1]
    BY <1>1, Tails
  <1>3. m \in Messages /\ m.epoch \in Nat /\ 1 \in DOMAIN ctl[c] /\ m = ctl[c][1]
    BY <1>2 DEF Messages
  <1>4. MessageInv(m, cap.epoch, sup.drainEpoch)
    BY <1>1, <1>3, WorkerFacts
  <1>5. /\ wk' = [wk EXCEPT ![c] = x]
        /\ evt' = [evt EXCEPT ![c] = @ \o <<PhaseEvent(1, m.epoch, FALSE)>>]
    BY <1>1 DEF LatchStop, Emit
  <1> HIDE DEF m
  <1>6. x \in Workers /\ x.pc = "stopping" /\ x.epoch = m.epoch /\ x.armed = wk[c].armed
    BY <1>1, <1>3 DEF Workers, WorkerPcs
  <1> HIDE DEF x
  <1>7. Moves(wk[c], x) /\ Latched(x) /\ Recording(wk[c])
    BY <1>1, <1>6 DEF Moves, Latched, Drained, Ended, Recording
  <1>8. Reportable(<<PhaseEvent(1, m.epoch, FALSE)>>, x)
    <2>1. 1 \in 1 .. Finalized
      BY DEF Finalized
    <2>2. Reportable(<<PhaseEvent(1, x.epoch, FALSE)>>, x)
      BY <1>6, <1>7, <2>1, StopEvent
    <2> QED BY <1>6, <2>2
  <1>9. x.epoch \in {NoEpoch, wk[c].epoch, cap.epoch, sup.drainEpoch}
    BY <1>3, <1>4, <1>6 DEF MessageInv, Messages
  <1> QED BY <1>1, <1>5, <1>6, <1>7, <1>8, <1>9, WorkerTo

LEMMA KeepsBootFails ==
  ASSUME TaskInv, NEW c \in Channels, BootFails(c)
  PROVE  TaskInv'
  <1> DEFINE x == [wk[c] EXCEPT !.pc = "fatal", !.failed = TRUE]
  <1>1. /\ wk \in [Channels -> Workers] /\ wk[c] \in Workers /\ Running(c) /\ UNCHANGED MyParts
        /\ wk[c].pc = "boot"
    BY WorkerFacts DEF BootFails
  <1>2. x \in Workers /\ x.pc = "fatal" /\ x.epoch = wk[c].epoch /\ x.armed = wk[c].armed
    BY <1>1 DEF Workers, WorkerPcs, Results
  <1>3. wk' = [wk EXCEPT ![c] = x]
    BY <1>1 DEF BootFails
  <1>4. evt' = [evt EXCEPT ![c] = @ \o <<Event("FATAL")>>]
    BY DEF BootFails, Emit
  <1> HIDE DEF x
  <1>5. Moves(wk[c], x) /\ ~Recording(x)
    BY <1>1, <1>2 DEF Moves, Latched, Drained, Ended, Recording
  <1> QED BY <1>1, <1>2, <1>3, <1>4, <1>5, PlainEvent, WorkerTo DEF BootFails

LEMMA KeepsGateTimeout ==
  ASSUME TaskInv, NEW c \in Channels, GateTimeout(c)
  PROVE  TaskInv'
  <1> DEFINE x == [wk[c] EXCEPT !.pc = "fatal", !.failed = TRUE]
  <1>1. /\ wk \in [Channels -> Workers] /\ wk[c] \in Workers /\ Running(c) /\ UNCHANGED MyParts
        /\ wk[c].pc \in {"arm", "run"}
    BY WorkerFacts DEF GateTimeout
  <1>2. x \in Workers /\ x.pc = "fatal" /\ x.epoch = wk[c].epoch /\ x.armed = wk[c].armed
    BY <1>1 DEF Workers, WorkerPcs, Results
  <1>3. wk' = [wk EXCEPT ![c] = x]
    BY <1>1 DEF GateTimeout
  <1>4. evt' = [evt EXCEPT ![c] = @ \o <<Event("FATAL")>>]
    BY DEF GateTimeout, Emit
  <1> HIDE DEF x
  <1>5. Moves(wk[c], x) /\ ~Recording(x)
    BY <1>1, <1>2 DEF Moves, Latched, Drained, Ended, Recording
  <1> QED BY <1>1, <1>2, <1>3, <1>4, <1>5, PlainEvent, WorkerTo DEF GateTimeout

LEMMA KeepsInputIdle ==
  ASSUME TaskInv, NEW c \in Channels, InputIdle(c)
  PROVE  TaskInv'
  <1> DEFINE x == [wk[c] EXCEPT !.idle = TRUE, !.idled = @ + 1]
  <1>1. /\ wk \in [Channels -> Workers] /\ wk[c] \in Workers /\ Running(c) /\ UNCHANGED MyParts
        /\ wk[c].pc = "rec"
    BY WorkerFacts DEF InputIdle
  <1>2. wk[c].idled + 1 \in Nat
    BY <1>1 DEF Workers
  <1>3. x \in Workers /\ x.pc = "rec" /\ x.epoch = wk[c].epoch /\ x.armed = wk[c].armed
    BY <1>1, <1>2 DEF Workers, WorkerPcs, Results
  <1>4. wk' = [wk EXCEPT ![c] = x]
    BY <1>1 DEF InputIdle
  <1>5. evt' = [evt EXCEPT ![c] = @ \o <<Event("IDLE")>>]
    BY DEF InputIdle, Emit
  <1> HIDE DEF x
  <1>6. Moves(wk[c], x) /\ Recording(wk[c])
    BY <1>1, <1>3 DEF Moves, Latched, Drained, Ended, Recording
  <1> QED BY <1>1, <1>3, <1>4, <1>5, <1>6, PlainEvent, WorkerTo DEF InputIdle

LEMMA KeepsInputActive ==
  ASSUME TaskInv, NEW c \in Channels, InputActive(c)
  PROVE  TaskInv'
  <1> DEFINE x == [wk[c] EXCEPT !.idle = FALSE]
  <1>1. /\ wk \in [Channels -> Workers] /\ wk[c] \in Workers /\ Running(c) /\ UNCHANGED MyParts
        /\ wk[c].pc = "rec"
    BY WorkerFacts DEF InputActive
  <1>2. x \in Workers /\ x.pc = "rec" /\ x.epoch = wk[c].epoch /\ x.armed = wk[c].armed
    BY <1>1 DEF Workers, WorkerPcs, Results
  <1>3. wk' = [wk EXCEPT ![c] = x]
    BY <1>1 DEF InputActive
  <1>4. evt' = [evt EXCEPT ![c] = @ \o <<Event("ACTIVE")>>]
    BY DEF InputActive, Emit
  <1> HIDE DEF x
  <1>5. Moves(wk[c], x) /\ Recording(wk[c])
    BY <1>1, <1>2 DEF Moves, Latched, Drained, Ended, Recording
  <1> QED BY <1>1, <1>2, <1>3, <1>4, <1>5, PlainEvent, WorkerTo DEF InputActive

LEMMA KeepsFinalize ==
  ASSUME TaskInv, NEW c \in Channels, Finalize(c)
  PROVE  TaskInv'
  <1> DEFINE x == [wk[c] EXCEPT !.pc = "exit"]
  <1>1. /\ wk \in [Channels -> Workers] /\ wk[c] \in Workers /\ Running(c) /\ UNCHANGED MyParts
        /\ wk[c].pc = "final"
    BY WorkerFacts DEF Finalize
  <1>2. /\ x \in Workers /\ x.pc = "exit" /\ x.epoch = wk[c].epoch
        /\ x.armed = wk[c].armed /\ x.result = wk[c].result
    BY <1>1 DEF Workers, WorkerPcs, Results
  <1>3. wk' = [wk EXCEPT ![c] = x]
    BY <1>1 DEF Finalize
  <1>4. evt' = [evt EXCEPT ![c] = @ \o <<PhaseEvent(Finalized, wk[c].epoch, FALSE),
                                  [type |-> "FINAL", result |-> wk[c].result]>>]
    BY DEF Finalize, Emit
  <1> HIDE DEF x
  <1>5. Moves(wk[c], x) /\ ~Recording(x)
    BY <1>1, <1>2 DEF Moves, Latched, Drained, Ended, Recording
  <1>6. Reportable(<<PhaseEvent(Finalized, wk[c].epoch, FALSE),
                     [type |-> "FINAL", result |-> wk[c].result]>>, x)
    <2> DEFINE e == PhaseEvent(Finalized, x.epoch, FALSE)
              f == [type |-> "FINAL", result |-> x.result]
    <2>1. Finalized \in 1 .. Finalized
      BY DEF Finalized
    <2>2. Latched(x) /\ Ended(x)
      BY <1>2 DEF Latched, Ended
    <2>3. Reportable(<<e>>, x)
      BY <1>2, <2>1, <2>2, StopEvent
    <2>4. f \in Events /\ EventInv(f, x) /\ ~IsOwn(f)
      BY <1>2, <2>2 DEF Events, EventInv, IsOwn, CarriesEpoch, Workers
    <2> HIDE DEF e, f
    <2>5. Reportable(<<e, f>>, x)
      BY <2>3, <2>4, OneEvent, TwoEvents
    <2> QED BY <1>2, <2>5 DEF e, f
  <1> QED BY <1>1, <1>2, <1>3, <1>4, <1>5, <1>6, WorkerTo DEF Finalize

LEMMA KeepsFinalBad ==
  ASSUME TaskInv, NEW c \in Channels, FinalBad(c)
  PROVE  TaskInv'
  <1> DEFINE x == [wk[c] EXCEPT !.pc = "exit", !.result = "bad"]
  <1>1. /\ wk \in [Channels -> Workers] /\ wk[c] \in Workers /\ Running(c) /\ UNCHANGED MyParts
        /\ wk[c].pc = "fatal"
    BY WorkerFacts DEF FinalBad
  <1>2. /\ x \in Workers /\ x.pc = "exit" /\ x.result = "bad"
        /\ x.epoch = wk[c].epoch /\ x.armed = wk[c].armed
    BY <1>1 DEF Workers, WorkerPcs, Results
  <1>3. wk' = [wk EXCEPT ![c] = x]
    BY <1>1 DEF FinalBad
  <1>4. evt' = [evt EXCEPT ![c] = @ \o <<[type |-> "FINAL", result |-> "bad"]>>]
    BY DEF FinalBad, Emit
  <1> HIDE DEF x
  <1>5. Moves(wk[c], x) /\ ~Recording(x)
    BY <1>1, <1>2 DEF Moves, Latched, Drained, Ended, Recording
  <1>6. Reportable(<<[type |-> "FINAL", result |-> "bad"]>>, x)
    <2> DEFINE f == [type |-> "FINAL", result |-> "bad"]
    <2>1. f \in Events /\ EventInv(f, x) /\ ~IsOwn(f)
      BY <1>2 DEF Events, EventInv, IsOwn, CarriesEpoch, Results, Ended
    <2> HIDE DEF f
    <2> QED BY <2>1, OneEvent DEF f
  <1> QED BY <1>1, <1>2, <1>3, <1>4, <1>5, <1>6, WorkerTo DEF FinalBad

LEMMA KeepsExit ==
  ASSUME TaskInv, NEW c \in Channels, Exit(c)
  PROVE  TaskInv'
  <1> DEFINE x == [wk[c] EXCEPT !.code = 0]
  <1>1. /\ wk \in [Channels -> Workers] /\ wk[c] \in Workers /\ Running(c) /\ UNCHANGED MyParts
        /\ wk[c].pc = "exit"
    BY WorkerFacts DEF Exit
  <1>2. /\ x \in Workers /\ x.pc = wk[c].pc /\ x.epoch = wk[c].epoch
        /\ x.armed = wk[c].armed /\ x.result = wk[c].result
    BY <1>1 DEF Workers, WorkerPcs, Results
  <1>3. wk' = [wk EXCEPT ![c] = x]
    BY <1>1 DEF Exit
  <1>4. evt' = evt
    BY DEF Exit
  <1> HIDE DEF x
  <1>5. Moves(wk[c], x) /\ (Recording(x) => Recording(wk[c]))
    BY <1>1, <1>2 DEF Moves, Latched, Drained, Ended, Recording
  <1> QED BY <1>1, <1>2, <1>3, <1>4, <1>5, NoEvents, WorkerTo DEF Exit

LEMMA KeepsCrash ==
  ASSUME TaskInv, NEW c \in Channels, Crash(c)
  PROVE  TaskInv'
  <1> DEFINE x == [wk[c] EXCEPT !.failed = TRUE]
  <1>1. /\ wk \in [Channels -> Workers] /\ wk[c] \in Workers /\ Running(c) /\ UNCHANGED MyParts
        /\ proc' = [proc EXCEPT ![c] = "closing"]
    BY WorkerFacts DEF Crash
  <1>2. /\ x \in Workers /\ x.pc = wk[c].pc /\ x.epoch = wk[c].epoch
        /\ x.armed = wk[c].armed /\ x.result = wk[c].result
    BY <1>1 DEF Workers, WorkerPcs, Results
  <1>3. wk' = [wk EXCEPT ![c] = x]
    BY <1>1 DEF Crash
  <1>4. evt' = evt
    BY DEF Crash
  <1> HIDE DEF x
  <1>5. Moves(wk[c], x) /\ (Recording(x) => Recording(wk[c]))
    BY <1>1, <1>2 DEF Moves, Latched, Drained, Ended, Recording
  <1> QED BY <1>1, <1>2, <1>3, <1>4, <1>5, NoEvents, WorkerTo DEF Crash

LEMMA KeepsHang ==
  ASSUME TaskInv, NEW c \in Channels, Hang(c)
  PROVE  TaskInv'
  <1> DEFINE x == [wk[c] EXCEPT !.pc = "hung"]
  <1>1. /\ wk \in [Channels -> Workers] /\ wk[c] \in Workers /\ Running(c) /\ UNCHANGED MyParts
        /\ proc' = proc
    BY WorkerFacts DEF Hang
  <1>2. /\ x \in Workers /\ x.pc = "hung" /\ x.epoch = wk[c].epoch
        /\ x.armed = wk[c].armed /\ x.result = wk[c].result
    BY <1>1 DEF Workers, WorkerPcs, Results
  <1>3. wk' = [wk EXCEPT ![c] = x]
    BY <1>1 DEF Hang
  <1>4. evt' = evt
    BY DEF Hang
  <1> HIDE DEF x
  <1>5. Moves(wk[c], x) /\ ~Recording(x)
    BY <1>1, <1>2 DEF Moves, Latched, Drained, Ended, Recording
  <1> QED BY <1>1, <1>2, <1>3, <1>4, <1>5, NoEvents, WorkerTo DEF Hang

LEMMA KeepsKilled ==
  ASSUME TaskInv, NEW c \in Channels, Killed(c)
  PROVE  TaskInv'
  <1> DEFINE x == [wk[c] EXCEPT !.failed = TRUE]
  <1>1. /\ wk \in [Channels -> Workers] /\ wk[c] \in Workers /\ Running(c) /\ UNCHANGED MyParts
        /\ proc' = [proc EXCEPT ![c] = "closing"]
    BY WorkerFacts DEF Killed
  <1>2. /\ x \in Workers /\ x.pc = wk[c].pc /\ x.epoch = wk[c].epoch
        /\ x.armed = wk[c].armed /\ x.result = wk[c].result
    BY <1>1 DEF Workers, WorkerPcs, Results
  <1>3. wk' = [wk EXCEPT ![c] = x]
    BY <1>1 DEF Killed
  <1>4. evt' = evt
    BY DEF Killed
  <1> HIDE DEF x
  <1>5. Moves(wk[c], x) /\ (Recording(x) => Recording(wk[c]))
    BY <1>1, <1>2 DEF Moves, Latched, Drained, Ended, Recording
  <1> QED BY <1>1, <1>2, <1>3, <1>4, <1>5, NoEvents, WorkerTo DEF Killed

LEMMA KeepsClosed ==
  ASSUME TaskInv, NEW c \in Channels, Closed(c)
  PROVE  TaskInv'
  <1>1. /\ wk \in [Channels -> Workers] /\ wk' = wk /\ UNCHANGED MyParts /\ ctl' = ctl /\ evt' = evt
        /\ proc[c] # "none" /\ proc' = [proc EXCEPT ![c] = "zombie"]
    BY WorkerFacts DEF Closed
  <1>2. Moves(wk[c], wk'[c])
    BY <1>1 DEF Moves
  <1>3. /\ <<>> \in Seq(Events) /\ (\A i \in DOMAIN <<>> : EventInv(<<>>[i], wk'[c]))
        /\ FatalFirst(<<>>) /\ "zombie" \in {"alive", "closing", "zombie"}
    BY DEF FatalFirst
  <1> QED BY <1>1, <1>2, <1>3, WorkerMoved

LEMMA KeepsWaitForStop ==
  ASSUME TaskInv, NEW c \in Channels, WaitForStop(c)
  PROVE  TaskInv'
  <1> DEFINE m == Head(ctl[c])
  <1>1. /\ wk \in [Channels -> Workers] /\ wk[c] \in Workers /\ Running(c) /\ UNCHANGED MyParts
        /\ proc' = proc /\ ctl[c] # <<>> /\ ctl' = [ctl EXCEPT ![c] = Tail(@)]
        /\ wk[c].pc = "wait"
    BY WorkerFacts DEF WaitForStop
  <1>2. CASE wk' = [wk EXCEPT ![c].pc = "final"] /\ UNCHANGED evt
    <2> DEFINE x == [wk[c] EXCEPT !.pc = "final"]
    <2>1. x \in Workers /\ x.pc = "final" /\ x.epoch = wk[c].epoch /\ x.armed = wk[c].armed
      BY <1>1 DEF Workers, WorkerPcs
    <2>2. wk' = [wk EXCEPT ![c] = x]
      BY <1>1, <1>2
    <2> HIDE DEF x
    <2>3. Moves(wk[c], x) /\ Recording(wk[c])
      BY <1>1, <2>1 DEF Moves, Latched, Drained, Ended, Recording
    <2> QED BY <1>1, <1>2, <2>1, <2>2, <2>3, NoEvents, WorkerTo
  <1>3. CASE /\ wk' = [wk EXCEPT ![c].pc = "fatal", ![c].failed = TRUE]
             /\ Emit(c, <<Event("FATAL")>>)
    <2> DEFINE x == [wk[c] EXCEPT !.pc = "fatal", !.failed = TRUE]
    <2>1. x \in Workers /\ x.pc = "fatal" /\ x.epoch = wk[c].epoch /\ x.armed = wk[c].armed
      BY <1>1 DEF Workers, WorkerPcs
    <2>2. wk' = [wk EXCEPT ![c] = x]
      BY <1>1, <1>3
    <2>3. evt' = [evt EXCEPT ![c] = @ \o <<Event("FATAL")>>]
      BY <1>3 DEF Emit
    <2> HIDE DEF x
    <2>4. Moves(wk[c], x) /\ ~Recording(x)
      BY <1>1, <2>1 DEF Moves, Latched, Drained, Ended, Recording
    <2> QED BY <1>1, <2>1, <2>2, <2>3, <2>4, PlainEvent, WorkerTo
  <1> QED BY <1>2, <1>3 DEF WaitForStop

LEMMA KeepsWorkerFails ==
  ASSUME TaskInv, NEW c \in Channels, WorkerFails(c)
  PROVE  TaskInv'
  <1> DEFINE x == [wk[c] EXCEPT !.pc = "fatal", !.failed = TRUE]
            epoch == IF wk[c].epoch = NoEpoch THEN OwnEpoch(c) ELSE wk[c].epoch
            e == Event("FATAL")
            f == PhaseEvent(FailedFatal, epoch, FALSE)
  <1>1. /\ wk \in [Channels -> Workers] /\ wk[c] \in Workers /\ Running(c) /\ UNCHANGED MyParts
        /\ wk[c].pc \in {"rec", "stopping"} /\ ctl' = ctl /\ proc' = proc
    BY WorkerFacts DEF WorkerFails
  <1>2. /\ x \in Workers /\ x.pc = "fatal" /\ x.epoch = wk[c].epoch /\ x.armed = wk[c].armed
        /\ wk[c].epoch \in Nat
    BY <1>1 DEF Workers, WorkerPcs
  <1>3. wk' = [wk EXCEPT ![c] = x]
    BY <1>1 DEF WorkerFails
  <1>4. evt' = [evt EXCEPT ![c] = @ \o <<e>>] \/ evt' = [evt EXCEPT ![c] = @ \o <<e, f>>]
    BY DEF WorkerFails, Emit
  <1>5. epoch \in Nat
    BY <1>2, ChannelsAssumption DEF OwnEpoch
  <1> HIDE DEF x, epoch
  <1>6. Moves(wk[c], x) /\ ~Recording(x) /\ Latched(x)
    BY <1>1, <1>2 DEF Moves, Latched, Drained, Ended, Recording
  <1>7. Reportable(<<e>>, x)
    BY PlainEvent
  <1>8. Reportable(<<e, f>>, x)
    <2>1. /\ e \in Events /\ e.type = "FATAL"
          /\ f \in Events /\ f.type = "STOP_PHASE" /\ f.phase = FailedFatal
      BY <1>5 DEF Event, PhaseEvent, Events, FailedFatal
    <2> HIDE DEF e, f
    <2>2. EventInv(e, x) /\ EventInv(f, x) /\ ~IsOwn(e)
      BY <1>6, <2>1 DEF EventInv, CarriesEpoch, IsOwn
    <2>3. /\ <<e, f>> \in Seq(Events) /\ DOMAIN <<e, f>> = {1, 2}
          /\ <<e, f>>[1] = e /\ <<e, f>>[2] = f
      BY <2>1
    <2>4. FatalFirst(<<e, f>>)
      BY <2>1, <2>2, <2>3 DEF FatalFirst
    <2> QED BY <2>2, <2>3, <2>4 DEF Reportable
  <1> QED BY <1>1, <1>2, <1>3, <1>4, <1>6, <1>7, <1>8, WorkerTo

\* The phases of a drain: events of the stop, all of them and any first few.
LEMMA PhasesReportable ==
  ASSUME NEW c \in Channels, wk[c] \in Workers, NEW x \in Workers, Latched(x),
         x.epoch = wk[c].epoch, NEW late \in BOOLEAN, NEW sent \in 0 .. 3
  PROVE  /\ Reportable(Phases(c, late), x)
         /\ Reportable(SubSeq(Phases(c, late), 1, sent), x)
  <1> DEFINE n == wk[c].epoch
            a == PhaseEvent(2, n, FALSE)
            d1 == PhaseEvent(DmaQuiesced, n, late)
            d2 == PhaseEvent(4, n, FALSE)
            d3 == PhaseEvent(WriterDrained, n, FALSE)
            first == IF late THEN <<>> ELSE <<a>>
            rest == <<d1, d2, d3>>
            q == Phases(c, late)
            Calm == {e \in Events : EventInv(e, x) /\ ~IsOwn(e)}
  <1>1. \A phase \in 1 .. Finalized, l \in BOOLEAN : Reportable(<<PhaseEvent(phase, n, l)>>, x)
    BY StopEvent
  <1>2. 2 \in 1 .. Finalized /\ DmaQuiesced \in 1 .. Finalized /\ 4 \in 1 .. Finalized
        /\ WriterDrained \in 1 .. Finalized
    BY DEF Finalized, DmaQuiesced, WriterDrained
  <1>3. {a, d1, d2, d3} \subseteq Calm
    BY <1>1, <1>2, AloneEvent
  <1>4. q = first \o rest
    BY DEF Phases
  <1> HIDE DEF a, d1, d2, d3, n, q, Calm
  <1>5. first \in Seq(Calm) /\ rest \in Seq(Calm) /\ Len(rest) = 3
    BY <1>3
  <1> HIDE DEF first, rest
  <1>6. q \in Seq(Calm) /\ Len(q) >= 3
    <2>1. Len(first \o rest) = Len(first) + Len(rest) /\ Len(first) \in Nat
      BY <1>5, ConcatProperties, LenProperties
    <2>2. first \o rest \in Seq(Calm)
      BY <1>5, Concatenated
    <2>3. Len(first) + Len(rest) >= 3
      BY <1>5, <2>1
    <2> QED BY <1>4, <2>1, <2>2, <2>3
  <1>7. SubSeq(q, 1, sent) \in Seq(Calm)
    BY <1>6
  <1>8. ASSUME NEW r \in Seq(Calm) PROVE Reportable(r, x)
    <2>1. r \in Seq(Events) /\ \A i \in DOMAIN r : r[i] \in Calm
      BY <1>8 DEF Calm
    <2> QED BY <2>1 DEF Reportable, FatalFirst, Calm
  <1> QED BY <1>6, <1>7, <1>8 DEF q

LEMMA KeepsDrain ==
  ASSUME TaskInv, NEW c \in Channels, Drain(c)
  PROVE  TaskInv'
  <1>1. /\ wk \in [Channels -> Workers] /\ wk[c] \in Workers /\ Running(c) /\ UNCHANGED MyParts
        /\ wk[c].pc = "stopping" /\ ctl' = ctl /\ proc' = proc
    BY WorkerFacts DEF Drain
  <1> DEFINE done == [type |-> "DRAIN_READY", epoch |-> wk[c].epoch]
            to == IF wk[c].stopLatched THEN "final" ELSE "wait"
  <1>2. PICK late \in BOOLEAN, r \in Results :
           /\ evt' = [evt EXCEPT ![c] = @ \o (Phases(c, late) \o <<done>>)]
           /\ wk' = [wk EXCEPT ![c].pc = to, ![c].result = r, ![c].failed = r # "good"]
    BY DEF Drain, Emit
  <1> DEFINE x == [wk[c] EXCEPT !.pc = to, !.result = r, !.failed = r # "good"]
  <1>3. /\ x \in Workers /\ x.pc \in {"final", "wait"} /\ x.epoch = wk[c].epoch
        /\ x.armed = wk[c].armed /\ wk[c].epoch \in Nat
    BY <1>1 DEF Workers, WorkerPcs
  <1>4. wk' = [wk EXCEPT ![c] = x]
    BY <1>1, <1>2
  <1> HIDE DEF x
  <1>5. Moves(wk[c], x) /\ Recording(wk[c]) /\ Latched(x) /\ Drained(x)
    BY <1>1, <1>3 DEF Moves, Latched, Drained, Ended, Recording
  <1>6. Reportable(<<done>>, x)
    <2>1. done \in Events /\ EventInv(done, x) /\ ~IsOwn(done)
      BY <1>3, <1>5 DEF Events, EventInv, IsOwn, CarriesEpoch
    <2> HIDE DEF done
    <2> QED BY <2>1, OneEvent
  <1> HIDE DEF done
  <1>7. Reportable(Phases(c, late), x)
    BY <1>1, <1>3, <1>5, PhasesReportable
  <1>8. Reportable(Phases(c, late) \o <<done>>, x)
    BY <1>6, <1>7, ManyEvents
  <1> QED BY <1>1, <1>2, <1>3, <1>4, <1>5, <1>8, WorkerTo

LEMMA KeepsEventLost ==
  ASSUME TaskInv, NEW c \in Channels, EventLost(c)
  PROVE  TaskInv'
  <1> DEFINE x == [wk[c] EXCEPT !.pc = "fatal", !.failed = TRUE]
  <1>1. /\ wk \in [Channels -> Workers] /\ wk[c] \in Workers /\ Running(c) /\ UNCHANGED MyParts
        /\ wk[c].pc = "stopping" /\ ctl' = ctl /\ proc' = proc
    BY WorkerFacts DEF EventLost
  <1>2. PICK late \in BOOLEAN, sent \in 0 .. 3, told \in BOOLEAN :
           evt' = [evt EXCEPT ![c] = @ \o (SubSeq(Phases(c, late), 1, sent)
                                             \o (IF told THEN <<Event("FATAL")>> ELSE <<>>))]
    BY DEF EventLost, Emit
  <1>3. x \in Workers /\ x.pc = "fatal" /\ x.epoch = wk[c].epoch /\ x.armed = wk[c].armed
    BY <1>1 DEF Workers, WorkerPcs
  <1>4. wk' = [wk EXCEPT ![c] = x]
    BY <1>1 DEF EventLost
  <1> HIDE DEF x
  <1>5. Moves(wk[c], x) /\ ~Recording(x) /\ Latched(x)
    BY <1>1, <1>3 DEF Moves, Latched, Drained, Ended, Recording
  <1>6. Reportable(SubSeq(Phases(c, late), 1, sent), x)
    BY <1>1, <1>3, <1>5, PhasesReportable
  <1>7. Reportable(IF told THEN <<Event("FATAL")>> ELSE <<>>, x)
    BY PlainEvent, NoEvents
  <1>8. Reportable(SubSeq(Phases(c, late), 1, sent)
                     \o (IF told THEN <<Event("FATAL")>> ELSE <<>>), x)
    BY <1>6, <1>7, ManyEvents
  <1> QED BY <1>1, <1>2, <1>3, <1>4, <1>5, <1>8, WorkerTo

-----------------------------------------------------------------------------
(* The parent's steps.                                                     *)

LEMMA Becomes ==
  ASSUME NEW T \in ParentStates, Become(T)
  PROVE  ParentState' = T
  BY DEF Become, ParentState, ParentStates

LEMMA ParentMoved ==
  ASSUME TaskInv, NEW T, Judgement(T, wk), Become(T), wk' = wk
  PROVE  TaskInv'
  <1>1. T \in ParentStates
    BY DEF Judgement, Sound
  <1>2. ParentState' = T
    BY <1>1, Becomes
  <1>3. WorkerInv(wk')
    BY DEF TaskInv
  <1> QED BY <1>2, <1>3 DEF TaskInv, Judgement

LEMMA DoKeeps ==
  ASSUME TaskInv, NEW S, NEW T, Judgement(S, wk), Judgement(T, wk), DoEither(S, T)
  PROVE  TaskInv'
  BY ParentMoved DEF DoEither

LEMMA ParentSound ==
  ASSUME TaskInv
  PROVE  /\ Judgement(ParentState, wk) /\ ParentState \in ParentStates
         /\ ParentState.sup = sup /\ ParentState.cap = cap /\ ParentState.task = task
         /\ ParentState.start = start /\ ParentState.stop = stop /\ ParentState.log = log
         /\ ParentState.ctl = ctl /\ ParentState.evt = evt /\ ParentState.proc = proc
         /\ ParentState.killed = killed
  <1>1. Judgement(ParentState, wk) /\ ParentState \in ParentStates
    BY DEF TaskInv, Judgement, Sound
  <1> QED BY <1>1 DEF ParentState

LEMMA KeepsCheckTask ==
  ASSUME TaskInv, NEW c \in Channels, CheckTaskStep(c)
  PROVE  TaskInv'
  <1> DEFINE S(ok) == CheckTask(ParentState, c, ok)
  <1>1. DoEither(S(TRUE), S(FALSE))
    BY DEF CheckTaskStep, Do
  <1>2. \A ok \in BOOLEAN : Judgement(S(ok), wk)
    BY ParentSound, TaskChecked DEF Judgement
  <1> HIDE DEF S
  <1> QED BY <1>1, <1>2, DoKeeps

LEMMA KeepsServiceStart ==
  ASSUME TaskInv, ServiceStartStep
  PROVE  TaskInv'
  <1> DEFINE S(ok) == ServiceStart(ParentState, ok, FALSE)
  <1>1. DoEither(S(TRUE), S(FALSE))
    BY DEF ServiceStartStep, Do
  <1>2. \A ok \in BOOLEAN : Judgement(S(ok), wk)
    BY ParentSound, StartServiced
  <1> HIDE DEF S
  <1> QED BY <1>1, <1>2, DoKeeps

LEMMA KeepsServiceStop ==
  ASSUME TaskInv, ServiceStopStep
  PROVE  TaskInv'
  <1> DEFINE S(ok) == ServiceStop(ParentState, ok, FALSE)
  <1>1. DoEither(S(TRUE), S(FALSE)) /\ stop.active
    BY DEF ServiceStopStep, Do
  <1>2. ParentState.stop.active
    BY <1>1, ParentSound
  <1>3. \A ok \in BOOLEAN : Judgement(S(ok), wk)
    BY <1>2, ParentSound, StopServiced
  <1> HIDE DEF S
  <1> QED BY <1>1, <1>3, DoKeeps

LEMMA KeepsStopDeadline ==
  ASSUME TaskInv, StopDeadline
  PROVE  TaskInv'
  <1> DEFINE T == ServiceStop(ParentState, TRUE, TRUE)
  <1>1. Become(T) /\ wk' = wk /\ ParentState.stop.active
    BY ParentSound DEF StopDeadline
  <1>2. Judgement(T, wk)
    BY <1>1, ParentSound, StopServiced
  <1> HIDE DEF T
  <1> QED BY <1>1, <1>2, ParentMoved

LEMMA KeepsStartDeadline ==
  ASSUME TaskInv, StartDeadline
  PROVE  TaskInv'
  <1> DEFINE S == ServiceStart(ParentState, TRUE, TRUE)
            lg == [S.log EXCEPT !.cause = TRUE]
            T == [S EXCEPT !.log.cause = TRUE]
  <1>1. Become(T) /\ wk' = wk
    BY DEF StartDeadline
  <1>2. Judgement(S, wk)
    BY ParentSound, StartServiced
  <1> HIDE DEF S
  <1>3. S \in ParentStates /\ S.stop \in Stops /\ S.log \in Logs /\ PlanInv(S)
    BY <1>2, PartTypes DEF Judgement, Sound
  <1>4. /\ lg \in Logs /\ lg.tasks = S.log.tasks /\ lg.committed = S.log.committed
        /\ lg.stopAck = S.log.stopAck
    BY <1>3 DEF Logs
  <1>5. T = Noticed(S, S.stop, lg)
    BY <1>3 DEF Noticed, ParentStates
  <1>6. S.stop.active => S.log.tasks > 0
    BY <1>3 DEF PlanInv
  <1> HIDE DEF T, lg
  <1>7. Judgement(T, wk)
    BY <1>2, <1>3, <1>4, <1>5, <1>6, NewNotice
  <1> QED BY <1>1, <1>7, ParentMoved

LEMMA KeepsSwitchOn ==
  ASSUME TaskInv, SwitchOn
  PROVE  TaskInv'
  <1> DEFINE R == StartAcked(RequestStorageStopAll(ParentState), "failed")
            S(ok) == IF cap.state = "READY" THEN BeginRunBarrier(ParentState, ok) ELSE R
  <1>1. DoEither(S(TRUE), S(FALSE))
    BY DEF SwitchOn, Do
  <1>2. Judgement(R, wk)
    <2> DEFINE Q == RequestStorageStopAll(ParentState)
    <2>1. Sound(Q, wk) /\ Quiet(ParentState, Q)
      BY ParentSound, StopAllRequested DEF Judgement
    <2> HIDE DEF Q
    <2>2. Judged(Q)
      BY <2>1, ParentSound, QuietJudged DEF Judgement
    <2>3. Judgement(StartAcked(Q, "failed"), wk)
      BY <2>1, <2>2, StartAnswer DEF Answers, Judgement
    <2> QED BY <2>3 DEF Q
  <1>3. \A ok \in BOOLEAN : cap.state = "READY" => Judgement(BeginRunBarrier(ParentState, ok), wk)
    BY ParentSound, BarrierBegun
  <1> HIDE DEF R
  <1>4. \A ok \in BOOLEAN : Judgement(S(ok), wk)
    BY <1>2, <1>3
  <1> HIDE DEF S
  <1> QED BY <1>1, <1>4, DoKeeps

LEMMA KeepsSwitchOff ==
  ASSUME TaskInv, SwitchOff
  PROVE  TaskInv'
  <1> DEFINE Q == PendingStartFail(ParentState)
            R == RequestStorageStopAll(Q)
            st == [active |-> TRUE, forced |-> FALSE]
            T == [R EXCEPT !.stop = st]
  <1>1. Become(T) /\ wk' = wk /\ ParentState.log.tasks > 0
    BY ParentSound DEF SwitchOff
  <1>2. Judgement(Q, wk) /\ Q.log = ParentState.log
    BY ParentSound, StartFailed DEF Judgement
  <1> HIDE DEF Q
  <1>3. Sound(R, wk) /\ Quiet(Q, R)
    BY <1>2, StopAllRequested DEF Judgement
  <1> HIDE DEF R
  <1>4. Judgement(R, wk) /\ R.log = ParentState.log
    BY <1>2, <1>3, QuietJudged DEF Judgement, Quiet
  <1>5. R \in ParentStates /\ R.log \in Logs
    BY <1>3, PartTypes DEF Sound
  <1>6. T = Noticed(R, st, R.log)
    BY <1>5 DEF Noticed, ParentStates
  <1>7. st \in Stops
    BY DEF Stops
  <1> HIDE DEF st, T
  <1>8. Judgement(T, wk)
    BY <1>1, <1>4, <1>5, <1>6, <1>7, NewNotice
  <1> QED BY <1>1, <1>8, ParentMoved

-----------------------------------------------------------------------------
(* A new task.                                                             *)

LEMMA NewTask ==
  ASSUME NEW S \in ParentStates, NEW w, SupInv(S.sup, S.cap, w), S.sup.target = Channels,
         S.cap.state # "IDLE", S.start.active <=> S.start.phase # "NONE", ~S.stop.active,
         ~S.sup.emitted, ~S.log.committed, S.log.stopAck = "none",
         \A c \in Channels :
            /\ S.task[c].live <=> S.proc[c] # "none"
            /\ S.cap.state \in Busy => S.task[c].live \/ c \in S.sup.unavailable
            /\ ~S.task[c].armed
            /\ \A i \in DOMAIN S.ctl[c] : S.ctl[c][i].type = "RUN" => ArmedAll(w)
            /\ S.task[c].live => /\ S.ctl[c] = <<>> /\ S.evt[c] = <<>> /\ w[c].epoch = NoEpoch
  PROVE  Sound(S, w)
  <1>1. PlanInv(S) /\ LiveInv(S) /\ LogInv(S, w)
    BY DEF PlanInv, LiveInv, LogInv
  <1>2. ASSUME NEW c \in Channels PROVE PipeInv(S, w, c)
    BY DEF PipeInv, FatalFirst
  <1> QED BY <1>1, <1>2 DEF Sound

LEMMA NewSupervisor ==
  ASSUME NEW target \in Mask, NEW w, NEW cp, cp.epoch = NoEpoch
  PROVE  LET s == SupervisorInit(target) IN
         /\ s \in Supervisors /\ s.target = target /\ s.terminal = "ACTIVE" /\ ~s.emitted
         /\ Undecided(s, cp, w) /\ (target = {} \/ target = Channels => SupInv(s, cp, w))
         /\ s.drained = {} /\ s.final = {} /\ s.unavailable = {}
  <1> DEFINE s == SupervisorInit(target)
  <1>1. s \in Supervisors
    BY DEF SupervisorInit, Supervisors, Mask, Results, Verdicts, NoEpoch
  <1>2. /\ s.target = target /\ s.terminal = "ACTIVE" /\ ~s.emitted /\ ~s.failed
        /\ ~s.aggregateReady /\ s.drained = {} /\ s.final = {} /\ s.unavailable = {}
        /\ s.fatal = {} /\ s.stopEpoch = NoEpoch /\ s.stopRequested = {}
    BY DEF SupervisorInit
  <1> HIDE DEF s
  <1>3. RecordInv(s, w) /\ StopInv(s, cp)
    BY <1>2 DEF RecordInv, StopInv
  <1>4. Undecided(s, cp, w)
    BY <1>2, <1>3 DEF Undecided
  <1>5. ASSUME target = {} \/ target = Channels PROVE SupInv(s, cp, w)
    BY <1>2, <1>3, <1>5, ChannelsAssumption DEF SupInv, VerdictInv
  <1> QED BY <1>1, <1>2, <1>4, <1>5 DEF s

LEMMA LostSupervisor ==
  ASSUME NEW lost \in Mask, NEW w, NEW cp, cp.epoch = NoEpoch
  PROVE  LET s == MarkUnavailable(SupervisorInit(Channels), lost) IN
         /\ s \in Supervisors /\ s.target = Channels /\ ~s.emitted /\ s.failed
         /\ s.unavailable = lost /\ SupInv(s, cp, w)
  <1> DEFINE s == SupervisorInit(Channels)
            u == [s EXCEPT !.unavailable = @ \cup lost]
            f == Fail(u)
  <1>1. /\ s \in Supervisors /\ s.target = Channels /\ ~s.emitted /\ s.unavailable = {}
        /\ Undecided(s, cp, w) /\ s.terminal = "ACTIVE"
    BY NewSupervisor DEF Mask
  <1> HIDE DEF s
  <1>2. /\ u \in Supervisors /\ u.target = Channels /\ ~u.emitted /\ u.unavailable = lost
        /\ u.terminal = "ACTIVE" /\ u.aggregateReady = s.aggregateReady
        /\ u.fatal = s.fatal /\ u.failed = s.failed /\ u.drained = s.drained /\ u.final = s.final
        /\ u.result = s.result /\ u.stopEpoch = s.stopEpoch /\ u.drainEpoch = s.drainEpoch
        /\ u.stopRequested = s.stopRequested
    BY <1>1 DEF Supervisors, Mask
  <1> HIDE DEF u
  <1>3. Undecided(u, cp, w)
    BY <1>1, <1>2 DEF Undecided, RecordInv, StopInv
  <1>4. f \in Supervisors /\ Later(u, f) /\ f.failed /\ f.unavailable = u.unavailable
    BY <1>2, FailFields
  <1>5. Undecided(f, cp, w)
    BY <1>2, <1>3, FailUndecided
  <1> HIDE DEF f
  <1>6. /\ ResultStatus(f) \in Supervisors /\ Later(f, ResultStatus(f))
        /\ ResultStatus(f).failed = f.failed /\ ResultStatus(f).unavailable = f.unavailable
    BY <1>4, ResultFields
  <1>7. SupInv(ResultStatus(f), cp, w)
    BY <1>4, <1>5, ResultSup
  <1>8. MarkUnavailable(s, lost) = ResultStatus(f)
    BY DEF MarkUnavailable, f, u
  <1> QED BY <1>2, <1>4, <1>6, <1>7, <1>8 DEF Later, s

-----------------------------------------------------------------------------
LEMMA IdleFacts ==
  ASSUME TaskInv, Idle
  PROVE  /\ ~stop.active /\ ~start.active /\ stop \in Stops /\ log.tasks + 1 \in Nat
         /\ \A c \in Channels : ~task[c].live /\ proc[c] = "none"
  <1>1. LiveInv(ParentState) /\ stop \in Stops /\ log \in Logs
    BY ParentSound, PartTypes DEF Judgement, Sound
  <1>2. \A c \in Channels : ~task[c].live
    BY ParentSound DEF Idle, AnyLive
  <1>3. \A c \in Channels : proc[c] = "none"
    BY <1>1, <1>2, ParentSound DEF LiveInv
  <1>4. log.tasks + 1 \in Nat
    BY <1>1 DEF Logs
  <1> QED BY <1>1, <1>2, <1>3, <1>4 DEF Idle

NewLog(cause) == [tasks |-> log.tasks + 1, committed |-> FALSE, cause |-> cause,
                  startAck |-> "none", stopAck |-> "none"]

LEMMA NewLogType ==
  ASSUME log.tasks + 1 \in Nat, NEW cause \in BOOLEAN
  PROVE  /\ NewLog(cause) \in Logs /\ ~NewLog(cause).committed /\ NewLog(cause).stopAck = "none"
         /\ NewLog(cause).tasks = log.tasks + 1
  BY DEF NewLog, Logs, Answers

LEMMA ChildTypes ==
  /\ IdleTask \in Children /\ ~IdleTask.live /\ ~IdleTask.armed
  /\ StartedTask \in Children /\ StartedTask.live /\ ~StartedTask.armed
  /\ NewWorker \in Workers /\ NewWorker.epoch = NoEpoch /\ ~Recording(NewWorker)
  /\ [NewWorker EXCEPT !.pc = "gone"] \in Workers
  /\ [NewWorker EXCEPT !.pc = "gone"].epoch = NoEpoch
  /\ ~Recording([NewWorker EXCEPT !.pc = "gone"])
  <1>1. IdleTask \in Children /\ ~IdleTask.live /\ ~IdleTask.armed
    BY DEF IdleTask, Children
  <1>2. StartedTask \in Children /\ StartedTask.live /\ ~StartedTask.armed
    BY <1>1 DEF StartedTask, Children
  <1>3. NewWorker \in Workers /\ NewWorker.epoch = NoEpoch /\ NewWorker.pc = "boot"
    BY DEF NewWorker, Workers, WorkerPcs, Results, NoEpoch
  <1>4. /\ [NewWorker EXCEPT !.pc = "gone"] \in Workers
        /\ [NewWorker EXCEPT !.pc = "gone"].epoch = NoEpoch
        /\ [NewWorker EXCEPT !.pc = "gone"].pc = "gone"
    BY <1>3 DEF Workers, WorkerPcs
  <1> QED BY <1>1, <1>2, <1>3, <1>4 DEF Recording

LEMMA KeepsTaskInfoWithoutPlan ==
  ASSUME TaskInv, TaskInfoWithoutPlan
  PROVE  TaskInv'
  <1> DEFINE S == ParentState
            tk == [c \in Channels |-> IdleTask]
            lg == NewLog(FALSE)
            T == [S EXCEPT !.task = tk, !.log = lg]
  <1>1. /\ S \in ParentStates /\ Sound(S, wk) /\ Judged(S) /\ SupInv(S.sup, S.cap, wk) /\ PlanInv(S)
        /\ LiveInv(S) /\ LogInv(S, wk) /\ \A c \in Channels : PipeInv(S, wk, c)
    BY ParentSound DEF Judgement, Sound
  <1>2. ForNewTask(S) = T
    BY DEF ForNewTask, NewLog, ParentState
  <1>3. Become(T) /\ wk' = wk /\ RejectedPlans /\ Idle
    BY <1>2 DEF TaskInfoWithoutPlan
  <1>4. lg \in Logs /\ ~lg.committed /\ lg.tasks = log.tasks + 1 /\ log.tasks + 1 \in Nat
    BY <1>3, IdleFacts, NewLogType
  <1>5. tk \in [Channels -> Children] /\ \A c \in Channels : ~tk[c].live /\ ~tk[c].armed
    BY ChildTypes
  <1>6. \A c \in Channels : ~S.task[c].live /\ S.proc[c] = "none"
    BY <1>3, IdleFacts, ParentSound
  <1>7. ~S.stop.active /\ ~S.start.active
    BY <1>3, IdleFacts, ParentSound
  <1> HIDE DEF S, tk, lg
  <1>8. /\ T \in ParentStates /\ T.sup = S.sup /\ T.task = tk /\ T.cap = S.cap
        /\ T.start = S.start /\ T.stop = S.stop /\ T.log = lg /\ T.ctl = S.ctl
        /\ T.evt = S.evt /\ T.proc = S.proc /\ T.killed = S.killed
    BY <1>1, <1>4, <1>5 DEF ParentStates
  <1> HIDE DEF T
  <1>9. PlanInv(T)
    BY <1>1, <1>3, <1>5, <1>7, <1>8 DEF PlanInv
  <1>10. LiveInv(T) /\ LogInv(T, wk)
    BY <1>1, <1>3, <1>4, <1>5, <1>6, <1>8 DEF LiveInv, LogInv
  <1>11. \A c \in Channels : PipeInv(T, wk, c)
    BY <1>1, <1>5, <1>8 DEF PipeInv
  <1>12. Sound(T, wk)
    BY <1>1, <1>8, <1>9, <1>10, <1>11 DEF Sound
  <1>13. Judged(T)
    BY <1>1, <1>8 DEF Judged
  <1> QED BY <1>3, <1>12, <1>13, ParentMoved DEF Judgement

\* The controller's and the supervisor's part of a new task.
LEMMA BegunState ==
  ASSUME TaskInv, Idle
  PROVE  LET B == Begun(ForNewTask(ParentState)) IN
         /\ B \in ParentStates /\ B.sup = SupervisorInit(Channels)
         /\ B.cap = [state |-> "PREPARING", epoch |-> NoEpoch]
         /\ B.task = [c \in Channels |-> IdleTask]
         /\ B.start.active /\ B.start.phase = "PREP_READY" /\ B.start \in Starts
         /\ B.stop = stop /\ B.log = NewLog(FALSE) /\ B.ctl = ctl /\ B.evt = evt
         /\ B.proc = proc /\ B.killed = killed
  <1> DEFINE S == ParentState
            lg == NewLog(FALSE)
            tk == [c \in Channels |-> IdleTask]
            F == [S EXCEPT !.task = tk, !.log = lg]
            sp == SupervisorInit(Channels)
            cp == [state |-> "PREPARING", epoch |-> NoEpoch]
            st == [active |-> TRUE, prepare |-> TRUE, phase |-> "PREP_READY"]
            B == [F EXCEPT !.sup = sp, !.cap = cp, !.start = st]
  <1>1. /\ S \in ParentStates /\ S.stop = stop /\ S.ctl = ctl /\ S.evt = evt /\ S.proc = proc
        /\ S.killed = killed
    BY ParentSound
  <1>2. ForNewTask(S) = F
    BY DEF ForNewTask, NewLog, ParentState
  <1>3. Begun(F) = B
    BY DEF Begun
  <1>4. lg \in Logs /\ tk \in [Channels -> Children]
    BY IdleFacts, NewLogType, ChildTypes
  <1>5. cp \in Captures /\ cp.epoch = NoEpoch
    BY DEF Captures, Busy, Stoppable, NoEpoch
  <1>6. st \in Starts /\ st.active /\ st.phase = "PREP_READY"
    BY DEF Starts
  <1>7. sp \in Supervisors
    BY <1>5, NewSupervisor DEF Mask
  <1> HIDE DEF S, lg, tk, sp, cp, st
  <1>8. /\ F \in ParentStates /\ F.task = tk /\ F.log = lg /\ F.stop = S.stop /\ F.ctl = S.ctl
        /\ F.evt = S.evt /\ F.proc = S.proc /\ F.killed = S.killed
    BY <1>1, <1>4 DEF ParentStates
  <1> HIDE DEF F
  <1>9. /\ B \in ParentStates /\ B.sup = sp /\ B.cap = cp /\ B.task = F.task /\ B.start = st
        /\ B.stop = F.stop /\ B.log = F.log /\ B.ctl = F.ctl /\ B.evt = F.evt /\ B.proc = F.proc
        /\ B.killed = F.killed
    BY <1>5, <1>6, <1>7, <1>8 DEF ParentStates
  <1> HIDE DEF B
  <1>10. Begun(ForNewTask(ParentState)) = B
    BY <1>2, <1>3 DEF S
  <1> QED BY <1>1, <1>6, <1>8, <1>9, <1>10 DEF sp, cp, tk, lg

LEMMA KeepsTaskInfoWithoutIndex ==
  ASSUME TaskInv, TaskInfoWithoutIndex
  PROVE  TaskInv'
  <1> DEFINE B == Begun(ForNewTask(ParentState))
            cp == [B.cap EXCEPT !.state = "FAILED"]
            T == [B EXCEPT !.cap.state = "FAILED", !.start = NoStart]
  <1>1. Become(T) /\ wk' = wk /\ Idle
    BY DEF TaskInfoWithoutIndex
  <1>2. /\ B \in ParentStates /\ B.sup = SupervisorInit(Channels)
        /\ B.cap = [state |-> "PREPARING", epoch |-> NoEpoch]
        /\ B.task = [c \in Channels |-> IdleTask]
        /\ B.stop = stop /\ B.log = NewLog(FALSE) /\ B.ctl = ctl /\ B.proc = proc
    BY <1>1, BegunState
  <1> HIDE DEF B
  <1>3. ~B.log.committed /\ B.log.stopAck = "none"
    BY <1>1, <1>2, IdleFacts, NewLogType
  <1>4. \A c \in Channels : ~B.task[c].live /\ ~B.task[c].armed
    BY <1>2, ChildTypes
  <1>5. cp \in Captures /\ cp.epoch = NoEpoch /\ cp.state \notin Busy /\ cp.state # "IDLE"
    BY <1>2 DEF Captures, Busy, Stoppable, NoEpoch
  <1>6. NoStart \in Starts /\ ~NoStart.active /\ NoStart.phase = "NONE"
    BY DEF NoStart, Starts
  <1>7. ~stop.active /\ \A c \in Channels : proc[c] = "none"
    BY <1>1, IdleFacts
  <1>8. \A c \in Channels : \A i \in DOMAIN ctl[c] : ctl[c][i].type = "RUN" => ArmedAll(wk)
    BY WorkerFacts
  <1>9. /\ T \in ParentStates /\ T.sup = B.sup /\ T.cap = cp /\ T.task = B.task /\ T.start = NoStart
         /\ T.stop = stop /\ T.log = B.log /\ T.ctl = ctl /\ T.proc = proc
    BY <1>2, <1>5, <1>6 DEF ParentStates
  <1> HIDE DEF cp
  <1>10. /\ B.sup.target = Channels /\ B.sup.terminal = "ACTIVE" /\ ~B.sup.emitted
        /\ SupInv(B.sup, cp, wk)
    BY <1>2, <1>5, NewSupervisor DEF Mask
  <1> HIDE DEF T
  <1>11. Sound(T, wk)
    BY <1>3, <1>4, <1>5, <1>10, <1>6, <1>7, <1>8, <1>9, NewTask
  <1>12. Judged(T)
    BY <1>10, <1>9 DEF Judged
  <1> QED BY <1>1, <1>11, <1>12, ParentMoved DEF Judgement

LEMMA KeepsTaskInfo ==
  ASSUME TaskInv, TaskInfo
  PROVE  TaskInv'
  <1>1. PICK n \in 0 .. Len(PlanSeq) :
          LET launched == {PlanSeq[i] : i \in 1 .. n}
              S == [Begun(ForNewTask(ParentState)) EXCEPT
                      !.task = [c \in Channels |->
                                  IF c \in launched THEN StartedTask ELSE IdleTask],
                      !.ctl = [c \in Channels |-> <<>>],
                      !.evt = [c \in Channels |-> <<>>],
                      !.proc = [c \in Channels |->
                                  IF c \in launched THEN "alive" ELSE "none"],
                      !.killed = {}]
              Lost(T) == [T EXCEPT !.sup = MarkUnavailable(@, Channels \ launched),
                                   !.log.cause = TRUE]
          IN /\ Idle
             /\ wk' = [c \in Channels |->
                         IF c \in launched THEN NewWorker ELSE [NewWorker EXCEPT !.pc = "gone"]]
             /\ \/ launched = Channels /\ Become(S)
                \/ Become(PendingStartFail(Lost(S)))
    BY DEF TaskInfo
  <1> DEFINE launched == {PlanSeq[i] : i \in 1 .. n}
            lost == Channels \ launched
            tk == [c \in Channels |-> IF c \in launched THEN StartedTask ELSE IdleTask]
            pr == [c \in Channels |-> IF c \in launched THEN "alive" ELSE "none"]
            no == [c \in Channels |-> <<>>]
            w == [c \in Channels |->
                    IF c \in launched THEN NewWorker ELSE [NewWorker EXCEPT !.pc = "gone"]]
            B == Begun(ForNewTask(ParentState))
            S == [B EXCEPT !.task = tk, !.ctl = no, !.evt = no, !.proc = pr, !.killed = {}]
            sp == MarkUnavailable(S.sup, lost)
            lg == [S.log EXCEPT !.cause = TRUE]
            L == [S EXCEPT !.sup = MarkUnavailable(@, lost), !.log.cause = TRUE]
  <1>2. /\ Idle /\ wk' = w
        /\ \/ lost = {} /\ Become(S)
           \/ Become(PendingStartFail(L))
    BY <1>1
  <1>3. /\ B \in ParentStates /\ B.sup = SupervisorInit(Channels)
        /\ B.cap = [state |-> "PREPARING", epoch |-> NoEpoch]
        /\ B.start.active /\ B.start.phase = "PREP_READY" /\ B.stop = stop /\ B.log = NewLog(FALSE)
    BY <1>2, BegunState
  <1> HIDE DEF B
  <1>4. B.log \in Logs /\ ~B.log.committed /\ B.log.stopAck = "none" /\ ~B.stop.active
    BY <1>2, <1>3, IdleFacts, NewLogType
  <1>5. /\ tk \in [Channels -> Children] /\ no \in [Channels -> Seq(Messages)]
        /\ no \in [Channels -> Seq(Events)]
        /\ pr \in [Channels -> {"none", "alive", "closing", "zombie"}]
        /\ w \in [Channels -> Workers]
        /\ \A c \in Channels : /\ tk[c].live <=> pr[c] # "none"
                               /\ tk[c].live \/ c \in lost
                               /\ ~tk[c].armed /\ no[c] = <<>> /\ w[c].epoch = NoEpoch
                               /\ ~Recording(w[c])
    BY ChildTypes
  <1>6. B.cap.epoch = NoEpoch /\ B.cap.state # "IDLE"
    BY <1>3
  <1>7. lost \in Mask
    BY DEF Mask
  <1> HIDE DEF launched, lost, tk, pr, no, w
  <1>8. /\ B.sup.target = Channels /\ ~B.sup.emitted
         /\ B.sup.terminal = "ACTIVE" /\ SupInv(B.sup, B.cap, w)
    BY <1>3, <1>6, NewSupervisor DEF Mask
  <1>9. /\ S \in ParentStates /\ S.sup = B.sup /\ S.cap = B.cap /\ S.task = tk /\ S.start = B.start
        /\ S.stop = B.stop /\ S.log = B.log /\ S.ctl = no /\ S.evt = no /\ S.proc = pr
    BY <1>3, <1>5 DEF ParentStates, Mask
  <1> HIDE DEF S
  <1>10. /\ sp \in Supervisors /\ sp.target = Channels /\ ~sp.emitted
         /\ sp.failed /\ sp.unavailable = lost /\ SupInv(sp, B.cap, w)
    BY <1>3, <1>9, <1>6, <1>7, LostSupervisor
  <1>11. lg \in Logs /\ ~lg.committed /\ lg.stopAck = "none"
    BY <1>9, <1>4 DEF Logs
  <1>12. /\ L \in ParentStates /\ L.sup = sp /\ L.cap = B.cap /\ L.task = tk /\ L.start = B.start
        /\ L.stop = B.stop /\ L.log = lg /\ L.ctl = no /\ L.evt = no /\ L.proc = pr
    <2> HIDE DEF sp, lg
    <2>1. L = [S EXCEPT !.sup = sp, !.log = lg]
      BY <1>9 DEF sp, lg, ParentStates
    <2> HIDE DEF L
    <2> QED BY <1>9, <1>10, <1>11, <2>1 DEF ParentStates
  <1> HIDE DEF L, sp, lg
  <1>13. WorkerInv(w)
    BY <1>5 DEF WorkerInv, Recording
  <1>14. CASE lost = {} /\ Become(S)
    <2>1. Sound(S, w)
      <3>1. \A c \in Channels :
              /\ S.task[c].live <=> S.proc[c] # "none"
              /\ S.cap.state \in Busy => S.task[c].live \/ c \in S.sup.unavailable
              /\ ~S.task[c].armed
              /\ \A i \in DOMAIN S.ctl[c] : S.ctl[c][i].type = "RUN" => ArmedAll(w)
              /\ S.task[c].live => /\ S.ctl[c] = <<>> /\ S.evt[c] = <<>> /\ w[c].epoch = NoEpoch
        BY <1>9, <1>5, <1>14
      <3>2. /\ SupInv(S.sup, S.cap, w) /\ S.sup.target = Channels /\ ~S.sup.emitted
            /\ S.cap.state # "IDLE" /\ S.start.active /\ S.start.phase # "NONE" /\ ~S.stop.active
            /\ ~S.log.committed /\ S.log.stopAck = "none"
        BY <1>3, <1>9, <1>4, <1>6, <1>8
      <3> QED BY <1>9, <3>1, <3>2, NewTask
    <2>2. Judged(S)
      BY <1>9, <1>8 DEF Judged
    <2>3. ParentState' = S
      BY <1>14, <2>1, Becomes DEF Sound
    <2> QED BY <1>2, <1>13, <2>1, <2>2, <2>3 DEF TaskInv
  <1>15. CASE Become(PendingStartFail(L))
    <2> DEFINE F == PendingStartFail(L)
    <2>1. Sound(L, w)
      <3>1. \A c \in Channels :
              /\ L.task[c].live <=> L.proc[c] # "none"
              /\ L.cap.state \in Busy => L.task[c].live \/ c \in L.sup.unavailable
              /\ ~L.task[c].armed
              /\ \A i \in DOMAIN L.ctl[c] : L.ctl[c][i].type = "RUN" => ArmedAll(w)
              /\ L.task[c].live => /\ L.ctl[c] = <<>> /\ L.evt[c] = <<>> /\ w[c].epoch = NoEpoch
        BY <1>12, <1>5, <1>10
      <3> QED BY <1>3, <1>12, <1>4, <1>6, <1>10, <1>11, <3>1, NewTask
    <2>2. Sound(F, w) /\ Follows(L, F) /\ F.cap.state \notin Busy
      BY <1>3, <1>12, <2>1, StartFailed
    <2> HIDE DEF F
    <2>3. F.sup.failed /\ F.sup \in Supervisors
      BY <1>12, <1>10, <2>2, PartTypes DEF Follows, Sound
    <2>4. F.sup.terminal \in {"ACTIVE", "FAILED"}
      BY <2>2, <2>3 DEF Sound, SupInv, VerdictInv, Supervisors, Verdicts
    <2>5. Judged(F)
      BY <2>2, <2>4 DEF Judged
    <2>6. ParentState' = F
      BY <1>15, <2>2, Becomes DEF Sound, F
    <2> QED BY <1>2, <1>13, <2>2, <2>5, <2>6 DEF TaskInv
  <1> QED BY <1>2, <1>14, <1>15

-----------------------------------------------------------------------------
LEMMA InitKeeps ==
  ASSUME Init
  PROVE  TaskInv
  <1> DEFINE S == ParentState
  <1>1. /\ S.sup = SupervisorInit({}) /\ S.cap = [state |-> "IDLE", epoch |-> NoEpoch]
        /\ S.task = [c \in Channels |-> IdleTask] /\ S.start = NoStart /\ S.stop = NoStop
        /\ S.log = [tasks |-> 0, committed |-> FALSE, cause |-> FALSE,
                    startAck |-> "none", stopAck |-> "none"]
        /\ S.ctl = [c \in Channels |-> <<>>] /\ S.evt = [c \in Channels |-> <<>>]
        /\ S.proc = [c \in Channels |-> "none"] /\ S.killed = {}
        /\ S = [sup |-> S.sup, cap |-> S.cap, task |-> S.task, start |-> S.start, stop |-> S.stop,
                log |-> S.log, ctl |-> S.ctl, evt |-> S.evt, proc |-> S.proc, killed |-> S.killed]
        /\ wk = [c \in Channels |-> NewWorker]
    BY DEF Init, ParentState
  <1> HIDE DEF S
  <1>2. /\ S.cap \in Captures /\ S.cap.epoch = NoEpoch
        /\ S.cap.state = "IDLE" /\ S.cap.state \notin Busy
    BY <1>1 DEF Captures, Busy, Stoppable, NoEpoch
  <1>3. /\ S.sup \in Supervisors /\ S.sup.target = {} /\ S.sup.terminal = "ACTIVE" /\ ~S.sup.emitted
        /\ SupInv(S.sup, S.cap, wk) /\ S.sup.drained = {} /\ S.sup.final = {}
    BY <1>1, <1>2, NewSupervisor DEF Mask
  <1>4. /\ S.start \in Starts /\ ~S.start.active /\ S.start.phase = "NONE"
        /\ S.stop \in Stops /\ ~S.stop.active
    BY <1>1 DEF NoStart, NoStop, Starts, Stops
  <1>5. /\ S.log \in Logs /\ S.log.tasks = 0 /\ ~S.log.committed /\ S.log.stopAck = "none"
    BY <1>1 DEF Logs, Answers
  <1>6. /\ S.task \in [Channels -> Children] /\ S.ctl \in [Channels -> Seq(Messages)]
        /\ S.evt \in [Channels -> Seq(Events)]
        /\ S.proc \in [Channels -> {"none", "alive", "closing", "zombie"}] /\ S.killed \in Mask
        /\ \A c \in Channels : /\ ~S.task[c].live /\ ~S.task[c].armed /\ S.proc[c] = "none"
                               /\ S.ctl[c] = <<>>
    BY <1>1, ChildTypes DEF Mask
  <1>7. S \in ParentStates
    BY <1>1, <1>2, <1>3, <1>4, <1>5, <1>6 DEF ParentStates
  <1>8. PlanInv(S) /\ LiveInv(S) /\ LogInv(S, wk)
    BY <1>1, <1>2, <1>3, <1>4, <1>5, <1>6 DEF PlanInv, LiveInv, LogInv
  <1>9. \A c \in Channels : PipeInv(S, wk, c)
    BY <1>6 DEF PipeInv
  <1>10. WorkerInv(wk)
    BY <1>1, ChildTypes DEF WorkerInv, Recording
  <1>11. Judged(S)
    BY <1>3 DEF Judged
  <1> QED BY <1>3, <1>7, <1>8, <1>9, <1>10, <1>11 DEF TaskInv, Sound, S

LEMMA Stutters ==
  ASSUME TaskInv, UNCHANGED vars
  PROVE  TaskInv'
  <1>1. ParentState' = ParentState /\ wk' = wk
    BY DEF vars, ParentState
  <1> QED BY <1>1 DEF TaskInv

LEMMA NextKeeps ==
  ASSUME TaskInv, [Next]_vars
  PROVE  TaskInv'
  <1>1. CASE \/ TaskInfo \/ TaskInfoWithoutIndex \/ TaskInfoWithoutPlan \/ SwitchOn \/ SwitchOff
             \/ ServiceStartStep \/ StartDeadline \/ ServiceStopStep \/ StopDeadline
    BY <1>1, KeepsTaskInfo, KeepsTaskInfoWithoutIndex, KeepsTaskInfoWithoutPlan, KeepsSwitchOn,
       KeepsSwitchOff, KeepsServiceStart, KeepsStartDeadline, KeepsServiceStop, KeepsStopDeadline
  <1>2. ASSUME NEW c \in Channels,
               \/ CheckTaskStep(c) \/ WorkerStep(c) \/ InputIdle(c) \/ InputActive(c)
               \/ BootFails(c) \/ GateTimeout(c) \/ WorkerFails(c) \/ EventLost(c)
               \/ Crash(c) \/ Hang(c) \/ Killed(c) \/ Closed(c)
        PROVE  TaskInv'
    <2>1. CASE WorkerStep(c)
      BY <2>1, KeepsReady, KeepsGate, KeepsLatchStop, KeepsDrain, KeepsWaitForStop, KeepsFinalize,
         KeepsFinalBad, KeepsExit DEF WorkerStep
    <2>2. CASE ~WorkerStep(c)
      BY <1>2, <2>2, KeepsCheckTask, KeepsInputIdle, KeepsInputActive, KeepsBootFails,
         KeepsGateTimeout, KeepsWorkerFails, KeepsEventLost, KeepsCrash, KeepsHang, KeepsKilled, KeepsClosed
    <2> QED BY <2>1, <2>2
  <1>3. CASE UNCHANGED vars
    BY <1>3, Stutters
  <1> QED BY <1>1, <1>2, <1>3 DEF Next

\* Every state of a storage task satisfies the inductive invariant: whatever handler
\* of system.c ran last, the supervisor's record, the controller, the pipes and the
\* workers agree, and a verdict that has fallen has been emitted.
THEOREM TaskStaysSound == Spec => []TaskInv
  <1>1. Init => TaskInv
    BY InitKeeps
  <1>2. TaskInv /\ [Next]_vars => TaskInv'
    BY NextKeeps
  <1> QED BY <1>1, <1>2, PTL DEF Spec

\* storage_supervisor_result_status and storage_supervisor_emit_aggregate list files only
\* for a capture that is whole, in whatever order the workers report, fail or die.
THEOREM CommitsOnlyWhole == Spec => []CommitOnlyWhole
  <1>1. TaskInv => CommitOnlyWhole
    <2> SUFFICES ASSUME TaskInv, log.committed PROVE Whole(wk)
      BY DEF CommitOnlyWhole, Whole
    <2> QED BY ParentSound DEF Judgement, Sound, LogInv
  <1> QED BY <1>1, TaskStaysSound, PTL

\* storage_begin_run_barrier: no worker records before every worker of the plan has
\* started its DMA, also when children die or answer late between ARM and RUN.
THEOREM BarrierHolds == Spec => []RunBarrier
  <1>1. TaskInv => RunBarrier
    BY DEF TaskInv, WorkerInv, RunBarrier, ArmedAll
  <1> QED BY <1>1, TaskStaysSound, PTL

\* When the last child is gone the controller has left its busy states: no sequence of
\* exits, failures and answers leaves a capture that refuses every later 0x11.
THEOREM QuietMeansReady == Spec => []QuietIsReady
  <1>1. TaskInv => QuietIsReady
    <2> SUFFICES ASSUME TaskInv, ~AnyLive(ParentState), cap.state \in Busy PROVE FALSE
      BY DEF QuietIsReady
    <2> DEFINE S == ParentState
    <2>1. /\ S \in ParentStates /\ LiveInv(S) /\ PlanInv(S) /\ SupInv(S.sup, S.cap, wk) /\ Judged(S)
          /\ S.cap.state \in Busy /\ \A c \in Channels : ~S.task[c].live
      BY ParentSound DEF Judgement, Sound, AnyLive
    <2> HIDE DEF S
    <2>2. S.sup \in Supervisors
      BY <2>1, PartTypes
    <2>3. S.sup.target = Channels
      BY <2>1 DEF PlanInv, Busy, Stoppable
    <2>4. S.sup.final \cup S.sup.unavailable = Channels
      BY <2>1, <2>2 DEF LiveInv, Supervisors, Mask
    <2> QED BY <2>1, <2>3, <2>4, ChannelsAssumption DEF SupInv, VerdictInv, Judged
  <1> QED BY <1>1, TaskStaysSound, PTL

\* storage_service_pending_stop answers STOP with success only when the capture has been
\* committed, as long as no 0x11 was refused for its file mode in between (the answer is
\* the supervisor's verdict, which such a command leaves as the last capture's).
THEOREM StopAcksAreTrue ==
  ASSUME ~RejectedPlans
  PROVE  Spec => []StopAckMeansCommitted
  <1>1. TaskInv => StopAckMeansCommitted
    BY ParentSound DEF Judgement, Sound, LogInv, StopAckMeansCommitted
  <1> QED BY <1>1, TaskStaysSound, PTL
=============================================================================
