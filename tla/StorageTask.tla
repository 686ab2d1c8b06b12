----------------------------- MODULE StorageTask -----------------------------
(***************************************************************************)
(* One storage task: the parent process of system.c (serial commands, start*)
(* barrier, STOP, worker exits) with its supervisor and capture controller,*)
(* the worker processes, and the pipes between them.                       *)
(*                                                                         *)
(* The parent has one thread: serial commands, check_task for every child  *)
(* and the two pending operations are steps of its main loop, taken here in*)
(* any order.  A handler is an operator from the parent's memory to the    *)
(* next (ParentState), because handlers call each other in the code.       *)
(*                                                                         *)
(* The workers are what CaptureWorker describes, seen through their events:*)
(* a worker stops at its gates, records, stops in phases and reports.      *)
(*                                                                         *)
(* Deadlines may pass at any moment.  A write to the control pipe fails    *)
(* only when the reader is gone: a task sends at most four messages of 32  *)
(* bytes, so the pipe is never full.                                       *)
(***************************************************************************)
EXTENDS Supervisor, Sequences, SequencesExt

CONSTANTS
    MaxTasks,       \* bound on the 0x11 commands
    MaxIdle,        \* bound on how often an input turns idle
    MaxFaults,      \* bound on the faults in a behaviour
    Faults,         \* the kinds of fault that may happen; an input that
                    \* resumes in the middle of a drain is counted with them
    RejectedPlans   \* whether 0x11 may name a file mode without a plan (0x33)

ASSUME FaultsAssumption ==
    /\ Faults \subseteq {"fork", "boot", "gate", "boundary", "worker", "event", "bad",
                        "crash", "hang", "deadline", "db", "resume"}
    /\ RejectedPlans \in BOOLEAN

VARIABLES
    sup,      \* g_storage_supervisor
    cap,      \* g_capture_task
    task,     \* storage_tasks[]
    start,    \* g_pending_storage_start
    stop,     \* g_pending_storage_stop
    log,      \* what the operator and the file list have been told
    ctl,      \* control pipes, parent to worker
    evt,      \* event pipes, worker to parent
    proc,     \* the kernel's view of the children
    killed,   \* children with a pending SIGKILL
    wk,       \* the workers' own state
    faults    \* number of faults so far

vars == <<sup, cap, task, start, stop, log, ctl, evt, proc, killed, wk, faults>>

\* A loop over storage_tasks[] goes up: the body of the highest channel is last.
ForChannels(channels, op(_, _), S) ==
    MapThenFoldSet(LAMBDA c, s : op(s, c), S, LAMBDA c : c, Max, channels)

Message(type, epoch) == [type |-> type, epoch |-> epoch]
Event(type) == [type |-> type]
PhaseEvent(phase, epoch, late) ==
    [type |-> "STOP_PHASE", phase |-> phase, epoch |-> epoch, late |-> late]

\* storage_task_reset_runtime
IdleTask ==
    [live |-> FALSE, state |-> "IDLE", control |-> FALSE, event |-> FALSE,
     gaveUp |-> FALSE, ready |-> FALSE, armed |-> FALSE, running |-> FALSE,
     fatal |-> FALSE, final |-> "none"]

\* start_storage_worker
StartedTask ==
    [IdleTask EXCEPT !.live = TRUE, !.state = "RUNNING", !.control = TRUE,
                     !.event = TRUE]

NewWorker ==
    [pc |-> "boot", epoch |-> NoEpoch, stopLatched |-> FALSE, result |-> "bad",
     idle |-> FALSE, idled |-> 0, armed |-> FALSE, failed |-> FALSE, code |-> 1]

NoStart == [active |-> FALSE, prepare |-> FALSE, phase |-> "NONE"]
NoStop == [active |-> FALSE, forced |-> FALSE]

Init ==
    /\ sup = SupervisorInit({})
    /\ cap = [state |-> "IDLE", epoch |-> NoEpoch]
    /\ task = [c \in Channels |-> IdleTask]
    /\ start = NoStart
    /\ stop = NoStop
    /\ log = [tasks |-> 0, committed |-> FALSE, cause |-> FALSE,
              startAck |-> "none", stopAck |-> "none"]
    /\ ctl = [c \in Channels |-> <<>>]
    /\ evt = [c \in Channels |-> <<>>]
    /\ proc = [c \in Channels |-> "none"]
    /\ killed = {}
    /\ wk = [c \in Channels |-> NewWorker]
    /\ faults = 0

-----------------------------------------------------------------------------
\* The capture controller, storage_controller.c.
Stoppable == {"PREPARING", "READY", "STARTING", "RUNNING"}
Busy == Stoppable \cup {"STOPPING", "COMMITTING"}

CaptureRequestStop(c, epoch) ==
    IF c.state = "IDLE" THEN c
    ELSE [state |-> IF c.state \in Stoppable THEN "STOPPING" ELSE c.state,
          epoch |-> IF c.state \in Stoppable \/ c.epoch = NoEpoch
                    THEN epoch ELSE c.epoch]

\* Mutant: a capture that is being committed is not failed.
CaptureFailBeforeCommit(c) ==
    [c EXCEPT !.state = IF @ \in Busy \ {"COMMITTING"} THEN "FAILED" ELSE @]

CaptureFail(c) == [c EXCEPT !.state = IF @ \in Busy THEN "FAILED" ELSE @]

-----------------------------------------------------------------------------
\* The parent's memory as one record, so that handlers compose.
ParentState ==
    [sup |-> sup, cap |-> cap, task |-> task, start |-> start, stop |-> stop,
     log |-> log, ctl |-> ctl, evt |-> evt, proc |-> proc, killed |-> killed]

Become(S) ==
    /\ sup' = S.sup /\ cap' = S.cap /\ task' = S.task
    /\ start' = S.start /\ stop' = S.stop /\ log' = S.log
    /\ ctl' = S.ctl /\ evt' = S.evt /\ proc' = S.proc /\ killed' = S.killed

AnyLive(S) == \E c \in Channels : S.task[c].live

\* storage_send_control: the worker's end of the pipe is open.
CanSend(S, c) == S.task[c].control /\ S.proc[c] = "alive"

Send(pipes, to, m) ==
    [c \in Channels |-> IF c \in to THEN Append(pipes[c], m) ELSE pipes[c]]

\* A stop takes its epoch once.
StoppedAt(capture, epoch) ==
    IF capture.epoch = NoEpoch THEN CaptureRequestStop(capture, epoch) ELSE capture

\* storage_try_send_pending_stops.  A send that fails meets a dead worker:
\* storage_fallback_stop closes the pipe and gives up, and its SIGTERM finds
\* nobody.
SendStops(S, capture, due, sent) ==
    [S EXCEPT
       !.cap = capture,
       !.sup = MarkStopSent(@, sent, capture.epoch),
       !.ctl = Send(@, sent, Message("STOP", capture.epoch)),
       !.task = [c \in Channels |->
                   IF c \in due \ sent
                   THEN [@[c] EXCEPT !.control = FALSE, !.gaveUp = TRUE] ELSE @[c]]]

TrySendPendingStops(S) ==
    LET due == {c \in PendingStops(S.sup) : S.task[c].live /\ ~S.task[c].gaveUp} IN
    IF PendingStops(S.sup) = {} THEN S
    ELSE SendStops(S, StoppedAt(S.cap, StopEpoch), due, {c \in due : CanSend(S, c)})

SendDrains(S, sent) ==
    [S EXCEPT !.sup = MarkAutoDrainSent(@, sent),
              !.ctl = Send(@, sent, Message("AUTO_DRAIN", S.sup.drainEpoch))]

TrySendAutoDrains(S) ==
    SendDrains(S, {c \in AutoDrainPending(S.sup) : S.task[c].live /\ CanSend(S, c)})

\* Mutant: STOP always takes a time stamp of its own.
FreshEpoch(S) == StopEpoch

\* request_storage_stop_all: a drain in progress lends STOP its epoch.
EpochOfStop(S) == IF S.sup.drainEpoch # NoEpoch THEN S.sup.drainEpoch ELSE StopEpoch

RequestStopAt(S, capture) ==
    LET live == {c \in Channels : S.task[c].live} IN
    [S EXCEPT !.cap = capture,
              !.sup = [RequestStop(@, live) EXCEPT !.stopEpoch = capture.epoch]]

RequestStorageStopAll(S) ==
    TrySendPendingStops(RequestStopAt(S, StoppedAt(S.cap, EpochOfStop(S))))

\* storage_supervisor_emit_aggregate, once per task: a successful capture is
\* committed here (the commit itself is the module Catalog; ok is its outcome).
CaptureEnded(capture, committed) ==
    LET stopped == IF capture.state \in Stoppable
                   THEN CaptureRequestStop(capture, IF capture.epoch # NoEpoch
                                                    THEN capture.epoch ELSE StopEpoch)
                   ELSE capture
        committing == [stopped EXCEPT
                         !.state = IF @ = "STOPPING" THEN "COMMITTING" ELSE @]
    IN IF ~committed THEN CaptureFail(committing)
       ELSE [committing EXCEPT !.state = IF @ = "COMMITTING" THEN "DONE" ELSE @]

Emitted(S, committed, ok) ==
    [S EXCEPT
       !.sup = [(IF @.terminal = "SUCCESS" /\ ~committed THEN Fail(@) ELSE @)
                  EXCEPT !.emitted = TRUE],
       !.cap = CaptureEnded(@, committed),
       !.log.committed = committed,
       !.log.cause = @ \/ ~ok]

EmitJudged(S, ok) ==
    IF S.sup.emitted \/ S.sup.terminal = "ACTIVE" THEN S
    ELSE Emitted(S, S.sup.terminal = "SUCCESS" /\ ok /\ S.sup.target # {}, ok)

EmitAggregate(S, ok) == EmitJudged([S EXCEPT !.sup = ResultStatus(@)], ok)

-----------------------------------------------------------------------------
\* drain_storage_events: what the parent notes of an event, ...
Seen(t, e) ==
    CASE e.type = "READY"   -> [t EXCEPT !.ready = TRUE]
      [] e.type = "ARMED"   -> [t EXCEPT !.armed = TRUE]
      [] e.type = "RUNNING" -> [t EXCEPT !.running = TRUE]
      [] e.type = "FATAL"   -> [t EXCEPT !.fatal = TRUE]
      [] e.type = "FINAL"   -> [t EXCEPT !.final = e.result]
      [] OTHER -> t

\* ... what it does with the supervisor's answer h, ...
Noted(S, c, e, h) ==
    LET T == [S EXCEPT !.sup = h.sup, !.task[c] = Seen(@, e)] IN
    IF ~h.ok THEN [S EXCEPT !.sup = h.sup, !.task[c].fatal = TRUE]
    ELSE IF ~AutoDrainReady(h.sup) THEN T
    ELSE TrySendAutoDrains([T EXCEPT !.sup = BeginAutoDrain(h.sup)])

DrainOne(S, c, e) == Noted(S, c, e, HandleEvent(S.sup, c, e))

\* ... and all that the pipe holds; behind the last event of a dead worker the
\* read reports the end of the file.
AtEof(S, c) ==
    IF S.proc[c] = "alive" THEN S
    ELSE [S EXCEPT !.sup = HandleWorkerEof(@, c), !.task[c].event = FALSE]

DrainAll(S, c) ==
    TrySendAutoDrains(FoldLeft(LAMBDA s, e : DrainOne(s, c, e),
                               [S EXCEPT !.evt[c] = <<>>], S.evt[c]))

\* storage_finish_worker_exit with finalize_storage_task: the pipe is drained
\* to its last event before the exit status counts.
ExitIsGood(S, c) == S.task[c].final \in {"good", "short"} /\ wk[c].code = 0

Reaped(S, c, good) ==
    [S EXCEPT !.sup = HandleWorkerExit(@, c, wk[c].code),
              !.proc[c] = "none",
              !.task[c] = [@ EXCEPT !.live = FALSE, !.control = FALSE,
                                    !.event = FALSE,
                                    !.state = IF good THEN "IDLE" ELSE "ERROR"]]

AfterExit(S, c) ==
    IF ExitIsGood(S, c) THEN Reaped(S, c, TRUE)
    ELSE RequestStorageStopAll(Reaped(S, c, FALSE))

FinishWorkerExit(S, c, ok) ==
    EmitAggregate(TrySendPendingStops(
        AfterExit(IF S.task[c].event THEN DrainAll(S, c) ELSE S, c)), ok)

CheckTask(S, c, ok) ==
    IF ~S.task[c].live THEN S
    ELSE IF S.proc[c] = "zombie" THEN FinishWorkerExit(S, c, ok)
    ELSE EmitAggregate(TrySendPendingStops(
             IF S.task[c].event THEN AtEof(DrainAll(S, c), c) ELSE S), ok)

Each(op(_, _), S) == ForChannels(S.sup.target, op, S)

-----------------------------------------------------------------------------
\* The start barrier.
PendingStartFail(S) ==
    IF ~S.start.active \/ S.start.phase = "FAILED" THEN S
    ELSE RequestStorageStopAll([S EXCEPT !.start.phase = "FAILED",
                                         !.cap = CaptureFail(@)])

StartAcked(S, answer) == [S EXCEPT !.start = NoStart, !.log.startAck = answer]

\* The last part of storage_service_pending_start: a failed start is answered
\* when the last child is gone.
ServiceFailedStart(S, ok) ==
    IF S.start.phase # "FAILED" THEN S
    ELSE IF AnyLive(S) THEN RequestStorageStopAll(S)
    ELSE StartAcked(EmitAggregate(RequestStorageStopAll(S), ok), "failed")

\* storage_begin_run_barrier, one target: ARM is sent until one child fails.
SendOrFail(S, c, type) ==
    IF S.task[c].state = "RUNNING" /\ CanSend(S, c)
    THEN [S EXCEPT !.ctl = Send(@, {c}, Message(type, NoEpoch))]
    ELSE PendingStartFail(S)

ArmTarget(S, c, ok) ==
    IF S.start.phase = "FAILED" THEN S ELSE SendOrFail(CheckTask(S, c, ok), c, "ARM")

BeginRunBarrier(S, ok) ==
    Each(LAMBDA s, c : ArmTarget(s, c, ok),
         [S EXCEPT !.cap.state = "STARTING",
                   !.start = [active |-> TRUE, prepare |-> FALSE, phase |-> "ARM_WAIT"]])

RunTarget(S, c) ==
    IF S.start.phase = "FAILED" THEN S ELSE SendOrFail(S, c, "RUN")

SendRuns(S) ==
    LET T == Each(RunTarget, S) IN
    [T EXCEPT !.start.phase = IF @ = "FAILED" THEN @ ELSE "RUN_WAIT"]

FailUnlessLive(S, c) ==
    IF S.task[c].live /\ ~S.task[c].fatal THEN S ELSE PendingStartFail(S)

CheckStartTarget(S, c, ok) == FailUnlessLive(CheckTask(S, c, ok), c)

\* Mutant: one report counts for all.
ReportedByOne(S, flag) == \E c \in S.sup.target : S.task[c].live /\ S.task[c][flag]

Reported(S, flag) == \A c \in S.sup.target : S.task[c].live /\ S.task[c][flag]

Advance(S, ok) ==
    CASE S.start.phase = "PREP_READY" /\ Reported(S, "ready") ->
           IF ok /\ S.cap.state = "PREPARING"
           THEN [S EXCEPT !.cap.state = "READY", !.start = NoStart]
           ELSE ServiceFailedStart(PendingStartFail(S), ok)
      [] S.start.phase = "ARM_WAIT" /\ Reported(S, "armed") ->
           ServiceFailedStart(SendRuns(S), ok)
      [] S.start.phase = "RUN_WAIT" /\ Reported(S, "running") ->
           IF S.cap.state = "STARTING"
           THEN StartAcked([S EXCEPT !.cap.state = "RUNNING"], "ok")
           ELSE PendingStartFail(S)
      [] OTHER -> ServiceFailedStart(S, ok)

ServiceStart(S, ok, late) ==
    LET checked == Each(LAMBDA s, c : CheckStartTarget(s, c, ok), S) IN
    Advance(IF late THEN PendingStartFail(checked) ELSE checked, ok)

-----------------------------------------------------------------------------
\* Mutant: only children that are already dead are reaped.
ReapTarget(S, c, ok) ==
    IF S.task[c].live /\ S.proc[c] = "zombie" THEN FinishWorkerExit(S, c, ok) ELSE S

\* storage_service_pending_stop, and stop_all_storage_tasks at its deadline.
KillTarget(S, c, ok) ==
    LET T == [S EXCEPT !.killed = @ \cup {c}] IN
    IF ~S.task[c].live THEN S
    ELSE IF S.proc[c] = "zombie" THEN FinishWorkerExit(S, c, ok)
    ELSE T

StopAllStorageTasks(S, ok) ==
    EmitAggregate(TrySendPendingStops(
        ForChannels(Channels, LAMBDA s, c : KillTarget(s, c, ok), S)), ok)

\* The answer is the verdict as it was before the aggregate is emitted.
AnswerStop(S, ok) ==
    [EmitAggregate(S, ok) EXCEPT
       !.stop = NoStop,
       !.log.stopAck = IF ResultStatus(S.sup).terminal = "SUCCESS" THEN "ok" ELSE "failed"]

ServiceStop(S, ok, late) ==
    IF ~AnyLive(S) THEN AnswerStop(S, ok)
    ELSE IF late /\ ~S.stop.forced
    THEN StopAllStorageTasks([S EXCEPT !.stop.forced = TRUE, !.log.cause = TRUE], ok)
    ELSE S

-----------------------------------------------------------------------------
\* The parent's steps.  Every call that can fail succeeds, or is a fault.
Fault(kind) == kind \in Faults /\ faults < MaxFaults /\ faults' = faults + 1

DoEither(S, Failed) ==
    /\ UNCHANGED wk
    /\ \/ Become(S) /\ UNCHANGED faults
       \/ Failed # S /\ Become(Failed) /\ Fault("db")

Do(op(_)) ==
    DoEither(op(TRUE), op(FALSE))

\* build_file_plan lists ch2 first.
PlanSeq == SetToSortSeq(Channels, LAMBDA a, b : (a + 1) % 3 < (b + 1) % 3)

\* The 0x11 command is refused while anything of a capture is left, ...
Idle ==
    /\ ~AnyLive(ParentState) /\ ~start.active /\ ~stop.active
    /\ log.tasks < MaxTasks

ForNewTask(S) ==
    [S EXCEPT !.task = [c \in Channels |-> IdleTask],
              !.log = [tasks |-> @.tasks + 1, committed |-> FALSE, cause |-> FALSE,
                       startAck |-> "none", stopAck |-> "none"]]

Begun(S) ==
    [S EXCEPT !.sup = SupervisorInit(Channels),
              !.cap = [state |-> "PREPARING", epoch |-> NoEpoch],
              !.start = [active |-> TRUE, prepare |-> TRUE, phase |-> "PREP_READY"]]

\* ... otherwise the workers of the plan are started; when a fork fails the
\* rest of the plan is lost and the start has failed, ...
TaskInfo ==
    \E n \in 0 .. Len(PlanSeq) :
       LET launched == {PlanSeq[i] : i \in 1 .. n}
           S == [Begun(ForNewTask(ParentState)) EXCEPT
                   !.task = [c \in Channels |->
                               IF c \in launched THEN StartedTask ELSE IdleTask],
                   !.ctl = [c \in Channels |-> <<>>],
                   !.evt = [c \in Channels |-> <<>>],
                   !.proc = [c \in Channels |->
                               IF c \in launched THEN "alive" ELSE "none"],
                   !.killed = {}]
           Lost(T) == [T EXCEPT !.sup = MarkUnavailable(@, Channels \ launched),
                                !.log.cause = TRUE]
       IN /\ Idle /\ cap.state \notin Busy
          /\ wk' = [c \in Channels |->
                      IF c \in launched THEN NewWorker ELSE [NewWorker EXCEPT !.pc = "gone"]]
          /\ \/ launched = Channels /\ Become(S) /\ UNCHANGED faults
             \/ launched # Channels /\ Become(PendingStartFail(Lost(S))) /\ Fault("fork")

\* ... and nothing is started when the next file index cannot be read, ...
TaskInfoWithoutIndex ==
    /\ Idle /\ cap.state \notin Busy
    /\ Become([Begun(ForNewTask(ParentState)) EXCEPT
                 !.cap.state = "FAILED", !.start = NoStart])
    /\ UNCHANGED wk
    /\ Fault("db")

\* ... or when the file mode has no plan: the supervisor and the controller
\* stay those of the capture before.
TaskInfoWithoutPlan ==
    /\ RejectedPlans /\ Idle
    /\ Become(ForNewTask(ParentState))
    /\ UNCHANGED <<wk, faults>>

\* 0x21 on; answered with "retry" while an operation is pending.
SwitchOn ==
    /\ log.tasks > 0 /\ ~start.active /\ ~stop.active
    /\ Do(LAMBDA ok : IF cap.state = "READY" THEN BeginRunBarrier(ParentState, ok)
                      ELSE StartAcked(RequestStorageStopAll(ParentState), "failed"))

\* 0x21 off; ignored while a stop is pending.
SwitchOff ==
    /\ log.tasks > 0 /\ ~stop.active
    /\ Become([RequestStorageStopAll(PendingStartFail(ParentState)) EXCEPT
                 !.stop = [active |-> TRUE, forced |-> FALSE]])
    /\ UNCHANGED <<wk, faults>>

CheckTaskStep(c) == Do(LAMBDA ok : CheckTask(ParentState, c, ok))

ServiceStartStep ==
    start.active /\ Do(LAMBDA ok : ServiceStart(ParentState, ok, FALSE))

AnyHung == \E c \in Channels : wk[c].pc = "hung"

StartDeadline ==
    /\ start.active /\ start.phase # "FAILED"
    /\ Become([ServiceStart(ParentState, TRUE, TRUE) EXCEPT !.log.cause = TRUE])
    /\ UNCHANGED wk
    /\ \/ AnyHung /\ UNCHANGED faults
       \/ ~AnyHung /\ Fault("deadline")

ServiceStopStep ==
    stop.active /\ Do(LAMBDA ok : ServiceStop(ParentState, ok, FALSE))

\* The deadline of STOP is the sum of the workers' own (storage_ipc_parent_
\* stop_timeout_config): it passes when a worker hangs, or is set too short.
StopDeadline ==
    /\ stop.active /\ ~stop.forced /\ AnyLive(ParentState)
    /\ Become(ServiceStop(ParentState, TRUE, TRUE))
    /\ UNCHANGED wk
    /\ \/ AnyHung /\ UNCHANGED faults
       \/ ~AnyHung /\ Fault("deadline")

-----------------------------------------------------------------------------
\* The workers.  Emit writes events, one after another.
Emit(c, events) == evt' = [evt EXCEPT ![c] = @ \o events]

Running(c) == proc[c] = "alive"

MyParts == <<sup, cap, task, start, stop, log, killed>>

Ready(c) ==
    /\ Running(c) /\ wk[c].pc = "boot"
    /\ Emit(c, <<Event("READY")>>)
    /\ wk' = [wk EXCEPT ![c].pc = "arm"]
    /\ UNCHANGED <<MyParts, ctl, proc, faults>>

\* The device, the tables or the memory of the worker cannot be had.
BootFails(c) ==
    /\ Running(c) /\ wk[c].pc = "boot"
    /\ Emit(c, <<Event("FATAL")>>)
    /\ wk' = [wk EXCEPT ![c].pc = "fatal", ![c].failed = TRUE]
    /\ UNCHANGED <<MyParts, ctl, proc>>
    /\ Fault("boot")

\* storage_wait_start_gate: ARM starts the DMA, RUN the capture; any other
\* message ends the worker.
Gate(c) ==
    /\ Running(c) /\ wk[c].pc \in {"arm", "run"} /\ ctl[c] # <<>>
    /\ ctl' = [ctl EXCEPT ![c] = Tail(@)]
    /\ LET m == Head(ctl[c]) IN
       \/ /\ wk[c].pc = "arm" /\ m.type = "ARM"
          /\ Emit(c, <<Event("ARMED")>>)
          /\ wk' = [wk EXCEPT ![c].pc = "run", ![c].armed = TRUE]
       \/ /\ wk[c].pc = "run" /\ m.type = "RUN"
          /\ Emit(c, <<Event("RUNNING")>>)
          /\ wk' = [wk EXCEPT ![c].pc = "rec"]
       \/ /\ m.type = "STOP"
          /\ Emit(c, <<Event("FATAL")>>)
          /\ wk' = [wk EXCEPT ![c].pc = "fatal", ![c].failed = TRUE,
                              ![c].stopLatched = TRUE, ![c].epoch = m.epoch]
    /\ UNCHANGED <<MyParts, proc, faults>>

GateTimeout(c) ==
    /\ Running(c) /\ wk[c].pc \in {"arm", "run"} /\ ctl[c] = <<>>
    /\ Emit(c, <<Event("FATAL")>>)
    /\ wk' = [wk EXCEPT ![c].pc = "fatal", ![c].failed = TRUE]
    /\ UNCHANGED <<MyParts, ctl, proc>>
    /\ Fault("gate")

\* The idle scan, while no stop has been read from the pipe.
InputIdle(c) ==
    /\ Running(c) /\ wk[c].pc = "rec" /\ ~wk[c].idle /\ wk[c].idled < MaxIdle
    /\ Emit(c, <<Event("IDLE")>>)
    /\ wk' = [wk EXCEPT ![c].idle = TRUE, ![c].idled = @ + 1]
    /\ UNCHANGED <<MyParts, ctl, proc, faults>>

InputActive(c) ==
    /\ Running(c) /\ wk[c].pc = "rec" /\ wk[c].idle
    /\ Emit(c, <<Event("ACTIVE")>>)
    /\ wk' = [wk EXCEPT ![c].idle = FALSE]
    /\ UNCHANGED <<MyParts, ctl, proc>>
    /\ Fault("resume")

\* storage_control_drain_requested and the latch of the stop.
LatchStop(c) ==
    /\ Running(c) /\ wk[c].pc = "rec" /\ ctl[c] # <<>>
    /\ LET m == Head(ctl[c]) IN
       /\ wk' = [wk EXCEPT ![c].pc = "stopping", ![c].epoch = m.epoch,
                           ![c].stopLatched = m.type = "STOP"]
       /\ Emit(c, <<PhaseEvent(1, m.epoch, FALSE)>>)
    /\ ctl' = [ctl EXCEPT ![c] = Tail(@)]
    /\ UNCHANGED <<MyParts, proc, faults>>

\* What the worker reports on its way to the end of a drain.
Phases(c, late) ==
    (IF late THEN <<>> ELSE <<PhaseEvent(2, wk[c].epoch, FALSE)>>)
       \o <<PhaseEvent(DmaQuiesced, wk[c].epoch, late),
            PhaseEvent(4, wk[c].epoch, FALSE),
            PhaseEvent(WriterDrained, wk[c].epoch, FALSE)>>

\* The input is quiesced at a packet boundary, or when waiting for one timed
\* out; what it left in memory is harvested and written, and DRAIN_READY sent.
\* A worker that was stopped goes on, one that was drained waits for STOP.
Drain(c) ==
    /\ Running(c) /\ wk[c].pc = "stopping"
    /\ \E late \in BOOLEAN, r \in Results :
         /\ Emit(c, Phases(c, late) \o <<[type |-> "DRAIN_READY", epoch |-> wk[c].epoch]>>)
         /\ wk' = [wk EXCEPT ![c].pc = IF wk[c].stopLatched THEN "final" ELSE "wait",
                             ![c].result = r, ![c].failed = r # "good"]
         /\ IF r = "good" /\ ~late THEN UNCHANGED faults
            ELSE Fault(IF late THEN "boundary" ELSE "bad")
    /\ UNCHANGED <<MyParts, ctl, proc>>

\* The parent does not read and the pipe is full: the next phase is given up at its
\* deadline and the worker fails, whether or not it can still say so.
EventLost(c) ==
    /\ Running(c) /\ wk[c].pc = "stopping"
    /\ \E late \in BOOLEAN, sent \in 0 .. 3, told \in BOOLEAN :
         Emit(c, SubSeq(Phases(c, late), 1, sent)
                    \o (IF told THEN <<Event("FATAL")>> ELSE <<>>))
    /\ wk' = [wk EXCEPT ![c].pc = "fatal", ![c].failed = TRUE]
    /\ UNCHANGED <<MyParts, ctl, proc>>
    /\ Fault("event")

\* storage_worker_wait_for_stop: a STOP of another epoch is an error.
WaitForStop(c) ==
    /\ Running(c) /\ wk[c].pc = "wait" /\ ctl[c] # <<>>
    /\ ctl' = [ctl EXCEPT ![c] = Tail(@)]
    /\ LET m == Head(ctl[c]) IN
       \/ /\ m.type = "STOP" /\ m.epoch = wk[c].epoch
          /\ wk' = [wk EXCEPT ![c].pc = "final"]
          /\ UNCHANGED evt
       \/ /\ m.type = "STOP" /\ m.epoch # wk[c].epoch
          /\ wk' = [wk EXCEPT ![c].pc = "fatal", ![c].failed = TRUE]
          /\ Emit(c, <<Event("FATAL")>>)
    /\ UNCHANGED <<MyParts, proc, faults>>

Finalize(c) ==
    /\ Running(c) /\ wk[c].pc = "final"
    /\ Emit(c, <<PhaseEvent(Finalized, wk[c].epoch, FALSE),
                 [type |-> "FINAL", result |-> wk[c].result]>>)
    /\ wk' = [wk EXCEPT ![c].pc = "exit"]
    /\ UNCHANGED <<MyParts, ctl, proc, faults>>

\* A capture that fails on its own: FATAL, and FAILED_FATAL under an epoch of
\* its own if it was given none.
WorkerFails(c) ==
    /\ Running(c) /\ wk[c].pc \in {"rec", "stopping"}
    /\ LET epoch == IF wk[c].epoch = NoEpoch THEN OwnEpoch(c) ELSE wk[c].epoch IN
       /\ \/ Emit(c, <<Event("FATAL")>>)
          \/ Emit(c, <<Event("FATAL"), PhaseEvent(FailedFatal, epoch, FALSE)>>)
       /\ wk' = [wk EXCEPT ![c].pc = "fatal", ![c].failed = TRUE]
    /\ UNCHANGED <<MyParts, ctl, proc>>
    /\ Fault("worker")

FinalBad(c) ==
    /\ Running(c) /\ wk[c].pc = "fatal"
    /\ Emit(c, <<[type |-> "FINAL", result |-> "bad"]>>)
    /\ wk' = [wk EXCEPT ![c].pc = "exit", ![c].result = "bad"]
    /\ UNCHANGED <<MyParts, ctl, proc, faults>>

\* A delivered FINAL makes the exit status 0.
Exit(c) ==
    /\ Running(c) /\ wk[c].pc = "exit"
    /\ wk' = [wk EXCEPT ![c].code = 0]
    /\ proc' = [proc EXCEPT ![c] = "closing"]
    /\ UNCHANGED <<MyParts, ctl, evt, faults>>

\* A worker may die, or stop making progress, anywhere.
Crash(c) ==
    /\ Running(c)
    /\ wk' = [wk EXCEPT ![c].failed = TRUE]
    /\ proc' = [proc EXCEPT ![c] = "closing"]
    /\ UNCHANGED <<MyParts, ctl, evt>>
    /\ Fault("crash")

Hang(c) ==
    /\ Running(c)
    /\ wk' = [wk EXCEPT ![c].pc = "hung"]
    /\ UNCHANGED <<MyParts, ctl, evt, proc>>
    /\ Fault("hang")

\* The kernel closes the pipes of a dead process before it can be reaped.
Killed(c) ==
    /\ Running(c) /\ c \in killed
    /\ wk' = [wk EXCEPT ![c].failed = TRUE]
    /\ proc' = [proc EXCEPT ![c] = "closing"]
    /\ UNCHANGED <<MyParts, ctl, evt, faults>>

Closed(c) ==
    /\ proc[c] = "closing"
    /\ proc' = [proc EXCEPT ![c] = "zombie"]
    /\ UNCHANGED <<MyParts, ctl, evt, wk, faults>>

-----------------------------------------------------------------------------
WorkerStep(c) ==
    \/ Ready(c) \/ Gate(c) \/ LatchStop(c) \/ Drain(c)
    \/ WaitForStop(c) \/ Finalize(c) \/ FinalBad(c) \/ Exit(c)

Next ==
    \/ TaskInfo \/ TaskInfoWithoutIndex \/ TaskInfoWithoutPlan
    \/ SwitchOn \/ SwitchOff
    \/ ServiceStartStep \/ StartDeadline \/ ServiceStopStep \/ StopDeadline
    \/ \E c \in Channels :
         \/ CheckTaskStep(c) \/ WorkerStep(c) \/ InputIdle(c) \/ InputActive(c)
         \/ BootFails(c) \/ GateTimeout(c) \/ WorkerFails(c) \/ EventLost(c)
         \/ Crash(c) \/ Hang(c)
         \/ Killed(c) \/ Closed(c)

\* When the main loop has something to do for a child, and for a pending
\* START or STOP: the states in which its steps change something.
TaskHasWork(c) ==
    /\ task[c].live
    /\ \/ proc[c] = "zombie"
       \/ task[c].event /\ (evt[c] # <<>> \/ proc[c] # "alive")

StartHasWork ==
    \/ start.phase = "PREP_READY" /\ Reported(ParentState, "ready")
    \/ start.phase = "ARM_WAIT" /\ Reported(ParentState, "armed")
    \/ start.phase = "RUN_WAIT" /\ Reported(ParentState, "running")
    \/ /\ start.phase \notin {"NONE", "FAILED"}
       /\ \E c \in sup.target : ~task[c].live \/ task[c].fatal
    \/ start.phase = "FAILED" /\ ~AnyLive(ParentState)

StopHasWork ==
    /\ stop.active
    /\ ~AnyLive(ParentState) \/ (~stop.forced /\ AnyHung)

\* The main loop goes round: it never leaves work undone for ever.  Each of its
\* steps clears the work it is for, so this is weak fairness of CheckTaskStep,
\* ServiceStartStep, ServiceStopStep and, when a worker hangs, StopDeadline,
\* said without ENABLED, which TLC evaluates too slowly here.  The kernel delivers
\* SIGKILL and lets a process die; a worker that does not hang goes on.
Fairness ==
    /\ []<>(~StartHasWork) /\ []<>(~StopHasWork)
    /\ \A c \in Channels :
         /\ []<>(~TaskHasWork(c))
         /\ WF_vars(WorkerStep(c)) /\ WF_vars(Killed(c)) /\ WF_vars(Closed(c))

Spec == Init /\ [][Next]_vars /\ Fairness

-----------------------------------------------------------------------------
TypeOK ==
    /\ sup.target \in {{}, Channels}
    /\ sup.stopSent \subseteq sup.stopRequested
    /\ \A c \in Channels : sup.phase[c] \in 0 .. FailedFatal
    /\ {sup.stopEpoch, sup.drainEpoch, cap.epoch} \subseteq Epochs
    /\ sup.terminal \in {"ACTIVE", "SUCCESS", "FAILED"}
    /\ cap.state \in Busy \cup {"IDLE", "DONE", "FAILED"}
    /\ start.phase \in {"NONE", "PREP_READY", "ARM_WAIT", "RUN_WAIT", "FAILED"}
    /\ \A c \in Channels :
         /\ task[c].state \in {"IDLE", "RUNNING", "ERROR"}
         /\ proc[c] \in {"none", "alive", "closing", "zombie"}
         /\ task[c].live <=> proc[c] # "none"
         /\ Len(ctl[c]) <= 4
         /\ wk[c].epoch \in Epochs /\ wk[c].result \in Results
    /\ faults \in 0 .. MaxFaults

-----------------------------------------------------------------------------
\* Files are listed only for a capture that is whole: every worker of the
\* plan has drained its input at one and the same epoch, had no failure and
\* reported as many bytes as the other half of its stream.
CommitOnlyWhole ==
    log.committed =>
       /\ \A c \in Channels : wk[c].result \in {"good", "short"}
       /\ \A c, d \in Channels : wk[c].epoch = wk[d].epoch /\ wk[c].epoch # NoEpoch
       /\ \A c, d \in SplitPair \cap Channels : wk[c].result = wk[d].result

\* The two-phase barrier: no worker records before the DMA of all of them has
\* been started, although each waits at its gates on its own.
RunBarrier ==
    (\E c \in Channels : wk[c].pc \in {"rec", "stopping", "wait", "final"})
       => \A c \in Channels : wk[c].armed

\* When every child is gone and no answer is owed the controller has ended the
\* capture: it would refuse every later 0x11 otherwise.
QuietIsReady ==
    ~AnyLive(ParentState) /\ ~start.active /\ ~stop.active => cap.state \notin Busy

\* STOP is answered with success only when the capture has been committed
\* (README.md: "A successful SWITCH_OFF ACK means metadata and filelist.db
\* updates have completed").
StopAckMeansCommitted == log.stopAck = "ok" => log.committed

\* A capture fails only when a worker failed, a deadline passed or a call of
\* the parent failed (README.md: "Failure means at least one storage worker
\* failed or stop waiting timed out"); STOP racing an automatic drain is no
\* failure.
FailureHasCause ==
    sup.failed => log.cause \/ \E c \in Channels : wk[c].failed

\* Every STOP is answered, also when workers hang or die.
StopAnswered == stop.active ~> ~stop.active

\* Every prepare and every START is answered while no worker hangs.
StartAnswered ==
    start.active ~> (~start.active \/ AnyHung)
=============================================================================
