---------------------------- MODULE NetworkDownload ----------------------------
(***************************************************************************)
(* The download of a stored file: 0x51 starts a worker process, which      *)
(* reads the file from the drive chunk by chunk into a ring of DDR slots   *)
(* and sends each chunk through the MM2S DMA engine; 0x71 stops it         *)
(* (src/src/system.c, src/src/ccb_tcp_transfer.c and the synchronous read  *)
(* of src/src/ccb_hw.c).  With one slot one thread does both in turn, with *)
(* more a reader and a sender thread share the ring.                       *)
(*                                                                         *)
(* Every wait in the worker has a time limit, so the drive and the engine  *)
(* are under no fairness.  DDR holds <<file, chunk>>, or Torn while a read *)
(* is writing to it.  A chunk is one read command and one descriptor.      *)
(***************************************************************************)
EXTENDS Integers, Sequences, FiniteSets

CONSTANTS
    Chunks,         \* chunks of each file
    SlotCounts,     \* values of SRC_REAL_NETWORK_PIPELINE_SLOTS
    MaxDownloads,   \* downloads the operator asks for
    MaxStops,       \* 0x71 frames
    Reuse,          \* may a channel be used again that a worker left busy?
    Faults          \* what may go wrong: a subset of AllFaults

\* "open" the record, the mapping or the probe fails; "nvme" a read fails or is
\* slow; "tcp" the route or the engine fails or is slow; "halt" the engine cannot
\* be halted or reset; "task" the worker's own time limit passes.
AllFaults == {"open", "nvme", "tcp", "halt", "task"}

ASSUME DownloadAssumption ==
    /\ Chunks \in Nat \ {0} /\ SlotCounts \subseteq Nat \ {0}
    /\ MaxDownloads \in Nat /\ MaxStops \in Nat /\ Reuse \in BOOLEAN
    /\ Faults \subseteq AllFaults

VARIABLES
    nslots,                     \* network_ring_slots of this system
    \* the parent: transfer_task and g_pending_network_stop
    downloads, tstate, pid, proc, text, pend, stops, answer,
    \* the worker: main thread, reader, sender, what they share
    wpc, stop, rpc, rchunk, rsleep, spc, schunk, ssleep, send_rc,
    slot, producer_done, error_rc,
    \* the hardware
    nvme,       \* the reads in flight, [slot, data, cid]
    cq,         \* its completions not yet popped
    ddr, mm2s, moving, cmplt, sent

parentVars == <<downloads, tstate, pid, proc, text, pend, stops, answer>>
readVars == <<rpc, rchunk, rsleep>>
sendVars == <<spc, schunk, ssleep, send_rc>>
pipeVars == <<slot, producer_done, error_rc>>
nvmeVars == <<nvme, cq, ddr>>
engineVars == <<mm2s, moving, cmplt, sent>>
vars == <<nslots, parentVars, wpc, stop, readVars, sendVars, pipeVars, nvmeVars, engineVars>>

Ring == 0 .. nslots - 1
Serial == nslots = 1
SlotOf(chunk) == chunk % nslots
Torn == <<0, 0>>
Nothing == -1       \* the engine moves no slot
FreshSlots == [s \in Ring |-> [state |-> "FREE", chunk |-> 0]]

Init ==
    /\ nslots \in SlotCounts
    /\ downloads = 0 /\ tstate = "IDLE" /\ pid = FALSE /\ proc = "none" /\ text = FALSE
    /\ pend = FALSE /\ stops = 0 /\ answer = "none"
    /\ wpc = "gone" /\ stop = FALSE
    /\ rpc = "done" /\ rchunk = 0 /\ rsleep = FALSE
    /\ spc = "done" /\ schunk = 0 /\ ssleep = FALSE /\ send_rc = 0
    /\ slot = FreshSlots /\ producer_done = FALSE /\ error_rc = 0
    /\ nvme = {} /\ cq = <<>> /\ ddr = [s \in Ring |-> Torn]
    /\ mm2s = "halted" /\ moving = Nothing /\ cmplt = FALSE /\ sent = <<>>

(***************************************************************************)
(* The drive and the DMA engine.                                           *)
(***************************************************************************)
NvmeCompletes ==
    /\ \E r \in nvme, ok \in IF "nvme" \in Faults THEN BOOLEAN ELSE {TRUE} :
         /\ nvme' = nvme \ {r}
         /\ ddr' = [ddr EXCEPT ![r.slot] = IF ok THEN r.data ELSE Torn]
         /\ cq' = Append(cq, [cid |-> r.cid, ok |-> ok])
    /\ UNCHANGED <<nslots, parentVars, wpc, stop, readVars, sendVars, pipeVars, engineVars>>

\* The chunk leaves with what the slot holds now; the descriptor completes.
Mm2sSends ==
    /\ mm2s \in {"running", "stuck"} /\ moving # Nothing
    /\ sent' = Append(sent, ddr[moving])
    /\ moving' = Nothing /\ cmplt' = TRUE
    /\ UNCHANGED <<nslots, parentVars, wpc, stop, readVars, sendVars, pipeVars, nvmeVars, mm2s>>

Mm2sFails ==
    /\ "tcp" \in Faults /\ mm2s = "running" /\ moving # Nothing
    /\ mm2s' = "error" /\ moving' = Nothing
    /\ UNCHANGED <<nslots, parentVars, wpc, stop, readVars, sendVars, pipeVars, nvmeVars,
                   cmplt, sent>>

Hardware == NvmeCompletes \/ Mm2sSends \/ Mm2sFails

(***************************************************************************)
(* The worker's main thread.                                               *)
(***************************************************************************)
Boot ==     \* up to the installation of the signal handlers
    /\ wpc = "boot"
    /\ wpc' = "open"
    /\ UNCHANGED <<nslots, parentVars, stop, readVars, sendVars, pipeVars, nvmeVars, engineVars>>

Exit(code) == proc' = code /\ wpc' = "gone"

\* Record checks, channel_runtime_open, the STOP check, nvme_probe; then the
\* threads are created.
Open ==
    /\ wpc = "open"
    /\ \/ ~stop /\ wpc' = "run" /\ rpc' = "head" /\ spc' = "wait" /\ UNCHANGED <<proc, error_rc>>
       \/ stop /\ Exit("exit0") /\ UNCHANGED <<rpc, spc, error_rc>>
       \/ "open" \in Faults /\ Exit("exit1") /\ UNCHANGED <<rpc, spc, error_rc>>
       \/ /\ "open" \in Faults /\ ~stop /\ ~Serial      \* no sender thread
          /\ wpc' = "run" /\ rpc' = "head" /\ error_rc' = -1
          /\ UNCHANGED <<proc, spc>>
    /\ UNCHANGED <<nslots, downloads, tstate, pid, text, pend, stops, answer, stop, rchunk, rsleep,
                   schunk, ssleep, send_rc, slot, producer_done, nvmeVars, engineVars>>

\* Both threads joined: the first error, or whether everything was sent.
Finish ==
    /\ wpc = "run" /\ rpc = "done" /\ spc = "done"
    /\ Exit(IF error_rc = -2 \/ (error_rc = 0 /\ schunk = Chunks) THEN "exit0" ELSE "exit1")
    /\ UNCHANGED <<nslots, downloads, tstate, pid, text, pend, stops, answer, stop, readVars,
                   sendVars, pipeVars, nvmeVars, engineVars>>

(***************************************************************************)
(* Reader: network_read_thread, or the first half of network_send_serial.  *)
(***************************************************************************)
\* A reader that leaves without the broadcast.
ReaderFailsQuietly(rc) ==
    /\ error_rc' = IF error_rc = 0 THEN rc ELSE error_rc
    /\ rpc' = "done" /\ rsleep' = FALSE /\ UNCHANGED ssleep
    /\ spc' = IF Serial THEN "done" ELSE spc

\* network_pipeline_set_error and return; in serial mode there is one thread.
ReaderFails(rc) ==
    /\ error_rc' = IF error_rc = 0 THEN rc ELSE error_rc
    /\ rpc' = "done" /\ rsleep' = FALSE /\ ssleep' = FALSE
    /\ spc' = IF Serial THEN "done" ELSE spc

ReadHead ==
    /\ wpc = "run" /\ rpc = "head"
    /\ \/ /\ rchunk = Chunks            \* the end: producer_done
          /\ producer_done' = TRUE /\ ssleep' = FALSE /\ rpc' = "done"
          /\ spc' = IF Serial THEN "done" ELSE spc
          /\ UNCHANGED <<rsleep, error_rc, text>>
       \/ /\ rchunk < Chunks /\ stop
          /\ ReaderFails(-2) /\ text' = (text \/ Serial)
          /\ UNCHANGED producer_done
       \/ /\ rchunk < Chunks /\ ~stop
          /\ rpc' = "acquire"
          /\ UNCHANGED <<rsleep, ssleep, spc, producer_done, error_rc, text>>
    /\ UNCHANGED <<nslots, downloads, tstate, pid, proc, pend, stops, answer, wpc, stop, rchunk,
                   schunk, send_rc, slot, nvmeVars, engineVars>>

\* A reader that takes its slot before the sender has given it back.
AcquireEarly ==
    /\ wpc = "run" /\ rpc = "acquire" /\ ~rsleep
    /\ slot' = [slot EXCEPT ![SlotOf(rchunk)] = [state |-> "READING", chunk |-> rchunk]]
    /\ rpc' = "issue"
    /\ UNCHANGED <<nslots, parentVars, wpc, stop, rchunk, rsleep, sendVars, producer_done,
                   error_rc, nvmeVars, engineVars>>

\* One lock section: take the chunk's slot, leave on an error, or wait on free_cond.
Acquire ==
    /\ wpc = "run" /\ rpc = "acquire" /\ ~rsleep
    /\ \/ /\ error_rc = 0 /\ slot[SlotOf(rchunk)].state = "FREE"
          /\ slot' = [slot EXCEPT ![SlotOf(rchunk)] = [state |-> "READING", chunk |-> rchunk]]
          /\ rpc' = "issue" /\ UNCHANGED rsleep
       \/ /\ error_rc = 0 /\ slot[SlotOf(rchunk)].state # "FREE"
          /\ rsleep' = TRUE /\ UNCHANGED <<slot, rpc>>
       \/ error_rc # 0 /\ rpc' = "done" /\ UNCHANGED <<slot, rsleep>>
    /\ UNCHANGED <<nslots, parentVars, wpc, stop, rchunk, sendVars, producer_done, error_rc,
                   nvmeVars, engineVars>>

\* nvme_rw and nvme_issue_one_sync up to the doorbell; CIDs count from 1.
Issue ==
    /\ wpc = "run" /\ rpc = "issue"
    /\ \/ stop /\ ReaderFails(-2) /\ UNCHANGED <<nvme, ddr>>
       \/ "nvme" \in Faults /\ ~stop /\ ReaderFails(-1) /\ UNCHANGED <<nvme, ddr>>    \* SQ full
       \/ /\ ~stop
          /\ nvme' = nvme \cup {[slot |-> SlotOf(rchunk), data |-> <<downloads, rchunk>>,
                                 cid |-> rchunk + 1]}
          /\ ddr' = [ddr EXCEPT ![SlotOf(rchunk)] = Torn]
          /\ rpc' = "bell"
          /\ UNCHANGED <<rsleep, ssleep, spc, error_rc>>
    /\ UNCHANGED <<nslots, parentVars, wpc, stop, rchunk, schunk, send_rc, slot, producer_done, cq,
                   engineVars>>

\* CMD_PENDING clears, or STOP or the time limit comes first: then the command is
\* drained and the read reported as failed.
Bell ==
    /\ wpc = "run" /\ rpc = "bell"
    /\ \/ rpc' = "reading"
       \/ stop /\ rpc' = "drain"
       \/ "nvme" \in Faults /\ rpc' = "drain"
    /\ UNCHANGED <<nslots, parentVars, wpc, stop, rchunk, rsleep, sendVars, pipeVars, nvmeVars,
                   engineVars>>

Drain ==
    /\ wpc = "run" /\ rpc = "drain"
    /\ \/ cq # <<>> /\ cq' = Tail(cq)
       \/ cq = <<>> /\ UNCHANGED cq     \* deadline
    /\ ReaderFails(-1)
    /\ UNCHANGED <<nslots, parentVars, wpc, stop, rchunk, schunk, send_rc, slot, producer_done,
                   nvme, ddr, engineVars>>

\* A reader that does not look at the completion's status.
ReadingAnyStatus ==
    /\ wpc = "run" /\ rpc = "reading" /\ cq # <<>> /\ cq' = Tail(cq)
    /\ slot' = [slot EXCEPT ![SlotOf(rchunk)].state = "READY"]
    /\ rchunk' = rchunk + 1 /\ rpc' = (IF Serial THEN "turn" ELSE "head") /\ ssleep' = FALSE
    /\ UNCHANGED <<nslots, parentVars, wpc, stop, rsleep, spc, schunk, send_rc, producer_done,
                   error_rc, nvme, ddr, engineVars>>

\* nvme_poll_cq looks at STOP before it looks at the queue.
Reading ==
    /\ wpc = "run" /\ rpc = "reading"
    /\ \/ stop /\ ReaderFails(-2) /\ UNCHANGED <<cq, slot, rchunk>>
       \/ /\ ~stop /\ cq # <<>> /\ cq' = Tail(cq)
          /\ IF Head(cq).ok /\ Head(cq).cid = rchunk + 1
             THEN /\ slot' = [slot EXCEPT ![SlotOf(rchunk)].state = "READY"]
                  /\ ssleep' = FALSE
                  /\ rchunk' = rchunk + 1 /\ rpc' = IF Serial THEN "turn" ELSE "head"
                  /\ UNCHANGED <<rsleep, spc, error_rc>>
             ELSE ReaderFails(-1) /\ UNCHANGED <<slot, rchunk>>
       \/ /\ "nvme" \in Faults /\ ~stop /\ cq = <<>>    \* cq_timeout
          /\ ReaderFails(-1) /\ UNCHANGED <<cq, slot, rchunk>>
    /\ UNCHANGED <<nslots, parentVars, wpc, stop, schunk, send_rc, producer_done, nvme, ddr,
                   engineVars>>

Reader == ReadHead \/ Acquire \/ Issue \/ Bell \/ Drain \/ Reading

(***************************************************************************)
(* Sender: network_send_thread, or the second half of the serial loop, and *)
(* tcp_transfer_send.                                                      *)
(***************************************************************************)
SenderFails(rc) ==
    /\ error_rc' = IF error_rc = 0 THEN rc ELSE error_rc
    /\ spc' = "done" /\ rsleep' = FALSE /\ ssleep' = FALSE
    /\ rpc' = IF Serial THEN "done" ELSE rpc

\* One lock section: the next chunk in order, an error, or wait on ready_cond.
SendWait ==
    /\ wpc = "run" /\ spc = "wait" /\ ~ssleep
    /\ LET here == slot[SlotOf(schunk)]
           ready == here.state = "READY" /\ here.chunk = schunk
           lost == producer_done /\ here.state = "FREE"
       IN \/ /\ error_rc = 0 /\ schunk < Chunks /\ ready
             /\ slot' = [slot EXCEPT ![SlotOf(schunk)].state = "SENDING"]
             /\ spc' = "start" /\ UNCHANGED <<ssleep, error_rc>>
          \/ /\ error_rc = 0 /\ schunk < Chunks /\ ~ready
             /\ error_rc' = IF lost THEN -1 ELSE 0
             /\ spc' = IF lost THEN "done" ELSE "wait"
             /\ ssleep' = ~lost /\ UNCHANGED slot
          \/ /\ error_rc # 0 \/ schunk = Chunks
             /\ spc' = "done" /\ UNCHANGED <<slot, ssleep, error_rc>>
    /\ UNCHANGED <<nslots, parentVars, wpc, stop, readVars, schunk, send_rc, producer_done,
                   nvmeVars, engineVars>>

\* Frame of the steps inside tcp_transfer_send.
InSend == UNCHANGED <<nslots, downloads, tstate, pid, proc, pend, stops, answer, wpc, stop,
                      readVars, schunk, ssleep, pipeVars, nvmeVars, sent>>

\* The STOP checks before the transfer, tcp_open_regions.  The pipeline's own
\* check leaves no text the parent looks for, tcp_transfer_send's does.
SendStart ==
    /\ wpc = "run" /\ spc = "start"
    /\ \/ /\ stop /\ send_rc' = -2 /\ spc' = "result"
          /\ text' \in IF Serial THEN {TRUE} ELSE {text, TRUE}
       \/ /\ ~stop /\ spc' = "route" /\ UNCHANGED <<send_rc, text>>
       \/ /\ "tcp" \in Faults /\ ~stop /\ send_rc' = -1 /\ spc' = "result" /\ UNCHANGED text
    /\ InSend /\ UNCHANGED <<mm2s, moving, cmplt>>

\* tcp_route_switch: its -2 is a failure to tcp_transfer_send.
Route ==
    /\ wpc = "run" /\ spc = "route"
    /\ \/ spc' = "prepare" /\ UNCHANGED send_rc
       \/ /\ stop \/ "tcp" \in Faults
          /\ send_rc' = -1 /\ spc' = "result"
    /\ InSend /\ UNCHANGED <<text, mm2s, moving, cmplt>>

\* tcp_halt_mm2s_mapped, or tcp_reset_dma_mapped after an error: the engine ends
\* halted with nothing to move, or cannot be stopped in time.
Quiet == mm2s' = "halted" /\ moving' = Nothing
CannotHalt ==
    /\ "halt" \in Faults /\ mm2s # "halted"
    /\ mm2s' = IF mm2s = "running" THEN "stuck" ELSE mm2s
    /\ UNCHANGED moving

\* tcp_prepare_mm2s_mapped on fresh descriptors, then RUN is set.
Prepare ==
    /\ wpc = "run" /\ spc = "prepare"
    /\ \/ mm2s' = "running" /\ moving' = Nothing /\ spc' = "rs" /\ UNCHANGED send_rc
       \/ CannotHalt /\ send_rc' = -1 /\ spc' = "result"
    /\ cmplt' = FALSE
    /\ InSend /\ UNCHANGED text

\* HALTED clears and the tail descriptor is written; here too -2 is a failure.
WriteTail ==
    /\ wpc = "run" /\ spc = "rs"
    /\ \/ moving' = SlotOf(schunk) /\ spc' = "xfer" /\ UNCHANGED send_rc
       \/ /\ stop \/ "tcp" \in Faults
          /\ send_rc' = -1 /\ spc' = "cleanup" /\ UNCHANGED moving
    /\ InSend /\ UNCHANGED <<text, mm2s, cmplt>>

\* The wait for the descriptor; STOP first, then completion, error and idle limit.
Xfer ==
    /\ wpc = "run" /\ spc = "xfer"
    /\ \/ stop /\ send_rc' = -2 /\ text' = TRUE
       \/ ~stop /\ cmplt /\ send_rc' = 0 /\ UNCHANGED text
       \/ "tcp" \in Faults /\ ~stop /\ ~cmplt /\ send_rc' = -1 /\ UNCHANGED text
    /\ spc' = "cleanup"
    /\ InSend /\ UNCHANGED <<mm2s, moving, cmplt>>

\* Clean-up only after a success.
CleanupOnSuccess ==
    /\ wpc = "run" /\ spc = "cleanup"
    /\ IF send_rc = 0 THEN Quiet ELSE UNCHANGED <<mm2s, moving>>
    /\ spc' = "result" /\ UNCHANGED send_rc
    /\ InSend /\ UNCHANGED <<text, cmplt>>

\* A failed clean-up turns success into failure and leaves the other results.
Cleanup ==
    /\ wpc = "run" /\ spc = "cleanup"
    /\ \/ Quiet /\ UNCHANGED send_rc
       \/ CannotHalt /\ send_rc' = IF send_rc = 0 THEN -1 ELSE send_rc
    /\ spc' = "result"
    /\ InSend /\ UNCHANGED <<text, cmplt>>

\* The throttle, then the slot is FREE and the reader woken; or the pipeline fails.
Sent ==
    /\ wpc = "run" /\ spc = "result"
    /\ \/ /\ send_rc = 0
          /\ slot' = [slot EXCEPT ![SlotOf(schunk)].state = "FREE"]
          /\ schunk' = schunk + 1 /\ spc' = "wait" /\ rsleep' = FALSE
          /\ rpc' = IF Serial THEN "head" ELSE rpc
          /\ UNCHANGED <<ssleep, error_rc, text>>
       \/ /\ send_rc # 0
          /\ SenderFails(send_rc) /\ text' = (text \/ (send_rc = -2))
          /\ UNCHANGED <<slot, schunk>>
    /\ send_rc' = 0
    /\ UNCHANGED <<nslots, downloads, tstate, pid, proc, pend, stops, answer, wpc, stop, rchunk,
                   producer_done, nvmeVars, engineVars>>

Sender == SendWait \/ SendStart \/ Route \/ Prepare \/ WriteTail \/ Xfer \/ Cleanup \/ Sent

(***************************************************************************)
(* The parent.                                                             *)
(***************************************************************************)
workerVars == <<stop, readVars, sendVars, pipeVars>>
ChannelClean == nvme = {} /\ cq = <<>> /\ mm2s \notin {"running", "stuck"}

\* 0x51: start_network_from_command and start_network_worker; refused while RUNNING.
Start ==
    /\ tstate # "RUNNING" /\ downloads < MaxDownloads /\ (Reuse \/ ChannelClean)
    /\ downloads' = downloads + 1
    /\ tstate' = "RUNNING" /\ pid' = TRUE /\ proc' = "alive" /\ text' = FALSE
    /\ wpc' = "boot" /\ stop' = FALSE
    /\ rpc' = "done" /\ rchunk' = 0 /\ rsleep' = FALSE
    /\ spc' = "done" /\ schunk' = 0 /\ ssleep' = FALSE /\ send_rc' = 0
    /\ slot' = FreshSlots /\ producer_done' = FALSE /\ error_rc' = 0
    /\ sent' = <<>> /\ answer' = "none"
    /\ UNCHANGED <<nslots, pend, stops, nvmeVars, mm2s, moving, cmplt>>

\* 0x71: RETRYING, SIGTERM and a pending stop, or SUCCESS at once.  A worker that
\* has no handlers yet dies of the signal.
Stop ==
    /\ stops < MaxStops /\ stops' = stops + 1
    /\ \/ pend /\ answer' = "RETRYING" /\ UNCHANGED <<pend, proc, wpc, stop>>
       \/ /\ ~pend /\ tstate = "RUNNING"
          /\ pend' = TRUE /\ answer' = "none"
          /\ IF wpc = "boot"
             THEN proc' = "killed" /\ wpc' = "gone" /\ UNCHANGED stop
             ELSE stop' = (stop \/ wpc # "gone") /\ UNCHANGED <<proc, wpc>>
       \/ ~pend /\ tstate # "RUNNING" /\ answer' = "SUCCESS" /\ UNCHANGED <<pend, proc, wpc, stop>>
    /\ UNCHANGED <<nslots, downloads, tstate, pid, text, readVars, sendVars, pipeVars, nvmeVars,
                   engineVars>>

\* check_task: what it makes of the state and the pid; expired: timeout_seconds
\* have passed, and the killed process is seen dead only by a later poll.
CheckedState(expired) ==
    CASE ~pid -> tstate
      [] pid /\ proc = "alive" -> IF expired THEN "ERROR" ELSE tstate
      [] OTHER -> IF proc = "exit0" THEN "IDLE" ELSE "ERROR"

\* service_pending_network_stop on the state check_task leaves.
ServedAnswer(checked) ==
    CASE checked = "RUNNING" -> "FAILED"
      [] checked = "ERROR" -> IF text THEN "SUCCESS" ELSE "FAILED"
      [] OTHER -> "SUCCESS"

\* One turn of the main loop; late: the deadline of a pending stop has passed.
Loop(expired, late) ==
    LET checked == CheckedState(expired)
        served == pend /\ (checked # "RUNNING" \/ late)
        kills == proc = "alive" /\ ((pid /\ expired) \/ (served /\ checked = "RUNNING"))
    IN /\ tstate' = IF served /\ checked = "ERROR" /\ text THEN "IDLE" ELSE checked
       /\ pid' = (pid /\ proc = "alive")
       /\ pend' = (pend /\ ~served)
       /\ answer' = IF served THEN ServedAnswer(checked) ELSE answer
       /\ proc' = IF kills THEN "killed" ELSE proc
       /\ wpc' = IF kills THEN "gone" ELSE wpc
       /\ UNCHANGED <<nslots, downloads, text, stops, workerVars, nvmeVars, engineVars>>

Tick == Loop(FALSE, FALSE)
Overdue == "task" \in Faults /\ \E expired, late \in BOOLEAN : Loop(expired, late)

Worker == Boot \/ Open \/ Finish
Parent == Start \/ Stop \/ Tick \/ Overdue

Next == Hardware \/ Worker \/ Reader \/ Sender \/ Parent

\* The worker's threads and the main loop run; no hardware, no operator and no
\* time limit of the parent need ever act.
Fairness == WF_vars(Worker) /\ WF_vars(Reader) /\ WF_vars(Sender) /\ WF_vars(Tick)

Spec == Init /\ [][Next]_vars /\ Fairness

(***************************************************************************)
(* Properties.                                                             *)
(***************************************************************************)
\* What leaves the engine is the file asked for, chunk by chunk in its order and
\* whole, whatever the two threads, the drive and the engine do; and a worker that
\* was not stopped and exits with 0 has sent all of it (network_send_done).
SendsTheFile ==
    /\ \A i \in 1 .. Len(sent) : sent[i] = <<downloads, i - 1>>
    /\ proc = "exit0" /\ ~stop => Len(sent) = Chunks

\* The drive never writes to the slot the MM2S engine reads: network_read_thread
\* takes a slot only when network_send_thread has given it back, and gives it back
\* only after the engine is halted.
NoReuseUnderDma == \A r \in nvme : r.slot # moving

\* When 0x71 has been answered SUCCESS no chunk is on its way, unless the parent had
\* to kill the worker or the engine could not be halted.
StopAckEndsSending ==
    answer = "SUCCESS" /\ proc # "killed" /\ mm2s # "stuck" => moving = Nothing

\* Every download ends and every 0x71 is answered, even when the drive and the
\* engine never respond and the parent has no time limit: no wake-up of the two
\* threads is lost and STOP reaches every wait.
DownloadEnds ==
    /\ tstate = "RUNNING" ~> tstate # "RUNNING"
    /\ pend ~> ~pend

=============================================================================
