------------------------------ MODULE NvmeWriter ------------------------------
(***************************************************************************)
(* The NVMe writer thread of a storage worker down to the Host Core's      *)
(* doorbell and completion queue: the cross-slot engine, the tight and the *)
(* legacy slot writer of src/src/ccb_hw.c, and the part of the writer      *)
(* threads, of the abort request and of the clean-up of                    *)
(* src/src/ccb_commands.c that decides who may still own DDR memory.       *)
(*                                                                         *)
(* A slot is written by CmdsPerSlot commands.  What the code tells by a    *)
(* CID the model also knows as the command itself, so that a completion    *)
(* booked on the wrong command shows.  Polling is waiting: an iteration of *)
(* the loop that finds nothing to do is no step, and the clock that ends   *)
(* it is one.  Not here because a storage worker cannot reach them:        *)
(* nvme_stop_requested (set by the download worker's signal handler only), *)
(* NOT_ACCEPTED (a command of 0 or more than 65535 sectors), a full        *)
(* pending table (QD <= 64).                                               *)
(***************************************************************************)
EXTENDS Integers, Sequences, FiniteSets, FiniteSetsExt, SequencesExt

CONSTANTS
    NSlots,     \* slots the producer pushes, each once
    CmdsPerSlot,
    QD,         \* target_qd, nvme_qd_effective
    MaxActive,  \* max_active_slots of the cross-slot engine
    SqDepth,    \* entries of the Host Core's submission FIFO
    CidCount,   \* next_cmd_id wraps here (2^16 in the code)
    Modes,      \* submission paths: a subset of AllModes
    Leftover,   \* CIDs of completions an earlier process may have left in the CQ
    Faults      \* what may go wrong: a subset of AllFaults

AllModes == {"cross_slot", "tight", "legacy"}

\* "error" a command completes with an error; "slow" the drive is slower than
\* the no-progress or the drain deadline; "bell" the doorbell is not answered in
\* time; "callback" storage_complete_slot fails; "abort" the producer gives up.
AllFaults == {"error", "slow", "bell", "callback", "abort"}

ASSUME WriterAssumption ==
    /\ {NSlots, CmdsPerSlot, QD, MaxActive, SqDepth} \subseteq Nat \ {0}
    /\ CidCount \in Nat /\ CidCount > QD + 1    \* one free CID besides 0
    /\ Modes \subseteq AllModes /\ Leftover \subseteq 1 .. CidCount - 1
    /\ Faults \subseteq AllFaults

Slots == 1 .. NSlots
NoCmd == [cid |-> 0, slot |-> 0, idx |-> 0]     \* behind a completion of nobody's

\* At most MaxActive of the 64 contexts are live, so the lowest free index is
\* below MaxActive and the round robin over 64 visits them in the same order.
\* The serial writers use one.
Index == 0 .. MaxActive - 1
Idle == [slot |-> 0, next |-> 0, completed |-> 0, failed |-> 0, inflight |-> 0]

VARIABLES
    mode,           \* the worker's submission path
    \* the Host Core
    bell,           \* the command posted with CMD_PENDING set: {} or {command}
    dev,            \* commands accepted and not completed
    cq,             \* completion FIFO
    written,        \* <<slot, idx>> of commands completed without error
    \* the writer thread
    pc,
    next_cmd_id, pending, inflight, seen,   \* seen: completed_cid_seen
    ctx, rr,        \* contexts, in commands; next is also submitted_cmds
    state,          \* NvmeCrossSlotState
    why,            \* what the writer fails for (the code's texts keep the first reason)
    unresolved,     \* nvme_ownership_unresolved
    quiesced,       \* nvme_engine_quiesced
    taken, retired, \* slots popped from the queue, in order; slots called back
    \* the producer thread
    ready,          \* slots it has pushed
    engine,         \* q->nvme_engine: "none", "published", "freed"
    aborted,        \* storage_queue_fail_locked has run
    apc,            \* storage_queue_request_abort: "idle", or the state it loaded
    joined, closed

devVars == <<bell, dev, cq, written>>
bookVars == <<next_cmd_id, pending, inflight, seen, ctx, rr>>
endVars == <<unresolved, quiesced, retired>>
prodVars == <<ready, apc, joined, closed>>
vars == <<mode, devVars, pc, bookVars, state, why, endVars, taken, engine,
          aborted, prodVars>>

Cross == mode = "cross_slot"

Init ==
    /\ mode \in Modes
    /\ bell = {} /\ dev = {} /\ written = {}
    /\ cq \in {<<>>} \cup {<<[cid |-> c, error |-> FALSE, cmd |-> NoCmd]>> : c \in Leftover}
    /\ pc = "create"
    /\ next_cmd_id = 1 /\ pending = {} /\ inflight = 0 /\ seen = {}
    /\ ctx = [i \in Index |-> Idle] /\ rr = 0
    /\ state = "RUNNING" /\ why = "" /\ unresolved = FALSE
    /\ quiesced = TRUE      \* storage_queue_init
    /\ taken = 0 /\ retired = {}
    /\ ready = 0 /\ engine = "none" /\ aborted = FALSE /\ apc = "idle"
    /\ joined = FALSE /\ closed = FALSE

(***************************************************************************)
(* The Host Core, known from how the code uses it.                         *)
(***************************************************************************)
HostAccept == /\ bell # {}
              /\ dev' = dev \cup bell /\ bell' = {}
              /\ UNCHANGED <<cq, written>>

HostComplete == \E c \in dev, error \in IF "error" \in Faults THEN BOOLEAN ELSE {FALSE} :
    /\ dev' = dev \ {c}
    /\ cq' = Append(cq, [cid |-> c.cid, error |-> error, cmd |-> c])
    /\ written' = IF error THEN written ELSE written \cup {<<c.slot, c.idx>>}
    /\ UNCHANGED bell

Device == /\ HostAccept \/ HostComplete
          /\ UNCHANGED <<mode, pc, bookVars, state, why, endVars, taken, engine,
                         aborted, prodVars>>

SqFull == Cardinality(dev) >= SqDepth

(***************************************************************************)
(* Bookkeeping.                                                            *)
(***************************************************************************)
Active == {i \in Index : ctx[i].slot # 0}
IndexOf(slot) == CHOOSE i \in Active : ctx[i].slot = slot

\* The CIDs nvme_alloc_cid tries: up to CidCount - 1 of them from next_cmd_id on.
CidAfter(n) == (next_cmd_id + n) % CidCount

\* An allocator that trusts the counter to have moved past what is pending.
AllocTrusting == Min({n \in 0 .. CidCount - 1 : CidAfter(n) # 0})

\* nvme_alloc_cid: how many CIDs are skipped, 0 and those still pending.
CidSkips == Min({n \in 0 .. CidCount - 1 :
                   CidAfter(n) # 0 /\ \A p \in pending : p.cid # CidAfter(n)})

\* nvme_find_next_submit_context: round robin over the contexts with work left
HasWork(i) == ctx[i].slot # 0 /\ ctx[i].next < CmdsPerSlot
RoundRobin(n) == (rr + n) % MaxActive
NextContext == RoundRobin(Min({n \in Index : HasWork(RoundRobin(n))}))
CanSubmit == inflight < QD /\ (\E i \in Index : HasWork(i)) /\ ~SqFull

\* "Only fully drained contexts may invoke the slot callback."
Drained == {i \in Active : /\ ctx[i].next = CmdsPerSlot
                           /\ ctx[i].completed = ctx[i].next
                           /\ ctx[i].inflight = 0 /\ ctx[i].failed = 0}

\* cross_slot_validate
PendingOf(i) == {p \in pending : p.slot = ctx[i].slot}
cross_slot_validate ==
    /\ \A i \in Active : /\ ctx[i].next <= CmdsPerSlot
                         /\ ctx[i].next = ctx[i].completed + ctx[i].failed + ctx[i].inflight
                         /\ ctx[i].inflight = Cardinality(PendingOf(i))
    /\ \A p \in pending : /\ p.cid \notin seen
                          /\ \E i \in Active : ctx[i].slot = p.slot
                          /\ \A q \in pending : q.cid = p.cid => q = p
    /\ inflight = Cardinality(pending)

\* cross_slot_fail: a running engine is asked to abort.
Fail(reason) == /\ why' = reason
                /\ state' = IF Cross /\ state = "RUNNING" THEN "ABORT_REQUESTED" ELSE state

\* cross_slot_handle_completion, nvme_handle_write_completion and the pop of the
\* tight path book a completion on whatever pending command has its CID.
Known(c) == \E p \in pending : p.cid = c.cid
Book(c) == \E p \in pending :
    /\ p.cid = c.cid
    /\ pending' = pending \ {p} /\ inflight' = inflight - 1
    /\ seen' = IF Cross THEN seen \cup {c.cid} ELSE seen
    /\ LET i == IndexOf(p.slot)
       IN ctx' = [ctx EXCEPT ![i].inflight = @ - 1,
                             ![i].completed = IF c.error THEN @ ELSE @ + 1,
                             ![i].failed = IF c.error THEN @ + 1 ELSE @]
    /\ UNCHANGED <<next_cmd_id, rr>>
PopCq == cq' = Tail(cq) /\ UNCHANGED <<bell, dev, written>>

(***************************************************************************)
(* The writer thread's loop.                                               *)
(***************************************************************************)
Unlocked == apc # "loaded"      \* q->lock; the abort request holds it throughout
Failing == IF Cross THEN "abort" ELSE "fail"
CanAccept == IF Cross THEN state = "RUNNING" /\ Active # Index ELSE Active = {}

\* storage_queue_set_engine: an abort that came first is passed on.
Create ==
    /\ pc = "create" /\ Unlocked
    /\ pc' = "loop"
    /\ engine' = IF Cross THEN "published" ELSE engine
    /\ IF Cross /\ aborted THEN Fail("aborted") ELSE UNCHANGED <<why, state>>
    /\ UNCHANGED <<mode, devVars, bookVars, endVars, taken, aborted, prodVars>>

\* storage_queue_abort_requested: the serial writer just leaves.
SeeAbort ==
    /\ pc = "loop" /\ Unlocked /\ aborted
    /\ pc' = IF Cross THEN "abort" ELSE "end"
    /\ Fail("aborted")
    /\ UNCHANGED <<mode, devVars, bookVars, endVars, taken, engine, aborted, prodVars>>

\* storage_queue_pop, then nvme_cross_slot_engine_add or flush_slot_to_nvme.
TakeSlot ==
    /\ pc = "loop" /\ Unlocked /\ ~aborted /\ CanAccept /\ taken < ready
    /\ taken' = taken + 1
    /\ ctx' = [ctx EXCEPT ![Min(Index \ Active)] = [Idle EXCEPT !.slot = taken + 1]]
    /\ pc' = IF Cross THEN "head" ELSE "refill"
    /\ UNCHANGED <<mode, devVars, next_cmd_id, pending, inflight, seen, rr, state, why,
                   endVars, engine, aborted, prodVars>>

\* Nothing to take, or no room for it: on with the active slots; or everything
\* is written and the producer is done.  With neither the writer sleeps.
GoOn ==
    /\ pc = "loop" /\ Unlocked /\ ~aborted /\ ~(CanAccept /\ taken < ready)
    /\ \/ Active # {} /\ pc' = "head"
       \/ Active = {} /\ taken = NSlots /\ pc' = "end"
    /\ UNCHANGED <<mode, devVars, bookVars, state, why, endVars, taken, engine, aborted, prodVars>>

(***************************************************************************)
(* An iteration of nvme_cross_slot_engine_step: completions, callbacks,    *)
(* refill.  The serial writers go the same round for one slot, from        *)
(* "refill".                                                               *)
(***************************************************************************)
NoProgress == /\ cq = <<>> \/ inflight = 0
              /\ Drained = {} /\ ~CanSubmit
SeesStop == Cross /\ state # "RUNNING"

StepHead ==
    /\ pc = "head"
    /\ \/ SeesStop /\ pc' = "abort"
       \/ ~SeesStop /\ ~NoProgress /\ pc' = "poll"
       \* the budget is used up and there is another slot to take
       \/ ~SeesStop /\ NoProgress /\ Cross /\ CanAccept /\ taken < ready /\ pc' = "loop"
    /\ UNCHANGED <<mode, devVars, bookVars, state, why, endVars, taken, engine, aborted, prodVars>>

\* A full SQ is found out after the CID was drawn, so an iteration that submits
\* nothing uses one up all the same.  The tight writer looks first.
Burns == mode # "tight" /\ inflight < QD /\ SqFull /\ \E i \in Index : HasWork(i)
BurnCid ==
    /\ next_cmd_id' = (next_cmd_id + CidSkips + 1) % CidCount
    /\ rr' = (NextContext + 1) % MaxActive
    /\ UNCHANGED <<pending, inflight, seen, ctx>>

IdleRound ==
    /\ pc = "head" /\ ~SeesStop /\ NoProgress /\ Burns /\ BurnCid
    /\ UNCHANGED <<mode, devVars, pc, state, why, endVars, taken, engine, aborted, prodVars>>

\* no_progress_timeout, cq_timeout
GiveUp ==
    /\ pc = "head" /\ ~SeesStop /\ NoProgress /\ inflight > 0 /\ "slow" \in Faults
    /\ Fail("no_progress") /\ pc' = Failing
    /\ UNCHANGED <<mode, devVars, bookVars, endVars, taken, engine, aborted, prodVars>>

\* One completion; the legacy writer takes one, the others up to a batch.
Poll ==
    /\ pc = "poll" /\ cq # <<>> /\ inflight > 0
    /\ PopCq
    /\ \/ /\ Known(Head(cq)) /\ Book(Head(cq)) /\ ~Head(cq).error
          /\ pc' \in IF mode = "legacy" THEN {"retire"} ELSE {"poll", "retire"}
          /\ UNCHANGED <<why, state>>
       \/ /\ Known(Head(cq)) /\ Book(Head(cq)) /\ Head(cq).error
          /\ pc' = Failing /\ Fail("completion_error")
       \/ /\ ~Known(Head(cq)) /\ UNCHANGED bookVars
          /\ pc' = Failing /\ Fail("unknown_cid")
    /\ UNCHANGED <<mode, endVars, taken, engine, aborted, prodVars>>

PollEmpty ==
    /\ pc = "poll" /\ (cq = <<>> \/ inflight = 0)
    /\ pc' = "retire"
    /\ UNCHANGED <<mode, devVars, bookVars, state, why, endVars, taken, engine, aborted, prodVars>>

\* The slot callback (storage_complete_slot) for every drained context, in index
\* order; it may fail for one of them, which stays active in the engine.
Retire ==
    /\ pc = "retire"
    /\ \/ /\ retired' = retired \cup {ctx[i].slot : i \in Drained}
          /\ ctx' = [i \in Index |-> IF i \in Drained THEN Idle ELSE ctx[i]]
          /\ pc' = IF Cross \/ Drained = {} THEN "refill" ELSE "loop"
          /\ UNCHANGED <<why, state>>
       \/ /\ "callback" \in Faults
          /\ \E bad \in Drained :
               /\ retired' = retired \cup {ctx[i].slot : i \in {j \in Drained : j <= bad}}
               /\ ctx' = [i \in Index |-> IF i \in Drained /\ (i < bad \/ ~Cross)
                                          THEN Idle ELSE ctx[i]]
          /\ pc' = Failing /\ Fail("callback")
    /\ UNCHANGED <<mode, devVars, next_cmd_id, pending, inflight, seen, rr, unresolved,
                   quiesced, taken, engine, aborted, prodVars>>

\* The registers are written, then the doorbell.
Submit ==
    /\ pc = "refill" /\ ~SeesStop /\ CanSubmit
    /\ LET cmd == [cid |-> CidAfter(CidSkips), slot |-> ctx[NextContext].slot,
                   idx |-> ctx[NextContext].next + 1]
       IN pending' = pending \cup {cmd} /\ bell' = {cmd}
    /\ next_cmd_id' = (next_cmd_id + CidSkips + 1) % CidCount
    /\ rr' = (NextContext + 1) % MaxActive
    /\ pc' = "bell"
    /\ UNCHANGED <<mode, dev, cq, written, inflight, seen, ctx, state, why, endVars, taken,
                   engine, aborted, prodVars>>

\* Queue depth reached, nothing left to submit, or SQ full.
RefillEnds ==
    /\ pc = "refill"
    /\ \/ SeesStop /\ pc' = "abort" /\ UNCHANGED bookVars
       \/ /\ ~SeesStop /\ ~CanSubmit
          /\ pc' \in IF ~Cross THEN {"head"} ELSE IF Active = {} THEN {"loop"} ELSE {"head", "loop"}
          /\ IF Burns THEN BurnCid ELSE UNCHANGED bookVars
    /\ UNCHANGED <<mode, devVars, state, why, endVars, taken, engine, aborted, prodVars>>

\* A posted doorbell may have reached the Host Core: the command is accounted
\* for whether CMD_PENDING was seen to clear or not.
Posted == CHOOSE p \in pending : p.idx = ctx[IndexOf(p.slot)].next + 1
Account ==
    /\ inflight' = inflight + 1
    /\ seen' = seen \ {Posted.cid}
    /\ LET i == IndexOf(Posted.slot)
       IN ctx' = [ctx EXCEPT ![i].next = @ + 1, ![i].inflight = @ + 1]
    /\ UNCHANGED <<next_cmd_id, rr>>

Accepted ==
    /\ pc = "bell" /\ bell = {}
    /\ Account /\ UNCHANGED pending
    /\ pc' = "refill"
    /\ UNCHANGED <<mode, devVars, state, why, endVars, taken, engine, aborted, prodVars>>

\* NVME_SUBMIT_ACCEPTANCE_UNKNOWN
AcceptanceUnknown ==
    /\ pc = "bell" /\ bell # {} /\ "bell" \in Faults
    /\ Account /\ UNCHANGED pending
    /\ Fail("submit_accept_timeout")
    /\ pc' = IF Cross THEN "abort" ELSE "drain"
    /\ UNCHANGED <<mode, devVars, endVars, taken, engine, aborted, prodVars>>

(***************************************************************************)
(* Failure: nvme_cross_slot_engine_drain_abort, the ambiguous drains of    *)
(* the serial writers, storage_fail_fatal.                                 *)
(***************************************************************************)
BeginDrain ==
    /\ pc = "abort"
    /\ state' = "DRAINING" /\ pc' = "drain"
    /\ UNCHANGED <<mode, devVars, bookVars, why, endVars, taken, engine, aborted, prodVars>>

\* A completion nobody waits for is dropped; the rest are booked.
DrainCross ==
    /\ pc = "drain" /\ Cross /\ inflight > 0 /\ cq # <<>>
    /\ PopCq
    /\ IF Known(Head(cq)) THEN Book(Head(cq)) ELSE UNCHANGED bookVars
    /\ UNCHANGED <<mode, pc, state, why, endVars, taken, engine, aborted, prodVars>>

\* cross_slot_discard_contexts
DiscardContexts ==
    /\ pending' = {} /\ inflight' = 0
    /\ ctx' = [i \in Index |-> Idle]
    /\ UNCHANGED <<next_cmd_id, seen, rr>>

\* A drain that discards the contexts when the deadline has passed.
DiscardAnyway ==
    /\ pc = "drain" /\ Cross /\ (inflight = 0 \/ "slow" \in Faults)
    /\ DiscardContexts /\ state' = "QUIESCED"
    /\ pc' = "settle"
    /\ UNCHANGED <<mode, devVars, why, endVars, taken, engine, aborted, prodVars>>

\* A drain that waits for the drive for as long as it takes.
DrainForever ==
    /\ pc = "drain" /\ Cross /\ inflight = 0
    /\ DiscardContexts /\ state' = "QUIESCED"
    /\ pc' = "settle"
    /\ UNCHANGED <<mode, devVars, why, endVars, taken, engine, aborted, prodVars>>

\* Empty, or the deadline passes and there is no reset to fall back on.
DrainEnds ==
    /\ pc = "drain" /\ Cross
    /\ \/ inflight = 0 /\ DiscardContexts /\ state' = "QUIESCED"
       \/ inflight > 0 /\ "slow" \in Faults /\ state' = "FAILED" /\ UNCHANGED bookVars
    /\ pc' = "settle"
    /\ UNCHANGED <<mode, devVars, why, endVars, taken, engine, aborted, prodVars>>

\* nvme_engine_quiesced := nvme_cross_slot_engine_is_quiesced; storage_fail_fatal
Settle ==
    /\ pc = "settle" /\ Unlocked
    /\ quiesced' = (inflight = 0 /\ pending = {} /\ Active = {})
    /\ aborted' = TRUE /\ pc' = "destroy"
    /\ UNCHANGED <<mode, devVars, bookVars, state, why, unresolved, retired, taken, engine,
                   prodVars>>

\* The serial drains end at the first bad completion; only the legacy one calls
\* an error status unresolved ownership.
DrainSerial ==
    /\ pc = "drain" /\ ~Cross /\ inflight > 0 /\ cq # <<>>
    /\ PopCq
    /\ \/ /\ Known(Head(cq)) /\ Book(Head(cq)) /\ ~Head(cq).error
          /\ UNCHANGED <<pc, why, unresolved>>
       \/ /\ Known(Head(cq)) /\ Book(Head(cq)) /\ Head(cq).error
          /\ pc' = "fail" /\ why' = "completion_error"
          /\ unresolved' = (unresolved \/ mode = "legacy")
       \/ /\ ~Known(Head(cq)) /\ UNCHANGED bookVars
          /\ pc' = "fail" /\ unresolved' = TRUE /\ UNCHANGED why
    /\ UNCHANGED <<mode, state, quiesced, retired, taken, engine, aborted, prodVars>>

\* After ambiguity nothing more is submitted: the legacy writer still succeeds
\* when the slot happens to be complete.
DrainSerialEnds ==
    /\ pc = "drain" /\ ~Cross
    /\ \/ /\ inflight = 0
          /\ pc' = IF mode = "legacy" /\ Drained # {} THEN "retire" ELSE "fail"
          /\ UNCHANGED unresolved
       \/ /\ inflight > 0 /\ cq = <<>> /\ "slow" \in Faults
          /\ pc' = "fail" /\ unresolved' = TRUE
    /\ UNCHANGED <<mode, devVars, bookVars, state, why, quiesced, retired, taken, engine,
                   aborted, prodVars>>

\* storage_fail_fatal
FailFatal ==
    /\ pc = "fail" /\ Unlocked
    /\ quiesced' = (quiesced /\ ~unresolved)
    /\ aborted' = TRUE /\ pc' = "done"
    /\ UNCHANGED <<mode, devVars, bookVars, state, why, unresolved, retired, taken, engine,
                   prodVars>>

\* The writer has drained everything, or leaves on an abort (serial).
End ==
    /\ pc = "end"
    /\ quiesced' = IF Cross THEN inflight = 0 /\ pending = {} /\ Active = {} ELSE quiesced
    /\ pc' = IF Cross THEN "destroy" ELSE "done"
    /\ UNCHANGED <<mode, devVars, bookVars, state, why, unresolved, retired, taken, engine,
                   aborted, prodVars>>

\* A destroy that does not wait for the lock.
DestroyUnlocked ==
    /\ pc = "destroy"
    /\ engine' = IF quiesced THEN "freed" ELSE engine
    /\ pc' = "done"
    /\ UNCHANGED <<mode, devVars, bookVars, state, why, endVars, taken, aborted, prodVars>>

\* storage_queue_destroy_engine: the pointer goes first, under the lock.
Destroy ==
    /\ pc = "destroy" /\ Unlocked
    /\ engine' = IF quiesced THEN "freed" ELSE engine
    /\ pc' = "done"
    /\ UNCHANGED <<mode, devVars, bookVars, state, why, endVars, taken, aborted, prodVars>>

Writer == \/ Create \/ SeeAbort \/ TakeSlot \/ GoOn
          \/ StepHead \/ Poll \/ PollEmpty \/ Retire
          \/ Submit \/ RefillEnds \/ Accepted \/ AcceptanceUnknown
          \/ BeginDrain \/ DrainCross \/ DrainEnds \/ Settle
          \/ DrainSerial \/ DrainSerialEnds \/ FailFatal
          \/ End \/ Destroy

(***************************************************************************)
(* The producer thread: pushes slots, may abort, joins the writer and      *)
(* cleans up.                                                              *)
(***************************************************************************)
Push ==
    /\ ready < NSlots /\ ~aborted
    /\ ready' = ready + 1
    /\ UNCHANGED <<mode, devVars, pc, bookVars, state, why, endVars, taken, engine, aborted,
                   apc, joined, closed>>

\* storage_queue_request_abort: the state is loaded and, if it was RUNNING,
\* overwritten; the writer may have moved it on in between.
AbortLoad ==
    /\ "abort" \in Faults /\ apc = "idle" /\ ~joined
    /\ aborted' = TRUE
    /\ apc' = IF engine = "published" /\ state = "RUNNING" THEN "loaded" ELSE "done"
    /\ UNCHANGED <<mode, devVars, pc, bookVars, state, why, endVars, taken, engine, ready,
                   joined, closed>>

AbortStore ==
    /\ apc = "loaded"
    /\ state' = "ABORT_REQUESTED" /\ apc' = "done"
    /\ UNCHANGED <<mode, devVars, pc, bookVars, why, endVars, taken, engine, aborted, ready,
                   joined, closed>>

\* pthread_join, storage_queue_destroy and channel_runtime_close, which refuses
\* while ownership is unresolved.
Close ==
    /\ pc = "done" /\ Unlocked /\ ~joined
    /\ joined' = TRUE /\ closed' = (quiesced /\ ~unresolved)
    /\ UNCHANGED <<mode, devVars, pc, bookVars, state, why, endVars, taken, engine, aborted,
                   ready, apc>>

Ended == joined /\ UNCHANGED vars

Next == Device \/ Writer \/ IdleRound \/ GiveUp \/ Push \/ AbortLoad \/ AbortStore \/ Close \/ Ended

\* Threads run; a deadline passes although the loop keeps turning.  The drive
\* promises nothing.
Fairness ==
    /\ WF_vars(Writer) /\ WF_vars(GiveUp)
    /\ WF_vars(Push) /\ WF_vars(AbortStore) /\ WF_vars(Close)

Spec == Init /\ [][Next]_vars /\ Fairness

(***************************************************************************)
(* Properties.                                                             *)
(***************************************************************************)
HostOwned == bell \cup dev \cup ({c.cmd : c \in ToSet(cq)} \ {NoCmd})

\* The pending table and the Host Core agree about every command: what is in
\* the doorbell, in the drive or in the completion queue is exactly what the
\* writer has pending, no two of them share a CID although next_cmd_id wraps,
\* and the engine's own consistency check (cross_slot_validate) never fires.
OwnershipAgrees ==
    /\ HostOwned = pending
    /\ \A p, q \in pending : p.cid = q.cid => p = q
    /\ Cross /\ pc \in {"head", "poll"} => cross_slot_validate

\* An abort request never works on an engine the writer has freed: the pointer
\* is cleared under the lock the request holds.
EngineOutlivesAbort == apc = "loaded" => engine = "published"

\* The serial writers return at an error status, an unknown CID or a timeout
\* with other commands in flight and do not record it (see the README).
Abandons == /\ ~Cross
            /\ why \in {"completion_error", "unknown_cid", "no_progress"}

\* The three submission paths implement SlotWriter: a slot comes back only when
\* each of its commands is on the medium and none is in the drive, and the
\* mapping is released only when the drive holds nothing, unless a serial
\* writer has abandoned its commands.
SW == INSTANCE SlotWriter WITH
        Slots <- Slots, taken <- 1 .. taken,
        held <- {c.slot : c \in bell \cup dev},
        durable <- {s \in Slots : \A k \in 1 .. CmdsPerSlot : <<s, k>> \in written},
        retired <- retired, released <- closed /\ ~Abandons
ImplementsSlotWriter == SW!Spec

\* However the drive behaves, and whenever the producer aborts, the writer ends
\* and is joined: no loop of the three paths spins for ever.
WriterEnds == <>joined
=============================================================================
