# Verification of the CCB storage software

`src/` is the storage program of a three-channel capture board. A parent
process (`system.c`) takes commands over a serial line and, for each storage
task, starts one *worker* process per channel. A worker lets an AXI DMA engine
fill a ring of DDR slots, queues the filled slots to an NVMe writer thread, and
reports a result; the parent aggregates the results and commits the file to a
data base, to per-channel metadata and to flash. A stored file is downloaded by
another worker process, which reads it back from the drive into a ring of DDR slots
and sends it through an MM2S DMA engine. This directory holds TLA+
models of that program, the TLC configurations that check them, and TLAPS
proofs about them.

## Inventory

| component | state | operations | interacts by | hard part |
|---|---|---|---|---|
| slot table `storage_queue.c` | state per slot, one counter per state | `storage_slot_transition` | called under the queue lock | counters exact after refused calls |
| S2MM ring `ccb_hw.c` 3739-4500 | BD status words, TAILDESC, `next_harvest_bd`, `dma_hw_desc_count`, STOP latch | start, harvest, requeue, latch, quiesce, finalize | registers and memory shared with the engine | ring wrap, ownership, stop while a packet is open |
| write queue `ccb_commands.c` 1694-2950 | FIFO, slot states, worker state, `error`, `requeue_enabled`, ready flags | push, pop, complete, finish, stop, latch, abort, ready barriers | mutex and condition variable between two threads | lost wake-ups, latch against requeue, drained against push |
| capture worker `ccb_commands.c` 3579-6079 | stop phase, byte counters, integrity, quiesce result | capture loop, stop sequence, clean-up path | both threads, both devices, IPC events | every early exit must stop DMA, join, and release memory only when nobody uses it |
| NVMe writers `ccb_hw.c` 1176-3017: cross-slot engine, tight and legacy slot writer | slot contexts, pending table, `next_cmd_id`, `nvme_ownership_unresolved` | add, step, abort, drain, destroy; write one slot | doorbell, completion queue, call-back per slot, abort from the producer | out-of-order completion, CIDs that wrap, ownership after a time-out |
| stop helpers `storage_stop.c` | stop phase, deadlines, empty-scan counters | latch, advance, observe | pure | deadline edges |
| controller `storage_controller.c` | task state and STOP epoch | begin, transition, request stop, fail | called by the parent | STOP in every state |
| supervisor `ccb_storage_supervisor.c` | masks of what each worker has reported, first error | one handler per event, EOF, exit | events from workers, exit status | reordered event/exit, STOP against automatic drain, terminal result |
| IPC `ccb_storage_ipc.c` | none (framing) | read/write with deadline | two pipes per worker | an event given up at its deadline (a message is shorter than `PIPE_BUF`, so it is written whole or not at all) |
| parent `system.c` | pids, descriptors, pending start/stop/commit | start barrier, STOP, fallback kill, poll, commit | serial, IPC, signals | worker dying in every phase |
| commit `ccb_storage_commit.c`, outbox `ccb_storage_sync_outbox.c` | data base transaction, metadata, flash, marker file | commit once, roll back, retry | parent | crash between two stores |
| file list `file_list.c`, metadata `ccb_metadata.c` | task and file rows; per channel a table of entries | insert, delete, clear, backup; allocate index, slot, LBA | main loop and maintenance thread on one connection | two stores that must agree without a common transaction |
| maintenance thread `system.c` 3874-4045 | operation, result, `done` | clear, delete, flash sync | beside the main loop | busy test made long before the work |
| network download `system.c` 2599-3592, `ccb_tcp_transfer.c`, synchronous read `ccb_hw.c` 3584-3733 | ring of slots with a state, `error_rc`, `producer_done`, two condition variables | 0x51, 0x71; reader, sender, serial loop; route, prepare, start, wait, clean up | threads of one worker, SIGTERM, drive and MM2S engine | ring wrap, one thread failing while the other sleeps, STOP at every wait |
| serial protocol, health, configuration, logging | see `PROJECT.json` | | | |

`PROJECT.json` lists every component with its status, and under `hazards` what
is hard to test, at the line where it bites.

## Modules

* **SlotTable** - `StorageSlotTable`. One action per outcome of
  `storage_slot_transition`, called with every slot (one out of range included)
  and every pair of states (the invalid one included), because the callers'
  discipline is exactly what the table must not rely on.
* **DmaRing** - the BD ring of one channel: the external engine (`Hw...`) and
  the `dma_...` functions as operators. A frame is a number (its order of
  arrival) with a kind: `mid`, `eof`, `short` (off a sector boundary), `inv` (bad
  byte count), `bad` (error bits). A status word is 0 or the frame it
  reports, so that "the same completion seen twice" can be told apart.
* **WriteQueue** - extends DmaRing with `StorageWriteQueue` and the worker state
  machine. One operator per lock section. `writer_waiting` is true while the
  writer is inside `pthread_cond_wait`; only a signal or broadcast clears it, so a
  forgotten wake-up is a visible hang. Slot counters do not appear: they are the
  cardinalities that SlotTableProofs shows them to be.
* **CaptureWorker** - extends WriteQueue with the producer thread (`P_...`), the
  writer thread (`W_...`, both variants, chosen by `CrossSlot`), the NVMe device
  and the STOP request. `ppc` and `wpc` say where a thread is. A step ends where
  the code drops the queue lock or touches the hardware. Deadlines have no clock:
  where the code tests one, the step that gives up is enabled. External faults
  are switched on by the constant `Faults`.

* **FileCatalog** - what the file list promises: a set of files that changes by
  whole captures, single deletes and wipes (`Spec`), and whose new files have a
  name and a sector range of their own (`FreshSpec`).
* **Catalog** - `filelist.db`, the metadata tables, their replica on flash and the
  outbox, worked on by the main loop (the commit of `ccb_storage_commit.c`, the
  retry at start-up) and the maintenance thread. `db` is what the one SQLite
  connection sees and `saved` what a new connection would: they differ exactly
  inside a transaction. Writing a metadata table takes two steps, `fopen("wb")`
  and `fwrite`, because the table is empty in between. `saved.recs` is shown to
  implement FileCatalog. Any call may fail (`MaxFaults`), the process may die
  between any two steps (`MaxCrashes`); `OperatorWaits` says whether maintenance
  commands come only between captures. Four failures are not seen by the caller
  (`SilentFaults`): a table that cannot be opened is an empty one (`fopen`,
  `ccb_metadata.c` 67-71), a count that fails is 0 (`count`, `file_list.c` 838-849), a
  next index whose statement fails is 1 (`index`, 852-877), and a duplicate that cannot
  be looked up is not there (`query`, 667-707). `metadata_read` and `file_count` are the
  calls with both outcomes; `task_info` takes the set of what it missed.

* **Supervisor** - `StorageTaskSupervisor`: what each worker has reported, and the
  verdict. Each function of `ccb_storage_supervisor.c` is an operator from one
  record to the next; masks are sets of channels. PERF and DIAG events, which touch
  only statistics, are left out, as are error codes and reasons. A result is
  `good`, `short` (whole, with fewer bytes) or `bad`. A time stamp is known by who
  took it (`Epochs`), because all the code asks of two epochs is whether they are
  equal.
* **StorageTask** - extends Supervisor with the parent process (`g_capture_task`,
  `storage_tasks[]`, the pending START and STOP), the control and event pipes, the
  kernel's view of the children and the workers. The handlers of `system.c` call
  each other, so they are operators from the parent's whole memory (`ParentState`)
  to the next one and an action is one turn of the main loop: `CheckTaskStep` is
  `check_task`, `ServiceStartStep` and `ServiceStopStep` the two pending operations,
  `TaskInfo...` the command 0x11 and its refusals, `SwitchOn` and `SwitchOff` the
  command 0x21. A loop over `storage_tasks[]` is a fold over the channels from the lowest up
  (`ForChannels`). The worker is CaptureWorker seen through its events: gates, idle
  scan, stop phases, DRAIN_READY, FINAL. Between the latch of a stop and DRAIN_READY
  it reads nothing and its events are buffered, so `Drain` is one step that writes
  several events. A phase that cannot be sent before its deadline ends the worker with
  the phases before it sent, and perhaps FATAL (`EventLost`); a worker that cannot open
  its device or tables never becomes ready (`BootFails`). A dead process first loses its pipes (`closing`) and can then be
  reaped (`zombie`): the parent may see the end of the file before the exit. The
  commit is one call with two outcomes; Catalog is what happens inside it.

* **SlotWriter** - what the storage worker relies on when it hands slots to its NVMe
  writer: a slot comes back only when all of it is on the medium and the drive no
  longer reads it, and the DDR mapping goes only when the drive reads nothing.
* **NvmeWriter** - the three submission paths (`mode`) down to the doorbell and the
  completion queue. `bell`, `dev` and `cq` are the Host Core: the command posted and
  not yet taken, the commands accepted, the completions not yet popped. `pending` is
  the pending table, `ctx` the slot contexts. The model knows a command as well as its
  CID, so a completion booked on the wrong command shows. One turn of the
  loop runs through `StepHead`, `Poll`, `Retire` and `Submit`; a command is in flight
  for the writer once the doorbell has answered (`Accepted`) or failed to in time
  (`AcceptanceUnknown`). Completions are popped one at a time. An error leads to the
  drains (`BeginDrain` to `Settle`) and, for the engine, to `Destroy`.
  The producer's part is `Push`, the abort request, which loads the engine pointer
  and stores the request in two steps, and the release after the join. Shown to
  implement SlotWriter (`SW`): `held` is the slots of commands in `bell` or `dev`,
  `durable` the slots all of whose commands are written.
* **NetworkDownload** - parent, download worker and hardware. The reader's `rpc` and
  the sender's `spc` say where a thread is; with one slot (`Serial`) one thread takes
  both parts in turn. `rsleep` and `ssleep` are true inside `pthread_cond_wait`, as in
  WriteQueue. `tcp_transfer_send` is cut where it polls: route, preparation, tail
  write, completion, clean-up, each with its exits for STOP and time-out. `ddr` holds
  what each slot contains, `sent` what has left the engine. The parent's side is 0x51,
  0x71 with its pending answer, the time limit, and reaping.

State correspondence worth knowing: `captured` stands for `bytes_captured`,
`queued_payload_bytes` and `next_queue_lba` (one frame = one unit);
`integrity` for `receive_integrity_ok`; `active` for the slot contexts of the
cross-slot engine or the one item of the legacy writer; `inflight` for commands
the device still owns; `stop_phase` for `stop_state.state`; `dma_stop_latched` for
that flag and the negation of `dma_requeue_enabled`, which are always written
together.

## What is checked

Passing runs (`PROJECT.json` has one mutant per property: a plausible bug in the
mapped definition that makes the property fail):

| run | bounds | shows |
|---|---|---|
| slot_table | 4 slots | counters exact whatever the callers do |
| capture_faults | 3 slots, 4 frames, all frame kinds, all faults | types; good captures whole; medium never holds a wrong frame; no requeue after the latch; table, FIFO and writer agree on owners; no release under DMA; no stale descriptor fetched; engine window shrinks after STOP |
| capture_cross_slot | 2 slots, 4 frames, 2 in flight, NVMe failures, slow joins, stop events that cannot be sent | no release under NVMe unless the writer missed both joins; table, FIFO and writer agree on owners although slots retire in any order; a writer leaving without error leaves nothing; STOP leads to the end of both threads |
| catalog_commit | 2 tasks, 2 channels, 3 captures, 1 fault in the commit, 1 job between captures | failure leaves both stores as they were; tables, totals and replica agree with the list; indices and sectors given out again do not clash (`FC!FreshSpec`); only files that a command names leave the list |
| catalog_crash | 2 tasks, 2 channels, 2 captures, 1 job between captures, 1 fault in either thread, seen or not, 1 crash | captures are listed whole or not at all (`FC!Spec`); a success is in both stores; a success that flash does not hold is owed by a marker, which goes only when flash has the files |
| catalog_interleaved | 1 task, 2 captures, 1 fault in either thread, seen or not, 1 job at any time | commits and jobs still end on the connection they share |
| task_faults | 1 task, 2 workers, 1 fault of any kind but a hang, at most one idle period per input | only whole captures are committed; no worker records before all are armed; after the last child nothing is left busy; STOP is answered truthfully; no failure without a cause |
| task_answers | the same with a worker that dies or hangs for ever, an input that resumes, a refused file mode | every STOP is answered; every START is while no worker hangs |
| nvme_writer | 3 slots of 2 commands, depth 3, 2 contexts, 2 FIFO entries, 4 CIDs, all paths and faults | the writer's books and the Host Core agree on every command and no CID is in use twice; an abort never meets a freed engine; all paths implement SlotWriter; the writer always ends |
| network_download | 4 chunks, 1 to 3 slots, 2 downloads, 2 STOPs, all faults | what is sent is the file, in order and whole; no slot is read into while it is sent; after a successful 0x71 nothing is on its way; downloads and STOPs end |

Bounds. Three slots and four frames are the least with which the ring wraps
while one slot is being harvested, one is queued and one is in NVMe hands;
`HarvestMax = 2` makes batches of more than one and harvests that stop at the
limit. Two slots in flight are enough to complete out of order. `StableScans` is
2 in capture_faults (the counter must be able to be reset) and 1 in
capture_cross_slot, whose ring is smaller because it also checks liveness; the
wrap-around is the business of capture_faults and cross_slot_duplicate. No
symmetry: slots are ordered by the ring.

The catalogue's runs use two channels (the low-speed one alone, or both): enough
for one table to be written and the other not. Two entries per table make the
third capture meet a full table, three captures make an allocation after a delete
in the middle. All files take one unit of sectors: what is allocated is decided by
the ends of ranges, not by their sizes. The
passing runs tolerate *one* failing call: with two, a metadata write and its roll-back can
both fail (`metadata_rollback_failed`) and a table is lost; the code reports it
and does not repair it. catalog_commit has failures that the caller sees, catalog_crash
also those it does not: one of these is enough to empty a table or to lose a count, so
only what `catalog_crash` lists survives it (the runs that fail below show the rest). The
catalogue may stop for good, waiting for a
command, so these runs do not check deadlock; `CommitEnds` and `JobEnds` say that
it never stops half-way.

The task's passing runs take two of the three workers of the full plan (mode 0xAA),
the pair that carries one stream: every disagreement between workers (epoch, result,
order of reports, one dead and one not) takes two of them, and a third
would multiply the near million states. There is
one 0x11 per behaviour: a new task resets everything but the supervisor and the
controller; task_faults leaves out the refused file mode and the input that
resumes, for which its properties fail (TaskEmptyPlan.cfg, TaskResume.cfg). Each worker is given at most four messages (ARM, RUN,
AUTO_DRAIN, STOP): this is why a control pipe is never full. One fault per
behaviour: what two independent faults do together is not checked. The deadlines
of START and STOP are the sum of the workers' own: they pass when a worker hangs, or,
as the fault `deadline`, when they were configured too short.

In nvme_writer three slots over two contexts make a context be used again, two
commands per slot let slots overlap and complete in any order, a FIFO of two against a
depth of three makes the queue full with room in the window, and five values of the CID
counter make it wrap several times within one behaviour, onto commands still pending.
`Leftover = {4}` lets one completion of an earlier process lie in the queue, with a CID
that no live command has when it is read (LeftoverCompletion.cfg has the other case). In
network_download four chunks make every ring of up to three slots wrap; two downloads
make the second inherit what the first left behind. With `Reuse` FALSE the operator
starts a download only on a channel whose hardware is idle (what else happens is below). Both
runs abstract lengths and addresses: a chunk is one read command and one descriptor. A
download may stop for good waiting for a command, so deadlock is not checked there;
`DownloadEnds` says that it does not stop half-way.

Fairness. Weak fairness for each thread (the kernel schedules both; the
real-time policies differ in priority, not in starvation: producer and writer
run on their own cores) and for the NVMe device (a command completes). Strong
fairness for retiring a completed slot: every engine step polls the completion
queue, but in the model a step may look before the device has answered. The
DMA engine has no fairness: neither frames nor its halt are promised. A run with
the fault `nvme` lets commands fail instead. In Catalog the main loop and the
maintenance thread are weakly fair: both are plain threads and no call they make
waits for the other. Commands, captures, faults and crashes are not fair. In
StorageTask the main loop never leaves work for ever (`[]<>~TaskHasWork` and its
like: weak fairness of the loop's steps, each of which clears the work it is for,
written without ENABLED because TLC would evaluate the whole handler for it); the
workers that do not hang are weakly fair, and so is the kernel when it delivers
SIGKILL or closes a dead process's pipes. Inputs, the operator and faults are not.
In NvmeWriter the writer thread, the clock that ends each of its waits, and the
producer's push, abort and join are weakly fair; the drive is not, for the code promises
to end without it. In NetworkDownload the worker's threads and the parent's main loop are
weakly fair, and every wait in the worker has a time-out; drive, engine, operator and
the parent's time limit are not (`SRC_REAL_NETWORK_TASK_TIMEOUT_SECONDS` is 0, no
limit, by default).

### What the runs found

Two runs are expected to fail; each states what a document of the repository says and
shows how the code breaks it.

* **cross_slot_duplicate** - the cross-slot writer retires slots in completion
  order. A later slot returned first raises `dma_hw_desc_count`, and the harvest
  guard, which counts and does not identify descriptors, takes the old status word
  at `next_harvest_bd` again. The frame is stored twice and the capture is
  reported good.
* **catalog_torn_metadata** - a metadata table is truncated in place. If the process
  dies before the write, the channel's files are still listed and the next capture
  is given the first sectors of the channel.

Eight more configurations are kept beside the runs. TLC finds the one property of each
violated; they are the cases that the passing runs leave out.

* **CrossSlotStale.cfg** (CaptureWorker) - as in cross_slot_duplicate, TAILDESC passes a descriptor with Completed
  still set, which PG021 answers with SGIntErr.
* **OneSlotRelease.cfg** (CaptureWorker) - the tight and the legacy writer return at an error status, an
  unknown CID or a time-out with other commands in flight, and do not set
  `nvme_ownership_unresolved`; `storage_fail_fatal` then leaves `nvme_engine_quiesced`
  true, and queue and mapping are released under those commands.
* **CatalogUnreadableTable.cfg** (Catalog) - a table that cannot be opened once is taken for an empty
  one and written back with a single entry, and the commit succeeds. When that file has
  been deleted, the next capture is given the sectors of a file that is still listed.
* **CatalogFailedCount.cfg** (Catalog) - a count that fails is 0, and a delete that counts 0 files
  left removes the task with all of them.
* **CatalogClearRace.cfg** (Catalog) - no fault at all: a clear accepted during a capture makes its
  busy test on its own thread, after the last worker has left and before the commit has
  ended. It empties the tables; its own transaction fails inside the commit's on the
  shared connection; the commit succeeds, and the next capture is given the sectors of
  the listed file.
* **TaskResume.cfg** (StorageTask) - an input that was idle sends data again while the parent begins the
  automatic drain: INPUT_ACTIVE, sent before the worker could know of the drain, is refused
  and the capture fails though no worker did.
* **TaskEmptyPlan.cfg** (StorageTask) - a 0x11 with mode 0x33 is refused, yet 0x21 off is then answered
  with success: the supervisor still holds what was before, and an empty target counts as
  complete.
* **LeftoverCompletion.cfg** (NvmeWriter) - every process counts its CIDs from 1 and nothing empties the
  completion queue, so the first completion may be somebody else's, and the slot goes
  back before it is written.

Variations of the same configurations show more; they are not runs of their own. Slots
consumed before the latch keep Completed, and the stop harvest, which ignores the
ownership count, may take them again when it wraps; the push is refused, so the capture
fails although nothing was lost. When both joins of the writer time out, queue and
mappings are released under its command (`nvme_engine_quiesced` is true from the
start). With a fault in the maintenance thread
(`FaultyThreads`) a delete that drops the metadata entry and then cannot delete the
row frees the sectors of a listed file. With three channels and a crash between two
channels' metadata writes, the orphaned entry pushes one channel's index onto the
next channel's, and nothing in the data base forbids it.

What NvmeWriter shows besides. `ImplementsSlotWriter` excepts the return of a serial
writer with commands in flight (`Abandons`; OneSlotRelease.cfg). A turn of
the engine that finds the submission queue full has already drawn a CID, so CIDs wrap
sooner than commands do. The tight writer has no time-out for a submission queue that is
full while it has nothing in flight (ccb_hw.c:1953); only a Host Core left full by
another process could do that, so it is not among the faults.

What NetworkDownload shows. With `Reuse` TRUE, even with no fault, `SendsTheFile`
and `NoReuseUnderDma` fail: a stopped worker leaves its read in the drive, and its late
completion carries the CID of the next worker's first read. A STOP that meets the wait
for the route, for the halt bit to clear or for the doorbell is returned as an error,
so 0x71 is answered FAILED although the transfer has stopped; so is one that comes
before the worker has installed its signal handler and dies of SIGTERM. If the engine
cannot be halted after a STOP, the STOP's result is kept and 0x71 is answered SUCCESS
with the engine possibly still sending (`stuck`, excepted in `StopAckEndsSending`); a
worker killed by the time limit leaves the engine running, and a later 0x71 is answered
SUCCESS (`killed`, excepted too). After the time limit the task is in ERROR with its
pid kept, and a new 0x51 overwrites the pid (system.c:1047-1079).

Where StorageTask shows the documents to be out of date: a capture is committed when
the last FINAL arrives, before the workers exit (README.md:585 says after); START is
answered when all workers run (README.md:571 says at once); a second 0x21 on while a
capture runs stops it. A failed START has no SIGKILL deadline of its own: it waits for
the children, and a hung one is only killed by 0x21 off. A START that failed by its
deadline or by 0x21 off may still commit what the workers had recorded.

With the one-slot writer (capture_faults) a duplicate or a stale descriptor cannot
happen: completion order is queue order.

## What is proved

Everything below holds for every value of the constants (any ring size, any number
and kind of frames or chunks, any queue depth and CID range, any number of channels,
tasks, captures, jobs and workers, any set of faults) that satisfies the named
assumptions, which TLC evaluates in the runs: positive sizes, known kinds and faults,
more CIDs than commands in flight, `Nil` told apart from every record
(`NilAssumption`), a finite, non-empty set of channels (`ChannelsAssumption`) at most two
of which carry one stream (`SplitPairAssumption`). Where the code keeps a promise only
under a condition, the theorem states the condition:

* `CrossSlot`, for `NoCloseUnderNvme` only - the one-slot writer leaves with commands in
  flight (OneSlotRelease.cfg); `~CrossSlot` - the medium, completeness and descriptor theorems of the capture worker
  are about the one-slot-at-a-time writer; with the cross-slot writer the code violates
  them (cross_slot_duplicate, CrossSlotStale.cfg);
* `~Reuse` - downloads start on idle hardware; `Leftover = {}` - the completion queue is
  empty when a writer starts (LeftoverCompletion.cfg);
* `OneAtATime` (`OperatorWaits` or no jobs) - no maintenance command during a
  capture: both threads share one connection, so a job's statement falls into the
  commit's transaction (CatalogClearRace.cfg). `JobsUndisturbed` (no death and no failing call inside a
  job) - a delete has several steps without a transaction.
  `CountsKnown`, `IndicesKnown`, `TablesOpen` (that failure is not among `SilentFaults`)
  - one count, index or table that fails unnoticed breaks what is built on it
  (CatalogFailedCount.cfg, CatalogUnreadableTable.cfg); `NamesChecked` (not both a wrong
  index and a failed look-up) - either alone is found out.
  `CommitsRecoverable` (`OneAtATime`, no death, at most one failing call, none in a job,
  none unnoticed) - a metadata table is truncated in place, so a death may lose it
  (catalog_torn_metadata), and a second failure may meet the roll-back;
* `~RejectedPlans`, for the answer to STOP only - a 0x11 that is refused for its file
  mode leaves an empty plan, which counts as complete (TaskEmptyPlan.cfg).

TLC checked each inductive invariant on the constants of the runs before it was proved.

* `SlotTableProofs` - types and exact counters. The inductive step is counting: moving one slot changes two cardinalities by one.
* `CaptureSafetyProofs`, for both writers. First `TypeOK` of the whole worker; the only
  interesting part is that the ownership count stays in `0..NSlots` and that sequences
  built from sets of indices are sequences. Then four properties from one inductive
  invariant, `SafeInv`: `NoRequeueAfterLatch`, `NoCloseUnderDma`,
  `EngineWindowShrinksAfterStop`, `NoPushAfterProducerDone`. None is inductive alone. The
  latch property needs that the latch implies `~requeue_enabled` (they are set in one lock
  section); the release property needs that a successful quiesce means a halted engine
  and that nothing restarts it, hence where the producer is; the push property needs that
  a FAILED worker has `error` set and that a drained state is only reached after
  `storage_queue_finish`. The window property adds modular arithmetic: advancing CURDESC
  removes exactly one descriptor from the window. Last, `WriterLeavesNothing` and
  (for the cross-slot writer) `NoCloseUnderNvme` from `LeaveInv` (what the writer holds in each place of its loop, and
  that it has left before the producer calls it joined), and `OwnersAgree` from `OwnInv`,
  the same statement without cardinalities: each queued slot is READY and queued at one
  position, each popped one is busy. The hand-over is the hard step: the duplicate check
  of `storage_local_queue_push_batch` compares two numbers, and as many slots as items
  means that no slot is named twice.
* `CaptureCompleteProofs`, for the one-slot writer. `MediumHoldsQueuedFrames`: `DataInv`
  says that whatever is queued or being written is still in its DDR slot, which the engine
  cannot overwrite because the status word is set or the engine has stopped. That fails if
  a slot is harvested twice, and `RingInv` excludes it: seen from `next_harvest_bd` the
  ring holds first the slots the engine may use, then the popped one, then the queued ones
  in their order, then the batch, and `dma_hw_desc_count` is at most the number of the
  first kind. `ControlInv` says where the producer is when the ring may be out of order,
  which is after STOP, when nothing goes back. `GoodCaptureIsComplete` and `NoStaleFetch`:
  `SeqInv` knows the ring of a good capture exactly: the frames were taken in the order of
  arrival, the next ones wait in the slots that follow `next_harvest_bd`, behind them all
  status words are cleared up to where the engine may go, and CURDESC is the first cleared
  one. A stop harvest may run into a slot that was taken before; the invariant then says
  that the batch has a slot that is not writable, so the push is refused and the capture
  is not good. `EndInv` follows where the stable empty scan ends the harvest: no descriptor
  is completed, so no frame waits. `Cover` says that every LBA given out is queued, in the
  drive's hands or written, and `PathInv` that the result is only good when the first two
  are empty.
* `CatalogProofs` - every invariant and action property of the catalogue, and that the
  durable list implements FileCatalog. The invariants are layered, each proved with the
  ones before it. `TypeInv` bounds indices, slots and sectors by the number of captures and
  says where each thread can be with which data. `TxInv` says what is in the transaction:
  at each place of the commit `db` differs from `saved` by exactly the records inserted so
  far, and the capture's indices are ahead of all listed ones; this gives `FC!Spec`
  (`CommitIsAtomic`, which needs `NamesChecked`) and, with `CountsKnown`,
  `OnlyNamedFilesGo`. `ReplicaInv` follows the marker: a synchronisation copies what is
  durable, and what was reported a success and is not on flash has its marker
  (`ReplicaOrPending`, `MarkerOutlivesDebt`). `MetaInv` says which tables the commit has
  filled, which are as they were and which are backed up, at each place of commit and
  roll-back (`SuccessMeansBoth`, and `FailureLeavesNothing` with `TablesOpen` and
  `IndicesKnown`: a backup taken of a table that could not be opened is empty). `TotalInv` says which task's total
  may be behind, and where (`TotalsExact`, with `JobsUndisturbed` and `CountsKnown`). `CaptureListInv` and `JobListInv` are about list
  and tables together: every file has its entry, every entry its file, none twice, and what
  a capture was given is free; the exceptions are named by the place of the job that makes
  them (`ListedHasEntry`, `FC!FreshSpec`). `CopyInv` adds what has been copied
  (`ReplicaIsComplete`).
* `FoldInduction` - what a loop over numbers keeps. A fold of the community modules is a
  recursive function on the subsets of what it goes through; its existence
  (`LoopExists`) and the induction (`LoopKeeps`) are proved by a least counterexample. The
  loop's body and what it keeps are CONSTANTS of this module, so each loop is an instance of it
  and no theorem has an operator as a parameter.
* `StorageTaskProofs` - `CommitOnlyWhole`, `RunBarrier`, `QuietIsReady` and
  `StopAckMeansCommitted` from one inductive invariant, `TaskInv` (`TaskStaysSound`). The
  parent's handlers call each other, so the invariant is a predicate on the parent's memory,
  not on the variables: `Sound(S, wk)` holds wherever one handler calls another, `Judged(S)`
  (a verdict that has fallen has been emitted) only at the end of a turn. `Sound` has the
  verdict (`VerdictInv`: it falls with the last report and is a success only if all
  are good), the record (`RecordInv`: who is recorded as drained has drained, at the epoch on
  record unless the task has failed), the epochs (`StopInv`: a STOP has the epoch of
  the drain it meets), the plan, the children that are gone (`LiveInv`: they have reported
  or are lost), what was told (`LogInv`), and the pipes (`PipeInv`: an event that is still
  unread is true of the worker that sent it, a message carries the epoch in force, RUN is
  only sent when all have armed, and FATAL comes before the phase FAILED_FATAL, whose epoch may be the
  worker's own). The last is what makes the epochs of different workers equal:
  without it a worker's own epoch could be taken for the task's. The lemma `Change` says once
  what a handler must do for `Sound` to survive it (`Follows`, `Reports`, `Sends`,
  `Notes`, `Pends`), `WorkerMoved` the same for a worker (`Moves`: what a worker has
  passed it does not take back). The loops over `storage_tasks[]` and over the events read
  in one turn are instances of FoldInduction (`DrainLoop`, `ArmLoop`, `RunLoop`, `CheckLoop`,
  `KillLoop`).
* `NetworkDownloadProofs` - `SendsTheFile`, `NoReuseUnderDma`, `StopAckEndsSending`.
  The chunks between sender and reader are in their slots (`WindowInv`), the one read in
  flight is for the slot the reader holds (`ReadInv`), the one transfer for the slot the
  sender holds (`SendInv`); `SentInv` and `ContentInv` tie what left the engine to the
  chunk counter. The state of a slot tells whose it is, so no two chunks of the window
  can share a slot and no arithmetic about the ring is needed.
* `NvmeWriterProofs` - `OwnershipAgrees`, `EngineOutlivesAbort`, and that all submission
  paths implement SlotWriter (`WriterImplements`). The pending table is exactly what
  doorbell, drive and completion queue hold, each command once (`HostInv`); the counters
  of the contexts count exactly those commands, but for the one whose doorbell has not
  been answered (`BookInv`, `ShapeInv`); a slot whose commands have all completed is
  written (`MediumInv`, `RetireInv`); `EndInv` is about abort and release. The search
  for a free CID ends by the pigeonhole principle. `EngineOutlivesAbort` holds whatever
  the completion queue contains at the start.

`NoPushAfterProducerDone` and the types of the slot table are only proved, the others are
also checked by a run.

Only model-checked:

* liveness (`StopEnds`, `CommitEnds`, `JobEnds`, `StopAnswered`, `StartAnswered`,
  `WriterEnds`, `DownloadEnds`), which is out of the prover's reach;
* `FailureHasCause` of the storage task. It says that a capture without a fault does not
  fail, so it needs the exact order of all unread events of every worker against the
  phases on record, for every place a worker can be at; `TaskInv` knows only that each
  unread event is true.

`TypeOK` of StorageTask is stated for the reader: TLC finds it true when it is added to
task_faults, the proofs use the types of `TaskInv`, and the bound of four messages per
control pipe is not proved.

## Not modelled

Dry run and bounded captures (`requested_size`), the timers of the input-idle
scan, statistics, performance windows, logging, local metadata commit of the
stand-alone mode, register polls and addresses. The start gate is one step. The
kinds of error code are not distinguished, only that one was recorded.

Of the catalogue: the 0x11 that starts a capture is one step; what fails in it silently
is modelled, while a 0x11 that is refused for a failure it sees, and a write of its
clean-up that fails, are not. A failing `fopen("wb")`, which leaves the table as it was,
is not told apart from a failing `fwrite`, which leaves it truncated, the worse of the
two. A copy to flash reads a
table in one step; refusals because a download runs; the file-type checks of a delete;
the stand-alone commands. A crash is the death of the process: what the kernel
has been given is kept, a loss of power is not modelled.

Of the storage task: the console output of a worker, log lines, reading an IPC
message in parts, PERF and DIAG samples, the
stand-alone worker, the refusals of 0x11 because a download runs. Of the events that
cannot be sent, the stop phases are `EventLost`; READY, ARMED, RUNNING, IDLE and ACTIVE
end the worker as `BootFails`, `GateTimeout` and `WorkerFails` do, and a lost FINAL, which
makes the exit status bad, is a `Crash`. A worker's FATAL and FAILED_FATAL come in this
order.

Of the NVMe writers: the argument checks, statistics and the self-test operations;
`nvme_write_slots_qd`, which nothing calls; register set-up and the probe, pure I/O. A
storage worker cannot reach the exit for `nvme_stop_requested`, which only the download
worker sets. Of the download: the throttle, the read-back check of diagnostic builds,
dry run, the split of a chunk into several descriptors, `tcp_transfer_reset`, which no
operation of the download calls.

The serial frame parser is a checksum over a byte stream without a hazard of
concurrency; its commands are the operator's actions. Event rings, health, the pipeline
profile, configuration, logging, the debug UART and the command line compute reports or
constants, or are pure I/O; no decision modelled here depends on their state.

## Plan

Done: ring, queue, worker, catalogue, supervisor, parent, NVMe writers, download, and the
proof of every safety invariant of a run but `FailureHasCause`. What would come next:

1. The order of a worker's unread events against its place in the code, for
   `FailureHasCause`.
2. An abstract task (one verdict, success only if every worker drained) that StorageTask
   implements, with the catalogue below it, so that the abstract result of a task includes
   its files.
3. The serial frame parser as pure operators.
