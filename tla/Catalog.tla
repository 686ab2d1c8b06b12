------------------------------ MODULE Catalog ------------------------------
(***************************************************************************)
(* How captured files are published: filelist.db (file_list.c), the        *)
(* metadata table of each channel (ccb_metadata.c), their replica on flash *)
(* and the outbox of replicas still owed (system.c, ccb_storage_commit.c,  *)
(* ccb_storage_sync_outbox.c).  Two threads of the parent work on them: the*)
(* main loop, which commits a finished capture, and the maintenance thread,*)
(* which deletes, clears and synchronises on the operator's command.  They *)
(* share one SQLite connection, so what the maintenance thread writes while*)
(* the main loop has a transaction open belongs to that transaction.  The  *)
(* process may die between any two steps; a transaction that was open is   *)
(* then gone and the files stay as they are.  A call that fails says so, or *)
(* does not: some failures look to their caller like an empty table, a     *)
(* count of zero or a first index (SilentFaults).                          *)
(***************************************************************************)
EXTENDS Integers, FiniteSets, FiniteSetsExt, Sequences

CONSTANTS
    Tasks,           \* task numbers
    Nil,             \* no value: a free slot, no backup, no file
    NumChannels,     \* NUM_CHANNELS
    NumSlots,        \* MAX_FILES_TOTAL, entries of a metadata table
    MaxCaptures,     \* bound: captures started
    MaxFaults,       \* bound: system calls that fail ...
    FaultyThreads,   \* bound: ... in these threads
    SilentFaults,    \* bound: ... and these also fail without saying so
    MaxCrashes,      \* bound: deaths of the process
    MaxJobs,         \* bound: maintenance commands accepted
    OperatorWaits    \* bound: maintenance commands only between captures

ASSUME CatalogAssumption ==
    /\ Nil \notin Tasks
    /\ NumChannels \in Nat \ {0} /\ NumSlots \in Nat \ {0}
    /\ {MaxCaptures, MaxFaults, MaxCrashes, MaxJobs} \subseteq Nat
    /\ OperatorWaits \in BOOLEAN /\ FaultyThreads \subseteq {"main", "job"}
    /\ SilentFaults \subseteq {"fopen", "count", "index", "query"}

VARIABLES
    db,         \* filelist.db as the connection sees it
    saved,      \* filelist.db as a new connection would
    in_tx,      \* a transaction is open on the connection
    meta,       \* meta_ch<n>.bin
    tmp,        \* filelist.db.tmp beside the flash replica
    flash,      \* filelist.db and meta_ch<n>.bin on flash
    outbox,     \* tasks with a .pending marker
    running,    \* storage_any_running
    cap,        \* the capture: task, items, and the tables it started from
    backup,     \* StorageCommitContext: metadata_backup where it is valid
    count,      \* total, as record_count returned it
    reason,     \* StorageCommitState.reason
    report,     \* the aggregate status of each task's last capture
    pc, k, tab, \* per thread: program counter, loop index, metadata_read result
    job,        \* g_maintenance_job: operation, target and result
    used        \* how much of each bound is used up

dbv == <<db, saved, in_tx>>
filev == <<meta, tmp, flash, outbox>>
capv == <<running, cap, backup, count, reason, report>>
vars == <<db, saved, in_tx, meta, tmp, flash, outbox, running, cap, backup,
          count, reason, report, pc, k, tab, job, used>>

Channels == 0 .. NumChannels - 1
Low == NumChannels - 1
Slots == 1 .. NumSlots
MaxIndex == MaxCaptures * NumChannels

Record == [task : Tasks, idx : 1 .. MaxIndex, ch : Channels, lba : 0 .. MaxCaptures]
Entry == [task : Tasks, idx : 1 .. MaxIndex, lba : 0 .. MaxCaptures]
Tables == [Slots -> Entry \cup {Nil}]
EmptyTable == [s \in Slots |-> Nil]

\* An invalid entry, a missing backup and a pending ACK are told apart from every
\* valid one.
ASSUME NilAssumption ==
    LET entries == [task : Tasks, idx : Nat, lba : Nat]
    IN  Nil \notin entries /\ Nil \notin [Slots -> entries \cup {Nil}] /\ Nil # "failed"

Status == {"absent", "running", "completed", "failed"}
Databases == [recs : SUBSET Record, status : [Tasks -> Status], total : [Tasks -> Nat]]
Threads == {"main", "job"}

\* file_list_init on a board that has never captured anything
EmptyDb == [recs |-> {}, status |-> [t \in Tasks |-> "absent"],
            total |-> [t \in Tasks |-> 0]]

NoCapture == [task |-> Nil, items |-> <<>>, before |-> [c \in Channels |-> EmptyTable]]
NoJob == [op |-> "none", task |-> Nil, idx |-> Nil, rec |-> Nil, ack |-> Nil]

Init ==
    /\ db = EmptyDb /\ saved = EmptyDb /\ in_tx = FALSE
    /\ meta = [c \in Channels |-> EmptyTable]
    /\ tmp = Nil /\ flash = [db |-> EmptyDb, meta |-> [c \in Channels |-> EmptyTable]]
    /\ outbox = {} /\ running = FALSE /\ cap = NoCapture
    /\ backup = [c \in Channels |-> Nil] /\ count = 0 /\ reason = "not_attempted"
    /\ report = [t \in Tasks |-> "none"]
    /\ pc = [p \in Threads |-> IF p = "main" THEN "idle" ELSE "none"]
    /\ k = [p \in Threads |-> 0] /\ tab = [p \in Threads |-> EmptyTable]
    /\ job = NoJob
    /\ used = [captures |-> 0, faults |-> 0, crashes |-> 0, jobs |-> 0]

-----------------------------------------------------------------------------
\* The SQLite statements.  A write outside a transaction is durable at once.

FilesOf(d, t) == {r \in d.recs : r.task = t}

\* A faulty db_write whose statements commit at once.
db_write_autocommit(d) == db' = d /\ saved' = d /\ UNCHANGED in_tx

db_write(d) == /\ db' = d /\ saved' = IF in_tx THEN saved ELSE d
               /\ UNCHANGED in_tx

\* task_update_status: an UPDATE of an absent row succeeds and changes nothing
with_status(d, t, s) ==
    IF d.status[t] = "absent" THEN d ELSE [d EXCEPT !.status[t] = s]

task_deleted(d, t) ==
    [d EXCEPT !.recs = @ \ FilesOf(d, t), !.status[t] = "absent", !.total[t] = 0]

\* file_next_index_by_task: COALESCE(MAX(file_index), 0) + 1
file_next_index(d, t) == Max({0} \cup {r.idx : r \in FilesOf(d, t)}) + 1

-----------------------------------------------------------------------------
\* The metadata table of a channel (ccb_metadata.c).

Valid(table) == {s \in Slots : table[s] # Nil}
OfTask(table, t) == {s \in Valid(table) : table[s].task = t}

\* metadata_resolve_file_index
resolve_file_index(table, t, requested) ==
    LET max_index == Max({0} \cup {table[s].idx : s \in OfTask(table, t)})
    IN  IF requested > max_index THEN requested ELSE max_index + 1

\* metadata_alloc_slot_and_lba: the first invalid entry, and the sectors
\* after the last valid one.  Every file takes one unit of sectors.
alloc_slot(table) == IF Valid(table) = Slots THEN Nil ELSE Min(Slots \ Valid(table))

\* A faulty alloc_lba that counts the valid entries instead of measuring them.
alloc_lba_by_count(table) == Cardinality(Valid(table))

alloc_lba(table) ==
    IF Valid(table) = {} THEN 0 ELSE Max({table[s].lba : s \in Valid(table)}) + 1

\* metadata_delete_task_all_supported_channels, for one table
without_task(table, t) ==
    [s \in Slots |-> IF s \in OfTask(table, t) THEN Nil ELSE table[s]]

\* metadata_delete_file: the first entry that names the file
FileSlots(table, t, i) == {s \in OfTask(table, t) : table[s].idx = i}

\* A faulty without_file that compares the task and not the index.
without_file_any_index(table, t, i) == without_task(table, t)

without_file(table, t, i) == [table EXCEPT ![Min(FileSlots(table, t, i))] = Nil]

-----------------------------------------------------------------------------
\* Control: a step goes to the next program counter, a call may fail.

goto(p, l) == pc' = [pc EXCEPT ![p] = l] /\ UNCHANGED k
start_loop(p, l, n) == pc' = [pc EXCEPT ![p] = l] /\ k' = [k EXCEPT ![p] = n]

no_fault == UNCHANGED used
fault(p) == /\ p \in FaultyThreads /\ used.faults < MaxFaults
            /\ used' = [used EXCEPT !.faults = @ + 1]

\* A call that fails and lets its caller believe that it has not.
silent_fault(p, call) == call \in SilentFaults /\ fault(p)

\* metadata_read when it returns 0: fopen("rb") that fails, for whatever reason,
\* is taken for a file that is not there, which is an empty table
metadata_read(p, c, table) ==
    \/ table = meta[c] /\ no_fault
    \/ table = EmptyTable /\ silent_fault(p, "fopen")

\* file_count_by_task: a statement that fails counts nothing
file_count(p, t, n) ==
    \/ n = Cardinality(FilesOf(db, t)) /\ no_fault
    \/ n = 0 /\ silent_fault(p, "count")

\* write_metadata_to_file opens with "wb", which truncates the table, ...
fopen_wb(p, c, filled) ==
    /\ meta' = [meta EXCEPT ![c] = EmptyTable]
    /\ goto(p, filled)
    /\ UNCHANGED <<tmp, flash, outbox>>

\* ... and then writes it; a short write leaves it as fopen did.
fwrite_table(c, table) == /\ meta' = [meta EXCEPT ![c] = table]
                          /\ UNCHANGED <<tmp, flash, outbox>>

-----------------------------------------------------------------------------
\* 0x11: the task row and the plan of the capture.

\* build_file_plan: the low-speed channel first, then the others
Plans == {<<Low>>, <<Low>> \o [i \in 1 .. NumChannels - 1 |-> i - 1]}

\* What may fail in a 0x11 without its being refused: the count of the task's
\* files, the next index, and the tables that the clean-up and the workers open.
Lapses == ({"count", "index"} \X {Low}) \cup ({"cleanup", "worker"} \X Channels)
Call(lapse) == IF lapse[1] \in {"cleanup", "worker"} THEN "fopen" ELSE lapse[1]

\* ensure_task_for_capture_config and start_storage_for_last_task; the worker
\* of each channel then settles index, slot and sectors from its own table.
\* cleanup_stale_empty_task_before_create removes a task that has no file, or
\* seems to have none.
task_info(t, plan, missed) ==
    LET stale == /\ db.status[t] # "absent"
                 /\ FilesOf(db, t) = {} \/ <<"count", Low>> \in missed
        d == IF stale THEN task_deleted(db, t) ELSE db
        cleaned == [c \in Channels |-> IF stale /\ <<"cleanup", c>> \notin missed
                                       THEN without_task(meta[c], t) ELSE meta[c]]
        next_index == IF <<"index", Low>> \in missed THEN 1 ELSE file_next_index(d, t)
        item(i) == LET table == IF <<"worker", plan[i]>> \in missed THEN EmptyTable
                                                                   ELSE cleaned[plan[i]]
                   IN  [ch |-> plan[i], slot |-> alloc_slot(table), lba |-> alloc_lba(table),
                        idx |-> resolve_file_index(table, t, next_index + i - 1)]
        new == [task |-> t, items |-> [i \in DOMAIN plan |-> item(i)], before |-> cleaned]
    IN  /\ pc["main"] = "idle" /\ job.op = "none" /\ ~running
        /\ used.captures < MaxCaptures
        /\ used.faults + Cardinality(missed) <= MaxFaults
        /\ \A l \in missed : "main" \in FaultyThreads /\ Call(l) \in SilentFaults
        /\ used' = [used EXCEPT !.captures = @ + 1, !.faults = @ + Cardinality(missed)]
        /\ db_write([d EXCEPT !.status[t] = "running"])
        /\ meta' = cleaned
        /\ cap' = new /\ running' = TRUE
        /\ backup' = [c \in Channels |-> Nil] /\ reason' = "not_attempted"
        /\ report' = [report EXCEPT ![t] = "none"]
        /\ goto("main", "capturing")
        /\ UNCHANGED <<tmp, flash, outbox, count, tab, job>>

Items == {cap.items[i] : i \in DOMAIN cap.items}
ItemRecord(x) == [task |-> cap.task, idx |-> x.idx, ch |-> x.ch, lba |-> x.lba]
ItemEntry(x) == [task |-> cap.task, idx |-> x.idx, lba |-> x.lba]
\* storage_commit_supervised_results collects the items by channel
ItemAt(n) == CHOOSE x \in Items : Cardinality({y \in Items : y.ch <= x.ch}) = n
NumItems == Len(cap.items)

-----------------------------------------------------------------------------
\* storage_supervisor_emit_aggregate

\* FAILED: a worker failed, or found no metadata slot
capture_failed ==
    /\ pc["main"] = "capturing"
    /\ \/ db_write(with_status(db, cap.task, "failed")) /\ no_fault
       \/ UNCHANGED dbv /\ fault("main")
    /\ report' = [report EXCEPT ![cap.task] = "failed"]
    /\ running' = FALSE /\ goto("main", "idle")
    /\ UNCHANGED <<filev, cap, backup, count, reason, tab, job>>

\* SUCCESS, from poll_storage_events once every FINAL is in (a worker is still
\* there) or from storage_finish_worker_exit of the last worker
capture_succeeded(exited) ==
    /\ pc["main"] = "capturing"
    /\ \A x \in Items : x.slot # Nil
    /\ running' = ~exited
    /\ goto("main", "begin")
    /\ UNCHANGED <<dbv, filev, cap, backup, count, reason, report, tab, job, used>>

workers_exit == /\ pc["main"] = "exit" /\ running' = FALSE /\ goto("main", "idle")
                /\ UNCHANGED <<dbv, filev, cap, backup, count, reason, report,
                               tab, job, used>>

\* What the main loop does with the result of storage_commit_run_once.
finish(result) ==
    /\ report' = [report EXCEPT ![cap.task] = result]
    /\ goto("main", IF running THEN "exit" ELSE "idle")

-----------------------------------------------------------------------------
\* storage_commit_run_once

\* "BEGIN TRANSACTION" fails inside a transaction
db_begin ==
    /\ pc["main"] = "begin"
    /\ \/ /\ ~in_tx /\ no_fault
          /\ in_tx' = TRUE /\ UNCHANGED <<db, saved, reason, report>>
          /\ goto("main", "exists")
       \/ /\ IF in_tx THEN no_fault ELSE fault("main")
          /\ reason' = "db_begin_failed"
          /\ db_write(with_status(db, cap.task, "failed")) \/ UNCHANGED dbv
          /\ finish("failed")
    /\ UNCHANGED <<filev, running, cap, backup, count, tab, job>>

\* rollback_failure for n metadata items
fail_with(r, n) == reason' = r /\ start_loop("main", "rb_db", n)

\* storage_commit_record_exists; a query that fails counts as "not there"
record_exists ==
    LET found == \E x \in Items : \E r \in FilesOf(db, cap.task) : r.idx = x.idx
    IN  /\ pc["main"] = "exists"
        /\ \/ found /\ no_fault /\ fail_with("duplicate_record", 0)
           \/ /\ IF found THEN silent_fault("main", "query") ELSE no_fault
              /\ start_loop("main", "read", 1) /\ UNCHANGED reason
        /\ UNCHANGED <<dbv, filev, running, cap, backup, count, report, tab, job>>

\* storage_commit_metadata_write: metadata_read, the backup, the slot check
metadata_read_item ==
    LET x == ItemAt(k["main"])
    IN  /\ pc["main"] = "read"
        /\ \/ \E table \in {meta[x.ch], EmptyTable} :
              /\ metadata_read("main", x.ch, table)
              /\ tab' = [tab EXCEPT !["main"] = table]
              /\ backup' = [backup EXCEPT ![x.ch] = table]
              /\ IF table[x.slot] # Nil
                 THEN fail_with("metadata_write_failed", k["main"])
                 ELSE goto("main", "truncate") /\ UNCHANGED reason
           \/ /\ fault("main") /\ fail_with("metadata_write_failed", k["main"])
              /\ UNCHANGED <<tab, backup>>
        /\ UNCHANGED <<dbv, filev, running, cap, count, report, job>>

metadata_truncate_item ==
    /\ pc["main"] = "truncate"
    /\ fopen_wb("main", ItemAt(k["main"]).ch, "fill")
    /\ UNCHANGED <<dbv, capv, tab, job, used>>

\* A faulty metadata_fill_item that counts an item once it is written, so that
\* the table it has truncated is not rolled back.
metadata_fill_item_late_count ==
    LET x == ItemAt(k["main"])
    IN  /\ pc["main"] = "fill"
        /\ \/ /\ no_fault
              /\ fwrite_table(x.ch, [tab["main"] EXCEPT ![x.slot] = ItemEntry(x)])
              /\ IF k["main"] < NumItems
                 THEN start_loop("main", "read", k["main"] + 1)
                 ELSE start_loop("main", "insert", 1)
              /\ UNCHANGED reason
           \/ fault("main") /\ UNCHANGED filev /\ fail_with("metadata_write_failed", k["main"] - 1)
        /\ UNCHANGED <<dbv, running, cap, backup, count, report, tab, job>>

metadata_fill_item ==
    LET x == ItemAt(k["main"])
    IN  /\ pc["main"] = "fill"
        /\ \/ /\ no_fault
              /\ fwrite_table(x.ch, [tab["main"] EXCEPT ![x.slot] = ItemEntry(x)])
              /\ IF k["main"] < NumItems
                 THEN start_loop("main", "read", k["main"] + 1)
                 ELSE start_loop("main", "insert", 1)
              /\ UNCHANGED reason
           \/ fault("main") /\ UNCHANGED filev /\ fail_with("metadata_write_failed", k["main"])
        /\ UNCHANGED <<dbv, running, cap, backup, count, report, tab, job>>

\* file_add of one record; the foreign key needs the task row
record_insert ==
    /\ pc["main"] = "insert"
    /\ \/ /\ db.status[cap.task] # "absent" /\ no_fault
          /\ db_write([db EXCEPT !.recs = @ \cup {ItemRecord(ItemAt(k["main"]))}])
          /\ IF k["main"] < NumItems THEN start_loop("main", "insert", k["main"] + 1)
                                     ELSE goto("main", "count")
          /\ UNCHANGED reason
       \/ /\ IF db.status[cap.task] = "absent" THEN no_fault ELSE fault("main")
          /\ UNCHANGED dbv /\ fail_with("db_insert_failed", NumItems)
    /\ UNCHANGED <<filev, running, cap, backup, count, report, tab, job>>

\* A faulty record_count that counts the files of this capture only.
record_count_of_capture ==
    /\ pc["main"] = "count"
    /\ count' = NumItems /\ no_fault
    /\ goto("main", "total")
    /\ UNCHANGED <<dbv, filev, running, cap, backup, reason, report, tab, job>>

record_count ==
    /\ pc["main"] = "count"
    /\ \E n \in {0, Cardinality(FilesOf(db, cap.task))} :
          file_count("main", cap.task, n) /\ count' = n
    /\ goto("main", "total")
    /\ UNCHANGED <<dbv, filev, running, cap, backup, reason, report, tab, job>>

\* task_total_update, then task_status_update(TASK_COMPLETED)
task_update ==
    /\ pc["main"] = "total"
    /\ \/ /\ db_write(with_status([db EXCEPT !.total[cap.task] =
                         IF db.status[cap.task] = "absent" THEN @ ELSE count],
                                  cap.task, "completed"))
          /\ no_fault /\ goto("main", "commit") /\ UNCHANGED reason
       \/ fault("main") /\ UNCHANGED dbv /\ fail_with("task_update_failed", NumItems)
    /\ UNCHANGED <<filev, running, cap, backup, count, report, tab, job>>

\* A faulty db_commit that ignores what COMMIT returned.
db_commit_unchecked ==
    /\ pc["main"] = "commit"
    /\ \/ saved' = db /\ in_tx' = FALSE /\ UNCHANGED db /\ no_fault
       \/ fault("main") /\ UNCHANGED dbv
    /\ goto("main", "sync_check")
    /\ UNCHANGED <<filev, capv, tab, job>>

db_commit ==
    /\ pc["main"] = "commit"
    /\ \/ /\ saved' = db /\ in_tx' = FALSE /\ UNCHANGED <<db, reason>>
          /\ no_fault /\ goto("main", "sync_check")
       \/ fault("main") /\ UNCHANGED dbv /\ fail_with("db_commit_failed", NumItems)
    /\ UNCHANGED <<filev, running, cap, backup, count, report, tab, job>>

-----------------------------------------------------------------------------
\* rollback_failure

db_rollback ==
    /\ pc["main"] = "rb_db"
    /\ \/ /\ db' = saved /\ in_tx' = FALSE /\ UNCHANGED <<saved, reason>> /\ no_fault
       \/ fault("main") /\ UNCHANGED dbv /\ reason' = "db_rollback_failed"
    /\ goto("main", IF k["main"] = 0 THEN "rb_status" ELSE "rb_truncate")
    /\ UNCHANGED <<filev, running, cap, backup, count, report, tab, job>>

\* A faulty rollback_next that never comes to the end of the items.
rollback_next_stuck == start_loop("main", "rb_truncate", k["main"])

\* the next item down, or the task status once every item is done
rollback_next ==
    IF k["main"] = 1 THEN start_loop("main", "rb_status", 0)
                     ELSE start_loop("main", "rb_truncate", k["main"] - 1)

\* storage_commit_metadata_rollback refuses without a backup
metadata_rollback_open ==
    LET c == ItemAt(k["main"]).ch
    IN  /\ pc["main"] = "rb_truncate"
        /\ IF backup[c] = Nil
           THEN reason' = "metadata_rollback_failed" /\ rollback_next /\ UNCHANGED filev
           ELSE fopen_wb("main", c, "rb_fill") /\ UNCHANGED reason
        /\ UNCHANGED <<dbv, running, cap, backup, count, report, tab, job, used>>

metadata_rollback_write ==
    LET c == ItemAt(k["main"]).ch
    IN  /\ pc["main"] = "rb_fill"
        /\ \/ /\ fwrite_table(c, backup[c]) /\ no_fault
              /\ backup' = [backup EXCEPT ![c] = Nil] /\ UNCHANGED reason
           \/ fault("main") /\ reason' = "metadata_rollback_failed" /\ UNCHANGED <<filev, backup>>
        /\ rollback_next
        /\ UNCHANGED <<dbv, running, cap, count, report, tab, job>>

rollback_status ==
    /\ pc["main"] = "rb_status"
    /\ \/ db_write(with_status(db, cap.task, "failed")) /\ no_fault /\ UNCHANGED reason
       \/ /\ fault("main") /\ UNCHANGED dbv
          /\ reason' = IF reason = "metadata_rollback_failed" THEN reason
                                                 ELSE "task_failed_update_failed"
    /\ finish("failed")
    /\ UNCHANGED <<filev, running, cap, backup, count, tab, job>>

-----------------------------------------------------------------------------
\* sync_filelist_db_to_flash, by the main loop (after a commit or at start-up)
\* or by the maintenance thread.  Both build the same temporary file.

Booting == cap = NoCapture

\* A faulty after_sync that removes the marker whether the sync worked or not.
after_sync_ignored(p, ok) ==
    IF p = "job" THEN /\ job' = [job EXCEPT !.ack = IF ok THEN "success" ELSE "failed"]
                      /\ goto(p, "done")
    ELSE goto(p, IF Booting THEN "unmark" ELSE "complete") /\ UNCHANGED job

after_sync(p, ok) ==
    IF p = "job" THEN /\ job' = [job EXCEPT !.ack = IF ok THEN "success" ELSE "failed"]
                      /\ goto(p, "done")
    ELSE /\ goto(p, IF Booting THEN IF ok THEN "unmark" ELSE "idle"
                    ELSE IF ok THEN "complete" ELSE "pend")
         /\ UNCHANGED job

\* rejected while a worker runs; flash may not be mounted
sync_check(p) ==
    /\ pc[p] = "sync_check"
    /\ \/ running /\ no_fault /\ after_sync(p, FALSE)
       \/ ~running /\ no_fault /\ goto(p, "sync_backup") /\ UNCHANGED job
       \/ ~running /\ fault(p) /\ after_sync(p, FALSE)
    /\ UNCHANGED <<dbv, filev, capv, tab>>

\* sqlite3_backup_step returns SQLITE_LOCKED inside a write transaction
sync_backup(p) ==
    /\ pc[p] = "sync_backup"
    /\ \/ /\ ~in_tx /\ no_fault /\ tmp' = db
          /\ start_loop(p, "sync_meta", 0) /\ UNCHANGED job
       \/ /\ IF in_tx THEN no_fault ELSE fault(p)
          /\ tmp' = Nil /\ after_sync(p, FALSE)
    /\ UNCHANGED <<dbv, meta, flash, outbox, capv, tab>>

\* A faulty sync_meta that leaves out the last channel.
sync_meta_all_but_last(p) ==
    /\ pc[p] = "sync_meta"
    /\ \/ /\ IF k[p] < NumChannels - 1
             THEN /\ flash' = [flash EXCEPT !.meta[k[p]] = meta[k[p]]]
                  /\ start_loop(p, "sync_meta", k[p] + 1)
             ELSE UNCHANGED flash /\ goto(p, "sync_rename")
          /\ no_fault /\ UNCHANGED <<tmp, job>>
       \/ fault(p) /\ UNCHANGED flash /\ tmp' = Nil /\ after_sync(p, FALSE)
    /\ UNCHANGED <<dbv, meta, outbox, capv, tab>>

\* sync_metadata_files_to_flash, one channel
sync_meta(p) ==
    /\ pc[p] = "sync_meta"
    /\ \/ /\ flash' = [flash EXCEPT !.meta[k[p]] = meta[k[p]]] /\ UNCHANGED tmp
          /\ IF k[p] < NumChannels - 1 THEN start_loop(p, "sync_meta", k[p] + 1)
                                       ELSE goto(p, "sync_rename")
          /\ no_fault /\ UNCHANGED job
       \/ fault(p) /\ UNCHANGED flash /\ tmp' = Nil /\ after_sync(p, FALSE)
    /\ UNCHANGED <<dbv, meta, outbox, capv, tab>>

sync_rename(p) ==
    /\ pc[p] = "sync_rename"
    /\ \/ tmp # Nil /\ no_fault /\ flash' = [flash EXCEPT !.db = tmp] /\ after_sync(p, TRUE)
       \/ /\ IF tmp = Nil THEN no_fault ELSE fault(p)
          /\ UNCHANGED flash /\ after_sync(p, FALSE)
    /\ tmp' = Nil
    /\ UNCHANGED <<dbv, meta, outbox, capv, tab>>

-----------------------------------------------------------------------------
\* storage_sync_outbox_mark_pending and _mark_complete.  A call that fails at
\* the fsync of the directory has already made its change.

mark_pending ==
    /\ pc["main"] = "pend"
    /\ \/ /\ no_fault /\ outbox' = outbox \cup {cap.task}
          /\ reason' = "sync_pending" /\ finish("success")
       \/ /\ fault("main") /\ outbox' \in {outbox, outbox \cup {cap.task}}
          /\ reason' = "sync_outbox_persist_failed" /\ finish("failed")
    /\ UNCHANGED <<dbv, meta, tmp, flash, running, cap, backup, count, tab, job>>

mark_complete ==
    /\ pc["main"] = "complete"
    /\ \/ /\ no_fault /\ outbox' = outbox \ {cap.task}
          /\ reason' = "none" /\ finish("success")
       \/ /\ fault("main") /\ outbox' \in {outbox, outbox \ {cap.task}}
          /\ goto("main", "pend") /\ UNCHANGED <<reason, report>>
    /\ UNCHANGED <<dbv, meta, tmp, flash, running, cap, backup, count, tab, job>>

-----------------------------------------------------------------------------
\* The process dies, and starts again with storage_sync_outbox_retry.

crash ==
    /\ pc["main"] # "down"
    /\ used.crashes < MaxCrashes /\ used' = [used EXCEPT !.crashes = @ + 1]
    /\ db' = saved /\ in_tx' = FALSE /\ UNCHANGED saved
    /\ running' = FALSE /\ cap' = NoCapture
    /\ backup' = [c \in Channels |-> Nil] /\ count' = 0 /\ reason' = "not_attempted"
    /\ pc' = [p \in Threads |-> IF p = "main" THEN "down" ELSE "none"]
    /\ k' = [p \in Threads |-> 0] /\ tab' = [p \in Threads |-> EmptyTable]
    /\ job' = NoJob
    /\ UNCHANGED <<filev, report>>

outbox_retry ==
    /\ pc["main"] = "down"
    /\ goto("main", IF outbox = {} THEN "idle" ELSE "sync_check")
    /\ UNCHANGED <<dbv, filev, capv, tab, job, used>>

\* every marker whose removal does not fail is gone
outbox_unmark ==
    /\ pc["main"] = "unmark"
    /\ \/ outbox' = {} /\ no_fault
       \/ outbox # {} /\ fault("main") /\ \E t \in outbox : outbox' = {t}
    /\ goto("main", "idle")
    /\ UNCHANGED <<dbv, meta, tmp, flash, capv, tab, job>>

-----------------------------------------------------------------------------
\* The maintenance thread.

\* The main loop reads a frame between two passes over its tasks.
InLoop == pc["main"] \in {"idle", "capturing", "exit"}

start_maintenance_job(op, t, i) ==
    /\ InLoop /\ job.op = "none"
    /\ OperatorWaits => pc["main"] = "idle"
    /\ used.jobs < MaxJobs /\ used' = [used EXCEPT !.jobs = @ + 1]
    /\ job' = [NoJob EXCEPT !.op = op, !.task = t, !.idx = i]
    /\ goto("job", IF op = "sync" THEN "sync_check" ELSE "check")
    /\ UNCHANGED <<dbv, filev, capv, tab>>

\* service_maintenance_job joins the thread and sends the ACK
service_maintenance_job ==
    /\ InLoop /\ pc["job"] = "done"
    /\ job' = NoJob /\ goto("job", "none")
    /\ UNCHANGED <<dbv, filev, capv, tab, used>>

\* A faulty acknowledge that forgets to set done.
acknowledge_not_done(a) == job' = [job EXCEPT !.ack = a] /\ UNCHANGED <<pc, k>>

acknowledge(a) == job' = [job EXCEPT !.ack = a] /\ goto("job", "done")

\* clear_file_list_records and delete_file_from_command begin alike; the
\* record that file_query_by_index finds is kept in the job
job_check ==
    /\ pc["job"] = "check"
    /\ \/ running /\ no_fault /\ acknowledge("retrying")
       \/ /\ ~running /\ job.op = "clear" /\ no_fault
          /\ start_loop("job", "clear_open", 0) /\ UNCHANGED job
       \/ /\ ~running /\ job.op = "delete" /\ acknowledge("failed")
          /\ IF \E r \in FilesOf(db, job.task) : r.idx = job.idx THEN fault("job") ELSE no_fault
       \/ \E r \in FilesOf(db, job.task) :
             /\ ~running /\ job.op = "delete" /\ r.idx = job.idx /\ no_fault
             /\ job' = [job EXCEPT !.rec = r] /\ goto("job", "delete_read")
    /\ UNCHANGED <<dbv, filev, capv, tab>>

\* A metadata call of the job failed: the job will end with ACK_FAILED.
metadata_error == job' = [job EXCEPT !.ack = "failed"]

\* metadata_clear_all_supported_channels, one channel, then file_clear_all
clear_open == /\ pc["job"] = "clear_open" /\ fopen_wb("job", k["job"], "clear_fill")
              /\ UNCHANGED <<dbv, capv, tab, job, used>>

clear_fill == /\ pc["job"] = "clear_fill"
              /\ \/ fwrite_table(k["job"], EmptyTable) /\ no_fault /\ UNCHANGED job
                 \/ fault("job") /\ UNCHANGED filev /\ metadata_error
              /\ IF k["job"] < NumChannels - 1
                 THEN start_loop("job", "clear_open", k["job"] + 1)
                 ELSE goto("job", "clear_db")
              /\ UNCHANGED <<dbv, capv, tab>>

file_clear_all ==
    /\ pc["job"] = "clear_db"
    /\ \/ /\ ~in_tx /\ job.ack # "failed" /\ no_fault
          /\ db_write(EmptyDb) /\ acknowledge("success")
       \/ /\ IF in_tx \/ job.ack = "failed" THEN no_fault ELSE fault("job")
          /\ UNCHANGED dbv /\ acknowledge("failed")
    /\ UNCHANGED <<filev, capv, tab>>

\* metadata_delete_file; delete_file_from_command goes on when it fails
delete_read ==
    /\ pc["job"] = "delete_read"
    /\ \/ \E table \in {meta[job.rec.ch], EmptyTable} :
          /\ metadata_read("job", job.rec.ch, table)
          /\ IF FileSlots(table, job.task, job.idx) = {}
             THEN goto("job", "delete_db") /\ UNCHANGED tab
             ELSE /\ tab' = [tab EXCEPT !["job"] = without_file(table, job.task, job.idx)]
                  /\ goto("job", "delete_open")
       \/ fault("job") /\ goto("job", "delete_db") /\ UNCHANGED tab
    /\ UNCHANGED <<dbv, filev, capv, job>>

delete_open == /\ pc["job"] = "delete_open"
               /\ fopen_wb("job", job.rec.ch, "delete_fill")
               /\ UNCHANGED <<dbv, capv, tab, job, used>>

delete_fill == /\ pc["job"] = "delete_fill"
               /\ \/ fwrite_table(job.rec.ch, tab["job"]) /\ no_fault
                  \/ fault("job") /\ UNCHANGED filev
               /\ goto("job", "delete_db")
               /\ UNCHANGED <<dbv, capv, tab, job>>

file_delete ==
    /\ pc["job"] = "delete_db"
    /\ \/ /\ db_write([db EXCEPT !.recs = @ \ {job.rec}]) /\ no_fault
          /\ goto("job", "delete_count") /\ UNCHANGED job
       \/ fault("job") /\ UNCHANGED dbv /\ acknowledge("failed")
    /\ UNCHANGED <<filev, capv, tab>>

\* A faulty delete_count that takes the last file for none.
delete_count_off_by_one ==
    /\ pc["job"] = "delete_count"
    /\ \E n \in {0, Cardinality(FilesOf(db, job.task))} :
          /\ file_count("job", job.task, n)
          /\ \/ n <= 1 /\ UNCHANGED <<dbv, job>> /\ start_loop("job", "purge_read", 0)
             \/ n > 1 /\ db_write([db EXCEPT !.total[job.task] = n]) /\ acknowledge("success")
    /\ UNCHANGED <<filev, capv, tab>>

\* what is left of the task: its new total, or nothing and the task goes too
delete_count ==
    /\ pc["job"] = "delete_count"
    /\ \/ \E n \in {0, Cardinality(FilesOf(db, job.task))} :
          /\ file_count("job", job.task, n)
          /\ \/ n = 0 /\ UNCHANGED <<dbv, job>> /\ start_loop("job", "purge_read", 0)
             \/ n > 0 /\ db_write([db EXCEPT !.total[job.task] = n]) /\ acknowledge("success")
       \/ /\ FilesOf(db, job.task) # {} /\ fault("job")
          /\ UNCHANGED dbv /\ acknowledge("failed")
    /\ UNCHANGED <<filev, capv, tab>>

\* metadata_delete_task_all_supported_channels, one channel
purge_next == IF k["job"] < NumChannels - 1
              THEN start_loop("job", "purge_read", k["job"] + 1)
              ELSE goto("job", "purge_task")

purge_read ==
    /\ pc["job"] = "purge_read"
    /\ \/ \E table \in {meta[k["job"]], EmptyTable} :
          /\ metadata_read("job", k["job"], table)
          /\ IF OfTask(table, job.task) = {}
             THEN purge_next /\ UNCHANGED tab
             ELSE /\ tab' = [tab EXCEPT !["job"] = without_task(table, job.task)]
                  /\ goto("job", "purge_open")
          /\ UNCHANGED job
       \/ fault("job") /\ metadata_error /\ purge_next /\ UNCHANGED tab
    /\ UNCHANGED <<dbv, filev, capv>>

purge_open == /\ pc["job"] = "purge_open" /\ fopen_wb("job", k["job"], "purge_fill")
              /\ UNCHANGED <<dbv, capv, tab, job, used>>

purge_fill == /\ pc["job"] = "purge_fill"
              /\ \/ fwrite_table(k["job"], tab["job"]) /\ no_fault /\ UNCHANGED job
                 \/ fault("job") /\ UNCHANGED filev /\ metadata_error
              /\ purge_next
              /\ UNCHANGED <<dbv, capv, tab>>

\* task_delete: the task's files, if there are any, and then its row
purge_task ==
    /\ pc["job"] = "purge_task"
    /\ \/ /\ db_write(task_deleted(db, job.task)) /\ no_fault
          /\ acknowledge(IF job.ack = "failed" THEN "failed" ELSE "success")
       \/ /\ fault("job") /\ acknowledge("failed")
          /\ \/ UNCHANGED dbv
             \/ db_write([db EXCEPT !.recs = @ \ FilesOf(db, job.task)])
    /\ UNCHANGED <<filev, capv, tab>>

-----------------------------------------------------------------------------
commit_step ==
    \/ db_begin \/ record_exists
    \/ metadata_read_item \/ metadata_truncate_item \/ metadata_fill_item
    \/ record_insert \/ record_count \/ task_update \/ db_commit
    \/ db_rollback \/ metadata_rollback_open \/ metadata_rollback_write \/ rollback_status
    \/ mark_pending \/ mark_complete

sync_step(p) == sync_check(p) \/ sync_backup(p) \/ sync_meta(p) \/ sync_rename(p)

main_step == commit_step \/ sync_step("main") \/ outbox_retry \/ outbox_unmark
                \/ workers_exit \/ service_maintenance_job

job_step ==
    \/ sync_step("job") \/ job_check
    \/ clear_open \/ clear_fill \/ file_clear_all
    \/ delete_read \/ delete_open \/ delete_fill \/ file_delete \/ delete_count
    \/ purge_read \/ purge_open \/ purge_fill \/ purge_task

\* What the workers and the operator decide.
environment ==
    \/ \E t \in Tasks, plan \in Plans, missed \in SUBSET Lapses : task_info(t, plan, missed)
    \/ capture_failed
    \/ \E exited \in BOOLEAN : capture_succeeded(exited)
    \/ \E op \in {"sync", "clear"} : start_maintenance_job(op, Nil, Nil)
    \/ \E t \in Tasks, i \in 1 .. MaxIndex : start_maintenance_job("delete", t, i)

Next == main_step \/ job_step \/ environment \/ crash

Spec == Init /\ [][Next]_vars /\ WF_vars(main_step) /\ WF_vars(job_step)

-----------------------------------------------------------------------------
\* The program counters, the fields of the capture and of the job stay in
\* their types; a table holds well-formed entries only.
TypeOK ==
    /\ db \in Databases /\ saved \in Databases
    /\ in_tx \in BOOLEAN /\ running \in BOOLEAN
    /\ meta \in [Channels -> Tables] /\ outbox \subseteq Tasks
    /\ tab \in [Threads -> Tables]
    /\ report \in [Tasks -> {"none", "success", "failed"}]
    /\ pc["job"] = "none" <=> job.op = "none"

\* saved.recs changes as the abstract catalogue does.
FC == INSTANCE FileCatalog WITH files <- saved.recs

\* The durable file list gains whole captures and loses single files, all of a
\* task's or all of them, even if the process dies in the middle of a commit or
\* a call fails, with or without saying so (storage_commit_run_once: the inserts,
\* the total and the status are one transaction).
CommitIsAtomic == FC!Spec

\* Besides, a capture never publishes a (task, file_index) that another file
\* has (download and delete look a file up by it), nor sectors that another
\* listed file of the channel occupies (metadata_alloc_slot_and_lba sees the
\* metadata tables only, so they must agree with the list).
PublishedIsFresh == FC!FreshSpec

\* A file leaves the durable list only by a clear, or by a delete that names its
\* task and its index (README.md:636): nothing else that the program does to the
\* list, not the clean-up of an empty task at 0x11 or after a delete, not a failed
\* commit nor a death, costs a file.
OnlyNamedFilesGo ==
    [][\A r \in saved.recs \ saved'.recs :
          \/ job.op = "clear"
          \/ job.op = "delete" /\ r.task = job.task /\ r.idx = job.idx]_vars

Batch == {ItemRecord(x) : x \in Items}
Entered(x) == meta'[x.ch][x.slot] = ItemEntry(x)

\* A commit reported as a success has every record of the capture durable in
\* filelist.db and every metadata entry on its channel (README.md:581).
SuccessMeansBoth ==
    [][pc["main"] \in {"pend", "complete"} /\ report' # report /\ report'[cap.task] = "success"
          => Batch \subseteq saved'.recs /\ \A x \in Items : Entered(x)]_vars

Unrecoverable == {"metadata_rollback_failed", "db_rollback_failed"}

\* A commit that rolls back leaves no record of the capture and gives every
\* metadata table back as it was, unless the rollback itself failed, which it
\* then says (BOARD_THREE_NVME_TEST_PLAN.md:46).
FailureLeavesNothing ==
    [][pc["main"] = "rb_status" /\ reason \notin Unrecoverable
          => saved'.recs \cap Batch = {} /\ meta' = cap.before]_vars

Settled == pc["main"] \in {"idle", "capturing", "exit"} /\ pc["job"] = "none"

\* Between commands every listed file has its entry in the table of its
\* channel.  The allocator looks at the tables alone, so a listed file without
\* an entry is a file whose sectors the next capture may be given.
ListedHasEntry ==
    Settled => \A r \in saved.recs :
        \E s \in Slots : meta[r.ch][s] = [task |-> r.task, idx |-> r.idx, lba |-> r.lba]

\* When the last capture of a task was reported a success, every listed file of
\* the task is in the flash replica or owed by the task's marker: the operator
\* is never told "success" for a file that no restart will replicate.
ReplicaOrPending ==
    Settled => \A r \in saved.recs : report[r.task] = "success"
                  => r \in flash.db.recs \/ r.task \in outbox

\* A marker disappears only when flash holds every committed file of its task,
\* also when the retry runs after a restart.
MarkerOutlivesDebt ==
    [][\A t \in outbox \ outbox' : FilesOf(saved, t) \subseteq flash.db.recs]_vars

\* A replica is published complete: when filelist.db appears on flash, the entry
\* of every file it lists is in the replicated table of its channel (the tables
\* are renamed before the database is).
ReplicaIsComplete ==
    [][flash'.db # flash.db => \A r \in flash'.db.recs :
          \E s \in Slots : flash'.meta[r.ch][s] = [task |-> r.task, idx |-> r.idx, lba |-> r.lba]]_vars

\* total_files of a completed task is the number of files listed for it.
TotalsExact ==
    Settled => \A t \in Tasks : saved.status[t] = "completed"
                                   => saved.total[t] = Cardinality(FilesOf(saved, t))

\* Every commit comes to its report and every maintenance job to its ACK.
CommitEnds == pc["main"] = "begin" ~> pc["main"] \in {"idle", "exit"}
JobEnds == pc["job"] \in {"check", "sync_check"} ~> pc["job"] = "none"

\* README.md:423: the next automatic LBA allocation cannot reuse an existing
\* file range after reboot.
RangesDisjoint == \A r, q \in saved.recs : FC!SameRange(r, q) => r = q
=============================================================================
