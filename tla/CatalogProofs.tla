--------------------------- MODULE CatalogProofs ----------------------------
(***************************************************************************)
(* Proofs about Catalog for every number of tasks, channels, table slots,  *)
(* captures and maintenance jobs.                                          *)
(***************************************************************************)
EXTENDS Catalog, FiniteSetTheorems, SequenceTheorems, WellFoundedInduction, TLAPS

(* Operators that name their arguments instead of reading a variable, so that
   they can be used in the old and in the new state alike.                 *)

ItemsOf(c) == {c.items[i] : i \in DOMAIN c.items}

\* The item that storage_commit_run_once handles as its n-th.
At(c, n) == CHOOSE x \in ItemsOf(c) : Cardinality({y \in ItemsOf(c) : y.ch <= x.ch}) = n

RecordOf(c, x) == [task |-> c.task, idx |-> x.idx, ch |-> x.ch, lba |-> x.lba]
EntryOf(c, x) == [task |-> c.task, idx |-> x.idx, lba |-> x.lba]
BatchOf(c) == {RecordOf(c, x) : x \in ItemsOf(c)}

\* The channels of the first n items.
Touched(c, n) == {At(c, j).ch : j \in 1 .. n}

-----------------------------------------------------------------------------
(* Types.  The index of a file and the first of its sectors are bounded by
   the number of captures b.                                               *)

Files(b) == [task : Tasks, idx : 1 .. b * NumChannels, ch : Channels, lba : 0 .. b - 1]
Entries(b) == [task : Tasks, idx : 1 .. b * NumChannels, lba : 0 .. b - 1]
TablesUpTo(b) == [Slots -> Entries(b) \cup {Nil}]
DbUpTo(b) == [recs : SUBSET Files(b), status : [Tasks -> Status], total : [Tasks -> Nat]]
Item(b) == [ch : Channels, slot : Slots \cup {Nil}, lba : 0 .. b - 1,
            idx : 1 .. b * NumChannels]

\* A capture as task_info makes it: the low-speed channel first.
CaptureOK(c, b) ==
    /\ c.task \in Tasks
    /\ c.before \in [Channels -> TablesUpTo(b)]
    /\ c.items \in Seq(Item(b))
    /\ Len(c.items) \in {1, NumChannels}
    /\ c.items[1].ch = Low
    /\ \A i \in 2 .. Len(c.items) : c.items[i].ch = i - 2

DbInv(b) ==
    /\ db \in DbUpTo(b) /\ saved \in DbUpTo(b)
    /\ IsFiniteSet(db.recs) /\ IsFiniteSet(saved.recs)
    /\ tmp \in DbUpTo(b) \cup {Nil}
    /\ flash.db \in DbUpTo(b)
    /\ in_tx \in BOOLEAN /\ count \in Nat

TabInv(b) ==
    /\ meta \in [Channels -> TablesUpTo(b)]
    /\ tab \in [Threads -> TablesUpTo(b)]
    /\ backup \in [Channels -> TablesUpTo(b) \cup {Nil}]
    /\ flash \in [db : DbUpTo(b), meta : [Channels -> TablesUpTo(b)]]

SyncPcs == {"sync_check", "sync_backup", "sync_meta", "sync_rename"}
TxPcs == {"exists", "read", "truncate", "fill", "insert", "count", "total", "commit"}
RollbackPcs == {"rb_db", "rb_truncate", "rb_fill", "rb_status"}
CommitPcs == {"capturing", "begin", "pend", "complete"} \cup TxPcs \cup RollbackPcs
MainPcs == {"idle", "down", "exit", "unmark"} \cup CommitPcs \cup SyncPcs
ClearPcs == {"clear_open", "clear_fill"}
DeletePcs == {"delete_read", "delete_open", "delete_fill", "delete_db"}
PurgePcs == {"purge_read", "purge_open", "purge_fill", "purge_task"}
JobPcs == {"none", "done", "check", "clear_db", "delete_count"}
              \cup SyncPcs \cup ClearPcs \cup DeletePcs \cup PurgePcs

\* Where a main loop at l with loop index n can be, with capture c and backups bk, ...
MainPlace(l, n, c, bk, b) ==
    /\ l \in MainPcs /\ n \in Nat
    /\ c = NoCapture \/ CaptureOK(c, b)
    /\ l \in CommitPcs => CaptureOK(c, b)
    /\ l = "unmark" => c = NoCapture
    /\ l \in {"begin"} \cup TxPcs \cup RollbackPcs => \A x \in ItemsOf(c) : x.slot \in Slots
    /\ l \in {"read", "truncate", "fill", "insert", "rb_truncate", "rb_fill"}
          => n \in 1 .. Len(c.items)
    /\ l = "rb_db" => n \in 0 .. Len(c.items)
    /\ l = "rb_status" => n = 0
    /\ l = "rb_fill" => bk[At(c, n).ch] # Nil
    /\ l = "sync_meta" => n \in Channels

\* ... and where a maintenance thread can be with job j.
JobPlace(l, n, j, b) ==
    /\ l \in JobPcs /\ n \in Nat
    /\ j \in [op : {"none", "sync", "clear", "delete"}, task : Tasks \cup {Nil},
              idx : Nat \cup {Nil}, rec : Files(b) \cup {Nil},
              ack : {"retrying", "success", "failed", Nil}]
    /\ l = "none" <=> j.op = "none"
    /\ l \in ClearPcs \cup {"purge_read", "purge_open", "purge_fill", "sync_meta"}
          => n \in Channels
    /\ j.op = "delete" => j.task \in Tasks
    /\ l \in ClearPcs \cup {"clear_db"} => j.op = "clear"
    /\ l \in DeletePcs \cup PurgePcs \cup {"delete_count"} => j.op = "delete"
    /\ l \in DeletePcs => j.rec \in Files(b) /\ j.rec.task = j.task /\ j.rec.idx = j.idx

CtlInv(b) ==
    /\ running \in BOOLEAN /\ outbox \subseteq Tasks
    /\ report \in [Tasks -> {"none", "success", "failed"}]
    /\ pc = [p \in Threads |-> pc[p]] /\ k \in [Threads -> Nat]
    /\ MainPlace(pc["main"], k["main"], cap, backup, b)

JobInv(b) == JobPlace(pc["job"], k["job"], job, b)

UsedInv ==
    /\ used \in [captures : Nat, faults : Nat, crashes : Nat, jobs : Nat]
    /\ used.captures <= MaxCaptures /\ used.faults <= MaxFaults
    /\ used.crashes <= MaxCrashes /\ used.jobs <= MaxJobs

TypeInv ==
    /\ UsedInv /\ DbInv(used.captures) /\ TabInv(used.captures)
    /\ CtlInv(used.captures) /\ JobInv(used.captures)

-----------------------------------------------------------------------------
(* Transactions.                                                           *)

\* The operator gives no maintenance command while a capture is under way.
OneAtATime == OperatorWaits \/ MaxJobs = 0

\* A statement that counts files or looks for the next index does not fail unnoticed,
\* and metadata_read does not take a table it cannot open for an empty one.
CountsKnown == "count" \notin SilentFaults
IndicesKnown == "index" \notin SilentFaults
TablesOpen == "fopen" \notin SilentFaults

\* A file index that is wrong because nobody could look it up is found out.
NamesChecked == IndicesKnown \/ "query" \notin SilentFaults

\* Every listed file of the task comes before the items of the capture, ...
Ahead(recs) == \A r \in recs, x \in ItemsOf(cap) : r.task = cap.task => r.idx < x.idx

\* ... or at least none has the name of one.
Unlisted(recs) == \A r \in recs, x \in ItemsOf(cap) : r.task = cap.task => r.idx # x.idx

TxInv ==
    /\ ~in_tx => db = saved
    /\ pc["main"] \in TxPcs => in_tx
    /\ job.op # "none" => pc["main"] = "idle"
    /\ CountsKnown /\ pc["job"] \in PurgePcs => FilesOf(db, job.task) = {}
    /\ IndicesKnown /\ pc["main"] \in {"capturing", "begin"} => Ahead(db.recs)
    /\ IndicesKnown /\ pc["main"] \in TxPcs \cup RollbackPcs => Ahead(saved.recs)
    /\ NamesChecked /\ pc["main"] \in TxPcs \ {"exists"} => Unlisted(saved.recs)
    /\ pc["main"] \in {"exists", "read", "truncate", "fill"} => db.recs = saved.recs
    /\ pc["main"] = "insert"
          => db.recs = saved.recs \cup {RecordOf(cap, At(cap, j)) : j \in 1 .. k["main"] - 1}
    /\ pc["main"] \in {"count", "total", "commit"} => db.recs = saved.recs \cup BatchOf(cap)

(* The replica on flash and the outbox.                                    *)
ReplicaInv ==
    /\ \A p \in Threads : pc[p] \in {"sync_meta", "sync_rename"} => tmp = saved
    /\ pc["main"] \in {"complete", "unmark"} => saved.recs \subseteq flash.db.recs
    /\ pc["main"] \in SyncPcs \cup {"down"} => ~in_tx
    /\ pc["main"] = "down" => cap = NoCapture
    /\ pc["main"] \in CommitPcs \cup SyncPcs /\ cap # NoCapture => report[cap.task] = "none"
    /\ \A r \in saved.recs : report[r.task] = "success"
          => r \in flash.db.recs \/ r.task \in outbox

(* What the commit does to the metadata tables.                            *)
AsBefore(S) == \A c \in S : meta[c] = cap.before[c]
BackedUp(n) == \A c \in Touched(cap, n) : backup[c] = cap.before[c]
\* The table of x.ch has the entry of x, and is otherwise as it was.
Filled(x) ==
    /\ meta[x.ch][x.slot] = EntryOf(cap, x)
    /\ \A s \in Slots \ {x.slot} : meta[x.ch][s] = cap.before[x.ch][s]
EnteredUpTo(n) == \A j \in 1 .. n : Filled(At(cap, j))

MetaInv ==
    /\ pc["main"] \in {"capturing", "begin"} \cup TxPcs \cup RollbackPcs
          => \A c \in Channels : backup[c] \in {Nil, cap.before[c]}
    /\ pc["main"] \in {"capturing", "begin", "exists"} => meta = cap.before
    /\ pc["main"] \in {"read", "truncate"} => AsBefore(Channels \ Touched(cap, k["main"] - 1))
    /\ pc["main"] = "fill" => AsBefore(Channels \ Touched(cap, k["main"]))
    /\ pc["main"] \in {"insert", "count", "total", "commit"}
          => AsBefore(Channels \ Touched(cap, NumItems))
    /\ pc["main"] = "read" => BackedUp(k["main"] - 1)
    /\ pc["main"] \in {"truncate", "fill"}
          => BackedUp(k["main"]) /\ tab["main"] = cap.before[At(cap, k["main"]).ch]
    /\ pc["main"] \in {"insert", "count", "total", "commit"} => BackedUp(NumItems)
    /\ pc["main"] \in {"read", "truncate", "fill"} => EnteredUpTo(k["main"] - 1)
    /\ pc["main"] \in {"insert", "count", "total", "commit", "pend", "complete"} \cup SyncPcs
          /\ cap # NoCapture => EnteredUpTo(NumItems)
    /\ pc["main"] \in RollbackPcs
          => reason \in Unrecoverable \/ AsBefore(Channels \ Touched(cap, k["main"]))
    /\ pc["main"] = "rb_fill" => backup[At(cap, k["main"]).ch] = cap.before[At(cap, k["main"]).ch]

\* The entries that the commit has written, whatever else is in the tables.
EntriesUpTo(n) ==
    \A j \in 1 .. n : meta[At(cap, j).ch][At(cap, j).slot] = EntryOf(cap, At(cap, j))

EntryInv ==
    /\ pc["main"] \in {"read", "truncate", "fill"} => EntriesUpTo(k["main"] - 1)
    /\ pc["main"] \in {"insert", "count", "total", "commit", "pend", "complete"} \cup SyncPcs
          /\ cap # NoCapture => EntriesUpTo(NumItems)
    /\ pc["main"] \in {"pend", "complete"} \cup SyncPcs
          /\ cap # NoCapture => BatchOf(cap) \subseteq saved.recs

-----------------------------------------------------------------------------
(* total_files.  Only the deletion of a file leaves the total of a completed
   task behind, until it has counted what is left or removed the task.     *)

\* No call of a maintenance job fails and no death interrupts one.
JobsUndisturbed == MaxJobs = 0 \/ (OperatorWaits /\ MaxCrashes = 0 /\ "job" \notin FaultyThreads)

Exact(d, t) == d.status[t] = "completed" => d.total[t] = Cardinality(FilesOf(d, t))

TotalInv ==
    /\ job.op # "none" => used.jobs > 0
    /\ \A t \in Tasks : \/ Exact(saved, t)
                        \/ /\ ~in_tx /\ t = job.task
                           /\ pc["job"] \in {"delete_count"} \cup PurgePcs
    /\ pc["main"] \in ({"capturing", "begin"} \cup TxPcs) \ {"commit"}
          => db.status[cap.task] # "completed"
    /\ pc["main"] \in TxPcs => \A t \in Tasks \ {cap.task} : Exact(db, t)
    /\ pc["main"] = "total" => count = Cardinality(FilesOf(db, cap.task))
    /\ pc["main"] = "commit" => Exact(db, cap.task)

-----------------------------------------------------------------------------
(* The list and the tables.                                                *)

\* Besides, the process does not die, and at most one call of a commit fails, in
\* such a way that its caller knows.
CommitsRecoverable == /\ OneAtATime /\ MaxCrashes = 0 /\ MaxFaults <= 1
                      /\ "job" \notin FaultyThreads \/ MaxJobs = 0
                      /\ TablesOpen /\ CountsKnown /\ IndicesKnown

FileOf(c, e) == [task |-> e.task, idx |-> e.idx, ch |-> c, lba |-> e.lba]
EntryFor(r) == [task |-> r.task, idx |-> r.idx, lba |-> r.lba]

\* Every file has its entry, every entry its file, no file two of them; no two files
\* share a name or their sectors.
Listed(recs, tables) == \A r \in recs : \E s \in Slots : tables[r.ch][s] = EntryFor(r)
Backed(recs, tables) ==
    \A c \in Channels, s \in Slots : tables[c][s] # Nil => FileOf(c, tables[c][s]) \in recs
Once(tables) == \A c \in Channels, s, q \in Slots :
    tables[c][s] # Nil /\ tables[c][s] = tables[c][q] => s = q
Distinct(recs) == \A r, q \in recs :
    (r.task = q.task /\ r.idx = q.idx) \/ (r.ch = q.ch /\ r.lba = q.lba) => r = q
Agree(recs, tables) ==
    Listed(recs, tables) /\ Backed(recs, tables) /\ Once(tables) /\ Distinct(recs)

\* The capture was given free slots, free sectors and names of its own.
Fits == \A x \in ItemsOf(cap) :
    /\ x.slot # Nil => cap.before[x.ch][x.slot] = Nil
    /\ \A r \in saved.recs : r.ch = x.ch => r.lba < x.lba
    /\ \A y \in ItemsOf(cap) : x.idx = y.idx => x = y

CaptureListInv ==
    /\ in_tx => pc["main"] \in TxPcs \cup {"rb_db"}
    /\ pc["main"] # "down"
    /\ pc["main"] \in RollbackPcs => used.faults >= MaxFaults
    /\ pc["main"] \in {"capturing", "begin"} \cup TxPcs \cup RollbackPcs
          => Agree(saved.recs, cap.before)
    /\ pc["main"] \in {"capturing", "begin"} \cup TxPcs
          => Fits /\ db.status[cap.task] # "absent"
    /\ pc["main"] \in RollbackPcs => \A c \in Channels :
          meta[c] = cap.before[c] \/ (c \in Touched(cap, k["main"]) /\ backup[c] = cap.before[c])
    /\ pc["main"] \in {"begin"} \cup TxPcs => \A x \in ItemsOf(cap) : x.slot # Nil
    /\ pc["main"] \in {"idle", "exit", "pend", "complete", "unmark"} \cup SyncPcs
          => \/ Agree(saved.recs, meta)
             \/ pc["job"] \in ClearPcs \cup {"clear_db", "delete_fill", "delete_db"}

JobListInv ==
    /\ job.op # "none" => used.jobs > 0
    /\ pc["job"] \in ClearPcs \cup {"check", "clear_db"} => job.ack # "failed"
    /\ pc["job"] = "clear_open" => \A c \in Channels : c < k["job"] => meta[c] = EmptyTable
    /\ pc["job"] = "clear_fill" => \A c \in Channels : c <= k["job"] => meta[c] = EmptyTable
    /\ pc["job"] = "clear_db" => \A c \in Channels : meta[c] = EmptyTable
    /\ pc["job"] \in DeletePcs => job.rec \in saved.recs
    /\ pc["job"] \in {"delete_open", "delete_fill"}
          => Agree(saved.recs \ {job.rec}, [meta EXCEPT ![job.rec.ch] = tab["job"]])
    /\ pc["job"] = "delete_db" => Agree(saved.recs \ {job.rec}, meta)
    /\ pc["job"] \notin {"purge_open", "purge_fill"}

CopyInv ==
    \A p \in Threads :
        /\ pc[p] = "sync_meta" => \A c \in Channels : c < k[p] => flash.meta[c] = meta[c]
        /\ pc[p] = "sync_rename" => \A c \in Channels : flash.meta[c] = meta[c]

-----------------------------------------------------------------------------
(* Facts about the operators.                                              *)

LEMMA LeastNumber ==
  ASSUME NEW S \in SUBSET Nat, S # {}
  PROVE  \E x \in S : \A y \in S : x <= y
  <1> DEFINE R == {ss \in Nat \X Nat : ss[1] < ss[2]}
  <1>1. IsWellFoundedOn(R, Nat)
    BY NatLessThanWellFounded DEF OpToRel
  <1>2. \E x \in S : \A y \in S : ~(<<y, x>> \in R)
    <2> HIDE DEF R
    <2> QED BY <1>1, WFMin
  <1>3. PICK x \in S : \A y \in S : ~(<<y, x>> \in R)
    BY <1>2
  <1>4. \A y \in S : ~(y < x)
    BY <1>3
  <1> QED BY <1>4

LEMMA MinOf ==
  ASSUME NEW S \in SUBSET Nat, S # {}
  PROVE  Min(S) \in S /\ \A y \in S : Min(S) <= y
  BY LeastNumber DEF Min

\* A bounded set of numbers has a maximum.
LEMMA MaxOf ==
  ASSUME NEW b \in Nat, NEW S \in SUBSET (0 .. b), S # {}
  PROVE  Max(S) \in S /\ \A y \in S : y <= Max(S)
  <1> DEFINE T == {b - x : x \in S}
  <1>1. T \in SUBSET Nat /\ T # {}
    <2>1. \A x \in S : b - x \in Nat
      OBVIOUS
    <2> QED BY <2>1
  <1>2. PICK m \in T : \A y \in T : m <= y
    <2> HIDE DEF T
    <2> QED BY <1>1, LeastNumber
  <1>3. PICK x \in S : m = b - x
    OBVIOUS
  <1>4. \A y \in S : b - y \in T
    OBVIOUS
  <1>5. \A y \in S : x >= y
    BY <1>2, <1>3, <1>4
  <1>6. \E z \in S : \A y \in S : z >= y
    BY <1>5
  <1> QED BY <1>6 DEF Max

\* A bound on the captures is a bound on what they use.
LEMMA LargerBound ==
  ASSUME NEW a \in Nat, NEW b \in Nat, a <= b
  PROVE  /\ a * NumChannels \in Nat /\ b * NumChannels \in Nat
         /\ a * NumChannels <= b * NumChannels
  BY CatalogAssumption, SMT

LEMMA MoreCaptures ==
  ASSUME NEW b \in Nat
  PROVE  /\ Files(b) \subseteq Files(b + 1) /\ Entries(b) \subseteq Entries(b + 1)
         /\ TablesUpTo(b) \subseteq TablesUpTo(b + 1) /\ DbUpTo(b) \subseteq DbUpTo(b + 1)
  <1>1. /\ b * NumChannels \in Nat /\ (b + 1) * NumChannels \in Nat
        /\ b * NumChannels <= (b + 1) * NumChannels
    BY LargerBound
  <1>2. 1 .. b * NumChannels \subseteq 1 .. (b + 1) * NumChannels
    BY <1>1
  <1>3. 0 .. b - 1 \subseteq 0 .. b + 1 - 1
    OBVIOUS
  <1>4. Files(b) \subseteq Files(b + 1)
    BY <1>2, <1>3 DEF Files
  <1>5. Entries(b) \subseteq Entries(b + 1)
    BY <1>2, <1>3 DEF Entries
  <1>6. TablesUpTo(b) \subseteq TablesUpTo(b + 1)
    BY <1>5 DEF TablesUpTo
  <1>7. DbUpTo(b) \subseteq DbUpTo(b + 1)
    BY <1>4 DEF DbUpTo
  <1> QED BY <1>4, <1>5, <1>6, <1>7

LEMMA EmptyTypes ==
  ASSUME NEW b \in Nat
  PROVE  EmptyTable \in TablesUpTo(b) /\ EmptyDb \in DbUpTo(b) /\ IsFiniteSet(EmptyDb.recs)
  BY FS_EmptySet DEF EmptyTable, TablesUpTo, EmptyDb, DbUpTo, Status

LEMMA EmptyHasNone ==
  ASSUME NEW t
  PROVE  OfTask(EmptyTable, t) = {} /\ \A i : FileSlots(EmptyTable, t, i) = {}
  BY DEF OfTask, FileSlots, Valid, EmptyTable

\* What the statements do to a data base.
LEMMA StatementTypes ==
  ASSUME NEW b \in Nat, NEW d \in DbUpTo(b), NEW t \in Tasks
  PROVE  /\ \A s \in Status : with_status(d, t, s) \in DbUpTo(b)
         /\ \A s \in Status : with_status(d, t, s).recs = d.recs
         /\ task_deleted(d, t) \in DbUpTo(b)
         /\ task_deleted(d, t).recs = d.recs \ FilesOf(d, t)
         /\ \A n \in Nat : [d EXCEPT !.total[t] = n] \in DbUpTo(b)
         /\ \A S \in SUBSET Files(b) : [d EXCEPT !.recs = S] \in DbUpTo(b)
  <1>1. \A s \in Status : with_status(d, t, s) \in DbUpTo(b) /\ with_status(d, t, s).recs = d.recs
    BY DEF with_status, DbUpTo
  <1>2. task_deleted(d, t) \in DbUpTo(b) /\ task_deleted(d, t).recs = d.recs \ FilesOf(d, t)
    BY DEF task_deleted, FilesOf, DbUpTo, Status
  <1>3. /\ \A n \in Nat : [d EXCEPT !.total[t] = n] \in DbUpTo(b)
        /\ \A S \in SUBSET Files(b) : [d EXCEPT !.recs = S] \in DbUpTo(b)
    BY DEF DbUpTo
  <1> QED BY <1>1, <1>2, <1>3

\* What deleting does to a table.
LEMMA TableTypes ==
  ASSUME NEW b \in Nat, NEW table \in TablesUpTo(b), NEW t
  PROVE  /\ without_task(table, t) \in TablesUpTo(b)
         /\ \A i : without_file(table, t, i) \in TablesUpTo(b)
         /\ \A s \in Slots, e \in Entries(b) : [table EXCEPT ![s] = e] \in TablesUpTo(b)
  BY DEF without_task, without_file, TablesUpTo

LEMMA FilesFinite ==
  ASSUME NEW b \in Nat, NEW d \in DbUpTo(b), NEW t, IsFiniteSet(d.recs)
  PROVE  IsFiniteSet(FilesOf(d, t)) /\ Cardinality(FilesOf(d, t)) \in Nat
  <1>1. FilesOf(d, t) \in SUBSET d.recs
    BY DEF FilesOf
  <1> QED BY <1>1, FS_Subset, FS_CardinalityType

-----------------------------------------------------------------------------
(* The items of a capture.                                                 *)

\* The n-th item is the one of the n-th channel of the plan.
LEMMA ItemCount ==
  ASSUME NEW b \in Nat, NEW c, CaptureOK(c, b)
  PROVE  /\ Len(c.items) \in Nat \ {0} /\ DOMAIN c.items = 1 .. Len(c.items)
         /\ ItemsOf(c) \subseteq Item(b)
         /\ \A x \in ItemsOf(c) : \E n \in 1 .. Len(c.items) :
               Cardinality({y \in ItemsOf(c) : y.ch <= x.ch}) = n
         /\ \A n \in 1 .. Len(c.items) : \E x \in ItemsOf(c) :
               Cardinality({y \in ItemsOf(c) : y.ch <= x.ch}) = n
         /\ \A x, y \in ItemsOf(c) :
               Cardinality({z \in ItemsOf(c) : z.ch <= x.ch})
                  = Cardinality({z \in ItemsOf(c) : z.ch <= y.ch}) => x = y
         /\ \A x, y \in ItemsOf(c) : x.ch = y.ch => x = y
         /\ {x.ch : x \in ItemsOf(c)} \in {{Low}, Channels}
  <1> DEFINE n == Len(c.items)
             It(i) == c.items[i]
             upto(x) == {y \in ItemsOf(c) : y.ch <= x.ch}
  <1>1. n \in Nat \ {0} /\ DOMAIN c.items = 1 .. n /\ \A i \in 1 .. n : It(i) \in Item(b)
    BY CatalogAssumption DEF CaptureOK
  <1>2. ItemsOf(c) = {It(i) : i \in 1 .. n} /\ ItemsOf(c) \subseteq Item(b)
    BY <1>1 DEF ItemsOf
  <1>3. /\ It(1).ch = NumChannels - 1 /\ \A i \in 2 .. n : It(i).ch = i - 2
        /\ n = 1 \/ n = NumChannels
    BY DEF CaptureOK, Low
  <1>4. \A i, j \in 1 .. n : It(i).ch = It(j).ch => i = j
    <2> SUFFICES ASSUME NEW i \in 1 .. n, NEW j \in 1 .. n, It(i).ch = It(j).ch PROVE i = j
      OBVIOUS
    <2>1. /\ i = 1 \/ (i \in 2 .. n /\ It(i).ch = i - 2)
          /\ j = 1 \/ (j \in 2 .. n /\ It(j).ch = j - 2)
      BY <1>1, <1>3
    <2> HIDE DEF It, n
    <2> QED BY <2>1, <1>1, <1>3, CatalogAssumption
  <1>5. \A x, y \in ItemsOf(c) : x.ch = y.ch => x = y
    BY <1>2, <1>4
  <1>6. CASE n = 1
    <2>1. ItemsOf(c) = {It(1)}
      BY <1>2, <1>6
    <2>2. It(1).ch <= It(1).ch
      BY <1>3, CatalogAssumption
    <2>3. upto(It(1)) = {It(1)}
      BY <2>1, <2>2
    <2>4. Cardinality({It(1)}) = 1
      BY FS_Singleton
    <2>5. {x.ch : x \in ItemsOf(c)} = {Low}
      BY <2>1, <1>3 DEF Low
    <2>6. 1 \in 1 .. n /\ \A i \in 1 .. n : i = 1
      BY <1>6
    <2> DEFINE one == It(1)
    <2>7. \A x \in ItemsOf(c) : Cardinality(upto(x)) = 1
      BY <2>1, <2>3, <2>4
    <2>8. \A x, y \in ItemsOf(c) : x = y
      BY <2>1
    <2>9. one \in ItemsOf(c)
      BY <2>1
    <2> HIDE DEF n, one, upto
    <2>10. \A x \in ItemsOf(c) : \E i \in 1 .. n : Cardinality(upto(x)) = i
      BY <2>6, <2>7
    <2>11. \A i \in 1 .. n : \E x \in ItemsOf(c) : Cardinality(upto(x)) = i
      BY <2>6, <2>7, <2>9
    <2> QED BY <1>1, <1>2, <1>5, <2>5, <2>8, <2>10, <2>11 DEF n, upto
  <1>7. CASE n = NumChannels
    <2> DEFINE Of(m) == IF m = NumChannels - 1 THEN It(1) ELSE It(m + 2)
    <2>1. \A m \in Channels : Of(m) \in ItemsOf(c) /\ Of(m).ch = m
      BY SMTT(30), <1>1, <1>2, <1>3, <1>7, CatalogAssumption DEF Channels
    <2>2. \A x \in ItemsOf(c) : x.ch \in Channels /\ x = Of(x.ch)
      <3> SUFFICES ASSUME NEW x \in ItemsOf(c) PROVE x.ch \in Channels /\ x = Of(x.ch)
        OBVIOUS
      <3>1. x.ch \in Channels
        BY <1>2 DEF Item
      <3> HIDE DEF Of
      <3> QED BY <3>1, <2>1, <1>5
    <2>3. ASSUME NEW m \in Channels
          PROVE  Cardinality({y \in ItemsOf(c) : y.ch <= m}) = m + 1
      <3> DEFINE U == {y \in ItemsOf(c) : y.ch <= m}
                 f == [i \in 1 .. m + 1 |-> Of(i - 1)]
      <3> HIDE DEF Of
      <3>1. m + 1 \in Nat /\ \A i \in 1 .. m + 1 : i - 1 \in Channels
        BY CatalogAssumption DEF Channels
      <3>2. f \in [1 .. m + 1 -> U]
        <4>1. \A i \in 1 .. m + 1 : i - 1 <= m /\ Of(i - 1) \in ItemsOf(c) /\ Of(i - 1).ch = i - 1
          BY <3>1, <2>1, CatalogAssumption DEF Channels
        <4>2. \A i \in 1 .. m + 1 : Of(i - 1) \in U
          BY <4>1
        <4> HIDE DEF U
        <4> QED BY <4>2
      <3>3. \A i, j \in 1 .. m + 1 : f[i] = f[j] => i = j
        <4> SUFFICES ASSUME NEW i \in 1 .. m + 1, NEW j \in 1 .. m + 1, f[i] = f[j]
                     PROVE  i = j
          OBVIOUS
        <4>1. Of(i - 1).ch = i - 1 /\ Of(j - 1).ch = j - 1
          BY <3>1, <2>1
        <4> QED BY <4>1, <3>1
      <3>4. \A y \in U : \E i \in 1 .. m + 1 : f[i] = y
        <4> SUFFICES ASSUME NEW y \in U PROVE \E i \in 1 .. m + 1 : f[i] = y
          OBVIOUS
        <4>1. y.ch \in Channels /\ y = Of(y.ch) /\ y.ch <= m
          BY <2>2
        <4> DEFINE i == y.ch + 1
        <4>2. i \in 1 .. m + 1 /\ i - 1 = y.ch
          BY <4>1, CatalogAssumption DEF Channels
        <4>3. f[i] = Of(i - 1)
          BY <4>2
        <4> HIDE DEF i, f
        <4> QED BY <4>1, <4>2, <4>3
      <3>5. ExistsBijection(1 .. m + 1, U)
        <4> HIDE DEF f, U
        <4>1. f \in Bijection(1 .. m + 1, U)
          BY <3>2, <3>3, <3>4 DEF Bijection, Injection, Surjection, IsInjective
        <4> QED BY <4>1 DEF ExistsBijection
      <3> QED BY <3>1, <3>5, FS_CountingElements
    <2> HIDE DEF Of
    <2>4. \A x \in ItemsOf(c) : Cardinality(upto(x)) = x.ch + 1
      BY <2>2, <2>3
    <2>5. \A x \in ItemsOf(c) : x.ch + 1 \in 1 .. n /\ x.ch \in Int
      BY <2>2, <1>7, CatalogAssumption DEF Channels
    <2>6. \A i \in 1 .. n : i - 1 \in Channels /\ i - 1 + 1 = i
      BY <1>7, CatalogAssumption DEF Channels
    <2>7. \A i \in 1 .. n : Of(i - 1) \in ItemsOf(c) /\ Of(i - 1).ch + 1 = i
      BY <2>1, <2>6
    <2>8. {x.ch : x \in ItemsOf(c)} = Channels
      BY <2>1, <2>2
    <2> HIDE DEF n
    <2>9. \A x, y \in ItemsOf(c) : Cardinality(upto(x)) = Cardinality(upto(y)) => x = y
      BY <2>4, <2>5, <1>5
    <2>10. \A i \in 1 .. n : \E x \in ItemsOf(c) : Cardinality(upto(x)) = i
      BY <2>4, <2>7
    <2>11. \A x \in ItemsOf(c) : \E i \in 1 .. n : Cardinality(upto(x)) = i
      BY <2>4, <2>5
    <2> QED BY <1>1, <1>2, <1>5, <2>8, <2>9, <2>10, <2>11 DEF n
  <1> QED BY <1>3, <1>6, <1>7

\* storage_commit_run_once goes over the items once, channel by channel.
LEMMA ItemsInOrder ==
  ASSUME NEW b \in Nat, NEW c, CaptureOK(c, b)
  PROVE  /\ Len(c.items) \in Nat \ {0} /\ DOMAIN c.items = 1 .. Len(c.items)
         /\ ItemsOf(c) \subseteq Item(b)
         /\ \A n \in 1 .. Len(c.items) : At(c, n) \in ItemsOf(c) /\ At(c, n) \in Item(b)
         /\ \A x \in ItemsOf(c) : \E n \in 1 .. Len(c.items) : x = At(c, n)
         /\ \A m, n \in 1 .. Len(c.items) : At(c, m).ch = At(c, n).ch => m = n
  <1> DEFINE rank(x) == Cardinality({y \in ItemsOf(c) : y.ch <= x.ch})
  <1>1. /\ Len(c.items) \in Nat \ {0} /\ DOMAIN c.items = 1 .. Len(c.items)
        /\ ItemsOf(c) \subseteq Item(b)
        /\ \A x \in ItemsOf(c) : \E n \in 1 .. Len(c.items) : rank(x) = n
        /\ \A n \in 1 .. Len(c.items) : \E x \in ItemsOf(c) : rank(x) = n
        /\ \A x, y \in ItemsOf(c) : rank(x) = rank(y) => x = y
        /\ \A x, y \in ItemsOf(c) : x.ch = y.ch => x = y
    BY ItemCount
  <1>2. \A n : At(c, n) = CHOOSE x \in ItemsOf(c) : rank(x) = n
    BY DEF At
  <1> HIDE DEF rank
  <1>3. \A n \in 1 .. Len(c.items) : At(c, n) \in ItemsOf(c) /\ rank(At(c, n)) = n
    BY <1>1, <1>2
  <1>4. \A x \in ItemsOf(c) : \E n \in 1 .. Len(c.items) : x = At(c, n)
    BY <1>1, <1>3
  <1>5. \A m, n \in 1 .. Len(c.items) : At(c, m).ch = At(c, n).ch => m = n
    BY <1>1, <1>3
  <1> QED BY <1>1, <1>3, <1>4, <1>5

-----------------------------------------------------------------------------
(* What task_info settles for an item.                                     *)

LEMMA NextIndex ==
  ASSUME NEW b \in Nat, NEW d \in DbUpTo(b), NEW t
  PROVE  /\ file_next_index(d, t) \in 1 .. b * NumChannels + 1
         /\ \A r \in FilesOf(d, t) : r.idx < file_next_index(d, t)
  <1> DEFINE S == {0} \cup {r.idx : r \in FilesOf(d, t)}
  <1>1. b * NumChannels \in Nat
    BY LargerBound
  <1>2. \A r \in FilesOf(d, t) : r.idx \in 1 .. b * NumChannels
    BY DEF FilesOf, DbUpTo, Files
  <1>3. S \in SUBSET (0 .. b * NumChannels) /\ S # {}
    BY <1>1, <1>2
  <1>4. Max(S) \in S /\ \A y \in S : y <= Max(S)
    <2> HIDE DEF S
    <2> QED BY <1>1, <1>3, MaxOf
  <1>5. \A r \in FilesOf(d, t) : r.idx <= Max(S)
    BY <1>4
  <1> HIDE DEF S
  <1>6. file_next_index(d, t) = Max(S) + 1
    BY DEF file_next_index, S
  <1>7. PICK B \in Nat : B = b * NumChannels
    BY <1>1
  <1>8. Max(S) \in 0 .. B
    BY <1>3, <1>4, <1>7
  <1>9. \A r \in FilesOf(d, t) : r.idx \in Nat
    BY <1>2
  <1>10. file_next_index(d, t) \in 1 .. B + 1
    BY <1>6, <1>8
  <1> QED BY <1>5, <1>6, <1>7, <1>8, <1>9, <1>10

LEMMA ResolvedIndex ==
  ASSUME NEW b \in Nat, NEW table \in TablesUpTo(b), NEW t, NEW requested \in Nat \ {0}
  PROVE  /\ resolve_file_index(table, t, requested) \in Nat
         /\ resolve_file_index(table, t, requested) >= requested
         /\ \/ resolve_file_index(table, t, requested) = requested
            \/ resolve_file_index(table, t, requested) <= b * NumChannels + 1
         /\ (\A s \in OfTask(table, t) : table[s].idx < requested)
               => resolve_file_index(table, t, requested) = requested
  <1> DEFINE S == {0} \cup {table[s].idx : s \in OfTask(table, t)}
  <1>1. b * NumChannels \in Nat
    BY LargerBound
  <1>2. \A s \in OfTask(table, t) : table[s].idx \in 1 .. b * NumChannels
    BY DEF OfTask, Valid, TablesUpTo, Entries
  <1>3. S \in SUBSET (0 .. b * NumChannels) /\ S # {}
    BY <1>1, <1>2
  <1>4. Max(S) \in S /\ \A y \in S : y <= Max(S)
    <2> HIDE DEF S
    <2> QED BY <1>1, <1>3, MaxOf
  <1>5. Max(S) = 0 \/ \E s \in OfTask(table, t) : Max(S) = table[s].idx
    BY <1>4
  <1> HIDE DEF S
  <1>6. resolve_file_index(table, t, requested)
           = IF requested > Max(S) THEN requested ELSE Max(S) + 1
    BY DEF resolve_file_index, S
  <1> QED BY <1>1, <1>2, <1>3, <1>4, <1>5, <1>6

LEMMA AllocatedSectors ==
  ASSUME NEW b \in Nat, NEW table \in TablesUpTo(b)
  PROVE  /\ alloc_lba(table) \in 0 .. b
         /\ \A s \in Valid(table) : table[s].lba < alloc_lba(table)
  <1> DEFINE S == {table[s].lba : s \in Valid(table)}
  <1>1. \A s \in Valid(table) : table[s].lba \in 0 .. b - 1
    BY DEF Valid, TablesUpTo, Entries
  <1>2. S \in SUBSET (0 .. b)
    BY <1>1
  <1>3. CASE Valid(table) = {}
    BY <1>3 DEF alloc_lba
  <1>4. CASE Valid(table) # {}
    <2>1. S # {}
      BY <1>4
    <2>2. Max(S) \in S /\ \A y \in S : y <= Max(S)
      <3> HIDE DEF S
      <3> QED BY <1>2, <2>1, MaxOf
    <2>3. Max(S) \in 0 .. b - 1 /\ \A s \in Valid(table) : table[s].lba <= Max(S)
      BY <1>1, <2>2
    <2>4. alloc_lba(table) = Max(S) + 1
      BY <1>4 DEF alloc_lba
    <2> HIDE DEF S
    <2> QED BY <1>1, <2>3, <2>4
  <1> QED BY <1>3, <1>4

LEMMA AllocatedSlot ==
  ASSUME NEW table
  PROVE  /\ alloc_slot(table) \in Slots \cup {Nil}
         /\ alloc_slot(table) # Nil => table[alloc_slot(table)] = Nil
  <1>1. CASE Valid(table) = Slots
    BY <1>1 DEF alloc_slot
  <1>2. CASE Valid(table) # Slots
    <2>1. Slots \ Valid(table) \in SUBSET Nat /\ Slots \ Valid(table) # {}
      BY <1>2 DEF Valid, Slots
    <2>2. Min(Slots \ Valid(table)) \in Slots \ Valid(table)
      BY <2>1, MinOf
    <2> QED BY <1>2, <2>2 DEF alloc_slot, Valid
  <1> QED BY <1>1, <1>2

\* The plan names the low-speed channel first.
LEMMA PlanShape ==
  ASSUME NEW plan \in Plans
  PROVE  /\ plan \in Seq(Channels) /\ Len(plan) \in {1, NumChannels} /\ Len(plan) \in Nat \ {0}
         /\ DOMAIN plan = 1 .. Len(plan) /\ Len(plan) <= NumChannels
         /\ plan[1] = Low /\ \A i \in 2 .. Len(plan) : plan[i] = i - 2
  <1>1. NumChannels \in Nat \ {0} /\ Low \in Channels
    BY CatalogAssumption DEF Low, Channels
  <1>2. CASE plan = <<Low>>
    BY <1>1, <1>2
  <1>3. CASE plan = <<Low>> \o [i \in 1 .. NumChannels - 1 |-> i - 1]
    <2> DEFINE rest == [i \in 1 .. NumChannels - 1 |-> i - 1]
    <2>1. NumChannels - 1 \in Nat /\ \A i \in 1 .. NumChannels - 1 : i - 1 \in Channels
      BY <1>1 DEF Channels
    <2>2. rest \in Seq(Channels) /\ Len(rest) = NumChannels - 1
      BY <2>1, IsASeq
    <2>3. <<Low>> \in Seq(Channels) /\ Len(<<Low>>) = 1 /\ <<Low>>[1] = Low
      BY <1>1
    <2>4. /\ <<Low>> \o rest \in Seq(Channels) /\ Len(<<Low>> \o rest) = NumChannels
          /\ (<<Low>> \o rest)[1] = Low
          /\ \A i \in 2 .. NumChannels : (<<Low>> \o rest)[i] = rest[i - 1]
      <3> HIDE DEF rest
      <3> QED BY <1>1, <2>1, <2>2, <2>3
    <2>5. \A i \in 2 .. NumChannels : rest[i - 1] = i - 2
      BY <1>1
    <2> HIDE DEF rest
    <2> QED BY <1>1, <1>3, <2>4, <2>5 DEF rest
  <1> QED BY <1>2, <1>3 DEF Plans

\* What task_info makes of the data base, the tables and the next index.
IsStale(t, missed) == /\ db.status[t] # "absent"
                      /\ FilesOf(db, t) = {} \/ <<"count", Low>> \in missed
DbFor(t, missed) == IF IsStale(t, missed) THEN task_deleted(db, t) ELSE db
IndexFor(t, missed) ==
    IF <<"index", Low>> \in missed THEN 1 ELSE file_next_index(DbFor(t, missed), t)
TableFor(c, missed) == IF <<"worker", c>> \in missed THEN EmptyTable ELSE meta'[c]

\* A lapse is a fault.
LEMMA LapsesCounted ==
  ASSUME NEW missed \in SUBSET Lapses
  PROVE  IsFiniteSet(missed) /\ Cardinality(missed) \in Nat
         /\ (Cardinality(missed) = 0 => missed = {})
  <1>1. IsFiniteSet({Low}) /\ IsFiniteSet(Channels)
    <2>1. 0 \in Int /\ NumChannels - 1 \in Int
      BY CatalogAssumption
    <2> QED BY <2>1, FS_Singleton, FS_Interval DEF Channels
  <1>2. IsFiniteSet({"count", "index"}) /\ IsFiniteSet({"cleanup", "worker"})
    <2>1. IsFiniteSet({"count"}) /\ IsFiniteSet({"cleanup"})
      BY FS_Singleton
    <2>2. /\ {"count"} \cup {"index"} = {"count", "index"}
          /\ {"cleanup"} \cup {"worker"} = {"cleanup", "worker"}
      OBVIOUS
    <2> QED BY <2>1, <2>2, FS_AddElement
  <1>3. IsFiniteSet(Lapses)
    BY <1>1, <1>2, FS_Product, FS_Union DEF Lapses
  <1> QED BY <1>3, FS_Subset, FS_CardinalityType, FS_EmptySet

\* The capture that task_info sets up: every item is in its type for one more
\* capture, and ahead of the listed files of its task if the next index was found.
LEMMA NewCapture ==
  ASSUME NEW b \in Nat, NEW t \in Tasks, NEW plan \in Plans, NEW missed \in SUBSET Lapses,
         db \in DbUpTo(b), meta \in [Channels -> TablesUpTo(b)], task_info(t, plan, missed)
  PROVE  /\ CaptureOK(cap', b + 1) /\ cap'.task = t /\ cap'.before = meta'
         /\ meta' \in [Channels -> TablesUpTo(b)]
         /\ ~IsStale(t, missed) => meta' = meta
         /\ IsStale(t, missed) /\ missed = {}
               => meta' = [c \in Channels |-> without_task(meta[c], t)]
         /\ IndicesKnown
               => \A r \in FilesOf(DbFor(t, missed), t), x \in ItemsOf(cap') : r.idx < x.idx
         /\ DOMAIN cap'.items = DOMAIN plan
         /\ \A i \in DOMAIN plan :
               /\ cap'.items[i].ch \in Channels /\ cap'.items[i].ch = plan[i]
               /\ cap'.items[i].slot = alloc_slot(TableFor(plan[i], missed))
               /\ cap'.items[i].lba = alloc_lba(TableFor(plan[i], missed))
               /\ cap'.items[i].idx = resolve_file_index(TableFor(plan[i], missed), t,
                                                         IndexFor(t, missed) + i - 1)
  <1> DEFINE table(i) == TableFor(plan[i], missed)
             m == IndexFor(t, missed)
             d == DbFor(t, missed)
             item(i) == [ch |-> plan[i], slot |-> alloc_slot(table(i)), lba |-> alloc_lba(table(i)),
                         idx |-> resolve_file_index(table(i), t, m + i - 1)]
  <1>1. /\ meta' = [c \in Channels |-> IF IsStale(t, missed) /\ <<"cleanup", c>> \notin missed
                                        THEN without_task(meta[c], t) ELSE meta[c]]
        /\ cap' = [task |-> t, items |-> [i \in DOMAIN plan |-> item(i)], before |-> meta']
    <2> DEFINE cleaned == [c \in Channels |-> IF IsStale(t, missed) /\ <<"cleanup", c>> \notin missed
                                              THEN without_task(meta[c], t) ELSE meta[c]]
               of(i) == IF <<"worker", plan[i]>> \in missed THEN EmptyTable ELSE cleaned[plan[i]]
    <2>1. /\ meta' = cleaned
          /\ cap' = [task |-> t, before |-> cleaned, items |-> [i \in DOMAIN plan |->
                       [ch |-> plan[i], slot |-> alloc_slot(of(i)), lba |-> alloc_lba(of(i)),
                        idx |-> resolve_file_index(of(i), t, m + i - 1)]]]
      BY Zenon DEF task_info, IsStale, DbFor, IndexFor
    <2>2. \A i \in DOMAIN plan : table(i) = of(i)
      <3> HIDE DEF cleaned
      <3> QED BY <2>1 DEF TableFor
    <2> HIDE DEF cleaned, of, table, m
    <2>3. [i \in DOMAIN plan |-> item(i)]
             = [i \in DOMAIN plan |->
                  [ch |-> plan[i], slot |-> alloc_slot(of(i)), lba |-> alloc_lba(of(i)),
                   idx |-> resolve_file_index(of(i), t, m + i - 1)]]
      BY <2>2
    <2> QED BY <2>1, <2>3, Zenon DEF cleaned
  <1>2. meta' \in [Channels -> TablesUpTo(b)]
    BY <1>1, TableTypes
  <1>3. /\ plan \in Seq(Channels) /\ Len(plan) \in {1, NumChannels} /\ Len(plan) \in Nat \ {0}
        /\ DOMAIN plan = 1 .. Len(plan) /\ Len(plan) <= NumChannels
        /\ plan[1] = Low /\ \A i \in 2 .. Len(plan) : plan[i] = i - 2
    BY PlanShape
  <1>4. /\ b * NumChannels \in Nat /\ (b + 1) * NumChannels = b * NumChannels + NumChannels
        /\ NumChannels \in Nat \ {0}
    BY LargerBound, CatalogAssumption
  <1>5. /\ m \in 1 .. b * NumChannels + 1
        /\ IndicesKnown => \A r \in FilesOf(d, t) : r.idx < m
    <2>1. d \in DbUpTo(b)
      BY StatementTypes DEF DbFor
    <2>2. /\ file_next_index(d, t) \in 1 .. b * NumChannels + 1
          /\ \A r \in FilesOf(d, t) : r.idx < file_next_index(d, t)
      BY <2>1, NextIndex
    <2>3. IndicesKnown => <<"index", Low>> \notin missed
      BY DEF task_info, Call, IndicesKnown
    <2>4. 1 \in 1 .. b * NumChannels + 1
      BY <1>4
    <2> QED BY <2>2, <2>3, <2>4 DEF IndexFor
  <1>6. ASSUME NEW i \in 1 .. Len(plan)
        PROVE  item(i) \in Item(b + 1) /\ item(i).idx >= m
    <2>1. plan[i] \in Channels /\ table(i) \in TablesUpTo(b)
      BY <1>2, <1>3, EmptyTypes DEF TableFor
    <2>a. PICK B \in Nat : B = b * NumChannels
      BY <1>4
    <2>b. m \in 1 .. B + 1
      BY <1>5, <2>a
    <2>c. (b + 1) * NumChannels = B + NumChannels
      BY <1>4, <2>a
    <2>d. NumChannels \in Nat \ {0} /\ i \in Nat /\ 1 <= i /\ i <= NumChannels
      <3>1. NumChannels \in Nat \ {0}
        BY CatalogAssumption
      <3>2. Len(plan) \in Nat /\ Len(plan) <= NumChannels
        BY <1>3
      <3> QED BY <3>1, <3>2
    <2> HIDE DEF m
    <2>2. m + i - 1 \in Nat \ {0}
      BY <1>3, <2>b
    <2> DEFINE tb == table(i)
               n == resolve_file_index(tb, t, m + i - 1)
    <2>3. /\ n \in Nat /\ n >= m + i - 1
          /\ n = m + i - 1 \/ n <= B + 1
      BY <2>1, <2>2, <2>a, ResolvedIndex
    <2>4. alloc_slot(tb) \in Slots \cup {Nil} /\ alloc_lba(tb) \in 0 .. b
      BY <2>1, AllocatedSlot, AllocatedSectors
    <2> HIDE DEF n, tb
    <2>5. n \in 1 .. (b + 1) * NumChannels /\ n >= m
      <3>1. n \in 1 .. B + NumChannels /\ n >= m
        BY <2>3, <2>b, <2>d
      <3> QED BY <3>1, <2>c
    <2>6. 0 .. b = 0 .. b + 1 - 1
      OBVIOUS
    <2>7. item(i) = [ch |-> plan[i], slot |-> alloc_slot(tb), lba |-> alloc_lba(tb), idx |-> n]
      BY DEF n, tb, m
    <2> HIDE DEF item
    <2> QED BY <2>1, <2>4, <2>5, <2>6, <2>7 DEF Item, m
  <1>7. /\ cap'.task = t /\ cap'.before = meta' /\ DOMAIN cap'.items = 1 .. Len(plan)
        /\ \A i \in 1 .. Len(plan) : cap'.items[i] = item(i)
        /\ cap'.items = [i \in 1 .. Len(plan) |-> item(i)]
    BY <1>1, <1>3
  <1>8. \A i \in 1 .. Len(plan) :
          /\ item(i).ch \in Channels /\ item(i).ch = plan[i]
          /\ item(i).slot = alloc_slot(table(i)) /\ item(i).lba = alloc_lba(table(i))
          /\ item(i).idx = resolve_file_index(table(i), t, m + i - 1)
    BY <1>3
  <1> HIDE DEF item
  <1>9. cap'.items \in Seq(Item(b + 1)) /\ Len(cap'.items) = Len(plan)
    BY <1>3, <1>6, <1>7, IsASeq
  <1>10. IndicesKnown => \A r \in FilesOf(d, t), x \in ItemsOf(cap') : r.idx < x.idx
    <2> SUFFICES ASSUME IndicesKnown, NEW r \in FilesOf(d, t), NEW i \in 1 .. Len(plan)
                 PROVE  r.idx < item(i).idx
      BY <1>7 DEF ItemsOf
    <2>1. item(i).idx \in Nat /\ item(i).idx >= m /\ r.idx < m
      BY <1>5, <1>6, <1>4 DEF Item
    <2>2. r.idx \in Nat /\ m \in Nat
      <3>1. d \in DbUpTo(b)
        BY StatementTypes DEF DbFor
      <3> HIDE DEF d, m
      <3> QED BY <3>1, <1>5, <1>4 DEF FilesOf, DbUpTo, Files
    <2> HIDE DEF m
    <2> QED BY <2>1, <2>2
  <1>11. CaptureOK(cap', b + 1)
    <2>1. meta' \in [Channels -> TablesUpTo(b + 1)]
      BY <1>2, MoreCaptures
    <2>2. cap'.items[1].ch = Low /\ \A i \in 2 .. Len(plan) : cap'.items[i].ch = i - 2
      BY <1>3, <1>7, <1>8
    <2> QED BY <1>3, <1>7, <1>9, <2>1, <2>2 DEF CaptureOK
  <1>12. DOMAIN plan = 1 .. Len(plan) /\ \A i \in DOMAIN plan : cap'.items[i] = item(i)
    BY <1>3, <1>7
  <1>13. /\ ~IsStale(t, missed) => meta' = meta
         /\ IsStale(t, missed) /\ missed = {}
               => meta' = [c \in Channels |-> without_task(meta[c], t)]
    BY <1>1
  <1> QED BY <1>2, <1>7, <1>8, <1>10, <1>11, <1>12, <1>13

-----------------------------------------------------------------------------
(* Type correctness, action by action.                                     *)

Types(b) == UsedInv /\ DbInv(b) /\ TabInv(b) /\ CtlInv(b) /\ JobInv(b)

LEMMA InitTypes == Init => TypeInv
  <1> SUFFICES ASSUME Init PROVE TypeInv
    OBVIOUS
  <1>1. used.captures = 0 /\ 0 \in Nat /\ UsedInv
    BY CatalogAssumption DEF Init, UsedInv
  <1>2. EmptyTable \in TablesUpTo(0) /\ EmptyDb \in DbUpTo(0) /\ IsFiniteSet(EmptyDb.recs)
    BY EmptyTypes
  <1>3. DbInv(0) /\ TabInv(0)
    BY <1>2 DEF Init, DbInv, TabInv, Threads
  <1>a. /\ pc = [p \in Threads |-> pc[p]] /\ k \in [Threads -> Nat] /\ pc["main"] = "idle"
        /\ pc["job"] = "none" /\ k["main"] = 0 /\ k["job"] = 0
    BY DEF Init, Threads
  <1>4. CtlInv(0)
    <2>1. MainPlace("idle", 0, NoCapture, backup, 0)
      BY DEF MainPlace, MainPcs, CommitPcs, TxPcs, RollbackPcs
    <2> QED BY <1>a, <2>1 DEF Init, CtlInv
  <1>5. JobInv(0)
    <2>1. JobPlace("none", 0, NoJob, 0)
      BY DEF JobPlace, NoJob, JobPcs, ClearPcs, DeletePcs, PurgePcs
    <2> QED BY <1>a, <2>1 DEF Init, JobInv
  <1> QED BY <1>1, <1>3, <1>4, <1>5 DEF TypeInv

LEMMA CurrentItem ==
  ASSUME NEW b \in Nat, CaptureOK(cap, b), NEW n \in 1 .. NumItems
  PROVE  /\ ItemAt(n) = At(cap, n) /\ At(cap, n) \in ItemsOf(cap)
         /\ At(cap, n) \in Item(b) /\ At(cap, n).ch \in Channels
         /\ \A x : ItemEntry(x) = EntryOf(cap, x) /\ ItemRecord(x) = RecordOf(cap, x)
         /\ EntryOf(cap, At(cap, n)) \in Entries(b)
         /\ RecordOf(cap, At(cap, n)) \in Files(b)
         /\ NumItems \in Nat \ {0} /\ NumItems = Len(cap.items)
  <1>1. ItemAt(n) = At(cap, n)
    BY DEF ItemAt, At, Items, ItemsOf
  <1>2. At(cap, n) \in ItemsOf(cap) /\ At(cap, n) \in Item(b) /\ NumItems \in Nat \ {0}
    BY ItemsInOrder DEF NumItems
  <1>3. cap.task \in Tasks
    BY DEF CaptureOK
  <1>4. \A x : ItemEntry(x) = EntryOf(cap, x) /\ ItemRecord(x) = RecordOf(cap, x)
    BY DEF ItemEntry, EntryOf, ItemRecord, RecordOf
  <1> QED BY <1>1, <1>2, <1>3, <1>4 DEF Item, EntryOf, Entries, RecordOf, Files, NumItems

LEMMA WriteTypes ==
  ASSUME NEW b \in Nat, DbInv(b), NEW d \in DbUpTo(b), IsFiniteSet(d.recs), db_write(d)
  PROVE  /\ db' \in DbUpTo(b) /\ saved' \in DbUpTo(b) /\ in_tx' = in_tx
         /\ IsFiniteSet(db'.recs) /\ IsFiniteSet(saved'.recs)
  BY DEF DbInv, db_write

\* Only task_info counts a capture.
StepsOfMain == commit_step \/ sync_step("main") \/ outbox_retry \/ outbox_unmark
                  \/ workers_exit \/ service_maintenance_job
                  \/ capture_failed \/ (\E exited \in BOOLEAN : capture_succeeded(exited))

StartsOfJob == \/ \E op \in {"sync", "clear"} : start_maintenance_job(op, Nil, Nil)
               \/ \E t \in Tasks, i \in 1 .. MaxIndex : start_maintenance_job("delete", t, i)

StartsCapture == \E t \in Tasks, plan \in Plans, missed \in SUBSET Lapses : task_info(t, plan, missed)

\* A capture starts from the idle loop, between two maintenance jobs.
LEMMA CaptureStart ==
  ASSUME StartsCapture
  PROVE  /\ pc["main"] = "idle" /\ job.op = "none" /\ goto("main", "capturing")
         /\ UNCHANGED <<tmp, flash, outbox, count, tab, job>>
  <1>1. PICK t \in Tasks, plan \in Plans, missed \in SUBSET Lapses : task_info(t, plan, missed)
    BY Zenon DEF StartsCapture
  <1> QED BY <1>1, Zenon DEF task_info

\* A step that uses no bound but one for faults leaves the number of captures.
LEMMA FaultUsed ==
  ASSUME UsedInv, NEW p, used' = used \/ fault(p)
  PROVE  UsedInv' /\ used'.captures = used.captures
  <1>1. MaxFaults \in Nat
    BY CatalogAssumption
  <1>2. CASE used' = used
    BY <1>2 DEF UsedInv
  <1>3. CASE fault(p)
    BY <1>1, <1>3 DEF UsedInv, fault
  <1> QED BY <1>2, <1>3

\* Every step of the main loop but task_info uses at most one fault, ...
LEMMA MainUsed ==
  ASSUME StepsOfMain
  PROVE  used' = used \/ fault("main")
  <1> USE DEF no_fault, silent_fault, metadata_read, file_count
  <1>1. CASE db_begin
    BY <1>1 DEF db_begin
  <1>2. CASE record_exists
    BY <1>2 DEF record_exists
  <1>3. CASE metadata_read_item
    BY <1>3 DEF metadata_read_item
  <1>4. CASE metadata_truncate_item
    BY <1>4 DEF metadata_truncate_item
  <1>5. CASE metadata_fill_item
    BY <1>5 DEF metadata_fill_item
  <1>6. CASE record_insert
    BY <1>6 DEF record_insert
  <1>7. CASE record_count
    BY <1>7 DEF record_count
  <1>8. CASE task_update
    BY <1>8 DEF task_update
  <1>9. CASE db_commit
    BY <1>9 DEF db_commit
  <1>10. CASE db_rollback
    BY <1>10 DEF db_rollback
  <1>11. CASE metadata_rollback_open
    BY <1>11 DEF metadata_rollback_open
  <1>12. CASE metadata_rollback_write
    BY <1>12 DEF metadata_rollback_write
  <1>13. CASE rollback_status
    BY <1>13 DEF rollback_status
  <1>14. CASE mark_pending
    BY <1>14 DEF mark_pending
  <1>15. CASE mark_complete
    BY <1>15 DEF mark_complete
  <1>16. CASE sync_check("main")
    BY <1>16 DEF sync_check, after_sync
  <1>17. CASE sync_backup("main")
    BY <1>17 DEF sync_backup, after_sync
  <1>18. CASE sync_meta("main")
    BY <1>18 DEF sync_meta, after_sync
  <1>19. CASE sync_rename("main")
    BY <1>19 DEF sync_rename, after_sync
  <1>20. CASE outbox_retry
    BY <1>20 DEF outbox_retry
  <1>21. CASE outbox_unmark
    BY <1>21 DEF outbox_unmark
  <1>22. CASE workers_exit
    BY <1>22 DEF workers_exit
  <1>23. CASE service_maintenance_job
    BY <1>23 DEF service_maintenance_job
  <1>24. CASE capture_failed
    BY <1>24 DEF capture_failed
  <1>25. ASSUME NEW e \in BOOLEAN, capture_succeeded(e) PROVE used' = used \/ fault("main")
    BY <1>25 DEF capture_succeeded
  <1> QED BY <1>1, <1>2, <1>3, <1>4, <1>5, <1>6, <1>7, <1>8, <1>9, <1>10, <1>11, <1>12, <1>13, <1>14, <1>15, <1>16, <1>17, <1>18, <1>19, <1>20, <1>21, <1>22, <1>23, <1>24, <1>25 DEF StepsOfMain, commit_step, sync_step

\* ... and so does every step of the maintenance thread.
LEMMA JobUsed ==
  ASSUME job_step
  PROVE  used' = used \/ fault("job")
  <1> USE DEF no_fault, silent_fault, metadata_read, file_count
  <1>1. CASE sync_check("job")
    BY <1>1 DEF sync_check, after_sync
  <1>2. CASE sync_backup("job")
    BY <1>2 DEF sync_backup, after_sync
  <1>3. CASE sync_meta("job")
    BY <1>3 DEF sync_meta, after_sync
  <1>4. CASE sync_rename("job")
    BY <1>4 DEF sync_rename, after_sync
  <1>5. CASE job_check
    BY <1>5 DEF job_check
  <1>6. CASE clear_open
    BY <1>6 DEF clear_open
  <1>7. CASE clear_fill
    BY <1>7 DEF clear_fill
  <1>8. CASE file_clear_all
    BY <1>8 DEF file_clear_all
  <1>9. CASE delete_read
    BY <1>9 DEF delete_read
  <1>10. CASE delete_open
    BY <1>10 DEF delete_open
  <1>11. CASE delete_fill
    BY <1>11 DEF delete_fill
  <1>12. CASE file_delete
    BY <1>12 DEF file_delete
  <1>13. CASE delete_count
    BY <1>13 DEF delete_count
  <1>14. CASE purge_read
    BY <1>14 DEF purge_read
  <1>15. CASE purge_open
    BY <1>15 DEF purge_open
  <1>16. CASE purge_fill
    BY <1>16 DEF purge_fill
  <1>17. CASE purge_task
    BY <1>17 DEF purge_task
  <1> QED BY <1>1, <1>2, <1>3, <1>4, <1>5, <1>6, <1>7, <1>8, <1>9, <1>10, <1>11, <1>12, <1>13, <1>14, <1>15, <1>16, <1>17 DEF job_step, sync_step

\* The data bases keep their types.
LEMMA MainDb ==
  ASSUME NEW CONSTANT b \in Nat, Types(b), StepsOfMain
  PROVE  DbInv(b)'
  <1> USE DEF dbv, filev, capv
  <1>1. CASE db_begin
    <2>1. /\ with_status(db, cap.task, "failed") \in DbUpTo(b)
          /\ IsFiniteSet(with_status(db, cap.task, "failed").recs)
      <3>1. cap.task \in Tasks /\ db \in DbUpTo(b) /\ IsFiniteSet(db.recs) /\ "failed" \in Status
        BY <1>1 DEF db_begin, Types, CtlInv, MainPlace, CaptureOK, DbInv, CommitPcs, TxPcs, RollbackPcs, Status
      <3> QED BY <3>1, StatementTypes
    <2>2. CASE db_write(with_status(db, cap.task, "failed"))
      BY <1>1, <2>1, <2>2, WriteTypes DEF db_begin, Types, DbInv
    <2>3. CASE UNCHANGED dbv
      BY <1>1, <2>3 DEF db_begin, Types, DbInv
    <2>4. CASE in_tx' = TRUE /\ UNCHANGED <<db, saved>>
      BY <1>1, <2>4 DEF db_begin, Types, DbInv
    <2> QED BY <1>1, <2>2, <2>3, <2>4 DEF db_begin
  <1>2. CASE record_exists
    BY <1>2 DEF record_exists, Types, DbInv, fopen_wb, fwrite_table
  <1>3. CASE metadata_read_item
    BY <1>3 DEF metadata_read_item, Types, DbInv, fopen_wb, fwrite_table
  <1>4. CASE metadata_truncate_item
    BY <1>4 DEF metadata_truncate_item, Types, DbInv, fopen_wb, fwrite_table
  <1>5. CASE metadata_fill_item
    BY <1>5 DEF metadata_fill_item, Types, DbInv, fopen_wb, fwrite_table
  <1>6. CASE record_insert
    <2> DEFINE d == [db EXCEPT !.recs = @ \cup {ItemRecord(ItemAt(k["main"]))}]
    <2>1. d \in DbUpTo(b) /\ IsFiniteSet(d.recs)
      <3>1. CaptureOK(cap, b) /\ k["main"] \in 1 .. NumItems
        BY <1>6 DEF record_insert, Types, CtlInv, MainPlace, NumItems, CommitPcs, TxPcs
      <3>2. ItemRecord(ItemAt(k["main"])) \in Files(b)
        BY <3>1, CurrentItem
      <3>3. db \in DbUpTo(b) /\ db.recs \subseteq Files(b) /\ IsFiniteSet(db.recs)
        BY DEF Types, DbInv, DbUpTo
      <3>4. IsFiniteSet(db.recs \cup {ItemRecord(ItemAt(k["main"]))})
        BY <3>3, FS_AddElement
      <3>5. d.recs = db.recs \cup {ItemRecord(ItemAt(k["main"]))}
        BY <3>3 DEF DbUpTo
      <3>6. d \in DbUpTo(b)
        BY <3>2, <3>3, <3>5 DEF DbUpTo
      <3> QED BY <3>4, <3>5, <3>6
    <2> HIDE DEF d
    <2>2. CASE db_write(d)
      BY <1>6, <2>1, <2>2, WriteTypes DEF record_insert, Types, DbInv
    <2>3. CASE UNCHANGED dbv
      BY <1>6, <2>3 DEF record_insert, Types, DbInv
    <2> QED BY <1>6, <2>2, <2>3 DEF record_insert, d
  <1>7. CASE record_count
    <2>1. Cardinality(FilesOf(db, cap.task)) \in Nat
      BY FilesFinite DEF Types, DbInv
    <2> QED BY <1>7, <2>1 DEF record_count, Types, DbInv
  <1>8. CASE task_update
    <2> DEFINE c == [db EXCEPT !.total[cap.task] = IF db.status[cap.task] = "absent" THEN @ ELSE count]
               d == with_status(c, cap.task, "completed")
    <2>1. d \in DbUpTo(b) /\ IsFiniteSet(d.recs)
      <3>1. cap.task \in Tasks
        BY <1>8 DEF task_update, Types, CtlInv, MainPlace, CaptureOK, CommitPcs, TxPcs
      <3>2. db \in DbUpTo(b) /\ IsFiniteSet(db.recs) /\ count \in Nat
        BY DEF Types, DbInv
      <3>3. c \in DbUpTo(b) /\ c.recs = db.recs
        BY <3>1, <3>2 DEF DbUpTo
      <3> HIDE DEF c
      <3>4. "completed" \in Status
        BY DEF Status
      <3> QED BY <3>1, <3>2, <3>3, <3>4, StatementTypes
    <2> HIDE DEF d
    <2>2. CASE db_write(d)
      BY <1>8, <2>1, <2>2, WriteTypes DEF task_update, Types, DbInv
    <2>3. CASE UNCHANGED dbv
      BY <1>8, <2>3 DEF task_update, Types, DbInv
    <2> QED BY <1>8, <2>2, <2>3 DEF task_update, d
  <1>9. CASE db_commit
    BY <1>9 DEF db_commit, Types, DbInv
  <1>10. CASE db_rollback
    BY <1>10 DEF db_rollback, Types, DbInv
  <1>11. CASE metadata_rollback_open
    BY <1>11 DEF metadata_rollback_open, Types, DbInv, fopen_wb, fwrite_table
  <1>12. CASE metadata_rollback_write
    BY <1>12 DEF metadata_rollback_write, Types, DbInv, fopen_wb, fwrite_table
  <1>13. CASE rollback_status
    <2>1. /\ with_status(db, cap.task, "failed") \in DbUpTo(b)
          /\ IsFiniteSet(with_status(db, cap.task, "failed").recs)
      <3>1. cap.task \in Tasks /\ db \in DbUpTo(b) /\ IsFiniteSet(db.recs) /\ "failed" \in Status
        BY <1>13 DEF rollback_status, Types, CtlInv, MainPlace, CaptureOK, DbInv, CommitPcs, TxPcs, RollbackPcs, Status
      <3> QED BY <3>1, StatementTypes
    <2>2. CASE db_write(with_status(db, cap.task, "failed"))
      BY <1>13, <2>1, <2>2, WriteTypes DEF rollback_status, Types, DbInv
    <2>3. CASE UNCHANGED dbv
      BY <1>13, <2>3 DEF rollback_status, Types, DbInv
    <2> QED BY <1>13, <2>2, <2>3 DEF rollback_status
  <1>14. CASE mark_pending
    BY <1>14 DEF mark_pending, Types, DbInv, fopen_wb, fwrite_table
  <1>15. CASE mark_complete
    BY <1>15 DEF mark_complete, Types, DbInv, fopen_wb, fwrite_table
  <1>16. CASE sync_check("main")
    BY <1>16 DEF sync_check, Types, DbInv, fopen_wb, fwrite_table
  <1>17. CASE sync_backup("main")
    BY <1>17 DEF sync_backup, Types, DbInv
  <1>18. CASE sync_meta("main")
    BY <1>18 DEF sync_meta, Types, DbInv, TabInv
  <1>19. CASE sync_rename("main")
    BY <1>19 DEF sync_rename, Types, DbInv, TabInv
  <1>20. CASE outbox_retry
    BY <1>20 DEF outbox_retry, Types, DbInv, fopen_wb, fwrite_table
  <1>21. CASE outbox_unmark
    BY <1>21 DEF outbox_unmark, Types, DbInv, fopen_wb, fwrite_table
  <1>22. CASE workers_exit
    BY <1>22 DEF workers_exit, Types, DbInv, fopen_wb, fwrite_table
  <1>23. CASE service_maintenance_job
    BY <1>23 DEF service_maintenance_job, Types, DbInv, fopen_wb, fwrite_table
  <1>24. CASE capture_failed
    <2>1. /\ with_status(db, cap.task, "failed") \in DbUpTo(b)
          /\ IsFiniteSet(with_status(db, cap.task, "failed").recs)
      <3>1. cap.task \in Tasks /\ db \in DbUpTo(b) /\ IsFiniteSet(db.recs) /\ "failed" \in Status
        BY <1>24 DEF capture_failed, Types, CtlInv, MainPlace, CaptureOK, DbInv, CommitPcs, TxPcs, RollbackPcs, Status
      <3> QED BY <3>1, StatementTypes
    <2>2. CASE db_write(with_status(db, cap.task, "failed"))
      BY <1>24, <2>1, <2>2, WriteTypes DEF capture_failed, Types, DbInv
    <2>3. CASE UNCHANGED dbv
      BY <1>24, <2>3 DEF capture_failed, Types, DbInv
    <2> QED BY <1>24, <2>2, <2>3 DEF capture_failed
  <1>25. ASSUME NEW e \in BOOLEAN, capture_succeeded(e) PROVE DbInv(b)'
    BY <1>25 DEF capture_succeeded, Types, DbInv, fopen_wb, fwrite_table
  <1> QED BY <1>1, <1>2, <1>3, <1>4, <1>5, <1>6, <1>7, <1>8, <1>9, <1>10, <1>11, <1>12, <1>13, <1>14, <1>15, <1>16, <1>17, <1>18, <1>19, <1>20, <1>21, <1>22, <1>23, <1>24, <1>25 DEF StepsOfMain, commit_step, sync_step

\* So they do under the maintenance thread.
LEMMA JobDb ==
  ASSUME NEW CONSTANT b \in Nat, Types(b), job_step
  PROVE  DbInv(b)'
  <1> USE DEF dbv, filev, capv
  <1>1. CASE sync_check("job")
    BY <1>1 DEF sync_check, Types, DbInv, fopen_wb, fwrite_table
  <1>2. CASE sync_backup("job")
    BY <1>2 DEF sync_backup, Types, DbInv
  <1>3. CASE sync_meta("job")
    BY <1>3 DEF sync_meta, Types, DbInv, TabInv
  <1>4. CASE sync_rename("job")
    BY <1>4 DEF sync_rename, Types, DbInv, TabInv
  <1>5. CASE job_check
    BY <1>5 DEF job_check, Types, DbInv, fopen_wb, fwrite_table
  <1>6. CASE clear_open
    BY <1>6 DEF clear_open, Types, DbInv, fopen_wb, fwrite_table
  <1>7. CASE clear_fill
    BY <1>7 DEF clear_fill, Types, DbInv, fopen_wb, fwrite_table
  <1>8. CASE file_clear_all
    <2>1. EmptyDb \in DbUpTo(b) /\ IsFiniteSet(EmptyDb.recs)
      BY EmptyTypes
    <2>2. CASE db_write(EmptyDb)
      BY <1>8, <2>1, <2>2, WriteTypes DEF file_clear_all, Types, DbInv
    <2>3. CASE UNCHANGED dbv
      BY <1>8, <2>3 DEF file_clear_all, Types, DbInv
    <2> QED BY <1>8, <2>2, <2>3 DEF file_clear_all
  <1>9. CASE delete_read
    BY <1>9 DEF delete_read, Types, DbInv, fopen_wb, fwrite_table
  <1>10. CASE delete_open
    BY <1>10 DEF delete_open, Types, DbInv, fopen_wb, fwrite_table
  <1>11. CASE delete_fill
    BY <1>11 DEF delete_fill, Types, DbInv, fopen_wb, fwrite_table
  <1>12. CASE file_delete
    <2> DEFINE d == [db EXCEPT !.recs = @ \ {job.rec}]
    <2>1. d \in DbUpTo(b) /\ IsFiniteSet(d.recs)
      <3>1. db \in DbUpTo(b) /\ IsFiniteSet(db.recs)
        BY DEF Types, DbInv
      <3>2. d.recs = db.recs \ {job.rec} /\ d \in DbUpTo(b)
        BY <3>1 DEF DbUpTo
      <3>3. IsFiniteSet(db.recs \ {job.rec})
        BY <3>1, FS_RemoveElement
      <3> HIDE DEF d
      <3> QED BY <3>2, <3>3
    <2> HIDE DEF d
    <2>2. CASE db_write(d)
      BY <1>12, <2>1, <2>2, WriteTypes DEF file_delete, Types, DbInv
    <2>3. CASE UNCHANGED dbv
      BY <1>12, <2>3 DEF file_delete, Types, DbInv
    <2> QED BY <1>12, <2>2, <2>3 DEF file_delete, d
  <1>13. CASE delete_count
    <2> DEFINE n == Cardinality(FilesOf(db, job.task))
               d == [db EXCEPT !.total[job.task] = n]
    <2>1. d \in DbUpTo(b) /\ IsFiniteSet(d.recs)
      <3>1. db \in DbUpTo(b) /\ IsFiniteSet(db.recs) /\ n \in Nat
        BY FilesFinite DEF Types, DbInv
      <3>2. job.task \in Tasks
        BY <1>13 DEF delete_count, Types, JobInv, JobPlace
      <3> HIDE DEF n
      <3>3. d.recs = db.recs
        BY <3>1 DEF DbUpTo
      <3> QED BY <3>1, <3>2, <3>3, StatementTypes
    <2> HIDE DEF d
    <2>2. CASE db_write(d)
      BY <1>13, <2>1, <2>2, WriteTypes DEF delete_count, Types, DbInv
    <2>3. CASE UNCHANGED dbv
      BY <1>13, <2>3 DEF delete_count, Types, DbInv
    <2> QED BY <1>13, <2>2, <2>3 DEF delete_count, d
  <1>14. CASE purge_read
    BY <1>14 DEF purge_read, Types, DbInv, fopen_wb, fwrite_table
  <1>15. CASE purge_open
    BY <1>15 DEF purge_open, Types, DbInv, fopen_wb, fwrite_table
  <1>16. CASE purge_fill
    BY <1>16 DEF purge_fill, Types, DbInv, fopen_wb, fwrite_table
  <1>17. CASE purge_task
    <2> DEFINE d == task_deleted(db, job.task)
    <2>1. d \in DbUpTo(b) /\ IsFiniteSet(d.recs)
      <3>1. db \in DbUpTo(b) /\ IsFiniteSet(db.recs)
        BY DEF Types, DbInv
      <3>2. job.task \in Tasks
        BY <1>17 DEF purge_task, Types, JobInv, JobPlace, PurgePcs
      <3>3. d \in DbUpTo(b) /\ d.recs = db.recs \ FilesOf(db, job.task)
        BY <3>1, <3>2, StatementTypes
      <3> HIDE DEF d
      <3> QED BY <3>1, <3>3, FS_Subset
    <2> HIDE DEF d
    <2>2. CASE db_write(d)
      BY <1>17, <2>1, <2>2, WriteTypes DEF purge_task, Types, DbInv
    <2>3. CASE UNCHANGED dbv
      BY <1>17, <2>3 DEF purge_task, Types, DbInv
    <2>4. CASE db_write([db EXCEPT !.recs = @ \ FilesOf(db, job.task)])
      <3> DEFINE e == [db EXCEPT !.recs = @ \ FilesOf(db, job.task)]
      <3>1. e \in DbUpTo(b) /\ e.recs \subseteq db.recs /\ IsFiniteSet(db.recs)
        BY DEF Types, DbInv, DbUpTo
      <3> HIDE DEF e
      <3>2. IsFiniteSet(e.recs)
        BY <3>1, FS_Subset
      <3> QED BY <1>17, <2>4, <3>1, <3>2, WriteTypes DEF e, purge_task, Types, DbInv
    <2> QED BY <1>17, <2>2, <2>3, <2>4 DEF purge_task, d
  <1> QED BY <1>1, <1>2, <1>3, <1>4, <1>5, <1>6, <1>7, <1>8, <1>9, <1>10, <1>11, <1>12, <1>13, <1>14, <1>15, <1>16, <1>17 DEF job_step, sync_step

\* The metadata tables, their backups and replicas keep their types.
LEMMA MainTab ==
  ASSUME NEW CONSTANT b \in Nat, Types(b), StepsOfMain
  PROVE  TabInv(b)'
  <1> USE DEF dbv, filev, capv
  <1>1. CASE db_begin
    BY <1>1 DEF db_begin, Types, TabInv
  <1>2. CASE record_exists
    BY <1>2 DEF record_exists, Types, TabInv
  <1>3. CASE metadata_read_item
    <2>1. CaptureOK(cap, b) /\ k["main"] \in 1 .. NumItems
      BY <1>3 DEF metadata_read_item, Types, CtlInv, MainPlace, NumItems, CommitPcs, TxPcs, RollbackPcs
    <2>2. /\ ItemAt(k["main"]) = At(cap, k["main"]) /\ At(cap, k["main"]).ch \in Channels
          /\ ItemEntry(At(cap, k["main"])) \in Entries(b)
      BY <2>1, CurrentItem
    <2>3. EmptyTable \in TablesUpTo(b)
      BY EmptyTypes
    <2> DEFINE x == At(cap, k["main"])
    <2>4. \/ UNCHANGED <<meta, flash, tab, backup>>
          \/ \E table \in {meta[x.ch], EmptyTable} :
                /\ tab' = [tab EXCEPT !["main"] = table] /\ backup' = [backup EXCEPT ![x.ch] = table]
                /\ UNCHANGED <<meta, flash>>
      BY <1>3, <2>2, Zenon DEF metadata_read_item
    <2>5. meta[x.ch] \in TablesUpTo(b) /\ EmptyTable \in TablesUpTo(b) /\ x.ch \in Channels
      BY <2>2, <2>3 DEF Types, TabInv
    <2> HIDE DEF x
    <2> QED BY <2>4, <2>5 DEF Types, TabInv, Threads
  <1>4. CASE metadata_truncate_item
    <2>1. CaptureOK(cap, b) /\ k["main"] \in 1 .. NumItems
      BY <1>4 DEF metadata_truncate_item, Types, CtlInv, MainPlace, NumItems, CommitPcs, TxPcs, RollbackPcs
    <2>2. /\ ItemAt(k["main"]) = At(cap, k["main"]) /\ At(cap, k["main"]).ch \in Channels
          /\ ItemEntry(At(cap, k["main"])) \in Entries(b)
      BY <2>1, CurrentItem
    <2>3. EmptyTable \in TablesUpTo(b)
      BY EmptyTypes
    <2> QED BY <1>4, <2>2, <2>3 DEF metadata_truncate_item, fopen_wb, Types, TabInv
  <1>5. CASE metadata_fill_item
    <2>1. CaptureOK(cap, b) /\ k["main"] \in 1 .. NumItems
      BY <1>5 DEF metadata_fill_item, Types, CtlInv, MainPlace, NumItems, CommitPcs, TxPcs, RollbackPcs
    <2>2. /\ ItemAt(k["main"]) = At(cap, k["main"]) /\ At(cap, k["main"]).ch \in Channels
          /\ ItemEntry(At(cap, k["main"])) \in Entries(b)
      BY <2>1, CurrentItem
    <2>3. EmptyTable \in TablesUpTo(b)
      BY EmptyTypes
    <2>4. At(cap, k["main"]).slot \in Slots
      BY <1>5, <2>1, CurrentItem DEF metadata_fill_item, Types, CtlInv, MainPlace, TxPcs
    <2> DEFINE table == [tab["main"] EXCEPT ![At(cap, k["main"]).slot] = ItemEntry(At(cap, k["main"]))]
    <2>5. table \in TablesUpTo(b)
      <3>1. tab["main"] \in TablesUpTo(b)
        BY DEF Types, TabInv, Threads
      <3> QED BY <2>2, <2>4, <3>1, TableTypes
    <2> HIDE DEF table
    <2>6. CASE fwrite_table(At(cap, k["main"]).ch, table)
      BY <1>5, <2>2, <2>5, <2>6 DEF metadata_fill_item, fwrite_table, Types, TabInv
    <2>7. CASE UNCHANGED filev
      BY <1>5, <2>7 DEF metadata_fill_item, Types, TabInv
    <2> QED BY <1>5, <2>2, <2>6, <2>7 DEF metadata_fill_item, table
  <1>6. CASE record_insert
    BY <1>6 DEF record_insert, Types, TabInv
  <1>7. CASE record_count
    BY <1>7 DEF record_count, Types, TabInv
  <1>8. CASE task_update
    BY <1>8 DEF task_update, Types, TabInv
  <1>9. CASE db_commit
    BY <1>9 DEF db_commit, Types, TabInv
  <1>10. CASE db_rollback
    BY <1>10 DEF db_rollback, Types, TabInv
  <1>11. CASE metadata_rollback_open
    <2>1. CaptureOK(cap, b) /\ k["main"] \in 1 .. NumItems
      BY <1>11 DEF metadata_rollback_open, Types, CtlInv, MainPlace, NumItems, CommitPcs, TxPcs, RollbackPcs
    <2>2. /\ ItemAt(k["main"]) = At(cap, k["main"]) /\ At(cap, k["main"]).ch \in Channels
          /\ ItemEntry(At(cap, k["main"])) \in Entries(b)
      BY <2>1, CurrentItem
    <2>3. EmptyTable \in TablesUpTo(b)
      BY EmptyTypes
    <2> QED BY <1>11, <2>2, <2>3 DEF metadata_rollback_open, fopen_wb, Types, TabInv
  <1>12. CASE metadata_rollback_write
    <2> DEFINE c == ItemAt(k["main"]).ch
    <2>1. c \in Channels /\ backup[c] \in TablesUpTo(b)
      <3>1. CaptureOK(cap, b) /\ k["main"] \in 1 .. NumItems
        BY <1>12 DEF metadata_rollback_write, Types, CtlInv, MainPlace, NumItems, CommitPcs, TxPcs, RollbackPcs
      <3>2. c \in Channels /\ c = At(cap, k["main"]).ch
        BY <3>1, CurrentItem
      <3> QED BY <1>12, <3>2 DEF metadata_rollback_write, Types, CtlInv, MainPlace, TabInv
    <2> HIDE DEF c
    <2>2. CASE fwrite_table(c, backup[c]) /\ backup' = [backup EXCEPT ![c] = Nil]
      BY <1>12, <2>1, <2>2 DEF metadata_rollback_write, fwrite_table, Types, TabInv
    <2>3. CASE UNCHANGED <<filev, backup>>
      BY <1>12, <2>3 DEF metadata_rollback_write, Types, TabInv
    <2> QED BY <1>12, <2>2, <2>3 DEF metadata_rollback_write, c
  <1>13. CASE rollback_status
    BY <1>13 DEF rollback_status, Types, TabInv
  <1>14. CASE mark_pending
    BY <1>14 DEF mark_pending, Types, TabInv
  <1>15. CASE mark_complete
    BY <1>15 DEF mark_complete, Types, TabInv
  <1>16. CASE sync_check("main")
    BY <1>16 DEF sync_check, Types, TabInv
  <1>17. CASE sync_backup("main")
    BY <1>17 DEF sync_backup, Types, TabInv
  <1>18. CASE sync_meta("main")
    <2>1. \A p \in Threads : pc[p] = "sync_meta" => k[p] \in Channels
      BY DEF Types, CtlInv, MainPlace, JobInv, JobPlace, Threads
    <2>2. \A c \in Channels : [flash EXCEPT !.meta[c] = meta[c]]
                            \in [db : DbUpTo(b), meta : [Channels -> TablesUpTo(b)]]
      BY DEF Types, TabInv
    <2>3. flash' \in [db : DbUpTo(b), meta : [Channels -> TablesUpTo(b)]]
      BY <1>18, <2>1, <2>2 DEF sync_meta, Threads, Types, TabInv
    <2> QED BY <1>18, <2>3 DEF sync_meta, Types, TabInv
  <1>19. CASE sync_rename("main")
    BY <1>19 DEF sync_rename, Types, TabInv, DbInv
  <1>20. CASE outbox_retry
    BY <1>20 DEF outbox_retry, Types, TabInv
  <1>21. CASE outbox_unmark
    BY <1>21 DEF outbox_unmark, Types, TabInv
  <1>22. CASE workers_exit
    BY <1>22 DEF workers_exit, Types, TabInv
  <1>23. CASE service_maintenance_job
    BY <1>23 DEF service_maintenance_job, Types, TabInv
  <1>24. CASE capture_failed
    BY <1>24 DEF capture_failed, Types, TabInv
  <1>25. ASSUME NEW e \in BOOLEAN, capture_succeeded(e) PROVE TabInv(b)'
    BY <1>25 DEF capture_succeeded, Types, TabInv
  <1> QED BY <1>1, <1>2, <1>3, <1>4, <1>5, <1>6, <1>7, <1>8, <1>9, <1>10, <1>11, <1>12, <1>13, <1>14, <1>15, <1>16, <1>17, <1>18, <1>19, <1>20, <1>21, <1>22, <1>23, <1>24, <1>25 DEF StepsOfMain, commit_step, sync_step

\* So they do under the maintenance thread.
LEMMA JobTab ==
  ASSUME NEW CONSTANT b \in Nat, Types(b), job_step
  PROVE  TabInv(b)'
  <1> USE DEF dbv, filev, capv
  <1>1. CASE sync_check("job")
    BY <1>1 DEF sync_check, Types, TabInv
  <1>2. CASE sync_backup("job")
    BY <1>2 DEF sync_backup, Types, TabInv
  <1>3. CASE sync_meta("job")
    <2>1. \A p \in Threads : pc[p] = "sync_meta" => k[p] \in Channels
      BY DEF Types, CtlInv, MainPlace, JobInv, JobPlace, Threads
    <2>2. \A c \in Channels : [flash EXCEPT !.meta[c] = meta[c]]
                            \in [db : DbUpTo(b), meta : [Channels -> TablesUpTo(b)]]
      BY DEF Types, TabInv
    <2>3. flash' \in [db : DbUpTo(b), meta : [Channels -> TablesUpTo(b)]]
      BY <1>3, <2>1, <2>2 DEF sync_meta, Threads, Types, TabInv
    <2> QED BY <1>3, <2>3 DEF sync_meta, Types, TabInv
  <1>4. CASE sync_rename("job")
    BY <1>4 DEF sync_rename, Types, TabInv, DbInv
  <1>5. CASE job_check
    BY <1>5 DEF job_check, Types, TabInv
  <1>6. CASE clear_open
    <2>1. EmptyTable \in TablesUpTo(b) /\ k["job"] \in Nat
      BY EmptyTypes DEF Types, CtlInv, MainPlace, Threads
    <2>2. k["job"] \in Channels
      BY <1>6 DEF clear_open, Types, JobInv, JobPlace, ClearPcs, DeletePcs, PurgePcs, Files
    <2> QED BY <1>6, <2>1, <2>2 DEF clear_open, fopen_wb, fwrite_table, Types, TabInv, Threads
  <1>7. CASE clear_fill
    <2>1. EmptyTable \in TablesUpTo(b) /\ k["job"] \in Nat
      BY EmptyTypes DEF Types, CtlInv, MainPlace, Threads
    <2>2. k["job"] \in Channels
      BY <1>7 DEF clear_fill, Types, JobInv, JobPlace, ClearPcs, DeletePcs, PurgePcs, Files
    <2> QED BY <1>7, <2>1, <2>2 DEF clear_fill, fopen_wb, fwrite_table, Types, TabInv, Threads
  <1>8. CASE file_clear_all
    BY <1>8 DEF file_clear_all, Types, TabInv
  <1>9. CASE delete_read
    <2> DEFINE table == meta[job.rec.ch]
    <2>1. table \in TablesUpTo(b)
      BY <1>9 DEF delete_read, Types, JobInv, JobPlace, TabInv, DeletePcs, Files
    <2>2. without_file(table, job.task, job.idx) \in TablesUpTo(b)
      BY <2>1, TableTypes
    <2>3. \/ UNCHANGED <<meta, flash, tab, backup>>
          \/ /\ tab' = [tab EXCEPT !["job"] = without_file(table, job.task, job.idx)]
             /\ UNCHANGED <<meta, flash, backup>>
      BY <1>9, EmptyHasNone DEF delete_read
    <2> QED BY <2>2, <2>3 DEF Types, TabInv, Threads
  <1>10. CASE delete_open
    <2>1. EmptyTable \in TablesUpTo(b) /\ k["job"] \in Nat
      BY EmptyTypes DEF Types, CtlInv, MainPlace, Threads
    <2>2. job.rec.ch \in Channels
      BY <1>10 DEF delete_open, Types, JobInv, JobPlace, ClearPcs, DeletePcs, PurgePcs, Files
    <2> QED BY <1>10, <2>1, <2>2 DEF delete_open, fopen_wb, fwrite_table, Types, TabInv, Threads
  <1>11. CASE delete_fill
    <2>1. EmptyTable \in TablesUpTo(b) /\ k["job"] \in Nat
      BY EmptyTypes DEF Types, CtlInv, MainPlace, Threads
    <2>2. job.rec.ch \in Channels
      BY <1>11 DEF delete_fill, Types, JobInv, JobPlace, ClearPcs, DeletePcs, PurgePcs, Files
    <2> QED BY <1>11, <2>1, <2>2 DEF delete_fill, fopen_wb, fwrite_table, Types, TabInv, Threads
  <1>12. CASE file_delete
    BY <1>12 DEF file_delete, Types, TabInv
  <1>13. CASE delete_count
    BY <1>13 DEF delete_count, Types, TabInv
  <1>14. CASE purge_read
    <2> DEFINE table == meta[k["job"]]
    <2>1. table \in TablesUpTo(b)
      BY <1>14 DEF purge_read, Types, JobInv, JobPlace, TabInv
    <2>2. without_task(table, job.task) \in TablesUpTo(b)
      BY <2>1, TableTypes
    <2>3. \/ UNCHANGED <<meta, flash, tab, backup>>
          \/ /\ tab' = [tab EXCEPT !["job"] = without_task(table, job.task)]
             /\ UNCHANGED <<meta, flash, backup>>
      BY <1>14, EmptyHasNone DEF purge_read
    <2> QED BY <2>2, <2>3 DEF Types, TabInv, Threads
  <1>15. CASE purge_open
    <2>1. EmptyTable \in TablesUpTo(b) /\ k["job"] \in Nat
      BY EmptyTypes DEF Types, CtlInv, MainPlace, Threads
    <2>2. k["job"] \in Channels
      BY <1>15 DEF purge_open, Types, JobInv, JobPlace, ClearPcs, DeletePcs, PurgePcs, Files
    <2> QED BY <1>15, <2>1, <2>2 DEF purge_open, fopen_wb, fwrite_table, Types, TabInv, Threads
  <1>16. CASE purge_fill
    <2>1. EmptyTable \in TablesUpTo(b) /\ k["job"] \in Nat
      BY EmptyTypes DEF Types, CtlInv, MainPlace, Threads
    <2>2. k["job"] \in Channels
      BY <1>16 DEF purge_fill, Types, JobInv, JobPlace, ClearPcs, DeletePcs, PurgePcs, Files
    <2> QED BY <1>16, <2>1, <2>2 DEF purge_fill, fopen_wb, fwrite_table, Types, TabInv, Threads
  <1>17. CASE purge_task
    BY <1>17 DEF purge_task, Types, TabInv
  <1> QED BY <1>1, <1>2, <1>3, <1>4, <1>5, <1>6, <1>7, <1>8, <1>9, <1>10, <1>11, <1>12, <1>13, <1>14, <1>15, <1>16, <1>17 DEF job_step, sync_step

\* The main loop is where its counters and its capture say.
LEMMA MainCtl ==
  ASSUME NEW CONSTANT b \in Nat, Types(b), StepsOfMain
  PROVE  CtlInv(b)'
  <1> USE DEF Types, CtlInv, MainPlace, goto, start_loop, fail_with, finish, rollback_next, acknowledge, metadata_error, purge_next, fopen_wb, fwrite_table, dbv, filev, capv,
             Threads, MainPcs, JobPcs, CommitPcs, TxPcs, RollbackPcs, SyncPcs, ClearPcs, DeletePcs, PurgePcs
  <1>a. pc["main"] \in CommitPcs
           => Len(cap.items) \in Nat \ {0} /\ cap.task \in Tasks /\ ItemsOf(cap) \subseteq Item(b)
    BY ItemsInOrder DEF CaptureOK
  <1>b. 0 \in Channels /\ \A n \in Channels : n \in Nat /\ (n < NumChannels - 1 => n + 1 \in Channels)
    BY CatalogAssumption DEF Channels
  <1>1. CASE db_begin
    BY <1>1 DEF db_begin
  <1>2. CASE record_exists
    BY <1>2, <1>a DEF record_exists, NumItems
  <1>3. CASE metadata_read_item
    BY <1>3 DEF metadata_read_item
  <1>4. CASE metadata_truncate_item
    BY <1>4 DEF metadata_truncate_item
  <1>5. CASE metadata_fill_item
    BY <1>5, <1>a DEF metadata_fill_item, NumItems
  <1>6. CASE record_insert
    BY <1>6, <1>a DEF record_insert, NumItems
  <1>7. CASE record_count
    BY <1>7, <1>a DEF record_count, NumItems
  <1>8. CASE task_update
    BY <1>8, <1>a DEF task_update, NumItems
  <1>9. CASE db_commit
    BY <1>9, <1>a DEF db_commit, NumItems
  <1>10. CASE db_rollback
    <2>1. k["main"] \in 0 .. Len(cap.items) /\ Len(cap.items) \in Nat
      BY <1>10, <1>a DEF db_rollback
    <2>2. k["main"] # 0 => k["main"] \in 1 .. Len(cap.items)
      BY <2>1
    <2>3. CASE k["main"] = 0
      BY <1>10, <2>3 DEF db_rollback
    <2>4. CASE k["main"] # 0
      BY <1>10, <2>2, <2>4 DEF db_rollback
    <2> QED BY <2>3, <2>4
  <1>11. CASE metadata_rollback_open
    <2>1. ItemAt(k["main"]) = At(cap, k["main"])
      BY DEF ItemAt, At, Items, ItemsOf
    <2> QED BY <1>11, <1>a, <2>1 DEF metadata_rollback_open
  <1>12. CASE metadata_rollback_write
    BY <1>12 DEF metadata_rollback_write
  <1>13. CASE rollback_status
    BY <1>13 DEF rollback_status
  <1>14. CASE mark_pending
    BY <1>14, <1>a DEF mark_pending
  <1>15. CASE mark_complete
    BY <1>15 DEF mark_complete
  <1>16. CASE sync_check("main")
    BY <1>16 DEF sync_check, after_sync, Booting
  <1>17. CASE sync_backup("main")
    BY <1>17, <1>b DEF sync_backup, after_sync, Booting
  <1>18. CASE sync_meta("main")
    BY <1>18, <1>b DEF sync_meta, after_sync, Booting
  <1>19. CASE sync_rename("main")
    BY <1>19 DEF sync_rename, after_sync, Booting
  <1>20. CASE outbox_retry
    BY <1>20 DEF outbox_retry
  <1>21. CASE outbox_unmark
    BY <1>21 DEF outbox_unmark
  <1>22. CASE workers_exit
    BY <1>22 DEF workers_exit
  <1>23. CASE service_maintenance_job
    BY <1>23 DEF service_maintenance_job
  <1>24. CASE capture_failed
    BY <1>24 DEF capture_failed
  <1>25. ASSUME NEW e \in BOOLEAN, capture_succeeded(e) PROVE CtlInv(b)'
    <2>1. \A x \in ItemsOf(cap) : x.slot \in Slots
      BY <1>25, <1>a DEF capture_succeeded, Items, ItemsOf, Item
    <2> QED BY <1>25, <1>a, <2>1 DEF capture_succeeded
  <1> QED BY <1>1, <1>2, <1>3, <1>4, <1>5, <1>6, <1>7, <1>8, <1>9, <1>10, <1>11, <1>12, <1>13, <1>14, <1>15, <1>16, <1>17, <1>18, <1>19, <1>20, <1>21, <1>22, <1>23, <1>24, <1>25 DEF StepsOfMain, commit_step, sync_step

\* The maintenance thread leaves the main loop where it is.
LEMMA JobCtl ==
  ASSUME NEW CONSTANT b \in Nat, Types(b), job_step
  PROVE  CtlInv(b)'
  <1> USE DEF Types, CtlInv, MainPlace, goto, start_loop, fail_with, finish, rollback_next, acknowledge, metadata_error, purge_next, fopen_wb, fwrite_table, dbv, filev, capv,
             Threads, MainPcs, JobPcs, CommitPcs, TxPcs, RollbackPcs, SyncPcs, ClearPcs, DeletePcs, PurgePcs
  <1>b. 0 \in Channels /\ \A n \in Channels : n \in Nat /\ (n < NumChannels - 1 => n + 1 \in Channels)
    BY CatalogAssumption DEF Channels
  <1>1. CASE sync_check("job")
    BY <1>1 DEF sync_check, after_sync, Booting
  <1>2. CASE sync_backup("job")
    BY <1>2, <1>b DEF sync_backup, after_sync, Booting
  <1>3. CASE sync_meta("job")
    BY <1>3, <1>b DEF sync_meta, after_sync, Booting
  <1>4. CASE sync_rename("job")
    BY <1>4 DEF sync_rename, after_sync, Booting
  <1>5. CASE job_check
    BY <1>5 DEF job_check
  <1>6. CASE clear_open
    BY <1>6 DEF clear_open
  <1>7. CASE clear_fill
    BY <1>7 DEF clear_fill
  <1>8. CASE file_clear_all
    BY <1>8 DEF file_clear_all
  <1>9. CASE delete_read
    BY <1>9 DEF delete_read
  <1>10. CASE delete_open
    BY <1>10 DEF delete_open
  <1>11. CASE delete_fill
    BY <1>11 DEF delete_fill
  <1>12. CASE file_delete
    BY <1>12 DEF file_delete
  <1>13. CASE delete_count
    BY <1>13 DEF delete_count
  <1>14. CASE purge_read
    BY <1>14 DEF purge_read
  <1>15. CASE purge_open
    BY <1>15 DEF purge_open
  <1>16. CASE purge_fill
    BY <1>16 DEF purge_fill
  <1>17. CASE purge_task
    BY <1>17 DEF purge_task
  <1> QED BY <1>1, <1>2, <1>3, <1>4, <1>5, <1>6, <1>7, <1>8, <1>9, <1>10, <1>11, <1>12, <1>13, <1>14, <1>15, <1>16, <1>17 DEF job_step, sync_step

\* The main loop leaves the maintenance thread where it is, but for the join.
LEMMA MainJob ==
  ASSUME NEW CONSTANT b \in Nat, Types(b), StepsOfMain
  PROVE  JobInv(b)'
  <1> USE DEF Types, CtlInv, JobInv, JobPlace, goto, start_loop, fail_with, finish, rollback_next, acknowledge, metadata_error, purge_next, fopen_wb, fwrite_table,
             dbv, filev, capv, Threads, MainPcs, JobPcs, CommitPcs, TxPcs, RollbackPcs, SyncPcs, ClearPcs, DeletePcs, PurgePcs
  <1>b. 0 \in Channels /\ \A n \in Channels : n \in Nat /\ (n < NumChannels - 1 => n + 1 \in Channels)
    BY CatalogAssumption DEF Channels
  <1>1. CASE db_begin
    BY <1>1 DEF db_begin
  <1>2. CASE record_exists
    BY <1>2 DEF record_exists
  <1>3. CASE metadata_read_item
    BY <1>3 DEF metadata_read_item
  <1>4. CASE metadata_truncate_item
    BY <1>4 DEF metadata_truncate_item
  <1>5. CASE metadata_fill_item
    BY <1>5 DEF metadata_fill_item
  <1>6. CASE record_insert
    BY <1>6 DEF record_insert
  <1>7. CASE record_count
    BY <1>7 DEF record_count
  <1>8. CASE task_update
    BY <1>8 DEF task_update
  <1>9. CASE db_commit
    BY <1>9 DEF db_commit
  <1>10. CASE db_rollback
    BY <1>10 DEF db_rollback
  <1>11. CASE metadata_rollback_open
    BY <1>11 DEF metadata_rollback_open
  <1>12. CASE metadata_rollback_write
    BY <1>12 DEF metadata_rollback_write
  <1>13. CASE rollback_status
    BY <1>13 DEF rollback_status
  <1>14. CASE mark_pending
    BY <1>14 DEF mark_pending
  <1>15. CASE mark_complete
    BY <1>15 DEF mark_complete
  <1>16. CASE sync_check("main")
    BY <1>16, <1>b DEF sync_check, after_sync
  <1>17. CASE sync_backup("main")
    BY <1>17, <1>b DEF sync_backup, after_sync
  <1>18. CASE sync_meta("main")
    BY <1>18, <1>b DEF sync_meta, after_sync
  <1>19. CASE sync_rename("main")
    BY <1>19, <1>b DEF sync_rename, after_sync
  <1>20. CASE outbox_retry
    BY <1>20 DEF outbox_retry
  <1>21. CASE outbox_unmark
    BY <1>21 DEF outbox_unmark
  <1>22. CASE workers_exit
    BY <1>22 DEF workers_exit
  <1>23. CASE service_maintenance_job
    BY <1>23 DEF service_maintenance_job, NoJob
  <1>24. CASE capture_failed
    BY <1>24 DEF capture_failed
  <1>25. ASSUME NEW e \in BOOLEAN, capture_succeeded(e) PROVE JobInv(b)'
    BY <1>25 DEF capture_succeeded
  <1> QED BY <1>1, <1>2, <1>3, <1>4, <1>5, <1>6, <1>7, <1>8, <1>9, <1>10, <1>11, <1>12, <1>13, <1>14, <1>15, <1>16, <1>17, <1>18, <1>19, <1>20, <1>21, <1>22, <1>23, <1>24, <1>25 DEF StepsOfMain, commit_step, sync_step

\* The maintenance thread is where its job says.
LEMMA JobJob ==
  ASSUME NEW CONSTANT b \in Nat, Types(b), job_step
  PROVE  JobInv(b)'
  <1> USE DEF Types, CtlInv, JobInv, JobPlace, goto, start_loop, fail_with, finish, rollback_next, acknowledge, metadata_error, purge_next, fopen_wb, fwrite_table,
             dbv, filev, capv, Threads, MainPcs, JobPcs, CommitPcs, TxPcs, RollbackPcs, SyncPcs, ClearPcs, DeletePcs, PurgePcs
  <1>b. 0 \in Channels /\ \A n \in Channels : n \in Nat /\ (n < NumChannels - 1 => n + 1 \in Channels)
    BY CatalogAssumption DEF Channels
  <1>1. CASE sync_check("job")
    BY <1>1, <1>b DEF sync_check, after_sync
  <1>2. CASE sync_backup("job")
    BY <1>2, <1>b DEF sync_backup, after_sync
  <1>3. CASE sync_meta("job")
    BY <1>3, <1>b DEF sync_meta, after_sync
  <1>4. CASE sync_rename("job")
    BY <1>4, <1>b DEF sync_rename, after_sync
  <1>5. CASE job_check
    <2>1. \A r \in FilesOf(db, job.task) : r \in Files(b) /\ r.task = job.task
      BY DEF FilesOf, DbInv, DbUpTo
    <2>2. CASE \E r \in FilesOf(db, job.task) :
                  /\ job.op = "delete" /\ r.idx = job.idx
                  /\ job' = [job EXCEPT !.rec = r] /\ goto("job", "delete_read")
      BY <2>1, <2>2
    <2>3. CASE job.op = "clear" /\ start_loop("job", "clear_open", 0) /\ UNCHANGED job
      BY <1>5, <1>b, <2>3 DEF job_check
    <2>4. CASE acknowledge("retrying") \/ acknowledge("failed")
      BY <1>5, <2>4 DEF job_check
    <2> QED BY <1>5, <2>2, <2>3, <2>4 DEF job_check
  <1>6. CASE clear_open
    BY <1>6 DEF clear_open
  <1>7. CASE clear_fill
    BY <1>7, <1>b DEF clear_fill
  <1>8. CASE file_clear_all
    BY <1>8, <1>b DEF file_clear_all
  <1>9. CASE delete_read
    BY <1>9 DEF delete_read
  <1>10. CASE delete_open
    BY <1>10 DEF delete_open
  <1>11. CASE delete_fill
    BY <1>11 DEF delete_fill
  <1>12. CASE file_delete
    BY <1>12 DEF file_delete
  <1>13. CASE delete_count
    BY <1>13, <1>b DEF delete_count
  <1>14. CASE purge_read
    BY <1>14, <1>b DEF purge_read
  <1>15. CASE purge_open
    BY <1>15 DEF purge_open
  <1>16. CASE purge_fill
    BY <1>16, <1>b DEF purge_fill
  <1>17. CASE purge_task
    BY <1>17, <1>b DEF purge_task
  <1> QED BY <1>1, <1>2, <1>3, <1>4, <1>5, <1>6, <1>7, <1>8, <1>9, <1>10, <1>11, <1>12, <1>13, <1>14, <1>15, <1>16, <1>17 DEF job_step, sync_step

\* A new capture raises the bound by one.
LEMMA TaskInfoTypes ==
  ASSUME NEW CONSTANT b \in Nat, Types(b), b = used.captures, NEW t \in Tasks,
         NEW plan \in Plans, NEW missed \in SUBSET Lapses, task_info(t, plan, missed)
  PROVE  Types(b + 1)' /\ used'.captures = b + 1
  <1>1. /\ CaptureOK(cap', b + 1) /\ meta' \in [Channels -> TablesUpTo(b)]
    BY NewCapture DEF Types, DbInv, TabInv
  <1>2. /\ Files(b) \subseteq Files(b + 1) /\ TablesUpTo(b) \subseteq TablesUpTo(b + 1)
        /\ DbUpTo(b) \subseteq DbUpTo(b + 1)
    BY MoreCaptures
  <1>3. /\ pc["main"] = "idle" /\ job.op = "none" /\ used.captures < MaxCaptures
        /\ running' = TRUE /\ backup' = [c \in Channels |-> Nil]
        /\ report' = [report EXCEPT ![t] = "none"]
        /\ goto("main", "capturing")
        /\ UNCHANGED <<tmp, flash, outbox, count, tab, job>>
    BY DEF task_info
  <1>4. UsedInv' /\ used'.captures = b + 1
    <2> DEFINE n == Cardinality(missed)
    <2>1. /\ used' = [used EXCEPT !.captures = @ + 1, !.faults = @ + n]
          /\ used.faults + n <= MaxFaults /\ used.captures < MaxCaptures
      BY DEF task_info
    <2>2. n \in Nat /\ MaxCaptures \in Nat /\ MaxFaults \in Nat
      BY LapsesCounted, CatalogAssumption
    <2> HIDE DEF n
    <2>3. used \in [captures : Nat, faults : Nat, crashes : Nat, jobs : Nat]
      BY DEF Types, UsedInv
    <2>4. used' = [captures |-> used.captures + 1, faults |-> used.faults + n,
                   crashes |-> used.crashes, jobs |-> used.jobs]
      BY <2>1, <2>3
    <2> QED BY <2>1, <2>2, <2>3, <2>4 DEF Types, UsedInv
  <1>5. DbInv(b + 1)'
    <2> DEFINE d == [DbFor(t, missed) EXCEPT !.status[t] = "running"]
    <2>1. d \in DbUpTo(b) /\ IsFiniteSet(d.recs)
      <3>1. DbFor(t, missed) \in DbUpTo(b) /\ IsFiniteSet(DbFor(t, missed).recs)
        <4>1. db \in DbUpTo(b) /\ IsFiniteSet(db.recs)
          BY DEF Types, DbInv
        <4>2. task_deleted(db, t) \in DbUpTo(b) /\ task_deleted(db, t).recs \subseteq db.recs
          BY <4>1, StatementTypes
        <4>3. IsFiniteSet(task_deleted(db, t).recs)
          BY <4>1, <4>2, FS_Subset
        <4> QED BY <4>1, <4>2, <4>3 DEF DbFor
      <3> QED BY <3>1 DEF DbUpTo, Status
    <2>2. db_write(d)
      BY Zenon DEF task_info, IsStale, DbFor
    <2> HIDE DEF d
    <2>3. /\ db' \in DbUpTo(b) /\ saved' \in DbUpTo(b) /\ in_tx' = in_tx
          /\ IsFiniteSet(db'.recs) /\ IsFiniteSet(saved'.recs)
      BY <2>1, <2>2, WriteTypes DEF Types
    <2> QED BY <1>2, <1>3, <2>3 DEF Types, DbInv
  <1>6. TabInv(b + 1)'
    BY <1>1, <1>2, <1>3 DEF Types, TabInv
  <1>7. CtlInv(b + 1)'
    <2>1. /\ pc'["main"] = "capturing" /\ pc' = [p \in Threads |-> pc'[p]]
          /\ k' \in [Threads -> Nat] /\ k'["main"] \in Nat
      BY <1>3 DEF Types, CtlInv, goto, Threads
    <2>2. MainPlace("capturing", k'["main"], cap', backup', b + 1)
      BY <1>1, <2>1 DEF MainPlace, MainPcs, CommitPcs, TxPcs, RollbackPcs
    <2> QED BY <1>3, <2>1, <2>2 DEF Types, CtlInv
  <1>8. JobInv(b + 1)'
    <2>1. JobPlace(pc["job"], k["job"], job, b + 1)
      BY <1>2 DEF Types, JobInv, JobPlace
    <2>2. pc'["job"] = pc["job"] /\ k' = k
      BY <1>3 DEF Types, CtlInv, goto, Threads
    <2> QED BY <1>3, <2>1, <2>2 DEF JobInv
  <1> QED BY <1>4, <1>5, <1>6, <1>7, <1>8 DEF Types

\* The operator's command starts the thread.
LEMMA StartTypes ==
  ASSUME NEW CONSTANT b \in Nat, Types(b), StartsOfJob
  PROVE  Types(b)' /\ used'.captures = used.captures
  <1>1. PICK op \in {"sync", "clear", "delete"}, t \in Tasks \cup {Nil}, i \in Nat \cup {Nil} :
          start_maintenance_job(op, t, i) /\ (op = "delete" => t \in Tasks)
    <2>1. 1 .. MaxIndex \subseteq Nat
      BY DEF MaxIndex
    <2> QED BY <2>1, Zenon DEF StartsOfJob
  <1>2. UsedInv' /\ used'.captures = used.captures
    <2>1. MaxJobs \in Nat
      BY CatalogAssumption
    <2> QED BY <1>1, <2>1 DEF start_maintenance_job, Types, UsedInv
  <1>3. DbInv(b)' /\ TabInv(b)'
    BY <1>1 DEF start_maintenance_job, Types, DbInv, TabInv, dbv, filev, capv
  <1>4. pc' = [p \in Threads |-> pc'[p]] /\ k' = k /\ pc'["main"] = pc["main"]
    BY <1>1 DEF start_maintenance_job, goto, Types, CtlInv, Threads
  <1>5. CtlInv(b)'
    BY <1>1, <1>4 DEF start_maintenance_job, Types, CtlInv, filev, capv
  <1>6. JobInv(b)'
    <2>1. pc'["job"] \in {"sync_check", "check"} /\ k["job"] \in Nat
      BY <1>1 DEF start_maintenance_job, goto, Types, CtlInv, Threads
    <2>2. /\ job' = [op |-> op, task |-> t, idx |-> i, rec |-> Nil, ack |-> Nil]
      BY <1>1 DEF start_maintenance_job, NoJob
    <2>3. JobPlace(pc'["job"], k["job"], job', b)
      BY <1>1, <2>1, <2>2 DEF JobPlace, JobPcs, SyncPcs, ClearPcs, DeletePcs, PurgePcs
    <2> QED BY <1>4, <2>3 DEF JobInv
  <1> QED BY <1>2, <1>3, <1>5, <1>6 DEF Types

\* A new process finds the files and nothing else.
LEMMA CrashTypes ==
  ASSUME NEW CONSTANT b \in Nat, Types(b), crash
  PROVE  Types(b)' /\ used'.captures = used.captures
  <1>1. UsedInv' /\ used'.captures = used.captures
    <2>1. MaxCrashes \in Nat
      BY CatalogAssumption
    <2> QED BY <2>1 DEF crash, Types, UsedInv
  <1>2. DbInv(b)'
    BY DEF crash, Types, DbInv, filev
  <1>3. EmptyTable \in TablesUpTo(b)
    BY EmptyTypes
  <1>4. TabInv(b)'
    BY <1>3 DEF crash, Types, TabInv, filev
  <1>5. /\ pc' = [p \in Threads |-> pc'[p]] /\ k' \in [Threads -> Nat]
        /\ pc'["main"] = "down" /\ pc'["job"] = "none" /\ k'["main"] = 0 /\ k'["job"] = 0
    BY DEF crash, Threads
  <1>6. MainPlace("down", 0, NoCapture, backup', b)
    BY DEF MainPlace, MainPcs, CommitPcs, TxPcs, RollbackPcs
  <1>7. CtlInv(b)'
    BY <1>5, <1>6 DEF crash, Types, CtlInv, filev
  <1>8. JobPlace("none", 0, NoJob, b)
    BY DEF JobPlace, NoJob, JobPcs, ClearPcs, DeletePcs, PurgePcs
  <1>9. JobInv(b)'
    BY <1>5, <1>8 DEF crash, JobInv
  <1> QED BY <1>1, <1>2, <1>4, <1>7, <1>9 DEF Types

\* Every step is one of the main loop, of the maintenance thread, a command or
\* the death of the process.
LEMMA Steps ==
  Next => \/ StepsOfMain \/ job_step \/ StartsOfJob \/ crash
          \/ StartsCapture
  BY Zenon DEF Next, main_step, environment, StepsOfMain, StartsOfJob, StartsCapture

LEMMA NextTypes == TypeInv /\ [Next]_vars => TypeInv'
  <1> SUFFICES ASSUME TypeInv, [Next]_vars PROVE TypeInv'
    OBVIOUS
  <1>1. PICK b \in Nat : b = used.captures
    BY DEF TypeInv, UsedInv
  <1>2. Types(b)
    BY <1>1 DEF TypeInv, Types
  <1>3. ASSUME Types(b)', used'.captures = b PROVE TypeInv'
    BY <1>3 DEF Types, TypeInv
  <1>4. CASE StepsOfMain
    <2>1. used' = used \/ fault("main")
      BY <1>4, MainUsed
    <2>2. UsedInv' /\ used'.captures = b
      BY <1>1, <1>2, <2>1, FaultUsed DEF Types
    <2>3. DbInv(b)' /\ TabInv(b)' /\ CtlInv(b)' /\ JobInv(b)'
      BY <1>2, <1>4, MainDb, MainTab, MainCtl, MainJob
    <2> QED BY <1>3, <2>2, <2>3 DEF Types
  <1>5. CASE job_step
    <2>1. used' = used \/ fault("job")
      BY <1>5, JobUsed
    <2>2. UsedInv' /\ used'.captures = b
      BY <1>1, <1>2, <2>1, FaultUsed DEF Types
    <2>3. DbInv(b)' /\ TabInv(b)' /\ CtlInv(b)' /\ JobInv(b)'
      BY <1>2, <1>5, JobDb, JobTab, JobCtl, JobJob
    <2> QED BY <1>3, <2>2, <2>3 DEF Types
  <1>6. CASE StartsOfJob
    BY <1>1, <1>2, <1>3, <1>6, StartTypes
  <1>7. CASE crash
    BY <1>1, <1>2, <1>3, <1>7, CrashTypes
  <1>8. ASSUME NEW t \in Tasks, NEW plan \in Plans, NEW missed \in SUBSET Lapses,
               task_info(t, plan, missed)
        PROVE  TypeInv'
    <2>1. Types(b + 1)' /\ used'.captures = b + 1
      BY <1>1, <1>2, <1>8, TaskInfoTypes
    <2> QED BY <2>1 DEF Types, TypeInv
  <1>9. CASE UNCHANGED vars
    BY <1>2, <1>3, <1>9, <1>1 DEF vars, Types, UsedInv, DbInv, TabInv, CtlInv, JobInv
  <1> QED BY <1>4, <1>5, <1>6, <1>7, <1>8, <1>9, Steps DEF StartsCapture

LEMMA TypesFit == TypeInv => TypeOK
  <1> SUFFICES ASSUME TypeInv PROVE TypeOK
    OBVIOUS
  <1>1. PICK b \in Nat : b = used.captures /\ b <= MaxCaptures /\ MaxCaptures \in Nat
    BY CatalogAssumption DEF TypeInv, UsedInv
  <1>2. 1 .. b * NumChannels \subseteq 1 .. MaxIndex /\ 0 .. b - 1 \subseteq 0 .. MaxCaptures
    BY <1>1, LargerBound DEF MaxIndex
  <1>3. Files(b) \subseteq Record /\ Entries(b) \subseteq Entry
    BY <1>2 DEF Files, Entries, Record, Entry
  <1>4. DbUpTo(b) \subseteq Databases
    BY <1>3 DEF DbUpTo, Databases
  <1>5. TablesUpTo(b) \subseteq Tables
    BY <1>3 DEF TablesUpTo, Tables
  <1>6. db \in Databases /\ saved \in Databases /\ in_tx \in BOOLEAN
    BY <1>1, <1>4 DEF TypeInv, DbInv
  <1>7. meta \in [Channels -> Tables] /\ tab \in [Threads -> Tables]
    BY <1>1, <1>5 DEF TypeInv, TabInv
  <1> QED BY <1>6, <1>7 DEF TypeInv, CtlInv, JobInv, JobPlace, TypeOK

\* The indices and sector numbers that the captures are given stay below the
\* bounds of TypeOK, whatever is lost, deleted or cleared in between.
THEOREM CatalogTypes == Spec => [](TypeInv /\ TypeOK)
  <1>1. Init => TypeInv
    BY InitTypes
  <1>2. TypeInv /\ [Next]_vars => TypeInv'
    BY NextTypes
  <1> QED BY <1>1, <1>2, TypesFit, PTL DEF Spec

-----------------------------------------------------------------------------
(* Transactions.  What the connection sees and what is durable differ only
   inside the transaction of a commit, by the records it has inserted.      *)

LEMMA InitTx == Init => TxInv
  BY DEF Init, TxInv, TxPcs, RollbackPcs, PurgePcs, Threads, NoJob

\* A goto of one thread leaves the other where it is.
LEMMA Moves ==
  ASSUME TypeInv
  PROVE  /\ \A l : goto("main", l) => pc'["main"] = l /\ pc'["job"] = pc["job"] /\ k' = k
         /\ \A l : goto("job", l) => pc'["job"] = l /\ pc'["main"] = pc["main"] /\ k' = k
         /\ \A l, n : start_loop("main", l, n) => /\ pc'["main"] = l /\ pc'["job"] = pc["job"]
                                                /\ k'["main"] = n /\ k'["job"] = k["job"]
         /\ \A l, n : start_loop("job", l, n) => /\ pc'["job"] = l /\ pc'["main"] = pc["main"]
                                               /\ k'["job"] = n /\ k'["main"] = k["main"]
  BY DEF TypeInv, CtlInv, goto, start_loop, Threads

LEMMA StatusKeepsFiles ==
  ASSUME NEW d, NEW t, NEW s
  PROVE  with_status(d, t, s) = d \/ with_status(d, t, s) = [d EXCEPT !.status[t] = s]
  BY DEF with_status

\* task_update_status does not change the list of files.
LEMMA StatusFiles ==
  ASSUME TypeInv, cap.task \in Tasks, db_write(with_status(db, cap.task, "failed"))
  PROVE  /\ db'.recs = db.recs /\ in_tx' = in_tx
         /\ in_tx => saved' = saved
         /\ ~in_tx => saved' = db'
  <1>1. used.captures \in Nat /\ db \in DbUpTo(used.captures) /\ "failed" \in Status
    BY DEF TypeInv, UsedInv, DbInv, Status
  <1>2. with_status(db, cap.task, "failed").recs = db.recs
    BY <1>1, StatementTypes
  <1> QED BY <1>2 DEF db_write

\* The records of a capture, in the order in which they are inserted.
LEMMA BatchInOrder ==
  ASSUME NEW b \in Nat, CaptureOK(cap, b)
  PROVE  BatchOf(cap) = {RecordOf(cap, At(cap, j)) : j \in 1 .. NumItems}
  <1>1. /\ \A n \in 1 .. NumItems : At(cap, n) \in ItemsOf(cap)
        /\ \A x \in ItemsOf(cap) : \E n \in 1 .. NumItems : x = At(cap, n)
    BY ItemsInOrder DEF NumItems
  <1> QED BY <1>1 DEF BatchOf


\* The main loop.
LEMMA MainTx ==
  ASSUME TypeInv, TxInv, StepsOfMain
  PROVE  TxInv'
  <1> USE DEF TxInv, Ahead, Unlisted, dbv, filev, capv, fopen_wb, fwrite_table, fail_with, finish, rollback_next, CommitPcs, TxPcs, RollbackPcs, PurgePcs, SyncPcs
  <1>m. /\ \A l : goto("main", l) => pc'["main"] = l /\ pc'["job"] = pc["job"] /\ k' = k
        /\ \A l : goto("job", l) => pc'["job"] = l /\ pc'["main"] = pc["main"] /\ k' = k
        /\ \A l, n : start_loop("main", l, n) => /\ pc'["main"] = l /\ pc'["job"] = pc["job"]
                                               /\ k'["main"] = n /\ k'["job"] = k["job"]
        /\ \A l, n : start_loop("job", l, n) => /\ pc'["job"] = l /\ pc'["main"] = pc["main"]
                                              /\ k'["job"] = n /\ k'["main"] = k["main"]
    BY Moves
  <1>c. pc["main"] \in CommitPcs => cap.task \in Tasks
    BY DEF TypeInv, CtlInv, MainPlace, CaptureOK
  <1>n. pc["main"] # "idle" => pc["job"] = "none" /\ job.op = "none"
    BY DEF TypeInv, JobInv, JobPlace, TxInv
  <1>1. CASE db_begin
    <2>1. db_write(with_status(db, cap.task, "failed")) =>
            /\ db'.recs = db.recs /\ in_tx' = in_tx
            /\ in_tx => saved' = saved
            /\ ~in_tx => saved' = db'
      BY <1>1, <1>c, StatusFiles DEF db_begin
    <2> QED BY <1>1, <1>m, <1>n, <2>1 DEF db_begin
  <1>2. CASE record_exists
    <2> DEFINE found == \E x \in Items : \E r \in FilesOf(db, cap.task) : r.idx = x.idx
    <2>1. /\ pc["main"] = "exists" /\ in_tx /\ db.recs = saved.recs
          /\ UNCHANGED <<dbv, cap, job>>
          /\ \/ fail_with("duplicate_record", 0)
             \/ start_loop("main", "read", 1) /\ (found => "query" \in SilentFaults)
      BY <1>2 DEF record_exists, silent_fault
    <2>2. (found => "query" \in SilentFaults) /\ NamesChecked => Unlisted(saved.recs)
      <3>1. CASE ~found
        BY <2>1, <3>1 DEF FilesOf, Items, ItemsOf
      <3>2. CASE IndicesKnown
        <4>1. PICK b \in Nat : b = used.captures /\ CaptureOK(cap, b)
          BY <2>1 DEF TypeInv, UsedInv, CtlInv, MainPlace
        <4>2. ItemsOf(cap) \subseteq Item(b) /\ b * NumChannels \in Nat
          BY <4>1, ItemCount, LargerBound
        <4>3. \A x \in ItemsOf(cap) : x.idx \in Nat /\ ~(x.idx < x.idx)
          BY <4>2 DEF Item
        <4> QED BY <2>1, <3>2, <4>3
      <3> QED BY <3>1, <3>2 DEF NamesChecked
    <2> HIDE DEF found
    <2> QED BY <2>1, <2>2, <1>m, <1>n
  <1>3. CASE metadata_read_item
    <2>1. /\ pc["main"] = "read" /\ UNCHANGED <<dbv, cap, job>>
          /\ \/ fail_with("metadata_write_failed", k["main"])
             \/ goto("main", "truncate")
      BY <1>3 DEF metadata_read_item
    <2> QED BY <2>1, <1>m, <1>n
  <1>4. CASE metadata_truncate_item
    BY <1>4, <1>m, <1>n DEF metadata_truncate_item
  <1>5. CASE metadata_fill_item
    BY <1>5, <1>m, <1>n DEF metadata_fill_item
  <1>6. CASE record_insert
    <2> DEFINE i == k["main"]
              rest == {RecordOf(cap, At(cap, j)) : j \in 1 .. i - 1}
    <2>1. PICK b \in Nat : b = used.captures /\ db \in DbUpTo(b) /\ CaptureOK(cap, b)
      BY <1>6 DEF record_insert, TypeInv, UsedInv, DbInv, CtlInv, MainPlace
    <2>2. i \in 1 .. NumItems
      BY <1>6 DEF record_insert, TypeInv, CtlInv, MainPlace, NumItems
    <2>3. /\ ItemRecord(ItemAt(i)) = RecordOf(cap, At(cap, i)) /\ NumItems \in Nat \ {0}
          /\ NumItems' = NumItems
      BY <1>6, <2>1, <2>2, CurrentItem DEF record_insert, NumItems
    <2>4. /\ in_tx /\ db.recs = saved.recs \cup rest
      BY <1>6, <1>n DEF record_insert
    <2>5. CASE UNCHANGED dbv /\ fail_with("db_insert_failed", NumItems)
      BY <1>6, <2>5, <2>4, <1>m, <1>n DEF record_insert
    <2>6. CASE db_write([db EXCEPT !.recs = @ \cup {ItemRecord(ItemAt(i))}])
      <3>1. db'.recs = db.recs \cup {RecordOf(cap, At(cap, i))} /\ saved' = saved /\ in_tx'
        BY <2>1, <2>3, <2>4, <2>6 DEF db_write, DbUpTo
      <3>2. rest \cup {RecordOf(cap, At(cap, i))} = {RecordOf(cap, At(cap, j)) : j \in 1 .. i}
        BY <2>2
      <3>3. db'.recs = saved.recs \cup {RecordOf(cap, At(cap, j)) : j \in 1 .. i}
        BY <3>1, <3>2, <2>4
      <3>4. /\ UNCHANGED <<cap, job>> /\ pc["main"] = "insert"
            /\ \/ i < NumItems /\ start_loop("main", "insert", i + 1)
               \/ ~(i < NumItems) /\ goto("main", "count")
               \/ fail_with("db_insert_failed", NumItems)
        BY <1>6, <2>6 DEF record_insert
      <3>5. CASE i < NumItems /\ start_loop("main", "insert", i + 1)
        <4>1. pc'["main"] = "insert" /\ k'["main"] - 1 = i /\ pc'["job"] = pc["job"]
          BY <3>5, <1>m, <2>2
        <4> QED BY <4>1, <3>1, <3>3, <3>4, <1>n
      <3>6. CASE ~(i < NumItems) /\ goto("main", "count")
        <4>1. i = NumItems /\ pc'["main"] = "count" /\ pc'["job"] = pc["job"]
          BY <3>6, <1>m, <2>2, <2>3
        <4>2. db'.recs = saved.recs \cup BatchOf(cap)
          BY <4>1, <3>3, <2>1, BatchInOrder
        <4> QED BY <4>1, <4>2, <3>1, <3>4, <1>n
      <3>7. CASE fail_with("db_insert_failed", NumItems)
        BY <3>7, <3>1, <3>4, <1>m, <1>n
      <3> QED BY <3>4, <3>5, <3>6, <3>7
    <2> QED BY <1>6, <2>5, <2>6 DEF record_insert
  <1>7. CASE record_count
    BY <1>7, <1>m, <1>n DEF record_count
  <1>8. CASE task_update
    <2>1. PICK b \in Nat : b = used.captures /\ db \in DbUpTo(b) /\ cap.task \in Tasks /\ count \in Nat
      BY <1>8, <1>c DEF task_update, TypeInv, UsedInv, DbInv
    <2> DEFINE n == IF db.status[cap.task] = "absent" THEN db.total[cap.task] ELSE count
              d == with_status([db EXCEPT !.total[cap.task] = n], cap.task, "completed")
    <2>2. n \in Nat
      BY <2>1 DEF DbUpTo
    <2>3. [db EXCEPT !.total[cap.task] = n] \in DbUpTo(b)
          /\ [db EXCEPT !.total[cap.task] = n].recs = db.recs
      <3> HIDE DEF n
      <3> QED BY <2>1, <2>2 DEF DbUpTo
    <2>4. d.recs = db.recs
      <3> HIDE DEF n
      <3> QED BY ZenonT(60), <2>1, <2>3, StatementTypes DEF Status
    <2>5. /\ in_tx /\ UNCHANGED <<cap, job>> /\ pc["main"] = "total"
          /\ \/ db_write(d) /\ goto("main", "commit")
             \/ UNCHANGED dbv /\ fail_with("task_update_failed", NumItems)
      BY <1>8 DEF task_update
    <2> HIDE DEF d, n
    <2>6. CASE db_write(d) /\ goto("main", "commit")
      <3>1. db'.recs = db.recs /\ saved' = saved /\ in_tx' = in_tx
        BY <2>4, <2>5, <2>6 DEF db_write
      <3> QED BY <3>1, <2>5, <2>6, <1>m, <1>n
    <2>7. CASE UNCHANGED dbv /\ fail_with("task_update_failed", NumItems)
      BY <2>7, <2>5, <1>m, <1>n
    <2> QED BY <2>5, <2>6, <2>7
  <1>9. CASE db_commit
    <2>1. /\ in_tx /\ UNCHANGED <<cap, job>> /\ pc["main"] = "commit"
          /\ \/ saved' = db /\ in_tx' = FALSE /\ db' = db /\ goto("main", "sync_check")
             \/ UNCHANGED dbv /\ fail_with("db_commit_failed", NumItems)
      BY <1>9 DEF db_commit
    <2>2. CASE saved' = db /\ in_tx' = FALSE /\ db' = db /\ goto("main", "sync_check")
      BY <2>1, <2>2, <1>m, <1>n
    <2>3. CASE UNCHANGED dbv /\ fail_with("db_commit_failed", NumItems)
      BY <2>1, <2>3, <1>m, <1>n
    <2> QED BY <2>1, <2>2, <2>3
  <1>10. CASE db_rollback
    BY <1>10, <1>m, <1>n DEF db_rollback
  <1>11. CASE metadata_rollback_open
    BY <1>11, <1>m, <1>n DEF metadata_rollback_open
  <1>12. CASE metadata_rollback_write
    BY <1>12, <1>m, <1>n DEF metadata_rollback_write
  <1>13. CASE rollback_status
    <2>1. db_write(with_status(db, cap.task, "failed")) =>
            /\ db'.recs = db.recs /\ in_tx' = in_tx
            /\ in_tx => saved' = saved
            /\ ~in_tx => saved' = db'
      BY <1>13, <1>c, StatusFiles DEF rollback_status
    <2> QED BY <1>13, <1>m, <1>n, <2>1 DEF rollback_status
  <1>14. CASE mark_pending
    BY <1>14, <1>m, <1>n DEF mark_pending
  <1>15. CASE mark_complete
    BY <1>15, <1>m, <1>n DEF mark_complete
  <1>16. CASE sync_check("main")
    BY <1>16, <1>m, <1>n DEF sync_check, after_sync
  <1>17. CASE sync_backup("main")
    BY <1>17, <1>m, <1>n DEF sync_backup, after_sync
  <1>18. CASE sync_meta("main")
    BY <1>18, <1>m, <1>n DEF sync_meta, after_sync
  <1>19. CASE sync_rename("main")
    BY <1>19, <1>m, <1>n DEF sync_rename, after_sync
  <1>20. CASE outbox_retry
    BY <1>20, <1>m, <1>n DEF outbox_retry
  <1>21. CASE outbox_unmark
    BY <1>21, <1>m, <1>n DEF outbox_unmark
  <1>22. CASE workers_exit
    BY <1>22, <1>m, <1>n DEF workers_exit
  <1>23. CASE service_maintenance_job
    BY <1>23, <1>m, <1>n DEF service_maintenance_job
  <1>24. CASE capture_failed
    <2>1. db_write(with_status(db, cap.task, "failed")) =>
            /\ db'.recs = db.recs /\ in_tx' = in_tx
            /\ in_tx => saved' = saved
            /\ ~in_tx => saved' = db'
      BY <1>24, <1>c, StatusFiles DEF capture_failed
    <2> QED BY <1>24, <1>m, <1>n, <2>1 DEF capture_failed
  <1>25. ASSUME NEW e \in BOOLEAN, capture_succeeded(e) PROVE TxInv'
    BY <1>25, <1>m, <1>n DEF capture_succeeded
  <1> QED BY <1>1, <1>2, <1>3, <1>4, <1>5, <1>6, <1>7, <1>8, <1>9, <1>10, <1>11, <1>12, <1>13, <1>14, <1>15, <1>16, <1>17, <1>18, <1>19, <1>20, <1>21, <1>22, <1>23, <1>24, <1>25 DEF StepsOfMain, commit_step, sync_step

\* The maintenance thread, which runs while the main loop is idle.
LEMMA JobTx ==
  ASSUME TypeInv, TxInv, job_step
  PROVE  TxInv'
  <1> USE DEF TxInv, Ahead, Unlisted, dbv, filev, capv, fopen_wb, fwrite_table, fail_with, finish, rollback_next, CommitPcs, TxPcs, RollbackPcs, PurgePcs, FilesOf, SyncPcs, acknowledge, metadata_error, purge_next
  <1>m. /\ \A l : goto("job", l) => pc'["job"] = l /\ pc'["main"] = pc["main"] /\ k' = k
        /\ \A l, n : start_loop("job", l, n) => /\ pc'["job"] = l /\ pc'["main"] = pc["main"]
                                              /\ k'["job"] = n /\ k'["main"] = k["main"]
    BY Moves
  <1>n. pc["job"] # "none" => pc["main"] = "idle" /\ job.op # "none"
    BY DEF TypeInv, JobInv, JobPlace, TxInv
  <1>d. \A d : db_write(d) => db' = d /\ in_tx' = in_tx /\ (~in_tx => saved' = d)
    BY DEF db_write
  <1>k. job = [op |-> job.op, task |-> job.task, idx |-> job.idx, rec |-> job.rec, ack |-> job.ack]
    BY DEF TypeInv, JobInv, JobPlace
  <1>1. CASE sync_check("job")
    BY <1>1, <1>m, <1>n, <1>k, <1>d DEF sync_check, after_sync
  <1>2. CASE sync_backup("job")
    BY <1>2, <1>m, <1>n, <1>k, <1>d DEF sync_backup, after_sync
  <1>3. CASE sync_meta("job")
    BY <1>3, <1>m, <1>n, <1>k, <1>d DEF sync_meta, after_sync
  <1>4. CASE sync_rename("job")
    BY <1>4, <1>m, <1>n, <1>k, <1>d DEF sync_rename, after_sync
  <1>5. CASE job_check
    BY <1>5, <1>m, <1>n, <1>k, <1>d DEF job_check
  <1>6. CASE clear_open
    BY <1>6, <1>m, <1>n, <1>k, <1>d DEF clear_open
  <1>7. CASE clear_fill
    BY <1>7, <1>m, <1>n, <1>k, <1>d DEF clear_fill
  <1>8. CASE file_clear_all
    BY <1>8, <1>m, <1>n, <1>k, <1>d DEF file_clear_all
  <1>9. CASE delete_read
    BY <1>9, <1>m, <1>n, <1>k, <1>d DEF delete_read
  <1>10. CASE delete_open
    BY <1>10, <1>m, <1>n, <1>k, <1>d DEF delete_open
  <1>11. CASE delete_fill
    BY <1>11, <1>m, <1>n, <1>k, <1>d DEF delete_fill
  <1>12. CASE file_delete
    BY <1>12, <1>m, <1>n, <1>k, <1>d DEF file_delete
  <1>13. CASE delete_count
    <2>1. Cardinality(FilesOf(db, job.task)) = 0 => FilesOf(db, job.task) = {}
      <3>1. PICK b \in Nat : b = used.captures /\ db \in DbUpTo(b) /\ IsFiniteSet(db.recs)
        BY DEF TypeInv, UsedInv, DbInv
      <3>2. IsFiniteSet(FilesOf(db, job.task))
        BY <3>1, FilesFinite
      <3> QED BY <3>2, FS_EmptySet
    <2>2. \/ \E d : /\ db_write(d) /\ goto("job", "done")
                    /\ job' = [job EXCEPT !.ack = "success"]
          \/ UNCHANGED dbv /\ job' = [job EXCEPT !.ack = "failed"] /\ goto("job", "done")
          \/ /\ UNCHANGED <<dbv, job>> /\ start_loop("job", "purge_read", 0)
             /\ CountsKnown => FilesOf(db, job.task) = {}
      BY <1>13, <2>1 DEF delete_count, file_count, silent_fault, CountsKnown
    <2>3. pc["main"] = "idle"
      BY <1>13, <1>n DEF delete_count
    <2> QED BY <1>13, <1>m, <1>n, <1>k, <1>d, <2>2, <2>3 DEF delete_count
  <1>14. CASE purge_read
    BY <1>14, <1>m, <1>n, <1>k, <1>d DEF purge_read
  <1>15. CASE purge_open
    BY <1>15, <1>m, <1>n, <1>k, <1>d DEF purge_open
  <1>16. CASE purge_fill
    BY <1>16, <1>m, <1>n, <1>k, <1>d DEF purge_fill
  <1>17. CASE purge_task
    BY <1>17, <1>m, <1>n, <1>k, <1>d DEF purge_task
  <1> QED BY <1>1, <1>2, <1>3, <1>4, <1>5, <1>6, <1>7, <1>8, <1>9, <1>10, <1>11, <1>12, <1>13, <1>14, <1>15, <1>16, <1>17 DEF job_step, sync_step

\* The new task row; the files of a task that seems to have none go with the old one.
LEMMA TaskInfoDb ==
  ASSUME NEW b \in Nat, db \in DbUpTo(b), NEW t \in Tasks, NEW plan \in Plans,
         NEW missed \in SUBSET Lapses, task_info(t, plan, missed)
  PROVE  /\ db_write([DbFor(t, missed) EXCEPT !.status[t] = "running"])
         /\ DbFor(t, missed) \in DbUpTo(b)
         /\ db'.recs = DbFor(t, missed).recs /\ in_tx' = in_tx
         /\ in_tx => saved' = saved
         /\ ~in_tx => saved' = db'
         /\ db'.recs = db.recs \/ db'.recs = db.recs \ FilesOf(db, t)
         /\ CountsKnown => db'.recs = db.recs
  <1> DEFINE d == [DbFor(t, missed) EXCEPT !.status[t] = "running"]
  <1>1. db_write(d)
    BY Zenon DEF task_info, IsStale, DbFor
  <1>2. /\ task_deleted(db, t) \in DbUpTo(b)
        /\ task_deleted(db, t).recs = db.recs \ FilesOf(db, t)
    BY StatementTypes
  <1>3. DbFor(t, missed) \in DbUpTo(b)
    BY <1>2 DEF DbFor
  <1>4. d.recs = DbFor(t, missed).recs
    BY <1>3 DEF DbUpTo
  <1>5. CountsKnown /\ IsStale(t, missed) => FilesOf(db, t) = {}
    BY DEF task_info, CountsKnown, Call, IsStale
  <1> HIDE DEF d
  <1>6. /\ db'.recs = DbFor(t, missed).recs /\ in_tx' = in_tx
        /\ in_tx => saved' = saved
        /\ ~in_tx => saved' = db'
    BY <1>1, <1>4 DEF db_write
  <1>7. DbFor(t, missed).recs = IF IsStale(t, missed) THEN db.recs \ FilesOf(db, t) ELSE db.recs
    BY <1>2 DEF DbFor
  <1> QED BY <1>1, <1>3, <1>5, <1>6, <1>7 DEF d

\* task_info numbers the new files after the listed ones, if it can look them up.
LEMMA TaskInfoTx ==
  ASSUME TypeInv, TxInv, NEW t \in Tasks, NEW plan \in Plans, NEW missed \in SUBSET Lapses,
         task_info(t, plan, missed)
  PROVE  TxInv'
  <1>1. PICK b \in Nat : /\ b = used.captures /\ db \in DbUpTo(b)
                        /\ meta \in [Channels -> TablesUpTo(b)]
    BY DEF TypeInv, UsedInv, DbInv, TabInv
  <1>2. cap'.task = t /\ (IndicesKnown => \A r \in FilesOf(DbFor(t, missed), t), x \in ItemsOf(cap') :
                                             r.idx < x.idx)
    BY <1>1, NewCapture
  <1>3. goto("main", "capturing") /\ job' = job /\ job.op = "none"
    BY DEF task_info
  <1>4. db'.recs = DbFor(t, missed).recs /\ in_tx' = in_tx /\ (~in_tx => saved' = db')
    BY <1>1, TaskInfoDb
  <1>5. db'.recs = DbFor(t, missed).recs /\ (~in_tx' => db' = saved')
    BY <1>4, Zenon
  <1>6. pc'["main"] = "capturing" /\ pc'["job"] = pc["job"] /\ pc["job"] = "none"
    BY <1>3, Moves DEF TypeInv, JobInv, JobPlace
  <1>7. IndicesKnown => Ahead(db.recs)'
    BY <1>2, <1>5 DEF Ahead, FilesOf
  <1> QED BY <1>3, <1>5, <1>6, <1>7 DEF TxInv, TxPcs, RollbackPcs, PurgePcs

\* A command starts its job only while the main loop is idle.
LEMMA StartTx ==
  ASSUME TypeInv, TxInv, OneAtATime, StartsOfJob
  PROVE  TxInv'
  <1>1. PICK op, t, i : start_maintenance_job(op, t, i)
    BY DEF StartsOfJob
  <1>2. pc["main"] = "idle" /\ UNCHANGED <<dbv, cap>>
    BY <1>1, CatalogAssumption DEF start_maintenance_job, OneAtATime, TypeInv, UsedInv, capv
  <1>3. pc'["main"] = pc["main"] /\ pc'["job"] \in {"sync_check", "check"}
    BY <1>1, Moves DEF start_maintenance_job
  <1> QED BY <1>2, <1>3 DEF TxInv, TxPcs, RollbackPcs, PurgePcs, dbv

LEMMA CrashTx ==
  ASSUME TypeInv, TxInv, crash
  PROVE  TxInv'
  <1>1. pc'["main"] = "down" /\ pc'["job"] = "none" /\ job' = NoJob /\ db' = saved'
    BY DEF crash, Threads
  <1> QED BY <1>1 DEF TxInv, TxPcs, RollbackPcs, PurgePcs, NoJob

LEMMA NextTx == OneAtATime /\ TypeInv /\ TxInv /\ [Next]_vars => TxInv'
  <1> SUFFICES ASSUME OneAtATime, TypeInv, TxInv, [Next]_vars PROVE TxInv'
    OBVIOUS
  <1>1. CASE UNCHANGED vars
    BY <1>1 DEF vars, TxInv, Ahead, Unlisted, FilesOf
  <1>2. CASE Next
    BY <1>2, Steps, MainTx, JobTx, TaskInfoTx, StartTx, CrashTx DEF StartsCapture
  <1> QED BY <1>1, <1>2

\* With one commit or one maintenance job under way at a time, the connection and
\* the durable file list differ only by what the open transaction has inserted, a
\* transaction is open from BEGIN to COMMIT or ROLLBACK, and the files of a
\* capture come after every listed file of the task unless the next index could
\* not be looked up.
THEOREM TransactionsIsolated == ASSUME OneAtATime PROVE Spec => [](TypeInv /\ TxInv)
  <1>1. Init => TypeInv /\ TxInv
    BY InitTypes, InitTx
  <1>2. TypeInv /\ TxInv /\ [Next]_vars => (TypeInv /\ TxInv)'
    BY NextTypes, NextTx
  <1> QED BY <1>1, <1>2, PTL DEF Spec

-----------------------------------------------------------------------------
(* How the durable file list changes.                                      *)

Committed == pc["main"] = "commit" /\ pc'["main"] = "sync_check"
                /\ saved'.recs = saved.recs \cup BatchOf(cap)
Cleared == pc["job"] = "clear_db" /\ saved'.recs = {}
Deleted == pc["job"] = "delete_db" /\ saved'.recs = saved.recs \ {job.rec}

\* A task that seems to have no file goes, and its files go with it.
Dropped == ~CountsKnown /\ \E t \in Tasks : saved'.recs = saved.recs \ FilesOf(saved, t)

\* The main loop publishes the capture when COMMIT succeeds, and nothing else.
LEMMA MainSaved ==
  ASSUME TypeInv, TxInv, StepsOfMain
  PROVE  saved'.recs = saved.recs \/ Committed
  <1> USE DEF dbv, filev, capv, fopen_wb, fwrite_table, fail_with, finish, rollback_next
  <1>m. \A l : goto("main", l) => pc'["main"] = l
    BY Moves
  <1>c. pc["main"] \in CommitPcs => cap.task \in Tasks
    BY DEF TypeInv, CtlInv, MainPlace, CaptureOK
  <1>t. ~in_tx => db = saved
    BY DEF TxInv
  <1>1. CASE db_begin
    <2>1. db_write(with_status(db, cap.task, "failed")) =>
            /\ db'.recs = db.recs /\ (in_tx => saved' = saved) /\ (~in_tx => saved' = db')
      BY <1>1, <1>c, StatusFiles DEF db_begin, CommitPcs, RollbackPcs
    <2> QED BY <1>1, <1>t, <2>1 DEF db_begin
  <1>2. CASE record_exists
    BY <1>2 DEF record_exists
  <1>3. CASE metadata_read_item
    BY <1>3 DEF metadata_read_item
  <1>4. CASE metadata_truncate_item
    BY <1>4 DEF metadata_truncate_item
  <1>5. CASE metadata_fill_item
    BY <1>5 DEF metadata_fill_item
  <1>6. CASE record_insert
    <2>1. in_tx
      BY <1>6 DEF record_insert, TxInv, TxPcs
    <2>2. \A d : db_write(d) => saved' = saved
      BY <2>1 DEF db_write
    <2> QED BY <1>6, <2>2 DEF record_insert
  <1>7. CASE record_count
    BY <1>7 DEF record_count
  <1>8. CASE task_update
    <2>1. in_tx
      BY <1>8 DEF task_update, TxInv, TxPcs
    <2>2. \A d : db_write(d) => saved' = saved
      BY <2>1 DEF db_write
    <2> QED BY <1>8, <2>2 DEF task_update
  <1>9. CASE db_commit
    <2>1. db.recs = saved.recs \cup BatchOf(cap)
      BY <1>9 DEF db_commit, TxInv
    <2> QED BY <1>9, <2>1, <1>m DEF db_commit, Committed
  <1>10. CASE db_rollback
    BY <1>10 DEF db_rollback
  <1>11. CASE metadata_rollback_open
    BY <1>11 DEF metadata_rollback_open
  <1>12. CASE metadata_rollback_write
    BY <1>12 DEF metadata_rollback_write
  <1>13. CASE rollback_status
    <2>1. db_write(with_status(db, cap.task, "failed")) =>
            /\ db'.recs = db.recs /\ (in_tx => saved' = saved) /\ (~in_tx => saved' = db')
      BY <1>13, <1>c, StatusFiles DEF rollback_status, CommitPcs, RollbackPcs
    <2> QED BY <1>13, <1>t, <2>1 DEF rollback_status
  <1>14. CASE mark_pending
    BY <1>14 DEF mark_pending
  <1>15. CASE mark_complete
    BY <1>15 DEF mark_complete
  <1>16. CASE sync_check("main")
    BY <1>16 DEF sync_check
  <1>17. CASE sync_backup("main")
    BY <1>17 DEF sync_backup
  <1>18. CASE sync_meta("main")
    BY <1>18 DEF sync_meta
  <1>19. CASE sync_rename("main")
    BY <1>19 DEF sync_rename
  <1>20. CASE outbox_retry
    BY <1>20 DEF outbox_retry
  <1>21. CASE outbox_unmark
    BY <1>21 DEF outbox_unmark
  <1>22. CASE workers_exit
    BY <1>22 DEF workers_exit
  <1>23. CASE service_maintenance_job
    BY <1>23 DEF service_maintenance_job
  <1>24. CASE capture_failed
    <2>1. db_write(with_status(db, cap.task, "failed")) =>
            /\ db'.recs = db.recs /\ (in_tx => saved' = saved) /\ (~in_tx => saved' = db')
      BY <1>24, <1>c, StatusFiles DEF capture_failed, CommitPcs, RollbackPcs
    <2> QED BY <1>24, <1>t, <2>1 DEF capture_failed
  <1>25. ASSUME NEW e \in BOOLEAN, capture_succeeded(e) PROVE saved'.recs = saved.recs \/ Committed
    BY <1>25 DEF capture_succeeded
  <1> QED BY <1>1, <1>2, <1>3, <1>4, <1>5, <1>6, <1>7, <1>8, <1>9, <1>10, <1>11, <1>12, <1>13, <1>14, <1>15, <1>16, <1>17, <1>18, <1>19, <1>20, <1>21, <1>22, <1>23, <1>24, <1>25 DEF StepsOfMain, commit_step, sync_step

\* The maintenance thread removes one file, those of a task or all of them.
LEMMA JobSaved ==
  ASSUME TypeInv, TxInv, job_step
  PROVE  saved'.recs = saved.recs \/ Cleared \/ Deleted \/ Dropped
  <1> USE DEF dbv, filev, capv, fopen_wb, fwrite_table, acknowledge, metadata_error, purge_next, after_sync
  <1>b. PICK b \in Nat : b = used.captures /\ db \in DbUpTo(b)
    BY DEF TypeInv, UsedInv, DbInv
  <1>t. ~in_tx => db = saved
    BY DEF TxInv
  <1>1. CASE sync_check("job")
    BY <1>1 DEF sync_check
  <1>2. CASE sync_backup("job")
    BY <1>2 DEF sync_backup
  <1>3. CASE sync_meta("job")
    BY <1>3 DEF sync_meta
  <1>4. CASE sync_rename("job")
    BY <1>4 DEF sync_rename
  <1>5. CASE job_check
    BY <1>5 DEF job_check
  <1>6. CASE clear_open
    BY <1>6 DEF clear_open
  <1>7. CASE clear_fill
    BY <1>7 DEF clear_fill
  <1>8. CASE file_clear_all
    BY <1>8, <1>t DEF file_clear_all, db_write, Cleared, EmptyDb
  <1>9. CASE delete_read
    BY <1>9 DEF delete_read
  <1>10. CASE delete_open
    BY <1>10 DEF delete_open
  <1>11. CASE delete_fill
    BY <1>11 DEF delete_fill
  <1>12. CASE file_delete
    BY <1>12, <1>b, <1>t DEF file_delete, db_write, Deleted, DbUpTo
  <1>13. CASE delete_count
    <2>1. \A n : [db EXCEPT !.total[job.task] = n].recs = db.recs
      BY <1>b DEF DbUpTo
    <2>2. \/ UNCHANGED dbv
          \/ \E n : db_write([db EXCEPT !.total[job.task] = n])
      BY <1>13 DEF delete_count
    <2> QED BY <1>t, <2>1, <2>2 DEF db_write
  <1>14. CASE purge_read
    BY <1>14 DEF purge_read
  <1>15. CASE purge_open
    BY <1>15 DEF purge_open
  <1>16. CASE purge_fill
    BY <1>16 DEF purge_fill
  <1>17. CASE purge_task
    <2>1. task_deleted(db, job.task).recs = db.recs \ FilesOf(db, job.task)
      BY <1>17, <1>b, StatementTypes DEF purge_task, TypeInv, JobInv, JobPlace, PurgePcs
    <2>2. CountsKnown => FilesOf(db, job.task) = {}
      BY <1>17 DEF purge_task, TxInv, PurgePcs
    <2>3. [db EXCEPT !.recs = @ \ FilesOf(db, job.task)].recs = db.recs \ FilesOf(db, job.task)
      BY <1>b DEF DbUpTo
    <2>4. job.task \in Tasks
      BY <1>17 DEF purge_task, TypeInv, JobInv, JobPlace, PurgePcs
    <2>5. \/ saved' = saved
          \/ ~in_tx /\ saved'.recs = db.recs \ FilesOf(db, job.task)
      BY <1>17, <2>1, <2>3 DEF purge_task, db_write
    <2> QED BY <1>t, <2>2, <2>4, <2>5 DEF Dropped
  <1> QED BY <1>1, <1>2, <1>3, <1>4, <1>5, <1>6, <1>7, <1>8, <1>9, <1>10, <1>11, <1>12, <1>13, <1>14, <1>15, <1>16, <1>17 DEF job_step, sync_step

LEMMA OtherSaved ==
  ASSUME TypeInv, TxInv, StartsOfJob \/ crash \/ StartsCapture
  PROVE  saved'.recs = saved.recs \/ Dropped
  <1>1. CASE StartsOfJob
    BY <1>1 DEF StartsOfJob, start_maintenance_job, dbv
  <1>2. CASE crash
    BY <1>2 DEF crash
  <1>3. ASSUME NEW t \in Tasks, NEW plan \in Plans, NEW missed \in SUBSET Lapses,
               task_info(t, plan, missed)
        PROVE  saved'.recs = saved.recs \/ Dropped
    <2>1. PICK b \in Nat : b = used.captures /\ db \in DbUpTo(b)
      BY DEF TypeInv, UsedInv, DbInv
    <2>2. /\ in_tx => saved' = saved
          /\ ~in_tx => saved' = db'
          /\ db'.recs = db.recs \/ db'.recs = db.recs \ FilesOf(db, t)
          /\ CountsKnown => db'.recs = db.recs
      BY <1>3, <2>1, TaskInfoDb
    <2>3. ~in_tx => db = saved
      BY DEF TxInv
    <2> QED BY <2>2, <2>3 DEF Dropped
  <1> QED BY <1>1, <1>2, <1>3 DEF StartsCapture

\* The files of a capture have channels of their own and are not listed yet.
LEMMA CaptureIsWhole ==
  ASSUME NamesChecked, TypeInv, TxInv, pc["main"] = "commit"
  PROVE  /\ FC!WholeCapture(BatchOf(cap)) /\ BatchOf(cap) \cap saved.recs = {}
         /\ (saved.recs \cup BatchOf(cap)) \ saved.recs = BatchOf(cap)
  <1>1. PICK b \in Nat : b = used.captures /\ CaptureOK(cap, b) /\ saved.recs \subseteq Files(b)
    BY DEF TypeInv, UsedInv, DbInv, DbUpTo, CtlInv, MainPlace, CommitPcs, TxPcs
  <1>2. /\ ItemsOf(cap) \subseteq Item(b)
        /\ \A x, y \in ItemsOf(cap) : x.ch = y.ch => x = y
        /\ {x.ch : x \in ItemsOf(cap)} \in {{Low}, Channels}
    BY <1>1, ItemCount
  <1>3. cap.task \in Tasks
    BY <1>1 DEF CaptureOK
  <1>4. \A f \in BatchOf(cap) : f.task = cap.task
    BY DEF BatchOf, RecordOf
  <1>5. \A f, g \in BatchOf(cap) : f.ch = g.ch => f = g
    BY <1>2 DEF BatchOf, RecordOf
  <1>6. {f.ch : f \in BatchOf(cap)} = {x.ch : x \in ItemsOf(cap)}
    <2>1. \A x : RecordOf(cap, x).ch = x.ch
      BY DEF RecordOf
    <2> QED BY <2>1 DEF BatchOf
  <1>7. {f.ch : f \in BatchOf(cap)} \in FC!CaptureSets
    BY <1>2, <1>6 DEF FC!CaptureSets, FC!Channels, FC!Low, Channels, Low
  <1>8. BatchOf(cap) \cap saved.recs = {}
    <2>1. Unlisted(saved.recs)
      BY DEF TxInv, TxPcs
    <2>2. \A x \in ItemsOf(cap) : RecordOf(cap, x).task = cap.task /\ RecordOf(cap, x).idx = x.idx
      BY DEF RecordOf
    <2> QED BY <2>1, <2>2 DEF Unlisted, BatchOf
  <1> QED BY <1>3, <1>4, <1>5, <1>7, <1>8 DEF FC!WholeCapture

LEMMA SameCount == \A S : FC!Cardinality(S) = Cardinality(S)
  BY DEF FC!Cardinality, Cardinality

\* Every step of the catalogue is a step of the abstract one.
LEMMA StepIsAtomic ==
  ASSUME NamesChecked, TypeInv, TxInv, [Next]_vars
  PROVE  [FC!Arrivals /\ FC!Departures]_(saved.recs)
  <1>1. saved'.recs = saved.recs \/ Committed \/ Cleared \/ Deleted \/ Dropped
    <2>1. CASE UNCHANGED vars
      BY <2>1 DEF vars
    <2>2. CASE Next
      BY <2>2, Steps, MainSaved, JobSaved, OtherSaved
    <2> QED BY <2>1, <2>2
  <1>2. CASE Committed
    <2>1. /\ FC!WholeCapture(saved'.recs \ saved.recs) /\ saved.recs \ saved'.recs = {}
      BY <1>2, CaptureIsWhole DEF Committed
    <2>2. Cardinality(saved.recs \ saved'.recs) <= 1
      BY <2>1, FS_EmptySet
    <2>3. FC!Arrivals
      BY <2>1 DEF FC!Arrivals
    <2>4. FC!Departures
      BY <2>2, SameCount DEF FC!Departures
    <2> QED BY <2>3, <2>4
  <1>3. CASE Cleared
    BY <1>3 DEF Cleared, FC!Arrivals, FC!Departures
  <1>4. CASE Deleted
    <2>1. saved'.recs \subseteq saved.recs /\ saved.recs \ saved'.recs \subseteq {job.rec}
      BY <1>4 DEF Deleted
    <2>2. Cardinality({job.rec}) = 1 /\ IsFiniteSet({job.rec})
      BY FS_Singleton
    <2>3. Cardinality(saved.recs \ saved'.recs) <= Cardinality({job.rec})
      BY <2>1, <2>2, FS_Subset
    <2>4. FC!Arrivals
      BY <2>1 DEF FC!Arrivals
    <2>5. FC!Departures
      BY <2>2, <2>3, SameCount DEF FC!Departures
    <2> QED BY <2>4, <2>5
  <1>5. CASE Dropped
    <2>1. PICK t \in Tasks : saved'.recs = saved.recs \ FilesOf(saved, t)
      BY <1>5 DEF Dropped
    <2>2. saved.recs \ saved'.recs = {f \in saved.recs : f.task = t}
      BY <2>1 DEF FilesOf
    <2> QED BY <2>1, <2>2 DEF FC!Arrivals, FC!Departures
  <1> QED BY <1>1, <1>2, <1>3, <1>4, <1>5

\* The durable file list refines the abstract catalogue for every plan, whatever
\* calls fail, with or without saying so, and wherever the process dies: a capture
\* is published whole, and files go one at a time, task by task or all at once.  Only
\* a next index that could not be looked up must not meet a query for a duplicate
\* that fails as well.
THEOREM CommitsAtomically == ASSUME OneAtATime, NamesChecked PROVE Spec => CommitIsAtomic
  <1>1. Init => FC!Init
    BY DEF Init, FC!Init, EmptyDb
  <1>2. TypeInv /\ TxInv /\ [Next]_vars => [FC!Arrivals /\ FC!Departures]_(saved.recs)
    BY StepIsAtomic
  <1> QED BY <1>1, <1>2, TransactionsIsolated, PTL DEF Spec, CommitIsAtomic, FC!Spec

\* A file goes only by a clear or by a delete that names it: with counts that can be
\* relied on, the clean-up of a task that has no files costs none.
THEOREM FilesGoByName == ASSUME OneAtATime, CountsKnown PROVE Spec => OnlyNamedFilesGo
  <1> DEFINE Named == \A r \in saved.recs \ saved'.recs :
                         \/ job.op = "clear"
                         \/ job.op = "delete" /\ r.task = job.task /\ r.idx = job.idx
  <1>1. TypeInv /\ TxInv /\ [Next]_vars => [Named]_vars
    <2> SUFFICES ASSUME TypeInv, TxInv, Next PROVE Named
      OBVIOUS
    <2>1. saved'.recs = saved.recs \/ Committed \/ Cleared \/ Deleted
      BY Steps, MainSaved, JobSaved, OtherSaved DEF Dropped
    <2>2. CASE Cleared
      BY <2>2 DEF Cleared, TypeInv, JobInv, JobPlace
    <2>3. CASE Deleted
      BY <2>3 DEF Deleted, TypeInv, JobInv, JobPlace, DeletePcs
    <2> QED BY <2>1, <2>2, <2>3 DEF Committed
  <1> QED BY <1>1, TransactionsIsolated, PTL DEF Spec, OnlyNamedFilesGo

-----------------------------------------------------------------------------
(* The replica on flash and the outbox.                                    *)

LEMMA InitReplica == Init => ReplicaInv
  BY DEF Init, ReplicaInv, EmptyDb, NoCapture, Threads, CommitPcs, SyncPcs, TxPcs, RollbackPcs

LEMMA CaptureThere == \A b : CaptureOK(cap, b) => cap # NoCapture
  BY CatalogAssumption DEF CaptureOK, NoCapture

\* The main loop.
LEMMA MainReplica ==
  ASSUME TypeInv, TxInv, ReplicaInv, StepsOfMain
  PROVE  ReplicaInv'
  <1> USE DEF ReplicaInv, dbv, filev, capv, fopen_wb, fwrite_table, fail_with, finish, rollback_next, CommitPcs, TxPcs, RollbackPcs, SyncPcs, Threads
  <1>m. /\ \A l : goto("main", l) => pc'["main"] = l /\ pc'["job"] = pc["job"]
        /\ \A l : goto("job", l) => pc'["job"] = l /\ pc'["main"] = pc["main"]
        /\ \A l, n : start_loop("main", l, n) => pc'["main"] = l /\ pc'["job"] = pc["job"]
    BY Moves
  <1>c. pc["main"] \in CommitPcs => cap # NoCapture /\ cap.task \in Tasks
    BY CaptureThere DEF TypeInv, CtlInv, MainPlace, CaptureOK
  <1>n. pc["main"] # "idle" => pc["job"] = "none"
    BY DEF TypeInv, JobInv, JobPlace, TxInv
  <1>s. saved'.recs = saved.recs \/ Committed
    BY MainSaved
  <1>r. report \in [Tasks -> {"none", "success", "failed"}]
    BY DEF TypeInv, CtlInv
  <1>1. CASE db_begin
    <2>1. /\ pc["main"] = "begin" /\ UNCHANGED <<filev, cap>>
          /\ \/ in_tx' = TRUE /\ goto("main", "exists") /\ report' = report
             \/ finish("failed")
      BY <1>1 DEF db_begin
    <2>2. CASE in_tx' = TRUE /\ goto("main", "exists") /\ report' = report
      BY <2>1, <2>2, <1>m, <1>n, <1>c, <1>s, <1>r DEF Committed
    <2>3. CASE finish("failed")
      BY <2>1, <2>3, <1>m, <1>n, <1>c, <1>s, <1>r DEF Committed
    <2> QED BY <2>1, <2>2, <2>3
  <1>2. CASE record_exists
    BY <1>2, <1>m, <1>n, <1>c, <1>s, <1>r DEF record_exists, Committed
  <1>3. CASE metadata_read_item
    BY <1>3, <1>m, <1>n, <1>c, <1>s, <1>r DEF metadata_read_item, Committed
  <1>4. CASE metadata_truncate_item
    BY <1>4, <1>m, <1>n, <1>c, <1>s, <1>r DEF metadata_truncate_item, Committed
  <1>5. CASE metadata_fill_item
    BY <1>5, <1>m, <1>n, <1>c, <1>s, <1>r DEF metadata_fill_item, Committed
  <1>6. CASE record_insert
    BY <1>6, <1>m, <1>n, <1>c, <1>s, <1>r DEF record_insert, Committed
  <1>7. CASE record_count
    BY <1>7, <1>m, <1>n, <1>c, <1>s, <1>r DEF record_count, Committed
  <1>8. CASE task_update
    BY <1>8, <1>m, <1>n, <1>c, <1>s, <1>r DEF task_update, Committed
  <1>9. CASE db_commit
    <2>1. /\ pc["main"] = "commit" /\ UNCHANGED <<filev, cap, report>>
          /\ \/ in_tx' = FALSE /\ goto("main", "sync_check")
             \/ UNCHANGED dbv /\ fail_with("db_commit_failed", NumItems)
      BY <1>9 DEF db_commit
    <2>2. CASE in_tx' = FALSE /\ goto("main", "sync_check")
      <3>1. \A r \in BatchOf(cap) : r.task = cap.task
        BY DEF BatchOf, RecordOf
      <3>2. report[cap.task] = "none" /\ saved'.recs \subseteq saved.recs \cup BatchOf(cap)
        BY <2>1, <1>c, <1>s DEF Committed
      <3> QED BY <2>1, <2>2, <1>m, <1>n, <3>1, <3>2
    <2>3. CASE UNCHANGED dbv /\ fail_with("db_commit_failed", NumItems)
      BY <2>1, <2>3, <1>m, <1>n
    <2> QED BY <2>1, <2>2, <2>3
  <1>10. CASE db_rollback
    BY <1>10, <1>m, <1>n, <1>c, <1>s, <1>r DEF db_rollback, Committed
  <1>11. CASE metadata_rollback_open
    BY <1>11, <1>m, <1>n, <1>c, <1>s, <1>r DEF metadata_rollback_open, Committed
  <1>12. CASE metadata_rollback_write
    BY <1>12, <1>m, <1>n, <1>c, <1>s, <1>r DEF metadata_rollback_write, Committed
  <1>13. CASE rollback_status
    BY <1>13, <1>m, <1>n, <1>c, <1>s, <1>r DEF rollback_status, Committed
  <1>14. CASE mark_pending
    <2>1. /\ pc["main"] = "pend" /\ UNCHANGED <<dbv, tmp, flash, cap>>
          /\ outbox \subseteq outbox'
          /\ \/ finish("success") /\ cap.task \in outbox'
             \/ finish("failed")
      BY <1>14 DEF mark_pending
    <2>2. /\ pc'["main"] \in {"exit", "idle"} /\ pc'["job"] = "none"
          /\ \A t \in Tasks : t # cap.task => report'[t] = report[t]
          /\ report'[cap.task] = "success" => cap.task \in outbox'
      BY <2>1, <1>m, <1>n, <1>c, <1>r
    <2>3. \A r \in saved.recs : r.task \in Tasks
      BY DEF TypeInv, DbInv, DbUpTo, Files
    <2> QED BY <2>1, <2>2, <2>3
  <1>15. CASE mark_complete
    BY <1>15, <1>m, <1>n, <1>c, <1>s, <1>r DEF mark_complete, Committed
  <1>16. CASE sync_check("main")
    BY <1>16, <1>m, <1>n, <1>c, <1>s, <1>r DEF sync_check, after_sync, Committed
  <1>17. CASE sync_backup("main")
    <2>1. db = saved /\ ~in_tx /\ UNCHANGED <<dbv, flash, outbox, cap, report>> /\ pc["main"] = "sync_backup"
      BY <1>17 DEF sync_backup, TxInv
    <2>2. \/ tmp' = db /\ start_loop("main", "sync_meta", 0)
          \/ pc'["main"] \in {"idle", "pend"} /\ pc'["job"] = pc["job"]
      BY <1>17, <1>m DEF sync_backup, after_sync
    <2> QED BY <2>1, <2>2, <1>m, <1>n
  <1>18. CASE sync_meta("main")
    <2>1. /\ ~in_tx /\ UNCHANGED <<dbv, outbox, cap, report>> /\ pc["main"] = "sync_meta" /\ tmp = saved
          /\ flash'.db = flash.db
      BY <1>18 DEF sync_meta, TypeInv, TabInv
    <2>2. /\ pc'["job"] = pc["job"]
          /\ \/ tmp' = tmp /\ pc'["main"] \in {"sync_meta", "sync_rename"}
             \/ pc'["main"] \in {"idle", "pend"}
      BY <1>18, <1>m DEF sync_meta, after_sync
    <2> QED BY <2>1, <2>2, <1>n
  <1>19. CASE sync_rename("main")
    <2>1. /\ ~in_tx /\ UNCHANGED <<dbv, outbox, cap, report>> /\ pc["main"] = "sync_rename" /\ tmp = saved
      BY <1>19 DEF sync_rename
    <2>2. /\ pc'["job"] = pc["job"]
          /\ \/ flash'.db = saved /\ pc'["main"] \in {"unmark", "complete"}
             \/ flash' = flash /\ pc'["main"] \in {"idle", "pend"}
      BY <1>19, <1>m, <2>1 DEF sync_rename, after_sync, TypeInv, TabInv
    <2> QED BY <2>1, <2>2, <1>n
  <1>20. CASE outbox_retry
    BY <1>20, <1>m, <1>n, <1>c, <1>s, <1>r DEF outbox_retry, Committed
  <1>21. CASE outbox_unmark
    BY <1>21, <1>m, <1>n, <1>c, <1>s, <1>r DEF outbox_unmark, Committed
  <1>22. CASE workers_exit
    BY <1>22, <1>m, <1>n, <1>c, <1>s, <1>r DEF workers_exit, Committed
  <1>23. CASE service_maintenance_job
    BY <1>23, <1>m, <1>n, <1>c, <1>s, <1>r DEF service_maintenance_job, Committed
  <1>24. CASE capture_failed
    BY <1>24, <1>m, <1>n, <1>c, <1>s, <1>r DEF capture_failed, Committed
  <1>25. ASSUME NEW e \in BOOLEAN, capture_succeeded(e) PROVE ReplicaInv'
    BY <1>25, <1>m, <1>n, <1>c, <1>s, <1>r DEF capture_succeeded, Committed
  <1> QED BY <1>1, <1>2, <1>3, <1>4, <1>5, <1>6, <1>7, <1>8, <1>9, <1>10, <1>11, <1>12, <1>13, <1>14, <1>15, <1>16, <1>17, <1>18, <1>19, <1>20, <1>21, <1>22, <1>23, <1>24, <1>25 DEF StepsOfMain, commit_step, sync_step

\* The maintenance thread, which never touches the outbox.
LEMMA JobReplica ==
  ASSUME TypeInv, TxInv, ReplicaInv, job_step
  PROVE  ReplicaInv'
  <1> USE DEF ReplicaInv, dbv, filev, capv, fopen_wb, fwrite_table, acknowledge, metadata_error, purge_next, CommitPcs, TxPcs, RollbackPcs, SyncPcs, Threads
  <1>m. /\ \A l : goto("job", l) => pc'["job"] = l /\ pc'["main"] = pc["main"]
        /\ \A l, n : start_loop("job", l, n) => pc'["job"] = l /\ pc'["main"] = pc["main"]
    BY Moves
  <1>n. pc["job"] # "none" => pc["main"] = "idle"
    BY DEF TypeInv, JobInv, JobPlace, TxInv
  <1>s. saved'.recs \subseteq saved.recs
    BY JobSaved DEF Cleared, Deleted, Dropped
  <1>1. CASE sync_check("job")
    BY <1>1, <1>m, <1>n, <1>s DEF sync_check, after_sync
  <1>2. CASE sync_backup("job")
    <2>1. UNCHANGED <<dbv, flash, outbox, cap, report>> /\ pc["job"] = "sync_backup"
      BY <1>2 DEF sync_backup
    <2>2. /\ pc'["main"] = "idle"
          /\ \/ tmp' = saved /\ pc'["job"] = "sync_meta"
             \/ pc'["job"] = "done"
      BY <1>2, <1>m, <1>n DEF sync_backup, after_sync, TxInv
    <2> QED BY <2>1, <2>2
  <1>3. CASE sync_meta("job")
    <2>1. /\ UNCHANGED <<dbv, outbox, cap, report>> /\ pc["job"] = "sync_meta" /\ tmp = saved
          /\ flash'.db = flash.db
      BY <1>3 DEF sync_meta, TypeInv, TabInv
    <2>2. /\ pc'["main"] = "idle"
          /\ \/ tmp' = tmp /\ pc'["job"] \in {"sync_meta", "sync_rename"}
             \/ pc'["job"] = "done"
      BY <1>3, <1>m, <1>n DEF sync_meta, after_sync
    <2> QED BY <2>1, <2>2
  <1>4. CASE sync_rename("job")
    <2>1. UNCHANGED <<dbv, outbox, cap, report>> /\ pc["job"] = "sync_rename" /\ tmp = saved
      BY <1>4 DEF sync_rename
    <2>2. /\ pc'["main"] = "idle" /\ pc'["job"] = "done"
          /\ flash'.db = saved \/ flash' = flash
      BY <1>4, <1>m, <1>n, <2>1 DEF sync_rename, after_sync, TypeInv, TabInv
    <2> QED BY <2>1, <2>2
  <1>5. CASE job_check
    BY <1>5, <1>m, <1>n, <1>s DEF job_check
  <1>6. CASE clear_open
    BY <1>6, <1>m, <1>n, <1>s DEF clear_open
  <1>7. CASE clear_fill
    BY <1>7, <1>m, <1>n, <1>s DEF clear_fill
  <1>8. CASE file_clear_all
    BY <1>8, <1>m, <1>n, <1>s DEF file_clear_all
  <1>9. CASE delete_read
    BY <1>9, <1>m, <1>n, <1>s DEF delete_read
  <1>10. CASE delete_open
    BY <1>10, <1>m, <1>n, <1>s DEF delete_open
  <1>11. CASE delete_fill
    BY <1>11, <1>m, <1>n, <1>s DEF delete_fill
  <1>12. CASE file_delete
    BY <1>12, <1>m, <1>n, <1>s DEF file_delete
  <1>13. CASE delete_count
    BY <1>13, <1>m, <1>n, <1>s DEF delete_count
  <1>14. CASE purge_read
    BY <1>14, <1>m, <1>n, <1>s DEF purge_read
  <1>15. CASE purge_open
    BY <1>15, <1>m, <1>n, <1>s DEF purge_open
  <1>16. CASE purge_fill
    BY <1>16, <1>m, <1>n, <1>s DEF purge_fill
  <1>17. CASE purge_task
    BY <1>17, <1>m, <1>n, <1>s DEF purge_task
  <1> QED BY <1>1, <1>2, <1>3, <1>4, <1>5, <1>6, <1>7, <1>8, <1>9, <1>10, <1>11, <1>12, <1>13, <1>14, <1>15, <1>16, <1>17 DEF job_step, sync_step

LEMMA TaskInfoReplica ==
  ASSUME TypeInv, TxInv, ReplicaInv, NEW t \in Tasks, NEW plan \in Plans, NEW missed \in SUBSET Lapses,
         task_info(t, plan, missed)
  PROVE  ReplicaInv'
  <1>1. PICK b \in Nat : /\ b = used.captures /\ db \in DbUpTo(b)
                        /\ meta \in [Channels -> TablesUpTo(b)]
    BY DEF TypeInv, UsedInv, DbInv, TabInv
  <1>2. cap'.task = t
    BY <1>1, NewCapture
  <1>3. /\ goto("main", "capturing") /\ job.op = "none" /\ report' = [report EXCEPT ![t] = "none"]
        /\ UNCHANGED <<tmp, flash, outbox>>
    BY DEF task_info
  <1>4. pc'["main"] = "capturing" /\ pc'["job"] = "none"
    BY <1>3, Moves DEF TypeInv, JobInv, JobPlace
  <1>5. saved'.recs \subseteq saved.recs
    BY OtherSaved DEF Dropped, StartsCapture
  <1>6. report \in [Tasks -> {"none", "success", "failed"}]
    BY DEF TypeInv, CtlInv
  <1> QED BY <1>2, <1>3, <1>4, <1>5, <1>6 DEF ReplicaInv, SyncPcs, Threads

LEMMA StartReplica ==
  ASSUME TypeInv, TxInv, ReplicaInv, StartsOfJob
  PROVE  ReplicaInv'
  <1>1. PICK op, t, i : start_maintenance_job(op, t, i)
    BY DEF StartsOfJob
  <1>2. UNCHANGED <<dbv, filev, capv>>
    BY <1>1 DEF start_maintenance_job
  <1>3. pc'["main"] = pc["main"] /\ pc'["job"] \in {"sync_check", "check"}
    BY <1>1, Moves DEF start_maintenance_job
  <1> QED BY <1>2, <1>3 DEF ReplicaInv, dbv, filev, capv, SyncPcs, Threads

LEMMA CrashReplica ==
  ASSUME TypeInv, ReplicaInv, crash
  PROVE  ReplicaInv'
  <1>1. /\ pc'["main"] = "down" /\ pc'["job"] = "none" /\ cap' = NoCapture /\ in_tx' = FALSE
        /\ saved' = saved /\ UNCHANGED <<filev, report>>
    BY DEF crash, Threads
  <1> QED BY <1>1 DEF ReplicaInv, filev, Threads, SyncPcs, CommitPcs, TxPcs, RollbackPcs

LEMMA NextReplica ==
  OneAtATime /\ TypeInv /\ TxInv /\ ReplicaInv /\ [Next]_vars => ReplicaInv'
  <1> SUFFICES ASSUME OneAtATime, TypeInv, TxInv, ReplicaInv, [Next]_vars PROVE ReplicaInv'
    OBVIOUS
  <1>1. CASE UNCHANGED vars
    BY <1>1 DEF vars, ReplicaInv
  <1>2. CASE Next
    BY <1>2, Steps, MainReplica, JobReplica, TaskInfoReplica, StartReplica, CrashReplica DEF StartsCapture
  <1> QED BY <1>1, <1>2

LEMMA ReplicaInvariant == ASSUME OneAtATime PROVE Spec => []ReplicaInv
  <1>1. Init => ReplicaInv
    BY InitReplica
  <1>2. TypeInv /\ TxInv /\ ReplicaInv /\ [Next]_vars => ReplicaInv'
    BY NextReplica
  <1> QED BY <1>1, <1>2, TransactionsIsolated, PTL DEF Spec

\* A file whose capture was reported a success is on flash or owed by a marker,
\* however often the synchronisation fails and the process dies.
THEOREM SuccessIsReplicatedOrOwed == ASSUME OneAtATime PROVE Spec => []ReplicaOrPending
  <1>1. ReplicaInv => ReplicaOrPending
    BY DEF ReplicaInv, ReplicaOrPending
  <1> QED BY <1>1, ReplicaInvariant, PTL

\* No step removes a marker before flash holds every committed file of its task.
LEMMA MarkersStay ==
  ASSUME OneAtATime, TypeInv, TxInv, ReplicaInv, [Next]_vars,
         NEW t \in outbox \ outbox'
  PROVE  FilesOf(saved, t) \subseteq flash.db.recs
  <1>1. CASE mark_complete
    BY <1>1 DEF mark_complete, ReplicaInv, FilesOf
  <1>2. CASE outbox_unmark
    BY <1>2 DEF outbox_unmark, ReplicaInv, FilesOf
  <1>3. CASE ~mark_complete /\ ~outbox_unmark
    <2>1. outbox \subseteq outbox'
      <3> USE DEF filev
      <3>1. CASE UNCHANGED vars
        BY <3>1 DEF vars
      <3>2. CASE commit_step
        BY <1>3, <3>2 DEF commit_step, db_begin, record_exists, metadata_read_item,
           metadata_truncate_item, metadata_fill_item, record_insert, record_count, task_update,
           db_commit, db_rollback, metadata_rollback_open, metadata_rollback_write,
           rollback_status, mark_pending, fopen_wb, fwrite_table
      <3>3. ASSUME NEW p, sync_step(p) PROVE outbox \subseteq outbox'
        BY <3>3 DEF sync_step, sync_check, sync_backup, sync_meta, sync_rename
      <3>4. CASE job_step
        BY <3>3, <3>4 DEF job_step, job_check, clear_open, clear_fill, file_clear_all,
           delete_read, delete_open, delete_fill, file_delete, delete_count, purge_read,
           purge_open, purge_fill, purge_task, fopen_wb, fwrite_table
      <3>5. CASE StepsOfMain
        BY <1>3, <3>2, <3>3, <3>5 DEF StepsOfMain, outbox_retry, workers_exit,
           service_maintenance_job, capture_failed, capture_succeeded
      <3>6. CASE StartsOfJob \/ crash \/ StartsCapture
        BY <3>6, CaptureStart DEF StartsOfJob, start_maintenance_job, crash
      <3> QED BY <3>1, <3>4, <3>5, <3>6, Steps
    <2> QED BY <2>1
  <1> QED BY <1>1, <1>2, <1>3

\* A marker disappears only once its debt is paid.
THEOREM MarkersOutliveDebts == ASSUME OneAtATime PROVE Spec => MarkerOutlivesDebt
  <1>1. TypeInv /\ TxInv /\ ReplicaInv /\ [Next]_vars
           => [\A t \in outbox \ outbox' : FilesOf(saved, t) \subseteq flash.db.recs]_vars
    BY MarkersStay
  <1> QED BY <1>1, TransactionsIsolated, ReplicaInvariant, PTL DEF Spec, MarkerOutlivesDebt

-----------------------------------------------------------------------------
(* What the commit does to the metadata tables.                            *)

LEMMA InitMeta == Init => MetaInv
  BY DEF Init, MetaInv, CommitPcs, TxPcs, RollbackPcs, SyncPcs, Threads

\* One item more is one channel more.
LEMMA TouchedMore ==
  ASSUME NEW b \in Nat, CaptureOK(cap, b)
  PROVE  /\ Touched(cap, 0) = {} /\ NumItems \in Nat \ {0} /\ Touched(cap, NumItems) \subseteq Channels
         /\ \A n \in 1 .. NumItems : /\ Touched(cap, n) = Touched(cap, n - 1) \cup {At(cap, n).ch}
                                     /\ At(cap, n).ch \notin Touched(cap, n - 1)
                                     /\ At(cap, n).ch \in Channels
         /\ \A m, n \in 1 .. NumItems : At(cap, m).ch = At(cap, n).ch => m = n
  <1>1. /\ NumItems \in Nat \ {0}
        /\ \A n \in 1 .. NumItems : At(cap, n) \in Item(b)
        /\ \A m, n \in 1 .. NumItems : At(cap, m).ch = At(cap, n).ch => m = n
    BY ItemsInOrder DEF NumItems
  <1>2. \A n \in 1 .. NumItems : At(cap, n).ch \in Channels
    BY <1>1 DEF Item
  <1>3. Touched(cap, 0) = {} /\ Touched(cap, NumItems) \subseteq Channels
    BY <1>2 DEF Touched
  <1>4. ASSUME NEW n \in 1 .. NumItems
        PROVE  Touched(cap, n) = Touched(cap, n - 1) \cup {At(cap, n).ch}
    BY <1>1, <1>4 DEF Touched
  <1>5. ASSUME NEW n \in 1 .. NumItems PROVE At(cap, n).ch \notin Touched(cap, n - 1)
    BY <1>1, <1>5 DEF Touched
  <1> QED BY <1>1, <1>2, <1>3, <1>4, <1>5

LEMMA TouchedUpTo ==
  ASSUME NEW b \in Nat, CaptureOK(cap, b), NEW n \in 1 .. NumItems
  PROVE  Touched(cap, n) \subseteq Channels
  <1>1. NumItems \in Nat /\ \A j \in 1 .. NumItems : At(cap, j).ch \in Channels
    BY TouchedMore
  <1> QED BY <1>1 DEF Touched

\* The main loop.
LEMMA MainMeta ==
  ASSUME TablesOpen, TypeInv, TxInv, ReplicaInv, MetaInv, StepsOfMain
  PROVE  MetaInv'
  <1> USE DEF MetaInv, AsBefore, BackedUp, EnteredUpTo, Filled, dbv, filev, capv, fail_with, finish, rollback_next, CommitPcs, TxPcs, RollbackPcs, SyncPcs, Unrecoverable
  <1>m. /\ \A l : goto("main", l) => pc'["main"] = l /\ k' = k
        /\ \A l : goto("job", l) => pc'["main"] = pc["main"] /\ k' = k
        /\ \A l, n : start_loop("main", l, n) => pc'["main"] = l /\ k'["main"] = n
    BY Moves
  <1>s. saved'.recs = saved.recs \/ Committed
    BY MainSaved
  <1>c. PICK b \in Nat : /\ b = used.captures /\ (pc["main"] \in CommitPcs => CaptureOK(cap, b))
                        /\ meta \in [Channels -> TablesUpTo(b)]
                        /\ tab["main"] \in TablesUpTo(b) /\ DOMAIN backup = Channels
    BY DEF TypeInv, UsedInv, CtlInv, TabInv, MainPlace, Threads
  <1>i. pc["main"] \in CommitPcs =>
        /\ Touched(cap, 0) = {} /\ NumItems \in Nat \ {0}
        /\ \A n \in 1 .. NumItems : /\ Touched(cap, n) = Touched(cap, n - 1) \cup {At(cap, n).ch}
                                    /\ At(cap, n).ch \notin Touched(cap, n - 1)
                                    /\ At(cap, n).ch \in Channels /\ ItemAt(n) = At(cap, n)
                                    /\ At(cap, n).slot \in Slots \cup {Nil}
    BY <1>c, TouchedMore, CurrentItem DEF Item
  <1>k. /\ pc["main"] \in {"read", "truncate", "fill", "insert", "rb_truncate", "rb_fill"}
              => k["main"] \in 1 .. NumItems
        /\ pc["main"] = "rb_db" => k["main"] \in 0 .. NumItems
    BY DEF TypeInv, CtlInv, MainPlace, NumItems
  <1>u. NumItems' = NumItems \/ cap' # cap
    BY DEF NumItems
  <1>1. CASE db_begin
    BY <1>1, <1>m, <1>u, <1>s DEF db_begin, Committed
  <1>2. CASE record_exists
    BY <1>2, <1>m, <1>u, <1>i DEF record_exists
  <1>3. CASE metadata_read_item
    <2> DEFINE i == k["main"]
              x == At(cap, i)
    <2>1. /\ i \in 1 .. NumItems /\ ItemAt(i) = x /\ x.ch \in Channels \ Touched(cap, i - 1)
          /\ Touched(cap, i) = Touched(cap, i - 1) \cup {x.ch}
      BY <1>3, <1>i, <1>k DEF metadata_read_item
    <2>2. /\ pc["main"] = "read" /\ UNCHANGED <<meta, cap>>
          /\ \/ /\ tab' = [tab EXCEPT !["main"] = meta[x.ch]]
                /\ backup' = [backup EXCEPT ![x.ch] = meta[x.ch]]
                /\ \/ fail_with("metadata_write_failed", i)
                   \/ goto("main", "truncate")
             \/ fail_with("metadata_write_failed", i) /\ UNCHANGED backup
      BY <1>3, <2>1 DEF metadata_read_item, metadata_read, silent_fault, TablesOpen
    <2>3. meta[x.ch] = cap.before[x.ch]
      BY <2>1, <2>2
    <2>4. CASE UNCHANGED backup /\ fail_with("metadata_write_failed", i)
      BY <2>1, <2>2, <2>4, <1>m, <1>u
    <2>5. CASE /\ tab' = [tab EXCEPT !["main"] = meta[x.ch]]
               /\ backup' = [backup EXCEPT ![x.ch] = meta[x.ch]]
      <3>1. /\ tab'["main"] = cap.before[x.ch]
            /\ \A c \in Channels : backup'[c] = IF c = x.ch THEN cap.before[c] ELSE backup[c]
        BY <2>1, <2>3, <2>5, <1>c DEF TypeInv, TabInv, Threads
      <3>2. Touched(cap, i) \subseteq Channels
        BY <1>c, <2>1, <2>2, TouchedUpTo
      <3>3. \A c \in Touched(cap, i) : backup'[c] = cap.before[c]
        BY <3>1, <3>2, <2>1, <2>2
      <3>4. CASE fail_with("metadata_write_failed", i)
        BY <2>1, <2>2, <3>1, <3>4, <1>m, <1>u
      <3>5. CASE goto("main", "truncate")
        BY <2>1, <2>2, <3>1, <3>3, <3>5, <1>m, <1>u
      <3> QED BY <2>2, <3>4, <3>5
    <2> QED BY <2>2, <2>4, <2>5
  <1>4. CASE metadata_truncate_item
    <2> DEFINE i == k["main"]
              x == At(cap, i)
    <2>1. /\ i \in 1 .. NumItems /\ ItemAt(i) = x /\ x.ch \in Channels \ Touched(cap, i - 1)
          /\ Touched(cap, i) = Touched(cap, i - 1) \cup {x.ch}
      BY <1>4, <1>i, <1>k DEF metadata_truncate_item
    <2>2. /\ pc["main"] = "truncate" /\ UNCHANGED <<cap, backup, tab>>
          /\ meta' = [meta EXCEPT ![x.ch] = EmptyTable] /\ goto("main", "fill")
      BY <1>4, <2>1 DEF metadata_truncate_item, fopen_wb
    <2>3. \A c \in Channels : c # x.ch => meta'[c] = meta[c]
      BY <2>2, <1>c
    <2>4. \A j \in 1 .. i - 1 : At(cap, j).ch \in Channels /\ At(cap, j).ch # x.ch
      BY <2>1, <2>2, <1>c, TouchedMore
    <2> QED BY <2>1, <2>2, <2>3, <2>4, <1>m, <1>u
  <1>5. CASE metadata_fill_item
    <2> DEFINE i == k["main"]
              x == At(cap, i)
    <2>1. /\ i \in 1 .. NumItems /\ ItemAt(i) = x /\ x.ch \in Channels \ Touched(cap, i - 1)
          /\ Touched(cap, i) = Touched(cap, i - 1) \cup {x.ch} /\ NumItems \in Nat
      BY <1>5, <1>i, <1>k DEF metadata_fill_item
    <2>2. /\ pc["main"] = "fill" /\ UNCHANGED <<cap, backup, tab>>
          /\ \/ /\ meta' = [meta EXCEPT ![x.ch] = [tab["main"] EXCEPT ![x.slot] = EntryOf(cap, x)]]
                /\ \/ i < NumItems /\ start_loop("main", "read", i + 1)
                   \/ ~(i < NumItems) /\ start_loop("main", "insert", 1)
             \/ meta' = meta /\ fail_with("metadata_write_failed", i)
      BY <1>5, <2>1 DEF metadata_fill_item, fwrite_table, ItemEntry, EntryOf
    <2>3. CASE meta' = meta /\ fail_with("metadata_write_failed", i)
      BY <2>1, <2>2, <2>3, <1>m, <1>u
    <2>4. CASE meta' = [meta EXCEPT ![x.ch] = [tab["main"] EXCEPT ![x.slot] = EntryOf(cap, x)]]
      <3>1. x.slot \in Slots
        <4>1. x \in ItemsOf(cap)
          BY <1>c, <2>1, <2>2, CurrentItem
        <4> QED BY <4>1, <2>2 DEF TypeInv, CtlInv, MainPlace
      <3>2. DOMAIN tab["main"] = Slots
        BY <1>c DEF TablesUpTo
      <3>3. /\ \A c \in Channels : c # x.ch => meta'[c] = meta[c]
            /\ meta'[x.ch][x.slot] = EntryOf(cap, x)
            /\ \A s \in Slots \ {x.slot} : meta'[x.ch][s] = cap.before[x.ch][s]
        BY <2>1, <2>2, <2>4, <3>1, <3>2, <1>c
      <3>4. \A j \in 1 .. i - 1 : At(cap, j).ch \in Channels /\ At(cap, j).ch # x.ch
        BY <2>1, <2>2, <1>c, TouchedMore
      <3>5. \A j \in 1 .. i :
              /\ meta'[At(cap, j).ch][At(cap, j).slot] = EntryOf(cap, At(cap, j))
              /\ \A s \in Slots \ {At(cap, j).slot} :
                    meta'[At(cap, j).ch][s] = cap.before[At(cap, j).ch][s]
        <4>1. \A j \in 1 .. i : j = i \/ j \in 1 .. i - 1
          BY <2>1
        <4>2. EnteredUpTo(i - 1)
          BY <2>2
        <4> QED BY <4>1, <4>2, <3>3, <3>4
      <3>6. \A c \in Channels \ Touched(cap, i) : meta'[c] = cap.before[c]
        BY <3>3, <2>1, <2>2
      <3>7. CASE i < NumItems /\ start_loop("main", "read", i + 1)
        <4>1. pc'["main"] = "read" /\ k'["main"] - 1 = i
          BY <3>7, <1>m, <2>1
        <4> QED BY <2>2, <3>5, <3>6, <4>1
      <3>8. CASE ~(i < NumItems) /\ start_loop("main", "insert", 1)
        <4>1. pc'["main"] = "insert" /\ i = NumItems
          BY <3>8, <1>m, <2>1
        <4> QED BY <2>2, <3>5, <3>6, <4>1, <1>u
      <3>9. CASE fail_with("metadata_write_failed", i)
        BY <3>9, <1>m, <1>u, <2>1, <2>2, <3>3, <3>6
      <3> QED BY <2>2, <3>7, <3>8, <3>9
    <2> QED BY <2>2, <2>3, <2>4
  <1>6. CASE record_insert
    BY <1>6, <1>m, <1>u, <1>s DEF record_insert, Committed
  <1>7. CASE record_count
    BY <1>7, <1>m, <1>u, <1>s DEF record_count, Committed
  <1>8. CASE task_update
    BY <1>8, <1>m, <1>u, <1>s DEF task_update, Committed
  <1>9. CASE db_commit
    <2>1. /\ pc["main"] = "commit" /\ UNCHANGED <<cap, backup, meta>> /\ BatchOf(cap) \subseteq db.recs
          /\ \/ saved' = db /\ goto("main", "sync_check")
             \/ fail_with("db_commit_failed", NumItems)
      BY <1>9 DEF db_commit, TxInv
    <2>2. CASE saved' = db /\ goto("main", "sync_check")
      BY <2>1, <2>2, <1>m, <1>u
    <2>3. CASE fail_with("db_commit_failed", NumItems)
      BY <2>1, <2>3, <1>m, <1>u
    <2> QED BY <2>1, <2>2, <2>3
  <1>10. CASE db_rollback
    BY <1>10, <1>m, <1>u, <1>s DEF db_rollback, Committed
  <1>11. CASE metadata_rollback_open
    <2> DEFINE i == k["main"]
              x == At(cap, i)
    <2>1. /\ i \in 1 .. NumItems /\ ItemAt(i) = x /\ x.ch \in Channels
          /\ Touched(cap, i) = Touched(cap, i - 1) \cup {x.ch} /\ Touched(cap, 0) = {}
      BY <1>11, <1>i, <1>k DEF metadata_rollback_open
    <2>2. /\ pc["main"] = "rb_truncate" /\ UNCHANGED <<cap, backup>>
          /\ \/ reason' = "metadata_rollback_failed" /\ rollback_next
             \/ /\ backup[x.ch] # Nil /\ reason' = reason
                /\ meta' = [meta EXCEPT ![x.ch] = EmptyTable] /\ goto("main", "rb_fill")
      BY <1>11, <2>1 DEF metadata_rollback_open, fopen_wb
    <2>3. CASE reason' = "metadata_rollback_failed" /\ rollback_next
      BY <2>2, <2>3, <1>m, <1>u
    <2>4. CASE /\ backup[x.ch] # Nil /\ reason' = reason
               /\ meta' = [meta EXCEPT ![x.ch] = EmptyTable] /\ goto("main", "rb_fill")
      <3>1. \A c \in Channels : c # x.ch => meta'[c] = meta[c]
        BY <2>4, <1>c
      <3> QED BY <2>1, <2>2, <2>4, <3>1, <1>m, <1>u
    <2> QED BY <2>2, <2>3, <2>4
  <1>12. CASE metadata_rollback_write
    <2> DEFINE i == k["main"]
              x == At(cap, i)
    <2>1. /\ i \in 1 .. NumItems /\ ItemAt(i) = x /\ x.ch \in Channels
          /\ Touched(cap, i) = Touched(cap, i - 1) \cup {x.ch} /\ Touched(cap, 0) = {}
      BY <1>12, <1>i, <1>k DEF metadata_rollback_write
    <2>2. /\ pc["main"] = "rb_fill" /\ UNCHANGED cap
          /\ \/ i = 1 /\ start_loop("main", "rb_status", 0)
             \/ i # 1 /\ start_loop("main", "rb_truncate", i - 1)
          /\ \/ reason' = "metadata_rollback_failed" /\ UNCHANGED backup
             \/ /\ meta' = [meta EXCEPT ![x.ch] = backup[x.ch]]
                /\ backup' = [backup EXCEPT ![x.ch] = Nil] /\ reason' = reason
      BY <1>12, <2>1 DEF metadata_rollback_write, fwrite_table
    <2>3. pc'["main"] \in {"rb_status", "rb_truncate"} /\ k'["main"] = i - 1
      BY <2>1, <2>2, <1>m
    <2>4. CASE reason' = "metadata_rollback_failed" /\ UNCHANGED backup
      BY <2>2, <2>3, <2>4, <1>u
    <2>5. CASE /\ meta' = [meta EXCEPT ![x.ch] = backup[x.ch]]
               /\ backup' = [backup EXCEPT ![x.ch] = Nil] /\ reason' = reason
      <3>1. backup[x.ch] = cap.before[x.ch]
        BY <2>2
      <3>2. /\ \A c \in Channels : c # x.ch => meta'[c] = meta[c] /\ backup'[c] = backup[c]
            /\ meta'[x.ch] = cap.before[x.ch] /\ backup'[x.ch] = Nil
        BY <2>1, <2>5, <3>1, <1>c
      <3> QED BY <2>1, <2>2, <2>3, <2>5, <3>2
    <2> QED BY <2>2, <2>4, <2>5
  <1>13. CASE rollback_status
    BY <1>13, <1>m, <1>u, <1>s DEF rollback_status, Committed
  <1>14. CASE mark_pending
    BY <1>14, <1>m, <1>u, <1>s DEF mark_pending, Committed
  <1>15. CASE mark_complete
    BY <1>15, <1>m, <1>u, <1>s DEF mark_complete, Committed
  <1>16. CASE sync_check("main")
    <2>1. /\ UNCHANGED <<meta, cap>> /\ saved' = saved /\ pc["main"] \in SyncPcs
          /\ pc'["main"] \in SyncPcs \cup {"pend", "complete", "idle", "unmark"}
          /\ cap = NoCapture => pc'["main"] \notin {"pend", "complete"}
      BY <1>16, <1>m DEF sync_check, after_sync, Booting
    <2> QED BY <2>1, <1>u
  <1>17. CASE sync_backup("main")
    <2>1. /\ UNCHANGED <<meta, cap>> /\ saved' = saved /\ pc["main"] \in SyncPcs
          /\ pc'["main"] \in SyncPcs \cup {"pend", "complete", "idle", "unmark"}
          /\ cap = NoCapture => pc'["main"] \notin {"pend", "complete"}
      BY <1>17, <1>m DEF sync_backup, after_sync, Booting
    <2> QED BY <2>1, <1>u
  <1>18. CASE sync_meta("main")
    <2>1. /\ UNCHANGED <<meta, cap>> /\ saved' = saved /\ pc["main"] \in SyncPcs
          /\ pc'["main"] \in SyncPcs \cup {"pend", "complete", "idle", "unmark"}
          /\ cap = NoCapture => pc'["main"] \notin {"pend", "complete"}
      BY <1>18, <1>m DEF sync_meta, after_sync, Booting
    <2> QED BY <2>1, <1>u
  <1>19. CASE sync_rename("main")
    <2>1. /\ UNCHANGED <<meta, cap>> /\ saved' = saved /\ pc["main"] \in SyncPcs
          /\ pc'["main"] \in SyncPcs \cup {"pend", "complete", "idle", "unmark"}
          /\ cap = NoCapture => pc'["main"] \notin {"pend", "complete"}
      BY <1>19, <1>m DEF sync_rename, after_sync, Booting
    <2> QED BY <2>1, <1>u
  <1>20. CASE outbox_retry
    BY <1>20, <1>m, <1>u DEF outbox_retry, ReplicaInv
  <1>21. CASE outbox_unmark
    BY <1>21, <1>m, <1>u, <1>s DEF outbox_unmark, Committed
  <1>22. CASE workers_exit
    BY <1>22, <1>m, <1>u, <1>s DEF workers_exit, Committed
  <1>23. CASE service_maintenance_job
    BY <1>23, <1>m, <1>u, <1>s DEF service_maintenance_job, Committed
  <1>24. CASE capture_failed
    BY <1>24, <1>m, <1>u, <1>s DEF capture_failed, Committed
  <1>25. ASSUME NEW e \in BOOLEAN, capture_succeeded(e) PROVE MetaInv'
    BY <1>25, <1>m, <1>u, <1>s DEF capture_succeeded, Committed
  <1> QED BY <1>1, <1>2, <1>3, <1>4, <1>5, <1>6, <1>7, <1>8, <1>9, <1>10, <1>11, <1>12, <1>13, <1>14, <1>15, <1>16, <1>17, <1>18, <1>19, <1>20, <1>21, <1>22, <1>23, <1>24, <1>25 DEF StepsOfMain, commit_step, sync_step

\* No maintenance job runs while the main loop is past idle.
LEMMA JobLeavesMain ==
  ASSUME TypeInv, TxInv, job_step
  PROVE  pc["main"] = "idle" /\ pc'["main"] = "idle"
  <1>1. pc["job"] # "none"
    BY DEF job_step, sync_step, sync_check, sync_backup, sync_meta, sync_rename, job_check,
       clear_open, clear_fill, file_clear_all, delete_read, delete_open, delete_fill,
       file_delete, delete_count, purge_read, purge_open, purge_fill, purge_task
  <1>2. pc["main"] = "idle"
    BY <1>1 DEF TypeInv, JobInv, JobPlace, TxInv
  <1>3. pc'["main"] = pc["main"]
    <2> USE DEF fopen_wb, acknowledge, purge_next, after_sync
    <2>1. /\ \A l : goto("job", l) => pc'["main"] = pc["main"]
          /\ \A l, n : start_loop("job", l, n) => pc'["main"] = pc["main"]
      BY Moves
    <2>2. CASE sync_step("job")
      BY <2>1, <2>2 DEF sync_step, sync_check, sync_backup, sync_meta, sync_rename
    <2>3. CASE job_check \/ clear_open \/ clear_fill \/ file_clear_all \/ delete_read
      BY <2>1, <2>3 DEF job_check, clear_open, clear_fill, file_clear_all, delete_read
    <2>4. CASE delete_open \/ delete_fill \/ file_delete \/ delete_count
      BY <2>1, <2>4 DEF delete_open, delete_fill, file_delete, delete_count
    <2>5. CASE purge_read \/ purge_open \/ purge_fill \/ purge_task
      BY <2>1, <2>5 DEF purge_read, purge_open, purge_fill, purge_task
    <2> QED BY <2>2, <2>3, <2>4, <2>5 DEF job_step
  <1> QED BY <1>2, <1>3

LEMMA JobMeta ==
  ASSUME TypeInv, TxInv, job_step
  PROVE  MetaInv'
  BY JobLeavesMain DEF MetaInv, CommitPcs, TxPcs, RollbackPcs, SyncPcs

LEMMA TaskInfoMeta ==
  ASSUME TypeInv, NEW t \in Tasks, NEW plan \in Plans, NEW missed \in SUBSET Lapses,
         task_info(t, plan, missed)
  PROVE  MetaInv'
  <1>1. PICK b \in Nat : /\ b = used.captures /\ db \in DbUpTo(b)
                        /\ meta \in [Channels -> TablesUpTo(b)]
    BY DEF TypeInv, UsedInv, DbInv, TabInv
  <1>2. cap'.before = meta'
    BY <1>1, NewCapture
  <1>3. goto("main", "capturing") /\ backup' = [c \in Channels |-> Nil]
    BY DEF task_info
  <1>4. pc'["main"] = "capturing"
    BY <1>3, Moves
  <1> QED BY <1>2, <1>3, <1>4 DEF MetaInv, TxPcs, RollbackPcs, SyncPcs

LEMMA StartMeta ==
  ASSUME TypeInv, MetaInv, StartsOfJob
  PROVE  MetaInv'
  <1>1. PICK op, t, i : start_maintenance_job(op, t, i)
    BY DEF StartsOfJob
  <1>2. UNCHANGED <<dbv, filev, capv>> /\ pc'["main"] = pc["main"] /\ k' = k /\ tab' = tab
    BY <1>1, Moves DEF start_maintenance_job
  <1> QED BY <1>2 DEF MetaInv, AsBefore, BackedUp, EnteredUpTo, Filled, NumItems, dbv, filev, capv

LEMMA CrashMeta ==
  ASSUME crash
  PROVE  MetaInv'
  <1>1. pc'["main"] = "down"
    BY DEF crash, Threads
  <1> QED BY <1>1 DEF MetaInv, CommitPcs, TxPcs, RollbackPcs, SyncPcs

LEMMA NextMeta ==
  TablesOpen /\ TypeInv /\ TxInv /\ ReplicaInv /\ MetaInv /\ [Next]_vars => MetaInv'
  <1> SUFFICES ASSUME TablesOpen, TypeInv, TxInv, ReplicaInv, MetaInv, [Next]_vars
               PROVE  MetaInv'
    OBVIOUS
  <1>1. CASE UNCHANGED vars
    BY <1>1 DEF vars, MetaInv, AsBefore, BackedUp, EnteredUpTo, Filled, NumItems
  <1>2. CASE Next
    BY <1>2, Steps, MainMeta, JobMeta, TaskInfoMeta, StartMeta, CrashMeta DEF StartsCapture
  <1> QED BY <1>1, <1>2

LEMMA MetaInvariant == ASSUME OneAtATime, TablesOpen PROVE Spec => []MetaInv
  <1>1. Init => MetaInv
    BY InitMeta
  <1>2. TypeInv /\ TxInv /\ ReplicaInv /\ MetaInv /\ [Next]_vars => MetaInv'
    BY NextMeta
  <1> QED BY <1>1, <1>2, TransactionsIsolated, ReplicaInvariant, PTL DEF Spec

(* The entries of the commit.                                              *)

LEMMA InitEntry == Init => EntryInv
  BY DEF Init, EntryInv, SyncPcs, Threads

\* The main loop.
LEMMA MainEntry ==
  ASSUME TypeInv, TxInv, ReplicaInv, EntryInv, StepsOfMain
  PROVE  EntryInv'
  <1> USE DEF EntryInv, EntriesUpTo, dbv, filev, capv, fail_with, finish, rollback_next, CommitPcs, TxPcs, RollbackPcs, SyncPcs
  <1>m. /\ \A l : goto("main", l) => pc'["main"] = l /\ k' = k
        /\ \A l : goto("job", l) => pc'["main"] = pc["main"] /\ k' = k
        /\ \A l, n : start_loop("main", l, n) => pc'["main"] = l /\ k'["main"] = n
    BY Moves
  <1>s. saved'.recs = saved.recs \/ Committed
    BY MainSaved
  <1>c. PICK b \in Nat : /\ b = used.captures /\ (pc["main"] \in CommitPcs => CaptureOK(cap, b))
                        /\ meta \in [Channels -> TablesUpTo(b)] /\ tab["main"] \in TablesUpTo(b)
    BY DEF TypeInv, UsedInv, CtlInv, TabInv, MainPlace, Threads
  <1>i. pc["main"] \in CommitPcs =>
        /\ NumItems \in Nat \ {0}
        /\ \A n \in 1 .. NumItems : At(cap, n).ch \in Channels /\ ItemAt(n) = At(cap, n)
        /\ \A j, n \in 1 .. NumItems : At(cap, j).ch = At(cap, n).ch => j = n
    BY <1>c, TouchedMore, CurrentItem
  <1>k. pc["main"] \in {"read", "truncate", "fill", "insert"} => k["main"] \in 1 .. NumItems
    BY DEF TypeInv, CtlInv, MainPlace, NumItems
  <1>u. NumItems' = NumItems \/ cap' # cap
    BY DEF NumItems
  <1> DEFINE i == k["main"]
             x == At(cap, i)
  <1>f. pc["main"] \in {"truncate", "fill"} =>
        /\ i \in 1 .. NumItems /\ NumItems \in Nat /\ ItemAt(i) = x /\ x.ch \in Channels
        /\ \A j \in 1 .. i - 1 : At(cap, j).ch \in Channels /\ At(cap, j).ch # x.ch
    BY <1>i, <1>k
  <1>1. CASE db_begin
    BY <1>1, <1>m DEF db_begin
  <1>2. CASE record_exists
    BY <1>2, <1>m DEF record_exists
  <1>3. CASE metadata_read_item
    <2>1. /\ pc["main"] = "read" /\ UNCHANGED <<meta, cap>>
          /\ goto("main", "truncate") \/ fail_with("metadata_write_failed", i)
      BY <1>3 DEF metadata_read_item
    <2> QED BY <2>1, <1>m
  <1>4. CASE metadata_truncate_item
    <2>1. /\ pc["main"] = "truncate" /\ UNCHANGED cap
          /\ meta' = [meta EXCEPT ![x.ch] = EmptyTable] /\ goto("main", "fill")
      BY <1>4, <1>f DEF metadata_truncate_item, fopen_wb
    <2>2. \A c \in Channels : c # x.ch => meta'[c] = meta[c]
      BY <2>1, <1>c
    <2> HIDE DEF x
    <2> QED BY <2>1, <2>2, <1>f, <1>m
  <1>5. CASE metadata_fill_item
    <2>1. /\ pc["main"] = "fill" /\ UNCHANGED cap
          /\ \/ /\ meta' = [meta EXCEPT ![x.ch] = [tab["main"] EXCEPT ![x.slot] = EntryOf(cap, x)]]
                /\ \/ i < NumItems /\ start_loop("main", "read", i + 1)
                   \/ ~(i < NumItems) /\ start_loop("main", "insert", 1)
             \/ fail_with("metadata_write_failed", i)
      BY <1>5, <1>f DEF metadata_fill_item, fwrite_table, ItemEntry, EntryOf
    <2>2. CASE fail_with("metadata_write_failed", i)
      BY <2>2, <1>m
    <2>3. CASE /\ meta' = [meta EXCEPT ![x.ch] = [tab["main"] EXCEPT ![x.slot] = EntryOf(cap, x)]]
               /\ \/ i < NumItems /\ start_loop("main", "read", i + 1)
                  \/ ~(i < NumItems) /\ start_loop("main", "insert", 1)
      <3>1. x.slot \in Slots
        <4>1. x \in ItemsOf(cap)
          BY <1>c, <1>f, <2>1, CurrentItem
        <4> QED BY <4>1, <2>1 DEF TypeInv, CtlInv, MainPlace
      <3>2. DOMAIN tab["main"] = Slots
        BY <1>c DEF TablesUpTo
      <3>3. /\ \A c \in Channels : c # x.ch => meta'[c] = meta[c]
            /\ meta'[x.ch][x.slot] = EntryOf(cap, x)
        BY <2>1, <2>3, <3>1, <3>2, <1>c, <1>f
      <3>4. \A j \in 1 .. i : j = i \/ j \in 1 .. i - 1
        BY <1>f, <2>1
      <3>5. \A j \in 1 .. i : meta'[At(cap, j).ch][At(cap, j).slot] = EntryOf(cap, At(cap, j))
        BY <3>3, <3>4, <1>f, <2>1
      <3>6. CASE i < NumItems /\ start_loop("main", "read", i + 1)
        <4>1. pc'["main"] = "read" /\ k'["main"] - 1 = i
          BY <3>6, <1>m, <1>f, <2>1
        <4> QED BY <2>1, <3>5, <4>1
      <3>7. CASE ~(i < NumItems) /\ start_loop("main", "insert", 1)
        <4>1. pc'["main"] = "insert" /\ i = NumItems
          BY <3>7, <1>m, <1>f, <2>1
        <4> QED BY <2>1, <3>5, <4>1, <1>u
      <3> QED BY <2>3, <3>6, <3>7
    <2> QED BY <2>1, <2>2, <2>3
  <1>6. CASE record_insert \/ record_count \/ task_update
    <2>1. /\ pc["main"] \in {"insert", "count", "total"} /\ UNCHANGED <<meta, cap>>
          /\ pc'["main"] \in {"insert", "count", "total", "commit", "rb_db"}
      BY <1>6, <1>m DEF record_insert, record_count, task_update
    <2> QED BY <2>1, <1>u
  <1>7. CASE db_commit
    <2>1. /\ pc["main"] = "commit" /\ UNCHANGED <<cap, meta>> /\ BatchOf(cap) \subseteq db.recs
          /\ \/ saved' = db /\ goto("main", "sync_check")
             \/ fail_with("db_commit_failed", NumItems)
      BY <1>7 DEF db_commit, TxInv
    <2> QED BY <2>1, <1>m, <1>u
  <1>8. CASE db_rollback \/ metadata_rollback_open \/ metadata_rollback_write \/ rollback_status
    <2>1. pc'["main"] \in RollbackPcs \cup {"idle", "exit"}
      BY <1>8, <1>m DEF db_rollback, metadata_rollback_open, metadata_rollback_write,
         rollback_status, fopen_wb
    <2> QED BY <2>1
  <1>9. CASE mark_pending \/ mark_complete
    <2>1. /\ pc["main"] \in {"pend", "complete"} /\ UNCHANGED <<dbv, meta, cap>>
          /\ pc'["main"] \in {"pend", "idle", "exit"}
      BY <1>9, <1>m DEF mark_pending, mark_complete
    <2> QED BY <2>1, <1>u
  <1>10. CASE sync_step("main")
    <2>1. /\ UNCHANGED <<meta, cap>> /\ saved' = saved /\ pc["main"] \in SyncPcs
          /\ pc'["main"] \in SyncPcs \cup {"pend", "complete", "idle", "unmark"}
          /\ cap = NoCapture => pc'["main"] \notin {"pend", "complete"}
      BY <1>10, <1>m DEF sync_step, sync_check, sync_backup, sync_meta, sync_rename, after_sync, Booting
    <2> QED BY <2>1, <1>u
  <1>11. CASE outbox_retry
    BY <1>11, <1>m, <1>u DEF outbox_retry, ReplicaInv
  <1>12. CASE outbox_unmark \/ workers_exit \/ service_maintenance_job \/ capture_failed
    <2>1. pc'["main"] = "idle" \/ (pc'["main"] = pc["main"] /\ pc["main"] \in {"idle", "capturing", "exit"})
      BY <1>12, <1>m DEF outbox_unmark, workers_exit, service_maintenance_job, capture_failed, InLoop
    <2> QED BY <2>1
  <1>13. ASSUME NEW e \in BOOLEAN, capture_succeeded(e) PROVE EntryInv'
    BY <1>13, <1>m DEF capture_succeeded
  <1> QED BY <1>1, <1>2, <1>3, <1>4, <1>5, <1>6, <1>7, <1>8, <1>9, <1>10, <1>11, <1>12, <1>13 DEF StepsOfMain, commit_step

LEMMA NextEntry ==
  TypeInv /\ TxInv /\ ReplicaInv /\ EntryInv /\ [Next]_vars => EntryInv'
  <1> SUFFICES ASSUME TypeInv, TxInv, ReplicaInv, EntryInv, [Next]_vars PROVE EntryInv'
    OBVIOUS
  <1> USE DEF EntryInv, EntriesUpTo, SyncPcs, NumItems, dbv, filev, capv
  <1>1. CASE UNCHANGED vars
    BY <1>1 DEF vars
  <1>2. CASE StepsOfMain
    BY <1>2, MainEntry
  <1>3. CASE job_step
    BY <1>3, JobLeavesMain
  <1>4. CASE StartsCapture
    BY <1>4, Moves, CaptureStart
  <1>5. CASE StartsOfJob
    <2>1. UNCHANGED <<dbv, filev, capv>> /\ pc'["main"] = pc["main"] /\ k' = k
      BY <1>5, Moves DEF StartsOfJob, start_maintenance_job
    <2> QED BY <2>1
  <1>6. CASE crash
    BY <1>6 DEF crash, Threads
  <1> QED BY <1>1, <1>2, <1>3, <1>4, <1>5, <1>6, Steps

LEMMA EntryInvariant == ASSUME OneAtATime PROVE Spec => []EntryInv
  <1>1. Init => EntryInv
    BY InitEntry
  <1>2. TypeInv /\ TxInv /\ ReplicaInv /\ EntryInv /\ [Next]_vars => EntryInv'
    BY NextEntry
  <1> QED BY <1>1, <1>2, TransactionsIsolated, ReplicaInvariant, PTL DEF Spec

\* Only the calls that end the commit are made from "pend" and "complete".
LEMMA StepsOfReport ==
  ASSUME TypeInv, TxInv, Next, pc["main"] \in {"pend", "complete"}, report' # report
  PROVE  mark_pending \/ mark_complete
  <1>1. pc["job"] = "none"
    BY DEF TypeInv, JobInv, JobPlace, TxInv
  <1>2. ~job_step
    BY <1>1 DEF job_step, sync_step, sync_check, sync_backup, sync_meta, sync_rename, job_check,
       clear_open, clear_fill, file_clear_all, delete_read, delete_open, delete_fill,
       file_delete, delete_count, purge_read, purge_open, purge_fill, purge_task
  <1>3. ~crash /\ ~StartsOfJob
    BY DEF crash, StartsOfJob, start_maintenance_job, InLoop
  <1>4. ~StartsCapture
    BY CaptureStart
  <1>5. commit_step => mark_pending \/ mark_complete
    BY DEF commit_step, db_begin, record_exists, metadata_read_item, metadata_truncate_item,
       metadata_fill_item, record_insert, record_count, task_update, db_commit, db_rollback,
       metadata_rollback_open, metadata_rollback_write, rollback_status
  <1>6. StepsOfMain => commit_step
    BY DEF StepsOfMain, sync_step, sync_check, sync_backup, sync_meta, sync_rename, outbox_retry,
       outbox_unmark, workers_exit, service_maintenance_job, InLoop, capture_failed,
       capture_succeeded
  <1> QED BY <1>2, <1>3, <1>4, <1>5, <1>6, Steps

\* At "pend" and "complete" both halves of the commit are there.
LEMMA BothThere ==
  ASSUME TypeInv, EntryInv, pc["main"] \in {"pend", "complete"},
         saved' = saved, meta' = meta
  PROVE  Batch \subseteq saved'.recs /\ \A x \in Items : Entered(x)
  <1>1. PICK b \in Nat : b = used.captures /\ CaptureOK(cap, b)
    BY DEF TypeInv, UsedInv, CtlInv, MainPlace, CommitPcs
  <1>2. cap # NoCapture
    BY <1>1, CaptureThere
  <1>3. EntriesUpTo(NumItems) /\ BatchOf(cap) \subseteq saved.recs
    BY <1>2 DEF EntryInv
  <1>4. Batch = BatchOf(cap) /\ Items = ItemsOf(cap)
    BY DEF Batch, BatchOf, Items, ItemsOf, ItemRecord, RecordOf
  <1>5. ASSUME NEW x \in Items PROVE Entered(x)
    <2>1. PICK n \in 1 .. NumItems : x = At(cap, n)
      BY <1>1, <1>4, ItemsInOrder DEF NumItems
    <2>2. meta[x.ch][x.slot] = EntryOf(cap, x)
      BY <2>1, <1>3 DEF EntriesUpTo
    <2> QED BY <2>2 DEF Entered, ItemEntry, EntryOf
  <1> QED BY <1>3, <1>4, <1>5

\* A commit that is reported a success has both halves: every record durable in the
\* list and every entry in the table of its channel, whatever calls fail, with or
\* without saying so.
THEOREM SuccessIsBoth == ASSUME OneAtATime PROVE Spec => SuccessMeansBoth
  <1> DEFINE A == pc["main"] \in {"pend", "complete"} /\ report' # report
                     /\ report'[cap.task] = "success"
                     => Batch \subseteq saved'.recs /\ \A x \in Items : Entered(x)
  <1>1. TypeInv /\ TxInv /\ EntryInv /\ [Next]_vars => [A]_vars
    <2> SUFFICES ASSUME TypeInv, TxInv, EntryInv, Next, pc["main"] \in {"pend", "complete"},
                        report' # report
                 PROVE  Batch \subseteq saved'.recs /\ \A x \in Items : Entered(x)
      OBVIOUS
    <2>1. mark_pending \/ mark_complete
      BY StepsOfReport
    <2>2. saved' = saved /\ meta' = meta
      BY <2>1 DEF mark_pending, mark_complete, dbv
    <2> QED BY <2>2, BothThere
  <1> QED BY <1>1, TransactionsIsolated, EntryInvariant, PTL DEF Spec, SuccessMeansBoth

\* The last step of a rollback, or a death there, changes neither list nor tables.
LEMMA RollbackEnds ==
  ASSUME IndicesKnown, TypeInv, TxInv, MetaInv, Next, pc["main"] = "rb_status",
         reason \notin Unrecoverable
  PROVE  saved'.recs \cap Batch = {} /\ meta' = cap.before
  <1>1. pc["job"] = "none"
    BY DEF TypeInv, JobInv, JobPlace, TxInv
  <1>2. ~job_step
    BY <1>1 DEF job_step, sync_step, sync_check, sync_backup, sync_meta, sync_rename, job_check,
       clear_open, clear_fill, file_clear_all, delete_read, delete_open, delete_fill,
       file_delete, delete_count, purge_read, purge_open, purge_fill, purge_task
  <1>3. ~StartsOfJob
    BY DEF StartsOfJob, start_maintenance_job, InLoop
  <1>4. ~StartsCapture
    BY CaptureStart
  <1>5. commit_step => rollback_status
    BY DEF commit_step, db_begin, record_exists, metadata_read_item, metadata_truncate_item,
       metadata_fill_item, record_insert, record_count, task_update, db_commit, db_rollback,
       metadata_rollback_open, metadata_rollback_write, mark_pending, mark_complete
  <1>6. StepsOfMain => commit_step
    BY DEF StepsOfMain, sync_step, sync_check, sync_backup, sync_meta, sync_rename, outbox_retry,
       outbox_unmark, workers_exit, service_maintenance_job, InLoop, capture_failed,
       capture_succeeded
  <1>7. crash \/ rollback_status
    BY <1>2, <1>3, <1>4, <1>5, <1>6, Steps
  <1>8. meta' = meta /\ saved'.recs = saved.recs
    <2>1. CASE crash
      BY <2>1 DEF crash, filev
    <2>2. CASE rollback_status
      <3>1. StepsOfMain
        BY <2>2 DEF StepsOfMain, commit_step
      <3>2. ~Committed
        BY DEF Committed
      <3> QED BY <2>2, <3>1, <3>2, MainSaved DEF rollback_status, filev
    <2> QED BY <1>7, <2>1, <2>2
  <1>9. PICK b \in Nat : /\ b = used.captures /\ CaptureOK(cap, b)
                        /\ meta \in [Channels -> TablesUpTo(b)] /\ k["main"] = 0
    BY DEF TypeInv, UsedInv, CtlInv, TabInv, MainPlace, CommitPcs, RollbackPcs
  <1>10. AsBefore(Channels \ Touched(cap, 0)) /\ Touched(cap, 0) = {}
    BY <1>9, TouchedMore DEF MetaInv, RollbackPcs
  <1>11. meta = cap.before
    <2>1. cap.before \in [Channels -> TablesUpTo(b)]
      BY <1>9 DEF CaptureOK
    <2> QED BY <2>1, <1>9, <1>10 DEF AsBefore
  <1>12. saved.recs \cap Batch = {}
    <2>1. Ahead(saved.recs)
      BY DEF TxInv, RollbackPcs
    <2>2. \A x \in ItemsOf(cap) : x.idx \in Nat
      BY <1>9, ItemCount, LargerBound DEF Item
    <2>3. \A x \in ItemsOf(cap) : ~(x.idx < x.idx)
      BY <2>2
    <2>4. \A x : ItemRecord(x).task = cap.task /\ ItemRecord(x).idx = x.idx
      BY DEF ItemRecord
    <2> QED BY <2>1, <2>3, <2>4 DEF Ahead, Batch, Items, ItemsOf
  <1> QED BY <1>8, <1>11, <1>12

\* A commit that rolls back leaves no record and every table as it found it, unless
\* the rollback itself failed, provided that no table it cannot open passes for an
\* empty one and the next index could be looked up.
THEOREM FailuresLeaveNothing ==
  ASSUME OneAtATime, TablesOpen, IndicesKnown
  PROVE  Spec => FailureLeavesNothing
  <1> DEFINE A == pc["main"] = "rb_status" /\ reason \notin Unrecoverable
                     => saved'.recs \cap Batch = {} /\ meta' = cap.before
  <1>1. TypeInv /\ TxInv /\ MetaInv /\ [Next]_vars => [A]_vars
    BY RollbackEnds
  <1> QED BY <1>1, TransactionsIsolated, MetaInvariant, PTL DEF Spec, FailureLeavesNothing

-----------------------------------------------------------------------------
(* total_files.                                                            *)

LEMMA InitTotal == Init => TotalInv
  <1> SUFFICES ASSUME Init PROVE TotalInv
    OBVIOUS
  <1>1. pc["main"] = "idle" /\ job.op = "none"
    BY DEF Init, NoJob, Threads
  <1>2. \A t \in Tasks : Exact(saved, t)
    BY DEF Init, Exact, EmptyDb
  <1> QED BY <1>1, <1>2 DEF TotalInv, TxPcs

\* The total of a task that is not completed does not matter, nor does another task.
LEMMA StatusExact ==
  ASSUME NEW b \in Nat, NEW d \in DbUpTo(b), NEW t \in Tasks, NEW u \in Tasks, Exact(d, u)
  PROVE  Exact(with_status(d, t, "failed"), u)
  <1>1. with_status(d, t, "failed").recs = d.recs
    BY StatementTypes DEF Status
  <1>2. FilesOf(with_status(d, t, "failed"), u) = FilesOf(d, u)
    BY <1>1 DEF FilesOf
  <1>3. with_status(d, t, "failed").total[u] = d.total[u]
    BY DEF with_status, DbUpTo
  <1>4. with_status(d, t, "failed").status[u] = "completed" => d.status[u] = "completed"
    BY DEF with_status, DbUpTo
  <1> QED BY <1>2, <1>3, <1>4 DEF Exact

\* The main loop.
LEMMA MainTotal ==
  ASSUME CountsKnown, TypeInv, TxInv, TotalInv, StepsOfMain
  PROVE  TotalInv'
  <1> USE DEF TotalInv, dbv, filev, capv, fopen_wb, fwrite_table, fail_with, finish, rollback_next, TxPcs, PurgePcs
  <1>m. /\ \A l : goto("main", l) => pc'["main"] = l /\ pc'["job"] = pc["job"]
        /\ \A l : goto("job", l) => pc'["job"] = l /\ pc'["main"] = pc["main"]
        /\ \A l, n : start_loop("main", l, n) => pc'["main"] = l /\ pc'["job"] = pc["job"]
    BY Moves
  <1>n. pc["main"] # "idle" => pc["job"] = "none" /\ job.op = "none"
    BY DEF TypeInv, JobInv, JobPlace, TxInv
  <1>e. pc["main"] # "idle" => \A t \in Tasks : Exact(saved, t)
    BY <1>n
  <1>u. used'.jobs = used.jobs
    BY MainUsed DEF fault, TypeInv, UsedInv
  <1>b. PICK b \in Nat : /\ b = used.captures /\ db \in DbUpTo(b) /\ count \in Nat /\ (pc["main"] \in CommitPcs => cap.task \in Tasks)
    BY DEF TypeInv, UsedInv, DbInv, CtlInv, MainPlace, CaptureOK
  <1>t. /\ ~in_tx => db = saved
        /\ pc["main"] \in TxPcs => in_tx
    BY DEF TxInv
  <1>1. CASE db_begin
    <2>1. pc["main"] # "idle" /\ cap.task \in Tasks /\ UNCHANGED <<cap, job>>
      BY <1>1, <1>b DEF db_begin, CommitPcs, RollbackPcs
    <2>2. db_write(with_status(db, cap.task, "failed"))
             => in_tx' = in_tx /\ \A t \in Tasks : Exact(saved', t)
      BY <1>b, <1>e, <1>t, <2>1, StatusExact DEF db_write
    <2>3. \/ in_tx' = TRUE /\ ~in_tx /\ UNCHANGED <<db, saved>> /\ goto("main", "exists")
          \/ /\ finish("failed")
             /\ db_write(with_status(db, cap.task, "failed")) \/ UNCHANGED dbv
      BY <1>1 DEF db_begin
    <2>4. CASE in_tx' = TRUE /\ ~in_tx /\ UNCHANGED <<db, saved>> /\ goto("main", "exists")
      BY <1>1, <2>1, <2>4, <1>m, <1>n, <1>e, <1>u, <1>t DEF db_begin
    <2>5. CASE /\ finish("failed")
               /\ db_write(with_status(db, cap.task, "failed")) \/ UNCHANGED dbv
      <3>1. pc'["main"] \in {"exit", "idle"} /\ pc'["job"] = pc["job"]
        BY <2>5, <1>m
      <3>2. in_tx' = in_tx /\ \A t \in Tasks : Exact(saved', t)
        BY <2>5, <2>2, <1>e, <2>1
      <3> QED BY <2>1, <3>1, <3>2, <1>n, <1>u
    <2> QED BY <2>3, <2>4, <2>5
  <1>2. CASE record_exists
    BY <1>2, <1>m, <1>n, <1>e, <1>u, <1>t DEF record_exists
  <1>3. CASE metadata_read_item
    BY <1>3, <1>m, <1>n, <1>e, <1>u, <1>t DEF metadata_read_item
  <1>4. CASE metadata_truncate_item
    BY <1>4, <1>m, <1>n, <1>e, <1>u, <1>t DEF metadata_truncate_item
  <1>5. CASE metadata_fill_item
    BY <1>5, <1>m, <1>n, <1>e, <1>u, <1>t DEF metadata_fill_item
  <1>6. CASE record_insert
    <2> DEFINE d == [db EXCEPT !.recs = @ \cup {ItemRecord(ItemAt(k["main"]))}]
    <2>1. /\ pc["main"] = "insert" /\ cap.task \in Tasks /\ UNCHANGED <<cap, job>>
          /\ \/ db_write(d) /\ pc'["main"] \in {"insert", "count"} /\ pc'["job"] = pc["job"]
             \/ UNCHANGED dbv /\ fail_with("db_insert_failed", NumItems)
      BY <1>6, <1>b, <1>m DEF record_insert, CommitPcs
    <2>2. CASE UNCHANGED dbv /\ fail_with("db_insert_failed", NumItems)
      BY <2>1, <2>2, <1>m, <1>n, <1>e, <1>u
    <2>3. CASE db_write(d) /\ pc'["main"] \in {"insert", "count"} /\ pc'["job"] = pc["job"]
      <3>1. /\ d.recs = db.recs \cup {ItemRecord(ItemAt(k["main"]))}
            /\ d.status = db.status /\ d.total = db.total
        BY <1>b DEF DbUpTo
      <3> HIDE DEF d
      <3>2. db' = d /\ saved' = saved /\ in_tx' = in_tx
        BY <2>1, <2>3, <1>t DEF db_write
      <3>3. ItemRecord(ItemAt(k["main"])).task = cap.task
        BY DEF ItemRecord
      <3>4. ASSUME NEW t \in Tasks \ {cap.task} PROVE Exact(d, t)
        <4>1. FilesOf(d, t) = FilesOf(db, t)
          BY <3>1, <3>3 DEF FilesOf
        <4>2. Exact(db, t)
          BY <2>1
        <4> QED BY <3>1, <4>1, <4>2 DEF Exact
      <3> QED BY <2>1, <2>3, <3>1, <3>2, <3>4, <1>n, <1>e, <1>u
    <2> QED BY <2>1, <2>2, <2>3
  <1>7. CASE record_count
    <2>1. /\ pc["main"] = "count" /\ count' = Cardinality(FilesOf(db, cap.task))
          /\ goto("main", "total") /\ UNCHANGED <<dbv, cap, job>>
      BY <1>7 DEF record_count, file_count, silent_fault, CountsKnown
    <2> QED BY <2>1, <1>m, <1>n, <1>e, <1>u, <1>t
  <1>8. CASE task_update
    <2> DEFINE n == IF db.status[cap.task] = "absent" THEN db.total[cap.task] ELSE count
              c == [db EXCEPT !.total[cap.task] = n]
              d == with_status(c, cap.task, "completed")
    <2>1. /\ pc["main"] = "total" /\ cap.task \in Tasks /\ UNCHANGED <<cap, job>>
          /\ \/ db_write(d) /\ goto("main", "commit")
             \/ UNCHANGED dbv /\ fail_with("task_update_failed", NumItems)
      BY <1>8, <1>b DEF task_update, CommitPcs
    <2>2. CASE UNCHANGED dbv /\ fail_with("task_update_failed", NumItems)
      BY <2>1, <2>2, <1>m, <1>n, <1>e, <1>u
    <2>3. CASE db_write(d) /\ goto("main", "commit")
      <3>1. n \in Nat
        BY <1>b, <2>1 DEF DbUpTo
      <3>2. /\ c.recs = db.recs /\ c.status = db.status
            /\ c.total = [db.total EXCEPT ![cap.task] = n] /\ c \in DbUpTo(b)
        <4> HIDE DEF n
        <4> QED BY <1>b, <2>1, <3>1 DEF DbUpTo
      <3> HIDE DEF c
      <3>3. /\ d.recs = db.recs /\ d.total = c.total
            /\ \A t \in Tasks \ {cap.task} : d.status[t] = db.status[t]
            /\ db.status[cap.task] = "absent" => d.status[cap.task] = "absent"
        BY <2>1, <3>2 DEF with_status, DbUpTo
      <3> HIDE DEF d
      <3>4. \A t : FilesOf(d, t) = FilesOf(db, t)
        BY <3>3 DEF FilesOf
      <3>5. ASSUME NEW t \in Tasks \ {cap.task} PROVE Exact(d, t)
        <4>1. d.total[t] = db.total[t]
          BY <1>b, <3>2, <3>3 DEF DbUpTo
        <4>2. Exact(db, t)
          BY <2>1
        <4> QED BY <3>3, <3>4, <4>1, <4>2 DEF Exact
      <3>6. Exact(d, cap.task)
        <4>1. db.status[cap.task] # "absent" => d.total[cap.task] = count
          BY <1>b, <2>1, <3>2, <3>3 DEF DbUpTo
        <4> QED BY <2>1, <3>3, <3>4, <4>1 DEF Exact
      <3>7. db' = d /\ saved' = saved /\ in_tx' = in_tx
        BY <2>1, <2>3, <1>t DEF db_write
      <3> QED BY <2>1, <2>3, <3>5, <3>6, <3>7, <1>m, <1>n, <1>e, <1>u
    <2> QED BY <2>1, <2>2, <2>3
  <1>9. CASE db_commit
    <2>1. /\ pc["main"] = "commit" /\ UNCHANGED <<cap, job>> /\ \A t \in Tasks : Exact(db, t)
          /\ \/ saved' = db /\ in_tx' = FALSE /\ goto("main", "sync_check")
             \/ UNCHANGED dbv /\ fail_with("db_commit_failed", NumItems)
      BY <1>9 DEF db_commit
    <2>2. CASE saved' = db /\ in_tx' = FALSE /\ goto("main", "sync_check")
      BY <2>1, <2>2, <1>m, <1>n, <1>u
    <2>3. CASE UNCHANGED dbv /\ fail_with("db_commit_failed", NumItems)
      BY <2>1, <2>3, <1>m, <1>n, <1>e, <1>u
    <2> QED BY <2>1, <2>2, <2>3
  <1>10. CASE db_rollback
    BY <1>10, <1>m, <1>n, <1>e, <1>u, <1>t DEF db_rollback
  <1>11. CASE metadata_rollback_open
    BY <1>11, <1>m, <1>n, <1>e, <1>u, <1>t DEF metadata_rollback_open
  <1>12. CASE metadata_rollback_write
    BY <1>12, <1>m, <1>n, <1>e, <1>u, <1>t DEF metadata_rollback_write
  <1>13. CASE rollback_status
    <2>1. pc["main"] # "idle" /\ cap.task \in Tasks /\ UNCHANGED <<cap, job>>
      BY <1>13, <1>b DEF rollback_status, CommitPcs, RollbackPcs
    <2>2. db_write(with_status(db, cap.task, "failed"))
             => in_tx' = in_tx /\ \A t \in Tasks : Exact(saved', t)
      BY <1>b, <1>e, <1>t, <2>1, StatusExact DEF db_write
    <2> QED BY <1>13, <1>m, <1>n, <1>e, <1>u, <1>t, <2>1, <2>2 DEF rollback_status
  <1>14. CASE mark_pending
    BY <1>14, <1>m, <1>n, <1>e, <1>u, <1>t DEF mark_pending
  <1>15. CASE mark_complete
    BY <1>15, <1>m, <1>n, <1>e, <1>u, <1>t DEF mark_complete
  <1>16. CASE sync_check("main")
    BY <1>16, <1>m, <1>n, <1>e, <1>u, <1>t DEF sync_check, after_sync
  <1>17. CASE sync_backup("main")
    BY <1>17, <1>m, <1>n, <1>e, <1>u, <1>t DEF sync_backup, after_sync
  <1>18. CASE sync_meta("main")
    BY <1>18, <1>m, <1>n, <1>e, <1>u, <1>t DEF sync_meta, after_sync
  <1>19. CASE sync_rename("main")
    BY <1>19, <1>m, <1>n, <1>e, <1>u, <1>t DEF sync_rename, after_sync
  <1>20. CASE outbox_retry
    BY <1>20, <1>m, <1>n, <1>e, <1>u, <1>t DEF outbox_retry
  <1>21. CASE outbox_unmark
    BY <1>21, <1>m, <1>n, <1>e, <1>u, <1>t DEF outbox_unmark
  <1>22. CASE workers_exit
    BY <1>22, <1>m, <1>n, <1>e, <1>u, <1>t DEF workers_exit
  <1>23. CASE service_maintenance_job
    BY <1>23, <1>m, <1>n, <1>e, <1>u, <1>t DEF service_maintenance_job, NoJob
  <1>24. CASE capture_failed
    <2>1. pc["main"] # "idle" /\ cap.task \in Tasks /\ UNCHANGED <<cap, job>>
      BY <1>24, <1>b DEF capture_failed, CommitPcs, RollbackPcs
    <2>2. db_write(with_status(db, cap.task, "failed"))
             => in_tx' = in_tx /\ \A t \in Tasks : Exact(saved', t)
      BY <1>b, <1>e, <1>t, <2>1, StatusExact DEF db_write
    <2> QED BY <1>24, <1>m, <1>n, <1>e, <1>u, <1>t, <2>1, <2>2 DEF capture_failed
  <1>25. ASSUME NEW e \in BOOLEAN, capture_succeeded(e) PROVE TotalInv'
    BY <1>25, <1>m, <1>n, <1>e, <1>u, <1>t DEF capture_succeeded
  <1> QED BY <1>1, <1>2, <1>3, <1>4, <1>5, <1>6, <1>7, <1>8, <1>9, <1>10, <1>11, <1>12, <1>13, <1>14, <1>15, <1>16, <1>17, <1>18, <1>19, <1>20, <1>21, <1>22, <1>23, <1>24, <1>25 DEF StepsOfMain, commit_step, sync_step

\* The maintenance thread, none of whose calls fails.
LEMMA JobTotal ==
  ASSUME JobsUndisturbed, TypeInv, TxInv, TotalInv, job_step
  PROVE  TotalInv'
  <1> USE DEF TotalInv, dbv, filev, capv, fopen_wb, fwrite_table, acknowledge, metadata_error, purge_next, TxPcs, PurgePcs
  <1>m. /\ \A l : goto("job", l) => pc'["job"] = l /\ pc'["main"] = pc["main"]
        /\ \A l, n : start_loop("job", l, n) => pc'["job"] = l /\ pc'["main"] = pc["main"]
    BY Moves
  <1>n. pc["job"] # "none" => pc["main"] = "idle" /\ job.op # "none"
    BY DEF TypeInv, JobInv, JobPlace, TxInv
  <1>f. job.op # "none" => ~fault("job")
    BY CatalogAssumption DEF fault, JobsUndisturbed, TypeInv, UsedInv
  <1>u. used'.jobs = used.jobs
    BY JobUsed DEF fault, TypeInv, UsedInv
  <1>k. job = [op |-> job.op, task |-> job.task, idx |-> job.idx, rec |-> job.rec, ack |-> job.ack]
    BY DEF TypeInv, JobInv, JobPlace
  <1>b. PICK b \in Nat : b = used.captures /\ db \in DbUpTo(b)
    BY DEF TypeInv, UsedInv, DbInv
  <1>t. ~in_tx => db = saved
    BY DEF TxInv
  <1>1. CASE sync_check("job")
    BY <1>1, <1>m, <1>n, <1>f, <1>u, <1>k DEF sync_check, after_sync
  <1>2. CASE sync_backup("job")
    BY <1>2, <1>m, <1>n, <1>f, <1>u, <1>k DEF sync_backup, after_sync
  <1>3. CASE sync_meta("job")
    BY <1>3, <1>m, <1>n, <1>f, <1>u, <1>k DEF sync_meta, after_sync
  <1>4. CASE sync_rename("job")
    BY <1>4, <1>m, <1>n, <1>f, <1>u, <1>k DEF sync_rename, after_sync
  <1>5. CASE job_check
    BY <1>5, <1>m, <1>n, <1>f, <1>u, <1>k DEF job_check
  <1>6. CASE clear_open
    BY <1>6, <1>m, <1>n, <1>f, <1>u, <1>k DEF clear_open
  <1>7. CASE clear_fill
    BY <1>7, <1>m, <1>n, <1>f, <1>u, <1>k DEF clear_fill
  <1>8. CASE file_clear_all
    <2>1. \A t \in Tasks : Exact(EmptyDb, t)
      BY DEF Exact, EmptyDb
    <2>2. /\ pc["job"] = "clear_db" /\ pc'["job"] = "done" /\ pc'["main"] = "idle" /\ in_tx' = in_tx
          /\ UNCHANGED <<cap>> /\ job'.op = job.op
          /\ saved' \in {saved, EmptyDb}
      BY <1>8, <1>m, <1>n, <1>k DEF file_clear_all, db_write
    <2> QED BY <2>1, <2>2, <1>u
  <1>9. CASE delete_read
    BY <1>9, <1>m, <1>n, <1>f, <1>u, <1>k DEF delete_read
  <1>10. CASE delete_open
    BY <1>10, <1>m, <1>n, <1>f, <1>u, <1>k DEF delete_open
  <1>11. CASE delete_fill
    BY <1>11, <1>m, <1>n, <1>f, <1>u, <1>k DEF delete_fill
  <1>12. CASE file_delete
    <2>1. /\ pc["job"] = "delete_db" /\ pc'["main"] = "idle" /\ pc'["job"] = "delete_count"
          /\ UNCHANGED <<job, cap>> /\ db_write([db EXCEPT !.recs = @ \ {job.rec}])
          /\ job.rec.task = job.task
      BY <1>12, <1>m, <1>n, <1>f DEF file_delete, TypeInv, JobInv, JobPlace, DeletePcs
    <2> DEFINE d == [db EXCEPT !.recs = @ \ {job.rec}]
    <2>2. d.recs = db.recs \ {job.rec} /\ d.status = db.status /\ d.total = db.total
      BY <1>b DEF DbUpTo
    <2>3. db_write(d)
      BY <2>1
    <2> HIDE DEF d
    <2>4. in_tx' = in_tx /\ saved' = (IF in_tx THEN saved ELSE d)
      BY <2>3 DEF db_write
    <2>5. ASSUME NEW t \in Tasks, t # job.task, Exact(db, t) PROVE Exact(d, t)
      <3>1. FilesOf(d, t) = FilesOf(db, t)
        BY <2>1, <2>2, <2>5 DEF FilesOf
      <3> QED BY <2>2, <2>5, <3>1 DEF Exact
    <2> QED BY <2>1, <2>4, <2>5, <1>t, <1>u
  <1>13. CASE delete_count
    <2> DEFINE n == Cardinality(FilesOf(db, job.task))
              d == [db EXCEPT !.total[job.task] = n]
    <2>1. /\ pc["job"] = "delete_count" /\ pc'["main"] = "idle" /\ UNCHANGED cap
          /\ job'.op = job.op /\ job'.task = job.task
          /\ \/ UNCHANGED dbv /\ pc'["job"] = "purge_read"
             \/ db_write(d) /\ pc'["job"] = "done"
      BY <1>13, <1>m, <1>n, <1>f, <1>k DEF delete_count
    <2>2. CASE UNCHANGED dbv /\ pc'["job"] = "purge_read"
      BY <2>1, <2>2, <1>u
    <2>3. CASE db_write(d) /\ pc'["job"] = "done"
      <3>1. job.task \in Tasks
        BY <2>1 DEF TypeInv, JobInv, JobPlace
      <3>2. /\ d.recs = db.recs /\ d.status = db.status
            /\ \A t \in Tasks : d.total[t] = IF t = job.task THEN n ELSE db.total[t]
        <4> HIDE DEF n
        <4> QED BY <1>b, <3>1 DEF DbUpTo
      <3> HIDE DEF d
      <3>3. \A t \in Tasks : FilesOf(d, t) = FilesOf(db, t)
        BY <3>2 DEF FilesOf
      <3>4. in_tx' = in_tx /\ saved' = (IF in_tx THEN saved ELSE d)
        BY <2>3 DEF db_write
      <3>5. ASSUME NEW t \in Tasks, t # job.task, Exact(db, t) PROVE Exact(d, t)
        BY <3>2, <3>3, <3>5 DEF Exact
      <3>6. Exact(d, job.task)
        BY <3>1, <3>2, <3>3 DEF Exact
      <3> QED BY <2>1, <2>3, <3>4, <3>5, <3>6, <1>t, <1>u
    <2> QED BY <2>1, <2>2, <2>3
  <1>14. CASE purge_read
    BY <1>14, <1>m, <1>n, <1>f, <1>u, <1>k DEF purge_read
  <1>15. CASE purge_open
    BY <1>15, <1>m, <1>n, <1>f, <1>u, <1>k DEF purge_open
  <1>16. CASE purge_fill
    BY <1>16, <1>m, <1>n, <1>f, <1>u, <1>k DEF purge_fill
  <1>17. CASE purge_task
    <2> DEFINE d == task_deleted(db, job.task)
    <2>1. /\ pc["job"] = "purge_task" /\ pc'["main"] = "idle" /\ UNCHANGED cap
          /\ job'.op = job.op /\ job'.task = job.task
          /\ db_write(d) /\ pc'["job"] = "done"
      BY <1>17, <1>m, <1>n, <1>f, <1>k DEF purge_task
    <2>2. job.task \in Tasks
      BY <2>1 DEF TypeInv, JobInv, JobPlace
    <2>3. /\ d.recs = db.recs \ FilesOf(db, job.task) /\ d.status[job.task] = "absent"
          /\ \A t \in Tasks \ {job.task} : d.status[t] = db.status[t] /\ d.total[t] = db.total[t]
      BY <1>b, <2>2 DEF task_deleted, DbUpTo
    <2> HIDE DEF d
    <2>4. in_tx' = in_tx /\ saved' = (IF in_tx THEN saved ELSE d)
      BY <2>1 DEF db_write
    <2>5. ASSUME NEW t \in Tasks, t # job.task, Exact(db, t) PROVE Exact(d, t)
      <3>1. FilesOf(d, t) = FilesOf(db, t)
        BY <2>3, <2>5 DEF FilesOf
      <3> QED BY <2>3, <2>5, <3>1 DEF Exact
    <2>6. Exact(d, job.task)
      BY <2>3 DEF Exact
    <2> QED BY <2>1, <2>4, <2>5, <2>6, <1>t, <1>u
  <1> QED BY <1>1, <1>2, <1>3, <1>4, <1>5, <1>6, <1>7, <1>8, <1>9, <1>10, <1>11, <1>12, <1>13, <1>14, <1>15, <1>16, <1>17 DEF job_step, sync_step

LEMMA TaskInfoTotal ==
  ASSUME CountsKnown, TypeInv, TxInv, TotalInv, NEW t \in Tasks, NEW plan \in Plans,
         NEW missed \in SUBSET Lapses, task_info(t, plan, missed)
  PROVE  TotalInv'
  <1>1. PICK b \in Nat : /\ b = used.captures /\ db \in DbUpTo(b)
                        /\ meta \in [Channels -> TablesUpTo(b)]
    BY DEF TypeInv, UsedInv, DbInv, TabInv
  <1>2. cap'.task = t
    BY <1>1, NewCapture
  <1> DEFINE d == [DbFor(t, missed) EXCEPT !.status[t] = "running"]
  <1>3. goto("main", "capturing") /\ job' = job /\ job.op = "none"
    BY DEF task_info
  <1>4. /\ db' = d /\ in_tx' = in_tx /\ db'.recs = db.recs
        /\ in_tx => saved' = saved
        /\ ~in_tx => saved' = db'
    BY <1>1, TaskInfoDb DEF db_write
  <1>5. /\ db'.status[t] = "running"
        /\ \A u \in Tasks \ {t} : db'.status[u] = db.status[u] /\ db'.total[u] = db.total[u]
    <2>1. \A u \in Tasks \ {t} : DbFor(t, missed).status[u] = db.status[u]
                                 /\ DbFor(t, missed).total[u] = db.total[u]
      BY <1>1 DEF DbFor, task_deleted, DbUpTo
    <2>2. DbFor(t, missed) \in DbUpTo(b)
      BY <1>1, TaskInfoDb
    <2> QED BY <1>4, <2>1, <2>2 DEF DbUpTo
  <1> HIDE DEF d
  <1>6. ASSUME NEW u \in Tasks, Exact(db, u) PROVE Exact(db', u)
    <2>1. FilesOf(db', u) = FilesOf(db, u)
      BY <1>4 DEF FilesOf
    <2> QED BY <1>5, <1>6, <2>1 DEF Exact
  <1>7. ~in_tx => db = saved
    BY DEF TxInv
  <1>8. pc'["main"] = "capturing" /\ pc["job"] = "none" /\ pc'["job"] = "none"
    BY <1>3, Moves DEF TypeInv, JobInv, JobPlace
  <1>9. \A u \in Tasks : Exact(saved', u)
    BY <1>4, <1>6, <1>7, <1>8 DEF TotalInv, PurgePcs
  <1> QED BY <1>2, <1>3, <1>5, <1>8, <1>9 DEF TotalInv, TxPcs, PurgePcs

LEMMA StartTotal ==
  ASSUME TypeInv, TxInv, TotalInv, StartsOfJob
  PROVE  TotalInv'
  <1>1. PICK op, t, i : start_maintenance_job(op, t, i)
    BY DEF StartsOfJob
  <1>2. /\ UNCHANGED <<dbv, capv>> /\ used'.jobs = used.jobs + 1 /\ job.op = "none"
    BY <1>1 DEF start_maintenance_job, TypeInv, UsedInv
  <1>3. pc'["main"] = pc["main"] /\ pc["job"] = "none" /\ pc'["job"] \in {"sync_check", "check"}
    BY <1>1, <1>2, Moves DEF start_maintenance_job, TypeInv, JobInv, JobPlace
  <1>4. used'.jobs > 0
    BY <1>2 DEF TypeInv, UsedInv
  <1> QED BY <1>2, <1>3, <1>4 DEF TotalInv, dbv, capv, PurgePcs

\* A death leaves the durable totals alone; with a job under way there is none.
LEMMA CrashTotal ==
  ASSUME JobsUndisturbed, TypeInv, TotalInv, crash
  PROVE  TotalInv'
  <1>1. MaxJobs = 0
    BY CatalogAssumption DEF crash, JobsUndisturbed, TypeInv, UsedInv
  <1>2. job.op = "none" /\ pc["job"] = "none"
    BY <1>1, CatalogAssumption DEF TotalInv, TypeInv, UsedInv, JobInv, JobPlace
  <1>3. pc'["main"] = "down" /\ pc'["job"] = "none" /\ job' = NoJob /\ saved' = saved
    BY DEF crash, Threads
  <1> QED BY <1>2, <1>3 DEF TotalInv, NoJob, TxPcs, PurgePcs

LEMMA NextTotal ==
  JobsUndisturbed /\ CountsKnown /\ TypeInv /\ TxInv /\ TotalInv /\ [Next]_vars => TotalInv'
  <1> SUFFICES ASSUME JobsUndisturbed, CountsKnown, TypeInv, TxInv, TotalInv, [Next]_vars
               PROVE  TotalInv'
    OBVIOUS
  <1>1. CASE UNCHANGED vars
    BY <1>1 DEF vars, TotalInv
  <1>2. CASE Next
    BY <1>2, Steps, MainTotal, JobTotal, TaskInfoTotal, StartTotal, CrashTotal DEF StartsCapture
  <1> QED BY <1>1, <1>2

\* Between commands total_files of a completed task is the number of its files, however
\* the calls of the commits fail, provided that a count that fails is not taken for zero
\* and that deletions run to their end: a death or a failing call between the deletion of
\* a file and the update of the total leaves it stale.
THEOREM TotalsStayExact == ASSUME JobsUndisturbed, CountsKnown PROVE Spec => []TotalsExact
  <1>1. OneAtATime
    BY DEF JobsUndisturbed, OneAtATime
  <1>2. Init => TotalInv
    BY InitTotal
  <1>3. TypeInv /\ TxInv /\ TotalInv /\ [Next]_vars => TotalInv'
    BY NextTotal
  <1>4. TotalInv => TotalsExact
    BY DEF TotalInv, TotalsExact, Settled, Exact, PurgePcs
  <1> QED BY <1>1, <1>2, <1>3, <1>4, TransactionsIsolated, PTL DEF Spec

-----------------------------------------------------------------------------
(* The list and the tables.                                                *)

LEMMA NilIsNoEntry ==
  ASSUME NEW b \in Nat
  PROVE  Nil \notin Entries(b) /\ Nil \notin TablesUpTo(b)
  <1> DEFINE E == [task : Tasks, idx : Nat, lba : Nat]
  <1>1. Nil \notin E /\ Nil \notin [Slots -> E \cup {Nil}]
    BY NilAssumption
  <1>2. b * NumChannels \in Nat
    BY LargerBound
  <1>3. Entries(b) \subseteq E
    BY <1>2 DEF Entries
  <1>4. TablesUpTo(b) \subseteq [Slots -> E \cup {Nil}]
    BY <1>3 DEF TablesUpTo
  <1> QED BY <1>1, <1>3, <1>4

LEMMA EmptyAgrees ==
  ASSUME NEW tables, \A c \in Channels : tables[c] = EmptyTable
  PROVE  Agree({}, tables)
  BY DEF Agree, Listed, Backed, Once, Distinct, EmptyTable

\* A table that agrees with the list has no entry of a task without files, and its
\* entries are numbered and placed as the listed files are.
LEMMA AgreedTables ==
  ASSUME NEW recs, NEW tables, Agree(recs, tables), NEW c \in Channels, NEW s \in Slots,
         tables[c][s] # Nil
  PROVE  \E r \in recs : /\ r.ch = c /\ r.task = tables[c][s].task
                         /\ r.idx = tables[c][s].idx /\ r.lba = tables[c][s].lba
  <1>1. FileOf(c, tables[c][s]) \in recs
    BY DEF Agree, Backed
  <1> WITNESS FileOf(c, tables[c][s]) \in recs
  <1> QED BY DEF FileOf

LEMMA NoEntries ==
  ASSUME NEW recs, NEW tables, Agree(recs, tables), NEW t, \A r \in recs : r.task # t,
         NEW c \in Channels
  PROVE  OfTask(tables[c], t) = {}
  BY AgreedTables DEF OfTask, Valid

\* What makes a new set of files fit: slots, sectors and names are free.
Admissible(c, recs) ==
    /\ \A x \in ItemsOf(c) : x.slot \in Slots /\ c.before[x.ch][x.slot] = Nil
    /\ \A x \in ItemsOf(c), r \in recs : r.ch = x.ch => r.lba < x.lba
    /\ \A x \in ItemsOf(c), r \in recs : r.task = c.task => r.idx < x.idx
    /\ \A x, y \in ItemsOf(c) : x.idx = y.idx \/ x.ch = y.ch => x = y

LEMMA DistinctMore ==
  ASSUME NEW b \in Nat, NEW c, CaptureOK(c, b), NEW recs \in SUBSET Files(b),
         Distinct(recs), Admissible(c, recs)
  PROVE  Distinct(recs \cup BatchOf(c))
  <1>1. b * NumChannels \in Nat
    BY LargerBound
  <1>2. ItemsOf(c) \subseteq Item(b)
    BY ItemCount
  <1>3. \A x \in ItemsOf(c) : x.idx \in Nat /\ x.lba \in Nat
    BY <1>1, <1>2 DEF Item
  <1>4. \A x \in ItemsOf(c) : /\ RecordOf(c, x).task = c.task /\ RecordOf(c, x).idx = x.idx
                              /\ RecordOf(c, x).ch = x.ch /\ RecordOf(c, x).lba = x.lba
    BY DEF RecordOf
  <1>5. ASSUME NEW r \in recs, NEW x \in ItemsOf(c)
        PROVE  /\ ~(r.task = c.task /\ r.idx = x.idx) /\ ~(r.ch = x.ch /\ r.lba = x.lba)
    <2>1. r.task = c.task => r.idx < x.idx
      BY DEF Admissible
    <2>2. r.ch = x.ch => r.lba < x.lba
      BY DEF Admissible
    <2> QED BY <1>3, <2>1, <2>2
  <1>6. \A x, y \in ItemsOf(c) : x.idx = y.idx \/ x.ch = y.ch => x = y
    BY DEF Admissible
  <1>7. SUFFICES ASSUME NEW r \in recs \cup BatchOf(c), NEW q \in recs \cup BatchOf(c),
                        (r.task = q.task /\ r.idx = q.idx) \/ (r.ch = q.ch /\ r.lba = q.lba)
                 PROVE  r = q
    BY DEF Distinct
  <1>8. CASE r \in recs /\ q \in recs
    BY <1>7, <1>8 DEF Distinct
  <1>9. CASE r \in BatchOf(c) /\ q \in BatchOf(c)
    <2>1. PICK x \in ItemsOf(c) : r = RecordOf(c, x)
      BY <1>9 DEF BatchOf
    <2>2. PICK y \in ItemsOf(c) : q = RecordOf(c, y)
      BY <1>9 DEF BatchOf
    <2> QED BY <1>4, <1>6, <1>7, <2>1, <2>2
  <1>10. CASE r \in recs /\ q \in BatchOf(c)
    <2>1. PICK y \in ItemsOf(c) : q = RecordOf(c, y)
      BY <1>10 DEF BatchOf
    <2> QED BY <1>4, <1>5, <1>7, <1>10, <2>1
  <1>11. CASE r \in BatchOf(c) /\ q \in recs
    <2>1. PICK x \in ItemsOf(c) : r = RecordOf(c, x)
      BY <1>11 DEF BatchOf
    <2> QED BY <1>4, <1>5, <1>7, <1>11, <2>1
  <1> QED BY <1>8, <1>9, <1>10, <1>11

\* With every entry of the capture written, the tables agree with the list that has it.
LEMMA AgreeInsert ==
  ASSUME NEW b \in Nat, NEW c, CaptureOK(c, b), NEW recs \in SUBSET Files(b),
         Agree(recs, c.before), Admissible(c, recs), NEW tables,
         \A d \in Channels : (\A x \in ItemsOf(c) : x.ch # d) => tables[d] = c.before[d],
         \A x \in ItemsOf(c) :
            /\ tables[x.ch][x.slot] = EntryOf(c, x)
            /\ \A s \in Slots \ {x.slot} : tables[x.ch][s] = c.before[x.ch][s]
  PROVE  Agree(recs \cup BatchOf(c), tables)
  <1>1. b * NumChannels \in Nat
    BY LargerBound
  <1>2. ItemsOf(c) \subseteq Item(b) /\ c.task \in Tasks
    BY ItemCount DEF CaptureOK
  <1>3. \A x \in ItemsOf(c) : x.ch \in Channels /\ x.slot \in Slots /\ c.before[x.ch][x.slot] = Nil
    BY <1>2 DEF Item, Admissible
  <1>4. ASSUME NEW x \in ItemsOf(c)
        PROVE  /\ EntryOf(c, x) # Nil /\ EntryFor(RecordOf(c, x)) = EntryOf(c, x)
               /\ FileOf(x.ch, EntryOf(c, x)) = RecordOf(c, x) /\ RecordOf(c, x).ch = x.ch
               /\ RecordOf(c, x) \in BatchOf(c)
    <2>1. EntryOf(c, x) \in Entries(b)
      BY <1>1, <1>2 DEF Item, EntryOf, Entries
    <2> QED BY <2>1, NilIsNoEntry DEF EntryFor, EntryOf, RecordOf, FileOf, BatchOf
  \* Elsewhere the tables are as they were.
  <1>5. \A d \in Channels, s \in Slots : \/ tables[d][s] = c.before[d][s]
                                         \/ \E x \in ItemsOf(c) : x.ch = d /\ x.slot = s
    OBVIOUS
  <1>6. Listed(recs \cup BatchOf(c), tables)
    <2>1. ASSUME NEW r \in recs PROVE \E s \in Slots : tables[r.ch][s] = EntryFor(r)
      <3>1. PICK s \in Slots : c.before[r.ch][s] = EntryFor(r)
        BY DEF Agree, Listed
      <3>2. r.ch \in Channels /\ EntryFor(r) \in Entries(b)
        BY <1>1 DEF Files, EntryFor, Entries
      <3>3. c.before[r.ch][s] # Nil
        BY <3>1, <3>2, NilIsNoEntry
      <3>4. tables[r.ch][s] = c.before[r.ch][s]
        BY <3>2, <3>3, <1>3, <1>5
      <3> QED BY <3>1, <3>4
    <2>2. ASSUME NEW r \in BatchOf(c) PROVE \E s \in Slots : tables[r.ch][s] = EntryFor(r)
      <3>1. PICK x \in ItemsOf(c) : r = RecordOf(c, x)
        BY DEF BatchOf
      <3>2. tables[r.ch][x.slot] = EntryFor(r)
        BY <3>1, <1>4
      <3> QED BY <3>1, <3>2, <1>3
    <2> QED BY <2>1, <2>2 DEF Listed
  <1>7. Backed(recs \cup BatchOf(c), tables)
    <2>1. SUFFICES ASSUME NEW d \in Channels, NEW s \in Slots, tables[d][s] # Nil
                   PROVE  FileOf(d, tables[d][s]) \in recs \cup BatchOf(c)
      BY DEF Backed
    <2>2. CASE tables[d][s] = c.before[d][s]
      BY <2>1, <2>2 DEF Agree, Backed
    <2>3. CASE \E x \in ItemsOf(c) : x.ch = d /\ x.slot = s
      BY <2>3, <1>4
    <2> QED BY <2>2, <2>3, <1>5
  <1>8. Once(tables)
    <2>1. SUFFICES ASSUME NEW d \in Channels, NEW s \in Slots, NEW q \in Slots,
                          tables[d][s] # Nil, tables[d][s] = tables[d][q]
                   PROVE  s = q
      BY DEF Once
    <2>2. CASE tables[d][s] = c.before[d][s] /\ tables[d][q] = c.before[d][q]
      BY <2>1, <2>2 DEF Agree, Once
    <2>3. ASSUME NEW x \in ItemsOf(c), x.ch = d, NEW o \in Slots, tables[d][o] = EntryOf(c, x),
                 tables[d][o] = c.before[d][o]
          PROVE  FALSE
      <3>1. PICK r \in recs : r.ch = d /\ r.lba = EntryOf(c, x).lba
        <4>1. c.before[d][o] # Nil /\ c.before[d][o] = EntryOf(c, x)
          BY <2>3, <1>4
        <4>2. FileOf(d, c.before[d][o]) \in recs
          BY <4>1 DEF Agree, Backed
        <4> QED BY <4>1, <4>2 DEF FileOf
      <3>2. r.lba < x.lba /\ EntryOf(c, x).lba = x.lba /\ x.lba \in Nat
        BY <2>3, <3>1, <1>2 DEF Admissible, EntryOf, Item
      <3> QED BY <3>1, <3>2
    <2>4. ASSUME NEW x \in ItemsOf(c), x.ch = d, x.slot = s, s # q PROVE FALSE
      BY <2>1, <2>3, <2>4
    <2>5. ASSUME NEW x \in ItemsOf(c), x.ch = d, x.slot = q, s # q PROVE FALSE
      BY <2>1, <2>3, <2>5
    <2> QED BY <2>2, <2>4, <2>5, <1>5
  <1>9. Distinct(recs \cup BatchOf(c))
    BY DistinctMore DEF Agree
  <1> QED BY <1>6, <1>7, <1>8, <1>9 DEF Agree

\* metadata_delete_file takes out the entry of the file and no other.
LEMMA AgreeDelete ==
  ASSUME NEW b \in Nat, NEW recs \in SUBSET Files(b), NEW tables \in [Channels -> TablesUpTo(b)],
         Agree(recs, tables), NEW r \in recs
  PROVE  /\ FileSlots(tables[r.ch], r.task, r.idx) # {}
         /\ Agree(recs \ {r},
                  [tables EXCEPT ![r.ch] = without_file(tables[r.ch], r.task, r.idx)])
  <1> DEFINE table == tables[r.ch]
            S == FileSlots(table, r.task, r.idx)
            m == Min(S)
            new == [tables EXCEPT ![r.ch] = without_file(table, r.task, r.idx)]
  <1>1. /\ r.ch \in Channels /\ table \in TablesUpTo(b) /\ DOMAIN table = Slots
        /\ EntryFor(r).task = r.task /\ EntryFor(r).idx = r.idx /\ EntryFor(r).lba = r.lba
        /\ EntryFor(r) \in Entries(b) /\ FileOf(r.ch, EntryFor(r)) = r
    BY LargerBound DEF Files, TablesUpTo, EntryFor, FileOf, Entries
  <1>2. PICK s \in Slots : table[s] = EntryFor(r)
    BY DEF Agree, Listed
  <1>3. S # {} /\ S \subseteq Slots
    BY <1>1, <1>2, NilIsNoEntry DEF FileSlots, OfTask, Valid
  <1>4. m \in S
    BY <1>3, MinOf DEF Slots
  <1>5. table[m] # Nil /\ table[m].task = r.task /\ table[m].idx = r.idx /\ m \in Slots
    BY <1>4 DEF FileSlots, OfTask, Valid
  <1>6. table[m] = EntryFor(r)
    <2>1. PICK q \in recs : /\ q.ch = r.ch /\ q.task = table[m].task
                            /\ q.idx = table[m].idx /\ q.lba = table[m].lba
      BY <1>1, <1>5, AgreedTables
    <2>2. q = r
      BY <1>5, <2>1 DEF Agree, Distinct
    <2>3. table[m] \in Entries(b)
      BY <1>1, <1>5 DEF TablesUpTo
    <2> QED BY <2>1, <2>2, <2>3 DEF Entries, EntryFor
  <1> HIDE DEF m, table
  <1>7. /\ \A c \in Channels, q \in Slots : c # r.ch \/ q # m => new[c][q] = tables[c][q]
        /\ new[r.ch][m] = Nil
    <2>1. new[r.ch] = [table EXCEPT ![m] = Nil]
      BY <1>1 DEF without_file, m, table
    <2>2. \A c \in Channels : c # r.ch => new[c] = tables[c]
      OBVIOUS
    <2> HIDE DEF new
    <2> QED BY <1>1, <1>5, <2>1, <2>2 DEF table
  <1> HIDE DEF new
  <1>8. Listed(recs \ {r}, new)
    <2>1. SUFFICES ASSUME NEW q \in recs \ {r} PROVE \E o \in Slots : new[q.ch][o] = EntryFor(q)
      BY DEF Listed
    <2>2. PICK o \in Slots : tables[q.ch][o] = EntryFor(q)
      BY DEF Agree, Listed
    <2>3. q.ch \in Channels
      BY DEF Files
    <2>4. q.ch # r.ch \/ o # m
      <3> SUFFICES ASSUME q.ch = r.ch, o = m PROVE FALSE
        OBVIOUS
      <3>1. EntryFor(q) = EntryFor(r)
        BY <1>6, <2>2 DEF table
      <3>2. q.task = r.task /\ q.idx = r.idx
        BY <3>1 DEF EntryFor
      <3> QED BY <2>1, <3>2 DEF Agree, Distinct
    <2> QED BY <1>7, <2>2, <2>3, <2>4
  <1>9. Backed(recs \ {r}, new)
    <2>1. SUFFICES ASSUME NEW c \in Channels, NEW o \in Slots, new[c][o] # Nil
                   PROVE  FileOf(c, new[c][o]) \in recs \ {r}
      BY DEF Backed
    <2>2. c # r.ch \/ o # m
      BY <1>7, <2>1
    <2>3. new[c][o] = tables[c][o] /\ FileOf(c, tables[c][o]) \in recs
      BY <1>7, <2>1, <2>2 DEF Agree, Backed
    <2>4. FileOf(c, tables[c][o]) # r
      <3> SUFFICES ASSUME FileOf(c, tables[c][o]) = r PROVE FALSE
        OBVIOUS
      <3>1. /\ c = r.ch /\ tables[c][o].task = r.task /\ tables[c][o].idx = r.idx
            /\ tables[c][o].lba = r.lba
        BY DEF FileOf
      <3>2. tables[c][o] \in Entries(b)
        BY <2>1, <2>3 DEF TablesUpTo
      <3>3. tables[c][o] = EntryFor(r)
        BY <3>1, <3>2 DEF Entries, EntryFor
      <3>4. o = m
        BY <1>5, <1>6, <3>1, <3>3, <2>1, <2>3 DEF Agree, Once, table
      <3> QED BY <2>2, <3>1, <3>4
    <2> QED BY <2>3, <2>4
  <1>10. Once(new)
    <2>1. SUFFICES ASSUME NEW c \in Channels, NEW o \in Slots, NEW q \in Slots,
                          new[c][o] # Nil, new[c][o] = new[c][q]
                   PROVE  o = q
      BY DEF Once
    <2>2. new[c][o] = tables[c][o] /\ new[c][q] = tables[c][q]
      BY <1>7, <2>1
    <2> QED BY <2>1, <2>2 DEF Agree, Once
  <1>11. Distinct(recs \ {r})
    BY DEF Agree, Distinct
  <1>12. Agree(recs \ {r}, new)
    BY <1>8, <1>9, <1>10, <1>11 DEF Agree
  <1> QED BY <1>3, <1>12 DEF new, table

LEMMA InitList == Init => CaptureListInv /\ JobListInv /\ CopyInv
  <1> SUFFICES ASSUME Init PROVE CaptureListInv /\ JobListInv /\ CopyInv
    OBVIOUS
  <1>1. pc["main"] = "idle" /\ pc["job"] = "none" /\ job.op = "none" /\ in_tx = FALSE
    BY DEF Init, NoJob, Threads
  <1>2. Agree(saved.recs, meta)
    <2>1. saved.recs = {} /\ \A c \in Channels : meta[c] = EmptyTable
      BY DEF Init, EmptyDb
    <2> QED BY <2>1, EmptyAgrees
  <1> QED BY <1>1, <1>2 DEF CaptureListInv, JobListInv, CopyInv, TxPcs, RollbackPcs, SyncPcs,
                            ClearPcs, DeletePcs, Threads

\* With at most one failing call, the rollback that it causes does not fail.
LEMMA LastFault ==
  ASSUME CommitsRecoverable, TypeInv
  PROVE  /\ fault("main") => used'.faults >= MaxFaults
         /\ used.faults >= MaxFaults => ~fault("main")
         /\ used'.faults >= used.faults \/ ~(used' = used \/ fault("main"))
  BY CatalogAssumption DEF CommitsRecoverable, TypeInv, UsedInv, fault

\* A capture that is being committed fits the list and the tables it started from.
LEMMA CommitFits ==
  ASSUME IndicesKnown, TypeInv, TxInv, CaptureListInv, pc["main"] \in TxPcs
  PROVE  Admissible(cap, saved.recs)
  <1>1. PICK b \in Nat : b = used.captures /\ CaptureOK(cap, b)
    BY DEF TypeInv, UsedInv, CtlInv, MainPlace, CommitPcs
  <1>2. \A x \in ItemsOf(cap) : x.slot \in Slots
    BY DEF TypeInv, CtlInv, MainPlace
  <1>3. Fits /\ Ahead(saved.recs) /\ \A x \in ItemsOf(cap) : x.slot # Nil
    BY DEF CaptureListInv, TxInv
  <1>4. \A x, y \in ItemsOf(cap) : x.ch = y.ch => x = y
    BY <1>1, ItemCount
  <1> QED BY <1>2, <1>3, <1>4 DEF Admissible, Fits, Ahead

\* COMMIT publishes a capture whose entries are all in the tables.
LEMMA CommitAgrees ==
  ASSUME IndicesKnown, TypeInv, TxInv, MetaInv, CaptureListInv, pc["main"] = "commit"
  PROVE  Agree(saved.recs \cup BatchOf(cap), meta)
  <1>1. PICK b \in Nat : b = used.captures /\ CaptureOK(cap, b) /\ saved.recs \in SUBSET Files(b)
    BY DEF TypeInv, UsedInv, DbInv, DbUpTo, CtlInv, MainPlace, CommitPcs, TxPcs
  <1>2. Admissible(cap, saved.recs) /\ Agree(saved.recs, cap.before)
    BY CommitFits DEF CaptureListInv, TxPcs
  <1>3. EnteredUpTo(NumItems) /\ AsBefore(Channels \ Touched(cap, NumItems))
    <2>1. cap # NoCapture
      BY <1>1, CaptureThere
    <2> QED BY <2>1 DEF MetaInv
  <1>4. /\ \A n \in 1 .. NumItems : At(cap, n) \in ItemsOf(cap)
        /\ \A x \in ItemsOf(cap) : \E n \in 1 .. NumItems : x = At(cap, n)
    BY <1>1, ItemsInOrder DEF NumItems
  <1>5. \A x \in ItemsOf(cap) :
            /\ meta[x.ch][x.slot] = EntryOf(cap, x)
            /\ \A s \in Slots \ {x.slot} : meta[x.ch][s] = cap.before[x.ch][s]
    BY <1>3, <1>4 DEF EnteredUpTo, Filled
  <1>6. \A d \in Channels : (\A x \in ItemsOf(cap) : x.ch # d) => meta[d] = cap.before[d]
    BY <1>3, <1>4 DEF AsBefore, Touched
  <1> QED BY <1>1, <1>2, <1>5, <1>6, AgreeInsert

\* A step within the transaction.
LEMMA StaysInTx ==
  ASSUME CaptureListInv, pc["main"] \in TxPcs, pc'["main"] \in TxPcs, pc'["job"] = "none",
         cap' = cap, saved'.recs = saved.recs, db'.status[cap.task] # "absent"
  PROVE  CaptureListInv'
  <1>1. Fits' <=> Fits
    BY DEF Fits
  <1> QED BY <1>1 DEF CaptureListInv, TxPcs, RollbackPcs, SyncPcs

\* Everything that is not as before has its backup.
Covered(n) == \A c \in Channels :
    meta[c] = cap.before[c] \/ (c \in Touched(cap, n) /\ backup[c] = cap.before[c])

LEMMA CoveredInTx ==
  ASSUME TypeInv, MetaInv
  PROVE  /\ pc["main"] \in {"read", "fill"} => Covered(k["main"])
         /\ pc["main"] \in {"insert", "count", "total", "commit"} => Covered(NumItems)
  <1>1. CASE pc["main"] \in {"read", "fill"}
    <2>1. PICK b \in Nat : b = used.captures /\ CaptureOK(cap, b)
      BY <1>1 DEF TypeInv, UsedInv, CtlInv, MainPlace, CommitPcs, TxPcs
    <2>2. k["main"] \in 1 .. NumItems
      BY <1>1 DEF TypeInv, CtlInv, MainPlace, NumItems
    <2>3. Touched(cap, k["main"]) = Touched(cap, k["main"] - 1) \cup {At(cap, k["main"]).ch}
      BY <2>1, <2>2, TouchedMore
    <2> QED BY <1>1, <2>3 DEF MetaInv, AsBefore, BackedUp, Covered
  <1>2. CASE pc["main"] \in {"insert", "count", "total", "commit"}
    BY <1>2 DEF MetaInv, AsBefore, BackedUp, Covered
  <1> QED BY <1>1, <1>2

\* A call of the commit fails, and the rollback begins.
LEMMA FailsInTx ==
  ASSUME CommitsRecoverable, TypeInv, CaptureListInv, pc["main"] \in TxPcs, fault("main"),
         NEW n, NEW r, fail_with(r, n), Covered(n), pc["job"] = "none",
         UNCHANGED <<cap, meta, backup, saved>>
  PROVE  CaptureListInv'
  <1>1. pc'["main"] = "rb_db" /\ k'["main"] = n /\ pc'["job"] = "none"
    BY Moves DEF fail_with
  <1>2. used'.faults >= MaxFaults
    BY LastFault
  <1> QED BY <1>1, <1>2 DEF CaptureListInv, Covered, TxPcs, RollbackPcs, SyncPcs

\* The main loop.
LEMMA MainList ==
  ASSUME CommitsRecoverable, TypeInv, TxInv, ReplicaInv, MetaInv, CaptureListInv, StepsOfMain
  PROVE  CaptureListInv'
  <1> USE DEF CaptureListInv, dbv, filev, capv, fwrite_table, fail_with, finish, rollback_next, TxPcs, RollbackPcs, SyncPcs, ClearPcs
  <1>m. /\ \A l : goto("main", l) => pc'["main"] = l /\ pc'["job"] = pc["job"] /\ k' = k
        /\ \A l : goto("job", l) => pc'["job"] = l /\ pc'["main"] = pc["main"] /\ k' = k
        /\ \A l, n : start_loop("main", l, n) => /\ pc'["main"] = l /\ pc'["job"] = pc["job"]
                                               /\ k'["main"] = n
    BY Moves
  <1>n. pc["main"] # "idle" => pc["job"] = "none"
    BY DEF TypeInv, JobInv, JobPlace, TxInv
  <1>s. saved'.recs = saved.recs \/ Committed
    BY MainSaved
  <1>v. cap' = cap /\ saved'.recs = saved.recs => (Fits' <=> Fits)
    BY DEF Fits
  <1>f. /\ fault("main") => used'.faults >= MaxFaults
        /\ used.faults >= MaxFaults => ~fault("main")
        /\ used.faults >= MaxFaults => used'.faults >= MaxFaults
    BY LastFault, MainUsed, CatalogAssumption DEF TypeInv, UsedInv, fault
  <1>t. /\ pc["main"] \in TxPcs => in_tx
        /\ ~in_tx => db = saved
    BY DEF TxInv
  <1>b. PICK b \in Nat :
           /\ b = used.captures /\ db \in DbUpTo(b) /\ meta \in [Channels -> TablesUpTo(b)]
           /\ DOMAIN backup = Channels
           /\ pc["main"] \in CommitPcs => CaptureOK(cap, b) /\ cap.task \in Tasks
    BY DEF TypeInv, UsedInv, DbInv, TabInv, CtlInv, MainPlace, CaptureOK
  <1>w. \A d : db_write(d) => db' = d /\ in_tx' = in_tx
    BY DEF db_write
  <1>B. pc["main"] \in {"capturing", "begin", "exists"} => meta = cap.before
    BY DEF MetaInv
  <1>1. CASE db_begin
    BY <1>1, <1>m, <1>n, <1>s, <1>v, <1>f, <1>t, <1>w, <1>B DEF db_begin, Committed
  <1>2. CASE record_exists
    <2>1. ~\E x \in Items : \E r \in db.recs : r.task = cap.task /\ r.idx = x.idx
      <3>1. db.recs = saved.recs /\ Ahead(saved.recs) /\ Items = ItemsOf(cap) /\ CaptureOK(cap, b)
        BY <1>2, <1>b DEF record_exists, TxInv, Items, ItemsOf, CommitPcs, CommitsRecoverable
      <3>2. \A x \in ItemsOf(cap) : x.idx \in Nat
        BY <3>1, <1>b, ItemCount, LargerBound DEF Item
      <3>3. \A x \in ItemsOf(cap) : ~(x.idx < x.idx)
        BY <3>2
      <3> QED BY <3>1, <3>3 DEF Ahead
    <2>2. /\ pc["main"] = "exists" /\ cap' = cap /\ UNCHANGED dbv
          /\ pc'["main"] = "read" /\ pc'["job"] = pc["job"]
      BY <1>2, <2>1, <1>m DEF record_exists, FilesOf
    <2>3. db'.status[cap.task] # "absent"
      BY <2>2
    <2> HIDE DEF CaptureListInv
    <2> QED BY <2>2, <2>3, <1>n, StaysInTx
  <1>3. CASE metadata_read_item
    <2>g. pc["main"] = "read" /\ UNCHANGED <<cap>> /\ saved'.recs = saved.recs
      BY <1>3, <1>s DEF metadata_read_item, Committed
    <2>h. LET x == ItemAt(k["main"]) IN meta[x.ch][x.slot] = Nil
      <3> DEFINE i == k["main"]
                x == At(cap, i)
      <3>1. i \in 1 .. NumItems /\ CaptureOK(cap, b)
        BY <2>g, <1>b DEF TypeInv, CtlInv, MainPlace, CommitPcs, NumItems
      <3>2. ItemAt(i) = x /\ x \in ItemsOf(cap) /\ x.ch \in Channels \ Touched(cap, i - 1)
        BY <3>1, <1>b, CurrentItem, TouchedMore
      <3>3. meta[x.ch] = cap.before[x.ch]
        BY <2>g, <3>2 DEF MetaInv, AsBefore
      <3>4. cap.before[x.ch][x.slot] = Nil
        BY <2>g, <3>2 DEF Fits
      <3> QED BY <3>2, <3>3, <3>4
    <2>1. \/ pc'["main"] \in TxPcs /\ pc'["job"] = pc["job"] /\ db'.status[cap.task] # "absent"
          \/ UNCHANGED <<cap, meta, backup, dbv>> /\ fail_with("metadata_write_failed", k["main"]) /\ fault("main")
      BY <1>3, <1>m, <1>w, <2>g, <2>h
         DEF metadata_read_item, metadata_read, silent_fault, CommitsRecoverable, TablesOpen
    <2>2. CASE pc'["main"] \in TxPcs /\ pc'["job"] = pc["job"] /\ db'.status[cap.task] # "absent"
      <3> HIDE DEF CaptureListInv
      <3> QED BY <2>g, <2>2, <1>n, StaysInTx
    <2>3. CASE UNCHANGED <<cap, meta, backup, dbv>> /\ fail_with("metadata_write_failed", k["main"]) /\ fault("main")
      <3>1. Covered(k["main"])
        BY <2>g, CoveredInTx
      <3> HIDE DEF fail_with, CaptureListInv
      <3> QED BY <2>g, <2>3, <3>1, <1>n, FailsInTx
    <2> QED BY <2>1, <2>2, <2>3
  <1>4. CASE metadata_truncate_item
    <2>1. /\ pc["main"] = "truncate" /\ cap' = cap /\ UNCHANGED dbv
          /\ pc'["main"] = "fill" /\ pc'["job"] = pc["job"]
      BY <1>4, <1>m DEF metadata_truncate_item, fopen_wb
    <2>2. db'.status[cap.task] # "absent"
      BY <2>1
    <2> HIDE DEF CaptureListInv
    <2> QED BY <2>1, <2>2, <1>n, StaysInTx
  <1>5. CASE metadata_fill_item
    <2>g. pc["main"] = "fill" /\ UNCHANGED <<cap>> /\ saved'.recs = saved.recs
      BY <1>5, <1>s DEF metadata_fill_item, Committed
    <2>1. \/ pc'["main"] \in TxPcs /\ pc'["job"] = pc["job"] /\ db'.status[cap.task] # "absent"
          \/ UNCHANGED <<cap, meta, backup, dbv>> /\ fail_with("metadata_write_failed", k["main"]) /\ fault("main")
      BY <1>5, <1>m, <1>w, <2>g DEF metadata_fill_item
    <2>2. CASE pc'["main"] \in TxPcs /\ pc'["job"] = pc["job"] /\ db'.status[cap.task] # "absent"
      <3> HIDE DEF CaptureListInv
      <3> QED BY <2>g, <2>2, <1>n, StaysInTx
    <2>3. CASE UNCHANGED <<cap, meta, backup, dbv>> /\ fail_with("metadata_write_failed", k["main"]) /\ fault("main")
      <3>1. Covered(k["main"])
        BY <2>g, CoveredInTx
      <3> HIDE DEF fail_with, CaptureListInv
      <3> QED BY <2>g, <2>3, <3>1, <1>n, FailsInTx
    <2> QED BY <2>1, <2>2, <2>3
  <1>6. CASE record_insert
    <2>g. pc["main"] = "insert" /\ UNCHANGED <<cap>> /\ saved'.recs = saved.recs
      BY <1>6, <1>s DEF record_insert, Committed
    <2> DEFINE d == [db EXCEPT !.recs = @ \cup {ItemRecord(ItemAt(k["main"]))}]
    <2>h. d.status = db.status /\ db.status[cap.task] # "absent"
      BY <1>b, <2>g DEF DbUpTo
    <2>j. /\ UNCHANGED <<filev, backup>>
          /\ \/ db_write(d) /\ pc'["main"] \in {"insert", "count"} /\ pc'["job"] = pc["job"]
             \/ UNCHANGED dbv /\ fail_with("db_insert_failed", NumItems) /\ fault("main")
      BY <1>6, <1>m, <2>h DEF record_insert
    <2> HIDE DEF d
    <2>1. \/ pc'["main"] \in TxPcs /\ pc'["job"] = pc["job"] /\ db'.status[cap.task] # "absent"
          \/ UNCHANGED <<cap, meta, backup, dbv>> /\ fail_with("db_insert_failed", NumItems) /\ fault("main")
      BY <1>6, <1>m, <1>w, <2>g, <2>h, <2>j
    <2>2. CASE pc'["main"] \in TxPcs /\ pc'["job"] = pc["job"] /\ db'.status[cap.task] # "absent"
      <3> HIDE DEF CaptureListInv
      <3> QED BY <2>g, <2>2, <1>n, StaysInTx
    <2>3. CASE UNCHANGED <<cap, meta, backup, dbv>> /\ fail_with("db_insert_failed", NumItems) /\ fault("main")
      <3>1. Covered(NumItems)
        BY <2>g, CoveredInTx
      <3> HIDE DEF fail_with, CaptureListInv
      <3> QED BY <2>g, <2>3, <3>1, <1>n, FailsInTx
    <2> QED BY <2>1, <2>2, <2>3
  <1>7. CASE record_count
    <2>g. pc["main"] = "count" /\ UNCHANGED <<cap>> /\ saved'.recs = saved.recs
      BY <1>7, <1>s DEF record_count, Committed
    <2>1. \/ pc'["main"] \in TxPcs /\ pc'["job"] = pc["job"] /\ db'.status[cap.task] # "absent"
          \/ UNCHANGED <<cap, meta, backup, dbv>> /\ fail_with("db_count_failed", NumItems) /\ fault("main")
      BY <1>7, <1>m, <1>w, <2>g DEF record_count
    <2>2. CASE pc'["main"] \in TxPcs /\ pc'["job"] = pc["job"] /\ db'.status[cap.task] # "absent"
      <3> HIDE DEF CaptureListInv
      <3> QED BY <2>g, <2>2, <1>n, StaysInTx
    <2>3. CASE UNCHANGED <<cap, meta, backup, dbv>> /\ fail_with("db_count_failed", NumItems) /\ fault("main")
      <3>1. Covered(NumItems)
        BY <2>g, CoveredInTx
      <3> HIDE DEF fail_with, CaptureListInv
      <3> QED BY <2>g, <2>3, <3>1, <1>n, FailsInTx
    <2> QED BY <2>1, <2>2, <2>3
  <1>8. CASE task_update
    <2>g. pc["main"] = "total" /\ UNCHANGED <<cap>> /\ saved'.recs = saved.recs
      BY <1>8, <1>s DEF task_update, Committed
    <2>h. ASSUME NEW n \in Nat
          PROVE  with_status([db EXCEPT !.total[cap.task] = n], cap.task, "completed").status[cap.task] # "absent"
      BY <2>g, <1>b DEF DbUpTo, with_status, CommitPcs
    <2> DEFINE n == IF db.status[cap.task] = "absent" THEN db.total[cap.task] ELSE count
              d == with_status([db EXCEPT !.total[cap.task] = n], cap.task, "completed")
    <2>i. n \in Nat
      BY <2>g, <1>b DEF TypeInv, DbInv, DbUpTo, CommitPcs
    <2>j. /\ UNCHANGED <<filev, backup>>
          /\ \/ db_write(d) /\ pc'["main"] = "commit" /\ pc'["job"] = pc["job"]
             \/ UNCHANGED dbv /\ fail_with("task_update_failed", NumItems) /\ fault("main")
      BY <1>8, <1>m DEF task_update
    <2>l. d.status[cap.task] # "absent"
      BY <2>h, <2>i
    <2> HIDE DEF d, n
    <2>1. \/ pc'["main"] \in TxPcs /\ pc'["job"] = pc["job"] /\ db'.status[cap.task] # "absent"
          \/ UNCHANGED <<cap, meta, backup, dbv>> /\ fail_with("task_update_failed", NumItems) /\ fault("main")
      BY <1>8, <1>m, <1>w, <2>g, <2>j, <2>l
    <2>2. CASE pc'["main"] \in TxPcs /\ pc'["job"] = pc["job"] /\ db'.status[cap.task] # "absent"
      <3> HIDE DEF CaptureListInv
      <3> QED BY <2>g, <2>2, <1>n, StaysInTx
    <2>3. CASE UNCHANGED <<cap, meta, backup, dbv>> /\ fail_with("task_update_failed", NumItems) /\ fault("main")
      <3>1. Covered(NumItems)
        BY <2>g, CoveredInTx
      <3> HIDE DEF fail_with, CaptureListInv
      <3> QED BY <2>g, <2>3, <3>1, <1>n, FailsInTx
    <2> QED BY <2>1, <2>2, <2>3
  <1>9. CASE db_commit
    <2>1. /\ pc["main"] = "commit" /\ UNCHANGED <<cap, meta, backup>>
          /\ \/ saved' = db /\ in_tx' = FALSE /\ goto("main", "sync_check")
             \/ UNCHANGED dbv /\ fail_with("db_commit_failed", NumItems) /\ fault("main")
      BY <1>9 DEF db_commit
    <2>2. CASE saved' = db /\ in_tx' = FALSE /\ goto("main", "sync_check")
      <3>1. Agree(saved.recs \cup BatchOf(cap), meta)
        BY <2>1, CommitAgrees DEF CommitsRecoverable
      <3>2. saved'.recs = saved.recs \cup BatchOf(cap)
        BY <2>1, <2>2 DEF TxInv
      <3> QED BY <2>1, <2>2, <3>1, <3>2, <1>m
    <2>3. CASE UNCHANGED dbv /\ fail_with("db_commit_failed", NumItems) /\ fault("main")
      <3>1. Covered(NumItems)
        BY <2>1, CoveredInTx
      <3> HIDE DEF fail_with, CaptureListInv
      <3> QED BY <2>1, <2>3, <3>1, <1>n, FailsInTx
    <2> QED BY <2>1, <2>2, <2>3
  <1>10. CASE db_rollback
    BY <1>10, <1>m, <1>n, <1>s, <1>v, <1>f, <1>t, <1>w, <1>B DEF db_rollback, Committed
  <1>11. CASE metadata_rollback_open
    <2> DEFINE i == k["main"]
              x == At(cap, i)
    <2>1. /\ i \in 1 .. NumItems /\ ItemAt(i) = x /\ x.ch \in Channels
          /\ Touched(cap, i) = Touched(cap, i - 1) \cup {x.ch} /\ Touched(cap, 0) = {}
      <3>1. i \in 1 .. NumItems /\ CaptureOK(cap, b)
        BY <1>11, <1>b DEF metadata_rollback_open, TypeInv, CtlInv, MainPlace, CommitPcs, NumItems
      <3> QED BY <3>1, TouchedMore, CurrentItem
    <2>c. Covered(i) /\ Agree(saved.recs, cap.before) /\ used.faults >= MaxFaults /\ ~in_tx
      BY <1>11 DEF metadata_rollback_open, Covered
    <2>s. saved'.recs = saved.recs
      BY <1>11, <1>s DEF metadata_rollback_open, Committed
    <2>2. /\ pc["main"] = "rb_truncate" /\ UNCHANGED <<cap, backup, used, in_tx>> /\ pc["job"] = "none"
          /\ \/ backup[x.ch] = Nil /\ rollback_next /\ meta' = meta
             \/ /\ backup[x.ch] # Nil
                /\ meta' = [meta EXCEPT ![x.ch] = EmptyTable] /\ goto("main", "rb_fill")
      BY <1>11, <2>1, <1>n DEF metadata_rollback_open, fopen_wb
    <2>3. CASE backup[x.ch] = Nil /\ rollback_next /\ meta' = meta
      <3>1. cap.before \in [Channels -> TablesUpTo(b)]
        BY <2>2, <1>b DEF CaptureOK, CommitPcs
      <3>2. meta[x.ch] = cap.before[x.ch]
        <4>1. cap.before[x.ch] # Nil
          BY <3>1, <2>1, <1>b, NilIsNoEntry
        <4> QED BY <4>1, <2>1, <2>3, <2>c DEF Covered
      <3>3. pc'["main"] \in {"rb_status", "rb_truncate"} /\ k'["main"] = i - 1 /\ pc'["job"] = "none"
        BY <2>1, <2>2, <2>3, <1>m
      <3>4. \A c \in Channels : meta[c] = cap.before[c]
                \/ (c \in Touched(cap, i - 1) /\ backup[c] = cap.before[c])
        BY <2>1, <2>c, <3>2 DEF Covered
      <3> QED BY <2>2, <2>3, <2>c, <2>s, <3>3, <3>4
    <2>4. CASE /\ backup[x.ch] # Nil
               /\ meta' = [meta EXCEPT ![x.ch] = EmptyTable] /\ goto("main", "rb_fill")
      <3>1. \A c \in Channels : c # x.ch => meta'[c] = meta[c]
        BY <2>4, <1>b
      <3>2. backup[x.ch] = cap.before[x.ch]
        BY <2>1, <2>2, <2>4 DEF MetaInv
      <3>3. pc'["main"] = "rb_fill" /\ k'["main"] = i /\ pc'["job"] = "none"
        BY <2>2, <2>4, <1>m
      <3>4. \A c \in Channels : meta'[c] = cap.before[c]
                \/ (c \in Touched(cap, i) /\ backup[c] = cap.before[c])
        BY <2>1, <2>c, <3>1, <3>2 DEF Covered
      <3> QED BY <2>2, <2>c, <2>s, <3>3, <3>4
    <2> QED BY <2>2, <2>3, <2>4
  <1>12. CASE metadata_rollback_write
    <2> DEFINE i == k["main"]
              x == At(cap, i)
    <2>1. /\ i \in 1 .. NumItems /\ ItemAt(i) = x /\ x.ch \in Channels
          /\ Touched(cap, i) = Touched(cap, i - 1) \cup {x.ch} /\ Touched(cap, 0) = {}
      <3>1. i \in 1 .. NumItems /\ CaptureOK(cap, b)
        BY <1>12, <1>b DEF metadata_rollback_write, TypeInv, CtlInv, MainPlace, CommitPcs, NumItems
      <3> QED BY <3>1, TouchedMore, CurrentItem
    <2>c. Covered(i) /\ Agree(saved.recs, cap.before) /\ used.faults >= MaxFaults /\ ~in_tx
      BY <1>12 DEF metadata_rollback_write, Covered
    <2>s. saved'.recs = saved.recs
      BY <1>12, <1>s DEF metadata_rollback_write, Committed
    <2>2. /\ pc["main"] = "rb_fill" /\ UNCHANGED <<cap, in_tx>> /\ pc["job"] = "none"
          /\ rollback_next /\ used' = used
          /\ meta' = [meta EXCEPT ![x.ch] = backup[x.ch]]
          /\ backup' = [backup EXCEPT ![x.ch] = Nil]
      BY <1>12, <2>1, <1>n, <1>f, <2>c DEF metadata_rollback_write, no_fault
    <2>3. pc'["main"] \in {"rb_status", "rb_truncate"} /\ k'["main"] = i - 1 /\ pc'["job"] = "none"
      BY <2>1, <2>2, <1>m
    <2>4. backup[x.ch] = cap.before[x.ch]
      BY <2>2 DEF MetaInv
    <2>5. /\ \A c \in Channels : c # x.ch => meta'[c] = meta[c] /\ backup'[c] = backup[c]
          /\ meta'[x.ch] = cap.before[x.ch]
      BY <2>1, <2>2, <2>4, <1>b
    <2>6. \A c \in Channels : meta'[c] = cap.before[c]
                \/ (c \in Touched(cap, i - 1) /\ backup'[c] = cap.before[c])
      BY <2>1, <2>c, <2>5 DEF Covered
    <2> QED BY <2>2, <2>c, <2>s, <2>3, <2>6
  <1>13. CASE rollback_status
    <2>1. /\ pc["main"] = "rb_status" /\ UNCHANGED <<cap, meta>> /\ ~in_tx /\ in_tx' = in_tx
          /\ pc'["main"] \in {"exit", "idle"} /\ pc'["job"] = "none"
      BY <1>13, <1>m, <1>n, <1>w DEF rollback_status
    <2>2. k["main"] = 0 /\ Touched(cap, 0) = {}
      BY <2>1, <1>b, TouchedMore DEF TypeInv, CtlInv, MainPlace, CommitPcs
    <2>3. \A c \in Channels : meta[c] = cap.before[c]
      BY <2>1, <2>2
    <2>4. cap.before \in [Channels -> TablesUpTo(b)]
      BY <2>1, <1>b DEF CaptureOK, CommitPcs
    <2>5. meta = cap.before
      BY <2>3, <2>4, <1>b
    <2>6. saved'.recs = saved.recs
      BY <2>1, <1>s DEF Committed
    <2> QED BY <2>1, <2>5, <2>6
  <1>14. CASE mark_pending
    BY <1>14, <1>m, <1>n, <1>s, <1>v, <1>f, <1>t, <1>w, <1>B DEF mark_pending, Committed
  <1>15. CASE mark_complete
    BY <1>15, <1>m, <1>n, <1>s, <1>v, <1>f, <1>t, <1>w, <1>B DEF mark_complete, Committed
  <1>16. CASE sync_check("main")
    BY <1>16, <1>m, <1>n, <1>s, <1>v, <1>f, <1>t, <1>w, <1>B DEF sync_check, after_sync, Committed
  <1>17. CASE sync_backup("main")
    BY <1>17, <1>m, <1>n, <1>s, <1>v, <1>f, <1>t, <1>w, <1>B DEF sync_backup, after_sync, Committed
  <1>18. CASE sync_meta("main")
    BY <1>18, <1>m, <1>n, <1>s, <1>v, <1>f, <1>t, <1>w, <1>B DEF sync_meta, after_sync, Committed
  <1>19. CASE sync_rename("main")
    BY <1>19, <1>m, <1>n, <1>s, <1>v, <1>f, <1>t, <1>w, <1>B DEF sync_rename, after_sync, Committed
  <1>20. CASE outbox_retry
    BY <1>20, <1>m, <1>n, <1>s, <1>v, <1>f, <1>t, <1>w, <1>B DEF outbox_retry, Committed
  <1>21. CASE outbox_unmark
    BY <1>21, <1>m, <1>n, <1>s, <1>v, <1>f, <1>t, <1>w, <1>B DEF outbox_unmark, Committed
  <1>22. CASE workers_exit
    BY <1>22, <1>m, <1>n, <1>s, <1>v, <1>f, <1>t, <1>w, <1>B DEF workers_exit, Committed
  <1>23. CASE service_maintenance_job
    BY <1>23, <1>m, <1>n, <1>s, <1>v, <1>f, <1>t, <1>w, <1>B DEF service_maintenance_job, Committed
  <1>24. CASE capture_failed
    BY <1>24, <1>m, <1>n, <1>s, <1>v, <1>f, <1>t, <1>w, <1>B DEF capture_failed, Committed
  <1>25. ASSUME NEW e \in BOOLEAN, capture_succeeded(e) PROVE CaptureListInv'
    <2>1. Items = ItemsOf(cap)
      BY DEF Items, ItemsOf
    <2>2. /\ pc["main"] = "capturing" /\ (\A x \in ItemsOf(cap) : x.slot # Nil)
          /\ UNCHANGED <<cap, dbv>> /\ pc'["main"] = "begin" /\ pc'["job"] = pc["job"]
      BY <1>25, <2>1, <1>m DEF capture_succeeded
    <2> QED BY <2>2, <1>v
  <1> QED BY <1>1, <1>2, <1>3, <1>4, <1>5, <1>6, <1>7, <1>8, <1>9, <1>10, <1>11, <1>12, <1>13, <1>14, <1>15, <1>16, <1>17, <1>18, <1>19, <1>20, <1>21, <1>22, <1>23, <1>24, <1>25 DEF StepsOfMain, commit_step, sync_step

\* While a job is there the main loop leaves everything alone, and there is none
\* while it commits.
LEMMA MainJobList ==
  ASSUME TypeInv, TxInv, JobListInv, StepsOfMain
  PROVE  JobListInv'
  <1>1. used'.jobs = used.jobs
    BY MainUsed DEF fault, TypeInv, UsedInv
  <1>2. CASE service_maintenance_job
    <2>1. pc'["job"] = "none" /\ job'.op = "none"
      BY <1>2, Moves DEF service_maintenance_job, NoJob
    <2> QED BY <2>1 DEF JobListInv, ClearPcs, DeletePcs
  <1>3. CASE ~service_maintenance_job
    <2>1. pc["main"] # "idle" /\ job' = job
      BY <1>3 DEF StepsOfMain, commit_step, db_begin, record_exists, metadata_read_item,
         metadata_truncate_item, metadata_fill_item, record_insert, record_count, task_update,
         db_commit, db_rollback, metadata_rollback_open, metadata_rollback_write,
         rollback_status, mark_pending, mark_complete, sync_step, sync_check, sync_backup,
         sync_meta, sync_rename, after_sync, outbox_retry, outbox_unmark, workers_exit,
         capture_failed, capture_succeeded
    <2>2. pc["job"] = "none" /\ job.op = "none"
      BY <2>1 DEF TypeInv, JobInv, JobPlace, TxInv
    <2>3. pc'["job"] = "none"
      <3> USE DEF goto, start_loop, fopen_wb, fail_with, finish, rollback_next, after_sync
      <3>1. pc = [p \in Threads |-> pc[p]]
        BY DEF TypeInv, CtlInv
      <3>2. CASE commit_step
        <4>1. CASE db_begin \/ record_exists \/ metadata_read_item \/ metadata_truncate_item
          BY <2>2, <3>1, <4>1 DEF db_begin, record_exists, metadata_read_item,
             metadata_truncate_item, Threads
        <4>2. CASE metadata_fill_item \/ record_insert \/ record_count \/ task_update \/ db_commit
          BY <2>2, <3>1, <4>2 DEF metadata_fill_item, record_insert, record_count, task_update,
             db_commit, Threads
        <4>3. CASE db_rollback \/ metadata_rollback_open \/ metadata_rollback_write
          BY <2>2, <3>1, <4>3 DEF db_rollback, metadata_rollback_open, metadata_rollback_write,
             Threads
        <4>4. CASE rollback_status \/ mark_pending \/ mark_complete
          BY <2>2, <3>1, <4>4 DEF rollback_status, mark_pending, mark_complete, Threads
        <4> QED BY <3>2, <4>1, <4>2, <4>3, <4>4 DEF commit_step
      <3>3. CASE sync_step("main")
        BY <2>2, <3>1, <3>3 DEF sync_step, sync_check, sync_backup, sync_meta, sync_rename, Threads
      <3>4. CASE outbox_retry \/ outbox_unmark \/ workers_exit \/ capture_failed
        BY <2>2, <3>1, <3>4 DEF outbox_retry, outbox_unmark, workers_exit, capture_failed, Threads
      <3>5. ASSUME NEW e \in BOOLEAN, capture_succeeded(e) PROVE pc'["job"] = "none"
        BY <2>2, <3>1, <3>5 DEF capture_succeeded, Threads
      <3> QED BY <1>3, <3>2, <3>3, <3>4, <3>5 DEF StepsOfMain
    <2> QED BY <2>1, <2>2, <2>3 DEF JobListInv, ClearPcs, DeletePcs
  <1> QED BY <1>2, <1>3

\* The maintenance thread, none of whose calls fails.
LEMMA JobList ==
  ASSUME CommitsRecoverable, TypeInv, TxInv, CaptureListInv, JobListInv, job_step
  PROVE  CaptureListInv' /\ JobListInv'
  <1> USE DEF CaptureListInv, JobListInv, dbv, filev, capv, acknowledge, metadata_error, purge_next, TxPcs, RollbackPcs, SyncPcs, ClearPcs, DeletePcs
  <1>m. /\ \A l : goto("job", l) => pc'["job"] = l /\ pc'["main"] = pc["main"] /\ k' = k
        /\ \A l, n : start_loop("job", l, n) => /\ pc'["job"] = l /\ pc'["main"] = pc["main"]
                                              /\ k'["job"] = n
    BY Moves
  <1>n. pc["job"] # "none" => pc["main"] = "idle" /\ job.op # "none" /\ ~in_tx /\ db = saved
    BY DEF TypeInv, JobInv, JobPlace, TxInv
  <1>f. job.op # "none" => ~fault("job")
    BY CatalogAssumption DEF fault, CommitsRecoverable, TypeInv, UsedInv
  <1>u. used'.jobs = used.jobs
    BY JobUsed DEF fault, TypeInv, UsedInv
  <1>s. saved'.recs = saved.recs \/ Cleared \/ Deleted
    BY JobSaved DEF Dropped, CommitsRecoverable
  <1>k. job = [op |-> job.op, task |-> job.task, idx |-> job.idx, rec |-> job.rec, ack |-> job.ack]
    BY DEF TypeInv, JobInv, JobPlace
  <1>b. PICK b \in Nat : /\ b = used.captures /\ saved.recs \in SUBSET Files(b)
                       /\ meta \in [Channels -> TablesUpTo(b)] /\ tab["job"] \in TablesUpTo(b)
    BY DEF TypeInv, UsedInv, DbInv, DbUpTo, TabInv, Threads
  <1>w. \A d : db_write(d) => in_tx' = in_tx
    BY DEF db_write
  <1>1. CASE sync_check("job")
    BY <1>1, <1>m, <1>n, <1>f, <1>u, <1>s, <1>k, <1>w DEF sync_check, after_sync, Cleared, Deleted
  <1>2. CASE sync_backup("job")
    BY <1>2, <1>m, <1>n, <1>f, <1>u, <1>s, <1>k, <1>w DEF sync_backup, after_sync, Cleared, Deleted
  <1>3. CASE sync_meta("job")
    BY <1>3, <1>m, <1>n, <1>f, <1>u, <1>s, <1>k, <1>w DEF sync_meta, after_sync, Cleared, Deleted
  <1>4. CASE sync_rename("job")
    BY <1>4, <1>m, <1>n, <1>f, <1>u, <1>s, <1>k, <1>w DEF sync_rename, after_sync, Cleared, Deleted
  <1>5. CASE job_check
    <2>l. pc["main"] = "idle" /\ ~in_tx /\ job.op # "none" /\ ~fault("job")
      BY <1>5, <1>n, <1>f DEF job_check
    <2>1. UNCHANGED <<dbv, meta, cap, backup>> /\ pc["job"] = "check" /\ job'.op = job.op /\ pc'["main"] = "idle"
      BY <1>5, <1>m, <1>k, <2>l DEF job_check
    <2>2. \/ pc'["job"] = "done"
          \/ pc'["job"] = "clear_open" /\ k'["job"] = 0 /\ job' = job
          \/ pc'["job"] = "delete_read" /\ job'.rec \in saved.recs
      BY <1>5, <1>m, <1>k, <1>n DEF job_check, FilesOf
    <2>3. \A c \in Channels : ~(c < 0)
      BY CatalogAssumption DEF Channels
    <2> QED BY <2>l, <2>1, <2>2, <2>3, <1>u
  <1>6. CASE clear_open
    <2>l. pc["main"] = "idle" /\ ~in_tx /\ job.op # "none" /\ ~fault("job")
      BY <1>6, <1>n, <1>f DEF clear_open
    <2>1. /\ UNCHANGED <<dbv, cap, backup, job>> /\ pc["job"] = "clear_open" /\ pc'["main"] = "idle"
          /\ meta' = [meta EXCEPT ![k["job"]] = EmptyTable] /\ pc'["job"] = "clear_fill" /\ k' = k
          /\ k["job"] \in Channels
      BY <1>6, <1>m, <2>l DEF clear_open, fopen_wb, TypeInv, JobInv, JobPlace
    <2>2. \A c \in Channels : c <= k["job"] => c < k["job"] \/ c = k["job"]
      BY <2>1, CatalogAssumption DEF Channels
    <2>3. \A c \in Channels : c <= k["job"] => meta'[c] = EmptyTable
      BY <2>1, <2>2, <1>b
    <2> QED BY <2>l, <2>1, <2>3, <1>u
  <1>7. CASE clear_fill
    <2>l. pc["main"] = "idle" /\ ~in_tx /\ job.op # "none" /\ ~fault("job")
      BY <1>7, <1>n, <1>f DEF clear_fill
    <2>1. /\ UNCHANGED <<dbv, cap, backup, job>> /\ pc["job"] = "clear_fill" /\ pc'["main"] = "idle"
          /\ meta' = [meta EXCEPT ![k["job"]] = EmptyTable] /\ k["job"] \in Channels
          /\ \/ k["job"] < NumChannels - 1 /\ pc'["job"] = "clear_open" /\ k'["job"] = k["job"] + 1
             \/ ~(k["job"] < NumChannels - 1) /\ pc'["job"] = "clear_db"
      BY <1>7, <1>m, <2>l DEF clear_fill, fwrite_table, TypeInv, JobInv, JobPlace
    <2>2. \A c \in Channels : c <= k["job"] => meta'[c] = EmptyTable
      BY <2>1, <1>b
    <2>3. CASE k["job"] < NumChannels - 1 /\ pc'["job"] = "clear_open" /\ k'["job"] = k["job"] + 1
      <3>1. \A c \in Channels : c < k'["job"] => c <= k["job"]
        BY <2>1, <2>3, CatalogAssumption DEF Channels
      <3> QED BY <2>l, <2>1, <2>2, <2>3, <3>1, <1>u
    <2>4. CASE ~(k["job"] < NumChannels - 1) /\ pc'["job"] = "clear_db"
      <3>1. \A c \in Channels : c <= k["job"]
        BY <2>1, <2>4, CatalogAssumption DEF Channels
      <3> QED BY <2>l, <2>1, <2>2, <2>4, <3>1, <1>u
    <2> QED BY <2>1, <2>3, <2>4
  <1>8. CASE file_clear_all
    <2>l. pc["main"] = "idle" /\ ~in_tx /\ job.op # "none" /\ ~fault("job")
      BY <1>8, <1>n, <1>f DEF file_clear_all
    <2>1. /\ UNCHANGED <<meta, cap, backup, in_tx>> /\ pc["job"] = "clear_db" /\ pc'["main"] = "idle"
          /\ saved' = EmptyDb /\ pc'["job"] = "done" /\ job'.op = job.op
      BY <1>8, <1>m, <1>k, <2>l DEF file_clear_all, db_write
    <2>2. saved'.recs = {}
      BY <2>1 DEF EmptyDb
    <2>3. Agree({}, meta)
      BY <2>1, EmptyAgrees
    <2> QED BY <2>l, <2>1, <2>2, <2>3, <1>u
  <1>9. CASE delete_read
    <2>l. pc["main"] = "idle" /\ ~in_tx /\ job.op # "none" /\ ~fault("job")
      BY <1>9, <1>n, <1>f DEF delete_read
    <2> DEFINE r == job.rec
              new == without_file(meta[r.ch], r.task, r.idx)
    <2>1. pc["job"] = "delete_read" /\ r \in saved.recs /\ r.task = job.task /\ r.idx = job.idx
      BY <1>9 DEF delete_read, TypeInv, JobInv, JobPlace
    <2>2. Agree(saved.recs, meta)
      BY <2>l, <2>1
    <2>3. /\ FileSlots(meta[r.ch], r.task, r.idx) # {}
          /\ Agree(saved.recs \ {r}, [meta EXCEPT ![r.ch] = new])
      BY <1>b, <2>1, <2>2, AgreeDelete
    <2>4. /\ UNCHANGED <<dbv, meta, cap, backup, job>> /\ pc'["main"] = "idle"
          /\ tab' = [tab EXCEPT !["job"] = new] /\ pc'["job"] = "delete_open"
      BY <1>9, <2>l, <2>1, <2>3, <1>m DEF delete_read, metadata_read, silent_fault
    <2>5. tab'["job"] = new
      BY <2>4 DEF TypeInv, TabInv, Threads
    <2> HIDE DEF new
    <2> QED BY <2>l, <2>1, <2>2, <2>3, <2>4, <2>5, <1>u
  <1>10. CASE delete_open
    <2>l. pc["main"] = "idle" /\ ~in_tx /\ job.op # "none" /\ ~fault("job")
      BY <1>10, <1>n, <1>f DEF delete_open
    <2>1. /\ UNCHANGED <<dbv, cap, backup, tab, job>> /\ pc["job"] = "delete_open" /\ pc'["main"] = "idle"
          /\ meta' = [meta EXCEPT ![job.rec.ch] = EmptyTable] /\ pc'["job"] = "delete_fill"
      BY <1>10, <1>m, <2>l DEF delete_open, fopen_wb
    <2>2. [meta' EXCEPT ![job.rec.ch] = tab["job"]] = [meta EXCEPT ![job.rec.ch] = tab["job"]]
      BY <2>1, <1>b
    <2>3. Agree(saved.recs \ {job.rec}, [meta' EXCEPT ![job.rec.ch] = tab["job"]])
      BY <2>1, <2>2
    <2> QED BY <2>l, <2>1, <2>3, <1>u
  <1>11. CASE delete_fill
    <2>l. pc["main"] = "idle" /\ ~in_tx /\ job.op # "none" /\ ~fault("job")
      BY <1>11, <1>n, <1>f DEF delete_fill
    <2>1. /\ UNCHANGED <<dbv, cap, backup, tab, job>> /\ pc["job"] = "delete_fill" /\ pc'["main"] = "idle"
          /\ meta' = [meta EXCEPT ![job.rec.ch] = tab["job"]] /\ pc'["job"] = "delete_db"
      BY <1>11, <1>m, <2>l DEF delete_fill, fwrite_table
    <2>2. Agree(saved.recs \ {job.rec}, meta')
      BY <2>1
    <2> QED BY <2>l, <2>1, <2>2, <1>u
  <1>12. CASE file_delete
    <2>l. pc["main"] = "idle" /\ ~in_tx /\ job.op # "none" /\ ~fault("job")
      BY <1>12, <1>n, <1>f DEF file_delete
    <2>1. /\ UNCHANGED <<meta, cap, backup, job, in_tx>> /\ pc["job"] = "delete_db" /\ pc'["main"] = "idle"
          /\ saved' = [db EXCEPT !.recs = @ \ {job.rec}] /\ pc'["job"] = "delete_count"
      BY <1>12, <1>m, <2>l DEF file_delete, db_write
    <2>2. saved'.recs = saved.recs \ {job.rec}
      BY <2>1, <1>n DEF TypeInv, DbInv, DbUpTo
    <2> QED BY <2>l, <2>1, <2>2, <1>u
  <1>13. CASE delete_count
    BY <1>13, <1>m, <1>n, <1>f, <1>u, <1>s, <1>k, <1>w DEF delete_count, Cleared, Deleted
  <1>14. CASE purge_read
    <2>l. pc["main"] = "idle" /\ ~in_tx /\ job.op # "none" /\ ~fault("job")
      BY <1>14, <1>n, <1>f DEF purge_read
    <2>1. OfTask(meta[k["job"]], job.task) = {}
      <3>1. \A r \in saved.recs : r.task # job.task
        BY <1>14, <1>n DEF purge_read, TxInv, PurgePcs, FilesOf, CommitsRecoverable
      <3>2. k["job"] \in Channels
        BY <1>14 DEF purge_read, TypeInv, JobInv, JobPlace
      <3>3. Agree(saved.recs, meta)
        BY <1>14, <2>l DEF purge_read
      <3> QED BY <3>1, <3>2, <3>3, NoEntries
    <2>2. /\ UNCHANGED <<dbv, meta, cap, backup, job>> /\ pc["job"] = "purge_read" /\ pc'["main"] = "idle"
          /\ pc'["job"] \in {"purge_read", "purge_task"}
      BY <1>14, <1>m, <2>l, <2>1 DEF purge_read, metadata_read, silent_fault
    <2> QED BY <2>l, <2>2, <1>u
  <1>15. CASE purge_open
    BY <1>15, <1>m, <1>n, <1>f, <1>u, <1>s, <1>k, <1>w DEF purge_open, Cleared, Deleted
  <1>16. CASE purge_fill
    BY <1>16, <1>m, <1>n, <1>f, <1>u, <1>s, <1>k, <1>w DEF purge_fill, Cleared, Deleted
  <1>17. CASE purge_task
    BY <1>17, <1>m, <1>n, <1>f, <1>u, <1>s, <1>k, <1>w DEF purge_task, Cleared, Deleted
  <1> QED BY <1>1, <1>2, <1>3, <1>4, <1>5, <1>6, <1>7, <1>8, <1>9, <1>10, <1>11, <1>12, <1>13, <1>14, <1>15, <1>16, <1>17 DEF job_step, sync_step

\* The worker of each channel finds slot, sectors and index in its table alone; the
\* table agrees with the list, so they are free.
LEMMA TaskInfoFits ==
  ASSUME NEW b \in Nat, NEW t \in Tasks, NEW plan \in Plans, NEW missed \in SUBSET Lapses,
         task_info(t, plan, missed), missed = {},
         db \in DbUpTo(b), meta \in [Channels -> TablesUpTo(b)], Agree(db.recs, meta)
  PROVE  /\ meta' = meta
         /\ \A x \in ItemsOf(cap') :
               /\ x.slot # Nil => meta[x.ch][x.slot] = Nil
               /\ \A r \in db.recs : r.ch = x.ch => r.lba < x.lba
               /\ \A y \in ItemsOf(cap') : x.idx = y.idx => x = y
  <1>1. /\ ~IsStale(t, missed) => meta' = meta
        /\ IsStale(t, missed) => meta' = [c \in Channels |-> without_task(meta[c], t)]
        /\ DOMAIN cap'.items = DOMAIN plan
        /\ \A i \in DOMAIN plan :
              /\ cap'.items[i].ch \in Channels /\ cap'.items[i].ch = plan[i]
              /\ cap'.items[i].slot = alloc_slot(meta'[plan[i]])
              /\ cap'.items[i].lba = alloc_lba(meta'[plan[i]])
              /\ cap'.items[i].idx = resolve_file_index(meta'[plan[i]], t,
                                        file_next_index(DbFor(t, missed), t) + i - 1)
    <2>1. \A c : TableFor(c, missed) = meta'[c]
      BY DEF TableFor
    <2>2. IndexFor(t, missed) = file_next_index(DbFor(t, missed), t)
      BY DEF IndexFor
    <2> QED BY <2>1, <2>2, NewCapture
  <1>2. meta' = meta
    <2>1. CASE IsStale(t, missed)
      <3>1. \A r \in db.recs : r.task # t
        BY <2>1 DEF IsStale, FilesOf
      <3>2. ASSUME NEW c \in Channels PROVE without_task(meta[c], t) = meta[c]
        <4>1. OfTask(meta[c], t) = {}
          BY <3>1, NoEntries
        <4>2. meta[c] = [s \in Slots |-> meta[c][s]]
          BY DEF TablesUpTo
        <4> QED BY <4>1, <4>2 DEF without_task
      <3> QED BY <1>1, <2>1, <3>2
    <2> QED BY <1>1, <2>1
  <1> DEFINE It(i) == cap'.items[i]
            n == file_next_index(DbFor(t, missed), t)
  <1>3. /\ DOMAIN plan = 1 .. Len(plan) /\ Len(plan) \in Nat
        /\ n \in Nat \ {0} /\ \A r \in FilesOf(db, t) : r.idx < n
        /\ b * NumChannels \in Nat
    <2>1. DbFor(t, missed) \in DbUpTo(b) /\ DbFor(t, missed).recs = db.recs
      <3>1. DbFor(t, missed) \in DbUpTo(b) /\ db'.recs = DbFor(t, missed).recs
        BY TaskInfoDb
      <3>2. CASE IsStale(t, missed)
        BY <3>1, <3>2 DEF IsStale, DbFor, task_deleted, DbUpTo
      <3>3. CASE ~IsStale(t, missed)
        BY <3>1, <3>3 DEF DbFor
      <3> QED BY <3>2, <3>3
    <2>2. FilesOf(DbFor(t, missed), t) = FilesOf(db, t)
      BY <2>1 DEF FilesOf
    <2>3. n \in Nat \ {0} /\ \A r \in FilesOf(DbFor(t, missed), t) : r.idx < n
      BY <2>1, NextIndex
    <2> QED BY <2>2, <2>3, PlanShape, LargerBound
  <1>4. ASSUME NEW i \in DOMAIN plan
        PROVE  /\ It(i).ch \in Channels /\ meta[It(i).ch] \in TablesUpTo(b)
               /\ It(i).slot = alloc_slot(meta[It(i).ch]) /\ It(i).lba = alloc_lba(meta[It(i).ch])
               /\ It(i).idx = resolve_file_index(meta[It(i).ch], t, n + i - 1)
    BY <1>1, <1>2
  <1> HIDE DEF It, n
  <1>5. ASSUME NEW i \in DOMAIN plan, It(i).slot # Nil PROVE meta[It(i).ch][It(i).slot] = Nil
    BY <1>4, <1>5, AllocatedSlot
  <1>6. ASSUME NEW i \in DOMAIN plan, NEW r \in db.recs, r.ch = It(i).ch PROVE r.lba < It(i).lba
    <2>1. PICK s \in Slots : meta[r.ch][s] = EntryFor(r)
      BY DEF Agree, Listed
    <2>2. EntryFor(r) \in Entries(b) /\ EntryFor(r).lba = r.lba
      BY <1>3 DEF DbUpTo, Files, EntryFor, Entries
    <2>3. s \in Valid(meta[r.ch])
      BY <2>1, <2>2, NilIsNoEntry DEF Valid
    <2>4. meta[r.ch][s].lba < alloc_lba(meta[r.ch])
      BY <1>4, <1>6, <2>3, AllocatedSectors
    <2> QED BY <1>4, <1>6, <2>1, <2>2, <2>4
  <1>7. ASSUME NEW i \in DOMAIN plan PROVE It(i).idx = n + i - 1
    <2>1. i \in Nat \ {0} /\ n \in Nat \ {0} /\ n + i - 1 \in Nat \ {0} /\ n <= n + i - 1
      BY <1>3 DEF n
    <2>2. ASSUME NEW s \in OfTask(meta[It(i).ch], t) PROVE meta[It(i).ch][s].idx < n + i - 1
      <3>1. s \in Slots /\ meta[It(i).ch][s] # Nil /\ meta[It(i).ch][s].task = t
        BY DEF OfTask, Valid
      <3>2. PICK r \in db.recs : r.task = t /\ r.idx = meta[It(i).ch][s].idx
        BY <1>4, <3>1, AgreedTables
      <3>3. r.idx < n
        BY <1>3, <3>2 DEF FilesOf, n
      <3>4. r.idx \in Nat
        BY <1>3 DEF DbUpTo, Files
      <3> QED BY <2>1, <3>2, <3>3, <3>4
    <2> QED BY <1>4, <2>1, <2>2, ResolvedIndex
  <1>8. ASSUME NEW i \in DOMAIN plan, NEW j \in DOMAIN plan, It(i).idx = It(j).idx PROVE i = j
    BY <1>3, <1>7, <1>8 DEF n
  <1>9. \A x \in ItemsOf(cap') : \E i \in DOMAIN plan : x = It(i)
    BY <1>1 DEF ItemsOf, It
  <1>10. ASSUME NEW x \in ItemsOf(cap')
         PROVE  /\ x.slot # Nil => meta[x.ch][x.slot] = Nil
                /\ \A r \in db.recs : r.ch = x.ch => r.lba < x.lba
                /\ \A y \in ItemsOf(cap') : x.idx = y.idx => x = y
    <2>1. PICK i \in DOMAIN plan : x = It(i)
      BY <1>9
    <2> QED BY <2>1, <1>5, <1>6, <1>8, <1>9
  <1> QED BY <1>2, <1>10

LEMMA TaskInfoList ==
  ASSUME CommitsRecoverable, TypeInv, TxInv, CaptureListInv, JobListInv,
         NEW t \in Tasks, NEW plan \in Plans, NEW missed \in SUBSET Lapses,
         task_info(t, plan, missed)
  PROVE  CaptureListInv' /\ JobListInv'
  <1>1. PICK b \in Nat : /\ b = used.captures /\ db \in DbUpTo(b)
                        /\ meta \in [Channels -> TablesUpTo(b)]
    BY DEF TypeInv, UsedInv, DbInv, TabInv
  <1>2. /\ pc["main"] = "idle" /\ job.op = "none" /\ pc["job"] = "none" /\ job' = job
    BY DEF task_info, TypeInv, JobInv, JobPlace
  <1>3. pc'["main"] = "capturing" /\ pc'["job"] = "none"
    BY <1>2, Moves DEF task_info
  <1>4. ~in_tx /\ db = saved
    BY <1>2 DEF CaptureListInv, TxInv, TxPcs
  <1>5. Agree(db.recs, meta)
    BY <1>2, <1>4 DEF CaptureListInv, ClearPcs
  <1>6. cap'.task = t /\ cap'.before = meta' /\ saved'.recs = saved.recs
    <2>1. saved'.recs = saved.recs
      BY OtherSaved DEF StartsCapture, Dropped, CommitsRecoverable
    <2> QED BY <1>1, <2>1, NewCapture
  <1>0. missed = {}
    <2>1. \A l \in missed : Call(l) \in SilentFaults
      BY DEF task_info
    <2>2. \A l \in Lapses : Call(l) \in {"fopen", "count", "index"}
      BY DEF Lapses, Call
    <2> QED BY <2>1, <2>2 DEF CommitsRecoverable, TablesOpen, CountsKnown, IndicesKnown
  <1>7. /\ meta' = meta
        /\ \A x \in ItemsOf(cap') :
              /\ x.slot # Nil => meta[x.ch][x.slot] = Nil
              /\ \A r \in db.recs : r.ch = x.ch => r.lba < x.lba
              /\ \A y \in ItemsOf(cap') : x.idx = y.idx => x = y
    BY <1>0, <1>1, <1>5, TaskInfoFits
  <1>8. Fits'
    BY <1>4, <1>6, <1>7 DEF Fits
  <1> DEFINE d == [DbFor(t, missed) EXCEPT !.status[t] = "running"]
  <1>9. db_write(d) /\ d.status[t] = "running"
    <2>1. db_write(d) /\ DbFor(t, missed) \in DbUpTo(b)
      BY <1>1, TaskInfoDb
    <2> QED BY <2>1 DEF DbUpTo
  <1> HIDE DEF d
  <1>10. db'.status[t] = "running" /\ in_tx' = in_tx
    BY <1>9 DEF db_write
  <1>11. CaptureListInv'
    BY <1>3, <1>4, <1>5, <1>6, <1>7, <1>8, <1>10
       DEF CaptureListInv, TxPcs, RollbackPcs, SyncPcs
  <1>12. JobListInv'
    BY <1>2, <1>3 DEF JobListInv, ClearPcs, DeletePcs
  <1> QED BY <1>11, <1>12

LEMMA StartList ==
  ASSUME TypeInv, TxInv, CaptureListInv, JobListInv, StartsOfJob
  PROVE  CaptureListInv' /\ JobListInv'
  <1>1. PICK op, t, i : start_maintenance_job(op, t, i)
    BY DEF StartsOfJob
  <1>2. /\ UNCHANGED <<dbv, filev, capv, tab, k>> /\ used'.jobs = used.jobs + 1
        /\ used'.faults = used.faults
    BY <1>1 DEF start_maintenance_job, TypeInv, UsedInv, goto
  <1>3. pc'["main"] = pc["main"] /\ pc["job"] = "none" /\ pc'["job"] \in {"sync_check", "check"}
    BY <1>1, Moves DEF start_maintenance_job, TypeInv, JobInv, JobPlace
  <1>4. used'.jobs > 0 /\ job'.ack # "failed"
    BY <1>1, <1>2, NilAssumption DEF TypeInv, UsedInv, start_maintenance_job, NoJob
  <1>5. Fits' <=> Fits
    BY <1>2 DEF Fits, dbv, capv
  <1>6. CaptureListInv'
    BY <1>2, <1>3, <1>5 DEF CaptureListInv, dbv, filev, capv, ClearPcs
  <1>7. JobListInv'
    BY <1>3, <1>4 DEF JobListInv, ClearPcs, DeletePcs
  <1> QED BY <1>6, <1>7

LEMMA NextList ==
  CommitsRecoverable /\ TypeInv /\ TxInv /\ ReplicaInv /\ MetaInv /\ CaptureListInv /\ JobListInv
     /\ [Next]_vars => CaptureListInv' /\ JobListInv'
  <1> SUFFICES ASSUME CommitsRecoverable, TypeInv, TxInv, ReplicaInv, MetaInv, CaptureListInv,
                      JobListInv, [Next]_vars
               PROVE  CaptureListInv' /\ JobListInv'
    OBVIOUS
  <1>1. CASE UNCHANGED vars
    <2>1. Fits' <=> Fits
      BY <1>1 DEF Fits, vars
    <2> QED BY <1>1, <2>1 DEF vars, CaptureListInv, JobListInv
  <1>2. CASE Next
    <2>1. ~crash
      BY CatalogAssumption DEF crash, CommitsRecoverable, TypeInv, UsedInv
    <2> QED BY <1>2, <2>1, Steps, MainList, MainJobList, JobList, TaskInfoList, StartList
           DEF StartsCapture
  <1> QED BY <1>1, <1>2

LEMMA ListInvariant == ASSUME CommitsRecoverable PROVE Spec => [](CaptureListInv /\ JobListInv)
  <1>1. OneAtATime /\ TablesOpen
    BY DEF CommitsRecoverable
  <1>2. Init => CaptureListInv /\ JobListInv
    BY InitList
  <1>3. TypeInv /\ TxInv /\ ReplicaInv /\ MetaInv /\ CaptureListInv /\ JobListInv /\ [Next]_vars
           => (CaptureListInv /\ JobListInv)'
    BY NextList
  <1> QED BY <1>1, <1>2, <1>3, TransactionsIsolated, ReplicaInvariant, MetaInvariant, PTL DEF Spec

\* Between commands every listed file has its entry, after any number of captures,
\* deletions and clears, when at most one call of a commit fails and its caller is told.
THEOREM ListedFilesHaveEntries == ASSUME CommitsRecoverable PROVE Spec => []ListedHasEntry
  <1>1. OneAtATime /\ TablesOpen
    BY DEF CommitsRecoverable
  <1>2. TypeInv /\ MetaInv /\ CaptureListInv => ListedHasEntry
    <2> SUFFICES ASSUME TypeInv, MetaInv, CaptureListInv, Settled, NEW r \in saved.recs
                 PROVE  \E s \in Slots : meta[r.ch][s] = [task |-> r.task, idx |-> r.idx, lba |-> r.lba]
      BY DEF ListedHasEntry
    <2>1. Agree(saved.recs, meta)
      <3>1. CASE pc["main"] = "capturing"
        BY <3>1 DEF CaptureListInv, MetaInv
      <3>2. CASE pc["main"] \in {"idle", "exit"}
        BY <3>2 DEF CaptureListInv, Settled, ClearPcs
      <3> QED BY <3>1, <3>2 DEF Settled
    <2> QED BY <2>1 DEF Agree, Listed, EntryFor
  <1> QED BY <1>1, <1>2, ListInvariant, TransactionsIsolated, MetaInvariant, PTL

\* A capture is published under names and in sectors of its own.
LEMMA StepIsFresh ==
  ASSUME CommitsRecoverable, TypeInv, TxInv, CaptureListInv, [Next]_vars
  PROVE  [FC!Arrivals /\ FC!Departures /\ FC!Fresh]_(saved.recs)
  <1>2. [FC!Arrivals /\ FC!Departures]_(saved.recs)
    BY StepIsAtomic DEF CommitsRecoverable, NamesChecked
  <1>3. saved'.recs \subseteq saved.recs \/ Committed
    <2>1. CASE UNCHANGED vars
      BY <2>1 DEF vars
    <2>2. CASE Next
      BY <2>2, Steps, MainSaved, JobSaved, OtherSaved
         DEF Cleared, Deleted, Dropped, CommitsRecoverable
    <2> QED BY <2>1, <2>2
  <1>4. FC!Fresh
    <2>1. CASE saved'.recs \subseteq saved.recs
      BY <2>1 DEF FC!Fresh
    <2>2. CASE Committed
      <3>1. PICK b \in Nat : b = used.captures /\ CaptureOK(cap, b) /\ saved.recs \in SUBSET Files(b)
        BY <2>2 DEF Committed, TypeInv, UsedInv, DbInv, DbUpTo, CtlInv, MainPlace, CommitPcs, TxPcs
      <3>2. Admissible(cap, saved.recs)
        BY <2>2, CommitFits DEF Committed, TxPcs, CommitsRecoverable
      <3>3. Distinct(saved.recs)
        BY <2>2 DEF Committed, CaptureListInv, TxPcs, Agree
      <3>4. Distinct(saved'.recs)
        BY <2>2, <3>1, <3>2, <3>3, DistinctMore DEF Committed
      <3> QED BY <3>4 DEF Distinct, FC!Fresh, FC!SameName, FC!SameRange
    <2> QED BY <1>3, <2>1, <2>2
  <1> QED BY <1>2, <1>4

\* The durable file list refines the abstract catalogue in which a published file has a
\* name and sectors of its own, when at most one call of a commit fails and is known to.
THEOREM PublishesFresh == ASSUME CommitsRecoverable PROVE Spec => PublishedIsFresh
  <1>1. OneAtATime /\ TablesOpen
    BY DEF CommitsRecoverable
  <1>2. Init => FC!Init
    BY DEF Init, FC!Init, EmptyDb
  <1>3. TypeInv /\ TxInv /\ CaptureListInv /\ [Next]_vars
           => [FC!Arrivals /\ FC!Departures /\ FC!Fresh]_(saved.recs)
    BY StepIsFresh
  <1> QED BY <1>1, <1>2, <1>3, TransactionsIsolated, ListInvariant, PTL
         DEF Spec, PublishedIsFresh, FC!FreshSpec

-----------------------------------------------------------------------------
(* The tables on flash.                                                    *)

CopyPcs == {"sync_meta", "sync_rename"}

\* The thread that is not copying stays where it is, outside the copy.
LEMMA SyncCopies ==
  ASSUME TypeInv, CopyInv, NEW p \in Threads, sync_step(p),
         \A q \in Threads : q # p => pc[q] \notin CopyPcs
  PROVE  /\ CopyInv'
         /\ \/ flash'.db = flash.db
            \/ pc[p] = "sync_rename" /\ flash'.db = tmp /\ flash'.meta = flash.meta
  <1>m. /\ \A l : goto(p, l) => /\ pc'[p] = l /\ k' = k
                                /\ \A q \in Threads : q # p => pc'[q] = pc[q]
        /\ \A l, n : start_loop(p, l, n) => /\ pc'[p] = l /\ k'[p] = n
                                          /\ \A q \in Threads : q # p => pc'[q] = pc[q]
    BY Moves DEF Threads
  <1>t. /\ \A c \in Channels : c \in DOMAIN flash.meta
        /\ flash = [db |-> flash.db, meta |-> flash.meta] /\ k[p] \in Nat
    BY DEF TypeInv, TabInv, CtlInv
  <1>o. ASSUME pc'[p] \notin CopyPcs, \A q \in Threads : q # p => pc'[q] = pc[q] PROVE CopyInv'
    BY <1>o DEF CopyInv, CopyPcs
  <1>1. CASE sync_check(p)
    <2>1. pc'[p] \notin CopyPcs /\ \A q \in Threads : q # p => pc'[q] = pc[q]
      BY <1>1, <1>m DEF sync_check, after_sync, CopyPcs
    <2> QED BY <1>1, <1>o, <2>1 DEF sync_check, filev
  <1>2. CASE sync_backup(p)
    <2>1. CASE start_loop(p, "sync_meta", 0)
      <3>1. \A c \in Channels : ~(c < 0)
        BY CatalogAssumption DEF Channels
      <3> QED BY <1>2, <1>m, <2>1, <3>1 DEF sync_backup, CopyInv, CopyPcs
    <2>2. CASE after_sync(p, FALSE)
      <3>1. pc'[p] \notin CopyPcs /\ \A q \in Threads : q # p => pc'[q] = pc[q]
        BY <2>2, <1>m DEF after_sync, CopyPcs
      <3> QED BY <1>2, <1>o, <3>1 DEF sync_backup
    <2> QED BY <1>2, <2>1, <2>2 DEF sync_backup
  <1>3. CASE sync_meta(p)
    <2>1. CASE after_sync(p, FALSE) /\ UNCHANGED flash
      <3>1. pc'[p] \notin CopyPcs /\ \A q \in Threads : q # p => pc'[q] = pc[q]
        BY <2>1, <1>m DEF after_sync, CopyPcs
      <3> QED BY <2>1, <1>o, <3>1
    <2>2. CASE /\ flash' = [flash EXCEPT !.meta[k[p]] = meta[k[p]]]
               /\ IF k[p] < NumChannels - 1 THEN start_loop(p, "sync_meta", k[p] + 1)
                                            ELSE goto(p, "sync_rename")
      <3>1. /\ flash'.db = flash.db
            /\ \A c \in Channels : flash'.meta[c] = IF c = k[p] THEN meta[c] ELSE flash.meta[c]
        BY <2>2, <1>t
      <3>2. \A c \in Channels : c < k[p] => flash.meta[c] = meta[c]
        BY <1>3 DEF sync_meta, CopyInv
      <3>3. \A c \in Channels : c < k[p] + 1 => flash'.meta[c] = meta[c]
        <4>1. \A c \in Channels : c < k[p] + 1 => c < k[p] \/ c = k[p]
          BY <1>t, CatalogAssumption DEF Channels
        <4> QED BY <3>1, <3>2, <4>1
      <3>4. meta' = meta
        BY <1>3 DEF sync_meta
      <3>5. CASE k[p] < NumChannels - 1
        <4>1. pc'[p] = "sync_meta" /\ k'[p] = k[p] + 1 /\ \A q \in Threads : q # p => pc'[q] = pc[q]
          BY <2>2, <3>5, <1>m
        <4> QED BY <3>1, <3>3, <3>4, <4>1 DEF CopyInv, CopyPcs
      <3>6. CASE ~(k[p] < NumChannels - 1)
        <4>1. pc'[p] = "sync_rename" /\ \A q \in Threads : q # p => pc'[q] = pc[q]
          BY <2>2, <3>6, <1>m
        <4>2. \A c \in Channels : c < k[p] + 1
          BY <3>6, <1>t, CatalogAssumption DEF Channels
        <4> QED BY <3>1, <3>3, <3>4, <4>1, <4>2 DEF CopyInv, CopyPcs
      <3> QED BY <3>5, <3>6
    <2> QED BY <1>3, <2>1, <2>2 DEF sync_meta
  <1>4. CASE sync_rename(p)
    <2>1. pc'[p] \notin CopyPcs /\ \A q \in Threads : q # p => pc'[q] = pc[q]
      BY <1>4, <1>m DEF sync_rename, after_sync, CopyPcs
    <2>2. pc[p] = "sync_rename" /\ flash' \in {flash, [flash EXCEPT !.db = tmp]}
      BY <1>4 DEF sync_rename
    <2>3. flash'.db = flash.db \/ (flash'.db = tmp /\ flash'.meta = flash.meta)
      BY <2>2, <1>t
    <2> QED BY <1>o, <2>1, <2>2, <2>3
  <1> QED BY <1>1, <1>2, <1>3, <1>4 DEF sync_step

\* Every other step is taken while neither thread copies, or does not concern the copy.
LEMMA OthersDoNotCopy ==
  ASSUME TypeInv, TxInv, Next, ~sync_step("main"), ~sync_step("job")
  PROVE  flash' = flash /\ \A p \in Threads : pc'[p] \notin CopyPcs
  <1> USE DEF CopyPcs, dbv, filev, capv, Threads
  <1>m. /\ \A l : goto("main", l) => pc'["main"] = l /\ pc'["job"] = pc["job"]
        /\ \A l : goto("job", l) => pc'["job"] = l /\ pc'["main"] = pc["main"]
        /\ \A l, n : start_loop("main", l, n) => pc'["main"] = l /\ pc'["job"] = pc["job"]
        /\ \A l, n : start_loop("job", l, n) => pc'["job"] = l /\ pc'["main"] = pc["main"]
    BY Moves
  <1>n. /\ pc["main"] # "idle" => pc["job"] = "none"
        /\ pc["job"] # "none" => pc["main"] = "idle"
    BY DEF TypeInv, JobInv, JobPlace, TxInv
  <1>1. CASE commit_step
    <2> USE DEF fopen_wb, fwrite_table, fail_with, finish, rollback_next
    <2>1. CASE db_begin
      BY <2>1, <1>m, <1>n DEF db_begin
    <2>2. CASE record_exists \/ metadata_read_item \/ metadata_truncate_item \/ metadata_fill_item
      BY <2>2, <1>m, <1>n DEF record_exists, metadata_read_item, metadata_truncate_item,
         metadata_fill_item
    <2>3. CASE record_insert \/ record_count \/ task_update \/ db_commit \/ db_rollback
      BY <2>3, <1>m, <1>n DEF record_insert, record_count, task_update, db_commit, db_rollback
    <2>4. CASE metadata_rollback_open \/ metadata_rollback_write \/ rollback_status
      BY <2>4, <1>m, <1>n DEF metadata_rollback_open, metadata_rollback_write, rollback_status
    <2>5. CASE mark_pending \/ mark_complete
      BY <2>5, <1>m, <1>n DEF mark_pending, mark_complete
    <2> QED BY <1>1, <2>1, <2>2, <2>3, <2>4, <2>5 DEF commit_step
  <1>2. CASE StepsOfMain /\ ~commit_step
    BY <1>2, <1>m, <1>n DEF StepsOfMain, outbox_retry, outbox_unmark, workers_exit,
       service_maintenance_job, capture_failed, capture_succeeded, InLoop
  <1>3. CASE job_step
    <2> USE DEF fopen_wb, fwrite_table, acknowledge, purge_next
    <2>1. CASE job_check \/ clear_open \/ clear_fill \/ file_clear_all
      BY <2>1, <1>m, <1>n DEF job_check, clear_open, clear_fill, file_clear_all
    <2>2. CASE delete_read \/ delete_open \/ delete_fill \/ file_delete \/ delete_count
      BY <2>2, <1>m, <1>n DEF delete_read, delete_open, delete_fill, file_delete, delete_count
    <2>3. CASE purge_read \/ purge_open \/ purge_fill \/ purge_task
      BY <2>3, <1>m, <1>n DEF purge_read, purge_open, purge_fill, purge_task
    <2> QED BY <1>3, <2>1, <2>2, <2>3 DEF job_step
  <1>4. CASE StartsOfJob
    <2>1. PICK op, t, i : start_maintenance_job(op, t, i)
      BY <1>4 DEF StartsOfJob
    <2> QED BY <2>1, <1>m DEF start_maintenance_job, InLoop
  <1>5. CASE crash
    BY <1>5 DEF crash
  <1>6. CASE StartsCapture
    <2>1. goto("main", "capturing") /\ job.op = "none" /\ flash' = flash
      BY <1>6, CaptureStart
    <2>2. pc["job"] = "none"
      BY <2>1 DEF TypeInv, JobInv, JobPlace
    <2> QED BY <2>1, <2>2, <1>m
  <1> QED BY <1>1, <1>2, <1>3, <1>4, <1>5, <1>6, Steps

\* Flash gets the list only from a rename, after the tables.
LEMMA NextCopy ==
  ASSUME TypeInv, TxInv, CopyInv, [Next]_vars
  PROVE  /\ CopyInv'
         /\ \/ flash'.db = flash.db
            \/ /\ flash'.db = tmp /\ flash'.meta = flash.meta
               /\ \E p \in Threads : pc[p] = "sync_rename"
  <1>1. CASE UNCHANGED vars
    BY <1>1 DEF vars, CopyInv
  <1>2. ASSUME NEW p \in Threads, sync_step(p) PROVE \A q \in Threads : q # p => pc[q] \notin CopyPcs
    <2>1. pc[p] \in SyncPcs
      BY <1>2 DEF sync_step, sync_check, sync_backup, sync_meta, sync_rename, SyncPcs
    <2> QED BY <2>1 DEF TypeInv, JobInv, JobPlace, TxInv, Threads, SyncPcs, CopyPcs
  <1>3. CASE \E p \in Threads : sync_step(p)
    BY <1>2, <1>3, SyncCopies
  <1>4. CASE Next /\ ~\E p \in Threads : sync_step(p)
    <2>1. flash' = flash /\ \A p \in Threads : pc'[p] \notin CopyPcs
      BY <1>4, OthersDoNotCopy DEF Threads
    <2> QED BY <2>1 DEF CopyInv, CopyPcs
  <1> QED BY <1>1, <1>3, <1>4

LEMMA CopyInvariant == ASSUME OneAtATime PROVE Spec => []CopyInv
  <1>1. Init => CopyInv
    BY InitList
  <1>2. TypeInv /\ TxInv /\ CopyInv /\ [Next]_vars => CopyInv'
    BY NextCopy
  <1> QED BY <1>1, <1>2, TransactionsIsolated, PTL DEF Spec

\* When a list appears on flash, the tables that are there agree with it, when at most
\* one call of a commit fails and is known to.
THEOREM ReplicasAreComplete == ASSUME CommitsRecoverable PROVE Spec => ReplicaIsComplete
  <1> DEFINE Complete == \A r \in flash'.db.recs :
         \E s \in Slots : flash'.meta[r.ch][s] = [task |-> r.task, idx |-> r.idx, lba |-> r.lba]
  <1>1. OneAtATime /\ TablesOpen
    BY DEF CommitsRecoverable
  <1>2. TypeInv /\ TxInv /\ ReplicaInv /\ CaptureListInv /\ CopyInv /\ [Next]_vars
           => [flash'.db # flash.db => Complete]_vars
    <2> SUFFICES ASSUME TypeInv, TxInv, ReplicaInv, CaptureListInv, CopyInv, [Next]_vars,
                        flash'.db # flash.db, NEW r \in flash'.db.recs
                 PROVE  \E s \in Slots : flash'.meta[r.ch][s]
                                            = [task |-> r.task, idx |-> r.idx, lba |-> r.lba]
      OBVIOUS
    <2>1. PICK p \in Threads : flash'.db = tmp /\ flash'.meta = flash.meta /\ pc[p] = "sync_rename"
      BY NextCopy
    <2>2. tmp = saved /\ \A c \in Channels : flash.meta[c] = meta[c]
      BY <2>1 DEF ReplicaInv, CopyInv
    <2>3. Agree(saved.recs, meta)
      <3>1. \/ pc["main"] = "sync_rename" /\ pc["job"] = "none"
            \/ pc["main"] = "idle" /\ pc["job"] = "sync_rename"
        BY <2>1 DEF TypeInv, JobInv, JobPlace, TxInv, Threads
      <3> QED BY <3>1 DEF CaptureListInv, ClearPcs, SyncPcs
    <2>4. r \in saved.recs /\ r.ch \in Channels
      BY <2>1, <2>2 DEF TypeInv, DbInv, DbUpTo, Files
    <2> QED BY <2>1, <2>2, <2>3, <2>4 DEF Agree, Listed, EntryFor
  <1> QED BY <1>1, <1>2, TransactionsIsolated, ReplicaInvariant, ListInvariant, CopyInvariant, PTL
         DEF Spec, ReplicaIsComplete
=============================================================================
