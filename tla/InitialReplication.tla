------------------------ MODULE InitialReplication -------------------------
(***************************************************************************)
(* The initial phase of a db_replicator process: the tables of a MySQL     *)
(* database are copied in batches, ordered by primary key, into the        *)
(* database target_tmp, which then takes the place of target.  The copy of *)
(* a table is made by the process itself or by parallel worker processes.  *)
(* Progress is in state.pckl and in one state file per worker, from which  *)
(* a restart resumes.  Rows change in MySQL all the while; their events    *)
(* after last_processed_transaction are applied by realtime replication,   *)
(* which follows (module RealtimeReplication).                             *)
(*                                                                         *)
(* Tables are numbered in the order of SHOW TABLES.  A transaction_id is   *)
(* the index of the event in the log, and a row's value is the index of    *)
(* the event that wrote it.                                                *)
(*                                                                         *)
(* A MySQLApi keeps one connection for three minutes and never commits on  *)
(* it (autocommit is off, the isolation REPEATABLE READ): its reads come   *)
(* from the view of the rows that its first read opened.                   *)
(***************************************************************************)
EXTENDS Integers, Sequences, FiniteSets, FiniteSetsExt

CONSTANTS
    TableCount,    \* table names
    KeyCount,      \* primary keys
    InitialKeys,   \* the keys of the rows each table starts with
    BatchSize,     \* initial_replication_batch_size
    Setups,        \* threads (initial_replication_threads), number of tables,
                   \* and bounds: ALTER statements, restart_replication
                   \* requests and crashes of processes
    Renamed,       \* tables with another name in target_tables
    MaxLog         \* bound: writes to MySQL

Tables == 1..TableCount
Keys == 1..KeyCount
NoTable == 0
NoKey == 0
NoValue == -1
Statuses == {"none", "creating", "performing", "realtime"}
Points == {"down", "recreate", "create", "tables", "position", "structure", "perform",
           "table", "read", "insert", "save", "wait", "exchange", "rename_tmp",
           "drop_old", "finish", "realtime"}
WorkerPoints == {"start", "read", "insert", "save", "done", "failed"}

ASSUME InitialAssumption ==
    /\ TableCount \in Nat \ {0} /\ KeyCount \in Nat \ {0} /\ BatchSize \in Nat \ {0}
    /\ InitialKeys \subseteq Keys /\ Renamed \subseteq Tables
    /\ Setups \subseteq [threads : Nat \ {0}, tables : Tables,
                          alters : Nat, resets : Nat, crashes : Nat]
    /\ MaxLog \in Nat

VARIABLES
    log,         \* what MySQL wrote: a table and a key per event
    mysql,       \* the value of each row of MySQL
    structure,   \* the structure of each table of MySQL
    altered,     \* the ALTER statements of each table
    setup,       \* one of Setups
    dbs,         \* the databases of ClickHouse: target, tmp and old
    saved,       \* state.pckl
    worker_files,\* the state files of workers
    pc,          \* where the process is
    state,       \* its State object
    versions,    \* clickhouse_api.tables_last_record_version
    linked,      \* versions is the dict that state refers to
    at,          \* the table at hand
    max_pk,      \* max_primary_key
    batch,       \* the records read from MySQL
    view,        \* the view of MySQL that its connection has open, if any
    fresh,       \* save_state_if_required was not called in this run
    workers,     \* worker processes, also those whose parent is gone
    crashes, resets,
    marks        \* history: tables whose versions a crash took back ("versions"),
                 \* to which a worker without parent added rows after the
                 \* table was complete ("late"), or whose structure came back
                 \* to the one they are copied with ("returned"); events before
                 \* the saved position that are missing in the view open then
                 \* ("unseen"); that the process was ended in the exchange of
                 \* databases ("exchange")

source == <<log, mysql, structure, altered, setup>>
memory == <<state, versions, linked, at, max_pk, batch, view, fresh>>
bounds == <<crashes, resets>>
vars == <<source, dbs, saved, worker_files, pc, memory, workers, bounds, marks>>

threads == setup.threads

(* state.tables. *)
tables == 1..setup.tables

NoState == [status |-> "none", last |-> 0, table |-> NoTable, pk |-> NoKey,
            versions |-> [t \in Tables |-> 0], structure |-> [t \in Tables |-> -1]]
NoBatch == [k \in {} |-> [val |-> 0, st |-> 0]]
NoRow == [val |-> NoValue, ver |-> 0, st |-> 0]

(* A database without tables; also the target of an earlier replication,   *)
(* whose contents play no part.                                            *)
EmptyDb == [t \in {} |-> [st |-> 0, rows |-> [k \in Keys |-> NoRow]]]

(* f with v at x, and f without x. *)
With(f, x, v) == [y \in DOMAIN f \cup {x} |-> IF y = x THEN v ELSE f[y]]
Without(f, x) == [y \in DOMAIN f \ {x} |-> f[y]]

(* The databases after RENAME DATABASE d TO e. *)
RenameDatabase(d, e) == With(Without(dbs, d), e, dbs[d])

-----------------------------------------------------------------------------
(* MySQL: a row is written or deleted, a table is altered. *)

MySQLWrites ==
    \E t \in tables, k \in Keys :
      /\ Len(log) < MaxLog
      /\ log' = Append(log, <<t, k>>)
      /\ \/ mysql' = [mysql EXCEPT ![t][k] = Len(log) + 1]
         \/ mysql[t][k] # NoValue /\ mysql' = [mysql EXCEPT ![t][k] = NoValue]
      /\ UNCHANGED <<structure, altered, setup, dbs, saved, worker_files, pc, memory,
                     workers, bounds, marks>>

(* The structure the copy of t was created with. *)
StructureOf(t) == IF pc = "down" THEN saved.structure[t] ELSE state.structure[t]

(* An ALTER gives a table another structure, perhaps one it had before. *)
MySQLAlters ==
    \E t \in tables, st \in 0..setup.alters :
      /\ MapThenSumSet(LAMBDA u : altered[u], tables) < setup.alters
      /\ st # structure[t]
      /\ structure' = [structure EXCEPT ![t] = st]
      /\ altered' = [altered EXCEPT ![t] = @ + 1]
      /\ marks' = IF st = StructureOf(t) THEN marks \cup {<<t, "returned">>} ELSE marks
      /\ UNCHANGED <<log, mysql, setup, dbs, saved, worker_files, pc, memory,
                     workers, bounds>>

(* The view that a first read of a connection opens now. *)
Snapshot == [rows |-> mysql, altered |-> altered, last |-> Len(log)]

(* get_records: the next rows of t after pk in the view v, in the order of *)
(* the primary key, whose hash selects worker i of n.                      *)
Records(v, t, pk, i, n) ==
    LET after == {k \in Keys : k > pk /\ v.rows[t][k] # NoValue /\ k % n = i}
    IN  [k \in {j \in after : Cardinality({h \in after : h < j}) < BatchSize}
            |-> [val |-> v.rows[t][k], st |-> structure[t]]]

(* The views a connection with the views vs may read: the open one, or     *)
(* none was open, or reconnect_if_required closed it.                      *)
Readable(vs) == vs \cup {Snapshot}

(* MySQL may refuse to read a table altered since the view was opened. *)
ReadRefusable(vs, t) == \E v \in vs : v.altered[t] # altered[t]

(* Mutated form: the copy continues one key further. *)
LastKeyPlusOne(b) == Max(DOMAIN b) + 1

(* get_last_record_primary_key. *)
LastKey(b) == Max(DOMAIN b)

-----------------------------------------------------------------------------
(* ClickHouse. *)

(* insert gives the records of a batch the versions after last, and the    *)
(* row with the highest version wins, the later one of two equal ones.     *)
Inserted(rows, b, last) ==
    [k \in Keys |->
       IF k \in DOMAIN b
         THEN LET ver == last + 1 + Cardinality({j \in DOMAIN b : j < k})
              IN  IF ver >= rows[k].ver
                    THEN [val |-> b[k].val, ver |-> ver, st |-> b[k].st]
                    ELSE rows[k]
         ELSE rows[k]]
LastVersion(b, last) == last + 1 + Cardinality(DOMAIN b)

InsertAccepted(t, b, last) ==
    /\ "tmp" \in DOMAIN dbs /\ t \in DOMAIN dbs["tmp"]
    /\ dbs' = [dbs EXCEPT !["tmp"][t].rows = Inserted(@, b, last)]

(* Records that do not fit the structure of the table may be refused. *)
InsertRefused(t, b) ==
    ~ /\ "tmp" \in DOMAIN dbs /\ t \in DOMAIN dbs["tmp"]
      /\ \A k \in DOMAIN b : b[k].st = dbs["tmp"][t].st

-----------------------------------------------------------------------------
(* The process and its state. *)

(* State.save of the state s. *)
Save(s) == state' = s /\ saved' = s

(* The process is gone, and its memory with it. *)
MemoryGone ==
    /\ pc' = "down"
    /\ state' = NoState /\ versions' = NoState.versions /\ linked' = TRUE
    /\ at' = NoTable /\ max_pk' = NoKey /\ batch' = NoBatch /\ fresh' = TRUE
    /\ view' = {}

(* The mark of a process that ends in the exchange of databases, after the *)
(* first RENAME and before the state says that it is over.                 *)
Interrupted ==
    IF pc \in {"rename_tmp", "drop_old", "finish"} /\ saved.status # "realtime"
      THEN {<<NoTable, "exchange">>} ELSE {}

(* The process ends.  Its workers do not: they have no parent now. *)
ProcessEnds ==
    /\ MemoryGone
    /\ workers' = {[w EXCEPT !.own = FALSE] :
                     w \in {v \in workers : v.pc \notin {"done", "failed"}}}
    /\ marks' = marks \cup {<<t, "versions">> :
                             t \in {u \in Tables : versions[u] # saved.versions[u]}}
                      \cup Interrupted

(* An unhandled exception ends the process. *)
Raise == ProcessEnds /\ UNCHANGED <<source, dbs, saved, worker_files, bounds>>

Init ==
    /\ setup \in Setups
    /\ log = <<>>
    /\ mysql = [t \in Tables |-> [k \in Keys |->
                IF t \in tables /\ k \in InitialKeys THEN 0 ELSE NoValue]]
    /\ structure = [t \in Tables |-> 0] /\ altered = [t \in Tables |-> 0]
    /\ \E names \in {{}, {"target"}} : dbs = [d \in names |-> EmptyDb]
    /\ saved = NoState
    /\ worker_files = [f \in {} |-> [pk |-> NoKey, ver |-> 0]]
    /\ pc = "down"
    /\ state = NoState /\ versions = NoState.versions /\ linked = TRUE
    /\ at = NoTable /\ max_pk = NoKey /\ batch = NoBatch /\ fresh = TRUE
    /\ view = {}
    /\ workers = {}
    /\ crashes = 0 /\ resets = 0
    /\ marks = {}

(* The process starts.  Without target and target_tmp it forgets its       *)
(* state, but clickhouse_api keeps the versions of that state.             *)
Start ==
    /\ pc = "down"
    /\ versions' = saved.versions
    /\ LET missing == /\ saved.status # "none"
                      /\ "target" \notin DOMAIN dbs /\ "tmp" \notin DOMAIN dbs
           s == IF missing THEN NoState ELSE saved
       IN  /\ state' = s
           /\ saved' = s
           /\ linked' = ~missing
           /\ pc' = CASE s.status = "realtime" -> "finish"
                      [] s.status = "performing" -> "perform"
                      [] OTHER -> "recreate"
    /\ UNCHANGED <<source, dbs, worker_files, at, max_pk, batch, view, fresh,
                   workers, bounds, marks>>

(* Mutated form: target_tmp is created without a DROP, which ClickHouse    *)
(* refuses when an earlier attempt left it.                                *)
DropTmpMissing ==
    /\ pc = "recreate"
    /\ \/ "tmp" \in DOMAIN dbs /\ Raise
       \/ /\ "tmp" \notin DOMAIN dbs
          /\ pc' = "create"
          /\ UNCHANGED <<source, dbs, saved, worker_files, memory, workers, bounds, marks>>

(* recreate_database drops target_tmp and creates it. *)
DropTmp ==
    /\ pc = "recreate"
    /\ dbs' = Without(dbs, "tmp")
    /\ pc' = "create"
    /\ marks' = marks \cap {<<NoTable, "exchange">>}
    /\ UNCHANGED <<source, saved, worker_files, memory, workers, bounds>>

CreateTmp ==
    /\ pc = "create"
    /\ dbs' = With(dbs, "tmp", EmptyDb)
    /\ pc' = "tables"
    /\ UNCHANGED <<source, saved, worker_files, memory, workers, bounds, marks>>

(* get_tables.  Whether SHOW FULL TABLES opens the view of the connection  *)
(* is up to the server; a process with workers reads no rows.              *)
ListTables ==
    /\ pc = "tables"
    /\ view' \in (IF threads = 1 THEN {{}, {Snapshot}} ELSE {{}})
    /\ pc' = "position"
    /\ UNCHANGED <<source, dbs, saved, worker_files, state, versions, linked, at,
                   max_pk, batch, fresh, workers, bounds, marks>>

(* The events up to id that the open view does not have. *)
Unseen(id) == {n \in 1..id : \E v \in view : n > v.last}

(* The position to start from is the last event of the last relay file:    *)
(* the relay is behind MySQL, repeats events after a restart of            *)
(* binlog_replicator, and its last file may be empty.                      *)
NotePosition ==
    \E id \in 0..Len(log) :
      /\ pc = "position"
      /\ Save([state EXCEPT !.last = id])
      /\ pc' = "structure" /\ at' = 1
      /\ marks' = marks \cup {<<n, "unseen">> : n \in Unseen(id)}
      /\ UNCHANGED <<source, dbs, worker_files, versions, linked, max_pk, batch,
                     view, fresh, workers, bounds>>

(* create_initial_structure, table by table. *)
CreateTable ==
    /\ pc = "structure" /\ at \in tables
    /\ dbs' = IF at \in DOMAIN dbs["tmp"] THEN dbs
              ELSE [dbs EXCEPT !["tmp"] =
                      With(@, at, [st |-> structure[at], rows |-> [k \in Keys |-> NoRow]])]
    /\ state' = [state EXCEPT !.status = "creating", !.structure[at] = structure[at]]
    /\ at' = at + 1
    /\ marks' = marks \ {<<at, "returned">>}
    /\ UNCHANGED <<source, saved, worker_files, pc, versions, linked, max_pk, batch,
                   view, fresh, workers, bounds>>

StructureCreated ==
    /\ pc = "structure" /\ at \notin tables
    /\ Save(state)
    /\ pc' = "perform"
    /\ UNCHANGED <<source, dbs, worker_files, versions, linked, at, max_pk, batch,
                   view, fresh, workers, bounds, marks>>

(* perform_initial_replication begins, at the saved table if there is one. *)
Perform ==
    /\ pc = "perform"
    /\ Save([state EXCEPT !.status = "performing"])
    /\ at' = IF state.table = NoTable THEN 1 ELSE state.table
    /\ pc' = "table"
    /\ UNCHANGED <<source, dbs, worker_files, versions, linked, max_pk, batch, view,
                   fresh, workers, bounds, marks>>

-----------------------------------------------------------------------------
(* The copy of a table by the process itself. *)

(* Mutated form: the table after the first one continues from the last     *)
(* primary key of the one before.                                          *)
BeginTableKeepingKey ==
    /\ pc = "table" /\ at \in tables /\ threads = 1
    /\ max_pk' = state.pk
    /\ IF state.table = at THEN UNCHANGED <<state, saved>>
       ELSE Save([state EXCEPT !.table = at])
    /\ pc' = "read"
    /\ UNCHANGED <<source, dbs, worker_files, versions, linked, at, batch, view,
                   fresh, workers, bounds, marks>>

BeginTable ==
    /\ pc = "table" /\ at \in tables /\ threads = 1
    /\ IF state.table = at
         THEN max_pk' = state.pk /\ UNCHANGED <<state, saved>>
         ELSE max_pk' = NoKey /\ Save([state EXCEPT !.table = at, !.pk = NoKey])
    /\ pc' = "read"
    /\ UNCHANGED <<source, dbs, worker_files, versions, linked, at, batch, view,
                   fresh, workers, bounds, marks>>

ReadBatch ==
    \E v \in Readable(view) :
      /\ pc = "read"
      /\ batch' = Records(v, at, max_pk, 0, 1)
      /\ DOMAIN batch' # {}
      /\ view' = {v}
      /\ pc' = "insert"
      /\ UNCHANGED <<source, dbs, saved, worker_files, state, versions, linked, at,
                     max_pk, fresh, workers, bounds, marks>>

ReadRefused == pc = "read" /\ ReadRefusable(view, at) /\ Raise

InsertBatch ==
    /\ pc = "insert"
    /\ InsertAccepted(at, batch, versions[at])
    /\ versions' = [versions EXCEPT ![at] = LastVersion(batch, @)]
    /\ max_pk' = LastKey(batch)
    /\ batch' = NoBatch
    /\ state' = [state EXCEPT !.pk = max_pk',
                              !.versions = IF linked THEN versions' ELSE @]
    /\ pc' = "save"
    /\ UNCHANGED <<source, saved, worker_files, linked, at, view, fresh, workers,
                   bounds, marks>>

InsertBatchRefused == pc = "insert" /\ InsertRefused(at, batch) /\ Raise

(* save_state_if_required when it is due: the state takes the versions of  *)
(* clickhouse_api.                                                         *)
SaveDue ==
    /\ Save([state EXCEPT !.versions = versions])
    /\ linked' = TRUE /\ fresh' = FALSE

SaveAfterBatch ==
    /\ pc = "save"
    /\ SaveDue \/ (~fresh /\ UNCHANGED <<state, saved, linked, fresh>>)
    /\ pc' = "read"
    /\ UNCHANGED <<source, dbs, worker_files, versions, at, max_pk, batch, view,
                   workers, bounds, marks>>

FinishTable ==
    \E v \in Readable(view) :
      /\ pc = "read"
      /\ DOMAIN Records(v, at, max_pk, 0, 1) = {}
      /\ view' = {v}
      /\ SaveDue
      /\ at' = at + 1
      /\ pc' = "table"
      /\ UNCHANGED <<source, dbs, worker_files, versions, max_pk, batch, workers,
                     bounds, marks>>

-----------------------------------------------------------------------------
(* The copy of a table by parallel workers. *)

NewWorker(t, i) == [table |-> t, id |-> i, own |-> TRUE, pc |-> "start", pk |-> NoKey,
                    ver |-> 0, batch |-> NoBatch, view |-> {}, fresh |-> TRUE]

LaunchWorkers ==
    /\ pc = "table" /\ at \in tables /\ threads > 1
    /\ Save([state EXCEPT !.table = at, !.pk = NoKey])
    /\ workers' = workers \cup {NewWorker(at, i) : i \in 0..(threads - 1)}
    /\ pc' = "wait"
    /\ UNCHANGED <<source, dbs, worker_files, versions, linked, at, max_pk, batch,
                   view, fresh, bounds, marks>>

(* Worker w goes on as v; an orphan that is done is gone. *)
Becomes(w, v) ==
    workers' = (workers \ {w}) \cup
               (IF v.pc \in {"done", "failed"} /\ ~v.own THEN {} ELSE {v})

File(w) == <<w.table, w.id>>
Progress(w) == [pk |-> w.pk, ver |-> w.ver]

(* A worker starts: it resumes from its state file as long as the database *)
(* it writes to exists.  Its view may be as old as get_tables.             *)
WorkerStarts(w) ==
    LET found == File(w) \in DOMAIN worker_files
        file == worker_files[File(w)]
        resumes == found /\ "tmp" \in DOMAIN dbs
        v == [w EXCEPT !.pc = "read", !.view = {Snapshot},
                       !.pk = IF resumes THEN file.pk ELSE NoKey,
                       !.ver = IF found THEN file.ver ELSE 0]
    IN  /\ w.pc = "start"
        /\ worker_files' = With(worker_files, File(w), Progress(v))
        /\ Becomes(w, v)
        /\ UNCHANGED <<source, dbs, saved, pc, memory, bounds, marks>>

WorkerRecords(w, v) == Records(v, w.table, w.pk, w.id, threads)

WorkerReads(w) ==
    \E v \in Readable(w.view) :
      /\ w.pc = "read"
      /\ DOMAIN WorkerRecords(w, v) # {}
      /\ Becomes(w, [w EXCEPT !.pc = "insert", !.batch = WorkerRecords(w, v),
                              !.view = {v}])
      /\ UNCHANGED <<source, dbs, saved, worker_files, pc, memory, bounds, marks>>

WorkerReadRefused(w) ==
    /\ w.pc = "read"
    /\ ReadRefusable(w.view, w.table)
    /\ Becomes(w, [w EXCEPT !.pc = "failed", !.view = {}])
    /\ UNCHANGED <<source, dbs, saved, worker_files, pc, memory, bounds, marks>>

WorkerInserts(w) ==
    /\ w.pc = "insert"
    /\ InsertAccepted(w.table, w.batch, w.ver)
    /\ Becomes(w, [w EXCEPT !.pc = "save", !.batch = NoBatch, !.pk = LastKey(w.batch),
                            !.ver = LastVersion(w.batch, @)])
    /\ marks' = IF ~w.own /\ (at > w.table \/ saved.table # w.table)
                  THEN marks \cup {<<w.table, "late">>} ELSE marks
    /\ UNCHANGED <<source, saved, worker_files, pc, memory, bounds>>

WorkerRefused(w) ==
    /\ w.pc = "insert"
    /\ InsertRefused(w.table, w.batch)
    /\ Becomes(w, [w EXCEPT !.pc = "failed", !.view = {}])
    /\ UNCHANGED <<source, dbs, saved, worker_files, pc, memory, bounds, marks>>

WorkerSaves(w) ==
    /\ w.pc = "save"
    /\ \/ worker_files' = With(worker_files, File(w), Progress(w))
       \/ ~w.fresh /\ UNCHANGED worker_files
    /\ Becomes(w, [w EXCEPT !.pc = "read", !.fresh = FALSE])
    /\ UNCHANGED <<source, dbs, saved, pc, memory, bounds, marks>>

(* After the last batch a worker removes its state file. *)
WorkerFinishes(w) ==
    \E v \in Readable(w.view) :
      /\ w.pc = "read"
      /\ DOMAIN WorkerRecords(w, v) = {}
      /\ worker_files' = Without(worker_files, File(w))
      /\ Becomes(w, [w EXCEPT !.pc = "done", !.view = {}])
      /\ UNCHANGED <<source, dbs, saved, pc, memory, bounds, marks>>

WorkerStep(w) ==
    \/ WorkerStarts(w) \/ WorkerReads(w) \/ WorkerReadRefused(w)
    \/ WorkerInserts(w) \/ WorkerRefused(w) \/ WorkerSaves(w) \/ WorkerFinishes(w)

WorkerCrash(w) ==
    /\ crashes < setup.crashes /\ crashes' = crashes + 1
    /\ w.pc \notin {"done", "failed"}
    /\ Becomes(w, [w EXCEPT !.pc = "failed", !.view = {}])
    /\ UNCHANGED <<source, dbs, saved, worker_files, pc, memory, resets, marks>>

Own == {w \in workers : w.own}

WorkerFailed == pc = "wait" /\ (\E w \in Own : w.pc = "failed") /\ Raise

(* Mutated form: the versions of the workers stay with them. *)
UnconsolidatedVersions(t) == state.versions

(* consolidate_worker_record_versions: the highest version of the table in *)
(* ClickHouse is kept under the name the table has in MySQL, which is not  *)
(* the one insert looks up if the table is renamed.                        *)
ConsolidatedVersions(t) ==
    LET vers == {dbs["tmp"][t].rows[k].ver : k \in Keys}
        known == "tmp" \in DOMAIN dbs /\ t \in DOMAIN dbs["tmp"]
    IN  IF known /\ t \notin Renamed /\ Max(vers) > state.versions[t]
          THEN [state.versions EXCEPT ![t] = Max(vers)] ELSE state.versions

WorkersDone ==
    /\ pc = "wait" /\ \A w \in Own : w.pc = "done"
    /\ workers' = workers \ Own
    /\ Save([state EXCEPT !.versions = ConsolidatedVersions(at)])
    /\ versions' = IF linked THEN ConsolidatedVersions(at) ELSE versions
    /\ at' = at + 1
    /\ pc' = "table"
    /\ UNCHANGED <<source, dbs, worker_files, linked, max_pk, batch, view, fresh,
                   bounds, marks>>

-----------------------------------------------------------------------------
(* The end of the initial replication. *)

(* Mutated form: only the table copied last is compared. *)
VerifiedLast(s) == s.structure[s.table] = structure[s.table]

(* verify_table_structures_after_replication. *)
Verified(s) == \A t \in tables : s.structure[t] = structure[t]

Verify ==
    /\ pc = "table" /\ at \notin tables
    /\ Verified(state)
    /\ pc' = "exchange"
    /\ UNCHANGED <<source, dbs, saved, worker_files, memory, workers, bounds, marks>>

VerifyFails == pc = "table" /\ at \notin tables /\ ~Verified(state) /\ Raise

(* RENAME DATABASE target TO target_old, if there is a target. *)
RenameTarget ==
    /\ pc = "exchange" /\ "target" \in DOMAIN dbs
    /\ "old" \notin DOMAIN dbs
    /\ dbs' = RenameDatabase("target", "old")
    /\ pc' = "rename_tmp"
    /\ UNCHANGED <<source, saved, worker_files, memory, workers, bounds, marks>>

(* RENAME DATABASE target_tmp TO target. *)
RenameTmp ==
    /\ \/ pc = "rename_tmp" /\ pc' = "drop_old"
       \/ pc = "exchange" /\ "target" \notin DOMAIN dbs /\ pc' = "finish"
    /\ "tmp" \in DOMAIN dbs
    /\ dbs' = RenameDatabase("tmp", "target")
    /\ UNCHANGED <<source, saved, worker_files, memory, workers, bounds, marks>>

(* ClickHouse refuses a RENAME of a database that does not exist, and one  *)
(* to a name that does.                                                    *)
RenameRefused ==
    /\ \/ pc = "exchange" /\ {"target", "old"} \subseteq DOMAIN dbs
       \/ pc = "rename_tmp" /\ "tmp" \notin DOMAIN dbs
    /\ Raise

DropOld ==
    /\ pc = "drop_old"
    /\ dbs' = Without(dbs, "old")
    /\ pc' = "finish"
    /\ UNCHANGED <<source, saved, worker_files, memory, workers, bounds, marks>>

(* run_realtime_replication begins. *)
RunRealtime ==
    /\ pc = "finish"
    /\ Save([state EXCEPT !.status = "realtime"])
    /\ pc' = "realtime"
    /\ UNCHANGED <<source, dbs, worker_files, versions, linked, at, max_pk, batch,
                   view, fresh, workers, bounds, marks>>

(* Realtime replication goes on. *)
Realtime == pc = "realtime" /\ UNCHANGED vars

-----------------------------------------------------------------------------
(* Failures and requests. *)

Crash ==
    /\ crashes < setup.crashes /\ crashes' = crashes + 1
    /\ pc # "down"
    /\ ProcessEnds
    /\ UNCHANGED <<source, dbs, saved, worker_files, resets>>

(* restart_replication_if_required interrupts the process, which           *)
(* terminates its workers, and removes state.pckl.                         *)
RestartReplication ==
    /\ resets < setup.resets /\ resets' = resets + 1
    /\ MemoryGone
    /\ workers' = workers \ Own
    /\ saved' = NoState
    /\ marks' = marks \cup Interrupted
    /\ UNCHANGED <<source, dbs, worker_files, crashes>>

Main ==
    \/ Start \/ DropTmp \/ CreateTmp \/ ListTables \/ NotePosition \/ CreateTable
    \/ StructureCreated \/ Perform \/ BeginTable \/ ReadBatch \/ ReadRefused \/ InsertBatch \/ InsertBatchRefused
    \/ SaveAfterBatch \/ FinishTable \/ LaunchWorkers \/ WorkerFailed \/ WorkersDone
    \/ Verify \/ VerifyFails \/ RenameTarget \/ RenameTmp \/ RenameRefused \/ DropOld
    \/ RunRealtime \/ Realtime

Workers == \E w \in workers : WorkerStep(w)

Next ==
    \/ MySQLWrites \/ MySQLAlters
    \/ Main \/ Workers
    \/ Crash \/ (\E w \in workers : WorkerCrash(w)) \/ RestartReplication

Spec == Init /\ [][Next]_vars

(* The runner restarts a process that has ended, and a worker that has not *)
(* ended goes on.                                                          *)
FairSpec ==
    /\ Spec
    /\ WF_vars(Main)
    /\ \A i \in 0..(Max({s.threads : s \in Setups}) - 1) :
         WF_vars(\E w \in workers : w.own /\ w.id = i /\ WorkerStep(w))

-----------------------------------------------------------------------------
(* Properties. *)

Marks == (Tables \X {"versions", "late", "returned"}) \cup ((1..MaxLog) \X {"unseen"})
         \cup {<<NoTable, "exchange">>}

(* The variables have their types. *)
TypeOK ==
    /\ mysql \in [Tables -> [Keys -> -1..MaxLog]]
    /\ Len(log) <= MaxLog
    /\ structure \in [Tables -> 0..setup.alters] /\ altered \in [Tables -> Nat]
    /\ setup \in Setups
    /\ DOMAIN dbs \subseteq {"target", "tmp", "old"}
    /\ \A d \in DOMAIN dbs : DOMAIN dbs[d] \subseteq Tables
    /\ {saved.status, state.status} \subseteq Statuses
    /\ {saved.table, state.table} \subseteq Tables \cup {NoTable}
    /\ {saved.pk, state.pk, max_pk} \subseteq Keys \cup {NoKey}
    /\ linked => state.versions = versions
    /\ DOMAIN worker_files \subseteq Tables \X (0..(threads - 1))
    /\ pc \in Points
    /\ at \in 0..(TableCount + 1)
    /\ DOMAIN batch \subseteq Keys
    /\ \A v \in view : v.rows \in [Tables -> [Keys -> -1..MaxLog]] /\ view = {v}
    /\ \A w \in workers : w.pc \in WorkerPoints /\ w.table \in Tables
    /\ Cardinality(Own) = IF pc = "wait" THEN threads ELSE 0
    /\ marks \subseteq Marks

(* The value of a row in database d. *)
Value(d, t, k) ==
    IF t \in DOMAIN d THEN d[t].rows[k].val ELSE NoValue

(* An event after id is about row k of t. *)
EventAfter(id, t, k) == \E n \in (id + 1)..Len(log) : log[n] = <<t, k>>

Exchanged == pc \in {"drop_old", "finish", "realtime"} \/ saved.status = "realtime"

(* An event about the row came after the tables were listed and before the *)
(* position was noted: the copy read a view that does not have it, and     *)
(* realtime replication starts after it.                                   *)
EventUnseen(t, k) ==
    \E n \in 1..Len(log) : log[n] = <<t, k>> /\ <<n, "unseen">> \in marks

(* The row has the value of MySQL, or an event about it follows the        *)
(* position realtime replication starts from.                              *)
RowCovered(t, k) ==
    Value(dbs["target"], t, k) = mysql[t][k] \/ EventAfter(saved.last, t, k)

(* Whatever was interrupted, resumed and copied twice, the copy and the    *)
(* events realtime replication starts with give every row of MySQL, but    *)
(* for the rows of unseen events.                                          *)
SnapshotCovered ==
    Exchanged =>
      /\ "target" \in DOMAIN dbs
      /\ \A t \in Tables, k \in Keys : RowCovered(t, k) \/ EventUnseen(t, k)

(* The rows in a table of the copy were read when the table in MySQL had   *)
(* the structure that its table in ClickHouse was created with.            *)
OneStructure(table) ==
    \A k \in Keys : table.rows[k].val = NoValue \/ table.rows[k].st = table.st

(* No table of the copy mixes structures, unless a worker without parent   *)
(* added rows after the structures were compared, or the structure came    *)
(* back to the first one before they were.                                 *)
SnapshotUnmixed ==
    Exchanged =>
      \A t \in DOMAIN dbs["target"] :
        OneStructure(dbs["target"][t]) \/ {<<t, "late">>, <<t, "returned">>} \cap marks # {}

(* The reasons for which the versions of rows may be ahead of the ones     *)
(* realtime replication continues from: the process was lost before it     *)
(* saved them, or an orphaned worker inserted rows after they were         *)
(* consolidated; the workers copied a table that is renamed; or            *)
(* clickhouse_api has another dict than the state.                         *)
VersionsLost(t) ==
    \/ {<<t, "versions">>, <<t, "late">>} \cap marks # {}
    \/ threads > 1 /\ (t \in Renamed \/ ~linked)

(* When realtime replication starts, what it inserts wins over the rows of *)
(* the copy.                                                               *)
VersionsCover ==
    pc = "realtime" =>
      \A t \in Tables, k \in Keys :
        t \in DOMAIN dbs["target"] /\ ~VersionsLost(t) =>
          dbs["target"][t].rows[k].ver <= versions[t]

Altered == \E t \in Tables : altered[t] > 0

(* Whatever is lost, interrupted or requested, the initial replication     *)
(* ends, unless a table was altered or the process was ended between the   *)
(* first RENAME of the exchange and the state that says it is over.        *)
EventuallyRealtime ==
    <>[](pc = "realtime" \/ Altered \/ <<NoTable, "exchange">> \in marks)

-----------------------------------------------------------------------------
(* The inductive invariant, for the proofs. *)

RowType == [val : -1..MaxLog, ver : Nat, st : Nat]
TableType == [st : Nat, rows : [Keys -> RowType]]
StateType == [status : Statuses, last : Nat, table : Tables \cup {NoTable},
              pk : Keys \cup {NoKey}, versions : [Tables -> Nat],
              structure : [Tables -> Nat \cup {-1}]]
IsBatch(b) == \E S \in SUBSET Keys : b \in [S -> [val : 0..MaxLog, st : Nat]]
IsView(v) == /\ v \in [rows : {v.rows}, altered : {v.altered}, last : {v.last}]
             /\ v.rows \in [Tables -> [Keys -> -1..MaxLog]]
AreViews(vs) == \A v \in vs : IsView(v) /\ vs = {v}
WorkersWith(b, vs) ==
    [table : tables, id : 0..(threads - 1), own : BOOLEAN, pc : WorkerPoints,
     pk : Keys \cup {NoKey}, ver : Nat, batch : {b}, view : {vs}, fresh : BOOLEAN]
WorkerType(w) ==
    /\ w \in WorkersWith(w.batch, w.view)
    /\ AreViews(w.view)
    /\ IsBatch(w.batch) /\ (w.pc = "insert" => DOMAIN w.batch # {})

SourceTypes ==
    /\ setup \in Setups
    /\ log \in Seq(tables \X Keys) /\ Len(log) <= MaxLog
    /\ mysql \in [Tables -> [Keys -> -1..MaxLog]]
    /\ \A t \in Tables \ tables : \A k \in Keys : mysql[t][k] = NoValue
    /\ structure \in [Tables -> 0..setup.alters] /\ altered \in [Tables -> Nat]

IsDb(d) ==
    /\ DOMAIN d \subseteq tables /\ d \in [DOMAIN d -> TableType]
    /\ \A t \in DOMAIN d : \A k \in Keys :
         d[t].rows[k].val = NoValue => d[t].rows[k].ver = 0
DbTypes ==
    /\ DOMAIN dbs \subseteq {"target", "tmp", "old"}
    /\ dbs = [d \in DOMAIN dbs |-> dbs[d]]
    /\ \A d \in DOMAIN dbs : IsDb(dbs[d])

StateTypes ==
    /\ {saved, state} \subseteq StateType
    /\ {saved.table, state.table} \subseteq tables \cup {NoTable}
    /\ versions \in [Tables -> Nat] /\ linked \in BOOLEAN
    /\ linked => state.versions = versions
MemoryTypes ==
    /\ pc \in Points
    /\ at \in 0..(setup.tables + 1)
    /\ max_pk \in Keys \cup {NoKey}
    /\ IsBatch(batch) /\ (pc = "insert" => DOMAIN batch # {})
    /\ AreViews(view) /\ (pc = "down" => view = {})
    /\ fresh \in BOOLEAN /\ crashes \in Nat /\ resets \in Nat
    /\ marks \subseteq Marks
WorkerTypes ==
    /\ DOMAIN worker_files \subseteq tables \X (0..(threads - 1))
    /\ worker_files \in [DOMAIN worker_files -> [pk : Keys \cup {NoKey}, ver : Nat]]
    /\ \A w \in workers : WorkerType(w)

(* Without threads there are no workers, and none have left a file.        *)
NoWorkers == threads = 1 => workers = {} /\ DOMAIN worker_files = {}

(* One worker per number belongs to a process that waits, and no other.    *)
OwnWorkers ==
    /\ pc = "wait" => \A i \in 0..(threads - 1) : \E w \in Own : w.id = i
    /\ pc = "wait" => \A v, w \in Own : v.id = w.id => v = w
    /\ \A w \in Own : pc = "wait" /\ w.table = at

Starting == {"recreate", "create", "tables", "position", "structure"}
Reading == {"read", "insert", "save"}
Ending == {"exchange", "rename_tmp", "drop_old"}

(* How far the process is, in its memory and in state.pckl. *)
Control ==
    /\ saved.status \in {"none", "creating"} => saved.table = NoTable /\ saved.pk = NoKey
    /\ pc # "down" => /\ state.last = saved.last /\ state.table = saved.table
    /\ pc \notin {"down", "structure"} =>
         state.status = saved.status /\ state.structure = saved.structure
    /\ pc \in Starting => saved.status \in {"none", "creating"} /\ state.pk = NoKey
    /\ pc = "structure" => state.status \in {"none", "creating"} /\ at # 0
    /\ pc = "perform" => saved.status # "realtime"
    /\ pc \in Reading \cup Ending \cup {"table", "wait"} => saved.status = "performing"
    /\ pc = "finish" => saved.status \in {"performing", "realtime"}
    /\ pc = "realtime" => saved.status = "realtime"
    /\ pc = "table" => /\ at # 0
                       /\ saved.table = at \/ saved.table + 1 = at
    /\ pc \in Reading \cup {"wait"} => at \in tables /\ saved.table = at
    /\ pc \in Ending => at = setup.tables + 1
    /\ pc \in Reading => threads = 1
    /\ pc = "wait" => threads # 1
    /\ pc = "save" => state.pk = max_pk
    /\ threads # 1 => {saved.pk, state.pk} = {NoKey}
    /\ threads # 1 /\ pc # "down" => state.versions = saved.versions

InterruptedExchange == <<NoTable, "exchange">> \in marks

(* Which databases there are. *)
Databases ==
    /\ pc \in {"tables", "position", "structure"} => "tmp" \in DOMAIN dbs
    /\ pc \in {"tables", "position"} => DOMAIN dbs["tmp"] = {}
    /\ pc = "structure" => \A t \in DOMAIN dbs["tmp"] : t < at
    /\ Exchanged => "target" \in DOMAIN dbs
    /\ pc \in {"drop_old", "finish"} /\ saved.status = "performing" => "tmp" \notin DOMAIN dbs
    /\ saved.status = "performing" \/ pc = "perform" =>
         \/ "tmp" \in DOMAIN dbs \/ pc \in {"drop_old", "finish"} \/ InterruptedExchange

(* The workers are those of one copy: no restart_replication request and   *)
(* no interrupted exchange, either of which may start another copy beside  *)
(* the state files and the orphans of the first.                           *)
OneCopy == threads # 1 => resets = 0 /\ ~InterruptedExchange

WorkersOfCopy ==
    OneCopy /\ (workers # {} \/ DOMAIN worker_files # {}) =>
      saved.status \in {"performing", "realtime"}

(* The copy in target_tmp counts. *)
Copying ==
    /\ "tmp" \in DOMAIN dbs
    /\ IF pc = "down" THEN saved.status = "performing"
       ELSE pc \in Reading \cup {"structure", "perform", "table", "wait", "exchange", "rename_tmp"}

(* The value v of a row is the one of MySQL, or an event will change it or *)
(* was not seen.                                                           *)
Kept(v, t, k) ==
    v = mysql[t][k] \/ EventAfter(saved.last, t, k) \/ EventUnseen(t, k)

(* An open view is Kept, and one that was opened when the tables were      *)
(* listed lacks no events but those that follow it.                        *)
ViewKept(v) == \A t \in tables, k \in Keys : Kept(v.rows[t][k], t, k)
ViewRecent(v) ==
    /\ v.last \in Nat /\ v.last <= Len(log)
    /\ \A t \in tables, k \in Keys : v.rows[t][k] = mysql[t][k] \/ EventAfter(v.last, t, k)

RowKept(d, t, k) == Kept(Value(dbs[d], t, k), t, k)

(* The tables that are copied. *)
Done(t) ==
    \/ t < saved.table
    \/ pc \in Ending \cup {"table"} /\ t < at

(* What a batch read after key pk will leave behind.                       *)
BatchKept(b, t, pk, i, n) ==
    /\ \A k \in DOMAIN b : Kept(b[k].val, t, k)
    /\ \A k \in Keys \ DOMAIN b :
         k % n = i /\ k > pk /\ k <= LastKey(b) => Kept(NoValue, t, k)

RowsGood ==
    \A t \in tables, k \in Keys :
      /\ Value(dbs["tmp"], t, k) = NoValue \/ RowKept("tmp", t, k)
      /\ Done(t) => RowKept("tmp", t, k)
ProgressKept ==
    /\ saved.table # NoTable =>
         \A k \in Keys :
           \/ k <= saved.pk
           \/ pc # "down" /\ k <= state.pk
           \/ pc \in Reading /\ k <= max_pk
           => RowKept("tmp", saved.table, k)
    /\ pc = "insert" => BatchKept(batch, at, max_pk, 0, 1)
FilesKept ==
    \A f \in DOMAIN worker_files : \A k \in Keys :
      k % threads = f[2] /\ k <= worker_files[f].pk => RowKept("tmp", f[1], k)
WorkerKept(w) ==
    /\ \A k \in Keys :
         k % threads = w.id /\ (k <= w.pk \/ w.pc = "done") => RowKept("tmp", w.table, k)
    /\ w.pc = "insert" => BatchKept(w.batch, w.table, w.pk, w.id, threads)
    /\ \A v \in w.view : ViewKept(v)
CopyKept == RowsGood /\ ProgressKept /\ FilesKept /\ \A w \in workers : WorkerKept(w)

SnapshotInv ==
    /\ saved.last <= Len(log)
    /\ pc = "position" => \A v \in view : ViewRecent(v)
    /\ Copying => \A v \in view : ViewKept(v)
    /\ OneCopy /\ Copying => CopyKept
    /\ OneCopy /\ Exchanged => \A t \in tables, k \in Keys : RowKept("target", t, k)

(* Table t has the structure it is copied with and has always had it.      *)
(* What is read under it, and what is in the copy, has that structure.     *)
Unaltered(t) == structure[t] = StructureOf(t) /\ <<t, "returned">> \notin marks
BatchUnmixed(b, t) ==
    t \in DOMAIN dbs["tmp"] /\ Unaltered(t) =>
      \A k \in DOMAIN b : b[k].st = dbs["tmp"][t].st
RowsUnmixed(d) ==
    \A t \in DOMAIN dbs[d] :
      OneStructure(dbs[d][t]) \/ {<<t, "late">>, <<t, "returned">>} \cap marks # {}

TablesUnmixed ==
    \A t \in DOMAIN dbs["tmp"] :
      /\ dbs["tmp"][t].st = StructureOf(t)
      /\ Unaltered(t) => OneStructure(dbs["tmp"][t])
CopyUnmixed ==
    /\ TablesUnmixed
    /\ pc = "insert" => BatchUnmixed(batch, at)
    /\ \A w \in workers : w.pc = "insert" => BatchUnmixed(w.batch, w.table)
    /\ pc \in {"exchange", "rename_tmp"} => RowsUnmixed("tmp")
UnmixedInv ==
    /\ OneCopy /\ Copying => CopyUnmixed
    /\ OneCopy /\ Exchanged => RowsUnmixed("target")

(* The versions realtime replication will continue from. *)
KnownVersions ==
    IF threads # 1 THEN (IF pc = "down" THEN saved.versions ELSE state.versions)
    ELSE IF pc = "down" THEN saved.versions ELSE versions
RowsCovered(d, t) ==
    \/ {<<t, "versions">>, <<t, "late">>} \cap marks # {}
    \/ threads # 1 /\ t \in Renamed
    \/ \A k \in Keys : dbs[d][t].rows[k].ver <= KnownVersions[t]

VersionsInv ==
    /\ Copying => \A t \in DOMAIN dbs["tmp"] : threads = 1 \/ Done(t) => RowsCovered("tmp", t)
    /\ Exchanged => \A t \in DOMAIN dbs["target"] : RowsCovered("target", t)

InitialInv ==
    /\ SourceTypes /\ DbTypes /\ StateTypes /\ MemoryTypes /\ WorkerTypes
    /\ NoWorkers /\ OwnWorkers /\ Control /\ Databases /\ WorkersOfCopy
    /\ SnapshotInv /\ UnmixedInv /\ VersionsInv
=============================================================================
