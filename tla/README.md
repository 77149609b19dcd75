# Verification of mysql_ch_replicator

TLA+ models of the processes that copy MySQL's binary log into ClickHouse, the
TLC runs that check them on small instances, and TLAPS proofs. Paths such as
`binlog_replicator.py` are relative to `src/mysql_ch_replicator/`.

## 1. The system

`run_all` (`runner.py`) starts one `binlog_replicator`, one `db_replicator` per
database and a `db_optimizer`, and restarts whichever of them dies. They share
nothing but files under `data_dir` and the ClickHouse server.

| Component | State | Operations | Hard behaviour |
|---|---|---|---|
| binlog_replicator (`binlog_replicator.py`, `pymysqlreplication/`) | `state.json` (`last_seen_transaction`, `prev_last_seen_transaction`), relay files `<db>/<n>.bin`, stream position and `table_map`, open writers | read an event, store it, save the position, remove old files, stop | the position is saved before the event is stored; crash at any step; quiet runs; restart inside a statement; clean-up beside readers |
| relay reader (`DataReader`) | current file and offset | `set_position`, `read_next_event`, `get_file_with_transaction` | switch to the next file beside the writer; replays put old ids in new files |
| relay recovery (`RelayRecovery`) | backup directories | back up, rebuild from MySQL, validate, restore | failure or crash between the moves |
| initial replication (`db_replicator_initial.py`) | table and primary key reached, worker state files, the `_tmp` database | create tables, copy rows, resume, exchange the databases | crash between the three statements of the exchange; resume; parallel workers |
| realtime replication (`db_replicator_realtime.py`, `db_replicator.py`, `clickhouse_api.py`) | `state.pckl` (last uploaded transaction, record versions, table structures), batch of inserts and deletes | handle an event, upload, execute DDL, save, stop | versions go back after a crash; DDL is replayed; rows are merged in a batch; repeated events |
| schema conversion (`converter.py`, `table_structure.py`) | pairs of table structures | CREATE, ALTER; conversion of types and values | clauses executed one by one; replay of ALTER; order of columns; signed readings of unsigned numbers |
| row decoding (`pymysqlreplication/row_event.py`, `packet.py`, `column.py`, `bitmap.py`) | place in the packet, columns, NULL bitmap | read the table map, read an image column by column | one value read with a wrong width shifts all the values after it |
| runner (`runner.py`, `utils.py`) | child processes, restart flags | start, restart, stop, follow created and dropped databases | flags shared with the HTTP thread |
| MySQL API (`mysql_api.py`) | one connection, kept for three minutes without a commit | `get_tables`, `get_records` | its reads come from a view that may be older than the position; time zones |
| JSON parser (`binlog_json_parser/`) | – | decode a document | throws at some scalars; prints others differently than MySQL |
| db optimizer, monitoring, configuration | – | – | without effect on what is replicated |

What makes each of them correct:

* binlog_replicator: every event of a replicated database reaches the relay, in
  an order from which a reader can resume; nothing that somebody still needs is
  truncated or removed.
* realtime replication: `state.pckl` never claims more than ClickHouse received;
  what ClickHouse shows is what MySQL held after a prefix of the log; every event
  is uploaded in the end.
* relay recovery and initial replication: a crash between two steps leaves a
  state from which a restart completes the work.
* schema conversion: the columns of ClickHouse are those of MySQL, in order, since
  rows travel by position; a statement that passes validation is executed whole.
* row decoding and value conversion: rows come out as MySQL put them in, and the
  binlog and the initial copy, two ways to the same table, give it the same values.
* runner: every process that ends is started again; a restart request is answered
  after the restart it asked for; a signal ends everything.

`PROJECT.json` lists the hazards behind these, each at its line.

## 2. Modules

| Module | Models | Used by |
|---|---|---|
| `BinlogRelay` | the binlog_replicator process, its relay files and `state.json`; MySQL and the db_replicators as its environment | `MCBinlogRelay`, `BinlogRelayProofs` |
| `BinlogRelayProofs` | theorems about `BinlogRelay`: positions and losses; relay files, their clean-up and their readers | |
| `Replica` | the promise of realtime replication (abstract) | `RealtimeReplication` |
| `RealtimeReplication` | the realtime phase of a db_replicator process and its ClickHouse tables; MySQL and the relay as its environment | `MCRealtimeReplication`, `RealtimeProofs` |
| `RealtimeProofs` | theorems about `RealtimeReplication` | `ReplicaProofs` |
| `ReplicaProofs` | the proofs that `RealtimeReplication` implements `Replica` and keeps the keys in sync | |
| `InitialReplication` | the initial phase of a db_replicator process, its worker processes and their state files, the databases of ClickHouse; MySQL as its environment | `MCInitialReplication`, `InitialProofs` |
| `InitialProofs` | theorems about `InitialReplication` | |
| `RelayRecovery` | the recovery that the runner performs first, beside the writer and the readers of the relay files | `MCRelayRecovery`, `RelayRecoveryProofs` |
| `RelayRecoveryProofs` | theorems about `RelayRecovery` | |
| `SchemaChange` | ALTER TABLE in the realtime phase: the statement, the pair of structures, the table of ClickHouse | `MCSchemaChange`, `SchemaProofs` |
| `SchemaProofs` | theorems about `SchemaChange` | |
| `Runner` | the main thread of `run_all`, the threads of its HTTP server, its child processes | `MCRunner`, `RunnerProofs` |
| `RunnerProofs` | theorems about `Runner` | |
| `MySQLRows` | the bytes of MySQL's row events, the clocks of time zones, and the values SELECT returns (external) | `RowPipeline` |
| `RowPipeline` | the decoder of row events, the conversion of their values, what the initial copy reads for them, what ClickHouse receives on both paths, the keys of a DELETE | `MCRowPipeline`, `RowPipelineProofs` |
| `RowPipelineProofs` | theorems about `RowPipeline` | |
| `MC...` | constants of the runs | the `.cfg` files |

The modules meet at files: `BinlogRelay` and `RelayRecovery` at the relay files and
`state.json`, both and `RealtimeReplication` at the checkpoint and the sequence of
relayed events, `InitialReplication` and `RealtimeReplication` at `state.pckl`,
`SchemaChange` at its structures. Where a module needs a neighbour, it has it as
one or two actions that do no more than the neighbour's module allows.

### BinlogRelay

A transaction id (log file, position) is the index of the event in the binary
log, which is what `compare_transactions` orders by; `None` is 0. `saved` is
`state.json`; `relay[db][n]` the ids in `<db>/<n>.bin`; `checkpoint[db]` the
`last_processed_transaction` that a db_replicator saved; `pos` and `table_map`
belong to the stream; `seen` is `last_transaction_id` of `run()`; `fresh` says
that this run has not saved yet (`last_state_update` is 0). `pc` is the place in
`run()`:

| `pc` | Code | Actions |
|---|---|---|
| `down` | no process | `Start` (`__init__`) |
| `outer` | l.828 | `OuterLoop` |
| `read` | l.838-857 | `LeaveInnerLoop`, `Connect`, `SkipEvent`, `ReadEvent`, `ReadHeartbeat`, `ReadNone`, `ReadFails` |
| `store` | l.871 | `StoreEvent` |
| `tick` | l.876-877 | `Tick` (position and clean-up) |
| `stop` | l.886-889 | `Stop` |

`Signal` and `Crash` happen at any place; a crash inside `store_event` may leave
an empty file. `SkipEvent` is what `fetchone` keeps to itself: table maps,
rotations, and row events whose table is not in `table_map`.

The history variables `stored`, `interrupted`, `excused` and `origin` influence
nothing. `excused` collects the events that are passed over for one of three
reasons: in flight at a crash and again not stored by the next run; before a
start without a saved position; cut off from their TableMapEvent by a start.

Clean-up by age is `RemoveOldFiles(old)` for any `old`: a file is last modified
before the next one is created, so the old files are a prefix.

### RealtimeReplication

The log is a sequence of events; an id is an index in it, and also identifies
the row that the event writes. `relay` is the sequence of ids in the relay files;
a restart of binlog_replicator repeats a suffix (`RelayReplays`). `ch` holds, for
each table of ClickHouse, the row a FINAL query returns for each key, with its
`_version`. `ins` is `records_to_insert` (a dict keeps insertion order, which
determines the versions), `del` is `records_to_delete`, `structs` the tables in
`tables_structure`, `versions` is `tables_last_record_version`.

`handle_event` is one action per kind of event. CREATE is executed at once; the
other statements go through `upload_records` (`pc = "upload"`, returning to
`ret`) and are executed at `pc = "query"`. `upload_records` is a step per table
inserted (`InsertRecords`), then a step per erase batch (`EraseRecords`), then
`UploadDone`; a crash can fall between any two. Where ClickHouse refuses a
statement or has no table to insert into, the exception ends the process without
saving (`QueryRefused`, `UploadRefused`). The handlers of row events look their
table up without a check; `StructureKnown` shows that it is always there.

`Replica` has three variables: MySQL's history, what a reader sees, and how many
events that includes. The refinement mapping counts an upload in progress as
complete (`View`) and takes the number of events from the history variable
`applied`. A missing table and an empty one look the same in `Replica`, since
CREATE runs ahead of the batch.

### InitialReplication

`dbs` holds the databases `target`, `target_tmp` and `target_old`, each row with
its value, its `_version` and the structure its table had in MySQL when it was
read. `saved` is `state.pckl` and `worker_files` the `state_worker_*.pckl` files.
`state` is the State object and `versions` the dict of `clickhouse_api`; `linked`
says that they share it, which `run()` ends when it creates the state anew
(`db_replicator.py` l.224). `pc` is the place in `run()`:

| `pc` | Code | Actions |
|---|---|---|
| `down` | no process | `Start` (`__init__` and `run()` up to the choice of the phase) |
| `recreate`, `create` | `db_replicator.py` l.263-267 | `DropTmp`, `CreateTmp` |
| `tables`, `position`, `structure` | l.269-276 | `ListTables`, `NotePosition`, `CreateTable`, `StructureCreated` |
| `perform` | `db_replicator_initial.py` l.121-126 | `Perform` |
| `table` | l.127-133, l.168-189 | `BeginTable` or `LaunchWorkers` for the table `at`; after the last one `Verify`, `VerifyFails` |
| `read`, `insert`, `save` | l.206-270 | `ReadBatch`, `ReadRefused`, `InsertBatch`, `InsertBatchRefused`, `SaveAfterBatch`, `FinishTable` |
| `wait` | l.389-473 | `WorkersDone` (with the consolidation of versions), `WorkerFailed` |
| `exchange`, `rename_tmp`, `drop_old` | l.149-162 | `RenameTarget`, `RenameTmp`, `DropOld`, `RenameRefused` |
| `finish`, `realtime` | `db_replicator_realtime.py` l.39-55 | `RunRealtime`, `Realtime` |

A worker runs the same code with its own state file: `WorkerStarts`,
`WorkerReads`, `WorkerReadRefused`, `WorkerInserts`, `WorkerRefused`, `WorkerSaves`,
`WorkerFinishes`.
When the process ends, by a crash or because one worker failed, the other workers
go on without a parent (`own` is false), beside those of the next run. Only an
interrupt terminates them (`RestartReplication`, from `runner.py` l.119-134).

The position realtime replication starts from may be any logged event, or none:
the relay is behind MySQL, may end with repeated events, and its last file may be
empty. Records read under another structure than that of the table in ClickHouse
may be accepted or refused.

A `MySQLApi` keeps its connection for three minutes and never commits on it
(`mysql_api.py` l.25-57; autocommit is off, the isolation REPEATABLE READ), so its
reads come from the view that the first of them opened. `view` has that view, if
there is one, for the process, and each worker has its own: `Snapshot` is MySQL's
rows at that moment. A read takes the view at hand, or a new one, since
`reconnect_if_required` may have closed it (`Readable`). `SHOW FULL TABLES` may open
it or not (`ListTables`), and does so before the position is noted
(`db_replicator.py` l.269, l.273): the events in between are `unseen`. MySQL may
refuse to read a table altered since the view was opened (`ReadRefused`). Metadata
locks, which hold up an ALTER of a table that the open transaction has read, are left
out: the model has more ALTERs than MySQL, and those it should not have come back
through a reconnect between the read and the ALTER.

`_compare_table_structures` compares the structure that a table was created with and
the one it has after the copy; `structure` is therefore the structure itself and not
the number of ALTERs (`altered`), and an ALTER may bring an earlier one back.

`marks` is a history variable: the tables whose versions a crash took back
("versions"), those to which a worker without parent added rows after the table was
complete ("late"), those whose structure came back to the one they are copied with
("returned"), the events noted as seen that the open view does not have ("unseen"),
and whether the process was ended in the exchange.

### RelayRecovery

`relay[d][n]` holds the events in `<d>/<n>.bin`, `backups[d][k]` the files in the
k-th backup directory. `pc` is the place of the runner: `down`, `check`
(`recover_if_required` l.589-605), `backup` (a step per file), `rebuild` (a step
per event of the binary log), `validate`, `save`, `restore` (new files removed,
then a step per old file) and `up`, when the other processes run. A crash may fall
between any two of these; `RecoveryFails` is an exception in the `try` block;
MySQL purges files at any time (`BinlogPurged`: between the check and the rebuild).

While `pc = "up"`, `BinlogReplicatorStores` stores the next event and saves its
position, and each db_replicator finds its place (`SetPosition`) and reads
(`ReadEvent`). `read_next_event` looks for an event (`ReachEnd`) and then for the
next file (`SwitchFile`, `NoNextFile`); the writer may act in between. Three
history variables name what goes wrong in the code, and `NoEventSkipped` shows
that nothing else does:

* `torn`: the process died while files were rebuilt or restored, or a failed
  recovery left the part it had rebuilt for a database that had no files. The next
  start finds the checkpoints in that part and takes the relay for complete, while
  the binlog replicator goes on from `state.json`.
* `jumped`: a database whose state has no transaction (it was copied while its
  relay was empty) is not rebuilt, but `state.json` moves past its events.
* `raced`: the writer appends to a file and opens the next one between the two
  looks of `read_next_event` (l.441-451), and the reader leaves events behind.

### SchemaChange

One table. `defs[n + 1]` is its definition in MySQL after n statements, `ch` its
columns in ClickHouse, `mysql_structure` and `ch_structure` the pair in
`tables_structure`, `saved` what of that is in `state.pckl`. A statement is a
sequence of clauses; `Category` is `_classify_alter_operation`, `PlanValid` is
`_validate_alter_plan` on a copy, and each clause of `plan` is then an action: the
command to ClickHouse (`IF EXISTS`, `IF NOT EXISTS` included) followed by the
change of both structures. CHANGE with a new type and a new name is two commands.
`begun`, `risky` and `refused` are history: how far statements were executed,
whether a restart went back by more than one column clause, and what ClickHouse
refused.

### Runner

`proc` says of each child whether it is running, dead or absent, `runners` is the
dictionary, `todo` what the current loop has still to visit. `pc` follows `run`:
`start`, `first` and `second` (the two launching loops), `waiting`, `loop`,
`restarting` and `restarted` (`restart_replication_if_required`), `remove`
(`check_databases_updated`), `joining`, and `stopped` or `crashed`. A request of
the HTTP API is `arrived` when it has reset `replication_restarted`, `waiting` when
it has set `need_restart_replication`, and polls the flag; requests run in threads
of their own, without a lock. `RemoveRaises` is the `RuntimeError` of a dictionary
that changes while it is iterated over: it ends the runner.

### MySQLRows and RowPipeline

`MySQLRows` encodes: integers, strings, ENUM and SET, BIT, DECIMAL, and the
temporal types with fractions, the images with their bitmaps, and the extra row
information, as MySQL documents them. `RowPipeline` decodes with the code's
readers: an event of `Events` is encoded in `Init`, then read a step per column
definition, header, NULL bitmap and column, each moving `read_bytes`; `Convert`
applies `convert_record`, and to a delete `_get_record_id`. Values are tagged with
their Python type, since the converter asks for it. Floats and text stay bytes.

The stream never enables the optional table metadata (`binlogstream.py` l.258,
l.316): every integer is read as signed (`AsSigned`, for all widths), ENUM and SET
are numbers, text is bytes, and `convert_record` has to make up for it from the
declaration. The initial copy reads the same value with `get_records`, from what
`mysql.connector` returns (`Selected`), so that the two paths can be compared where
they meet: `Arrives` is what a value becomes in ClickHouse, after the replacements of
`ClickhouseApi.insert` (`InsertValue`) and the `timestamp()` the client takes of a
datetime.

*Time zones.* A setting (`Zones`) has `mysql_timezone` and the zones of the MySQL
server and of the process. A clock is named by its zone and the first moment that
shows it, so the hour that is repeated when daylight saving ends has one name for two
moments (`RepeatedHours`); a DATETIME is a clock of no zone. The binlog brings the clock
of UTC without a zone (`utcfromtimestamp`); `get_records` brings the clock of the
session (`SessionZone`: `SET time_zone` unless it is UTC) and, unless `mysql_timezone`
is UTC, puts that zone on every datetime, DATETIME columns included; a datetime without
a zone is one of the process's zone to the client (`ReadIn`).

*JSON.* A document is the sequence of its scalars and keys, by JSONB type: brackets and
separators come out the same wherever they are printed. The decoder prints doubles with
six decimals and keys without escapes (`JsonText`), and throws at a date, a time or a
DECIMAL (`Thrown`).

*Keys.* `format_delete_value` is the literal that `erase` writes for a part of a key,
and `Finds` says whether ClickHouse finds a stored value by it.

Where the paths differ in the code, or a value does not arrive, the module says so by
name:

| Name | What happens |
|---|---|
| `MediumintMisread` | a negative MEDIUMINT gets 2^24 added, signed or not (`converter.py` l.657; `tests/test_data_types.py` l.140 tests only the unsigned type) |
| `TimeMisread` | a negative TIME with a fraction: -1.10 is read as -1.90 (`row_event.py` l.396-424) |
| `PathsDiffer` | the ENUM value '' is the number 0 in the binlog; BIT is a string of digits in the binlog and a number in SELECT; BINARY(n) has no zeros at its end in the binlog; JSON with doubles, with keys that need escapes, or with opaque scalars |
| `TimestampDiffers` | a TIMESTAMP: the zero value (1970 in the binlog, NULL in SELECT); a server whose zone is not UTC when `mysql_timezone` is; otherwise a process whose zone is not UTC, and the second of two moments with one clock. In `PathsDiffer` also: a DATETIME when `mysql_timezone` is not UTC and not the process's zone, or `timestamp()` raises for the clock without a zone |
| `KeyUnnamed` | the DELETE does not find dates and times (rendered without quotes), and bytes that are not UTF-8 raise (`clickhouse_api.py` l.408-418) |
| `JsonThrows` | the decoder throws at opaque scalars |
| `NumbersArrive` | the year 0 becomes 1901; NULL becomes the text "None" for TIME and "null" for JSON |

Every disjunct of `PathsDiffer` is needed, and so are `KeyUnnamed` and `JsonThrows`:
without any of them the run finds a value that contradicts the property.

Columns absent from a partial row image (`binlog_row_image = MINIMAL`) are read as
None and inserted as NULL or a default: the properties speak of present columns.

## 3. Runs

| Run | Result |
|---|---|
| `relay_restarts` | `TypeOK`, `NoSilentLoss`, `SavedPositionsCovered`, `RelayFilesSorted`, `CheckpointFound`, `RelayAppendOnly`, `UnreadEventsKept` hold with a crash, a signal, replays and clean-ups at any step |
| `relay_liveness` | `EventuallyRelayed` holds under `FairSpec` with a crash, a signal, replays and clean-ups |
| `relay_recovery` | `TypeOK`, `CheckpointsFound`, `NoEventSkipped`, `FailureRestores`, `RebuiltToPosition` hold with a lost file, a failure, purges and two crashes at any step |
| `relay_stop_loses` | `EveryEventRelayed` is violated: quiet runs shift `None` into the saved positions |
| `realtime_checkpoint` | `TypeOK`, `CheckpointSent`, `StructureKnown`, `KeysInSync` hold with every kind of statement, a replay, a stop and a crash |
| `realtime_replica` | `ImplementsReplica` holds without crashes, for statements that do not rename |
| `realtime_liveness` | `EventuallyUploaded` holds under `FairSpec` with a crash, when no table is dropped or renamed |
| `schema_alter` | `PlanCompletes`, `StructuresAgree`, `ClausesFollowStatement`, `ColumnsFollowSource`, `RefusedOnlyOnReplay` hold for all pairs of statements, with two crashes and a stop |
| `initial_copy` | `TypeOK`, `SnapshotCovered`, `SnapshotUnmixed`, `VersionsCover` and, under `FairSpec`, `EventuallyRealtime` hold, for two tables copied by the process with a `restart_replication` request and a crash or with an ALTER, one table copied by two workers with a crash of any process, and one table altered twice |
| `initial_worker_state` | `SnapshotCovered` is violated: after `restart_replication` workers resume the abandoned copy |
| `runner` | `TypeOK`, `OneInitialAtATime`, `AnsweredAfterRestart`, `NoOrphans` and, under `FairSpec`, `DatabasesServed`, `RequestsAnswered`, `SignalEnds` hold with two databases, two requests, a death, a created or dropped database and a signal |
| `row_pipeline` | `RowsDecoded`, `PathsAgree`, `KeysErased`, `NumbersArrive` hold for all pairs of the column types with edge values, for deletes keyed by each of them, updates, partial images and wide tables, in five settings of time zones |

Each violation is described in `PROJECT.json` with the text it contradicts. The
restrictions of the passing runs are needed; each is a weakness of the code:

* `KeysInSync` says nothing after a RENAME: DROP TABLE IF EXISTS b, RENAME TABLE a
  TO b, CREATE TABLE a, executed again after a crash
  (`db_replicator_realtime.py` l.270), drop the table that holds the rows and put
  an empty one in its place. It names the keys an UPDATE of a primary key leaves
  behind: the relay holds the new values only (`binlog_replicator.py` l.236).
* `realtime_replica` excludes crashes: `tables_last_record_version` is saved at
  most every 10 seconds, a crash takes the versions back, replayed events are
  batched differently and use fewer of them, and a later value of a row may get a
  version below an earlier one and lose to it. It excludes RENAME because
  `handle_rename_table_query` moves `tables_structure` and not
  `tables_last_record_version` (l.266): two inserts, a RENAME and an insert show it.
* `realtime_liveness` excludes DROP and RENAME because a statement executed after
  the last save is executed again after a crash; ClickHouse refuses it (l.238,
  l.270), and every restart fails the same way.
* `schema_alter` has no MODIFY or CHANGE with FIRST or AFTER: the column moves in
  MySQL and nowhere else, and later rows end in the wrong columns
  (`converter.py` l.1061-1085 do not look at the position). It has no ADD c, DROP c of
  a column there is either, which in MySQL replaces it: validation takes the ADD for
  one that was executed before a crash (l.911), and the DROP removes the column for
  good. `ColumnsFollowSource`
  and `RefusedOnlyOnReplay` leave out restarts that execute several column clauses
  again: RENAME a TO b, RENAME b TO a or DROP a, RENAME b TO a are refused, or
  worse accepted, the second time, although `tests/test_converter_alter.py` l.83
  says that ALTER is safe to replay (of single clauses it is).
* `initial_copy` leaves out by name: rows copied twice after a crash, whose
  versions can be above the ones saved; versions consolidated for a table of
  `target_tables`, kept under its MySQL name while `insert` looks them up under the
  other (`db_replicator_initial.py` l.468); a state that was created anew and has
  another dict than `clickhouse_api`; a worker that survived its parent and adds
  rows after the table was verified; a process that is ended in the exchange of
  databases, after which every restart renames `target` again and is refused
  (l.149-162). Two more contradict the documentation. `EventUnseen` leaves out rows
  with an event between `get_tables` (`db_replicator.py` l.269) and the position
  (l.273): they are in neither the copy nor realtime replication ("It will always be in
  sync", `README.md` l.193). "returned" leaves out tables that were altered and altered
  back: they pass the check that "MySQL table structures haven't changed during the
  initial replication process" (`db_replicator_initial.py` l.282). Without these
  disjuncts the run fails for one table that the process copies, with one row event, and
  with two ALTERs. Tables altered during the copy end every further attempt, which the
  documentation says (`README.md` l.407).
* `row_pipeline` leaves out the values of the table above. `KeyUnnamed`, `JsonThrows` and
  `TimestampDiffers` contradict the documentation: rows with such keys stay ("ensures
  physical removal of data", `README.md` l.48), such documents stop the decoder
  ("Accurately replicates most data types, including JSON", l.49), and a TIMESTAMP
  arrives as another moment ("ensures proper timezone handling", l.343) when the process
  is in the zone of `mysql_timezone`.
* `runner`: `DatabasesServed` and `RequestsAnswered` name the wait for a database
  that was dropped meanwhile, which never ends (`runner.py` l.205), and a runner
  that `check_databases_updated` has ended; `SignalEnds` names a request in flight,
  with which `server_thread.join` hangs (l.237).

Restarts inside a statement reach row events without their TableMapEvent, and
`RowsEvent.__init__` drops them: the third of the three reasons in `NoSilentLoss`.
Two crashes between the save of a position and the store of its event lose the
event as well: that is the first of the three reasons.

### Bounds

All bounds are constants. A lost event needs at most four events and two crashes
or stops, so `MaxLog = 4` with two of them covers the save-before-store window,
its repetition, and a replay behind it. `RecordsPerFile = 2` in the
passing runs (a file of one event would be sorted whatever the code does) and `PreserveFiles` below
the code's 5 make file changes and clean-ups happen within
that many events; `SearchWindow = 10` is the code's, and larger than the number
of files in a run: the run does not show what happens when the window moves away from
the file (the hazard about l.388), which rests on the theorem `CheckpointIsFound`. One database that is replicated
and one that is not are enough, since databases share only the saved position.
The realtime runs use two tables where tables interact (an upload of several,
RENAME), two keys where a batch must hold several rows (versions, erase batches
of one), and logs of three or four events: enough to create, fill, drop and
create a table again.
`initial_copy` has batches of one row and up to three rows per table, so that a copy
is interrupted before, between and after saves and a worker has two rows; two
tables show the reset between tables; one write to MySQL at any moment is enough
to make a copied row stale, since rows are independent. Each of the four setups
(`CopySetups`) has its own bounds for ALTERs, requests and crashes: a crash may fall on a
copy that a request has started again; the second ALTER of the last setup brings the
first structure back. Setups with workers leave out `restart_replication`
(`initial_worker_state`) and ALTER.
`relay_recovery` has files of two events and a binary log of two files: a rebuild
that starts at the first event of a file and not at the checkpoint, files that are
full and files that are not, and one database that needs the recovery while the
other does not. One crash can tear a recovery and the second fall into the next;
four events with one event per file and one crash add no behaviour.
`schema_alter` has two statements out of nineteen, one at least for each kind of
clause, each position, and the combinations whose clauses depend on each other
(exchange of names, reuse of a dropped name, a column added after a new one); two
crashes make a replay of a replay. `runner` has two databases, so that one waits
for the other, and two requests, so that they share the flags. `row_pipeline` puts
each of 34 columns beside each other, so that a wrong width shows in the neighbour;
rows of nine columns make the bitmaps two bytes long. Its settings of time zones
(`MCZones`) are none at all, a `mysql_timezone` with the process in UTC and in that zone,
with and without a clock that `timestamp()` refuses, and a server and a process in two
zones; one TIMESTAMP is in the repeated hour. TLC's integers have 32 bits: the upper half
of INT UNSIGNED and of BIGINT UNSIGNED, which `AsSigned` and `RestoreUnsigned` cover as
they do the smaller widths, is the subject of the theorems.
Symmetry is used in `relay_recovery` only, where the databases are model values and
no property is about liveness; elsewhere the names appear in the statements.

### Fairness

`BinlogRelay!FairSpec`: the runner restarts a process that ended
(`restart_dead_processes`), so `Start` is fair, and the steps of the process are
fair because it is one thread that does not wait for anything but MySQL. The
actions that read are strongly fair: `ReadNone` and `ReadFails` may interrupt
them any number of times but MySQL does not refuse for ever.
`RealtimeReplication!FairSpec`: the same, and `ReadNothing` is fair because the
upload interval (1 s) passes. `InitialReplication!FairSpec`: the process and each worker that has a parent go
on, and the runner restarts the process. `Runner!FairSpec`: the main thread and the
threads of requests go on; the check of the databases and the poll of a request
come again and again while other steps are possible, hence strong fairness; a copy
of a database that exists ends (which is `EventuallyRealtime`). Crashes, signals, commits and replays are
never fair.

## 4. Proofs

Eight modules of theorems, for every value of the constants that satisfies the
assumptions named in the modules: any number of databases, tables, keys, events,
files, columns, values, requests and crashes. A theorem follows from the inductive
invariant the table names; the proof that a step keeps it has a step per action.

| Module | Inductive invariant | Theorems |
|---|---|---|
| `BinlogRelayProofs` | `RelayInv` | `TypeCorrect`, `NothingLostSilently` (`NoSilentLoss`), `SavedPositionsAreCovered` |
| | `FilesInv`, `CheckpointKept`, `CheckpointInOrder` | `RelayFilesAreSorted`, `RelayIsAppendOnly`, `CheckpointIsKept`, `CheckpointIsFound`, `UnreadEventsAreKept` |
| `RealtimeProofs` | `RealtimeInv` | `RealtimeTypeCorrect`, `CheckpointIsSent`, `StructuresAreKnown` |
| `ReplicaProofs` | `RealtimeReplication!ReplicaInv`, `SyncInv` | `ReplicaIsImplemented` (`ImplementsReplica`), `KeysAreInSync` (`KeysInSync`) |
| `InitialProofs` | `InitialInv` | `InitialTypeCorrect`, `SnapshotsAreCovered`, `SnapshotsAreUnmixed`, `VersionsAreCovered` (`VersionsCover`) |
| `RelayRecoveryProofs` | `RecoveryInv`, `SkipInv` | `RecoveryTypeCorrect`, `CheckpointsStayFound`, `FailuresAreUndone` (`FailureRestores`), `RecoveryCoversLog` (`RebuiltToPosition`), `NothingIsSkipped` (`NoEventSkipped`) |
| `RunnerProofs` | `RunnerInv` | `RunnerTypeCorrect`, `InitialReplicationsAreSerial`, `RequestsAnsweredAfterRestart`, `StoppedLeavesNoOrphans` |
| `SchemaProofs` | `PlanningInv` | `StructuresAlwaysAgree` (`StructuresAgree`), `ValidPlansComplete` (`PlanCompletes`) |
| | `ReplayInv`, `SourceInv` | `OnlyReplaysAreRefused` (`RefusedOnlyOnReplay`), `ColumnsAlwaysFollowSource` (`ColumnsFollowSource`) |
| `RowPipelineProofs` | `ShapeInv` | `PathsAlwaysAgree` (`PathsAgree`), `NumbersAlwaysArrive` (`NumbersArrive`), `KeysAlwaysErased` (`KeysErased`) |
| | – | `UnsignedArrives`, `SignedArrives` |

**The position of the stream.** `NoSilentLoss` speaks of the stream's position, which
after a restart comes from `state.json`; it is inductive only with
`SavedPositionsCovered`, which says what each of the two saved positions covers. That
in turn needs `RunInv`: the position saved at a tick is not ahead of the stream, and
an event is stored only after the first save of a run, which has moved the older
position out.

**Relay files.** A file is sorted because one run writes it, and a run writes each id
once: `WriterAtEnd` says that the open file is the last and holds ids in front of the
stream only. `CheckpointIsKept` needs nothing else: clean-up removes no file when the
search fails, and otherwise only files in front of the one found. That the search
*finds* the transaction (`CheckpointIsFound`) is not true without a condition:
`get_file_with_transaction` tries the files within `SearchWindow` places of the last
one that starts at or before the transaction, and a restart that repeats old events
can add such a file behind the one that is searched for, and move the window away.
`FewReplays` says that there are not more of them than the window; the theorems have it as the
hypothesis `[]FewReplays`, and with a window of one file TLC shows `CheckpointFound`
violated as soon as it fails. Under it the clean-up keeps all that is unread.

**Realtime replication.** `CheckpointSent` is about three numbers (`last`,
`non_uploaded`, and the transaction saved) and the batch. `SentInv` connects them:
what was handled is in ClickHouse or its effect is in the batch. That the batch may
drop an event for a later one of the same key is the reason for `Batched`, and that
events are handled in order although the relay repeats them is `SourceInv` and
`ReadInv`. `StructuresAreKnown` needs `Knows`: after a crash the structures loaded
may be those after a statement that is about to be executed again.

**The replica.** `ReplicaIsImplemented` is the refinement of `Replica`: an action of
the replicator is an `Upload` to `applied'` (which may be where the view is), and a
commit of MySQL a `Commit`. Its hypothesis `Steady` is the restriction of the run
`realtime_replica`: no crash, no RENAME, no UPDATE of a primary key. `ReplicaInv` says
what ClickHouse holds (`ContentInv`): the tables of MySQL after the `applied` events,
and with the batch on top of them, those after all events handled. That an inserted
record wins over the row it meets is `VersionInv`; that the order of inserts and
deletes of a batch does not matter is `BatchInv`: a key is in it once. Under
`Steady` ClickHouse refuses nothing, because it has the tables of MySQL (`TablesInv`).

**The keys, with crashes.** After a crash ClickHouse is ahead of the process, and not
by the same number of events in every row: an upload stops between two requests, and a
later run repeats events whose effects, and those of events behind them, are there
already. `SyncInv` therefore speaks of each table and each row alone: it is as after
*some* event from the last one handled on (with the batch on top), or from the last
one uploaded on (without). When nothing is left to handle, only the last event of the
log remains, which is `KeysInSync`. A crash may also take the versions back, so that
an older value wins over a newer one; that cannot bring back a key, since DELETE
removes the row whatever its version, and a row of ClickHouse without a value has
version 0: an inserted key is there whichever record wins. `SyncInv` speaks of logs
without RENAME TABLE, and a row that an UPDATE of its primary key has moved away may
still be there, as in `KeysInSync`.

**The initial copy.** `SnapshotCovered` speaks of the end of the copy, `InitialInv` of
every moment of it. `SnapshotInv` says what the copy in `target_tmp` has: whatever was
copied, of a complete table (`Done`), up to the key in `state.pckl`, in the memory of the
process, in the file of a worker or in its memory, is as in MySQL or an event after the
noted position will change it (`Kept`); a batch that was read and not inserted keeps
that promise for the rows it has and for those it leaves out. Since MySQL can only add
such events, no write can break it. `Control` connects `pc`, memory and `state.pckl`,
`Databases` says which of the three databases exist, `OwnWorkers` that a process waits
for one worker per number. A batch is read from a view that may be old: `ViewKept` says that the
rows of an open view are `Kept` too, and `ViewRecent` that the view of `get_tables` lacks
only events that will be marked unseen or follow the position; for the rows of unseen
events `Kept` promises nothing. `UnmixedInv` says that a table which is `Unaltered` (it
has the structure its copy was created with, and did not get it back by an ALTER) has
rows of that structure only, so that comparing the first and the last structure is
enough for it; the tables marked "returned" are the exception of the theorem.
`VersionsInv` follows the versions through `state`,
`clickhouse_api` and `state.pckl` (`KnownVersions`).

`InitialTypeCorrect` and `VersionsAreCovered` have no hypothesis. `SnapshotsAreCovered` and
`SnapshotsAreUnmixed` have `OneCopy`, which is true of every copy the process makes itself.
A copy by workers is one as long as it met no `restart_replication` request and no
interrupted exchange: either may start a new copy beside the state files and orphans of
an older one, and `initial_worker_state` shows that the theorem is then false. The theorems cover
what the run leaves out, ALTER during a copy by workers, and any number of crashes.

**Recovery.** `RecoveryInv` accounts for every file: `FilesAccounted` says where each
file found at the start of a recovery is (still in the relay, in the backup directory,
or back), whatever the order in which files are moved; `RebuildInv` says how far the
rebuilt files reach. `NoEventSkipped` is about a reader that runs after any number of
losses and recoveries. Behind it is `Gapless`: from an event of a relay to the next,
and from the last one to the position of the binlog replicator, there is no event of
that database that its initial copy had not seen. It holds of the relays in `Trusted`,
which are all of them while the processes run, but for the three exceptions the
property names, and while they are down only if no checkpoint is missing: a relay that
lost a file in the middle of a recovery has gaps, which nobody reads, because the
next start finds the checkpoint missing (`MissingInv`). It also needs that the writer is
in the last file (`WriterInv`), and where the reader is in its file (`ReaderInv`).

**Runner.** `RestartInv` connects a request to the main thread: what a request waits
for is among the databases that are still to be stopped, or has been; it must
speak of `todo` at each value of `pc`, since requests arrive in between. The dictionary
of runners and the databases of MySQL are listed in any order (`Listings`); a request
that arrives in the middle of a restart is excluded by `owed`, as in the code.

**ALTER.** The two structures stay a `Pair` under each method of `TableStructure`: the
lemmas about columns say what inserting, removing, renaming and retyping do to a
sequence, its names and its converted form. Execution meets other structures than
validation foresaw (a CHANGE that finds its ClickHouse type in place leaves the type in
the MySQL structure), but columns with the same names in the same order: the copy stays `Similar` to the structures, so what
`_validate_alter_operation` does not refuse, no clause raises (`Foreseen` says that of
the rest of the plan). `ReplayInv` bounds how far ClickHouse can be ahead of a
structure, saved or in memory: they are equal, or the only column clause of the next
statement has been executed, in one of the `Stage`s a crash can leave it in (CHANGE is
two commands), and a clause executed on any stage of itself ends where it should. That
holds for restarts of restarts, until one goes back by more (`risky`).

`ColumnsAlwaysFollowSource` adds the definitions of MySQL. `NextFields` is what a clause
does to columns; `SourceInv` says that the rest of the plan `Leads` from the columns of
the structures to MySQL's, and that saved structures are those of the statement they are
saved with, or those after the next one if its only clause does nothing more. Its
hypothesis `[]ClausesFollowStatement` is about the statements alone, not about the
process: the clauses, one after the other, make the same table as the statement does in
MySQL. It is not true of all statements (ADD c, DROP c above); `schema_alter` checks it
for those of the run, with the theorem's conclusion beside it.

**Integers.** The run cannot reach 64 bits. For the five integer types, every value and
every `types_mapping` that leaves the type alone, `RestoreUnsigned` undoes the signed
reading of an unsigned number, and a signed number arrives as it is, except a negative
MEDIUMINT. Both follow from the lemma `IntegerConversion`: the branches for the other
types leave an integer alone.

**Values.** `RowPipeline` has two halves: the decoder turns bytes into Python values,
and the converter makes of them what the initial copy makes of a SELECT. `RowsDecoded`
is what the first half promises, and TLC checks it. The second half is proved from it:
`PathsAlwaysAgree`, `NumbersAlwaysArrive` and `KeysAlwaysErased` have the hypothesis
`[]RowsDecoded`, and speak of any table, any images, any stored values and any setting
of time zones. The hypothesis is what the decoder does at every width: `AsSigned` is the
two's complement of one, two, three, four and eight bytes, and `IntegerAgrees` shows that
the number of a column is restored from it. `ValueAgrees` has a lemma for each kind of
value: integers, years, ENUM, SET, bytes and JSON are converted to the same value on both
paths (`IntegerAgrees`, `YearAgrees`, `EnumAgrees`, `SetAgrees`, `BytesAgrees`,
`JsonAgrees`), whatever the zones (`Unzoned`); a DATETIME and a TIMESTAMP become other
Python values, which the client reads as the same moment (`DatetimeAgrees`,
`TimestampAgrees`), unless `PathsDiffer`. `KeyFound` says that the literal in a DELETE
names the converted value, and with `ValueAgrees` the copied one. `ShapeInv` says that
the last image of each row has one value for each column of the table.
`EventsAssumption` says what the server may write: `Stored` gives the values a declared
type can hold, the image of a delete has the primary key, which is never NULL, and
`types_mapping` maps nothing but text types, to String or UUID; `ZonesAssumption` says
that UTC repeats no hour and that only clocks of no zone are refused. TLC evaluates both
for the run.

Only model-checked:

* all liveness properties and what they need of `ENABLED`: out of the prover's reach;
* `RowsDecoded`, the decoder of `RowPipeline`: its folds over bytes need induction over data;
* `ClausesFollowStatement`: `Definition` folds over the clauses and the columns.

## 5. Not modelled

* The text of statements: `_tokenize_alter_query`, CREATE TABLE and CREATE ... LIKE,
  comments, quoting. Statements are given by their clauses. A column that ALTER adds
  as ENUM or SET has no `additional_data`, and its values are then not converted;
  this is outside `SchemaChange`, whose types have no members.
* Character sets, polygons, the bodies of floats, the temporal types that MySQL stopped
  writing with 5.6, partial JSON updates: bytes that are passed on. Of JSON documents, the
  offsets and sizes of the binary format; of time zones, the clocks that are skipped when
  daylight saving begins, which MySQL refuses. Mappings of types other than text
  (`types_mapping`), and the rounding of floats in ClickHouse, which matters for a key of
  that type.
* The retry of `insert` (`clickhouse_api.py` l.347): it sends the same rows with the same
  versions, and the crash between two requests, which is modelled, repeats more.
* `gtid.py`, the optional table metadata and most of `event.py`: the replicator asks
  neither for GTIDs nor for the metadata nor for those events.
* Configuration, HTTP, monitoring, statistics, the optimizer: no effect on what is
  replicated, except by the settings that are constants of the modules.
* In realtime replication: `ignore_deletes`, a RENAME of several tables, values
  that fail to convert, and cluster mode, where `insert` saves the last version
  under the name of the distributed table and reads it under the name of the table
  (`clickhouse_api.py` l.305, l.367). In initial replication: the modes that copy
  into the target database itself, `skip_initial_replication`, the commands after
  it, tables dropped during the copy.
* The order of transaction ids as tuples of a string and a number
  (`db_replicator_realtime.py` l.83), which differs from that of
  `compare_transactions` after 999999 files of binary log.
