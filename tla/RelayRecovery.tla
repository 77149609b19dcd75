--------------------------- MODULE RelayRecovery ---------------------------
(***************************************************************************)
(* RelayRecovery: before the runner starts the other processes it compares *)
(* the checkpoints of the db_replicators with the relay files.  If one is  *)
(* missing, it moves the relay files of every database with a checkpoint   *)
(* to a backup directory, rebuilds them from MySQL's binary log, moves     *)
(* state.json to the end of it, and puts the files back if any step fails. *)
(*                                                                         *)
(* The module composes it with the two processes that share the relay: the *)
(* binlog replicator, as one action that stores the next event and saves   *)
(* its position (BinlogRelay has its details), and a db_replicator per     *)
(* database, which reads the files while they are written (what it does    *)
(* with the events is in RealtimeReplication).  A transaction_id is the    *)
(* index of the event in the binary log.                                   *)
(***************************************************************************)
EXTENDS Integers, Sequences, FiniteSets, FiniteSetsExt

CONSTANTS
    Databases,
    RecordsPerFile,   \* records_per_file of the relay, one record per event
    EventsPerBinlog,  \* events in a file of MySQL's binary log
    MaxLog,           \* bound: events
    MaxLosses,        \* bound: relay files lost
    MaxFailures,      \* bound: recoveries that fail half way
    MaxCrashes        \* bound: crashes of all processes

ASSUME RecoveryAssumption ==
    /\ RecordsPerFile \in Nat \ {0} /\ EventsPerBinlog \in Nat \ {0}
    /\ MaxLog \in Nat /\ MaxLosses \in Nat /\ MaxFailures \in Nat /\ MaxCrashes \in Nat

VARIABLES
    binlog,      \* the database of each event of MySQL's binary log
    purged,      \* the number of binary log files MySQL has removed
    relay,       \* relay[d][n]: the events in file n.bin of database d
    backups,     \* backups[d][k]: the files in backup directory k of d
    saved,       \* state.json: every event up to here is in the relay
    checkpoint,  \* state.pckl: the last processed event, None or an event
    mark,        \* history: the events the initial copy of d has seen
    pc,          \* where the runner is
    dirs,        \* the backup directory of each database in this recovery, or 0
    cleared,     \* databases whose new files restore_backups has removed
    at,          \* the last event the recovery has read
    writer,      \* the file the relay of d is written to, or 0
    reader,      \* where the db_replicator of d is
    losses, failures, crashes,
    before,      \* history: the relay before the recovery
    torn,        \* history: a recovery has left a part of its files behind
    jumped,      \* history: databases a recovery has moved state.json past
    raced        \* history: databases whose reader left a file with events in it

None == 0
NoReader == [file |-> 0, pos |-> 0, eof |-> FALSE]
Uncopied == -1

mysql == <<binlog, purged>>
recovery == <<dirs, cleared, at>>
bounds == <<losses, failures, crashes>>
history == <<before, torn, jumped, raced>>
vars == <<mysql, relay, backups, saved, checkpoint, mark, pc, recovery, writer, reader,
          bounds, history>>

Ids(files) == UNION {{files[n][i] : i \in DOMAIN files[n]} : n \in DOMAIN files}
Without(files, n) == [k \in DOMAIN files \ {n} |-> files[k]]
With(files, n, file) == [k \in DOMAIN files \cup {n} |-> IF k = n THEN file ELSE files[k]]
EventsOf(d, from, to) == {i \in from..to : binlog[i] = d}
Events(d) == EventsOf(d, 1, Len(binlog))

Init ==
    /\ binlog = <<>> /\ purged = 0
    /\ relay = [d \in Databases |-> <<>>]
    /\ backups = [d \in Databases |-> <<>>]
    /\ saved = 0
    /\ checkpoint = [d \in Databases |-> None]
    /\ mark = [d \in Databases |-> Uncopied]
    /\ pc = "down"
    /\ dirs = [d \in Databases |-> 0] /\ cleared = {} /\ at = 0
    /\ writer = [d \in Databases |-> 0]
    /\ reader = [d \in Databases |-> NoReader]
    /\ losses = 0 /\ failures = 0 /\ crashes = 0
    /\ before = relay /\ torn = FALSE /\ jumped = {} /\ raced = {}

-----------------------------------------------------------------------------
(* MySQL (external). *)

BinlogFile(i) == (i - 1) \div EventsPerBinlog + 1

MySQLCommits(d) ==
    /\ Len(binlog) < MaxLog
    /\ binlog' = Append(binlog, d)
    /\ UNCHANGED <<purged, relay, backups, saved, checkpoint, mark, pc, recovery, writer,
                   reader, bounds, history>>

MySQLPurges ==
    /\ purged + 1 < BinlogFile(Len(binlog))
    /\ purged' = purged + 1
    /\ UNCHANGED <<binlog, relay, backups, saved, checkpoint, mark, pc, recovery, writer,
                   reader, bounds, history>>

(* What recovery is for: relay files of a database are gone, oldest first. *)
RelayFileLost(d) ==
    /\ pc = "down" /\ losses < MaxLosses
    /\ checkpoint[d] # None /\ DOMAIN relay[d] # {}
    /\ losses' = losses + 1
    /\ relay' = [relay EXCEPT ![d] = Without(@, Min(DOMAIN @))]
    /\ UNCHANGED <<mysql, backups, saved, checkpoint, mark, pc, recovery, writer, reader,
                   failures, crashes, history>>

-----------------------------------------------------------------------------
(* DataReader and DataWriter. *)

(* get_file_with_transaction finds the event (its search window is in BinlogRelay). *)
HasTransaction(d, id) == id \in Ids(relay[d])
FileWithTransaction(d, id) ==
    Min({n \in DOMAIN relay[d] : \E i \in DOMAIN relay[d][n] : relay[d][n][i] = id})

(* get_last_transaction_id. *)
LastTransaction(d) ==
    IF DOMAIN relay[d] = {} THEN None
    ELSE LET file == relay[d][Max(DOMAIN relay[d])] IN file[Len(file)]

(* store_event: the writer's file, or the one after the last if it is full *)
(* or there is none.                                                       *)
StoreEvent(d, id) ==
    LET goesOn == writer[d] # 0 /\ Len(relay[d][writer[d]]) < RecordsPerFile
        num == IF goesOn THEN writer[d] ELSE Max(DOMAIN relay[d] \cup {0}) + 1
    IN  /\ relay' = [relay EXCEPT ![d] =
                       With(@, num, IF goesOn THEN Append(@[num], id) ELSE <<id>>)]
        /\ writer' = [writer EXCEPT ![d] = num]

-----------------------------------------------------------------------------
(* recover_if_required. *)

(* get_db_replicator_state_infos: a state without a transaction is skipped. *)
Known == {d \in Databases : checkpoint[d] # None}
MissingStates == {d \in Known : ~HasTransaction(d, checkpoint[d])}
StartFile == BinlogFile(Min({checkpoint[d] : d \in Known}))

Start ==
    /\ pc = "down"
    /\ pc' = "check"
    /\ UNCHANGED <<mysql, relay, backups, saved, checkpoint, mark, recovery, writer, reader,
                   bounds, history>>

(* Mutated form: recovery is required only if every checkpoint is missing. *)
NotRequiredIfAny ==
    /\ pc = "check" /\ (MissingStates # Known \/ Known = {})
    /\ pc' = "up"
    /\ UNCHANGED <<mysql, relay, backups, saved, checkpoint, mark, recovery, writer, reader,
                   bounds, history>>

NotRequired ==
    /\ pc = "check" /\ MissingStates = {}
    /\ pc' = "up"
    /\ UNCHANGED <<mysql, relay, backups, saved, checkpoint, mark, recovery, writer, reader,
                   bounds, history>>

(* validate_mysql_binlog_available raises: the runner ends. *)
BinlogNotAvailable ==
    /\ pc = "check" /\ MissingStates # {} /\ StartFile <= purged
    /\ pc' = "down"
    /\ UNCHANGED <<mysql, relay, backups, saved, checkpoint, mark, recovery, writer, reader,
                   bounds, history>>

Required ==
    /\ pc = "check" /\ MissingStates # {} /\ StartFile > purged
    /\ pc' = "backup"
    /\ before' = relay
    /\ UNCHANGED <<mysql, relay, backups, saved, checkpoint, mark, recovery, writer, reader,
                   bounds, torn, jumped, raced>>

(* backup_bin_files: one file at a time, to a new directory. *)
BackupFile(d) ==
    /\ pc = "backup" /\ d \in Known
    /\ \E n \in DOMAIN relay[d] :
         LET k == IF dirs[d] = 0 THEN Len(backups[d]) + 1 ELSE dirs[d]
             dir == IF dirs[d] = 0 THEN <<>> ELSE backups[d][k]
         IN  /\ dirs' = [dirs EXCEPT ![d] = k]
             /\ backups' = [backups EXCEPT ![d] = With(@, k, With(dir, n, relay[d][n]))]
             /\ relay' = [relay EXCEPT ![d] = Without(@, n)]
    /\ UNCHANGED <<mysql, saved, checkpoint, mark, pc, cleared, at, writer, reader, bounds, history>>

BackupDone ==
    /\ pc = "backup" /\ \A d \in Known : DOMAIN relay[d] = {}
    /\ pc' = "rebuild"
    /\ at' = (StartFile - 1) * EventsPerBinlog
    /\ UNCHANGED <<mysql, relay, backups, saved, checkpoint, mark, dirs, cleared, writer, reader,
                   bounds, history>>

(* rebuild_relay: the events of the affected databases are stored. *)
RebuildEvent ==
    /\ pc = "rebuild" /\ at < Len(binlog) /\ BinlogFile(at + 1) > purged
    /\ at' = at + 1
    /\ IF binlog[at + 1] \in Known THEN StoreEvent(binlog[at + 1], at + 1)
       ELSE UNCHANGED <<relay, writer>>
    /\ UNCHANGED <<mysql, backups, saved, checkpoint, mark, pc, dirs, cleared, reader, bounds, history>>

(* Mutated form: the rebuild ends when the checkpoints are found. *)
RebuildDoneEarly ==
    /\ pc = "rebuild" /\ MissingStates = {}
    /\ pc' = "validate"
    /\ at' = Len(binlog)
    /\ writer' = [d \in Databases |-> 0]
    /\ UNCHANGED <<mysql, relay, backups, saved, checkpoint, mark, dirs, cleared, reader, bounds,
                   history>>

RebuildDone ==
    /\ pc = "rebuild" /\ at = Len(binlog)
    /\ pc' = "validate"
    /\ writer' = [d \in Databases |-> 0]
    /\ UNCHANGED <<mysql, relay, backups, saved, checkpoint, mark, recovery, reader, bounds, history>>

(* validate_recovered_states. *)
ValidateRecovered ==
    /\ pc = "validate" /\ MissingStates = {}
    /\ pc' = "save"
    /\ UNCHANGED <<mysql, relay, backups, saved, checkpoint, mark, recovery, writer, reader,
                   bounds, history>>

MemoryGone ==
    /\ dirs' = [d \in Databases |-> 0] /\ cleared' = {} /\ at' = 0
    /\ writer' = [d \in Databases |-> 0]
    /\ reader' = [d \in Databases |-> NoReader]

(* save_binlog_state; the runner goes on to start the other processes. *)
SaveBinlogState ==
    /\ pc = "save"
    /\ saved' = at
    /\ jumped' = jumped \cup {d \in Databases \ Known : mark[d] # Uncopied}
    /\ pc' = "up"
    /\ MemoryGone
    /\ UNCHANGED <<mysql, relay, backups, checkpoint, mark, bounds, before, torn, raced>>

(* Mutated form: the files are not closed before the others come back. *)
RecoveryFailsUnclosed ==
    /\ pc \in {"rebuild", "validate", "save"} /\ failures < MaxFailures
    /\ failures' = failures + 1
    /\ pc' = "restore"
    /\ UNCHANGED <<mysql, relay, backups, saved, checkpoint, mark, recovery, writer, reader,
                   losses, crashes, history>>

(* An exception, of the stream, of the file system or of the validation. *)
RecoveryFails ==
    /\ pc \in {"rebuild", "validate", "save"} /\ failures < MaxFailures
    /\ failures' = failures + 1
    /\ pc' = "restore"
    /\ writer' = [d \in Databases |-> 0]
    /\ UNCHANGED <<mysql, relay, backups, saved, checkpoint, mark, recovery, reader,
                   losses, crashes, history>>

(* The stream cannot be opened: MySQL has removed the file since it was    *)
(* found available.                                                        *)
BinlogPurged ==
    /\ pc = "rebuild" /\ at < Len(binlog) /\ BinlogFile(at + 1) <= purged
    /\ pc' = "restore"
    /\ writer' = [d \in Databases |-> 0]
    /\ UNCHANGED <<mysql, relay, backups, saved, checkpoint, mark, recovery, reader,
                   bounds, history>>

(* Mutated form: the rebuilt files are left beside the old ones. *)
RestoreRemoveNothing(d) ==
    /\ pc = "restore" /\ dirs[d] # 0 /\ d \notin cleared
    /\ cleared' = cleared \cup {d}
    /\ UNCHANGED <<mysql, relay, backups, saved, checkpoint, mark, pc, dirs, at, writer, reader,
                   bounds, history>>

(* restore_backups: the new files of a database are removed, then the old  *)
(* ones come back one by one.                                              *)
RestoreRemove(d) ==
    /\ pc = "restore" /\ dirs[d] # 0 /\ d \notin cleared
    /\ relay' = [relay EXCEPT ![d] = <<>>]
    /\ cleared' = cleared \cup {d}
    /\ UNCHANGED <<mysql, backups, saved, checkpoint, mark, pc, dirs, at, writer, reader,
                   bounds, history>>

RestoreFile(d) ==
    /\ pc = "restore" /\ d \in cleared
    /\ \E n \in DOMAIN backups[d][dirs[d]] :
         /\ relay' = [relay EXCEPT ![d] = With(@, n, backups[d][dirs[d]][n])]
         /\ backups' = [backups EXCEPT ![d][dirs[d]] = Without(@, n)]
    /\ UNCHANGED <<mysql, saved, checkpoint, mark, pc, recovery, writer, reader, bounds, history>>

(* The exception goes on and ends the runner.  The new files of a database *)
(* that had none to back up are still there.                               *)
RestoreDone ==
    /\ pc = "restore"
    /\ \A d \in Databases : dirs[d] # 0 => d \in cleared /\ DOMAIN backups[d][dirs[d]] = {}
    /\ pc' = "down"
    /\ torn' = (torn \/ \E d \in Known : dirs[d] = 0 /\ DOMAIN relay[d] # {})
    /\ MemoryGone
    /\ UNCHANGED <<mysql, relay, backups, saved, checkpoint, mark, bounds, before, jumped, raced>>

Crash ==
    /\ pc # "down" /\ crashes < MaxCrashes
    /\ crashes' = crashes + 1
    /\ pc' = "down"
    /\ torn' = (torn \/ pc \in {"rebuild", "restore"})
    /\ MemoryGone
    /\ UNCHANGED <<mysql, relay, backups, saved, checkpoint, mark, losses, failures,
                   before, jumped, raced>>

-----------------------------------------------------------------------------
(* The processes the runner starts. *)

BinlogReplicatorStores ==
    /\ pc = "up" /\ saved < Len(binlog) /\ BinlogFile(saved + 1) > purged
    /\ saved' = saved + 1
    /\ StoreEvent(binlog[saved + 1], saved + 1)
    /\ UNCHANGED <<mysql, backups, checkpoint, mark, pc, recovery, reader, bounds, history>>

(* DbReplicator.run: the position is taken from the relay before the       *)
(* tables are copied.                                                      *)
InitialReplication(d) ==
    /\ pc = "up" /\ mark[d] = Uncopied
    /\ checkpoint' = [checkpoint EXCEPT ![d] = LastTransaction(d)]
    /\ mark' = [mark EXCEPT ![d] = Len(binlog)]
    /\ UNCHANGED <<mysql, relay, backups, saved, pc, recovery, writer, reader, bounds, history>>

(* Mutated form: the search for the transaction goes on to the end of the file. *)
SetPositionAtEnd(d) ==
    /\ pc = "up" /\ mark[d] # Uncopied /\ reader[d] = NoReader
    /\ checkpoint[d] # None /\ HasTransaction(d, checkpoint[d])
    /\ LET n == FileWithTransaction(d, checkpoint[d])
       IN  reader' = [reader EXCEPT ![d] = [file |-> n, pos |-> Len(relay[d][n]), eof |-> FALSE]]
    /\ UNCHANGED <<mysql, relay, backups, saved, checkpoint, mark, pc, recovery, writer, bounds, history>>

(* set_position, and read_next_event while there is no file; without the   *)
(* transaction the db_replicator raises, and is started again.             *)
SetPosition(d) ==
    /\ pc = "up" /\ mark[d] # Uncopied /\ reader[d] = NoReader
    /\ \/ /\ checkpoint[d] = None /\ DOMAIN relay[d] # {}
          /\ reader' = [reader EXCEPT ![d] =
                          [file |-> Min(DOMAIN relay[d]), pos |-> 0, eof |-> FALSE]]
       \/ /\ checkpoint[d] # None /\ HasTransaction(d, checkpoint[d])
          /\ LET n == FileWithTransaction(d, checkpoint[d]) IN
             \E i \in DOMAIN relay[d][n] :
               /\ relay[d][n][i] = checkpoint[d]
               /\ reader' = [reader EXCEPT ![d] = [file |-> n, pos |-> i, eof |-> FALSE]]
    /\ UNCHANGED <<mysql, relay, backups, saved, checkpoint, mark, pc, recovery, writer, bounds, history>>

Reading(d) == pc = "up" /\ reader[d] # NoReader
AtEnd(d) == reader[d].pos = Len(relay[d][reader[d].file])

(* FileReader.read_next_event finds an event; handle_event passes over one *)
(* that was processed before.                                              *)
ReadEvent(d) ==
    /\ Reading(d) /\ ~reader[d].eof /\ ~AtEnd(d)
    /\ reader' = [reader EXCEPT ![d].pos = @ + 1]
    /\ checkpoint' = [checkpoint EXCEPT ![d] = Max({@, relay[d][reader[d].file][reader[d].pos + 1]})]
    /\ UNCHANGED <<mysql, relay, backups, saved, mark, pc, recovery, writer, bounds, history>>

(* DataReader.read_next_event: no event in the file ... *)
ReachEnd(d) ==
    /\ Reading(d) /\ ~reader[d].eof /\ AtEnd(d)
    /\ reader' = [reader EXCEPT ![d].eof = TRUE]
    /\ UNCHANGED <<mysql, relay, backups, saved, checkpoint, mark, pc, recovery, writer, bounds, history>>

(* ... then it looks for the next one. *)
SwitchFile(d) ==
    /\ Reading(d) /\ reader[d].eof
    /\ reader[d].file + 1 \in DOMAIN relay[d]
    /\ reader' = [reader EXCEPT ![d] = [file |-> @.file + 1, pos |-> 0, eof |-> FALSE]]
    /\ raced' = IF AtEnd(d) THEN raced ELSE raced \cup {d}
    /\ UNCHANGED <<mysql, relay, backups, saved, checkpoint, mark, pc, recovery, writer, bounds,
                   before, torn, jumped>>

NoNextFile(d) ==
    /\ Reading(d) /\ reader[d].eof
    /\ reader[d].file + 1 \notin DOMAIN relay[d]
    /\ reader' = [reader EXCEPT ![d].eof = FALSE]
    /\ UNCHANGED <<mysql, relay, backups, saved, checkpoint, mark, pc, recovery, writer, bounds, history>>

-----------------------------------------------------------------------------
Recover ==
    \/ NotRequired \/ BinlogNotAvailable \/ Required \/ BackupDone \/ RebuildEvent
    \/ RebuildDone \/ ValidateRecovered \/ SaveBinlogState \/ BinlogPurged \/ RestoreDone
    \/ \E d \in Databases : BackupFile(d) \/ RestoreRemove(d) \/ RestoreFile(d)

DbReplicator(d) ==
    \/ InitialReplication(d) \/ SetPosition(d) \/ ReadEvent(d)
    \/ ReachEnd(d) \/ SwitchFile(d) \/ NoNextFile(d)

Next ==
    \/ Start \/ Recover \/ BinlogReplicatorStores \/ RecoveryFails \/ Crash \/ MySQLPurges
    \/ \E d \in Databases : DbReplicator(d) \/ MySQLCommits(d) \/ RelayFileLost(d)

Spec == Init /\ [][Next]_vars

-----------------------------------------------------------------------------
(* Relay files hold some of the given events, none is empty, and there is  *)
(* a last one (their number is finite).                                    *)
FilesOK(events, files) ==
    /\ DOMAIN files \subseteq Nat \ {0}
    /\ files = [n \in DOMAIN files |-> files[n]]
    /\ \A n \in DOMAIN files : files[n] # <<>> /\ files[n] \in Seq(events)
    /\ DOMAIN files # {} =>
         \E n \in DOMAIN files : \A m \in DOMAIN files : n >= m

IsSequence(s) == s \in Seq({s[i] : i \in DOMAIN s})

FilesTypeOK ==
    /\ relay = [d \in Databases |-> relay[d]]
    /\ backups = [d \in Databases |-> backups[d]]
    /\ dirs \in [Databases -> Nat] /\ writer \in [Databases -> Nat]
    /\ \A d \in Databases :
         /\ FilesOK(Events(d), relay[d])
         /\ IsSequence(backups[d])
         /\ dirs[d] <= Len(backups[d])
         /\ writer[d] = 0 \/ writer[d] \in DOMAIN relay[d]

ReaderTypeOK ==
    /\ reader \in [Databases -> [file : Nat, pos : Nat, eof : BOOLEAN]]
    /\ \A d \in Databases :
         reader[d] # NoReader => /\ reader[d].file \in DOMAIN relay[d]
                                 /\ reader[d].pos <= Len(relay[d][reader[d].file])

(* The variables have their types; a database's relay, its checkpoint and  *)
(* its reader concern its own events and files only.                       *)
TypeOK ==
    /\ binlog \in Seq(Databases)
    /\ saved \in 0..Len(binlog) /\ at \in 0..Len(binlog)
    /\ checkpoint \in [Databases -> Nat]
    /\ \A d \in Databases : checkpoint[d] \in {None} \cup Events(d)
    /\ mark \in [Databases -> Uncopied..Len(binlog)]
    /\ cleared \subseteq Databases
    /\ pc \in {"down", "check", "backup", "rebuild", "validate", "save", "restore", "up"}
    /\ losses \in Nat /\ failures \in Nat /\ crashes \in Nat
    /\ FilesTypeOK /\ ReaderTypeOK

(* The position the next event of d is read from: what the initial copy    *)
(* saw, or the checkpoint.                                                 *)
Seen(d) == Max({mark[d], checkpoint[d]})

(* A db_replicator never passes over an event of its database, whatever    *)
(* files were lost and rebuilt while it was down, except after a recovery  *)
(* that a crash, or a failure where there was nothing to back up, ended    *)
(* half way (the next start finds the checkpoints in the part that was     *)
(* rebuilt), for a database that had no checkpoint when a recovery moved   *)
(* state.json, and where the writer fills a file and opens the next        *)
(* between the two looks of read_next_event.                               *)
NoEventSkipped ==
    [][\A d \in Databases :
         checkpoint'[d] # checkpoint[d] /\ mark[d] # Uncopied =>
           \/ torn \/ d \in jumped \/ d \in raced
           \/ EventsOf(d, Seen(d) + 1, checkpoint'[d] - 1) = {}]_vars

(* A recovery that fails puts back the relay files it found, all of them   *)
(* and no others, for every database that had any.                         *)
FailureRestores ==
    [][pc = "restore" /\ pc' = "down" /\ crashes' = crashes =>
         \A d \in Databases : dirs[d] # 0 \/ d \notin Known => relay'[d] = before[d]]_vars

(* While the processes run, every checkpoint is in the relay: no           *)
(* db_replicator is restarted again and again with TransactionNotFound.    *)
CheckpointsFound == pc = "up" => MissingStates = {}

(* What recovery rebuilds goes from the checkpoint of each database to the *)
(* position in state.json, where the binlog replicator takes over.         *)
RebuiltToPosition ==
    [][pc = "save" /\ pc' = "up" =>
         \A d \in Known : EventsOf(d, checkpoint[d], saved') \subseteq Ids(relay[d])]_vars

-----------------------------------------------------------------------------
(* The inductive invariant behind these properties. *)

(* Only the rebuild and the running processes have files open. *)
OpenInv ==
    /\ pc \notin {"rebuild", "up"} => writer = [d \in Databases |-> 0]
    /\ pc # "up" => reader = [d \in Databases |-> NoReader]
    /\ pc \in {"down", "check", "up"} => dirs = [d \in Databases |-> 0]
    /\ pc # "restore" => cleared = {}

(* The files this recovery has in the backup directory of d. *)
BackedUp(d) == IF dirs[d] = 0 THEN <<>> ELSE backups[d][dirs[d]]

(* The files in the relay of d are not rebuilt ones. *)
HasOldFiles(d) == pc = "backup" \/ d \in cleared \/ d \notin Known

(* The files this recovery found are in the backup directory, or not yet,  *)
(* or back in the relay.                                                   *)
FilesAccounted(d) ==
    /\ FilesOK(Events(d), before[d])
    /\ dirs[d] # 0 => d \in Known
    /\ d \in cleared => dirs[d] # 0
    /\ DOMAIN before[d] =
         DOMAIN BackedUp(d) \cup (IF HasOldFiles(d) THEN DOMAIN relay[d] ELSE {})
    /\ \A n \in DOMAIN BackedUp(d) : BackedUp(d)[n] = before[d][n]
    /\ HasOldFiles(d) => \A n \in DOMAIN relay[d] : relay[d][n] = before[d][n]

Recovering == pc \in {"backup", "rebuild", "validate", "save", "restore"}

BackupInv == Recovering => Known # {} /\ \A d \in Databases : FilesAccounted(d)

(* The rebuilt files have everything from the checkpoints up to at. *)
RebuildInv ==
    pc \in {"rebuild", "validate", "save"} =>
      \A d \in Known : EventsOf(d, checkpoint[d], at) \subseteq Ids(relay[d])

FoundInv == pc \in {"save", "up"} => MissingStates = {}

RecoveryInv == TypeOK /\ OpenInv /\ BackupInv /\ RebuildInv /\ FoundInv

-----------------------------------------------------------------------------
(* The inductive invariant behind NoEventSkipped.                          *)

(* The events of d between a and b are some that its copy had seen (up to m). *)
NoneBetween(log, d, m, a, b) == \A e \in a + 1 .. b - 1 : log[e] = d => e <= m

(* The files have the events of d one after the other, to the position     *)
(* end; some may be there again.                                           *)
Gapless(log, d, m, files, end) ==
    /\ \A n \in DOMAIN files : \A i \in 1 .. Len(files[n]) - 1 :
         NoneBetween(log, d, m, files[n][i], files[n][i + 1])
    /\ \A n \in DOMAIN files : n + 1 \in DOMAIN files =>
         NoneBetween(log, d, m, files[n][Len(files[n])], files[n + 1][1])
    /\ \A n \in DOMAIN files : (\A k \in DOMAIN files : k <= n) =>
         NoneBetween(log, d, m, files[n][Len(files[n])], end + 1)

(* A database without a checkpoint is read from its first file. *)
FromStart(log, d, m, files, end) ==
    /\ DOMAIN files = {} => NoneBetween(log, d, m, 0, end + 1)
    /\ \A n \in DOMAIN files : (\A k \in DOMAIN files : n <= k) =>
         NoneBetween(log, d, m, 0, files[n][1])

(* The databases whose files must be right at this moment, and how far. *)
Rebuilt(d) == d \in Known /\ pc \in {"rebuild", "validate", "save"}
Trusted(d) ==
    /\ ~torn /\ d \notin jumped /\ mark[d] # Uncopied
    /\ \/ d \notin Known \/ Rebuilt(d)
       \/ pc \in {"down", "check", "up"} /\ MissingStates = {}
End(d) == IF Rebuilt(d) THEN at ELSE saved

(* A recovery that is not finished leaves a reason for another one. *)
MissingInv ==
    /\ pc \in {"validate", "save"} => saved <= at
    /\ pc = "backup" => MissingStates # {}
    /\ Recovering => \E d \in Known : checkpoint[d] \notin Ids(before[d])

CopyInv ==
    \A d \in Databases : mark[d] = Uncopied => checkpoint[d] = None /\ reader[d] = NoReader

(* The file that is written is the last one. *)
WriterInv ==
    \A d \in Databases : writer[d] # 0 => \A n \in DOMAIN relay[d] : n <= writer[d]

FilesInv ==
    \A d \in Databases : Trusted(d) =>
      /\ Gapless(binlog, d, mark[d], relay[d], End(d))
      /\ checkpoint[d] = None => FromStart(binlog, d, mark[d], relay[d], End(d))

(* What the reader is about to read comes next. *)
ReaderInv ==
    \A d \in Databases : Trusted(d) /\ d \notin raced /\ reader[d] # NoReader =>
      LET file == relay[d][reader[d].file]
      IN  IF reader[d].pos = 0 THEN NoneBetween(binlog, d, mark[d], checkpoint[d], file[1])
          ELSE file[reader[d].pos] <= checkpoint[d]

SkipInv == MissingInv /\ CopyInv /\ WriterInv /\ FilesInv /\ ReaderInv
=============================================================================
