---------------------------- MODULE BinlogRelay ----------------------------
(***************************************************************************)
(* The binlog_replicator process: it reads MySQL's binary log, appends     *)
(* every event of a replicated database to the relay files of that         *)
(* database (<data_dir>/<db>/<n>.bin), and keeps the position to resume    *)
(* from in state.json.  The db_replicator processes read the relay files   *)
(* and save the last transaction they finished, which protects the files   *)
(* they still need from the periodic clean-up.                             *)
(*                                                                         *)
(* A transaction_id is the pair (log file, position after the event).      *)
(* compare_transactions orders the pairs totally, so an id is modelled as  *)
(* the index of the event in the whole binary log; None is 0.              *)
(*                                                                         *)
(* Time is abstracted: a condition "more than n seconds since ..." may     *)
(* hold at any step, except that it always holds the first time a run      *)
(* evaluates it, because the code starts the timers at 0.                  *)
(***************************************************************************)
EXTENDS Integers, Sequences, FiniteSets, FiniteSetsExt

CONSTANTS
    Schemas,          \* the databases of the MySQL server
    Databases,        \* those whose name (and table) the settings match
    Transactions,     \* groups of events MySQL may append to its log at once
    RecordsPerFile,   \* binlog_replicator.records_per_file
    PreserveFiles,    \* PRESERVE_FILES_COUNT
    SearchWindow,     \* the 10 files searched around the expected one
    SavedPosition,    \* what state.json holds at first: None, or a position
    MaxLog,           \* bound: events in the binary log
    MaxCrashes,       \* bound: crashes of the process
    MaxStops          \* bound: SIGINT/SIGTERM the process receives

None == 0
NoDb == "-"

(* The one event of a new binary log before anything is replicated. *)
FirstEvent == [kind |-> "rotate", db |-> NoDb, size |-> 0]

(* "map" is a TableMapEvent, "rows" a Write/Update/DeleteRowsEvent, "query" *)
(* a QueryEvent and "rotate" the RotateEvent that ends a binary log file.   *)
(* One table per database is enough: db stands for the table of the event.  *)
Event == [kind : {"map", "rows", "query", "rotate"}, db : Schemas \cup {NoDb},
          size : Nat]

ASSUME RelayAssumption ==
    /\ Databases \subseteq Schemas /\ NoDb \notin Schemas
    /\ RecordsPerFile \in Nat \ {0}
    /\ PreserveFiles \in Nat
    /\ SearchWindow \in Nat \ {0}
    /\ SavedPosition \in {None, 1}
    /\ MaxLog \in Nat /\ MaxCrashes \in Nat /\ MaxStops \in Nat

(* MySQL writes a TableMapEvent of a table before its row events. *)
ASSUME TransactionsAssumption ==
    /\ Transactions \subseteq Seq(Event)
    /\ \A t \in Transactions : \A i \in DOMAIN t :
         t[i].kind = "rows" =>
           \E j \in 1..(i - 1) : t[j].kind = "map" /\ t[j].db = t[i].db

VARIABLES
    master,      \* MySQL's binary log
    relay,       \* relay[db][n]: the ids of the events in <db>/<n>.bin
    saved,       \* state.json, equal to the State object while the process runs
    checkpoint,  \* last_processed_transaction in <db>/state.pckl
    pc,          \* where the process is in run()
    pos,         \* stream.log_file and stream.log_pos
    table_map,   \* stream.table_map: the tables whose map was received
    seen,        \* last_transaction_id of run()
    fresh,       \* update_state_if_required has not saved in this run
    writers,     \* data_writer.db_file_writers: file and num_records
    killed,      \* killer.kill_now
    crashes,     \* crashes so far
    stops,       \* signals so far
    stored,      \* history: ids of the events ever written to the relay
    interrupted, \* history: id in flight when the last run crashed, or None
    excused,     \* history: ids passed over, each for a reason named below
    origin       \* history: where the first connection of all began

vars == <<master, relay, saved, checkpoint, pc, pos, table_map, seen, fresh,
          writers, killed, crashes, stops, stored, interrupted, excused, origin>>

stream == <<pos, table_map>>
disk == <<relay, saved>>
bounds == <<crashes, stops>>
history == <<stored, interrupted, excused, origin>>

NoWriter == [file |-> 0, records |-> 0]

(* The ids in the relay files of a database. *)
Relayed(d) == UNION {{relay[d][n][i] : i \in DOMAIN relay[d][n]} :
                       n \in DOMAIN relay[d]}

(* convert_stream_event_to_log_event returns an event, not None. *)
Matches(e) == e.kind \in {"rows", "query"} /\ e.db \in Databases

-----------------------------------------------------------------------------
(* Relay files. *)

(* Mutated form: the new number is the largest existing one. *)
GetNextFileNumReusing(d) ==
    IF DOMAIN relay[d] = {} THEN 0 ELSE Max(DOMAIN relay[d])

(* The number of the file a new FileWriter of d opens. *)
GetNextFileNum(d) ==
    IF DOMAIN relay[d] = {} THEN 1 ELSE Max(DOMAIN relay[d]) + 1

(* open(file_path, 'wb'): a new file is empty, an existing one is truncated. *)
OpenForWriting(files, n) ==
    [m \in DOMAIN files \cup {n} |-> IF m = n THEN <<>> ELSE files[m]]

(* The writer store_event uses needs to be created: there is none, or its  *)
(* file is full.                                                           *)
NeedsNewWriter(d) ==
    writers[d] = NoWriter \/ writers[d].records >= RecordsPerFile

(* get_file_with_transaction: the number of the file that holds t, 0 when  *)
(* it raises TransactionNotFound.  The files are tried in the window       *)
(* around the last one that starts at or before t.                         *)
GetFileWithTransaction(d, t) ==
    LET nums == DOMAIN relay[d]
        rank(n) == Cardinality({m \in nums : m < n})
        nonempty == {n \in nums : relay[d][n] # <<>>}
        after == {n \in nonempty : relay[d][n][1] > t}
        before == {n \in nonempty : \A m \in after : n < m}
        matching == IF after # {} /\ before # {} THEN Max(before) ELSE Max(nums)
        holding == {n \in nums :
                      /\ rank(n) \in (rank(matching) - SearchWindow) ..
                                     (rank(matching) + SearchWindow - 1)
                      /\ \E i \in DOMAIN relay[d][n] : relay[d][n][i] = t}
    IN  IF nums = {} \/ holding = {} THEN 0 ELSE Min(holding)

(* Mutated form: the protected file itself may go. *)
FileNumsToCheckInclusive(d) ==
    LET nums == DOMAIN relay[d]
        protected == GetFileWithTransaction(d, checkpoint[d])
    IN  {n \in nums :
           /\ Cardinality({m \in nums : m > n}) >= PreserveFiles + 1
           /\ checkpoint[d] # None => n <= protected}

(* Mutated form: clean-up by age only, whatever the db_replicators need. *)
FileNumsToCheckByAge(d) ==
    {n \in DOMAIN relay[d] :
       Cardinality({m \in DOMAIN relay[d] : m > n}) >= PreserveFiles + 1}

(* The files remove_old_files may delete, whatever their age. *)
FileNumsToCheck(d) ==
    LET nums == DOMAIN relay[d]
        protected == GetFileWithTransaction(d, checkpoint[d])
    IN  {n \in nums :
           /\ Cardinality({m \in nums : m > n}) >= PreserveFiles + 1
           /\ checkpoint[d] # None => n < protected}

(* remove_old_files: the files not modified since ts_from.  A file is      *)
(* modified before the next one is created, so these are the files up to   *)
(* some number old[d]; old[d] = 0 when none is that old, or when           *)
(* clear_old_binlog_if_required returns early.                             *)
RemoveOldFiles(old) ==
    relay' = [d \in Databases |->
                LET kept == {n \in DOMAIN relay[d] :
                               ~(n \in FileNumsToCheck(d) /\ n <= old[d])}
                IN  [n \in kept |-> relay[d][n]]]

AllFileNums == UNION {DOMAIN relay[d] : d \in Databases}

-----------------------------------------------------------------------------
(* state.json. *)

(* Mutated form: the position to resume from does not lag one save behind. *)
SaveStateOnce(t) == saved' = [last |-> t, prev |-> t]

SaveState(t) == saved' = [last |-> t, prev |-> saved.last]

(* The first call of a run always saves; later ones once in               *)
(* SAVE_UPDATE_INTERVAL.                                                   *)
UpdateStateIfRequired(t) ==
    \/ SaveState(t) /\ fresh' = FALSE
    \/ ~fresh /\ UNCHANGED <<saved, fresh>>

-----------------------------------------------------------------------------
(* Mutated form: the next run goes on in the file the last one was writing. *)
ProcessEndsKeepingWriters ==
    /\ pc' = "down"
    /\ pos' = None
    /\ table_map' = {}
    /\ seen' = None
    /\ fresh' = TRUE
    /\ killed' = FALSE
    /\ UNCHANGED writers

(* The process is gone, and its memory with it. *)
ProcessEnds ==
    /\ pc' = "down"
    /\ pos' = None
    /\ table_map' = {}
    /\ seen' = None
    /\ fresh' = TRUE
    /\ writers' = [d \in Databases |-> NoWriter]
    /\ killed' = FALSE

(* An event in flight at a crash is read again by the next run; it is      *)
(* excused when that run ends before it has stored the event.              *)
ExcuseInterrupted ==
    excused' = IF interrupted = None THEN excused ELSE excused \cup {interrupted}

Init ==
    /\ master = <<FirstEvent>>
    /\ relay = [d \in Databases |-> [n \in {} |-> <<>>]]
    /\ saved = [last |-> SavedPosition, prev |-> SavedPosition]
    /\ checkpoint = [d \in Databases |-> None]
    /\ pc = "down"
    /\ pos = None
    /\ table_map = {}
    /\ seen = None
    /\ fresh = TRUE
    /\ writers = [d \in Databases |-> NoWriter]
    /\ killed = FALSE
    /\ crashes = 0
    /\ stops = 0
    /\ stored = {}
    /\ interrupted = None
    /\ excused = {}
    /\ origin = SavedPosition

(* MySQL (external) commits: the events of a transaction appear at once. *)
MySQLCommits ==
    \E t \in Transactions :
      /\ Len(master) + Len(t) <= MaxLog
      /\ master' = master \o t
      /\ UNCHANGED <<disk, checkpoint, pc, stream, seen, fresh, writers, killed,
                     bounds, history>>

(* Mutated form: resume from last_seen_transaction. *)
StartFromLast ==
    /\ pc = "down"
    /\ pc' = "outer"
    /\ pos' = saved.last
    /\ UNCHANGED <<master, disk, checkpoint, table_map, seen, fresh, writers,
                   killed, bounds, history>>

(* BinlogReplicator.__init__: resume from prev_last_seen_transaction. *)
Start ==
    /\ pc = "down"
    /\ pc' = "outer"
    /\ pos' = saved.prev
    /\ UNCHANGED <<master, disk, checkpoint, table_map, seen, fresh, writers,
                   killed, bounds, history>>

(* Mutated form: the outer loop does not look at kill_now. *)
OuterLoopForever ==
    /\ pc = "outer"
    /\ pc' = "read"
    /\ UNCHANGED <<master, disk, checkpoint, stream, seen, fresh, writers,
                   killed, bounds, history>>

(* The head of the outer loop of run(). *)
OuterLoop ==
    /\ pc = "outer"
    /\ pc' = IF killed THEN "stop" ELSE "read"
    /\ UNCHANGED <<master, disk, checkpoint, stream, seen, fresh, writers,
                   killed, bounds, history>>

(* The head of the inner loop of run(), when a signal has arrived. *)
LeaveInnerLoop ==
    /\ pc = "read" /\ killed
    /\ pc' = "tick"
    /\ UNCHANGED <<master, disk, checkpoint, stream, seen, fresh, writers,
                   killed, bounds, history>>

(* fetchone connects; without a position it takes the current end of the   *)
(* log (SHOW MASTER STATUS).  What it passes over is excused.              *)
Connect ==
    /\ pc = "read" /\ ~killed /\ pos = None
    /\ pos' = Len(master)
    /\ excused' = excused \cup {p \in 1..Len(master) : p \notin stored}
    /\ origin' = IF origin = None THEN Len(master) ELSE origin
    /\ UNCHANGED <<master, disk, checkpoint, pc, table_map, seen, fresh, writers,
                   killed, bounds, stored, interrupted>>

(* fetchone can take the next packet. *)
Reading == pc = "read" /\ ~killed /\ pos # None /\ pos < Len(master)

(* The events fetchone keeps to itself: a TableMapEvent fills table_map, a *)
(* RotateEvent empties it, and a row event whose table is not in table_map *)
(* is dropped (the KeyError in RowsEvent.__init__); the last is excused.   *)
SkipEvent ==
    LET e == master[pos + 1] IN
    /\ Reading
    /\ e.kind = "rows" => e.db \notin table_map
    /\ e.kind # "query"
    /\ pos' = pos + 1
    /\ table_map' = CASE e.kind = "map" -> table_map \cup {e.db}
                      [] e.kind = "rotate" -> {}
                      [] OTHER -> table_map
    /\ excused' = IF Matches(e) THEN excused \cup {pos + 1} ELSE excused
    /\ UNCHANGED <<master, disk, checkpoint, pc, seen, fresh, writers, killed,
                   bounds, stored, interrupted, origin>>

(* run() receives a row or query event: it updates the state first, and    *)
(* goes on to store the event if the settings match it.                    *)
ReadEvent ==
    LET e == master[pos + 1] IN
    /\ Reading
    /\ e.kind = "query" \/ (e.kind = "rows" /\ e.db \in table_map)
    /\ pos' = pos + 1
    /\ seen' = pos + 1
    /\ UpdateStateIfRequired(pos + 1)
    /\ pc' = IF Matches(e) THEN "store" ELSE "read"
    /\ UNCHANGED <<master, relay, checkpoint, table_map, writers, killed, bounds,
                   history>>

(* run() receives a heartbeat, which MySQL sends while its log is idle. *)
ReadHeartbeat ==
    /\ pc = "read" /\ ~killed /\ pos = Len(master)
    /\ seen' = pos
    /\ UpdateStateIfRequired(pos)
    /\ pc' = "tick"
    /\ UNCHANGED <<master, relay, checkpoint, stream, writers, killed, bounds,
                   history>>

(* read_stream_event returns None: MySQL ended the stream. *)
ReadNone ==
    /\ pc = "read" /\ ~killed /\ pos # None
    /\ pc' = "tick"
    /\ UNCHANGED <<master, disk, checkpoint, stream, seen, fresh, writers,
                   killed, bounds, history>>

(* read_stream_event raises OperationalError: sleep, back to the outer     *)
(* loop; stream keeps its position and its table_map.                      *)
ReadFails ==
    /\ pc = "read" /\ ~killed
    /\ pc' = "outer"
    /\ UNCHANGED <<master, disk, checkpoint, stream, seen, fresh, writers,
                   killed, bounds, history>>

(* data_writer.store_event.  Every write is flushed (last_flush_time stays *)
(* 0), so a stored event is visible and survives the process.  The tick    *)
(* ends here after MAX_EVENTS_PER_TICK events.                             *)
StoreEvent ==
    LET d == master[pos].db
        writer == IF NeedsNewWriter(d)
                  THEN [file |-> GetNextFileNum(d), records |-> 0]
                  ELSE writers[d]
        files == IF NeedsNewWriter(d) THEN OpenForWriting(relay[d], writer.file)
                 ELSE relay[d]
    IN  /\ pc = "store"
        /\ relay' = [relay EXCEPT ![d] =
                       [files EXCEPT ![writer.file] = Append(@, pos)]]
        /\ writers' = [writers EXCEPT ![d] =
                         [writer EXCEPT !.records = @ + master[pos].size]]
        /\ stored' = stored \cup {pos}
        /\ interrupted' = IF interrupted = pos THEN None ELSE interrupted
        /\ pc' \in {"read", "tick"}
        /\ UNCHANGED <<master, saved, checkpoint, stream, seen, fresh, killed,
                       bounds, excused, origin>>

(* The end of an iteration of the outer loop. *)
Tick ==
    /\ pc = "tick"
    /\ UpdateStateIfRequired(seen)
    /\ \E old \in [Databases -> AllFileNums \cup {0}] : RemoveOldFiles(old)
    /\ pc' = "outer"
    /\ UNCHANGED <<master, checkpoint, stream, seen, writers, killed, bounds,
                   history>>

(* The end of run(): close_all and the forced update_state_if_required. *)
Stop ==
    /\ pc = "stop"
    /\ SaveState(seen)
    /\ ProcessEnds
    /\ ExcuseInterrupted
    /\ interrupted' = None
    /\ UNCHANGED <<master, relay, checkpoint, bounds, stored, origin>>

(* GracefulKiller.exit_gracefully: SIGINT or SIGTERM sets a flag. *)
Signal ==
    /\ pc # "down" /\ ~killed /\ stops < MaxStops
    /\ killed' = TRUE
    /\ stops' = stops + 1
    /\ UNCHANGED <<master, disk, checkpoint, pc, stream, seen, fresh, writers,
                   crashes, history>>

(* The process dies.  Inside store_event it may leave a new file without a *)
(* complete event.                                                         *)
Crash ==
    /\ pc # "down" /\ crashes < MaxCrashes
    /\ crashes' = crashes + 1
    /\ ProcessEnds
    /\ ExcuseInterrupted
    /\ interrupted' = IF pc = "store" THEN pos ELSE None
    /\ \/ UNCHANGED relay
       \/ /\ pc = "store" /\ NeedsNewWriter(master[pos].db)
          /\ relay' = [relay EXCEPT ![master[pos].db] =
                         OpenForWriting(@, GetNextFileNum(master[pos].db))]
    /\ UNCHANGED <<master, saved, checkpoint, stops, stored, origin>>

(* Everything in front of entry i of file n in the relay of d is below it. *)
FirstOfItsKind(d, n, i) ==
    \A m \in DOMAIN relay[d] : \A j \in DOMAIN relay[d][m] :
      m < n \/ (m = n /\ j < i) => relay[d][m][j] < relay[d][n][i]

(* A db_replicator saves the last transaction it uploaded.  It reads the    *)
(* files in order and ignores an id not above the last one it handled, so   *)
(* that transaction is above everything in front of it in the relay.        *)
ConsumerSaves(d) ==
    /\ \E n \in DOMAIN relay[d] : \E i \in DOMAIN relay[d][n] :
         /\ relay[d][n][i] > checkpoint[d]
         /\ FirstOfItsKind(d, n, i)
         /\ checkpoint' = [checkpoint EXCEPT ![d] = relay[d][n][i]]
    /\ UNCHANGED <<master, disk, pc, stream, seen, fresh, writers, killed,
                   bounds, history>>

Process == \/ Start \/ OuterLoop \/ LeaveInnerLoop \/ Connect \/ SkipEvent
           \/ ReadEvent \/ ReadHeartbeat \/ StoreEvent \/ Tick \/ Stop

Next == \/ Process \/ ReadNone \/ ReadFails \/ Signal \/ Crash \/ MySQLCommits
        \/ \E d \in Databases : ConsumerSaves(d)

Spec == Init /\ [][Next]_vars

(* The runner restarts a process that ended and the process keeps taking   *)
(* steps; MySQL does not refuse the connection or end the stream for ever. *)
FairSpec ==
    /\ Spec
    /\ WF_vars(Start) /\ WF_vars(OuterLoop) /\ WF_vars(LeaveInnerLoop)
    /\ WF_vars(StoreEvent) /\ WF_vars(Tick) /\ WF_vars(Stop)
    /\ SF_vars(Connect) /\ SF_vars(SkipEvent) /\ SF_vars(ReadEvent)

-----------------------------------------------------------------------------
(* Properties. *)

PcValues == {"down", "outer", "read", "store", "tick", "stop"}

(* A set of relay files has a last one (the file numbers are finite in     *)
(* number), and every file is a sequence of ids.                           *)
FilesOK(files) ==
    /\ DOMAIN files \subseteq Nat \ {0}
    /\ files = [n \in DOMAIN files |-> files[n]]
    /\ \A n \in DOMAIN files : files[n] \in Seq(Nat)
    /\ DOMAIN files # {} =>
         \E n \in DOMAIN files : \A m \in DOMAIN files : n >= m

LogTypeOK == master \in Seq(Event) /\ Len(master) >= 1

RelayTypeOK ==
    /\ relay = [d \in Databases |-> relay[d]]
    /\ \A d \in Databases : FilesOK(relay[d])

StateTypeOK ==
    /\ saved \in [last : 0..Len(master), prev : 0..Len(master)]
    /\ checkpoint \in [Databases -> Nat]
    /\ crashes \in Nat /\ stops \in Nat

ProcessTypeOK ==
    /\ pc \in PcValues
    /\ pos \in 0..Len(master)
    /\ pc = "store" => pos > 0 /\ Matches(master[pos])
    /\ table_map \subseteq Schemas \cup {NoDb}
    /\ seen \in 0..Len(master)
    /\ fresh \in BOOLEAN
    /\ writers \in [Databases -> [file : Nat, records : Nat]]
    /\ killed \in BOOLEAN

HistoryTypeOK ==
    /\ stored \subseteq 1..Len(master)
    /\ interrupted \in 0..Len(master)
    /\ excused \subseteq 1..Len(master)
    /\ origin \in 0..Len(master)

(* The variables have their types; an event being stored is a matching one *)
(* at the stream's position, which never passes the end of the log.        *)
TypeOK ==
    LogTypeOK /\ RelayTypeOK /\ StateTypeOK /\ ProcessTypeOK /\ HistoryTypeOK

(* Every matching event up to n is in S. *)
Covered(n, S) == \A p \in 1..n : Matches(master[p]) => p \in S

Accounted == stored \cup excused

(* The last event the process is finished with. *)
Done == IF pc = "store" THEN pos - 1 ELSE pos

InFlight == IF pc = "store" THEN {pos} ELSE {}

(* run() and __init__: whatever the order of saves, ticks, stops, crashes   *)
(* and restarts, the stream passes a matching event without storing it for  *)
(* one of three reasons only: it was in flight at a crash and the next run  *)
(* ended before it was stored, it precedes a start without a saved          *)
(* position, or a start cut it off from its TableMapEvent.                  *)
NoSilentLoss == Covered(Done, Accounted)

(* state.json: a restart from prev_last_seen_transaction passes over        *)
(* nothing, and the position that will replace it is ahead of the relay by  *)
(* the event in flight now or at the last crash only.                       *)
SavedPositionsCovered ==
    /\ Covered(saved.prev, IF fresh THEN Accounted ELSE Accounted \cup {interrupted})
    /\ Covered(saved.last, Accounted \cup {interrupted} \cup InFlight)

(* Facts about one run: the last event it received is not ahead of the      *)
(* stream, and an event is stored after the first save of the run.          *)
RunInv ==
    /\ seen <= pos
    /\ pc = "down" => fresh /\ seen = None
    /\ pc = "store" => ~fresh

(* The inductive invariant behind NoSilentLoss. *)
RelayInv == TypeOK /\ NoSilentLoss /\ SavedPositionsCovered /\ RunInv

(* set_position stops at the first larger id, so it needs the ids of a     *)
(* relay file in increasing order: a file is written by one run only.      *)
RelayFilesSorted ==
    \A d \in Databases : \A n \in DOMAIN relay[d] :
      \A i, j \in DOMAIN relay[d][n] : i < j => relay[d][n][i] < relay[d][n][j]

(* A writer has the last file of its database, which holds nothing above   *)
(* what the run has finished, and a process that is down has no writer.    *)
WriterAtEnd ==
    /\ pc = "down" => \A d \in Databases : writers[d] = NoWriter
    /\ \A d \in Databases : writers[d] # NoWriter =>
         /\ writers[d].file \in DOMAIN relay[d]
         /\ \A m \in DOMAIN relay[d] : m <= writers[d].file
         /\ \A i \in DOMAIN relay[d][writers[d].file] :
              relay[d][writers[d].file][i] <= Done

(* The inductive invariant behind RelayFilesSorted. *)
FilesInv == TypeOK /\ RelayFilesSorted /\ WriterAtEnd

(* No step truncates or rewrites a relay file: it grows at its end, or it  *)
(* is removed as a whole (FileWriter opens its file with 'wb').            *)
RelayAppendOnly ==
    [][\A d \in Databases : \A n \in DOMAIN relay[d] \cap DOMAIN relay'[d] :
         \A i \in DOMAIN relay[d][n] :
           i \in DOMAIN relay'[d][n] /\ relay'[d][n][i] = relay[d][n][i]]_vars

(* A saved transaction stays in the relay. *)
CheckpointKept ==
    \A d \in Databases : checkpoint[d] # None => checkpoint[d] \in Relayed(d)

(* It is there behind smaller ids only. *)
CheckpointInOrder ==
    \A d \in Databases : checkpoint[d] # None =>
      \E n \in DOMAIN relay[d] : \E i \in DOMAIN relay[d][n] :
        relay[d][n][i] = checkpoint[d] /\ FirstOfItsKind(d, n, i)

(* The files behind the transaction saved for d in which a restarted        *)
(* process has written an id not above it first, or nothing.                *)
ReplayFiles(d) ==
    {n \in DOMAIN relay[d] :
       /\ relay[d][n] = <<>> \/ relay[d][n][1] <= checkpoint[d]
       /\ \E m \in DOMAIN relay[d] : \E i \in DOMAIN relay[d][m] :
            m < n /\ relay[d][m][i] = checkpoint[d]}

(* There are no more of them than get_file_with_transaction looks through. *)
FewReplays ==
    \A d \in Databases :
      checkpoint[d] # None => Cardinality(ReplayFiles(d)) <= SearchWindow

(* get_file_with_transaction: a db_replicator that restarts finds the       *)
(* transaction it saved in the relay, in whatever files replays left it.    *)
CheckpointFound ==
    \A d \in Databases :
      checkpoint[d] # None => GetFileWithTransaction(d, checkpoint[d]) # 0

(* remove_old_files never removes an event that a db_replicator with a      *)
(* saved transaction has still to read.                                     *)
UnreadEventsKept ==
    [][\A d \in Databases : checkpoint[d] # None =>
         \A t \in Relayed(d) : t > checkpoint[d] => t \in Relayed(d)']_vars

(* "It will always be in sync": since the first connection, every matching *)
(* event the stream has passed is in the relay.                            *)
EveryEventRelayed ==
    \A p \in (origin + 1)..Done : Matches(master[p]) => p \in stored

(* As long as the process is restarted, each matching event of the binary  *)
(* log is eventually stored, or excused.                                   *)
EventuallyRelayed ==
    \A p \in 1..MaxLog :
      (p <= Len(master) /\ Matches(master[p])) ~> (p \in stored \cup excused)

=============================================================================
