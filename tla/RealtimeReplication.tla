------------------------ MODULE RealtimeReplication ------------------------
(***************************************************************************)
(* The realtime phase of a db_replicator process.  It reads the relay of   *)
(* its database, collects row events in records_to_insert and              *)
(* records_to_delete, uploads them to ClickHouse in batches, executes DDL  *)
(* statements as it meets them, and saves state.pckl from time to time.    *)
(* The tables are ReplacingMergeTree(_version) tables read with FINAL.     *)
(*                                                                         *)
(* A transaction_id is the index of the event in the log of the database,  *)
(* None is 0, and the row an event writes is identified by that index.     *)
(* Intervals are abstracted: an upload or a save that is due "after n      *)
(* seconds" may happen at any step where the code checks for it, and must  *)
(* happen at the first check of a run, whose timers start at 0.            *)
(***************************************************************************)
EXTENDS Integers, Sequences, FiniteSets, SequencesExt

CONSTANTS
    Tables,          \* table names (target_tables maps each to itself)
    Keys,            \* primary keys
    Statements,      \* the events MySQL may log
    InitialTables,   \* the tables of the snapshot, which are empty
    EraseBatchSize,  \* clickhouse.erase_batch_size
    MaxLog,          \* bound: events in the log
    MaxReplays,      \* bound: restarts of binlog_replicator that replay events
    MaxStops,        \* bound: signals and auto_restart_interval expiries
    MaxCrashes       \* bound: crashes of the process

None == 0
RowKinds == {"insert", "rekey", "delete"}
QueryKinds == {"create", "drop", "drop if exists", "rename", "truncate"}

(* "insert" is a WriteRowsEvent, or an UpdateRowsEvent that keeps the       *)
(* primary key; "rekey" an UpdateRowsEvent that changes it from key to to;  *)
(* "rename" renames table to to.                                            *)
Event == [kind : RowKinds \cup QueryKinds, table : Tables, key : Keys,
          to : Tables \cup Keys]

ASSUME RealtimeAssumption ==
    /\ Statements \subseteq Event
    /\ \A e \in Statements : /\ e.kind = "rename" => e.to \in Tables
                             /\ e.kind = "rekey" => e.to \in Keys
    /\ InitialTables \subseteq Tables
    /\ EraseBatchSize \in Nat \ {0}
    /\ MaxLog \in Nat /\ MaxReplays \in Nat /\ MaxStops \in Nat /\ MaxCrashes \in Nat

VARIABLES
    log,           \* the events of the database
    mysql,         \* mysql[n + 1]: the tables of MySQL after n events
    relay,         \* the ids in the relay files, in reading order
    ch,            \* the tables of ClickHouse: the winning row of each key
    saved,         \* state.pckl
    pc,            \* where the process is
    ret,           \* where upload_records returns to
    fresh,         \* no upload_records in this run yet
    reader,        \* how much of the relay data_reader has read
    last,          \* state.last_processed_transaction
    non_uploaded,  \* state.last_processed_transaction_non_uploaded
    versions,      \* tables_last_record_version
    structs,       \* the keys of state.tables_structure
    ins,           \* records_to_insert: per table, a dict in insertion order
    del,           \* records_to_delete: per table, a set of primary keys
    replays, stops, crashes,
    sent,          \* history: ids whose effect ClickHouse has received
    applied        \* history: events in the view, once an upload is complete

memory == <<fresh, reader, last, non_uploaded, versions, structs, ins, del>>
bounds == <<replays, stops, crashes>>
source == <<log, mysql, relay>>
history == <<sent, applied>>
vars == <<source, ch, saved, pc, ret, memory, bounds, history>>

NoRow == [val |-> None, ver |-> 0]
EmptyTable == [k \in Keys |-> NoRow]
NoRecords == [t \in Tables |-> <<>>]
NoKeys == [t \in Tables |-> {}]

(* f without x in its domain. *)
Without(f, x) == [y \in DOMAIN f \ {x} |-> f[y]]

(* f with its value at x moved to y, or with v at x. *)
Moved(f, x, y) == [z \in (DOMAIN f \ {x}) \cup {y} |-> IF z = y THEN f[x] ELSE f[z]]
With(f, x, v) == [y \in DOMAIN f \cup {x} |-> IF y = x THEN v ELSE f[y]]

-----------------------------------------------------------------------------
(* MySQL and the relay (external to this process). *)

(* The tables of MySQL before the next event. *)
Current == mysql[Len(mysql)]

(* MySQL accepts the statement. *)
Valid(e, c) ==
    CASE e.kind = "create" -> e.table \notin DOMAIN c
      [] e.kind = "drop if exists" -> TRUE
      [] e.kind = "rename" -> e.table \in DOMAIN c /\ e.to \notin DOMAIN c
      [] e.kind = "delete" -> e.table \in DOMAIN c /\ c[e.table][e.key] # None
      [] e.kind = "rekey" -> /\ e.table \in DOMAIN c
                             /\ c[e.table][e.key] # None /\ c[e.table][e.to] = None
      [] OTHER -> e.table \in DOMAIN c

(* The tables c after event e, whose id is n. *)
Effect(e, n, c) ==
    CASE e.kind = "insert" -> [c EXCEPT ![e.table][e.key] = n]
      [] e.kind = "rekey" -> [c EXCEPT ![e.table][e.key] = None, ![e.table][e.to] = n]
      [] e.kind = "delete" -> [c EXCEPT ![e.table][e.key] = None]
      [] e.kind \in {"create", "truncate"} -> With(c, e.table, [k \in Keys |-> None])
      [] e.kind = "rename" -> Moved(c, e.table, e.to)
      [] OTHER -> Without(c, e.table)

MySQLCommits ==
    \E e \in Statements :
      /\ Len(log) < MaxLog
      /\ Valid(e, Current)
      /\ log' = Append(log, e)
      /\ mysql' = Append(mysql, Effect(e, Len(log) + 1, Current))
      /\ relay' = Append(relay, Len(log) + 1)
      /\ UNCHANGED <<ch, saved, pc, ret, memory, bounds, history>>

(* binlog_replicator restarts and stores again what follows its saved      *)
(* position.                                                               *)
RelayReplays ==
    \E p \in 1..Len(log) :
      /\ replays < MaxReplays
      /\ replays' = replays + 1
      /\ relay' = relay \o [i \in 1..(Len(log) - p + 1) |-> p + i - 1]
      /\ UNCHANGED <<log, mysql, ch, saved, pc, ret, memory, stops, crashes, history>>

-----------------------------------------------------------------------------
(* State. *)

(* Mutated form: the state saved is that of the events handled, uploaded   *)
(* or not.                                                                 *)
SaveNonUploaded(l, v, s) ==
    saved' = [last |-> non_uploaded, versions |-> v, structs |-> s]

(* State.save. *)
Save(l, v, s) == saved' = [last |-> l, versions |-> v, structs |-> s]

(* save_state_if_required. *)
SaveStateIfRequired(l, v, s) == Save(l, v, s) \/ (~fresh /\ UNCHANGED saved)

(* The process is gone, and its memory with it. *)
ProcessEnds ==
    /\ pc' = "down" /\ ret' = "loop"
    /\ fresh' = TRUE
    /\ reader' = 0
    /\ last' = None /\ non_uploaded' = None
    /\ versions' = [t \in Tables |-> 0]
    /\ structs' = {}
    /\ ins' = NoRecords /\ del' = NoKeys

(* An exception ends the process without saving its state. *)
Raise == ProcessEnds /\ UNCHANGED <<source, ch, saved, bounds, history>>

Init ==
    /\ log = <<>>
    /\ mysql = <<[t \in InitialTables |-> [k \in Keys |-> None]]>>
    /\ relay = <<>>
    /\ ch = [t \in InitialTables |-> EmptyTable]
    /\ saved = [last |-> None, versions |-> [t \in Tables |-> 0], structs |-> InitialTables]
    /\ pc = "down" /\ ret = "loop"
    /\ fresh = TRUE
    /\ reader = 0
    /\ last = None /\ non_uploaded = None
    /\ versions = [t \in Tables |-> 0]
    /\ structs = {}
    /\ ins = NoRecords /\ del = NoKeys
    /\ replays = 0 /\ stops = 0 /\ crashes = 0
    /\ sent = {}
    /\ applied = 0

(* data_reader.set_position: after the first occurrence of t in the relay. *)
SetPosition(t) ==
    IF t = None THEN 0
    ELSE CHOOSE i \in DOMAIN relay : relay[i] = t /\ \A j \in 1..(i - 1) : relay[j] # t

(* Mutated form: last_processed_transaction_non_uploaded is not loaded. *)
StartWithoutNonUploaded ==
    /\ pc = "down"
    /\ pc' = "loop"
    /\ last' = saved.last
    /\ versions' = saved.versions
    /\ structs' = saved.structs
    /\ reader' = SetPosition(saved.last)
    /\ UNCHANGED <<source, ch, saved, ret, fresh, non_uploaded, ins, del, bounds, history>>

(* State.load, and run_realtime_replication up to its loop; the state it   *)
(* saves there is the one it has loaded.                                   *)
Start ==
    /\ pc = "down"
    /\ pc' = "loop"
    /\ last' = saved.last
    /\ non_uploaded' = saved.last
    /\ versions' = saved.versions
    /\ structs' = saved.structs
    /\ reader' = SetPosition(saved.last)
    /\ UNCHANGED <<source, ch, saved, ret, fresh, ins, del, bounds, history>>

-----------------------------------------------------------------------------
(* handle_event. *)

(* The event read_next_event returns. *)
NextId == relay[reader + 1]
Reading == pc = "loop" /\ reader < Len(relay)
NewEvent(kinds) == Reading /\ NextId > non_uploaded /\ log[NextId].kind \in kinds

(* The primary key of the row that event e is about: an UpdateRowsEvent is  *)
(* stored with its after_values only.                                       *)
RecordId(e) == IF e.kind = "rekey" THEN e.to ELSE e.key

(* k in d, d[k] = v and d.pop(k, None) on a dict. *)
Has(d, k) == \E i \in DOMAIN d : d[i].key = k
IndexOf(d, k) == CHOOSE i \in DOMAIN d : d[i].key = k
Put(d, k, v) ==
    IF Has(d, k) THEN [d EXCEPT ![IndexOf(d, k)].val = v]
    ELSE Append(d, [key |-> k, val |-> v])
Pop(d, k) == IF Has(d, k) THEN RemoveAt(d, IndexOf(d, k)) ELSE d

(* upload_records begins. *)
UploadRecords(return, handled) ==
    pc' = "upload" /\ ret' = return /\ applied' = handled

(* The rest of handle_event after the handler of event id: non_uploaded,    *)
(* upload_records_if_required and save_state_if_required.  shown is what    *)
(* the view includes if no upload follows.                                  *)
FinishEvent(id, shown) ==
    /\ non_uploaded' = id
    /\ \/ UploadRecords("loop", id) /\ UNCHANGED saved
       \/ /\ ~fresh
          /\ pc' = "loop"
          /\ SaveStateIfRequired(last, versions, structs')
          /\ applied' = shown
          /\ UNCHANGED ret
    /\ UNCHANGED <<source, fresh, last, versions, bounds>>

(* Mutated form: an event that was handled already is handled again. *)
SkipDuplicateTooFew ==
    /\ Reading /\ NextId < non_uploaded - 1
    /\ reader' = reader + 1
    /\ UNCHANGED <<source, ch, saved, pc, ret, fresh, last, non_uploaded, versions,
                   structs, ins, del, bounds, history>>

(* An event that was handled already. *)
SkipDuplicate ==
    /\ Reading /\ NextId <= non_uploaded
    /\ reader' = reader + 1
    /\ UNCHANGED <<source, ch, saved, pc, ret, fresh, last, non_uploaded, versions,
                   structs, ins, del, bounds, history>>

(* Mutated form: the key stays in records_to_delete. *)
HandleInsertKeepingDelete ==
    LET e == log[NextId] IN
    /\ NewEvent({"insert", "rekey"}) /\ e.table \in structs
    /\ ins' = [ins EXCEPT ![e.table] = Put(@, RecordId(e), NextId)]
    /\ reader' = reader + 1
    /\ UNCHANGED <<ch, structs, del, sent>>
    /\ FinishEvent(NextId, applied)

(* handle_insert_event; tables_structure has the table (StructureKnown). *)
HandleInsert ==
    LET e == log[NextId] IN
    /\ NewEvent({"insert", "rekey"}) /\ e.table \in structs
    /\ ins' = [ins EXCEPT ![e.table] = Put(@, RecordId(e), NextId)]
    /\ del' = [del EXCEPT ![e.table] = @ \ {RecordId(e)}]
    /\ reader' = reader + 1
    /\ UNCHANGED <<ch, structs, sent>>
    /\ FinishEvent(NextId, applied)

(* handle_erase_event; tables_structure has the table (StructureKnown). *)
HandleErase ==
    LET e == log[NextId] IN
    /\ NewEvent({"delete"}) /\ e.table \in structs
    /\ del' = [del EXCEPT ![e.table] = @ \cup {e.key}]
    /\ ins' = [ins EXCEPT ![e.table] = Pop(@, e.key)]
    /\ reader' = reader + 1
    /\ UNCHANGED <<ch, structs, sent>>
    /\ FinishEvent(NextId, applied)

(* CREATE TABLE IF NOT EXISTS, without an upload before it. *)
HandleCreateTable ==
    LET e == log[NextId] IN
    /\ NewEvent({"create"})
    /\ structs' = structs \cup {e.table}
    /\ ch' = IF e.table \in DOMAIN ch THEN ch ELSE With(ch, e.table, EmptyTable)
    /\ sent' = sent \cup {NextId}
    /\ reader' = reader + 1
    /\ UNCHANGED <<ins, del>>
    /\ FinishEvent(NextId, applied)

(* Mutated form: DDL statements are executed without an upload. *)
HandleQueryAtOnce ==
    /\ NewEvent(QueryKinds \ {"create"})
    /\ reader' = reader + 1
    /\ pc' = "query"
    /\ UNCHANGED <<source, ch, saved, ret, fresh, last, non_uploaded, versions, structs,
                   ins, del, bounds, history>>

(* handle_query_event uploads the batch before any other DDL statement. *)
HandleQuery ==
    /\ NewEvent(QueryKinds \ {"create"})
    /\ reader' = reader + 1
    /\ UploadRecords("query", non_uploaded)
    /\ UNCHANGED <<source, ch, saved, fresh, last, non_uploaded, versions, structs,
                   ins, del, bounds, sent>>

(* The statement whose upload is complete. *)
Query == log[relay[reader]]
Executing(kinds) == pc = "query" /\ Query.kind \in kinds
FinishQuery ==
    /\ sent' = sent \cup {relay[reader]}
    /\ FinishEvent(relay[reader], relay[reader])
    /\ UNCHANGED reader

HandleDropTable ==
    /\ Executing({"drop", "drop if exists"})
    /\ Query.kind = "drop" => Query.table \in DOMAIN ch
    /\ structs' = structs \ {Query.table}
    /\ ch' = Without(ch, Query.table)
    /\ UNCHANGED <<ins, del>>
    /\ FinishQuery

HandleRenameTable ==
    /\ Executing({"rename"})
    /\ Query.table \in DOMAIN ch /\ Query.to \notin DOMAIN ch
    /\ structs' = IF Query.table \in structs
                  THEN (structs \ {Query.table}) \cup {Query.to} ELSE structs
    /\ ch' = Moved(ch, Query.table, Query.to)
    /\ UNCHANGED <<ins, del>>
    /\ FinishQuery

HandleTruncate ==
    /\ Executing({"truncate"})
    /\ Query.table \in structs => Query.table \in DOMAIN ch
    /\ IF Query.table \in structs
       THEN /\ ch' = [ch EXCEPT ![Query.table] = EmptyTable]
            /\ ins' = [ins EXCEPT ![Query.table] = <<>>]
            /\ del' = [del EXCEPT ![Query.table] = {}]
       ELSE UNCHANGED <<ch, ins, del>>
    /\ UNCHANGED structs
    /\ FinishQuery

(* ClickHouse refuses the statement. *)
QueryRefused ==
    /\ \/ Executing({"drop"}) /\ Query.table \notin DOMAIN ch
       \/ /\ Executing({"rename"})
          /\ Query.table \notin DOMAIN ch \/ Query.to \in DOMAIN ch
       \/ /\ Executing({"truncate"})
          /\ Query.table \in structs /\ Query.table \notin DOMAIN ch
    /\ Raise

-----------------------------------------------------------------------------
(* upload_records.  A part of the batch leaves ins or del when ClickHouse   *)
(* has it; the code clears both at the end and does not look at them again. *)

(* Row events up to id n about the rows ks of t. *)
RowEvents(t, ks, n) ==
    {p \in 1..n : log[p].kind \in RowKinds /\ log[p].table = t /\ RecordId(log[p]) \in ks}

(* ReplacingMergeTree keeps the row with the largest version, the later one *)
(* of two with the same version.                                            *)
Winner(old, new) == IF new.ver >= old.ver THEN new ELSE old

(* Mutated form: set_last_used_version is not called. *)
LastUsedVersionUnset(v, n) == v

(* The version insert leaves in tables_last_record_version after n records. *)
LastUsedVersion(v, n) == v + n + 1

(* clickhouse_api.insert: the records get the versions after the last used *)
(* one.  A retry sends the same rows with the same versions.               *)
InsertRecords(t) ==
    /\ pc = "upload" /\ ins[t] # <<>>
    /\ t \in structs /\ t \in DOMAIN ch
    /\ ch' = [ch EXCEPT ![t] = [k \in Keys |->
                IF Has(ins[t], k)
                THEN LET i == IndexOf(ins[t], k)
                     IN  Winner(ch[t][k], [val |-> ins[t][i].val, ver |-> versions[t] + i])
                ELSE ch[t][k]]]
    /\ versions' = [versions EXCEPT ![t] = LastUsedVersion(@, Len(ins[t]))]
    /\ ins' = [ins EXCEPT ![t] = <<>>]
    /\ sent' = sent \cup UNION {RowEvents(t, {ins[t][i].key}, ins[t][i].val) :
                                  i \in DOMAIN ins[t]}
    /\ UNCHANGED <<source, saved, pc, ret, fresh, reader, last, non_uploaded, structs,
                   del, bounds, applied>>

(* One batch of clickhouse_api.erase, after all inserts. *)
EraseRecords(t) ==
    /\ pc = "upload" /\ ins = NoRecords /\ del[t] # {}
    /\ t \in structs /\ t \in DOMAIN ch
    /\ \E batch \in SUBSET del[t] :
         /\ batch # {}
         /\ Cardinality(batch) <= EraseBatchSize
         /\ batch = del[t] \/ Cardinality(batch) = EraseBatchSize
         /\ ch' = [ch EXCEPT ![t] = [k \in Keys |-> IF k \in batch THEN NoRow ELSE @[k]]]
         /\ del' = [del EXCEPT ![t] = @ \ batch]
         /\ sent' = sent \cup RowEvents(t, batch, non_uploaded)
    /\ UNCHANGED <<source, saved, pc, ret, fresh, reader, last, non_uploaded, versions,
                   structs, ins, bounds, applied>>

(* The table has no structure (KeyError), or ClickHouse does not have it. *)
UploadRefused(t) ==
    /\ pc = "upload" /\ (ins[t] # <<>> \/ (ins = NoRecords /\ del[t] # {}))
    /\ t \notin structs \/ t \notin DOMAIN ch
    /\ Raise

(* The end of upload_records. *)
UploadDone ==
    /\ pc = "upload" /\ ins = NoRecords /\ del = NoKeys
    /\ last' = non_uploaded
    /\ fresh' = FALSE
    /\ SaveStateIfRequired(non_uploaded, versions, structs)
    /\ pc' = ret
    /\ ret' = "loop"
    /\ UNCHANGED <<source, ch, reader, non_uploaded, versions, structs, ins, del,
                   bounds, history>>

-----------------------------------------------------------------------------
(* Mutated form: nothing is uploaded while no event arrives. *)
ReadNothingSleeping == pc = "loop" /\ reader = Len(relay) /\ UNCHANGED vars

(* read_next_event returns None, and the upload interval has passed. *)
ReadNothing ==
    /\ pc = "loop" /\ reader = Len(relay)
    /\ UploadRecords("loop", non_uploaded)
    /\ UNCHANGED <<source, ch, saved, memory, bounds, sent>>

(* A signal, or auto_restart_interval, ends the loop. *)
LeaveLoop ==
    /\ pc = "loop" /\ stops < MaxStops
    /\ stops' = stops + 1
    /\ UploadRecords("stop", non_uploaded)
    /\ UNCHANGED <<source, ch, saved, memory, replays, crashes, sent>>

(* The forced save_state_if_required at the end of the run. *)
Stop ==
    /\ pc = "stop"
    /\ Save(last, versions, structs)
    /\ ProcessEnds
    /\ UNCHANGED <<source, ch, bounds, history>>

(* The process dies, or ClickHouse fails all the retries of a request       *)
(* (with or without having executed it).                                    *)
Crash ==
    /\ pc # "down" /\ crashes < MaxCrashes
    /\ crashes' = crashes + 1
    /\ ProcessEnds
    /\ UNCHANGED <<source, ch, saved, replays, stops, history>>

HandleEvent ==
    \/ SkipDuplicate \/ HandleInsert \/ HandleErase \/ HandleCreateTable
    \/ HandleQuery
    \/ HandleDropTable \/ HandleRenameTable \/ HandleTruncate \/ QueryRefused

Upload ==
    \/ \E t \in Tables : InsertRecords(t) \/ EraseRecords(t) \/ UploadRefused(t)
    \/ UploadDone

Next == \/ Start \/ HandleEvent \/ Upload \/ ReadNothing \/ LeaveLoop \/ Stop
        \/ Crash \/ MySQLCommits \/ RelayReplays

Spec == Init /\ [][Next]_vars

(* The runner restarts the process when it ends, the process keeps taking  *)
(* steps, and the upload interval passes.                                  *)
FairSpec ==
    /\ Spec
    /\ WF_vars(Start) /\ WF_vars(HandleEvent) /\ WF_vars(Upload)
    /\ WF_vars(ReadNothing) /\ WF_vars(Stop)

-----------------------------------------------------------------------------
(* Properties. *)

(* c maps each of some tables to its rows. *)
IsContent(c) == DOMAIN c \subseteq Tables /\ c \in [DOMAIN c -> [Keys -> Nat]]

SourceTypeOK ==
    /\ log \in Seq(Statements)
    /\ mysql \in Seq(Range(mysql)) /\ Len(mysql) = Len(log) + 1
    /\ \A n \in DOMAIN mysql : IsContent(mysql[n])
    /\ relay \in Seq(1..Len(log))
    /\ replays \in 0..MaxReplays /\ stops \in 0..MaxStops /\ crashes \in 0..MaxCrashes

ProcessTypeOK ==
    /\ pc \in {"down", "loop", "query", "upload", "stop"}
    /\ ret \in {"loop", "query", "stop"}
    /\ fresh \in BOOLEAN
    /\ reader \in 0..Len(relay)
    /\ non_uploaded \in 0..Len(log) /\ last \in 0..non_uploaded
    /\ versions \in [Tables -> Nat]
    /\ structs \subseteq Tables

RecordsTypeOK ==
    /\ ins \in [Tables -> Seq([key : Keys, val : 1..non_uploaded])]
    /\ del \in [Tables -> SUBSET Keys]
    /\ sent \subseteq 1..Len(log)
    /\ applied \in 0..Len(log)

TargetTypeOK ==
    /\ DOMAIN ch \subseteq Tables
    /\ \A t \in DOMAIN ch : ch[t] \in [Keys -> [val : 0..Len(log), ver : Nat]]
    /\ saved \in [last : 0..Len(log), versions : [Tables -> Nat], structs : SUBSET Tables]

(* The variables have their types, and what was uploaded was handled, which *)
(* was read from the log.                                                   *)
TypeOK == SourceTypeOK /\ ProcessTypeOK /\ RecordsTypeOK /\ TargetTypeOK

(* save_state_if_required: whatever is interrupted, ClickHouse has received *)
(* every event up to the transaction in state.pckl, or a later event about  *)
(* the same row; what follows it is read again.                             *)
CheckpointSent == 1..saved.last \subseteq sent

(* handle_insert_event and handle_erase_event look the table up in         *)
(* tables_structure without a check.  The structures a restart loads may be *)
(* those after a DDL statement that it reads again, and still they have     *)
(* every table whose row events follow.                                     *)
StructureKnown == NewEvent(RowKinds) => log[NextId].table \in structs

(* A query event was read and waits for its upload, or to be executed. *)
Querying == pc = "query" \/ (pc = "upload" /\ ret = "query")

(* The log explains the tables of MySQL, and the relay has every event     *)
(* behind all those in front of it in the log.                             *)
SourceInv ==
    /\ \A n \in 1..Len(log) : /\ Valid(log[n], mysql[n])
                             /\ mysql[n + 1] = Effect(log[n], n, mysql[n])
    /\ \A n \in 1..Len(log) : \E i \in DOMAIN relay : relay[i] = n
    /\ \A i \in DOMAIN relay : \A n \in 1..(relay[i] - 1) :
         \E j \in 1..(i - 1) : relay[j] = n

(* Everything read was handled, a query event that waits excepted: it is    *)
(* the next event of the log.                                               *)
ReadInv ==
    /\ pc = "down" => ret = "loop" /\ ins = NoRecords /\ del = NoKeys
    /\ pc # "down" /\ ~Querying => \A i \in 1..reader : relay[i] <= non_uploaded
    /\ Querying => /\ reader # 0 /\ relay[reader] = non_uploaded + 1
                   /\ Query.kind \in QueryKinds \ {"create"}
                   /\ \A i \in 1..(reader - 1) : relay[i] <= non_uploaded
    /\ pc \in {"query", "stop"} => last = non_uploaded
    /\ pc = "query" => ins = NoRecords /\ del = NoKeys

(* An event whose effect waits in the batch, or in a later event of it. *)
Batched(n) ==
    LET t == log[n].table
        k == RecordId(log[n])
    IN  /\ log[n].kind \in RowKinds
        /\ \/ \E i \in DOMAIN ins[t] : ins[t][i].key = k /\ ins[t][i].val >= n
           \/ k \in del[t]

(* What was handled was sent or is in the batch; what was uploaded was sent. *)
SentInv ==
    /\ 1..last \subseteq sent
    /\ \A n \in 1..non_uploaded : n \in sent \/ Batched(n)

(* The structures S are good for going on after event n: they cover the     *)
(* tables then, or those after a DDL statement that comes next.             *)
Knows(S, n) ==
    \/ DOMAIN mysql[n + 1] \subseteq S
    \/ /\ n < Len(log) /\ log[n + 1].kind \in QueryKinds \ {"create"}
       /\ DOMAIN mysql[n + 2] \subseteq S

StructsInv ==
    /\ Knows(saved.structs, saved.last)
    /\ pc # "down" => Knows(structs, non_uploaded) /\ Knows(structs, last)

(* The inductive invariant behind CheckpointSent and StructureKnown. *)
RealtimeInv == TypeOK /\ SourceInv /\ ReadInv /\ SentInv /\ StructsInv /\ CheckpointSent

(* Everything MySQL has logged is handled and uploaded. *)
CaughtUp ==
    /\ pc = "loop" /\ reader = Len(relay) /\ last = Len(log)
    /\ ins = NoRecords /\ del = NoKeys

(* The keys that an UPDATE has moved rows of table t away from: only the    *)
(* new key reaches the replicator, and the row stays under the old one.     *)
MovedFrom(t) ==
    {log[i].key : i \in {j \in DOMAIN log : log[j].kind = "rekey" /\ log[j].table = t}}

(* handle_insert_event, handle_erase_event and upload_records: once the     *)
(* replicator has caught up, ClickHouse has the tables of MySQL and in each *)
(* of them the primary keys of MySQL, whatever was replayed after crashes   *)
(* and however inserts and deletes of a row were batched.  Only a key that  *)
(* an UPDATE has moved a row away from may be left over.  A RENAME that is  *)
(* repeated after a crash is refused, and nothing is said of it here.       *)
KeysInSync ==
    CaughtUp /\ (\A i \in DOMAIN log : log[i].kind # "rename") =>
      /\ DOMAIN ch = DOMAIN Current
      /\ \A t \in DOMAIN ch : \A k \in Keys :
           /\ Current[t][k] # None => ch[t][k].val # None
           /\ ch[t][k].val # None => Current[t][k] # None \/ k \in MovedFrom(t)

(* What a reader sees, an upload in progress counting as complete. *)
Shown(t, k) ==
    IF pc = "upload" /\ Has(ins[t], k) THEN ins[t][IndexOf(ins[t], k)].val
    ELSE IF (pc = "upload" /\ k \in del[t]) \/ t \notin DOMAIN ch THEN None
    ELSE ch[t][k].val

View == [t \in Tables |-> [k \in Keys |-> Shown(t, k)]]

PromisedReplica == INSTANCE Replica WITH view <- View

(* Without crashes, whatever is stopped, restarted or replayed, ClickHouse  *)
(* moves forward through the states of MySQL: the replicator implements     *)
(* Replica.                                                                 *)
ImplementsReplica == PromisedReplica!Spec

(* Every event is uploaded in the end, as long as the process is restarted. *)
EventuallyUploaded ==
    \A p \in 1..MaxLog : (p <= Len(log)) ~> (p <= last /\ p \in sent)

-----------------------------------------------------------------------------
(* The inductive invariant behind ImplementsReplica, without crashes and    *)
(* for statements that do not rename a table or a row.                      *)

(* No crash takes the versions back, and UPDATE keeps the primary key. *)
Steady == MaxCrashes = 0 /\ \A e \in Statements : e.kind \notin {"rekey", "rename"}

(* The events that the process has handled, or the next one will not again. *)
Handled == IF pc = "down" THEN saved.last ELSE non_uploaded

(* The value of row k of table t in the tables c, and in ClickHouse now and  *)
(* once the batch is uploaded.                                              *)
ValueIn(c, t, k) == IF t \in DOMAIN c THEN c[t][k] ELSE None
Held(t, k) == IF t \in DOMAIN ch THEN ch[t][k].val ELSE None
Pending(t, k) ==
    IF Has(ins[t], k) THEN ins[t][IndexOf(ins[t], k)].val
    ELSE IF k \in del[t] THEN None ELSE Held(t, k)

(* ClickHouse has the tables of MySQL after the events handled, and the     *)
(* process their structures; there is nothing in the batch for others.      *)
TablesInv ==
    /\ DOMAIN ch = DOMAIN mysql[Handled + 1]
    /\ (IF pc = "down" THEN saved.structs ELSE structs) = DOMAIN ch
    /\ \A t \in Tables \ DOMAIN ch : ins[t] = <<>> /\ del[t] = {}

(* A key is once in the batch, to be inserted or to be deleted. *)
OnceEach(d) == \A i, j \in DOMAIN d : d[i].key = d[j].key => i = j
BatchInv ==
    \A t \in Tables : OnceEach(ins[t]) /\ \A k \in del[t] : ~Has(ins[t], k)

(* The next version is above those of the rows that are there. *)
VersionInv ==
    \A t \in DOMAIN ch : \A k \in Keys :
      ch[t][k].ver <= (IF pc = "down" THEN saved.versions ELSE versions)[t]

(* ClickHouse holds what MySQL held after the events applied, and with the  *)
(* batch what it held after the events handled.                             *)
ContentInv ==
    /\ applied <= Handled
    /\ pc \in {"upload", "query", "stop"} => applied = Handled
    /\ \A t \in Tables : \A k \in Keys :
         /\ Pending(t, k) = ValueIn(mysql[Handled + 1], t, k)
         /\ pc # "upload" => Held(t, k) = ValueIn(mysql[applied + 1], t, k)

ReplicaInv == TablesInv /\ BatchInv /\ VersionInv /\ ContentInv

-----------------------------------------------------------------------------
(* The inductive invariant behind KeysInSync, with crashes.                 *)

(* The events that no restart will handle again. *)
Uploaded == IF pc = "down" THEN saved.last ELSE last

(* Table t exists or not, row k of it is there or not, as after some event  *)
(* from m on; a row that UPDATE has moved away may still be there.          *)
TableSync(m, exists, t) == \E n \in m..Len(log) : exists <=> t \in DOMAIN mysql[n + 1]
RowSync(m, present, t, k) ==
    \E n \in m..Len(log) :
      /\ ValueIn(mysql[n + 1], t, k) # None => present
      /\ present => ValueIn(mysql[n + 1], t, k) # None \/ k \in MovedFrom(t)

(* After a crash ClickHouse may be ahead of the process, in each row by     *)
(* other events: each table and each row is as it is after some event that  *)
(* the process has still to handle, or after the last one it has handled.   *)
SyncInv ==
    /\ BatchInv
    /\ pc # "down" => saved.last <= last
    /\ (\A i \in DOMAIN log : log[i].kind # "rename") =>
       \A t \in Tables :
         /\ TableSync(Handled, t \in DOMAIN ch, t)
         /\ \A k \in Keys :
              /\ RowSync(Handled, Pending(t, k) # None, t, k)
              /\ RowSync(Uploaded, Held(t, k) # None, t, k)
              /\ t \in DOMAIN ch /\ ch[t][k].val = None => ch[t][k].ver = 0

=============================================================================
