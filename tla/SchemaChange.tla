---------------------------- MODULE SchemaChange ----------------------------
(***************************************************************************)
(* ALTER TABLE in the realtime phase: the converter classifies and         *)
(* validates the clauses of a statement on a copy of the table structures, *)
(* then executes them one by one in ClickHouse and on the pair of          *)
(* structures in state.tables_structure.  The pair is saved with the       *)
(* checkpoint, so that after a crash the structures, the checkpoint and    *)
(* ClickHouse may be those of three different moments, and statements are  *)
(* executed again on tables that already have them.                        *)
(*                                                                         *)
(* One table and its ALTER statements are modelled; a transaction_id is    *)
(* the index of the statement in the log.  A row event holds one value per *)
(* column, by position, and clickhouse_api.insert sends them by position,  *)
(* so the order of the columns matters in all four descriptions.           *)
(***************************************************************************)
EXTENDS Integers, Sequences, FiniteSets, SequencesExt

CONSTANTS
    Columns,           \* column names
    ConvertFieldType,  \* the ClickHouse type of each known MySQL type
    PrimaryKeys,       \* the primary key, a sequence of columns
    InitialFields,     \* the columns of the table, in order
    Statements,        \* the ALTER statements MySQL may log
    MaxLog,            \* bound: statements
    MaxStops,          \* bound: stops of the replicator
    MaxCrashes         \* bound: crashes of the replicator

AtEnd == "last"
AtFirst == "first"
NoName == ""

(* op and what are the first words of the clause, what = "column" with or  *)
(* without the word COLUMN; name, to, type and pos are those of the column *)
(* clauses.                                                                *)
Clause(op, what, name, to, type, pos) ==
    [op |-> op, what |-> what, name |-> name, to |-> to, type |-> type, pos |-> pos]

ColumnNames == Columns \cup {NoName}
Clauses == [op : STRING, what : STRING, name : ColumnNames, to : ColumnNames, type : STRING,
            pos : Columns \cup {AtEnd, AtFirst}]

ASSUME SchemaAssumption ==
    /\ ConvertFieldType \in [DOMAIN ConvertFieldType -> STRING]
    /\ DOMAIN ConvertFieldType \subseteq STRING
    /\ InitialFields \in Seq([name : Columns, type : DOMAIN ConvertFieldType])
    /\ \A i, j \in DOMAIN InitialFields : InitialFields[i].name = InitialFields[j].name => i = j
    /\ Statements \subseteq Seq(Clauses)
    /\ Columns \cap {AtEnd, AtFirst, NoName} = {}
    /\ PrimaryKeys \in Seq(Columns)
    /\ \A i \in DOMAIN PrimaryKeys : \E j \in DOMAIN InitialFields :
         InitialFields[j].name = PrimaryKeys[i]
    /\ MaxLog \in Nat /\ MaxStops \in Nat /\ MaxCrashes \in Nat

VARIABLES
    log,      \* the ALTER statements of the table
    defs,     \* defs[n + 1]: the columns in MySQL after n statements
    ch,       \* the columns of the table in ClickHouse
    saved,    \* state.pckl
    pc,       \* where the process is
    fresh,    \* no save_state_if_required in this run yet
    last,     \* state.last_processed_transaction
    done,     \* state.last_processed_transaction_non_uploaded
    mysql_structure, ch_structure,   \* state.tables_structure[table]
    plan,     \* the clauses of the statement still to execute
    stops, crashes,
    begun,    \* history: the last statement executed, in part at least
    risky,    \* history: a restart went back by more than one column clause
    refused   \* history: the statement ClickHouse refused last, or 0

structures == <<mysql_structure, ch_structure>>
memory == <<fresh, last, done, structures, plan>>
vars == <<log, defs, ch, saved, pc, memory, stops, crashes, begun, risky, refused>>

-----------------------------------------------------------------------------
(* TableStructure.  Indices are those of TLA+ sequences, from 1.           *)

Field(name, type) == [name |-> name, type |-> type]
Index(fields, c) == SelectInSeq(fields, LAMBDA f : f.name = c)
Has(fields, c) == Index(fields, c) # 0
Names(fields) == [i \in DOMAIN fields |-> fields[i].name]

(* TableStructure.preprocess: primary_key_ids. *)
Preprocess(s) == [s EXCEPT !.ids = [i \in DOMAIN s.keys |-> Index(s.fields, s.keys[i])]]

(* Mutated form: the positions of the primary key are not recomputed. *)
WithFieldsUnprocessed(s, fields) == [s EXCEPT !.fields = fields]

(* The methods end with preprocess. *)
WithFields(s, fields) == Preprocess([s EXCEPT !.fields = fields])

(* add_field_first and add_field_after; pos is not AtEnd. *)
Inserted(fields, f, pos) ==
    InsertAt(fields, IF pos = AtFirst THEN 1 ELSE Index(fields, pos) + 1, f)
Removed(fields, c) == RemoveFirstMatch(fields, LAMBDA f : f.name = c)
Updated(fields, f) == [fields EXCEPT ![Index(fields, f.name)] = f]
Renamed(fields, c, d) == [fields EXCEPT ![Index(fields, c)].name = d]

AddField(s, f, pos) == WithFields(s, Inserted(s.fields, f, pos))
RemoveField(s, c) == WithFields(s, Removed(s.fields, c))
UpdateField(s, f) == [s EXCEPT !.fields = Updated(s.fields, f)]
RenameStructureField(s, c, d) ==
    WithFields([s EXCEPT !.keys = [i \in DOMAIN s.keys |-> IF s.keys[i] = c THEN d ELSE s.keys[i]]],
               Renamed(s.fields, c, d))

(* convert_table_structure. *)
ConvertTableStructure(s) ==
    Preprocess([s EXCEPT !.fields = [i \in DOMAIN s.fields |->
                  Field(s.fields[i].name, ConvertFieldType[s.fields[i].type])]])

-----------------------------------------------------------------------------
(* parse_alter_query and _classify_alter_operation. *)

ColumnOps == {"add", "drop", "modify", "change", "rename"}
IndexWords == {"constraint", "index", "foreign", "unique", "key", "check"}
TableOptions ==
    {"algorithm", "alter", "auto_increment", "avg_row_length", "character", "checksum", "collate",
     "comment", "compression", "connection", "convert", "data", "default", "disable", "discard",
     "enable", "encryption", "engine", "engine_attribute", "force", "import", "index",
     "insert_method", "key_block_size", "lock", "max_rows", "min_rows", "order", "pack_keys",
     "password", "row_format", "secondary_engine_attribute", "stats_auto_recalc",
     "stats_persistent", "stats_sample_pages", "tablespace", "union", "with", "without"}
PartitionOps == {"analyze", "check", "coalesce", "exchange", "optimize", "rebuild", "remove",
                 "reorganize", "repair", "truncate"}

Category(cl) ==
    CASE cl.op \in ColumnOps /\ cl.what = "column" -> "column_change"
      [] cl.op \in {"add", "drop"} /\ cl.what \in IndexWords \cup {"primary"} -> "safe_noop"
      [] cl.op = "add" /\ cl.what \in {"fulltext", "spatial"} -> "safe_noop"
      [] cl.op = "rename" /\ cl.what \in {"index", "key"} -> "safe_noop"
      [] cl.op \in TableOptions -> "safe_noop"
      [] cl.op \in {"add", "drop"} /\ cl.what = "partition" -> "requires_resync"
      [] cl.op = "add" /\ cl.what = "columns" -> "requires_resync"
      [] cl.op \in {"rename"} \cup PartitionOps -> "requires_resync"
      [] OTHER -> "unknown"

(* convert_alter_query skips the operations that are safe_noop. *)
ColumnChanges(stmt) ==
    LET ops[i \in 0..Len(stmt)] ==
          IF i = 0 THEN <<>>
          ELSE IF Category(stmt[i]) = "column_change" THEN Append(ops[i - 1], stmt[i])
          ELSE ops[i - 1]
    IN  ops[Len(stmt)]
Unsupported(stmt) ==
    \E i \in DOMAIN stmt : Category(stmt[i]) \in {"requires_resync", "unknown"}

(* Mutated form: the new name may be that of another column. *)
CurrentNameUnchecked(m, c, old, new) ==
    CASE Has(m, old) /\ Has(c, old) -> old
      [] Has(m, new) /\ Has(c, new) -> new
      [] OTHER -> NoName

(* _get_change_column_current_name, with m and c the fields of the two     *)
(* structures; NoName stands for its exception.                              *)
CurrentName(m, c, old, new) ==
    CASE /\ Has(m, old) /\ Has(c, old)
         /\ old = new \/ (~Has(m, new) /\ ~Has(c, new)) -> old
      [] /\ old # new /\ Has(m, new) /\ Has(c, new)
         /\ ~Has(m, old) /\ ~Has(c, old) -> new
      [] OTHER -> NoName

(* The column the new one follows: the last one of the MySQL structure if  *)
(* the clause has neither FIRST nor AFTER.                                 *)
ColumnAfter(cl, m) == IF cl.pos = AtEnd THEN m[Len(m)].name ELSE cl.pos

KnownType(cl) == cl.op \in {"drop", "rename"} \/ cl.type \in DOMAIN ConvertFieldType

(* _validate_alter_operation raises. *)
Invalid(cl, m, c) ==
    \/ ~KnownType(cl)
    \/ /\ cl.op \in {"add", "drop"}
       /\ Has(m.fields, cl.name) # Has(c.fields, cl.name)
    \/ /\ cl.op = "add" /\ ~Has(m.fields, cl.name) /\ cl.pos # AtFirst
       /\ LET after == ColumnAfter(cl, m.fields)
          IN  ~Has(m.fields, after) \/ ~Has(c.fields, after)
    \/ cl.op = "drop" /\ \E i \in DOMAIN m.keys : m.keys[i] = cl.name
    \/ cl.op = "modify" /\ ~(Has(m.fields, cl.name) /\ Has(c.fields, cl.name))
    \/ /\ cl.op \in {"change", "rename"}
       /\ CurrentName(m.fields, c.fields, cl.name, cl.to) = NoName

(* The structure s after a valid clause, t being the type of the column in *)
(* it and current the name that change and rename find it under.           *)
Applied(cl, s, t, pos, current) ==
    CASE cl.op = "add" ->
           IF Has(s.fields, cl.name) THEN s ELSE AddField(s, Field(cl.name, t), pos)
      [] cl.op = "drop" ->
           IF Has(s.fields, cl.name) THEN RemoveField(s, cl.name) ELSE s
      [] cl.op = "modify" -> UpdateField(s, Field(cl.name, t))
      [] cl.op = "change" ->
           LET u == UpdateField(s, Field(current, t))
           IN  IF current = cl.to THEN u ELSE RenameStructureField(u, current, cl.to)
      [] cl.op = "rename" ->
           IF current = cl.to THEN s ELSE RenameStructureField(s, current, cl.to)

(* Mutated form: the clauses are validated on the current structures, not  *)
(* on those the clauses before them leave.                                 *)
PlanValidApart(ops, m, c) == \A i \in DOMAIN ops : ~Invalid(ops[i], m, c)

(* The pair s of structures after a valid clause. *)
AfterClause(cl, s) ==
    LET pos == ColumnAfter(cl, s.m.fields)
        current == CurrentName(s.m.fields, s.c.fields, cl.name, cl.to)
        chType == IF cl.op \in {"drop", "rename"} THEN cl.type ELSE ConvertFieldType[cl.type]
    IN  [m |-> Applied(cl, s.m, cl.type, pos, current),
         c |-> Applied(cl, s.c, chType, pos, current)]

(* The copy of the structures m and c that _validate_alter_plan works on,  *)
(* after each clause.                                                      *)
PlanStructures(ops, m, c) ==
    LET copy[i \in 0..Len(ops)] ==
          IF i = 0 THEN [m |-> m, c |-> c] ELSE AfterClause(ops[i], copy[i - 1])
    IN  copy
PlanValid(ops, m, c) ==
    \A i \in DOMAIN ops :
      LET s == PlanStructures(ops, m, c)[i - 1] IN ~Invalid(ops[i], s.m, s.c)

-----------------------------------------------------------------------------
(* MySQL (external): names in a statement are those before it, except in   *)
(* AFTER.  A legal statement leaves the primary key alone.                 *)

Definition(def, stmt) ==
    LET About(c, ops) == {i \in DOMAIN stmt : /\ Category(stmt[i]) = "column_change"
                                              /\ stmt[i].op \in ops /\ stmt[i].name = c}
        Clause1(c, ops) == stmt[CHOOSE i \in About(c, ops) : TRUE]
        kept == SelectSeq(def, LAMBDA f : About(f.name, {"drop"}) = {})
        changed == [i \in DOMAIN kept |->
                      LET c == kept[i].name IN
                      Field(IF About(c, {"change", "rename"}) = {} THEN c
                            ELSE Clause1(c, {"change", "rename"}).to,
                            IF About(c, {"change", "modify"}) = {} THEN kept[i].type
                            ELSE Clause1(c, {"change", "modify"}).type)]
    IN  FoldLeft(LAMBDA fs, cl : Inserted(fs, Field(cl.name, cl.type), ColumnAfter(cl, fs)),
                 changed, SelectSeq(ColumnChanges(stmt), LAMBDA cl : cl.op = "add"))

Legal(def, stmt) ==
    /\ \A i \in DOMAIN stmt : Category(stmt[i]) = "column_change" =>
         /\ stmt[i].op # "add" => Has(def, stmt[i].name)
         /\ \A k \in DOMAIN PrimaryKeys : PrimaryKeys[k] # stmt[i].name
    /\ LET new == Definition(def, stmt) IN
       /\ \A i, j \in DOMAIN new : new[i].name = new[j].name => i = j
       /\ \A i \in DOMAIN stmt :
            Category(stmt[i]) = "column_change" /\ stmt[i].op = "add" =>
              stmt[i].pos \in {AtFirst, AtEnd} \/ Has(new, stmt[i].pos)

Current == defs[Len(defs)]

MySQLAlters ==
    \E stmt \in Statements :
      /\ Len(log) < MaxLog
      /\ Legal(Current, stmt)
      /\ log' = Append(log, stmt)
      /\ defs' = Append(defs, Definition(Current, stmt))
      /\ UNCHANGED <<ch, saved, pc, memory, stops, crashes, begun, risky, refused>>

-----------------------------------------------------------------------------
(* The process. *)

Save(l, m, c) == saved' = [last |-> l, mysql_structure |-> m, ch_structure |-> c]

(* save_state_if_required: the first call of a run saves. *)
SaveStateIfRequired(l, m, c) == Save(l, m, c) \/ (~fresh /\ UNCHANGED saved)

InitialStructure == Preprocess([fields |-> InitialFields, keys |-> PrimaryKeys, ids |-> <<>>])
NoStructure == [fields |-> <<>>, keys |-> <<>>, ids |-> <<>>]

Init ==
    /\ log = <<>>
    /\ defs = <<InitialFields>>
    /\ ch = ConvertTableStructure(InitialStructure).fields
    /\ saved = [last |-> 0, mysql_structure |-> InitialStructure,
                ch_structure |-> ConvertTableStructure(InitialStructure)]
    /\ pc = "down"
    /\ fresh = TRUE
    /\ last = 0 /\ done = 0
    /\ mysql_structure = NoStructure /\ ch_structure = NoStructure
    /\ plan = <<>>
    /\ stops = 0 /\ crashes = 0
    /\ begun = 0 /\ risky = FALSE /\ refused = 0

(* The statements i to j have more than one column clause. *)
ManyClauses(i, j) == i < j \/ (i = j /\ Len(ColumnChanges(log[i])) > 1)

(* State.load.  Statements up to begun are executed again. *)
Start ==
    /\ pc = "down"
    /\ pc' = "loop"
    /\ last' = saved.last /\ done' = saved.last
    /\ mysql_structure' = saved.mysql_structure
    /\ ch_structure' = saved.ch_structure
    /\ risky' = (risky \/ ManyClauses(saved.last + 1, begun))
    /\ UNCHANGED <<log, defs, ch, saved, fresh, plan, stops, crashes, begun, refused>>

ProcessEnds ==
    /\ pc' = "down"
    /\ fresh' = TRUE
    /\ last' = 0 /\ done' = 0
    /\ mysql_structure' = NoStructure /\ ch_structure' = NoStructure
    /\ plan' = <<>>
    /\ UNCHANGED <<log, defs>>

(* handle_query_event: upload_records, whose last step is to save the      *)
(* state, then the statement is parsed and validated.                      *)
Uploaded ==
    /\ last' = done
    /\ SaveStateIfRequired(done, mysql_structure, ch_structure)
    /\ fresh' = FALSE

HandleAlterQuery ==
    LET stmt == log[done + 1] IN
    /\ pc = "loop" /\ done < Len(log)
    /\ ~Unsupported(stmt)
    /\ PlanValid(ColumnChanges(stmt), mysql_structure, ch_structure)
    /\ pc' = "alter"
    /\ plan' = ColumnChanges(stmt)
    /\ Uploaded
    /\ UNCHANGED <<log, defs, ch, done, structures, stops, crashes, begun, risky, refused>>

(* The exception ends the process, after upload_records. *)
RejectAlterQuery ==
    LET stmt == log[done + 1] IN
    /\ pc = "loop" /\ done < Len(log)
    /\ ~(~Unsupported(stmt) /\ PlanValid(ColumnChanges(stmt), mysql_structure, ch_structure))
    /\ SaveStateIfRequired(done, mysql_structure, ch_structure)
    /\ ProcessEnds
    /\ UNCHANGED <<ch, stops, crashes, begun, risky, refused>>

-----------------------------------------------------------------------------
(* The execution of a clause: a command to ClickHouse, then the structures. *)

Executing(ops) == pc = "alter" /\ plan # <<>> /\ Head(plan).op \in ops
Op == Head(plan)
OpAfter == ColumnAfter(Op, mysql_structure.fields)
OpName == CurrentName(mysql_structure.fields, ch_structure.fields, Op.name, Op.to)
OpField(name) == Field(name, Op.type)
OpFieldCh(name) == Field(name, ConvertFieldType[Op.type])

(* ClickHouse (external): ADD COLUMN IF NOT EXISTS, DROP COLUMN IF EXISTS, *)
(* MODIFY COLUMN IF EXISTS and RENAME COLUMN IF EXISTS.                    *)
ChAdd(f, pos) == IF Has(ch, f.name) THEN ch ELSE Inserted(ch, f, pos)
ChAddRefused(f, pos) == ~Has(ch, f.name) /\ pos # AtFirst /\ ~Has(ch, pos)
ChModify(f) == IF Has(ch, f.name) THEN Updated(ch, f) ELSE ch
ChRename(c, d) == IF Has(ch, c) THEN Renamed(ch, c, d) ELSE ch
ChRenameRefused(c, d) == Has(ch, c) /\ Has(ch, d)

(* A clause that finds the structures as it would leave them sends nothing. *)
NothingToDo ==
    \/ /\ Executing({"add"})
       /\ Has(mysql_structure.fields, Op.name) /\ Has(ch_structure.fields, Op.name)
    \/ /\ Executing({"drop"})
       /\ ~Has(mysql_structure.fields, Op.name) /\ ~Has(ch_structure.fields, Op.name)
    \/ Executing({"rename"}) /\ OpName = Op.to
    \/ /\ Executing({"change"}) /\ OpName = Op.to
       /\ ch_structure.fields[Index(ch_structure.fields, OpName)].type = ConvertFieldType[Op.type]

SkipClause ==
    /\ NothingToDo
    /\ plan' = Tail(plan)
    /\ UNCHANGED <<log, defs, ch, saved, pc, fresh, last, done, structures, stops, crashes,
                   begun, risky, refused>>

Sends == begun' = Max({begun, done + 1}) /\ UNCHANGED <<log, defs, saved, pc, fresh, last, done,
                                                        stops, crashes, risky, refused>>

(* Mutated form: the command names no position, and ClickHouse adds the     *)
(* column at the end.                                                      *)
AddColumnUnplaced ==
    /\ Executing({"add"}) /\ ~NothingToDo
    /\ ch' = ChAdd(OpFieldCh(Op.name), ch[Len(ch)].name)
    /\ mysql_structure' = AddField(mysql_structure, OpField(Op.name), OpAfter)
    /\ ch_structure' = AddField(ch_structure, OpFieldCh(Op.name), OpAfter)
    /\ plan' = Tail(plan)
    /\ Sends

AddColumn ==
    /\ Executing({"add"}) /\ ~NothingToDo
    /\ ~ChAddRefused(OpFieldCh(Op.name), OpAfter)
    /\ ch' = ChAdd(OpFieldCh(Op.name), OpAfter)
    /\ mysql_structure' = AddField(mysql_structure, OpField(Op.name), OpAfter)
    /\ ch_structure' = AddField(ch_structure, OpFieldCh(Op.name), OpAfter)
    /\ plan' = Tail(plan)
    /\ Sends

DropColumn ==
    /\ Executing({"drop"}) /\ ~NothingToDo
    /\ ch' = Removed(ch, Op.name)
    /\ mysql_structure' = RemoveField(mysql_structure, Op.name)
    /\ ch_structure' = RemoveField(ch_structure, Op.name)
    /\ plan' = Tail(plan)
    /\ Sends

ModifyColumn ==
    /\ Executing({"modify"})
    /\ ch' = ChModify(OpFieldCh(Op.name))
    /\ mysql_structure' = UpdateField(mysql_structure, OpField(Op.name))
    /\ ch_structure' = UpdateField(ch_structure, OpFieldCh(Op.name))
    /\ plan' = Tail(plan)
    /\ Sends

(* The first command of CHANGE COLUMN, if the ClickHouse type changes. *)
ChangeColumnType ==
    /\ Executing({"change"})
    /\ ch_structure.fields[Index(ch_structure.fields, OpName)].type # ConvertFieldType[Op.type]
    /\ ch' = ChModify(OpFieldCh(OpName))
    /\ mysql_structure' = UpdateField(mysql_structure, OpField(OpName))
    /\ ch_structure' = UpdateField(ch_structure, OpFieldCh(OpName))
    /\ Sends /\ UNCHANGED plan

(* Its second command, and RENAME COLUMN. *)
Renaming ==
    /\ Executing({"change", "rename"}) /\ OpName # Op.to
    /\ Op.op = "change" =>
         ch_structure.fields[Index(ch_structure.fields, OpName)].type = ConvertFieldType[Op.type]

RenameColumn ==
    /\ Renaming
    /\ ~ChRenameRefused(OpName, Op.to)
    /\ ch' = ChRename(OpName, Op.to)
    /\ mysql_structure' = RenameStructureField(mysql_structure, OpName, Op.to)
    /\ ch_structure' = RenameStructureField(ch_structure, OpName, Op.to)
    /\ plan' = Tail(plan)
    /\ Sends

(* ClickHouse refuses the command; the exception ends the process. *)
CommandRefused ==
    /\ \/ /\ Executing({"add"}) /\ ~NothingToDo
          /\ ChAddRefused(OpFieldCh(Op.name), OpAfter)
       \/ Renaming /\ ChRenameRefused(OpName, Op.to)
    /\ refused' = done + 1
    /\ ProcessEnds
    /\ UNCHANGED <<ch, saved, stops, crashes, begun, risky>>

-----------------------------------------------------------------------------
(* The rest of handle_event: upload_records_if_required and                *)
(* save_state_if_required, with the structures the statement leaves.       *)
FinishAlter ==
    /\ pc = "alter" /\ plan = <<>>
    /\ pc' = "loop"
    /\ done' = done + 1
    /\ begun' = Max({begun, done + 1})
    /\ last' \in {last, done + 1}
    /\ SaveStateIfRequired(last', mysql_structure, ch_structure)
    /\ fresh' = FALSE
    /\ UNCHANGED <<log, defs, ch, structures, plan, stops, crashes, risky, refused>>

(* No event: upload_records_if_required. *)
ReadNothing ==
    /\ pc = "loop" /\ done = Len(log)
    /\ Uploaded
    /\ UNCHANGED <<log, defs, ch, pc, done, structures, plan, stops, crashes, begun, risky, refused>>

(* A signal or auto_restart_interval: upload_records, and the state is saved. *)
Stop ==
    /\ pc = "loop" /\ stops < MaxStops
    /\ stops' = stops + 1
    /\ Save(done, mysql_structure, ch_structure)
    /\ ProcessEnds
    /\ UNCHANGED <<ch, crashes, begun, risky, refused>>

Crash ==
    /\ pc # "down" /\ crashes < MaxCrashes
    /\ crashes' = crashes + 1
    /\ ProcessEnds
    /\ UNCHANGED <<ch, saved, stops, begun, risky, refused>>

Next ==
    \/ MySQLAlters \/ Start \/ HandleAlterQuery \/ RejectAlterQuery \/ SkipClause
    \/ AddColumn \/ DropColumn \/ ModifyColumn \/ ChangeColumnType \/ RenameColumn
    \/ CommandRefused \/ FinishAlter \/ ReadNothing \/ Stop \/ Crash

Spec == Init /\ [][Next]_vars

-----------------------------------------------------------------------------
(* The execution of a clause raises an exception of the converter:         *)
(* add_field_after, remove_field, preprocess or update_field does not find *)
(* a column, or the column to rename is ambiguous.                         *)
ClauseFails(cl, m, c) ==
    \/ /\ cl.op = "add" /\ ~(Has(m, cl.name) /\ Has(c, cl.name)) /\ cl.pos # AtFirst
       /\ ~(Has(m, ColumnAfter(cl, m)) /\ Has(c, ColumnAfter(cl, m)))
    \/ /\ cl.op = "drop" /\ (Has(m, cl.name) \/ Has(c, cl.name))
       /\ \/ ~(Has(m, cl.name) /\ Has(c, cl.name))
          \/ \E i \in DOMAIN PrimaryKeys : PrimaryKeys[i] = cl.name
    \/ cl.op = "modify" /\ ~(Has(m, cl.name) /\ Has(c, cl.name))
    \/ cl.op \in {"change", "rename"} /\ CurrentName(m, c, cl.name, cl.to) = NoName

(* A statement that passes validation never raises half way: whatever      *)
(* clauses came before, validation on the copy foresaw the structures that *)
(* execution meets (_validate_alter_operation and the                      *)
(* __convert_alter_table methods are written separately).                  *)
PlanCompletes ==
    pc = "alter" /\ plan # <<>> =>
      ~ClauseFails(Head(plan), mysql_structure.fields, ch_structure.fields)

(* The two structures describe the same columns in the same order, between *)
(* any two clauses and after any restart, the ClickHouse types are the     *)
(* converted ones, and primary_key_ids point at the primary key            *)
(* (_get_record_id takes the key of a row from there).                     *)
StructuresAgree ==
    /\ mysql_structure = Preprocess(mysql_structure)
    /\ ch_structure = ConvertTableStructure(mysql_structure)

(* The pair of structures of a table with the columns of def. *)
StructuresOf(def) ==
    LET m == Preprocess([fields |-> def, keys |-> PrimaryKeys, ids |-> <<>>])
    IN  [m |-> m, c |-> ConvertTableStructure(m)]

(* What a statement of the log that passes validation does clause by       *)
(* clause, on the structures of the definition before it, is what it does  *)
(* in MySQL, where the names in a clause are those before the statement:   *)
(* after RENAME a TO b, RENAME b TO a the columns have changed places, and *)
(* a plan that would rename one of them there and back is not valid.       *)
(* (ADD c, DROP c of a column there is would not do: see the README.)      *)
ClausesFollowStatement ==
    \A n \in DOMAIN log :
      LET s == StructuresOf(defs[n])
          ops == ColumnChanges(log[n])
      IN  /\ \A i \in DOMAIN defs[n] : defs[n][i].type \in DOMAIN ConvertFieldType
          /\ PlanValid(ops, s.m, s.c)
          => PlanStructures(ops, s.m, s.c)[Len(ops)].m.fields = defs[n + 1]

(* Once the statements are executed, the columns of ClickHouse, of both    *)
(* structures and of MySQL are the same, in the same order: the values of  *)
(* a row, which travel by position, end in their columns.  This holds      *)
(* after a crash too, if it makes the replicator execute no more than one  *)
(* column clause again.                                                    *)
ColumnsFollowSource ==
    pc = "loop" /\ done = begun /\ ~risky =>
      /\ ch = ch_structure.fields
      /\ Names(mysql_structure.fields) = Names(defs[done + 1])
      /\ \A i \in DOMAIN ch : ch[i].type = ConvertFieldType[defs[done + 1][i].type]

(* ClickHouse refuses no command of a statement that is new to it, nor of  *)
(* the only clause that a restart executes again (IF EXISTS and IF NOT     *)
(* EXISTS in the commands).                                                *)
RefusedOnlyOnReplay == refused # 0 => risky
=============================================================================
