--------------------------- MODULE InitialProofs ---------------------------
(***************************************************************************)
(* TLAPS proofs about InitialReplication, for any number of tables, keys,  *)
(* workers, ALTER statements, requests and crashes: InitialInv is          *)
(* inductive, and the safety properties of the copy follow from it.        *)
(*                                                                         *)
(* After lemmas about batches, the proof goes through the parts of         *)
(* InitialInv: the types, the workers of the process, the databases, what  *)
(* the copy has of the rows of MySQL, their structures and their versions. *)
(***************************************************************************)
EXTENDS InitialReplication, FiniteSetTheorems, FunctionTheorems, WellFoundedInduction, TLAPS

USE InitialAssumption

-----------------------------------------------------------------------------
(* Batches. *)

LEMMA GreatestKey ==
    ASSUME NEW S \in SUBSET Keys, S # {}
    PROVE  Max(S) \in S /\ \A k \in S : k <= Max(S)
<1> DEFINE R == {ss \in Nat \X Nat : ss[1] < ss[2]}
           T == {KeyCount - k : k \in S}
<1>1. IsWellFoundedOn(R, Nat)
  BY NatLessThanWellFounded DEF OpToRel
<1>2. T \subseteq Nat /\ T # {}
  <2>1. \A k \in S : KeyCount - k \in Nat
    BY DEF Keys
  <2> QED
    BY <2>1
<1> HIDE DEF R
<1>3. PICK n \in T : \A m \in T : ~(<<m, n>> \in R)
  BY <1>1, <1>2, WFMin
<1>4. PICK g \in S : n = KeyCount - g
  BY <1>3
<1>5. ASSUME NEW k \in S PROVE g >= k
  <2>1. KeyCount - k \in T /\ KeyCount - k \in Nat /\ n \in Nat
    BY <1>2
  <2>2. KeyCount - k < n => <<KeyCount - k, n>> \in R
    BY <2>1 DEF R
  <2>3. k \in Nat /\ g \in Nat
    BY DEF Keys
  <2> QED
    BY <1>3, <1>4, <2>1, <2>2, <2>3
<1>6. \A k \in S : k \in Nat
  BY DEF Keys
<1> QED
  BY <1>4, <1>5, <1>6 DEF Max

LEMMA LeastKey ==
    ASSUME NEW S \in SUBSET Keys, S # {}
    PROVE  \E n \in S : \A k \in S : n <= k
<1> DEFINE R == {ss \in Nat \X Nat : ss[1] < ss[2]}
<1>1. IsWellFoundedOn(R, Nat)
  BY NatLessThanWellFounded DEF OpToRel
<1>2. \A k \in S : k \in Nat
  BY DEF Keys
<1> HIDE DEF R
<1>3. PICK n \in S : \A m \in S : ~(<<m, n>> \in R)
  BY <1>1, <1>2, WFMin
<1>4. ASSUME NEW k \in S PROVE n <= k
  <2>1. k < n => <<k, n>> \in R
    BY <1>2 DEF R
  <2> QED
    BY <1>2, <1>3, <2>1
<1> QED
  BY <1>4

(* The keys of a batch come first among the rows of the view after pk. *)
LEMMA RecordsRead ==
    ASSUME SourceTypes, NEW v, IsView(v), NEW t \in Tables, NEW pk \in Keys \cup {NoKey}, NEW i, NEW n
    PROVE  /\ IsBatch(Records(v, t, pk, i, n))
           /\ \A k \in DOMAIN Records(v, t, pk, i, n) :
                /\ k \in Keys /\ k > pk /\ k % n = i
                /\ Records(v, t, pk, i, n)[k] = [val |-> v.rows[t][k], st |-> structure[t]]
           /\ \A k \in Keys :
                /\ k > pk /\ k % n = i /\ k \notin DOMAIN Records(v, t, pk, i, n)
                /\ \/ DOMAIN Records(v, t, pk, i, n) = {}
                   \/ \E j \in DOMAIN Records(v, t, pk, i, n) : k <= j
                => v.rows[t][k] = NoValue
<1> DEFINE after == {k \in Keys : k > pk /\ v.rows[t][k] # NoValue /\ k % n = i}
           D == {j \in after : Cardinality({h \in after : h < j}) < BatchSize}
           r == Records(v, t, pk, i, n)
<1>1. r = [k \in D |-> [val |-> v.rows[t][k], st |-> structure[t]]]
  BY DEF Records
<1>2. IsBatch(r)
  <2>1. D \in SUBSET Keys
    OBVIOUS
  <2>2. \A k \in D : [val |-> v.rows[t][k], st |-> structure[t]] \in [val : 0..MaxLog, st : Nat]
    <3>1. structure[t] \in Nat
      BY DEF SourceTypes
    <3>2. \A k \in D : v.rows[t][k] \in 0..MaxLog
      BY DEF IsView, NoValue
    <3> QED
      BY <3>1, <3>2
  <2> QED
    BY <1>1, <2>1, <2>2 DEF IsBatch
<1>3. IsFiniteSet(after)
  <2>1. IsFiniteSet(Keys)
    BY FS_Interval DEF Keys
  <2> QED
    BY <2>1, FS_Subset
<1>4. ASSUME NEW k \in after, NEW j \in D, k <= j PROVE k \in D
  <2>1. {h \in after : h < k} \subseteq {h \in after : h < j} /\ k \in Nat /\ j \in Nat
    BY <1>4 DEF Keys
  <2>2. IsFiniteSet({h \in after : h < j})
    BY <1>3, FS_Subset
  <2>3. Cardinality({h \in after : h < k}) <= Cardinality({h \in after : h < j})
        /\ IsFiniteSet({h \in after : h < k})
    BY <2>1, <2>2, FS_Subset
  <2>4. Cardinality({h \in after : h < k}) \in Nat /\ Cardinality({h \in after : h < j}) \in Nat
    BY <2>2, <2>3, FS_CardinalityType
  <2> HIDE DEF after
  <2> QED
    BY <2>3, <2>4
<1>5. ASSUME after # {} PROVE D # {}
  <2>1. PICK j \in after : \A k \in after : j <= k
    <3>1. after \in SUBSET Keys
      OBVIOUS
    <3> QED
      BY <1>5, <3>1, LeastKey
  <2>2. {h \in after : h < j} = {}
    BY <2>1 DEF Keys
  <2>3. Cardinality({h \in after : h < j}) = 0
    BY <2>2, FS_EmptySet
  <2> QED
    BY <2>1, <2>3
<1>6. DOMAIN r = D
  BY <1>1
<1>7. \A k \in D : k \in Keys /\ k > pk /\ k % n = i
  OBVIOUS
<1>8. \A k \in Keys : k > pk /\ k % n = i /\ v.rows[t][k] # NoValue => k \in after
  OBVIOUS
<1> HIDE DEF after, D, r
<1> QED
  BY <1>1, <1>2, <1>4, <1>5, <1>6, <1>7, <1>8 DEF r

(* The views that reads may use. *)
LEMMA ReadableViews ==
    ASSUME SourceTypes, NEW vs, AreViews(vs), NEW v \in Readable(vs)
    PROVE  IsView(v) /\ AreViews({v}) /\ (v \in vs \/ v = Snapshot)
<1>1. IsView(Snapshot)
  BY DEF Snapshot, IsView, SourceTypes
<1>2. v \in vs \/ v = Snapshot
  BY DEF Readable
<1> QED
  BY <1>1, <1>2 DEF AreViews

LEMMA BatchKeys ==
    ASSUME NEW b, IsBatch(b)
    PROVE  /\ DOMAIN b \subseteq Keys /\ b = [k \in DOMAIN b |-> b[k]]
           /\ \A k \in DOMAIN b : b[k] \in [val : 0..MaxLog, st : Nat]
           /\ IsFiniteSet(DOMAIN b) /\ Cardinality(DOMAIN b) \in Nat
           /\ DOMAIN b # {} => /\ LastKey(b) \in DOMAIN b /\ LastKey(b) \in Keys
                               /\ \A k \in DOMAIN b : k <= LastKey(b)
<1>1. PICK S \in SUBSET Keys : b \in [S -> [val : 0..MaxLog, st : Nat]]
  BY DEF IsBatch
<1>2. DOMAIN b = S
  BY <1>1
<1>3. IsFiniteSet(Keys)
  BY FS_Interval DEF Keys
<1>4. IsFiniteSet(S) /\ Cardinality(S) \in Nat
  BY <1>3, FS_Subset, FS_CardinalityType
<1>5. S # {} => /\ LastKey(b) \in S /\ \A k \in S : k <= LastKey(b)
  BY <1>2, GreatestKey DEF LastKey
<1> QED
  BY <1>1, <1>2, <1>4, <1>5

LEMMA NoBatchIsBatch == IsBatch(NoBatch) /\ DOMAIN NoBatch = {}
<1>1. {} \in SUBSET Keys /\ NoBatch \in [{} -> [val : 0..MaxLog, st : Nat]]
  BY DEF NoBatch
<1> QED
  BY <1>1 DEF IsBatch, NoBatch

(* A record of a batch wins, or loses to a row that was written. *)
LEMMA InsertedRows ==
    ASSUME NEW rows \in [Keys -> RowType], NEW b, IsBatch(b), NEW last \in Nat
    PROVE  /\ Inserted(rows, b, last) \in [Keys -> RowType]
           /\ LastVersion(b, last) \in Nat /\ last <= LastVersion(b, last)
           /\ \A k \in Keys :
                LET row == Inserted(rows, b, last)[k]
                IN  \/ row = rows[k] /\ (k \in DOMAIN b => rows[k].ver # 0)
                    \/ /\ k \in DOMAIN b /\ row.val = b[k].val /\ row.st = b[k].st
                       /\ row.ver \in 1..LastVersion(b, last)
<1> DEFINE before(k) == Cardinality({j \in DOMAIN b : j < k})
           new(k) == [val |-> b[k].val, ver |-> last + 1 + before(k), st |-> b[k].st]
<1>1. IsFiniteSet(DOMAIN b) /\ Cardinality(DOMAIN b) \in Nat
      /\ \A k \in DOMAIN b : b[k] \in [val : 0..MaxLog, st : Nat]
  BY BatchKeys
<1>2. ASSUME NEW k PROVE before(k) \in Nat /\ before(k) <= Cardinality(DOMAIN b)
  <2>1. {j \in DOMAIN b : j < k} \subseteq DOMAIN b
    OBVIOUS
  <2>2. IsFiniteSet({j \in DOMAIN b : j < k}) /\ before(k) <= Cardinality(DOMAIN b)
    BY <1>1, <2>1, FS_Subset
  <2> QED
    BY <2>2, FS_CardinalityType
<1>3. ASSUME NEW k \in DOMAIN b
      PROVE  new(k) \in RowType /\ new(k).ver \in 1..LastVersion(b, last)
  <2>1. before(k) \in Nat /\ before(k) <= Cardinality(DOMAIN b)
    BY <1>2
  <2>2. b[k].val \in 0..MaxLog /\ b[k].st \in Nat
    BY <1>1
  <2> HIDE DEF before
  <2>3. last + 1 + before(k) \in Nat /\ last + 1 + before(k) \in 1..LastVersion(b, last)
    BY <1>1, <2>1 DEF LastVersion
  <2> QED
    BY <2>2, <2>3 DEF RowType
<1>4. \A k \in Keys :
        Inserted(rows, b, last)[k] =
          IF k \in DOMAIN b /\ new(k).ver >= rows[k].ver THEN new(k) ELSE rows[k]
  BY DEF Inserted
<1>5. Inserted(rows, b, last) = [k \in Keys |-> Inserted(rows, b, last)[k]]
  BY DEF Inserted
<1>6. \A k \in DOMAIN b : new(k).val = b[k].val /\ new(k).st = b[k].st
  OBVIOUS
<1>7. \A k \in Keys : rows[k] \in RowType /\ rows[k].ver \in Nat
  BY DEF RowType
<1>8. LastVersion(b, last) \in Nat /\ last <= LastVersion(b, last)
  BY <1>1 DEF LastVersion
<1> HIDE DEF new
<1>9. \A k \in DOMAIN b : ~(new(k).ver >= 0) => FALSE
  BY <1>3
<1>10. ASSUME NEW k \in Keys
       PROVE  LET row == Inserted(rows, b, last)[k]
              IN  /\ row \in RowType
                  /\ \/ row = rows[k] /\ (k \in DOMAIN b => rows[k].ver # 0)
                     \/ /\ k \in DOMAIN b /\ row.val = b[k].val /\ row.st = b[k].st
                        /\ row.ver \in 1..LastVersion(b, last)
  <2>1. CASE k \in DOMAIN b /\ new(k).ver >= rows[k].ver
    BY <1>3, <1>4, <1>6, <2>1
  <2>2. CASE ~(k \in DOMAIN b /\ new(k).ver >= rows[k].ver)
    BY <1>3, <1>4, <1>7, <1>9, <2>2
  <2> QED
    BY <2>1, <2>2
<1> QED
  BY <1>5, <1>8, <1>10

-----------------------------------------------------------------------------
(* The steps, those in which the process ends and those of a worker taken  *)
(* together.                                                               *)

Ended ==
    /\ pc # "down" /\ ProcessEnds
    /\ UNCHANGED <<source, dbs, saved, worker_files, resets>> /\ crashes' \in Nat

WorkerMoves == \E w \in workers : WorkerStep(w) \/ WorkerCrash(w)

LEMMA Steps ==
    ASSUME InitialInv, [Next]_vars
    PROVE  \/ MySQLWrites \/ MySQLAlters \/ Start \/ DropTmp \/ CreateTmp \/ ListTables \/ NotePosition
           \/ CreateTable \/ StructureCreated \/ Perform \/ BeginTable \/ ReadBatch
           \/ InsertBatch \/ SaveAfterBatch \/ FinishTable \/ LaunchWorkers \/ WorkersDone
           \/ Verify \/ RenameTarget \/ RenameTmp \/ DropOld \/ RunRealtime
           \/ Ended \/ WorkerMoves \/ RestartReplication \/ UNCHANGED vars
<1>1. crashes \in Nat
  BY DEF InitialInv, StateTypes, MemoryTypes, WorkerTypes
<1>2. ReadRefused \/ InsertBatchRefused \/ WorkerFailed \/ VerifyFails \/ RenameRefused \/ Crash => Ended
  BY <1>1 DEF ReadRefused, InsertBatchRefused, WorkerFailed, VerifyFails, RenameRefused, Crash, Raise,
              Ended, bounds
<1>3. Workers \/ (\E w \in workers : WorkerCrash(w)) => WorkerMoves
  BY DEF Workers, WorkerMoves
<1>4. Realtime => UNCHANGED vars
  BY DEF Realtime
<1> QED
  BY <1>2, <1>3, <1>4 DEF Next, Main

LEMMA Basics ==
    ASSUME InitialInv
    PROVE  /\ setup.tables \in Nat \ {0} /\ threads \in Nat \ {0} /\ tables = 1..setup.tables
           /\ tables \subseteq Tables /\ Tables \subseteq Nat /\ Keys \subseteq Nat
           /\ saved \in StateType /\ state \in StateType
           /\ saved.table \in 0..setup.tables /\ state.table \in 0..setup.tables
           /\ saved.table \in Nat /\ state.table \in Nat /\ at \in Nat
           /\ at \in 0..(setup.tables + 1) /\ max_pk \in Nat
           /\ saved.pk \in Nat /\ state.pk \in Nat
<1>1. setup \in [threads : Nat \ {0}, tables : Tables, alters : Nat, resets : Nat,
             crashes : Nat]
  BY DEF InitialInv, SourceTypes
<1>2. setup.tables \in 1..TableCount /\ threads \in Nat \ {0}
  BY <1>1 DEF Tables, threads
<1>3. /\ saved \in StateType /\ state \in StateType /\ at \in 0..(setup.tables + 1)
      /\ saved.table \in tables \cup {0} /\ state.table \in tables \cup {0}
      /\ max_pk \in Keys \cup {0}
  BY DEF InitialInv, StateTypes, MemoryTypes, WorkerTypes, NoTable, NoKey
<1>4. saved.pk \in Keys \cup {0} /\ state.pk \in Keys \cup {0}
  BY <1>3 DEF StateType, NoKey
<1> QED
  BY <1>2, <1>3, <1>4 DEF tables, Tables, Keys

LEMMA WorkerMoveFrame ==
    ASSUME WorkerMoves
    PROVE  UNCHANGED <<source, saved, pc, memory, resets>>
<1>1. ASSUME NEW w \in workers, WorkerStep(w) \/ WorkerCrash(w)
      PROVE  UNCHANGED <<source, saved, pc, memory, resets>>
  BY <1>1 DEF WorkerStep, WorkerCrash, WorkerStarts, WorkerReads, WorkerReadRefused, WorkerInserts,
              WorkerRefused, WorkerSaves, WorkerFinishes, bounds
<1> QED
  BY <1>1 DEF WorkerMoves

LEMMA ControlStep ==
    ASSUME InitialInv, [Next]_vars
    PROVE  Control'
<1>1. Control
  BY DEF InitialInv
<1>2. UNCHANGED <<setup, saved, pc, state, at, max_pk>> => Control'
  BY <1>1 DEF Control, tables, threads
<1>3. pc' = "down" /\ state' = NoState /\ saved' = saved /\ setup' = setup => Control'
  BY <1>1 DEF Control, threads, NoState, NoTable, NoKey, Starting, Reading, Ending
<1>11. CASE MySQLWrites
  <2>1. UNCHANGED <<setup, saved, pc, state, at, max_pk>>
    BY <1>11 DEF MySQLWrites, memory
  <2> QED
    BY <1>2, <2>1
<1>12. CASE MySQLAlters
  <2>1. UNCHANGED <<setup, saved, pc, state, at, max_pk>>
    BY <1>12 DEF MySQLAlters, memory
  <2> QED
    BY <1>2, <2>1
<1>13. CASE Start
  BY <1>13, <1>1, Basics, SMTT(60) DEF Start, Control, source, memory, Save, tables, threads, StateType, NoTable, NoKey, Statuses, Starting, Reading, Ending, NoState
<1>14. CASE DropTmp
  BY <1>14, <1>1, Basics, SMTT(60) DEF DropTmp, Control, source, memory, Save, tables, threads, StateType, NoTable, NoKey, Statuses, Starting, Reading, Ending
<1>15. CASE CreateTmp
  BY <1>15, <1>1, Basics, SMTT(60) DEF CreateTmp, Control, source, memory, Save, tables, threads, StateType, NoTable, NoKey, Statuses, Starting, Reading, Ending
<1>16a. CASE ListTables
  BY <1>16a, <1>1, Basics, SMTT(60) DEF ListTables, Control, source, memory, Save, tables, threads, StateType, NoTable, NoKey, Statuses, Starting, Reading, Ending
<1>16. CASE NotePosition
  BY <1>16, <1>1, Basics, SMTT(60) DEF NotePosition, Control, source, memory, Save, tables, threads, StateType, NoTable, NoKey, Statuses, Starting, Reading, Ending
<1>17. CASE CreateTable
  BY <1>17, <1>1, Basics, SMTT(60) DEF CreateTable, Control, source, memory, Save, tables, threads, StateType, NoTable, NoKey, Statuses, Starting, Reading, Ending
<1>18. CASE StructureCreated
  BY <1>18, <1>1, Basics, SMTT(60) DEF StructureCreated, Control, source, memory, Save, tables, threads, StateType, NoTable, NoKey, Statuses, Starting, Reading, Ending
<1>19. CASE Perform
  BY <1>19, <1>1, Basics, SMTT(60) DEF Perform, Control, source, memory, Save, tables, threads, StateType, NoTable, NoKey, Statuses, Starting, Reading, Ending
<1>20. CASE BeginTable
  <2>1. /\ pc = "table" /\ pc' = "read" /\ at \in tables /\ at' = at /\ threads = 1
        /\ setup' = setup
    BY <1>20 DEF BeginTable, source
  <2>2. saved.status = "performing" /\ state.status = "performing"
        /\ state.structure = saved.structure /\ state.last = saved.last
        /\ state.table = saved.table
    BY <1>1, <2>1 DEF Control
  <2>3. CASE state.table = at
    <3>1. UNCHANGED <<state, saved>>
      BY <1>20, <2>3 DEF BeginTable
    <3> QED
      BY <2>1, <2>2, <2>3, <3>1 DEF Control, tables, threads, Starting, Reading, Ending
  <2>4. CASE state.table # at
    <3>1. saved' = state' /\ state' = [state EXCEPT !.table = at, !.pk = NoKey]
      BY <1>20, <2>4 DEF BeginTable, Save
    <3>2. state \in StateType
      BY Basics
    <3>3. /\ state'.status = "performing" /\ state'.table = at
      BY <2>2, <3>1, <3>2 DEF StateType
    <3> QED
      BY <2>1, <3>1, <3>3 DEF Control, tables, threads, Starting, Reading, Ending
  <2> QED
    BY <2>3, <2>4
<1>21. CASE ReadBatch
  BY <1>21, <1>1, Basics, SMTT(60) DEF ReadBatch, Control, source, memory, Save, tables, threads, StateType, NoTable, NoKey, Statuses, Starting, Reading, Ending
<1>22. CASE InsertBatch
  BY <1>22, <1>1, Basics, SMTT(60) DEF InsertBatch, Control, source, memory, Save, tables, threads, StateType, NoTable, NoKey, Statuses, Starting, Reading, Ending
<1>23. CASE SaveAfterBatch
  BY <1>23, <1>1, Basics, SMTT(60) DEF SaveAfterBatch, Control, source, memory, Save, tables, threads, StateType, NoTable, NoKey, Statuses, Starting, Reading, Ending, SaveDue
<1>24. CASE FinishTable
  <2>1. /\ pc = "read" /\ pc' = "table" /\ at' = at + 1 /\ setup' = setup
        /\ saved' = state' /\ state' = [state EXCEPT !.versions = versions]
    BY <1>24 DEF FinishTable, SaveDue, Save, source
  <2>2. /\ saved.status = "performing" /\ state.status = "performing"
        /\ state.table = saved.table /\ saved.table = at /\ threads = 1
    BY <1>1, <2>1 DEF Control, Reading
  <2>3. state \in StateType /\ at \in Nat
    BY Basics
  <2>4. state'.status = "performing" /\ state'.table = at
    BY <2>1, <2>2, <2>3 DEF StateType
  <2> QED
    BY <2>1, <2>2, <2>3, <2>4 DEF Control, threads, Starting, Reading, Ending
<1>25. CASE LaunchWorkers
  BY <1>25, <1>1, Basics, SMTT(60) DEF LaunchWorkers, Control, source, memory, Save, tables, threads, StateType, NoTable, NoKey, Statuses, Starting, Reading, Ending
<1>26. CASE WorkersDone
  BY <1>26, <1>1, Basics, SMTT(60) DEF WorkersDone, Control, source, memory, Save, tables, threads, StateType, NoTable, NoKey, Statuses, Starting, Reading, Ending
<1>27. CASE Verify
  BY <1>27, <1>1, Basics, SMTT(60) DEF Verify, Control, source, memory, Save, tables, threads, StateType, NoTable, NoKey, Statuses, Starting, Reading, Ending
<1>28. CASE RenameTarget
  BY <1>28, <1>1, Basics, SMTT(60) DEF RenameTarget, Control, source, memory, Save, tables, threads, StateType, NoTable, NoKey, Statuses, Starting, Reading, Ending
<1>29. CASE RenameTmp
  BY <1>29, <1>1, Basics, SMTT(60) DEF RenameTmp, Control, source, memory, Save, tables, threads, StateType, NoTable, NoKey, Statuses, Starting, Reading, Ending
<1>30. CASE DropOld
  BY <1>30, <1>1, Basics, SMTT(60) DEF DropOld, Control, source, memory, Save, tables, threads, StateType, NoTable, NoKey, Statuses, Starting, Reading, Ending
<1>31. CASE RunRealtime
  BY <1>31, <1>1, Basics, SMTT(60) DEF RunRealtime, Control, source, memory, Save, tables, threads, StateType, NoTable, NoKey, Statuses, Starting, Reading, Ending
<1>32. CASE Ended
  <2>1. /\ pc' = "down" /\ state' = NoState /\ saved' = saved /\ setup' = setup
    BY <1>32 DEF Ended, ProcessEnds, MemoryGone, source
  <2> QED
    BY <1>3, <2>1
<1>33. CASE WorkerMoves
  <2>1. UNCHANGED <<setup, saved, pc, state, at, max_pk>>
    BY <1>33, WorkerMoveFrame DEF source, memory
  <2> QED
    BY <1>2, <2>1
<1>34. CASE RestartReplication
  BY <1>34, <1>1, Basics, SMTT(60) DEF RestartReplication, Control, source, memory, Save, tables, threads, StateType, NoTable, NoKey, Statuses, Starting, Reading, Ending, MemoryGone, NoState, NoBatch, Own
<1>35. CASE UNCHANGED vars
  <2>1. UNCHANGED <<setup, saved, pc, state, at, max_pk>>
    BY <1>35 DEF vars, source, memory
  <2> QED
    BY <1>2, <2>1
<1> QED
  BY <1>11, <1>12, <1>13, <1>14, <1>15, <1>16a, <1>16, <1>17, <1>18, <1>19, <1>20, <1>21, <1>22, <1>23, <1>24, <1>25, <1>26, <1>27, <1>28, <1>29, <1>30, <1>31, <1>32, <1>33, <1>34, <1>35, Steps

LEMMA SetupStep ==
    ASSUME InitialInv, [Next]_vars
    PROVE  /\ UNCHANGED setup /\ tables' = tables /\ threads' = threads
           /\ (log' # log \/ mysql' # mysql) => MySQLWrites
           /\ (structure' # structure \/ altered' # altered) => MySQLAlters
<1>11. CASE MySQLWrites
  BY <1>11 DEF MySQLWrites, source, tables, threads
<1>12. CASE MySQLAlters
  BY <1>12 DEF MySQLAlters, source, tables, threads
<1>13. CASE Start
  BY <1>13 DEF Start, source, tables, threads
<1>14. CASE DropTmp
  BY <1>14 DEF DropTmp, source, tables, threads
<1>15. CASE CreateTmp
  BY <1>15 DEF CreateTmp, source, tables, threads
<1>16a. CASE ListTables
  BY <1>16a DEF ListTables, source, tables, threads
<1>16. CASE NotePosition
  BY <1>16 DEF NotePosition, source, tables, threads
<1>17. CASE CreateTable
  BY <1>17 DEF CreateTable, source, tables, threads
<1>18. CASE StructureCreated
  BY <1>18 DEF StructureCreated, source, tables, threads
<1>19. CASE Perform
  BY <1>19 DEF Perform, source, tables, threads
<1>20. CASE BeginTable
  BY <1>20 DEF BeginTable, source, tables, threads
<1>21. CASE ReadBatch
  BY <1>21 DEF ReadBatch, source, tables, threads
<1>22. CASE InsertBatch
  BY <1>22 DEF InsertBatch, source, tables, threads
<1>23. CASE SaveAfterBatch
  BY <1>23 DEF SaveAfterBatch, source, tables, threads
<1>24. CASE FinishTable
  BY <1>24 DEF FinishTable, source, tables, threads
<1>25. CASE LaunchWorkers
  BY <1>25 DEF LaunchWorkers, source, tables, threads
<1>26. CASE WorkersDone
  BY <1>26 DEF WorkersDone, source, tables, threads
<1>27. CASE Verify
  BY <1>27 DEF Verify, source, tables, threads
<1>28. CASE RenameTarget
  BY <1>28 DEF RenameTarget, source, tables, threads
<1>29. CASE RenameTmp
  BY <1>29 DEF RenameTmp, source, tables, threads
<1>30. CASE DropOld
  BY <1>30 DEF DropOld, source, tables, threads
<1>31. CASE RunRealtime
  BY <1>31 DEF RunRealtime, source, tables, threads
<1>32. CASE Ended
  BY <1>32 DEF Ended, source, tables, threads
<1>33. CASE WorkerMoves
  BY <1>33, WorkerMoveFrame DEF WorkerMoves, source, tables, threads
<1>34. CASE RestartReplication
  BY <1>34 DEF RestartReplication, source, tables, threads
<1>35. CASE UNCHANGED vars
  BY <1>35 DEF vars, source, tables, threads
<1> QED
  BY <1>11, <1>12, <1>13, <1>14, <1>15, <1>16a, <1>16, <1>17, <1>18, <1>19, <1>20, <1>21, <1>22, <1>23, <1>24, <1>25, <1>26, <1>27, <1>28, <1>29, <1>30, <1>31, <1>32, <1>33, <1>34, <1>35, Steps

LEMMA NoWorkersStep ==
    ASSUME InitialInv, [Next]_vars
    PROVE  NoWorkers'
<1>1. NoWorkers /\ Control
  BY DEF InitialInv
<1>2. threads' = threads
  BY SetupStep
<1>11. CASE MySQLWrites
  BY <1>11, <1>1, <1>2 DEF MySQLWrites, NoWorkers
<1>12. CASE MySQLAlters
  BY <1>12, <1>1, <1>2 DEF MySQLAlters, NoWorkers
<1>13. CASE Start
  BY <1>13, <1>1, <1>2 DEF Start, NoWorkers
<1>14. CASE DropTmp
  BY <1>14, <1>1, <1>2 DEF DropTmp, NoWorkers
<1>15. CASE CreateTmp
  BY <1>15, <1>1, <1>2 DEF CreateTmp, NoWorkers
<1>16a. CASE ListTables
  BY <1>16a, <1>1, <1>2 DEF ListTables, NoWorkers
<1>16. CASE NotePosition
  BY <1>16, <1>1, <1>2 DEF NotePosition, NoWorkers
<1>17. CASE CreateTable
  BY <1>17, <1>1, <1>2 DEF CreateTable, NoWorkers
<1>18. CASE StructureCreated
  BY <1>18, <1>1, <1>2 DEF StructureCreated, NoWorkers
<1>19. CASE Perform
  BY <1>19, <1>1, <1>2 DEF Perform, NoWorkers
<1>20. CASE BeginTable
  BY <1>20, <1>1, <1>2 DEF BeginTable, NoWorkers
<1>21. CASE ReadBatch
  BY <1>21, <1>1, <1>2 DEF ReadBatch, NoWorkers
<1>22. CASE InsertBatch
  BY <1>22, <1>1, <1>2 DEF InsertBatch, NoWorkers
<1>23. CASE SaveAfterBatch
  BY <1>23, <1>1, <1>2 DEF SaveAfterBatch, NoWorkers
<1>24. CASE FinishTable
  BY <1>24, <1>1, <1>2 DEF FinishTable, NoWorkers
<1>25. CASE LaunchWorkers
  BY <1>25, <1>1, <1>2 DEF LaunchWorkers, NoWorkers
<1>26. CASE WorkersDone
  BY <1>26, <1>1, <1>2 DEF WorkersDone, NoWorkers, Own
<1>27. CASE Verify
  BY <1>27, <1>1, <1>2 DEF Verify, NoWorkers
<1>28. CASE RenameTarget
  BY <1>28, <1>1, <1>2 DEF RenameTarget, NoWorkers
<1>29. CASE RenameTmp
  BY <1>29, <1>1, <1>2 DEF RenameTmp, NoWorkers
<1>30. CASE DropOld
  BY <1>30, <1>1, <1>2 DEF DropOld, NoWorkers
<1>31. CASE RunRealtime
  BY <1>31, <1>1, <1>2 DEF RunRealtime, NoWorkers
<1>32. CASE Ended
  BY <1>32, <1>1, <1>2 DEF Ended, ProcessEnds, NoWorkers
<1>33. CASE WorkerMoves
  BY <1>33, <1>1, <1>2 DEF WorkerMoves, NoWorkers
<1>34. CASE RestartReplication
  BY <1>34, <1>1, <1>2 DEF RestartReplication, NoWorkers, Own
<1>35. CASE UNCHANGED vars
  BY <1>35, <1>1, <1>2 DEF vars, NoWorkers
<1> QED
  BY <1>11, <1>12, <1>13, <1>14, <1>15, <1>16a, <1>16, <1>17, <1>18, <1>19, <1>20, <1>21, <1>22, <1>23, <1>24, <1>25, <1>26, <1>27, <1>28, <1>29, <1>30, <1>31, <1>32, <1>33, <1>34, <1>35, Steps

LEMMA SourceStep ==
    ASSUME InitialInv, [Next]_vars
    PROVE  SourceTypes'
<1>0. SourceTypes
  BY DEF InitialInv
<1>1. UNCHANGED setup /\ tables' = tables
  BY SetupStep
<1>2. CASE MySQLWrites
  <2>1. PICK t \in tables, k \in Keys :
          /\ Len(log) < MaxLog /\ log' = Append(log, <<t, k>>)
          /\ structure' = structure /\ altered' = altered
          /\ \/ mysql' = [mysql EXCEPT ![t][k] = Len(log) + 1]
             \/ mysql' = [mysql EXCEPT ![t][k] = NoValue]
    BY <1>2 DEF MySQLWrites
  <2>2. Len(log) \in Nat /\ log \in Seq(tables \X Keys)
    BY <1>0 DEF SourceTypes
  <2>3. log' \in Seq(tables \X Keys) /\ Len(log') <= MaxLog
    BY <2>1, <2>2
  <2>4. /\ Len(log) + 1 \in -1..MaxLog /\ NoValue \in -1..MaxLog
        /\ t \in Tables /\ tables \subseteq Tables
    <3>1. MaxLog \in Nat /\ Len(log) < MaxLog
      BY <2>1
    <3>2. Len(log) + 1 \in -1..MaxLog /\ NoValue \in -1..MaxLog
      BY <2>2, <3>1 DEF NoValue
    <3>3. tables \subseteq Tables
      BY Basics
    <3> QED
      BY <2>1, <3>2, <3>3
  <2>5. /\ mysql' \in [Tables -> [Keys -> -1..MaxLog]]
        /\ \A s \in Tables \ tables : mysql'[s] = mysql[s]
    <3>1. mysql \in [Tables -> [Keys -> -1..MaxLog]]
      BY <1>0 DEF SourceTypes
    <3>2. ASSUME NEW v \in -1..MaxLog, mysql' = [mysql EXCEPT ![t][k] = v]
          PROVE  /\ mysql' \in [Tables -> [Keys -> -1..MaxLog]]
                 /\ \A s \in Tables \ tables : mysql'[s] = mysql[s]
      BY <2>4, <3>1, <3>2
    <3> QED
      BY <2>1, <2>4, <3>2
  <2> QED
    BY <1>0, <1>1, <2>1, <2>3, <2>5 DEF SourceTypes
<1>3. CASE MySQLAlters
  <2>1. PICK t \in tables, st \in 0..setup.alters :
          /\ UNCHANGED <<log, mysql>>
          /\ structure' = [structure EXCEPT ![t] = st]
          /\ altered' = [altered EXCEPT ![t] = @ + 1]
    BY <1>3 DEF MySQLAlters
  <2>2. t \in Tables
    BY <2>1, Basics
  <2>3. altered[t] + 1 \in Nat
    BY <1>0, <2>2 DEF SourceTypes
  <2>4. structure' \in [Tables -> 0..setup.alters] /\ altered' \in [Tables -> Nat]
    BY <1>0, <2>1, <2>2, <2>3 DEF SourceTypes
  <2> QED
    BY <1>0, <1>1, <2>1, <2>4 DEF SourceTypes
<1>4. CASE ~MySQLWrites /\ ~MySQLAlters
  <2>1. UNCHANGED source
    BY <1>4, SetupStep DEF source
  <2> QED
    BY <1>0, <1>1, <2>1 DEF SourceTypes, source
<1> QED
  BY <1>2, <1>3, <1>4

LEMMA InsertDb ==
    ASSUME InitialInv, NEW t \in tables, NEW b, IsBatch(b), NEW last \in Nat,
           InsertAccepted(t, b, last), tables' = tables
    PROVE  /\ DbTypes'
           /\ "tmp" \in DOMAIN dbs /\ t \in DOMAIN dbs["tmp"]
           /\ dbs["tmp"][t].rows \in [Keys -> RowType]
           /\ DOMAIN dbs' = DOMAIN dbs /\ DOMAIN dbs'["tmp"] = DOMAIN dbs["tmp"]
           /\ \A d \in DOMAIN dbs \ {"tmp"} : dbs'[d] = dbs[d]
           /\ \A s \in DOMAIN dbs["tmp"] : dbs'["tmp"][s].st = dbs["tmp"][s].st
           /\ \A s \in DOMAIN dbs["tmp"] \ {t} : dbs'["tmp"][s] = dbs["tmp"][s]
           /\ dbs'["tmp"][t].rows = Inserted(dbs["tmp"][t].rows, b, last)
<1> DEFINE old == dbs["tmp"]
           new == Inserted(old[t].rows, b, last)
<1>1. DbTypes
  BY DEF InitialInv
<1>2. /\ "tmp" \in DOMAIN dbs /\ t \in DOMAIN old
      /\ dbs' = [dbs EXCEPT !["tmp"][t].rows = Inserted(@, b, last)]
  BY DEF InsertAccepted
<1>3. IsDb(old)
  BY <1>1, <1>2 DEF DbTypes
<1>4. /\ old \in [DOMAIN old -> TableType] /\ old[t] \in TableType
      /\ old[t].rows \in [Keys -> RowType]
  BY <1>2, <1>3 DEF IsDb, TableType
<1>5. /\ new \in [Keys -> RowType]
      /\ \A k \in Keys : new[k].val = NoValue => new[k].ver = 0
  <2>1. \A k \in DOMAIN b : b[k].val \in 0..MaxLog
    BY BatchKeys
  <2>2. ASSUME NEW k \in Keys, new[k].val = NoValue PROVE new[k].ver = 0
    <3>1. \/ new[k] = old[t].rows[k]
          \/ k \in DOMAIN b /\ new[k].val = b[k].val
      <4>1. LET row == Inserted(old[t].rows, b, last)[k]
            IN  \/ row = old[t].rows[k] /\ (k \in DOMAIN b => old[t].rows[k].ver # 0)
                \/ /\ k \in DOMAIN b /\ row.val = b[k].val /\ row.st = b[k].st
                   /\ row.ver \in 1..LastVersion(b, last)
        BY <1>4, InsertedRows
      <4> QED
        BY <4>1
    <3>2. ~(NoValue \in 0..MaxLog)
      BY DEF NoValue
    <3> QED
      BY <1>2, <1>3, <2>1, <2>2, <3>1, <3>2 DEF IsDb
  <2> QED
    BY <1>4, <2>2, InsertedRows
<1> HIDE DEF new
<1>6. /\ DOMAIN dbs' = DOMAIN dbs
      /\ \A d \in DOMAIN dbs \ {"tmp"} : dbs'[d] = dbs[d]
      /\ dbs'["tmp"] = [old EXCEPT ![t].rows = new]
  BY <1>2 DEF new
<1>7. /\ dbs'["tmp"] \in [DOMAIN old -> TableType]
      /\ \A s \in DOMAIN old \ {t} : dbs'["tmp"][s] = old[s]
      /\ dbs'["tmp"][t].rows = new /\ dbs'["tmp"][t].st = old[t].st
  BY <1>2, <1>4, <1>5, <1>6 DEF TableType
<1>8. IsDb(dbs["tmp"])'
  BY <1>3, <1>5, <1>7 DEF IsDb
<1>9. dbs' = [d \in DOMAIN dbs' |-> dbs'[d]]
  BY <1>2
<1>10. \A d \in DOMAIN dbs : IsDb(dbs[d])'
  <2> SUFFICES ASSUME NEW d \in DOMAIN dbs PROVE IsDb(dbs[d])'
    OBVIOUS
  <2>1. CASE d = "tmp"
    BY <1>8, <2>1
  <2>2. CASE d # "tmp"
    BY <1>1, <1>6, <2>2 DEF DbTypes, IsDb
  <2> QED
    BY <2>1, <2>2
<1>11. DbTypes'
  BY <1>1, <1>6, <1>9, <1>10 DEF DbTypes
<1> QED
  BY <1>2, <1>4, <1>6, <1>7, <1>11 DEF new

LEMMA EmptyIsDb == IsDb(EmptyDb) /\ IsDb(EmptyDb)' /\ DOMAIN EmptyDb = {}
BY DEF IsDb, EmptyDb

(* DROP, CREATE and RENAME DATABASE. *)
LEMMA DbsChange ==
    ASSUME InitialInv, [Next]_vars,
           DropTmp \/ CreateTmp \/ RenameTarget \/ RenameTmp \/ DropOld
    PROVE  DbTypes'
<1>1. DbTypes /\ tables' = tables
  BY SetupStep DEF InitialInv
<1>2. \A d \in DOMAIN dbs : /\ DOMAIN dbs[d] \subseteq tables
                            /\ dbs[d] \in [DOMAIN dbs[d] -> TableType]
                            /\ \A t \in DOMAIN dbs[d] : \A k \in Keys :
                                 dbs[d][t].rows[k].val = NoValue => dbs[d][t].rows[k].ver = 0
  BY <1>1 DEF DbTypes, IsDb
<1>3. /\ DOMAIN dbs' \subseteq {"target", "tmp", "old"}
      /\ dbs' = [d \in DOMAIN dbs' |-> dbs'[d]]
      /\ \A d \in DOMAIN dbs' : dbs'[d] = EmptyDb \/ \E e \in DOMAIN dbs : dbs'[d] = dbs[e]
  <2>1. /\ DOMAIN dbs \subseteq {"target", "tmp", "old"}
        /\ dbs = [d \in DOMAIN dbs |-> dbs[d]]
    BY <1>1 DEF DbTypes
  <2>2. CASE DropTmp
    BY <2>1, <2>2 DEF DropTmp, Without
  <2>3. CASE CreateTmp
    BY <2>1, <2>3 DEF CreateTmp, With
  <2>4. CASE RenameTarget
    BY <2>1, <2>4 DEF RenameTarget, RenameDatabase, With, Without
  <2>5. CASE RenameTmp
    BY <2>1, <2>5 DEF RenameTmp, RenameDatabase, With, Without
  <2>6. CASE DropOld
    BY <2>1, <2>6 DEF DropOld, Without
  <2> QED
    BY <2>2, <2>3, <2>4, <2>5, <2>6
<1>4. ASSUME NEW d \in DOMAIN dbs' PROVE IsDb(dbs[d])'
  <2>1. CASE dbs'[d] = EmptyDb
    BY <1>1, <2>1 DEF IsDb, EmptyDb
  <2>2. CASE \E e \in DOMAIN dbs : dbs'[d] = dbs[e]
    BY <1>1, <1>2, <2>2 DEF IsDb
  <2> QED
    BY <1>3, <2>1, <2>2
<1> QED
  BY <1>3, <1>4 DEF DbTypes

LEMMA CreateTableDb ==
    ASSUME InitialInv, [Next]_vars, CreateTable
    PROVE  /\ DbTypes' /\ "tmp" \in DOMAIN dbs /\ at \notin DOMAIN dbs["tmp"]
           /\ DOMAIN dbs' = DOMAIN dbs /\ DOMAIN dbs'["tmp"] = DOMAIN dbs["tmp"] \cup {at}
           /\ \A d \in DOMAIN dbs \ {"tmp"} : dbs'[d] = dbs[d]
           /\ \A t \in DOMAIN dbs["tmp"] : dbs'["tmp"][t] = dbs["tmp"][t]
           /\ dbs'["tmp"][at] = [st |-> structure[at], rows |-> [k \in Keys |-> NoRow]]
<1> DEFINE old == dbs["tmp"]
           new == [st |-> structure[at], rows |-> [k \in Keys |-> NoRow]]
<1>1. DbTypes /\ Databases /\ tables' = tables /\ pc = "structure" /\ at \in tables
  BY SetupStep DEF InitialInv, CreateTable
<1>2. /\ "tmp" \in DOMAIN dbs /\ ~(at < at) /\ at \notin DOMAIN old /\ IsDb(old)
  BY <1>1, Basics DEF Databases, DbTypes
<1>3. new \in TableType
  <2>1. at \in Tables /\ structure[at] \in Nat
    BY <1>1, Basics DEF InitialInv, SourceTypes
  <2>2. NoRow \in RowType
    BY DEF NoRow, RowType, NoValue
  <2> QED
    BY <2>1, <2>2 DEF TableType
<1>4. \A k \in Keys : new.rows[k].ver = 0
  BY DEF NoRow
<1> HIDE DEF new
<1>5. /\ dbs' = [dbs EXCEPT !["tmp"] = With(@, at, new)]
  BY <1>2 DEF CreateTable, new
<1>6. /\ DOMAIN dbs' = DOMAIN dbs /\ dbs'["tmp"] = With(old, at, new)
      /\ \A d \in DOMAIN dbs \ {"tmp"} : dbs'[d] = dbs[d]
      /\ dbs' = [d \in DOMAIN dbs' |-> dbs'[d]]
  BY <1>2, <1>5
<1>7. /\ DOMAIN dbs'["tmp"] = DOMAIN old \cup {at} /\ dbs'["tmp"][at] = new
      /\ \A t \in DOMAIN old : dbs'["tmp"][t] = old[t]
      /\ dbs'["tmp"] = [t \in DOMAIN old \cup {at} |-> dbs'["tmp"][t]]
  BY <1>2, <1>6 DEF With
<1>8. IsDb(dbs["tmp"])'
  <2>1. dbs'["tmp"] \in [DOMAIN dbs'["tmp"] -> TableType]
    BY <1>2, <1>3, <1>7 DEF IsDb
  <2> QED
    BY <1>1, <1>2, <1>4, <1>7, <2>1 DEF IsDb
<1>9. \A d \in DOMAIN dbs : IsDb(dbs[d])'
  <2> SUFFICES ASSUME NEW d \in DOMAIN dbs PROVE IsDb(dbs[d])'
    OBVIOUS
  <2>1. CASE d = "tmp"
    BY <1>8, <2>1
  <2>2. CASE d # "tmp"
    BY <1>1, <1>6, <2>2 DEF DbTypes, IsDb
  <2> QED
    BY <2>1, <2>2
<1>10. DbTypes'
  BY <1>1, <1>6, <1>9 DEF DbTypes
<1> QED
  BY <1>2, <1>6, <1>7, <1>10 DEF new

LEMMA InsertBatchAccepted ==
    ASSUME InitialInv, InsertBatch
    PROVE  /\ at \in tables /\ IsBatch(batch) /\ DOMAIN batch # {} /\ versions[at] \in Nat
           /\ InsertAccepted(at, batch, versions[at])
<1>1. at \in tables /\ IsBatch(batch) /\ DOMAIN batch # {} /\ versions \in [Tables -> Nat]
  BY DEF InitialInv, StateTypes, MemoryTypes, WorkerTypes, Control, InsertBatch, Reading
<1> QED
  BY <1>1, Basics DEF InsertBatch

LEMMA WorkerInsertAccepted ==
    ASSUME InitialInv, NEW w \in workers, WorkerInserts(w)
    PROVE  /\ w.table \in tables /\ IsBatch(w.batch) /\ DOMAIN w.batch # {} /\ w.ver \in Nat
           /\ InsertAccepted(w.table, w.batch, w.ver)
BY DEF InitialInv, StateTypes, MemoryTypes, WorkerTypes, WorkerType, WorkersWith, WorkerInserts

LEMMA DbTypesStep ==
    ASSUME InitialInv, [Next]_vars
    PROVE  DbTypes'
<1>1. DbTypes /\ tables' = tables
  BY SetupStep DEF InitialInv
<1>11. CASE MySQLWrites
  BY <1>11, <1>1 DEF MySQLWrites, DbTypes, IsDb
<1>12. CASE MySQLAlters
  BY <1>12, <1>1 DEF MySQLAlters, DbTypes, IsDb
<1>13. CASE Start
  BY <1>13, <1>1 DEF Start, DbTypes, IsDb
<1>14. CASE DropTmp
  BY <1>14, DbsChange
<1>15. CASE CreateTmp
  BY <1>15, DbsChange
<1>16a. CASE ListTables
  BY <1>16a, <1>1 DEF ListTables, DbTypes, IsDb
<1>16. CASE NotePosition
  BY <1>16, <1>1 DEF NotePosition, DbTypes, IsDb
<1>17. CASE CreateTable
  BY <1>17, CreateTableDb
<1>18. CASE StructureCreated
  BY <1>18, <1>1 DEF StructureCreated, DbTypes, IsDb
<1>19. CASE Perform
  BY <1>19, <1>1 DEF Perform, DbTypes, IsDb
<1>20. CASE BeginTable
  BY <1>20, <1>1 DEF BeginTable, DbTypes, IsDb
<1>21. CASE ReadBatch
  BY <1>21, <1>1 DEF ReadBatch, DbTypes, IsDb
<1>22. CASE InsertBatch
  BY <1>22, <1>1, InsertBatchAccepted, InsertDb
<1>23. CASE SaveAfterBatch
  BY <1>23, <1>1 DEF SaveAfterBatch, DbTypes, IsDb
<1>24. CASE FinishTable
  BY <1>24, <1>1 DEF FinishTable, DbTypes, IsDb
<1>25. CASE LaunchWorkers
  BY <1>25, <1>1 DEF LaunchWorkers, DbTypes, IsDb
<1>26. CASE WorkersDone
  BY <1>26, <1>1 DEF WorkersDone, DbTypes, IsDb
<1>27. CASE Verify
  BY <1>27, <1>1 DEF Verify, DbTypes, IsDb
<1>28. CASE RenameTarget
  BY <1>28, DbsChange
<1>29. CASE RenameTmp
  BY <1>29, DbsChange
<1>30. CASE DropOld
  BY <1>30, DbsChange
<1>31. CASE RunRealtime
  BY <1>31, <1>1 DEF RunRealtime, DbTypes, IsDb
<1>32. CASE Ended
  BY <1>32, <1>1 DEF Ended, DbTypes, IsDb
<1>33. CASE WorkerMoves
  <2>1. PICK w \in workers : WorkerStep(w) \/ WorkerCrash(w)
    BY <1>33 DEF WorkerMoves
  <2>2. CASE WorkerInserts(w)
    BY <1>1, <2>2, WorkerInsertAccepted, InsertDb
  <2>3. CASE ~WorkerInserts(w)
    <3>1. dbs' = dbs
      BY <2>1, <2>3 DEF WorkerStep, WorkerCrash, WorkerStarts, WorkerReads, WorkerReadRefused, WorkerRefused,
                        WorkerSaves, WorkerFinishes
    <3> QED
      BY <1>1, <3>1 DEF DbTypes, IsDb
  <2> QED
    BY <2>2, <2>3
<1>34. CASE RestartReplication
  BY <1>34, <1>1 DEF RestartReplication, DbTypes, IsDb
<1>35. CASE UNCHANGED vars
  BY <1>35, <1>1 DEF vars, DbTypes, IsDb
<1> QED
  BY <1>11, <1>12, <1>13, <1>14, <1>15, <1>16a, <1>16, <1>17, <1>18, <1>19, <1>20, <1>21, <1>22, <1>23, <1>24, <1>25, <1>26, <1>27, <1>28, <1>29, <1>30, <1>31, <1>32, <1>33, <1>34, <1>35, Steps

(* A worker goes on as v; the state file it leaves is its own. *)
LEMMA WorkerMove ==
    ASSUME InitialInv, [Next]_vars, NEW w \in workers, WorkerStep(w) \/ WorkerCrash(w)
    PROVE  /\ \E v : /\ WorkerType(v) /\ Becomes(w, v)
                     /\ v.table = w.table /\ v.id = w.id /\ v.own = w.own
           /\ DOMAIN worker_files' \subseteq DOMAIN worker_files \cup {File(w)}
           /\ worker_files' \in [DOMAIN worker_files' -> [pk : Keys \cup {NoKey}, ver : Nat]]
           /\ marks' \subseteq marks \cup {<<w.table, "late">>} /\ crashes' \in Nat
<1>1. /\ WorkerType(w) /\ w.table \in Tables /\ crashes \in Nat
      /\ worker_files \in [DOMAIN worker_files -> [pk : Keys \cup {NoKey}, ver : Nat]]
  BY Basics DEF InitialInv, StateTypes, MemoryTypes, WorkerTypes, WorkerType, WorkersWith
<1> DEFINE F == [pk : Keys \cup {NoKey}, ver : Nat]
<1>2. ASSUME NEW v, WorkerType(v), worker_files' = With(worker_files, File(w), Progress(v))
      PROVE  /\ DOMAIN worker_files' \subseteq DOMAIN worker_files \cup {File(w)}
             /\ worker_files' \in [DOMAIN worker_files' -> F]
  <2>1. Progress(v) \in F
    BY <1>2 DEF Progress, WorkerType, WorkersWith
  <2> HIDE DEF F
  <2> QED
    BY <1>1, <1>2, <2>1 DEF With, F
<1>3. NoBatch = NoBatch /\ IsBatch(NoBatch) /\ NoKey \in Keys \cup {NoKey}
  BY NoBatchIsBatch
<1>4. CASE WorkerStarts(w)
  <2> DEFINE found == File(w) \in DOMAIN worker_files
             file == worker_files[File(w)]
             resumes == found /\ "tmp" \in DOMAIN dbs
             v == [w EXCEPT !.pc = "read", !.view = {Snapshot},
                            !.pk = IF resumes THEN file.pk ELSE NoKey,
                            !.ver = IF found THEN file.ver ELSE 0]
  <2>1. found => file.pk \in Keys \cup {NoKey} /\ file.ver \in Nat
    BY <1>1
  <2>2. /\ Becomes(w, v) /\ worker_files' = With(worker_files, File(w), Progress(v))
        /\ marks' = marks /\ crashes' = crashes
    BY <1>4 DEF WorkerStarts, bounds
  <2>3. WorkerType(v) /\ v.table = w.table /\ v.id = w.id /\ v.own = w.own
    <3>2. /\ w.pk \in Keys \cup {NoKey} /\ w.ver \in Nat /\ IsBatch(w.batch)
          /\ w.fresh \in BOOLEAN
      BY <1>1 DEF WorkerType, WorkersWith
    <3>3. /\ (IF resumes THEN file.pk ELSE NoKey) \in Keys \cup {NoKey}
          /\ (IF found THEN file.ver ELSE 0) \in Nat /\ "read" \in WorkerPoints
      BY <2>1 DEF WorkerPoints
    <3>4. /\ v \in WorkersWith(w.batch, {Snapshot}) /\ v.batch = w.batch /\ v.pc = "read"
          /\ v.view = {Snapshot}
          /\ v.table = w.table /\ v.id = w.id /\ v.own = w.own
      BY <1>1, <3>2, <3>3 DEF WorkerType, WorkersWith
    <3>5. Snapshot \in Readable({}) /\ AreViews({})
      BY DEF Readable, AreViews
    <3>6. AreViews({Snapshot})
      BY <3>5, ReadableViews DEF InitialInv
    <3> QED
      BY <1>1, <3>2, <3>3, <3>4, <3>6 DEF WorkerType
  <2> HIDE DEF v
  <2> QED
    BY <1>1, <1>2, <2>2, <2>3
<1>5. CASE WorkerReads(w)
  <2>0. PICK u \in Readable(w.view) :
          /\ DOMAIN WorkerRecords(w, u) # {}
          /\ Becomes(w, [w EXCEPT !.pc = "insert", !.batch = WorkerRecords(w, u),
                                  !.view = {u}])
          /\ UNCHANGED <<worker_files, marks, crashes>>
    BY <1>5 DEF WorkerReads, bounds
  <2> DEFINE b == WorkerRecords(w, u)
             v == [w EXCEPT !.pc = "insert", !.batch = b, !.view = {u}]
  <2>1. IsBatch(b) /\ DOMAIN b # {} /\ AreViews({u})
    <3>1. SourceTypes /\ w.pk \in Keys \cup {NoKey} /\ AreViews(w.view)
      BY <1>1 DEF InitialInv, WorkerType, WorkersWith
    <3>2. IsView(u) /\ AreViews({u})
      BY <3>1, ReadableViews
    <3> QED
      BY <1>1, <2>0, <3>1, <3>2, RecordsRead DEF WorkerRecords
  <2> HIDE DEF b
  <2>3. WorkerType(v) /\ v.table = w.table /\ v.id = w.id /\ v.own = w.own
    <3>2. /\ w.pk \in Keys \cup {NoKey} /\ w.ver \in Nat /\ IsBatch(w.batch)
          /\ w.fresh \in BOOLEAN
      BY <1>1 DEF WorkerType, WorkersWith
    <3>3. "insert" \in WorkerPoints
      BY DEF WorkerPoints
    <3>4. /\ v \in WorkersWith(b, {u}) /\ v.batch = b /\ v.pc = "insert" /\ v.view = {u}
          /\ v.table = w.table /\ v.id = w.id /\ v.own = w.own
      BY <1>1, <2>1, <3>2, <3>3 DEF WorkerType, WorkersWith
    <3> QED
      BY <1>1, <2>1, <3>2, <3>3, <3>4 DEF WorkerType
  <2>4. Becomes(w, v)
    BY <2>0 DEF b
  <2> HIDE DEF v
  <2> QED
    BY <1>1, <2>0, <2>3, <2>4
<1>6. CASE WorkerInserts(w)
  <2> DEFINE v == [w EXCEPT !.pc = "save", !.batch = NoBatch, !.pk = LastKey(w.batch),
                            !.ver = LastVersion(w.batch, @)]
  <2>1. IsBatch(w.batch) /\ DOMAIN w.batch # {} /\ w.ver \in Nat
    BY <1>6, WorkerInsertAccepted
  <2>2. LastKey(w.batch) \in Keys /\ LastVersion(w.batch, w.ver) \in Nat
    <3>1. LastKey(w.batch) \in Keys /\ Cardinality(DOMAIN w.batch) \in Nat
      BY <2>1, BatchKeys
    <3> QED
      BY <2>1, <3>1 DEF LastVersion
  <2>3. Becomes(w, v) /\ worker_files' = worker_files /\ crashes' = crashes
    BY <1>6 DEF WorkerInserts, bounds
  <2>4. marks' \subseteq marks \cup {<<w.table, "late">>}
    BY <1>6 DEF WorkerInserts
  <2>5. WorkerType(v) /\ v.table = w.table /\ v.id = w.id /\ v.own = w.own
    <3>2. /\ w.pk \in Keys \cup {NoKey} /\ w.ver \in Nat /\ IsBatch(w.batch)
          /\ w.fresh \in BOOLEAN
      BY <1>1 DEF WorkerType, WorkersWith
    <3>3. "save" \in WorkerPoints
      BY DEF WorkerPoints
    <3>4. /\ v \in WorkersWith(NoBatch, w.view) /\ v.batch = NoBatch /\ v.pc = "save"
          /\ v.table = w.table /\ v.id = w.id /\ v.own = w.own
      BY <1>1, <1>3, <2>2, <3>2, <3>3 DEF WorkerType, WorkersWith
    <3> QED
      BY <1>1, <1>3, <2>2, <3>2, <3>3, <3>4 DEF WorkerType
  <2> HIDE DEF v
  <2> QED
    BY <1>1, <2>3, <2>4, <2>5
<1>7. CASE WorkerSaves(w)
  <2> DEFINE v == [w EXCEPT !.pc = "read", !.fresh = FALSE]
  <2>1. WorkerType(v) /\ v.table = w.table /\ v.id = w.id /\ v.own = w.own
    <3>2. /\ w.pk \in Keys \cup {NoKey} /\ w.ver \in Nat /\ IsBatch(w.batch)
          /\ w.fresh \in BOOLEAN
      BY <1>1 DEF WorkerType, WorkersWith
    <3>3. "read" \in WorkerPoints
      BY DEF WorkerPoints
    <3>4. /\ v \in WorkersWith(w.batch, w.view) /\ v.batch = w.batch /\ v.pc = "read"
          /\ v.table = w.table /\ v.id = w.id /\ v.own = w.own
      BY <1>1, <3>2, <3>3 DEF WorkerType, WorkersWith
    <3> QED
      BY <1>1, <3>2, <3>3, <3>4 DEF WorkerType
  <2>2. Becomes(w, v) /\ marks' = marks /\ crashes' = crashes
    BY <1>7 DEF WorkerSaves, bounds
  <2>3. Progress(w) = Progress(v)
    BY <1>1 DEF Progress, WorkerType, WorkersWith
  <2>4. worker_files' = With(worker_files, File(w), Progress(v)) \/ worker_files' = worker_files
    BY <1>7, <2>3 DEF WorkerSaves
  <2> HIDE DEF v
  <2> QED
    BY <1>1, <1>2, <2>1, <2>2, <2>4
<1>7a. AreViews({}) /\ {"done", "failed"} \subseteq WorkerPoints
  BY DEF AreViews, WorkerPoints
<1>7b. ASSUME NEW q \in {"done", "failed"}
       PROVE  LET v == [w EXCEPT !.pc = q, !.view = {}]
              IN  WorkerType(v) /\ v.table = w.table /\ v.id = w.id /\ v.own = w.own
  <2> DEFINE v == [w EXCEPT !.pc = q, !.view = {}]
  <2>1. v \in WorkersWith(w.batch, {}) /\ v.batch = w.batch /\ v.view = {} /\ v.pc = q
        /\ v.table = w.table /\ v.id = w.id /\ v.own = w.own
    BY <1>1, <1>7a DEF WorkerType, WorkersWith
  <2>2. WorkerType(v)
    BY <1>1, <1>7a, <2>1 DEF WorkerType
  <2> QED
    BY <2>1, <2>2
<1>8. CASE WorkerFinishes(w)
  <2> DEFINE v == [w EXCEPT !.pc = "done", !.view = {}]
  <2>1. WorkerType(v) /\ v.table = w.table /\ v.id = w.id /\ v.own = w.own
    BY <1>7b
  <2>2. /\ Becomes(w, v) /\ marks' = marks /\ crashes' = crashes
        /\ worker_files' = Without(worker_files, File(w))
    BY <1>8 DEF WorkerFinishes, bounds
  <2> HIDE DEF v
  <2> QED
    BY <1>1, <2>1, <2>2 DEF Without
<1>9. CASE WorkerReadRefused(w) \/ WorkerRefused(w) \/ WorkerCrash(w)
  <2> DEFINE v == [w EXCEPT !.pc = "failed", !.view = {}]
  <2>1. WorkerType(v) /\ v.table = w.table /\ v.id = w.id /\ v.own = w.own
    BY <1>7b
  <2>2. /\ Becomes(w, v) /\ marks' = marks /\ crashes' \in Nat /\ worker_files' = worker_files
    BY <1>1, <1>9 DEF WorkerReadRefused, WorkerRefused, WorkerCrash, bounds
  <2> HIDE DEF v
  <2> QED
    BY <1>1, <2>1, <2>2
<1> QED
  BY <1>4, <1>5, <1>6, <1>7, <1>8, <1>9 DEF WorkerStep

(* Rows have a highest version. *)
LEMMA HighestOf ==
    ASSUME NEW f \in [Keys -> Nat]
    PROVE  \E g \in Keys : \A k \in Keys : f[k] <= f[g]
<1> DEFINE P(n) == \E g \in 1..n : \A k \in 1..n : f[k] <= f[g]
           S == {n \in Keys : ~P(n)}
<1>1. KeyCount \in Nat \ {0} /\ Keys = 1..KeyCount
  BY DEF Keys
<1>2. \A k \in Keys : f[k] \in Nat
  OBVIOUS
<1>3. S = {}
  <2> SUFFICES ASSUME S # {} PROVE FALSE
    OBVIOUS
  <2>1. PICK n \in S : \A m \in S : n <= m
    BY LeastKey
  <2>2. n \in Keys /\ ~P(n)
    OBVIOUS
  <2>3. CASE n = 1
    BY <1>1, <1>2, <2>2, <2>3
  <2>4. CASE n # 1
    <3>1. n - 1 \in Keys /\ n \in Nat /\ n - 1 \in Nat /\ n - 1 < n
      BY <1>1, <2>2, <2>4
    <3>2. P(n - 1)
      BY <2>1, <3>1
    <3>3. PICK g \in 1..(n - 1) : \A k \in 1..(n - 1) : f[k] <= f[g]
      BY <3>2
    <3>4. \A k \in 1..n : k \in 1..(n - 1) \/ k = n
      BY <3>1
    <3>5. g \in Keys /\ g \in 1..n /\ n \in 1..n
      BY <1>1, <2>2, <3>1, <3>3
    <3>6. \A k \in 1..n : f[k] \in Nat
      BY <1>1, <1>2, <2>2
    <3>7. CASE f[n] <= f[g]
      BY <2>2, <3>3, <3>4, <3>5, <3>7
    <3>8. CASE f[g] <= f[n]
      BY <2>2, <3>3, <3>4, <3>5, <3>6, <3>8
    <3> QED
      BY <3>5, <3>6, <3>7, <3>8
  <2> QED
    BY <2>3, <2>4
<1>4. P(KeyCount)
  <2>1. KeyCount \in Keys
    BY <1>1
  <2> HIDE DEF P
  <2> QED
    BY <1>3, <2>1
<1> QED
  BY <1>1, <1>4

LEMMA HighestVersion ==
    ASSUME InitialInv, NEW t \in tables, "tmp" \in DOMAIN dbs, t \in DOMAIN dbs["tmp"],
           NEW vers, vers = {dbs["tmp"][t].rows[k].ver : k \in Keys}
    PROVE  /\ Max(vers) \in Nat
           /\ \A k \in Keys : dbs["tmp"][t].rows[k].ver <= Max(vers)
<1> DEFINE f == [k \in Keys |-> dbs["tmp"][t].rows[k].ver]
<1>1. f \in [Keys -> Nat]
  <2>1. dbs["tmp"][t] \in TableType
    BY DEF InitialInv, DbTypes, IsDb
  <2> QED
    BY <2>1 DEF TableType, RowType
<1>2. PICK g \in Keys : \A k \in Keys : f[k] <= f[g]
  BY <1>1, HighestOf
<1>3. \A v \in vers : v \in Nat /\ f[g] >= v
  BY <1>1, <1>2
<1>4. f[g] \in vers
  OBVIOUS
<1>5. Max(vers) \in vers /\ \A v \in vers : Max(vers) >= v
  BY <1>3, <1>4 DEF Max
<1>6. \A k \in Keys : dbs["tmp"][t].rows[k].ver \in vers
  OBVIOUS
<1> QED
  BY <1>3, <1>5, <1>6

LEMMA ConsolidatedTypes ==
    ASSUME InitialInv, pc = "wait"
    PROVE  ConsolidatedVersions(at) \in [Tables -> Nat]
<1>1. state.versions \in [Tables -> Nat] /\ at \in tables
  BY Basics DEF InitialInv, Control, StateType
<1>2. "tmp" \in DOMAIN dbs /\ at \in DOMAIN dbs["tmp"] =>
        Max({dbs["tmp"][at].rows[k].ver : k \in Keys}) \in Nat
  BY <1>1, HighestVersion
<1> QED
  BY <1>1, <1>2, Basics DEF ConsolidatedVersions

LEMMA StateChanged ==
    ASSUME InitialInv, NEW s \in StateType, s.table \in tables \cup {NoTable}
    PROVE  /\ \A x \in Statuses : LET z == [s EXCEPT !.status = x]
                                 IN  /\ z \in StateType /\ z.table = s.table
                                     /\ z.versions = s.versions
           /\ \A x \in Nat : LET z == [s EXCEPT !.last = x]
                             IN  /\ z \in StateType /\ z.table = s.table
                                 /\ z.versions = s.versions
           /\ \A x \in tables \cup {NoTable} :
                LET z == [s EXCEPT !.table = x]
                IN  z \in StateType /\ z.table = x /\ z.versions = s.versions
           /\ \A x \in Keys \cup {NoKey} : LET z == [s EXCEPT !.pk = x]
                                 IN  /\ z \in StateType /\ z.table = s.table
                                     /\ z.versions = s.versions
           /\ \A x \in [Tables -> Nat] :
                LET z == [s EXCEPT !.versions = x]
                IN  z \in StateType /\ z.table = s.table /\ z.versions = x
           /\ \A t \in Tables, x \in Nat :
                LET z == [s EXCEPT !.structure[t] = x]
                IN  z \in StateType /\ z.table = s.table /\ z.versions = s.versions
<1>1. tables \subseteq Tables
  BY Basics
<1> QED
  BY <1>1 DEF StateType

LEMMA StateTypesStep ==
    ASSUME InitialInv, [Next]_vars
    PROVE  StateTypes'
<1>1. StateTypes /\ Control
  BY DEF InitialInv
<1>2. tables' = tables
  BY SetupStep
<1>3. NoState \in StateType /\ NoState.table = NoTable
  BY DEF NoState, StateType, Statuses, NoTable, NoKey
<1>5. /\ saved \in StateType /\ state \in StateType
      /\ saved.table \in tables \cup {NoTable} /\ state.table \in tables \cup {NoTable}
      /\ versions \in [Tables -> Nat] /\ linked \in BOOLEAN
      /\ linked => state.versions = versions
  BY <1>1 DEF StateTypes
<1>6. saved.versions \in [Tables -> Nat] /\ NoState.versions \in [Tables -> Nat]
  BY <1>3, <1>5 DEF StateType
<1>7. structure \in [Tables -> Nat] /\ Len(log) \in Nat
  BY DEF InitialInv, SourceTypes
<1>8. {"creating", "performing", "realtime"} \subseteq Statuses
  BY DEF Statuses
<1>9. ASSUME state' \in StateType, saved' \in StateType, state'.table \in tables \cup {NoTable},
             saved'.table \in tables \cup {NoTable}, versions' \in [Tables -> Nat],
             linked' \in BOOLEAN, linked' => state'.versions = versions'
      PROVE  StateTypes'
  BY <1>2, <1>9 DEF StateTypes
<1>11. CASE MySQLWrites
  BY <1>11, <1>5, <1>9 DEF MySQLWrites, Save, memory
<1>12. CASE MySQLAlters
  BY <1>12, <1>5, <1>9 DEF MySQLAlters, Save, memory
<1>13. CASE Start
  BY <1>13, <1>5, <1>9, <1>3, <1>6 DEF Start, Save, memory
<1>14. CASE DropTmp
  BY <1>14, <1>5, <1>9 DEF DropTmp, Save, memory
<1>15. CASE CreateTmp
  BY <1>15, <1>5, <1>9 DEF CreateTmp, Save, memory
<1>16a. CASE ListTables
  BY <1>16a, <1>5, <1>9 DEF ListTables, Save, memory
<1>16. CASE NotePosition
  <2>1. PICK id \in 0..Len(log) : state' = [state EXCEPT !.last = id] /\ saved' = state'
                              /\ UNCHANGED <<versions, linked>>
    BY <1>16 DEF NotePosition, Save
  <2>2. id \in Nat
    BY <1>7
  <2>3. state' \in StateType /\ state'.table = state.table /\ state'.versions = state.versions
    BY <1>5, <2>1, <2>2, StateChanged
  <2> QED
    BY <1>5, <1>9, <2>1, <2>3
<1>17. CASE CreateTable
  <2> DEFINE s == [state EXCEPT !.status = "creating"]
  <2>1. s \in StateType /\ s.table = state.table /\ s.versions = state.versions /\ s.structure = state.structure
    BY <1>5, <1>8, StateChanged DEF StateType
  <2>2. state' = [s EXCEPT !.structure[at] = structure[at]] /\ UNCHANGED <<saved, versions, linked>>
    BY <1>17, <2>1 DEF CreateTable
  <2>3. at \in Tables /\ structure[at] \in Nat
    BY <1>17, <1>7, Basics DEF CreateTable
  <2> HIDE DEF s
  <2>4. state' \in StateType /\ state'.table = state.table /\ state'.versions = state.versions
    BY <1>5, <2>1, <2>2, <2>3, StateChanged
  <2> QED
    BY <1>5, <1>9, <2>2, <2>4
<1>18. CASE StructureCreated
  BY <1>18, <1>5, <1>9 DEF StructureCreated, Save, memory
<1>19. CASE Perform
  BY <1>19, <1>5, <1>9, <1>8, StateChanged DEF Perform, Save, memory
<1>20. CASE BeginTable
  <2> DEFINE s == [state EXCEPT !.table = at]
  <2>1. s \in StateType /\ s.table = at /\ s.versions = state.versions /\ at \in tables
    BY <1>20, <1>5, StateChanged DEF BeginTable
  <2>2. NoKey \in Keys \cup {NoKey}
    OBVIOUS
  <2> HIDE DEF s
  <2>3. /\ [s EXCEPT !.pk = NoKey] \in StateType /\ [s EXCEPT !.pk = NoKey].table = at
        /\ [s EXCEPT !.pk = NoKey].versions = state.versions
    BY <2>1, <2>2, StateChanged
  <2>4. /\ \/ state' = [s EXCEPT !.pk = NoKey] /\ saved' = state'
           \/ UNCHANGED <<state, saved>>
        /\ UNCHANGED <<versions, linked>>
    BY <1>20 DEF BeginTable, Save, s
  <2> QED
    BY <1>5, <1>9, <2>1, <2>3, <2>4
<1>21. CASE ReadBatch
  BY <1>21, <1>5, <1>9 DEF ReadBatch, Save, memory
<1>22. CASE InsertBatch
  <2>1. LastKey(batch) \in Keys /\ LastVersion(batch, versions[at]) \in Nat /\ at \in Tables
    <3>1. LastKey(batch) \in Keys /\ Cardinality(DOMAIN batch) \in Nat
      BY <1>22, InsertBatchAccepted, BatchKeys
    <3> QED
      BY <1>22, <3>1, InsertBatchAccepted, Basics DEF LastVersion
  <2> DEFINE s == [state EXCEPT !.pk = LastKey(batch)]
  <2>2. s \in StateType /\ s.table = state.table /\ s.versions = state.versions
    BY <1>5, <2>1, StateChanged
  <2>3. /\ versions' = [versions EXCEPT ![at] = LastVersion(batch, versions[at])]
        /\ state' = [s EXCEPT !.versions = IF linked THEN versions' ELSE s.versions]
        /\ UNCHANGED <<saved, linked>>
    BY <1>22, <2>2 DEF InsertBatch
  <2> HIDE DEF s
  <2>4. versions' \in [Tables -> Nat] /\ (IF linked THEN versions' ELSE s.versions) \in [Tables -> Nat]
    BY <1>5, <2>1, <2>2, <2>3 DEF StateType
  <2>5. /\ state' \in StateType /\ state'.table = state.table
        /\ state'.versions = IF linked THEN versions' ELSE s.versions
    BY <1>5, <2>2, <2>3, <2>4, StateChanged
  <2> QED
    BY <1>5, <1>9, <2>3, <2>4, <2>5
<1>23. CASE SaveAfterBatch
  <2>1. CASE SaveDue
    BY <1>23, <1>5, <1>9, <2>1, StateChanged DEF SaveAfterBatch, SaveDue, Save, memory
  <2>2. CASE UNCHANGED <<state, saved, linked>>
    BY <1>23, <1>5, <1>9, <2>2 DEF SaveAfterBatch
  <2> QED
    BY <1>23, <2>1, <2>2 DEF SaveAfterBatch
<1>24. CASE FinishTable
  BY <1>24, <1>5, <1>9, StateChanged DEF FinishTable, Save, memory, SaveDue
<1>25. CASE LaunchWorkers
  <2> DEFINE s == [state EXCEPT !.table = at]
  <2>1. s \in StateType /\ s.table = at /\ s.versions = state.versions /\ at \in tables
    BY <1>25, <1>5, StateChanged DEF LaunchWorkers
  <2>2. NoKey \in Keys \cup {NoKey}
    OBVIOUS
  <2> HIDE DEF s
  <2>3. /\ [s EXCEPT !.pk = NoKey] \in StateType /\ [s EXCEPT !.pk = NoKey].table = at
        /\ [s EXCEPT !.pk = NoKey].versions = state.versions
    BY <2>1, <2>2, StateChanged
  <2>4. /\ \/ state' = [s EXCEPT !.pk = NoKey] /\ saved' = state'
           \/ UNCHANGED <<state, saved>>
        /\ UNCHANGED <<versions, linked>>
    BY <1>25 DEF LaunchWorkers, Save, s
  <2> QED
    BY <1>5, <1>9, <2>1, <2>3, <2>4
<1>26. CASE WorkersDone
  <2>1. ConsolidatedVersions(at) \in [Tables -> Nat]
    BY <1>26, ConsolidatedTypes DEF WorkersDone
  <2>2. /\ state' = [state EXCEPT !.versions = ConsolidatedVersions(at)] /\ saved' = state'
        /\ versions' = (IF linked THEN ConsolidatedVersions(at) ELSE versions) /\ linked' = linked
    BY <1>26 DEF WorkersDone, Save
  <2>3. /\ state' \in StateType /\ state'.table = state.table
        /\ state'.versions = ConsolidatedVersions(at)
    BY <1>5, <2>1, <2>2, StateChanged
  <2> QED
    BY <1>5, <1>9, <2>1, <2>2, <2>3
<1>27. CASE Verify
  BY <1>27, <1>5, <1>9 DEF Verify, Save, memory
<1>28. CASE RenameTarget
  BY <1>28, <1>5, <1>9 DEF RenameTarget, Save, memory
<1>29. CASE RenameTmp
  BY <1>29, <1>5, <1>9 DEF RenameTmp, Save, memory
<1>30. CASE DropOld
  BY <1>30, <1>5, <1>9 DEF DropOld, Save, memory
<1>31. CASE RunRealtime
  BY <1>31, <1>5, <1>9, <1>8, StateChanged DEF RunRealtime, Save, memory
<1>32. CASE Ended
  BY <1>32, <1>5, <1>9, <1>3, <1>6 DEF Ended, Save, memory, ProcessEnds, MemoryGone
<1>33. CASE WorkerMoves
  BY <1>33, <1>5, <1>9, WorkerMoveFrame DEF WorkerMoves, Save, memory
<1>34. CASE RestartReplication
  BY <1>34, <1>5, <1>9, <1>3, <1>6 DEF RestartReplication, Save, memory, MemoryGone
<1>35. CASE UNCHANGED vars
  BY <1>35, <1>5, <1>9 DEF vars, Save, memory
<1> QED
  BY <1>11, <1>12, <1>13, <1>14, <1>15, <1>16a, <1>16, <1>17, <1>18, <1>19, <1>20, <1>21, <1>22, <1>23, <1>24, <1>25, <1>26, <1>27, <1>28, <1>29, <1>30, <1>31, <1>32, <1>33, <1>34, <1>35, Steps

LEMMA MemoryTypesStep ==
    ASSUME InitialInv, [Next]_vars
    PROVE  MemoryTypes'
<1>1. MemoryTypes /\ Control
  BY DEF InitialInv
<1>2. tables' = tables /\ setup' = setup
  BY SetupStep
<1>3. IsBatch(NoBatch) /\ DOMAIN NoBatch = {}
  BY NoBatchIsBatch
<1>4. IsBatch(batch') <=> IsBatch(batch)'
  BY DEF IsBatch
<1>5. versions \in [Tables -> Nat] /\ Tables \subseteq Nat
  BY Basics DEF InitialInv, StateTypes
<1>6. saved.table \in 0..setup.tables /\ state.table \in 0..setup.tables
      /\ state.pk \in Keys \cup {NoKey} /\ setup.tables \in Nat \ {0}
  BY Basics DEF StateType
<1>7. (AreViews(view') <=> AreViews(view)') /\ AreViews({})
  BY DEF AreViews, IsView
<1>8. /\ tables \subseteq Tables /\ Len(log) \in Nat /\ Len(log) <= MaxLog /\ SourceTypes
      /\ Marks' = Marks
  <2>1. Marks' = Marks
    BY DEF Marks
  <2>2. SourceTypes
    BY DEF InitialInv
  <2>3. Len(log) \in Nat /\ Len(log) <= MaxLog
    BY <2>2 DEF SourceTypes
  <2> QED
    BY <2>1, <2>2, <2>3, Basics
<1>9. ASSUME NEW v \in Readable(view) PROVE AreViews({v})
  BY <1>1, <1>8, ReadableViews DEF MemoryTypes
<1>11. CASE MySQLWrites
  BY <1>11, <1>1, <1>2, <1>3, <1>4, <1>6, <1>7, <1>8 DEF MySQLWrites, MemoryTypes, memory, bounds, Points, NoTable, NoKey, tables
<1>12. CASE MySQLAlters
  BY <1>12, <1>1, <1>2, <1>3, <1>4, <1>6, <1>7, <1>8 DEF MySQLAlters, MemoryTypes, Marks, memory, bounds, Points, NoTable, NoKey, tables
<1>13. CASE Start
  BY <1>13, <1>1, <1>2, <1>3, <1>4, <1>6, <1>7, <1>8 DEF Start, MemoryTypes, memory, bounds, Points, NoTable, NoKey, tables
<1>14. CASE DropTmp
  BY <1>14, <1>1, <1>2, <1>3, <1>4, <1>6, <1>7, <1>8 DEF DropTmp, MemoryTypes, Marks, memory, bounds, Points, NoTable, NoKey, tables
<1>15. CASE CreateTmp
  BY <1>15, <1>1, <1>2, <1>3, <1>4, <1>6, <1>7, <1>8 DEF CreateTmp, MemoryTypes, memory, bounds, Points, NoTable, NoKey, tables
<1>16a. CASE ListTables
  <2>1. view' = {} \/ view' = {Snapshot}
    BY <1>16a DEF ListTables
  <2>2. AreViews(view')
    BY <1>7, <1>9, <2>1 DEF Readable
  <2>3. /\ UNCHANGED <<at, batch, max_pk, fresh, crashes, resets, marks>>
        /\ pc' = "position"
    BY <1>16a DEF ListTables, bounds
  <2> QED
    BY <1>1, <1>2, <1>4, <1>7, <1>8, <2>2, <2>3 DEF MemoryTypes, Points
<1>16. CASE NotePosition
  <2>1. PICK id \in 0..Len(log) : marks' = marks \cup {<<n, "unseen">> : n \in Unseen(id)}
    BY <1>16 DEF NotePosition
  <2>2. Unseen(id) \subseteq 1..MaxLog
    BY <1>8 DEF Unseen
  <2>3. marks' \subseteq Marks
    BY <1>1, <2>1, <2>2 DEF MemoryTypes, Marks
  <2>4. /\ UNCHANGED <<batch, max_pk, view, fresh, crashes, resets>> /\ at' = 1
        /\ pc' = "structure"
    BY <1>16 DEF NotePosition, bounds
  <2>5. at' \in 0..(setup.tables + 1)
    BY <1>6, <2>4
  <2> QED
    BY <1>1, <1>2, <1>4, <1>7, <1>8, <2>3, <2>4, <2>5 DEF MemoryTypes, Points
<1>17. CASE CreateTable
  BY <1>17, <1>1, <1>2, <1>3, <1>4, <1>6, <1>7, <1>8 DEF CreateTable, MemoryTypes, Marks, memory, bounds, Points, NoTable, NoKey, tables
<1>18. CASE StructureCreated
  BY <1>18, <1>1, <1>2, <1>3, <1>4, <1>6, <1>7, <1>8 DEF StructureCreated, MemoryTypes, memory, bounds, Points, NoTable, NoKey, tables
<1>19. CASE Perform
  BY <1>19, <1>1, <1>2, <1>3, <1>4, <1>6, <1>7, <1>8 DEF Perform, MemoryTypes, memory, bounds, Points, NoTable, NoKey, tables
<1>20. CASE BeginTable
  BY <1>20, <1>1, <1>2, <1>3, <1>4, <1>6, <1>7, <1>8 DEF BeginTable, MemoryTypes, memory, bounds, Points, NoTable, NoKey, tables
<1>21. CASE ReadBatch
  <2>1. IsBatch(batch') /\ DOMAIN batch' # {}
    <3>1. SourceTypes /\ at \in Tables
      BY <1>21, <1>1, Basics DEF InitialInv, Control, Reading, ReadBatch
    <3>2. PICK v \in Readable(view) : batch' = Records(v, at, max_pk, 0, 1) /\ DOMAIN batch' # {}
      BY <1>21 DEF ReadBatch
    <3>3. IsView(v) /\ max_pk \in Keys \cup {NoKey}
      BY <1>1, <3>1, ReadableViews DEF MemoryTypes
    <3> QED
      BY <3>1, <3>2, <3>3, RecordsRead
  <2> QED
    BY <1>21, <1>1, <1>2, <1>4, <1>7, <1>8, <1>9, <2>1 DEF ReadBatch, MemoryTypes, memory, bounds, Points, NoTable, NoKey, tables
<1>22. CASE InsertBatch
  <2>1. LastKey(batch) \in Keys
    BY <1>22, InsertBatchAccepted, BatchKeys
  <2> QED
    BY <1>22, <1>1, <1>2, <1>3, <1>4, <1>7, <1>8, <2>1 DEF InsertBatch, MemoryTypes, memory, bounds, Points, NoTable, NoKey, tables
<1>23. CASE SaveAfterBatch
  BY <1>23, <1>1, <1>2, <1>3, <1>4, <1>6, <1>7, <1>8 DEF SaveAfterBatch, MemoryTypes, memory, bounds, Points, NoTable, NoKey, tables, SaveDue
<1>24. CASE FinishTable
  <2>1. at \in tables
    BY <1>24, <1>1 DEF FinishTable, Control, Reading
  <2>2. at + 1 \in 0..(setup.tables + 1)
    BY <1>6, <2>1 DEF tables
  <2> QED
    BY <1>24, <1>1, <1>2, <1>4, <1>7, <1>8, <1>9, <2>2 DEF FinishTable, SaveDue, MemoryTypes, memory, bounds, Points
<1>25. CASE LaunchWorkers
  BY <1>25, <1>1, <1>2, <1>3, <1>4, <1>6, <1>7, <1>8 DEF LaunchWorkers, MemoryTypes, memory, bounds, Points, NoTable, NoKey, tables
<1>26. CASE WorkersDone
  BY <1>26, <1>1, <1>2, <1>3, <1>4, <1>6, <1>7, <1>8 DEF WorkersDone, MemoryTypes, memory, bounds, Points, NoTable, NoKey, tables, Control, Reading
<1>27. CASE Verify
  BY <1>27, <1>1, <1>2, <1>3, <1>4, <1>6, <1>7, <1>8 DEF Verify, MemoryTypes, memory, bounds, Points, NoTable, NoKey, tables
<1>28. CASE RenameTarget
  BY <1>28, <1>1, <1>2, <1>3, <1>4, <1>6, <1>7, <1>8 DEF RenameTarget, MemoryTypes, memory, bounds, Points, NoTable, NoKey, tables
<1>29. CASE RenameTmp
  BY <1>29, <1>1, <1>2, <1>3, <1>4, <1>6, <1>7, <1>8 DEF RenameTmp, MemoryTypes, memory, bounds, Points, NoTable, NoKey, tables
<1>30. CASE DropOld
  BY <1>30, <1>1, <1>2, <1>3, <1>4, <1>6, <1>7, <1>8 DEF DropOld, MemoryTypes, memory, bounds, Points, NoTable, NoKey, tables
<1>31. CASE RunRealtime
  BY <1>31, <1>1, <1>2, <1>3, <1>4, <1>6, <1>7, <1>8 DEF RunRealtime, MemoryTypes, memory, bounds, Points, NoTable, NoKey, tables
<1>32. CASE Ended
  BY <1>32, <1>1, <1>2, <1>3, <1>4, <1>6, <1>7, <1>8 DEF Ended, MemoryTypes, Marks, memory, bounds, Points, NoTable, NoKey, tables, ProcessEnds, MemoryGone, Interrupted
<1>33. CASE WorkerMoves
  <2>1. PICK w \in workers : WorkerStep(w) \/ WorkerCrash(w)
    BY <1>33 DEF WorkerMoves
  <2>2. /\ marks' \subseteq marks \cup {<<w.table, "late">>} /\ crashes' \in Nat
    BY <2>1, WorkerMove
  <2>3. w.table \in Tables
    BY Basics DEF InitialInv, WorkerTypes, WorkerType, WorkersWith
  <2> QED
    BY <1>33, <1>1, <1>2, <1>4, <1>7, <1>8, <2>2, <2>3, WorkerMoveFrame DEF MemoryTypes, memory, Marks
<1>34. CASE RestartReplication
  BY <1>34, <1>1, <1>2, <1>3, <1>4, <1>6, <1>7, <1>8 DEF RestartReplication, MemoryTypes, Marks, memory, bounds, Points, NoTable, NoKey, tables, MemoryGone, Interrupted
<1>35. CASE UNCHANGED vars
  BY <1>35, <1>1, <1>2, <1>3, <1>4, <1>6, <1>7, <1>8 DEF vars, MemoryTypes, memory, bounds, Points, NoTable, NoKey, tables
<1> QED
  BY <1>11, <1>12, <1>13, <1>14, <1>15, <1>16a, <1>16, <1>17, <1>18, <1>19, <1>20, <1>21, <1>22, <1>23, <1>24, <1>25, <1>26, <1>27, <1>28, <1>29, <1>30, <1>31, <1>32, <1>33, <1>34, <1>35, Steps

LEMMA WorkerTypesStep ==
    ASSUME InitialInv, [Next]_vars
    PROVE  WorkerTypes'
<1>1. WorkerTypes
  BY DEF InitialInv
<1>2. tables' = tables /\ threads' = threads
  BY SetupStep
<1>3. ASSUME worker_files' = worker_files, workers' \subseteq workers
      PROVE  WorkerTypes'
  BY <1>1, <1>2, <1>3 DEF WorkerTypes, WorkerType, WorkersWith, IsBatch, AreViews, IsView
<1>4. ASSUME NEW w, WorkerType(w) PROVE WorkerType(w)'
  BY <1>2, <1>4 DEF WorkerType, WorkersWith, IsBatch, AreViews, IsView
<1>11. CASE MySQLWrites
  BY <1>11, <1>3 DEF MySQLWrites
<1>12. CASE MySQLAlters
  BY <1>12, <1>3 DEF MySQLAlters
<1>13. CASE Start
  BY <1>13, <1>3 DEF Start
<1>14. CASE DropTmp
  BY <1>14, <1>3 DEF DropTmp
<1>15. CASE CreateTmp
  BY <1>15, <1>3 DEF CreateTmp
<1>16a. CASE ListTables
  BY <1>16a, <1>3 DEF ListTables
<1>16. CASE NotePosition
  BY <1>16, <1>3 DEF NotePosition
<1>17. CASE CreateTable
  BY <1>17, <1>3 DEF CreateTable
<1>18. CASE StructureCreated
  BY <1>18, <1>3 DEF StructureCreated
<1>19. CASE Perform
  BY <1>19, <1>3 DEF Perform
<1>20. CASE BeginTable
  BY <1>20, <1>3 DEF BeginTable
<1>21. CASE ReadBatch
  BY <1>21, <1>3 DEF ReadBatch
<1>22. CASE InsertBatch
  BY <1>22, <1>3 DEF InsertBatch
<1>23. CASE SaveAfterBatch
  BY <1>23, <1>3 DEF SaveAfterBatch
<1>24. CASE FinishTable
  BY <1>24, <1>3 DEF FinishTable
<1>25. CASE LaunchWorkers
  <2>1. ASSUME NEW i \in 0..(threads - 1) PROVE WorkerType(NewWorker(at, i))
    <3>1. NewWorker(at, i) \in WorkersWith(NoBatch, {}) /\ NewWorker(at, i).batch = NoBatch
          /\ NewWorker(at, i).pc = "start" /\ NewWorker(at, i).view = {}
      BY <1>25 DEF LaunchWorkers, NewWorker, WorkersWith, WorkerPoints
    <3> QED
      BY <3>1, NoBatchIsBatch DEF WorkerType, AreViews
  <2>2. worker_files' = worker_files /\ workers' = workers \cup {NewWorker(at, i) : i \in 0..(threads - 1)}
    BY <1>25 DEF LaunchWorkers
  <2>3. \A w \in workers' : WorkerType(w)
    BY <1>1, <2>1, <2>2 DEF WorkerTypes
  <2> QED
    BY <1>1, <1>2, <1>4, <2>2, <2>3 DEF WorkerTypes
<1>26. CASE WorkersDone
  BY <1>26, <1>3 DEF WorkersDone, Own
<1>27. CASE Verify
  BY <1>27, <1>3 DEF Verify
<1>28. CASE RenameTarget
  BY <1>28, <1>3 DEF RenameTarget
<1>29. CASE RenameTmp
  BY <1>29, <1>3 DEF RenameTmp
<1>30. CASE DropOld
  BY <1>30, <1>3 DEF DropOld
<1>31. CASE RunRealtime
  BY <1>31, <1>3 DEF RunRealtime
<1>32. CASE Ended
  <2>1. ASSUME NEW w \in workers PROVE WorkerType([w EXCEPT !.own = FALSE])
    <3> DEFINE v == [w EXCEPT !.own = FALSE]
    <3>1. WorkerType(w)
      BY <1>1 DEF WorkerTypes
    <3>2. v \in WorkersWith(w.batch, w.view) /\ v.batch = w.batch /\ v.pc = w.pc
          /\ v.view = w.view
      BY <3>1 DEF WorkerType, WorkersWith
    <3> HIDE DEF v
    <3>3. WorkerType(v)
      BY <3>1, <3>2 DEF WorkerType
    <3> QED
      BY <3>3 DEF v
  <2>2. /\ worker_files' = worker_files
        /\ \A v \in workers' : \E w \in workers : v = [w EXCEPT !.own = FALSE]
    BY <1>32 DEF Ended, ProcessEnds
  <2>3. \A w \in workers' : WorkerType(w)
    BY <2>1, <2>2
  <2> QED
    BY <1>1, <1>2, <1>4, <2>2, <2>3 DEF WorkerTypes
<1>33. CASE WorkerMoves
  <2>1. PICK w \in workers : WorkerStep(w) \/ WorkerCrash(w)
    BY <1>33 DEF WorkerMoves
  <2>2. PICK v : WorkerType(v) /\ Becomes(w, v)
    BY <2>1, WorkerMove
  <2>3. \A x \in workers' : WorkerType(x)
    BY <1>1, <2>2 DEF Becomes, WorkerTypes
  <2>4. File(w) \in tables \X (0..(threads - 1))
    BY <1>1 DEF WorkerTypes, WorkerType, WorkersWith, File
  <2>5. /\ DOMAIN worker_files' \subseteq tables \X (0..(threads - 1))
        /\ worker_files' \in [DOMAIN worker_files' -> [pk : Keys \cup {NoKey}, ver : Nat]]
    <3>1. DOMAIN worker_files' \subseteq DOMAIN worker_files \cup {File(w)}
          /\ worker_files' \in [DOMAIN worker_files' -> [pk : Keys \cup {NoKey}, ver : Nat]]
      BY <2>1, WorkerMove
    <3> QED
      BY <1>1, <2>4, <3>1 DEF WorkerTypes
  <2> QED
    BY <1>2, <1>4, <2>3, <2>5 DEF WorkerTypes
<1>34. CASE RestartReplication
  BY <1>34, <1>3 DEF RestartReplication, Own
<1>35. CASE UNCHANGED vars
  BY <1>35, <1>3 DEF vars
<1> QED
  BY <1>11, <1>12, <1>13, <1>14, <1>15, <1>16a, <1>16, <1>17, <1>18, <1>19, <1>20, <1>21, <1>22, <1>23, <1>24, <1>25, <1>26, <1>27, <1>28, <1>29, <1>30, <1>31, <1>32, <1>33, <1>34, <1>35, Steps

LEMMA OwnWorkersStep ==
    ASSUME InitialInv, [Next]_vars
    PROVE  OwnWorkers'
<1>1. OwnWorkers /\ Control /\ WorkerTypes
  BY DEF InitialInv
<1>2. threads' = threads
  BY SetupStep
<1>11. CASE MySQLWrites
  BY <1>11, <1>1, <1>2 DEF MySQLWrites, OwnWorkers, Own, memory
<1>12. CASE MySQLAlters
  BY <1>12, <1>1, <1>2 DEF MySQLAlters, OwnWorkers, Own, memory
<1>13. CASE Start
  BY <1>13, <1>1, <1>2 DEF Start, OwnWorkers, Own, memory
<1>14. CASE DropTmp
  BY <1>14, <1>1, <1>2 DEF DropTmp, OwnWorkers, Own, memory
<1>15. CASE CreateTmp
  BY <1>15, <1>1, <1>2 DEF CreateTmp, OwnWorkers, Own, memory
<1>16a. CASE ListTables
  BY <1>16a, <1>1, <1>2 DEF ListTables, OwnWorkers, Own, memory
<1>16. CASE NotePosition
  BY <1>16, <1>1, <1>2 DEF NotePosition, OwnWorkers, Own, memory
<1>17. CASE CreateTable
  BY <1>17, <1>1, <1>2 DEF CreateTable, OwnWorkers, Own, memory
<1>18. CASE StructureCreated
  BY <1>18, <1>1, <1>2 DEF StructureCreated, OwnWorkers, Own, memory
<1>19. CASE Perform
  BY <1>19, <1>1, <1>2 DEF Perform, OwnWorkers, Own, memory
<1>20. CASE BeginTable
  BY <1>20, <1>1, <1>2 DEF BeginTable, OwnWorkers, Own, memory
<1>21. CASE ReadBatch
  BY <1>21, <1>1, <1>2 DEF ReadBatch, OwnWorkers, Own, memory
<1>22. CASE InsertBatch
  BY <1>22, <1>1, <1>2 DEF InsertBatch, OwnWorkers, Own, memory
<1>23. CASE SaveAfterBatch
  BY <1>23, <1>1, <1>2 DEF SaveAfterBatch, OwnWorkers, Own, memory
<1>24. CASE FinishTable
  BY <1>24, <1>1, <1>2 DEF FinishTable, OwnWorkers, Own, memory
<1>25. CASE LaunchWorkers
  <2>1. /\ pc = "table" /\ pc' = "wait" /\ at' = at
        /\ workers' = workers \cup {NewWorker(at, i) : i \in 0..(threads - 1)}
    BY <1>25 DEF LaunchWorkers
  <2>2. Own = {}
    BY <1>1, <2>1 DEF OwnWorkers
  <2>3. \A i : NewWorker(at, i).own = TRUE /\ NewWorker(at, i).id = i /\ NewWorker(at, i).table = at
    BY DEF NewWorker
  <2>4. Own' = {NewWorker(at, i) : i \in 0..(threads - 1)}
    BY <2>1, <2>2, <2>3 DEF Own
  <2> HIDE DEF NewWorker
  <2>5. \A i \in 0..(threads - 1) : \E w \in Own' : w.id = i
    BY <2>3, <2>4
  <2>6. \A v, w \in Own' : v.id = w.id => v = w
    BY <2>3, <2>4
  <2>7. \A w \in Own' : w.table = at
    BY <2>3, <2>4
  <2> QED
    BY <1>2, <2>1, <2>5, <2>6, <2>7 DEF OwnWorkers
<1>26. CASE WorkersDone
  BY <1>26, <1>1, <1>2 DEF WorkersDone, OwnWorkers, Own, memory
<1>27. CASE Verify
  BY <1>27, <1>1, <1>2 DEF Verify, OwnWorkers, Own, memory
<1>28. CASE RenameTarget
  BY <1>28, <1>1, <1>2 DEF RenameTarget, OwnWorkers, Own, memory
<1>29. CASE RenameTmp
  BY <1>29, <1>1, <1>2 DEF RenameTmp, OwnWorkers, Own, memory
<1>30. CASE DropOld
  BY <1>30, <1>1, <1>2 DEF DropOld, OwnWorkers, Own, memory
<1>31. CASE RunRealtime
  BY <1>31, <1>1, <1>2 DEF RunRealtime, OwnWorkers, Own, memory
<1>32. CASE Ended
  <2>1. pc' = "down" /\ \A v \in workers' : \E w \in workers : v = [w EXCEPT !.own = FALSE]
    BY <1>32 DEF Ended, ProcessEnds, MemoryGone
  <2>2. \A w \in workers : [w EXCEPT !.own = FALSE].own = FALSE
    BY <1>1 DEF WorkerTypes, WorkerType, WorkersWith
  <2>3. Own' = {}
    BY <2>1, <2>2 DEF Own
  <2> QED
    BY <2>1, <2>3 DEF OwnWorkers
<1>33. CASE WorkerMoves
  <2>1. PICK w \in workers : WorkerStep(w) \/ WorkerCrash(w)
    BY <1>33 DEF WorkerMoves
  <2>2. PICK v : Becomes(w, v) /\ v.table = w.table /\ v.id = w.id /\ v.own = w.own
    BY <2>1, WorkerMove
  <2>3. pc' = pc /\ at' = at
    BY <1>33, WorkerMoveFrame DEF memory
  <2>4. CASE w.own
    <3>1. w \in Own /\ Own' = (Own \ {w}) \cup {v}
      BY <2>2, <2>4 DEF Becomes, Own
    <3> QED
      BY <1>1, <1>2, <2>2, <2>3, <3>1 DEF OwnWorkers
  <2>5. CASE ~w.own
    <3>1. Own' = Own
      BY <2>2, <2>5 DEF Becomes, Own
    <3> QED
      BY <1>1, <1>2, <2>3, <3>1 DEF OwnWorkers
  <2> QED
    BY <2>4, <2>5
<1>34. CASE RestartReplication
  BY <1>34, <1>1, <1>2 DEF RestartReplication, OwnWorkers, Own, memory, MemoryGone
<1>35. CASE UNCHANGED vars
  BY <1>35, <1>1, <1>2 DEF vars, OwnWorkers, Own, memory
<1> QED
  BY <1>11, <1>12, <1>13, <1>14, <1>15, <1>16a, <1>16, <1>17, <1>18, <1>19, <1>20, <1>21, <1>22, <1>23, <1>24, <1>25, <1>26, <1>27, <1>28, <1>29, <1>30, <1>31, <1>32, <1>33, <1>34, <1>35, Steps

LEMMA DatabasesStep ==
    ASSUME InitialInv, [Next]_vars
    PROVE  Databases'
<1>1. Databases /\ Control /\ DOMAIN EmptyDb = {}
  BY EmptyIsDb DEF InitialInv
<1>2. DOMAIN dbs \subseteq {"target", "tmp", "old"}
  BY DEF InitialInv, DbTypes
<1>11. CASE MySQLWrites
  BY <1>11, <1>1, <1>2, Basics DEF MySQLWrites, Databases, Control, Exchanged, InterruptedExchange, Starting, Reading, Ending, Save, memory
<1>12. CASE MySQLAlters
  BY <1>12, <1>1, <1>2, Basics DEF MySQLAlters, Databases, Control, Exchanged, InterruptedExchange, Starting, Reading, Ending, Save, memory
<1>13. CASE Start
  BY <1>13, <1>1, <1>2, Basics DEF Start, Databases, Control, Exchanged, InterruptedExchange, Starting, Reading, Ending, Save, memory, NoState
<1>14. CASE DropTmp
  BY <1>14, <1>1, <1>2, Basics DEF DropTmp, Databases, Control, Exchanged, InterruptedExchange, Starting, Reading, Ending, Save, memory, Without
<1>15. CASE CreateTmp
  BY <1>15, <1>1, <1>2, Basics DEF CreateTmp, Databases, Control, Exchanged, InterruptedExchange, Starting, Reading, Ending, Save, memory, With
<1>16a. CASE ListTables
  BY <1>16a, <1>1, <1>2, Basics DEF ListTables, Databases, Control, Exchanged, InterruptedExchange, Starting, Reading, Ending, Save, memory, StateType
<1>16. CASE NotePosition
  BY <1>16, <1>1, <1>2, Basics DEF NotePosition, Databases, Control, Exchanged, InterruptedExchange, Starting, Reading, Ending, Save, memory, StateType
<1>17. CASE CreateTable
  <2>1. DOMAIN dbs' = DOMAIN dbs /\ DOMAIN dbs'["tmp"] = DOMAIN dbs["tmp"] \cup {at}
    BY <1>17, CreateTableDb
  <2>2. pc' = pc /\ pc = "structure" /\ saved' = saved /\ at' = at + 1
        /\ marks' = marks \ {<<at, "returned">>}
    BY <1>17 DEF CreateTable
  <2>3. \A t \in DOMAIN dbs["tmp"] : t \in Nat /\ t < at
    BY <1>1, <2>2, Basics DEF Databases, InitialInv, DbTypes, IsDb
  <2>4. \A t \in DOMAIN dbs'["tmp"] : t < at'
    BY <2>1, <2>2, <2>3, Basics
  <2> QED
    BY <1>1, <2>1, <2>2, <2>4 DEF Databases, Control, Exchanged, InterruptedExchange, Starting, Reading, Ending
<1>18. CASE StructureCreated
  BY <1>18, <1>1, <1>2, Basics DEF StructureCreated, Databases, Control, Exchanged, InterruptedExchange, Starting, Reading, Ending, Save, memory, StateType
<1>19. CASE Perform
  BY <1>19, <1>1, <1>2, Basics DEF Perform, Databases, Control, Exchanged, InterruptedExchange, Starting, Reading, Ending, Save, memory, StateType
<1>20. CASE BeginTable
  <2>1. /\ pc = "table" /\ pc' = "read" /\ at' = at /\ UNCHANGED <<dbs, marks>>
        /\ saved'.status = saved.status
    BY <1>20, <1>1, Basics DEF BeginTable, Save, StateType, Control
  <2> QED
    BY <1>1, <2>1 DEF Databases, Control, Exchanged, InterruptedExchange, Starting, Reading, Ending
<1>21. CASE ReadBatch
  BY <1>21, <1>1, <1>2, Basics DEF ReadBatch, Databases, Control, Exchanged, InterruptedExchange, Starting, Reading, Ending, Save, memory
<1>22. CASE InsertBatch
  <2>1. DOMAIN dbs' = DOMAIN dbs
    BY <1>22 DEF InsertBatch, InsertAccepted
  <2> QED
    BY <1>22, <1>1, <2>1 DEF InsertBatch, Databases, Control, Exchanged, InterruptedExchange, Starting, Reading, Ending
<1>23. CASE SaveAfterBatch
  BY <1>23, <1>1, <1>2, Basics DEF SaveAfterBatch, Databases, Control, Exchanged, InterruptedExchange, Starting, Reading, Ending, Save, memory, SaveDue, StateType
<1>24. CASE FinishTable
  BY <1>24, <1>1, <1>2, Basics DEF FinishTable, Databases, Control, Exchanged, InterruptedExchange, Starting, Reading, Ending, Save, memory, SaveDue, StateType
<1>25. CASE LaunchWorkers
  BY <1>25, <1>1, <1>2, Basics DEF LaunchWorkers, Databases, Control, Exchanged, InterruptedExchange, Starting, Reading, Ending, Save, memory, StateType
<1>26. CASE WorkersDone
  BY <1>26, <1>1, <1>2, Basics DEF WorkersDone, Databases, Control, Exchanged, InterruptedExchange, Starting, Reading, Ending, Save, memory, StateType
<1>27. CASE Verify
  BY <1>27, <1>1, <1>2, Basics DEF Verify, Databases, Control, Exchanged, InterruptedExchange, Starting, Reading, Ending, Save, memory
<1>28. CASE RenameTarget
  BY <1>28, <1>1, <1>2, Basics DEF RenameTarget, Databases, Control, Exchanged, InterruptedExchange, Starting, Reading, Ending, Save, memory, RenameDatabase, With, Without
<1>29. CASE RenameTmp
  BY <1>29, <1>1, <1>2, Basics DEF RenameTmp, Databases, Control, Exchanged, InterruptedExchange, Starting, Reading, Ending, Save, memory, RenameDatabase, With, Without
<1>30. CASE DropOld
  BY <1>30, <1>1, <1>2, Basics DEF DropOld, Databases, Control, Exchanged, InterruptedExchange, Starting, Reading, Ending, Save, memory, Without
<1>31. CASE RunRealtime
  BY <1>31, <1>1, <1>2, Basics DEF RunRealtime, Databases, Control, Exchanged, InterruptedExchange, Starting, Reading, Ending, Save, memory, StateType
<1>32. CASE Ended
  BY <1>32, <1>1, <1>2, Basics DEF Ended, Databases, Control, Exchanged, InterruptedExchange, Starting, Reading, Ending, Save, memory, ProcessEnds, MemoryGone, Interrupted, NoState
<1>33. CASE WorkerMoves
  <2>1. PICK w \in workers : WorkerStep(w) \/ WorkerCrash(w)
    BY <1>33 DEF WorkerMoves
  <2>2. marks \subseteq marks'
    BY <2>1 DEF WorkerStep, WorkerCrash, WorkerStarts, WorkerReads, WorkerReadRefused, WorkerInserts, WorkerRefused,
                WorkerSaves, WorkerFinishes
  <2>3. /\ DOMAIN dbs' = DOMAIN dbs
        /\ "tmp" \in DOMAIN dbs => DOMAIN dbs'["tmp"] = DOMAIN dbs["tmp"]
    <3>1. CASE WorkerInserts(w)
      BY <3>1, WorkerInsertAccepted, SetupStep, InsertDb
    <3>2. CASE ~WorkerInserts(w)
      BY <2>1, <3>2 DEF WorkerStep, WorkerCrash, WorkerStarts, WorkerReads, WorkerReadRefused, WorkerRefused,
                        WorkerSaves, WorkerFinishes
    <3> QED
      BY <3>1, <3>2
  <2> QED
    BY <1>33, <1>1, <2>2, <2>3, WorkerMoveFrame DEF memory, Databases, Control, Exchanged, InterruptedExchange, Starting, Reading, Ending
<1>34. CASE RestartReplication
  BY <1>34, <1>1, <1>2, Basics DEF RestartReplication, Databases, Control, Exchanged, InterruptedExchange, Starting, Reading, Ending, Save, memory, MemoryGone, Interrupted, NoState
<1>35. CASE UNCHANGED vars
  BY <1>35, <1>1, <1>2, Basics DEF vars, Databases, Control, Exchanged, InterruptedExchange, Starting, Reading, Ending, Save, memory
<1> QED
  BY <1>11, <1>12, <1>13, <1>14, <1>15, <1>16a, <1>16, <1>17, <1>18, <1>19, <1>20, <1>21, <1>22, <1>23, <1>24, <1>25, <1>26, <1>27, <1>28, <1>29, <1>30, <1>31, <1>32, <1>33, <1>34, <1>35, Steps

(* What a copy has met stays with it. *)
LEMMA OneCopyStep ==
    ASSUME InitialInv, [Next]_vars
    PROVE  OneCopy' => OneCopy
<1>1. threads' = threads /\ resets \in Nat
  BY SetupStep DEF InitialInv, MemoryTypes
<1>11. CASE MySQLWrites
  BY <1>11, <1>1 DEF MySQLWrites, OneCopy, InterruptedExchange, bounds
<1>12. CASE MySQLAlters
  BY <1>12, <1>1 DEF MySQLAlters, OneCopy, InterruptedExchange, bounds
<1>13. CASE Start
  BY <1>13, <1>1 DEF Start, OneCopy, InterruptedExchange, bounds
<1>14. CASE DropTmp
  BY <1>14, <1>1 DEF DropTmp, OneCopy, InterruptedExchange, bounds
<1>15. CASE CreateTmp
  BY <1>15, <1>1 DEF CreateTmp, OneCopy, InterruptedExchange, bounds
<1>16a. CASE ListTables
  BY <1>16a, <1>1 DEF ListTables, OneCopy, InterruptedExchange, bounds
<1>16. CASE NotePosition
  BY <1>16, <1>1 DEF NotePosition, OneCopy, InterruptedExchange, bounds
<1>17. CASE CreateTable
  BY <1>17, <1>1 DEF CreateTable, OneCopy, InterruptedExchange, bounds
<1>18. CASE StructureCreated
  BY <1>18, <1>1 DEF StructureCreated, OneCopy, InterruptedExchange, bounds
<1>19. CASE Perform
  BY <1>19, <1>1 DEF Perform, OneCopy, InterruptedExchange, bounds
<1>20. CASE BeginTable
  BY <1>20, <1>1 DEF BeginTable, OneCopy, InterruptedExchange, bounds
<1>21. CASE ReadBatch
  BY <1>21, <1>1 DEF ReadBatch, OneCopy, InterruptedExchange, bounds
<1>22. CASE InsertBatch
  BY <1>22, <1>1 DEF InsertBatch, OneCopy, InterruptedExchange, bounds
<1>23. CASE SaveAfterBatch
  BY <1>23, <1>1 DEF SaveAfterBatch, OneCopy, InterruptedExchange, bounds
<1>24. CASE FinishTable
  BY <1>24, <1>1 DEF FinishTable, OneCopy, InterruptedExchange, bounds
<1>25. CASE LaunchWorkers
  BY <1>25, <1>1 DEF LaunchWorkers, OneCopy, InterruptedExchange, bounds
<1>26. CASE WorkersDone
  BY <1>26, <1>1 DEF WorkersDone, OneCopy, InterruptedExchange, bounds
<1>27. CASE Verify
  BY <1>27, <1>1 DEF Verify, OneCopy, InterruptedExchange, bounds
<1>28. CASE RenameTarget
  BY <1>28, <1>1 DEF RenameTarget, OneCopy, InterruptedExchange, bounds
<1>29. CASE RenameTmp
  BY <1>29, <1>1 DEF RenameTmp, OneCopy, InterruptedExchange, bounds
<1>30. CASE DropOld
  BY <1>30, <1>1 DEF DropOld, OneCopy, InterruptedExchange, bounds
<1>31. CASE RunRealtime
  BY <1>31, <1>1 DEF RunRealtime, OneCopy, InterruptedExchange, bounds
<1>32. CASE Ended
  BY <1>32, <1>1 DEF Ended, OneCopy, InterruptedExchange, bounds, ProcessEnds, Interrupted
<1>33. CASE WorkerMoves
  <2>1. PICK w \in workers : WorkerStep(w) \/ WorkerCrash(w)
    BY <1>33 DEF WorkerMoves
  <2>2. marks \subseteq marks' /\ resets' = resets
    BY <2>1 DEF WorkerStep, WorkerCrash, WorkerStarts, WorkerReads, WorkerReadRefused, WorkerInserts, WorkerRefused,
                WorkerSaves, WorkerFinishes, bounds
  <2> QED
    BY <1>1, <2>2 DEF OneCopy, InterruptedExchange
<1>34. CASE RestartReplication
  BY <1>34, <1>1 DEF RestartReplication, OneCopy, InterruptedExchange, bounds, Interrupted
<1>35. CASE UNCHANGED vars
  BY <1>35, <1>1 DEF vars, OneCopy, InterruptedExchange, bounds
<1> QED
  BY <1>11, <1>12, <1>13, <1>14, <1>15, <1>16a, <1>16, <1>17, <1>18, <1>19, <1>20, <1>21, <1>22, <1>23, <1>24, <1>25, <1>26, <1>27, <1>28, <1>29, <1>30, <1>31, <1>32, <1>33, <1>34, <1>35, Steps

(* Only NotePosition begins a copy; a step of a copy adds at most the      *)
(* table at hand to those that are copied.                                 *)
LEMMA CopyingStep ==
    ASSUME InitialInv, [Next]_vars
    PROVE  Copying' /\ ~NotePosition =>
             /\ Copying /\ saved'.last = saved.last /\ (~CreateTable => marks \subseteq marks')
             /\ \A m \in marks : m[2] # "returned" => m \in marks'
             /\ \A t \in tables :
                  Done(t)' => Done(t) \/ (t = at /\ (FinishTable \/ WorkersDone))
<1>1. Control /\ Databases /\ pc \in Points
  BY DEF InitialInv, MemoryTypes
<1>2. DOMAIN dbs \subseteq {"target", "tmp", "old"}
  BY DEF InitialInv, DbTypes
<1>11. CASE MySQLWrites
  BY <1>11, <1>1, <1>2, Basics DEF MySQLWrites, Copying, Done, Control, Databases, Starting, Reading, Ending, Points, Save, memory, tables
<1>12. CASE MySQLAlters
  BY <1>12, <1>1, <1>2, Basics DEF MySQLAlters, Copying, Done, Control, Databases, Starting, Reading, Ending, Points, Save, memory, tables
<1>13. CASE Start
  BY <1>13, <1>1, <1>2, Basics DEF Start, Copying, Done, Control, Databases, Starting, Reading, Ending, Points, Save, memory, tables, NoState
<1>14. CASE DropTmp
  BY <1>14, <1>1, <1>2, Basics DEF DropTmp, Copying, Done, Control, Databases, Starting, Reading, Ending, Points, Save, memory, tables, Without
<1>15. CASE CreateTmp
  BY <1>15, <1>1, <1>2, Basics DEF CreateTmp, Copying, Done, Control, Databases, Starting, Reading, Ending, Points, Save, memory, tables, With
<1>16a. CASE ListTables
  BY <1>16a, <1>1 DEF ListTables, Copying, Done, Control, Databases, Starting, Reading, Ending, Points, Save, memory, tables
<1>16. CASE NotePosition
  BY <1>16, <1>1 DEF NotePosition, Copying, Done, Control, Databases, Starting, Reading, Ending, Points, Save, memory, tables
<1>17. CASE CreateTable
  <2>1. /\ pc = "structure" /\ pc' = pc /\ saved' = saved /\ DOMAIN dbs' = DOMAIN dbs
        /\ marks' = marks \ {<<at, "returned">>}
    BY <1>17, CreateTableDb DEF CreateTable
  <2>2. \A t \in tables : Done(t)' => Done(t)
    BY <2>1 DEF Done, Ending
  <2>3. \A m \in marks : m[2] # "returned" => m \in marks'
    BY <2>1
  <2> QED
    BY <1>17, <2>1, <2>2, <2>3 DEF Copying
<1>18. CASE StructureCreated
  BY <1>18, <1>1, <1>2, Basics DEF StructureCreated, Copying, Done, Control, Databases, Starting, Reading, Ending, Points, Save, memory, tables, StateType
<1>19. CASE Perform
  BY <1>19, <1>1, <1>2, Basics DEF Perform, Copying, Done, Control, Databases, Starting, Reading, Ending, Points, Save, memory, tables, StateType
<1>20. CASE BeginTable
  <2>1. /\ pc = "table" /\ pc' = "read" /\ at' = at /\ UNCHANGED <<dbs, marks>>
        /\ saved'.last = saved.last /\ saved'.table = at
    BY <1>20, <1>1, Basics DEF BeginTable, Save, StateType, Control
  <2> QED
    BY <1>1, <2>1, Basics DEF Copying, Done, Ending, Reading
<1>21. CASE ReadBatch
  BY <1>21, <1>1, <1>2, Basics DEF ReadBatch, Copying, Done, Control, Databases, Starting, Reading, Ending, Points, Save, memory, tables
<1>22. CASE InsertBatch
  <2>1. DOMAIN dbs' = DOMAIN dbs
    BY <1>22 DEF InsertBatch, InsertAccepted
  <2> QED
    BY <1>22, <1>1, <2>1, Basics DEF InsertBatch, Copying, Done, Reading, Ending
<1>23. CASE SaveAfterBatch
  BY <1>23, <1>1, <1>2, Basics DEF SaveAfterBatch, Copying, Done, Control, Databases, Starting, Reading, Ending, Points, Save, memory, tables, StateType, SaveDue
<1>24. CASE FinishTable
  BY <1>24, <1>1, <1>2, Basics DEF FinishTable, Copying, Done, Control, Databases, Starting, Reading, Ending, Points, Save, memory, tables, StateType, SaveDue
<1>25. CASE LaunchWorkers
  BY <1>25, <1>1, <1>2, Basics DEF LaunchWorkers, Copying, Done, Control, Databases, Starting, Reading, Ending, Points, Save, memory, tables, StateType
<1>26. CASE WorkersDone
  BY <1>26, <1>1, <1>2, Basics DEF WorkersDone, Copying, Done, Control, Databases, Starting, Reading, Ending, Points, Save, memory, tables, StateType
<1>27. CASE Verify
  BY <1>27, <1>1, <1>2, Basics DEF Verify, Copying, Done, Control, Databases, Starting, Reading, Ending, Points, Save, memory, tables
<1>28. CASE RenameTarget
  BY <1>28, <1>1, <1>2, Basics DEF RenameTarget, Copying, Done, Control, Databases, Starting, Reading, Ending, Points, Save, memory, tables, RenameDatabase, With, Without
<1>29. CASE RenameTmp
  BY <1>29, <1>1, <1>2, Basics DEF RenameTmp, Copying, Done, Control, Databases, Starting, Reading, Ending, Points, Save, memory, tables, RenameDatabase, With, Without
<1>30. CASE DropOld
  BY <1>30, <1>1, <1>2, Basics DEF DropOld, Copying, Done, Control, Databases, Starting, Reading, Ending, Points, Save, memory, tables, Without
<1>31. CASE RunRealtime
  BY <1>31, <1>1, <1>2, Basics DEF RunRealtime, Copying, Done, Control, Databases, Starting, Reading, Ending, Points, Save, memory, tables, StateType
<1>32. CASE Ended
  <2>1. /\ pc # "down" /\ pc' = "down" /\ UNCHANGED <<saved, dbs>> /\ marks \subseteq marks'
    BY <1>32 DEF Ended, ProcessEnds, MemoryGone
  <2>2. Copying' => Copying
    BY <1>1, <2>1 DEF Copying, Control, Databases, Starting, Reading, Ending, Points
  <2>3. \A t \in tables : Done(t)' => Done(t)
    BY <2>1 DEF Done, Ending
  <2> QED
    BY <2>1, <2>2, <2>3
<1>33. CASE WorkerMoves
  <2>1. PICK w \in workers : WorkerStep(w) \/ WorkerCrash(w)
    BY <1>33 DEF WorkerMoves
  <2>2. marks \subseteq marks'
    BY <2>1 DEF WorkerStep, WorkerCrash, WorkerStarts, WorkerReads, WorkerReadRefused, WorkerInserts, WorkerRefused,
                WorkerSaves, WorkerFinishes
  <2>3. DOMAIN dbs' = DOMAIN dbs /\ UNCHANGED <<pc, saved, at>>
    <3>1. CASE WorkerInserts(w)
      BY <3>1 DEF WorkerInserts, InsertAccepted, memory
    <3>2. CASE ~WorkerInserts(w)
      BY <2>1, <3>2 DEF WorkerStep, WorkerCrash, WorkerStarts, WorkerReads, WorkerReadRefused, WorkerRefused,
                        WorkerSaves, WorkerFinishes, memory
    <3> QED
      BY <3>1, <3>2
  <2> QED
    BY <2>2, <2>3 DEF Copying, Done, Ending, Reading
<1>34. CASE RestartReplication
  BY <1>34, <1>1, <1>2, Basics DEF RestartReplication, Copying, Done, Control, Databases, Starting, Reading, Ending, Points, Save, memory, tables, ProcessEnds, MemoryGone, NoState
<1>35. CASE UNCHANGED vars
  BY <1>35, <1>1, <1>2, Basics DEF vars, Copying, Done, Control, Databases, Starting, Reading, Ending, Points, Save, memory, tables
<1> QED
  BY <1>11, <1>12, <1>13, <1>14, <1>15, <1>16a, <1>16, <1>17, <1>18, <1>19, <1>20, <1>21, <1>22, <1>23, <1>24, <1>25, <1>26, <1>27, <1>28, <1>29, <1>30, <1>31, <1>32, <1>33, <1>34, <1>35, Steps

(* Only RenameTmp exchanges the databases. *)
LEMMA ExchangedStep ==
    ASSUME InitialInv, [Next]_vars
    PROVE  Exchanged' => /\ Exchanged \/ RenameTmp
                         /\ saved'.last = saved.last /\ marks \subseteq marks'
<1>1. Control /\ Databases /\ pc \in Points
  BY DEF InitialInv, MemoryTypes
<1>2. DOMAIN dbs \subseteq {"target", "tmp", "old"}
  BY DEF InitialInv, DbTypes
<1>11. CASE MySQLWrites
  BY <1>11, <1>1, Basics DEF MySQLWrites, Exchanged, Control, Databases, Starting, Reading, Ending, Points, Save, memory
<1>12. CASE MySQLAlters
  BY <1>12, <1>1, Basics DEF MySQLAlters, Exchanged, Control, Databases, Starting, Reading, Ending, Points, Save, memory
<1>13. CASE Start
  BY <1>13, <1>1, Basics DEF Start, Exchanged, Control, Databases, Starting, Reading, Ending, Points, Save, memory, NoState
<1>14. CASE DropTmp
  BY <1>14, <1>1, Basics DEF DropTmp, Exchanged, Control, Databases, Starting, Reading, Ending, Points, Save, memory
<1>15. CASE CreateTmp
  BY <1>15, <1>1, Basics DEF CreateTmp, Exchanged, Control, Databases, Starting, Reading, Ending, Points, Save, memory
<1>16a. CASE ListTables
  BY <1>16a, <1>1, Basics DEF ListTables, Exchanged, Control, Databases, Starting, Reading, Ending, Points, Save, memory, StateType
<1>16. CASE NotePosition
  BY <1>16, <1>1, Basics DEF NotePosition, Exchanged, Control, Databases, Starting, Reading, Ending, Points, Save, memory, StateType
<1>17. CASE CreateTable
  BY <1>17, <1>1, Basics DEF CreateTable, Exchanged, Control, Databases, Starting, Reading, Ending, Points, Save, memory
<1>18. CASE StructureCreated
  BY <1>18, <1>1, Basics DEF StructureCreated, Exchanged, Control, Databases, Starting, Reading, Ending, Points, Save, memory, StateType
<1>19. CASE Perform
  BY <1>19, <1>1, Basics DEF Perform, Exchanged, Control, Databases, Starting, Reading, Ending, Points, Save, memory, StateType
<1>20. CASE BeginTable
  BY <1>20, <1>1, Basics DEF BeginTable, Exchanged, Control, Databases, Starting, Reading, Ending, Points, Save, memory, StateType
<1>21. CASE ReadBatch
  BY <1>21, <1>1, Basics DEF ReadBatch, Exchanged, Control, Databases, Starting, Reading, Ending, Points, Save, memory
<1>22. CASE InsertBatch
  BY <1>22, <1>1, Basics DEF InsertBatch, Exchanged, Control, Databases, Starting, Reading, Ending, Points, Save, memory
<1>23. CASE SaveAfterBatch
  BY <1>23, <1>1, Basics DEF SaveAfterBatch, Exchanged, Control, Databases, Starting, Reading, Ending, Points, Save, memory, StateType, SaveDue
<1>24. CASE FinishTable
  BY <1>24, <1>1, Basics DEF FinishTable, Exchanged, Control, Databases, Starting, Reading, Ending, Points, Save, memory, StateType, SaveDue
<1>25. CASE LaunchWorkers
  BY <1>25, <1>1, Basics DEF LaunchWorkers, Exchanged, Control, Databases, Starting, Reading, Ending, Points, Save, memory, StateType
<1>26. CASE WorkersDone
  BY <1>26, <1>1, Basics DEF WorkersDone, Exchanged, Control, Databases, Starting, Reading, Ending, Points, Save, memory, StateType
<1>27. CASE Verify
  BY <1>27, <1>1, Basics DEF Verify, Exchanged, Control, Databases, Starting, Reading, Ending, Points, Save, memory
<1>28. CASE RenameTarget
  BY <1>28, <1>1, Basics DEF RenameTarget, Exchanged, Control, Databases, Starting, Reading, Ending, Points, Save, memory
<1>29. CASE RenameTmp
  BY <1>29, <1>1, Basics DEF RenameTmp, Exchanged, Control, Databases, Starting, Reading, Ending, Points, Save, memory
<1>30. CASE DropOld
  BY <1>30, <1>1, Basics DEF DropOld, Exchanged, Control, Databases, Starting, Reading, Ending, Points, Save, memory
<1>31. CASE RunRealtime
  BY <1>31, <1>1, Basics DEF RunRealtime, Exchanged, Control, Databases, Starting, Reading, Ending, Points, Save, memory, StateType
<1>32. CASE Ended
  BY <1>32, <1>1, Basics DEF Ended, Exchanged, Control, Databases, Starting, Reading, Ending, Points, Save, memory, ProcessEnds, MemoryGone, NoState
<1>33. CASE WorkerMoves
  <2>1. PICK w \in workers : WorkerStep(w) \/ WorkerCrash(w)
    BY <1>33 DEF WorkerMoves
  <2>2. marks \subseteq marks'
    BY <2>1 DEF WorkerStep, WorkerCrash, WorkerStarts, WorkerReads, WorkerReadRefused, WorkerInserts, WorkerRefused,
                WorkerSaves, WorkerFinishes
  <2>3. DOMAIN dbs' = DOMAIN dbs /\ UNCHANGED <<pc, saved, at>>
    <3>1. CASE WorkerInserts(w)
      BY <3>1 DEF WorkerInserts, InsertAccepted, memory
    <3>2. CASE ~WorkerInserts(w)
      BY <2>1, <3>2 DEF WorkerStep, WorkerCrash, WorkerStarts, WorkerReads, WorkerReadRefused, WorkerRefused,
                        WorkerSaves, WorkerFinishes, memory
    <3> QED
      BY <3>1, <3>2
  <2> QED
    BY <2>2, <2>3 DEF Exchanged
<1>34. CASE RestartReplication
  BY <1>34, <1>1, Basics DEF RestartReplication, Exchanged, Control, Databases, Starting, Reading, Ending, Points, Save, memory, ProcessEnds, MemoryGone, NoState
<1>35. CASE UNCHANGED vars
  BY <1>35, <1>1, Basics DEF vars, Exchanged, Control, Databases, Starting, Reading, Ending, Points, Save, memory
<1> QED
  BY <1>11, <1>12, <1>13, <1>14, <1>15, <1>16a, <1>16, <1>17, <1>18, <1>19, <1>20, <1>21, <1>22, <1>23, <1>24, <1>25, <1>26, <1>27, <1>28, <1>29, <1>30, <1>31, <1>32, <1>33, <1>34, <1>35, Steps

LEMMA WorkersOfCopyStep ==
    ASSUME InitialInv, [Next]_vars
    PROVE  WorkersOfCopy'
<1>1. WorkersOfCopy /\ NoWorkers /\ Control /\ Databases /\ pc \in Points
  BY DEF InitialInv, MemoryTypes
<1>2. (OneCopy' => OneCopy) /\ resets \in Nat
  BY OneCopyStep DEF InitialInv, MemoryTypes
<1>3. NoWorkers' /\ threads' = threads
  BY NoWorkersStep, SetupStep
<1>11. CASE MySQLWrites
  BY <1>11, <1>1, <1>2, Basics DEF MySQLWrites, WorkersOfCopy, Control, Starting, Reading, Ending, Points, Save, memory
<1>12. CASE MySQLAlters
  BY <1>12, <1>1, <1>2, Basics DEF MySQLAlters, WorkersOfCopy, Control, Starting, Reading, Ending, Points, Save, memory
<1>13. CASE Start
  BY <1>13, <1>1, <1>2, <1>3, Basics DEF Start, WorkersOfCopy, Control, Starting, Reading, Ending, Points, Save, memory, NoState, Databases, Exchanged, OneCopy, InterruptedExchange, NoWorkers
<1>14. CASE DropTmp
  BY <1>14, <1>1, <1>2, Basics DEF DropTmp, WorkersOfCopy, Control, Starting, Reading, Ending, Points, Save, memory
<1>15. CASE CreateTmp
  BY <1>15, <1>1, <1>2, Basics DEF CreateTmp, WorkersOfCopy, Control, Starting, Reading, Ending, Points, Save, memory
<1>16a. CASE ListTables
  BY <1>16a, <1>1, <1>2, Basics DEF ListTables, WorkersOfCopy, Control, Starting, Reading, Ending, Points, Save, memory, StateType
<1>16. CASE NotePosition
  BY <1>16, <1>1, <1>2, Basics DEF NotePosition, WorkersOfCopy, Control, Starting, Reading, Ending, Points, Save, memory, StateType
<1>17. CASE CreateTable
  BY <1>17, <1>1, <1>2, Basics DEF CreateTable, WorkersOfCopy, Control, Starting, Reading, Ending, Points, Save, memory
<1>18. CASE StructureCreated
  BY <1>18, <1>1, <1>2, Basics DEF StructureCreated, WorkersOfCopy, Control, Starting, Reading, Ending, Points, Save, memory, StateType
<1>19. CASE Perform
  BY <1>19, <1>1, <1>2, Basics DEF Perform, WorkersOfCopy, Control, Starting, Reading, Ending, Points, Save, memory, StateType
<1>20. CASE BeginTable
  BY <1>20, <1>1, <1>2, Basics DEF BeginTable, WorkersOfCopy, Control, Starting, Reading, Ending, Points, Save, memory, StateType
<1>21. CASE ReadBatch
  BY <1>21, <1>1, <1>2, Basics DEF ReadBatch, WorkersOfCopy, Control, Starting, Reading, Ending, Points, Save, memory
<1>22. CASE InsertBatch
  BY <1>22, <1>1, <1>2, Basics DEF InsertBatch, WorkersOfCopy, Control, Starting, Reading, Ending, Points, Save, memory
<1>23. CASE SaveAfterBatch
  BY <1>23, <1>1, <1>2, Basics DEF SaveAfterBatch, WorkersOfCopy, Control, Starting, Reading, Ending, Points, Save, memory, StateType, SaveDue
<1>24. CASE FinishTable
  BY <1>24, <1>1, <1>2, Basics DEF FinishTable, WorkersOfCopy, Control, Starting, Reading, Ending, Points, Save, memory, StateType, SaveDue
<1>25. CASE LaunchWorkers
  BY <1>25, <1>1, <1>2, Basics DEF LaunchWorkers, WorkersOfCopy, Control, Starting, Reading, Ending, Points, Save, memory, StateType
<1>26. CASE WorkersDone
  BY <1>26, <1>1, <1>2, Basics DEF WorkersDone, WorkersOfCopy, Control, Starting, Reading, Ending, Points, Save, memory, StateType, Own
<1>27. CASE Verify
  BY <1>27, <1>1, <1>2, Basics DEF Verify, WorkersOfCopy, Control, Starting, Reading, Ending, Points, Save, memory
<1>28. CASE RenameTarget
  BY <1>28, <1>1, <1>2, Basics DEF RenameTarget, WorkersOfCopy, Control, Starting, Reading, Ending, Points, Save, memory
<1>29. CASE RenameTmp
  BY <1>29, <1>1, <1>2, Basics DEF RenameTmp, WorkersOfCopy, Control, Starting, Reading, Ending, Points, Save, memory
<1>30. CASE DropOld
  BY <1>30, <1>1, <1>2, Basics DEF DropOld, WorkersOfCopy, Control, Starting, Reading, Ending, Points, Save, memory
<1>31. CASE RunRealtime
  BY <1>31, <1>1, <1>2, Basics DEF RunRealtime, WorkersOfCopy, Control, Starting, Reading, Ending, Points, Save, memory, StateType
<1>32. CASE Ended
  BY <1>32, <1>1, <1>2, Basics DEF Ended, WorkersOfCopy, Control, Starting, Reading, Ending, Points, Save, memory, ProcessEnds, MemoryGone, NoState
<1>33. CASE WorkerMoves
  BY <1>33, <1>1, <1>2, WorkerMoveFrame DEF WorkerMoves, WorkersOfCopy
<1>34. CASE RestartReplication
  BY <1>34, <1>1, <1>2, <1>3 DEF RestartReplication, WorkersOfCopy, NoWorkers, OneCopy
<1>35. CASE UNCHANGED vars
  BY <1>35, <1>1, <1>2, Basics DEF vars, WorkersOfCopy, Control, Starting, Reading, Ending, Points, Save, memory
<1> QED
  BY <1>11, <1>12, <1>13, <1>14, <1>15, <1>16a, <1>16, <1>17, <1>18, <1>19, <1>20, <1>21, <1>22, <1>23, <1>24, <1>25, <1>26, <1>27, <1>28, <1>29, <1>30, <1>31, <1>32, <1>33, <1>34, <1>35, Steps

(* An event about the row, or its value, is there after a step too. *)
LEMMA UnseenStep ==
    ASSUME InitialInv, [Next]_vars, \A m \in marks : m[2] # "returned" => m \in marks',
           NEW t, NEW k, EventUnseen(t, k)
    PROVE  EventUnseen(t, k)'
<1>1. log \in Seq(tables \X Keys)
  BY DEF InitialInv, SourceTypes
<1>2. PICK n \in 1..Len(log) : log[n] = <<t, k>> /\ <<n, "unseen">> \in marks
  BY DEF EventUnseen
<1>3. n \in 1..Len(log') /\ log'[n] = log[n]
  <2>1. CASE MySQLWrites
    <3>1. PICK s \in tables, h \in Keys : log' = Append(log, <<s, h>>)
      BY <2>1 DEF MySQLWrites
    <3>2. /\ Len(log') = Len(log) + 1
          /\ \A j \in 1..Len(log) : log'[j] = log[j]
      BY <1>1, <3>1
    <3> QED
      BY <1>1, <1>2, <3>2
  <2>2. CASE ~MySQLWrites
    BY <2>2, <1>2, SetupStep
  <2> QED
    BY <2>1, <2>2
<1>4. <<n, "unseen">> \in marks'
  BY <1>2
<1> QED
  BY <1>2, <1>3, <1>4 DEF EventUnseen

LEMMA RecentStep ==
    ASSUME InitialInv, [Next]_vars, NEW id \in Nat, id <= Len(log),
           NEW v, NEW t \in tables, NEW k \in Keys, v = mysql[t][k] \/ EventAfter(id, t, k)
    PROVE  v = mysql'[t][k] \/ EventAfter(id, t, k)'
<1>1. log \in Seq(tables \X Keys)
  BY DEF InitialInv, SourceTypes
<1>2. CASE MySQLWrites
  <2>1. PICK s \in tables, h \in Keys :
          /\ log' = Append(log, <<s, h>>)
          /\ \/ mysql' = [mysql EXCEPT ![s][h] = Len(log) + 1]
             \/ mysql' = [mysql EXCEPT ![s][h] = NoValue]
    BY <1>2 DEF MySQLWrites
  <2>2. /\ Len(log') = Len(log) + 1 /\ log'[Len(log) + 1] = <<s, h>>
        /\ \A n \in 1..Len(log) : log'[n] = log[n]
    BY <1>1, <2>1
  <2>3. CASE <<s, h>> = <<t, k>>
    BY <1>1, <2>2, <2>3 DEF EventAfter
  <2>4. CASE <<s, h>> # <<t, k>>
    <3>1. mysql'[t][k] = mysql[t][k]
      <4>1. mysql \in [Tables -> [Keys -> -1..MaxLog]] /\ s \in Tables /\ t \in Tables
        BY Basics DEF InitialInv, SourceTypes
      <4>2. CASE s = t
        BY <2>1, <2>4, <4>1, <4>2
      <4>3. CASE s # t
        BY <2>1, <4>1, <4>3
      <4> QED
        BY <4>2, <4>3
    <3>2. EventAfter(id, t, k) => EventAfter(id, t, k)'
      BY <1>1, <2>2 DEF EventAfter
    <3> QED
      BY <3>1, <3>2
  <2> QED
    BY <2>3, <2>4
<1>3. CASE ~MySQLWrites
  BY <1>3, SetupStep DEF EventAfter
<1> QED
  BY <1>2, <1>3

LEMMA KeptStep ==
    ASSUME InitialInv, [Next]_vars, saved'.last = saved.last,
           \A m \in marks : m[2] # "returned" => m \in marks',
           NEW v, NEW t \in tables, NEW k \in Keys, Kept(v, t, k)
    PROVE  v = mysql'[t][k] \/ EventAfter(saved.last, t, k)' \/ EventUnseen(t, k)'
<1>1. PICK id : id = saved.last
  OBVIOUS
<1>2. id \in Nat /\ id <= Len(log)
  BY <1>1, Basics DEF InitialInv, SnapshotInv, StateType
<1>3. v = mysql[t][k] \/ EventAfter(id, t, k) => v = mysql'[t][k] \/ EventAfter(id, t, k)'
  BY <1>2, RecentStep
<1>4. EventUnseen(t, k) => EventUnseen(t, k)'
  BY UnseenStep
<1>5. EventAfter(id, t, k)' => EventAfter(saved.last, t, k)'
  BY <1>1 DEF EventAfter
<1> QED
  BY <1>1, <1>3, <1>4, <1>5 DEF Kept

(* The steps that change target_tmp. *)
LEMMA TmpStep ==
    ASSUME InitialInv, [Next]_vars
    PROVE  Copying' /\ ~NotePosition => \/ dbs'["tmp"] = dbs["tmp"] \/ CreateTable \/ InsertBatch
                                         \/ \E w \in workers : WorkerInserts(w)
<1>1. DOMAIN dbs \subseteq {"target", "tmp", "old"}
  BY DEF InitialInv, DbTypes
<1>11. CASE MySQLWrites
  BY <1>11, <1>1 DEF MySQLWrites
<1>12. CASE MySQLAlters
  BY <1>12, <1>1 DEF MySQLAlters
<1>13. CASE Start
  BY <1>13, <1>1 DEF Start
<1>14. CASE DropTmp
  BY <1>14, <1>1 DEF DropTmp, Copying, Reading
<1>15. CASE CreateTmp
  BY <1>15, <1>1 DEF CreateTmp, Copying, Reading
<1>16a. CASE ListTables
  BY <1>16a, <1>1 DEF ListTables
<1>16. CASE NotePosition
  BY <1>16
<1>17. CASE CreateTable
  BY <1>17
<1>18. CASE StructureCreated
  BY <1>18, <1>1 DEF StructureCreated
<1>19. CASE Perform
  BY <1>19, <1>1 DEF Perform
<1>20. CASE BeginTable
  BY <1>20, <1>1 DEF BeginTable
<1>21. CASE ReadBatch
  BY <1>21, <1>1 DEF ReadBatch
<1>22. CASE InsertBatch
  BY <1>22
<1>23. CASE SaveAfterBatch
  BY <1>23, <1>1 DEF SaveAfterBatch
<1>24. CASE FinishTable
  BY <1>24, <1>1 DEF FinishTable
<1>25. CASE LaunchWorkers
  BY <1>25, <1>1 DEF LaunchWorkers
<1>26. CASE WorkersDone
  BY <1>26, <1>1 DEF WorkersDone
<1>27. CASE Verify
  BY <1>27, <1>1 DEF Verify
<1>28. CASE RenameTarget
  BY <1>28, <1>1 DEF RenameTarget, Copying, Reading, RenameDatabase, With, Without
<1>29. CASE RenameTmp
  BY <1>29, <1>1 DEF RenameTmp, Copying, Reading
<1>30. CASE DropOld
  BY <1>30, <1>1 DEF DropOld, Copying, Reading
<1>31. CASE RunRealtime
  BY <1>31, <1>1 DEF RunRealtime
<1>32. CASE Ended
  BY <1>32, <1>1 DEF Ended
<1>33. CASE WorkerMoves
  BY <1>33, <1>1 DEF WorkerMoves, WorkerStep, WorkerCrash, WorkerStarts, WorkerReads, WorkerReadRefused, WorkerRefused, WorkerSaves, WorkerFinishes
<1>34. CASE RestartReplication
  BY <1>34, <1>1 DEF RestartReplication
<1>35. CASE UNCHANGED vars
  BY <1>35, <1>1 DEF vars
<1> QED
  BY <1>11, <1>12, <1>13, <1>14, <1>15, <1>16a, <1>16, <1>17, <1>18, <1>19, <1>20, <1>21, <1>22, <1>23, <1>24, <1>25, <1>26, <1>27, <1>28, <1>29, <1>30, <1>31, <1>32, <1>33, <1>34, <1>35, Steps

LEMMA InsertKept ==
    ASSUME InitialInv, NEW t \in tables, NEW b, IsBatch(b), NEW last \in Nat,
           InsertAccepted(t, b, last), tables' = tables,
           UNCHANGED <<log, mysql>>, saved'.last = saved.last, CopyKept, marks \subseteq marks',
           \A k \in DOMAIN b : Kept(b[k].val, t, k)
    PROVE  \A s \in tables, k \in Keys :
             /\ RowKept("tmp", s, k) => RowKept("tmp", s, k)'
             /\ Value(dbs'["tmp"], s, k) = NoValue \/ RowKept("tmp", s, k)'
             /\ s = t /\ k \in DOMAIN b => RowKept("tmp", s, k)'
<1>1. /\ "tmp" \in DOMAIN dbs /\ t \in DOMAIN dbs["tmp"]
      /\ DOMAIN dbs'["tmp"] = DOMAIN dbs["tmp"]
      /\ \A s \in DOMAIN dbs["tmp"] \ {t} : dbs'["tmp"][s] = dbs["tmp"][s]
      /\ dbs["tmp"][t].rows \in [Keys -> RowType]
      /\ dbs'["tmp"][t].rows = Inserted(dbs["tmp"][t].rows, b, last)
  BY InsertDb
<1>3. \A s \in tables, k \in Keys :
        Value(dbs["tmp"], s, k) = NoValue \/ Kept(Value(dbs["tmp"], s, k), s, k)
  BY DEF CopyKept, RowsGood, RowKept
<1>4. ASSUME NEW k \in Keys
      PROVE  LET old == dbs["tmp"][t].rows[k]
                 row == dbs'["tmp"][t].rows[k]
             IN  \/ row = old /\ (k \in DOMAIN b => old.val # NoValue)
                 \/ k \in DOMAIN b /\ row.val = b[k].val
  <2>1. LET row == Inserted(dbs["tmp"][t].rows, b, last)[k]
        IN  \/ row = dbs["tmp"][t].rows[k] /\ (k \in DOMAIN b => dbs["tmp"][t].rows[k].ver # 0)
            \/ /\ k \in DOMAIN b /\ row.val = b[k].val /\ row.st = b[k].st
               /\ row.ver \in 1..LastVersion(b, last)
    BY <1>1, InsertedRows
  <2>2. dbs["tmp"][t].rows[k].val = NoValue => dbs["tmp"][t].rows[k].ver = 0
    BY <1>1 DEF InitialInv, DbTypes, IsDb
  <2> QED
    BY <1>1, <2>1, <2>2
<1>5. ASSUME NEW s \in tables, NEW k \in Keys
      PROVE  /\ Kept(Value(dbs["tmp"], s, k), s, k) => Kept(Value(dbs'["tmp"], s, k), s, k)
             /\ Value(dbs'["tmp"], s, k) = NoValue \/ Kept(Value(dbs'["tmp"], s, k), s, k)
             /\ s = t /\ k \in DOMAIN b => Kept(Value(dbs'["tmp"], s, k), s, k)
  <2>1. CASE s = t
    <3>1. /\ Value(dbs["tmp"], s, k) = dbs["tmp"][t].rows[k].val
          /\ Value(dbs'["tmp"], s, k) = dbs'["tmp"][t].rows[k].val
      BY <1>1, <2>1 DEF Value
    <3> QED
      BY <1>3, <1>4, <2>1, <3>1
  <2>2. CASE s # t
    <3>1. Value(dbs'["tmp"], s, k) = Value(dbs["tmp"], s, k)
      BY <1>1, <2>2 DEF Value
    <3> QED
      BY <1>3, <2>2, <3>1
  <2> QED
    BY <2>1, <2>2
<1>6. ASSUME NEW s \in tables, NEW k \in Keys, Kept(Value(dbs'["tmp"], s, k), s, k)
      PROVE  RowKept("tmp", s, k)'
  <2>1. Value(dbs["tmp"], s, k)' = Value(dbs'["tmp"], s, k)
    BY DEF Value
  <2>2. EventUnseen(s, k) => EventUnseen(s, k)'
    BY DEF EventUnseen
  <2> QED
    BY <1>6, <2>1, <2>2 DEF RowKept, Kept, EventAfter
<1> QED
  BY <1>5, <1>6 DEF RowKept

(* What the rows of the copy promise lasts. *)
LEMMA RowsKeptStep ==
    ASSUME InitialInv, [Next]_vars, OneCopy', Copying', ~NotePosition
    PROVE  \A t \in tables, k \in Keys :
             /\ RowKept("tmp", t, k) => RowKept("tmp", t, k)'
             /\ Value(dbs'["tmp"], t, k) = NoValue \/ RowKept("tmp", t, k)'
<1>1. /\ CopyKept /\ saved'.last = saved.last /\ tables' = tables /\ Control
      /\ \A m \in marks : m[2] # "returned" => m \in marks'
  BY OneCopyStep, CopyingStep, SetupStep DEF InitialInv, SnapshotInv
<1>2. CASE InsertBatch
  <2>1. /\ at \in tables /\ IsBatch(batch) /\ versions[at] \in Nat
        /\ InsertAccepted(at, batch, versions[at])
    BY <1>2, InsertBatchAccepted
  <2>2. /\ UNCHANGED <<log, mysql>> /\ marks \subseteq marks'
        /\ \A k \in DOMAIN batch : Kept(batch[k].val, at, k)
    BY <1>1, <1>2 DEF InsertBatch, source, CopyKept, ProgressKept, BatchKept
  <2> QED
    BY <1>1, <2>1, <2>2, InsertKept
<1>3. CASE \E w \in workers : WorkerInserts(w)
  <2>1. PICK w \in workers : WorkerInserts(w)
    BY <1>3
  <2>2. /\ w.table \in tables /\ IsBatch(w.batch) /\ w.ver \in Nat
        /\ InsertAccepted(w.table, w.batch, w.ver)
    BY <2>1, WorkerInsertAccepted
  <2>3. /\ UNCHANGED <<log, mysql>> /\ marks \subseteq marks'
        /\ \A k \in DOMAIN w.batch : Kept(w.batch[k].val, w.table, k)
    BY <1>1, <2>1 DEF WorkerInserts, source, CopyKept, WorkerKept, BatchKept
  <2> QED
    BY <1>1, <2>2, <2>3, InsertKept
<1>4. CASE dbs'["tmp"] = dbs["tmp"] \/ CreateTable
  <2>1. ASSUME NEW t \in tables, NEW k \in Keys
        PROVE  Value(dbs'["tmp"], t, k) = Value(dbs["tmp"], t, k)
    <3>1. CASE dbs'["tmp"] = dbs["tmp"]
      BY <3>1
    <3>2. CASE CreateTable
      <4>1. /\ at \notin DOMAIN dbs["tmp"] /\ DOMAIN dbs'["tmp"] = DOMAIN dbs["tmp"] \cup {at}
            /\ \A s \in DOMAIN dbs["tmp"] : dbs'["tmp"][s] = dbs["tmp"][s]
            /\ dbs'["tmp"][at] = [st |-> structure[at], rows |-> [h \in Keys |-> NoRow]]
        BY <3>2, CreateTableDb
      <4>2. dbs'["tmp"][at].rows[k].val = NoValue
        BY <4>1 DEF NoRow
      <4> QED
        BY <4>1, <4>2 DEF Value
    <3> QED
      BY <1>4, <3>1, <3>2
  <2>2. \A t \in tables, k \in Keys :
          Value(dbs["tmp"], t, k) = NoValue \/ Kept(Value(dbs["tmp"], t, k), t, k)
    BY <1>1 DEF CopyKept, RowsGood, RowKept
  <2>3. \A v : \A t \in tables, k \in Keys :
          Kept(v, t, k) => \/ v = mysql'[t][k] \/ EventAfter(saved.last, t, k)'
                           \/ EventUnseen(t, k)'
    BY <1>1, KeptStep
  <2>4. ASSUME NEW t \in tables, NEW k \in Keys
        PROVE  RowKept("tmp", t, k)' <=>
                 \/ Value(dbs["tmp"], t, k) = mysql'[t][k] \/ EventAfter(saved.last, t, k)'
                 \/ EventUnseen(t, k)'
    <3>1. Value(dbs["tmp"], t, k)' = Value(dbs["tmp"], t, k)
      BY <2>1 DEF Value
    <3> QED
      BY <3>1 DEF RowKept, Kept
  <2> QED
    BY <2>1, <2>2, <2>3, <2>4 DEF RowKept
<1> QED
  BY <1>2, <1>3, <1>4, TmpStep

(* What is read in a view that is Kept is kept, and so is what a batch     *)
(* leaves out.                                                             *)
LEMMA ReadableKept ==
    ASSUME NEW vs, \A v \in vs : ViewKept(v), NEW v \in Readable(vs)
    PROVE  ViewKept(v)
BY DEF Readable, Snapshot, ViewKept, Kept

LEMMA RecordsKept ==
    ASSUME InitialInv, NEW v, IsView(v), ViewKept(v), NEW t \in tables,
           NEW pk \in Keys \cup {NoKey}, NEW i, NEW n
    PROVE  /\ BatchKept(Records(v, t, pk, i, n), t, pk, i, n)
           /\ DOMAIN Records(v, t, pk, i, n) = {} =>
                \A k \in Keys : k > pk /\ k % n = i => Kept(NoValue, t, k)
<1> DEFINE b == Records(v, t, pk, i, n)
<1>1. /\ IsBatch(b)
      /\ \A k \in DOMAIN b :
           k \in Keys /\ b[k] = [val |-> v.rows[t][k], st |-> structure[t]]
      /\ \A k \in Keys :
           /\ k > pk /\ k % n = i /\ k \notin DOMAIN b
           /\ DOMAIN b = {} \/ \E j \in DOMAIN b : k <= j
           => v.rows[t][k] = NoValue
  <2>1. SourceTypes /\ t \in Tables
    BY Basics DEF InitialInv
  <2> QED
    BY <2>1, RecordsRead
<1>2. DOMAIN b # {} => LastKey(b) \in DOMAIN b
  BY <1>1, BatchKeys
<1> HIDE DEF b
<1>3. \A k \in DOMAIN b : k \in Keys /\ b[k].val = v.rows[t][k]
  BY <1>1
<1>4. \A k \in Keys : Kept(v.rows[t][k], t, k)
  BY DEF ViewKept
<1>5. \A k \in DOMAIN b : Kept(b[k].val, t, k)
  BY <1>3, <1>4
<1>6. \A k \in Keys : v.rows[t][k] = NoValue => Kept(NoValue, t, k)
  BY <1>4
<1>7. DOMAIN b = {} => \A k \in Keys : k > pk /\ k % n = i => Kept(NoValue, t, k)
  BY <1>1, <1>6
<1>8. \A k \in Keys \ DOMAIN b :
        k % n = i /\ k > pk /\ k <= LastKey(b) => Kept(NoValue, t, k)
  BY <1>1, <1>2, <1>6
<1> QED
  BY <1>5, <1>7, <1>8 DEF BatchKept, b

LEMMA BatchKeptStep ==
    ASSUME InitialInv, [Next]_vars, saved'.last = saved.last, tables' = tables,
           \A m \in marks : m[2] # "returned" => m \in marks',
           NEW b, IsBatch(b), NEW t \in tables, NEW pk, NEW i, NEW n, BatchKept(b, t, pk, i, n)
    PROVE  BatchKept(b, t, pk, i, n)'
<1>1. ASSUME NEW v, NEW k \in Keys, Kept(v, t, k)
      PROVE  Kept(v, t, k)'
  BY <1>1, KeptStep DEF Kept
<1>2. DOMAIN b \subseteq Keys
  BY BatchKeys
<1> QED
  BY <1>1, <1>2 DEF BatchKept, LastKey

(* A table that is complete has every row. *)
LEMMA TableDone ==
    ASSUME InitialInv, OneCopy, Copying, FinishTable \/ WorkersDone
    PROVE  \A k \in Keys : RowKept("tmp", at, k)
<1>1. CopyKept /\ Control
  BY DEF InitialInv, SnapshotInv
<1>2. at \in tables /\ saved.table = at
  BY <1>1 DEF Control, FinishTable, WorkersDone, Reading
<1>3. CASE FinishTable
  <2>1. PICK v \in Readable(view) : DOMAIN Records(v, at, max_pk, 0, 1) = {} /\ pc = "read"
    BY <1>3 DEF FinishTable
  <2>2. max_pk \in Keys \cup {NoKey} /\ IsView(v) /\ ViewKept(v)
    <3>1. max_pk \in Keys \cup {NoKey} /\ SourceTypes /\ AreViews(view)
      BY DEF InitialInv, MemoryTypes
    <3>2. \A u \in view : ViewKept(u)
      BY DEF InitialInv, SnapshotInv
    <3>3. IsView(v)
      BY <3>1, ReadableViews
    <3>4. ViewKept(v)
      BY <3>2, ReadableKept
    <3> QED
      BY <3>1, <3>3, <3>4
  <2>3. \A k \in Keys : k > max_pk => Kept(NoValue, at, k)
    <3>1. \A k \in Keys : k % 1 = 0
      BY DEF Keys
    <3>2. \A k \in Keys : k > max_pk /\ k % 1 = 0 => Kept(NoValue, at, k)
      BY <1>2, <2>1, <2>2, RecordsKept
    <3> QED
      BY <3>1, <3>2
  <2>4. \A k \in Keys : k <= max_pk => RowKept("tmp", at, k)
    BY <1>1, <1>2, <2>1 DEF CopyKept, ProgressKept, Reading, tables, NoTable
  <2>5. \A k \in Keys : Value(dbs["tmp"], at, k) = NoValue \/ RowKept("tmp", at, k)
    BY <1>1, <1>2 DEF CopyKept, RowsGood
  <2>6. \A k \in Keys : k > max_pk \/ k <= max_pk
    BY <2>2 DEF Keys, NoKey
  <2> QED
    BY <2>3, <2>4, <2>5, <2>6 DEF RowKept
<1>4. CASE WorkersDone
  <2>1. pc = "wait" /\ \A w \in Own : w.pc = "done"
    BY <1>4 DEF WorkersDone
  <2>2. /\ \A i \in 0..(threads - 1) : \E w \in Own : w.id = i
        /\ \A w \in Own : w.table = at /\ w \in workers
    BY <2>1 DEF InitialInv, OwnWorkers, Own
  <2>3. ASSUME NEW k \in Keys PROVE RowKept("tmp", at, k)
    <3>1. k % threads \in 0..(threads - 1)
      BY Basics
    <3>2. PICK w \in Own : w.id = k % threads
      BY <2>2, <3>1
    <3> QED
      BY <1>1, <2>1, <2>2, <3>2 DEF CopyKept, WorkerKept
  <2> QED
    BY <2>3
<1> QED
  BY <1>3, <1>4

(* The keys that are copied when a table is resumed. *)
LEMMA ProgressStep ==
    ASSUME InitialInv, [Next]_vars
    PROVE  Copying' /\ ~NotePosition /\ saved'.table # NoTable =>
             \/ InsertBatch
             \/ \A k \in Keys :
                  \/ k <= saved'.pk
                  \/ pc' # "down" /\ k <= state'.pk
                  \/ pc' \in Reading /\ k <= max_pk'
                  => /\ saved'.table = saved.table
                     /\ \/ k <= saved.pk
                        \/ pc # "down" /\ k <= state.pk
                        \/ pc \in Reading /\ k <= max_pk
<1>1. Control /\ pc \in Points
  BY DEF InitialInv, MemoryTypes
<1>2. \A k \in Keys : ~(k <= 0)
  BY DEF Keys
<1>11. CASE MySQLWrites
  BY <1>11, <1>1, <1>2, Basics DEF MySQLWrites, Copying, Control, Reading, Save, memory, NoTable, NoKey
<1>12. CASE MySQLAlters
  BY <1>12, <1>1, <1>2, Basics DEF MySQLAlters, Copying, Control, Reading, Save, memory, NoTable, NoKey
<1>13. CASE Start
  BY <1>13, <1>1, <1>2, Basics DEF Start, Copying, Control, Reading, Save, memory, NoTable, NoKey, NoState
<1>14. CASE DropTmp
  BY <1>14, <1>1, <1>2, Basics DEF DropTmp, Copying, Control, Reading, Save, memory, NoTable, NoKey
<1>15. CASE CreateTmp
  BY <1>15, <1>1, <1>2, Basics DEF CreateTmp, Copying, Control, Reading, Save, memory, NoTable, NoKey
<1>16a. CASE ListTables
  BY <1>16a, <1>1, <1>2, Basics DEF ListTables, Copying, Control, Reading, Save, memory, NoTable, NoKey
<1>16. CASE NotePosition
  BY <1>16
<1>17. CASE CreateTable
  BY <1>17, <1>1, <1>2, Basics DEF CreateTable, Copying, Control, Reading, Save, memory, NoTable, NoKey, StateType, Starting
<1>18. CASE StructureCreated
  BY <1>18, <1>1, <1>2, Basics DEF StructureCreated, Copying, Control, Reading, Save, memory, NoTable, NoKey, StateType
<1>19. CASE Perform
  BY <1>19, <1>1, <1>2, Basics DEF Perform, Copying, Control, Reading, Save, memory, NoTable, NoKey, StateType
<1>20. CASE BeginTable
  BY <1>20, <1>1, <1>2, Basics DEF BeginTable, Copying, Control, Reading, Save, memory, NoTable, NoKey, StateType
<1>21. CASE ReadBatch
  BY <1>21, <1>1, <1>2, Basics DEF ReadBatch, Copying, Control, Reading, Save, memory, NoTable, NoKey
<1>22. CASE InsertBatch
  BY <1>22
<1>23. CASE SaveAfterBatch
  BY <1>23, <1>1, <1>2, Basics DEF SaveAfterBatch, Copying, Control, Reading, Save, memory, NoTable, NoKey, StateType, SaveDue
<1>24. CASE FinishTable
  BY <1>24, <1>1, <1>2, Basics DEF FinishTable, Copying, Control, Reading, Save, memory, NoTable, NoKey, StateType, SaveDue
<1>25. CASE LaunchWorkers
  BY <1>25, <1>1, <1>2, Basics DEF LaunchWorkers, Copying, Control, Reading, Save, memory, NoTable, NoKey, StateType
<1>26. CASE WorkersDone
  BY <1>26, <1>1, <1>2, Basics DEF WorkersDone, Copying, Control, Reading, Save, memory, NoTable, NoKey, StateType
<1>27. CASE Verify
  BY <1>27, <1>1, <1>2, Basics DEF Verify, Copying, Control, Reading, Save, memory, NoTable, NoKey
<1>28. CASE RenameTarget
  BY <1>28, <1>1, <1>2, Basics DEF RenameTarget, Copying, Control, Reading, Save, memory, NoTable, NoKey
<1>29. CASE RenameTmp
  BY <1>29, <1>1, <1>2, Basics DEF RenameTmp, Copying, Control, Reading, Save, memory, NoTable, NoKey
<1>30. CASE DropOld
  BY <1>30, <1>1, <1>2, Basics DEF DropOld, Copying, Control, Reading, Save, memory, NoTable, NoKey
<1>31. CASE RunRealtime
  BY <1>31, <1>1, <1>2, Basics DEF RunRealtime, Copying, Control, Reading, Save, memory, NoTable, NoKey, StateType, Ending
<1>32. CASE Ended
  BY <1>32, <1>1, <1>2, Basics DEF Ended, Copying, Control, Reading, Save, memory, NoTable, NoKey, ProcessEnds, MemoryGone, NoState
<1>33. CASE WorkerMoves
  BY <1>33, <1>1, <1>2, WorkerMoveFrame DEF WorkerMoves, Copying, Control, Reading, Save, memory, NoTable, NoKey
<1>34. CASE RestartReplication
  BY <1>34, <1>1, <1>2, Basics DEF RestartReplication, Copying, Control, Reading, Save, memory, NoTable, NoKey, ProcessEnds, MemoryGone, NoState
<1>35. CASE UNCHANGED vars
  BY <1>35, <1>1, <1>2, Basics DEF vars, Copying, Control, Reading, Save, memory, NoTable, NoKey
<1> QED
  BY <1>11, <1>12, <1>13, <1>14, <1>15, <1>16a, <1>16, <1>17, <1>18, <1>19, <1>20, <1>21, <1>22, <1>23, <1>24, <1>25, <1>26, <1>27, <1>28, <1>29, <1>30, <1>31, <1>32, <1>33, <1>34, <1>35, Steps

LEMMA BatchInserted ==
    ASSUME InitialInv, NEW t \in tables, NEW b, IsBatch(b), NEW last \in Nat,
           InsertAccepted(t, b, last), tables' = tables,
           UNCHANGED <<log, mysql>>, saved'.last = saved.last, CopyKept, marks \subseteq marks',
           NEW pk, NEW i, NEW n, BatchKept(b, t, pk, i, n)
    PROVE  \A k \in Keys :
             k % n = i /\ k > pk /\ k <= LastKey(b) => RowKept("tmp", t, k)'
<1>1. \A k \in DOMAIN b : Kept(b[k].val, t, k)
  BY DEF BatchKept
<1>2. \A s \in tables, k \in Keys :
        /\ RowKept("tmp", s, k) => RowKept("tmp", s, k)'
        /\ s = t /\ k \in DOMAIN b => RowKept("tmp", s, k)'
  BY <1>1, InsertKept
<1>3. \A k \in Keys \ DOMAIN b :
        k % n = i /\ k > pk /\ k <= LastKey(b) => RowKept("tmp", t, k)
  BY DEF BatchKept, CopyKept, RowsGood, RowKept
<1> QED
  BY <1>2, <1>3

LEMMA RowsGoodStep ==
    ASSUME InitialInv, [Next]_vars, OneCopy', Copying', ~NotePosition
    PROVE  RowsGood'
<1>1. /\ CopyKept /\ OneCopy /\ Copying /\ tables' = tables
      /\ \A t \in tables : Done(t)' => Done(t) \/ (t = at /\ (FinishTable \/ WorkersDone))
  BY OneCopyStep, CopyingStep, SetupStep DEF InitialInv, SnapshotInv
<1>2. \A t \in tables, k \in Keys : Done(t)' => RowKept("tmp", t, k)
  BY <1>1, TableDone DEF CopyKept, RowsGood
<1>3. \A t \in tables, k \in Keys :
        /\ RowKept("tmp", t, k) => RowKept("tmp", t, k)'
        /\ Value(dbs'["tmp"], t, k) = NoValue \/ RowKept("tmp", t, k)'
  BY RowsKeptStep
<1>4. \A t \in tables, k \in Keys : Value(dbs["tmp"], t, k)' = Value(dbs'["tmp"], t, k)
  BY DEF Value
<1> QED
  BY <1>1, <1>2, <1>3, <1>4 DEF RowsGood

LEMMA BatchStep ==
    ASSUME InitialInv, [Next]_vars
    PROVE  pc' = "insert" => ReadBatch \/ (pc = "insert" /\ UNCHANGED <<batch, at, max_pk>>)
<1>11. CASE MySQLWrites
  BY <1>11 DEF MySQLWrites, memory, Save
<1>12. CASE MySQLAlters
  BY <1>12 DEF MySQLAlters, memory, Save
<1>13. CASE Start
  BY <1>13 DEF Start, memory, Save
<1>14. CASE DropTmp
  BY <1>14 DEF DropTmp, memory, Save
<1>15. CASE CreateTmp
  BY <1>15 DEF CreateTmp, memory, Save
<1>16a. CASE ListTables
  BY <1>16a DEF ListTables, memory, Save
<1>16. CASE NotePosition
  BY <1>16 DEF NotePosition, memory, Save
<1>17. CASE CreateTable
  BY <1>17 DEF CreateTable, memory, Save
<1>18. CASE StructureCreated
  BY <1>18 DEF StructureCreated, memory, Save
<1>19. CASE Perform
  BY <1>19 DEF Perform, memory, Save
<1>20. CASE BeginTable
  BY <1>20 DEF BeginTable, memory, Save
<1>21. CASE ReadBatch
  BY <1>21 DEF ReadBatch, memory, Save
<1>22. CASE InsertBatch
  BY <1>22 DEF InsertBatch, memory, Save
<1>23. CASE SaveAfterBatch
  BY <1>23 DEF SaveAfterBatch, memory, Save
<1>24. CASE FinishTable
  BY <1>24 DEF FinishTable, memory, Save
<1>25. CASE LaunchWorkers
  BY <1>25 DEF LaunchWorkers, memory, Save
<1>26. CASE WorkersDone
  BY <1>26 DEF WorkersDone, memory, Save
<1>27. CASE Verify
  BY <1>27 DEF Verify, memory, Save
<1>28. CASE RenameTarget
  BY <1>28 DEF RenameTarget, memory, Save
<1>29. CASE RenameTmp
  BY <1>29 DEF RenameTmp, memory, Save
<1>30. CASE DropOld
  BY <1>30 DEF DropOld, memory, Save
<1>31. CASE RunRealtime
  BY <1>31 DEF RunRealtime, memory, Save
<1>32. CASE Ended
  BY <1>32 DEF Ended, memory, Save, ProcessEnds, MemoryGone
<1>33. CASE WorkerMoves
  BY <1>33, WorkerMoveFrame DEF WorkerMoves, memory, Save
<1>34. CASE RestartReplication
  BY <1>34 DEF RestartReplication, memory, Save, ProcessEnds, MemoryGone
<1>35. CASE UNCHANGED vars
  BY <1>35 DEF vars, memory, Save
<1> QED
  BY <1>11, <1>12, <1>13, <1>14, <1>15, <1>16a, <1>16, <1>17, <1>18, <1>19, <1>20, <1>21, <1>22, <1>23, <1>24, <1>25, <1>26, <1>27, <1>28, <1>29, <1>30, <1>31, <1>32, <1>33, <1>34, <1>35, Steps

(* Views are opened by ListTables and by reads. *)
LEMMA ViewStep ==
    ASSUME InitialInv, [Next]_vars
    PROVE  /\ pc' = "position" => ListTables \/ (pc = "position" /\ view' = view)
           /\ pc' # "position" => \A v \in view' : v \in Readable(view)
<1>1. view \subseteq Readable(view)
  BY DEF Readable
<1>11. CASE MySQLWrites
  BY <1>11, <1>1 DEF MySQLWrites, memory
<1>12. CASE MySQLAlters
  BY <1>12, <1>1 DEF MySQLAlters, memory
<1>13. CASE Start
  BY <1>13, <1>1 DEF Start, memory
<1>14. CASE DropTmp
  BY <1>14, <1>1 DEF DropTmp, memory
<1>15. CASE CreateTmp
  BY <1>15, <1>1 DEF CreateTmp, memory
<1>16a. CASE ListTables
  BY <1>16a, <1>1 DEF ListTables, memory
<1>16. CASE NotePosition
  BY <1>16, <1>1 DEF NotePosition, memory
<1>17. CASE CreateTable
  BY <1>17, <1>1 DEF CreateTable, memory
<1>18. CASE StructureCreated
  BY <1>18, <1>1 DEF StructureCreated, memory
<1>19. CASE Perform
  BY <1>19, <1>1 DEF Perform, memory
<1>20. CASE BeginTable
  BY <1>20, <1>1 DEF BeginTable, memory
<1>21. CASE ReadBatch
  BY <1>21, <1>1 DEF ReadBatch, memory
<1>22. CASE InsertBatch
  BY <1>22, <1>1 DEF InsertBatch, memory
<1>23. CASE SaveAfterBatch
  BY <1>23, <1>1 DEF SaveAfterBatch, memory
<1>24. CASE FinishTable
  BY <1>24, <1>1 DEF FinishTable, memory
<1>25. CASE LaunchWorkers
  BY <1>25, <1>1 DEF LaunchWorkers, memory
<1>26. CASE WorkersDone
  BY <1>26, <1>1 DEF WorkersDone, memory
<1>27. CASE Verify
  BY <1>27, <1>1 DEF Verify, memory
<1>28. CASE RenameTarget
  BY <1>28, <1>1 DEF RenameTarget, memory
<1>29. CASE RenameTmp
  BY <1>29, <1>1 DEF RenameTmp, memory
<1>30. CASE DropOld
  BY <1>30, <1>1 DEF DropOld, memory
<1>31. CASE RunRealtime
  BY <1>31, <1>1 DEF RunRealtime, memory
<1>32. CASE Ended
  BY <1>32, <1>1 DEF Ended, memory, ProcessEnds, MemoryGone
<1>33. CASE WorkerMoves
  BY <1>33, <1>1, WorkerMoveFrame DEF memory
<1>34. CASE RestartReplication
  BY <1>34, <1>1 DEF RestartReplication, memory, MemoryGone
<1>35. CASE UNCHANGED vars
  BY <1>35, <1>1 DEF vars, memory
<1> QED
  BY <1>11, <1>12, <1>13, <1>14, <1>15, <1>16a, <1>16, <1>17, <1>18, <1>19, <1>20, <1>21, <1>22, <1>23, <1>24, <1>25, <1>26, <1>27, <1>28, <1>29, <1>30, <1>31, <1>32, <1>33, <1>34, <1>35, Steps

LEMMA ProgressKeptStep ==
    ASSUME InitialInv, [Next]_vars, OneCopy', Copying', ~NotePosition
    PROVE  ProgressKept'
<1>1. /\ CopyKept /\ Copying /\ tables' = tables /\ saved'.last = saved.last
      /\ Control /\ MemoryTypes /\ \A m \in marks : m[2] # "returned" => m \in marks'
  BY OneCopyStep, CopyingStep, SetupStep DEF InitialInv, SnapshotInv
<1>2. \A t \in tables, k \in Keys : RowKept("tmp", t, k) => RowKept("tmp", t, k)'
  BY RowsKeptStep
<1>3. PICK t : t = saved'.table
  OBVIOUS
<1>4. \A k \in Keys :
        /\ t # NoTable
        /\ \/ k <= saved'.pk
           \/ pc' # "down" /\ k <= state'.pk
           \/ pc' \in Reading /\ k <= max_pk'
        => RowKept("tmp", t, k)'
  <2>1. t \in tables \cup {NoTable}
    BY <1>1, <1>3, StateTypesStep DEF StateTypes
  <2>2. CASE InsertBatch
    <3>1. /\ at \in tables /\ IsBatch(batch) /\ DOMAIN batch # {} /\ versions[at] \in Nat
          /\ InsertAccepted(at, batch, versions[at])
      BY <2>2, InsertBatchAccepted
    <3>2. /\ UNCHANGED <<log, mysql, saved, marks>> /\ pc = "insert" /\ pc' = "save" /\ saved.table = at
          /\ BatchKept(batch, at, max_pk, 0, 1) /\ max_pk' = LastKey(batch)
      BY <1>1, <2>2 DEF InsertBatch, source, CopyKept, ProgressKept, Control, Reading
    <3>3. t = at /\ t \in tables
      BY <1>3, <3>1, <3>2
    <3>4. \A k \in Keys : k > max_pk /\ k <= LastKey(batch) => RowKept("tmp", t, k)'
      <4>1. \A k \in Keys : k % 1 = 0
        BY DEF Keys
      <4>2. \A k \in Keys : k % 1 = 0 /\ k > max_pk /\ k <= LastKey(batch) =>
              RowKept("tmp", t, k)'
        BY <1>1, <3>1, <3>2, <3>3, BatchInserted
      <4> QED
        BY <4>1, <4>2
    <3>5. \A k \in Keys : k <= max_pk \/ k <= saved.pk => RowKept("tmp", t, k)
      BY <1>1, <3>1, <3>2, <3>3 DEF CopyKept, ProgressKept, Reading, tables, NoTable
    <3>6. state'.pk = LastKey(batch)
      BY <2>2, <3>2, Basics DEF InsertBatch, StateType
    <3>7. \A k \in Keys : k <= max_pk \/ k > max_pk
      BY Basics
    <3> QED
      BY <1>2, <3>2, <3>4, <3>5, <3>6, <3>7, <3>3
  <2>3. CASE ~InsertBatch
    <3>1. ASSUME NEW k \in Keys, t # NoTable,
                 \/ k <= saved'.pk
                 \/ pc' # "down" /\ k <= state'.pk
                 \/ pc' \in Reading /\ k <= max_pk'
          PROVE  t = saved.table /\ RowKept("tmp", t, k)
      BY <1>1, <1>3, <2>3, <3>1, ProgressStep DEF CopyKept, ProgressKept
    <3> QED
      BY <1>2, <2>1, <3>1
  <2> QED
    BY <2>2, <2>3
<1>5. pc' = "insert" => BatchKept(batch, at, max_pk, 0, 1)'
  <2> SUFFICES ASSUME pc' = "insert" PROVE BatchKept(batch, at, max_pk, 0, 1)'
    OBVIOUS
  <2>1. PICK b, u, pk : b = batch' /\ u = at' /\ pk = max_pk'
    OBVIOUS
  <2>2. IsBatch(b) /\ u \in tables /\ BatchKept(b, u, pk, 0, 1)
    <3>1. CASE ReadBatch
      <4>1. PICK v \in Readable(view) : batch' = Records(v, at, max_pk, 0, 1)
        BY <3>1 DEF ReadBatch
      <4>2. at' = at /\ max_pk' = max_pk /\ pc = "read"
        BY <3>1 DEF ReadBatch
      <4>3. at \in tables /\ max_pk \in Keys \cup {NoKey} /\ AreViews(view)
        BY <1>1, <4>2 DEF Control, Reading, MemoryTypes
      <4>4. SourceTypes /\ at \in Tables /\ \A u1 \in view : ViewKept(u1)
        BY <1>1, <4>3, Basics DEF InitialInv, SnapshotInv
      <4>5. IsView(v)
        BY <4>3, <4>4, ReadableViews
      <4>6. ViewKept(v)
        BY <4>4, ReadableKept
      <4>7. IsBatch(batch') /\ BatchKept(Records(v, at, max_pk, 0, 1), at, max_pk, 0, 1)
        BY <4>1, <4>3, <4>4, <4>5, <4>6, RecordsKept, RecordsRead
      <4> QED
        BY <2>1, <4>1, <4>2, <4>3, <4>7
    <3>2. CASE pc = "insert" /\ UNCHANGED <<batch, at, max_pk>>
      BY <1>1, <2>1, <3>2 DEF CopyKept, ProgressKept, MemoryTypes, Control, Reading
    <3> QED
      BY <3>1, <3>2, BatchStep
  <2>3. BatchKept(b, u, pk, 0, 1)'
    BY <1>1, <2>2, BatchKeptStep
  <2> QED
    BY <2>1, <2>3 DEF BatchKept, Kept, EventAfter, EventUnseen, LastKey
<1> QED
  <2>1. \A k : RowKept("tmp", t, k)' => RowKept("tmp", saved.table, k)'
    BY <1>3 DEF RowKept, Kept, Value, EventAfter, EventUnseen
  <2> QED
    BY <1>4, <1>5, <1>3, <2>1 DEF ProgressKept

(* The steps that change workers or their files. *)
LEMMA WorkersStep ==
    ASSUME InitialInv, [Next]_vars
    PROVE  WorkerMoves \/ RestartReplication \/
           /\ worker_files' = worker_files
           /\ \A v \in workers' :
                \/ v \in workers
                \/ \E w \in workers : v = [w EXCEPT !.own = FALSE]
                \/ LaunchWorkers /\ \E i : v = NewWorker(at, i)
<1>11. CASE MySQLWrites
  BY <1>11 DEF MySQLWrites
<1>12. CASE MySQLAlters
  BY <1>12 DEF MySQLAlters
<1>13. CASE Start
  BY <1>13 DEF Start
<1>14. CASE DropTmp
  BY <1>14 DEF DropTmp
<1>15. CASE CreateTmp
  BY <1>15 DEF CreateTmp
<1>16a. CASE ListTables
  BY <1>16a DEF ListTables
<1>16. CASE NotePosition
  BY <1>16 DEF NotePosition
<1>17. CASE CreateTable
  BY <1>17 DEF CreateTable
<1>18. CASE StructureCreated
  BY <1>18 DEF StructureCreated
<1>19. CASE Perform
  BY <1>19 DEF Perform
<1>20. CASE BeginTable
  BY <1>20 DEF BeginTable
<1>21. CASE ReadBatch
  BY <1>21 DEF ReadBatch
<1>22. CASE InsertBatch
  BY <1>22 DEF InsertBatch
<1>23. CASE SaveAfterBatch
  BY <1>23 DEF SaveAfterBatch
<1>24. CASE FinishTable
  BY <1>24 DEF FinishTable
<1>25. CASE LaunchWorkers
  <2>1. worker_files' = worker_files /\ workers' = workers \cup {NewWorker(at, i) : i \in 0..(threads - 1)}
    BY <1>25 DEF LaunchWorkers
  <2>2. \A v \in workers' : v \in workers \/ \E i : v = NewWorker(at, i)
    BY <2>1
  <2> QED
    BY <1>25, <2>1, <2>2
<1>26. CASE WorkersDone
  BY <1>26 DEF WorkersDone, Own
<1>27. CASE Verify
  BY <1>27 DEF Verify
<1>28. CASE RenameTarget
  BY <1>28 DEF RenameTarget
<1>29. CASE RenameTmp
  BY <1>29 DEF RenameTmp
<1>30. CASE DropOld
  BY <1>30 DEF DropOld
<1>31. CASE RunRealtime
  BY <1>31 DEF RunRealtime
<1>32. CASE Ended
  <2>1. /\ worker_files' = worker_files
        /\ \A v \in workers' : \E w \in workers : v = [w EXCEPT !.own = FALSE]
    BY <1>32 DEF Ended, ProcessEnds
  <2> QED
    BY <2>1
<1>33. CASE WorkerMoves
  BY <1>33
<1>34. CASE RestartReplication
  BY <1>34
<1>35. CASE UNCHANGED vars
  BY <1>35 DEF vars
<1> QED
  BY <1>11, <1>12, <1>13, <1>14, <1>15, <1>16a, <1>16, <1>17, <1>18, <1>19, <1>20, <1>21, <1>22, <1>23, <1>24, <1>25, <1>26, <1>27, <1>28, <1>29, <1>30, <1>31, <1>32, <1>33, <1>34, <1>35, Steps

LEMMA ViewKeptStep ==
    ASSUME InitialInv, [Next]_vars, Copying', ~NotePosition, NEW v, ViewKept(v)
    PROVE  ViewKept(v)'
<1>1. /\ saved'.last = saved.last /\ tables' = tables
      /\ \A m \in marks : m[2] # "returned" => m \in marks'
  BY CopyingStep, SetupStep
<1>2. PICK rows : rows = v.rows
  OBVIOUS
<1>3. \A x : \A t \in tables, k \in Keys :
        Kept(x, t, k) => \/ x = mysql'[t][k] \/ EventAfter(saved.last, t, k)'
                         \/ EventUnseen(t, k)'
  BY <1>1, KeptStep
<1>4. \A t \in tables, k \in Keys :
        \/ rows[t][k] = mysql'[t][k] \/ EventAfter(saved.last, t, k)'
        \/ EventUnseen(t, k)'
  BY <1>2, <1>3 DEF ViewKept
<1> QED
  BY <1>1, <1>2, <1>4 DEF ViewKept, Kept

LEMMA WorkerKeptStep ==
    ASSUME InitialInv, [Next]_vars, OneCopy', Copying', ~NotePosition,
           NEW v, v.table \in tables, IsBatch(v.batch), WorkerKept(v)
    PROVE  WorkerKept(v)'
<1>1. /\ saved'.last = saved.last /\ tables' = tables /\ threads' = threads
      /\ \A m \in marks : m[2] # "returned" => m \in marks'
  BY CopyingStep, SetupStep
<1>2. \A t \in tables, k \in Keys : RowKept("tmp", t, k) => RowKept("tmp", t, k)'
  BY RowsKeptStep
<1>3. v.pc = "insert" => BatchKept(v.batch, v.table, v.pk, v.id, threads)'
  <2>1. PICK b, t, pk, i, n : b = v.batch /\ t = v.table /\ pk = v.pk /\ i = v.id /\ n = threads
    OBVIOUS
  <2>2. v.pc = "insert" => BatchKept(b, t, pk, i, n)'
    BY <1>1, <2>1, BatchKeptStep DEF WorkerKept
  <2> QED
    BY <1>1, <2>1, <2>2
<1>4. \A u \in v.view : ViewKept(u)'
  BY ViewKeptStep DEF WorkerKept
<1> QED
  BY <1>1, <1>2, <1>3, <1>4 DEF WorkerKept

(* A worker before it inserts a batch: what it claims next is there.       *)
LEMMA WorkerClaims ==
    ASSUME InitialInv, OneCopy, Copying, NEW w \in workers,
           WorkerStep(w) \/ WorkerCrash(w), ~WorkerInserts(w)
    PROVE  /\ \E v : Becomes(w, v) /\ v.table = w.table /\ IsBatch(v.batch) /\ WorkerKept(v)
           /\ \A f \in DOMAIN worker_files' :
                \/ f \in DOMAIN worker_files /\ worker_files'[f] = worker_files[f]
                \/ /\ f[1] = w.table
                   /\ \A k \in Keys : k % threads = f[2] /\ k <= worker_files'[f].pk =>
                                       RowKept("tmp", f[1], k)
<1>1. CopyKept /\ "tmp" \in DOMAIN dbs /\ WorkerType(w) /\ WorkerKept(w)
  BY DEF InitialInv, SnapshotInv, Copying, CopyKept, WorkerTypes
<1>2. /\ w.table \in tables /\ w.pk \in Keys \cup {NoKey} /\ IsBatch(w.batch)
      /\ w.id \in 0..(threads - 1) /\ w.pk \in Nat
  BY <1>1, Basics DEF WorkerType, WorkersWith, NoKey
<1>3. /\ File(w)[1] = w.table /\ File(w)[2] = w.id
      /\ DOMAIN w = {"table", "id", "own", "pc", "pk", "ver", "batch", "view", "fresh"}
  BY <1>1 DEF File, WorkerType, WorkersWith
<1>4. \A k \in Keys : k \in Nat /\ ~(k <= NoKey)
  BY DEF Keys, NoKey
<1>4a. \A u \in Readable(w.view) : IsView(u) /\ ViewKept(u)
  <2>1. SourceTypes /\ AreViews(w.view) /\ \A u \in w.view : ViewKept(u)
    BY <1>1 DEF InitialInv, WorkerType, WorkerKept
  <2> QED
    BY <2>1, ReadableViews, ReadableKept
<1>5. ASSUME worker_files' = worker_files
      PROVE  \A f \in DOMAIN worker_files' : f \in DOMAIN worker_files /\ worker_files'[f] = worker_files[f]
  BY <1>5
<1>6. CASE WorkerStarts(w)
  <2> DEFINE resumes == File(w) \in DOMAIN worker_files /\ "tmp" \in DOMAIN dbs
             v == [w EXCEPT !.pc = "read", !.view = {Snapshot},
                            !.pk = IF resumes THEN worker_files[File(w)].pk ELSE NoKey,
                            !.ver = IF File(w) \in DOMAIN worker_files
                                      THEN worker_files[File(w)].ver ELSE 0]
  <2>1. /\ worker_files' = With(worker_files, File(w), Progress(v)) /\ Becomes(w, v)
    BY <1>6 DEF WorkerStarts
  <2>2. /\ v.pc = "read" /\ v.table = w.table /\ v.id = w.id /\ v.batch = w.batch
        /\ v.pk = (IF resumes THEN worker_files[File(w)].pk ELSE NoKey)
        /\ v.view = {Snapshot}
    BY <1>3
  <2>3. \A k \in Keys : k % threads = w.id /\ k <= v.pk => RowKept("tmp", w.table, k)
    BY <1>1, <1>3, <1>4, <2>2 DEF CopyKept, FilesKept
  <2>4. Progress(v).pk = v.pk
    BY DEF Progress
  <2> HIDE DEF v
  <2>5. WorkerKept(v)
    <3>1. ViewKept(Snapshot)
      BY <1>4a DEF Readable
    <3> QED
      BY <2>2, <2>3, <3>1 DEF WorkerKept
  <2> QED
    BY <1>2, <1>3, <2>1, <2>2, <2>3, <2>4, <2>5 DEF With
<1>7. CASE WorkerReads(w)
  <2>0. PICK u \in Readable(w.view) :
          /\ worker_files' = worker_files /\ w.pc # "done"
          /\ Becomes(w, [w EXCEPT !.pc = "insert", !.batch = WorkerRecords(w, u),
                                  !.view = {u}])
    BY <1>7 DEF WorkerReads
  <2> DEFINE v == [w EXCEPT !.pc = "insert", !.batch = WorkerRecords(w, u), !.view = {u}]
  <2>1. Becomes(w, v)
    BY <2>0
  <2>2. /\ v.pc = "insert" /\ v.table = w.table /\ v.id = w.id /\ v.pk = w.pk
        /\ v.batch = Records(u, w.table, w.pk, w.id, threads) /\ v.view = {u}
    BY <1>3 DEF WorkerRecords
  <2> HIDE DEF v
  <2>3. IsBatch(v.batch) /\ BatchKept(v.batch, v.table, v.pk, v.id, threads)
    <3>1. SourceTypes /\ w.table \in Tables /\ IsView(u) /\ ViewKept(u)
      BY <1>2, <1>4a, Basics DEF InitialInv
    <3> QED
      BY <1>2, <2>2, <3>1, RecordsRead, RecordsKept
  <2>4. WorkerKept(v)
    BY <1>1, <1>4a, <2>0, <2>2, <2>3 DEF WorkerKept
  <2> QED
    BY <1>5, <2>0, <2>1, <2>2, <2>3, <2>4
<1>8. CASE WorkerSaves(w)
  <2> DEFINE v == [w EXCEPT !.pc = "read", !.fresh = FALSE]
  <2>1. /\ Becomes(w, v)
        /\ \/ worker_files' = With(worker_files, File(w), Progress(w))
           \/ worker_files' = worker_files
    BY <1>8 DEF WorkerSaves
  <2>2. /\ v.pc = "read" /\ v.table = w.table /\ v.id = w.id /\ v.pk = w.pk /\ v.batch = w.batch
        /\ Progress(w).pk = w.pk /\ v.view = w.view
    BY <1>3 DEF Progress
  <2> HIDE DEF v
  <2>3. WorkerKept(v)
    BY <1>1, <2>2 DEF WorkerKept
  <2>4. \A k \in Keys : k % threads = w.id /\ k <= w.pk => RowKept("tmp", w.table, k)
    BY <1>1 DEF WorkerKept
  <2> QED
    BY <1>2, <1>3, <1>5, <2>1, <2>2, <2>3, <2>4 DEF With
<1>9. CASE WorkerFinishes(w)
  <2> DEFINE v == [w EXCEPT !.pc = "done", !.view = {}]
  <2>1. PICK u \in Readable(w.view) :
          /\ Becomes(w, v) /\ worker_files' = Without(worker_files, File(w))
          /\ DOMAIN Records(u, w.table, w.pk, w.id, threads) = {}
    BY <1>9 DEF WorkerFinishes, WorkerRecords
  <2>2. v.pc = "done" /\ v.table = w.table /\ v.id = w.id /\ v.batch = w.batch /\ v.view = {}
    BY <1>3
  <2> HIDE DEF v
  <2>3. \A k \in Keys : k > w.pk /\ k % threads = w.id => Kept(NoValue, w.table, k)
    <3> DEFINE t == w.table
               pk == w.pk
               i == w.id
               n == threads
    <3>1. t \in tables /\ pk \in Keys \cup {NoKey} /\ IsView(u) /\ ViewKept(u)
      BY <1>2, <1>4a
    <3>2. DOMAIN Records(u, t, pk, i, n) = {}
      BY <2>1
    <3> HIDE DEF t, pk, i, n
    <3>3. \A k \in Keys : k > pk /\ k % n = i => Kept(NoValue, t, k)
      BY <3>1, <3>2, RecordsKept
    <3> QED
      BY <3>3 DEF t, pk, i, n
  <2>4. \A k \in Keys : Value(dbs["tmp"], w.table, k) = NoValue \/ RowKept("tmp", w.table, k)
    BY <1>1, <1>2 DEF CopyKept, RowsGood
  <2>5. \A k \in Keys : k % threads = w.id => RowKept("tmp", w.table, k)
    <3>1. \A k \in Keys : k > w.pk /\ k % threads = w.id => RowKept("tmp", w.table, k)
      BY <2>3, <2>4 DEF RowKept
    <3>2. \A k \in Keys : k <= w.pk /\ k % threads = w.id => RowKept("tmp", w.table, k)
      BY <1>1 DEF WorkerKept
    <3> QED
      BY <1>2, <1>4, <3>1, <3>2
  <2>6. WorkerKept(v)
    BY <2>2, <2>5 DEF WorkerKept
  <2> QED
    BY <1>2, <2>1, <2>2, <2>6 DEF Without
<1>10. CASE WorkerReadRefused(w) \/ WorkerRefused(w) \/ WorkerCrash(w)
  <2> DEFINE v == [w EXCEPT !.pc = "failed", !.view = {}]
  <2>1. worker_files' = worker_files /\ Becomes(w, v) /\ w.pc # "done"
    BY <1>10 DEF WorkerReadRefused, WorkerRefused, WorkerCrash
  <2>2. /\ v.pc = "failed" /\ v.table = w.table /\ v.id = w.id /\ v.pk = w.pk
        /\ v.batch = w.batch /\ v.view = {}
    BY <1>3
  <2> HIDE DEF v
  <2>3. WorkerKept(v)
    BY <1>1, <2>2 DEF WorkerKept
  <2> QED
    BY <1>2, <1>5, <2>1, <2>2, <2>3
<1> QED
  BY <1>6, <1>7, <1>8, <1>9, <1>10 DEF WorkerStep

LEMMA WorkersKeptStep ==
    ASSUME InitialInv, [Next]_vars, OneCopy', Copying', ~NotePosition
    PROVE  FilesKept' /\ \A w \in workers' : WorkerKept(w)'
<1>1. /\ CopyKept /\ OneCopy /\ Copying /\ tables' = tables /\ threads' = threads
      /\ saved'.last = saved.last /\ WorkerTypes
  BY OneCopyStep, CopyingStep, SetupStep DEF InitialInv, SnapshotInv
<1>2. \A t \in tables, k \in Keys : RowKept("tmp", t, k) => RowKept("tmp", t, k)'
  BY RowsKeptStep
<1>3. \A v : v.table \in tables /\ IsBatch(v.batch) /\ WorkerKept(v) => WorkerKept(v)'
  BY WorkerKeptStep
<1>4. \A f \in DOMAIN worker_files' : f[1] \in tables
  BY <1>1, WorkerTypesStep DEF WorkerTypes
<1>5. \A w \in workers : /\ w.table \in tables /\ IsBatch(w.batch) /\ WorkerKept(w)
                         /\ WorkerKept(w)'
  BY <1>1, <1>3 DEF WorkerTypes, WorkerType, WorkersWith, CopyKept
<1>6. ASSUME \A f \in DOMAIN worker_files' :
               \/ f \in DOMAIN worker_files /\ worker_files'[f] = worker_files[f]
               \/ \A k \in Keys : k % threads = f[2] /\ k <= worker_files'[f].pk =>
                                  RowKept("tmp", f[1], k)
      PROVE  FilesKept'
  <2>1. ASSUME NEW f \in DOMAIN worker_files', NEW k \in Keys,
               k % threads = f[2], k <= worker_files'[f].pk
        PROVE  RowKept("tmp", f[1], k)'
    <3>1. RowKept("tmp", f[1], k)
      BY <1>1, <1>6, <2>1 DEF CopyKept, FilesKept
    <3> QED
      BY <1>2, <1>4, <3>1
  <2> QED
    BY <1>1, <2>1 DEF FilesKept
<1>7. CASE WorkerMoves
  <2>1. PICK w \in workers : WorkerStep(w) \/ WorkerCrash(w)
    BY <1>7 DEF WorkerMoves
  <2>2. CASE ~WorkerInserts(w)
    <3>1. /\ \E v : Becomes(w, v) /\ v.table = w.table /\ IsBatch(v.batch) /\ WorkerKept(v)
          /\ \A f \in DOMAIN worker_files' :
               \/ f \in DOMAIN worker_files /\ worker_files'[f] = worker_files[f]
               \/ /\ f[1] = w.table
                  /\ \A k \in Keys : k % threads = f[2] /\ k <= worker_files'[f].pk =>
                                     RowKept("tmp", f[1], k)
      BY <1>1, <2>1, <2>2, WorkerClaims
    <3>2. PICK v : Becomes(w, v) /\ v.table = w.table /\ IsBatch(v.batch) /\ WorkerKept(v)
      BY <3>1
    <3>3. WorkerKept(v)'
      BY <1>3, <1>5, <3>2
    <3>4. \A x \in workers' : x \in workers \/ x = v
      BY <3>2 DEF Becomes
    <3> QED
      BY <1>5, <1>6, <3>1, <3>3, <3>4
  <2>3. CASE WorkerInserts(w)
    <3> DEFINE v == [w EXCEPT !.pc = "save", !.batch = NoBatch, !.pk = LastKey(w.batch),
                              !.ver = LastVersion(w.batch, @)]
    <3>1. /\ w.table \in tables /\ IsBatch(w.batch) /\ w.ver \in Nat
          /\ InsertAccepted(w.table, w.batch, w.ver)
      BY <2>3, WorkerInsertAccepted
    <3>2. /\ w.pc = "insert" /\ UNCHANGED <<log, mysql>> /\ worker_files' = worker_files
          /\ marks \subseteq marks'
          /\ Becomes(w, v)
      BY <2>3 DEF WorkerInserts, source
    <3>3. BatchKept(w.batch, w.table, w.pk, w.id, threads)
      BY <1>5, <3>2 DEF WorkerKept
    <3>4. \A k \in Keys : k % threads = w.id /\ k > w.pk /\ k <= LastKey(w.batch) =>
            RowKept("tmp", w.table, k)'
      BY <1>1, <3>1, <3>2, <3>3, BatchInserted
    <3>5. \A k \in Keys : k % threads = w.id /\ k <= w.pk => RowKept("tmp", w.table, k)'
      BY <1>2, <1>5, <3>1 DEF WorkerKept
    <3>6. w.pk \in Nat /\ \A k \in Keys : k \in Nat
      BY <1>1, Basics DEF WorkerTypes, WorkerType, WorkersWith, NoKey
    <3>7. v.pc = "save" /\ v.table = w.table /\ v.id = w.id /\ v.pk = LastKey(w.batch)
          /\ v.view = w.view
      BY <1>1 DEF WorkerTypes, WorkerType, WorkersWith
    <3>8. \A x \in workers' : x \in workers \/ x = v
      BY <3>2 DEF Becomes
    <3> HIDE DEF v
    <3>9. WorkerKept(v)'
      <4>1. \A u \in v.view : ViewKept(u)'
        BY <1>5, <3>7, ViewKeptStep DEF WorkerKept
      <4> QED
        BY <1>1, <3>4, <3>5, <3>6, <3>7, <4>1 DEF WorkerKept
    <3>10. FilesKept'
      BY <1>6, <3>2
    <3> QED
      BY <1>5, <3>8, <3>9, <3>10
  <2> QED
    BY <2>2, <2>3
<1>8. CASE ~WorkerMoves
  <2>1. ~RestartReplication
    BY DEF Copying, RestartReplication, MemoryGone, NoState
  <2>2. /\ worker_files' = worker_files
        /\ \A v \in workers' :
             \/ v \in workers
             \/ \E w \in workers : v = [w EXCEPT !.own = FALSE]
             \/ LaunchWorkers /\ \E i : v = NewWorker(at, i)
    BY <1>8, <2>1, WorkersStep
  <2>3. FilesKept'
    BY <1>6, <2>2
  <2>4. ASSUME NEW v \in workers' PROVE WorkerKept(v)'
    <3>1. CASE v \in workers
      BY <1>5, <3>1
    <3>2. CASE \E w \in workers : v = [w EXCEPT !.own = FALSE]
      <4>1. PICK w \in workers : v = [w EXCEPT !.own = FALSE]
        BY <3>2
      <4>2. /\ v.table = w.table /\ v.id = w.id /\ v.pc = w.pc /\ v.pk = w.pk
            /\ v.batch = w.batch /\ v.view = w.view
        BY <1>1, <4>1 DEF WorkerTypes, WorkerType, WorkersWith
      <4>3. WorkerKept(v)
        BY <1>5, <4>2 DEF WorkerKept
      <4> QED
        BY <1>3, <1>5, <4>2, <4>3
    <3>3. CASE LaunchWorkers /\ \E i : v = NewWorker(at, i)
      <4>1. v.pc = "start" /\ v.pk = 0 /\ v.view = {}
        BY <3>3 DEF NewWorker, NoKey
      <4>2. \A k \in Keys : ~(k <= 0)
        BY DEF Keys
      <4> QED
        BY <4>1, <4>2 DEF WorkerKept
    <3> QED
      BY <2>2, <3>1, <3>2, <3>3
  <2> QED
    BY <2>3, <2>4
<1> QED
  BY <1>7, <1>8

LEMMA LastStep ==
    ASSUME InitialInv, [Next]_vars
    PROVE  saved'.last <= Len(log')
<1>1. Control /\ saved.last \in 0..Len(log) /\ Len(log) \in Nat /\ Len(log') \in Nat
      /\ Len(log) <= Len(log')
  <2>1. Control /\ saved.last \in Nat /\ saved.last <= Len(log) /\ Len(log) \in Nat
    <3>1. saved.last \in Nat
      BY Basics DEF StateType
    <3> QED
      BY <3>1 DEF InitialInv, SnapshotInv, SourceTypes
  <2>2. SourceTypes' /\ (log' = log \/ MySQLWrites)
    BY SourceStep, SetupStep
  <2>3. CASE MySQLWrites
    <3>1. log \in Seq(tables \X Keys) /\ \E t \in tables, k \in Keys : log' = Append(log, <<t, k>>)
      BY <2>3 DEF MySQLWrites, InitialInv, SourceTypes
    <3> QED
      BY <2>1, <3>1
  <2> QED
    BY <2>1, <2>2, <2>3 DEF SourceTypes
<1>11. CASE MySQLWrites
  BY <1>11, <1>1, Basics DEF MySQLWrites, memory, Save, Control, StateType
<1>12. CASE MySQLAlters
  BY <1>12, <1>1, Basics DEF MySQLAlters, memory, Save, Control, StateType
<1>13. CASE Start
  BY <1>13, <1>1, Basics DEF Start, memory, Save, Control, StateType, NoState
<1>14. CASE DropTmp
  BY <1>14, <1>1, Basics DEF DropTmp, memory, Save, Control, StateType
<1>15. CASE CreateTmp
  BY <1>15, <1>1, Basics DEF CreateTmp, memory, Save, Control, StateType
<1>16a. CASE ListTables
  BY <1>16a, <1>1 DEF ListTables
<1>16. CASE NotePosition
  BY <1>16, <1>1, Basics DEF NotePosition, memory, Save, Control, StateType, source
<1>17. CASE CreateTable
  BY <1>17, <1>1, Basics DEF CreateTable, memory, Save, Control, StateType
<1>18. CASE StructureCreated
  BY <1>18, <1>1, Basics DEF StructureCreated, memory, Save, Control, StateType
<1>19. CASE Perform
  BY <1>19, <1>1, Basics DEF Perform, memory, Save, Control, StateType
<1>20. CASE BeginTable
  <2>1. saved'.last = saved.last
    BY <1>20, <1>1, Basics DEF BeginTable, Save, StateType, Control
  <2> QED
    BY <1>1, <2>1
<1>21. CASE ReadBatch
  BY <1>21, <1>1, Basics DEF ReadBatch, memory, Save, Control, StateType
<1>22. CASE InsertBatch
  BY <1>22, <1>1, Basics DEF InsertBatch, memory, Save, Control, StateType
<1>23. CASE SaveAfterBatch
  <2>1. saved'.last = saved.last
    BY <1>23, <1>1, Basics DEF SaveAfterBatch, SaveDue, Save, StateType, Control
  <2> QED
    BY <1>1, <2>1
<1>24. CASE FinishTable
  BY <1>24, <1>1, Basics DEF FinishTable, memory, Save, Control, StateType, SaveDue
<1>25. CASE LaunchWorkers
  BY <1>25, <1>1, Basics DEF LaunchWorkers, memory, Save, Control, StateType
<1>26. CASE WorkersDone
  BY <1>26, <1>1, Basics DEF WorkersDone, memory, Save, Control, StateType
<1>27. CASE Verify
  BY <1>27, <1>1, Basics DEF Verify, memory, Save, Control, StateType
<1>28. CASE RenameTarget
  BY <1>28, <1>1, Basics DEF RenameTarget, memory, Save, Control, StateType
<1>29. CASE RenameTmp
  BY <1>29, <1>1, Basics DEF RenameTmp, memory, Save, Control, StateType
<1>30. CASE DropOld
  BY <1>30, <1>1, Basics DEF DropOld, memory, Save, Control, StateType
<1>31. CASE RunRealtime
  BY <1>31, <1>1, Basics DEF RunRealtime, memory, Save, Control, StateType
<1>32. CASE Ended
  BY <1>32, <1>1, Basics DEF Ended, memory, Save, Control, StateType, ProcessEnds, MemoryGone, NoState
<1>33. CASE WorkerMoves
  BY <1>33, <1>1, WorkerMoveFrame DEF WorkerMoves, source
<1>34. CASE RestartReplication
  BY <1>34, <1>1, Basics DEF RestartReplication, memory, Save, Control, StateType, ProcessEnds, MemoryGone, NoState
<1>35. CASE UNCHANGED vars
  BY <1>35, <1>1, Basics DEF vars, memory, Save, Control, StateType
<1> QED
  BY <1>11, <1>12, <1>13, <1>14, <1>15, <1>16a, <1>16, <1>17, <1>18, <1>19, <1>20, <1>21, <1>22, <1>23, <1>24, <1>25, <1>26, <1>27, <1>28, <1>29, <1>30, <1>31, <1>32, <1>33, <1>34, <1>35, Steps

LEMMA TargetStep ==
    ASSUME InitialInv, [Next]_vars
    PROVE  Exchanged' /\ ~RenameTmp => dbs'["target"] = dbs["target"]
<1>1. Control /\ (Exchanged => "target" \in DOMAIN dbs)
  BY DEF InitialInv, Databases
<1>2. Exchanged' => Exchanged \/ RenameTmp
  BY ExchangedStep
<1>11. CASE MySQLWrites
  BY <1>11, <1>1, <1>2 DEF MySQLWrites, memory, Save, Exchanged, Control, Starting, Reading, Ending
<1>12. CASE MySQLAlters
  BY <1>12, <1>1, <1>2 DEF MySQLAlters, memory, Save, Exchanged, Control, Starting, Reading, Ending
<1>13. CASE Start
  BY <1>13, <1>1, <1>2 DEF Start, memory, Save, Exchanged, Control, Starting, Reading, Ending
<1>14. CASE DropTmp
  BY <1>14, <1>1, <1>2 DEF DropTmp, memory, Save, Exchanged, Control, Starting, Reading, Ending, RenameDatabase, With, Without
<1>15. CASE CreateTmp
  BY <1>15, <1>1, <1>2 DEF CreateTmp, memory, Save, Exchanged, Control, Starting, Reading, Ending, RenameDatabase, With, Without
<1>16a. CASE ListTables
  BY <1>16a, <1>1, <1>2 DEF ListTables, memory, Save, Exchanged, Control, Starting, Reading, Ending
<1>16. CASE NotePosition
  BY <1>16, <1>1, <1>2 DEF NotePosition, memory, Save, Exchanged, Control, Starting, Reading, Ending
<1>17. CASE CreateTable
  BY <1>17, <1>1, <1>2 DEF CreateTable, memory, Save, Exchanged, Control, Starting, Reading, Ending
<1>18. CASE StructureCreated
  BY <1>18, <1>1, <1>2 DEF StructureCreated, memory, Save, Exchanged, Control, Starting, Reading, Ending
<1>19. CASE Perform
  BY <1>19, <1>1, <1>2 DEF Perform, memory, Save, Exchanged, Control, Starting, Reading, Ending
<1>20. CASE BeginTable
  BY <1>20, <1>1, <1>2 DEF BeginTable, memory, Save, Exchanged, Control, Starting, Reading, Ending
<1>21. CASE ReadBatch
  BY <1>21, <1>1, <1>2 DEF ReadBatch, memory, Save, Exchanged, Control, Starting, Reading, Ending
<1>22. CASE InsertBatch
  BY <1>22, <1>1, <1>2 DEF InsertBatch, memory, Save, Exchanged, Control, Starting, Reading, Ending, InsertAccepted
<1>23. CASE SaveAfterBatch
  BY <1>23, <1>1, <1>2 DEF SaveAfterBatch, memory, Save, Exchanged, Control, Starting, Reading, Ending
<1>24. CASE FinishTable
  BY <1>24, <1>1, <1>2 DEF FinishTable, memory, Save, Exchanged, Control, Starting, Reading, Ending
<1>25. CASE LaunchWorkers
  BY <1>25, <1>1, <1>2 DEF LaunchWorkers, memory, Save, Exchanged, Control, Starting, Reading, Ending
<1>26. CASE WorkersDone
  BY <1>26, <1>1, <1>2 DEF WorkersDone, memory, Save, Exchanged, Control, Starting, Reading, Ending
<1>27. CASE Verify
  BY <1>27, <1>1, <1>2 DEF Verify, memory, Save, Exchanged, Control, Starting, Reading, Ending
<1>28. CASE RenameTarget
  BY <1>28, <1>1, <1>2 DEF RenameTarget, memory, Save, Exchanged, Control, Starting, Reading, Ending, RenameDatabase, With, Without
<1>29. CASE RenameTmp
  BY <1>29
<1>30. CASE DropOld
  BY <1>30, <1>1, <1>2 DEF DropOld, memory, Save, Exchanged, Control, Starting, Reading, Ending, RenameDatabase, With, Without
<1>31. CASE RunRealtime
  BY <1>31, <1>1, <1>2 DEF RunRealtime, memory, Save, Exchanged, Control, Starting, Reading, Ending
<1>32. CASE Ended
  BY <1>32, <1>1, <1>2 DEF Ended, memory, Save, Exchanged, Control, Starting, Reading, Ending, ProcessEnds, MemoryGone
<1>33. CASE WorkerMoves
  BY <1>33, <1>1, <1>2 DEF WorkerMoves, memory, Save, Exchanged, Control, Starting, Reading, Ending, WorkerStep, WorkerCrash, WorkerStarts, WorkerReads, WorkerReadRefused, WorkerRefused, WorkerSaves, WorkerFinishes, WorkerInserts, InsertAccepted
<1>34. CASE RestartReplication
  BY <1>34, <1>1, <1>2 DEF RestartReplication, memory, Save, Exchanged, Control, Starting, Reading, Ending
<1>35. CASE UNCHANGED vars
  BY <1>35, <1>1, <1>2 DEF vars, memory, Save, Exchanged, Control, Starting, Reading, Ending
<1> QED
  BY <1>11, <1>12, <1>13, <1>14, <1>15, <1>16a, <1>16, <1>17, <1>18, <1>19, <1>20, <1>21, <1>22, <1>23, <1>24, <1>25, <1>26, <1>27, <1>28, <1>29, <1>30, <1>31, <1>32, <1>33, <1>34, <1>35, Steps

LEMMA RenamedTmp ==
    ASSUME InitialInv, RenameTmp
    PROVE  /\ "tmp" \in DOMAIN dbs /\ dbs'["target"] = dbs["tmp"]
           /\ Copying /\ \A t \in tables : Done(t)
<1>1. pc \in {"rename_tmp", "exchange"} /\ "tmp" \in DOMAIN dbs
      /\ dbs' = RenameDatabase("tmp", "target")
  BY DEF RenameTmp
<1>2. dbs'["target"] = dbs["tmp"]
  BY <1>1 DEF RenameDatabase, With
<1>3. at = setup.tables + 1
  BY <1>1 DEF InitialInv, Control, Ending
<1> QED
  BY <1>1, <1>2, <1>3, Basics DEF Copying, Done, Ending

(* The view that may be open when the position is noted.                   *)
LEMMA RecentView ==
    ASSUME InitialInv, [Next]_vars, pc' = "position", NEW v, v \in view'
    PROVE  ViewRecent(v)'
<1>1. Len(log) \in Nat /\ tables' = tables /\ SourceTypes
  BY SetupStep DEF InitialInv, SourceTypes
<1>2. v.last \in Nat /\ v.last <= Len(log)
      /\ \A t \in tables, k \in Keys : v.rows[t][k] = mysql[t][k] \/ EventAfter(v.last, t, k)
  <2>1. CASE ListTables
    <3>1. v = Snapshot
      BY <2>1 DEF ListTables
    <3> QED
      BY <1>1, <3>1 DEF Snapshot
  <2>2. CASE pc = "position" /\ view' = view
    BY <2>2 DEF InitialInv, SnapshotInv, ViewRecent
  <2> QED
    BY <2>1, <2>2, ViewStep
<1>3. PICK id, rows : id = v.last /\ rows = v.rows
  OBVIOUS
<1>4. id \in Nat /\ id <= Len(log)
      /\ \A t \in tables, k \in Keys : rows[t][k] = mysql[t][k] \/ EventAfter(id, t, k)
  BY <1>2, <1>3
<1>5. \A t \in tables, k \in Keys : rows[t][k] = mysql'[t][k] \/ EventAfter(id, t, k)'
  BY <1>4, RecentStep
<1>6. Len(log') \in Nat /\ id <= Len(log')
  <2>1. SourceTypes'
    BY SourceStep
  <2>2. CASE MySQLWrites
    <3>1. \E t \in tables, k \in Keys : log' = Append(log, <<t, k>>)
      BY <2>2 DEF MySQLWrites
    <3>2. log \in Seq(tables \X Keys)
      BY <1>1 DEF SourceTypes
    <3> QED
      BY <1>1, <1>4, <3>1, <3>2
  <2>3. CASE ~MySQLWrites
    BY <1>1, <1>4, <2>3, SetupStep
  <2> QED
    BY <2>2, <2>3
<1> QED
  BY <1>1, <1>3, <1>4, <1>5, <1>6 DEF ViewRecent

(* An event is after the position, or the view has it, or it is unseen.    *)
LEMMA KeptView ==
    ASSUME InitialInv, [Next]_vars, Copying', NEW v, v \in view'
    PROVE  ViewKept(v)'
<1>1. CASE ~NotePosition
  <2>1. Copying /\ pc' # "position"
    BY <1>1, CopyingStep DEF Copying, Reading
  <2>2. \A u \in view : ViewKept(u)
    BY <2>1 DEF InitialInv, SnapshotInv
  <2>3. v \in Readable(view)
    BY <2>1, ViewStep
  <2> QED
    BY <1>1, <2>2, <2>3, ReadableKept, ViewKeptStep
<1>2. CASE NotePosition
  <2>1. PICK id \in 0..Len(log) :
          /\ pc = "position" /\ state' = [state EXCEPT !.last = id] /\ saved' = state'
          /\ marks' = marks \cup {<<n, "unseen">> : n \in Unseen(id)}
          /\ UNCHANGED <<source, view>>
    BY <1>2 DEF NotePosition, Save
  <2>2. saved'.last = id /\ ViewRecent(v) /\ log' = log /\ mysql' = mysql /\ tables' = tables
    BY <2>1, Basics DEF InitialInv, SnapshotInv, StateType, source, tables
  <2>3. ASSUME NEW t \in tables, NEW k \in Keys, EventAfter(v.last, t, k)
        PROVE  EventAfter(saved.last, t, k)' \/ EventUnseen(t, k)'
    <3>1. PICK n \in (v.last + 1)..Len(log) : log[n] = <<t, k>>
      BY <2>3 DEF EventAfter
    <3>2. v.last \in Nat /\ Len(log) \in Nat /\ n \in 1..Len(log) /\ n > v.last
      <4>1. v.last \in Nat
        BY <2>2 DEF ViewRecent
      <4>2. SourceTypes
        BY DEF InitialInv
      <4>3. Len(log) \in Nat
        BY <4>2 DEF SourceTypes
      <4> QED
        BY <3>1, <4>1, <4>3
    <3>3. CASE n <= id
      <4>1. n \in Unseen(id)
        BY <2>1, <3>2, <3>3 DEF Unseen
      <4> QED
        BY <2>1, <2>2, <3>1, <3>2, <4>1 DEF EventUnseen
    <3>4. CASE n > id
      BY <2>2, <3>1, <3>2, <3>4 DEF EventAfter
    <3> QED
      BY <3>2, <3>3, <3>4
  <2> QED
    BY <2>2, <2>3 DEF ViewKept, ViewRecent, Kept
<1> QED
  BY <1>1, <1>2

LEMMA SnapshotStep ==
    ASSUME InitialInv, [Next]_vars
    PROVE  SnapshotInv'
<1>1. tables' = tables /\ threads' = threads
  BY SetupStep
<1>2. ASSUME OneCopy', Copying', ~NotePosition PROVE CopyKept'
  BY <1>2, RowsGoodStep, ProgressKeptStep, WorkersKeptStep DEF CopyKept
<1>3. ASSUME OneCopy', Copying', NotePosition PROVE CopyKept'
  <2>1. /\ pc = "position" /\ pc' = "structure" /\ UNCHANGED <<dbs, worker_files, workers>>
        /\ saved'.table = state.table
    BY <1>3, Basics DEF NotePosition, Save, StateType
  <2>2. saved.status \in {"none", "creating"} /\ state.table = NoTable /\ DOMAIN dbs["tmp"] = {}
    BY <2>1 DEF InitialInv, Control, Databases, Starting
  <2>3. OneCopy /\ WorkersOfCopy
    BY <1>3, OneCopyStep DEF InitialInv
  <2>4. workers = {} /\ DOMAIN worker_files = {}
    BY <2>2, <2>3 DEF WorkersOfCopy
  <2>5. RowsGood'
    <3>1. \A t \in tables, k \in Keys : Value(dbs["tmp"], t, k)' = NoValue
      BY <2>1, <2>2 DEF Value
    <3>2. \A t \in tables : ~Done(t)'
      BY <2>1, <2>2, Basics DEF Done, Ending, NoTable
    <3> QED
      BY <1>1, <3>1, <3>2 DEF RowsGood
  <2> QED
    BY <2>1, <2>2, <2>4, <2>5 DEF CopyKept, ProgressKept, FilesKept
<1>4. ASSUME OneCopy', Exchanged'
      PROVE  \A t \in tables, k \in Keys : RowKept("target", t, k)'
  <2>1. OneCopy /\ saved'.last = saved.last /\ marks \subseteq marks'
    BY <1>4, OneCopyStep, ExchangedStep
  <2>2. ASSUME NEW t \in tables, NEW k \in Keys,
               Kept(Value(dbs'["target"], t, k), t, k)
        PROVE  RowKept("target", t, k)'
    <3>1. PICK v : v = Value(dbs'["target"], t, k)
      OBVIOUS
    <3>2. v = mysql'[t][k] \/ EventAfter(saved.last, t, k)' \/ EventUnseen(t, k)'
      BY <2>1, <2>2, <3>1, KeptStep
    <3>3. Value(dbs["target"], t, k)' = v
      BY <3>1 DEF Value
    <3> QED
      BY <3>2, <3>3 DEF RowKept, Kept
  <2>3. CASE RenameTmp
    <3>1. CopyKept /\ \A t \in tables : Done(t)
      BY <2>1, <2>3, RenamedTmp DEF InitialInv, SnapshotInv
    <3>2. \A t \in tables, k \in Keys : Kept(Value(dbs["tmp"], t, k), t, k)
      BY <3>1 DEF CopyKept, RowsGood, RowKept
    <3> QED
      BY <2>2, <2>3, <3>2, RenamedTmp
  <2>4. CASE ~RenameTmp
    <3>1. Exchanged /\ dbs'["target"] = dbs["target"]
      BY <1>4, <2>4, ExchangedStep, TargetStep
    <3>2. \A t \in tables, k \in Keys : Kept(Value(dbs["target"], t, k), t, k)
      BY <2>1, <3>1 DEF InitialInv, SnapshotInv, RowKept
    <3> QED
      BY <2>2, <3>1, <3>2
  <2> QED
    BY <2>3, <2>4
<1>5. ASSUME pc' = "position", NEW v \in view' PROVE ViewRecent(v)'
  BY <1>5, RecentView
<1>6. ASSUME Copying', NEW v \in view' PROVE ViewKept(v)'
  BY <1>6, KeptView
<1> QED
  BY <1>1, <1>2, <1>3, <1>4, <1>5, <1>6, LastStep DEF SnapshotInv

LEMMA InsertedRow ==
    ASSUME InitialInv, NEW t \in tables, NEW b, IsBatch(b), NEW last \in Nat,
           InsertAccepted(t, b, last), tables' = tables
    PROVE  /\ DOMAIN dbs'["tmp"] = DOMAIN dbs["tmp"] /\ LastVersion(b, last) \in Nat
           /\ last <= LastVersion(b, last)
           /\ \A s \in DOMAIN dbs["tmp"] : dbs'["tmp"][s].st = dbs["tmp"][s].st
           /\ \A s \in DOMAIN dbs["tmp"], k \in Keys :
                LET row == dbs'["tmp"][s].rows[k]
                IN  \/ row = dbs["tmp"][s].rows[k]
                    \/ /\ s = t /\ k \in DOMAIN b /\ row.st = b[k].st
                       /\ row.ver \in 1..LastVersion(b, last)
<1>1. /\ t \in DOMAIN dbs["tmp"]
      /\ dbs["tmp"][t].rows \in [Keys -> RowType]
      /\ DOMAIN dbs'["tmp"] = DOMAIN dbs["tmp"]
      /\ \A s \in DOMAIN dbs["tmp"] : dbs'["tmp"][s].st = dbs["tmp"][s].st
      /\ \A s \in DOMAIN dbs["tmp"] \ {t} : dbs'["tmp"][s] = dbs["tmp"][s]
      /\ dbs'["tmp"][t].rows = Inserted(dbs["tmp"][t].rows, b, last)
  BY InsertDb
<1>2. /\ LastVersion(b, last) \in Nat /\ last <= LastVersion(b, last)
      /\ \A k \in Keys :
           LET row == Inserted(dbs["tmp"][t].rows, b, last)[k]
           IN  \/ row = dbs["tmp"][t].rows[k] /\ (k \in DOMAIN b => dbs["tmp"][t].rows[k].ver # 0)
               \/ /\ k \in DOMAIN b /\ row.val = b[k].val /\ row.st = b[k].st
                  /\ row.ver \in 1..LastVersion(b, last)
  BY <1>1, InsertedRows
<1> QED
  BY <1>1, <1>2

(* What an insert into target_tmp may change. *)
LEMMA TmpRows ==
    ASSUME InitialInv, [Next]_vars, Copying', ~NotePosition, ~CreateTable
    PROVE  /\ DOMAIN dbs'["tmp"] = DOMAIN dbs["tmp"]
           /\ \A s \in DOMAIN dbs["tmp"] : dbs'["tmp"][s].st = dbs["tmp"][s].st
           /\ \A s \in DOMAIN dbs["tmp"], k \in Keys :
                LET row == dbs'["tmp"][s].rows[k]
                IN  \/ row = dbs["tmp"][s].rows[k]
                    \/ /\ InsertBatch /\ s = at /\ k \in DOMAIN batch /\ row.st = batch[k].st
                       /\ row.ver \in 1..versions'[at] /\ versions[at] <= versions'[at]
                    \/ \E w \in workers :
                         /\ WorkerInserts(w) /\ s = w.table /\ k \in DOMAIN w.batch
                         /\ row.st = w.batch[k].st
<1>1. tables' = tables
  BY SetupStep
<1>2. CASE InsertBatch
  <2>1. /\ at \in tables /\ IsBatch(batch) /\ versions[at] \in Nat
        /\ InsertAccepted(at, batch, versions[at])
    BY <1>2, InsertBatchAccepted
  <2>2. versions'[at] = LastVersion(batch, versions[at])
    BY <1>2, <2>1, Basics DEF InsertBatch, InitialInv, StateTypes
  <2> QED
    BY <1>1, <1>2, <2>1, <2>2, InsertedRow
<1>3. CASE \E w \in workers : WorkerInserts(w)
  <2>1. PICK w \in workers : WorkerInserts(w)
    BY <1>3
  <2>2. /\ w.table \in tables /\ IsBatch(w.batch) /\ w.ver \in Nat
        /\ InsertAccepted(w.table, w.batch, w.ver)
    BY <2>1, WorkerInsertAccepted
  <2> QED
    BY <1>1, <2>1, <2>2, InsertedRow
<1>4. CASE dbs'["tmp"] = dbs["tmp"]
  BY <1>4
<1> QED
  BY <1>2, <1>3, <1>4, TmpStep

LEMMA StructureOfStep ==
    ASSUME InitialInv, [Next]_vars
    PROVE  Copying' /\ ~NotePosition =>
             \A t \in Tables :
               \/ StructureOf(t)' = StructureOf(t)
               \/ CreateTable /\ t = at /\ StructureOf(t)' = structure[at]
<1>1. Control /\ pc \in Points
  BY DEF InitialInv, MemoryTypes
<1>11. CASE MySQLWrites
  BY <1>11, <1>1, Basics DEF MySQLWrites, Copying, StructureOf, memory, Save, Control, StateType, Starting, Reading, Ending
<1>12. CASE MySQLAlters
  BY <1>12, <1>1, Basics DEF MySQLAlters, Copying, StructureOf, memory, Save, Control, StateType, Starting, Reading, Ending
<1>13. CASE Start
  BY <1>13, <1>1, Basics DEF Start, Copying, StructureOf, memory, Save, Control, StateType, Starting, Reading, Ending, NoState
<1>14. CASE DropTmp
  BY <1>14, <1>1, Basics DEF DropTmp, Copying, StructureOf, memory, Save, Control, StateType, Starting, Reading, Ending
<1>15. CASE CreateTmp
  BY <1>15, <1>1, Basics DEF CreateTmp, Copying, StructureOf, memory, Save, Control, StateType, Starting, Reading, Ending
<1>16a. CASE ListTables
  BY <1>16a, <1>1, Basics DEF ListTables, Copying, Reading
<1>16. CASE NotePosition
  BY <1>16
<1>17. CASE CreateTable
  BY <1>17, <1>1, Basics DEF CreateTable, Copying, StructureOf, memory, Save, Control, StateType, Starting, Reading, Ending
<1>18. CASE StructureCreated
  BY <1>18, <1>1, Basics DEF StructureCreated, Copying, StructureOf, memory, Save, Control, StateType, Starting, Reading, Ending
<1>19. CASE Perform
  BY <1>19, <1>1, Basics DEF Perform, Copying, StructureOf, memory, Save, Control, StateType, Starting, Reading, Ending
<1>20. CASE BeginTable
  BY <1>20, <1>1, Basics DEF BeginTable, Copying, StructureOf, memory, Save, Control, StateType, Starting, Reading, Ending
<1>21. CASE ReadBatch
  BY <1>21, <1>1, Basics DEF ReadBatch, Copying, StructureOf, memory, Save, Control, StateType, Starting, Reading, Ending
<1>22. CASE InsertBatch
  BY <1>22, <1>1, Basics DEF InsertBatch, Copying, StructureOf, memory, Save, Control, StateType, Starting, Reading, Ending
<1>23. CASE SaveAfterBatch
  BY <1>23, <1>1, Basics DEF SaveAfterBatch, Copying, StructureOf, memory, Save, Control, StateType, Starting, Reading, Ending, SaveDue
<1>24. CASE FinishTable
  BY <1>24, <1>1, Basics DEF FinishTable, Copying, StructureOf, memory, Save, Control, StateType, Starting, Reading, Ending, SaveDue
<1>25. CASE LaunchWorkers
  BY <1>25, <1>1, Basics DEF LaunchWorkers, Copying, StructureOf, memory, Save, Control, StateType, Starting, Reading, Ending
<1>26. CASE WorkersDone
  BY <1>26, <1>1, Basics DEF WorkersDone, Copying, StructureOf, memory, Save, Control, StateType, Starting, Reading, Ending
<1>27. CASE Verify
  BY <1>27, <1>1, Basics DEF Verify, Copying, StructureOf, memory, Save, Control, StateType, Starting, Reading, Ending
<1>28. CASE RenameTarget
  BY <1>28, <1>1, Basics DEF RenameTarget, Copying, StructureOf, memory, Save, Control, StateType, Starting, Reading, Ending
<1>29. CASE RenameTmp
  BY <1>29, <1>1, Basics DEF RenameTmp, Copying, StructureOf, memory, Save, Control, StateType, Starting, Reading, Ending
<1>30. CASE DropOld
  BY <1>30, <1>1, Basics DEF DropOld, Copying, StructureOf, memory, Save, Control, StateType, Starting, Reading, Ending
<1>31. CASE RunRealtime
  BY <1>31, <1>1, Basics DEF RunRealtime, Copying, StructureOf, memory, Save, Control, StateType, Starting, Reading, Ending
<1>32. CASE Ended
  BY <1>32, <1>1, Basics DEF Ended, Copying, StructureOf, memory, Save, Control, StateType, Starting, Reading, Ending, ProcessEnds, MemoryGone, NoState
<1>33. CASE WorkerMoves
  BY <1>33, <1>1, WorkerMoveFrame DEF WorkerMoves, Copying, StructureOf, memory, Save, Control, StateType, Starting, Reading, Ending
<1>34. CASE RestartReplication
  BY <1>34, <1>1, Basics DEF RestartReplication, Copying, StructureOf, memory, Save, Control, StateType, Starting, Reading, Ending, ProcessEnds, MemoryGone, NoState
<1>35. CASE UNCHANGED vars
  BY <1>35, <1>1, Basics DEF vars, Copying, StructureOf, memory, Save, Control, StateType, Starting, Reading, Ending
<1> QED
  BY <1>11, <1>12, <1>13, <1>14, <1>15, <1>16a, <1>16, <1>17, <1>18, <1>19, <1>20, <1>21, <1>22, <1>23, <1>24, <1>25, <1>26, <1>27, <1>28, <1>29, <1>30, <1>31, <1>32, <1>33, <1>34, <1>35, Steps

LEMMA VerifiedStep ==
    ASSUME InitialInv, [Next]_vars
    PROVE  pc' \in {"exchange", "rename_tmp"} => Verify \/ pc \in {"exchange", "rename_tmp"}
<1>11. CASE MySQLWrites
  BY <1>11 DEF MySQLWrites, memory
<1>12. CASE MySQLAlters
  BY <1>12 DEF MySQLAlters, memory
<1>13. CASE Start
  BY <1>13 DEF Start, memory
<1>14. CASE DropTmp
  BY <1>14 DEF DropTmp, memory
<1>15. CASE CreateTmp
  BY <1>15 DEF CreateTmp, memory
<1>16a. CASE ListTables
  BY <1>16a DEF ListTables, memory
<1>16. CASE NotePosition
  BY <1>16 DEF NotePosition, memory
<1>17. CASE CreateTable
  BY <1>17 DEF CreateTable, memory
<1>18. CASE StructureCreated
  BY <1>18 DEF StructureCreated, memory
<1>19. CASE Perform
  BY <1>19 DEF Perform, memory
<1>20. CASE BeginTable
  BY <1>20 DEF BeginTable, memory
<1>21. CASE ReadBatch
  BY <1>21 DEF ReadBatch, memory
<1>22. CASE InsertBatch
  BY <1>22 DEF InsertBatch, memory
<1>23. CASE SaveAfterBatch
  BY <1>23 DEF SaveAfterBatch, memory
<1>24. CASE FinishTable
  BY <1>24 DEF FinishTable, memory
<1>25. CASE LaunchWorkers
  BY <1>25 DEF LaunchWorkers, memory
<1>26. CASE WorkersDone
  BY <1>26 DEF WorkersDone, memory
<1>27. CASE Verify
  BY <1>27
<1>28. CASE RenameTarget
  BY <1>28 DEF RenameTarget, memory
<1>29. CASE RenameTmp
  BY <1>29 DEF RenameTmp, memory
<1>30. CASE DropOld
  BY <1>30 DEF DropOld, memory
<1>31. CASE RunRealtime
  BY <1>31 DEF RunRealtime, memory
<1>32. CASE Ended
  BY <1>32 DEF Ended, memory, ProcessEnds, MemoryGone
<1>33. CASE WorkerMoves
  BY <1>33, WorkerMoveFrame DEF WorkerMoves, memory
<1>34. CASE RestartReplication
  BY <1>34 DEF RestartReplication, memory, ProcessEnds, MemoryGone
<1>35. CASE UNCHANGED vars
  BY <1>35 DEF vars, memory
<1> QED
  BY <1>11, <1>12, <1>13, <1>14, <1>15, <1>16a, <1>16, <1>17, <1>18, <1>19, <1>20, <1>21, <1>22, <1>23, <1>24, <1>25, <1>26, <1>27, <1>28, <1>29, <1>30, <1>31, <1>32, <1>33, <1>34, <1>35, Steps

(* While the copy counts, a table that is unaltered has been unaltered. *)
LEMMA UnalteredStep ==
    ASSUME InitialInv, [Next]_vars, Copying', ~NotePosition, NEW t \in Tables,
           ~(CreateTable /\ t = at), Unaltered(t)'
    PROVE  Unaltered(t) /\ StructureOf(t)' = StructureOf(t) /\ structure'[t] = structure[t]
<1>1. StructureOf(t)' = StructureOf(t)
  BY StructureOfStep
<1>2. structure'[t] = StructureOf(t) /\ <<t, "returned">> \notin marks'
  BY <1>1 DEF Unaltered
<1>3. <<t, "returned">> \notin marks
  <2>1. CASE CreateTable
    BY <1>2, <2>1 DEF CreateTable
  <2>2. CASE ~CreateTable
    BY <1>2, <2>2, CopyingStep
  <2> QED
    BY <2>1, <2>2
<1>4. structure'[t] = structure[t]
  <2>1. CASE MySQLAlters
    <3>1. PICK u \in tables, st \in 0..setup.alters :
            /\ structure' = [structure EXCEPT ![u] = st]
            /\ marks' = IF st = StructureOf(u) THEN marks \cup {<<u, "returned">>} ELSE marks
      BY <2>1 DEF MySQLAlters
    <3>2. structure \in [Tables -> 0..setup.alters]
      BY DEF InitialInv, SourceTypes
    <3>3. CASE u = t
      <4>1. structure'[t] = st
        BY <3>1, <3>2, <3>3
      <4>2. <<t, "returned">> \in marks'
        BY <1>2, <3>1, <3>3, <4>1
      <4> QED
        BY <1>2, <4>2
    <3>4. CASE u # t
      BY <3>1, <3>2, <3>4
    <3> QED
      BY <3>3, <3>4
  <2>2. CASE ~MySQLAlters
    BY <2>2, SetupStep
  <2> QED
    BY <2>1, <2>2
<1> QED
  BY <1>1, <1>2, <1>3, <1>4 DEF Unaltered

LEMMA TablesUnmixedStep ==
    ASSUME InitialInv, [Next]_vars, OneCopy', Copying', ~NotePosition
    PROVE  TablesUnmixed'
<1>1. CopyUnmixed /\ OneCopy /\ Copying
  BY OneCopyStep, CopyingStep DEF InitialInv, UnmixedInv
<1>2. TablesUnmixed
  BY <1>1 DEF CopyUnmixed
<1>3. \A t \in DOMAIN dbs["tmp"] : t \in Tables
  BY <1>1, Basics DEF Copying, InitialInv, DbTypes, IsDb
<1>4. CASE CreateTable
  <2>1. /\ at \notin DOMAIN dbs["tmp"] /\ DOMAIN dbs'["tmp"] = DOMAIN dbs["tmp"] \cup {at}
        /\ \A t \in DOMAIN dbs["tmp"] : dbs'["tmp"][t] = dbs["tmp"][t]
        /\ dbs'["tmp"][at] = [st |-> structure[at], rows |-> [k \in Keys |-> NoRow]]
    BY <1>4, CreateTableDb
  <2>2. OneStructure(dbs'["tmp"][at]) /\ dbs'["tmp"][at].st = structure[at]
    BY <2>1 DEF NoRow, OneStructure
  <2>3. ASSUME NEW t, t = at PROVE StructureOf(t)' = structure[at]
    <3>1. /\ pc' = pc /\ pc = "structure" /\ at \in Tables
          /\ state'.structure = [state.structure EXCEPT ![at] = structure[at]]
      BY <1>4, Basics DEF CreateTable, StateType
    <3>2. state.structure \in [Tables -> Nat \cup {-1}]
      BY Basics DEF StateType
    <3>3. state'.structure[at] = structure[at]
      BY <3>1, <3>2
    <3> QED
      BY <2>3, <3>1, <3>3 DEF StructureOf
  <2>4. ASSUME NEW t \in DOMAIN dbs["tmp"]
        PROVE  /\ dbs'["tmp"][t].st = StructureOf(t)'
               /\ Unaltered(t)' => OneStructure(dbs'["tmp"][t])
    <3>1. t # at /\ t \in Tables /\ StructureOf(t)' = StructureOf(t)
      BY <1>3, <1>4, <2>1, StructureOfStep
    <3> QED
      BY <1>2, <2>1, <3>1, UnalteredStep DEF TablesUnmixed
  <2>5. ASSUME NEW t \in DOMAIN dbs'["tmp"]
        PROVE  /\ dbs'["tmp"][t].st = StructureOf(t)'
               /\ Unaltered(t)' => OneStructure(dbs'["tmp"][t])
    <3>1. CASE t = at
      BY <2>2, <2>3, <3>1
    <3>2. CASE t # at
      BY <2>1, <2>4, <3>2
    <3> QED
      BY <3>1, <3>2
  <2> QED
    BY <2>5 DEF TablesUnmixed, OneStructure
<1>5. CASE ~CreateTable
  <2>1. \A t \in DOMAIN dbs["tmp"] : StructureOf(t)' = StructureOf(t)
    BY <1>3, <1>5, StructureOfStep
  <2>2. /\ DOMAIN dbs'["tmp"] = DOMAIN dbs["tmp"]
        /\ \A t \in DOMAIN dbs["tmp"] : dbs'["tmp"][t].st = dbs["tmp"][t].st
    BY <1>5, TmpRows
  <2>3. ASSUME NEW t \in DOMAIN dbs["tmp"], Unaltered(t)', NEW k \in Keys
        PROVE  \/ dbs'["tmp"][t].rows[k] = dbs["tmp"][t].rows[k]
               \/ dbs'["tmp"][t].rows[k].st = dbs["tmp"][t].st
    <3>1. Unaltered(t)
      BY <1>3, <1>5, <2>3, UnalteredStep
    <3>2. CASE InsertBatch /\ t = at /\ k \in DOMAIN batch /\ dbs'["tmp"][t].rows[k].st = batch[k].st
      BY <1>1, <3>1, <3>2 DEF CopyUnmixed, BatchUnmixed, InsertBatch
    <3>3. CASE \E w \in workers : /\ WorkerInserts(w) /\ t = w.table /\ k \in DOMAIN w.batch
                                  /\ dbs'["tmp"][t].rows[k].st = w.batch[k].st
      BY <1>1, <3>1, <3>3 DEF CopyUnmixed, BatchUnmixed, WorkerInserts
    <3> QED
      BY <1>5, <3>2, <3>3, TmpRows
  <2>4. ASSUME NEW t \in DOMAIN dbs["tmp"], Unaltered(t)'
        PROVE  OneStructure(dbs'["tmp"][t])
    <3>1. OneStructure(dbs["tmp"][t])
      BY <1>2, <1>3, <1>5, <2>4, UnalteredStep DEF TablesUnmixed
    <3> QED
      BY <2>2, <2>3, <2>4, <3>1 DEF OneStructure
  <2>5. ASSUME NEW t \in DOMAIN dbs'["tmp"]
        PROVE  /\ dbs'["tmp"][t].st = StructureOf(t)'
               /\ Unaltered(t)' => OneStructure(dbs'["tmp"][t])
    BY <1>2, <2>1, <2>2, <2>4 DEF TablesUnmixed
  <2> QED
    BY <2>5 DEF TablesUnmixed, OneStructure
<1> QED
  BY <1>4, <1>5

(* What is read of an unaltered table has the structure of the copy.       *)
LEMMA RecordsUnmixed ==
    ASSUME InitialInv, Copying, TablesUnmixed, NEW v, IsView(v), NEW t \in tables,
           NEW pk \in Keys \cup {NoKey}, NEW i, NEW n
    PROVE  IsBatch(Records(v, t, pk, i, n)) /\ BatchUnmixed(Records(v, t, pk, i, n), t)
<1>1. SourceTypes /\ t \in Tables
  BY Basics DEF InitialInv
<1>2. /\ IsBatch(Records(v, t, pk, i, n))
      /\ \A k \in DOMAIN Records(v, t, pk, i, n) : Records(v, t, pk, i, n)[k].st = structure[t]
  BY <1>1, RecordsRead
<1> QED
  BY <1>2 DEF BatchUnmixed, TablesUnmixed, Unaltered

LEMMA BatchUnmixedStep ==
    ASSUME InitialInv, [Next]_vars, OneCopy', Copying', ~NotePosition, ~CreateTable,
           NEW b, NEW t \in tables, BatchUnmixed(b, t)
    PROVE  BatchUnmixed(b, t)'
<1>1. /\ DOMAIN dbs'["tmp"] = DOMAIN dbs["tmp"]
      /\ \A s \in DOMAIN dbs["tmp"] : dbs'["tmp"][s].st = dbs["tmp"][s].st
  BY TmpRows
<1>2. Unaltered(t)' => Unaltered(t)
  BY Basics, UnalteredStep
<1> QED
  BY <1>1, <1>2 DEF BatchUnmixed

LEMMA BatchesUnmixedStep ==
    ASSUME InitialInv, [Next]_vars, OneCopy', Copying', ~NotePosition
    PROVE  /\ pc' = "insert" => BatchUnmixed(batch, at)'
           /\ \A w \in workers' : w.pc = "insert" => BatchUnmixed(w.batch, w.table)'
<1>1. CopyUnmixed /\ TablesUnmixed /\ OneCopy /\ Copying
  BY OneCopyStep, CopyingStep DEF InitialInv, UnmixedInv, CopyUnmixed
<1>2. /\ Control /\ MemoryTypes /\ WorkersOfCopy /\ SourceTypes
      /\ \A w \in workers : /\ w.table \in tables /\ IsBatch(w.batch) /\ w.pk \in Keys \cup {NoKey}
                           /\ DOMAIN w = {"table", "id", "own", "pc", "pk", "ver", "batch",
                                          "view", "fresh"}
                           /\ AreViews(w.view)
  BY DEF InitialInv, WorkerTypes, WorkerType, WorkersWith
<1>3. CASE CreateTable
  <2>1. pc' = "structure" /\ pc = "structure" /\ workers' = workers
    BY <1>3 DEF CreateTable
  <2>2. workers = {}
    BY <1>1, <1>2, <2>1 DEF Control, Starting, WorkersOfCopy
  <2> QED
    BY <2>1, <2>2
<1>4. CASE ~CreateTable
  <2>1. \A b : \A t \in tables : BatchUnmixed(b, t) => BatchUnmixed(b, t)'
    BY <1>4, BatchUnmixedStep
  <2>2. pc' = "insert" => BatchUnmixed(batch, at)'
    <3> SUFFICES ASSUME pc' = "insert" PROVE BatchUnmixed(batch, at)'
      OBVIOUS
    <3>1. PICK b, t : b = batch' /\ t = at'
      OBVIOUS
    <3>2. t \in tables /\ BatchUnmixed(b, t)
      <4>1. CASE ReadBatch
        <5>1. PICK v \in Readable(view) :
                batch' = Records(v, at, max_pk, 0, 1) /\ at' = at /\ pc = "read"
          BY <4>1 DEF ReadBatch
        <5>2. at \in tables /\ max_pk \in Keys \cup {NoKey} /\ IsView(v)
          BY <1>2, <5>1, ReadableViews DEF Control, Reading, MemoryTypes
        <5> QED
          BY <1>1, <3>1, <5>1, <5>2, RecordsUnmixed
      <4>2. CASE pc = "insert" /\ UNCHANGED <<batch, at, max_pk>>
        BY <1>1, <1>2, <3>1, <4>2 DEF CopyUnmixed, Control, Reading
      <4> QED
        BY <4>1, <4>2, BatchStep
    <3>3. BatchUnmixed(b, t)'
      BY <2>1, <3>2
    <3> QED
      BY <3>1, <3>3 DEF BatchUnmixed, Unaltered, StructureOf
  <2>3. \A w \in workers : w.pc = "insert" => BatchUnmixed(w.batch, w.table)'
    BY <1>1, <1>2, <2>1 DEF CopyUnmixed
  <2>4. ASSUME NEW v \in workers', v.pc = "insert"
        PROVE  BatchUnmixed(v.batch, v.table)'
    <3>1. CASE v \in workers
      BY <2>3, <2>4, <3>1
    <3>2. CASE WorkerMoves /\ v \notin workers
      <4>1. PICK w \in workers : WorkerStep(w) \/ WorkerCrash(w)
        BY <3>2 DEF WorkerMoves
      <4>2. CASE WorkerReads(w)
        <5>1. PICK u \in Readable(w.view) :
                v = [w EXCEPT !.pc = "insert", !.batch = WorkerRecords(w, u), !.view = {u}]
          BY <3>2, <4>2 DEF WorkerReads, Becomes
        <5>2. v.table = w.table /\ v.batch = Records(u, w.table, w.pk, w.id, threads)
          BY <1>2, <5>1 DEF WorkerRecords
        <5>3. IsView(u)
          BY <1>2, ReadableViews
        <5>4. BatchUnmixed(v.batch, v.table)
          BY <1>1, <1>2, <5>2, <5>3, RecordsUnmixed
        <5> QED
          BY <1>2, <2>1, <5>2, <5>4
      <4>3. CASE ~WorkerReads(w)
        <5>1. \E x : Becomes(w, x) /\ x.pc # "insert"
          <6>1. CASE WorkerStarts(w)
            <7>1. PICK p, q : Becomes(w, [w EXCEPT !.pc = "read", !.view = {Snapshot},
                                                   !.pk = p, !.ver = q])
              BY <6>1 DEF WorkerStarts
            <7> DEFINE x == [w EXCEPT !.pc = "read", !.view = {Snapshot}, !.pk = p, !.ver = q]
            <7>2. Becomes(w, x) /\ x.pc = "read"
              BY <1>2, <7>1
            <7> HIDE DEF x
            <7> QED
              BY <7>2
          <6>2. CASE WorkerInserts(w)
            <7> DEFINE x == [w EXCEPT !.pc = "save", !.batch = NoBatch, !.pk = LastKey(w.batch),
                                      !.ver = LastVersion(w.batch, @)]
            <7>1. Becomes(w, x) /\ x.pc = "save"
              BY <1>2, <6>2 DEF WorkerInserts
            <7> HIDE DEF x
            <7> QED
              BY <7>1
          <6>3. CASE WorkerSaves(w) \/ WorkerFinishes(w) \/ WorkerReadRefused(w) \/ WorkerRefused(w) \/ WorkerCrash(w)
            <7>1. \/ Becomes(w, [w EXCEPT !.pc = "read", !.fresh = FALSE])
                  \/ Becomes(w, [w EXCEPT !.pc = "done", !.view = {}])
                  \/ Becomes(w, [w EXCEPT !.pc = "failed", !.view = {}])
              BY <6>3 DEF WorkerSaves, WorkerFinishes, WorkerReadRefused, WorkerRefused, WorkerCrash
            <7> DEFINE x == [w EXCEPT !.pc = "read", !.fresh = FALSE]
                       y == [w EXCEPT !.pc = "done", !.view = {}]
                       z == [w EXCEPT !.pc = "failed", !.view = {}]
            <7>2. x.pc = "read" /\ y.pc = "done" /\ z.pc = "failed"
              BY <1>2
            <7>3. Becomes(w, x) \/ Becomes(w, y) \/ Becomes(w, z)
              BY <7>1
            <7> HIDE DEF x, y, z
            <7> QED
              BY <7>2, <7>3
          <6> QED
            BY <4>1, <4>3, <6>1, <6>2, <6>3 DEF WorkerStep
        <5> QED
          BY <2>4, <3>2, <5>1 DEF Becomes
      <4> QED
        BY <4>2, <4>3
    <3>3. CASE ~WorkerMoves /\ v \notin workers
      <4>1. ~RestartReplication
        BY DEF Copying, RestartReplication, MemoryGone, NoState
      <4>2. \/ \E w \in workers : v = [w EXCEPT !.own = FALSE]
            \/ \E i : v = NewWorker(at, i)
        BY <3>3, <4>1, WorkersStep
      <4>3. ~(\E i : v = NewWorker(at, i))
        BY <2>4 DEF NewWorker
      <4>4. PICK w \in workers : v = [w EXCEPT !.own = FALSE]
        BY <4>2, <4>3
      <4>5. v.table = w.table /\ v.batch = w.batch /\ v.pc = w.pc
        BY <1>2, <4>4
      <4> QED
        BY <2>3, <2>4, <4>5
    <3> QED
      BY <3>1, <3>2, <3>3
  <2> QED
    BY <2>2, <2>4
<1> QED
  BY <1>3, <1>4

(* When the structures agree, a table has one structure or its ALTERs were *)
(* reverted; a row that comes later is marked.                             *)
LEMMA RowsUnmixedStep ==
    ASSUME InitialInv, [Next]_vars, OneCopy', Copying', pc' \in {"exchange", "rename_tmp"}
    PROVE  RowsUnmixed("tmp")'
<1>1. ~NotePosition /\ ~CreateTable /\ ~InsertBatch
  BY DEF NotePosition, CreateTable, InsertBatch
<1>2. CopyUnmixed /\ TablesUnmixed /\ marks \subseteq marks' /\ Copying
  BY <1>1, OneCopyStep, CopyingStep DEF InitialInv, UnmixedInv, CopyUnmixed
<1>3. /\ DOMAIN dbs'["tmp"] = DOMAIN dbs["tmp"]
      /\ \A s \in DOMAIN dbs["tmp"] : dbs'["tmp"][s].st = dbs["tmp"][s].st
      /\ \A s \in DOMAIN dbs["tmp"], k \in Keys :
           \/ dbs'["tmp"][s].rows[k] = dbs["tmp"][s].rows[k]
           \/ \E w \in workers : WorkerInserts(w) /\ s = w.table
  BY <1>1, TmpRows
<1>4. \A t \in DOMAIN dbs["tmp"] : t \in tables
  BY <1>2 DEF Copying, InitialInv, DbTypes, IsDb
<1>5. CASE Verify
  <2>1. pc = "table" /\ dbs' = dbs /\ \A t \in tables : state.structure[t] = structure[t]
    BY <1>5 DEF Verify, Verified
  <2>2. ASSUME NEW t \in DOMAIN dbs["tmp"]
        PROVE  OneStructure(dbs["tmp"][t]) \/ <<t, "returned">> \in marks
    BY <1>2, <1>4, <2>1, <2>2 DEF TablesUnmixed, StructureOf, Unaltered
  <2> QED
    BY <1>2, <2>1, <2>2 DEF RowsUnmixed, OneStructure
<1>6. CASE pc \in {"exchange", "rename_tmp"}
  <2>1. RowsUnmixed("tmp")
    BY <1>2, <1>6 DEF CopyUnmixed
  <2>2. ASSUME NEW w \in workers, WorkerInserts(w)
        PROVE  <<w.table, "late">> \in marks'
    <3>1. at = setup.tables + 1 /\ ~w.own /\ w.table \in tables
      BY <1>6 DEF InitialInv, Control, Ending, OwnWorkers, Own, WorkerTypes, WorkerType, WorkersWith
    <3>2. at > w.table
      BY <3>1, Basics
    <3> QED
      BY <2>2, <3>1, <3>2 DEF WorkerInserts
  <2>3. ASSUME NEW t \in DOMAIN dbs["tmp"]
        PROVE  OneStructure(dbs'["tmp"][t]) \/ {<<t, "late">>, <<t, "returned">>} \cap marks' # {}
    <3>1. CASE \E w \in workers : WorkerInserts(w) /\ t = w.table
      BY <2>2, <3>1
    <3>2. CASE {<<t, "late">>, <<t, "returned">>} \cap marks # {}
      BY <1>2, <3>2
    <3>3. CASE OneStructure(dbs["tmp"][t]) /\ ~\E w \in workers : WorkerInserts(w) /\ t = w.table
      <4>1. \A k \in Keys : dbs'["tmp"][t].rows[k] = dbs["tmp"][t].rows[k]
        BY <1>3, <3>3
      <4> QED
        BY <1>3, <3>3, <4>1 DEF OneStructure
    <3> QED
      BY <2>1, <3>1, <3>2, <3>3 DEF RowsUnmixed
  <2> QED
    BY <1>3, <2>3 DEF RowsUnmixed, OneStructure
<1> QED
  BY <1>5, <1>6, VerifiedStep

LEMMA UnmixedStep ==
    ASSUME InitialInv, [Next]_vars
    PROVE  UnmixedInv'
<1>1. ASSUME OneCopy', Copying', ~NotePosition PROVE CopyUnmixed'
  BY <1>1, TablesUnmixedStep, BatchesUnmixedStep, RowsUnmixedStep DEF CopyUnmixed
<1>2. ASSUME OneCopy', Copying', NotePosition PROVE CopyUnmixed'
  <2>1. pc = "position" /\ pc' = "structure" /\ UNCHANGED <<dbs, workers>>
    BY <1>2 DEF NotePosition
  <2>2. saved.status \in {"none", "creating"} /\ DOMAIN dbs["tmp"] = {}
    BY <2>1 DEF InitialInv, Control, Databases, Starting
  <2>3. workers = {}
    BY <1>2, <2>2, OneCopyStep DEF InitialInv, WorkersOfCopy
  <2> QED
    BY <2>1, <2>2, <2>3 DEF CopyUnmixed, TablesUnmixed
<1>3. ASSUME OneCopy', Exchanged' PROVE RowsUnmixed("target")'
  <2>1. OneCopy /\ marks \subseteq marks'
    BY <1>3, OneCopyStep, ExchangedStep
  <2>2. CASE RenameTmp
    <3>1. pc \in {"exchange", "rename_tmp"}
      BY <2>2 DEF RenameTmp
    <3>2. RowsUnmixed("tmp") /\ dbs'["target"] = dbs["tmp"]
      BY <2>1, <2>2, <3>1, RenamedTmp DEF InitialInv, UnmixedInv, CopyUnmixed
    <3> QED
      BY <2>1, <3>2 DEF RowsUnmixed, OneStructure
  <2>3. CASE ~RenameTmp
    <3>1. Exchanged /\ dbs'["target"] = dbs["target"]
      BY <1>3, <2>3, ExchangedStep, TargetStep
    <3>2. RowsUnmixed("target")
      BY <2>1, <3>1 DEF InitialInv, UnmixedInv
    <3> QED
      BY <2>1, <3>1, <3>2 DEF RowsUnmixed, OneStructure
  <2> QED
    BY <2>2, <2>3
<1> QED
  BY <1>1, <1>2, <1>3 DEF UnmixedInv

LEMMA LateMark ==
    ASSUME InitialInv, NEW w \in workers, WorkerInserts(w), Done(w.table)
    PROVE  <<w.table, "late">> \in marks'
<1>1. w.table \in tables /\ w.table \in Nat /\ saved.table \in Nat /\ at \in Nat
  BY Basics DEF InitialInv, WorkerTypes, WorkerType, WorkersWith
<1>2. w.own => pc = "wait" /\ w.table = at /\ saved.table = at
  BY DEF InitialInv, OwnWorkers, Own, Control
<1>3. at > w.table \/ saved.table # w.table
  BY <1>1 DEF Done
<1>4. ~w.own
  BY <1>1, <1>2 DEF Done, Ending
<1> QED
  BY <1>3, <1>4 DEF WorkerInserts

(* consolidate_worker_record_versions loses no version, and finds the      *)
(* highest one of the table unless it is renamed.                          *)
LEMMA Consolidated ==
    ASSUME InitialInv, pc = "wait"
    PROVE  /\ \A t \in Tables : state.versions[t] <= ConsolidatedVersions(at)[t]
           /\ "tmp" \in DOMAIN dbs /\ at \in DOMAIN dbs["tmp"] /\ at \notin Renamed =>
                \A k \in Keys : dbs["tmp"][at].rows[k].ver <= ConsolidatedVersions(at)[at]
<1> DEFINE vers == {dbs["tmp"][at].rows[k].ver : k \in Keys}
           known == "tmp" \in DOMAIN dbs /\ at \in DOMAIN dbs["tmp"]
<1>1. /\ at \in tables /\ at \in Tables /\ state.versions \in [Tables -> Nat]
      /\ \A t \in Tables : state.versions[t] \in Nat
  <2>1. at \in tables
    BY DEF InitialInv, Control
  <2> QED
    BY <2>1, Basics DEF StateType
<1>2. known => /\ Max(vers) \in Nat
               /\ \A k \in Keys : dbs["tmp"][at].rows[k].ver <= Max(vers)
  BY <1>1, HighestVersion
<1>3. known => \A k \in Keys : dbs["tmp"][at].rows[k].ver \in Nat
  <2>1. known => dbs["tmp"][at] \in TableType
    BY DEF InitialInv, DbTypes, IsDb
  <2> QED
    BY <2>1 DEF TableType, RowType
<1>4. ConsolidatedVersions(at) =
        IF known /\ at \notin Renamed /\ Max(vers) > state.versions[at]
          THEN [state.versions EXCEPT ![at] = Max(vers)] ELSE state.versions
  BY DEF ConsolidatedVersions
<1> HIDE DEF vers
<1>5. CASE known /\ at \notin Renamed /\ Max(vers) > state.versions[at]
  <2>1. ConsolidatedVersions(at) = [state.versions EXCEPT ![at] = Max(vers)]
    BY <1>4, <1>5
  <2> QED
    BY <1>1, <1>2, <1>5, <2>1
<1>6. CASE ~(known /\ at \notin Renamed /\ Max(vers) > state.versions[at])
  <2>1. ConsolidatedVersions(at) = state.versions
    BY <1>4, <1>6
  <2>2. known /\ at \notin Renamed => ~(Max(vers) > state.versions[at])
    BY <1>6
  <2> QED
    BY <1>1, <1>2, <1>3, <2>1, <2>2
<1> QED
  BY <1>5, <1>6

(* A process that ends marks the tables whose versions it takes back.      *)
LEMMA KnownStep ==
    ASSUME InitialInv, [Next]_vars
    PROVE  (Copying' \/ Exchanged') =>
             \A t \in Tables :
               \/ KnownVersions[t] <= KnownVersions'[t]
               \/ <<t, "versions">> \in marks'
<1>1. /\ versions \in [Tables -> Nat] /\ state.versions \in [Tables -> Nat]
      /\ saved.versions \in [Tables -> Nat] /\ threads' = threads
  BY SetupStep, Basics DEF InitialInv, StateTypes, StateType
<1>2. Control
  BY DEF InitialInv
<1>3. \A t \in Tables : /\ versions[t] \in Nat /\ state.versions[t] \in Nat
                        /\ saved.versions[t] \in Nat
  BY <1>1
<1>4. KnownVersions' = KnownVersions => \A t \in Tables : KnownVersions[t] <= KnownVersions'[t]
  BY <1>3 DEF KnownVersions
<1>5. pc \in Reading => threads = 1
  BY <1>2 DEF Control
<1>11. CASE MySQLWrites
  <2>1. KnownVersions' = KnownVersions
    BY <1>11, <1>1, <1>5, Basics DEF MySQLWrites, KnownVersions, memory, Save, StateType
  <2> QED
    BY <1>4, <2>1
<1>12. CASE MySQLAlters
  <2>1. KnownVersions' = KnownVersions
    BY <1>12, <1>1, <1>5, Basics DEF MySQLAlters, KnownVersions, memory, Save, StateType
  <2> QED
    BY <1>4, <2>1
<1>13. CASE Start
  <2>1. CASE saved.status # "none" /\ "target" \notin DOMAIN dbs /\ "tmp" \notin DOMAIN dbs
    BY <1>13, <2>1 DEF Start, NoState, Copying, Exchanged, Reading
  <2>2. CASE ~(saved.status # "none" /\ "target" \notin DOMAIN dbs /\ "tmp" \notin DOMAIN dbs)
    <3>1. KnownVersions' = KnownVersions
      BY <1>13, <1>1, <2>2 DEF Start, KnownVersions
    <3> QED
      BY <1>4, <3>1
  <2> QED
    BY <2>1, <2>2
<1>14. CASE DropTmp
  <2>1. KnownVersions' = KnownVersions
    BY <1>14, <1>1, <1>5, Basics DEF DropTmp, KnownVersions, memory, Save, StateType
  <2> QED
    BY <1>4, <2>1
<1>15. CASE CreateTmp
  <2>1. KnownVersions' = KnownVersions
    BY <1>15, <1>1, <1>5, Basics DEF CreateTmp, KnownVersions, memory, Save, StateType
  <2> QED
    BY <1>4, <2>1
<1>16a. CASE ListTables
  <2>1. KnownVersions' = KnownVersions
    BY <1>16a, <1>1, <1>5, Basics DEF ListTables, KnownVersions, memory, Save, StateType
  <2> QED
    BY <1>4, <2>1
<1>16. CASE NotePosition
  <2>1. KnownVersions' = KnownVersions
    BY <1>16, <1>1, <1>5, Basics DEF NotePosition, KnownVersions, memory, Save, StateType
  <2> QED
    BY <1>4, <2>1
<1>17. CASE CreateTable
  <2>1. KnownVersions' = KnownVersions
    BY <1>17, <1>1, <1>5, Basics DEF CreateTable, KnownVersions, memory, Save, StateType
  <2> QED
    BY <1>4, <2>1
<1>18. CASE StructureCreated
  <2>1. KnownVersions' = KnownVersions
    BY <1>18, <1>1, <1>5, Basics DEF StructureCreated, KnownVersions, memory, Save, StateType
  <2> QED
    BY <1>4, <2>1
<1>19. CASE Perform
  <2>1. KnownVersions' = KnownVersions
    BY <1>19, <1>1, <1>5, Basics DEF Perform, KnownVersions, memory, Save, StateType
  <2> QED
    BY <1>4, <2>1
<1>20. CASE BeginTable
  <2>1. KnownVersions' = KnownVersions
    BY <1>20, <1>1, <1>5, Basics DEF BeginTable, KnownVersions, memory, Save, StateType
  <2> QED
    BY <1>4, <2>1
<1>21. CASE ReadBatch
  <2>1. KnownVersions' = KnownVersions
    BY <1>21, <1>1, <1>5, Basics DEF ReadBatch, KnownVersions, memory, Save, StateType, Reading
  <2> QED
    BY <1>4, <2>1
<1>22. CASE InsertBatch
  <2>1. /\ pc # "down" /\ pc' # "down" /\ threads = 1
        /\ versions' = [versions EXCEPT ![at] = LastVersion(batch, versions[at])]
    BY <1>22, <1>5 DEF InsertBatch, Reading
  <2>2. /\ at \in tables /\ IsBatch(batch) /\ versions[at] \in Nat
        /\ InsertAccepted(at, batch, versions[at])
    BY <1>22, InsertBatchAccepted
  <2>3. LastVersion(batch, versions[at]) \in Nat /\ versions[at] <= LastVersion(batch, versions[at])
    BY <2>2, SetupStep, InsertedRow
  <2> QED
    BY <1>1, <1>3, <2>1, <2>3 DEF KnownVersions
<1>23. CASE SaveAfterBatch
  <2>1. KnownVersions' = KnownVersions
    BY <1>23, <1>1, <1>5, Basics DEF SaveAfterBatch, KnownVersions, memory, Save, StateType, SaveDue, Reading
  <2> QED
    BY <1>4, <2>1
<1>24. CASE FinishTable
  <2>1. KnownVersions' = KnownVersions
    BY <1>24, <1>1, <1>5, Basics DEF FinishTable, KnownVersions, memory, Save, StateType, SaveDue, Reading
  <2> QED
    BY <1>4, <2>1
<1>25. CASE LaunchWorkers
  <2>1. KnownVersions' = KnownVersions
    BY <1>25, <1>1, <1>5, Basics DEF LaunchWorkers, KnownVersions, memory, Save, StateType
  <2> QED
    BY <1>4, <2>1
<1>26. CASE WorkersDone
  <2>1. pc = "wait" /\ pc' = "table" /\ threads # 1 /\ state'.versions = ConsolidatedVersions(at)
    BY <1>26, <1>2, Basics DEF WorkersDone, Save, StateType, Control
  <2> QED
    BY <1>1, <2>1, Consolidated DEF KnownVersions
<1>27. CASE Verify
  <2>1. KnownVersions' = KnownVersions
    BY <1>27, <1>1, <1>5, Basics DEF Verify, KnownVersions, memory, Save, StateType
  <2> QED
    BY <1>4, <2>1
<1>28. CASE RenameTarget
  <2>1. KnownVersions' = KnownVersions
    BY <1>28, <1>1, <1>5, Basics DEF RenameTarget, KnownVersions, memory, Save, StateType
  <2> QED
    BY <1>4, <2>1
<1>29. CASE RenameTmp
  <2>1. KnownVersions' = KnownVersions
    BY <1>29, <1>1, <1>5, Basics DEF RenameTmp, KnownVersions, memory, Save, StateType
  <2> QED
    BY <1>4, <2>1
<1>30. CASE DropOld
  <2>1. KnownVersions' = KnownVersions
    BY <1>30, <1>1, <1>5, Basics DEF DropOld, KnownVersions, memory, Save, StateType
  <2> QED
    BY <1>4, <2>1
<1>31. CASE RunRealtime
  <2>1. KnownVersions' = KnownVersions
    BY <1>31, <1>1, <1>5, Basics DEF RunRealtime, KnownVersions, memory, Save, StateType
  <2> QED
    BY <1>4, <2>1
<1>32. CASE Ended
  <2>1. /\ pc # "down" /\ pc' = "down" /\ saved' = saved
        /\ \A t \in Tables : versions[t] # saved.versions[t] => <<t, "versions">> \in marks'
    BY <1>32 DEF Ended, ProcessEnds, MemoryGone
  <2>2. threads # 1 => state.versions = saved.versions
    BY <1>2, <2>1 DEF Control
  <2>3. KnownVersions' = saved.versions
    BY <2>1 DEF KnownVersions
  <2>4. KnownVersions = IF threads # 1 THEN saved.versions ELSE versions
    BY <2>1, <2>2 DEF KnownVersions
  <2>5. CASE threads # 1
    BY <1>3, <2>3, <2>4, <2>5
  <2>6. CASE threads = 1
    <3>1. KnownVersions = versions
      BY <2>4, <2>6
    <3>2. ASSUME NEW t \in Tables
          PROVE  KnownVersions[t] <= KnownVersions'[t] \/ <<t, "versions">> \in marks'
      <4>1. CASE versions[t] = saved.versions[t]
        <5>1. versions[t] \in Nat
          BY <1>3
        <5>2. versions[t] <= saved.versions[t]
          BY <4>1, <5>1
        <5> QED
          BY <2>3, <3>1, <5>2
      <4>2. CASE versions[t] # saved.versions[t]
        <5>1. <<t, "versions">> \in marks'
          BY <2>1, <4>2, Zenon
        <5> QED
          BY <5>1
      <4> QED
        BY <4>1, <4>2
    <3> QED
      BY <3>2
  <2> QED
    BY <2>5, <2>6
<1>33. CASE WorkerMoves
  <2>1. KnownVersions' = KnownVersions
    BY <1>33, <1>1, WorkerMoveFrame DEF KnownVersions, memory
  <2> QED
    BY <1>4, <2>1
<1>34. CASE RestartReplication
  BY <1>34 DEF RestartReplication, MemoryGone, NoState, Copying, Exchanged
<1>35. CASE UNCHANGED vars
  <2>1. KnownVersions' = KnownVersions
    BY <1>35, <1>1, <1>5, Basics DEF vars, KnownVersions, memory, Save, StateType
  <2> QED
    BY <1>4, <2>1
<1> QED
  BY <1>11, <1>12, <1>13, <1>14, <1>15, <1>16a, <1>16, <1>17, <1>18, <1>19, <1>20, <1>21, <1>22, <1>23, <1>24, <1>25, <1>26, <1>27, <1>28, <1>29, <1>30, <1>31, <1>32, <1>33, <1>34, <1>35, Steps

LEMMA VersionsStep ==
    ASSUME InitialInv, [Next]_vars
    PROVE  VersionsInv'
<1>1. tables' = tables /\ threads' = threads /\ Control /\ VersionsInv
  BY SetupStep DEF InitialInv
<1>2. \A t \in Tables : KnownVersions[t] \in Nat /\ KnownVersions'[t] \in Nat
  BY StateTypesStep, Basics DEF InitialInv, KnownVersions, StateTypes, StateType
<1>3. /\ "tmp" \in DOMAIN dbs => \A t \in DOMAIN dbs["tmp"] : t \in tables /\ t \in Tables
      /\ "target" \in DOMAIN dbs => \A t \in DOMAIN dbs["target"] : t \in tables /\ t \in Tables
  BY Basics DEF InitialInv, DbTypes, IsDb
<1>4. \A d \in DOMAIN dbs : \A t \in DOMAIN dbs[d], k \in Keys : dbs[d][t].rows[k].ver \in Nat
  <2>1. \A d \in DOMAIN dbs : \A t \in DOMAIN dbs[d] : dbs[d][t] \in TableType
    BY DEF InitialInv, DbTypes, IsDb
  <2> QED
    BY <2>1 DEF TableType, RowType
<1>5. ASSUME Copying', NEW t \in DOMAIN dbs'["tmp"], threads = 1 \/ Done(t)'
      PROVE  RowsCovered("tmp", t)'
  <2>1. CASE NotePosition
    BY <1>5, <2>1 DEF NotePosition, InitialInv, Databases
  <2>2. CASE CreateTable
    <3>1. /\ DOMAIN dbs'["tmp"] = DOMAIN dbs["tmp"] \cup {at} /\ ~NotePosition
          /\ \A s \in DOMAIN dbs["tmp"] : dbs'["tmp"][s] = dbs["tmp"][s]
          /\ dbs'["tmp"][at] = [st |-> structure[at], rows |-> [k \in Keys |-> NoRow]]
          /\ at \in Tables
      BY <2>2, CreateTableDb, Basics DEF CreateTable, NotePosition
    <3>2. CASE t = at
      <4>1. \A k \in Keys : dbs'["tmp"][t].rows[k].ver = 0
        BY <3>1, <3>2 DEF NoRow
      <4> QED
        BY <1>2, <3>1, <3>2, <4>1 DEF RowsCovered
    <3>3. CASE t # at
      <4>1. /\ t \in DOMAIN dbs["tmp"] /\ dbs'["tmp"][t] = dbs["tmp"][t] /\ Copying
            /\ (Done(t)' => Done(t)) /\ "tmp" \in DOMAIN dbs
            /\ \A m \in marks : m[2] # "returned" => m \in marks'
        BY <1>3, <1>5, <3>1, <3>3, CopyingStep DEF Copying
      <4>2. RowsCovered("tmp", t)
        BY <1>1, <1>5, <4>1 DEF VersionsInv
      <4>3. KnownVersions[t] <= KnownVersions'[t] \/ <<t, "versions">> \in marks'
        BY <1>3, <1>5, <4>1, KnownStep
      <4> QED
        BY <1>1, <1>2, <1>3, <1>4, <4>1, <4>2, <4>3 DEF RowsCovered
    <3> QED
      BY <3>2, <3>3
  <2>3. CASE ~NotePosition /\ ~CreateTable
    <3>1. /\ t \in DOMAIN dbs["tmp"] /\ Copying /\ marks \subseteq marks' /\ "tmp" \in DOMAIN dbs
          /\ t \in tables /\ t \in Tables
      BY <1>3, <1>5, <2>3, CopyingStep, TmpRows DEF Copying
    <3>2. KnownVersions[t] <= KnownVersions'[t] \/ <<t, "versions">> \in marks'
      BY <1>5, <3>1, KnownStep
    <3>3. CASE WorkersDone /\ t = at
      <4>1. /\ pc = "wait" /\ pc' = "table" /\ threads # 1 /\ dbs' = dbs
            /\ state'.versions = ConsolidatedVersions(at)
        BY <1>1, <3>3, Basics DEF WorkersDone, Save, StateType, Control
      <4>2. KnownVersions' = ConsolidatedVersions(at)
        BY <1>1, <4>1 DEF KnownVersions
      <4> QED
        BY <1>1, <3>1, <3>3, <4>1, <4>2, Consolidated DEF RowsCovered
    <3>4. CASE ~(WorkersDone /\ t = at)
      <4>1. FinishTable => threads = 1
        BY <1>1 DEF FinishTable, Control, Reading
      <4>2. threads = 1 \/ Done(t)
        BY <1>5, <2>3, <3>1, <3>4, <4>1, CopyingStep
      <4>3. RowsCovered("tmp", t)
        BY <1>1, <3>1, <4>2 DEF VersionsInv
      <4>4. CASE \E w \in workers : WorkerInserts(w) /\ t = w.table
        <5>1. PICK w \in workers : WorkerInserts(w) /\ t = w.table
          BY <4>4
        <5>2. Done(w.table)
          BY <4>2, <5>1 DEF InitialInv, NoWorkers
        <5>3. <<t, "late">> \in marks'
          BY <5>1, <5>2, LateMark
        <5> QED
          BY <5>3 DEF RowsCovered
      <4>5. CASE ~(\E w \in workers : WorkerInserts(w) /\ t = w.table)
        <5>1. ASSUME NEW k \in Keys
              PROVE  \/ dbs'["tmp"][t].rows[k] = dbs["tmp"][t].rows[k]
                     \/ dbs'["tmp"][t].rows[k].ver <= KnownVersions'[t]
          <6>1. CASE InsertBatch /\ t = at /\ dbs'["tmp"][t].rows[k].ver \in 1..versions'[at]
            <7>1. pc' # "down" /\ threads' = 1 /\ t = at
              BY <1>1, <6>1 DEF InsertBatch, Control, Reading
            <7>2. KnownVersions'[t] = versions'[at]
              BY <7>1 DEF KnownVersions
            <7> QED
              BY <1>2, <3>1, <6>1, <7>2
          <6>2. CASE dbs'["tmp"][t].rows[k] = dbs["tmp"][t].rows[k]
            BY <6>2
          <6> QED
            BY <1>5, <2>3, <3>1, <4>5, <6>1, <6>2, TmpRows
        <5> QED
          BY <1>1, <1>2, <1>4, <3>1, <3>2, <4>3, <5>1 DEF RowsCovered
      <4> QED
        BY <4>4, <4>5
    <3> QED
      BY <3>3, <3>4
  <2> QED
    BY <2>1, <2>2, <2>3
<1>6. ASSUME Exchanged', NEW t \in DOMAIN dbs'["target"]
      PROVE  RowsCovered("target", t)'
  <2>1. marks \subseteq marks'
    BY <1>6, ExchangedStep
  <2>2. ASSUME NEW d \in DOMAIN dbs, t \in DOMAIN dbs[d], dbs'["target"] = dbs[d], t \in Tables,
               RowsCovered(d, t)
        PROVE  RowsCovered("target", t)'
    <3>1. KnownVersions[t] <= KnownVersions'[t] \/ <<t, "versions">> \in marks'
      BY <1>6, <2>2, KnownStep
    <3> QED
      BY <1>1, <1>2, <1>4, <2>1, <2>2, <3>1 DEF RowsCovered
  <2>3. CASE RenameTmp
    <3>1. /\ "tmp" \in DOMAIN dbs /\ dbs'["target"] = dbs["tmp"] /\ Copying
          /\ t \in DOMAIN dbs["tmp"] /\ t \in tables /\ t \in Tables /\ Done(t)
      BY <1>3, <1>6, <2>3, RenamedTmp
    <3>2. RowsCovered("tmp", t)
      BY <1>1, <3>1 DEF VersionsInv
    <3> QED
      BY <2>2, <3>1, <3>2
  <2>4. CASE ~RenameTmp
    <3>1. Exchanged /\ dbs'["target"] = dbs["target"]
      BY <1>6, <2>4, ExchangedStep, TargetStep
    <3>2. "target" \in DOMAIN dbs
      BY <3>1 DEF InitialInv, Databases
    <3>3. RowsCovered("target", t) /\ t \in Tables
      BY <1>1, <1>3, <1>6, <3>1, <3>2 DEF VersionsInv
    <3> QED
      BY <1>6, <2>2, <3>1, <3>2, <3>3
  <2> QED
    BY <2>3, <2>4
<1> QED
  BY <1>1, <1>5, <1>6 DEF VersionsInv

-----------------------------------------------------------------------------
LEMMA InitialInvInit == Init => InitialInv
<1> SUFFICES ASSUME Init PROVE InitialInv
  OBVIOUS
<1>1. /\ setup \in Setups /\ setup.tables \in Tables /\ setup.alters \in Nat
      /\ threads \in Nat \ {0} /\ tables \subseteq Tables
      /\ setup.tables \in Nat /\ setup.crashes \in Nat
  <2>1. setup \in [threads : Nat \ {0}, tables : Tables, alters : Nat, resets : Nat,
             crashes : Nat]
    BY DEF Init
  <2> QED
    BY <2>1 DEF Init, Tables, tables, threads
<1>2. SourceTypes
  <2>1. log \in Seq(tables \X Keys) /\ Len(log) <= MaxLog
    BY DEF Init
  <2>2. /\ mysql \in [Tables -> [Keys -> -1..MaxLog]]
        /\ \A t \in Tables \ tables : \A k \in Keys : mysql[t][k] = NoValue
    <3>1. NoValue \in -1..MaxLog /\ 0 \in -1..MaxLog
      BY DEF NoValue
    <3>2. mysql = [t \in Tables |-> [k \in Keys |->
                     IF t \in tables /\ k \in InitialKeys THEN 0 ELSE NoValue]]
      BY DEF Init
    <3> QED
      BY <3>1, <3>2
  <2> QED
    BY <1>1, <2>1, <2>2 DEF Init, SourceTypes
<1>3. DbTypes
  <2>1. PICK names \in {{}, {"target"}} : dbs = [d \in names |-> EmptyDb]
    BY DEF Init
  <2> QED
    BY <2>1, EmptyIsDb DEF DbTypes
<1>4. NoState \in StateType
  <2>1. /\ [t \in Tables |-> 0] \in [Tables -> Nat]
        /\ [t \in Tables |-> -1] \in [Tables -> Nat \cup {-1}]
    OBVIOUS
  <2> QED
    BY <2>1 DEF NoState, StateType, Statuses
<1>5. StateTypes
  BY <1>4 DEF Init, StateTypes, NoState, StateType
<1>6. MemoryTypes
  BY <1>1, NoBatchIsBatch DEF Init, MemoryTypes, Points, NoTable, AreViews
<1>7. WorkerTypes /\ NoWorkers /\ OwnWorkers
  BY DEF Init, WorkerTypes, NoWorkers, OwnWorkers, Own
<1>8. Control /\ Databases /\ WorkersOfCopy
  BY DEF Init, Control, Databases, WorkersOfCopy, NoState, Starting, Reading, Ending, Exchanged
<1>9. SnapshotInv /\ UnmixedInv /\ VersionsInv
  BY DEF Init, SnapshotInv, UnmixedInv, VersionsInv, Copying, Exchanged, NoState
<1> QED
  BY <1>2, <1>3, <1>5, <1>6, <1>7, <1>8, <1>9 DEF InitialInv

LEMMA InitialInvStep == InitialInv /\ [Next]_vars => InitialInv'
BY SourceStep, DbTypesStep, StateTypesStep, MemoryTypesStep, WorkerTypesStep, NoWorkersStep,
   OwnWorkersStep, ControlStep, DatabasesStep, WorkersOfCopyStep, SnapshotStep, UnmixedStep,
   VersionsStep
   DEF InitialInv

LEMMA OwnCardinality ==
    ASSUME InitialInv
    PROVE  Cardinality(Own) = IF pc = "wait" THEN threads ELSE 0
<1>1. CASE pc # "wait"
  <2>1. Own = {}
    BY <1>1 DEF InitialInv, OwnWorkers
  <2> QED
    BY <1>1, <2>1, FS_EmptySet
<1>2. CASE pc = "wait"
  <2> DEFINE S == 0..(threads - 1)
             f == [i \in S |-> CHOOSE w \in Own : w.id = i]
  <2>1. /\ \A i \in S : f[i] \in Own /\ f[i].id = i
        /\ \A v, w \in Own : v.id = w.id => v = w
        /\ \A w \in Own : w.id \in S
    BY <1>2 DEF InitialInv, OwnWorkers, Own, WorkerTypes, WorkerType, WorkersWith
  <2>2. f \in Bijection(S, Own)
    <3>1. f \in [S -> Own]
      BY <2>1
    <3>2. \A i, j \in S : f[i] = f[j] => i = j
      BY <2>1
    <3>3. \A w \in Own : \E i \in S : f[i] = w
      BY <2>1
    <3> HIDE DEF f
    <3> QED
      BY <3>1, <3>2, <3>3, Fun_IsBij
  <2>3. threads \in Nat \ {0}
    BY Basics
  <2>4. IsFiniteSet(S) /\ Cardinality(S) = threads
    BY <2>3, FS_Interval
  <2>5. ExistsBijection(S, Own)
    BY <2>2 DEF ExistsBijection
  <2> HIDE DEF S, f
  <2>6. Cardinality(Own) = Cardinality(S)
    BY <2>4, <2>5, FS_Bijection
  <2> QED
    BY <1>2, <2>4, <2>6
<1> QED
  BY <1>1, <1>2

(* The variables keep their types; in particular exactly the workers of     *)
(* the table at hand belong to a process that waits for them, and none to   *)
(* any other, whatever crashes and however many orphans there are.          *)
THEOREM InitialTypeCorrect == Spec => []TypeOK
<1>1. ASSUME InitialInv PROVE TypeOK
  <2>1. /\ mysql \in [Tables -> [Keys -> -1..MaxLog]] /\ Len(log) <= MaxLog /\ setup \in Setups
        /\ structure \in [Tables -> 0..setup.alters] /\ altered \in [Tables -> Nat]
    <3>1. setup.alters \in Nat
      BY <1>1 DEF InitialInv, SourceTypes
    <3> QED
      BY <1>1, <3>1 DEF InitialInv, SourceTypes
  <2>2. /\ DOMAIN dbs \subseteq {"target", "tmp", "old"}
        /\ \A d \in DOMAIN dbs : DOMAIN dbs[d] \subseteq Tables
    BY <1>1, Basics DEF InitialInv, DbTypes, IsDb
  <2>3. /\ {saved.status, state.status} \subseteq Statuses
        /\ {saved.table, state.table} \subseteq Tables \cup {NoTable}
        /\ {saved.pk, state.pk, max_pk} \subseteq Keys \cup {NoKey}
        /\ linked => state.versions = versions
    BY <1>1, Basics DEF InitialInv, StateTypes, StateType, MemoryTypes
  <2>4. /\ DOMAIN worker_files \subseteq Tables \X (0..(threads - 1))
        /\ \A w \in workers : w.pc \in WorkerPoints /\ w.table \in Tables
    BY <1>1, Basics DEF InitialInv, WorkerTypes, WorkerType, WorkersWith
  <2>5. /\ pc \in Points /\ at \in 0..(TableCount + 1) /\ DOMAIN batch \subseteq Keys
        /\ marks \subseteq Marks
        /\ \A v \in view : v.rows \in [Tables -> [Keys -> -1..MaxLog]] /\ view = {v}
    <3>1. setup.tables \in Tables /\ MemoryTypes
      BY <1>1 DEF InitialInv, SourceTypes
    <3>2. DOMAIN batch \subseteq Keys
      BY <3>1, BatchKeys DEF MemoryTypes
    <3> QED
      BY <3>1, <3>2 DEF MemoryTypes, Tables, AreViews, IsView
  <2> QED
    BY <1>1, <2>1, <2>2, <2>3, <2>4, <2>5, OwnCardinality DEF TypeOK
<1> QED
  BY <1>1, InitialInvInit, InitialInvStep, PTL DEF Spec

(* However the copy was interrupted, resumed or repeated, when the tables   *)
(* take the place of target every row of MySQL is there, or an event that   *)
(* realtime replication applies will bring it, or an event about it came    *)
(* between get_tables, whose connection may have opened the view that is    *)
(* copied, and the position.  All later views are newer than the position,  *)
(* and a restart resumes from the key that state.pckl or the file of a      *)
(* worker has.  With workers this is said of a copy that met neither a      *)
(* restart_replication request nor an interrupted exchange; without them of *)
(* every copy.                                                              *)
THEOREM SnapshotsAreCovered == Spec => [](OneCopy => SnapshotCovered)
<1>1. ASSUME InitialInv, OneCopy PROVE SnapshotCovered
  <2> SUFFICES ASSUME Exchanged
               PROVE  /\ "target" \in DOMAIN dbs
                      /\ \A t \in Tables, k \in Keys : RowCovered(t, k) \/ EventUnseen(t, k)
    BY DEF SnapshotCovered
  <2>1. "target" \in DOMAIN dbs /\ IsDb(dbs["target"])
    BY <1>1 DEF InitialInv, Databases, DbTypes
  <2>2. \A t \in tables, k \in Keys : RowKept("target", t, k)
    BY <1>1 DEF InitialInv, SnapshotInv
  <2>3. \A t \in Tables \ tables, k \in Keys : Value(dbs["target"], t, k) = mysql[t][k]
    BY <1>1, <2>1 DEF InitialInv, SourceTypes, IsDb, Value
  <2> QED
    BY <2>1, <2>2, <2>3 DEF RowCovered, RowKept, Kept
<1> QED
  BY <1>1, InitialInvInit, InitialInvStep, PTL DEF Spec

(* verify_table_structures_after_replication compares the structures once,  *)
(* after the copy.  A table that passes was read with one structure, unless *)
(* it got back the structure it is copied with by an ALTER during the copy, *)
(* or an orphan adds rows after the comparison.                             *)
THEOREM SnapshotsAreUnmixed == Spec => [](OneCopy => SnapshotUnmixed)
<1>1. ASSUME InitialInv, OneCopy PROVE SnapshotUnmixed
  BY <1>1 DEF InitialInv, UnmixedInv, RowsUnmixed, SnapshotUnmixed
<1> QED
  BY <1>1, InitialInvInit, InitialInvStep, PTL DEF Spec

(* Realtime replication starts with the versions of the copy or higher      *)
(* ones, or the reason for which it does not is one VersionsLost lists.     *)
THEOREM VersionsAreCovered == Spec => []VersionsCover
<1>1. ASSUME InitialInv PROVE VersionsCover
  <2> SUFFICES ASSUME pc = "realtime", NEW t \in Tables, NEW k \in Keys,
                      t \in DOMAIN dbs["target"], ~VersionsLost(t)
               PROVE  dbs["target"][t].rows[k].ver <= versions[t]
    BY DEF VersionsCover
  <2>1. RowsCovered("target", t)
    BY <1>1 DEF InitialInv, VersionsInv, Exchanged
  <2>2. threads # 1 => threads > 1
    BY <1>1, Basics
  <2>3. dbs["target"][t].rows[k].ver <= KnownVersions[t]
    BY <2>1, <2>2 DEF RowsCovered, VersionsLost
  <2>4. KnownVersions = versions
    BY <1>1, <2>2 DEF KnownVersions, VersionsLost, InitialInv, StateTypes
  <2> QED
    BY <2>3, <2>4
<1> QED
  BY <1>1, InitialInvInit, InitialInvStep, PTL DEF Spec

=============================================================================
