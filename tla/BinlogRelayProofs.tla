------------------------- MODULE BinlogRelayProofs -------------------------
(***************************************************************************)
(* TLAPS proofs about BinlogRelay: its type invariant, that no event is    *)
(* passed over silently, that the relay files are sorted and append-only,  *)
(* and that the clean-up keeps what a db_replicator has to read.           *)
(***************************************************************************)
EXTENDS BinlogRelay, FiniteSetTheorems, WellFoundedInduction, TLAPS

-----------------------------------------------------------------------------
(* Relay files. *)

(* get_next_file_name: the new number is above every existing one. *)
LEMMA NextFileNumIsNew ==
    ASSUME NEW d \in Databases, FilesOK(relay[d])
    PROVE  /\ GetNextFileNum(d) \in Nat \ {0}
           /\ \A m \in DOMAIN relay[d] : m < GetNextFileNum(d)
<1>1. CASE DOMAIN relay[d] = {}
  BY <1>1 DEF GetNextFileNum
<1>2. CASE DOMAIN relay[d] # {}
  <2> DEFINE S == DOMAIN relay[d]
  <2>1. PICK n \in S : \A m \in S : n >= m
    BY <1>2 DEF FilesOK
  <2>2. Max(S) \in S /\ \A m \in S : Max(S) >= m
    BY <2>1 DEF Max
  <2>3. S \subseteq Nat \ {0}
    BY DEF FilesOK
  <2> QED
    BY <1>2, <2>2, <2>3 DEF GetNextFileNum
<1> QED
  BY <1>1, <1>2

(* Opening a file with a new number adds an empty last file. *)
LEMMA OpenKeepsFilesOK ==
    ASSUME NEW f, FilesOK(f), NEW n \in Nat \ {0},
           \A m \in DOMAIN f : m < n
    PROVE  FilesOK(OpenForWriting(f, n)) /\ n \in DOMAIN OpenForWriting(f, n)
<1> DEFINE g == OpenForWriting(f, n)
<1>1. DOMAIN g = DOMAIN f \cup {n}
  BY DEF OpenForWriting
<1>2. g = [m \in DOMAIN g |-> g[m]]
  BY DEF OpenForWriting
<1>3. \A m \in DOMAIN g : g[m] \in Seq(Nat)
  BY DEF OpenForWriting, FilesOK
<1>4. DOMAIN g \subseteq Nat \ {0}
  BY <1>1 DEF FilesOK
<1>5. \A m \in DOMAIN g : n >= m
  BY <1>1, <1>4
<1> QED
  BY <1>1, <1>2, <1>3, <1>4, <1>5 DEF FilesOK

(* Writing an event to a file keeps the files as they are, but for it. *)
LEMMA WriteKeepsFilesOK ==
    ASSUME NEW f, FilesOK(f), NEW n, NEW p \in Nat
    PROVE  FilesOK([f EXCEPT ![n] = Append(@, p)])
<1> DEFINE g == [f EXCEPT ![n] = Append(@, p)]
<1>1. DOMAIN g = DOMAIN f /\ g = [m \in DOMAIN g |-> g[m]]
  BY DEF FilesOK
<1>2. \A m \in DOMAIN g : g[m] \in Seq(Nat)
  BY DEF FilesOK
<1> QED
  BY <1>1, <1>2 DEF FilesOK

(* remove_old_files keeps the last file, so there still is one. *)
LEMMA RemoveKeepsFilesOK ==
    ASSUME NEW d \in Databases, FilesOK(relay[d]), NEW k
    PROVE  LET kept == {n \in DOMAIN relay[d] :
                          ~(n \in FileNumsToCheck(d) /\ n <= k)}
           IN  FilesOK([n \in kept |-> relay[d][n]])
<1> DEFINE S == DOMAIN relay[d]
           kept == {n \in S : ~(n \in FileNumsToCheck(d) /\ n <= k)}
<1>1. ASSUME NEW n \in S, \A m \in S : n >= m
      PROVE  n \in kept
  <2>1. {m \in S : m > n} = {}
    BY <1>1 DEF FilesOK
  <2>2. Cardinality({m \in S : m > n}) = 0
    BY <2>1, FS_EmptySet
  <2>3. ~(Cardinality({m \in S : m > n}) >= PreserveFiles + 1)
    BY <2>2, RelayAssumption
  <2>4. n \notin FileNumsToCheck(d)
    BY <2>3 DEF FileNumsToCheck
  <2> QED
    BY <2>4
<1>2. kept \subseteq S
  OBVIOUS
<1> QED
  BY <1>1, <1>2 DEF FilesOK

-----------------------------------------------------------------------------
(* The type invariant. *)

LEMMA InitTypeOK == Init => TypeOK
<1> SUFFICES ASSUME Init PROVE TypeOK
  OBVIOUS
<1>1. LogTypeOK /\ Len(master) = 1
  <2>1. FirstEvent \in Event
    BY DEF FirstEvent, Event
  <2> QED
    BY <2>1 DEF Init, LogTypeOK
<1>2. RelayTypeOK
  <2>1. \A d \in Databases : FilesOK(relay[d])
    BY DEF Init, FilesOK
  <2>2. relay = [d \in Databases |-> relay[d]]
    BY DEF Init
  <2> QED
    BY <2>1, <2>2 DEF RelayTypeOK
<1>3. StateTypeOK
  BY <1>1, RelayAssumption DEF Init, StateTypeOK, None
<1>4. ProcessTypeOK
  <2>1. writers \in [Databases -> [file : Nat, records : Nat]]
    BY DEF Init, NoWriter
  <2>2. fresh \in BOOLEAN /\ killed \in BOOLEAN
    BY DEF Init
  <2>3. /\ pc = "down" /\ pc \in PcValues
        /\ pos \in 0..Len(master) /\ seen \in 0..Len(master)
        /\ table_map \subseteq Schemas \cup {NoDb}
    BY <1>1 DEF Init, PcValues, None
  <2>4. pc # "store"
    BY <2>3
  <2> QED
    BY <2>1, <2>2, <2>3, <2>4 DEF ProcessTypeOK
<1>5. HistoryTypeOK
  BY <1>1, RelayAssumption DEF Init, HistoryTypeOK, None
<1> QED
  BY <1>1, <1>2, <1>3, <1>4, <1>5 DEF TypeOK

(* Only StoreEvent, Tick and Crash change the relay. *)
LEMMA RelayTypeStep == TypeOK /\ Next => RelayTypeOK'
<1> SUFFICES ASSUME TypeOK, Next PROVE RelayTypeOK'
  OBVIOUS
<1>1. RelayTypeOK
  BY DEF TypeOK
<1>2. ASSUME UNCHANGED relay PROVE RelayTypeOK'
  BY <1>1, <1>2 DEF RelayTypeOK
<1>3. CASE StoreEvent
  <2> DEFINE d == master[pos].db
             writer == IF NeedsNewWriter(d)
                       THEN [file |-> GetNextFileNum(d), records |-> 0]
                       ELSE writers[d]
             files == IF NeedsNewWriter(d)
                      THEN OpenForWriting(relay[d], writer.file) ELSE relay[d]
             new == [files EXCEPT ![writer.file] = Append(@, pos)]
  <2>1. d \in Databases /\ pos \in Nat
    <3>1. pc = "store"
      BY <1>3 DEF StoreEvent
    <3>2. Matches(master[pos]) /\ pos \in 0..Len(master) /\ Len(master) \in Nat
      BY <3>1 DEF TypeOK, ProcessTypeOK, LogTypeOK
    <3> QED
      BY <3>2 DEF Matches
  <2>2. FilesOK(relay[d])
    BY <1>1, <2>1 DEF RelayTypeOK
  <2>3. FilesOK(OpenForWriting(relay[d], GetNextFileNum(d)))
    BY <2>1, <2>2, NextFileNumIsNew, OpenKeepsFilesOK
  <2>4. FilesOK(files)
    BY <2>2, <2>3
  <2>5. FilesOK(new)
    BY <2>1, <2>4, WriteKeepsFilesOK
  <2>6. relay' = [relay EXCEPT ![d] = new]
    BY <1>3 DEF StoreEvent
  <2> HIDE DEF new, d
  <2> QED
    BY <1>1, <2>1, <2>5, <2>6 DEF RelayTypeOK
<1>4. CASE Tick
  <2>1. PICK old : RemoveOldFiles(old)
    BY <1>4 DEF Tick
  <2> DEFINE kept(d) == {n \in DOMAIN relay[d] :
                           ~(n \in FileNumsToCheck(d) /\ n <= old[d])}
  <2>2. relay' = [d \in Databases |-> [n \in kept(d) |-> relay[d][n]]]
    BY <2>1 DEF RemoveOldFiles
  <2>3. \A d \in Databases : FilesOK([n \in kept(d) |-> relay[d][n]])
    BY <1>1, RemoveKeepsFilesOK DEF RelayTypeOK
  <2> HIDE DEF kept
  <2>4. \A d \in Databases : relay'[d] = [n \in kept(d) |-> relay[d][n]]
    BY <2>2
  <2> QED
    BY <2>2, <2>3, <2>4 DEF RelayTypeOK
<1>5. CASE Crash
  <2>1. CASE UNCHANGED relay
    BY <1>2, <2>1
  <2>2. CASE ~UNCHANGED relay
    <3> DEFINE d == master[pos].db
               new == OpenForWriting(relay[d], GetNextFileNum(d))
    <3>1. pc = "store" /\ relay' = [relay EXCEPT ![d] = new]
      BY <1>5, <2>2 DEF Crash
    <3>2. d \in Databases
      BY <3>1 DEF TypeOK, ProcessTypeOK, Matches
    <3>3. FilesOK(new)
      BY <1>1, <3>2, NextFileNumIsNew, OpenKeepsFilesOK DEF RelayTypeOK
    <3> HIDE DEF new, d
    <3> QED
      BY <1>1, <3>1, <3>2, <3>3 DEF RelayTypeOK
  <2> QED
    BY <2>1, <2>2
<1>6. CASE Start \/ OuterLoop \/ LeaveInnerLoop \/ Connect \/ SkipEvent
           \/ ReadEvent \/ ReadHeartbeat \/ Stop \/ ReadNone \/ ReadFails
           \/ Signal \/ MySQLCommits \/ \E d \in Databases : ConsumerSaves(d)
  <2>1. UNCHANGED relay
    BY <1>6 DEF Start, OuterLoop, LeaveInnerLoop, Connect, SkipEvent, ReadEvent,
                ReadHeartbeat, Stop, ReadNone, ReadFails, Signal, MySQLCommits,
                ConsumerSaves, disk
  <2> QED
    BY <1>2, <2>1
<1> QED
  BY <1>3, <1>4, <1>5, <1>6 DEF Next, Process

(* MySQL only appends to its log, so positions stay within it. *)
LEMMA LogGrows ==
    ASSUME TypeOK, Next
    PROVE  /\ LogTypeOK'
           /\ Len(master') \in Nat /\ Len(master') >= Len(master)
           /\ \A p \in 1..Len(master) : master'[p] = master[p]
<1>1. CASE MySQLCommits
  <2>1. PICK t \in Transactions : master' = master \o t
    BY <1>1 DEF MySQLCommits
  <2>2. t \in Seq(Event)
    BY TransactionsAssumption
  <2> QED
    BY <2>1, <2>2 DEF TypeOK, LogTypeOK
<1>2. CASE UNCHANGED master
  BY <1>2 DEF TypeOK, LogTypeOK
<1> QED
  BY <1>1, <1>2 DEF Next, Process, Start, OuterLoop, LeaveInnerLoop, Connect,
     SkipEvent, ReadEvent, ReadHeartbeat, StoreEvent, Tick, Stop, ReadNone,
     ReadFails, Signal, Crash, ConsumerSaves

LEMMA StateTypeStep == TypeOK /\ Next => StateTypeOK'
<1> SUFFICES ASSUME TypeOK, Next PROVE StateTypeOK'
  OBVIOUS
<1>1. Len(master) \in Nat /\ Len(master') \in Nat /\ Len(master') >= Len(master)
  BY LogGrows DEF TypeOK, LogTypeOK
<1>2. pos \in 0..Len(master) /\ seen \in 0..Len(master) /\ StateTypeOK
  BY DEF TypeOK, ProcessTypeOK
<1>3. ASSUME NEW t \in 0..Len(master'), SaveState(t) \/ UNCHANGED saved
      PROVE  saved' \in [last : 0..Len(master'), prev : 0..Len(master')]
  BY <1>1, <1>2, <1>3 DEF SaveState, StateTypeOK
<1>4. saved' \in [last : 0..Len(master'), prev : 0..Len(master')]
  <2>1. CASE ReadEvent
    <3>1. pos + 1 \in 0..Len(master')
      BY <1>1, <1>2, <2>1 DEF ReadEvent, Reading
    <3> QED
      BY <1>3, <2>1, <3>1 DEF ReadEvent, UpdateStateIfRequired
  <2>2. CASE ReadHeartbeat
    BY <1>1, <1>2, <1>3, <2>2 DEF ReadHeartbeat, UpdateStateIfRequired
  <2>3. CASE Tick \/ Stop
    BY <1>1, <1>2, <1>3, <2>3 DEF Tick, Stop, UpdateStateIfRequired
  <2>4. CASE UNCHANGED saved
    BY <1>1, <1>2, <1>3, <2>4
  <2> QED
    BY <2>1, <2>2, <2>3, <2>4 DEF Next, Process, Start, OuterLoop, LeaveInnerLoop,
       Connect, SkipEvent, StoreEvent, ReadNone, ReadFails, Signal, Crash,
       MySQLCommits, ConsumerSaves, disk
<1>5. checkpoint' \in [Databases -> Nat]
  <2>1. ASSUME NEW d \in Databases, ConsumerSaves(d)
        PROVE  checkpoint' \in [Databases -> Nat]
    <3>1. PICK n \in DOMAIN relay[d] : \E i \in DOMAIN relay[d][n] :
                 checkpoint' = [checkpoint EXCEPT ![d] = relay[d][n][i]]
      BY <2>1 DEF ConsumerSaves
    <3>2. relay[d][n] \in Seq(Nat)
      BY DEF TypeOK, RelayTypeOK, FilesOK
    <3> QED
      BY <1>2, <3>1, <3>2 DEF StateTypeOK
  <2>2. CASE UNCHANGED checkpoint
    BY <1>2, <2>2 DEF StateTypeOK
  <2> QED
    BY <2>1, <2>2 DEF Next, Process, Start, OuterLoop, LeaveInnerLoop, Connect,
       SkipEvent, ReadEvent, ReadHeartbeat, StoreEvent, Tick, Stop, ReadNone,
       ReadFails, Signal, Crash, MySQLCommits
<1>6. crashes' \in Nat /\ stops' \in Nat
  <2>1. CASE Signal
    BY <1>2, <2>1 DEF Signal, StateTypeOK
  <2>2. CASE Crash
    BY <1>2, <2>2 DEF Crash, StateTypeOK
  <2>3. CASE UNCHANGED bounds
    BY <1>2, <2>3 DEF StateTypeOK, bounds
  <2> QED
    BY <2>1, <2>2, <2>3 DEF Next, Process, Start, OuterLoop, LeaveInnerLoop,
       Connect, SkipEvent, ReadEvent, ReadHeartbeat, StoreEvent, Tick, Stop,
       ReadNone, ReadFails, MySQLCommits, ConsumerSaves
<1> QED
  BY <1>4, <1>5, <1>6 DEF StateTypeOK

(* A position within the log, and the event there, survive every step. *)
LEMMA PositionsStay ==
    ASSUME TypeOK, Next
    PROVE  /\ 0..Len(master) \subseteq 0..Len(master')
           /\ 1..Len(master) \subseteq 1..Len(master')
           /\ \A p \in 1..Len(master) : master'[p] = master[p]
           /\ \A p \in 1..Len(master) : master[p] \in Event
<1>1. Len(master) \in Nat /\ master \in Seq(Event)
  BY DEF TypeOK, LogTypeOK
<1> QED
  BY <1>1, LogGrows

LEMMA ProcessTypeStep == TypeOK /\ Next => ProcessTypeOK'
<1> SUFFICES ASSUME TypeOK, Next PROVE ProcessTypeOK'
  OBVIOUS
<1>1. /\ Len(master) \in Nat
      /\ ProcessTypeOK
      /\ saved.prev \in 0..Len(master)
  BY DEF TypeOK, LogTypeOK, StateTypeOK
<1>2. /\ 0..Len(master) \subseteq 0..Len(master')
      /\ \A p \in 1..Len(master) : master'[p] = master[p] /\ master[p] \in Event
  BY PositionsStay
<1>3. pc' \in PcValues
  BY <1>1 DEF ProcessTypeOK, PcValues, Next, Process, Start, OuterLoop,
     LeaveInnerLoop, Connect, SkipEvent, ReadEvent, ReadHeartbeat, StoreEvent,
     Tick, Stop, ReadNone, ReadFails, Signal, Crash, MySQLCommits, ConsumerSaves,
     ProcessEnds
<1>4. pos' \in 0..Len(master) /\ seen' \in 0..Len(master)
  <2>1. CASE SkipEvent \/ ReadEvent
    <3>1. pos + 1 \in 0..Len(master)
      BY <1>1, <2>1 DEF SkipEvent, ReadEvent, Reading, ProcessTypeOK
    <3> QED
      BY <1>1, <2>1, <3>1 DEF SkipEvent, ReadEvent, ProcessTypeOK
  <2>2. CASE Connect \/ ReadHeartbeat \/ Start
    BY <1>1, <2>2 DEF Connect, ReadHeartbeat, Start, ProcessTypeOK, stream
  <2>3. CASE Stop \/ Crash
    BY <1>1, <2>3 DEF Stop, Crash, ProcessEnds, None
  <2>4. CASE UNCHANGED <<pos, seen>>
    BY <1>1, <2>4 DEF ProcessTypeOK
  <2> QED
    BY <2>1, <2>2, <2>3, <2>4 DEF Next, Process, OuterLoop, LeaveInnerLoop,
       StoreEvent, Tick, ReadNone, ReadFails, Signal, MySQLCommits,
       ConsumerSaves, stream
<1>5. pc' = "store" => pos' > 0 /\ Matches(master'[pos'])
  <2>1. CASE ReadEvent
    <3>1. pos + 1 \in 1..Len(master) /\ pos' = pos + 1 /\ master' = master
      BY <1>1, <2>1 DEF ReadEvent, Reading, ProcessTypeOK
    <3>2. pc' = "store" => Matches(master[pos + 1])
      BY <2>1 DEF ReadEvent
    <3> QED
      BY <3>1, <3>2
  <2>2. CASE UNCHANGED <<pc, pos>>
    <3>1. pc = "store" => pos \in 1..Len(master) /\ Matches(master[pos])
      BY <1>1 DEF ProcessTypeOK
    <3> QED
      BY <1>1, <1>2, <2>2, <3>1
  <2>3. CASE pc' # "store"
    BY <2>3
  <2> QED
    BY <2>1, <2>2, <2>3 DEF Next, Process, Start, OuterLoop, LeaveInnerLoop,
       Connect, SkipEvent, ReadHeartbeat, StoreEvent, Tick, Stop, ReadNone,
       ReadFails, Signal, Crash, MySQLCommits, ConsumerSaves, ProcessEnds, Reading,
       stream
<1>6. table_map' \subseteq Schemas \cup {NoDb}
  <2>1. CASE SkipEvent
    <3>1. pos + 1 \in 1..Len(master)
      BY <1>1, <2>1 DEF SkipEvent, Reading, ProcessTypeOK
    <3>2. master[pos + 1].db \in Schemas \cup {NoDb}
      BY <1>2, <3>1 DEF Event
    <3>3. table_map' \subseteq table_map \cup {master[pos + 1].db}
      BY <2>1 DEF SkipEvent
    <3> QED
      BY <1>1, <3>2, <3>3 DEF ProcessTypeOK
  <2>2. CASE table_map' \subseteq table_map
    BY <1>1, <2>2 DEF ProcessTypeOK
  <2> QED
    BY <2>1, <2>2 DEF Next, Process, Start, OuterLoop, LeaveInnerLoop, Connect,
       ReadEvent, ReadHeartbeat, StoreEvent, Tick, Stop, ReadNone, ReadFails,
       Signal, Crash, MySQLCommits, ConsumerSaves, ProcessEnds, stream
<1>7. fresh' \in BOOLEAN /\ killed' \in BOOLEAN
  BY <1>1 DEF ProcessTypeOK, Next, Process, Start, OuterLoop, LeaveInnerLoop,
     Connect, SkipEvent, ReadEvent, ReadHeartbeat, StoreEvent, Tick, Stop,
     ReadNone, ReadFails, Signal, Crash, MySQLCommits, ConsumerSaves,
     ProcessEnds, UpdateStateIfRequired
<1>8. writers' \in [Databases -> [file : Nat, records : Nat]]
  <2>1. CASE StoreEvent
    <3> DEFINE d == master[pos].db
               writer == IF NeedsNewWriter(d)
                         THEN [file |-> GetNextFileNum(d), records |-> 0]
                         ELSE writers[d]
               size == master[pos].size
    <3>1. pc = "store" /\ pos \in 1..Len(master)
      <4>1. pc = "store"
        BY <2>1 DEF StoreEvent
      <4> QED
        BY <1>1, <4>1 DEF ProcessTypeOK
    <3>2. d \in Databases /\ size \in Nat
      BY <1>1, <1>2, <3>1 DEF ProcessTypeOK, Matches, Event
    <3>3. GetNextFileNum(d) \in Nat
      BY <3>2, NextFileNumIsNew DEF TypeOK, RelayTypeOK
    <3>4. writer \in [file : Nat, records : Nat]
      BY <1>1, <3>2, <3>3 DEF ProcessTypeOK
    <3>5. writers' = [writers EXCEPT ![d] = [writer EXCEPT !.records = @ + size]]
      BY <2>1 DEF StoreEvent
    <3> HIDE DEF writer, size, d
    <3>6. [writer EXCEPT !.records = @ + size] \in [file : Nat, records : Nat]
      BY <3>2, <3>4
    <3> QED
      BY <1>1, <3>2, <3>5, <3>6 DEF ProcessTypeOK
  <2>2. CASE Stop \/ Crash
    BY <2>2 DEF Stop, Crash, ProcessEnds, NoWriter
  <2>3. CASE UNCHANGED writers
    BY <1>1, <2>3 DEF ProcessTypeOK
  <2> QED
    BY <2>1, <2>2, <2>3 DEF Next, Process, Start, OuterLoop, LeaveInnerLoop,
       Connect, SkipEvent, ReadEvent, ReadHeartbeat, Tick, ReadNone, ReadFails,
       Signal, MySQLCommits, ConsumerSaves
<1>9. pos' \in 0..Len(master') /\ seen' \in 0..Len(master')
  BY <1>2, <1>4
<1> QED
  BY <1>3, <1>5, <1>6, <1>7, <1>8, <1>9 DEF ProcessTypeOK

LEMMA HistoryTypeStep == TypeOK /\ Next => HistoryTypeOK'
<1> SUFFICES ASSUME TypeOK, Next PROVE HistoryTypeOK'
  OBVIOUS
<1>1. /\ Len(master) \in Nat
      /\ HistoryTypeOK
      /\ pos \in 0..Len(master)
      /\ pc = "store" => pos \in 1..Len(master)
  BY DEF TypeOK, LogTypeOK, ProcessTypeOK
<1>2. /\ 0..Len(master) \subseteq 0..Len(master')
      /\ 1..Len(master) \subseteq 1..Len(master')
  BY PositionsStay
<1>3. stored' \subseteq 1..Len(master)
  <2>1. CASE StoreEvent
    <3>1. pc = "store" /\ stored' = stored \cup {pos}
      BY <2>1 DEF StoreEvent
    <3> QED
      BY <1>1, <3>1 DEF HistoryTypeOK
  <2>2. CASE UNCHANGED stored
    BY <1>1, <2>2 DEF HistoryTypeOK
  <2> QED
    BY <2>1, <2>2 DEF Next, Process, Start, OuterLoop, LeaveInnerLoop, Connect,
       SkipEvent, ReadEvent, ReadHeartbeat, Tick, Stop, ReadNone, ReadFails,
       Signal, Crash, MySQLCommits, ConsumerSaves, history
<1>4. interrupted' \in 0..Len(master)
  <2>1. interrupted' \in {None, interrupted} \/ (pc = "store" /\ interrupted' = pos)
    BY DEF Next, Process, Start, OuterLoop, LeaveInnerLoop, Connect, SkipEvent,
       ReadEvent, ReadHeartbeat, StoreEvent, Tick, Stop, ReadNone, ReadFails,
       Signal, Crash, MySQLCommits, ConsumerSaves, history
  <2> QED
    BY <1>1, <2>1 DEF HistoryTypeOK, None
<1>5. excused' \subseteq 1..Len(master)
  <2>1. CASE Connect
    BY <1>1, <2>1 DEF Connect, HistoryTypeOK
  <2>2. CASE SkipEvent
    <3>1. pos + 1 \in 1..Len(master)
      BY <1>1, <2>2 DEF SkipEvent, Reading
    <3> QED
      BY <1>1, <2>2, <3>1 DEF SkipEvent, HistoryTypeOK
  <2>3. CASE Stop \/ Crash
    <3>1. interrupted # None => interrupted \in 1..Len(master)
      BY <1>1 DEF HistoryTypeOK, None
    <3>2. ExcuseInterrupted
      BY <2>3 DEF Stop, Crash
    <3> QED
      BY <1>1, <3>1, <3>2 DEF ExcuseInterrupted, HistoryTypeOK
  <2>4. CASE UNCHANGED excused
    BY <1>1, <2>4 DEF HistoryTypeOK
  <2> QED
    BY <2>1, <2>2, <2>3, <2>4 DEF Next, Process, Start, OuterLoop, LeaveInnerLoop,
       ReadEvent, ReadHeartbeat, StoreEvent, Tick, ReadNone, ReadFails, Signal,
       MySQLCommits, ConsumerSaves, history
<1>6. origin' \in 0..Len(master)
  <2>1. origin' \in {origin, Len(master)}
    BY DEF Next, Process, Start, OuterLoop, LeaveInnerLoop, Connect, SkipEvent,
       ReadEvent, ReadHeartbeat, StoreEvent, Tick, Stop, ReadNone, ReadFails,
       Signal, Crash, MySQLCommits, ConsumerSaves, history
  <2> QED
    BY <1>1, <2>1 DEF HistoryTypeOK
<1> QED
  BY <1>2, <1>3, <1>4, <1>5, <1>6 DEF HistoryTypeOK

LEMMA TypeOKStep == TypeOK /\ [Next]_vars => TypeOK'
<1> SUFFICES ASSUME TypeOK, [Next]_vars PROVE TypeOK'
  OBVIOUS
<1>1. CASE Next
  <2>1. LogTypeOK'
    BY <1>1, LogGrows
  <2> QED
    BY <1>1, <2>1, RelayTypeStep, StateTypeStep, ProcessTypeStep, HistoryTypeStep
       DEF TypeOK
<1>2. CASE UNCHANGED vars
  BY <1>2 DEF vars, TypeOK, LogTypeOK, RelayTypeOK, StateTypeOK, ProcessTypeOK,
     HistoryTypeOK
<1> QED
  BY <1>1, <1>2

(* The state of the process, its files and its positions keep their types   *)
(* in every behaviour, whatever the settings and MySQL's transactions.      *)
THEOREM TypeCorrect == Spec => []TypeOK
<1> QED
  BY InitTypeOK, TypeOKStep, PTL DEF Spec

-----------------------------------------------------------------------------
(* No event is passed over silently. *)

LEMMA InitRelayInv == Init => RelayInv
<1> SUFFICES ASSUME Init PROVE RelayInv
  OBVIOUS
<1>1. TypeOK
  BY InitTypeOK
<1>2. /\ pos = 0 /\ seen = 0 /\ pc = "down" /\ fresh = TRUE
      /\ saved.prev \in {0, 1} /\ saved.last \in {0, 1}
  BY RelayAssumption DEF Init, None
<1>3. ~Matches(master[1])
  BY DEF Init, FirstEvent, Matches
<1>4. \A n \in {0, 1} : \A S : Covered(n, S)
  BY <1>3 DEF Covered
<1>5. Done = 0
  BY <1>2 DEF Done
<1>6. NoSilentLoss /\ SavedPositionsCovered
  BY <1>2, <1>4, <1>5 DEF NoSilentLoss, SavedPositionsCovered
<1>7. RunInv
  BY <1>2 DEF RunInv, None
<1> QED
  BY <1>1, <1>6, <1>7 DEF RelayInv

LEMMA RunInvStep == RelayInv /\ Next => RunInv'
<1> SUFFICES ASSUME RelayInv, Next PROVE RunInv'
  OBVIOUS
<1>1. /\ RunInv
      /\ pos \in Nat /\ seen \in Nat /\ Len(master) \in Nat /\ pos <= Len(master)
      /\ saved.prev \in Nat
  BY DEF RelayInv, TypeOK, LogTypeOK, ProcessTypeOK, StateTypeOK
<1>2. seen' <= pos'
  <2>1. CASE SkipEvent
    BY <1>1, <2>1 DEF SkipEvent, RunInv
  <2>2. CASE ReadEvent
    BY <1>1, <2>2 DEF ReadEvent
  <2>3. CASE Connect \/ ReadHeartbeat
    BY <1>1, <2>3 DEF Connect, ReadHeartbeat, RunInv, stream
  <2>4. CASE Start
    BY <1>1, <2>4 DEF Start, RunInv, None
  <2>5. CASE Stop \/ Crash
    BY <2>5 DEF Stop, Crash, ProcessEnds, None
  <2>6. CASE UNCHANGED <<pos, seen>>
    BY <1>1, <2>6 DEF RunInv
  <2> QED
    BY <2>1, <2>2, <2>3, <2>4, <2>5, <2>6 DEF Next, Process, OuterLoop,
       LeaveInnerLoop, StoreEvent, Tick, ReadNone, ReadFails, Signal,
       MySQLCommits, ConsumerSaves, stream
<1>3. pc' = "down" => fresh' /\ seen' = None
  BY <1>1 DEF RunInv, Next, Process, Start, OuterLoop, LeaveInnerLoop, Connect,
     SkipEvent, ReadEvent, ReadHeartbeat, StoreEvent, Tick, Stop, ReadNone,
     ReadFails, Signal, Crash, MySQLCommits, ConsumerSaves, ProcessEnds, Reading
<1>4. pc' = "store" => ~fresh'
  BY <1>1 DEF RunInv, Next, Process, Start, OuterLoop, LeaveInnerLoop, Connect,
     SkipEvent, ReadEvent, ReadHeartbeat, StoreEvent, Tick, Stop, ReadNone,
     ReadFails, Signal, Crash, MySQLCommits, ConsumerSaves, ProcessEnds, Reading,
     UpdateStateIfRequired
<1> QED
  BY <1>2, <1>3, <1>4 DEF RunInv

(* What is covered stays covered: the log only grows, and S with it. *)
LEMMA CoveredStays ==
    ASSUME TypeOK, Next, NEW n \in 0..Len(master), NEW S, NEW T, S \subseteq T,
           Covered(n, S)
    PROVE  \A p \in 1..n : Matches(master'[p]) => p \in T
<1>1. Len(master) \in Nat
  BY DEF TypeOK, LogTypeOK
<1>2. \A p \in 1..n : master'[p] = master[p]
  BY <1>1, PositionsStay
<1> QED
  BY <1>2 DEF Covered

(* Nothing that was accounted for is forgotten. *)
LEMMA AccountedGrows == Next => Accounted \subseteq Accounted'
BY DEF Next, Process, Start, OuterLoop, LeaveInnerLoop, Connect, SkipEvent,
   ReadEvent, ReadHeartbeat, StoreEvent, Tick, Stop, ReadNone, ReadFails, Signal,
   Crash, MySQLCommits, ConsumerSaves, ExcuseInterrupted, Accounted, history

(* The stream: each action that moves it. *)
LEMMA NoSilentLossStep == RelayInv /\ Next => NoSilentLoss'
<1> SUFFICES ASSUME RelayInv, Next,
                    NEW p \in 1..Done', Matches(master'[p])
             PROVE  p \in Accounted'
  BY DEF NoSilentLoss, Covered
<1>1. /\ TypeOK /\ RunInv
      /\ Len(master) \in Nat /\ pos \in 0..Len(master)
      /\ pc = "store" => pos \in 1..Len(master)
      /\ saved.prev \in 0..Len(master)
  BY DEF RelayInv, TypeOK, LogTypeOK, ProcessTypeOK, StateTypeOK
<1>2. Done \in 0..Len(master)
  BY <1>1 DEF Done
<1>3. ASSUME p \in 1..Done PROVE p \in Accounted'
  <2>1. Covered(Done, Accounted)
    BY DEF RelayInv, NoSilentLoss
  <2>2. \A q \in 1..Done : Matches(master'[q]) => q \in Accounted'
    BY <1>1, <1>2, <2>1, AccountedGrows, CoveredStays
  <2> QED
    BY <1>3, <2>2
<1>4. CASE Start
  <2>1. Done' = saved.prev /\ fresh
    BY <1>1, <1>4 DEF Start, Done, RunInv
  <2>2. Covered(saved.prev, Accounted)
    BY <2>1 DEF RelayInv, SavedPositionsCovered
  <2>3. \A q \in 1..saved.prev : Matches(master'[q]) => q \in Accounted'
    BY <1>1, <2>2, AccountedGrows, CoveredStays
  <2> QED
    BY <2>1, <2>3
<1>5. CASE Connect
  <2>1. Done' = Len(master)
    BY <1>5 DEF Connect, Done
  <2> QED
    BY <2>1, <1>5 DEF Connect, Accounted
<1>6. CASE SkipEvent
  <2>1. /\ pc = "read" /\ pc' = "read" /\ pos' = pos + 1 /\ master' = master
        /\ Matches(master[pos + 1]) => pos + 1 \in excused'
    BY <1>6 DEF SkipEvent, Reading
  <2>2. Done = pos /\ Done' = pos + 1
    BY <2>1 DEF Done
  <2>3. CASE p = pos + 1
    BY <2>1, <2>3 DEF Accounted
  <2> QED
    BY <1>1, <1>3, <2>2, <2>3
<1>7. CASE ReadEvent
  <2>1. /\ pc = "read" /\ pos' = pos + 1 /\ master' = master
        /\ pc' = IF Matches(master[pos + 1]) THEN "store" ELSE "read"
    BY <1>7 DEF ReadEvent, Reading
  <2>2. Done = pos /\ Done' = IF Matches(master[pos + 1]) THEN pos ELSE pos + 1
    BY <1>1, <2>1 DEF Done
  <2>3. p # pos + 1
    BY <1>1, <2>1, <2>2
  <2> QED
    BY <1>1, <1>3, <2>2, <2>3
<1>8. CASE StoreEvent
  <2>1. /\ pc = "store" /\ pc' # "store" /\ pos' = pos
        /\ stored' = stored \cup {pos}
    BY <1>8 DEF StoreEvent, stream
  <2>2. Done = pos - 1 /\ Done' = pos
    BY <2>1 DEF Done
  <2>3. CASE p = pos
    BY <2>1, <2>3 DEF Accounted
  <2> QED
    BY <1>1, <1>3, <2>2, <2>3
<1>9. CASE Stop \/ Crash
  <2>1. Done' = 0
    BY <1>9 DEF Stop, Crash, ProcessEnds, Done, None
  <2> QED
    BY <2>1
<1>10. CASE OuterLoop \/ LeaveInnerLoop \/ ReadHeartbeat \/ Tick \/ ReadNone
            \/ ReadFails \/ Signal \/ MySQLCommits
            \/ \E d \in Databases : ConsumerSaves(d)
  <2>1. pos' = pos /\ (pc' = "store" <=> pc = "store")
    BY <1>10 DEF OuterLoop, LeaveInnerLoop, ReadHeartbeat, Tick, ReadNone,
       ReadFails, Signal, MySQLCommits, ConsumerSaves, stream
  <2>2. Done' = Done
    BY <2>1 DEF Done
  <2> QED
    BY <1>3, <2>2
<1> QED
  BY <1>4, <1>5, <1>6, <1>7, <1>8, <1>9, <1>10 DEF Next, Process

(* The position of an event in flight becomes the one interrupted at a      *)
(* crash, and an interrupted one is stored, excused, or still interrupted.  *)
LEMMA InterruptedAccounted ==
    ASSUME RelayInv, Next
    PROVE  /\ {interrupted} \ {None} \subseteq Accounted' \cup {interrupted'}
           /\ InFlight \subseteq Accounted' \cup {interrupted'} \cup InFlight'
           /\ Stop \/ (fresh' /\ ~fresh) =>
                {interrupted} \ {None} \subseteq Accounted'
<1>1. CASE Stop
  BY <1>1 DEF Stop, ExcuseInterrupted, Accounted, InFlight, ProcessEnds
<1>2. CASE Crash
  BY <1>2 DEF Crash, ExcuseInterrupted, Accounted, InFlight, ProcessEnds
<1>3. CASE StoreEvent
  <2>1. /\ pc = "store" /\ stored' = stored \cup {pos} /\ fresh' = fresh
        /\ interrupted' = IF interrupted = pos THEN None ELSE interrupted
    BY <1>3 DEF StoreEvent
  <2>2. ~Stop
    BY <2>1 DEF Stop
  <2> QED
    BY <2>1, <2>2 DEF Accounted, InFlight
<1>4. CASE ReadEvent \/ ReadHeartbeat \/ Tick
  <2>1. pc # "store" /\ interrupted' = interrupted /\ (fresh' => fresh)
    BY <1>4 DEF ReadEvent, ReadHeartbeat, Tick, UpdateStateIfRequired, Reading,
       history
  <2>2. ~Stop
    BY <1>4 DEF ReadEvent, ReadHeartbeat, Tick, Stop, Reading
  <2> QED
    BY <2>1, <2>2 DEF InFlight
<1>5. CASE Start \/ OuterLoop \/ LeaveInnerLoop \/ Connect \/ SkipEvent
           \/ ReadNone \/ ReadFails
  <2>1. pc # "store" /\ interrupted' = interrupted /\ fresh' = fresh
    BY <1>5 DEF Start, OuterLoop, LeaveInnerLoop, Connect, SkipEvent, ReadNone,
       ReadFails, Reading, history
  <2>2. ~Stop
    BY <1>5 DEF Start, OuterLoop, LeaveInnerLoop, Connect, SkipEvent, ReadNone,
       ReadFails, Reading, Stop
  <2> QED
    BY <2>1, <2>2 DEF InFlight
<1>6. CASE Signal \/ MySQLCommits \/ \E d \in Databases : ConsumerSaves(d)
  <2>1. UNCHANGED <<pc, pos, interrupted, fresh>>
    BY <1>6 DEF Signal, MySQLCommits, ConsumerSaves, stream, history
  <2>2. CASE Stop
    BY <1>1, <2>2
  <2>3. CASE ~Stop
    BY <2>1, <2>3 DEF InFlight
  <2> QED
    BY <2>2, <2>3
<1> QED
  BY <1>1, <1>2, <1>3, <1>4, <1>5, <1>6 DEF Next, Process

(* state.json: saves shift last_seen_transaction, which was covered, to     *)
(* prev_last_seen_transaction, and put a position of this run in its place. *)
LEMMA SavedPositionsStep == RelayInv /\ Next => SavedPositionsCovered'
<1> SUFFICES ASSUME RelayInv, Next PROVE SavedPositionsCovered'
  OBVIOUS
<1> DEFINE OfPrev == IF fresh THEN Accounted ELSE Accounted \cup {interrupted}
           OfLast == Accounted \cup {interrupted} \cup InFlight
<1>1. /\ TypeOK /\ RunInv
      /\ Len(master) \in Nat /\ pos \in 0..Len(master) /\ seen \in 0..Len(master)
      /\ saved.prev \in 0..Len(master) /\ saved.last \in 0..Len(master)
  BY DEF RelayInv, TypeOK, LogTypeOK, ProcessTypeOK, StateTypeOK
<1>2. /\ Covered(saved.prev, OfPrev)
      /\ Covered(saved.last, OfLast)
      /\ Covered(Done, Accounted)
  BY DEF RelayInv, SavedPositionsCovered, NoSilentLoss
<1>3. /\ \A p \in 1..saved.prev : Matches(master'[p]) => p \in OfPrev
      /\ \A p \in 1..saved.last : Matches(master'[p]) => p \in OfLast
      /\ \A p \in 1..Done : Matches(master'[p]) => p \in Accounted
  <2> HIDE DEF OfPrev, OfLast
  <2> QED
    BY <1>1, <1>2, CoveredStays DEF Done
<1>4. Accounted \subseteq Accounted'
  BY AccountedGrows
<1>5. \A p \in Nat \ {0} : p \in OfLast => p \in OfLast'
  BY <1>4, InterruptedAccounted DEF None
<1>6. ASSUME UNCHANGED saved PROVE SavedPositionsCovered'
  <2>1. \A p \in 1..saved.last : Matches(master'[p]) => p \in OfLast'
    BY <1>1, <1>3, <1>5
  <2>2. \A p \in 1..saved.prev : Matches(master'[p]) => p \in OfPrev'
    BY <1>1, <1>3, <1>4, InterruptedAccounted DEF None
  <2> QED
    BY <1>6, <2>1, <2>2 DEF SavedPositionsCovered, Covered
<1>7. ASSUME NEW t \in 0..Len(master), SaveState(t), pc # "store", Stop \/ ~fresh',
             \A p \in 1..t : Matches(master'[p]) => p \in OfLast'
      PROVE  SavedPositionsCovered'
  <2>1. saved'.last = t /\ saved'.prev = saved.last
    BY <1>7 DEF SaveState
  <2>2. OfLast = Accounted \cup {interrupted}
    BY <1>7 DEF InFlight
  <2>3. \A p \in Nat \ {0} : p \in OfLast => p \in OfPrev'
    BY <1>4, <1>7, <2>2, InterruptedAccounted DEF None
  <2>4. \A p \in 1..saved.last : Matches(master'[p]) => p \in OfPrev'
    BY <1>1, <1>3, <2>3
  <2> HIDE DEF OfPrev, OfLast
  <2>5. Covered(saved.prev, OfPrev)'
    BY <2>1, <2>4 DEF Covered
  <2>6. Covered(saved.last, OfLast)'
    BY <1>7, <2>1 DEF Covered
  <2> QED
    BY <2>5, <2>6 DEF SavedPositionsCovered, OfPrev, OfLast
<1>8. ASSUME NEW t \in 0..Len(master), pc # "store", t <= pos
      PROVE  \A p \in 1..t : Matches(master'[p]) => p \in OfLast'
  <2>1. Done = pos
    BY <1>8 DEF Done
  <2> QED
    BY <1>1, <1>3, <1>4, <1>8, <2>1
<1>9. CASE ReadEvent
  <2>1. /\ pc = "read" /\ pos + 1 \in 1..Len(master) /\ master' = master
        /\ pos' = pos + 1
        /\ Matches(master[pos + 1]) => pc' = "store"
        /\ (SaveState(pos + 1) /\ ~fresh') \/ UNCHANGED saved
    BY <1>1, <1>9 DEF ReadEvent, Reading, UpdateStateIfRequired
  <2>2. \A p \in 1..pos : Matches(master'[p]) => p \in OfLast'
    BY <1>1, <1>8, <2>1
  <2>3. Matches(master'[pos + 1]) => pos + 1 \in OfLast'
    BY <2>1 DEF InFlight
  <2>4. \A p \in 1..(pos + 1) : Matches(master'[p]) => p \in OfLast'
    <3> HIDE DEF OfLast
    <3> QED
      BY <1>1, <2>2, <2>3
  <2> QED
    BY <1>1, <1>6, <1>7, <2>1, <2>4
<1>10. CASE ReadHeartbeat
  <2>1. pc = "read" /\ ((SaveState(pos) /\ ~fresh') \/ UNCHANGED saved)
    BY <1>10 DEF ReadHeartbeat, UpdateStateIfRequired
  <2> QED
    BY <1>1, <1>6, <1>7, <1>8, <2>1
<1>11. CASE Tick
  <2>1. pc = "tick" /\ ((SaveState(seen) /\ ~fresh') \/ UNCHANGED saved)
    BY <1>11 DEF Tick, UpdateStateIfRequired
  <2>2. seen <= pos
    BY <1>1 DEF RunInv
  <2> QED
    BY <1>1, <1>6, <1>7, <1>8, <2>1, <2>2
<1>12. CASE Stop
  <2>1. pc = "stop" /\ SaveState(seen)
    BY <1>12 DEF Stop
  <2>2. seen <= pos
    BY <1>1 DEF RunInv
  <2> QED
    BY <1>1, <1>7, <1>8, <1>12, <2>1, <2>2
<1>13. CASE Start \/ OuterLoop \/ LeaveInnerLoop \/ Connect \/ SkipEvent
            \/ StoreEvent \/ ReadNone \/ ReadFails \/ Signal \/ Crash
            \/ MySQLCommits \/ \E d \in Databases : ConsumerSaves(d)
  <2>1. UNCHANGED saved
    BY <1>13 DEF Start, OuterLoop, LeaveInnerLoop, Connect, SkipEvent, StoreEvent,
       ReadNone, ReadFails, Signal, Crash, MySQLCommits, ConsumerSaves, disk
  <2> QED
    BY <1>6, <2>1
<1> QED
  BY <1>9, <1>10, <1>11, <1>12, <1>13 DEF Next, Process

LEMMA RelayInvStep == RelayInv /\ [Next]_vars => RelayInv'
<1> SUFFICES ASSUME RelayInv, [Next]_vars PROVE RelayInv'
  OBVIOUS
<1>1. TypeOK'
  BY TypeOKStep DEF RelayInv
<1>2. CASE Next
  BY <1>1, <1>2, NoSilentLossStep, SavedPositionsStep, RunInvStep DEF RelayInv
<1>3. CASE UNCHANGED vars
  <2>1. (NoSilentLoss /\ SavedPositionsCovered /\ RunInv)'
    BY <1>3 DEF vars, RelayInv, NoSilentLoss, SavedPositionsCovered, RunInv,
       Covered, Done, Accounted, InFlight, Matches
  <2> QED
    BY <1>1, <2>1 DEF RelayInv
<1> QED
  BY <1>2, <1>3

(* Whatever MySQL writes and however often the process is stopped, killed   *)
(* or disconnected, a matching event it passes is in the relay, unless it   *)
(* is excused: in flight at a crash and not stored before the next end of   *)
(* the process, before a start without a position, or without its map.      *)
THEOREM NothingLostSilently == Spec => []NoSilentLoss
<1>1. RelayInv => NoSilentLoss
  BY DEF RelayInv
<1> QED
  BY <1>1, InitRelayInv, RelayInvStep, PTL DEF Spec

(* The two positions in state.json are never ahead of the relay by more     *)
(* than the event in flight, so that one crash loses nothing.               *)
THEOREM SavedPositionsAreCovered == Spec => []SavedPositionsCovered
<1>1. RelayInv => SavedPositionsCovered
  BY DEF RelayInv
<1> QED
  BY <1>1, InitRelayInv, RelayInvStep, PTL DEF Spec

-----------------------------------------------------------------------------
(* Steps that change the relay. *)

(* Appending keeps the entries and adds one. *)
LEMMA AppendEntries ==
    ASSUME NEW f \in Seq(Nat), NEW p \in Nat
    PROVE  /\ DOMAIN f \subseteq DOMAIN Append(f, p)
           /\ \A i \in DOMAIN f : Append(f, p)[i] = f[i]
           /\ \A i \in DOMAIN Append(f, p) : i \in DOMAIN f \/ Append(f, p)[i] = p
OBVIOUS

(* The database an event in flight belongs to. *)
LEMMA StoreTypes ==
    ASSUME TypeOK, pc = "store"
    PROVE  /\ master[pos].db \in Databases /\ pos \in 1..Len(master)
           /\ Len(master) \in Nat /\ pos \in Nat
<1>1. Len(master) \in Nat
  BY DEF TypeOK, LogTypeOK
<1> QED
  BY <1>1 DEF TypeOK, ProcessTypeOK, Matches

(* store_event writes the event at the end of the writer's file, or alone  *)
(* to a file with a number above all others.                               *)
LEMMA StoreEventWrites ==
    ASSUME FilesInv, StoreEvent
    PROVE  \E n \in Nat \ {0} :
             /\ writers'[master[pos].db].file = n
             /\ DOMAIN relay'[master[pos].db] = DOMAIN relay[master[pos].db] \cup {n}
             /\ \A m \in DOMAIN relay[master[pos].db] : m <= n
             /\ \A m \in DOMAIN relay[master[pos].db] \ {n} :
                  relay'[master[pos].db][m] = relay[master[pos].db][m]
             /\ \/ /\ n \in DOMAIN relay[master[pos].db]
                   /\ relay'[master[pos].db][n] = Append(relay[master[pos].db][n], pos)
                   /\ \A i \in DOMAIN relay[master[pos].db][n] :
                        relay[master[pos].db][n][i] < pos
                \/ /\ n \notin DOMAIN relay[master[pos].db]
                   /\ relay'[master[pos].db][n] = <<pos>>
<1> DEFINE d == master[pos].db
           new == NeedsNewWriter(d)
           writer == IF new THEN [file |-> GetNextFileNum(d), records |-> 0]
                     ELSE writers[d]
           files == IF new THEN OpenForWriting(relay[d], writer.file) ELSE relay[d]
           n == writer.file
<1>1. /\ pc = "store"
      /\ relay' = [relay EXCEPT ![d] = [files EXCEPT ![n] = Append(@, pos)]]
      /\ writers' = [writers EXCEPT ![d] =
                       [writer EXCEPT !.records = @ + master[pos].size]]
  BY DEF StoreEvent
<1>2. d \in Databases /\ pos \in Nat
  BY <1>1, StoreTypes DEF FilesInv
<1>3. /\ relay = [e \in Databases |-> relay[e]]
      /\ FilesOK(relay[d])
      /\ writers \in [Databases -> [file : Nat, records : Nat]]
  BY <1>2 DEF FilesInv, TypeOK, RelayTypeOK, ProcessTypeOK
<1>4. writer \in [file : Nat, records : Nat] /\ n \in Nat
  BY <1>2, <1>3, NextFileNumIsNew
<1>5. /\ relay'[d] = [files EXCEPT ![n] = Append(@, pos)]
      /\ writers'[d].file = n
  <2> HIDE DEF d, files, writer
  <2> QED
    BY <1>1, <1>2, <1>3, <1>4
<1>6. CASE new
  <2>1. /\ n \in Nat \ {0} /\ \A m \in DOMAIN relay[d] : m < n
    BY <1>2, <1>3, <1>6, NextFileNumIsNew
  <2>2. DOMAIN relay[d] \subseteq Nat
    BY <1>3 DEF FilesOK
  <2>3. n \notin DOMAIN relay[d]
    BY <2>1, <2>2
  <2>4. /\ DOMAIN files = DOMAIN relay[d] \cup {n} /\ files[n] = <<>>
        /\ \A m \in DOMAIN relay[d] : files[m] = relay[d][m]
    BY <1>6, <2>3 DEF OpenForWriting
  <2> HIDE DEF n, d, files
  <2>5. relay'[d][n] = Append(<<>>, pos)
    BY <1>5, <2>4
  <2>6. relay'[d][n] = <<pos>>
    BY <1>2, <2>5
  <2>7. /\ DOMAIN relay'[d] = DOMAIN relay[d] \cup {n}
        /\ \A m \in DOMAIN relay[d] \ {n} : relay'[d][m] = relay[d][m]
    BY <1>5, <2>4
  <2> QED
    BY <1>5, <2>1, <2>2, <2>3, <2>6, <2>7 DEF d
<1>7. CASE ~new
  <2>1. writers[d] # NoWriter /\ n = writers[d].file /\ files = relay[d]
    BY <1>7 DEF NeedsNewWriter
  <2>2. /\ n \in DOMAIN relay[d] /\ \A m \in DOMAIN relay[d] : m <= n
        /\ \A i \in DOMAIN relay[d][n] : relay[d][n][i] <= Done
    BY <1>2, <2>1 DEF FilesInv, WriterAtEnd
  <2>3. n \in Nat \ {0} /\ relay[d][n] \in Seq(Nat)
    BY <1>3, <2>2 DEF FilesOK
  <2>4. Done = pos - 1
    BY <1>1 DEF Done
  <2> HIDE DEF n, d, files
  <2>5. \A i \in DOMAIN relay[d][n] : relay[d][n][i] < pos
    BY <1>2, <2>2, <2>3, <2>4
  <2>6. /\ DOMAIN relay'[d] = DOMAIN relay[d] \cup {n}
        /\ relay'[d][n] = Append(relay[d][n], pos)
        /\ \A m \in DOMAIN relay[d] \ {n} : relay'[d][m] = relay[d][m]
    BY <1>5, <2>1, <2>2
  <2> QED
    BY <1>5, <2>2, <2>3, <2>5, <2>6 DEF d
<1> QED
  BY <1>6, <1>7

(* The relay of any other database stays as it is. *)
LEMMA StoreEventElsewhere ==
    ASSUME TypeOK, StoreEvent, NEW e \in Databases, e # master[pos].db
    PROVE  relay'[e] = relay[e] /\ writers'[e] = writers[e]
<1>1. /\ relay = [d \in Databases |-> relay[d]]
      /\ writers \in [Databases -> [file : Nat, records : Nat]]
  BY DEF TypeOK, RelayTypeOK, ProcessTypeOK
<1> QED
  BY <1>1 DEF StoreEvent

(* A crash leaves the files as they are, or adds an empty one at the end. *)
LEMMA CrashFiles ==
    ASSUME TypeOK, Crash, NEW e \in Databases
    PROVE  \/ relay'[e] = relay[e]
           \/ \E n \in Nat \ {0} :
                /\ \A m \in DOMAIN relay[e] : m < n
                /\ relay'[e] = OpenForWriting(relay[e], n)
<1>1. CASE UNCHANGED relay
  BY <1>1
<1>2. CASE ~UNCHANGED relay
  <2> DEFINE d == master[pos].db
  <2>1. /\ pc = "store"
        /\ relay' = [relay EXCEPT ![d] = OpenForWriting(relay[d], GetNextFileNum(d))]
    BY <1>2 DEF Crash
  <2>2. /\ relay = [f \in Databases |-> relay[f]] /\ FilesOK(relay[e])
    BY DEF TypeOK, RelayTypeOK
  <2>3. CASE e = d
    <3>1. /\ GetNextFileNum(e) \in Nat \ {0}
          /\ \A m \in DOMAIN relay[e] : m < GetNextFileNum(e)
      BY <2>2, NextFileNumIsNew
    <3>2. relay'[e] = OpenForWriting(relay[e], GetNextFileNum(e))
      BY <2>1, <2>2, <2>3
    <3> QED
      BY <3>1, <3>2
  <2>4. CASE e # d
    BY <2>1, <2>2, <2>4
  <2> QED
    BY <2>3, <2>4
<1> QED
  BY <1>1, <1>2

(* remove_old_files leaves the files it keeps as they are. *)
LEMMA TickFiles ==
    ASSUME TypeOK, Tick, NEW e \in Databases
    PROVE  /\ DOMAIN relay'[e] \subseteq DOMAIN relay[e]
           /\ \A n \in DOMAIN relay'[e] : relay'[e][n] = relay[e][n]
           /\ \A n \in DOMAIN relay[e] :
                n \in DOMAIN relay'[e] \/ n \in FileNumsToCheck(e)
<1>1. PICK old : RemoveOldFiles(old)
  BY DEF Tick
<1> DEFINE kept(d) == {n \in DOMAIN relay[d] :
                         ~(n \in FileNumsToCheck(d) /\ n <= old[d])}
<1>2. relay' = [d \in Databases |-> [n \in kept(d) |-> relay[d][n]]]
  BY <1>1 DEF RemoveOldFiles
<1>3. relay'[e] = [n \in kept(e) |-> relay[e][n]]
  <2> HIDE DEF kept
  <2> QED
    BY <1>2
<1> QED
  BY <1>3

(* The last file is not among those that may be removed. *)
LEMMA LastFileStays ==
    ASSUME TypeOK, NEW d \in Databases, NEW n \in DOMAIN relay[d],
           \A m \in DOMAIN relay[d] : m <= n
    PROVE  n \notin FileNumsToCheck(d)
<1> DEFINE S == DOMAIN relay[d]
<1>1. S \subseteq Nat
  BY DEF TypeOK, RelayTypeOK, FilesOK
<1>2. {m \in S : m > n} = {}
  BY <1>1
<1>3. Cardinality({m \in S : m > n}) = 0
  BY <1>2, FS_EmptySet
<1>4. ~(Cardinality({m \in S : m > n}) >= PreserveFiles + 1)
  BY <1>3, RelayAssumption
<1> QED
  BY <1>4 DEF FileNumsToCheck

(* Every other step leaves the files alone. *)
LEMMA OtherSteps ==
    ASSUME [Next]_vars, ~StoreEvent, ~Tick, ~Crash
    PROVE  UNCHANGED relay
<1>1. CASE UNCHANGED vars
  BY <1>1 DEF vars
<1> QED
  BY <1>1 DEF Next, Process, Start, OuterLoop, LeaveInnerLoop, Connect, SkipEvent,
     ReadEvent, ReadHeartbeat, Stop, ReadNone, ReadFails, Signal, MySQLCommits,
     ConsumerSaves, disk

-----------------------------------------------------------------------------
(* Relay files are sorted. *)

LEMMA InitFilesInv == Init => FilesInv
<1> SUFFICES ASSUME Init PROVE FilesInv
  OBVIOUS
<1>1. TypeOK
  BY InitTypeOK
<1>2. RelayFilesSorted
  BY DEF Init, RelayFilesSorted
<1>3. WriterAtEnd
  BY DEF Init, WriterAtEnd
<1> QED
  BY <1>1, <1>2, <1>3 DEF FilesInv

LEMMA SortedStep == FilesInv /\ [Next]_vars => RelayFilesSorted'
<1> SUFFICES ASSUME FilesInv, [Next]_vars, NEW e \in Databases,
                    NEW m \in DOMAIN relay'[e],
                    NEW i \in DOMAIN relay'[e][m], NEW j \in DOMAIN relay'[e][m],
                    i < j
             PROVE  relay'[e][m][i] < relay'[e][m][j]
  BY DEF RelayFilesSorted
<1>1. TypeOK /\ RelayFilesSorted
  BY DEF FilesInv
<1>2. ASSUME m \in DOMAIN relay[e], relay'[e][m] = relay[e][m]
      PROVE  relay'[e][m][i] < relay'[e][m][j]
  BY <1>1, <1>2 DEF RelayFilesSorted
<1>3. CASE StoreEvent
  <2>1. CASE e # master[pos].db
    BY <1>1, <1>2, <1>3, <2>1, StoreEventElsewhere
  <2>2. CASE e = master[pos].db
    <3>1. PICK n \in Nat \ {0} :
            /\ DOMAIN relay'[e] = DOMAIN relay[e] \cup {n}
            /\ \A k \in DOMAIN relay[e] \ {n} : relay'[e][k] = relay[e][k]
            /\ \/ /\ n \in DOMAIN relay[e]
                  /\ relay'[e][n] = Append(relay[e][n], pos)
                  /\ \A k \in DOMAIN relay[e][n] : relay[e][n][k] < pos
               \/ n \notin DOMAIN relay[e] /\ relay'[e][n] = <<pos>>
      BY <1>3, <2>2, StoreEventWrites
    <3>2. CASE m # n
      BY <1>2, <3>1, <3>2
    <3>3. CASE m = n /\ n \notin DOMAIN relay[e]
      <4>1. i = 1 /\ j = 1
        BY <3>1, <3>3
      <4> QED
        BY <4>1
    <3>4. CASE m = n /\ n \in DOMAIN relay[e]
      <4> DEFINE f == relay[e][n]
      <4>1. f \in Seq(Nat) /\ pos \in Nat
        <5>1. pc = "store"
          BY <1>3 DEF StoreEvent
        <5> QED
          BY <1>1, <3>4, <5>1, StoreTypes DEF TypeOK, RelayTypeOK, FilesOK
      <4>2. /\ relay'[e][m] = Append(f, pos)
            /\ \A k \in DOMAIN f : f[k] < pos
            /\ \A k, l \in DOMAIN f : k < l => f[k] < f[l]
        BY <1>1, <3>1, <3>4 DEF RelayFilesSorted
      <4> HIDE DEF f
      <4>3. /\ i \in 1..(Len(f) + 1) /\ j \in 1..(Len(f) + 1) /\ Len(f) \in Nat
            /\ DOMAIN f = 1..Len(f)
        BY <4>1, <4>2
      <4>4. i \in DOMAIN f /\ relay'[e][m][i] = f[i]
        BY <4>1, <4>2, <4>3
      <4>5. CASE j = Len(f) + 1
        BY <4>1, <4>2, <4>4, <4>5
      <4>6. CASE j # Len(f) + 1
        <5>1. j \in DOMAIN f /\ relay'[e][m][j] = f[j]
          BY <4>1, <4>2, <4>3, <4>6
        <5> QED
          BY <4>2, <4>4, <5>1
      <4> QED
        BY <4>5, <4>6
    <3> QED
      BY <3>2, <3>3, <3>4
  <2> QED
    BY <2>1, <2>2
<1>4. CASE Tick
  BY <1>1, <1>2, <1>4, TickFiles
<1>5. CASE Crash
  <2>1. CASE relay'[e] = relay[e]
    BY <1>2, <2>1
  <2>2. CASE relay'[e] # relay[e]
    <3>1. PICK n \in Nat \ {0} : relay'[e] = OpenForWriting(relay[e], n)
      BY <1>1, <1>5, <2>2, CrashFiles
    <3>2. CASE m = n
      <4>1. relay'[e][m] = <<>>
        BY <3>1, <3>2 DEF OpenForWriting
      <4> QED
        BY <4>1
    <3>3. CASE m # n
      <4>1. m \in DOMAIN relay[e] /\ relay'[e][m] = relay[e][m]
        BY <3>1, <3>3 DEF OpenForWriting
      <4> QED
        BY <1>2, <4>1
    <3> QED
      BY <3>2, <3>3
  <2> QED
    BY <2>1, <2>2
<1>6. CASE ~StoreEvent /\ ~Tick /\ ~Crash
  BY <1>2, <1>6, OtherSteps
<1> QED
  BY <1>3, <1>4, <1>5, <1>6

(* Within a run the stream only moves forward, so what was finished stays   *)
(* finished; a process that ends loses its writers.                         *)
LEMMA DoneGrows ==
    ASSUME TypeOK, [Next]_vars
    PROVE  \/ Done <= Done' /\ Done \in Int /\ Done' \in Int
           \/ pc = "down" \/ Stop \/ Crash
<1>1. pos \in Nat /\ Len(master) \in Nat /\ pos <= Len(master)
  BY DEF TypeOK, ProcessTypeOK, LogTypeOK
<1>2. CASE Connect
  <2>1. pc = "read" /\ pc' = pc /\ pos = 0 /\ pos' = Len(master)
    BY <1>2 DEF Connect, None
  <2> QED
    BY <1>1, <2>1 DEF Done
<1>3. CASE SkipEvent
  <2>1. pc = "read" /\ pc' = pc /\ pos' = pos + 1
    BY <1>3 DEF SkipEvent, Reading
  <2> QED
    BY <1>1, <2>1 DEF Done
<1>4. CASE ReadEvent
  <2>1. pc = "read" /\ pos' = pos + 1
    BY <1>4 DEF ReadEvent, Reading
  <2> QED
    BY <1>1, <2>1 DEF Done
<1>5. CASE StoreEvent
  <2>1. pc = "store" /\ pc' # "store" /\ pos' = pos
    BY <1>5 DEF StoreEvent, stream
  <2> QED
    BY <1>1, <2>1 DEF Done
<1>6. CASE OuterLoop \/ LeaveInnerLoop \/ ReadHeartbeat \/ ReadNone \/ ReadFails
           \/ Tick
  BY <1>1, <1>6 DEF OuterLoop, LeaveInnerLoop, ReadHeartbeat, ReadNone, ReadFails,
     Tick, Done, stream
<1>7. CASE Signal \/ MySQLCommits \/ \E d \in Databases : ConsumerSaves(d)
  BY <1>1, <1>7 DEF Signal, MySQLCommits, ConsumerSaves, Done, stream
<1>8. CASE UNCHANGED vars
  BY <1>1, <1>8 DEF vars, Done
<1>9. CASE Start
  BY <1>9 DEF Start
<1> QED
  BY <1>2, <1>3, <1>4, <1>5, <1>6, <1>7, <1>8, <1>9 DEF Next, Process

LEMMA WriterAtEndStep == FilesInv /\ [Next]_vars => WriterAtEnd'
<1> SUFFICES ASSUME FilesInv, [Next]_vars PROVE WriterAtEnd'
  OBVIOUS
<1>1. TypeOK /\ WriterAtEnd
  BY DEF FilesInv
<1>2. CASE Stop \/ Crash
  <2>1. writers' = [d \in Databases |-> NoWriter]
    BY <1>2 DEF Stop, Crash, ProcessEnds
  <2> QED
    BY <2>1 DEF WriterAtEnd
<1>3. CASE pc = "down" /\ ~Stop /\ ~Crash
  <2>1. UNCHANGED writers
    BY <1>3 DEF Next, Process, Start, OuterLoop, LeaveInnerLoop, Connect, SkipEvent,
       ReadEvent, ReadHeartbeat, StoreEvent, Tick, Stop, ReadNone, ReadFails,
       Signal, Crash, MySQLCommits, ConsumerSaves, Reading, vars
  <2>2. \A d \in Databases : writers[d] = NoWriter
    BY <1>1, <1>3 DEF WriterAtEnd
  <2> QED
    BY <2>1, <2>2 DEF WriterAtEnd
<1>4. CASE pc # "down" /\ ~Stop /\ ~Crash
  <2>1. pc' # "down"
    BY <1>4 DEF Next, Process, Start, OuterLoop, LeaveInnerLoop, Connect, SkipEvent,
       ReadEvent, ReadHeartbeat, StoreEvent, Tick, ReadNone, ReadFails, Signal,
       MySQLCommits, ConsumerSaves, Reading, vars
  <2>2. Done <= Done' /\ Done \in Int /\ Done' \in Int
    BY <1>1, <1>4, DoneGrows
  <2> DEFINE AtEnd(e, n) == /\ n \in DOMAIN relay'[e]
                            /\ \A m \in DOMAIN relay'[e] : m <= n
                            /\ \A i \in DOMAIN relay'[e][n] : relay'[e][n][i] <= Done'
  <2> SUFFICES ASSUME NEW e \in Databases, writers'[e] # NoWriter
               PROVE  AtEnd(e, writers'[e].file)
    BY <2>1 DEF WriterAtEnd
  <2>3. FilesOK(relay[e])
    BY <1>1 DEF TypeOK, RelayTypeOK
  <2>4. ASSUME writers'[e] = writers[e],
               writers[e].file \in DOMAIN relay'[e],
               DOMAIN relay'[e] \subseteq DOMAIN relay[e],
               relay'[e][writers[e].file] = relay[e][writers[e].file]
        PROVE  AtEnd(e, writers'[e].file)
    <3> DEFINE n == writers[e].file
    <3>1. /\ n \in DOMAIN relay[e]
          /\ \A m \in DOMAIN relay[e] : m <= n
          /\ \A i \in DOMAIN relay[e][n] : relay[e][n][i] <= Done
      BY <1>1, <2>4 DEF WriterAtEnd
    <3>2. relay[e][n] \in Seq(Nat)
      BY <2>3, <3>1 DEF FilesOK
    <3>3. \A i \in DOMAIN relay[e][n] : relay[e][n][i] <= Done'
      <4> HIDE DEF n
      <4> QED
        BY <2>2, <3>1, <3>2
    <3> QED
      BY <2>4, <3>1, <3>3
  <2>5. CASE StoreEvent /\ e = master[pos].db
    <3>1. PICK n \in Nat \ {0} :
            /\ writers'[e].file = n
            /\ DOMAIN relay'[e] = DOMAIN relay[e] \cup {n}
            /\ \A m \in DOMAIN relay[e] : m <= n
            /\ \/ /\ n \in DOMAIN relay[e]
                  /\ relay'[e][n] = Append(relay[e][n], pos)
                  /\ \A k \in DOMAIN relay[e][n] : relay[e][n][k] < pos
               \/ n \notin DOMAIN relay[e] /\ relay'[e][n] = <<pos>>
      BY <2>5, StoreEventWrites
    <3>2. pos \in Nat /\ Done' = pos
      <4>1. pc = "store" /\ pc' # "store" /\ pos' = pos
        BY <2>5 DEF StoreEvent, stream
      <4> QED
        BY <1>1, <4>1, StoreTypes DEF Done
    <3>3. \A i \in DOMAIN relay'[e][n] : relay'[e][n][i] <= pos
      <4>1. CASE n \notin DOMAIN relay[e]
        BY <3>1, <3>2, <4>1
      <4>2. CASE n \in DOMAIN relay[e]
        <5>1. relay[e][n] \in Seq(Nat)
          BY <2>3, <4>2 DEF FilesOK
        <5>2. /\ relay'[e][n] = Append(relay[e][n], pos)
              /\ \A k \in DOMAIN relay[e][n] : relay[e][n][k] < pos /\ relay[e][n][k] \in Nat
          BY <3>1, <4>2, <5>1
        <5> DEFINE f == relay[e][n]
        <5>3. /\ f \in Seq(Nat) /\ relay'[e][n] = Append(f, pos)
              /\ \A k \in DOMAIN f : f[k] < pos /\ f[k] \in Nat
          BY <5>1, <5>2
        <5> HIDE DEF f
        <5>4. \A i \in DOMAIN Append(f, pos) :
                Append(f, pos)[i] = pos \/ \E k \in DOMAIN f : Append(f, pos)[i] = f[k]
          BY <3>2, <5>3, AppendEntries
        <5>5. \A i \in DOMAIN Append(f, pos) : Append(f, pos)[i] <= pos
          BY <3>2, <5>3, <5>4
        <5> QED
          BY <5>3, <5>5
      <4> QED
        BY <4>1, <4>2
    <3> QED
      BY <3>1, <3>2, <3>3
  <2>6. CASE StoreEvent /\ e # master[pos].db
    BY <1>1, <2>4, <2>6, StoreEventElsewhere DEF WriterAtEnd
  <2>7. CASE Tick
    <3>1. writers'[e] = writers[e]
      BY <2>7 DEF Tick
    <3>2. /\ writers[e].file \in DOMAIN relay[e]
          /\ \A m \in DOMAIN relay[e] : m <= writers[e].file
      BY <1>1, <3>1 DEF WriterAtEnd
    <3>3. writers[e].file \notin FileNumsToCheck(e)
      BY <1>1, <3>2, LastFileStays
    <3> QED
      BY <1>1, <2>4, <2>7, <3>1, <3>2, <3>3, TickFiles
  <2>8. CASE ~StoreEvent /\ ~Tick
    <3>1. UNCHANGED <<relay, writers>>
      BY <1>4, <2>8 DEF Next, Process, Start, OuterLoop, LeaveInnerLoop, Connect,
         SkipEvent, ReadEvent, ReadHeartbeat, ReadNone, ReadFails, Signal,
         MySQLCommits, ConsumerSaves, disk, vars
    <3> QED
      BY <1>1, <2>4, <3>1 DEF WriterAtEnd
  <2> QED
    BY <2>5, <2>6, <2>7, <2>8
<1> QED
  BY <1>2, <1>3, <1>4

LEMMA FilesInvStep == FilesInv /\ [Next]_vars => FilesInv'
BY SortedStep, WriterAtEndStep, TypeOKStep DEF FilesInv

(* However often the process is restarted and replays events, the ids in a  *)
(* relay file increase, as set_position expects: each run opens files of    *)
(* its own, and the stream of a run never goes back.                        *)
THEOREM RelayFilesAreSorted == Spec => []RelayFilesSorted
<1>1. FilesInv => RelayFilesSorted
  BY DEF FilesInv
<1> QED
  BY <1>1, InitFilesInv, FilesInvStep, PTL DEF Spec

-----------------------------------------------------------------------------
(* Relay files are append-only. *)

(* A file that is not removed keeps its entries, and a new entry is behind  *)
(* every old one.                                                           *)
LEMMA EntriesKept ==
    ASSUME FilesInv, [Next]_vars, NEW e \in Databases
    PROVE  /\ \A m \in DOMAIN relay[e] \cap DOMAIN relay'[e] :
                \A i \in DOMAIN relay[e][m] :
                  i \in DOMAIN relay'[e][m] /\ relay'[e][m][i] = relay[e][m][i]
           /\ \A m \in DOMAIN relay'[e] : \A i \in DOMAIN relay'[e][m] :
                \/ /\ m \in DOMAIN relay[e] /\ i \in DOMAIN relay[e][m]
                   /\ relay'[e][m][i] = relay[e][m][i]
                \/ /\ \A k \in DOMAIN relay[e] : k <= m
                   /\ m \in DOMAIN relay[e] => \A j \in DOMAIN relay[e][m] : j < i
<1> DEFINE Same(m) == m \in DOMAIN relay[e] /\ relay'[e][m] = relay[e][m]
<1>1. TypeOK /\ FilesOK(relay[e])
  BY DEF FilesInv, TypeOK, RelayTypeOK
<1>2. CASE StoreEvent
  <2>1. CASE e # master[pos].db
    BY <1>1, <1>2, <2>1, StoreEventElsewhere
  <2>2. CASE e = master[pos].db
    <3>1. PICK n \in Nat \ {0} :
            /\ DOMAIN relay'[e] = DOMAIN relay[e] \cup {n}
            /\ \A m \in DOMAIN relay[e] : m <= n
            /\ \A m \in DOMAIN relay[e] \ {n} : relay'[e][m] = relay[e][m]
            /\ n \in DOMAIN relay[e] => relay'[e][n] = Append(relay[e][n], pos)
      BY <1>2, <2>2, StoreEventWrites
    <3>2. pos \in Nat
      BY <1>1 DEF TypeOK, ProcessTypeOK
    <3>3. n \in DOMAIN relay[e] =>
            /\ \A i \in DOMAIN relay[e][n] :
                 i \in DOMAIN relay'[e][n] /\ relay'[e][n][i] = relay[e][n][i]
            /\ \A i \in DOMAIN relay'[e][n] :
                 \/ i \in DOMAIN relay[e][n] /\ relay'[e][n][i] = relay[e][n][i]
                 \/ \A j \in DOMAIN relay[e][n] : j < i
      <4> SUFFICES ASSUME n \in DOMAIN relay[e]
                   PROVE  /\ \A i \in DOMAIN relay[e][n] :
                               i \in DOMAIN relay'[e][n] /\ relay'[e][n][i] = relay[e][n][i]
                          /\ \A i \in DOMAIN relay'[e][n] :
                               \/ i \in DOMAIN relay[e][n] /\ relay'[e][n][i] = relay[e][n][i]
                               \/ \A j \in DOMAIN relay[e][n] : j < i
        OBVIOUS
      <4> DEFINE f == relay[e][n]
                 g == relay'[e][n]
      <4>1. f \in Seq(Nat) /\ g = Append(f, pos)
        BY <1>1, <3>1 DEF FilesOK
      <4> HIDE DEF f, g
      <4>2. /\ \A i \in DOMAIN f : i \in DOMAIN g /\ g[i] = f[i]
            /\ \A i \in DOMAIN g : (i \in DOMAIN f /\ g[i] = f[i]) \/ \A j \in DOMAIN f : j < i
        BY <3>2, <4>1
      <4> QED
        BY <4>2 DEF f, g
    <3> QED
      BY <3>1, <3>3
  <2> QED
    BY <2>1, <2>2
<1>3. CASE Tick
  BY <1>1, <1>3, TickFiles
<1>4. CASE Crash
  <2>1. CASE relay'[e] = relay[e]
    BY <2>1
  <2>2. CASE relay'[e] # relay[e]
    <3>1. PICK n \in Nat \ {0} : /\ \A k \in DOMAIN relay[e] : k < n
                                 /\ relay'[e] = OpenForWriting(relay[e], n)
      BY <1>1, <1>4, <2>2, CrashFiles
    <3>2. n \notin DOMAIN relay[e]
      BY <1>1, <3>1 DEF FilesOK
    <3>3. /\ DOMAIN relay'[e] = DOMAIN relay[e] \cup {n} /\ relay'[e][n] = <<>>
          /\ \A m \in DOMAIN relay[e] : relay'[e][m] = relay[e][m]
      BY <3>1, <3>2 DEF OpenForWriting
    <3> QED
      BY <3>3
  <2> QED
    BY <2>1, <2>2
<1>5. CASE ~StoreEvent /\ ~Tick /\ ~Crash
  BY <1>5, OtherSteps
<1> QED
  BY <1>2, <1>3, <1>4, <1>5

(* A reader's offset into a relay file stays good: no step rewrites or      *)
(* truncates a file, whatever number the next one gets after a clean-up.    *)
THEOREM RelayIsAppendOnly == Spec => RelayAppendOnly
<1> DEFINE Kept == \A d \in Databases : \A n \in DOMAIN relay[d] \cap DOMAIN relay'[d] :
                     \A i \in DOMAIN relay[d][n] :
                       i \in DOMAIN relay'[d][n] /\ relay'[d][n][i] = relay[d][n][i]
<1>1. FilesInv /\ [Next]_vars => Kept
  BY EntriesKept
<1> QED
  BY <1>1, InitFilesInv, FilesInvStep, PTL DEF Spec, RelayAppendOnly

-----------------------------------------------------------------------------
(* The transaction a db_replicator saved. *)

LEMMA LeastOf ==
    ASSUME NEW S, S \subseteq Nat, S # {}
    PROVE  Min(S) \in S /\ \A m \in S : Min(S) <= m
<1> DEFINE R == {ss \in Nat \X Nat : ss[1] < ss[2]}
<1>1. IsWellFoundedOn(R, Nat)
  BY NatLessThanWellFounded DEF OpToRel
<1> HIDE DEF R
<1>2. PICK n \in S : \A m \in S : ~(<<m, n>> \in R)
  BY <1>1, WFMin
<1>3. ASSUME NEW m \in S PROVE n <= m
  <2>1. n \in Nat /\ m \in Nat
    OBVIOUS
  <2>2. m < n => <<m, n>> \in R
    BY <2>1, Zenon DEF R
  <2> QED
    BY <1>2, <2>1, <2>2
<1> QED
  BY <1>3 DEF Min

LEMMA GreatestOf ==
    ASSUME NEW S, S \subseteq Nat, S # {}, NEW b \in Nat, \A m \in S : m <= b
    PROVE  Max(S) \in S /\ \A m \in S : m <= Max(S)
<1> DEFINE T == {b - m : m \in S}
<1>1. \A m \in S : b - m \in Nat
  OBVIOUS
<1>2. T \subseteq Nat /\ T # {}
  BY <1>1
<1>3. Min(T) \in T /\ \A t \in T : Min(T) <= t
  BY <1>2, LeastOf
<1>4. PICK n \in S : Min(T) = b - n
  BY <1>3
<1>5. \A m \in S : n >= m
  <2> SUFFICES ASSUME NEW m \in S PROVE n >= m
    OBVIOUS
  <2>1. b - n <= b - m
    BY <1>3, <1>4
  <2> QED
    BY <2>1
<1> QED
  BY <1>5 DEF Max

(* get_file_with_transaction returns a file with the transaction, if any. *)
LEMMA SearchIsSound ==
    ASSUME TypeOK, NEW d \in Databases, NEW t, GetFileWithTransaction(d, t) # 0
    PROVE  /\ GetFileWithTransaction(d, t) \in DOMAIN relay[d]
           /\ \E i \in DOMAIN relay[d][GetFileWithTransaction(d, t)] :
                relay[d][GetFileWithTransaction(d, t)][i] = t
<1> DEFINE nums == DOMAIN relay[d]
           rank(n) == Cardinality({m \in nums : m < n})
           nonempty == {n \in nums : relay[d][n] # <<>>}
           after == {n \in nonempty : relay[d][n][1] > t}
           before == {n \in nonempty : \A m \in after : n < m}
           matching == IF after # {} /\ before # {} THEN Max(before) ELSE Max(nums)
           holding == {n \in nums :
                         /\ rank(n) \in (rank(matching) - SearchWindow) ..
                                        (rank(matching) + SearchWindow - 1)
                         /\ \E i \in DOMAIN relay[d][n] : relay[d][n][i] = t}
<1>1. nums \subseteq Nat
  BY DEF TypeOK, RelayTypeOK, FilesOK
<1>2. holding # {} /\ GetFileWithTransaction(d, t) = Min(holding)
  BY DEF GetFileWithTransaction
<1>3. holding \subseteq Nat
  BY <1>1
<1> HIDE DEF matching, rank
<1>4. Min(holding) \in holding
  <2> HIDE DEF holding
  <2> QED
    BY <1>2, <1>3, LeastOf
<1> QED
  BY <1>2, <1>4

(* As long as replays have left no more files behind the saved transaction  *)
(* than the search looks through, it returns the first file with it.        *)
LEMMA SearchFindsFirst ==
    ASSUME TypeOK, NEW d \in Databases, NEW n \in DOMAIN relay[d],
           NEW i \in DOMAIN relay[d][n], relay[d][n][i] = checkpoint[d],
           FirstOfItsKind(d, n, i), Cardinality(ReplayFiles(d)) <= SearchWindow
    PROVE  GetFileWithTransaction(d, checkpoint[d]) = n
<1> DEFINE t == checkpoint[d]
           nums == DOMAIN relay[d]
           rank(k) == Cardinality({m \in nums : m < k})
           nonempty == {k \in nums : relay[d][k] # <<>>}
           after == {k \in nonempty : relay[d][k][1] > t}
           before == {k \in nonempty : \A m \in after : k < m}
           matching == IF after # {} /\ before # {} THEN Max(before) ELSE Max(nums)
           holding == {k \in nums :
                         /\ rank(k) \in (rank(matching) - SearchWindow) ..
                                        (rank(matching) + SearchWindow - 1)
                         /\ \E j \in DOMAIN relay[d][k] : relay[d][k][j] = t}
<1>1. /\ nums \subseteq Nat \ {0} /\ t \in Nat
      /\ \A k \in nums : relay[d][k] \in Seq(Nat)
      /\ \A k \in nums : \A j \in DOMAIN relay[d][k] : relay[d][k][j] \in Nat
  <2>1. FilesOK(relay[d]) /\ t \in Nat
    BY DEF TypeOK, RelayTypeOK, StateTypeOK
  <2>2. nums \subseteq Nat \ {0} /\ \A k \in nums : relay[d][k] \in Seq(Nat)
    BY <2>1 DEF FilesOK
  <2>3. ASSUME NEW k \in nums, NEW j \in DOMAIN relay[d][k] PROVE relay[d][k][j] \in Nat
    <3>1. relay[d][k] \in Seq(Nat)
      BY <2>2
    <3> QED
      BY <3>1
  <2> QED
    BY <2>1, <2>2, <2>3
<1>2. PICK b \in nums : \A m \in nums : b >= m
  BY DEF TypeOK, RelayTypeOK, FilesOK
<1>3. \A k \in nums : \A j \in DOMAIN relay[d][k] :
        k < n \/ (k = n /\ j < i) => relay[d][k][j] < t
  BY DEF FirstOfItsKind
<1>4. \A k \in nonempty : 1 \in DOMAIN relay[d][k]
  <2> SUFFICES ASSUME NEW k \in nonempty PROVE 1 \in DOMAIN relay[d][k]
    OBVIOUS
  <2>1. relay[d][k] \in Seq(Nat) /\ relay[d][k] # <<>>
    BY <1>1
  <2> QED
    BY <2>1
<1>5. n \in before
  <2>1. n \in nonempty
    BY <1>1
  <2>2. ASSUME NEW m \in after PROVE n < m
    <3>1. m \in nums /\ 1 \in DOMAIN relay[d][m] /\ relay[d][m][1] > t
      BY <1>4
    <3>2. relay[d][m][1] \in Nat /\ m \in Nat /\ n \in Nat
      BY <1>1, <3>1
    <3>3. ~(m < n)
      <4> HIDE DEF t, nums, after
      <4> QED
        BY <1>1, <1>3, <3>1, <3>2
    <3>4. m # n
      <4> SUFFICES ASSUME m = n PROVE FALSE
        OBVIOUS
      <4>1. i \in Nat \ {0}
        BY <1>1
      <4>2. i = 1 \/ 1 < i
        BY <4>1
      <4> QED
        BY <1>1, <1>3, <3>1, <3>2, <4>2
    <3> QED
      BY <3>2, <3>3, <3>4
  <2> QED
    BY <2>1, <2>2
<1>6. matching \in nums /\ n <= matching /\ (after # {} => matching \in before)
  <2>1. CASE after # {}
    <3>1. before \subseteq Nat /\ b \in Nat /\ \A m \in before : m <= b
      BY <1>1, <1>2
    <3> HIDE DEF after, before
    <3>2. Max(before) \in before /\ \A m \in before : m <= Max(before)
      BY <1>5, <3>1, GreatestOf
    <3>3. matching = Max(before)
      BY <1>5, <2>1
    <3> HIDE DEF matching
    <3>4. matching \in before /\ n <= matching
      BY <1>5, <3>2, <3>3
    <3> QED
      BY <3>4 DEF before
  <2>2. CASE after = {}
    <3> HIDE DEF after, before
    <3>1. matching = Max(nums)
      BY <2>2
    <3>2. Max(nums) \in nums /\ \A m \in nums : Max(nums) >= m
      BY <1>2 DEF Max
    <3> HIDE DEF matching
    <3> QED
      BY <1>1, <2>2, <3>1, <3>2
  <2> QED
    BY <2>1, <2>2
<1> DEFINE between == {k \in nums : n < k /\ k <= matching}
<1> HIDE DEF matching
<1>7. between \subseteq ReplayFiles(d)
  <2> SUFFICES ASSUME NEW k \in between
               PROVE  relay[d][k] = <<>> \/ relay[d][k][1] <= checkpoint[d]
    BY DEF ReplayFiles
  <2>1. k \notin after
    <3> SUFFICES ASSUME k \in after PROVE FALSE
      OBVIOUS
    <3>1. matching < k
      BY <1>6
    <3> QED
      BY <1>1, <1>6, <3>1
  <2>2. CASE relay[d][k] # <<>>
    <3>1. 1 \in DOMAIN relay[d][k]
      BY <1>4, <2>2
    <3>2. relay[d][k][1] \in Nat
      BY <1>1, <3>1
    <3>3. ~(relay[d][k][1] > t)
      BY <2>1, <2>2
    <3> QED
      BY <1>1, <3>2, <3>3
  <2> QED
    BY <2>2
<1>8. /\ rank(n) \in Nat /\ rank(matching) \in Nat
      /\ rank(n) <= rank(matching) /\ rank(matching) <= rank(n) + SearchWindow
  <2> DEFINE below(k) == {m \in nums : m < k}
  <2>1. IsFiniteSet(nums)
    BY <1>1, <1>2, FS_BoundedSetOfNaturals
  <2>2. IsFiniteSet(below(n)) /\ IsFiniteSet(below(matching)) /\ IsFiniteSet(between)
    BY <2>1, FS_Subset
  <2>3. IsFiniteSet(ReplayFiles(d))
    BY <2>1, FS_Subset DEF ReplayFiles
  <2>4. /\ Cardinality(between) \in Nat /\ Cardinality(below(n)) \in Nat
        /\ Cardinality(below(matching)) \in Nat /\ Cardinality(ReplayFiles(d)) \in Nat
    BY <2>2, <2>3, FS_CardinalityType
  <2>5. Cardinality(between) <= Cardinality(ReplayFiles(d))
    BY <1>7, <2>3, FS_Subset
  <2>6. Cardinality(between) <= SearchWindow
    <3> HIDE DEF between
    <3> QED
      BY <2>4, <2>5, RelayAssumption
  <2>7. below(n) \subseteq below(matching)
    BY <1>1, <1>6
  <2>8. Cardinality(below(n)) <= Cardinality(below(matching))
    <3> HIDE DEF below
    <3> QED
      BY <2>2, <2>7, FS_Subset
  <2>9. below(matching) \ below(n) \subseteq (between \cup {n}) \ {matching}
    <3> SUFFICES ASSUME NEW k \in nums, k < matching, ~(k < n)
                 PROVE  k \in (between \cup {n}) \ {matching}
      OBVIOUS
    <3>1. k \in Nat /\ n \in Nat /\ matching \in Nat
      BY <1>1, <1>6
    <3> HIDE DEF nums
    <3> QED
      BY <3>1
  <2>10. Cardinality(below(matching)) <= Cardinality(below(n)) + SearchWindow
    <3>1. Cardinality((between \cup {n}) \ {matching}) <= Cardinality(between)
      <4>1. n \notin between /\ matching \in between \cup {n}
        BY <1>1, <1>6
      <4> HIDE DEF between
      <4>2. /\ IsFiniteSet(between \cup {n})
            /\ Cardinality(between \cup {n}) = Cardinality(between) + 1
        BY <2>2, <4>1, FS_AddElement
      <4>3. Cardinality((between \cup {n}) \ {matching}) = Cardinality(between \cup {n}) - 1
        BY <4>1, <4>2, FS_RemoveElement
      <4> QED
        BY <2>4, <4>2, <4>3
    <3>2. IsFiniteSet((between \cup {n}) \ {matching})
      <4> HIDE DEF between
      <4> QED
        BY <2>2, FS_AddElement, FS_RemoveElement
    <3> DEFINE U == (between \cup {n}) \ {matching}
               V == below(matching) \ below(n)
    <3>3. V \subseteq U
      BY <2>9
    <3> HIDE DEF below, between
    <3>4. Cardinality(V) = Cardinality(below(matching)) - Cardinality(below(matching) \cap below(n))
      BY <2>2, FS_Difference
    <3>5. below(matching) \cap below(n) = below(n)
      BY <2>7
    <3>6. Cardinality(V) <= Cardinality(U) /\ Cardinality(U) <= Cardinality(between)
      BY <3>1, <3>2, <3>3, FS_Subset
    <3>7. Cardinality(U) \in Nat /\ Cardinality(V) \in Nat
      BY <2>2, <3>2, FS_CardinalityType, FS_Difference
    <3>8. Cardinality(V) = Cardinality(below(matching)) - Cardinality(below(n))
      BY <3>4, <3>5
    <3> HIDE DEF U, V
    <3> QED
      BY <2>4, <2>6, <3>6, <3>7, <3>8, RelayAssumption
  <2> QED
    BY <2>4, <2>8, <2>10
<1>9. n \in holding
  <2> HIDE DEF rank
  <2>1. rank(n) \in (rank(matching) - SearchWindow) .. (rank(matching) + SearchWindow - 1)
    BY <1>8, RelayAssumption
  <2> QED
    BY <2>1
<1>10. \A m \in holding : n <= m
  <2> HIDE DEF rank
  <2> SUFFICES ASSUME NEW m \in holding PROVE n <= m
    OBVIOUS
  <2>1. PICK j \in DOMAIN relay[d][m] : relay[d][m][j] = t
    OBVIOUS
  <2>2. m \in nums /\ m \in Nat /\ n \in Nat
    BY <1>1
  <2>3. ~(m < n)
    <3>1. ~(t < t)
      BY <1>1
    <3> QED
      BY <1>3, <2>1, <2>2, <3>1
  <2> QED
    BY <2>2, <2>3
<1>11. Min(holding) = n
  <2>1. holding \subseteq Nat
    BY <1>1
  <2> HIDE DEF holding
  <2>2. Min(holding) \in holding /\ Min(holding) <= n
    BY <1>9, <2>1, LeastOf
  <2> QED
    BY <1>9, <1>10, <2>1, <2>2
<1>12. GetFileWithTransaction(d, t) = IF nums = {} \/ holding = {} THEN 0 ELSE Min(holding)
  BY DEF GetFileWithTransaction, matching
<1> QED
  BY <1>9, <1>11, <1>12

(* A file with the saved transaction that the search returns is not removed. *)
LEMMA ProtectedFileStays ==
    ASSUME TypeOK, NEW d \in Databases, checkpoint[d] # None,
           NEW n \in FileNumsToCheck(d)
    PROVE  /\ GetFileWithTransaction(d, checkpoint[d]) # 0
           /\ n < GetFileWithTransaction(d, checkpoint[d])
<1>1. n \in Nat /\ n < GetFileWithTransaction(d, checkpoint[d])
  BY DEF FileNumsToCheck, TypeOK, RelayTypeOK, FilesOK
<1> QED
  BY <1>1

(* Only a db_replicator changes what it saved, and then leaves the relay. *)
LEMMA CheckpointSteps ==
    ASSUME TypeOK, [Next]_vars, NEW d \in Databases
    PROVE  \/ checkpoint'[d] = checkpoint[d]
           \/ /\ UNCHANGED relay
              /\ \E n \in DOMAIN relay[d] : \E i \in DOMAIN relay[d][n] :
                   FirstOfItsKind(d, n, i) /\ checkpoint'[d] = relay[d][n][i]
<1>1. checkpoint \in [Databases -> Nat]
  BY DEF TypeOK, StateTypeOK
<1>2. CASE \E e \in Databases : ConsumerSaves(e)
  <2>1. PICK e \in Databases : ConsumerSaves(e)
    BY <1>2
  <2>2. UNCHANGED relay
    BY <2>1 DEF ConsumerSaves, disk
  <2>3. PICK n \in DOMAIN relay[e] : \E i \in DOMAIN relay[e][n] :
          /\ FirstOfItsKind(e, n, i)
          /\ checkpoint' = [checkpoint EXCEPT ![e] = relay[e][n][i]]
    BY <2>1 DEF ConsumerSaves
  <2>4. CASE e = d
    BY <1>1, <2>2, <2>3, <2>4
  <2>5. CASE e # d
    BY <1>1, <2>3, <2>5
  <2> QED
    BY <2>4, <2>5
<1>3. CASE ~\E e \in Databases : ConsumerSaves(e)
  <2>1. UNCHANGED checkpoint
    BY <1>3 DEF Next, Process, Start, OuterLoop, LeaveInnerLoop, Connect, SkipEvent,
       ReadEvent, ReadHeartbeat, StoreEvent, Tick, Stop, ReadNone, ReadFails,
       Signal, Crash, MySQLCommits, vars
  <2> QED
    BY <2>1
<1> QED
  BY <1>2, <1>3

(* The clean-up is the only step that removes files. *)
LEMMA FilesRemoved ==
    ASSUME FilesInv, [Next]_vars, NEW d \in Databases, NEW n \in DOMAIN relay[d]
    PROVE  n \in DOMAIN relay'[d] \/ (Tick /\ n \in FileNumsToCheck(d))
<1>1. TypeOK
  BY DEF FilesInv
<1>2. CASE StoreEvent
  <2>1. CASE d # master[pos].db
    BY <1>1, <1>2, <2>1, StoreEventElsewhere
  <2>2. CASE d = master[pos].db
    BY <1>2, <2>2, StoreEventWrites
  <2> QED
    BY <2>1, <2>2
<1>3. CASE Tick
  BY <1>1, <1>3, TickFiles
<1>4. CASE Crash
  BY <1>1, <1>4, CrashFiles DEF OpenForWriting
<1>5. CASE ~StoreEvent /\ ~Tick /\ ~Crash
  BY <1>5, OtherSteps
<1> QED
  BY <1>2, <1>3, <1>4, <1>5

LEMMA CheckpointKeptStep == FilesInv /\ CheckpointKept /\ [Next]_vars => CheckpointKept'
<1> SUFFICES ASSUME FilesInv, CheckpointKept, [Next]_vars, NEW d \in Databases,
                    checkpoint'[d] # None
             PROVE  \E n \in DOMAIN relay'[d] : \E i \in DOMAIN relay'[d][n] :
                      relay'[d][n][i] = checkpoint'[d]
  BY DEF CheckpointKept, Relayed
<1>1. TypeOK
  BY DEF FilesInv
<1>2. CASE checkpoint'[d] # checkpoint[d]
  BY <1>1, <1>2, CheckpointSteps
<1>3. CASE checkpoint'[d] = checkpoint[d]
  <2> DEFINE p == GetFileWithTransaction(d, checkpoint[d])
  <2>1. ASSUME NEW n \in DOMAIN relay[d] \cap DOMAIN relay'[d],
               \E i \in DOMAIN relay[d][n] : relay[d][n][i] = checkpoint[d]
        PROVE  \E m \in DOMAIN relay'[d] : \E i \in DOMAIN relay'[d][m] :
                 relay'[d][m][i] = checkpoint'[d]
    BY <1>3, <2>1, EntriesKept
  <2>2. PICK n \in DOMAIN relay[d] :
          \E i \in DOMAIN relay[d][n] : relay[d][n][i] = checkpoint[d]
    BY <1>3 DEF CheckpointKept, Relayed
  <2>3. CASE n \in DOMAIN relay'[d]
    BY <2>1, <2>2, <2>3
  <2>4. CASE n \notin DOMAIN relay'[d]
    <3>1. Tick /\ n \in FileNumsToCheck(d)
      BY <2>4, FilesRemoved
    <3>2. p # 0
      BY <1>1, <1>3, <3>1, ProtectedFileStays
    <3>3. p \in DOMAIN relay[d] /\ \E i \in DOMAIN relay[d][p] : relay[d][p][i] = checkpoint[d]
      BY <1>1, <3>2, SearchIsSound
    <3>4. p \notin FileNumsToCheck(d)
      <4>1. p \in Nat
        BY <1>1, <3>3 DEF TypeOK, RelayTypeOK, FilesOK
      <4> QED
        BY <1>1, <1>3, <4>1, ProtectedFileStays
    <3>5. p \in DOMAIN relay'[d]
      BY <3>3, <3>4, FilesRemoved
    <3> QED
      BY <2>1, <3>3, <3>5
  <2> QED
    BY <2>3, <2>4
<1> QED
  BY <1>2, <1>3

LEMMA CheckpointInOrderStep ==
    FilesInv /\ CheckpointInOrder /\ FewReplays /\ [Next]_vars => CheckpointInOrder'
<1> SUFFICES ASSUME FilesInv, CheckpointInOrder, FewReplays, [Next]_vars,
                    NEW d \in Databases, checkpoint'[d] # None
             PROVE  \E n \in DOMAIN relay'[d] : \E i \in DOMAIN relay'[d][n] :
                      relay'[d][n][i] = checkpoint'[d] /\ FirstOfItsKind(d, n, i)'
  BY DEF CheckpointInOrder
<1>1. TypeOK
  BY DEF FilesInv
<1>2. CASE checkpoint'[d] # checkpoint[d]
  BY <1>1, <1>2, CheckpointSteps DEF FirstOfItsKind
<1>3. CASE checkpoint'[d] = checkpoint[d]
  <2>1. PICK n \in DOMAIN relay[d] : \E i \in DOMAIN relay[d][n] :
          relay[d][n][i] = checkpoint[d] /\ FirstOfItsKind(d, n, i)
    BY <1>3 DEF CheckpointInOrder
  <2>2. PICK i \in DOMAIN relay[d][n] :
          relay[d][n][i] = checkpoint[d] /\ FirstOfItsKind(d, n, i)
    BY <2>1
  <2>3. n \in DOMAIN relay'[d]
    <3>1. GetFileWithTransaction(d, checkpoint[d]) = n
      BY <1>1, <1>3, <2>2, SearchFindsFirst DEF FewReplays
    <3>2. n \in Nat
      BY <1>1 DEF TypeOK, RelayTypeOK, FilesOK
    <3>3. n \notin FileNumsToCheck(d)
      BY <1>1, <1>3, <3>1, <3>2, ProtectedFileStays
    <3> QED
      BY <3>3, FilesRemoved
  <2>4. i \in DOMAIN relay'[d][n] /\ relay'[d][n][i] = relay[d][n][i]
    BY <2>3, EntriesKept
  <2>5. FirstOfItsKind(d, n, i)'
    <3> SUFFICES ASSUME NEW m \in DOMAIN relay'[d], NEW j \in DOMAIN relay'[d][m],
                        m < n \/ (m = n /\ j < i)
                 PROVE  relay'[d][m][j] < relay'[d][n][i]
      BY DEF FirstOfItsKind
    <3>1. CASE m \in DOMAIN relay[d] /\ j \in DOMAIN relay[d][m] /\ relay'[d][m][j] = relay[d][m][j]
      BY <2>2, <2>4, <3>1 DEF FirstOfItsKind
    <3>2. CASE /\ \A k \in DOMAIN relay[d] : k <= m
               /\ m \in DOMAIN relay[d] => \A k \in DOMAIN relay[d][m] : k < j
      <4>1. n <= m /\ (m = n => i < j)
        BY <2>2, <3>2
      <4>2. n \in Nat /\ m \in Nat
        BY <1>1, TypeOKStep DEF TypeOK, RelayTypeOK, FilesOK
      <4>3. i \in Nat /\ j \in Nat
        <5>1. relay[d][n] \in Seq(Nat) /\ relay'[d][m] \in Seq(Nat)
          BY <1>1, TypeOKStep DEF TypeOK, RelayTypeOK, FilesOK
        <5> QED
          BY <5>1
      <4> QED
        BY <4>1, <4>2, <4>3
    <3> QED
      BY <3>1, <3>2, EntriesKept
  <2> QED
    BY <1>3, <2>2, <2>3, <2>4, <2>5
<1> QED
  BY <1>2, <1>3

LEMMA InitCheckpoint == Init => CheckpointKept /\ CheckpointInOrder
BY DEF Init, CheckpointKept, CheckpointInOrder

(* Whatever the replays, the clean-up leaves the transaction a              *)
(* db_replicator saved in some relay file: remove_old_files deletes nothing *)
(* when the search does not find it, and otherwise only files in front.     *)
THEOREM CheckpointIsKept == Spec => []CheckpointKept
BY InitFilesInv, FilesInvStep, InitCheckpoint, CheckpointKeptStep, PTL DEF Spec

(* While restarts have left no more replayed files behind the saved         *)
(* transaction than the search window, get_file_with_transaction finds it:  *)
(* a db_replicator that restarts can go on.                                 *)
THEOREM CheckpointIsFound == Spec /\ []FewReplays => []CheckpointFound
<1>1. FilesInv /\ CheckpointInOrder /\ FewReplays => CheckpointFound
  <2> SUFFICES ASSUME FilesInv, CheckpointInOrder, FewReplays, NEW d \in Databases,
                      checkpoint[d] # None
               PROVE  GetFileWithTransaction(d, checkpoint[d]) # 0
    BY DEF CheckpointFound
  <2>1. PICK n \in DOMAIN relay[d] : \E i \in DOMAIN relay[d][n] :
          relay[d][n][i] = checkpoint[d] /\ FirstOfItsKind(d, n, i)
    BY DEF CheckpointInOrder
  <2>2. PICK i \in DOMAIN relay[d][n] :
          relay[d][n][i] = checkpoint[d] /\ FirstOfItsKind(d, n, i)
    BY <2>1
  <2>3. TypeOK /\ n # 0
    BY DEF FilesInv, TypeOK, RelayTypeOK, FilesOK
  <2> QED
    BY <2>2, <2>3, SearchFindsFirst DEF FewReplays
<1> QED
  BY <1>1, InitFilesInv, FilesInvStep, InitCheckpoint, CheckpointInOrderStep, PTL DEF Spec

(* Under the same condition remove_old_files deletes nothing that a         *)
(* db_replicator has still to read: the files in front of the one it        *)
(* protects hold smaller ids only.                                          *)
THEOREM UnreadEventsAreKept == Spec /\ []FewReplays => UnreadEventsKept
<1> DEFINE Unread == \A d \in Databases : checkpoint[d] # None =>
                       \A t \in Relayed(d) : t > checkpoint[d] => t \in Relayed(d)'
<1>1. FilesInv /\ CheckpointInOrder /\ FewReplays /\ [Next]_vars => Unread
  <2> SUFFICES ASSUME FilesInv, CheckpointInOrder, FewReplays, [Next]_vars,
                      NEW d \in Databases, checkpoint[d] # None,
                      NEW m \in DOMAIN relay[d], NEW j \in DOMAIN relay[d][m],
                      relay[d][m][j] > checkpoint[d]
               PROVE  relay[d][m][j] \in Relayed(d)'
    BY DEF Relayed
  <2>1. TypeOK
    BY DEF FilesInv
  <2>2. PICK n \in DOMAIN relay[d] : \E i \in DOMAIN relay[d][n] :
          relay[d][n][i] = checkpoint[d] /\ FirstOfItsKind(d, n, i)
    BY DEF CheckpointInOrder
  <2>3. PICK i \in DOMAIN relay[d][n] :
          relay[d][n][i] = checkpoint[d] /\ FirstOfItsKind(d, n, i)
    BY <2>2
  <2>4. GetFileWithTransaction(d, checkpoint[d]) = n
    BY <2>1, <2>3, SearchFindsFirst DEF FewReplays
  <2>5. ~(m < n)
    <3>1. relay[d][m] \in Seq(Nat) /\ checkpoint[d] \in Nat
      BY <2>1 DEF TypeOK, RelayTypeOK, FilesOK, StateTypeOK
    <3>2. relay[d][m][j] \in Nat
      BY <3>1
    <3>3. m < n => relay[d][m][j] < checkpoint[d]
      BY <2>3 DEF FirstOfItsKind
    <3> QED
      BY <3>1, <3>2, <3>3
  <2>6. m \in DOMAIN relay'[d]
    BY <2>1, <2>4, <2>5, FilesRemoved, ProtectedFileStays
  <2>7. j \in DOMAIN relay'[d][m] /\ relay'[d][m][j] = relay[d][m][j]
    BY <2>6, EntriesKept
  <2> QED
    BY <2>6, <2>7 DEF Relayed
<1> QED
  BY <1>1, InitFilesInv, FilesInvStep, InitCheckpoint, CheckpointInOrderStep, PTL
     DEF Spec, UnreadEventsKept

=============================================================================
