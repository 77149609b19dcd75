------------------------ MODULE RelayRecoveryProofs ------------------------
(***************************************************************************)
(* TLAPS proofs about RelayRecovery, for any databases, sizes of files and *)
(* numbers of losses, failures and crashes: RecoveryInv is inductive, and  *)
(* a recovery that succeeds covers the log up to the new position, one     *)
(* that fails leaves the relay as it was.  With it SkipInv is, and no      *)
(* reader passes over an event.                                            *)
(***************************************************************************)
EXTENDS RelayRecovery, SequenceTheorems, WellFoundedInduction, TLAPS

-----------------------------------------------------------------------------
(* Relay files. *)

LEMMA LeastOf ==
    ASSUME NEW S, S \subseteq Nat, S # {}
    PROVE  Min(S) \in S /\ \A m \in S : Min(S) <= m
<1> DEFINE R == {ss \in Nat \X Nat : ss[1] < ss[2]}
<1>1. IsWellFoundedOn(R, Nat)
  BY NatLessThanWellFounded DEF OpToRel
<1> HIDE DEF R
<1>2. PICK n \in S : \A m \in S : ~(<<m, n>> \in R)
  BY <1>1, WFMin
<1>3. ASSUME NEW m \in S PROVE n <= m
  <2>1. n \in Nat /\ m \in Nat
    OBVIOUS
  <2>2. m < n => <<m, n>> \in R
    BY <2>1, Zenon DEF R
  <2> QED
    BY <1>2, <2>1, <2>2
<1> QED
  BY <1>3 DEF Min

(* A set of numbers with a bound has a greatest one. *)
LEMMA GreatestOf ==
    ASSUME NEW S, S \subseteq Nat, S # {}, NEW b \in Nat, \A m \in S : m <= b
    PROVE  \E n \in S : \A m \in S : n >= m
<1> DEFINE T == {b - m : m \in S}
<1>1. \A m \in S : b - m \in Nat
  OBVIOUS
<1>2. T \subseteq Nat /\ T # {}
  BY <1>1
<1>3. Min(T) \in T /\ \A t \in T : Min(T) <= t
  BY <1>2, LeastOf
<1>4. PICK n \in S : Min(T) = b - n
  BY <1>3
<1>5. ASSUME NEW m \in S PROVE n >= m
  <2>1. b - n <= b - m
    BY <1>3, <1>4
  <2> QED
    BY <2>1
<1> QED
  BY <1>5

LEMMA FilesMore ==
    ASSUME NEW E, NEW F, E \subseteq F, NEW files, FilesOK(E, files)
    PROVE  FilesOK(F, files)
BY SeqMonotonic DEF FilesOK

LEMMA NoFiles == ASSUME NEW E PROVE FilesOK(E, <<>>) /\ DOMAIN <<>> = {}
<1>1. DOMAIN <<>> = {} /\ <<>> = [n \in {} |-> <<>>[n]]
  OBVIOUS
<1> QED
  BY <1>1 DEF FilesOK

LEMMA FilesWithout ==
    ASSUME NEW E, NEW files, FilesOK(E, files), NEW n
    PROVE  FilesOK(E, Without(files, n))
<1> DEFINE g == Without(files, n)
<1>1. /\ DOMAIN g = DOMAIN files \ {n} /\ \A k \in DOMAIN g : g[k] = files[k]
      /\ g = [k \in DOMAIN g |-> g[k]]
  BY DEF Without
<1> HIDE DEF g
<1>2. ASSUME DOMAIN g # {} PROVE \E k \in DOMAIN g : \A m \in DOMAIN g : k >= m
  <2>1. PICK b \in DOMAIN files : \A m \in DOMAIN files : b >= m
    BY <1>1, <1>2 DEF FilesOK
  <2>2. DOMAIN g \subseteq Nat /\ b \in Nat /\ \A m \in DOMAIN g : m <= b
    BY <1>1, <2>1 DEF FilesOK
  <2> QED
    BY <1>2, <2>2, GreatestOf
<1> QED
  BY <1>1, <1>2 DEF FilesOK, g

LEMMA FilesWith ==
    ASSUME NEW E, NEW files, FilesOK(E, files), NEW n \in Nat \ {0},
           NEW file \in Seq(E), file # <<>>
    PROVE  FilesOK(E, With(files, n, file))
<1> DEFINE g == With(files, n, file)
<1>1. /\ DOMAIN g = DOMAIN files \cup {n} /\ g[n] = file
      /\ \A k \in DOMAIN files \ {n} : g[k] = files[k]
      /\ g = [k \in DOMAIN g |-> g[k]]
  BY DEF With
<1> HIDE DEF g
<1>2. DOMAIN g \subseteq Nat \ {0}
  BY <1>1 DEF FilesOK
<1>3. \E k \in DOMAIN g : \A m \in DOMAIN g : k >= m
  <2>1. CASE DOMAIN files = {}
    BY <1>1, <2>1
  <2>2. CASE DOMAIN files # {}
    <3>1. PICK b \in DOMAIN files : \A m \in DOMAIN files : b >= m
      BY <2>2 DEF FilesOK
    <3>2. b \in Nat /\ \A m \in DOMAIN files : m \in Nat
      BY DEF FilesOK
    <3>3. CASE n <= b
      BY <1>1, <3>1, <3>2, <3>3
    <3>4. CASE n > b
      BY <1>1, <3>1, <3>2, <3>4
    <3> QED
      BY <3>2, <3>3, <3>4
  <2> QED
    BY <2>1, <2>2
<1>4. \A k \in DOMAIN g : g[k] # <<>> /\ g[k] \in Seq(E)
  BY <1>1 DEF FilesOK
<1> QED
  BY <1>1, <1>2, <1>3, <1>4 DEF FilesOK, g

(* The last and the next file. *)
LEMMA LastFile ==
    ASSUME NEW E, NEW files, FilesOK(E, files)
    PROVE  /\ DOMAIN files # {} => Max(DOMAIN files) \in DOMAIN files
           /\ Max(DOMAIN files \cup {0}) + 1 \in Nat \ {0}
           /\ \A m \in DOMAIN files : m < Max(DOMAIN files \cup {0}) + 1
<1>1. DOMAIN files \subseteq Nat
  BY DEF FilesOK
<1>2. DOMAIN files # {} => \E n \in DOMAIN files : \A m \in DOMAIN files : n >= m
  BY DEF FilesOK
<1>3. DOMAIN files # {} => Max(DOMAIN files) \in DOMAIN files
  BY <1>2 DEF Max
<1> DEFINE S == DOMAIN files \cup {0}
<1>4. \E n \in S : \A m \in S : n >= m
  <2>1. CASE DOMAIN files = {}
    BY <2>1
  <2>2. CASE DOMAIN files # {}
    <3>1. PICK n \in DOMAIN files : \A m \in DOMAIN files : n >= m
      BY <1>2, <2>2
    <3>2. n \in Nat /\ n \in S /\ \A m \in S : n >= m
      BY <1>1, <3>1
    <3> QED
      BY <3>2
  <2> QED
    BY <2>1, <2>2
<1>5. S \subseteq Nat
  BY <1>1
<1>6. Max(S) \in S /\ \A m \in S : Max(S) >= m
  <2> HIDE DEF S
  <2> QED
    BY <1>4 DEF Max
<1>7. \A m \in DOMAIN files : m \in S
  OBVIOUS
<1> HIDE DEF S
<1> DEFINE x == Max(S)
<1>8. x \in S /\ \A m \in S : x >= m
  BY <1>6
<1> HIDE DEF x
<1>9. x + 1 \in Nat \ {0} /\ \A m \in DOMAIN files : m < x + 1
  <2>1. x \in Nat
    BY <1>5, <1>8
  <2>2. x + 1 \in Nat \ {0}
    BY <2>1
  <2>3. ASSUME NEW m \in DOMAIN files PROVE m < x + 1
    <3>1. m \in Nat /\ x >= m
      BY <1>1, <1>7, <1>8
    <3> QED
      BY <2>1, <3>1
  <2> QED
    BY <2>2, <2>3
<1> QED
  BY <1>3, <1>9 DEF S, x

-----------------------------------------------------------------------------
(* MySQL's log and what is stored of it. *)

LEMMA LogTypes ==
    ASSUME TypeOK
    PROVE  /\ binlog \in Seq(Databases) /\ Len(binlog) \in Nat
           /\ DOMAIN binlog = 1..Len(binlog)
           /\ relay = [d \in Databases |-> relay[d]]
           /\ \A d \in Databases : FilesOK(Events(d), relay[d])
           /\ \A d \in Databases : Events(d) \subseteq 1..Len(binlog)
           /\ dirs \in [Databases -> Nat] /\ writer \in [Databases -> Nat]
           /\ checkpoint \in [Databases -> Nat]
<1>1. /\ binlog \in Seq(Databases)
      /\ relay = [d \in Databases |-> relay[d]]
      /\ \A d \in Databases : FilesOK(Events(d), relay[d])
      /\ dirs \in [Databases -> Nat] /\ writer \in [Databases -> Nat]
      /\ checkpoint \in [Databases -> Nat]
  BY DEF TypeOK, FilesTypeOK
<1>2. Len(binlog) \in Nat /\ DOMAIN binlog = 1..Len(binlog)
  BY <1>1
<1>3. \A d \in Databases : Events(d) \subseteq 1..Len(binlog)
  BY DEF Events, EventsOf
<1> QED
  BY <1>1, <1>2, <1>3

LEMMA LogGrows ==
    ASSUME TypeOK, [Next]_vars
    PROVE  /\ binlog' \in Seq(Databases)
           /\ Len(binlog') \in Nat /\ Len(binlog) <= Len(binlog')
           /\ \A i \in 1..Len(binlog) : binlog'[i] = binlog[i]
<1>1. binlog \in Seq(Databases) /\ Len(binlog) \in Nat
  BY LogTypes
<1>2. CASE \E d \in Databases : MySQLCommits(d)
  <2>1. PICK d \in Databases : binlog' = Append(binlog, d)
    BY <1>2 DEF MySQLCommits
  <2> QED
    BY <1>1, <2>1
<1>3. CASE ~\E d \in Databases : MySQLCommits(d)
  <2>1. binlog' = binlog
    BY <1>3 DEF Next, Start, Recover, NotRequired, BinlogNotAvailable, Required, BackupDone,
       RebuildEvent, RebuildDone, ValidateRecovered, SaveBinlogState, BinlogPurged,
       RestoreDone, BackupFile, RestoreRemove, RestoreFile, BinlogReplicatorStores,
       RecoveryFails, Crash, MySQLPurges, DbReplicator, InitialReplication, SetPosition,
       ReadEvent, ReachEnd, SwitchFile, NoNextFile, RelayFileLost, mysql, vars
  <2> QED
    BY <1>1, <2>1
<1> QED
  BY <1>2, <1>3

(* The events of a database stay its events. *)
LEMMA EventsStay ==
    ASSUME TypeOK, [Next]_vars, NEW d
    PROVE  /\ Events(d) \subseteq Events(d)'
           /\ \A a \in Nat \ {0}, b \in 0..Len(binlog) : EventsOf(d, a, b)' = EventsOf(d, a, b)
<1>1. /\ Len(binlog) \in Nat /\ Len(binlog') \in Nat /\ Len(binlog) <= Len(binlog')
      /\ \A i \in 1..Len(binlog) : binlog'[i] = binlog[i]
  BY LogTypes, LogGrows
<1>2. Events(d) \subseteq Events(d)'
  BY <1>1 DEF Events, EventsOf
<1>3. ASSUME NEW a \in Nat \ {0}, NEW b \in 0..Len(binlog)
      PROVE  EventsOf(d, a, b)' = EventsOf(d, a, b)
  <2>1. \A i \in a..b : binlog'[i] = binlog[i]
    BY <1>1
  <2> QED
    BY <2>1 DEF EventsOf
<1> QED
  BY <1>2, <1>3

(* store_event: the event is in the last file, whatever that is, and the    *)
(* files only grow.                                                         *)
LEMMA StoreEventGrows ==
    ASSUME TypeOK, NEW d \in Databases, NEW id \in Events(d), StoreEvent(d, id)
    PROVE  /\ relay' = [e \in Databases |-> relay'[e]]
           /\ \A e \in Databases \ {d} : relay'[e] = relay[e] /\ writer'[e] = writer[e]
           /\ writer' \in [Databases -> Nat]
           /\ FilesOK(Events(d), relay'[d])
           /\ writer'[d] \in DOMAIN relay'[d]
           /\ id \in Ids(relay'[d]) /\ Ids(relay[d]) \subseteq Ids(relay'[d])
           /\ \A n \in DOMAIN relay[d] : /\ n \in DOMAIN relay'[d]
                                         /\ Len(relay[d][n]) <= Len(relay'[d][n])
<1> DEFINE f == relay[d]
           w == writer[d]
           goesOn == w # 0 /\ Len(f[w]) < RecordsPerFile
           num == IF goesOn THEN w ELSE Max(DOMAIN f \cup {0}) + 1
           file == IF goesOn THEN Append(f[num], id) ELSE <<id>>
<1>1. /\ relay' = [relay EXCEPT ![d] = With(f, num, file)]
      /\ writer' = [writer EXCEPT ![d] = num]
  BY LogTypes DEF StoreEvent
<1>2. /\ FilesOK(Events(d), f) /\ w \in Nat /\ (w = 0 \/ w \in DOMAIN f)
      /\ writer \in [Databases -> Nat] /\ relay = [e \in Databases |-> relay[e]]
  BY DEF TypeOK, FilesTypeOK
<1> HIDE DEF f, w
<1>3. \A n \in DOMAIN f : f[n] \in Seq(Events(d)) /\ Len(f[n]) \in Nat /\ n \in Nat \ {0}
  BY <1>2 DEF FilesOK
<1>4. /\ num \in Nat \ {0} /\ file \in Seq(Events(d)) /\ file # <<>>
      /\ \E i \in DOMAIN file : file[i] = id
      /\ num \in DOMAIN f => /\ Len(f[num]) <= Len(file)
                             /\ \A i \in DOMAIN f[num] : i \in DOMAIN file /\ file[i] = f[num][i]
  <2>1. CASE goesOn
    <3>1. num = w /\ file = Append(f[w], id) /\ w \in DOMAIN f
      BY <1>2, <2>1
    <3>2. f[w] \in Seq(Events(d)) /\ w \in Nat \ {0} /\ Len(f[w]) \in Nat
      BY <1>3, <3>1
    <3> DEFINE g == f[w]
    <3>3. g \in Seq(Events(d)) /\ Len(g) \in Nat /\ file = Append(g, id)
      BY <3>1, <3>2
    <3> HIDE DEF g, file
    <3>4. /\ file \in Seq(Events(d)) /\ Len(file) = Len(g) + 1 /\ file[Len(g) + 1] = id
          /\ \A i \in 1..Len(g) : file[i] = g[i]
      BY <3>3
    <3>5. DOMAIN file = 1..(Len(g) + 1) /\ DOMAIN g = 1..Len(g) /\ file # <<>>
      BY <3>3, <3>4
    <3>6. \A i \in DOMAIN g : i \in DOMAIN file /\ file[i] = g[i]
      BY <3>3, <3>4, <3>5
    <3>7. Len(g) + 1 \in DOMAIN file /\ Len(g) <= Len(file)
      BY <3>3, <3>4, <3>5
    <3> QED
      BY <3>1, <3>2, <3>4, <3>5, <3>6, <3>7 DEF g
  <2>2. CASE ~goesOn
    <3>1. num = Max(DOMAIN f \cup {0}) + 1 /\ file = <<id>>
      BY <2>2
    <3>2. num \in Nat \ {0} /\ \A m \in DOMAIN f : m < num
      BY <1>2, <3>1, LastFile
    <3> HIDE DEF num
    <3>3. num \notin DOMAIN f
      BY <1>3, <3>2
    <3>4. <<id>> \in Seq(Events(d)) /\ <<id>> # <<>> /\ 1 \in DOMAIN <<id>> /\ <<id>>[1] = id
      OBVIOUS
    <3> QED
      BY <3>1, <3>2, <3>3, <3>4
  <2> QED
    BY <2>1, <2>2
<1> HIDE DEF goesOn, num, file
<1> DEFINE g == With(f, num, file)
<1>5. /\ FilesOK(Events(d), g) /\ DOMAIN g = DOMAIN f \cup {num} /\ g[num] = file
      /\ \A k \in DOMAIN f \ {num} : g[k] = f[k]
  <2> DEFINE E == Events(d)
  <2>1. FilesOK(E, f) /\ num \in Nat \ {0} /\ file \in Seq(E) /\ file # <<>>
    BY <1>2, <1>4
  <2> HIDE DEF E
  <2>2. FilesOK(E, g)
    BY <2>1, FilesWith
  <2>3. /\ DOMAIN g = DOMAIN f \cup {num} /\ g[num] = file
        /\ \A k \in DOMAIN f \ {num} : g[k] = f[k]
    BY DEF With
  <2> QED
    BY <2>2, <2>3 DEF E
<1> HIDE DEF g
<1>6. /\ relay' = [e \in Databases |-> relay'[e]] /\ relay'[d] = g
      /\ \A e \in Databases \ {d} : relay'[e] = relay[e] /\ writer'[e] = writer[e]
      /\ writer' \in [Databases -> Nat] /\ writer'[d] = num
  BY <1>1, <1>2, <1>4 DEF g
<1>7. id \in Ids(g)
  BY <1>4, <1>5 DEF Ids
<1>8. \A n \in DOMAIN f : \A i \in DOMAIN f[n] :
        n \in DOMAIN g /\ i \in DOMAIN g[n] /\ g[n][i] = f[n][i]
  BY <1>4, <1>5
<1>9. Ids(f) \subseteq Ids(g)
  BY <1>8 DEF Ids
<1>10. \A n \in DOMAIN f : n \in DOMAIN g /\ Len(f[n]) <= Len(g[n])
  <2> SUFFICES ASSUME NEW n \in DOMAIN f PROVE n \in DOMAIN g /\ Len(f[n]) <= Len(g[n])
    OBVIOUS
  <2>1. CASE n = num
    BY <1>4, <1>5, <2>1
  <2>2. CASE n # num
    BY <1>3, <1>5, <2>2
  <2> QED
    BY <2>1, <2>2
<1> QED
  BY <1>5, <1>6, <1>7, <1>9, <1>10 DEF f

-----------------------------------------------------------------------------
(* What a step does to the relay. *)

LEMMA Unfold ==
    ASSUME RecoveryInv
    PROVE  TypeOK /\ FilesTypeOK /\ ReaderTypeOK /\ OpenInv /\ BackupInv /\ RebuildInv /\ FoundInv
BY DEF RecoveryInv, TypeOK

LEMMA KnownTypes ==
    ASSUME TypeOK
    PROVE  /\ Known \subseteq Databases
           /\ \A d \in Databases : d \in Known => checkpoint[d] \in Events(d)
           /\ \A d \in Databases : d \notin Known => checkpoint[d] = None
BY DEF Known, TypeOK

(* The event the rebuild or the binlog replicator stores. *)
LEMMA NextEvent ==
    ASSUME TypeOK, NEW n \in 0..Len(binlog), n < Len(binlog)
    PROVE  binlog[n + 1] \in Databases /\ n + 1 \in Events(binlog[n + 1])
<1>1. binlog \in Seq(Databases) /\ Len(binlog) \in Nat /\ n + 1 \in 1..Len(binlog)
  BY LogTypes
<1> QED
  BY <1>1 DEF Events, EventsOf

LEMMA RelayGrows ==
    ASSUME RecoveryInv, [Next]_vars, pc # "down", pc # "backup", pc # "restore"
    PROVE  /\ relay' = [d \in Databases |-> relay'[d]]
           /\ \A d \in Databases :
                /\ FilesOK(Events(d)', relay'[d])
                /\ Ids(relay[d]) \subseteq Ids(relay'[d])
                /\ \A n \in DOMAIN relay[d] : /\ n \in DOMAIN relay'[d]
                                              /\ Len(relay[d][n]) <= Len(relay'[d][n])
<1>1. /\ relay = [d \in Databases |-> relay[d]]
      /\ \A d \in Databases : FilesOK(Events(d), relay[d])
      /\ \A d \in Databases : \A n \in DOMAIN relay[d] : Len(relay[d][n]) \in Nat
  <2>1. /\ relay = [d \in Databases |-> relay[d]]
        /\ \A d \in Databases : FilesOK(Events(d), relay[d])
    BY Unfold, LogTypes
  <2>2. ASSUME NEW d \in Databases, NEW n \in DOMAIN relay[d] PROVE Len(relay[d][n]) \in Nat
    <3>1. relay[d][n] \in Seq(Events(d))
      BY <2>1 DEF FilesOK
    <3> QED
      BY <3>1
  <2> QED
    BY <2>1, <2>2
<1>2. \A d \in Databases : FilesOK(Events(d)', relay[d])
  BY <1>1, EventsStay, FilesMore, Unfold
<1>3. CASE relay' = relay
  BY <1>1, <1>2, <1>3
<1>4. ASSUME NEW d \in Databases, NEW id \in Events(d), StoreEvent(d, id)
      PROVE  /\ relay' = [e \in Databases |-> relay'[e]]
             /\ \A e \in Databases :
                  /\ FilesOK(Events(e)', relay'[e])
                  /\ Ids(relay[e]) \subseteq Ids(relay'[e])
                  /\ \A n \in DOMAIN relay[e] : /\ n \in DOMAIN relay'[e]
                                                /\ Len(relay[e][n]) <= Len(relay'[e][n])
  <2>1. /\ relay' = [e \in Databases |-> relay'[e]]
        /\ \A e \in Databases \ {d} : relay'[e] = relay[e]
        /\ FilesOK(Events(d), relay'[d])
        /\ Ids(relay[d]) \subseteq Ids(relay'[d])
        /\ \A n \in DOMAIN relay[d] : /\ n \in DOMAIN relay'[d]
                                      /\ Len(relay[d][n]) <= Len(relay'[d][n])
    BY <1>4, StoreEventGrows, Unfold
  <2>2. FilesOK(Events(d)', relay'[d])
    BY <2>1, EventsStay, FilesMore, Unfold
  <2>3. ASSUME NEW e \in Databases \ {d}
        PROVE  /\ FilesOK(Events(e)', relay'[e])
               /\ Ids(relay[e]) \subseteq Ids(relay'[e])
               /\ \A n \in DOMAIN relay[e] : /\ n \in DOMAIN relay'[e]
                                             /\ Len(relay[e][n]) <= Len(relay'[e][n])
    BY <1>1, <1>2, <2>1
  <2> QED
    BY <2>1, <2>2, <2>3
<1>5. CASE RebuildEvent
  <2>1. at \in 0..Len(binlog) /\ at < Len(binlog)
    BY <1>5, Unfold DEF RebuildEvent, TypeOK
  <2>2. CASE binlog[at + 1] \in Known
    BY <1>4, <1>5, <2>1, <2>2, NextEvent, Unfold DEF RebuildEvent
  <2>3. CASE binlog[at + 1] \notin Known
    BY <1>3, <1>5, <2>3 DEF RebuildEvent
  <2> QED
    BY <2>2, <2>3
<1>6. CASE BinlogReplicatorStores
  <2>1. saved \in 0..Len(binlog) /\ saved < Len(binlog)
    BY <1>6, Unfold DEF BinlogReplicatorStores, TypeOK
  <2> QED
    BY <1>4, <1>6, <2>1, NextEvent, Unfold DEF BinlogReplicatorStores
<1>7. CASE ~RebuildEvent /\ ~BinlogReplicatorStores
  <2>1. relay' = relay
    BY <1>7 DEF Next, Start, Recover, NotRequired, BinlogNotAvailable, Required, BackupDone,
       RebuildDone, ValidateRecovered, SaveBinlogState, BinlogPurged, RestoreDone,
       BackupFile, RestoreRemove, RestoreFile, RecoveryFails, Crash, MySQLPurges,
       MySQLCommits, DbReplicator, InitialReplication, SetPosition, ReadEvent, ReachEnd,
       SwitchFile, NoNextFile, RelayFileLost, vars
  <2> QED
    BY <1>3, <2>1
<1> QED
  BY <1>5, <1>6, <1>7

(* What a recovery moves, and what it moves back. *)
LEMMA BackedUpTypes ==
    ASSUME RecoveryInv, Recovering, NEW d \in Databases, NEW n \in DOMAIN BackedUp(d)
    PROVE  /\ n \in Nat \ {0} /\ BackedUp(d)[n] = before[d][n] /\ n \in DOMAIN before[d]
           /\ BackedUp(d)[n] # <<>> /\ BackedUp(d)[n] \in Seq(Events(d))
<1>1. /\ FilesOK(Events(d), before[d]) /\ n \in DOMAIN before[d]
      /\ BackedUp(d)[n] = before[d][n]
  BY Unfold DEF BackupInv, FilesAccounted
<1> QED
  BY <1>1 DEF FilesOK

LEMMA RelayMoved ==
    ASSUME RecoveryInv, [Next]_vars, pc \in {"down", "backup", "restore"}
    PROVE  /\ relay' = [d \in Databases |-> relay'[d]]
           /\ \A d \in Databases : FilesOK(Events(d)', relay'[d])
<1>1. /\ relay = [d \in Databases |-> relay[d]]
      /\ \A d \in Databases : FilesOK(Events(d), relay[d])
  BY Unfold, LogTypes
<1>2. \A d \in Databases : FilesOK(Events(d)', relay[d])
  BY <1>1, EventsStay, FilesMore, Unfold
<1>3. CASE relay' = relay
  BY <1>1, <1>2, <1>3
<1>4. ASSUME NEW d \in Databases, NEW f, relay' = [relay EXCEPT ![d] = f],
             FilesOK(Events(d), f)
      PROVE  /\ relay' = [e \in Databases |-> relay'[e]]
             /\ \A e \in Databases : FilesOK(Events(e)', relay'[e])
  <2>1. FilesOK(Events(d)', f)
    BY <1>4, EventsStay, FilesMore, Unfold
  <2>2. /\ relay' = [e \in Databases |-> relay'[e]] /\ relay'[d] = f
        /\ \A e \in Databases \ {d} : relay'[e] = relay[e]
    BY <1>1, <1>4
  <2> QED
    BY <1>2, <2>1, <2>2
<1>5. ASSUME NEW d \in Databases, RelayFileLost(d)
      PROVE  /\ relay' = [e \in Databases |-> relay'[e]]
             /\ \A e \in Databases : FilesOK(Events(e)', relay'[e])
  <2>1. relay' = [relay EXCEPT ![d] = Without(relay[d], Min(DOMAIN relay[d]))]
    BY <1>1, <1>5 DEF RelayFileLost
  <2> QED
    BY <1>1, <1>4, <2>1, FilesWithout
<1>6. ASSUME NEW d \in Databases, BackupFile(d)
      PROVE  /\ relay' = [e \in Databases |-> relay'[e]]
             /\ \A e \in Databases : FilesOK(Events(e)', relay'[e])
  <2>1. PICK n \in DOMAIN relay[d] : relay' = [relay EXCEPT ![d] = Without(relay[d], n)]
    BY <1>1, <1>6 DEF BackupFile
  <2> QED
    BY <1>1, <1>4, <2>1, FilesWithout
<1>7. ASSUME NEW d \in Databases, RestoreRemove(d)
      PROVE  /\ relay' = [e \in Databases |-> relay'[e]]
             /\ \A e \in Databases : FilesOK(Events(e)', relay'[e])
  <2>1. relay' = [relay EXCEPT ![d] = <<>>]
    BY <1>7 DEF RestoreRemove
  <2> QED
    BY <1>4, <2>1, NoFiles
<1>8. ASSUME NEW d \in Databases, RestoreFile(d)
      PROVE  /\ relay' = [e \in Databases |-> relay'[e]]
             /\ \A e \in Databases : FilesOK(Events(e)', relay'[e])
  <2>1. BackedUp(d) = backups[d][dirs[d]] /\ pc = "restore"
    BY <1>8, Unfold DEF RestoreFile, BackupInv, FilesAccounted, Recovering, BackedUp
  <2>2. PICK n \in DOMAIN BackedUp(d) :
          relay' = [relay EXCEPT ![d] = With(relay[d], n, BackedUp(d)[n])]
    BY <1>1, <1>8, <2>1 DEF RestoreFile
  <2>3. FilesOK(Events(d), With(relay[d], n, BackedUp(d)[n]))
    BY <1>1, <2>1, BackedUpTypes, FilesWith DEF Recovering
  <2> QED
    BY <1>4, <2>2, <2>3
<1>9. CASE /\ ~\E d \in Databases : \/ RelayFileLost(d) \/ BackupFile(d)
                                    \/ RestoreRemove(d) \/ RestoreFile(d)
  <2>1. relay' = relay
    BY <1>9 DEF Next, Start, Recover, NotRequired, BinlogNotAvailable, Required, BackupDone,
       RebuildEvent, RebuildDone, ValidateRecovered, SaveBinlogState, BinlogPurged,
       RestoreDone, BinlogReplicatorStores, RecoveryFails, Crash, MySQLPurges,
       MySQLCommits, DbReplicator, InitialReplication, SetPosition, ReadEvent, ReachEnd,
       SwitchFile, NoNextFile, vars
  <2> QED
    BY <1>3, <2>1
<1> QED
  BY <1>5, <1>6, <1>7, <1>8, <1>9

LEMMA RelayStep ==
    ASSUME RecoveryInv, [Next]_vars
    PROVE  /\ relay' = [d \in Databases |-> relay'[d]]
           /\ \A d \in Databases : FilesOK(Events(d)', relay'[d])
<1>1. CASE pc \in {"down", "backup", "restore"}
  BY <1>1, RelayMoved
<1>2. CASE pc \notin {"down", "backup", "restore"}
  BY <1>2, RelayGrows
<1> QED
  BY <1>1, <1>2

-----------------------------------------------------------------------------
(* Types. *)

(* The rebuild begins in front of every checkpoint. *)
LEMMA StartsInFront ==
    ASSUME TypeOK, Known # {}
    PROVE  /\ (StartFile - 1) * EventsPerBinlog \in 0..Len(binlog)
           /\ \A d \in Known : (StartFile - 1) * EventsPerBinlog < checkpoint[d]
<1> DEFINE S == {checkpoint[d] : d \in Known}
           m == Min(S)
           E == EventsPerBinlog
<1>1. \A d \in Known : checkpoint[d] \in 1..Len(binlog)
  BY KnownTypes, LogTypes
<1>2. Len(binlog) \in Nat /\ E \in Nat \ {0}
  BY LogTypes, RecoveryAssumption
<1>3. S \subseteq Nat /\ S # {} /\ S \subseteq 1..Len(binlog)
  BY <1>1, <1>2
<1>4. m \in S /\ \A k \in S : m <= k
  <2> HIDE DEF S
  <2> QED
    BY <1>3, LeastOf
<1>5. StartFile = (m - 1) \div E + 1
  <2>1. StartFile = BinlogFile(m)
    BY DEF StartFile
  <2> HIDE DEF m
  <2> QED
    BY <2>1 DEF BinlogFile
<1>6. \A d \in Known : checkpoint[d] \in S
  OBVIOUS
<1> HIDE DEF S, m, E
<1>7. m \in 1..Len(binlog) /\ m - 1 \in Nat
  BY <1>2, <1>3, <1>4
<1> DEFINE q == (m - 1) \div E
<1>8. q \in Nat /\ q * E <= m - 1
  BY <1>2, <1>7
<1> HIDE DEF q
<1>9. (StartFile - 1) * E = q * E
  <2>1. StartFile = q + 1
    BY <1>5 DEF q
  <2>2. StartFile - 1 = q
    BY <1>8, <2>1
  <2> QED
    BY <2>2
<1>10. q * E \in Nat
  BY <1>2, <1>8
<1>11. q * E \in 0..Len(binlog)
  BY <1>2, <1>7, <1>8, <1>10
<1>12. ASSUME NEW d \in Known PROVE q * E < checkpoint[d]
  <2>1. m <= checkpoint[d] /\ checkpoint[d] \in Nat
    BY <1>1, <1>2, <1>4, <1>6
  <2> QED
    BY <1>7, <1>8, <1>10, <2>1
<1> QED
  BY <1>9, <1>11, <1>12 DEF E

LEMMA PositionTypes ==
    ASSUME RecoveryInv, [Next]_vars
    PROVE  saved' \in 0..Len(binlog') /\ at' \in 0..Len(binlog')
<1>1. /\ saved \in 0..Len(binlog) /\ at \in 0..Len(binlog)
      /\ Len(binlog) \in Nat /\ Len(binlog') \in Nat /\ Len(binlog) <= Len(binlog')
  BY Unfold, LogTypes, LogGrows DEF TypeOK
<1>2. CASE BackupDone
  <2>1. saved' = saved /\ at' = (StartFile - 1) * EventsPerBinlog
    BY <1>2 DEF BackupDone
  <2>2. Known # {}
    BY <1>2, Unfold DEF BackupInv, Recovering, BackupDone
  <2>3. at' \in 0..Len(binlog)
    BY <2>1, <2>2, StartsInFront, Unfold
  <2> QED
    BY <1>1, <2>1, <2>3
<1>3. CASE RebuildEvent
  BY <1>1, <1>3 DEF RebuildEvent
<1>4. CASE SaveBinlogState
  BY <1>1, <1>4 DEF SaveBinlogState, MemoryGone
<1>5. CASE BinlogReplicatorStores
  BY <1>1, <1>5 DEF BinlogReplicatorStores, recovery
<1>6. CASE RestoreDone \/ Crash
  BY <1>1, <1>6 DEF RestoreDone, Crash, MemoryGone
<1>7. CASE ~(BackupDone \/ RebuildEvent \/ SaveBinlogState \/ BinlogReplicatorStores
             \/ RestoreDone \/ Crash)
  <2>1. saved' = saved /\ at' = at
    BY <1>7 DEF Next, Start, Recover, NotRequired, BinlogNotAvailable, Required,
       RebuildDone, ValidateRecovered, BinlogPurged, BackupFile, RestoreRemove, RestoreFile,
       RecoveryFails, MySQLPurges, MySQLCommits, RelayFileLost, DbReplicator,
       InitialReplication, SetPosition, ReadEvent, ReachEnd, SwitchFile, NoNextFile,
       vars, recovery
  <2> QED
    BY <1>1, <2>1
<1> QED
  BY <1>2, <1>3, <1>4, <1>5, <1>6, <1>7

(* The last event of the relay, and one that is read, are in a file. *)
LEMMA LastTransactionStored ==
    ASSUME TypeOK, NEW d \in Databases
    PROVE  LastTransaction(d) = None \/ LastTransaction(d) \in Ids(relay[d])
<1>1. CASE DOMAIN relay[d] = {}
  BY <1>1 DEF LastTransaction
<1>2. CASE DOMAIN relay[d] # {}
  <2> DEFINE n == Max(DOMAIN relay[d])
             f == relay[d][n]
  <2>1. n \in DOMAIN relay[d]
    BY <1>2, LogTypes, LastFile
  <2>2. f \in Seq(Events(d)) /\ f # <<>>
    BY <2>1, LogTypes DEF FilesOK
  <2>3. LastTransaction(d) = f[Len(f)]
    BY <1>2 DEF LastTransaction
  <2> HIDE DEF n
  <2>4. Len(f) \in DOMAIN f
    <3> HIDE DEF f
    <3> QED
      BY <2>2
  <2> QED
    BY <2>1, <2>3, <2>4 DEF Ids
<1> QED
  BY <1>1, <1>2

LEMMA IdsOfEvents ==
    ASSUME TypeOK, NEW d \in Databases
    PROVE  Ids(relay[d]) \subseteq Events(d)
<1> SUFFICES ASSUME NEW n \in DOMAIN relay[d], NEW i \in DOMAIN relay[d][n]
             PROVE  relay[d][n][i] \in Events(d)
  BY DEF Ids
<1>1. relay[d][n] \in Seq(Events(d))
  BY LogTypes DEF FilesOK
<1> QED
  BY <1>1

(* The checkpoints only move to events that are in the relay. *)
LEMMA CheckpointMoves ==
    ASSUME RecoveryInv, [Next]_vars
    PROVE  /\ checkpoint' \in [Databases -> Nat]
           /\ \A d \in Databases :
                checkpoint'[d] \in {checkpoint[d], None} \cup Ids(relay[d])
           /\ pc # "up" => checkpoint' = checkpoint
           /\ \A d \in Databases : checkpoint[d] # None => checkpoint'[d] # None \/ mark[d] = Uncopied
<1>1. /\ checkpoint \in [Databases -> Nat]
      /\ \A d \in Databases : Ids(relay[d]) \subseteq Nat
  <2>1. \A d \in Databases : Events(d) \subseteq Nat
    BY LogTypes, Unfold
  <2> QED
    BY <2>1, Unfold, LogTypes, IdsOfEvents
<1>2. ASSUME NEW d \in Databases, InitialReplication(d)
      PROVE  /\ checkpoint' = [checkpoint EXCEPT ![d] = LastTransaction(d)]
             /\ pc = "up" /\ mark[d] = Uncopied
             /\ LastTransaction(d) = None \/ LastTransaction(d) \in Ids(relay[d])
  BY <1>2, LastTransactionStored, Unfold DEF InitialReplication
<1>3. ASSUME NEW d \in Databases, ReadEvent(d)
      PROVE  \E id \in Ids(relay[d]) :
               /\ checkpoint' = [checkpoint EXCEPT ![d] = Max({checkpoint[d], id})]
               /\ pc = "up"
  <2>1. /\ pc = "up" /\ reader[d] # NoReader /\ ~AtEnd(d)
        /\ checkpoint' = [checkpoint EXCEPT ![d] =
                            Max({checkpoint[d], relay[d][reader[d].file][reader[d].pos + 1]})]
    BY <1>1, <1>3 DEF ReadEvent, Reading
  <2>2. /\ reader[d].file \in DOMAIN relay[d] /\ reader[d].pos \in Nat
        /\ reader[d].pos <= Len(relay[d][reader[d].file])
    BY <2>1, Unfold DEF ReaderTypeOK
  <2>3. relay[d][reader[d].file] \in Seq(Events(d))
    BY <2>2, LogTypes, Unfold DEF FilesOK
  <2>4. reader[d].pos + 1 \in DOMAIN relay[d][reader[d].file]
    BY <2>1, <2>2, <2>3 DEF AtEnd
  <2>5. relay[d][reader[d].file][reader[d].pos + 1] \in Ids(relay[d])
    BY <2>2, <2>4 DEF Ids
  <2> QED
    BY <2>1, <2>5
<1>4. \A a, b \in Nat : Max({a, b}) \in {a, b} /\ Max({a, b}) >= a
  <2> SUFFICES ASSUME NEW a \in Nat, NEW b \in Nat
               PROVE  Max({a, b}) \in {a, b} /\ Max({a, b}) >= a
    OBVIOUS
  <2>1. \E n \in {a, b} : \A m \in {a, b} : n >= m
    <3>1. CASE a <= b
      BY <3>1
    <3>2. CASE b <= a
      BY <3>2
    <3> QED
      BY <3>1, <3>2
  <2>2. Max({a, b}) \in {a, b} /\ \A m \in {a, b} : Max({a, b}) >= m
    BY <2>1 DEF Max
  <2> QED
    BY <2>2
<1>5. CASE \E d \in Databases : InitialReplication(d)
  <2>1. PICK d \in Databases : InitialReplication(d)
    BY <1>5
  <2>2. LastTransaction(d) \in Nat
    BY <1>1, <1>2, <2>1 DEF None
  <2> QED
    BY <1>1, <1>2, <2>1, <2>2
<1>6. CASE \E d \in Databases : ReadEvent(d)
  <2>1. PICK d \in Databases : ReadEvent(d)
    BY <1>6
  <2>2. PICK id \in Ids(relay[d]) :
          /\ checkpoint' = [checkpoint EXCEPT ![d] = Max({checkpoint[d], id})]
          /\ pc = "up"
    BY <1>3, <2>1
  <2>3. id \in Nat /\ checkpoint[d] \in Nat
    BY <1>1
  <2> DEFINE c == Max({checkpoint[d], id})
  <2>4. c \in {checkpoint[d], id} /\ c >= checkpoint[d]
    BY <1>4, <2>3
  <2>5. checkpoint' = [checkpoint EXCEPT ![d] = c]
    BY <2>2
  <2> HIDE DEF c
  <2>6. c \in Nat /\ (checkpoint[d] # None => c # None)
    BY <2>3, <2>4 DEF None
  <2> QED
    BY <1>1, <2>2, <2>4, <2>5, <2>6
<1>7. CASE ~\E d \in Databases : InitialReplication(d) \/ ReadEvent(d)
  <2>1. checkpoint' = checkpoint
    BY <1>7 DEF Next, Start, Recover, NotRequired, BinlogNotAvailable, Required, BackupDone,
       RebuildEvent, RebuildDone, ValidateRecovered, SaveBinlogState, BinlogPurged,
       RestoreDone, BackupFile, RestoreRemove, RestoreFile, BinlogReplicatorStores,
       RecoveryFails, Crash, MySQLPurges, MySQLCommits, RelayFileLost, DbReplicator,
       SetPosition, ReachEnd, SwitchFile, NoNextFile, vars
  <2> QED
    BY <1>1, <2>1
<1> QED
  BY <1>5, <1>6, <1>7

LEMMA SequenceTypes ==
    ASSUME NEW s, IsSequence(s)
    PROVE  Len(s) \in Nat /\ DOMAIN s = 1..Len(s)
<1> DEFINE R == {s[i] : i \in DOMAIN s}
<1>1. s \in Seq(R)
  BY DEF IsSequence
<1> HIDE DEF R
<1> QED
  BY <1>1, LenProperties

LEMMA DirectoryAdded ==
    ASSUME NEW s, IsSequence(s), NEW k \in 1..(Len(s) + 1), NEW x,
           NEW t, t = With(s, k, x)
    PROVE  /\ IsSequence(t)
           /\ Len(t) \in Nat /\ k <= Len(t) /\ Len(s) <= Len(t) /\ t[k] = x
           /\ k \in DOMAIN s => t = [s EXCEPT ![k] = x]
<1> DEFINE R == {s[i] : i \in DOMAIN s}
           Q == {t[i] : i \in DOMAIN t}
<1>1. Len(s) \in Nat /\ DOMAIN s = 1..Len(s) /\ s = [i \in 1..Len(s) |-> s[i]]
  <2>1. s \in Seq(R)
    BY DEF IsSequence
  <2> HIDE DEF R
  <2> QED
    BY <2>1, LenProperties
<1>2. /\ DOMAIN t = DOMAIN s \cup {k} /\ t[k] = x
      /\ t = [i \in DOMAIN s \cup {k} |-> IF i = k THEN x ELSE s[i]]
      /\ t = [i \in DOMAIN t |-> t[i]]
  BY DEF With
<1>3. PICK n \in Nat : DOMAIN t = 1..n /\ k <= n /\ Len(s) <= n
  <2>1. CASE k = Len(s) + 1
    <3>1. DOMAIN t = 1..(Len(s) + 1)
      BY <1>1, <1>2, <2>1
    <3> QED
      BY <1>1, <2>1, <3>1
  <2>2. CASE k # Len(s) + 1
    <3>1. DOMAIN t = 1..Len(s)
      BY <1>1, <1>2, <2>2
    <3> QED
      BY <1>1, <2>2, <3>1
  <2> QED
    BY <2>1, <2>2
<1>4. t \in Seq(Q)
  <2>1. \A i \in DOMAIN t : t[i] \in Q
    OBVIOUS
  <2> HIDE DEF Q
  <2>2. t \in [1..n -> Q]
    BY <1>2, <1>3, <2>1
  <2> QED
    BY <1>3, <2>2, SeqDef
<1>5. Len(t) = n
  <2> HIDE DEF Q
  <2> QED
    BY <1>3, <1>4, LenProperties
<1>6. k \in DOMAIN s => t = [s EXCEPT ![k] = x]
  <2> SUFFICES ASSUME k \in DOMAIN s PROVE t = [s EXCEPT ![k] = x]
    OBVIOUS
  <2>1. t = [i \in DOMAIN s |-> IF i = k THEN x ELSE s[i]]
    BY <1>2
  <2> QED
    BY <1>1, <2>1
<1> QED
  BY <1>2, <1>3, <1>4, <1>5, <1>6 DEF IsSequence

LEMMA BackupTypes ==
    ASSUME RecoveryInv, [Next]_vars
    PROVE  /\ backups' = [d \in Databases |-> backups'[d]]
           /\ dirs' \in [Databases -> Nat]
           /\ \A d \in Databases : IsSequence(backups'[d]) /\ dirs'[d] <= Len(backups'[d])
<1>1. /\ backups = [d \in Databases |-> backups[d]] /\ dirs \in [Databases -> Nat]
      /\ \A d \in Databases : /\ IsSequence(backups[d]) /\ Len(backups[d]) \in Nat
                              /\ dirs[d] <= Len(backups[d])
  <2>1. FilesTypeOK
    BY Unfold
  <2>2. ASSUME NEW d \in Databases PROVE Len(backups[d]) \in Nat
    BY <2>1, SequenceTypes DEF FilesTypeOK
  <2> QED
    BY <2>1, <2>2 DEF FilesTypeOK
<1>2. ASSUME NEW d \in Databases, NEW k \in 1..(Len(backups[d]) + 1), NEW x, NEW t,
             t = With(backups[d], k, x), backups' = [backups EXCEPT ![d] = t],
             dirs' = [dirs EXCEPT ![d] = k]
      PROVE  /\ backups' = [e \in Databases |-> backups'[e]]
             /\ dirs' \in [Databases -> Nat]
             /\ \A e \in Databases : IsSequence(backups'[e]) /\ dirs'[e] <= Len(backups'[e])
  <2>1. IsSequence(t) /\ k <= Len(t)
    BY <1>1, <1>2, DirectoryAdded
  <2>2. k \in Nat
    BY <1>1
  <2>3. /\ backups'[d] = t /\ dirs'[d] = k
        /\ \A e \in Databases \ {d} : backups'[e] = backups[e] /\ dirs'[e] = dirs[e]
        /\ backups' = [e \in Databases |-> backups'[e]] /\ dirs' \in [Databases -> Nat]
    BY <1>1, <1>2, <2>2
  <2> QED
    BY <1>1, <2>1, <2>3
<1>3. CASE \E d \in Databases : BackupFile(d)
  <2>1. PICK d \in Databases : BackupFile(d)
    BY <1>3
  <2> DEFINE k == IF dirs[d] = 0 THEN Len(backups[d]) + 1 ELSE dirs[d]
  <2>2. k \in 1..(Len(backups[d]) + 1)
    <3>1. dirs[d] \in Nat /\ Len(backups[d]) \in Nat /\ dirs[d] <= Len(backups[d])
      BY <1>1
    <3> QED
      BY <3>1
  <2>3. PICK x : /\ dirs' = [dirs EXCEPT ![d] = k]
                 /\ backups' = [backups EXCEPT ![d] = With(backups[d], k, x)]
    BY <1>1, <2>1 DEF BackupFile
  <2> HIDE DEF k
  <2> QED
    BY <1>2, <2>2, <2>3
<1>4. CASE \E d \in Databases : RestoreFile(d)
  <2>1. PICK d \in Databases : RestoreFile(d)
    BY <1>4
  <2>2. dirs' = dirs /\ dirs[d] \in Nat \ {0}
    BY <1>1, <2>1, Unfold DEF RestoreFile, BackupInv, FilesAccounted, Recovering, recovery
  <2>3. PICK x : backups' = [backups EXCEPT ![d] = [backups[d] EXCEPT ![dirs[d]] = x]]
    BY <1>1, <2>1 DEF RestoreFile
  <2>4. /\ dirs[d] \in 1..(Len(backups[d]) + 1) /\ dirs[d] \in DOMAIN backups[d]
        /\ dirs' = [dirs EXCEPT ![d] = dirs[d]]
    <3>1. /\ dirs[d] <= Len(backups[d]) /\ Len(backups[d]) \in Nat
          /\ DOMAIN backups[d] = 1..Len(backups[d])
      BY <1>1, SequenceTypes
    <3> QED
      BY <1>1, <2>2, <3>1
  <2>5. PICK t : t = With(backups[d], dirs[d], x)
    OBVIOUS
  <2>6. t = [backups[d] EXCEPT ![dirs[d]] = x]
    BY <1>1, <2>4, <2>5, DirectoryAdded
  <2>7. backups' = [backups EXCEPT ![d] = t]
    BY <2>3, <2>6
  <2> QED
    BY <1>2, <2>4, <2>5, <2>7
<1>5. CASE ~\E d \in Databases : BackupFile(d) \/ RestoreFile(d)
  <2>1. backups' = backups /\ (dirs' = dirs \/ dirs' = [d \in Databases |-> 0])
    BY <1>5 DEF Next, Start, Recover, NotRequired, BinlogNotAvailable, Required, BackupDone,
       RebuildEvent, RebuildDone, ValidateRecovered, SaveBinlogState, BinlogPurged,
       RestoreDone, RestoreRemove, BinlogReplicatorStores, RecoveryFails, Crash, MySQLPurges,
       MySQLCommits, RelayFileLost, DbReplicator, InitialReplication, SetPosition,
       ReadEvent, ReachEnd, SwitchFile, NoNextFile, MemoryGone, recovery, vars
  <2>2. 0 \in Nat /\ \A n \in Nat : 0 <= n
    OBVIOUS
  <2> QED
    BY <1>1, <2>1, <2>2
<1> QED
  BY <1>3, <1>4, <1>5

LEMMA WriterTypes ==
    ASSUME RecoveryInv, [Next]_vars
    PROVE  /\ writer' \in [Databases -> Nat]
           /\ \A d \in Databases : writer'[d] = 0 \/ writer'[d] \in DOMAIN relay'[d]
<1>1. /\ writer \in [Databases -> Nat]
      /\ \A d \in Databases : writer[d] = 0 \/ writer[d] \in DOMAIN relay[d]
  BY Unfold DEF FilesTypeOK
<1>2. CASE writer' = [d \in Databases |-> 0]
  BY <1>2
<1>3. CASE pc \in {"down", "backup", "restore"}
  <2>1. writer = [d \in Databases |-> 0]
    BY <1>3, Unfold DEF OpenInv
  <2>2. writer' = writer \/ writer' = [d \in Databases |-> 0]
    BY <1>3 DEF Next, Start, Recover, NotRequired, BinlogNotAvailable, Required, BackupDone,
       RebuildEvent, RebuildDone, ValidateRecovered, SaveBinlogState, BinlogPurged,
       RestoreDone, RestoreRemove, BinlogReplicatorStores, RecoveryFails, Crash, MySQLPurges,
       MySQLCommits, RelayFileLost, DbReplicator, InitialReplication, SetPosition,
       ReadEvent, ReachEnd, SwitchFile, NoNextFile, BackupFile, RestoreFile, MemoryGone, vars
  <2> QED
    BY <1>2, <2>1, <2>2
<1>4. CASE pc \notin {"down", "backup", "restore"} /\ writer' = writer
  BY <1>1, <1>4, RelayGrows
<1>5. ASSUME pc \notin {"down", "backup", "restore"},
             NEW d \in Databases, NEW id \in Events(d), StoreEvent(d, id)
      PROVE  /\ writer' \in [Databases -> Nat]
             /\ \A e \in Databases : writer'[e] = 0 \/ writer'[e] \in DOMAIN relay'[e]
  <2>1. /\ \A e \in Databases \ {d} : writer'[e] = writer[e]
        /\ writer' \in [Databases -> Nat] /\ writer'[d] \in DOMAIN relay'[d]
    BY <1>5, StoreEventGrows, Unfold
  <2>2. \A e \in Databases : \A n \in DOMAIN relay[e] : n \in DOMAIN relay'[e]
    BY <1>5, RelayGrows
  <2> QED
    BY <1>1, <2>1, <2>2
<1>6. CASE pc \notin {"down", "backup", "restore"} /\ RebuildEvent
  <2>1. at \in 0..Len(binlog) /\ at < Len(binlog)
    BY <1>6, Unfold DEF RebuildEvent, TypeOK
  <2>2. CASE binlog[at + 1] \in Known
    BY <1>5, <1>6, <2>1, <2>2, NextEvent, Unfold DEF RebuildEvent
  <2>3. CASE binlog[at + 1] \notin Known
    BY <1>4, <1>6, <2>3 DEF RebuildEvent
  <2> QED
    BY <2>2, <2>3
<1>7. CASE pc \notin {"down", "backup", "restore"} /\ BinlogReplicatorStores
  <2>1. saved \in 0..Len(binlog) /\ saved < Len(binlog)
    BY <1>7, Unfold DEF BinlogReplicatorStores, TypeOK
  <2> QED
    BY <1>5, <1>7, <2>1, NextEvent, Unfold DEF BinlogReplicatorStores
<1>8. CASE ~RebuildEvent /\ ~BinlogReplicatorStores
  <2>1. writer' = writer \/ writer' = [d \in Databases |-> 0]
    BY <1>8 DEF Next, Start, Recover, NotRequired, BinlogNotAvailable, Required, BackupDone,
       RebuildDone, ValidateRecovered, SaveBinlogState, BinlogPurged,
       RestoreDone, RestoreRemove, RecoveryFails, Crash, MySQLPurges,
       MySQLCommits, RelayFileLost, DbReplicator, InitialReplication, SetPosition,
       ReadEvent, ReachEnd, SwitchFile, NoNextFile, BackupFile, RestoreFile, MemoryGone, vars
  <2> QED
    BY <1>2, <1>3, <1>4, <2>1
<1> QED
  BY <1>3, <1>6, <1>7, <1>8

(* A reader is in a file that is there, and not behind its end. *)
LEMMA ReaderTypes ==
    ASSUME RecoveryInv, [Next]_vars
    PROVE  ReaderTypeOK'
<1> DEFINE Readers == [file : Nat, pos : Nat, eof : BOOLEAN]
           InFile(r, f) == r.file \in DOMAIN f /\ r.pos <= Len(f[r.file])
<1>1. /\ reader \in [Databases -> Readers]
      /\ \A d \in Databases : reader[d] # NoReader => InFile(reader[d], relay[d])
  BY Unfold DEF ReaderTypeOK
<1>2. CASE reader' = [d \in Databases |-> NoReader]
  BY <1>2 DEF ReaderTypeOK, NoReader
<1>3. CASE pc # "up"
  <2>1. reader = [d \in Databases |-> NoReader]
    BY <1>3, Unfold DEF OpenInv
  <2>2. reader' = reader \/ reader' = [d \in Databases |-> NoReader]
    BY <1>3 DEF Next, Start, Recover, NotRequired, BinlogNotAvailable, Required, BackupDone,
       RebuildEvent, RebuildDone, ValidateRecovered, SaveBinlogState, BinlogPurged,
       RestoreDone, RestoreRemove, BinlogReplicatorStores, RecoveryFails, Crash, MySQLPurges,
       MySQLCommits, RelayFileLost, DbReplicator, InitialReplication, SetPosition, Reading,
       ReadEvent, ReachEnd, SwitchFile, NoNextFile, BackupFile, RestoreFile, MemoryGone, vars
  <2> QED
    BY <1>2, <2>1, <2>2
<1>4. ASSUME pc = "up", NEW d \in Databases, NEW r \in Readers,
             reader' = [reader EXCEPT ![d] = r], InFile(r, relay[d])
      PROVE  ReaderTypeOK'
  <2>1. \A e \in Databases : \A q \in Readers : InFile(q, relay[e]) => InFile(q, relay'[e])
    <3> SUFFICES ASSUME NEW e \in Databases, NEW q \in Readers, InFile(q, relay[e])
                 PROVE  InFile(q, relay'[e])
      OBVIOUS
    <3>1. /\ q.file \in DOMAIN relay'[e]
          /\ Len(relay[e][q.file]) <= Len(relay'[e][q.file])
      BY <1>4, RelayGrows
    <3>2. relay[e][q.file] \in Seq(Events(e)) /\ relay'[e][q.file] \in Seq(Events(e)')
      BY <1>4, <3>1, RelayGrows, LogTypes, Unfold DEF FilesOK
    <3>3. /\ q.pos \in Nat
          /\ Len(relay[e][q.file]) \in Nat /\ Len(relay'[e][q.file]) \in Nat
      BY <3>2, LenProperties
    <3> QED
      BY <3>1, <3>3
  <2>2. /\ reader' \in [Databases -> Readers] /\ reader'[d] = r
        /\ \A e \in Databases \ {d} : reader'[e] = reader[e]
    BY <1>1, <1>4
  <2>3. ASSUME NEW e \in Databases, reader'[e] # NoReader
        PROVE  InFile(reader'[e], relay'[e])
    <3>1. InFile(reader'[e], relay[e]) /\ reader'[e] \in Readers
      <4> HIDE DEF InFile, Readers
      <4>1. CASE e = d
        BY <1>4, <2>2, <4>1
      <4>2. CASE e # d
        BY <1>1, <2>2, <2>3, <4>2
      <4> QED
        BY <4>1, <4>2
    <3> QED
      BY <2>1, <3>1
  <2>4. NoReader' = NoReader
    BY DEF NoReader
  <2> QED
    BY <2>2, <2>3, <2>4 DEF ReaderTypeOK
<1>5. CASE pc = "up" /\ reader' = reader
  <2>1. CASE Databases = {}
    BY <1>1, <1>5, <2>1 DEF ReaderTypeOK
  <2>2. ASSUME NEW d \in Databases, reader'[d] # NoReader
        PROVE  InFile(reader'[d], relay'[d])
    <3>1. InFile(reader[d], relay[d])
      BY <1>1, <1>5, <2>2
    <3>2. /\ reader[d].file \in DOMAIN relay'[d]
          /\ Len(relay[d][reader[d].file]) <= Len(relay'[d][reader[d].file])
      BY <1>5, <3>1, RelayGrows
    <3>3. /\ relay[d][reader[d].file] \in Seq(Events(d))
          /\ relay'[d][reader[d].file] \in Seq(Events(d)')
      BY <1>5, <3>1, <3>2, RelayGrows, LogTypes, Unfold DEF FilesOK
    <3>4. /\ reader[d].pos \in Nat
          /\ Len(relay[d][reader[d].file]) \in Nat /\ Len(relay'[d][reader[d].file]) \in Nat
      BY <1>1, <3>3, LenProperties
    <3> QED
      BY <1>5, <3>1, <3>2, <3>4
  <2> QED
    BY <1>1, <1>5, <2>2 DEF ReaderTypeOK, NoReader
<1>6. \A d \in Databases : /\ FilesOK(Events(d), relay[d])
                           /\ \A n \in DOMAIN relay[d] : n \in Nat /\ Len(relay[d][n]) \in Nat
  <2>1. \A d \in Databases : FilesOK(Events(d), relay[d])
    BY LogTypes, Unfold
  <2>2. ASSUME NEW d \in Databases, NEW n \in DOMAIN relay[d]
        PROVE  n \in Nat /\ Len(relay[d][n]) \in Nat
    <3>1. n \in Nat /\ relay[d][n] \in Seq(Events(d))
      BY <2>1 DEF FilesOK
    <3> QED
      BY <3>1, LenProperties
  <2> QED
    BY <2>1, <2>2
<1>7. ASSUME pc = "up", NEW d \in Databases, SetPosition(d) PROVE ReaderTypeOK'
  <2>1. CASE checkpoint[d] = None
    <3> DEFINE n == Min(DOMAIN relay[d])
    <3>1. /\ DOMAIN relay[d] # {}
          /\ reader' = [reader EXCEPT ![d] = [file |-> n, pos |-> 0, eof |-> FALSE]]
      BY <1>7, <2>1 DEF SetPosition
    <3>2. n \in DOMAIN relay[d]
      BY <1>6, <3>1, LeastOf DEF FilesOK
    <3> HIDE DEF n
    <3>3. /\ [file |-> n, pos |-> 0, eof |-> FALSE] \in Readers
          /\ InFile([file |-> n, pos |-> 0, eof |-> FALSE], relay[d])
      BY <1>6, <3>2
    <3> HIDE DEF InFile, Readers
    <3> QED
      BY <1>4, <1>7, <3>1, <3>3
  <2>2. CASE checkpoint[d] # None
    <3> DEFINE n == FileWithTransaction(d, checkpoint[d])
               S == {m \in DOMAIN relay[d] :
                       \E i \in DOMAIN relay[d][m] : relay[d][m][i] = checkpoint[d]}
    <3>1. HasTransaction(d, checkpoint[d])
      BY <1>7, <2>2 DEF SetPosition
    <3>2. PICK i \in DOMAIN relay[d][n] :
            reader' = [reader EXCEPT ![d] = [file |-> n, pos |-> i, eof |-> FALSE]]
      BY <1>7, <2>2 DEF SetPosition
    <3>3. S # {} /\ S \subseteq Nat
      BY <1>6, <3>1 DEF HasTransaction, Ids
    <3>4. n = Min(S)
      BY DEF FileWithTransaction
    <3> HIDE DEF n
    <3>5. n \in S
      <4> HIDE DEF S
      <4> QED
        BY <3>3, <3>4, LeastOf
    <3>6. n \in DOMAIN relay[d] /\ n \in Nat
      BY <1>6, <3>5
    <3>7. i \in Nat /\ i <= Len(relay[d][n])
      <4>1. relay[d][n] \in Seq(Events(d))
        BY <1>6, <3>6 DEF FilesOK
      <4> QED
        BY <4>1, LenProperties
    <3>8. /\ [file |-> n, pos |-> i, eof |-> FALSE] \in Readers
          /\ InFile([file |-> n, pos |-> i, eof |-> FALSE], relay[d])
      BY <3>6, <3>7
    <3> HIDE DEF InFile, Readers
    <3> QED
      BY <1>4, <1>7, <3>2, <3>8
  <2> QED
    BY <2>1, <2>2
<1>8. ASSUME pc = "up", NEW d \in Databases, Reading(d)
      PROVE  /\ reader[d] \in Readers /\ InFile(reader[d], relay[d])
             /\ reader[d] = [file |-> reader[d].file, pos |-> reader[d].pos,
                             eof |-> reader[d].eof]
  BY <1>1, <1>8 DEF Reading
<1>9. ASSUME pc = "up", NEW d \in Databases, ReadEvent(d) PROVE ReaderTypeOK'
  <2> DEFINE r == [reader[d] EXCEPT !.pos = @ + 1]
  <2>1. reader' = [reader EXCEPT ![d] = r] /\ Reading(d) /\ ~AtEnd(d)
    BY <1>1, <1>9 DEF ReadEvent
  <2> DEFINE f == reader[d].file
             p == reader[d].pos
  <2>2. /\ f \in DOMAIN relay[d] /\ p <= Len(relay[d][f])
        /\ f \in Nat /\ p \in Nat /\ Len(relay[d][f]) \in Nat /\ reader[d].eof \in BOOLEAN
        /\ reader[d] = [file |-> f, pos |-> p, eof |-> reader[d].eof]
    BY <1>6, <1>8, <1>9, <2>1
  <2>3. p # Len(relay[d][f])
    BY <2>1 DEF AtEnd
  <2> HIDE DEF f, p
  <2>4. p + 1 \in Nat /\ p + 1 <= Len(relay[d][f])
    BY <2>2, <2>3
  <2>5. r = [file |-> f, pos |-> p + 1, eof |-> reader[d].eof]
    BY <2>2
  <2> HIDE DEF r
  <2>6. r \in Readers /\ InFile(r, relay[d])
    BY <2>2, <2>4, <2>5
  <2> HIDE DEF InFile, Readers
  <2> QED
    BY <1>4, <1>9, <2>1, <2>6
<1>10. ASSUME pc = "up", NEW d \in Databases, ReachEnd(d) \/ NoNextFile(d)
       PROVE  ReaderTypeOK'
  <2>1. PICK b \in BOOLEAN :
          Reading(d) /\ reader' = [reader EXCEPT ![d] = [reader[d] EXCEPT !.eof = b]]
    BY <1>1, <1>10 DEF ReachEnd, NoNextFile
  <2> DEFINE r == [reader[d] EXCEPT !.eof = b]
  <2>2. r \in Readers /\ InFile(r, relay[d])
    BY <1>8, <1>10, <2>1
  <2>3. reader' = [reader EXCEPT ![d] = r]
    BY <2>1
  <2> HIDE DEF r, InFile, Readers
  <2> QED
    BY <1>4, <1>10, <2>2, <2>3
<1>11. ASSUME pc = "up", NEW d \in Databases, SwitchFile(d) PROVE ReaderTypeOK'
  <2> DEFINE r == [file |-> reader[d].file + 1, pos |-> 0, eof |-> FALSE]
  <2>1. /\ reader' = [reader EXCEPT ![d] = r] /\ Reading(d)
        /\ reader[d].file + 1 \in DOMAIN relay[d]
    BY <1>1, <1>11 DEF SwitchFile
  <2>2. r \in Readers /\ InFile(r, relay[d])
    BY <1>6, <2>1
  <2> HIDE DEF r, InFile, Readers
  <2> QED
    BY <1>4, <1>11, <2>1, <2>2
<1>12. CASE pc = "up" /\ ~\E d \in Databases : \/ SetPosition(d) \/ ReadEvent(d) \/ ReachEnd(d)
                                             \/ NoNextFile(d) \/ SwitchFile(d)
  <2>1. reader' = reader \/ reader' = [d \in Databases |-> NoReader]
    BY <1>12 DEF Next, Start, Recover, NotRequired, BinlogNotAvailable, Required, BackupDone,
       RebuildEvent, RebuildDone, ValidateRecovered, SaveBinlogState, BinlogPurged,
       RestoreDone, RestoreRemove, BinlogReplicatorStores, RecoveryFails, Crash, MySQLPurges,
       MySQLCommits, RelayFileLost, DbReplicator, InitialReplication, BackupFile,
       RestoreFile, MemoryGone, vars
  <2> QED
    BY <1>2, <1>5, <1>12, <2>1
<1> QED
  BY <1>3, <1>7, <1>9, <1>10, <1>11, <1>12

LEMMA OtherTypes ==
    ASSUME RecoveryInv, [Next]_vars
    PROVE  /\ mark' \in [Databases -> Uncopied..Len(binlog')]
           /\ cleared' \subseteq Databases
           /\ pc' \in {"down", "check", "backup", "rebuild", "validate", "save", "restore", "up"}
           /\ losses' \in Nat /\ failures' \in Nat /\ crashes' \in Nat
<1>1. /\ mark \in [Databases -> Uncopied..Len(binlog)] /\ cleared \subseteq Databases
      /\ pc \in {"down", "check", "backup", "rebuild", "validate", "save", "restore", "up"}
      /\ Len(binlog) \in Nat /\ Len(binlog') \in Nat /\ Len(binlog) <= Len(binlog')
  BY Unfold, LogTypes, LogGrows DEF TypeOK
<1>2. mark' = mark \/ \E d \in Databases : mark' = [mark EXCEPT ![d] = Len(binlog)]
  BY DEF Next, Start, Recover, NotRequired, BinlogNotAvailable, Required, BackupDone,
     RebuildEvent, RebuildDone, ValidateRecovered, SaveBinlogState, BinlogPurged,
     RestoreDone, BackupFile, RestoreRemove, RestoreFile, BinlogReplicatorStores,
     RecoveryFails, Crash, MySQLPurges, MySQLCommits, RelayFileLost, DbReplicator,
     InitialReplication, SetPosition, ReadEvent, ReachEnd, SwitchFile, NoNextFile, vars
<1>3. mark' \in [Databases -> Uncopied..Len(binlog')]
  <2>1. Uncopied..Len(binlog) \subseteq Uncopied..Len(binlog')
    BY <1>1 DEF Uncopied
  <2>2. Len(binlog) \in Uncopied..Len(binlog')
    BY <1>1 DEF Uncopied
  <2> QED
    BY <1>1, <1>2, <2>1, <2>2
<1>4. cleared' = cleared \/ cleared' = {} \/ \E d \in Databases : cleared' = cleared \cup {d}
  BY DEF Next, Start, Recover, NotRequired, BinlogNotAvailable, Required, BackupDone,
     RebuildEvent, RebuildDone, ValidateRecovered, SaveBinlogState, BinlogPurged,
     RestoreDone, BackupFile, RestoreRemove, RestoreFile, BinlogReplicatorStores,
     RecoveryFails, Crash, MySQLPurges, MySQLCommits, RelayFileLost, DbReplicator,
     InitialReplication, SetPosition, ReadEvent, ReachEnd, SwitchFile, NoNextFile,
     MemoryGone, recovery, vars
<1>5. pc' \in {"down", "check", "backup", "rebuild", "validate", "save", "restore", "up"}
  BY <1>1 DEF Next, Start, Recover, NotRequired, BinlogNotAvailable, Required, BackupDone,
     RebuildEvent, RebuildDone, ValidateRecovered, SaveBinlogState, BinlogPurged,
     RestoreDone, BackupFile, RestoreRemove, RestoreFile, BinlogReplicatorStores,
     RecoveryFails, Crash, MySQLPurges, MySQLCommits, RelayFileLost, DbReplicator,
     InitialReplication, SetPosition, ReadEvent, ReachEnd, SwitchFile, NoNextFile, vars
<1>6. losses \in Nat /\ failures \in Nat /\ crashes \in Nat
  BY Unfold DEF TypeOK
<1>7. /\ losses' = losses \/ losses' = losses + 1
      /\ failures' = failures \/ failures' = failures + 1
      /\ crashes' = crashes \/ crashes' = crashes + 1
  BY DEF Next, Start, Recover, NotRequired, BinlogNotAvailable, Required, BackupDone,
     RebuildEvent, RebuildDone, ValidateRecovered, SaveBinlogState, BinlogPurged,
     RestoreDone, BackupFile, RestoreRemove, RestoreFile, BinlogReplicatorStores,
     RecoveryFails, Crash, MySQLPurges, MySQLCommits, RelayFileLost, DbReplicator,
     InitialReplication, SetPosition, ReadEvent, ReachEnd, SwitchFile, NoNextFile,
     bounds, vars
<1>8. losses' \in Nat /\ failures' \in Nat /\ crashes' \in Nat
  BY <1>6, <1>7
<1> QED
  BY <1>1, <1>3, <1>4, <1>5, <1>8

LEMMA TypesKept ==
    ASSUME RecoveryInv, [Next]_vars
    PROVE  TypeOK'
<1>1. /\ relay' = [d \in Databases |-> relay'[d]]
      /\ \A d \in Databases : FilesOK(Events(d), relay[d])'
  <2>1. \A d \in Databases : FilesOK(Events(d), relay[d])' <=> FilesOK(Events(d)', relay'[d])
    BY DEF FilesOK
  <2> QED
    BY <2>1, RelayStep
<1>2. FilesTypeOK'
  BY <1>1, BackupTypes, WriterTypes DEF FilesTypeOK, IsSequence
<1>3. ASSUME NEW d \in Databases PROVE checkpoint'[d] \in {None} \cup Events(d)'
  <2>1. checkpoint'[d] \in {checkpoint[d], None} \cup Ids(relay[d])
    BY CheckpointMoves
  <2>2. checkpoint[d] \in {None} \cup Events(d) /\ Ids(relay[d]) \subseteq Events(d)
    BY IdsOfEvents, Unfold DEF TypeOK
  <2>3. Events(d) \subseteq Events(d)'
    BY EventsStay, Unfold
  <2> QED
    BY <2>1, <2>2, <2>3
<1>4. \A d \in Databases : (checkpoint[d] \in {None} \cup Events(d))'
  BY <1>3 DEF None
<1> QED
  BY <1>2, <1>4, ReaderTypes, PositionTypes, CheckpointMoves, OtherTypes, LogGrows, Unfold
     DEF TypeOK, Uncopied

-----------------------------------------------------------------------------
(* Who has files open, and what a recovery has moved. *)

LEMMA OpenKept ==
    ASSUME RecoveryInv, [Next]_vars
    PROVE  OpenInv'
<1> USE DEF OpenInv, NoReader
<1>1. OpenInv /\ TypeOK
  BY Unfold
<1>2. CASE UNCHANGED vars
  BY <1>1, <1>2 DEF vars, recovery
<1>3. CASE Start \/ NotRequired \/ BinlogNotAvailable \/ Required \/ BackupDone \/ ValidateRecovered
  BY <1>1, <1>3 DEF Start, NotRequired, BinlogNotAvailable, Required, BackupDone,
     ValidateRecovered, recovery
<1>4. CASE RebuildEvent \/ RebuildDone \/ RecoveryFails \/ BinlogPurged \/ MySQLPurges
  BY <1>1, <1>4 DEF RebuildEvent, RebuildDone, RecoveryFails, BinlogPurged, MySQLPurges, recovery
<1>5. CASE SaveBinlogState \/ RestoreDone \/ Crash
  BY <1>1, <1>5 DEF SaveBinlogState, RestoreDone, Crash, MemoryGone
<1>6. CASE BinlogReplicatorStores
  BY <1>1, <1>6 DEF BinlogReplicatorStores, recovery
<1>7. ASSUME NEW d \in Databases,
             BackupFile(d) \/ RestoreRemove(d) \/ RestoreFile(d) \/ MySQLCommits(d) \/ RelayFileLost(d)
      PROVE  OpenInv'
  BY <1>1, <1>7 DEF BackupFile, RestoreRemove, RestoreFile, MySQLCommits, RelayFileLost, recovery
<1>8. ASSUME NEW d \in Databases, DbReplicator(d) PROVE OpenInv'
  BY <1>1, <1>8 DEF DbReplicator, InitialReplication, SetPosition, Reading, ReadEvent, ReachEnd,
     SwitchFile, NoNextFile, recovery
<1> QED
  BY <1>2, <1>3, <1>4, <1>5, <1>6, <1>7, <1>8 DEF Next, Recover

(* Until they run, nobody moves a checkpoint. *)
LEMMA KnownKept ==
    ASSUME RecoveryInv, [Next]_vars, pc # "up"
    PROVE  Known' = Known /\ checkpoint' = checkpoint /\ MissingStates' = {d \in Known :
             ~(checkpoint[d] \in Ids(relay'[d]))}
BY CheckpointMoves DEF Known, MissingStates, HasTransaction, None

(* A step that leaves the files of a database alone, or only its rebuilt ones. *)
LEMMA AccountedStill ==
    ASSUME RecoveryInv, [Next]_vars, Recovering, NEW d \in Databases,
           before' = before, dirs'[d] = dirs[d], d \in cleared' <=> d \in cleared,
           BackedUp(d)' = BackedUp(d),
           \/ relay'[d] = relay[d] /\ HasOldFiles(d)' = HasOldFiles(d)
           \/ ~HasOldFiles(d) /\ ~HasOldFiles(d)'
    PROVE  FilesAccounted(d)'
<1>1. FilesAccounted(d) /\ Known' = Known
  BY KnownKept, Unfold DEF BackupInv, Recovering
<1>2. FilesOK(Events(d), before[d])' <=> FilesOK(Events(d)', before[d])
  BY DEF FilesOK
<1>3. FilesOK(Events(d), before[d])'
  BY <1>1, <1>2, EventsStay, FilesMore, Unfold DEF FilesAccounted
<1> QED
  BY <1>1, <1>3 DEF FilesAccounted

LEMMA BackupKept ==
    ASSUME RecoveryInv, [Next]_vars
    PROVE  BackupInv'
<1> SUFFICES ASSUME Recovering' PROVE Known' # {} /\ \A e \in Databases : FilesAccounted(e)'
  BY DEF BackupInv
<1>1. OpenInv /\ TypeOK /\ relay = [d \in Databases |-> relay[d]] /\ dirs \in [Databases -> Nat]
      /\ backups = [d \in Databases |-> backups[d]]
  BY Unfold, LogTypes DEF FilesTypeOK
<1>2. pc # "up"
  BY DEF Recovering, Next, Start, Recover, NotRequired, BinlogNotAvailable, Required, BackupDone,
     RebuildEvent, RebuildDone, ValidateRecovered, SaveBinlogState, BinlogPurged,
     RestoreDone, BackupFile, RestoreRemove, RestoreFile, BinlogReplicatorStores,
     RecoveryFails, Crash, MySQLPurges, MySQLCommits, RelayFileLost, DbReplicator,
     InitialReplication, SetPosition, ReadEvent, ReachEnd, SwitchFile, NoNextFile, vars
<1>3. Known' = Known /\ checkpoint' = checkpoint
  BY <1>2, KnownKept
<1>4. CASE Required
  <2>1. Known # {}
    BY <1>4 DEF Required, MissingStates
  <2>2. /\ before' = relay /\ relay' = relay /\ dirs' = [d \in Databases |-> 0] /\ cleared' = {}
        /\ pc' = "backup" /\ binlog' = binlog
    BY <1>1, <1>4 DEF Required, OpenInv, recovery, mysql
  <2>3. ASSUME NEW e \in Databases PROVE FilesAccounted(e)'
    <3>1. FilesOK(Events(e), before[e])'
      BY <1>1, <2>2, LogTypes DEF Events, EventsOf, FilesOK
    <3>2. DOMAIN <<>> = {}
      OBVIOUS
    <3>3. BackedUp(e)' = <<>>
      BY <2>2 DEF BackedUp
    <3>4. HasOldFiles(e)'
      BY <2>2 DEF HasOldFiles
    <3> QED
      BY <2>2, <3>1, <3>2, <3>3, <3>4 DEF FilesAccounted
  <2> QED
    BY <1>3, <2>1, <2>3
<1>5. ASSUME Recovering PROVE Known' # {} /\ \A e \in Databases : FilesAccounted(e)'
  <2>1. Known # {} /\ \A e \in Databases : FilesAccounted(e)
    BY <1>5, Unfold DEF BackupInv
  <2>2. ASSUME NEW e \in Databases PROVE FilesOK(Events(e), before[e])'
    <3>1. FilesOK(Events(e), before[e])' <=> FilesOK(Events(e)', before'[e])
      BY DEF FilesOK
    <3>2. before' = before
      BY <1>5, <1>2 DEF Recovering, Next, Start, Recover, NotRequired, BinlogNotAvailable, Required, BackupDone,
       RebuildEvent, RebuildDone, ValidateRecovered, SaveBinlogState, BinlogPurged,
       RestoreDone, BackupFile, RestoreRemove, RestoreFile, BinlogReplicatorStores,
       RecoveryFails, Crash, MySQLPurges, MySQLCommits, RelayFileLost, DbReplicator,
       InitialReplication, SetPosition, ReadEvent, ReachEnd, SwitchFile, NoNextFile, vars, history
    <3> QED
      BY <2>1, <3>1, <3>2, EventsStay, FilesMore, Unfold DEF FilesAccounted
  <2>3. ASSUME NEW d \in Databases, BackupFile(d), NEW e \in Databases PROVE FilesAccounted(e)'
    <3>1. /\ IsSequence(backups[d]) /\ Len(backups[d]) \in Nat
          /\ dirs[d] \in Nat /\ dirs[d] <= Len(backups[d])
      BY <1>1, Unfold, SequenceTypes DEF FilesTypeOK
    <3> DEFINE k == IF dirs[d] = 0 THEN Len(backups[d]) + 1 ELSE dirs[d]
    <3>2. k \in 1..(Len(backups[d]) + 1) /\ k # 0
      BY <3>1
    <3>3. PICK n \in DOMAIN relay[d] :
            /\ backups' = [backups EXCEPT ![d] =
                             With(backups[d], k, With(BackedUp(d), n, relay[d][n]))]
            /\ relay' = [relay EXCEPT ![d] = Without(relay[d], n)]
      <4>1. PICK n \in DOMAIN relay[d] :
              /\ backups' = [backups EXCEPT ![d] =
                               With(@, k, With(IF dirs[d] = 0 THEN <<>> ELSE backups[d][k],
                                               n, relay[d][n]))]
              /\ relay' = [relay EXCEPT ![d] = Without(@, n)]
        BY <2>3 DEF BackupFile
      <4>2. (IF dirs[d] = 0 THEN <<>> ELSE backups[d][k]) = BackedUp(d)
        BY DEF BackedUp
      <4> QED
        BY <1>1, <4>1, <4>2
    <3>4. /\ dirs' = [dirs EXCEPT ![d] = k] /\ cleared' = cleared /\ before' = before
          /\ d \in Known /\ pc = "backup" /\ pc' = pc
      BY <2>3 DEF BackupFile, history
    <3> HIDE DEF k
    <3>5. CASE e = d
      <4> DEFINE x == With(BackedUp(d), n, relay[d][n])
      <4>1. PICK t : t = With(backups[d], k, x)
        OBVIOUS
      <4>2. /\ DOMAIN x = DOMAIN BackedUp(d) \cup {n} /\ x[n] = relay[d][n]
            /\ \A m \in DOMAIN x \ {n} : m \in DOMAIN BackedUp(d) /\ x[m] = BackedUp(d)[m]
        BY DEF With
      <4>3. /\ DOMAIN relay'[d] = DOMAIN relay[d] \ {n}
            /\ \A m \in DOMAIN relay'[d] : relay'[d][m] = relay[d][m]
        BY <1>1, <3>3 DEF Without
      <4>4. backups' = [backups EXCEPT ![d] = t]
        BY <3>3, <4>1
      <4> HIDE DEF x
      <4>5. t[k] = x
        BY <4>1 DEF With
      <4>6. backups'[d] = t /\ dirs'[d] = k
        BY <1>1, <3>4, <4>4
      <4>7. BackedUp(d)' = x
        BY <3>2, <4>5, <4>6 DEF BackedUp
      <4>8. HasOldFiles(d) /\ HasOldFiles(d)' /\ FilesAccounted(d)
        BY <2>1, <3>4 DEF HasOldFiles
      <4>9. DOMAIN before[d] = DOMAIN x \cup DOMAIN relay'[d]
        BY <4>2, <4>3, <4>8 DEF FilesAccounted
      <4>10. /\ \A m \in DOMAIN x : x[m] = before[d][m]
             /\ \A m \in DOMAIN relay'[d] : relay'[d][m] = before[d][m]
        BY <4>2, <4>3, <4>8 DEF FilesAccounted
      <4> QED
        BY <1>3, <2>2, <3>2, <3>4, <3>5, <4>6, <4>7, <4>8, <4>9, <4>10 DEF FilesAccounted
    <3>6. CASE e # d
      <4>1. relay'[e] = relay[e] /\ backups'[e] = backups[e] /\ dirs'[e] = dirs[e]
        BY <1>1, <3>3, <3>4, <3>6
      <4>2. BackedUp(e)' = BackedUp(e) /\ HasOldFiles(e)' = HasOldFiles(e)
        BY <3>4, <4>1 DEF BackedUp, HasOldFiles
      <4> QED
        BY <1>5, <3>4, <4>1, <4>2, AccountedStill
    <3> QED
      BY <3>5, <3>6
  <2>4. ASSUME NEW d \in Databases, RestoreRemove(d), NEW e \in Databases PROVE FilesAccounted(e)'
    <3>1. /\ relay' = [relay EXCEPT ![d] = <<>>] /\ cleared' = cleared \cup {d}
          /\ backups' = backups /\ dirs' = dirs /\ before' = before /\ pc = "restore" /\ pc' = pc
          /\ dirs[d] # 0 /\ d \notin cleared
      BY <2>4 DEF RestoreRemove, history
    <3>2. BackedUp(e)' = BackedUp(e)
      BY <3>1 DEF BackedUp
    <3>3. CASE e = d
      <4>1. FilesAccounted(d) /\ ~HasOldFiles(d) /\ HasOldFiles(d)' /\ relay'[d] = <<>>
        BY <1>1, <2>1, <3>1 DEF HasOldFiles, FilesAccounted
      <4>2. DOMAIN <<>> = {}
        OBVIOUS
      <4> QED
        BY <1>3, <2>2, <3>1, <3>2, <3>3, <4>1, <4>2 DEF FilesAccounted
    <3>4. CASE e # d
      <4>1. relay'[e] = relay[e] /\ (HasOldFiles(e)' <=> HasOldFiles(e))
        BY <1>1, <1>3, <3>1, <3>4 DEF HasOldFiles
      <4> QED
        BY <1>5, <3>1, <3>2, <3>4, <4>1, AccountedStill
    <3> QED
      BY <3>3, <3>4
  <2>5. ASSUME NEW d \in Databases, RestoreFile(d), NEW e \in Databases PROVE FilesAccounted(e)'
    <3>1. /\ d \in cleared /\ dirs[d] # 0 /\ d \in Known /\ FilesAccounted(d)
          /\ dirs' = dirs /\ cleared' = cleared /\ before' = before /\ pc' = pc /\ pc = "restore"
      BY <2>1, <2>5 DEF RestoreFile, FilesAccounted, recovery, history
    <3> DEFINE k == dirs[d]
    <3>2. /\ IsSequence(backups[d]) /\ k \in 1..Len(backups[d]) /\ k \in DOMAIN backups[d]
      <4>1. /\ IsSequence(backups[d]) /\ Len(backups[d]) \in Nat
            /\ DOMAIN backups[d] = 1..Len(backups[d])
            /\ dirs[d] \in Nat /\ dirs[d] <= Len(backups[d])
        BY <1>1, Unfold, SequenceTypes DEF FilesTypeOK
      <4> QED
        BY <3>1, <4>1
    <3>3. BackedUp(d) = backups[d][k]
      BY <3>1 DEF BackedUp
    <3>4. PICK n \in DOMAIN BackedUp(d) :
            /\ relay' = [relay EXCEPT ![d] = With(relay[d], n, BackedUp(d)[n])]
            /\ backups' = [backups EXCEPT ![d] =
                             [backups[d] EXCEPT ![k] = Without(BackedUp(d), n)]]
      BY <1>1, <2>5, <3>2, <3>3 DEF RestoreFile
    <3> HIDE DEF k
    <3>5. CASE e = d
      <4> DEFINE x == Without(BackedUp(d), n)
      <4>1. /\ DOMAIN x = DOMAIN BackedUp(d) \ {n}
            /\ \A m \in DOMAIN x : x[m] = BackedUp(d)[m]
        BY DEF Without
      <4>2. /\ DOMAIN relay'[d] = DOMAIN relay[d] \cup {n} /\ relay'[d][n] = BackedUp(d)[n]
            /\ \A m \in DOMAIN relay'[d] \ {n} : m \in DOMAIN relay[d] /\ relay'[d][m] = relay[d][m]
        BY <1>1, <3>4 DEF With
      <4>3. backups'[d][k] = x
        BY <1>1, <3>2, <3>4
      <4> HIDE DEF x
      <4>4. BackedUp(d)' = x
        BY <3>1, <4>3 DEF BackedUp, k
      <4>5. HasOldFiles(d) /\ HasOldFiles(d)'
        BY <3>1 DEF HasOldFiles
      <4>6. DOMAIN before[d] = DOMAIN x \cup DOMAIN relay'[d]
        BY <3>1, <4>1, <4>2, <4>5 DEF FilesAccounted
      <4>7. /\ \A m \in DOMAIN x : x[m] = before[d][m]
            /\ \A m \in DOMAIN relay'[d] : relay'[d][m] = before[d][m]
        BY <3>1, <4>1, <4>2, <4>5 DEF FilesAccounted
      <4> QED
        BY <1>3, <2>2, <3>1, <3>5, <4>4, <4>5, <4>6, <4>7 DEF FilesAccounted
    <3>6. CASE e # d
      <4>1. relay'[e] = relay[e] /\ backups'[e] = backups[e]
        BY <1>1, <3>4, <3>6
      <4>2. BackedUp(e)' = BackedUp(e) /\ HasOldFiles(e)' = HasOldFiles(e)
        BY <1>3, <3>1, <4>1 DEF BackedUp, HasOldFiles
      <4> QED
        BY <1>5, <3>1, <4>1, <4>2, AccountedStill
    <3> QED
      BY <3>5, <3>6
  <2>6. ASSUME RebuildEvent, NEW e \in Databases PROVE FilesAccounted(e)'
    <3>1. /\ at \in 0..Len(binlog) /\ at < Len(binlog) /\ pc = "rebuild" /\ pc' = pc
          /\ backups' = backups /\ dirs' = dirs /\ cleared' = cleared /\ before' = before
          /\ cleared = {}
      BY <1>1, <2>6 DEF RebuildEvent, TypeOK, history, OpenInv
    <3>2. BackedUp(e)' = BackedUp(e) /\ (HasOldFiles(e)' <=> HasOldFiles(e))
      BY <1>3, <3>1 DEF BackedUp, HasOldFiles
    <3>3. HasOldFiles(e) => relay'[e] = relay[e]
      <4>1. SUFFICES ASSUME e \notin Known PROVE relay'[e] = relay[e]
        BY <3>1 DEF HasOldFiles
      <4>2. CASE binlog[at + 1] \in Known
        BY <2>6, <3>1, <4>1, <4>2, NextEvent, StoreEventGrows, Unfold DEF RebuildEvent
      <4>3. CASE binlog[at + 1] \notin Known
        BY <2>6, <4>3 DEF RebuildEvent
      <4> QED
        BY <4>2, <4>3
    <3> QED
      BY <1>5, <3>1, <3>2, <3>3, AccountedStill
  <2>7. ASSUME BackupDone, NEW e \in Databases PROVE FilesAccounted(e)'
    <3>1. /\ pc = "backup" /\ pc' = "rebuild" /\ \A d \in Known : DOMAIN relay[d] = {}
          /\ backups' = backups /\ dirs' = dirs /\ cleared' = cleared /\ before' = before
          /\ relay' = relay
      BY <2>7 DEF BackupDone, history
    <3>2. BackedUp(e)' = BackedUp(e) /\ FilesAccounted(e)
      BY <2>1, <3>1 DEF BackedUp
    <3>3. HasOldFiles(e) /\ (~HasOldFiles(e)' => DOMAIN relay[e] = {})
      BY <1>3, <3>1 DEF HasOldFiles
    <3> QED
      BY <1>3, <2>2, <3>1, <3>2, <3>3 DEF FilesAccounted
  <2>8. ASSUME /\ ~RebuildEvent /\ ~BackupDone
               /\ ~\E d \in Databases : BackupFile(d) \/ RestoreRemove(d) \/ RestoreFile(d),
               NEW e \in Databases
        PROVE  FilesAccounted(e)'
    <3>1. /\ backups' = backups /\ dirs' = dirs /\ cleared' = cleared /\ before' = before
          /\ relay' = relay /\ (pc' = "backup" <=> pc = "backup")
      BY <1>5, <2>8 DEF Recovering, Next, Start, Recover, NotRequired, BinlogNotAvailable, Required,
       RebuildDone, ValidateRecovered, SaveBinlogState, BinlogPurged,
       RestoreDone, BinlogReplicatorStores,
       RecoveryFails, Crash, MySQLPurges, MySQLCommits, RelayFileLost, DbReplicator,
       InitialReplication, SetPosition, ReadEvent, ReachEnd, SwitchFile, NoNextFile, Reading,
       vars, history, recovery
    <3>2. BackedUp(e)' = BackedUp(e) /\ (HasOldFiles(e)' <=> HasOldFiles(e))
      BY <1>3, <3>1 DEF BackedUp, HasOldFiles
    <3> QED
      BY <1>5, <3>1, <3>2, AccountedStill
  <2> QED
    BY <1>3, <2>1, <2>3, <2>4, <2>5, <2>6, <2>7, <2>8
<1>6. CASE ~Required /\ ~Recovering
  BY <1>2, <1>6 DEF Recovering, Next, Start, Recover, NotRequired, BinlogNotAvailable, Required, BackupDone,
     RebuildEvent, RebuildDone, ValidateRecovered, SaveBinlogState, BinlogPurged,
     RestoreDone, BackupFile, RestoreRemove, RestoreFile, BinlogReplicatorStores,
     RecoveryFails, Crash, MySQLPurges, MySQLCommits, RelayFileLost, DbReplicator,
     InitialReplication, SetPosition, ReadEvent, ReachEnd, SwitchFile, NoNextFile, vars
<1> QED
  BY <1>4, <1>5, <1>6

(* The rebuild stores every event of the affected databases it passes. *)
LEMMA RebuildKept ==
    ASSUME RecoveryInv, [Next]_vars
    PROVE  RebuildInv'
<1> SUFFICES ASSUME (pc \in {"rebuild", "validate", "save"})', NEW d \in Known'
             PROVE  (EventsOf(d, checkpoint[d], at) \subseteq Ids(relay[d]))'
  BY DEF RebuildInv
<1>1. pc # "up"
  BY DEF Next, Start, Recover, NotRequired, BinlogNotAvailable, Required, BackupDone,
     RebuildEvent, RebuildDone, ValidateRecovered, SaveBinlogState, BinlogPurged,
     RestoreDone, BackupFile, RestoreRemove, RestoreFile, BinlogReplicatorStores,
     RecoveryFails, Crash, MySQLPurges, MySQLCommits, RelayFileLost, DbReplicator,
     InitialReplication, SetPosition, ReadEvent, ReachEnd, SwitchFile, NoNextFile, vars
<1>2. /\ Known' = Known /\ d \in Known /\ d \in Databases /\ checkpoint' = checkpoint
      /\ checkpoint[d] \in 1..Len(binlog) /\ Len(binlog) \in Nat /\ at \in 0..Len(binlog)
  BY <1>1, KnownKept, KnownTypes, LogTypes, Unfold DEF TypeOK
<1> SUFFICES ASSUME NEW i \in checkpoint[d]..at', binlog'[i] = d
             PROVE  i \in Ids(relay'[d])
  BY <1>2 DEF EventsOf, Ids
<1>3. /\ i \in Nat \ {0} /\ at' \in 0..Len(binlog') /\ Len(binlog') \in Nat
      /\ Len(binlog) <= Len(binlog') /\ \A k \in 1..Len(binlog) : binlog'[k] = binlog[k]
  <2>1. /\ at' \in 0..Len(binlog') /\ Len(binlog') \in Nat
        /\ Len(binlog) <= Len(binlog') /\ \A k \in 1..Len(binlog) : binlog'[k] = binlog[k]
    BY PositionTypes, LogGrows, Unfold
  <2> QED
    BY <1>2, <2>1
<1>4. ASSUME pc \in {"rebuild", "validate", "save"}, i <= at PROVE i \in Ids(relay'[d])
  <2>1. binlog[i] = d /\ i \in checkpoint[d]..at
    BY <1>2, <1>3, <1>4
  <2>2. i \in Ids(relay[d])
    BY <1>2, <1>4, <2>1, Unfold DEF RebuildInv, EventsOf
  <2> QED
    BY <1>2, <1>4, <2>2, RelayGrows
<1>5. CASE BackupDone
  <2>1. at' < checkpoint[d] /\ at' \in Nat
    BY <1>2, <1>5, StartsInFront, Unfold DEF BackupDone
  <2> QED
    BY <1>2, <2>1
<1>6. CASE RebuildEvent
  <2>1. at' = at + 1 /\ at < Len(binlog) /\ pc = "rebuild"
    BY <1>6 DEF RebuildEvent
  <2>2. CASE i <= at
    BY <1>4, <2>1, <2>2
  <2>3. CASE i = at + 1
    <3>1. binlog[at + 1] = d /\ at + 1 \in Events(d)
      BY <1>2, <1>3, <2>1, <2>3 DEF Events, EventsOf
    <3>2. StoreEvent(d, i)
      BY <1>2, <1>6, <2>3, <3>1 DEF RebuildEvent
    <3> QED
      BY <1>2, <2>3, <3>1, <3>2, StoreEventGrows, Unfold
  <2> QED
    BY <1>2, <1>3, <2>1, <2>2, <2>3
<1>7. CASE ~BackupDone /\ ~RebuildEvent
  <2>1. pc \in {"rebuild", "validate", "save"} /\ at' = at
    BY <1>7 DEF Next, Start, Recover, NotRequired, BinlogNotAvailable, Required,
     RebuildDone, ValidateRecovered, SaveBinlogState, BinlogPurged,
     RestoreDone, BackupFile, RestoreRemove, RestoreFile, BinlogReplicatorStores,
     RecoveryFails, Crash, MySQLPurges, MySQLCommits, RelayFileLost, DbReplicator,
     InitialReplication, SetPosition, ReadEvent, ReachEnd, SwitchFile, NoNextFile,
     recovery, vars
  <2> QED
    BY <1>2, <1>3, <1>4, <2>1
<1> QED
  BY <1>5, <1>6, <1>7

LEMMA FoundKept ==
    ASSUME RecoveryInv, [Next]_vars
    PROVE  FoundInv'
<1> SUFFICES ASSUME (pc \in {"save", "up"})', NEW d \in Databases, checkpoint'[d] # None
             PROVE  checkpoint'[d] \in Ids(relay'[d])
  BY DEF FoundInv, MissingStates, HasTransaction, Known, None
<1>1. CASE NotRequired \/ ValidateRecovered
  <2>1. MissingStates = {} /\ checkpoint' = checkpoint /\ relay' = relay
    BY <1>1 DEF NotRequired, ValidateRecovered
  <2> QED
    BY <2>1 DEF MissingStates, HasTransaction, Known
<1>2. CASE ~NotRequired /\ ~ValidateRecovered
  <2>1. pc \in {"save", "up"}
    BY <1>2 DEF Next, Start, Recover, BinlogNotAvailable, Required, BackupDone,
     RebuildEvent, RebuildDone, SaveBinlogState, BinlogPurged,
     RestoreDone, BackupFile, RestoreRemove, RestoreFile, BinlogReplicatorStores,
     RecoveryFails, Crash, MySQLPurges, MySQLCommits, RelayFileLost, DbReplicator,
     InitialReplication, SetPosition, Reading, ReadEvent, ReachEnd, SwitchFile, NoNextFile, vars
  <2>2. Ids(relay[d]) \subseteq Ids(relay'[d])
    BY <2>1, RelayGrows
  <2>3. checkpoint[d] # None => checkpoint[d] \in Ids(relay[d])
    BY <2>1, Unfold DEF FoundInv, MissingStates, HasTransaction, Known
  <2>4. checkpoint'[d] \in {checkpoint[d], None} \cup Ids(relay[d])
    BY CheckpointMoves
  <2> QED
    BY <2>2, <2>3, <2>4
<1> QED
  BY <1>1, <1>2

-----------------------------------------------------------------------------
(* The results. *)

LEMMA InitRecoveryInv == Init => RecoveryInv
<1> SUFFICES ASSUME Init PROVE RecoveryInv
  OBVIOUS
<1>1. DOMAIN <<>> = {} /\ <<>> \in Seq(Databases) /\ Len(<<>>) = 0
  OBVIOUS
<1>2. \A E : FilesOK(E, <<>>)
  BY NoFiles
<1>3. IsSequence(<<>>)
  <2>1. <<>> \in Seq({<<>>[i] : i \in DOMAIN <<>>})
    OBVIOUS
  <2> QED
    BY <2>1 DEF IsSequence
<1>4. FilesTypeOK
  BY <1>1, <1>2, <1>3 DEF Init, FilesTypeOK
<1>5. ReaderTypeOK
  BY DEF Init, ReaderTypeOK, NoReader
<1>6. TypeOK
  BY <1>1, <1>4, <1>5 DEF Init, TypeOK, None, Uncopied
<1>7. OpenInv
  BY DEF Init, OpenInv
<1>8. BackupInv /\ RebuildInv /\ FoundInv
  BY DEF Init, BackupInv, Recovering, RebuildInv, FoundInv
<1> QED
  BY <1>6, <1>7, <1>8 DEF RecoveryInv

LEMMA RecoveryInvStep == RecoveryInv /\ [Next]_vars => RecoveryInv'
BY TypesKept, OpenKept, BackupKept, RebuildKept, FoundKept DEF RecoveryInv

LEMMA RecoveryInvariant == Spec => []RecoveryInv
BY InitRecoveryInv, RecoveryInvStep, PTL DEF Spec

(* Whatever is lost, rebuilt or put back: the relay of a database holds    *)
(* events of that database only, its checkpoint is one of them, and its    *)
(* writer and its reader are in files that exist.                          *)
THEOREM RecoveryTypeCorrect == Spec => []TypeOK
<1>1. RecoveryInv => TypeOK
  BY DEF RecoveryInv
<1> QED
  BY <1>1, RecoveryInvariant, PTL

(* recover_if_required and validate_recovered_states let the processes     *)
(* start only with every checkpoint in the relay, and nothing takes one    *)
(* out while they run.                                                     *)
THEOREM CheckpointsStayFound == Spec => []CheckpointsFound
<1>1. RecoveryInv => CheckpointsFound
  BY DEF RecoveryInv, FoundInv, CheckpointsFound
<1> QED
  BY <1>1, RecoveryInvariant, PTL

(* restore_backups, whichever step of the rebuild failed: in the end       *)
(* the relay is what the recovery found, of every database that            *)
(* had files to back up and of every database it did not concern.          *)
THEOREM FailuresAreUndone == Spec => FailureRestores
<1> DEFINE A == pc = "restore" /\ pc' = "down" /\ crashes' = crashes =>
                  \A d \in Databases : dirs[d] # 0 \/ d \notin Known => relay'[d] = before[d]
<1>1. ASSUME RecoveryInv, [Next]_vars PROVE [A]_vars
  <2> SUFFICES ASSUME pc = "restore", pc' = "down", crashes' = crashes,
                      NEW d \in Databases, dirs[d] # 0 \/ d \notin Known
               PROVE  relay'[d] = before[d]
    OBVIOUS
  <2>1. crashes \in Nat
    BY <1>1, Unfold DEF TypeOK
  <2>2. RestoreDone
    BY <1>1, <2>1 DEF Next, Start, Recover, NotRequired, BinlogNotAvailable, Required, BackupDone,
       RebuildEvent, RebuildDone, ValidateRecovered, SaveBinlogState, BinlogPurged,
       BackupFile, RestoreRemove, RestoreFile, BinlogReplicatorStores,
       RecoveryFails, Crash, MySQLPurges, MySQLCommits, RelayFileLost, DbReplicator,
       InitialReplication, SetPosition, Reading, ReadEvent, ReachEnd, SwitchFile, NoNextFile,
       vars
  <2>3. /\ relay' = relay
        /\ dirs[d] # 0 => d \in cleared /\ DOMAIN backups[d][dirs[d]] = {}
    BY <2>2 DEF RestoreDone
  <2>4. FilesAccounted(d)
    BY <1>1, Unfold DEF BackupInv, Recovering
  <2>5. DOMAIN <<>> = {}
    OBVIOUS
  <2>6. DOMAIN BackedUp(d) = {} /\ HasOldFiles(d)
    BY <2>3, <2>4, <2>5 DEF BackedUp, HasOldFiles, FilesAccounted
  <2>7. DOMAIN relay[d] = DOMAIN before[d] /\ \A n \in DOMAIN relay[d] : relay[d][n] = before[d][n]
    BY <2>4, <2>6 DEF FilesAccounted
  <2>8. FilesOK(Events(d), relay[d]) /\ FilesOK(Events(d), before[d])
    BY <1>1, <2>4, LogTypes, Unfold DEF FilesAccounted
  <2>9. /\ relay[d] = [n \in DOMAIN relay[d] |-> relay[d][n]]
        /\ before[d] = [n \in DOMAIN before[d] |-> before[d][n]]
    BY <2>8 DEF FilesOK
  <2> QED
    BY <2>3, <2>7, <2>9
<1> QED
  BY <1>1, RecoveryInvariant, PTL DEF Spec, FailureRestores

(* rebuild_relay and save_binlog_state: the binlog replicator goes on      *)
(* where the rebuilt files end.                                            *)
THEOREM RecoveryCoversLog == Spec => RebuiltToPosition
<1> DEFINE A == pc = "save" /\ pc' = "up" =>
                  \A d \in Known : EventsOf(d, checkpoint[d], saved') \subseteq Ids(relay[d])
<1>1. ASSUME RecoveryInv, [Next]_vars PROVE [A]_vars
  <2> SUFFICES ASSUME pc = "save", pc' = "up" PROVE A
    OBVIOUS
  <2>1. SaveBinlogState
    BY <1>1 DEF Next, Start, Recover, NotRequired, BinlogNotAvailable, Required, BackupDone,
       RebuildEvent, RebuildDone, ValidateRecovered, BinlogPurged, RestoreDone,
       BackupFile, RestoreRemove, RestoreFile, BinlogReplicatorStores,
       RecoveryFails, Crash, MySQLPurges, MySQLCommits, RelayFileLost, DbReplicator,
       InitialReplication, SetPosition, Reading, ReadEvent, ReachEnd, SwitchFile, NoNextFile,
       vars
  <2>2. saved' = at
    BY <2>1 DEF SaveBinlogState
  <2> QED
    BY <1>1, <2>2, Unfold DEF RebuildInv
<1> QED
  BY <1>1, RecoveryInvariant, PTL DEF Spec, RebuiltToPosition

-----------------------------------------------------------------------------
(* No event is skipped: what is true of files without gaps.                *)

LEMMA FileTypes ==
    ASSUME NEW E, NEW files, FilesOK(E, files), NEW n \in DOMAIN files
    PROVE  /\ n \in Nat \ {0} /\ Len(files[n]) \in Nat \ {0}
           /\ DOMAIN files[n] = 1..Len(files[n])
           /\ \A i \in 1..Len(files[n]) : files[n][i] \in E
           /\ files[n][1] \in E /\ files[n][Len(files[n])] \in E
<1> DEFINE f == files[n]
<1>1. n \in Nat \ {0} /\ f \in Seq(E) /\ f # <<>>
  BY DEF FilesOK
<1> HIDE DEF f
<1>2. /\ Len(f) \in Nat \ {0} /\ DOMAIN f = 1..Len(f)
      /\ \A i \in 1..Len(f) : f[i] \in E
  BY <1>1
<1>3. 1 \in 1..Len(f) /\ Len(f) \in 1..Len(f)
  BY <1>2
<1> QED
  BY <1>1, <1>2, <1>3 DEF f

(* A log that grows, and the position the files are complete to. *)
LEMMA NoneBetweenLater ==
    ASSUME NEW N \in Nat, NEW log, NEW later, \A i \in 1..N : later[i] = log[i], NEW d, NEW m,
           NEW a \in Nat, NEW b \in Nat, b <= N + 1, NoneBetween(log, d, m, a, b)
    PROVE  NoneBetween(later, d, m, a, b)
<1>1. \A e \in a + 1 .. b - 1 : e \in 1..N
  OBVIOUS
<1> QED
  BY <1>1 DEF NoneBetween

LEMMA GaplessLater ==
    ASSUME NEW N \in Nat, NEW log, NEW later, \A i \in 1..N : later[i] = log[i], NEW d, NEW m,
           NEW files, FilesOK(1..N, files), NEW end \in 0..N
    PROVE  /\ Gapless(log, d, m, files, end) => Gapless(later, d, m, files, end)
           /\ FromStart(log, d, m, files, end) => FromStart(later, d, m, files, end)
<1>1. \A n \in DOMAIN files : /\ n \in Nat \ {0} /\ Len(files[n]) \in Nat \ {0}
                              /\ \A i \in 1..Len(files[n]) : files[n][i] \in 1..N
  BY FileTypes
<1>2. \A n \in DOMAIN files : \A i \in 1..Len(files[n]) :
        files[n][i] \in Nat /\ files[n][i] <= N + 1
  BY <1>1
<1>3. end + 1 \in Nat /\ end + 1 <= N + 1 /\ 0 \in Nat
  OBVIOUS
<1>4. \A n \in DOMAIN files : 1 \in 1..Len(files[n]) /\ Len(files[n]) \in 1..Len(files[n])
  BY <1>1
<1>5. \A n \in DOMAIN files : \A i \in 1..Len(files[n]) - 1 :
        i \in 1..Len(files[n]) /\ i + 1 \in 1..Len(files[n])
  BY <1>1
<1>6. ASSUME Gapless(log, d, m, files, end) PROVE Gapless(later, d, m, files, end)
  <2>1. ASSUME NEW n \in DOMAIN files, NEW i \in 1..Len(files[n]) - 1
        PROVE  NoneBetween(later, d, m, files[n][i], files[n][i + 1])
    <3>1. NoneBetween(log, d, m, files[n][i], files[n][i + 1])
      BY <1>6 DEF Gapless
    <3> QED
      BY <1>2, <1>5, <3>1, NoneBetweenLater
  <2>2. ASSUME NEW n \in DOMAIN files, n + 1 \in DOMAIN files
        PROVE  NoneBetween(later, d, m, files[n][Len(files[n])], files[n + 1][1])
    <3>1. NoneBetween(log, d, m, files[n][Len(files[n])], files[n + 1][1])
      BY <1>6, <2>2 DEF Gapless
    <3> QED
      BY <1>2, <1>4, <2>2, <3>1, NoneBetweenLater
  <2>3. ASSUME NEW n \in DOMAIN files, \A k \in DOMAIN files : k <= n
        PROVE  NoneBetween(later, d, m, files[n][Len(files[n])], end + 1)
    <3>1. NoneBetween(log, d, m, files[n][Len(files[n])], end + 1)
      BY <1>6, <2>3 DEF Gapless
    <3> QED
      BY <1>2, <1>3, <1>4, <3>1, NoneBetweenLater
  <2> QED
    BY <2>1, <2>2, <2>3 DEF Gapless
<1>7. ASSUME FromStart(log, d, m, files, end) PROVE FromStart(later, d, m, files, end)
  <2>1. ASSUME DOMAIN files = {} PROVE NoneBetween(later, d, m, 0, end + 1)
    BY <1>3, <1>7, <2>1, NoneBetweenLater DEF FromStart
  <2>2. ASSUME NEW n \in DOMAIN files, \A k \in DOMAIN files : n <= k
        PROVE  NoneBetween(later, d, m, 0, files[n][1])
    <3>1. NoneBetween(log, d, m, 0, files[n][1])
      BY <1>7, <2>2 DEF FromStart
    <3> QED
      BY <1>2, <1>3, <1>4, <3>1, NoneBetweenLater
  <2> QED
    BY <2>1, <2>2 DEF FromStart
<1> QED
  BY <1>6, <1>7

LEMMA GaplessPassed ==
    ASSUME NEW E, E \subseteq Nat, NEW log, NEW d, NEW m,
           NEW files, FilesOK(E, files), NEW end \in Nat, log[end + 1] # d
    PROVE  /\ Gapless(log, d, m, files, end) => Gapless(log, d, m, files, end + 1)
           /\ FromStart(log, d, m, files, end) => FromStart(log, d, m, files, end + 1)
<1>1. ASSUME NEW a \in Nat, NoneBetween(log, d, m, a, end + 1)
      PROVE  NoneBetween(log, d, m, a, (end + 1) + 1)
  <2>1. \A e \in a + 1 .. ((end + 1) + 1) - 1 : e = end + 1 \/ e \in a + 1 .. (end + 1) - 1
    OBVIOUS
  <2> QED
    BY <1>1, <2>1 DEF NoneBetween
<1>2. \A n \in DOMAIN files : files[n][Len(files[n])] \in Nat
  <2>1. \A n \in DOMAIN files : files[n][Len(files[n])] \in E
    BY FileTypes
  <2> QED
    BY <2>1
<1> QED
  BY <1>1, <1>2 DEF Gapless, FromStart

LEMMA GaplessBefore ==
    ASSUME NEW E, E \subseteq Nat, NEW log, NEW d, NEW m, NEW files, FilesOK(E, files),
           NEW end \in Nat, NEW b \in 0..end, Gapless(log, d, m, files, end)
    PROVE  Gapless(log, d, m, files, b)
<1>1. ASSUME NEW a \in Nat, NoneBetween(log, d, m, a, end + 1)
      PROVE  NoneBetween(log, d, m, a, b + 1)
  <2>1. \A e \in a + 1 .. (b + 1) - 1 : e \in a + 1 .. (end + 1) - 1
    OBVIOUS
  <2> QED
    BY <1>1, <2>1 DEF NoneBetween
<1>2. \A n \in DOMAIN files : files[n][Len(files[n])] \in Nat
  <2>1. \A n \in DOMAIN files : files[n][Len(files[n])] \in E
    BY FileTypes
  <2> QED
    BY <2>1
<1> QED
  BY <1>1, <1>2 DEF Gapless

(* When the copy has just seen everything there is nothing to miss. *)
LEMMA GaplessCopied ==
    ASSUME NEW N \in Nat, NEW log, NEW d, NEW files, FilesOK(1..N, files), NEW end \in 0..N
    PROVE  Gapless(log, d, N, files, end) /\ FromStart(log, d, N, files, end)
<1>1. ASSUME NEW a \in Nat, NEW b \in Nat, b <= N + 1 PROVE NoneBetween(log, d, N, a, b)
  <2>1. \A e \in a + 1 .. b - 1 : e <= N
    BY <1>1
  <2> QED
    BY <2>1 DEF NoneBetween
<1>2. \A n \in DOMAIN files : /\ n \in Nat \ {0} /\ Len(files[n]) \in Nat \ {0}
                              /\ \A i \in 1..Len(files[n]) : files[n][i] \in 1..N
  BY FileTypes
<1>3. \A n \in DOMAIN files : \A i \in 1..Len(files[n]) :
        files[n][i] \in Nat /\ files[n][i] <= N + 1
  BY <1>2
<1>4. end + 1 \in Nat /\ end + 1 <= N + 1 /\ 0 \in Nat
  OBVIOUS
<1>5. \A n \in DOMAIN files : 1 \in 1..Len(files[n]) /\ Len(files[n]) \in 1..Len(files[n])
  BY <1>2
<1>6. \A n \in DOMAIN files : \A i \in 1..Len(files[n]) - 1 :
        i \in 1..Len(files[n]) /\ i + 1 \in 1..Len(files[n])
  BY <1>2
<1>7. Gapless(log, d, N, files, end)
  BY <1>1, <1>3, <1>4, <1>5, <1>6 DEF Gapless
<1>8. FromStart(log, d, N, files, end)
  BY <1>1, <1>3, <1>4, <1>5 DEF FromStart
<1> QED
  BY <1>7, <1>8

(* Files that are lost, oldest first. *)
LEMMA GaplessWithout ==
    ASSUME NEW E, NEW log, NEW d, NEW m, NEW files, FilesOK(E, files), NEW end,
           DOMAIN files # {}, Gapless(log, d, m, files, end)
    PROVE  Gapless(log, d, m, Without(files, Min(DOMAIN files)), end)
<1> DEFINE x == Min(DOMAIN files)
           g == Without(files, x)
<1>1. x \in DOMAIN files /\ \A n \in DOMAIN files : x <= n
  BY LeastOf DEF FilesOK
<1> HIDE DEF x
<1>2. DOMAIN g = DOMAIN files \ {x} /\ \A n \in DOMAIN g : g[n] = files[n]
  BY DEF Without
<1> HIDE DEF g
<1>3. \A n \in DOMAIN g : (\A k \in DOMAIN g : k <= n) => (\A k \in DOMAIN files : k <= n)
  BY <1>1, <1>2
<1>4. \A n \in DOMAIN g : n \in DOMAIN files
  BY <1>2
<1> QED
  BY <1>2, <1>3, <1>4 DEF Gapless, g, x

(* The next event is stored: at the end of the last file, or in a new one. *)
LEMMA GaplessAppended ==
    ASSUME NEW E, E \subseteq Nat, NEW log, NEW d, NEW m, NEW files, FilesOK(E, files),
           NEW end \in Nat, NEW w \in DOMAIN files, \A k \in DOMAIN files : k <= w,
           NEW g, DOMAIN g = DOMAIN files, \A k \in DOMAIN files \ {w} : g[k] = files[k],
           Len(g[w]) = Len(files[w]) + 1, g[w][Len(files[w]) + 1] = end + 1,
           \A i \in 1..Len(files[w]) : g[w][i] = files[w][i]
    PROVE  /\ Gapless(log, d, m, files, end) => Gapless(log, d, m, g, end + 1)
           /\ FromStart(log, d, m, files, end) => FromStart(log, d, m, g, end + 1)
<1>1. \A k \in DOMAIN files : k \in Nat \ {0} /\ Len(files[k]) \in Nat \ {0}
  BY FileTypes
<1> DEFINE L == Len(files[w])
<1>2. L \in Nat \ {0} /\ L - 1 \in Nat /\ Len(g[w]) = L + 1
  BY <1>1
<1>3. g[w][1] = files[w][1] /\ g[w][L] = files[w][L] /\ g[w][L + 1] = end + 1
  BY <1>2
<1>4. NoneBetween(log, d, m, end + 1, (end + 1) + 1)
  <2>1. (end + 1) + 1 .. ((end + 1) + 1) - 1 = {}
    OBVIOUS
  <2> QED
    BY <2>1 DEF NoneBetween
<1>5. ASSUME Gapless(log, d, m, files, end) PROVE Gapless(log, d, m, g, end + 1)
  <2>1. NoneBetween(log, d, m, files[w][L], end + 1)
    BY <1>5 DEF Gapless
  <2>2. ASSUME NEW n \in DOMAIN g, NEW i \in 1 .. Len(g[n]) - 1
        PROVE  NoneBetween(log, d, m, g[n][i], g[n][i + 1])
    <3>1. CASE n # w
      BY <1>5, <3>1 DEF Gapless
    <3>2. CASE n = w
      <4>1. i \in 1..L
        BY <1>2, <3>2
      <4>2. CASE i = L
        BY <1>3, <2>1, <3>2, <4>2
      <4>3. CASE i # L
        <5>1. i \in 1 .. L - 1 /\ i + 1 \in 1..L
          BY <1>2, <4>1, <4>3
        <5>2. g[n][i] = files[w][i] /\ g[n][i + 1] = files[w][i + 1]
          BY <3>2, <4>1, <5>1
        <5>3. NoneBetween(log, d, m, files[w][i], files[w][i + 1])
          BY <1>5, <5>1 DEF Gapless
        <5> QED
          BY <5>2, <5>3
      <4> QED
        BY <4>2, <4>3
    <3> QED
      BY <3>1, <3>2
  <2>3. ASSUME NEW n \in DOMAIN g, n + 1 \in DOMAIN g
        PROVE  NoneBetween(log, d, m, g[n][Len(g[n])], g[n + 1][1])
    <3>1. n # w
      <4>1. n \in Nat /\ w \in Nat /\ n + 1 <= w
        BY <1>1, <2>3
      <4> QED
        BY <4>1
    <3>2. g[n] = files[n] /\ g[n + 1][1] = files[n + 1][1]
      BY <1>3, <2>3, <3>1
    <3>3. NoneBetween(log, d, m, files[n][Len(files[n])], files[n + 1][1])
      BY <1>5, <2>3 DEF Gapless
    <3> QED
      BY <3>2, <3>3
  <2>4. ASSUME NEW n \in DOMAIN g, \A k \in DOMAIN g : k <= n
        PROVE  NoneBetween(log, d, m, g[n][Len(g[n])], (end + 1) + 1)
    <3>1. n = w
      <4>1. n \in Nat /\ w \in Nat /\ n <= w /\ w <= n
        BY <1>1, <2>4
      <4> QED
        BY <4>1
    <3> QED
      BY <1>2, <1>3, <1>4, <3>1
  <2> QED
    BY <2>2, <2>3, <2>4 DEF Gapless
<1>6. ASSUME FromStart(log, d, m, files, end) PROVE FromStart(log, d, m, g, end + 1)
  <2>1. \A n \in DOMAIN g : g[n][1] = files[n][1]
    BY <1>3
  <2> QED
    BY <1>6, <2>1 DEF FromStart
<1> QED
  BY <1>5, <1>6

LEMMA GaplessOpened ==
    ASSUME NEW E, E \subseteq Nat, NEW log, NEW d, NEW m, NEW files, FilesOK(E, files),
           NEW end \in Nat, NEW w \in Nat, \A k \in DOMAIN files : k < w,
           NEW g, DOMAIN g = DOMAIN files \cup {w}, \A k \in DOMAIN files : g[k] = files[k],
           g[w] = <<end + 1>>
    PROVE  /\ Gapless(log, d, m, files, end) => Gapless(log, d, m, g, end + 1)
           /\ FromStart(log, d, m, files, end) => FromStart(log, d, m, g, end + 1)
<1>1. \A k \in DOMAIN files : k \in Nat \ {0} /\ Len(files[k]) \in Nat \ {0}
  BY FileTypes
<1>2. Len(g[w]) = 1 /\ g[w][1] = end + 1
  OBVIOUS
<1>3. w \notin DOMAIN files
  BY <1>1
<1>4. NoneBetween(log, d, m, end + 1, (end + 1) + 1)
  <2>1. (end + 1) + 1 .. ((end + 1) + 1) - 1 = {}
    OBVIOUS
  <2> QED
    BY <2>1 DEF NoneBetween
<1>5. ASSUME Gapless(log, d, m, files, end) PROVE Gapless(log, d, m, g, end + 1)
  <2>1. ASSUME NEW n \in DOMAIN g, NEW i \in 1 .. Len(g[n]) - 1
        PROVE  NoneBetween(log, d, m, g[n][i], g[n][i + 1])
    <3>1. CASE n # w
      BY <1>5, <3>1 DEF Gapless
    <3>2. CASE n = w
      <4>1. i \in 1 .. 1 - 1
        BY <1>2, <3>2
      <4> QED
        BY <4>1
    <3> QED
      BY <3>1, <3>2
  <2>2. ASSUME NEW n \in DOMAIN g, n + 1 \in DOMAIN g
        PROVE  NoneBetween(log, d, m, g[n][Len(g[n])], g[n + 1][1])
    <3>1. n # w
      <4>1. CASE n + 1 = w
        BY <4>1
      <4>2. CASE n + 1 # w
        <5>1. n + 1 \in Nat /\ n + 1 < w
          BY <1>1, <2>2, <4>2
        <5>2. n = w => FALSE
          BY <5>1
        <5> QED
          BY <5>2
      <4> QED
        BY <4>1, <4>2
    <3>2. n \in DOMAIN files /\ g[n] = files[n] /\ n \in Nat
      BY <1>1, <2>2, <3>1
    <3>3. CASE n + 1 = w
      <4>1. ASSUME NEW k \in DOMAIN files PROVE k <= n
        <5>1. k \in Nat /\ k < n + 1
          BY <1>1, <3>3
        <5> QED
          BY <3>2, <5>1
      <4>2. NoneBetween(log, d, m, files[n][Len(files[n])], end + 1)
        BY <1>5, <3>2, <4>1 DEF Gapless
      <4> QED
        BY <1>2, <3>2, <3>3, <4>2
    <3>4. CASE n + 1 # w
      <4>1. n + 1 \in DOMAIN files /\ g[n + 1] = files[n + 1]
        BY <2>2, <3>4
      <4>2. NoneBetween(log, d, m, files[n][Len(files[n])], files[n + 1][1])
        BY <1>5, <3>2, <4>1 DEF Gapless
      <4> QED
        BY <3>2, <4>1, <4>2
    <3> QED
      BY <3>3, <3>4
  <2>3. ASSUME NEW n \in DOMAIN g, \A k \in DOMAIN g : k <= n
        PROVE  NoneBetween(log, d, m, g[n][Len(g[n])], (end + 1) + 1)
    <3>1. n = w
      <4>1. CASE n \in DOMAIN files
        <5>1. n \in Nat /\ n < w /\ w <= n
          BY <1>1, <2>3, <4>1
        <5> QED
          BY <5>1
      <4> QED
        BY <4>1
    <3> QED
      BY <1>2, <1>4, <3>1
  <2> QED
    BY <2>1, <2>2, <2>3 DEF Gapless
<1>6. ASSUME FromStart(log, d, m, files, end) PROVE FromStart(log, d, m, g, end + 1)
  <2>1. CASE DOMAIN files = {}
    <3>1. NoneBetween(log, d, m, 0, end + 1) /\ DOMAIN g = {w}
      BY <1>6, <2>1 DEF FromStart
    <3> QED
      BY <1>2, <3>1 DEF FromStart
  <2>2. CASE DOMAIN files # {}
    <3>1. DOMAIN g # {}
      OBVIOUS
    <3>2. ASSUME NEW n \in DOMAIN g, \A k \in DOMAIN g : n <= k
          PROVE  NoneBetween(log, d, m, 0, g[n][1])
      <4>1. PICK k \in DOMAIN files : n <= k
        BY <2>2, <3>2
      <4>2. CASE n = w
        <5>1. k \in Nat /\ k < w /\ w <= k
          BY <1>1, <4>1, <4>2
        <5> QED
          BY <5>1
      <4>3. CASE n # w
        <5>1. n \in DOMAIN files /\ g[n] = files[n] /\ \A j \in DOMAIN files : n <= j
          BY <3>2, <4>3
        <5> QED
          BY <1>6, <5>1 DEF FromStart
      <4> QED
        BY <4>2, <4>3
    <3> QED
      BY <3>1, <3>2 DEF FromStart
  <2> QED
    BY <2>1, <2>2
<1> QED
  BY <1>5, <1>6

-----------------------------------------------------------------------------
(* No event is skipped: what the steps do to the files.                    *)

(* store_event appends to the file it writes, or opens the next one. *)
LEMMA StoreEventPlaces ==
    ASSUME TypeOK, NEW d \in Databases, NEW id \in Events(d), StoreEvent(d, id)
    PROVE  \E w \in Nat \ {0} :
             /\ writer'[d] = w
             /\ \/ /\ w = writer[d] /\ w \in DOMAIN relay[d] /\ DOMAIN relay'[d] = DOMAIN relay[d]
                   /\ relay'[d][w] = Append(relay[d][w], id)
                \/ /\ \A k \in DOMAIN relay[d] : k < w
                   /\ DOMAIN relay'[d] = DOMAIN relay[d] \cup {w}
                   /\ relay'[d][w] = <<id>>
             /\ \A k \in DOMAIN relay[d] \ {w} : relay'[d][k] = relay[d][k]
<1> DEFINE f == relay[d]
           w == writer[d]
           goesOn == w # 0 /\ Len(f[w]) < RecordsPerFile
           num == IF goesOn THEN w ELSE Max(DOMAIN f \cup {0}) + 1
           file == IF goesOn THEN Append(f[num], id) ELSE <<id>>
           g == With(f, num, file)
<1>1. relay' = [relay EXCEPT ![d] = g] /\ writer' = [writer EXCEPT ![d] = num]
  BY LogTypes DEF StoreEvent
<1>2. /\ FilesOK(Events(d), f) /\ w \in Nat /\ (w = 0 \/ w \in DOMAIN f)
      /\ writer \in [Databases -> Nat] /\ relay = [e \in Databases |-> relay[e]]
  BY DEF TypeOK, FilesTypeOK
<1> HIDE DEF f, w
<1>3. /\ DOMAIN g = DOMAIN f \cup {num} /\ g[num] = file
      /\ \A k \in DOMAIN f \ {num} : g[k] = f[k]
  BY DEF With
<1>4. Max(DOMAIN f \cup {0}) + 1 \in Nat \ {0} /\ \A m \in DOMAIN f : m < Max(DOMAIN f \cup {0}) + 1
  BY <1>2, LastFile
<1>5. goesOn => num = w /\ w \in DOMAIN f /\ w \in Nat \ {0} /\ file = Append(f[w], id)
  BY <1>2
<1>6. ~goesOn => /\ num \in Nat \ {0} /\ \A m \in DOMAIN f : m < num
                 /\ file = <<id>>
  BY <1>4
<1> HIDE DEF g, num, file, goesOn
<1>7. relay'[d] = g /\ writer'[d] = num
  BY <1>1, <1>2
<1>8. CASE goesOn
  <2>1. DOMAIN g = DOMAIN f
    BY <1>3, <1>5, <1>8
  <2> QED
    BY <1>3, <1>5, <1>7, <1>8, <2>1 DEF f, w
<1>9. CASE ~goesOn
  BY <1>3, <1>6, <1>7, <1>9 DEF f, w
<1> QED
  BY <1>8, <1>9

LEMMA StoreEventGapless ==
    ASSUME TypeOK, WriterInv, NEW d \in Databases, NEW id \in Events(d), StoreEvent(d, id)
    PROVE  /\ \A n \in DOMAIN relay'[d] : n <= writer'[d]
           /\ \A n \in DOMAIN relay[d] : \A i \in 1..Len(relay[d][n]) :
                relay'[d][n][i] = relay[d][n][i]
           /\ \A log, m : \A end \in Nat : id = end + 1 =>
                /\ Gapless(log, d, m, relay[d], end) => Gapless(log, d, m, relay'[d], end + 1)
                /\ FromStart(log, d, m, relay[d], end) => FromStart(log, d, m, relay'[d], end + 1)
<1> DEFINE f == relay[d]
           g == relay'[d]
           E == Events(d)
<1>1. PICK w \in Nat \ {0} :
             /\ writer'[d] = w
             /\ \/ /\ w = writer[d] /\ w \in DOMAIN f /\ DOMAIN g = DOMAIN f
                   /\ g[w] = Append(f[w], id)
                \/ /\ \A k \in DOMAIN f : k < w
                   /\ DOMAIN g = DOMAIN f \cup {w}
                   /\ g[w] = <<id>>
             /\ \A k \in DOMAIN f \ {w} : g[k] = f[k]
  BY StoreEventPlaces
<1>2. /\ FilesOK(E, f) /\ E \subseteq Nat
      /\ writer[d] # 0 => \A n \in DOMAIN f : n <= writer[d]
  BY LogTypes DEF WriterInv
<1>3. \A n \in DOMAIN f : n \in Nat \ {0} /\ f[n] \in Seq(E)
  BY <1>2 DEF FilesOK
<1> HIDE DEF f, g, E
<1>4. CASE w = writer[d] /\ w \in DOMAIN f /\ DOMAIN g = DOMAIN f /\ g[w] = Append(f[w], id)
  <2> DEFINE h == f[w]
  <2>1. h \in Seq(E) /\ g[w] = Append(h, id)
    BY <1>3, <1>4
  <2> HIDE DEF h
  <2>2. /\ Len(g[w]) = Len(h) + 1 /\ g[w][Len(h) + 1] = id
        /\ \A i \in 1..Len(h) : g[w][i] = h[i]
    BY <2>1
  <2>3. \A k \in DOMAIN f : k <= w
    BY <1>2, <1>4
  <2>4. ASSUME NEW log, NEW m, NEW end \in Nat, id = end + 1
        PROVE  /\ Gapless(log, d, m, f, end) => Gapless(log, d, m, g, end + 1)
               /\ FromStart(log, d, m, f, end) => FromStart(log, d, m, g, end + 1)
    <3>1. /\ DOMAIN g = DOMAIN f /\ \A k \in DOMAIN f \ {w} : g[k] = f[k]
          /\ Len(g[w]) = Len(f[w]) + 1 /\ g[w][Len(f[w]) + 1] = end + 1
          /\ \A i \in 1..Len(f[w]) : g[w][i] = f[w][i]
      BY <1>1, <1>4, <2>2, <2>4 DEF h
    <3> QED
      BY <1>2, <1>4, <2>3, <3>1, GaplessAppended
  <2>5. \A n \in DOMAIN f : \A i \in 1..Len(f[n]) : g[n][i] = f[n][i]
    BY <1>1, <2>2 DEF h
  <2>6. \A n \in DOMAIN g : n <= writer'[d]
    BY <1>1, <1>4, <2>3
  <2> QED
    BY <2>4, <2>5, <2>6 DEF f, g
<1>5. CASE (\A k \in DOMAIN f : k < w) /\ DOMAIN g = DOMAIN f \cup {w} /\ g[w] = <<id>>
  <2>1. \A k \in DOMAIN f : k # w
    BY <1>3, <1>5
  <2>2. \A k \in DOMAIN f : g[k] = f[k]
    BY <1>1, <2>1
  <2>3. ASSUME NEW log, NEW m, NEW end \in Nat, id = end + 1
        PROVE  /\ Gapless(log, d, m, f, end) => Gapless(log, d, m, g, end + 1)
               /\ FromStart(log, d, m, f, end) => FromStart(log, d, m, g, end + 1)
    <3>1. g[w] = <<end + 1>>
      BY <1>5, <2>3
    <3> QED
      BY <1>2, <1>5, <2>2, <3>1, GaplessOpened
  <2>4. \A n \in DOMAIN g : n <= writer'[d]
    BY <1>1, <1>3, <1>5
  <2> QED
    BY <2>2, <2>3, <2>4 DEF f, g
<1> QED
  BY <1>1, <1>4, <1>5

LEMMA IdsWithout ==
    ASSUME NEW files, NEW n
    PROVE  Ids(Without(files, n)) \subseteq Ids(files)
<1> DEFINE g == Without(files, n)
<1>1. DOMAIN g \subseteq DOMAIN files /\ \A k \in DOMAIN g : g[k] = files[k]
  BY DEF Without
<1> HIDE DEF g
<1>2. Ids(g) \subseteq Ids(files)
  BY <1>1 DEF Ids
<1> QED
  BY <1>2 DEF g

LEMMA MissingKept ==
    ASSUME RecoveryInv, SkipInv, [Next]_vars
    PROVE  MissingInv'
<1>1. MissingInv /\ TypeOK
  BY Unfold DEF SkipInv
<1>2. ASSUME (pc \in {"validate", "save"})' PROVE (saved <= at)'
  <2>1. CASE RebuildDone
    <3>1. saved' = saved /\ at' = at /\ at = Len(binlog) /\ saved \in 0..Len(binlog)
      BY <1>1, <2>1 DEF RebuildDone, recovery, TypeOK
    <3>2. Len(binlog) \in Nat
      BY <1>1, LogTypes
    <3> QED
      BY <3>1, <3>2
  <2>2. CASE ~RebuildDone
    <3>1. pc \in {"validate", "save"} /\ saved' = saved /\ at' = at
      BY <1>2, <2>2 DEF Next, Recover, DbReplicator, Start, NotRequired, BinlogNotAvailable, Required,
         BackupDone, RebuildEvent, ValidateRecovered, SaveBinlogState, BinlogPurged,
         RestoreDone, BackupFile, RestoreRemove, RestoreFile, BinlogReplicatorStores,
         RecoveryFails, Crash, MySQLPurges, MySQLCommits, RelayFileLost, InitialReplication,
         SetPosition, ReadEvent, ReachEnd, SwitchFile, NoNextFile, recovery, vars
    <3> QED
      BY <1>1, <3>1 DEF MissingInv
  <2> QED
    BY <2>1, <2>2
<1>3. ASSUME (pc = "backup")' PROVE MissingStates' # {}
  <2>1. pc # "up"
    BY <1>3 DEF Next, Recover, DbReplicator, Start, NotRequired, BinlogNotAvailable, Required, BackupDone,
     RebuildEvent, RebuildDone, ValidateRecovered, SaveBinlogState, BinlogPurged, RestoreDone,
     BackupFile, RestoreRemove, RestoreFile, BinlogReplicatorStores, RecoveryFails, Crash,
     MySQLPurges, MySQLCommits, RelayFileLost, InitialReplication, SetPosition, ReadEvent,
     ReachEnd, SwitchFile, NoNextFile, vars
  <2>2. /\ Known' = Known /\ Known \subseteq Databases
        /\ MissingStates' = {d \in Known : ~(checkpoint[d] \in Ids(relay'[d]))}
    BY <1>1, <2>1, KnownKept, KnownTypes
  <2>3. MissingStates # {}
    <3>1. pc = "backup" \/ Required
      BY <1>3 DEF Next, Recover, DbReplicator, Start, NotRequired, BinlogNotAvailable, BackupDone,
         RebuildEvent, RebuildDone, ValidateRecovered, SaveBinlogState, BinlogPurged,
         RestoreDone, BackupFile, RestoreRemove, RestoreFile, BinlogReplicatorStores,
         RecoveryFails, Crash, MySQLPurges, MySQLCommits, RelayFileLost, InitialReplication,
         SetPosition, ReadEvent, ReachEnd, SwitchFile, NoNextFile, vars
    <3> QED
      BY <1>1, <3>1 DEF MissingInv, Required
  <2>4. PICK d \in Known : checkpoint[d] \notin Ids(relay[d])
    BY <2>3 DEF MissingStates, HasTransaction
  <2>5. Ids(relay'[d]) \subseteq Ids(relay[d])
    <3>1. CASE \E e \in Databases : BackupFile(e)
      <4>1. PICK e \in Databases : BackupFile(e)
        BY <3>1
      <4>2. PICK n \in DOMAIN relay[e] : relay' = [relay EXCEPT ![e] = Without(relay[e], n)]
        BY <1>1, <4>1, LogTypes DEF BackupFile
      <4>3. relay'[d] = relay[d] \/ relay'[d] = Without(relay[d], n)
        BY <1>1, <2>2, <4>2, LogTypes
      <4>4. Ids(Without(relay[d], n)) \subseteq Ids(relay[d])
        BY IdsWithout
      <4> QED
        BY <4>3, <4>4
    <3>2. CASE ~\E e \in Databases : BackupFile(e)
      <4>1. relay' = relay
        BY <1>3, <3>2 DEF Next, Recover, DbReplicator, Start, NotRequired, BinlogNotAvailable, Required,
           BackupDone, RebuildEvent, RebuildDone, ValidateRecovered, SaveBinlogState,
           BinlogPurged, RestoreDone, RestoreRemove, RestoreFile, BinlogReplicatorStores,
           RecoveryFails, Crash, MySQLPurges, MySQLCommits, RelayFileLost, InitialReplication,
           SetPosition, ReadEvent, ReachEnd, SwitchFile, NoNextFile, vars
      <4> QED
        BY <4>1
    <3> QED
      BY <3>1, <3>2
  <2> QED
    BY <2>2, <2>4, <2>5
<1>4. ASSUME Recovering' PROVE (\E d \in Known : checkpoint[d] \notin Ids(before[d]))'
  <2>1. pc # "up"
    BY <1>4 DEF Recovering, Next, Recover, DbReplicator, Start, NotRequired, BinlogNotAvailable, Required, BackupDone,
     RebuildEvent, RebuildDone, ValidateRecovered, SaveBinlogState, BinlogPurged, RestoreDone,
     BackupFile, RestoreRemove, RestoreFile, BinlogReplicatorStores, RecoveryFails, Crash,
     MySQLPurges, MySQLCommits, RelayFileLost, InitialReplication, SetPosition, ReadEvent,
     ReachEnd, SwitchFile, NoNextFile, vars
  <2>2. Known' = Known /\ checkpoint' = checkpoint
    BY <2>1, KnownKept
  <2>3. \E d \in Known : checkpoint[d] \notin Ids(before'[d])
    <3>1. CASE Required
      <4>1. before' = relay /\ MissingStates # {}
        BY <3>1 DEF Required
      <4> QED
        BY <4>1 DEF MissingStates, HasTransaction
    <3>2. CASE ~Required
      <4>1. Recovering /\ before' = before
        BY <1>4, <3>2 DEF Recovering, history, Next, Recover, DbReplicator, Start, NotRequired, BinlogNotAvailable, BackupDone,
           RebuildEvent, RebuildDone, ValidateRecovered, SaveBinlogState, BinlogPurged,
           RestoreDone, BackupFile, RestoreRemove, RestoreFile, BinlogReplicatorStores,
           RecoveryFails, Crash, MySQLPurges, MySQLCommits, RelayFileLost, InitialReplication,
           SetPosition, ReadEvent, ReachEnd, SwitchFile, NoNextFile, vars
      <4> QED
        BY <1>1, <4>1 DEF MissingInv
    <3> QED
      BY <3>1, <3>2
  <2> QED
    BY <2>2, <2>3 DEF Ids
<1> QED
  BY <1>2, <1>3, <1>4 DEF MissingInv

LEMMA CopyKept ==
    ASSUME RecoveryInv, SkipInv, [Next]_vars
    PROVE  CopyInv'
<1> SUFFICES ASSUME NEW d \in Databases, mark'[d] = Uncopied
             PROVE  checkpoint'[d] = None /\ reader'[d] = NoReader
  BY DEF CopyInv, Uncopied, None, NoReader
<1>1. /\ CopyInv /\ TypeOK
      /\ mark \in [Databases -> Uncopied..Len(binlog)] /\ checkpoint \in [Databases -> Nat]
      /\ reader \in [Databases -> [file : Nat, pos : Nat, eof : BOOLEAN]]
  BY Unfold DEF SkipInv, TypeOK, ReaderTypeOK
<1>2. ~InitialReplication(d)
  <2>1. Len(binlog) # Uncopied
    BY <1>1, LogTypes DEF Uncopied
  <2> QED
    BY <1>1, <2>1 DEF InitialReplication
<1>3. mark[d] = Uncopied
  BY <1>1, <1>2 DEF Next, Recover, DbReplicator, Start, NotRequired, BinlogNotAvailable, Required, BackupDone,
     RebuildEvent, RebuildDone, ValidateRecovered, SaveBinlogState, BinlogPurged, RestoreDone,
     BackupFile, RestoreRemove, RestoreFile, BinlogReplicatorStores, RecoveryFails, Crash,
     MySQLPurges, MySQLCommits, RelayFileLost, InitialReplication, SetPosition, ReadEvent,
     ReachEnd, SwitchFile, NoNextFile, vars
<1>4. checkpoint[d] = None /\ reader[d] = NoReader
  BY <1>1, <1>3 DEF CopyInv
<1>5. checkpoint'[d] = checkpoint[d]
  BY <1>1, <1>2, <1>4 DEF Reading, Next, Recover, DbReplicator, Start, NotRequired, BinlogNotAvailable, Required, BackupDone,
     RebuildEvent, RebuildDone, ValidateRecovered, SaveBinlogState, BinlogPurged, RestoreDone,
     BackupFile, RestoreRemove, RestoreFile, BinlogReplicatorStores, RecoveryFails, Crash,
     MySQLPurges, MySQLCommits, RelayFileLost, InitialReplication, SetPosition, ReadEvent,
     ReachEnd, SwitchFile, NoNextFile, vars
<1>6. reader'[d] = reader[d] \/ reader'[d] = NoReader
  BY <1>1, <1>3, <1>4 DEF Reading, MemoryGone, Next, Recover, DbReplicator, Start, NotRequired, BinlogNotAvailable, Required, BackupDone,
     RebuildEvent, RebuildDone, ValidateRecovered, SaveBinlogState, BinlogPurged, RestoreDone,
     BackupFile, RestoreRemove, RestoreFile, BinlogReplicatorStores, RecoveryFails, Crash,
     MySQLPurges, MySQLCommits, RelayFileLost, InitialReplication, SetPosition, ReadEvent,
     ReachEnd, SwitchFile, NoNextFile, vars
<1> QED
  BY <1>4, <1>5, <1>6

LEMMA WriterKept ==
    ASSUME RecoveryInv, SkipInv, [Next]_vars
    PROVE  WriterInv'
<1>1. /\ WriterInv /\ TypeOK /\ OpenInv /\ CopyInv
  BY Unfold DEF SkipInv
<1>2. CASE writer' = [d \in Databases |-> 0]
  BY <1>2 DEF WriterInv
<1>3. CASE writer' = writer /\ relay' = relay
  BY <1>1, <1>3 DEF WriterInv
<1>4. ASSUME NEW d \in Databases, NEW id \in Events(d), StoreEvent(d, id) PROVE WriterInv'
  <2>1. \A n \in DOMAIN relay'[d] : n <= writer'[d]
    BY <1>1, <1>4, StoreEventGapless
  <2>2. \A e \in Databases \ {d} : relay'[e] = relay[e] /\ writer'[e] = writer[e]
    BY <1>1, <1>4, StoreEventGrows
  <2> QED
    BY <1>1, <2>1, <2>2 DEF WriterInv
<1>5. CASE RebuildEvent
  <2>1. at \in 0..Len(binlog) /\ at < Len(binlog)
    BY <1>1, <1>5 DEF RebuildEvent, TypeOK
  <2>2. CASE binlog[at + 1] \in Known
    BY <1>1, <1>4, <1>5, <2>1, <2>2, NextEvent DEF RebuildEvent
  <2>3. CASE binlog[at + 1] \notin Known
    BY <1>3, <1>5, <2>3 DEF RebuildEvent
  <2> QED
    BY <2>2, <2>3
<1>6. CASE BinlogReplicatorStores
  <2>1. saved \in 0..Len(binlog) /\ saved < Len(binlog)
    BY <1>1, <1>6 DEF BinlogReplicatorStores, TypeOK
  <2> QED
    BY <1>1, <1>4, <1>6, <2>1, NextEvent DEF BinlogReplicatorStores
<1>7. CASE pc \in {"down", "backup", "restore"}
  <2>1. writer = [d \in Databases |-> 0]
    BY <1>1, <1>7 DEF OpenInv
  <2>2. writer' = writer \/ writer' = [d \in Databases |-> 0]
    BY <1>7 DEF MemoryGone, Next, Recover, DbReplicator, Start, NotRequired, BinlogNotAvailable, Required, BackupDone,
     RebuildEvent, RebuildDone, ValidateRecovered, SaveBinlogState, BinlogPurged, RestoreDone,
     BackupFile, RestoreRemove, RestoreFile, BinlogReplicatorStores, RecoveryFails, Crash,
     MySQLPurges, MySQLCommits, RelayFileLost, InitialReplication, SetPosition, ReadEvent,
     ReachEnd, SwitchFile, NoNextFile, vars
  <2> QED
    BY <1>2, <2>1, <2>2
<1>8. CASE ~RebuildEvent /\ ~BinlogReplicatorStores /\ pc \notin {"down", "backup", "restore"}
  <2>1. writer' = [d \in Databases |-> 0] \/ (writer' = writer /\ relay' = relay)
    BY <1>8 DEF MemoryGone, Next, Recover, DbReplicator, Start, NotRequired, BinlogNotAvailable, Required,
         BackupDone, RebuildDone, ValidateRecovered, SaveBinlogState, BinlogPurged, RestoreDone,
         BackupFile, RestoreRemove, RestoreFile, RecoveryFails, Crash, MySQLPurges,
         MySQLCommits, RelayFileLost, InitialReplication, SetPosition, ReadEvent, ReachEnd,
         SwitchFile, NoNextFile, vars
  <2> QED
    BY <1>2, <1>3, <2>1
<1> QED
  BY <1>5, <1>6, <1>7, <1>8

(* A recovery that failed has put back files in which a checkpoint is missing. *)
LEMMA StillMissing ==
    ASSUME RecoveryInv, SkipInv, [Next]_vars, RestoreDone, ~torn'
    PROVE  MissingStates' # {} /\ Known' = Known /\ relay' = relay
<1>1. /\ pc = "restore" /\ relay' = relay
      /\ \A d \in Databases : dirs[d] # 0 => d \in cleared /\ DOMAIN backups[d][dirs[d]] = {}
      /\ \A d \in Known : dirs[d] = 0 => DOMAIN relay[d] = {}
  BY DEF RestoreDone
<1>2. /\ Known' = Known /\ Known \subseteq Databases
      /\ MissingStates' = {d \in Known : ~(checkpoint[d] \in Ids(relay'[d]))}
  BY <1>1, KnownKept, KnownTypes, Unfold
<1>3. PICK d \in Known : checkpoint[d] \notin Ids(before[d])
  BY <1>1 DEF SkipInv, MissingInv, Recovering
<1>4. FilesAccounted(d)
  BY <1>1, <1>2, Unfold DEF BackupInv, Recovering
<1>5. Ids(relay[d]) \subseteq Ids(before[d])
  <2>1. CASE dirs[d] = 0
    BY <1>1, <2>1 DEF Ids
  <2>2. CASE dirs[d] # 0
    <3>1. HasOldFiles(d)
      BY <1>1, <1>2, <2>2 DEF HasOldFiles
    <3>2. \A n \in DOMAIN relay[d] : n \in DOMAIN before[d] /\ relay[d][n] = before[d][n]
      BY <1>4, <3>1 DEF FilesAccounted
    <3> QED
      BY <3>2 DEF Ids
  <2> QED
    BY <2>1, <2>2
<1> QED
  BY <1>1, <1>2, <1>3, <1>5

LEMMA FilesKept ==
    ASSUME RecoveryInv, SkipInv, [Next]_vars
    PROVE  FilesInv'
<1> DEFINE N == Len(binlog)
           N2 == Len(binlog')
<1>1. /\ TypeOK /\ OpenInv /\ FoundInv /\ MissingInv /\ CopyInv /\ WriterInv /\ FilesInv
      /\ relay = [e \in Databases |-> relay[e]]
      /\ N \in Nat /\ N2 \in Nat /\ N <= N2 /\ \A i \in 1..N : binlog'[i] = binlog[i]
      /\ saved \in 0..N /\ at \in 0..N /\ saved' \in 0..N2 /\ at' \in 0..N2
      /\ mark \in [Databases -> Uncopied..N]
  BY Unfold, LogTypes, LogGrows, PositionTypes DEF SkipInv, TypeOK
<1> SUFFICES ASSUME NEW d \in Databases, Trusted(d)'
             PROVE  /\ Gapless(binlog', d, mark'[d], relay'[d], End(d)')
                    /\ checkpoint'[d] = None =>
                         FromStart(binlog', d, mark'[d], relay'[d], End(d)')
  <2>1. ASSUME NEW d \in Databases
        PROVE  /\ Gapless(binlog, d, mark[d], relay[d], End(d))' <=>
                    Gapless(binlog', d, mark'[d], relay'[d], End(d)')
               /\ FromStart(binlog, d, mark[d], relay[d], End(d))' <=>
                    FromStart(binlog', d, mark'[d], relay'[d], End(d)')
    BY DEF Gapless, FromStart, NoneBetween
  <2> QED
    BY <2>1 DEF FilesInv, None
<1>2. FilesOK(1..N, relay[d]) /\ FilesOK(Events(d), relay[d]) /\ Events(d) \subseteq Nat
  BY <1>1, LogTypes, FilesMore
<1>3. /\ ~torn' /\ d \notin jumped' /\ mark'[d] # Uncopied
      /\ d \notin Known' \/ Rebuilt(d)' \/ (pc' \in {"down", "check", "up"} /\ MissingStates' = {})
  BY DEF Trusted, Uncopied
<1>4. ~torn /\ d \notin jumped
  <2>1. d \notin jumped
    <3>1. jumped' = jumped \/ SaveBinlogState
      BY DEF history, Next, Recover, DbReplicator, Start, NotRequired, BinlogNotAvailable, Required,
         BackupDone, RebuildEvent, RebuildDone, ValidateRecovered, BinlogPurged, RestoreDone,
         BackupFile, RestoreRemove, RestoreFile, BinlogReplicatorStores, RecoveryFails, Crash,
         MySQLPurges, MySQLCommits, RelayFileLost, InitialReplication, SetPosition, ReadEvent,
         ReachEnd, SwitchFile, NoNextFile, vars
    <3>2. SaveBinlogState => jumped \subseteq jumped'
      BY DEF SaveBinlogState
    <3> QED
      BY <1>3, <3>1, <3>2
  <2>2. ~torn
    <3>1. torn' = torn \/ RestoreDone \/ Crash
      BY DEF history, Next, Recover, DbReplicator, Start, NotRequired, BinlogNotAvailable, Required,
         BackupDone, RebuildEvent, RebuildDone, ValidateRecovered, SaveBinlogState,
         BinlogPurged, BackupFile, RestoreRemove, RestoreFile, BinlogReplicatorStores,
         RecoveryFails, MySQLPurges, MySQLCommits, RelayFileLost, InitialReplication,
         SetPosition, ReadEvent, ReachEnd, SwitchFile, NoNextFile, vars
    <3>2. CASE RestoreDone
      <4>1. torn' = (torn \/ \E e \in Known : dirs[e] = 0 /\ DOMAIN relay[e] # {})
        BY <3>2 DEF RestoreDone
      <4> QED
        BY <1>3, <4>1, Zenon
    <3>3. CASE Crash
      <4>1. torn' = (torn \/ pc \in {"rebuild", "restore"})
        BY <3>3 DEF Crash
      <4> QED
        BY <1>3, <4>1, Zenon
    <3>4. CASE torn' = torn
      BY <1>3, <3>4, Zenon
    <3> QED
      BY <3>1, <3>2, <3>3, <3>4
  <2> QED
    BY <2>1, <2>2
<1>5. End(d) \in 0..N /\ End(d)' \in 0..N2
  BY <1>1 DEF End
<1> HIDE DEF N, N2
<1>6. CASE InitialReplication(d)
  <2>1. mark'[d] = N /\ relay' = relay /\ binlog' = binlog /\ N2 = N
    BY <1>1, <1>6 DEF InitialReplication, mysql, N, N2
  <2> QED
    BY <1>1, <1>2, <1>5, <2>1, GaplessCopied
<1>7. ASSUME ~InitialReplication(d)
      PROVE  mark'[d] = mark[d] /\ mark[d] # Uncopied /\ (checkpoint'[d] = None => checkpoint[d] = None)
  <2>1. mark'[d] = mark[d]
    BY <1>1, <1>7 DEF Next, Recover, DbReplicator, Start, NotRequired, BinlogNotAvailable, Required, BackupDone,
     RebuildEvent, RebuildDone, ValidateRecovered, SaveBinlogState, BinlogPurged, RestoreDone,
     BackupFile, RestoreRemove, RestoreFile, BinlogReplicatorStores, RecoveryFails, Crash,
     MySQLPurges, MySQLCommits, RelayFileLost, InitialReplication, SetPosition, ReadEvent,
     ReachEnd, SwitchFile, NoNextFile, vars
  <2>2. mark[d] # Uncopied
    BY <1>3, <2>1
  <2> QED
    BY <2>1, <2>2, CheckpointMoves
<1>8. ASSUME ~InitialReplication(d), Trusted(d), End(d)' = End(d), relay'[d] = relay[d]
      PROVE  /\ Gapless(binlog', d, mark'[d], relay'[d], End(d)')
             /\ checkpoint'[d] = None => FromStart(binlog', d, mark'[d], relay'[d], End(d)')
  <2>1. /\ Gapless(binlog, d, mark[d], relay[d], End(d))
        /\ checkpoint[d] = None => FromStart(binlog, d, mark[d], relay[d], End(d))
    BY <1>1, <1>8 DEF FilesInv
  <2> DEFINE e == End(d)
             files == relay[d]
             m == mark[d]
             log == binlog
             later == binlog'
  <2>2. e \in 0..N /\ FilesOK(1..N, files) /\ \A i \in 1..N : later[i] = log[i]
    BY <1>1, <1>2, <1>5
  <2>3. End(d)' = e /\ relay'[d] = files /\ mark'[d] = m
    BY <1>7, <1>8
  <2>4. Gapless(log, d, m, files, e) /\ (checkpoint[d] = None => FromStart(log, d, m, files, e))
    BY <2>1
  <2> HIDE DEF e, files, m, log, later
  <2>5. /\ Gapless(later, d, m, files, e)
        /\ checkpoint[d] = None => FromStart(later, d, m, files, e)
    BY <1>1, <2>2, <2>4, GaplessLater
  <2> QED
    BY <1>7, <1>8, <2>3, <2>5 DEF later
<1>9. CASE pc = "up"
  <2>1. MissingStates = {} /\ ~Rebuilt(d) /\ End(d) = saved
    BY <1>1, <1>9 DEF FoundInv, Rebuilt, End
  <2>2. ASSUME ~InitialReplication(d) PROVE Trusted(d)
    BY <1>4, <1>7, <1>9, <2>1, <2>2 DEF Trusted
  <2>3. CASE BinlogReplicatorStores
    <3>1. /\ saved' = saved + 1 /\ saved < N /\ binlog' = binlog /\ pc' = pc
          /\ checkpoint' = checkpoint /\ mark' = mark
          /\ StoreEvent(binlog[saved + 1], saved + 1)
      BY <2>3 DEF BinlogReplicatorStores, mysql, N
    <3>2. ~InitialReplication(d)
      BY <2>3, <3>1, <1>1 DEF InitialReplication
    <3>3. End(d)' = saved + 1
      BY <1>9, <3>1 DEF End, Rebuilt
    <3>4. /\ Gapless(binlog, d, mark[d], relay[d], saved)
          /\ checkpoint[d] = None => FromStart(binlog, d, mark[d], relay[d], saved)
      BY <1>1, <2>1, <2>2, <3>2 DEF FilesInv
    <3>5. saved \in Nat /\ binlog[saved + 1] \in Databases /\ saved + 1 \in Events(binlog[saved + 1])
      BY <1>1, <3>1, NextEvent DEF N
    <3>6. CASE binlog[saved + 1] = d
      BY <1>1, <3>1, <3>3, <3>4, <3>5, <3>6, StoreEventGapless
    <3>7. CASE binlog[saved + 1] # d
      <4>1. relay'[d] = relay[d]
        BY <1>1, <3>1, <3>5, <3>7, StoreEventGrows
      <4> QED
        BY <1>2, <3>1, <3>3, <3>4, <3>5, <3>7, <4>1, GaplessPassed
    <3> QED
      BY <3>6, <3>7
  <2>4. CASE Crash
    <3>1. /\ pc' = "down" /\ relay' = relay /\ saved' = saved /\ mark' = mark
      BY <2>4 DEF Crash
    <3>2. ~InitialReplication(d)
      BY <1>9, <3>1 DEF InitialReplication
    <3>3. End(d)' = saved
      BY <3>1 DEF End, Rebuilt
    <3> QED
      BY <1>8, <2>1, <2>2, <3>1, <3>2, <3>3
  <2>5. CASE ~BinlogReplicatorStores /\ ~Crash
    <3>1. relay' = relay /\ saved' = saved /\ pc' = pc
      BY <1>9, <2>5 DEF Next, Recover, DbReplicator, Start, NotRequired, BinlogNotAvailable, Required,
         BackupDone, RebuildEvent, RebuildDone, ValidateRecovered, SaveBinlogState,
         BinlogPurged, RestoreDone, BackupFile, RestoreRemove, RestoreFile, RecoveryFails,
         MySQLPurges, MySQLCommits, RelayFileLost, InitialReplication, SetPosition, ReadEvent,
         ReachEnd, SwitchFile, NoNextFile, vars
    <3>2. End(d)' = saved
      BY <1>9, <3>1 DEF End, Rebuilt
    <3> QED
      BY <1>6, <1>8, <2>1, <2>2, <3>1, <3>2
  <2> QED
    BY <2>3, <2>4, <2>5
<1>10. ASSUME pc # "up"
       PROVE  /\ Known' = Known /\ checkpoint' = checkpoint
              /\ d \in Known => checkpoint'[d] # None
              /\ ~InitialReplication(d)
              /\ relay' = relay => MissingStates' = MissingStates
              /\ d \notin Known => Trusted(d) /\ End(d) = saved /\ End(d)' = saved'
  <2>1. /\ Known' = Known /\ checkpoint' = checkpoint
        /\ MissingStates' = {e \in Known : ~(checkpoint[e] \in Ids(relay'[e]))}
    BY <1>10, KnownKept
  <2>2. ~InitialReplication(d)
    BY <1>10 DEF InitialReplication
  <2>3. d \in Known => checkpoint'[d] # None
    BY <2>1 DEF Known
  <2>4. d \notin Known => Trusted(d)
    BY <1>4, <1>7, <2>2 DEF Trusted
  <2>5. d \notin Known => End(d) = saved /\ End(d)' = saved'
    BY <2>1 DEF End, Rebuilt
  <2>6. relay' = relay => MissingStates' = MissingStates
    BY <2>1 DEF MissingStates, HasTransaction
  <2> QED
    BY <2>1, <2>2, <2>3, <2>4, <2>5, <2>6
<1>11. ASSUME pc # "up", d \notin Known, relay'[d] = relay[d], saved' = saved
       PROVE  /\ Gapless(binlog', d, mark'[d], relay'[d], End(d)')
              /\ checkpoint'[d] = None => FromStart(binlog', d, mark'[d], relay'[d], End(d)')
  BY <1>8, <1>10, <1>11
<1>12. CASE RebuildEvent
  <2>1. /\ pc = "rebuild" /\ at' = at + 1 /\ at < N /\ binlog' = binlog /\ pc' = pc
        /\ saved' = saved /\ checkpoint' = checkpoint /\ mark' = mark
        /\ \/ binlog[at + 1] \in Known /\ StoreEvent(binlog[at + 1], at + 1)
           \/ binlog[at + 1] \notin Known /\ relay' = relay
    BY <1>12 DEF RebuildEvent, mysql, N
  <2>2. at \in Nat /\ binlog[at + 1] \in Databases /\ at + 1 \in Events(binlog[at + 1])
    BY <1>1, <2>1, NextEvent DEF N
  <2>3. CASE binlog[at + 1] # d
    <3>1. relay'[d] = relay[d]
      BY <1>1, <2>1, <2>2, <2>3, StoreEventGrows
    <3>2. CASE d \notin Known
      BY <1>11, <2>1, <3>1, <3>2
    <3>3. CASE d \in Known
      <4>1. Rebuilt(d) /\ Trusted(d) /\ End(d) = at /\ End(d)' = at + 1
        BY <1>4, <1>7, <1>10, <2>1, <3>3 DEF Rebuilt, Trusted, End
      <4>2. Gapless(binlog, d, mark[d], relay[d], at)
        BY <1>1, <4>1 DEF FilesInv
      <4>3. Gapless(binlog, d, mark[d], relay[d], at + 1)
        BY <1>2, <2>2, <2>3, <4>2, GaplessPassed
      <4> QED
        BY <1>10, <2>1, <3>1, <3>3, <4>1, <4>3
    <3> QED
      BY <3>2, <3>3
  <2>4. CASE binlog[at + 1] = d /\ d \notin Known
    BY <1>11, <2>1, <2>4
  <2>5. CASE binlog[at + 1] = d /\ d \in Known
    <3>1. Rebuilt(d) /\ Trusted(d) /\ End(d) = at /\ End(d)' = at + 1
      BY <1>4, <1>7, <1>10, <2>1, <2>5 DEF Rebuilt, Trusted, End
    <3>2. Gapless(binlog, d, mark[d], relay[d], at)
      BY <1>1, <3>1 DEF FilesInv
    <3>3. Gapless(binlog, d, mark[d], relay'[d], at + 1)
      BY <1>1, <2>1, <2>2, <2>5, <3>2, StoreEventGapless
    <3> QED
      BY <1>10, <2>1, <2>5, <3>1, <3>3
  <2> QED
    BY <2>3, <2>4, <2>5
<1>13. CASE BackupDone
  <2>1. /\ pc = "backup" /\ relay' = relay /\ saved' = saved
        /\ \A e \in Known : DOMAIN relay[e] = {}
    BY <1>13 DEF BackupDone
  <2>2. CASE d \notin Known
    BY <1>11, <2>1, <2>2
  <2>3. CASE d \in Known
    <3>1. DOMAIN relay'[d] = {}
      BY <2>1, <2>3
    <3>2. Gapless(binlog', d, mark'[d], relay'[d], End(d)')
      BY <3>1 DEF Gapless
    <3> QED
      BY <1>10, <2>1, <2>3, <3>2
  <2> QED
    BY <2>2, <2>3
<1>14. CASE SaveBinlogState
  <2>1. /\ pc = "save" /\ relay' = relay /\ saved' = at /\ pc' = "up" /\ mark' = mark
        /\ jumped' = jumped \cup {e \in Databases \ Known : mark[e] # Uncopied}
    BY <1>14 DEF SaveBinlogState
  <2>2. d \in Known
    BY <1>3, <1>7, <1>10, <2>1
  <2>3. Rebuilt(d) /\ Trusted(d) /\ End(d) = at /\ End(d)' = at
    BY <1>4, <1>7, <1>10, <2>1, <2>2 DEF Rebuilt, Trusted, End
  <2> QED
    BY <1>8, <1>10, <2>1, <2>3
<1>15. CASE pc # "up" /\ Crash
  <2>1. /\ pc' = "down" /\ relay' = relay /\ saved' = saved /\ binlog' = binlog /\ mark' = mark
        /\ torn' = (torn \/ pc \in {"rebuild", "restore"})
    BY <1>15 DEF Crash, mysql
  <2>2. pc \notin {"rebuild", "restore"}
    BY <1>3, <2>1, Zenon
  <2>3. CASE d \notin Known
    BY <1>11, <1>15, <2>1, <2>3
  <2>4. CASE d \in Known
    <3>1. MissingStates = {} /\ End(d)' = saved
      BY <1>3, <1>10, <1>15, <2>1, <2>4 DEF Rebuilt, End
    <3>2. CASE pc \in {"validate", "save"}
      <4>1. Rebuilt(d) /\ Trusted(d) /\ End(d) = at /\ saved <= at
        BY <1>1, <1>4, <1>7, <1>10, <1>15, <2>4, <3>2 DEF Rebuilt, Trusted, End, MissingInv
      <4>2. Gapless(binlog, d, mark[d], relay[d], at)
        BY <1>1, <4>1 DEF FilesInv
      <4>3. saved \in 0..at /\ at \in Nat
        BY <1>1, <4>1
      <4>4. Gapless(binlog, d, mark[d], relay[d], saved)
        BY <1>2, <4>2, <4>3, GaplessBefore
      <4> QED
        BY <1>10, <1>15, <2>1, <2>4, <3>1, <4>4
    <3>3. CASE pc \notin {"validate", "save"}
      <4>1. pc \in {"down", "check"}
        BY <1>1, <1>15, <2>2, <3>1, <3>3 DEF MissingInv, TypeOK
      <4>2. Trusted(d) /\ End(d) = saved
        BY <1>4, <1>7, <1>10, <1>15, <3>1, <4>1 DEF Trusted, End, Rebuilt
      <4> QED
        BY <1>8, <1>10, <1>15, <2>1, <3>1, <4>2
    <3> QED
      BY <3>2, <3>3
  <2> QED
    BY <2>3, <2>4
<1>16. CASE RestoreDone
  <2>1. pc = "restore" /\ pc' = "down" /\ saved' = saved
    BY <1>16 DEF RestoreDone
  <2>2. MissingStates' # {} /\ Known' = Known /\ relay' = relay
    BY <1>3, <1>16, StillMissing
  <2>3. d \notin Known
    BY <1>3, <2>1, <2>2 DEF Rebuilt
  <2> QED
    BY <1>11, <2>1, <2>2, <2>3
<1>17. ASSUME NEW e \in Databases, RelayFileLost(e)
       PROVE  /\ Gapless(binlog', d, mark'[d], relay'[d], End(d)')
              /\ checkpoint'[d] = None => FromStart(binlog', d, mark'[d], relay'[d], End(d)')
  <2> DEFINE g == Without(relay[e], Min(DOMAIN relay[e]))
  <2>1. /\ pc = "down" /\ pc' = pc /\ checkpoint[e] # None /\ DOMAIN relay[e] # {}
        /\ relay' = [relay EXCEPT ![e] = g] /\ saved' = saved /\ binlog' = binlog /\ mark' = mark
    BY <1>1, <1>17 DEF RelayFileLost, mysql
  <2>2. Ids(g) \subseteq Ids(relay[e])
    BY IdsWithout
  <2> HIDE DEF g
  <2>3. /\ e \in Known /\ relay'[e] = g
        /\ \A c \in Databases \ {e} : relay'[c] = relay[c]
    BY <1>1, <2>1 DEF Known
  <2>4. CASE d \notin Known
    BY <1>11, <2>1, <2>3, <2>4
  <2>5. CASE d \in Known
    <3>1. MissingStates' = {}
      BY <1>3, <1>10, <2>1, <2>5 DEF Rebuilt
    <3>2. MissingStates = {}
      <4>1. MissingStates' = {c \in Known : ~(checkpoint[c] \in Ids(relay'[c]))}
        BY <2>1, KnownKept
      <4>2. \A c \in Known : c \in Databases /\ Ids(relay'[c]) \subseteq Ids(relay[c])
        BY <1>1, <2>2, <2>3, KnownTypes
      <4> QED
        BY <3>1, <4>1, <4>2 DEF MissingStates, HasTransaction
    <3>3. Trusted(d) /\ End(d) = saved /\ End(d)' = saved
      BY <1>4, <1>7, <1>10, <2>1, <3>2 DEF Trusted, End, Rebuilt
    <3>4. CASE d # e
      BY <1>8, <1>10, <2>1, <2>3, <3>3, <3>4
    <3>5. CASE d = e
      <4>1. Gapless(binlog, d, mark[d], relay[d], saved)
        BY <1>1, <3>3 DEF FilesInv
      <4>2. Gapless(binlog, d, mark[d], g, saved)
        BY <1>2, <2>1, <3>5, <4>1, GaplessWithout DEF g
      <4> QED
        BY <1>10, <2>1, <2>3, <2>5, <3>3, <3>5, <4>2
    <3> QED
      BY <3>4, <3>5
  <2> QED
    BY <2>4, <2>5
<1>18. ASSUME NEW e \in Databases, BackupFile(e) \/ RestoreRemove(e) \/ RestoreFile(e)
       PROVE  /\ Gapless(binlog', d, mark'[d], relay'[d], End(d)')
              /\ checkpoint'[d] = None => FromStart(binlog', d, mark'[d], relay'[d], End(d)')
  <2>1. /\ pc \in {"backup", "restore"} /\ pc' = pc /\ saved' = saved
        /\ \A c \in Databases \ {e} : relay'[c] = relay[c]
    BY <1>1, <1>18 DEF BackupFile, RestoreRemove, RestoreFile
  <2>2. FilesAccounted(e)
    BY <2>1, Unfold DEF BackupInv, Recovering
  <2>3. e \in Known
    BY <1>18, <2>2 DEF BackupFile, RestoreRemove, RestoreFile, FilesAccounted
  <2>4. d \notin Known
    BY <1>3, <1>10, <2>1 DEF Rebuilt
  <2> QED
    BY <1>11, <2>1, <2>3, <2>4
<1>19. CASE /\ pc # "up" /\ ~RebuildEvent /\ ~BackupDone /\ ~SaveBinlogState /\ ~Crash
            /\ ~RestoreDone
            /\ ~\E e \in Databases : \/ RelayFileLost(e) \/ BackupFile(e)
                                     \/ RestoreRemove(e) \/ RestoreFile(e)
  <2>1. /\ relay' = relay /\ saved' = saved /\ at' = at
        /\ pc' \in {"rebuild", "validate", "save"} => pc \in {"rebuild", "validate", "save"}
        /\ pc' \in {"down", "check", "up"} => pc \in {"down", "check"}
    BY <1>19 DEF recovery, Next, Recover, DbReplicator, Start, NotRequired, BinlogNotAvailable, Required,
       RebuildDone, ValidateRecovered, BinlogPurged, BinlogReplicatorStores, RecoveryFails,
       MySQLPurges, MySQLCommits, InitialReplication, SetPosition, ReadEvent, ReachEnd,
       SwitchFile, NoNextFile, Reading, vars
  <2>2. CASE d \notin Known
    BY <1>11, <1>19, <2>1, <2>2
  <2>3. CASE d \in Known
    <3>1. Trusted(d) /\ End(d)' = End(d)
      BY <1>3, <1>4, <1>7, <1>10, <1>19, <2>1, <2>3 DEF Trusted, End, Rebuilt
    <3> QED
      BY <1>8, <1>10, <1>19, <2>1, <3>1
  <2> QED
    BY <2>2, <2>3
<1> QED
  BY <1>9, <1>12, <1>13, <1>14, <1>15, <1>16, <1>17, <1>18, <1>19

(* The checkpoint only grows. *)
LEMMA MaxOfTwo ==
    ASSUME NEW a \in Nat, NEW b \in Nat
    PROVE  Max({a, b}) \in {a, b} /\ Max({a, b}) >= a /\ Max({a, b}) >= b
<1>1. \E n \in {a, b} : \A m \in {a, b} : n >= m
  <2>1. CASE a <= b
    BY <2>1
  <2>2. CASE b <= a
    BY <2>2
  <2> QED
    BY <2>1, <2>2
<1>2. Max({a, b}) \in {a, b} /\ \A m \in {a, b} : Max({a, b}) >= m
  BY <1>1 DEF Max
<1> QED
  BY <1>2

(* While the processes run, what is in a file stays where it is. *)
LEMMA EntriesStay ==
    ASSUME RecoveryInv, SkipInv, [Next]_vars, pc = "up", NEW d \in Databases,
           NEW n \in DOMAIN relay[d], NEW i \in 1..Len(relay[d][n])
    PROVE  relay'[d][n][i] = relay[d][n][i]
<1>1. TypeOK /\ WriterInv /\ saved \in 0..Len(binlog)
  BY Unfold DEF SkipInv, TypeOK
<1>2. CASE BinlogReplicatorStores
  <2>1. saved < Len(binlog) /\ StoreEvent(binlog[saved + 1], saved + 1)
    BY <1>2 DEF BinlogReplicatorStores
  <2>2. binlog[saved + 1] \in Databases /\ saved + 1 \in Events(binlog[saved + 1])
    BY <1>1, <2>1, NextEvent
  <2>3. CASE binlog[saved + 1] = d
    BY <1>1, <2>1, <2>2, <2>3, StoreEventGapless
  <2>4. CASE binlog[saved + 1] # d
    <3>1. relay'[d] = relay[d]
      BY <1>1, <2>1, <2>2, <2>4, StoreEventGrows
    <3> QED
      BY <3>1
  <2> QED
    BY <2>3, <2>4
<1>3. CASE ~BinlogReplicatorStores
  <2>1. relay' = relay
    BY <1>3 DEF Next, Recover, DbReplicator, Start, NotRequired, BinlogNotAvailable, Required,
       BackupDone, RebuildEvent, RebuildDone, ValidateRecovered, SaveBinlogState, BinlogPurged,
       RestoreDone, BackupFile, RestoreRemove, RestoreFile, RecoveryFails, Crash, MySQLPurges,
       MySQLCommits, RelayFileLost, InitialReplication, SetPosition, ReadEvent, ReachEnd,
       SwitchFile, NoNextFile, vars
  <2> QED
    BY <2>1
<1> QED
  BY <1>2, <1>3

(* What is true of a reader that goes on. *)
LEMMA ReadsOn ==
    ASSUME RecoveryInv, SkipInv, [Next]_vars, NEW d \in Databases,
           Trusted(d)', d \notin raced', reader'[d] # NoReader
    PROVE  /\ pc = "up" /\ Trusted(d) /\ d \notin raced
           /\ mark'[d] = mark[d] /\ ~InitialReplication(d)
<1>1. /\ OpenInv /\ OpenInv' /\ FoundInv /\ CopyInv
      /\ mark \in [Databases -> Uncopied..Len(binlog)]
  BY OpenKept, Unfold DEF SkipInv, TypeOK
<1>2. pc' = "up" /\ mark'[d] # Uncopied
  BY <1>1 DEF OpenInv, NoReader, Trusted, Uncopied
<1>3. pc = "up"
  <2> SUFFICES ASSUME pc # "up" PROVE FALSE
    OBVIOUS
  <2>1. reader = [e \in Databases |-> NoReader]
    BY <1>1 DEF OpenInv
  <2>2. reader' = reader \/ reader' = [e \in Databases |-> NoReader]
    BY DEF Next, Recover, DbReplicator, Start, NotRequired, BinlogNotAvailable, Required,
       BackupDone, RebuildEvent, RebuildDone, ValidateRecovered, SaveBinlogState, BinlogPurged,
       RestoreDone, BackupFile, RestoreRemove, RestoreFile, BinlogReplicatorStores,
       RecoveryFails, Crash, MySQLPurges, MySQLCommits, RelayFileLost, InitialReplication,
       SetPosition, ReadEvent, ReachEnd, SwitchFile, NoNextFile, MemoryGone, Reading, vars
  <2> QED
    BY <2>1, <2>2
<1>4. torn' = torn /\ jumped' = jumped /\ raced \subseteq raced'
  <2>1. raced \subseteq raced'
    BY DEF Next, Recover, DbReplicator, Start, NotRequired, BinlogNotAvailable, Required,
       BackupDone, RebuildEvent, RebuildDone, ValidateRecovered, SaveBinlogState, BinlogPurged,
       RestoreDone, BackupFile, RestoreRemove, RestoreFile, BinlogReplicatorStores,
       RecoveryFails, Crash, MySQLPurges, MySQLCommits, RelayFileLost, InitialReplication,
       SetPosition, ReadEvent, ReachEnd, SwitchFile, NoNextFile, history, MemoryGone, vars
  <2>2. torn' = torn /\ jumped' = jumped
    BY <1>2, <1>3 DEF Next, Recover, DbReplicator, Start, NotRequired, BinlogNotAvailable, Required,
       BackupDone, RebuildEvent, RebuildDone, ValidateRecovered, SaveBinlogState, BinlogPurged,
       RestoreDone, BackupFile, RestoreRemove, RestoreFile, BinlogReplicatorStores,
       RecoveryFails, Crash, MySQLPurges, MySQLCommits, RelayFileLost, InitialReplication,
       SetPosition, ReadEvent, ReachEnd, SwitchFile, NoNextFile, history, MemoryGone, vars
  <2> QED
    BY <2>1, <2>2
<1>5. ~InitialReplication(d)
  <2> SUFFICES ASSUME InitialReplication(d) PROVE FALSE
    OBVIOUS
  <2>1. mark[d] = Uncopied /\ reader' = reader
    BY DEF InitialReplication
  <2> QED
    BY <1>1, <2>1 DEF CopyInv
<1>6. mark'[d] = mark[d]
  BY <1>1, <1>5 DEF Next, Recover, DbReplicator, Start, NotRequired, BinlogNotAvailable, Required, BackupDone,
     RebuildEvent, RebuildDone, ValidateRecovered, SaveBinlogState, BinlogPurged, RestoreDone,
     BackupFile, RestoreRemove, RestoreFile, BinlogReplicatorStores, RecoveryFails, Crash,
     MySQLPurges, MySQLCommits, RelayFileLost, InitialReplication, SetPosition, ReadEvent,
     ReachEnd, SwitchFile, NoNextFile, vars
<1>7. ~torn
  <2>1. ~torn'
    BY DEF Trusted
  <2> QED
    BY <1>4, <2>1, Zenon
<1>8. d \notin jumped /\ mark[d] # Uncopied
  <2>1. d \notin jumped' /\ mark'[d] # Uncopied
    BY DEF Trusted, Uncopied
  <2> QED
    BY <1>4, <1>6, <2>1
<1>9. Trusted(d)
  BY <1>1, <1>3, <1>7, <1>8 DEF Trusted, FoundInv
<1> QED
  BY <1>3, <1>4, <1>5, <1>6, <1>9

(* The event a reader finds is one of its database, in its file. *)
LEMMA ReaderFile ==
    ASSUME RecoveryInv, NEW d \in Databases, reader[d] # NoReader
    PROVE  \E n \in DOMAIN relay[d], pos \in Nat, eof \in BOOLEAN :
             /\ reader[d] = [file |-> n, pos |-> pos, eof |-> eof]
             /\ pos <= Len(relay[d][n])
             /\ n \in Nat \ {0} /\ Len(relay[d][n]) \in Nat \ {0}
             /\ \A i \in 1..Len(relay[d][n]) :
                  relay[d][n][i] \in 1..Len(binlog) /\ relay[d][n][i] \in Nat
<1>1. /\ reader \in [Databases -> [file : Nat, pos : Nat, eof : BOOLEAN]]
      /\ reader[d].file \in DOMAIN relay[d]
      /\ reader[d].pos <= Len(relay[d][reader[d].file])
  BY Unfold DEF ReaderTypeOK
<1> DEFINE n == reader[d].file
<1>2. /\ FilesOK(Events(d), relay[d]) /\ Events(d) \subseteq 1..Len(binlog)
      /\ Len(binlog) \in Nat
  BY Unfold, LogTypes
<1>3. /\ n \in Nat \ {0} /\ Len(relay[d][n]) \in Nat \ {0}
      /\ \A i \in 1..Len(relay[d][n]) : relay[d][n][i] \in Events(d)
  BY <1>1, <1>2, FileTypes
<1>4. reader[d] = [file |-> n, pos |-> reader[d].pos, eof |-> reader[d].eof]
      /\ reader[d].pos \in Nat /\ reader[d].eof \in BOOLEAN
  BY <1>1
<1> QED
  BY <1>1, <1>2, <1>3, <1>4

LEMMA ReaderKept ==
    ASSUME RecoveryInv, SkipInv, [Next]_vars
    PROVE  ReaderInv'
<1> DEFINE Comes(log, d, m, c, f, p) ==
             IF p = 0 THEN NoneBetween(log, d, m, c, f[1]) ELSE f[p] <= c
<1> SUFFICES ASSUME NEW d \in Databases,
                    Trusted(d)', d \notin raced', reader'[d] # NoReader
             PROVE  Comes(binlog', d, mark'[d], checkpoint'[d], relay'[d][reader'[d].file],
                          reader'[d].pos)
  BY DEF ReaderInv, NoReader
<1>1. /\ pc = "up" /\ Trusted(d) /\ d \notin raced /\ mark'[d] = mark[d]
      /\ ~InitialReplication(d)
  BY ReadsOn
<1>2. /\ TypeOK /\ FilesInv /\ ReaderInv /\ Len(binlog) \in Nat
      /\ checkpoint \in [Databases -> Nat]
      /\ reader \in [Databases -> [file : Nat, pos : Nat, eof : BOOLEAN]]
      /\ FilesOK(Events(d), relay[d]) /\ Events(d) \subseteq 1..Len(binlog)
  BY Unfold, LogTypes DEF SkipInv, ReaderTypeOK
<1>3. /\ Gapless(binlog, d, mark[d], relay[d], End(d))
      /\ checkpoint[d] = None => FromStart(binlog, d, mark[d], relay[d], End(d))
  BY <1>1, <1>2 DEF FilesInv
<1>4. reader[d] # NoReader => Comes(binlog, d, mark[d], checkpoint[d],
                                    relay[d][reader[d].file], reader[d].pos)
  BY <1>1, <1>2 DEF ReaderInv
<1> DEFINE log == binlog
           m == mark[d]
           c == checkpoint[d]
<1>5. CASE SetPosition(d)
  <2>1. /\ binlog' = log /\ relay' = relay /\ checkpoint' = checkpoint
    BY <1>5 DEF SetPosition, mysql
  <2>2. CASE checkpoint[d] = None
    <3> DEFINE n == Min(DOMAIN relay[d])
    <3>1. DOMAIN relay[d] # {}
          /\ reader' = [reader EXCEPT ![d] = [file |-> n, pos |-> 0, eof |-> FALSE]]
      BY <1>5, <2>2 DEF SetPosition
    <3>2. DOMAIN relay[d] \subseteq Nat
      BY <1>2 DEF FilesOK
    <3>3. n \in DOMAIN relay[d] /\ \A k \in DOMAIN relay[d] : n <= k
      BY <3>1, <3>2, LeastOf
    <3> HIDE DEF n
    <3>4. NoneBetween(log, d, m, 0, relay[d][n][1])
      BY <1>3, <2>2, <3>3 DEF FromStart
    <3>5. reader'[d].file = n /\ reader'[d].pos = 0
      BY <1>2, <3>1
    <3> QED
      BY <1>1, <2>1, <2>2, <3>4, <3>5 DEF None
  <2>3. CASE checkpoint[d] # None
    <3> DEFINE n == FileWithTransaction(d, checkpoint[d])
    <3>1. PICK i \in DOMAIN relay[d][n] :
            /\ relay[d][n][i] = checkpoint[d]
            /\ reader' = [reader EXCEPT ![d] = [file |-> n, pos |-> i, eof |-> FALSE]]
      BY <1>5, <2>3 DEF SetPosition
    <3> DEFINE S == {k \in DOMAIN relay[d] :
                       \E j \in DOMAIN relay[d][k] : relay[d][k][j] = checkpoint[d]}
    <3>2. HasTransaction(d, checkpoint[d])
      BY <1>5, <2>3 DEF SetPosition
    <3>3. S # {} /\ S \subseteq Nat
      BY <1>2, <3>2 DEF HasTransaction, Ids, FilesOK
    <3>4. n = Min(S)
      BY DEF FileWithTransaction
    <3> HIDE DEF n
    <3>5. n \in S
      <4> HIDE DEF S
      <4> QED
        BY <3>3, <3>4, LeastOf
    <3>6. DOMAIN relay[d][n] = 1..Len(relay[d][n])
      BY <1>2, <3>5, FileTypes
    <3>7. reader'[d].file = n /\ reader'[d].pos = i /\ i # 0
      BY <1>2, <3>1, <3>6
    <3>8. relay[d][n][i] <= checkpoint[d]
      BY <1>2, <3>1
    <3> QED
      BY <2>1, <3>7, <3>8
  <2> QED
    BY <2>2, <2>3
<1>6. CASE ReadEvent(d)
  <2>1. Reading(d) /\ ~AtEnd(d)
    BY <1>6 DEF ReadEvent
  <2>2. PICK n \in DOMAIN relay[d], p \in Nat, eof \in BOOLEAN :
             /\ reader[d] = [file |-> n, pos |-> p, eof |-> eof]
             /\ p <= Len(relay[d][n]) /\ Len(relay[d][n]) \in Nat \ {0}
             /\ \A i \in 1..Len(relay[d][n]) : relay[d][n][i] \in Nat
    BY <2>1, ReaderFile DEF Reading
  <2>3. /\ reader' = [reader EXCEPT ![d] = [reader[d] EXCEPT !.pos = p + 1]]
        /\ checkpoint' = [checkpoint EXCEPT ![d] = Max({c, relay[d][n][p + 1]})]
        /\ relay' = relay /\ binlog' = binlog
    BY <1>2, <1>6, <2>2 DEF ReadEvent, mysql
  <2>4. p + 1 \in 1..Len(relay[d][n])
    BY <2>1, <2>2 DEF AtEnd
  <2>5. relay[d][n][p + 1] \in Nat /\ c \in Nat
    BY <1>2, <2>2, <2>4
  <2> DEFINE id == relay[d][n][p + 1]
  <2>6. Max({c, id}) >= id /\ Max({c, id}) \in Nat
    <3> HIDE DEF c, id
    <3>1. id \in Nat /\ c \in Nat
      BY <2>5 DEF id, c
    <3> QED
      BY <3>1, MaxOfTwo
  <2>7. reader'[d].file = n /\ reader'[d].pos = p + 1 /\ p + 1 # 0
        /\ checkpoint'[d] = Max({c, id})
    BY <1>2, <2>2, <2>3
  <2>8. id <= Max({c, id})
    <3> HIDE DEF c, id
    <3> QED
      BY <2>5, <2>6 DEF id
  <2> QED
    BY <2>3, <2>7, <2>8
<1>7. CASE SwitchFile(d)
  <2>1. /\ Reading(d) /\ AtEnd(d) /\ reader[d].file + 1 \in DOMAIN relay[d]
        /\ reader' = [reader EXCEPT ![d] = [file |-> reader[d].file + 1, pos |-> 0, eof |-> FALSE]]
        /\ binlog' = log /\ relay' = relay /\ checkpoint' = checkpoint
    BY <1>2, <1>7 DEF SwitchFile, mysql
  <2>2. PICK n \in DOMAIN relay[d], p \in Nat, eof \in BOOLEAN :
             /\ reader[d] = [file |-> n, pos |-> p, eof |-> eof]
             /\ p <= Len(relay[d][n]) /\ Len(relay[d][n]) \in Nat \ {0} /\ n \in Nat \ {0}
             /\ \A i \in 1..Len(relay[d][n]) : relay[d][n][i] \in Nat
    BY <2>1, ReaderFile DEF Reading
  <2>3. p = Len(relay[d][n]) /\ p # 0 /\ p \in 1..Len(relay[d][n])
    BY <2>1, <2>2 DEF AtEnd
  <2>4. relay[d][n][p] <= c /\ relay[d][n][p] \in Nat /\ c \in Nat
    BY <1>2, <1>4, <2>1, <2>2, <2>3 DEF Reading
  <2>5. n + 1 \in DOMAIN relay[d] /\ reader'[d].file = n + 1 /\ reader'[d].pos = 0
    BY <1>2, <2>1, <2>2
  <2>6. NoneBetween(log, d, m, relay[d][n][p], relay[d][n + 1][1])
    BY <1>3, <2>3, <2>5 DEF Gapless
  <2>7. relay[d][n + 1][1] \in Nat
    <3>1. relay[d][n + 1][1] \in Events(d)
      BY <1>2, <2>5, FileTypes
    <3> QED
      BY <1>2, <3>1
  <2> DEFINE a == relay[d][n][p]
             b == relay[d][n + 1][1]
  <2>8. NoneBetween(log, d, m, c, b)
    <3>1. a \in Nat /\ b \in Nat /\ c \in Nat /\ a <= c /\ NoneBetween(log, d, m, a, b)
      BY <2>4, <2>6, <2>7
    <3> HIDE DEF a, b, c, m, log
    <3>2. \A e \in c + 1 .. b - 1 : e \in a + 1 .. b - 1
      BY <3>1
    <3> QED
      BY <3>1, <3>2 DEF NoneBetween
  <2> QED
    BY <1>1, <2>1, <2>5, <2>8
<1>8. CASE ~SetPosition(d) /\ ~ReadEvent(d) /\ ~SwitchFile(d)
  <2>1. checkpoint'[d] = checkpoint[d]
    <3>1. CASE checkpoint' = checkpoint
      BY <3>1
    <3>2. CASE \E e \in Databases : InitialReplication(e) \/ ReadEvent(e)
      BY <1>1, <1>2, <1>8, <3>2 DEF InitialReplication, ReadEvent
    <3>3. CASE ~\E e \in Databases : InitialReplication(e) \/ ReadEvent(e)
      BY <3>1, <3>3 DEF Next, Recover, DbReplicator, Start, NotRequired, BinlogNotAvailable, Required,
         BackupDone, RebuildEvent, RebuildDone, ValidateRecovered, SaveBinlogState,
         BinlogPurged, RestoreDone, BackupFile, RestoreRemove, RestoreFile,
         BinlogReplicatorStores, RecoveryFails, Crash, MySQLPurges, MySQLCommits, RelayFileLost,
         SetPosition, ReachEnd, SwitchFile, NoNextFile, MemoryGone, vars
    <3> QED
      BY <3>2, <3>3
  <2>2. \/ reader'[d] = reader[d]
        \/ reader' = [e \in Databases |-> NoReader]
        \/ ReachEnd(d) \/ NoNextFile(d)
    <3>1. ASSUME NEW e \in Databases, DbReplicator(e)
          PROVE  reader'[d] = reader[d] \/ ReachEnd(d) \/ NoNextFile(d)
      <4>1. CASE e = d
        BY <1>1, <1>8, <3>1, <4>1 DEF DbReplicator
      <4>2. CASE e # d
        BY <1>2, <3>1, <4>2 DEF DbReplicator, InitialReplication, SetPosition, ReadEvent,
           ReachEnd, SwitchFile, NoNextFile
      <4> QED
        BY <4>1, <4>2
    <3>2. CASE ~\E e \in Databases : DbReplicator(e)
      BY <3>2 DEF Next, Recover, Start, NotRequired, BinlogNotAvailable, Required,
         BackupDone, RebuildEvent, RebuildDone, ValidateRecovered, SaveBinlogState,
         BinlogPurged, RestoreDone, BackupFile, RestoreRemove, RestoreFile,
         BinlogReplicatorStores, RecoveryFails, Crash, MySQLPurges, MySQLCommits, RelayFileLost,
         MemoryGone, vars
    <3> QED
      BY <3>1, <3>2
  <2>3. /\ reader[d] # NoReader
        /\ reader'[d].file = reader[d].file /\ reader'[d].pos = reader[d].pos
    <3>1. reader' # [e \in Databases |-> NoReader]
      OBVIOUS
    <3>2. CASE reader'[d] = reader[d]
      BY <3>2
    <3>3. CASE ReachEnd(d) \/ NoNextFile(d)
      <4>1. PICK b \in BOOLEAN :
              Reading(d) /\ reader' = [reader EXCEPT ![d] = [reader[d] EXCEPT !.eof = b]]
        BY <1>2, <3>3 DEF ReachEnd, NoNextFile
      <4> QED
        BY <1>2, <4>1 DEF Reading
    <3> QED
      BY <2>2, <3>1, <3>2, <3>3
  <2>4. PICK n \in DOMAIN relay[d], p \in Nat, eof \in BOOLEAN :
             /\ reader[d] = [file |-> n, pos |-> p, eof |-> eof]
             /\ p <= Len(relay[d][n]) /\ Len(relay[d][n]) \in Nat \ {0} /\ n \in Nat \ {0}
             /\ \A i \in 1..Len(relay[d][n]) : relay[d][n][i] \in 1..Len(binlog)
    BY <2>3, ReaderFile
  <2>5. Comes(binlog, d, m, c, relay[d][n], p)
    BY <1>4, <2>3, <2>4
  <2>6. \A i \in 1..Len(relay[d][n]) : relay'[d][n][i] = relay[d][n][i]
    BY <1>1, EntriesStay
  <2>7. reader'[d].file = n /\ reader'[d].pos = p
    BY <2>3, <2>4
  <2>8. CASE p = 0
    <3> DEFINE b == relay[d][n][1]
    <3>1. 1 \in 1..Len(relay[d][n])
      BY <2>4
    <3>2. b \in 1..Len(binlog) /\ relay'[d][n][1] = b
      BY <2>4, <2>6, <3>1
    <3>3. NoneBetween(binlog, d, m, c, b) /\ c \in Nat
      BY <1>2, <2>5, <2>8
    <3>4. \A i \in 1..Len(binlog) : binlog'[i] = binlog[i]
      BY <1>2, LogGrows
    <3> HIDE DEF b, m, c
    <3>5. b \in Nat /\ b <= Len(binlog) + 1
      BY <1>2, <3>2
    <3>6. NoneBetween(binlog', d, m, c, b)
      <4> DEFINE N == Len(binlog)
                 l1 == binlog
                 l2 == binlog'
      <4>1. N \in Nat /\ b \in Nat /\ b <= N + 1 /\ c \in Nat
            /\ NoneBetween(l1, d, m, c, b) /\ \A i \in 1..N : l2[i] = l1[i]
        BY <1>2, <3>3, <3>4, <3>5
      <4> HIDE DEF N, l1, l2
      <4>2. NoneBetween(l2, d, m, c, b)
        BY <4>1, NoneBetweenLater
      <4> QED
        BY <4>2 DEF l2
    <3> QED
      BY <1>1, <2>1, <2>7, <2>8, <3>2, <3>6 DEF m, c
  <2>9. CASE p # 0
    <3>1. p \in 1..Len(relay[d][n])
      BY <2>4, <2>9
    <3>2. relay'[d][n][p] = relay[d][n][p]
      BY <2>6, <3>1
    <3> QED
      BY <2>1, <2>5, <2>7, <2>9, <3>2
  <2> QED
    BY <2>8, <2>9
<1> QED
  BY <1>5, <1>6, <1>7, <1>8

LEMMA InitSkipInv == Init => SkipInv
<1> SUFFICES ASSUME Init PROVE SkipInv
  OBVIOUS
<1>1. MissingInv /\ WriterInv
  BY DEF Init, MissingInv, Recovering, WriterInv
<1>2. CopyInv /\ ReaderInv
  BY DEF Init, CopyInv, ReaderInv
<1>3. FilesInv
  BY DEF Init, FilesInv, Trusted
<1> QED
  BY <1>1, <1>2, <1>3 DEF SkipInv

LEMMA SkipInvStep == RecoveryInv /\ SkipInv /\ [Next]_vars => SkipInv'
BY MissingKept, CopyKept, WriterKept, FilesKept, ReaderKept DEF SkipInv

LEMMA SkipInvariant == Spec => [](RecoveryInv /\ SkipInv)
BY InitRecoveryInv, RecoveryInvStep, InitSkipInv, SkipInvStep, PTL DEF Spec

(* Whatever relay files were lost while the db_replicators were down, and  *)
(* however often they were rebuilt, put back or read while they grew: the  *)
(* next event a db_replicator processes is the next one of its database    *)
(* that its copy had not seen, except where a crash or a failure cut a     *)
(* recovery in two, where save_binlog_state moved the position of a        *)
(* database without a checkpoint, and where read_next_event looked twice.  *)
THEOREM NothingIsSkipped == Spec => NoEventSkipped
<1> DEFINE Comes(d) == checkpoint'[d] # checkpoint[d] /\ mark[d] # Uncopied =>
                         \/ torn \/ d \in jumped \/ d \in raced
                         \/ EventsOf(d, Seen(d) + 1, checkpoint'[d] - 1) = {}
<1>1. ASSUME RecoveryInv, SkipInv, [Next]_vars PROVE [\A d \in Databases : Comes(d)]_vars
  <2> SUFFICES ASSUME NEW d \in Databases, checkpoint'[d] # checkpoint[d], mark[d] # Uncopied,
                      ~torn, d \notin jumped, d \notin raced
               PROVE  EventsOf(d, Seen(d) + 1, checkpoint'[d] - 1) = {}
    BY Zenon
  <2>1. /\ FilesInv /\ ReaderInv /\ FoundInv
        /\ checkpoint \in [Databases -> Nat] /\ mark \in [Databases -> Uncopied..Len(binlog)]
        /\ Len(binlog) \in Nat
    BY <1>1, Unfold, LogTypes DEF SkipInv, TypeOK
  <2>2. ReadEvent(d)
    <3>1. CASE \E e \in Databases : InitialReplication(e) \/ ReadEvent(e)
      BY <2>1, <3>1 DEF InitialReplication, ReadEvent
    <3>2. CASE ~\E e \in Databases : InitialReplication(e) \/ ReadEvent(e)
      <4>1. checkpoint' = checkpoint
        BY <1>1, <3>2 DEF Next, Recover, DbReplicator, Start, NotRequired, BinlogNotAvailable, Required,
           BackupDone, RebuildEvent, RebuildDone, ValidateRecovered, SaveBinlogState,
           BinlogPurged, RestoreDone, BackupFile, RestoreRemove, RestoreFile,
           BinlogReplicatorStores, RecoveryFails, Crash, MySQLPurges, MySQLCommits,
           RelayFileLost, SetPosition, ReachEnd, SwitchFile, NoNextFile, vars
      <4> QED
        BY <4>1
    <3> QED
      BY <3>1, <3>2
  <2>3. Reading(d) /\ ~AtEnd(d) /\ pc = "up"
    BY <2>2 DEF ReadEvent, Reading
  <2>4. Trusted(d)
    BY <2>1, <2>3 DEF Trusted, FoundInv
  <2>5. PICK n \in DOMAIN relay[d], p \in Nat, eof \in BOOLEAN :
             /\ reader[d] = [file |-> n, pos |-> p, eof |-> eof]
             /\ p <= Len(relay[d][n]) /\ Len(relay[d][n]) \in Nat \ {0}
             /\ \A i \in 1..Len(relay[d][n]) : relay[d][n][i] \in Nat
    BY <1>1, <2>3, ReaderFile DEF Reading
  <2> DEFINE f == relay[d][n]
             c == checkpoint[d]
             m == mark[d]
             id == f[p + 1]
  <2>6. p + 1 \in 1..Len(f) /\ (p # 0 => p \in 1..Len(f) - 1 /\ p \in 1..Len(f))
    BY <2>3, <2>5 DEF AtEnd
  <2>7. id \in Nat /\ c \in Nat /\ m \in Nat
    BY <2>1, <2>5, <2>6 DEF Uncopied
  <2>8. checkpoint' = [checkpoint EXCEPT ![d] = Max({c, id})]
    BY <2>1, <2>2, <2>5 DEF ReadEvent
  <2>9. IF p = 0 THEN NoneBetween(binlog, d, m, c, f[1]) ELSE f[p] <= c
    BY <2>1, <2>3, <2>4, <2>5 DEF ReaderInv, Reading
  <2>10. Gapless(binlog, d, m, relay[d], End(d))
    BY <2>1, <2>4 DEF FilesInv
  <2>11. NoneBetween(binlog, d, m, c, id)
    <3>1. CASE p = 0
      BY <2>9, <3>1
    <3>2. CASE p # 0
      <4> DEFINE a == f[p]
      <4>1. NoneBetween(binlog, d, m, a, id)
        BY <2>6, <2>10, <3>2 DEF Gapless
      <4>2. a \in Nat /\ a <= c
        BY <2>5, <2>6, <2>9, <3>2
      <4> HIDE DEF a, c, id, m
      <4>3. \A e \in c + 1 .. id - 1 : e \in a + 1 .. id - 1
        BY <2>7, <4>2
      <4> QED
        BY <4>1, <4>3 DEF NoneBetween
    <3> QED
      BY <3>1, <3>2
  <2> HIDE DEF id, f
  <2>12. checkpoint'[d] = id
    <3>1. checkpoint'[d] = Max({c, id})
      BY <2>1, <2>8
    <3>2. Max({c, id}) \in {c, id}
      BY <2>7, MaxOfTwo
    <3> QED
      BY <3>1, <3>2
  <2>13. Seen(d) \in Nat /\ Seen(d) >= m /\ Seen(d) >= c
    <3> HIDE DEF m, c
    <3>1. Max({m, c}) \in {m, c} /\ Max({m, c}) >= m /\ Max({m, c}) >= c
      BY <2>7, MaxOfTwo
    <3>2. Seen(d) = Max({m, c})
      BY DEF Seen, m, c
    <3> QED
      BY <2>7, <3>1, <3>2
  <2> DEFINE s == Seen(d)
  <2>14. \A e \in s + 1 .. id - 1 : binlog[e] # d
    <3> HIDE DEF s, m, c
    <3>1. \A e \in s + 1 .. id - 1 : e \in c + 1 .. id - 1 /\ ~(e <= m)
      BY <2>7, <2>13 DEF s
    <3> QED
      BY <2>11, <3>1 DEF NoneBetween
  <2> QED
    BY <2>12, <2>14 DEF EventsOf
<1> QED
  BY <1>1, SkipInvariant, PTL DEF Spec, NoEventSkipped
=============================================================================
