--------------------------- MODULE RealtimeProofs ---------------------------
(***************************************************************************)
(* TLAPS proofs about RealtimeReplication, for any tables, keys and        *)
(* statements and any number of replays, stops and crashes: RealtimeInv is *)
(* inductive, and with it what state.pckl promises.                        *)
(***************************************************************************)
EXTENDS RealtimeReplication, SequenceTheorems, WellFoundedInduction, TLAPS

-----------------------------------------------------------------------------
(* The dicts of records. *)

(* The records of a batch of events up to n. *)
Records(n) == [key : Keys, val : 1..n]

LEMMA IndexOfHas ==
    ASSUME NEW d, NEW k, Has(d, k)
    PROVE  IndexOf(d, k) \in DOMAIN d /\ d[IndexOf(d, k)].key = k
BY DEF Has, IndexOf

(* Putting a record of the newest event in covers the older one of its key. *)
LEMMA PutRecord ==
    ASSUME NEW n \in Nat, NEW v \in Nat, n < v, NEW d \in Seq(Records(n)), NEW k \in Keys
    PROVE  /\ Put(d, k, v) \in Seq(Records(v))
           /\ \A i \in DOMAIN d : \E j \in DOMAIN Put(d, k, v) :
                Put(d, k, v)[j].key = d[i].key /\ Put(d, k, v)[j].val >= d[i].val
           /\ \E j \in DOMAIN Put(d, k, v) :
                Put(d, k, v)[j].key = k /\ Put(d, k, v)[j].val >= v
<1>1. Records(n) \subseteq Records(v) /\ [key |-> k, val |-> v] \in Records(v)
  BY DEF Records
<1>2. d \in Seq(Records(v))
  BY <1>1, SeqMonotonic
<1>3. CASE Has(d, k)
  <2> DEFINE i == IndexOf(d, k)
             p == [d EXCEPT ![i].val = v]
  <2>1. Put(d, k, v) = p
    BY <1>3 DEF Put
  <2>2. i \in DOMAIN d /\ d[i].key = k
    BY <1>3, IndexOfHas
  <2> HIDE DEF i
  <2>3. \A j \in DOMAIN d : d[j] \in [key : Keys, val : 1..n]
    <3>1. \A j \in DOMAIN d : d[j] \in Records(n)
      OBVIOUS
    <3> QED
      BY <3>1 DEF Records
  <2>4. DOMAIN p = DOMAIN d /\ \A j \in DOMAIN d : p[j] = IF j = i THEN [d[i] EXCEPT !.val = v] ELSE d[j]
    BY <2>2
  <2>5. p[i] = [key |-> k, val |-> v]
    BY <2>2, <2>3, <2>4
  <2>6. p = [d EXCEPT ![i] = [key |-> k, val |-> v]]
    <3>1. [d[i] EXCEPT !.val = v] = [key |-> k, val |-> v]
      BY <2>2, <2>3
    <3>2. p = [d EXCEPT ![i] = [d[i] EXCEPT !.val = v]]
      OBVIOUS
    <3> QED
      BY <3>1, <3>2
  <2>7. p \in Seq(Records(v))
    <3> HIDE DEF p
    <3> QED
      BY <1>1, <1>2, <2>2, <2>6, ExceptSeq
  <2>8. \A j \in DOMAIN d : p[j].key = d[j].key /\ p[j].val >= d[j].val
    <3> HIDE DEF p
    <3> QED
      BY <2>2, <2>3, <2>4, <2>5
  <2> HIDE DEF p
  <2> QED
    BY <2>1, <2>2, <2>4, <2>5, <2>7, <2>8
<1>4. CASE ~Has(d, k)
  <2> DEFINE r == [key |-> k, val |-> v]
  <2>1. Put(d, k, v) = Append(d, r)
    BY <1>4 DEF Put
  <2>2. r \in Records(v) /\ r.key = k /\ r.val = v
    BY <1>1
  <2> HIDE DEF r
  <2>3. /\ Append(d, r) \in Seq(Records(v))
        /\ \A i \in DOMAIN d : i \in DOMAIN Append(d, r) /\ Append(d, r)[i] = d[i]
        /\ Len(d) + 1 \in DOMAIN Append(d, r) /\ Append(d, r)[Len(d) + 1] = r
    BY <1>2, <2>2
  <2>4. \A i \in DOMAIN d : d[i].val \in Nat
    <3>1. \A j \in DOMAIN d : d[j] \in Records(n)
      OBVIOUS
    <3> QED
      BY <3>1 DEF Records
  <2> QED
    BY <2>1, <2>2, <2>3, <2>4
<1> QED
  BY <1>3, <1>4

(* Popping a key keeps the records of the others. *)
LEMMA PopRecord ==
    ASSUME NEW R, NEW d \in Seq(R), NEW k
    PROVE  /\ Pop(d, k) \in Seq(R)
           /\ \A i \in DOMAIN d : \/ d[i].key = k
                                  \/ \E j \in DOMAIN Pop(d, k) : Pop(d, k)[j] = d[i]
<1>1. CASE Has(d, k)
  <2> DEFINE i == IndexOf(d, k)
             a == SubSeq(d, 1, i - 1)
             b == SubSeq(d, i + 1, Len(d))
  <2>1. Pop(d, k) = a \o b
    BY <1>1 DEF Pop, RemoveAt
  <2>2. i \in 1..Len(d) /\ d[i].key = k /\ Len(d) \in Nat
    BY <1>1, IndexOfHas
  <2> HIDE DEF i
  <2>3. /\ a \in Seq(R) /\ Len(a) = i - 1
        /\ \A j \in 1..(i - 1) : a[j] = d[j]
    BY <2>2
  <2>4. /\ b \in Seq(R) /\ Len(b) = Len(d) - i
        /\ \A j \in 1..(Len(d) - i) : b[j] = d[j + i]
    BY <2>2
  <2> HIDE DEF a, b
  <2>5. ASSUME NEW m \in DOMAIN d
        PROVE  d[m].key = k \/ \E j \in DOMAIN (a \o b) : (a \o b)[j] = d[m]
    <3>1. CASE m < i
      <4>1. m \in DOMAIN (a \o b) /\ (a \o b)[m] = d[m]
        BY <2>2, <2>3, <2>4, <3>1
      <4> QED
        BY <4>1
    <3>2. CASE m = i
      BY <2>2, <3>2
    <3>3. CASE m > i
      <4>1. m - i \in 1..(Len(d) - i) /\ b[m - i] = d[m]
        BY <2>2, <2>4, <3>3
      <4>2. m - 1 \in DOMAIN (a \o b) /\ (a \o b)[m - 1] = b[m - i]
        BY <2>2, <2>3, <2>4, <3>3
      <4> QED
        BY <4>1, <4>2
    <3> QED
      BY <2>2, <3>1, <3>2, <3>3
  <2> QED
    BY <2>1, <2>3, <2>4, <2>5
<1>2. CASE ~Has(d, k)
  BY <1>2 DEF Pop
<1> QED
  BY <1>1, <1>2

-----------------------------------------------------------------------------
(* MySQL and the relay. *)

LEMMA StatementTypes ==
    ASSUME NEW e \in Statements
    PROVE  /\ e.kind \in RowKinds \cup QueryKinds /\ e.table \in Tables /\ e.key \in Keys
           /\ e.kind = "rename" => e.to \in Tables
           /\ e.kind = "rekey" => e.to \in Keys
           /\ e.kind \in RowKinds => RecordId(e) \in Keys
BY RealtimeAssumption DEF Event, RecordId, RowKinds, QueryKinds

(* A valid statement leads from tables to tables; only CREATE, RENAME and   *)
(* DROP change which there are.                                             *)
LEMMA EffectContent ==
    ASSUME NEW e \in Statements, NEW c, IsContent(c), Valid(e, c), NEW n \in Nat
    PROVE  /\ IsContent(Effect(e, n, c))
           /\ DOMAIN Effect(e, n, c) =
                CASE e.kind = "create" -> DOMAIN c \cup {e.table}
                  [] e.kind = "rename" -> (DOMAIN c \ {e.table}) \cup {e.to}
                  [] e.kind \in {"drop", "drop if exists"} -> DOMAIN c \ {e.table}
                  [] OTHER -> DOMAIN c
           /\ e.kind \in RowKinds \cup {"truncate"} => e.table \in DOMAIN c
           /\ e.kind = "rename" => e.table \in DOMAIN c /\ e.to \notin DOMAIN c
<1> DEFINE D == DOMAIN c
<1>1. /\ D \subseteq Tables /\ c \in [D -> [Keys -> Nat]]
      /\ e.kind \in RowKinds \cup QueryKinds /\ e.table \in Tables /\ e.key \in Keys
      /\ e.kind = "rename" => e.to \in Tables
      /\ e.kind = "rekey" => e.to \in Keys
  BY StatementTypes DEF IsContent
<1>2. [k \in Keys |-> None] \in [Keys -> Nat] /\ None \in Nat
  BY DEF None
<1>3. CASE e.kind = "insert"
  <2>1. Effect(e, n, c) = [c EXCEPT ![e.table][e.key] = n] /\ e.table \in D
    BY <1>3 DEF Effect, Valid
  <2>2. Effect(e, n, c) \in [D -> [Keys -> Nat]]
    BY <1>1, <2>1
  <2> QED
    BY <1>1, <1>3, <2>1, <2>2 DEF IsContent, RowKinds
<1>4. CASE e.kind = "rekey"
  <2>1. /\ Effect(e, n, c) = [c EXCEPT ![e.table][e.key] = None, ![e.table][e.to] = n]
        /\ e.table \in D
    BY <1>4 DEF Effect, Valid
  <2>2. Effect(e, n, c) \in [D -> [Keys -> Nat]]
    BY <1>1, <1>2, <1>4, <2>1
  <2> QED
    BY <1>1, <1>4, <2>1, <2>2 DEF IsContent, RowKinds
<1>5. CASE e.kind = "delete"
  <2>1. Effect(e, n, c) = [c EXCEPT ![e.table][e.key] = None] /\ e.table \in D
    BY <1>5 DEF Effect, Valid
  <2>2. Effect(e, n, c) \in [D -> [Keys -> Nat]]
    BY <1>1, <1>2, <2>1
  <2> QED
    BY <1>1, <1>5, <2>1, <2>2 DEF IsContent, RowKinds
<1>6. CASE e.kind \in {"create", "truncate"}
  <2>1. /\ Effect(e, n, c) = With(c, e.table, [k \in Keys |-> None])
        /\ e.kind = "truncate" => e.table \in D
    BY <1>6 DEF Effect, Valid
  <2>2. Effect(e, n, c) \in [D \cup {e.table} -> [Keys -> Nat]]
    BY <1>1, <1>2, <2>1 DEF With
  <2>3. DOMAIN Effect(e, n, c) = D \cup {e.table}
    BY <2>2
  <2> HIDE DEF D
  <2>4. IsContent(Effect(e, n, c))
    BY <1>1, <2>2, <2>3 DEF IsContent
  <2> QED
    BY <1>1, <1>6, <2>1, <2>3, <2>4 DEF RowKinds, D
<1>7. CASE e.kind = "rename"
  <2>1. Effect(e, n, c) = Moved(c, e.table, e.to) /\ e.table \in D /\ e.to \notin D
    BY <1>7 DEF Effect, Valid
  <2>2. Effect(e, n, c) \in [(D \ {e.table}) \cup {e.to} -> [Keys -> Nat]]
    BY <1>1, <2>1 DEF Moved
  <2>3. DOMAIN Effect(e, n, c) = (D \ {e.table}) \cup {e.to}
    BY <2>2
  <2> HIDE DEF D
  <2>4. IsContent(Effect(e, n, c))
    BY <1>1, <1>7, <2>2, <2>3 DEF IsContent
  <2> QED
    BY <1>1, <1>7, <2>1, <2>3, <2>4 DEF RowKinds, D
<1>8. CASE e.kind \in {"drop", "drop if exists"}
  <2>1. Effect(e, n, c) = Without(c, e.table)
    BY <1>8 DEF Effect
  <2>2. Effect(e, n, c) \in [D \ {e.table} -> [Keys -> Nat]]
    BY <1>1, <2>1 DEF Without
  <2>3. DOMAIN Effect(e, n, c) = D \ {e.table}
    BY <2>2
  <2> HIDE DEF D
  <2>4. IsContent(Effect(e, n, c))
    BY <1>1, <2>2, <2>3 DEF IsContent
  <2> QED
    BY <1>1, <1>8, <2>1, <2>3, <2>4 DEF RowKinds, D
<1> QED
  BY <1>1, <1>3, <1>4, <1>5, <1>6, <1>7, <1>8 DEF RowKinds, QueryKinds

(* The log, the states of MySQL and the relay only grow. *)
LEMMA SourceGrows ==
    ASSUME TypeOK, [Next]_vars
    PROVE  /\ Len(log) \in Nat /\ Len(log') \in Nat /\ Len(log) <= Len(log')
           /\ \A n \in 1..Len(log) : log'[n] = log[n]
           /\ \A n \in 1..(Len(log) + 1) : mysql'[n] = mysql[n]
           /\ Len(relay) \in Nat /\ Len(relay') \in Nat /\ Len(relay) <= Len(relay')
           /\ \A i \in 1..Len(relay) : relay'[i] = relay[i]
<1>1. /\ log \in Seq(Statements) /\ Len(mysql) = Len(log) + 1
      /\ mysql \in Seq(Range(mysql)) /\ relay \in Seq(1..Len(log))
  BY DEF TypeOK, SourceTypeOK
<1>2. CASE MySQLCommits
  <2>1. PICK e \in Statements :
          /\ log' = Append(log, e)
          /\ mysql' = Append(mysql, Effect(e, Len(log) + 1, Current))
          /\ relay' = Append(relay, Len(log) + 1)
    BY <1>2 DEF MySQLCommits
  <2>2. /\ Len(log') = Len(log) + 1
        /\ \A n \in 1..Len(log) : log'[n] = log[n]
    BY <1>1, <2>1
  <2>3. \A n \in 1..(Len(log) + 1) : mysql'[n] = mysql[n]
    BY <1>1, <2>1
  <2>4. /\ Len(relay') = Len(relay) + 1
        /\ \A i \in 1..Len(relay) : relay'[i] = relay[i]
    BY <1>1, <2>1
  <2> QED
    BY <1>1, <2>2, <2>3, <2>4
<1>3. CASE RelayReplays
  <2>1. PICK p \in 1..Len(log) :
          relay' = relay \o [i \in 1..(Len(log) - p + 1) |-> p + i - 1]
    BY <1>3 DEF RelayReplays
  <2> DEFINE again == [i \in 1..(Len(log) - p + 1) |-> p + i - 1]
  <2>2. again \in Seq(Nat) /\ Len(again) = Len(log) - p + 1
    BY <1>1
  <2> HIDE DEF again
  <2>3. relay' = relay \o again
    BY <2>1 DEF again
  <2>4. /\ Len(relay') = Len(relay) + Len(again)
        /\ \A i \in 1..Len(relay) : relay'[i] = relay[i]
    <3>1. relay \in Seq(Nat)
      BY <1>1, SeqMonotonic, 1..Len(log) \subseteq Nat
    <3>2. Len(relay) \in Nat /\ Len(again) \in Nat
      BY <1>1, <2>2
    <3>3. /\ Len(relay \o again) = Len(relay) + Len(again)
          /\ \A i \in 1..(Len(relay) + Len(again)) :
               (relay \o again)[i] = IF i <= Len(relay) THEN relay[i]
                                     ELSE again[i - Len(relay)]
      BY <2>2, <3>1, ConcatProperties
    <3> QED
      BY <2>3, <3>2, <3>3
  <2>5. UNCHANGED <<log, mysql>>
    BY <1>3 DEF RelayReplays
  <2> QED
    BY <1>1, <2>2, <2>4, <2>5
<1>4. CASE ~MySQLCommits /\ ~RelayReplays
  <2>1. UNCHANGED source
    BY <1>4 DEF Next, Start, HandleEvent, SkipDuplicate, HandleInsert, HandleErase,
       HandleCreateTable, HandleQuery, HandleDropTable, HandleRenameTable, HandleTruncate,
       QueryRefused, FinishQuery, FinishEvent, Upload, InsertRecords, EraseRecords,
       UploadRefused, UploadDone, ReadNothing, LeaveLoop, Stop, Crash, Raise, vars
  <2> QED
    BY <1>1, <2>1 DEF source
<1> QED
  BY <1>2, <1>3, <1>4

LEMMA BoundsStep ==
    ASSUME SourceTypeOK, [Next]_vars
    PROVE  replays' \in 0..MaxReplays /\ stops' \in 0..MaxStops /\ crashes' \in 0..MaxCrashes
<1>1. /\ replays \in 0..MaxReplays /\ stops \in 0..MaxStops /\ crashes \in 0..MaxCrashes
      /\ MaxReplays \in Nat /\ MaxStops \in Nat /\ MaxCrashes \in Nat
  BY RealtimeAssumption DEF SourceTypeOK
<1>2. CASE RelayReplays \/ LeaveLoop \/ Crash
  BY <1>1, <1>2 DEF RelayReplays, LeaveLoop, Crash
<1>3. CASE ~RelayReplays /\ ~LeaveLoop /\ ~Crash
  <2>1. UNCHANGED bounds
    BY <1>3 DEF Next, Start, HandleEvent, SkipDuplicate, HandleInsert, HandleErase,
       HandleCreateTable, HandleQuery, HandleDropTable, HandleRenameTable, HandleTruncate,
       QueryRefused, FinishQuery, FinishEvent, Upload, InsertRecords, EraseRecords,
       UploadRefused, UploadDone, ReadNothing, Stop, Raise, MySQLCommits, vars
  <2> QED
    BY <1>1, <2>1 DEF bounds
<1> QED
  BY <1>2, <1>3

LEMMA SourceStep ==
    ASSUME TypeOK, SourceInv, [Next]_vars
    PROVE  SourceTypeOK' /\ SourceInv'
<1>1. /\ log \in Seq(Statements) /\ Len(mysql) = Len(log) + 1
      /\ mysql \in Seq(Range(mysql)) /\ relay \in Seq(1..Len(log)) /\ relay \in Seq(Nat)
      /\ \A n \in DOMAIN mysql : IsContent(mysql[n])
      /\ Len(log) \in Nat /\ Len(relay) \in Nat
  <2>1. SourceTypeOK
    BY DEF TypeOK
  <2>2. relay \in Seq(Nat)
    BY <2>1, SeqMonotonic, 1..Len(log) \subseteq Nat DEF SourceTypeOK
  <2> QED
    BY <2>1, <2>2 DEF SourceTypeOK
<1>2. /\ \A n \in 1..Len(log) : /\ Valid(log[n], mysql[n])
                                /\ mysql[n + 1] = Effect(log[n], n, mysql[n])
      /\ \A n \in 1..Len(log) : \E i \in DOMAIN relay : relay[i] = n
      /\ \A i \in DOMAIN relay : \A n \in 1..(relay[i] - 1) :
           \E j \in 1..(i - 1) : relay[j] = n
  BY DEF SourceInv
<1>3. replays' \in 0..MaxReplays /\ stops' \in 0..MaxStops /\ crashes' \in 0..MaxCrashes
  BY BoundsStep DEF TypeOK
<1>4. CASE MySQLCommits
  <2>1. PICK e \in Statements :
          /\ Valid(e, Current)
          /\ log' = Append(log, e)
          /\ mysql' = Append(mysql, Effect(e, Len(log) + 1, Current))
          /\ relay' = Append(relay, Len(log) + 1)
    BY <1>4 DEF MySQLCommits
  <2> DEFINE c == Effect(e, Len(log) + 1, Current)
             N == Len(log) + 1
  <2>2. Current = mysql[N] /\ N \in DOMAIN mysql /\ N \in Nat
    BY <1>1 DEF Current
  <2>3. IsContent(c)
    BY <1>1, <2>1, <2>2, EffectContent
  <2>4. /\ log' \in Seq(Statements) /\ Len(log') = N
        /\ log'[N] = e /\ \A n \in 1..Len(log) : log'[n] = log[n]
    BY <1>1, <2>1
  <2>5. /\ Len(mysql') = N + 1 /\ DOMAIN mysql' = 1..(N + 1)
        /\ mysql'[N + 1] = c /\ \A n \in 1..N : mysql'[n] = mysql[n]
        /\ mysql' = [n \in 1..(N + 1) |-> mysql'[n]]
    <3> HIDE DEF c
    <3>1. mysql' = Append(mysql, c)
      BY <2>1 DEF c
    <3>2. mysql' \in Seq(Range(mysql) \cup {c})
      BY <1>1, <3>1, SeqMonotonic, AppendProperties
    <3>3. /\ Len(mysql') = N + 1 /\ mysql'[N + 1] = c
          /\ \A n \in 1..N : mysql'[n] = mysql[n]
      <4>1. mysql \in Seq(Range(mysql) \cup {c})
        BY <1>1, SeqMonotonic
      <4> QED
        BY <1>1, <3>1, <4>1, AppendProperties
    <3>4. mysql' \in [1..Len(mysql') -> Range(mysql) \cup {c}]
      BY <3>2, LenProperties
    <3>5. mysql' = [n \in 1..(N + 1) |-> mysql'[n]] /\ DOMAIN mysql' = 1..(N + 1)
      BY <3>3, <3>4
    <3> QED
      BY <3>3, <3>5
  <2>6. /\ relay' \in Seq(1..N) /\ Len(relay') = Len(relay) + 1
        /\ DOMAIN relay' = 1..(Len(relay) + 1) /\ DOMAIN relay = 1..Len(relay)
        /\ relay'[Len(relay) + 1] = N /\ \A i \in 1..Len(relay) : relay'[i] = relay[i]
    <3>1. relay \in Seq(1..N) /\ N \in 1..N
      BY <1>1, SeqMonotonic, 1..Len(log) \subseteq 1..N
    <3> HIDE DEF N
    <3>2. relay' = Append(relay, N)
      BY <2>1 DEF N
    <3>3. /\ relay' \in Seq(1..N) /\ Len(relay') = Len(relay) + 1
          /\ relay'[Len(relay) + 1] = N /\ \A i \in 1..Len(relay) : relay'[i] = relay[i]
      BY <3>1, <3>2, AppendProperties
    <3> QED
      BY <3>1, <3>3, LenProperties
  <2>7. mysql' \in Seq(Range(mysql'))
    <3>1. mysql' \in [1..(N + 1) -> Range(mysql')]
      BY <2>5 DEF Range
    <3> HIDE DEF N
    <3> QED
      BY <2>2, <3>1, SeqDef
  <2>8. \A n \in DOMAIN mysql' : IsContent(mysql'[n])
    <3> HIDE DEF c
    <3> QED
      BY <1>1, <2>3, <2>5
  <2>9. \A n \in 1..N : /\ Valid(log'[n], mysql'[n])
                        /\ mysql'[n + 1] = Effect(log'[n], n, mysql'[n])
    <3> SUFFICES ASSUME NEW n \in 1..N
                 PROVE  Valid(log'[n], mysql'[n]) /\ mysql'[n + 1] = Effect(log'[n], n, mysql'[n])
      OBVIOUS
    <3>1. CASE n = N
      BY <2>1, <2>2, <2>4, <2>5, <3>1
    <3>2. CASE n # N
      <4>1. n \in 1..Len(log) /\ n + 1 \in 1..N
        BY <1>1, <3>2
      <4> QED
        BY <1>2, <2>4, <2>5, <4>1
    <3> QED
      BY <3>1, <3>2
  <2>10. \A n \in 1..N : \E i \in DOMAIN relay' : relay'[i] = n
    <3>1. \A i \in DOMAIN relay : i \in DOMAIN relay' /\ relay'[i] = relay[i]
      BY <1>1, <2>6
    <3>2. Len(relay) + 1 \in DOMAIN relay' /\ relay'[Len(relay) + 1] = N
      BY <1>1, <2>6
    <3>3. \A n \in 1..N : n \in 1..Len(log) \/ n = N
      BY <1>1
    <3> QED
      BY <1>2, <3>1, <3>2, <3>3
  <2>11. \A i \in DOMAIN relay' : \A n \in 1..(relay'[i] - 1) :
           \E j \in 1..(i - 1) : relay'[j] = n
    <3> SUFFICES ASSUME NEW i \in DOMAIN relay', NEW n \in 1..(relay'[i] - 1)
                 PROVE  \E j \in 1..(i - 1) : relay'[j] = n
      OBVIOUS
    <3>1. i \in 1..(Len(relay) + 1)
      BY <2>6
    <3>2. CASE i = Len(relay) + 1
      <4>1. n \in 1..Len(log)
        BY <1>1, <2>6, <3>2
      <4>2. PICK j \in DOMAIN relay : relay[j] = n
        BY <1>2, <4>1
      <4>3. j \in 1..(i - 1) /\ relay'[j] = relay[j]
        BY <1>1, <2>6, <3>2
      <4> QED
        BY <4>2, <4>3
    <3>3. CASE i # Len(relay) + 1
      <4>1. i \in DOMAIN relay /\ relay'[i] = relay[i]
        BY <1>1, <2>6, <3>1, <3>3
      <4>2. PICK j \in 1..(i - 1) : relay[j] = n
        BY <1>2, <4>1
      <4>3. j \in 1..Len(relay)
        BY <1>1, <4>1
      <4> QED
        BY <2>6, <4>2, <4>3
    <3> QED
      BY <3>2, <3>3
  <2> HIDE DEF c, N
  <2>12. Len(log') = N /\ Len(mysql') = Len(log') + 1
    BY <2>4, <2>5
  <2> QED
    BY <1>3, <2>4, <2>6, <2>7, <2>8, <2>9, <2>10, <2>11, <2>12
       DEF SourceTypeOK, SourceInv
<1>5. CASE RelayReplays
  <2>1. PICK p \in 1..Len(log) :
          relay' = relay \o [i \in 1..(Len(log) - p + 1) |-> p + i - 1]
    BY <1>5 DEF RelayReplays
  <2> DEFINE again == [i \in 1..(Len(log) - p + 1) |-> p + i - 1]
             m == Len(log) - p + 1
  <2>2. UNCHANGED <<log, mysql>>
    BY <1>5 DEF RelayReplays
  <2>3. m \in Nat /\ again \in [1..m -> 1..Len(log)] /\ \A i \in 1..m : again[i] = p + i - 1
    BY <1>1
  <2>4. again \in Seq(1..Len(log)) /\ Len(again) = m
    <3> HIDE DEF again, m
    <3> QED
      BY <2>3, SeqDef
  <2> HIDE DEF again, m
  <2>5. relay' = relay \o again
    BY <2>1 DEF again
  <2>6. /\ relay' \in Seq(1..Len(log)) /\ Len(relay') = Len(relay) + m
        /\ \A i \in 1..(Len(relay) + m) :
             relay'[i] = IF i <= Len(relay) THEN relay[i] ELSE again[i - Len(relay)]
    BY <1>1, <2>4, <2>5, ConcatProperties
  <2>7. \A n \in 1..Len(log) : \E i \in 1..Len(relay) : relay'[i] = n
    <3> SUFFICES ASSUME NEW n \in 1..Len(log) PROVE \E i \in 1..Len(relay) : relay'[i] = n
      OBVIOUS
    <3>1. PICK i \in DOMAIN relay : relay[i] = n
      BY <1>2
    <3>2. i \in 1..Len(relay) /\ i \in 1..(Len(relay) + m)
      BY <1>1, <2>3
    <3> QED
      BY <2>6, <3>1, <3>2
  <2>8. \A n \in 1..Len(log) : \E i \in DOMAIN relay' : relay'[i] = n
    <3>1. 1..Len(relay) \subseteq DOMAIN relay'
      BY <1>1, <2>3, <2>6
    <3> QED
      BY <2>7, <3>1
  <2>9. \A i \in DOMAIN relay' : \A n \in 1..(relay'[i] - 1) :
          \E j \in 1..(i - 1) : relay'[j] = n
    <3> SUFFICES ASSUME NEW i \in DOMAIN relay', NEW n \in 1..(relay'[i] - 1)
                 PROVE  \E j \in 1..(i - 1) : relay'[j] = n
      OBVIOUS
    <3>1. i \in 1..(Len(relay) + m) /\ relay'[i] \in 1..Len(log) /\ n \in 1..Len(log)
      BY <1>1, <2>6
    <3>2. CASE i <= Len(relay)
      <4>1. i \in DOMAIN relay /\ relay'[i] = relay[i]
        BY <1>1, <2>6, <3>1, <3>2
      <4>2. PICK j \in 1..(i - 1) : relay[j] = n
        BY <1>2, <4>1
      <4>3. j \in 1..(Len(relay) + m) /\ j <= Len(relay)
        BY <1>1, <2>3, <3>1, <3>2
      <4> QED
        BY <2>6, <4>2, <4>3
    <3>3. CASE i > Len(relay)
      BY <1>1, <2>7, <3>1, <3>3
    <3> QED
      BY <1>1, <3>1, <3>2, <3>3
  <2> QED
    BY <1>1, <1>2, <1>3, <2>2, <2>6, <2>8, <2>9 DEF SourceTypeOK, SourceInv
<1>6. CASE ~MySQLCommits /\ ~RelayReplays
  <2>1. UNCHANGED source
    BY <1>6 DEF Next, Start, HandleEvent, SkipDuplicate, HandleInsert, HandleErase,
       HandleCreateTable, HandleQuery, HandleDropTable, HandleRenameTable, HandleTruncate,
       QueryRefused, FinishQuery, FinishEvent, Upload, InsertRecords, EraseRecords,
       UploadRefused, UploadDone, ReadNothing, LeaveLoop, Stop, Crash, Raise, vars
  <2> QED
    BY <1>1, <1>2, <1>3, <2>1 DEF source, SourceTypeOK, SourceInv
<1> QED
  BY <1>4, <1>5, <1>6

-----------------------------------------------------------------------------
(* The steps of the process. *)

(* RealtimeInv but for what concerns MySQL and the relay alone. *)
LocalInv ==
    /\ ProcessTypeOK /\ RecordsTypeOK /\ TargetTypeOK
    /\ ReadInv /\ SentInv /\ StructsInv /\ CheckpointSent

LEMMA Unfold ==
    ASSUME RealtimeInv
    PROVE  TypeOK /\ SourceTypeOK /\ SourceInv /\ LocalInv
BY DEF RealtimeInv, LocalInv, TypeOK

(* A new event is the next one of the log. *)
LEMMA NewEventIsNext ==
    ASSUME RealtimeInv, Reading, NextId > non_uploaded
    PROVE  /\ NextId = non_uploaded + 1 /\ NextId \in 1..Len(log)
           /\ reader + 1 \in 1..Len(relay)
           /\ log[NextId] \in Statements /\ Len(log) \in Nat
<1>1. /\ log \in Seq(Statements) /\ relay \in Seq(1..Len(log))
      /\ reader \in 0..Len(relay) /\ non_uploaded \in 0..Len(log)
      /\ Len(log) \in Nat /\ Len(relay) \in Nat
  BY Unfold DEF SourceTypeOK, LocalInv, ProcessTypeOK
<1>2. reader + 1 \in 1..Len(relay) /\ pc = "loop"
  BY <1>1 DEF Reading
<1>3. NextId \in 1..Len(log)
  BY <1>1, <1>2 DEF NextId
<1>4. \A i \in 1..reader : relay[i] <= non_uploaded
  BY <1>2, Unfold DEF LocalInv, ReadInv, Querying
<1>5. NextId <= non_uploaded + 1
  <2> SUFFICES ASSUME non_uploaded + 1 < NextId PROVE FALSE
    BY <1>1, <1>3
  <2>1. non_uploaded + 1 \in 1..(NextId - 1)
    BY <1>1, <1>3
  <2>2. PICK j \in 1..((reader + 1) - 1) : relay[j] = non_uploaded + 1
    <3>1. \A i \in DOMAIN relay : \A n \in 1..(relay[i] - 1) :
            \E j \in 1..(i - 1) : relay[j] = n
      BY Unfold DEF SourceInv
    <3>2. reader + 1 \in DOMAIN relay
      BY <1>1, <1>2
    <3> QED
      BY <2>1, <3>1, <3>2 DEF NextId
  <2>3. j \in 1..reader
    BY <1>1, <2>2
  <2> QED
    BY <1>1, <1>4, <2>2, <2>3
<1> QED
  BY <1>1, <1>2, <1>3, <1>5

(* Structures good for an event are good for the row event after it, and    *)
(* more structures are as good.                                             *)
LEMMA KnowsNext ==
    ASSUME RealtimeInv, NEW S, NEW n \in 0..(Len(log) - 1), Knows(S, n),
           log[n + 1].kind \in RowKinds
    PROVE  Knows(S, n + 1) /\ log[n + 1].table \in S
<1>1. /\ n + 1 \in 1..Len(log) /\ Len(log) \in Nat /\ log[n + 1] \in Statements
      /\ n + 1 \in DOMAIN mysql /\ \A m \in DOMAIN mysql : IsContent(mysql[m])
  BY Unfold DEF SourceTypeOK
<1>2. DOMAIN mysql[n + 1] \subseteq S
  BY DEF Knows, RowKinds, QueryKinds
<1>3. /\ Valid(log[n + 1], mysql[n + 1])
      /\ mysql[(n + 1) + 1] = Effect(log[n + 1], n + 1, mysql[n + 1])
  BY <1>1, Unfold DEF SourceInv
<1>4. /\ DOMAIN Effect(log[n + 1], n + 1, mysql[n + 1]) = DOMAIN mysql[n + 1]
      /\ log[n + 1].table \in DOMAIN mysql[n + 1]
  <2> DEFINE e == log[n + 1]
             c == mysql[n + 1]
  <2>1. /\ e \in Statements /\ IsContent(c) /\ Valid(e, c) /\ n + 1 \in Nat
        /\ e.kind \in RowKinds
    BY <1>1, <1>3
  <2> HIDE DEF e, c
  <2>2. DOMAIN Effect(e, n + 1, c) = DOMAIN c /\ e.table \in DOMAIN c
    BY <2>1, EffectContent DEF RowKinds
  <2> QED
    BY <2>2 DEF e, c
<1> QED
  BY <1>2, <1>3, <1>4 DEF Knows

LEMMA KnowsMore ==
    ASSUME NEW S, NEW T, NEW n, Knows(S, n), S \subseteq T
    PROVE  Knows(T, n)
BY DEF Knows

(* The end of handle_event keeps the invariant when the handler does its    *)
(* part: it sends the event or leaves it in the batch, and structs is good  *)
(* for going on after it.                                                   *)
LEMMA FinishEventStep ==
    ASSUME RealtimeInv, NEW id \in 1..Len(log), id = non_uploaded + 1,
           NEW shown \in 0..Len(log), FinishEvent(id, shown),
           reader' \in 0..Len(relay), \A i \in 1..reader' : relay[i] <= id,
           structs' \subseteq Tables, Knows(structs', id), Knows(structs', last),
           DOMAIN ch' \subseteq Tables,
           \A t \in DOMAIN ch' : ch'[t] \in [Keys -> [val : 0..Len(log), ver : Nat]],
           ins' \in [Tables -> Seq([key : Keys, val : 1..id])],
           del' \in [Tables -> SUBSET Keys],
           sent \subseteq sent', sent' \subseteq 1..Len(log),
           \A n \in 1..id : n \in sent' \/ Batched(n)'
    PROVE  LocalInv'
<1>1. /\ Len(log) \in Nat /\ non_uploaded \in 0..Len(log) /\ last \in 0..non_uploaded
      /\ ret \in {"loop", "query", "stop"} /\ fresh \in BOOLEAN
      /\ versions \in [Tables -> Nat]
      /\ saved \in [last : 0..Len(log), versions : [Tables -> Nat], structs : SUBSET Tables]
      /\ 1..last \subseteq sent /\ 1..saved.last \subseteq sent
      /\ Knows(saved.structs, saved.last)
  BY Unfold DEF SourceTypeOK, LocalInv, ProcessTypeOK, TargetTypeOK, SentInv, CheckpointSent,
     StructsInv
<1>2. /\ non_uploaded' = id /\ UNCHANGED <<source, fresh, last, versions, bounds>>
      /\ \/ pc' = "upload" /\ ret' = "loop" /\ applied' = id /\ UNCHANGED saved
         \/ /\ pc' = "loop" /\ applied' = shown /\ UNCHANGED ret
            /\ \/ saved' = [last |-> last, versions |-> versions, structs |-> structs']
               \/ UNCHANGED saved
  BY DEF FinishEvent, UploadRecords, SaveStateIfRequired, Save
<1>3. UNCHANGED <<log, mysql, relay>>
  BY <1>2 DEF source
<1>4. ProcessTypeOK'
  BY <1>1, <1>2, <1>3 DEF ProcessTypeOK
<1>5. RecordsTypeOK'
  <2>1. applied' \in 0..Len(log)
    BY <1>1, <1>2
  <2> QED
    BY <1>2, <1>3, <2>1 DEF RecordsTypeOK
<1>6. /\ saved' \in [last : 0..Len(log), versions : [Tables -> Nat], structs : SUBSET Tables]
      /\ 1..saved'.last \subseteq sent' /\ Knows(saved'.structs, saved'.last)
  <2>1. CASE UNCHANGED saved
    BY <1>1, <2>1
  <2>2. CASE saved' = [last |-> last, versions |-> versions, structs |-> structs']
    BY <1>1, <2>2
  <2> QED
    BY <1>2, <2>1, <2>2
<1>7. TargetTypeOK'
  BY <1>3, <1>6 DEF TargetTypeOK
<1>8. ReadInv'
  BY <1>2, <1>3 DEF ReadInv, Querying
<1>9. SentInv'
  BY <1>1, <1>2 DEF SentInv
<1>10. StructsInv'
  BY <1>2, <1>3, <1>6 DEF StructsInv, Knows
<1> QED
  BY <1>4, <1>5, <1>6, <1>7, <1>8, <1>9, <1>10 DEF LocalInv, CheckpointSent

(* What the steps start from. *)
LEMMA LocalTypes ==
    ASSUME RealtimeInv
    PROVE  /\ Len(log) \in Nat /\ Len(relay) \in Nat /\ relay \in Seq(1..Len(log))
           /\ reader \in 0..Len(relay) /\ non_uploaded \in 0..Len(log)
           /\ last \in 0..non_uploaded /\ structs \subseteq Tables
           /\ DOMAIN ch \subseteq Tables
           /\ \A t \in DOMAIN ch : ch[t] \in [Keys -> [val : 0..Len(log), ver : Nat]]
           /\ ins \in [Tables -> Seq(Records(non_uploaded))]
           /\ del \in [Tables -> SUBSET Keys]
           /\ sent \subseteq 1..Len(log) /\ applied \in 0..Len(log)
           /\ \A n \in 1..non_uploaded : n \in sent \/ Batched(n)
<1>1. SourceTypeOK /\ ProcessTypeOK /\ RecordsTypeOK /\ TargetTypeOK /\ SentInv
  BY Unfold DEF LocalInv
<1>2. Len(log) \in Nat /\ Len(relay) \in Nat /\ relay \in Seq(1..Len(log))
  BY <1>1 DEF SourceTypeOK
<1>3. ins \in [Tables -> Seq(Records(non_uploaded))]
  BY <1>1 DEF RecordsTypeOK, Records
<1> QED
  BY <1>1, <1>2, <1>3 DEF ProcessTypeOK, RecordsTypeOK, TargetTypeOK, SentInv

(* With a new event, nothing above it has been read. *)
LEMMA ReadSoFar ==
    ASSUME RealtimeInv, Reading, NextId > non_uploaded
    PROVE  \A i \in 1..(reader + 1) : relay[i] <= NextId
<1>1. NextId = non_uploaded + 1 /\ NextId \in Nat /\ relay[reader + 1] = NextId
  BY NewEventIsNext DEF NextId
<1>2. \A i \in 1..reader : relay[i] <= non_uploaded
  BY Unfold DEF LocalInv, ReadInv, Querying, Reading
<1>3. \A i \in 1..reader : relay[i] \in Nat
  BY LocalTypes
<1>4. \A i \in 1..reader : relay[i] <= NextId
  <2> HIDE DEF NextId
  <2> QED
    BY <1>1, <1>2, <1>3, LocalTypes
<1>5. \A i \in 1..(reader + 1) : i \in 1..reader \/ i = reader + 1
  BY LocalTypes
<1> QED
  BY <1>1, <1>4, <1>5

(* What waits in the batch is about a row of some table. *)
LEMMA BatchedTypes ==
    ASSUME RealtimeInv, NEW n \in 1..non_uploaded
    PROVE  n \in 1..Len(log) /\ log[n].table \in Tables
<1>1. n \in 1..Len(log)
  BY LocalTypes
<1>2. log[n] \in Statements
  BY <1>1, Unfold DEF SourceTypeOK
<1> QED
  BY <1>1, <1>2, StatementTypes

LEMMA InsertStep == RealtimeInv /\ HandleInsert => LocalInv'
<1> SUFFICES ASSUME RealtimeInv, HandleInsert PROVE LocalInv'
  OBVIOUS
<1> DEFINE e == log[NextId]
           id == NextId
           k == RecordId(e)
<1>1. /\ Reading /\ NextId > non_uploaded /\ e.kind \in {"insert", "rekey"}
      /\ e.table \in structs /\ reader' = reader + 1
      /\ ins' = [ins EXCEPT ![e.table] = Put(@, k, id)]
      /\ del' = [del EXCEPT ![e.table] = @ \ {k}]
      /\ UNCHANGED <<ch, structs, sent>> /\ FinishEvent(id, applied)
  BY DEF HandleInsert, NewEvent
<1>2. /\ id = non_uploaded + 1 /\ id \in 1..Len(log) /\ e \in Statements
      /\ reader' \in 1..Len(relay)
  BY <1>1, NewEventIsNext
<1>3. k \in Keys /\ e.table \in Tables /\ e.kind \in RowKinds
  BY <1>1, <1>2, StatementTypes DEF RowKinds
<1>4. UNCHANGED log
  BY <1>1 DEF FinishEvent, source
<1>5. \A i \in 1..reader' : relay[i] <= id
  BY <1>1, ReadSoFar
<1> HIDE DEF e, id, k
<1>6. /\ Put(ins[e.table], k, id) \in Seq(Records(id))
      /\ \A i \in DOMAIN ins[e.table] : \E j \in DOMAIN Put(ins[e.table], k, id) :
           /\ Put(ins[e.table], k, id)[j].key = ins[e.table][i].key
           /\ Put(ins[e.table], k, id)[j].val >= ins[e.table][i].val
      /\ \E j \in DOMAIN Put(ins[e.table], k, id) :
           Put(ins[e.table], k, id)[j].key = k /\ Put(ins[e.table], k, id)[j].val >= id
  <2>1. non_uploaded \in Nat /\ id \in Nat /\ non_uploaded < id
    BY <1>2, LocalTypes
  <2>2. ins[e.table] \in Seq(Records(non_uploaded))
    BY <1>3, LocalTypes
  <2> QED
    BY <1>3, <2>1, <2>2, PutRecord
<1>7. ins' \in [Tables -> Seq(Records(id))] /\ del' \in [Tables -> SUBSET Keys]
  <2>1. Records(non_uploaded) \subseteq Records(id)
    BY <1>2, LocalTypes DEF Records
  <2>2. \A t \in Tables : ins[t] \in Seq(Records(id))
    BY <2>1, LocalTypes, SeqMonotonic
  <2> QED
    BY <1>1, <1>3, <1>6, <2>2, LocalTypes
<1>8. ASSUME NEW n \in 1..id PROVE n \in sent' \/ Batched(n)'
  <2>1. ins'[e.table] = Put(ins[e.table], k, id) /\ del'[e.table] = del[e.table] \ {k}
    BY <1>1, <1>3, LocalTypes
  <2>2. \A t \in Tables \ {e.table} : ins'[t] = ins[t] /\ del'[t] = del[t]
    BY <1>1, LocalTypes
  <2>3. CASE n = id
    BY <1>3, <1>4, <1>6, <2>1, <2>3 DEF Batched, e, id, k
  <2>4. CASE n # id
    <3>1. n \in 1..non_uploaded
      BY <1>2, <2>4, LocalTypes
    <3>2. CASE n \in sent
      BY <1>1, <3>2
    <3>3. CASE Batched(n)
      <4> DEFINE t == log[n].table
                 l == RecordId(log[n])
      <4>1. t \in Tables /\ log[n].kind \in RowKinds /\ log'[n] = log[n]
        BY <1>4, <3>1, <3>3, BatchedTypes DEF Batched
      <4>2. \/ \E i \in DOMAIN ins[t] : ins[t][i].key = l /\ ins[t][i].val >= n
            \/ l \in del[t]
        BY <3>3 DEF Batched
      <4> HIDE DEF t, l
      <4>3. \/ \E i \in DOMAIN ins'[t] : ins'[t][i].key = l /\ ins'[t][i].val >= n
            \/ l \in del'[t]
        <5>1. CASE t # e.table
          BY <2>2, <4>1, <4>2, <5>1
        <5>2. CASE t = e.table /\ l \in del[t]
          <6>1. n <= id
            BY <1>2, <3>1, LocalTypes
          <6>2. CASE l = k
            <7>1. PICK j \in DOMAIN ins'[t] : ins'[t][j].key = k /\ ins'[t][j].val >= id
              BY <1>6, <2>1, <5>2
            <7>2. ins'[t][j].val \in Nat
              <8>1. ins'[t][j] \in Records(id)
                BY <1>7, <4>1, <7>1
              <8> QED
                BY <8>1 DEF Records
            <7>3. ins'[t][j].val >= n
              BY <1>2, <6>1, <7>1, <7>2, LocalTypes
            <7> QED
              BY <6>2, <7>1, <7>3
          <6>3. CASE l # k
            BY <2>1, <5>2, <6>3
          <6> QED
            BY <6>2, <6>3
        <5>3. CASE t = e.table /\ l \notin del[t]
          <6>1. PICK i \in DOMAIN ins[t] : ins[t][i].key = l /\ ins[t][i].val >= n
            BY <4>2, <5>3
          <6>2. PICK j \in DOMAIN ins'[t] :
                  ins'[t][j].key = ins[t][i].key /\ ins'[t][j].val >= ins[t][i].val
            BY <1>6, <2>1, <5>3
          <6>3. ins'[t][j] \in Records(id) /\ ins[t][i] \in Records(non_uploaded)
            BY <1>7, <4>1, LocalTypes
          <6>4. ins'[t][j].val \in Nat /\ ins[t][i].val \in Nat
            BY <6>3 DEF Records
          <6>5. ins'[t][j].val >= n
            BY <3>1, <6>1, <6>2, <6>4
          <6> QED
            BY <6>1, <6>2, <6>5
        <5> QED
          BY <5>1, <5>2, <5>3
      <4> QED
        BY <4>1, <4>3 DEF Batched, t, l
    <3> QED
      BY <3>1, <3>2, <3>3, LocalTypes
  <2> QED
    BY <2>3, <2>4
<1>9. Knows(structs, non_uploaded) /\ Knows(structs, last)
  BY <1>1, Unfold DEF LocalInv, StructsInv, Reading
<1>10. Knows(structs, id)
  <2>1. non_uploaded \in 0..(Len(log) - 1) /\ log[non_uploaded + 1].kind \in RowKinds
    BY <1>2, <1>3, LocalTypes DEF e, id
  <2> QED
    BY <1>2, <1>9, <2>1, KnowsNext
<1>11. /\ reader' \in 0..Len(relay) /\ structs' \subseteq Tables /\ DOMAIN ch' \subseteq Tables
       /\ \A t \in DOMAIN ch' : ch'[t] \in [Keys -> [val : 0..Len(log), ver : Nat]]
       /\ sent \subseteq sent' /\ sent' \subseteq 1..Len(log) /\ applied \in 0..Len(log)
       /\ Knows(structs', id) /\ Knows(structs', last)
  BY <1>1, <1>2, <1>9, <1>10, LocalTypes
<1>12. ins' \in [Tables -> Seq([key : Keys, val : 1..id])] /\ del' \in [Tables -> SUBSET Keys]
  BY <1>7 DEF Records
<1> QED
  BY <1>1, <1>2, <1>5, <1>8, <1>11, <1>12, FinishEventStep

LEMMA EraseStep == RealtimeInv /\ HandleErase => LocalInv'
<1> SUFFICES ASSUME RealtimeInv, HandleErase PROVE LocalInv'
  OBVIOUS
<1> DEFINE e == log[NextId]
           id == NextId
<1>1. /\ Reading /\ NextId > non_uploaded /\ e.kind = "delete"
      /\ reader' = reader + 1
      /\ del' = [del EXCEPT ![e.table] = @ \cup {e.key}]
      /\ ins' = [ins EXCEPT ![e.table] = Pop(@, e.key)]
      /\ UNCHANGED <<ch, structs, sent>> /\ FinishEvent(id, applied)
  BY DEF HandleErase, NewEvent
<1>2. /\ id = non_uploaded + 1 /\ id \in 1..Len(log) /\ e \in Statements
      /\ reader' \in 1..Len(relay)
  BY <1>1, NewEventIsNext
<1>3. e.key \in Keys /\ e.table \in Tables /\ e.kind \in RowKinds /\ RecordId(e) = e.key
  BY <1>1, <1>2, StatementTypes DEF RowKinds, RecordId
<1>4. UNCHANGED log
  BY <1>1 DEF FinishEvent, source
<1>5. \A i \in 1..reader' : relay[i] <= id
  BY <1>1, ReadSoFar
<1> HIDE DEF e, id
<1>6. /\ Pop(ins[e.table], e.key) \in Seq(Records(non_uploaded))
      /\ \A i \in DOMAIN ins[e.table] :
           \/ ins[e.table][i].key = e.key
           \/ \E j \in DOMAIN Pop(ins[e.table], e.key) :
                Pop(ins[e.table], e.key)[j] = ins[e.table][i]
  <2>1. ins[e.table] \in Seq(Records(non_uploaded))
    BY <1>3, LocalTypes
  <2> QED
    BY <2>1, PopRecord
<1>7. ins' \in [Tables -> Seq(Records(id))] /\ del' \in [Tables -> SUBSET Keys]
  <2>1. Records(non_uploaded) \subseteq Records(id)
    BY <1>2, LocalTypes DEF Records
  <2>2. \A t \in Tables : ins'[t] \in Seq(Records(non_uploaded))
    BY <1>1, <1>3, <1>6, LocalTypes
  <2>3. \A t \in Tables : ins'[t] \in Seq(Records(id))
    BY <2>1, <2>2, SeqMonotonic
  <2> QED
    BY <1>1, <1>3, <2>3, LocalTypes
<1>8. ASSUME NEW n \in 1..id PROVE n \in sent' \/ Batched(n)'
  <2>1. /\ ins'[e.table] = Pop(ins[e.table], e.key)
        /\ del'[e.table] = del[e.table] \cup {e.key}
    BY <1>1, <1>3, LocalTypes
  <2>2. \A t \in Tables \ {e.table} : ins'[t] = ins[t] /\ del'[t] = del[t]
    BY <1>1, LocalTypes
  <2>3. CASE n = id
    BY <1>3, <1>4, <2>1, <2>3 DEF Batched, e, id
  <2>4. CASE n # id
    <3>1. n \in 1..non_uploaded
      BY <1>2, <2>4, LocalTypes
    <3>2. CASE n \in sent
      BY <1>1, <3>2
    <3>3. CASE Batched(n)
      <4> DEFINE t == log[n].table
                 l == RecordId(log[n])
      <4>1. t \in Tables /\ log[n].kind \in RowKinds /\ log'[n] = log[n]
        BY <1>4, <3>1, <3>3, BatchedTypes DEF Batched
      <4>2. \/ \E i \in DOMAIN ins[t] : ins[t][i].key = l /\ ins[t][i].val >= n
            \/ l \in del[t]
        BY <3>3 DEF Batched
      <4> HIDE DEF t, l
      <4>3. \/ \E i \in DOMAIN ins'[t] : ins'[t][i].key = l /\ ins'[t][i].val >= n
            \/ l \in del'[t]
        BY <1>6, <2>1, <2>2, <4>1, <4>2
      <4> QED
        BY <4>1, <4>3 DEF Batched, t, l
    <3> QED
      BY <3>1, <3>2, <3>3, LocalTypes
  <2> QED
    BY <2>3, <2>4
<1>9. Knows(structs, non_uploaded) /\ Knows(structs, last)
  BY <1>1, Unfold DEF LocalInv, StructsInv, Reading
<1>10. Knows(structs, id)
  <2>1. non_uploaded \in 0..(Len(log) - 1) /\ log[non_uploaded + 1].kind \in RowKinds
    BY <1>2, <1>3, LocalTypes DEF e, id
  <2> QED
    BY <1>2, <1>9, <2>1, KnowsNext
<1>11. /\ reader' \in 0..Len(relay) /\ structs' \subseteq Tables /\ DOMAIN ch' \subseteq Tables
       /\ \A t \in DOMAIN ch' : ch'[t] \in [Keys -> [val : 0..Len(log), ver : Nat]]
       /\ sent \subseteq sent' /\ sent' \subseteq 1..Len(log) /\ applied \in 0..Len(log)
       /\ Knows(structs', id) /\ Knows(structs', last)
  BY <1>1, <1>2, <1>9, <1>10, LocalTypes
<1>12. ins' \in [Tables -> Seq([key : Keys, val : 1..id])] /\ del' \in [Tables -> SUBSET Keys]
  BY <1>7 DEF Records
<1> QED
  BY <1>1, <1>2, <1>5, <1>8, <1>11, <1>12, FinishEventStep

LEMMA CreateStep == RealtimeInv /\ HandleCreateTable => LocalInv'
<1> SUFFICES ASSUME RealtimeInv, HandleCreateTable PROVE LocalInv'
  OBVIOUS
<1> DEFINE e == log[NextId]
           id == NextId
<1>1. /\ Reading /\ NextId > non_uploaded /\ e.kind = "create"
      /\ reader' = reader + 1
      /\ structs' = structs \cup {e.table}
      /\ ch' = IF e.table \in DOMAIN ch THEN ch ELSE With(ch, e.table, EmptyTable)
      /\ sent' = sent \cup {id}
      /\ UNCHANGED <<ins, del>> /\ FinishEvent(id, applied)
  BY DEF HandleCreateTable, NewEvent
<1>2. /\ id = non_uploaded + 1 /\ id \in 1..Len(log) /\ e \in Statements
      /\ reader' \in 1..Len(relay)
  BY <1>1, NewEventIsNext
<1>3. e.table \in Tables
  BY <1>2, StatementTypes
<1>4. UNCHANGED log
  BY <1>1 DEF FinishEvent, source
<1>5. \A i \in 1..reader' : relay[i] <= id
  BY <1>1, ReadSoFar
<1>6. DOMAIN ch' \subseteq Tables
      /\ \A t \in DOMAIN ch' : ch'[t] \in [Keys -> [val : 0..Len(log), ver : Nat]]
  <2>1. EmptyTable \in [Keys -> [val : 0..Len(log), ver : Nat]]
    BY LocalTypes DEF EmptyTable, NoRow, None
  <2> HIDE DEF e
  <2> QED
    BY <1>1, <1>3, <2>1, LocalTypes DEF With
<1>7. Knows(structs, non_uploaded) /\ Knows(structs, last)
  BY <1>1, Unfold DEF LocalInv, StructsInv, Reading
<1>8. Knows(structs', id) /\ Knows(structs', last)
  <2>1. DOMAIN mysql[id] \subseteq structs
    BY <1>1, <1>2, <1>7 DEF Knows
  <2>2. /\ Valid(e, mysql[id]) /\ mysql[id + 1] = Effect(e, id, mysql[id])
        /\ IsContent(mysql[id]) /\ id \in Nat
    BY <1>2, Unfold DEF SourceInv, SourceTypeOK
  <2> HIDE DEF e, id
  <2>3. DOMAIN Effect(e, id, mysql[id]) = DOMAIN mysql[id] \cup {e.table}
    BY <1>1, <1>2, <2>2, EffectContent
  <2>4. Knows(structs', id)
    BY <1>1, <2>1, <2>2, <2>3 DEF Knows
  <2> QED
    BY <1>1, <1>7, <2>4, KnowsMore
<1> HIDE DEF e, id
<1>9. ins \in [Tables -> Seq(Records(id))]
  <2>1. Records(non_uploaded) \subseteq Records(id)
    BY <1>2, LocalTypes DEF Records
  <2> QED
    BY <2>1, LocalTypes, SeqMonotonic
<1>10. ASSUME NEW n \in 1..id PROVE n \in sent' \/ Batched(n)'
  <2>1. n = id \/ n \in 1..non_uploaded
    BY <1>2, LocalTypes
  <2>2. Batched(n) => Batched(n)'
    BY <1>1, <1>4 DEF Batched
  <2> QED
    BY <1>1, <2>1, <2>2, LocalTypes
<1>11. /\ reader' \in 0..Len(relay) /\ structs' \subseteq Tables /\ applied \in 0..Len(log)
       /\ sent \subseteq sent' /\ sent' \subseteq 1..Len(log)
       /\ del' \in [Tables -> SUBSET Keys]
  BY <1>1, <1>2, <1>3, LocalTypes
<1>12. ins' \in [Tables -> Seq([key : Keys, val : 1..id])]
  BY <1>1, <1>9 DEF Records
<1> QED
  BY <1>1, <1>2, <1>5, <1>6, <1>8, <1>10, <1>11, <1>12, FinishEventStep

(* A query event is executed: nothing waits for an upload, and the event    *)
(* is the next one of the log.                                              *)
LEMMA QueryFacts ==
    ASSUME RealtimeInv, pc = "query", NEW id, id = relay[reader]
    PROVE  /\ reader \in 1..Len(relay) /\ id \in 1..Len(log) /\ id = non_uploaded + 1
           /\ log[id] \in Statements /\ log[id].kind \in QueryKinds \ {"create"}
           /\ log[id].table \in Tables
           /\ \A i \in 1..reader : relay[i] <= id
           /\ last = non_uploaded /\ ins = NoRecords /\ del = NoKeys
           /\ 1..non_uploaded \subseteq sent
           /\ IsContent(mysql[id]) /\ Valid(log[id], mysql[id])
           /\ mysql[id + 1] = Effect(log[id], id, mysql[id])
           /\ DOMAIN mysql[id] \subseteq structs \/ DOMAIN mysql[id + 1] \subseteq structs
<1>1. /\ reader # 0 /\ relay[reader] = non_uploaded + 1
      /\ Query.kind \in QueryKinds \ {"create"}
      /\ \A i \in 1..(reader - 1) : relay[i] <= non_uploaded
      /\ last = non_uploaded /\ ins = NoRecords /\ del = NoKeys
  BY Unfold DEF LocalInv, ReadInv, Querying
<1>2. reader \in 1..Len(relay) /\ id \in 1..Len(log) /\ id = non_uploaded + 1
  BY <1>1, LocalTypes
<1>3. log[id] \in Statements /\ log[id].kind \in QueryKinds \ {"create"}
  BY <1>1, <1>2, Unfold DEF SourceTypeOK, Query
<1>4. \A i \in 1..reader : relay[i] <= id
  <2>1. \A i \in 1..reader : i \in 1..(reader - 1) \/ i = reader
    BY <1>2, LocalTypes
  <2>2. \A i \in 1..reader : relay[i] \in Nat
    BY LocalTypes
  <2>3. ASSUME NEW i \in 1..reader PROVE relay[i] <= id
    BY <1>1, <1>2, <2>1, <2>2, LocalTypes
  <2> QED
    BY <2>3
<1>5. 1..non_uploaded \subseteq sent
  BY <1>1, Unfold DEF LocalInv, SentInv
<1>6. /\ IsContent(mysql[id]) /\ Valid(log[id], mysql[id])
      /\ mysql[id + 1] = Effect(log[id], id, mysql[id])
  BY <1>2, Unfold DEF SourceInv, SourceTypeOK
<1>7. DOMAIN mysql[id] \subseteq structs \/ DOMAIN mysql[id + 1] \subseteq structs
  <2>1. Knows(structs, non_uploaded)
    BY Unfold DEF LocalInv, StructsInv
  <2>2. non_uploaded + 2 = id + 1 /\ non_uploaded + 1 = id
    BY <1>2, LocalTypes
  <2> QED
    BY <2>1, <2>2 DEF Knows
<1> QED
  BY <1>1, <1>2, <1>3, <1>4, <1>5, <1>6, <1>7, StatementTypes

(* It is enough that structs gets the tables after the event.               *)
LEMMA QueryDone ==
    ASSUME RealtimeInv, pc = "query", FinishQuery, NEW id, id = relay[reader],
           structs' \subseteq Tables, DOMAIN mysql[id + 1] \subseteq structs',
           DOMAIN ch' \subseteq Tables,
           \A t \in DOMAIN ch' : ch'[t] \in [Keys -> [val : 0..Len(log), ver : Nat]],
           ins' = NoRecords, del' = NoKeys
    PROVE  LocalInv'
<1>1. /\ reader \in 1..Len(relay) /\ id \in 1..Len(log) /\ id = non_uploaded + 1
      /\ log[id].kind \in QueryKinds \ {"create"} /\ \A i \in 1..reader : relay[i] <= id
      /\ last = non_uploaded /\ 1..non_uploaded \subseteq sent
  BY QueryFacts
<1>2. sent' = sent \cup {id} /\ FinishEvent(id, id) /\ reader' = reader
  BY DEF FinishQuery
<1>3. Knows(structs', id) /\ Knows(structs', last)
  <2>1. Knows(structs', id)
    BY DEF Knows
  <2>2. last < Len(log) /\ last + 1 = id /\ last + 2 = id + 1
    BY <1>1, LocalTypes
  <2>3. Knows(structs', last)
    BY <1>1, <2>2 DEF Knows
  <2> QED
    BY <2>1, <2>3
<1>4. ASSUME NEW n \in 1..id PROVE n \in sent'
  <2>1. n = id \/ n \in 1..non_uploaded
    BY <1>1, LocalTypes
  <2> QED
    BY <1>1, <1>2, <2>1
<1>5. /\ reader' \in 0..Len(relay) /\ sent \subseteq sent' /\ sent' \subseteq 1..Len(log)
      /\ \A i \in 1..reader' : relay[i] <= id
      /\ id \in 0..Len(log)
  BY <1>1, <1>2, LocalTypes
<1>6. ins' \in [Tables -> Seq([key : Keys, val : 1..id])]
  <2>1. <<>> \in Seq([key : Keys, val : 1..id])
    OBVIOUS
  <2> QED
    BY <2>1 DEF NoRecords
<1>7. del' \in [Tables -> SUBSET Keys]
  BY DEF NoKeys
<1> QED
  BY <1>1, <1>2, <1>3, <1>4, <1>5, <1>6, <1>7, FinishEventStep

LEMMA DropStep == RealtimeInv /\ HandleDropTable => LocalInv'
<1> SUFFICES ASSUME RealtimeInv, HandleDropTable PROVE LocalInv'
  OBVIOUS
<1> DEFINE id == relay[reader]
           e == log[id]
<1>1. /\ pc = "query" /\ e.kind \in {"drop", "drop if exists"}
      /\ structs' = structs \ {e.table} /\ ch' = Without(ch, e.table)
      /\ UNCHANGED <<ins, del>> /\ FinishQuery
  BY DEF HandleDropTable, Executing, Query
<1> HIDE DEF e
<1>2. DOMAIN mysql[id + 1] \subseteq structs'
  <2>1. /\ e \in Statements /\ IsContent(mysql[id]) /\ Valid(e, mysql[id])
        /\ mysql[id + 1] = Effect(e, id, mysql[id])
        /\ DOMAIN mysql[id] \subseteq structs \/ DOMAIN mysql[id + 1] \subseteq structs
        /\ id \in 1..Len(log)
    BY <1>1, QueryFacts DEF e
  <2> HIDE DEF id
  <2>2. DOMAIN Effect(e, id, mysql[id]) = DOMAIN mysql[id] \ {e.table}
    <3>1. id \in Nat
      BY <2>1, LocalTypes
    <3>2. e.kind = "drop" \/ e.kind = "drop if exists"
      BY <1>1
    <3> QED
      BY <2>1, <3>1, <3>2, EffectContent
  <2> QED
    BY <1>1, <2>1, <2>2
<1>3. /\ DOMAIN ch' \subseteq Tables
      /\ \A t \in DOMAIN ch' : ch'[t] \in [Keys -> [val : 0..Len(log), ver : Nat]]
  BY <1>1, LocalTypes DEF Without
<1>4. structs' \subseteq Tables /\ ins' = NoRecords /\ del' = NoKeys
  BY <1>1, QueryFacts, LocalTypes
<1> QED
  BY <1>1, <1>2, <1>3, <1>4, QueryDone

LEMMA RenameStep == RealtimeInv /\ HandleRenameTable => LocalInv'
<1> SUFFICES ASSUME RealtimeInv, HandleRenameTable PROVE LocalInv'
  OBVIOUS
<1> DEFINE id == relay[reader]
           e == log[id]
<1>1. /\ pc = "query" /\ e.kind = "rename" /\ e.table \in DOMAIN ch
      /\ structs' = IF e.table \in structs
                    THEN (structs \ {e.table}) \cup {e.to} ELSE structs
      /\ ch' = Moved(ch, e.table, e.to)
      /\ UNCHANGED <<ins, del>> /\ FinishQuery
  BY DEF HandleRenameTable, Executing, Query
<1> HIDE DEF e
<1>2. e \in Statements /\ e.to \in Tables
  BY <1>1, QueryFacts, StatementTypes DEF e
<1>3. DOMAIN mysql[id + 1] \subseteq structs'
  <2>1. /\ id \in Nat /\ IsContent(mysql[id]) /\ Valid(e, mysql[id])
        /\ mysql[id + 1] = Effect(e, id, mysql[id])
        /\ DOMAIN mysql[id] \subseteq structs \/ DOMAIN mysql[id + 1] \subseteq structs
    BY <1>1, QueryFacts, LocalTypes DEF e
  <2> HIDE DEF id
  <2>2. /\ DOMAIN Effect(e, id, mysql[id]) = (DOMAIN mysql[id] \ {e.table}) \cup {e.to}
        /\ e.table \in DOMAIN mysql[id] /\ e.to \notin DOMAIN mysql[id]
    BY <1>1, <1>2, <2>1, EffectContent
  <2> QED
    BY <1>1, <2>1, <2>2
<1>4. /\ DOMAIN ch' \subseteq Tables
      /\ \A t \in DOMAIN ch' : ch'[t] \in [Keys -> [val : 0..Len(log), ver : Nat]]
  BY <1>1, <1>2, LocalTypes DEF Moved
<1>5. structs' \subseteq Tables /\ ins' = NoRecords /\ del' = NoKeys
  BY <1>1, <1>2, QueryFacts, LocalTypes
<1> QED
  BY <1>1, <1>3, <1>4, <1>5, QueryDone

LEMMA TruncateStep == RealtimeInv /\ HandleTruncate => LocalInv'
<1> SUFFICES ASSUME RealtimeInv, HandleTruncate PROVE LocalInv'
  OBVIOUS
<1> DEFINE id == relay[reader]
           e == log[id]
<1>1. /\ pc = "query" /\ e.kind = "truncate" /\ UNCHANGED structs /\ FinishQuery
      /\ IF e.table \in structs
         THEN /\ ch' = [ch EXCEPT ![e.table] = EmptyTable]
              /\ ins' = [ins EXCEPT ![e.table] = <<>>]
              /\ del' = [del EXCEPT ![e.table] = {}]
         ELSE UNCHANGED <<ch, ins, del>>
  BY DEF HandleTruncate, Executing, Query
<1> HIDE DEF e
<1>2. e \in Statements
  BY <1>1, QueryFacts DEF e
<1>3. DOMAIN mysql[id + 1] \subseteq structs'
  <2>1. /\ id \in Nat /\ IsContent(mysql[id]) /\ Valid(e, mysql[id])
        /\ mysql[id + 1] = Effect(e, id, mysql[id])
        /\ DOMAIN mysql[id] \subseteq structs \/ DOMAIN mysql[id + 1] \subseteq structs
    BY <1>1, QueryFacts, LocalTypes DEF e
  <2> HIDE DEF id
  <2>2. DOMAIN Effect(e, id, mysql[id]) = DOMAIN mysql[id]
    BY <1>1, <1>2, <2>1, EffectContent
  <2> QED
    BY <1>1, <2>1, <2>2
<1>4. /\ DOMAIN ch' \subseteq Tables
      /\ \A t \in DOMAIN ch' : ch'[t] \in [Keys -> [val : 0..Len(log), ver : Nat]]
  <2>1. EmptyTable \in [Keys -> [val : 0..Len(log), ver : Nat]]
    BY LocalTypes DEF EmptyTable, NoRow, None
  <2> QED
    BY <1>1, <2>1, LocalTypes
<1>5. ins' = NoRecords /\ del' = NoKeys
  BY <1>1, QueryFacts DEF NoRecords, NoKeys
<1>6. structs' \subseteq Tables
  BY <1>1, LocalTypes
<1> QED
  BY <1>1, <1>3, <1>4, <1>5, <1>6, QueryDone

(* Nothing but the place in the code, the reader, the timers and the       *)
(* counters changes.                                                       *)
LEMMA DataUnchanged ==
    ASSUME RealtimeInv, pc # "down", pc' # "down", applied' \in 0..Len(log),
           UNCHANGED <<log, mysql, ch, saved, last, non_uploaded, structs, ins, del, sent>>
    PROVE  RecordsTypeOK' /\ TargetTypeOK' /\ SentInv' /\ StructsInv' /\ CheckpointSent'
<1>1. RecordsTypeOK /\ TargetTypeOK /\ SentInv /\ StructsInv /\ CheckpointSent
  BY Unfold DEF LocalInv
<1>2. RecordsTypeOK' /\ TargetTypeOK' /\ CheckpointSent'
  BY <1>1 DEF RecordsTypeOK, TargetTypeOK, CheckpointSent
<1>3. SentInv'
  BY <1>1 DEF SentInv, Batched
<1>4. StructsInv'
  BY <1>1 DEF StructsInv, Knows
<1> QED
  BY <1>2, <1>3, <1>4

LEMMA SkipStep == RealtimeInv /\ SkipDuplicate => LocalInv'
<1> SUFFICES ASSUME RealtimeInv, SkipDuplicate PROVE LocalInv'
  OBVIOUS
<1>1. /\ Reading /\ NextId <= non_uploaded /\ reader' = reader + 1
      /\ UNCHANGED <<log, mysql, relay, ch, saved, pc, ret, fresh, last, non_uploaded,
                     versions, structs, ins, del, sent, applied>>
  BY DEF SkipDuplicate, source, history
<1>2. ProcessTypeOK /\ ReadInv /\ applied \in 0..Len(log)
  BY Unfold, LocalTypes DEF LocalInv
<1>3. reader' \in 0..Len(relay) /\ pc = "loop"
  BY <1>1, LocalTypes DEF Reading
<1>4. \A i \in 1..reader' : relay[i] <= non_uploaded
  <2>1. \A i \in 1..reader : relay[i] <= non_uploaded
    BY <1>2, <1>3 DEF ReadInv, Querying
  <2>2. \A i \in 1..reader' : i \in 1..reader \/ i = reader + 1
    BY <1>1, LocalTypes
  <2> QED
    BY <1>1, <2>1, <2>2 DEF NextId
<1>5. ProcessTypeOK'
  BY <1>1, <1>2, <1>3 DEF ProcessTypeOK
<1>6. ReadInv'
  BY <1>1, <1>2, <1>3, <1>4 DEF ReadInv, Querying
<1> QED
  BY <1>1, <1>2, <1>3, <1>5, <1>6, DataUnchanged DEF LocalInv

LEMMA QueryStep == RealtimeInv /\ HandleQuery => LocalInv'
<1> SUFFICES ASSUME RealtimeInv, HandleQuery PROVE LocalInv'
  OBVIOUS
<1>1. /\ Reading /\ NextId > non_uploaded /\ log[NextId].kind \in QueryKinds \ {"create"}
      /\ reader' = reader + 1 /\ pc' = "upload" /\ ret' = "query"
      /\ applied' = non_uploaded
      /\ UNCHANGED <<log, mysql, relay, ch, saved, fresh, last, non_uploaded,
                     versions, structs, ins, del, sent>>
  BY DEF HandleQuery, NewEvent, UploadRecords, source
<1>2. ProcessTypeOK /\ ReadInv
  BY Unfold DEF LocalInv
<1>3. NextId = non_uploaded + 1 /\ reader' \in 1..Len(relay) /\ pc = "loop"
  BY <1>1, NewEventIsNext DEF Reading
<1>4. \A i \in 1..reader : relay[i] <= non_uploaded
  BY <1>2, <1>3 DEF ReadInv, Querying
<1>5. reader' - 1 = reader /\ reader' # 0 /\ reader' \in 0..Len(relay)
  <2>1. reader \in Nat /\ Len(relay) \in Nat
    BY LocalTypes
  <2> QED
    BY <1>1, <1>3, <2>1
<1>6. relay'[reader'] = non_uploaded' + 1 /\ log'[relay'[reader']] = log[NextId]
  BY <1>1, <1>3 DEF NextId
<1>7. ProcessTypeOK'
  BY <1>1, <1>2, <1>5 DEF ProcessTypeOK
<1>8. ReadInv'
  BY <1>1, <1>4, <1>5, <1>6 DEF ReadInv, Querying, Query
<1>9. applied' \in 0..Len(log)
  BY <1>1, LocalTypes
<1> QED
  BY <1>1, <1>3, <1>7, <1>8, <1>9, DataUnchanged DEF LocalInv

LEMMA UploadBegins ==
    ASSUME RealtimeInv, pc = "loop", NEW return \in {"loop", "stop"},
           UploadRecords(return, non_uploaded),
           UNCHANGED <<source, ch, saved, memory, sent>>
    PROVE  LocalInv'
<1>1. /\ pc' = "upload" /\ ret' = return /\ applied' = non_uploaded
      /\ UNCHANGED <<log, mysql, relay, ch, saved, fresh, reader, last, non_uploaded,
                     versions, structs, ins, del, sent>>
  BY DEF UploadRecords, source, memory
<1>2. ProcessTypeOK /\ ReadInv
  BY Unfold DEF LocalInv
<1>3. ProcessTypeOK' /\ ReadInv'
  BY <1>1, <1>2 DEF ProcessTypeOK, ReadInv, Querying
<1>4. applied' \in 0..Len(log)
  BY <1>1, LocalTypes
<1> QED
  BY <1>1, <1>3, <1>4, DataUnchanged DEF LocalInv

(* The end of an upload: everything handled was sent.                       *)
LEMMA UploadDoneStep == RealtimeInv /\ UploadDone => LocalInv'
<1> SUFFICES ASSUME RealtimeInv, UploadDone PROVE LocalInv'
  OBVIOUS
<1>1. /\ pc = "upload" /\ ins = NoRecords /\ del = NoKeys
      /\ last' = non_uploaded /\ fresh' = FALSE /\ pc' = ret /\ ret' = "loop"
      /\ \/ saved' = [last |-> non_uploaded, versions |-> versions, structs |-> structs]
         \/ UNCHANGED saved
      /\ UNCHANGED <<log, mysql, relay, ch, reader, non_uploaded, versions, structs, ins,
                     del, sent, applied>>
  BY DEF UploadDone, SaveStateIfRequired, Save, source, history
<1>2. ProcessTypeOK /\ RecordsTypeOK /\ TargetTypeOK /\ ReadInv /\ SentInv /\ StructsInv
      /\ CheckpointSent
  BY Unfold DEF LocalInv
<1>3. 1..non_uploaded \subseteq sent
  <2>1. ASSUME NEW n \in 1..non_uploaded PROVE ~Batched(n)
    <3>1. log[n].table \in Tables
      BY BatchedTypes
    <3>2. ins[log[n].table] = <<>> /\ del[log[n].table] = {}
      BY <1>1, <3>1 DEF NoRecords, NoKeys
    <3>3. DOMAIN <<>> = {}
      OBVIOUS
    <3> QED
      BY <3>2, <3>3 DEF Batched
  <2> QED
    BY <2>1, LocalTypes
<1>4. ProcessTypeOK'
  <2>1. last' \in 0..non_uploaded
    BY <1>1, LocalTypes
  <2> QED
    BY <1>1, <1>2, <2>1 DEF ProcessTypeOK
<1>5. RecordsTypeOK'
  BY <1>1, <1>2 DEF RecordsTypeOK
<1>6. /\ saved' \in [last : 0..Len(log), versions : [Tables -> Nat], structs : SUBSET Tables]
      /\ 1..saved'.last \subseteq sent /\ Knows(saved'.structs, saved'.last)
      /\ Knows(structs, non_uploaded)
  <2>1. /\ 1..saved.last \subseteq sent /\ Knows(saved.structs, saved.last)
        /\ Knows(structs, non_uploaded)
    BY <1>1, <1>2 DEF CheckpointSent, StructsInv
  <2>2. /\ saved \in [last : 0..Len(log), versions : [Tables -> Nat], structs : SUBSET Tables]
        /\ versions \in [Tables -> Nat]
    BY <1>2 DEF TargetTypeOK, ProcessTypeOK
  <2>3. CASE UNCHANGED saved
    BY <2>1, <2>2, <2>3
  <2>4. CASE saved' = [last |-> non_uploaded, versions |-> versions, structs |-> structs]
    BY <1>3, <2>1, <2>2, <2>4, LocalTypes
  <2> QED
    BY <1>1, <2>3, <2>4
<1>7. TargetTypeOK' /\ CheckpointSent'
  BY <1>1, <1>2, <1>6 DEF TargetTypeOK, CheckpointSent
<1>8. ReadInv'
  BY <1>1, <1>2 DEF ReadInv, Querying, Query, ProcessTypeOK
<1>9. SentInv'
  BY <1>1, <1>3 DEF SentInv
<1>10. StructsInv'
  BY <1>1, <1>6 DEF StructsInv, Knows
<1> QED
  BY <1>4, <1>5, <1>7, <1>8, <1>9, <1>10 DEF LocalInv

(* During an upload the data changes and the place in the code does not.    *)
LEMMA UploadGoesOn ==
    ASSUME RealtimeInv, pc = "upload",
           UNCHANGED <<log, mysql, relay, saved, pc, ret, fresh, reader, last,
                       non_uploaded, structs, applied>>,
           versions' \in [Tables -> Nat],
           DOMAIN ch' \subseteq Tables,
           \A s \in DOMAIN ch' : ch'[s] \in [Keys -> [val : 0..Len(log), ver : Nat]],
           ins' \in [Tables -> Seq(Records(non_uploaded))],
           del' \in [Tables -> SUBSET Keys],
           sent \subseteq sent', sent' \subseteq 1..Len(log),
           \A n \in 1..non_uploaded : Batched(n) => n \in sent' \/ Batched(n)'
    PROVE  LocalInv'
<1>1. ProcessTypeOK /\ RecordsTypeOK /\ TargetTypeOK /\ ReadInv /\ SentInv /\ StructsInv
      /\ CheckpointSent
  BY Unfold DEF LocalInv
<1>2. ProcessTypeOK'
  BY <1>1 DEF ProcessTypeOK
<1>3. RecordsTypeOK'
  BY <1>1 DEF RecordsTypeOK, Records
<1>4. TargetTypeOK' /\ CheckpointSent'
  BY <1>1 DEF TargetTypeOK, CheckpointSent
<1>5. ReadInv'
  BY <1>1 DEF ReadInv, Querying, Query
<1>6. SentInv'
  BY <1>1 DEF SentInv
<1>7. StructsInv'
  BY <1>1 DEF StructsInv, Knows
<1> QED
  BY <1>2, <1>3, <1>4, <1>5, <1>6, <1>7 DEF LocalInv

LEMMA UploadInsertStep ==
    ASSUME RealtimeInv, NEW t \in Tables, InsertRecords(t)
    PROVE  LocalInv'
<1> DEFINE d == ins[t]
           row(k) == LET i == IndexOf(d, k)
                     IN  Winner(ch[t][k], [val |-> d[i].val, ver |-> versions[t] + i])
           part(i) == RowEvents(t, {d[i].key}, d[i].val)
<1>1. /\ pc = "upload" /\ t \in DOMAIN ch
      /\ ch' = [ch EXCEPT ![t] = [k \in Keys |-> IF Has(d, k) THEN row(k) ELSE ch[t][k]]]
      /\ versions' = [versions EXCEPT ![t] = LastUsedVersion(@, Len(d))]
      /\ ins' = [ins EXCEPT ![t] = <<>>]
      /\ sent' = sent \cup UNION {part(i) : i \in DOMAIN d}
      /\ UNCHANGED <<log, mysql, relay, saved, pc, ret, fresh, reader, last, non_uploaded,
                     structs, del, applied>>
  BY DEF InsertRecords, source
<1>2. /\ d \in Seq(Records(non_uploaded)) /\ Len(d) \in Nat /\ DOMAIN d = 1..Len(d)
      /\ non_uploaded \in 0..Len(log) /\ Len(log) \in Nat
  BY LocalTypes
<1> HIDE DEF d
<1>3. \A i \in DOMAIN d : i \in Nat /\ d[i].val \in 1..non_uploaded
  <2>1. \A i \in DOMAIN d : d[i] \in Records(non_uploaded)
    BY <1>2
  <2> QED
    BY <1>2, <2>1 DEF Records
<1>4. versions \in [Tables -> Nat] /\ versions[t] \in Nat
  BY Unfold DEF LocalInv, ProcessTypeOK
<1>5. versions' \in [Tables -> Nat]
  <2>1. LastUsedVersion(versions[t], Len(d)) \in Nat
    BY <1>2, <1>4 DEF LastUsedVersion
  <2> QED
    BY <1>1, <1>4, <2>1
<1>6. ASSUME NEW k \in Keys, Has(d, k) PROVE row(k) \in [val : 0..Len(log), ver : Nat]
  <2> DEFINE i == IndexOf(d, k)
  <2>1. i \in DOMAIN d
    BY <1>6, IndexOfHas
  <2> HIDE DEF i
  <2>2. [val |-> d[i].val, ver |-> versions[t] + i] \in [val : 0..Len(log), ver : Nat]
    BY <1>2, <1>3, <1>4, <2>1
  <2>3. ch[t][k] \in [val : 0..Len(log), ver : Nat]
    BY <1>1, LocalTypes
  <2> QED
    BY <2>2, <2>3 DEF Winner, i
<1>7. /\ DOMAIN ch' \subseteq Tables
      /\ \A s \in DOMAIN ch' : ch'[s] \in [Keys -> [val : 0..Len(log), ver : Nat]]
  <2>1. [k \in Keys |-> IF Has(d, k) THEN row(k) ELSE ch[t][k]]
          \in [Keys -> [val : 0..Len(log), ver : Nat]]
    <3>1. \A k \in Keys : ch[t][k] \in [val : 0..Len(log), ver : Nat]
      BY <1>1, LocalTypes
    <3> HIDE DEF row
    <3> QED
      BY <1>6, <3>1
  <2> HIDE DEF row
  <2> QED
    BY <1>1, <2>1, LocalTypes
<1>8. ins' \in [Tables -> Seq(Records(non_uploaded))] /\ del' \in [Tables -> SUBSET Keys]
  <2>1. <<>> \in Seq(Records(non_uploaded))
    OBVIOUS
  <2> QED
    BY <1>1, <2>1, LocalTypes
<1>9. sent \subseteq sent' /\ sent' \subseteq 1..Len(log)
  <2>1. \A i \in DOMAIN d : part(i) \subseteq 1..Len(log)
    BY <1>2, <1>3 DEF RowEvents
  <2> HIDE DEF part
  <2> QED
    BY <1>1, <2>1, LocalTypes
<1>10. ASSUME NEW n \in 1..non_uploaded, Batched(n) PROVE n \in sent' \/ Batched(n)'
  <2>1. log[n].table \in Tables /\ log[n].kind \in RowKinds
    BY <1>10, BatchedTypes DEF Batched
  <2>2. CASE log[n].table # t
    <3>1. ins'[log[n].table] = ins[log[n].table]
      BY <1>1, <2>1, <2>2, LocalTypes
    <3> QED
      BY <1>1, <1>10, <3>1 DEF Batched
  <2>3. CASE log[n].table = t /\ RecordId(log[n]) \in del[t]
    BY <1>1, <1>10, <2>3 DEF Batched
  <2>4. CASE log[n].table = t /\ RecordId(log[n]) \notin del[t]
    <3>1. PICK i \in DOMAIN d : d[i].key = RecordId(log[n]) /\ d[i].val >= n
      BY <1>10, <2>4 DEF Batched, d
    <3>2. n \in part(i)
      BY <1>2, <1>3, <2>1, <2>4, <3>1 DEF RowEvents
    <3> HIDE DEF part
    <3> QED
      BY <1>1, <3>2
  <2> QED
    BY <2>2, <2>3, <2>4
<1> HIDE DEF row, part
<1> QED
  BY <1>1, <1>5, <1>7, <1>8, <1>9, <1>10, UploadGoesOn

LEMMA UploadEraseStep ==
    ASSUME RealtimeInv, NEW t \in Tables, EraseRecords(t)
    PROVE  LocalInv'
<1>1. /\ pc = "upload" /\ t \in DOMAIN ch
      /\ UNCHANGED <<log, mysql, relay, saved, pc, ret, fresh, reader, last, non_uploaded,
                     versions, structs, ins, applied>>
  BY DEF EraseRecords, source
<1>2. PICK batch \in SUBSET del[t] :
        /\ ch' = [ch EXCEPT ![t] = [k \in Keys |-> IF k \in batch THEN NoRow ELSE @[k]]]
        /\ del' = [del EXCEPT ![t] = @ \ batch]
        /\ sent' = sent \cup RowEvents(t, batch, non_uploaded)
  BY DEF EraseRecords
<1>3. versions' \in [Tables -> Nat]
  BY <1>1, Unfold DEF LocalInv, ProcessTypeOK
<1>4. /\ DOMAIN ch' \subseteq Tables
      /\ \A s \in DOMAIN ch' : ch'[s] \in [Keys -> [val : 0..Len(log), ver : Nat]]
  <2>1. NoRow \in [val : 0..Len(log), ver : Nat]
    BY LocalTypes DEF NoRow, None
  <2>2. [k \in Keys |-> IF k \in batch THEN NoRow ELSE ch[t][k]]
          \in [Keys -> [val : 0..Len(log), ver : Nat]]
    BY <1>1, <2>1, LocalTypes
  <2> QED
    BY <1>1, <1>2, <2>2, LocalTypes
<1>5. ins' \in [Tables -> Seq(Records(non_uploaded))] /\ del' \in [Tables -> SUBSET Keys]
  BY <1>1, <1>2, LocalTypes
<1>6. sent \subseteq sent' /\ sent' \subseteq 1..Len(log)
  <2>1. RowEvents(t, batch, non_uploaded) \subseteq 1..Len(log)
    BY LocalTypes DEF RowEvents
  <2> QED
    BY <1>2, <2>1, LocalTypes
<1>7. ASSUME NEW n \in 1..non_uploaded, Batched(n) PROVE n \in sent' \/ Batched(n)'
  <2>1. log[n].table \in Tables /\ log[n].kind \in RowKinds
    BY <1>7, BatchedTypes DEF Batched
  <2>2. CASE log[n].table = t /\ RecordId(log[n]) \in batch
    <3>1. n \in RowEvents(t, batch, non_uploaded)
      BY <2>1, <2>2 DEF RowEvents
    <3> QED
      BY <1>2, <3>1
  <2>3. CASE ~(log[n].table = t /\ RecordId(log[n]) \in batch)
    <3>1. RecordId(log[n]) \in del[log[n].table] => RecordId(log[n]) \in del'[log[n].table]
      BY <1>2, <2>1, <2>3, LocalTypes
    <3> QED
      BY <1>1, <1>7, <3>1 DEF Batched
  <2> QED
    BY <2>2, <2>3
<1> QED
  BY <1>1, <1>3, <1>4, <1>5, <1>6, <1>7, UploadGoesOn

-----------------------------------------------------------------------------
(* The process ends and starts again. *)

(* Only what is saved outlives the process.                                 *)
LEMMA EndsStep ==
    ASSUME RealtimeInv, ProcessEnds, UNCHANGED <<log, mysql, relay, ch, history>>,
           saved' \in [last : 0..Len(log), versions : [Tables -> Nat], structs : SUBSET Tables],
           1..saved'.last \subseteq sent, Knows(saved'.structs, saved'.last)
    PROVE  LocalInv'
<1>1. RecordsTypeOK /\ TargetTypeOK
  BY Unfold DEF LocalInv
<1>2. /\ pc' = "down" /\ ret' = "loop" /\ fresh' = TRUE /\ reader' = 0
      /\ last' = 0 /\ non_uploaded' = 0 /\ versions' = [t \in Tables |-> 0]
      /\ structs' = {} /\ ins' = NoRecords /\ del' = NoKeys
      /\ UNCHANGED <<log, mysql, relay, ch, sent, applied>>
  BY DEF ProcessEnds, None, history
<1>3. ProcessTypeOK'
  BY <1>2, LocalTypes DEF ProcessTypeOK
<1>4. RecordsTypeOK'
  <2>1. <<>> \in Seq([key : Keys, val : 1..non_uploaded'])
    OBVIOUS
  <2> QED
    BY <1>1, <1>2, <2>1 DEF RecordsTypeOK, NoRecords, NoKeys
<1>5. TargetTypeOK' /\ CheckpointSent'
  BY <1>1, <1>2 DEF TargetTypeOK, CheckpointSent
<1>6. ReadInv'
  BY <1>2 DEF ReadInv, Querying
<1>7. SentInv'
  <2>1. 1..0 = {}
    OBVIOUS
  <2> QED
    BY <1>2, <2>1 DEF SentInv
<1>8. StructsInv'
  BY <1>2 DEF StructsInv, Knows
<1> QED
  BY <1>3, <1>4, <1>5, <1>6, <1>7, <1>8 DEF LocalInv

LEMMA SavedFacts ==
    ASSUME RealtimeInv
    PROVE  /\ saved \in [last : 0..Len(log), versions : [Tables -> Nat],
                         structs : SUBSET Tables]
           /\ 1..saved.last \subseteq sent /\ Knows(saved.structs, saved.last)
BY Unfold DEF LocalInv, TargetTypeOK, CheckpointSent, StructsInv

LEMMA FailStep ==
    ASSUME RealtimeInv, ProcessEnds, UNCHANGED <<source, ch, saved, history>>
    PROVE  LocalInv'
BY SavedFacts, EndsStep DEF source

LEMMA StopStep == RealtimeInv /\ Stop => LocalInv'
<1> SUFFICES ASSUME RealtimeInv, Stop PROVE LocalInv'
  OBVIOUS
<1>1. /\ pc = "stop" /\ ProcessEnds /\ UNCHANGED <<log, mysql, relay, ch, history>>
      /\ saved' = [last |-> last, versions |-> versions, structs |-> structs]
  BY DEF Stop, Save, source
<1>2. /\ 1..last \subseteq sent /\ Knows(structs, last)
      /\ versions \in [Tables -> Nat]
  BY <1>1, Unfold DEF LocalInv, SentInv, StructsInv, ProcessTypeOK
<1>3. last \in 0..Len(log) /\ structs \in SUBSET Tables
  BY LocalTypes
<1>4. saved' \in [last : 0..Len(log), versions : [Tables -> Nat], structs : SUBSET Tables]
  BY <1>1, <1>2, <1>3
<1>5. saved'.last = last /\ saved'.structs = structs
  BY <1>1
<1> QED
  BY <1>1, <1>2, <1>4, <1>5, EndsStep

LEMMA LeastElement ==
    ASSUME NEW S, S \subseteq Nat, S # {}
    PROVE  \E n \in S : \A m \in S : n <= m
<1> DEFINE R == {ss \in Nat \X Nat : ss[1] < ss[2]}
<1>1. IsWellFoundedOn(R, Nat)
  BY NatLessThanWellFounded DEF OpToRel
<1> HIDE DEF R
<1>2. PICK n \in S : \A m \in S : ~(<<m, n>> \in R)
  BY <1>1, WFMin
<1>3. ASSUME NEW m \in S PROVE n <= m
  <2>1. n \in Nat /\ m \in Nat
    OBVIOUS
  <2>2. m < n => <<m, n>> \in R
    BY <2>1, Zenon DEF R
  <2> QED
    BY <1>2, <2>1, <2>2
<1> QED
  BY <1>3

(* data_reader.set_position finds the transaction, and what it skips was    *)
(* logged before it.                                                        *)
LEMMA PositionFound ==
    ASSUME RealtimeInv, NEW t \in 0..Len(log)
    PROVE  /\ SetPosition(t) \in 0..Len(relay)
           /\ \A i \in 1..SetPosition(t) : relay[i] <= t
<1>1. Len(relay) \in Nat /\ relay \in Seq(1..Len(log)) /\ Len(log) \in Nat
  BY LocalTypes
<1>2. CASE t = 0
  BY <1>1, <1>2 DEF SetPosition, None
<1>3. CASE t # 0
  <2> DEFINE S == {i \in DOMAIN relay : relay[i] = t}
  <2>1. S \subseteq Nat /\ S # {}
    <3>1. \A n \in 1..Len(log) : \E i \in DOMAIN relay : relay[i] = n
      BY Unfold DEF SourceInv
    <3>2. t \in 1..Len(log)
      BY <1>1, <1>3
    <3> QED
      BY <1>1, <3>1, <3>2
  <2>2. PICK n \in S : \A m \in S : n <= m
    BY <2>1, LeastElement
  <2>3. /\ n \in DOMAIN relay /\ relay[n] = t
        /\ \A j \in 1..(n - 1) : relay[j] # t
    <3>1. ASSUME NEW j \in 1..(n - 1) PROVE relay[j] # t
      <4>1. j \in DOMAIN relay /\ ~(n <= j)
        BY <1>1, <2>2
      <4> QED
        BY <2>2, <4>1
    <3> QED
      BY <2>2, <3>1
  <2> HIDE DEF S
  <2> DEFINE i == SetPosition(t)
  <2>4. i \in DOMAIN relay /\ relay[i] = t /\ \A j \in 1..(i - 1) : relay[j] # t
    BY <1>3, <2>3 DEF SetPosition, None
  <2> HIDE DEF i
  <2>5. ASSUME NEW m \in 1..i PROVE relay[m] <= t
    <3>1. m \in DOMAIN relay /\ relay[m] \in Nat /\ i \in Nat
      BY <1>1, <2>4
    <3>2. CASE relay[m] > t
      <4>1. t \in 1..(relay[m] - 1)
        BY <1>1, <1>3, <3>1, <3>2
      <4>2. PICK j \in 1..(m - 1) : relay[j] = t
        BY <3>1, <4>1, Unfold DEF SourceInv
      <4>3. j \in 1..(i - 1)
        BY <3>1, <4>2
      <4> QED
        BY <2>4, <4>2, <4>3
    <3> QED
      BY <1>1, <3>1, <3>2
  <2> QED
    BY <1>1, <2>4, <2>5 DEF i
<1> QED
  BY <1>2, <1>3

LEMMA StartStep == RealtimeInv /\ Start => LocalInv'
<1> SUFFICES ASSUME RealtimeInv, Start PROVE LocalInv'
  OBVIOUS
<1> DEFINE t == saved.last
<1>1. /\ pc = "down" /\ pc' = "loop" /\ last' = t /\ non_uploaded' = t
      /\ versions' = saved.versions /\ structs' = saved.structs
      /\ reader' = SetPosition(t)
      /\ UNCHANGED <<log, mysql, relay, ch, saved, ret, fresh, ins, del, sent, applied>>
  BY DEF Start, source, history
<1>2. /\ t \in 0..Len(log) /\ saved.versions \in [Tables -> Nat]
      /\ saved.structs \subseteq Tables
      /\ 1..t \subseteq sent /\ Knows(saved.structs, t)
  BY SavedFacts
<1>3. /\ ProcessTypeOK /\ RecordsTypeOK /\ TargetTypeOK /\ ReadInv /\ CheckpointSent
      /\ ret = "loop" /\ ins = NoRecords /\ del = NoKeys
  BY <1>1, Unfold DEF LocalInv, ReadInv
<1>4. reader' \in 0..Len(relay) /\ \A i \in 1..reader' : relay[i] <= t
  BY <1>1, <1>2, PositionFound
<1> HIDE DEF t
<1>5. ProcessTypeOK'
  BY <1>1, <1>2, <1>3, <1>4, LocalTypes DEF ProcessTypeOK
<1>6. RecordsTypeOK'
  <2>1. <<>> \in Seq([key : Keys, val : 1..non_uploaded'])
    OBVIOUS
  <2> QED
    BY <1>1, <1>3, <2>1 DEF RecordsTypeOK, NoRecords, NoKeys
<1>7. TargetTypeOK' /\ CheckpointSent'
  BY <1>1, <1>3 DEF TargetTypeOK, CheckpointSent
<1>8. ReadInv'
  BY <1>1, <1>3, <1>4 DEF ReadInv, Querying
<1>9. SentInv'
  BY <1>1, <1>2 DEF SentInv
<1>10. StructsInv'
  BY <1>1, <1>2 DEF StructsInv, Knows, t
<1> QED
  BY <1>5, <1>6, <1>7, <1>8, <1>9, <1>10 DEF LocalInv

(* MySQL and binlog_replicator do not disturb the process. *)
LEMMA SourceMoves ==
    ASSUME RealtimeInv, [Next]_vars,
           UNCHANGED <<ch, saved, pc, ret, memory, history>>
    PROVE  LocalInv'
<1>1. /\ UNCHANGED <<ch, saved, pc, ret, fresh, reader, last, non_uploaded, versions,
                     structs, ins, del, sent, applied>>
      /\ ProcessTypeOK /\ RecordsTypeOK /\ TargetTypeOK /\ ReadInv /\ SentInv /\ StructsInv
      /\ CheckpointSent
  BY Unfold DEF LocalInv, memory, history
<1>2. /\ Len(log) \in Nat /\ Len(log') \in Nat /\ Len(log) <= Len(log')
      /\ \A n \in 1..Len(log) : log'[n] = log[n]
      /\ \A n \in 1..(Len(log) + 1) : mysql'[n] = mysql[n]
      /\ Len(relay) \in Nat /\ Len(relay') \in Nat /\ Len(relay) <= Len(relay')
      /\ \A i \in 1..Len(relay) : relay'[i] = relay[i]
  BY Unfold, SourceGrows
<1>3. /\ reader \in 0..Len(relay) /\ non_uploaded \in 0..Len(log)
      /\ last \in 0..non_uploaded
  BY LocalTypes
<1>4. ProcessTypeOK'
  BY <1>1, <1>2, <1>3 DEF ProcessTypeOK
<1>5. RecordsTypeOK' /\ CheckpointSent'
  <2>1. sent \subseteq 1..Len(log') /\ applied \in 0..Len(log')
    BY <1>2, LocalTypes
  <2> QED
    BY <1>1, <2>1 DEF RecordsTypeOK, CheckpointSent
<1>6. TargetTypeOK'
  <2>1. [val : 0..Len(log), ver : Nat] \subseteq [val : 0..Len(log'), ver : Nat]
    BY <1>2
  <2>2. \A t \in DOMAIN ch : ch[t] \in [Keys -> [val : 0..Len(log'), ver : Nat]]
    BY <2>1, LocalTypes
  <2>3. saved \in [last : 0..Len(log'), versions : [Tables -> Nat], structs : SUBSET Tables]
    BY <1>2, SavedFacts
  <2> QED
    BY <1>1, <2>2, <2>3, LocalTypes DEF TargetTypeOK
<1>7. ReadInv'
  <2>1. \A i \in 1..reader : relay'[i] = relay[i]
    BY <1>2, <1>3
  <2>2. Querying => Query' = Query /\ reader \in 1..reader
    <3>1. SUFFICES ASSUME Querying PROVE Query' = Query /\ reader \in 1..reader
      OBVIOUS
    <3>2. reader \in 1..reader
      BY <1>1, <1>3, <3>1 DEF ReadInv
    <3>3. relay[reader] \in 1..Len(log)
      BY <1>3, <3>2, LocalTypes
    <3> QED
      BY <1>1, <1>2, <2>1, <3>2, <3>3 DEF Query
  <2>3. Querying' <=> Querying
    BY <1>1 DEF Querying
  <2>4. \A i \in 1..(reader - 1) : i \in 1..reader
    BY <1>2, <1>3
  <2> QED
    BY <1>1, <2>1, <2>2, <2>3, <2>4 DEF ReadInv
<1>8. SentInv'
  <2>1. ASSUME NEW n \in 1..non_uploaded, Batched(n) PROVE Batched(n)'
    <3>1. log'[n] = log[n]
      BY <1>2, <1>3
    <3> QED
      BY <1>1, <2>1, <3>1 DEF Batched
  <2> QED
    BY <1>1, <2>1 DEF SentInv
<1>9. ASSUME NEW S, NEW n \in 0..Len(log), Knows(S, n)
      PROVE  \/ DOMAIN mysql'[n + 1] \subseteq S
             \/ /\ n < Len(log') /\ log'[n + 1].kind \in QueryKinds \ {"create"}
                /\ DOMAIN mysql'[n + 2] \subseteq S
  <2>1. mysql'[n + 1] = mysql[n + 1]
    BY <1>2
  <2>2. n < Len(log) => mysql'[n + 2] = mysql[n + 2] /\ log'[n + 1] = log[n + 1]
    BY <1>2
  <2> QED
    BY <1>2, <1>9, <2>1, <2>2 DEF Knows
<1>10. StructsInv'
  <2>1. saved.last \in 0..Len(log)
    BY SavedFacts
  <2>2. last \in 0..Len(log) /\ non_uploaded \in 0..Len(log)
    BY <1>2, <1>3
  <2>3. /\ Knows(saved.structs, saved.last)
        /\ pc # "down" => Knows(structs, non_uploaded) /\ Knows(structs, last)
    BY <1>1 DEF StructsInv
  <2> QED
    BY <1>1, <1>9, <2>1, <2>2, <2>3 DEF StructsInv, Knows
<1> QED
  BY <1>4, <1>5, <1>6, <1>7, <1>8, <1>10 DEF LocalInv

-----------------------------------------------------------------------------
(* The invariant. *)

LEMMA InitRealtimeInv == Init => RealtimeInv
<1> SUFFICES ASSUME Init PROVE RealtimeInv
  OBVIOUS
<1> DEFINE c == [t \in InitialTables |-> [k \in Keys |-> None]]
<1>1. /\ log = <<>> /\ mysql = <<c>> /\ relay = <<>>
      /\ Len(log) = 0 /\ Len(relay) = 0 /\ Len(mysql) = 1 /\ mysql[1] = c
      /\ DOMAIN relay = {} /\ 1..0 = {} /\ DOMAIN mysql = {1}
  BY DEF Init
<1>2. /\ InitialTables \subseteq Tables
      /\ MaxReplays \in Nat /\ MaxStops \in Nat /\ MaxCrashes \in Nat
  BY RealtimeAssumption
<1>3. IsContent(c)
  BY <1>2 DEF IsContent, None
<1>4. SourceTypeOK
  <2>1. mysql \in Seq(Range(mysql))
    <3>1. mysql[1] \in Range(mysql)
      BY <1>1 DEF Range
    <3> QED
      BY <1>1, <3>1
  <2>2. log \in Seq(Statements) /\ relay \in Seq(1..Len(log))
    BY <1>1
  <2>3. replays = 0 /\ stops = 0 /\ crashes = 0
    BY DEF Init
  <2> HIDE DEF c
  <2> QED
    BY <1>1, <1>2, <1>3, <2>1, <2>2, <2>3 DEF SourceTypeOK
<1>5. SourceInv
  BY <1>1 DEF SourceInv
<1>6. /\ ch = [t \in InitialTables |-> EmptyTable]
      /\ saved = [last |-> 0, versions |-> [t \in Tables |-> 0], structs |-> InitialTables]
      /\ pc = "down" /\ ret = "loop" /\ fresh = TRUE /\ reader = 0
      /\ last = 0 /\ non_uploaded = 0 /\ versions = [t \in Tables |-> 0]
      /\ structs = {} /\ ins = NoRecords /\ del = NoKeys
      /\ sent = {} /\ applied = 0
  BY DEF Init, None
<1> HIDE DEF c
<1>7. ProcessTypeOK
  BY <1>1, <1>6 DEF ProcessTypeOK
<1>8. RecordsTypeOK
  <2>1. <<>> \in Seq([key : Keys, val : 1..non_uploaded])
    OBVIOUS
  <2> QED
    BY <1>1, <1>6, <2>1 DEF RecordsTypeOK, NoRecords, NoKeys
<1>9. TargetTypeOK
  <2>1. EmptyTable \in [Keys -> [val : 0..Len(log), ver : Nat]]
    BY <1>1 DEF EmptyTable, NoRow, None
  <2> QED
    BY <1>1, <1>2, <1>6, <2>1 DEF TargetTypeOK
<1>10. ReadInv
  BY <1>6 DEF ReadInv, Querying
<1>11. SentInv /\ CheckpointSent
  BY <1>1, <1>6 DEF SentInv, CheckpointSent
<1>12. StructsInv
  BY <1>1, <1>6 DEF StructsInv, Knows, c
<1> QED
  BY <1>4, <1>5, <1>7, <1>8, <1>9, <1>10, <1>11, <1>12 DEF RealtimeInv, TypeOK

LEMMA RealtimeInvStep == RealtimeInv /\ [Next]_vars => RealtimeInv'
<1> SUFFICES ASSUME RealtimeInv, [Next]_vars PROVE RealtimeInv'
  OBVIOUS
<1>1. SourceTypeOK' /\ SourceInv'
  BY Unfold, SourceStep
<1>2. LocalInv'
  <2>1. CASE Start
    BY <2>1, StartStep
  <2>2. CASE HandleEvent
    <3>1. CASE QueryRefused
      BY <3>1, FailStep DEF QueryRefused, Raise
    <3> QED
      BY <2>2, <3>1, SkipStep, InsertStep, EraseStep, CreateStep, QueryStep, DropStep,
         RenameStep, TruncateStep DEF HandleEvent
  <2>3. CASE Upload
    <3>1. ASSUME NEW t \in Tables, UploadRefused(t) PROVE LocalInv'
      BY <3>1, FailStep DEF UploadRefused, Raise
    <3> QED
      BY <2>3, <3>1, UploadInsertStep, UploadEraseStep, UploadDoneStep DEF Upload
  <2>4. CASE ReadNothing
    BY <2>4, UploadBegins DEF ReadNothing
  <2>5. CASE LeaveLoop
    BY <2>5, UploadBegins DEF LeaveLoop
  <2>6. CASE Stop
    BY <2>6, StopStep
  <2>7. CASE Crash
    BY <2>7, FailStep DEF Crash
  <2>8. CASE MySQLCommits
    BY <2>8, SourceMoves DEF MySQLCommits
  <2>9. CASE RelayReplays
    BY <2>9, SourceMoves DEF RelayReplays
  <2>10. CASE UNCHANGED vars
    BY <2>10, SourceMoves DEF vars
  <2> QED
    BY <2>1, <2>2, <2>3, <2>4, <2>5, <2>6, <2>7, <2>8, <2>9, <2>10 DEF Next
<1> QED
  BY <1>1, <1>2 DEF LocalInv, RealtimeInv, TypeOK

-----------------------------------------------------------------------------
(* The variables have their types: among others, no batch holds an event    *)
(* that was not handled, nothing counts as uploaded that was not handled,   *)
(* and the reader is inside the relay.                                      *)
THEOREM RealtimeTypeCorrect == Spec => []TypeOK
<1>1. RealtimeInv => TypeOK
  BY DEF RealtimeInv
<1> QED
  BY <1>1, InitRealtimeInv, RealtimeInvStep, PTL DEF Spec

(* save_state_if_required: whatever is interrupted, replayed or restarted,  *)
(* state.pckl never runs ahead of ClickHouse, although the saves between    *)
(* two uploads save while a batch is waiting.                               *)
THEOREM CheckpointIsSent == Spec => []CheckpointSent
<1>1. RealtimeInv => CheckpointSent
  BY DEF RealtimeInv
<1> QED
  BY <1>1, InitRealtimeInv, RealtimeInvStep, PTL DEF Spec

(* The unchecked lookups of handle_insert_event and handle_erase_event in   *)
(* tables_structure never fail, even when a restart loads the structures    *)
(* after a DDL statement that it is about to read again.                    *)
THEOREM StructuresAreKnown == Spec => []StructureKnown
<1>1. RealtimeInv => StructureKnown
  <2> SUFFICES ASSUME RealtimeInv, NewEvent(RowKinds) PROVE log[NextId].table \in structs
    BY DEF StructureKnown
  <2>1. /\ Reading /\ NextId > non_uploaded /\ log[NextId].kind \in RowKinds
        /\ pc = "loop"
    BY DEF NewEvent, Reading
  <2>2. NextId = non_uploaded + 1 /\ NextId \in 1..Len(log)
    BY <2>1, NewEventIsNext
  <2>3. Knows(structs, non_uploaded)
    BY <2>1, Unfold DEF LocalInv, StructsInv
  <2>4. non_uploaded \in 0..(Len(log) - 1)
    BY <2>2, LocalTypes
  <2> QED
    BY <2>1, <2>2, <2>3, <2>4, KnowsNext
<1> QED
  BY <1>1, InitRealtimeInv, RealtimeInvStep, PTL DEF Spec

=============================================================================
