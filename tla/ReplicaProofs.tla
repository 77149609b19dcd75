--------------------------- MODULE ReplicaProofs ----------------------------
(***************************************************************************)
(* TLAPS proofs about what ClickHouse holds, for any tables, keys and      *)
(* statements and any number of replays and stops: RealtimeReplication     *)
(* implements Replica when no crash takes the versions back and no         *)
(* statement renames a table or a row; and with crashes, the keys of       *)
(* ClickHouse are those of MySQL once everything has been uploaded.        *)
(***************************************************************************)
EXTENDS RealtimeProofs

-----------------------------------------------------------------------------
(* The dicts of records, which have a key once. *)

LEMMA IndexOfKey ==
    ASSUME NEW d, OnceEach(d), NEW i \in DOMAIN d
    PROVE  Has(d, d[i].key) /\ IndexOf(d, d[i].key) = i
<1>1. Has(d, d[i].key)
  BY DEF Has
<1> QED
  BY <1>1, IndexOfHas DEF OnceEach

(* Two dicts with the same records but one. *)
LEMMA SameRecord ==
    ASSUME NEW d, NEW e, OnceEach(d), OnceEach(e), NEW k,
           \A i \in DOMAIN d : d[i].key = k => \E j \in DOMAIN e : e[j] = d[i],
           \A j \in DOMAIN e : e[j].key = k => \E i \in DOMAIN d : d[i].key = k
    PROVE  /\ Has(e, k) <=> Has(d, k)
           /\ Has(d, k) => e[IndexOf(e, k)].val = d[IndexOf(d, k)].val
<1>1. Has(e, k) => Has(d, k)
  BY DEF Has
<1>2. ASSUME Has(d, k)
      PROVE  Has(e, k) /\ e[IndexOf(e, k)].val = d[IndexOf(d, k)].val
  <2>1. PICK i \in DOMAIN d : d[i].key = k
    BY <1>2 DEF Has
  <2>2. PICK j \in DOMAIN e : e[j] = d[i]
    BY <2>1
  <2>3. IndexOf(d, k) = i /\ IndexOf(e, k) = j /\ Has(e, k)
    BY <2>1, <2>2, IndexOfKey
  <2> QED
    BY <2>2, <2>3
<1> QED
  BY <1>1, <1>2

LEMMA PutDict ==
    ASSUME NEW n \in Nat, NEW d \in Seq(Records(n)), OnceEach(d), NEW k \in Keys, NEW v
    PROVE  /\ OnceEach(Put(d, k, v))
           /\ Has(Put(d, k, v), k) /\ Put(d, k, v)[IndexOf(Put(d, k, v), k)].val = v
           /\ \A x \in Keys \ {k} :
                /\ Has(Put(d, k, v), x) <=> Has(d, x)
                /\ Has(d, x) => Put(d, k, v)[IndexOf(Put(d, k, v), x)].val = d[IndexOf(d, x)].val
<1> DEFINE r == [key |-> k, val |-> v]
           e == Put(d, k, v)
<1>1. /\ \A i \in DOMAIN d : d[i] \in Records(n) /\ d[i] = [key |-> d[i].key, val |-> d[i].val]
      /\ r.key = k /\ r.val = v
  <2>1. \A i \in DOMAIN d : d[i] \in Records(n)
    OBVIOUS
  <2> QED
    BY <2>1 DEF Records
<1> HIDE DEF r
<1>2. /\ OnceEach(e) /\ \E i \in DOMAIN e : e[i] = r
      /\ \A i \in DOMAIN d : d[i].key # k => \E j \in DOMAIN e : e[j] = d[i]
      /\ \A j \in DOMAIN e : e[j].key # k => \E i \in DOMAIN d : d[i] = e[j]
  <2>1. CASE Has(d, k)
    <3> DEFINE i == IndexOf(d, k)
    <3>1. i \in DOMAIN d /\ d[i].key = k
      BY <2>1, IndexOfHas
    <3>2. e = [d EXCEPT ![i].val = v]
      BY <2>1 DEF Put
    <3> HIDE DEF i
    <3>3. [d[i] EXCEPT !.val = v] = r
      BY <1>1, <3>1 DEF r
    <3>4. DOMAIN e = DOMAIN d /\ e[i] = r /\ \A j \in DOMAIN d \ {i} : e[j] = d[j]
      BY <3>1, <3>2, <3>3
    <3> HIDE DEF e
    <3>5. \A j \in DOMAIN d : e[j].key = d[j].key
      BY <1>1, <3>1, <3>4
    <3> QED
      BY <3>1, <3>4, <3>5 DEF OnceEach
  <2>2. CASE ~Has(d, k)
    <3>1. e = Append(d, r)
      BY <2>2 DEF Put, r
    <3>2. /\ DOMAIN e = DOMAIN d \cup {Len(d) + 1} /\ e[Len(d) + 1] = r
          /\ \A j \in DOMAIN d : e[j] = d[j] /\ j # Len(d) + 1
      BY <3>1
    <3>3. \A j \in DOMAIN d : d[j].key # k
      BY <2>2 DEF Has
    <3> HIDE DEF e
    <3> QED
      BY <1>1, <3>2, <3>3 DEF OnceEach
  <2> QED
    BY <2>1, <2>2
<1> HIDE DEF e
<1>3. Has(e, k) /\ e[IndexOf(e, k)].val = v
  BY <1>1, <1>2, IndexOfKey
<1>4. ASSUME NEW x \in Keys \ {k}
      PROVE  /\ Has(e, x) <=> Has(d, x)
             /\ Has(d, x) => e[IndexOf(e, x)].val = d[IndexOf(d, x)].val
  BY <1>2, SameRecord
<1> QED
  BY <1>2, <1>3, <1>4 DEF e

LEMMA PopDict ==
    ASSUME NEW R, NEW d \in Seq(R), OnceEach(d), NEW k
    PROVE  /\ OnceEach(Pop(d, k)) /\ ~Has(Pop(d, k), k)
           /\ \A x \in Keys \ {k} :
                /\ Has(Pop(d, k), x) <=> Has(d, x)
                /\ Has(d, x) => Pop(d, k)[IndexOf(Pop(d, k), x)].val = d[IndexOf(d, x)].val
<1> DEFINE e == Pop(d, k)
<1>1. CASE Has(d, k)
  <2> DEFINE i == IndexOf(d, k)
             a == SubSeq(d, 1, i - 1)
             b == SubSeq(d, i + 1, Len(d))
             f(j) == IF j < i THEN j ELSE j + 1
  <2>1. e = a \o b
    BY <1>1 DEF Pop, RemoveAt
  <2>2. i \in 1..Len(d) /\ d[i].key = k /\ Len(d) \in Nat
    BY <1>1, IndexOfHas
  <2> HIDE DEF i
  <2>3. /\ a \in Seq(R) /\ Len(a) = i - 1
        /\ \A j \in 1..(i - 1) : a[j] = d[j]
    BY <2>2
  <2>4. /\ b \in Seq(R) /\ Len(b) = Len(d) - i
        /\ \A j \in 1..(Len(d) - i) : b[j] = d[j + i]
    BY <2>2
  <2> HIDE DEF a, b
  <2>5. /\ e \in Seq(R) /\ DOMAIN e = 1..(Len(d) - 1)
        /\ \A j \in DOMAIN e : e[j] = d[f(j)]
    <3>1. /\ a \o b \in Seq(R) /\ Len(a \o b) = Len(d) - 1
          /\ \A j \in 1..(Len(d) - 1) : (a \o b)[j] = IF j <= i - 1 THEN a[j] ELSE b[j - (i - 1)]
      <4>1. /\ a \o b \in Seq(R) /\ Len(a \o b) = Len(a) + Len(b)
            /\ \A j \in 1..(Len(a) + Len(b)) :
                 (a \o b)[j] = IF j <= Len(a) THEN a[j] ELSE b[j - Len(a)]
        BY <2>3, <2>4, ConcatProperties
      <4>2. Len(a) = i - 1 /\ Len(a) + Len(b) = Len(d) - 1
        BY <2>2, <2>3, <2>4
      <4> QED
        BY <4>1, <4>2
    <3>2. \A j \in 1..(Len(d) - 1) : (a \o b)[j] = d[f(j)]
      <4> SUFFICES ASSUME NEW j \in 1..(Len(d) - 1) PROVE (a \o b)[j] = d[f(j)]
        OBVIOUS
      <4>1. CASE j < i
        BY <2>2, <2>3, <3>1, <4>1
      <4>2. CASE ~(j < i)
        <5>1. j - (i - 1) \in 1..(Len(d) - i) /\ (j - (i - 1)) + i = j + 1 /\ ~(j <= i - 1)
          BY <2>2, <4>2
        <5>2. (a \o b)[j] = b[j - (i - 1)]
          BY <3>1, <5>1
        <5> QED
          BY <2>4, <4>2, <5>1, <5>2
      <4> QED
        BY <4>1, <4>2
    <3>3. DOMAIN (a \o b) = 1..(Len(d) - 1)
      BY <2>2, <3>1
    <3> HIDE DEF f
    <3> QED
      BY <2>1, <3>1, <3>2, <3>3
  <2>6. DOMAIN d = 1..Len(d)
    OBVIOUS
  <2>7. /\ \A j \in DOMAIN e : f(j) \in DOMAIN d /\ f(j) # i
        /\ \A j, m \in DOMAIN e : f(j) = f(m) => j = m
        /\ \A m \in DOMAIN d : m # i => \E j \in DOMAIN e : f(j) = m
    <3>1. \A j \in DOMAIN e : f(j) \in DOMAIN d /\ f(j) # i
      BY <2>2, <2>5, <2>6
    <3>2. \A j, m \in DOMAIN e : f(j) = f(m) => j = m
      BY <2>2, <2>5
    <3>3. ASSUME NEW m \in DOMAIN d, m # i PROVE \E j \in DOMAIN e : f(j) = m
      <4>1. CASE m < i
        BY <2>2, <2>5, <2>6, <4>1
      <4>2. CASE m > i
        <5>1. m - 1 \in DOMAIN e /\ f(m - 1) = m
          BY <2>2, <2>5, <2>6, <4>2
        <5> QED
          BY <5>1
      <4> QED
        BY <2>2, <2>6, <3>3, <4>1, <4>2
    <3> QED
      BY <3>1, <3>2, <3>3
  <2> HIDE DEF f, e
  <2>8. \A m \in DOMAIN d : d[m].key = k => m = i
    BY <2>2, <2>6 DEF OnceEach
  <2>9. OnceEach(e)
    BY <2>5, <2>7 DEF OnceEach
  <2>10. ~Has(e, k)
    BY <2>5, <2>7, <2>8 DEF Has
  <2>11. ASSUME NEW x \in Keys \ {k}
         PROVE  /\ Has(e, x) <=> Has(d, x)
                /\ Has(d, x) => e[IndexOf(e, x)].val = d[IndexOf(d, x)].val
    <3>1. \A m \in DOMAIN d : d[m].key = x => \E j \in DOMAIN e : e[j] = d[m]
      BY <2>2, <2>5, <2>7
    <3>2. \A j \in DOMAIN e : e[j].key = x => \E m \in DOMAIN d : d[m].key = x
      BY <2>5, <2>7
    <3> QED
      BY <2>9, <3>1, <3>2, SameRecord
  <2> QED
    BY <2>9, <2>10, <2>11 DEF e
<1>2. CASE ~Has(d, k)
  BY <1>2 DEF Pop
<1> QED
  BY <1>1, <1>2

-----------------------------------------------------------------------------
(* What a statement does to the rows. *)

LEMMA EffectValues ==
    ASSUME NEW e \in Statements, NEW c, IsContent(c), Valid(e, c), NEW n \in Nat,
           e.kind # "rename",
           NEW t \in Tables, NEW k \in Keys
    PROVE  ValueIn(Effect(e, n, c), t, k) =
             IF t # e.table THEN ValueIn(c, t, k)
             ELSE IF e.kind \in {"insert", "rekey"} /\ k = RecordId(e) THEN n
             ELSE IF e.kind \in RowKinds /\ k # e.key THEN ValueIn(c, t, k)
             ELSE None
<1> DEFINE D == DOMAIN c
<1>1. /\ c \in [D -> [Keys -> Nat]] /\ e.table \in Tables /\ e.key \in Keys
      /\ e.kind \in RowKinds \cup QueryKinds
      /\ e.kind = "rekey" => e.to \in Keys
      /\ e.kind \in RowKinds => RecordId(e) = IF e.kind = "rekey" THEN e.to ELSE e.key
  BY StatementTypes DEF IsContent, RecordId
<1>2. CASE e.kind = "insert"
  <2>1. Effect(e, n, c) = [c EXCEPT ![e.table][e.key] = n] /\ e.table \in D
    BY <1>2 DEF Effect, Valid
  <2>2. DOMAIN Effect(e, n, c) = D /\ \A u \in D \ {e.table} : Effect(e, n, c)[u] = c[u]
    BY <2>1
  <2>3. Effect(e, n, c)[e.table] = [c[e.table] EXCEPT ![e.key] = n]
    BY <2>1
  <2>4. Effect(e, n, c)[e.table][k] = IF k = e.key THEN n ELSE c[e.table][k]
    BY <1>1, <2>1, <2>3
  <2> QED
    BY <1>1, <1>2, <2>1, <2>2, <2>4 DEF ValueIn, RowKinds
<1>3. CASE e.kind = "delete"
  <2>1. Effect(e, n, c) = [c EXCEPT ![e.table][e.key] = None] /\ e.table \in D
    BY <1>3 DEF Effect, Valid
  <2>2. DOMAIN Effect(e, n, c) = D /\ \A u \in D \ {e.table} : Effect(e, n, c)[u] = c[u]
    BY <2>1
  <2>3. Effect(e, n, c)[e.table] = [c[e.table] EXCEPT ![e.key] = None]
    BY <2>1
  <2>4. Effect(e, n, c)[e.table][k] = IF k = e.key THEN None ELSE c[e.table][k]
    BY <1>1, <2>1, <2>3
  <2> QED
    BY <1>3, <2>1, <2>2, <2>4 DEF ValueIn, RowKinds
<1>4. CASE e.kind \in {"create", "truncate"}
  <2>1. Effect(e, n, c) = With(c, e.table, [x \in Keys |-> None])
    BY <1>4 DEF Effect
  <2> QED
    BY <1>4, <2>1 DEF With, ValueIn, RowKinds
<1>5. CASE e.kind \in {"drop", "drop if exists"}
  <2>1. Effect(e, n, c) = Without(c, e.table)
    BY <1>5 DEF Effect
  <2> QED
    BY <1>5, <2>1 DEF Without, ValueIn, RowKinds
<1>6. CASE e.kind = "rekey"
  <2>1. /\ Effect(e, n, c) = [c EXCEPT ![e.table][e.key] = None, ![e.table][e.to] = n]
        /\ e.table \in D
    BY <1>6 DEF Effect, Valid
  <2>2. DOMAIN Effect(e, n, c) = D /\ \A u \in D \ {e.table} : Effect(e, n, c)[u] = c[u]
    BY <2>1
  <2>3. Effect(e, n, c)[e.table] = [c[e.table] EXCEPT ![e.key] = None, ![e.to] = n]
    BY <1>1, <1>6, <2>1
  <2>4. Effect(e, n, c)[e.table][k] = IF k = e.to THEN n ELSE IF k = e.key THEN None
                                      ELSE c[e.table][k]
    BY <1>1, <1>6, <2>1, <2>3
  <2> QED
    BY <1>1, <1>6, <2>1, <2>2, <2>4 DEF ValueIn, RowKinds
<1>7. e.kind \in {"insert", "delete", "create", "truncate", "drop", "drop if exists", "rekey"}
  BY <1>1 DEF RowKinds, QueryKinds
<1> QED
  BY <1>2, <1>3, <1>4, <1>5, <1>6, <1>7

(* The next event of the log and the tables before and after it. *)
LEMMA NextStatement ==
    ASSUME RealtimeInv, NEW n \in 0..(Len(log) - 1), log[n + 1].kind # "rename"
    PROVE  /\ log[n + 1] \in Statements /\ IsContent(mysql[n + 1])
           /\ Valid(log[n + 1], mysql[n + 1])
           /\ DOMAIN mysql[n + 2] = CASE log[n + 1].kind = "create" -> DOMAIN mysql[n + 1] \cup {log[n + 1].table}
                  [] log[n + 1].kind \in {"drop", "drop if exists"} -> DOMAIN mysql[n + 1] \ {log[n + 1].table}
                  [] OTHER -> DOMAIN mysql[n + 1]
           /\ log[n + 1].kind \in RowKinds \cup {"truncate"} => log[n + 1].table \in DOMAIN mysql[n + 1]
           /\ \A t \in Tables : \A k \in Keys :
                ValueIn(mysql[n + 2], t, k) =
                  IF t # log[n + 1].table THEN ValueIn(mysql[n + 1], t, k)
                  ELSE IF /\ log[n + 1].kind \in {"insert", "rekey"}
                          /\ k = RecordId(log[n + 1]) THEN n + 1
                  ELSE IF log[n + 1].kind \in RowKinds /\ k # log[n + 1].key
                    THEN ValueIn(mysql[n + 1], t, k)
                  ELSE None
<1> DEFINE e == log[n + 1]
           c == mysql[n + 1]
<1>1. /\ n + 1 \in 1..Len(log) /\ Len(log) \in Nat /\ e \in Statements
      /\ n + 1 \in DOMAIN mysql /\ \A m \in DOMAIN mysql : IsContent(mysql[m])
  BY Unfold DEF SourceTypeOK
<1>2. /\ Valid(e, c) /\ mysql[(n + 1) + 1] = Effect(e, n + 1, c)
  BY <1>1, Unfold DEF SourceInv
<1>3. n + 1 \in Nat /\ (n + 1) + 1 = n + 2 /\ IsContent(c)
  BY <1>1
<1>4. mysql[n + 2] = Effect(e, n + 1, c)
  BY <1>2, <1>3
<1>5. e.kind # "rename"
  OBVIOUS
<1> HIDE DEF e, c
<1>6. DOMAIN Effect(e, n + 1, c) =
           CASE e.kind = "create" -> DOMAIN c \cup {e.table}
             [] e.kind \in {"drop", "drop if exists"} -> DOMAIN c \ {e.table}
             [] OTHER -> DOMAIN c
  BY <1>1, <1>2, <1>3, <1>5, EffectContent
<1>7. e.kind \in RowKinds \cup {"truncate"} => e.table \in DOMAIN c
  BY <1>1, <1>2, <1>3, EffectContent
<1>8. ASSUME NEW t \in Tables, NEW k \in Keys
      PROVE  ValueIn(Effect(e, n + 1, c), t, k) =
               IF t # e.table THEN ValueIn(c, t, k)
               ELSE IF e.kind \in {"insert", "rekey"} /\ k = RecordId(e) THEN n + 1
               ELSE IF e.kind \in RowKinds /\ k # e.key THEN ValueIn(c, t, k)
               ELSE None
  BY <1>1, <1>2, <1>3, <1>5, EffectValues
<1> QED
  BY <1>1, <1>2, <1>3, <1>4, <1>6, <1>7, <1>8 DEF e, c

-----------------------------------------------------------------------------
(* handle_event. *)

(* While the process runs, the events handled are those up to non_uploaded. *)
LEMMA Running ==
    ASSUME RealtimeInv, ReplicaInv, pc # "down"
    PROVE  /\ DOMAIN ch = DOMAIN mysql[non_uploaded + 1] /\ structs = DOMAIN ch
           /\ \A t \in Tables \ DOMAIN ch : ins[t] = <<>> /\ del[t] = {}
           /\ \A t \in Tables : OnceEach(ins[t]) /\ \A k \in del[t] : ~Has(ins[t], k)
           /\ \A t \in DOMAIN ch : \A k \in Keys : ch[t][k].ver <= versions[t]
           /\ applied \in 0..non_uploaded
           /\ \A t \in Tables : \A k \in Keys :
                /\ Pending(t, k) = ValueIn(mysql[non_uploaded + 1], t, k)
                /\ pc # "upload" => Held(t, k) = ValueIn(mysql[applied + 1], t, k)
<1>1. Handled = non_uploaded
  BY DEF Handled
<1>2. applied <= non_uploaded
  BY <1>1 DEF ReplicaInv, ContentInv
<1>3. applied \in 0..non_uploaded
  BY <1>2, LocalTypes
<1> QED
  BY <1>1, <1>3 DEF ReplicaInv, TablesInv, BatchInv, VersionInv, ContentInv

(* The end of handle_event keeps the invariant when the handler leaves the  *)
(* tables of MySQL after the event in ClickHouse and in the batch, and      *)
(* those after event shown in ClickHouse.                                   *)
LEMMA FinishEventReplica ==
    ASSUME RealtimeInv, NEW id \in 1..Len(log), NEW shown \in 0..id,
           FinishEvent(id, shown),
           DOMAIN ch' = DOMAIN mysql[id + 1], structs' = DOMAIN ch',
           \A t \in Tables \ DOMAIN ch' : ins'[t] = <<>> /\ del'[t] = {},
           \A t \in Tables : OnceEach(ins'[t]) /\ \A k \in del'[t] : ~Has(ins'[t], k),
           \A t \in DOMAIN ch' : \A k \in Keys : ch'[t][k].ver <= versions[t],
           \A t \in Tables : \A k \in Keys :
             /\ Pending(t, k)' = ValueIn(mysql[id + 1], t, k)
             /\ Held(t, k)' = ValueIn(mysql[shown + 1], t, k)
    PROVE  ReplicaInv'
<1>1. /\ non_uploaded' = id /\ mysql' = mysql /\ versions' = versions
      /\ \/ pc' = "upload" /\ applied' = id
         \/ pc' = "loop" /\ applied' = shown
  BY DEF FinishEvent, UploadRecords, source
<1>2. Handled' = id /\ pc' # "down" /\ applied' <= id
  BY <1>1, LocalTypes DEF Handled
<1>3. TablesInv'
  BY <1>1, <1>2 DEF TablesInv
<1>4. BatchInv' /\ VersionInv'
  BY <1>1, <1>2 DEF BatchInv, VersionInv
<1>5. ContentInv'
  <2>1. ASSUME NEW t \in Tables, NEW k \in Keys
        PROVE  /\ Pending(t, k)' = ValueIn(mysql'[Handled' + 1], t, k)
               /\ pc' # "upload" => Held(t, k)' = ValueIn(mysql'[applied' + 1], t, k)
    BY <1>1, <1>2
  <2>2. ASSUME NEW t \in Tables, NEW k \in Keys, NEW n
        PROVE  ValueIn(mysql[n], t, k)' = ValueIn(mysql'[n'], t, k)
    BY DEF ValueIn
  <2> QED
    BY <1>1, <1>2, <2>1 DEF ContentInv, ValueIn
<1> QED
  BY <1>3, <1>4, <1>5 DEF ReplicaInv

LEMMA InsertReplica ==
    ASSUME RealtimeInv, ReplicaInv, Steady, HandleInsert
    PROVE  ReplicaInv'
<1> DEFINE e == log[NextId]
           id == NextId
           d == ins[e.table]
<1>1. /\ Reading /\ NextId > non_uploaded /\ e.kind \in {"insert", "rekey"}
      /\ ins' = [ins EXCEPT ![e.table] = Put(@, RecordId(e), id)]
      /\ del' = [del EXCEPT ![e.table] = @ \ {RecordId(e)}]
      /\ UNCHANGED <<ch, structs>> /\ FinishEvent(id, applied) /\ pc = "loop"
  BY DEF HandleInsert, NewEvent, Reading
<1>2. /\ id = non_uploaded + 1 /\ id \in 1..Len(log) /\ e \in Statements
  BY <1>1, NewEventIsNext
<1>3. e.kind = "insert" /\ RecordId(e) = e.key /\ e.table \in Tables /\ e.key \in Keys
  BY <1>1, <1>2, StatementTypes DEF Steady, RecordId
<1>4. non_uploaded \in 0..(Len(log) - 1) /\ log[non_uploaded + 1] = e
      /\ mysql[non_uploaded + 2] = mysql[id + 1] /\ mysql[non_uploaded + 1] = mysql[id]
  BY <1>2, LocalTypes
<1>5. /\ DOMAIN mysql[id + 1] = DOMAIN mysql[id] /\ e.table \in DOMAIN mysql[id]
      /\ \A t \in Tables : \A k \in Keys :
           ValueIn(mysql[id + 1], t, k) =
             IF t = e.table /\ k = e.key THEN id ELSE ValueIn(mysql[id], t, k)
  <2>1. /\ DOMAIN mysql[non_uploaded + 2] = DOMAIN mysql[non_uploaded + 1]
        /\ e.table \in DOMAIN mysql[non_uploaded + 1]
        /\ \A t \in Tables : \A k \in Keys :
             ValueIn(mysql[non_uploaded + 2], t, k) =
               IF t = e.table /\ k = e.key THEN non_uploaded + 1
               ELSE ValueIn(mysql[non_uploaded + 1], t, k)
    BY <1>3, <1>4, NextStatement DEF RowKinds
  <2> QED
    BY <1>2, <1>4, <2>1
<1> HIDE DEF e, id
<1>6. /\ ins \in [Tables -> Seq(Records(non_uploaded))] /\ del \in [Tables -> SUBSET Keys]
      /\ non_uploaded \in Nat
  BY LocalTypes
<1>7. /\ ins'[e.table] = Put(d, e.key, id) /\ del'[e.table] = del[e.table] \ {e.key}
      /\ \A t \in Tables \ {e.table} : ins'[t] = ins[t] /\ del'[t] = del[t]
  BY <1>1, <1>3, <1>6
<1>8. /\ DOMAIN ch = DOMAIN mysql[id] /\ structs = DOMAIN ch
      /\ \A t \in Tables \ DOMAIN ch : ins[t] = <<>> /\ del[t] = {}
      /\ \A t \in Tables : OnceEach(ins[t]) /\ \A k \in del[t] : ~Has(ins[t], k)
      /\ \A t \in DOMAIN ch : \A k \in Keys : ch[t][k].ver <= versions[t]
      /\ applied \in 0..non_uploaded
      /\ \A t \in Tables : \A k \in Keys :
           /\ Pending(t, k) = ValueIn(mysql[id], t, k)
           /\ Held(t, k) = ValueIn(mysql[applied + 1], t, k)
  BY <1>1, <1>4, Running
<1>9. /\ OnceEach(ins'[e.table])
      /\ Has(ins'[e.table], e.key) /\ ins'[e.table][IndexOf(ins'[e.table], e.key)].val = id
      /\ \A x \in Keys \ {e.key} :
           /\ Has(ins'[e.table], x) <=> Has(d, x)
           /\ Has(d, x) => ins'[e.table][IndexOf(ins'[e.table], x)].val = d[IndexOf(d, x)].val
  <2>1. d \in Seq(Records(non_uploaded)) /\ OnceEach(d)
    BY <1>3, <1>6, <1>8
  <2> HIDE DEF d
  <2> QED
    BY <1>3, <1>6, <1>7, <2>1, PutDict
<1>10. \A t \in Tables : OnceEach(ins'[t]) /\ \A k \in del'[t] : ~Has(ins'[t], k)
  BY <1>3, <1>6, <1>7, <1>8, <1>9
<1>11. ASSUME NEW t \in Tables, NEW k \in Keys
       PROVE  /\ Pending(t, k)' = ValueIn(mysql[id + 1], t, k)
              /\ Held(t, k)' = ValueIn(mysql[applied + 1], t, k)
  <2>1. Held(t, k)' = Held(t, k)
    BY <1>1 DEF Held
  <2>2. CASE t # e.table
    <3>1. Pending(t, k)' = Pending(t, k)
      BY <1>7, <2>1, <2>2 DEF Pending
    <3> QED
      BY <1>5, <1>8, <2>1, <2>2, <3>1
  <2>3. CASE t = e.table /\ k # e.key
    <3>1. Pending(t, k)' = Pending(t, k)
      BY <1>7, <1>9, <2>1, <2>3 DEF Pending
    <3> QED
      BY <1>5, <1>8, <2>1, <2>3, <3>1
  <2>4. CASE t = e.table /\ k = e.key
    <3>1. Pending(t, k)' = id
      BY <1>9, <2>4 DEF Pending
    <3> QED
      BY <1>5, <1>8, <2>1, <2>4, <3>1
  <2> QED
    BY <2>2, <2>3, <2>4
<1>12. applied \in 0..id
  BY <1>2, <1>6, <1>8
<1>13. \A t \in Tables \ DOMAIN ch' : ins'[t] = <<>> /\ del'[t] = {}
  BY <1>1, <1>5, <1>7, <1>8
<1> QED
  BY <1>1, <1>2, <1>5, <1>8, <1>10, <1>11, <1>12, <1>13, FinishEventReplica

LEMMA EraseReplica ==
    ASSUME RealtimeInv, ReplicaInv, Steady, HandleErase
    PROVE  ReplicaInv'
<1> DEFINE e == log[NextId]
           id == NextId
           d == ins[e.table]
<1>1. /\ Reading /\ NextId > non_uploaded /\ e.kind = "delete"
      /\ del' = [del EXCEPT ![e.table] = @ \cup {e.key}]
      /\ ins' = [ins EXCEPT ![e.table] = Pop(@, e.key)]
      /\ UNCHANGED <<ch, structs>> /\ FinishEvent(id, applied) /\ pc = "loop"
  BY DEF HandleErase, NewEvent, Reading
<1>2. /\ id = non_uploaded + 1 /\ id \in 1..Len(log) /\ e \in Statements
  BY <1>1, NewEventIsNext
<1>3. e.table \in Tables /\ e.key \in Keys
  BY <1>2, StatementTypes
<1>4. non_uploaded \in 0..(Len(log) - 1) /\ log[non_uploaded + 1] = e
      /\ mysql[non_uploaded + 2] = mysql[id + 1] /\ mysql[non_uploaded + 1] = mysql[id]
  BY <1>2, LocalTypes
<1>5. /\ DOMAIN mysql[id + 1] = DOMAIN mysql[id] /\ e.table \in DOMAIN mysql[id]
      /\ \A t \in Tables : \A k \in Keys :
           ValueIn(mysql[id + 1], t, k) =
             IF t = e.table /\ k = e.key THEN None ELSE ValueIn(mysql[id], t, k)
  <2>1. /\ DOMAIN mysql[non_uploaded + 2] = DOMAIN mysql[non_uploaded + 1]
        /\ e.table \in DOMAIN mysql[non_uploaded + 1]
        /\ \A t \in Tables : \A k \in Keys :
             ValueIn(mysql[non_uploaded + 2], t, k) =
               IF t = e.table /\ k = e.key THEN None
               ELSE ValueIn(mysql[non_uploaded + 1], t, k)
    BY <1>1, <1>4, NextStatement DEF RowKinds
  <2> QED
    BY <1>4, <2>1
<1> HIDE DEF e, id
<1>6. /\ ins \in [Tables -> Seq(Records(non_uploaded))] /\ del \in [Tables -> SUBSET Keys]
      /\ non_uploaded \in Nat
  BY LocalTypes
<1>7. /\ ins'[e.table] = Pop(d, e.key) /\ del'[e.table] = del[e.table] \cup {e.key}
      /\ \A t \in Tables \ {e.table} : ins'[t] = ins[t] /\ del'[t] = del[t]
  BY <1>1, <1>3, <1>6
<1>8. /\ DOMAIN ch = DOMAIN mysql[id] /\ structs = DOMAIN ch
      /\ \A t \in Tables \ DOMAIN ch : ins[t] = <<>> /\ del[t] = {}
      /\ \A t \in Tables : OnceEach(ins[t]) /\ \A k \in del[t] : ~Has(ins[t], k)
      /\ \A t \in DOMAIN ch : \A k \in Keys : ch[t][k].ver <= versions[t]
      /\ applied \in 0..non_uploaded
      /\ \A t \in Tables : \A k \in Keys :
           /\ Pending(t, k) = ValueIn(mysql[id], t, k)
           /\ Held(t, k) = ValueIn(mysql[applied + 1], t, k)
  BY <1>1, <1>4, Running
<1>9. /\ OnceEach(ins'[e.table]) /\ ~Has(ins'[e.table], e.key)
      /\ \A x \in Keys \ {e.key} :
           /\ Has(ins'[e.table], x) <=> Has(d, x)
           /\ Has(d, x) => ins'[e.table][IndexOf(ins'[e.table], x)].val = d[IndexOf(d, x)].val
  <2>1. d \in Seq(Records(non_uploaded)) /\ OnceEach(d)
    BY <1>3, <1>6, <1>8
  <2> HIDE DEF d
  <2> QED
    BY <1>3, <1>7, <2>1, PopDict
<1>10. \A t \in Tables : OnceEach(ins'[t]) /\ \A k \in del'[t] : ~Has(ins'[t], k)
  BY <1>3, <1>6, <1>7, <1>8, <1>9
<1>11. ASSUME NEW t \in Tables, NEW k \in Keys
       PROVE  /\ Pending(t, k)' = ValueIn(mysql[id + 1], t, k)
              /\ Held(t, k)' = ValueIn(mysql[applied + 1], t, k)
  <2>1. Held(t, k)' = Held(t, k)
    BY <1>1 DEF Held
  <2>2. CASE t # e.table
    <3>1. Pending(t, k)' = Pending(t, k)
      BY <1>7, <2>1, <2>2 DEF Pending
    <3> QED
      BY <1>5, <1>8, <2>1, <2>2, <3>1
  <2>3. CASE t = e.table /\ k # e.key
    <3>1. Pending(t, k)' = Pending(t, k)
      BY <1>7, <1>9, <2>1, <2>3 DEF Pending
    <3> QED
      BY <1>5, <1>8, <2>1, <2>3, <3>1
  <2>4. CASE t = e.table /\ k = e.key
    <3>1. Pending(t, k)' = None
      BY <1>7, <1>9, <2>4 DEF Pending
    <3> QED
      BY <1>5, <1>8, <2>1, <2>4, <3>1
  <2> QED
    BY <2>2, <2>3, <2>4
<1>12. applied \in 0..id
  BY <1>2, <1>6, <1>8
<1>13. \A t \in Tables \ DOMAIN ch' : ins'[t] = <<>> /\ del'[t] = {}
  BY <1>1, <1>5, <1>7, <1>8
<1> QED
  BY <1>1, <1>2, <1>5, <1>8, <1>10, <1>11, <1>12, <1>13, FinishEventReplica

(* CREATE TABLE adds an empty table, ahead of the rows in the batch.        *)
LEMMA CreateReplica ==
    ASSUME RealtimeInv, ReplicaInv, Steady, HandleCreateTable
    PROVE  ReplicaInv'
<1> DEFINE e == log[NextId]
           id == NextId
<1>1. /\ Reading /\ NextId > non_uploaded /\ e.kind = "create"
      /\ structs' = structs \cup {e.table}
      /\ ch' = IF e.table \in DOMAIN ch THEN ch ELSE With(ch, e.table, EmptyTable)
      /\ UNCHANGED <<ins, del>> /\ FinishEvent(id, applied) /\ pc = "loop"
  BY DEF HandleCreateTable, NewEvent, Reading
<1>2. /\ id = non_uploaded + 1 /\ id \in 1..Len(log) /\ e \in Statements
  BY <1>1, NewEventIsNext
<1>3. e.table \in Tables
  BY <1>2, StatementTypes
<1>4. non_uploaded \in 0..(Len(log) - 1) /\ log[non_uploaded + 1] = e
      /\ mysql[non_uploaded + 2] = mysql[id + 1] /\ mysql[non_uploaded + 1] = mysql[id]
  BY <1>2, LocalTypes
<1>5. /\ DOMAIN mysql[id + 1] = DOMAIN mysql[id] \cup {e.table}
      /\ e.table \notin DOMAIN mysql[id]
      /\ \A t \in Tables : \A k \in Keys :
           ValueIn(mysql[id + 1], t, k) =
             IF t = e.table THEN None ELSE ValueIn(mysql[id], t, k)
  <2>1. /\ DOMAIN mysql[non_uploaded + 2] = DOMAIN mysql[non_uploaded + 1] \cup {e.table}
        /\ Valid(e, mysql[non_uploaded + 1])
        /\ \A t \in Tables : \A k \in Keys :
             ValueIn(mysql[non_uploaded + 2], t, k) =
               IF t = e.table THEN None ELSE ValueIn(mysql[non_uploaded + 1], t, k)
    BY <1>1, <1>4, NextStatement DEF RowKinds
  <2>2. e.table \notin DOMAIN mysql[non_uploaded + 1]
    BY <1>1, <2>1 DEF Valid
  <2> QED
    BY <1>4, <2>1, <2>2
<1> HIDE DEF e, id
<1>6. /\ DOMAIN ch = DOMAIN mysql[id] /\ structs = DOMAIN ch
      /\ \A t \in Tables \ DOMAIN ch : ins[t] = <<>> /\ del[t] = {}
      /\ \A t \in Tables : OnceEach(ins[t]) /\ \A k \in del[t] : ~Has(ins[t], k)
      /\ \A t \in DOMAIN ch : \A k \in Keys : ch[t][k].ver <= versions[t]
      /\ applied \in 0..non_uploaded
      /\ \A t \in Tables : \A k \in Keys :
           /\ Pending(t, k) = ValueIn(mysql[id], t, k)
           /\ Held(t, k) = ValueIn(mysql[applied + 1], t, k)
  BY <1>1, <1>4, Running
<1>7. /\ DOMAIN ch' = DOMAIN ch \cup {e.table} /\ e.table \notin DOMAIN ch
      /\ ch'[e.table] = [k \in Keys |-> [val |-> None, ver |-> 0]]
      /\ \A t \in DOMAIN ch : ch'[t] = ch[t]
  BY <1>1, <1>5, <1>6 DEF With, EmptyTable, NoRow
<1>8. \A t \in DOMAIN ch' : \A k \in Keys : ch'[t][k].ver <= versions[t]
  <2>1. versions[e.table] \in Nat
    BY <1>3, Unfold DEF LocalInv, ProcessTypeOK
  <2> QED
    BY <1>6, <1>7, <2>1
<1>9. ASSUME NEW t \in Tables, NEW k \in Keys
      PROVE  /\ Pending(t, k)' = ValueIn(mysql[id + 1], t, k)
             /\ Held(t, k)' = ValueIn(mysql[applied + 1], t, k)
  <2>1. Held(t, k)' = Held(t, k)
    BY <1>7 DEF Held
  <2>2. Pending(t, k)' = Pending(t, k)
    BY <1>1, <2>1 DEF Pending
  <2>3. t = e.table => Pending(t, k) = None
    BY <1>5, <1>6 DEF ValueIn
  <2> QED
    BY <1>5, <1>6, <2>1, <2>2, <2>3
<1>10. applied \in 0..id
  BY <1>2, <1>6, LocalTypes
<1>11. \A t \in Tables \ DOMAIN ch' : ins'[t] = <<>> /\ del'[t] = {}
  BY <1>1, <1>6, <1>7
<1>12. \A t \in Tables : OnceEach(ins'[t]) /\ \A k \in del'[t] : ~Has(ins'[t], k)
  BY <1>1, <1>6
<1>13. DOMAIN ch' = DOMAIN mysql[id + 1] /\ structs' = DOMAIN ch'
  BY <1>1, <1>5, <1>6, <1>7
<1> QED
  BY <1>1, <1>2, <1>8, <1>9, <1>10, <1>11, <1>12, <1>13, FinishEventReplica

(* A DDL statement that finds the batch uploaded takes ClickHouse to the    *)
(* tables after it.                                                         *)
LEMMA QueryReplica ==
    ASSUME RealtimeInv, ReplicaInv, Steady, pc = "query", FinishQuery,
           NEW id, id = relay[reader],
           DOMAIN ch' = DOMAIN mysql[id + 1], structs' = DOMAIN ch',
           \A t \in Tables : ins'[t] = <<>> /\ del'[t] = {},
           \A t \in DOMAIN ch' : \A k \in Keys : ch'[t][k].ver <= versions[t],
           \A t \in Tables : \A k \in Keys : Held(t, k)' = ValueIn(mysql[id + 1], t, k)
    PROVE  ReplicaInv'
<1>1. id \in 1..Len(log)
  BY QueryFacts
<1>2. FinishEvent(id, id) /\ id \in 0..id
  BY <1>1, LocalTypes DEF FinishQuery
<1>3. \A k : ~Has(<<>>, k)
  BY DEF Has
<1>4. OnceEach(<<>>)
  BY DEF OnceEach
<1>5. \A t \in Tables : OnceEach(ins'[t]) /\ \A k \in del'[t] : ~Has(ins'[t], k)
  BY <1>4
<1>6. \A t \in Tables : \A k \in Keys : Pending(t, k)' = Held(t, k)'
  BY <1>3 DEF Pending
<1> QED
  BY <1>1, <1>2, <1>5, <1>6, FinishEventReplica

(* What a DDL statement finds. *)
LEMMA QueryState ==
    ASSUME RealtimeInv, ReplicaInv, Steady, pc = "query", NEW id, id = relay[reader],
           NEW e, e = log[id]
    PROVE  /\ e.kind \in {"drop", "drop if exists", "truncate"} /\ e.table \in Tables
           /\ DOMAIN ch = DOMAIN mysql[id] /\ structs = DOMAIN ch
           /\ e.kind = "drop" => e.table \in DOMAIN ch
           /\ e.kind = "truncate" => e.table \in DOMAIN ch /\ DOMAIN mysql[id + 1] = DOMAIN ch
           /\ e.kind # "truncate" => DOMAIN mysql[id + 1] = DOMAIN ch \ {e.table}
           /\ \A t \in Tables : ins[t] = <<>> /\ del[t] = {}
           /\ versions \in [Tables -> Nat]
           /\ \A t \in DOMAIN ch : \A k \in Keys : ch[t][k].ver <= versions[t]
           /\ \A t \in Tables : \A k \in Keys :
                ValueIn(mysql[id + 1], t, k) = IF t = e.table THEN None ELSE Held(t, k)
<1>1. /\ id \in 1..Len(log) /\ id = non_uploaded + 1
      /\ e \in Statements /\ e.kind \in QueryKinds \ {"create"} /\ e.table \in Tables
      /\ ins = NoRecords /\ del = NoKeys /\ Valid(e, mysql[id])
  BY QueryFacts
<1>2. e.kind \in {"drop", "drop if exists", "truncate"}
  BY <1>1 DEF QueryKinds, Steady
<1>3. \A t \in Tables : ins[t] = <<>> /\ del[t] = {}
  BY <1>1 DEF NoRecords, NoKeys
<1>4. non_uploaded \in 0..(Len(log) - 1) /\ log[non_uploaded + 1] = e
      /\ mysql[non_uploaded + 2] = mysql[id + 1] /\ mysql[non_uploaded + 1] = mysql[id]
  BY <1>1, LocalTypes
<1>5. /\ DOMAIN ch = DOMAIN mysql[id] /\ structs = DOMAIN ch
      /\ \A t \in DOMAIN ch : \A k \in Keys : ch[t][k].ver <= versions[t]
      /\ \A t \in Tables : \A k \in Keys : Pending(t, k) = ValueIn(mysql[id], t, k)
  BY <1>4, Running
<1>6. \A t \in Tables : \A k \in Keys : Pending(t, k) = Held(t, k)
  BY <1>3 DEF Pending, Has
<1>7. /\ DOMAIN mysql[id + 1] = IF e.kind = "truncate" THEN DOMAIN mysql[id]
                                ELSE DOMAIN mysql[id] \ {e.table}
      /\ e.kind = "truncate" => e.table \in DOMAIN mysql[id]
      /\ \A t \in Tables : \A k \in Keys :
           ValueIn(mysql[id + 1], t, k) =
             IF t = e.table THEN None ELSE ValueIn(mysql[id], t, k)
  <2>1. /\ DOMAIN mysql[non_uploaded + 2] =
             IF e.kind = "truncate" THEN DOMAIN mysql[non_uploaded + 1]
             ELSE DOMAIN mysql[non_uploaded + 1] \ {e.table}
        /\ e.kind = "truncate" => e.table \in DOMAIN mysql[non_uploaded + 1]
        /\ \A t \in Tables : \A k \in Keys :
             ValueIn(mysql[non_uploaded + 2], t, k) =
               IF t = e.table THEN None ELSE ValueIn(mysql[non_uploaded + 1], t, k)
    BY <1>2, <1>4, NextStatement DEF RowKinds
  <2> QED
    BY <1>4, <2>1
<1>8. e.kind = "drop" => e.table \in DOMAIN mysql[id]
  BY <1>1 DEF Valid
<1>9. versions \in [Tables -> Nat]
  BY Unfold DEF LocalInv, ProcessTypeOK
<1>10. \A t \in Tables : \A k \in Keys :
         ValueIn(mysql[id + 1], t, k) = IF t = e.table THEN None ELSE Held(t, k)
  BY <1>5, <1>6, <1>7
<1>11. /\ e.kind = "drop" => e.table \in DOMAIN ch
       /\ e.kind = "truncate" => e.table \in DOMAIN ch /\ DOMAIN mysql[id + 1] = DOMAIN ch
       /\ e.kind # "truncate" => DOMAIN mysql[id + 1] = DOMAIN ch \ {e.table}
  BY <1>5, <1>7, <1>8
<1> QED
  BY <1>1, <1>2, <1>3, <1>5, <1>9, <1>10, <1>11

LEMMA DropReplica ==
    ASSUME RealtimeInv, ReplicaInv, Steady, HandleDropTable
    PROVE  ReplicaInv'
<1> DEFINE id == relay[reader]
           e == log[id]
<1>1. /\ pc = "query" /\ e.kind \in {"drop", "drop if exists"}
      /\ structs' = structs \ {e.table} /\ ch' = Without(ch, e.table)
      /\ UNCHANGED <<ins, del>> /\ FinishQuery
  BY DEF HandleDropTable, Executing, Query
<1> HIDE DEF e
<1>2. /\ structs = DOMAIN ch /\ DOMAIN mysql[id + 1] = DOMAIN ch \ {e.table}
      /\ \A t \in Tables : ins[t] = <<>> /\ del[t] = {}
      /\ \A t \in DOMAIN ch : \A k \in Keys : ch[t][k].ver <= versions[t]
      /\ \A t \in Tables : \A k \in Keys :
           ValueIn(mysql[id + 1], t, k) = IF t = e.table THEN None ELSE Held(t, k)
  BY <1>1, QueryState DEF e
<1>3. DOMAIN ch' = DOMAIN ch \ {e.table} /\ \A t \in DOMAIN ch' : ch'[t] = ch[t]
  BY <1>1 DEF Without
<1>4. \A t \in Tables : \A k \in Keys : Held(t, k)' = ValueIn(mysql[id + 1], t, k)
  BY <1>2, <1>3 DEF Held
<1> HIDE DEF id
<1>5. \A t \in Tables : ins'[t] = <<>> /\ del'[t] = {}
  BY <1>1, <1>2
<1>6. DOMAIN ch' = DOMAIN mysql[id + 1] /\ structs' = DOMAIN ch'
  BY <1>1, <1>2, <1>3
<1>7. \A t \in DOMAIN ch' : \A k \in Keys : ch'[t][k].ver <= versions[t]
  BY <1>2, <1>3
<1> QED
  BY <1>1, <1>4, <1>5, <1>6, <1>7, QueryReplica DEF id

LEMMA TruncateReplica ==
    ASSUME RealtimeInv, ReplicaInv, Steady, HandleTruncate
    PROVE  ReplicaInv'
<1> DEFINE id == relay[reader]
           e == log[id]
<1>1. /\ pc = "query" /\ e.kind = "truncate" /\ UNCHANGED structs /\ FinishQuery
      /\ IF e.table \in structs
         THEN /\ ch' = [ch EXCEPT ![e.table] = EmptyTable]
              /\ ins' = [ins EXCEPT ![e.table] = <<>>]
              /\ del' = [del EXCEPT ![e.table] = {}]
         ELSE UNCHANGED <<ch, ins, del>>
  BY DEF HandleTruncate, Executing, Query
<1> HIDE DEF e
<1>2. /\ structs = DOMAIN ch /\ DOMAIN mysql[id + 1] = DOMAIN ch /\ e.table \in DOMAIN ch
      /\ \A t \in Tables : ins[t] = <<>> /\ del[t] = {}
      /\ versions \in [Tables -> Nat] /\ e.table \in Tables
      /\ \A t \in DOMAIN ch : \A k \in Keys : ch[t][k].ver <= versions[t]
      /\ \A t \in Tables : \A k \in Keys :
           ValueIn(mysql[id + 1], t, k) = IF t = e.table THEN None ELSE Held(t, k)
  BY <1>1, QueryState DEF e
<1>3. /\ DOMAIN ch' = DOMAIN ch /\ \A t \in DOMAIN ch \ {e.table} : ch'[t] = ch[t]
      /\ ch'[e.table] = [k \in Keys |-> [val |-> None, ver |-> 0]]
  BY <1>1, <1>2 DEF EmptyTable, NoRow
<1>4. \A t \in Tables : \A k \in Keys : Held(t, k)' = ValueIn(mysql[id + 1], t, k)
  BY <1>2, <1>3 DEF Held
<1> HIDE DEF id
<1>5. \A t \in Tables : ins'[t] = <<>> /\ del'[t] = {}
  <2>1. ins \in [Tables -> Seq(Records(non_uploaded))] /\ del \in [Tables -> SUBSET Keys]
    BY LocalTypes
  <2> QED
    BY <1>1, <1>2, <2>1
<1>6. DOMAIN ch' = DOMAIN mysql[id + 1] /\ structs' = DOMAIN ch'
  BY <1>1, <1>2, <1>3
<1>7. \A t \in DOMAIN ch' : \A k \in Keys : ch'[t][k].ver <= versions[t]
  BY <1>2, <1>3
<1> QED
  BY <1>1, <1>4, <1>5, <1>6, <1>7, QueryReplica DEF id

-----------------------------------------------------------------------------
(* The other steps of the process. *)

(* Nothing moves but the reader, or an upload begins, or it is complete.    *)
LEMMA DataStays ==
    ASSUME RealtimeInv, ReplicaInv, pc # "down", pc' # "down",
           UNCHANGED <<mysql, ch, non_uploaded, versions, structs, ins, del>>,
           \/ pc # "upload" /\ pc' = pc /\ applied' = applied
           \/ pc' = "upload" /\ applied' = non_uploaded
           \/ pc = "upload" /\ applied' = applied /\ ins = NoRecords /\ del = NoKeys
    PROVE  ReplicaInv'
<1>1. Handled = non_uploaded /\ Handled' = non_uploaded
  BY DEF Handled
<1>2. TablesInv /\ BatchInv /\ VersionInv /\ ContentInv
  BY DEF ReplicaInv
<1>3. TablesInv' /\ BatchInv' /\ VersionInv'
  BY <1>1, <1>2 DEF TablesInv, BatchInv, VersionInv
<1>4. /\ applied \in Nat /\ non_uploaded \in Nat
      /\ applied <= non_uploaded
      /\ pc \in {"upload", "query", "stop"} => applied = non_uploaded
      /\ \A t \in Tables : \A k \in Keys :
           /\ Pending(t, k) = ValueIn(mysql[non_uploaded + 1], t, k)
           /\ pc # "upload" => Held(t, k) = ValueIn(mysql[applied + 1], t, k)
  BY <1>1, <1>2, LocalTypes DEF ContentInv
<1>5. /\ applied' <= non_uploaded
      /\ pc' \in {"upload", "query", "stop"} => applied' = non_uploaded
  BY <1>4
<1>6. ASSUME NEW t \in Tables, NEW k \in Keys
      PROVE  /\ Pending(t, k)' = ValueIn(mysql[non_uploaded + 1], t, k)
             /\ pc' # "upload" => Held(t, k)' = ValueIn(mysql[applied' + 1], t, k)
  <2>1. Held(t, k)' = Held(t, k)
    BY DEF Held
  <2>2. Pending(t, k)' = Pending(t, k)
    BY <2>1 DEF Pending
  <2>3. ins = NoRecords /\ del = NoKeys => Pending(t, k) = Held(t, k)
    BY DEF Pending, NoRecords, NoKeys, Has
  <2> QED
    BY <1>4, <2>1, <2>2, <2>3
<1>7. ContentInv'
  BY <1>1, <1>5, <1>6 DEF ContentInv, ValueIn
<1> QED
  BY <1>3, <1>7 DEF ReplicaInv

LEMMA UploadInsertReplica ==
    ASSUME RealtimeInv, ReplicaInv, NEW t \in Tables, InsertRecords(t)
    PROVE  ReplicaInv'
<1> DEFINE d == ins[t]
           new(k) == [val |-> d[IndexOf(d, k)].val, ver |-> versions[t] + IndexOf(d, k)]
<1>1. /\ pc = "upload" /\ pc' = pc /\ t \in DOMAIN ch
      /\ ch' = [ch EXCEPT ![t] = [k \in Keys |-> IF Has(d, k) THEN Winner(ch[t][k], new(k))
                                                 ELSE ch[t][k]]]
      /\ versions' = [versions EXCEPT ![t] = LastUsedVersion(@, Len(d))]
      /\ ins' = [ins EXCEPT ![t] = <<>>]
      /\ UNCHANGED <<mysql, saved, non_uploaded, structs, del, applied>>
  BY DEF InsertRecords, source
<1>2. /\ ins \in [Tables -> Seq(Records(non_uploaded))] /\ versions \in [Tables -> Nat]
      /\ \A s \in DOMAIN ch : ch[s] \in [Keys -> [val : 0..Len(log), ver : Nat]]
      /\ DOMAIN ch \subseteq Tables
  BY LocalTypes, Unfold DEF LocalInv, ProcessTypeOK
<1>3. /\ DOMAIN ch = DOMAIN mysql[non_uploaded + 1] /\ structs = DOMAIN ch
      /\ \A s \in Tables \ DOMAIN ch : ins[s] = <<>> /\ del[s] = {}
      /\ \A s \in Tables : OnceEach(ins[s]) /\ \A k \in del[s] : ~Has(ins[s], k)
      /\ \A s \in DOMAIN ch : \A k \in Keys : ch[s][k].ver <= versions[s]
      /\ \A s \in Tables : \A k \in Keys :
           Pending(s, k) = ValueIn(mysql[non_uploaded + 1], s, k)
  BY <1>1, Running
<1>4. Handled = non_uploaded /\ Handled' = non_uploaded /\ applied = non_uploaded
  BY <1>1 DEF Handled, ReplicaInv, ContentInv
<1>5. versions[t] \in Nat /\ Len(d) \in Nat /\ d \in Seq(Records(non_uploaded))
  BY <1>2
<1>6. ASSUME NEW k \in Keys, Has(d, k)
      PROVE  /\ Winner(ch[t][k], new(k)) = new(k) /\ new(k).val = d[IndexOf(d, k)].val
             /\ new(k).ver <= versions[t] + Len(d) + 1
  <2> DEFINE i == IndexOf(d, k)
  <2>1. i \in 1..Len(d)
    BY <1>5, <1>6, IndexOfHas
  <2>2. ch[t][k].ver <= versions[t] /\ ch[t][k].ver \in Nat
    BY <1>1, <1>2, <1>3
  <2> HIDE DEF i
  <2>3. new(k) = [val |-> d[i].val, ver |-> versions[t] + i]
    BY DEF i
  <2> HIDE DEF new, d
  <2>4. new(k).ver = versions[t] + i /\ new(k).val = d[i].val
    BY <2>3
  <2>5. new(k).ver >= ch[t][k].ver
    BY <1>5, <2>1, <2>2, <2>4
  <2> QED
    BY <1>5, <2>1, <2>4, <2>5 DEF Winner, i
<1>7. /\ DOMAIN ch' = DOMAIN ch /\ \A s \in DOMAIN ch \ {t} : ch'[s] = ch[s]
      /\ \A k \in Keys : ch'[t][k] = IF Has(d, k) THEN new(k) ELSE ch[t][k]
  <2> DEFINE row(k) == IF Has(d, k) THEN Winner(ch[t][k], new(k)) ELSE ch[t][k]
  <2> HIDE DEF row
  <2>1. ch' = [ch EXCEPT ![t] = [k \in Keys |-> row(k)]]
    BY <1>1 DEF row
  <2>2. /\ DOMAIN ch' = DOMAIN ch /\ \A s \in DOMAIN ch \ {t} : ch'[s] = ch[s]
        /\ \A k \in Keys : ch'[t][k] = row(k)
    BY <1>1, <2>1
  <2> QED
    BY <1>6, <2>2 DEF row
<1>8. /\ ins'[t] = <<>> /\ \A s \in Tables \ {t} : ins'[s] = ins[s]
      /\ versions'[t] = versions[t] + Len(d) + 1
      /\ \A s \in Tables \ {t} : versions'[s] = versions[s]
  BY <1>1, <1>2 DEF LastUsedVersion
<1>9. \A k : ~Has(<<>>, k)
  BY DEF Has
<1> HIDE DEF new
<1>10. TablesInv'
  BY <1>1, <1>3, <1>4, <1>7, <1>8 DEF TablesInv
<1>11. BatchInv'
  <2>1. OnceEach(<<>>)
    BY DEF OnceEach
  <2> QED
    BY <1>1, <1>3, <1>8, <1>9, <2>1 DEF BatchInv
<1>12. VersionInv'
  <2>1. ASSUME NEW s \in DOMAIN ch, NEW k \in Keys PROVE ch'[s][k].ver <= versions'[s]
    <3>1. CASE s # t
      <4>1. s \in Tables
        BY <1>2
      <4> QED
        BY <1>3, <1>7, <1>8, <3>1, <4>1
    <3>2. CASE s = t /\ Has(d, k)
      BY <1>6, <1>7, <1>8, <3>2
    <3>3. CASE s = t /\ ~Has(d, k)
      <4>1. ch[t][k].ver <= versions[t] /\ ch[t][k].ver \in Nat
        BY <1>1, <1>2, <1>3
      <4>2. ch'[s][k] = ch[t][k] /\ versions'[s] = versions[t] + Len(d) + 1
        BY <1>7, <1>8, <3>3
      <4> HIDE DEF d
      <4> QED
        BY <1>5, <4>1, <4>2
    <3> QED
      BY <3>1, <3>2, <3>3
  <2> QED
    BY <1>1, <1>7, <2>1 DEF VersionInv
<1>13. ASSUME NEW s \in Tables, NEW k \in Keys PROVE Pending(s, k)' = Pending(s, k)
  <2>1. CASE s # t
    BY <1>1, <1>7, <1>8, <2>1 DEF Pending, Held
  <2>2. CASE s = t /\ Has(d, k)
    <3>1. k \notin del[t] /\ ch'[t][k].val = d[IndexOf(d, k)].val
      BY <1>3, <1>6, <1>7, <2>2
    <3>2. Pending(s, k)' = ch'[t][k].val
      BY <1>1, <1>7, <1>8, <1>9, <2>2, <3>1 DEF Pending, Held
    <3>3. Pending(s, k) = d[IndexOf(d, k)].val
      BY <2>2 DEF Pending
    <3> QED
      BY <3>1, <3>2, <3>3
  <2>3. CASE s = t /\ ~Has(d, k)
    <3>1. ch'[t][k] = ch[t][k]
      BY <1>7, <2>3
    <3>2. Held(s, k)' = Held(s, k)
      BY <1>1, <1>7, <2>3, <3>1 DEF Held
    <3> QED
      BY <1>1, <1>8, <1>9, <2>3, <3>2 DEF Pending
  <2> QED
    BY <2>1, <2>2, <2>3
<1>14. ContentInv'
  <2>1. applied' <= non_uploaded
    BY <1>1, <1>4, LocalTypes
  <2> QED
    BY <1>1, <1>3, <1>4, <1>13, <2>1 DEF ContentInv, ValueIn
<1> QED
  BY <1>10, <1>11, <1>12, <1>14 DEF ReplicaInv

LEMMA UploadEraseReplica ==
    ASSUME RealtimeInv, ReplicaInv, NEW t \in Tables, EraseRecords(t)
    PROVE  ReplicaInv'
<1>1. /\ pc = "upload" /\ pc' = pc /\ t \in DOMAIN ch
      /\ UNCHANGED <<mysql, saved, non_uploaded, versions, structs, ins, applied>>
  BY DEF EraseRecords, source
<1>2. PICK batch \in SUBSET del[t] :
        /\ ch' = [ch EXCEPT ![t] = [k \in Keys |-> IF k \in batch THEN NoRow ELSE @[k]]]
        /\ del' = [del EXCEPT ![t] = @ \ batch]
  BY DEF EraseRecords
<1>3. /\ DOMAIN ch = DOMAIN mysql[non_uploaded + 1] /\ structs = DOMAIN ch
      /\ \A s \in Tables \ DOMAIN ch : ins[s] = <<>> /\ del[s] = {}
      /\ \A s \in Tables : OnceEach(ins[s]) /\ \A k \in del[s] : ~Has(ins[s], k)
      /\ \A s \in DOMAIN ch : \A k \in Keys : ch[s][k].ver <= versions[s]
      /\ \A s \in Tables : \A k \in Keys :
           Pending(s, k) = ValueIn(mysql[non_uploaded + 1], s, k)
  BY <1>1, Running
<1>4. Handled = non_uploaded /\ Handled' = non_uploaded /\ applied = non_uploaded
  BY <1>1 DEF Handled, ReplicaInv, ContentInv
<1>5. /\ DOMAIN ch' = DOMAIN ch /\ \A s \in DOMAIN ch \ {t} : ch'[s] = ch[s]
      /\ \A k \in Keys : ch'[t][k] = IF k \in batch THEN NoRow ELSE ch[t][k]
  BY <1>1, <1>2
<1>6. del'[t] = del[t] \ batch /\ \A s \in Tables \ {t} : del'[s] = del[s]
  BY <1>2, LocalTypes
<1>7. TablesInv'
  BY <1>1, <1>3, <1>4, <1>5, <1>6 DEF TablesInv
<1>8. BatchInv'
  BY <1>1, <1>3, <1>6 DEF BatchInv
<1>9. VersionInv'
  <2>1. versions[t] \in Nat /\ NoRow.ver = 0
    BY Unfold DEF LocalInv, ProcessTypeOK, NoRow
  <2>2. ASSUME NEW s \in DOMAIN ch, NEW k \in Keys PROVE ch'[s][k].ver <= versions[s]
    BY <1>3, <1>5, <2>1
  <2> QED
    BY <1>1, <1>5, <2>2 DEF VersionInv
<1>10. ASSUME NEW s \in Tables, NEW k \in Keys PROVE Pending(s, k)' = Pending(s, k)
  <2>1. CASE s # t
    BY <1>1, <1>5, <1>6, <2>1 DEF Pending, Held
  <2>2. CASE s = t /\ k \in batch
    <3>1. ~Has(ins[t], k) /\ k \in del[t] /\ k \notin del'[t] /\ ch'[t][k].val = None
      BY <1>3, <1>5, <1>6, <2>2 DEF NoRow
    <3> QED
      BY <1>1, <1>5, <2>2, <3>1 DEF Pending, Held
  <2>3. CASE s = t /\ k \notin batch
    BY <1>1, <1>5, <1>6, <2>3 DEF Pending, Held
  <2> QED
    BY <2>1, <2>2, <2>3
<1>11. ContentInv'
  <2>1. applied' <= non_uploaded
    BY <1>1, <1>4, LocalTypes
  <2> QED
    BY <1>1, <1>3, <1>4, <1>10, <2>1 DEF ContentInv, ValueIn
<1> QED
  BY <1>7, <1>8, <1>9, <1>11 DEF ReplicaInv

(* Only what is saved outlives the process, and a stop saves everything.    *)
LEMMA StopReplica ==
    ASSUME RealtimeInv, ReplicaInv, Stop
    PROVE  ReplicaInv'
<1>1. /\ pc = "stop" /\ pc' = "down" /\ ins' = NoRecords /\ del' = NoKeys
      /\ saved'.last = last /\ saved'.versions = versions /\ saved'.structs = structs
      /\ UNCHANGED <<mysql, ch, applied>>
  BY DEF Stop, Save, ProcessEnds, source, history
<1>2. last = non_uploaded
  BY <1>1, Unfold DEF LocalInv, ReadInv
<1>3. Handled = non_uploaded /\ Handled' = non_uploaded /\ applied = non_uploaded
  BY <1>1, <1>2 DEF Handled, ReplicaInv, ContentInv
<1>4. /\ DOMAIN ch = DOMAIN mysql[non_uploaded + 1] /\ structs = DOMAIN ch
      /\ \A s \in DOMAIN ch : \A k \in Keys : ch[s][k].ver <= versions[s]
      /\ \A s \in Tables : \A k \in Keys :
           Held(s, k) = ValueIn(mysql[non_uploaded + 1], s, k)
  BY <1>1, <1>3, Running
<1>5. \A s \in Tables : ins'[s] = <<>> /\ del'[s] = {}
  BY <1>1 DEF NoRecords, NoKeys
<1>6. OnceEach(<<>>) /\ \A k : ~Has(<<>>, k)
  BY DEF OnceEach, Has
<1>7. TablesInv' /\ BatchInv' /\ VersionInv'
  BY <1>1, <1>3, <1>4, <1>5, <1>6 DEF TablesInv, BatchInv, VersionInv
<1>8. ASSUME NEW s \in Tables, NEW k \in Keys
      PROVE  Pending(s, k)' = Held(s, k) /\ Held(s, k)' = Held(s, k)
  <2>1. Held(s, k)' = Held(s, k)
    BY <1>1 DEF Held
  <2> QED
    BY <1>5, <1>6, <2>1 DEF Pending
<1>9. ContentInv'
  <2>1. applied' <= non_uploaded
    BY <1>1, <1>3, LocalTypes
  <2> QED
    BY <1>1, <1>3, <1>4, <1>8, <2>1 DEF ContentInv, ValueIn
<1> QED
  BY <1>7, <1>9 DEF ReplicaInv

LEMMA StartReplica ==
    ASSUME RealtimeInv, ReplicaInv, Start
    PROVE  ReplicaInv'
<1>1. /\ pc = "down" /\ pc' = "loop" /\ non_uploaded' = saved.last
      /\ versions' = saved.versions /\ structs' = saved.structs
      /\ UNCHANGED <<mysql, ch, ins, del, applied>>
  BY DEF Start, source, history
<1>2. Handled = saved.last /\ Handled' = saved.last
  BY <1>1 DEF Handled
<1>3. TablesInv' /\ BatchInv' /\ VersionInv'
  BY <1>1, <1>2 DEF ReplicaInv, TablesInv, BatchInv, VersionInv
<1>4. ASSUME NEW s \in Tables, NEW k \in Keys
      PROVE  Pending(s, k)' = Pending(s, k) /\ Held(s, k)' = Held(s, k)
  <2>1. Held(s, k)' = Held(s, k)
    BY <1>1 DEF Held
  <2> QED
    BY <1>1, <2>1 DEF Pending
<1>5. ContentInv'
  BY <1>1, <1>2, <1>4 DEF ReplicaInv, ContentInv, ValueIn
<1> QED
  BY <1>3, <1>5 DEF ReplicaInv

(* MySQL and binlog_replicator do not disturb the process. *)
LEMMA SourceReplica ==
    ASSUME RealtimeInv, ReplicaInv, [Next]_vars,
           UNCHANGED <<ch, saved, pc, ret, memory, history>>
    PROVE  ReplicaInv'
<1>1. UNCHANGED <<ch, saved, pc, non_uploaded, versions, structs, ins, del, applied>>
  BY DEF memory, history
<1>2. Handled' = Handled
  BY <1>1 DEF Handled
<1>3. /\ Handled \in 0..Len(log) /\ applied \in 0..Len(log) /\ Len(log) \in Nat
      /\ \A n \in 1..(Len(log) + 1) : mysql'[n] = mysql[n]
  <2>1. saved.last \in 0..Len(log)
    BY SavedFacts
  <2>2. \A n \in 1..(Len(log) + 1) : mysql'[n] = mysql[n]
    BY Unfold, SourceGrows
  <2> QED
    BY <2>1, <2>2, LocalTypes DEF Handled
<1>4. mysql'[Handled + 1] = mysql[Handled + 1] /\ mysql'[applied + 1] = mysql[applied + 1]
  BY <1>3
<1>5. TablesInv' /\ BatchInv' /\ VersionInv'
  BY <1>1, <1>2, <1>4 DEF ReplicaInv, TablesInv, BatchInv, VersionInv
<1>6. ASSUME NEW s \in Tables, NEW k \in Keys
      PROVE  Pending(s, k)' = Pending(s, k) /\ Held(s, k)' = Held(s, k)
  <2>1. Held(s, k)' = Held(s, k)
    BY <1>1 DEF Held
  <2> QED
    BY <1>1, <2>1 DEF Pending
<1>7. ContentInv'
  BY <1>1, <1>2, <1>4, <1>6 DEF ReplicaInv, ContentInv, ValueIn
<1> QED
  BY <1>5, <1>7 DEF ReplicaInv

-----------------------------------------------------------------------------
(* The invariant. *)

LEMMA InitReplicaInv == Init => ReplicaInv
<1> SUFFICES ASSUME Init PROVE ReplicaInv
  OBVIOUS
<1> DEFINE c == [t \in InitialTables |-> [k \in Keys |-> None]]
<1>1. /\ mysql[1] = c /\ ch = [t \in InitialTables |-> EmptyTable] /\ pc = "down"
      /\ saved = [last |-> None, versions |-> [t \in Tables |-> 0], structs |-> InitialTables]
      /\ ins = NoRecords /\ del = NoKeys /\ applied = 0
  BY DEF Init
<1>2. /\ saved.last = 0 /\ saved.versions = [t \in Tables |-> 0]
      /\ saved.structs = InitialTables /\ Handled = 0 /\ InitialTables \subseteq Tables
  BY <1>1, RealtimeAssumption DEF Handled, None
<1>3. OnceEach(<<>>) /\ \A k : ~Has(<<>>, k)
  BY DEF OnceEach, Has
<1>4. \A t \in Tables : ins[t] = <<>> /\ del[t] = {}
  BY <1>1 DEF NoRecords, NoKeys
<1>5. \A t \in Tables : \A k \in Keys :
        Pending(t, k) = None /\ Held(t, k) = None /\ ValueIn(c, t, k) = None
  BY <1>1, <1>3, <1>4 DEF Pending, Held, ValueIn, EmptyTable, NoRow
<1>6. TablesInv /\ BatchInv /\ VersionInv
  BY <1>1, <1>2, <1>3, <1>4
     DEF TablesInv, BatchInv, VersionInv, EmptyTable, NoRow
<1> HIDE DEF c
<1>7. ContentInv
  BY <1>1, <1>2, <1>5 DEF ContentInv
<1> QED
  BY <1>6, <1>7 DEF ReplicaInv

(* Without crashes nothing is refused, and the process ends in Stop only.   *)
LEMMA NothingRefused ==
    ASSUME RealtimeInv, ReplicaInv, Steady
    PROVE  /\ ~Crash /\ ~QueryRefused /\ ~HandleRenameTable
           /\ \A t \in Tables : ~UploadRefused(t)
<1>1. ~Crash
  BY Unfold DEF SourceTypeOK, Crash, Steady
<1>2. pc = "query" =>
        /\ Query.kind \in {"drop", "drop if exists", "truncate"}
        /\ Query.kind \in {"drop", "truncate"} => Query.table \in DOMAIN ch
  BY QueryState DEF Query
<1>3. ~QueryRefused /\ ~HandleRenameTable
  BY <1>2 DEF QueryRefused, HandleRenameTable, Executing
<1>4. ASSUME NEW t \in Tables, UploadRefused(t) PROVE FALSE
  <2>1. pc = "upload" /\ (ins[t] # <<>> \/ del[t] # {}) /\ (t \notin structs \/ t \notin DOMAIN ch)
    BY <1>4 DEF UploadRefused
  <2> QED
    BY <2>1, Running
<1> QED
  BY <1>1, <1>3, <1>4

LEMMA ReplicaInvStep ==
    ASSUME Steady, RealtimeInv, ReplicaInv, [Next]_vars
    PROVE  ReplicaInv'
<1>1. CASE Start
  BY <1>1, StartReplica
<1>2. CASE HandleEvent
  <2>1. CASE SkipDuplicate
    BY <2>1, DataStays DEF SkipDuplicate, Reading, source, history
  <2>2. CASE HandleQuery
    BY <2>2, DataStays DEF HandleQuery, NewEvent, Reading, UploadRecords, source
  <2> QED
    BY <1>2, <2>1, <2>2, InsertReplica, EraseReplica, CreateReplica, DropReplica,
       TruncateReplica, NothingRefused DEF HandleEvent
<1>3. CASE Upload
  <2>1. CASE UploadDone
    <3>1. ret # "down"
      BY Unfold DEF LocalInv, ProcessTypeOK
    <3> QED
      BY <2>1, <3>1, DataStays DEF UploadDone, source, history
  <2> QED
    BY <1>3, <2>1, UploadInsertReplica, UploadEraseReplica, NothingRefused DEF Upload
<1>4. CASE ReadNothing
  BY <1>4, DataStays DEF ReadNothing, UploadRecords, source, memory
<1>5. CASE LeaveLoop
  BY <1>5, DataStays DEF LeaveLoop, UploadRecords, source, memory
<1>6. CASE Stop
  BY <1>6, StopReplica
<1>7. CASE Crash
  BY <1>7, NothingRefused
<1>8. CASE MySQLCommits
  BY <1>8, SourceReplica DEF MySQLCommits
<1>9. CASE RelayReplays
  BY <1>9, SourceReplica DEF RelayReplays
<1>10. CASE UNCHANGED vars
  BY <1>10, SourceReplica DEF vars
<1> QED
  BY <1>1, <1>2, <1>3, <1>4, <1>5, <1>6, <1>7, <1>8, <1>9, <1>10 DEF Next

-----------------------------------------------------------------------------
(* The refinement. *)

(* A reader sees the rows of MySQL after the events applied.                *)
ViewInv == View = PromisedReplica!Rows(mysql[applied + 1])

LEMMA ViewIsSource ==
    ASSUME RealtimeInv, ReplicaInv
    PROVE  ViewInv
<1> DEFINE c == mysql[applied + 1]
<1>1. IsContent(c)
  <2>1. applied + 1 \in DOMAIN mysql /\ \A n \in DOMAIN mysql : IsContent(mysql[n])
    BY LocalTypes, Unfold DEF SourceTypeOK
  <2> QED
    BY <2>1
<1>2. /\ pc = "upload" => applied = Handled
      /\ \A t \in Tables : \A k \in Keys :
           /\ Pending(t, k) = ValueIn(mysql[Handled + 1], t, k)
           /\ pc # "upload" => Held(t, k) = ValueIn(c, t, k)
  BY DEF ReplicaInv, ContentInv
<1> HIDE DEF c
<1>3. ASSUME NEW t \in Tables, NEW k \in Keys PROVE Shown(t, k) = ValueIn(c, t, k)
  <2>1. CASE pc = "upload"
    <3>1. Shown(t, k) = Pending(t, k)
      BY <2>1 DEF Shown, Pending, Held
    <3> QED
      BY <1>2, <2>1, <3>1 DEF c
  <2>2. CASE pc # "upload"
    <3>1. Shown(t, k) = Held(t, k)
      BY <2>2 DEF Shown, Held
    <3> QED
      BY <1>2, <2>2, <3>1
  <2> QED
    BY <2>1, <2>2
<1>4. View = [t \in Tables |-> [k \in Keys |-> ValueIn(c, t, k)]]
  BY <1>3 DEF View
<1>5. ASSUME NEW t \in Tables
      PROVE  [k \in Keys |-> ValueIn(c, t, k)] =
               IF t \in DOMAIN c THEN c[t] ELSE [k \in Keys |-> 0]
  <2>1. t \in DOMAIN c => c[t] = [k \in Keys |-> c[t][k]]
    BY <1>1 DEF IsContent
  <2> QED
    BY <2>1 DEF ValueIn, None
<1>6. PromisedReplica!Rows(c) =
        [t \in Tables |-> IF t \in DOMAIN c THEN c[t] ELSE [k \in Keys |-> 0]]
  BY DEF PromisedReplica!Rows, PromisedReplica!NoValue
<1> QED
  BY <1>4, <1>5, <1>6 DEF ViewInv, c

(* Only uploads and DDL statements move the view, and never back.           *)
LEMMA AppliedGrows ==
    ASSUME Steady, RealtimeInv, ReplicaInv, [Next]_vars
    PROVE  \/ MySQLCommits
           \/ mysql' = mysql /\ applied' >= applied
<1>1. applied \in Nat /\ non_uploaded \in Nat
  BY LocalTypes
<1>2. ASSUME pc # "down", applied' = non_uploaded PROVE applied' >= applied
  BY <1>1, <1>2, Running
<1>3. ASSUME NEW id \in Nat, id > non_uploaded, pc # "down",
             FinishEvent(id, applied) \/ FinishEvent(id, id)
      PROVE  mysql' = mysql /\ applied' >= applied
  <2>1. applied' \in {applied, id} /\ mysql' = mysql
    BY <1>3 DEF FinishEvent, UploadRecords, source
  <2> QED
    BY <1>1, <1>3, <2>1, Running
<1>4. CASE HandleInsert \/ HandleErase \/ HandleCreateTable
  <2>1. Reading /\ NextId > non_uploaded /\ FinishEvent(NextId, applied) /\ pc = "loop"
    BY <1>4 DEF HandleInsert, HandleErase, HandleCreateTable, NewEvent, Reading
  <2>2. NextId \in Nat
    BY <2>1, NewEventIsNext
  <2> QED
    BY <1>3, <2>1, <2>2
<1>5. CASE HandleDropTable \/ HandleTruncate
  <2>1. pc = "query" /\ FinishEvent(relay[reader], relay[reader])
    BY <1>5 DEF HandleDropTable, HandleTruncate, Executing, FinishQuery
  <2>2. relay[reader] = non_uploaded + 1
    BY <2>1, QueryFacts
  <2> HIDE DEF FinishEvent
  <2>3. relay[reader] \in Nat /\ relay[reader] > non_uploaded
    BY <1>1, <2>2
  <2> QED
    BY <1>3, <2>1, <2>3
<1>6. CASE HandleQuery \/ ReadNothing \/ LeaveLoop
  <2>1. pc # "down" /\ applied' = non_uploaded /\ mysql' = mysql
    BY <1>6 DEF HandleQuery, ReadNothing, LeaveLoop, NewEvent, Reading, UploadRecords, source
  <2> QED
    BY <1>2, <2>1
<1>7. ASSUME mysql' = mysql, applied' = applied PROVE mysql' = mysql /\ applied' >= applied
  BY <1>1, <1>7
<1>8. CASE Start \/ SkipDuplicate \/ UploadDone \/ Stop \/ RelayReplays \/ UNCHANGED vars
  BY <1>7, <1>8 DEF Start, SkipDuplicate, UploadDone, Stop, RelayReplays, vars, source, history
<1>9. ASSUME NEW t \in Tables, InsertRecords(t) \/ EraseRecords(t)
      PROVE  mysql' = mysql /\ applied' >= applied
  BY <1>7, <1>9 DEF InsertRecords, EraseRecords, source
<1> QED
  BY <1>4, <1>5, <1>6, <1>8, <1>9, NothingRefused DEF Next, HandleEvent, Upload

LEMMA StepImplementsReplica ==
    ASSUME Steady, RealtimeInv, ReplicaInv, [Next]_vars, RealtimeInv', ViewInv, ViewInv'
    PROVE  PromisedReplica!Commit \/ PromisedReplica!Upload
<1>1. /\ View = PromisedReplica!Rows(mysql[applied + 1])
      /\ View' = PromisedReplica!Rows(mysql'[applied' + 1])
  BY DEF ViewInv, PromisedReplica!Rows
<1>2. /\ Len(mysql) = Len(log) + 1 /\ Len(log) \in Nat /\ mysql \in Seq(Range(mysql))
      /\ applied \in 0..Len(log)
  BY LocalTypes, Unfold DEF SourceTypeOK
<1>3. CASE MySQLCommits
  <2>1. PICK new : mysql' = Append(mysql, new) /\ applied' = applied
    BY <1>3 DEF MySQLCommits, history
  <2>2. mysql'[applied + 1] = mysql[applied + 1]
    BY <1>2, <2>1
  <2>3. Len(mysql') = Len(mysql) + 1 /\ SubSeq(mysql', 1, Len(mysql)) = mysql
    BY <1>2, <2>1
  <2> QED
    BY <1>1, <2>1, <2>2, <2>3 DEF PromisedReplica!Commit
<1>4. CASE mysql' = mysql /\ applied' >= applied
  <2>1. applied' \in 0..Len(log')  /\ Len(mysql') = Len(log') + 1 /\ Len(log') \in Nat
    BY RealtimeInv' DEF RealtimeInv, TypeOK, SourceTypeOK, RecordsTypeOK
  <2>2. applied' \in applied..(Len(mysql) - 1)
    BY <1>2, <1>4, <2>1
  <2> QED
    BY <1>1, <1>4, <2>2 DEF PromisedReplica!Upload
<1> QED
  BY <1>3, <1>4, AppliedGrows

(* Without crashes, and for statements that do not rename a table or a row, *)
(* what a reader of ClickHouse sees, an upload in progress counting as      *)
(* complete, is what MySQL held after a prefix of its log, and it moves     *)
(* forward through those states: whatever is stopped, restarted or          *)
(* replayed, and however the inserts and deletes of a row are batched, the  *)
(* replicator implements Replica.                                           *)
THEOREM ReplicaIsImplemented ==
    ASSUME Steady
    PROVE  Spec => ImplementsReplica
<1>1. Init => PromisedReplica!Init
  <2> SUFFICES ASSUME Init PROVE PromisedReplica!Init
    OBVIOUS
  <2>1. Len(mysql) = 1 /\ applied = 0
    BY DEF Init
  <2>2. View = PromisedReplica!Rows(mysql[applied + 1])
    BY InitRealtimeInv, InitReplicaInv, ViewIsSource DEF ViewInv
  <2> QED
    BY <2>1, <2>2 DEF PromisedReplica!Init
<1>2. Init => RealtimeInv /\ ReplicaInv
  BY InitRealtimeInv, InitReplicaInv
<1>3. RealtimeInv /\ ReplicaInv /\ [Next]_vars => (RealtimeInv /\ ReplicaInv)'
  BY RealtimeInvStep, ReplicaInvStep
<1>4. RealtimeInv /\ ReplicaInv => ViewInv
  BY ViewIsSource
<1>5. /\ RealtimeInv /\ ReplicaInv /\ [Next]_vars
      /\ RealtimeInv' /\ ViewInv /\ ViewInv'
      => [PromisedReplica!Commit \/ PromisedReplica!Upload]_<<mysql, View, applied>>
  BY StepImplementsReplica
<1> QED
  BY <1>1, <1>2, <1>3, <1>4, <1>5, PTL DEF Spec, ImplementsReplica, PromisedReplica!Spec

-----------------------------------------------------------------------------
(* KeysInSync: the steps of handle_event. *)

NoRename == \A i \in DOMAIN log : log[i].kind # "rename"

LEMMA SyncEarlier ==
    ASSUME NEW m, NEW l \in Nat, l <= m, m \in Nat, NEW present, NEW t, NEW k,
           RowSync(m, present, t, k)
    PROVE  RowSync(l, present, t, k)
BY DEF RowSync

LEMMA TableSyncEarlier ==
    ASSUME NEW m, NEW l \in Nat, l <= m, m \in Nat, NEW exists, NEW t,
           TableSync(m, exists, t)
    PROVE  TableSync(l, exists, t)
BY DEF TableSync

(* The next event of the log leaves alone what it is not about, and an       *)
(* UPDATE that moves a row accounts for the one it leaves.                  *)
LEMMA NextSync ==
    ASSUME RealtimeInv, NEW n \in 0..(Len(log) - 1), log[n + 1].kind # "rename",
           NEW t \in Tables, NEW k \in Keys
    PROVE  /\ \A present \in BOOLEAN :
                /\ RowSync(n, present, t, k)
                /\ \/ t # log[n + 1].table
                   \/ log[n + 1].kind \in RowKinds /\ k # RecordId(log[n + 1])
                => RowSync(n + 1, present, t, k)
           /\ RowSync(n + 1, ValueIn(mysql[n + 2], t, k) # None, t, k)
<1> DEFINE e == log[n + 1]
<1>1. /\ n + 1 \in (n + 1)..Len(log) /\ (n + 1) + 1 = n + 2 /\ n \in Nat /\ Len(log) \in Nat
      /\ \A q \in n..Len(log) : q = n \/ q \in (n + 1)..Len(log)
      /\ n + 1 \in DOMAIN log
  <2>1. log \in Seq(Statements) /\ Len(log) \in Nat
    BY LocalTypes, Unfold DEF SourceTypeOK
  <2> QED
    BY <2>1
<1>2. /\ DOMAIN mysql[n + 2] = CASE e.kind = "create" -> DOMAIN mysql[n + 1] \cup {e.table}
             [] e.kind \in {"drop", "drop if exists"} -> DOMAIN mysql[n + 1] \ {e.table}
             [] OTHER -> DOMAIN mysql[n + 1]
      /\ ValueIn(mysql[n + 2], t, k) =
           IF t # e.table THEN ValueIn(mysql[n + 1], t, k)
           ELSE IF e.kind \in {"insert", "rekey"} /\ k = RecordId(e) THEN n + 1
           ELSE IF e.kind \in RowKinds /\ k # e.key THEN ValueIn(mysql[n + 1], t, k)
           ELSE None
  BY NextStatement
<1>3. e.kind = "rekey" /\ t = e.table => e.key \in MovedFrom(t)
  BY <1>1 DEF MovedFrom
<1>4. e.kind # "rekey" => RecordId(e) = e.key
  BY DEF RecordId
<1> HIDE DEF e
<1>7. ASSUME NEW present \in BOOLEAN, RowSync(n, present, t, k),
             t # e.table \/ (e.kind \in RowKinds /\ k # RecordId(e))
      PROVE  RowSync(n + 1, present, t, k)
  <2>1. PICK q \in n..Len(log) :
          /\ ValueIn(mysql[q + 1], t, k) # None => present
          /\ present => ValueIn(mysql[q + 1], t, k) # None \/ k \in MovedFrom(t)
    BY <1>7 DEF RowSync
  <2>2. CASE q \in (n + 1)..Len(log)
    BY <2>1, <2>2 DEF RowSync
  <2>3. CASE q = n
    <3>1. \/ ValueIn(mysql[n + 2], t, k) = ValueIn(mysql[n + 1], t, k)
          \/ ValueIn(mysql[n + 2], t, k) = None /\ k \in MovedFrom(t)
      BY <1>2, <1>3, <1>4, <1>7
    <3>2. /\ ValueIn(mysql[(n + 1) + 1], t, k) # None => present
          /\ present => ValueIn(mysql[(n + 1) + 1], t, k) # None \/ k \in MovedFrom(t)
      BY <1>1, <2>1, <2>3, <3>1
    <3> QED
      BY <1>1, <3>2 DEF RowSync
  <2> QED
    BY <1>1, <2>2, <2>3
<1>8. RowSync(n + 1, ValueIn(mysql[n + 2], t, k) # None, t, k)
  BY <1>1 DEF RowSync
<1> QED
  BY <1>7, <1>8 DEF e

LEMMA NextTableSync ==
    ASSUME RealtimeInv, NEW n \in 0..(Len(log) - 1), log[n + 1].kind # "rename",
           NEW t \in Tables
    PROVE  /\ TableSync(n + 1, t \in DOMAIN mysql[n + 2], t)
           /\ TableSync(n, t \in DOMAIN ch, t)
              /\ (t # log[n + 1].table \/ log[n + 1].kind \in RowKinds \cup {"truncate"})
              => TableSync(n + 1, t \in DOMAIN ch, t)
<1> DEFINE e == log[n + 1]
<1>1. /\ n + 1 \in (n + 1)..Len(log) /\ (n + 1) + 1 = n + 2 /\ n \in Nat /\ Len(log) \in Nat
      /\ \A q \in n..Len(log) : q = n \/ q \in (n + 1)..Len(log)
  BY LocalTypes
<1>2. DOMAIN mysql[n + 2] = CASE e.kind = "create" -> DOMAIN mysql[n + 1] \cup {e.table}
             [] e.kind \in {"drop", "drop if exists"} -> DOMAIN mysql[n + 1] \ {e.table}
             [] OTHER -> DOMAIN mysql[n + 1]
  BY NextStatement
<1> HIDE DEF e
<1>3. TableSync(n + 1, t \in DOMAIN mysql[n + 2], t)
  BY <1>1 DEF TableSync
<1>4. ASSUME TableSync(n, t \in DOMAIN ch, t),
             t # e.table \/ e.kind \in RowKinds \cup {"truncate"}
      PROVE  TableSync(n + 1, t \in DOMAIN ch, t)
  <2>1. t \in DOMAIN mysql[n + 2] <=> t \in DOMAIN mysql[n + 1]
    BY <1>2, <1>4 DEF RowKinds
  <2> QED
    BY <1>1, <1>4, <2>1 DEF TableSync
<1> QED
  BY <1>3, <1>4 DEF e

(* What a step has to leave behind. *)
LEMMA SyncStep ==
    ASSUME UNCHANGED <<log, mysql>>, BatchInv', pc' # "down" => saved'.last <= last',
           NoRename =>
             \A t \in Tables :
               /\ TableSync(Handled', t \in DOMAIN ch', t)
               /\ \A k \in Keys :
                    /\ RowSync(Handled', Pending(t, k)' # None, t, k)
                    /\ RowSync(Uploaded', Held(t, k)' # None, t, k)
                    /\ t \in DOMAIN ch' /\ ch'[t][k].val = None => ch'[t][k].ver = 0
    PROVE  SyncInv'
<1>1. ASSUME NEW t \in Tables, TableSync(Handled', t \in DOMAIN ch', t)
      PROVE  TableSync(Handled, t \in DOMAIN ch, t)'
  BY <1>1 DEF TableSync
<1>2. ASSUME NEW t \in Tables, NEW k \in Keys, RowSync(Handled', Pending(t, k)' # None, t, k)
      PROVE  RowSync(Handled, Pending(t, k) # None, t, k)'
  BY <1>2 DEF RowSync, ValueIn, MovedFrom
<1>3. ASSUME NEW t \in Tables, NEW k \in Keys, RowSync(Uploaded', Held(t, k)' # None, t, k)
      PROVE  RowSync(Uploaded, Held(t, k) # None, t, k)'
  BY <1>3 DEF RowSync, ValueIn, MovedFrom
<1>4. NoRename' => NoRename
  BY DEF NoRename
<1> QED
  BY <1>1, <1>2, <1>3, <1>4 DEF SyncInv, NoRename

(* What the process knows while it runs. *)
LEMMA RunningSync ==
    ASSUME RealtimeInv, SyncInv, pc # "down"
    PROVE  /\ saved.last <= last /\ saved.last \in Nat /\ last \in Nat /\ non_uploaded \in Nat
           /\ last <= non_uploaded
           /\ \A t \in Tables : OnceEach(ins[t]) /\ \A k \in del[t] : ~Has(ins[t], k)
           /\ NoRename =>
                \A t \in Tables :
                  /\ TableSync(non_uploaded, t \in DOMAIN ch, t)
                  /\ \A k \in Keys :
                       /\ RowSync(non_uploaded, Pending(t, k) # None, t, k)
                       /\ RowSync(last, Held(t, k) # None, t, k)
                       /\ t \in DOMAIN ch /\ ch[t][k].val = None => ch[t][k].ver = 0
<1>1. Handled = non_uploaded /\ Uploaded = last
  BY DEF Handled, Uploaded
<1>2. saved.last \in Nat /\ last \in Nat /\ non_uploaded \in Nat /\ last <= non_uploaded
  BY SavedFacts, LocalTypes
<1> QED
  BY <1>1, <1>2 DEF SyncInv, BatchInv, NoRename

(* The end of handle_event, after a handler that did its part. *)
LEMMA FinishEventSync ==
    ASSUME RealtimeInv, SyncInv, pc # "down", NEW id, NEW shown, FinishEvent(id, shown),
           \A t \in Tables : OnceEach(ins'[t]) /\ \A k \in del'[t] : ~Has(ins'[t], k),
           NoRename =>
             \A t \in Tables :
               /\ TableSync(id, t \in DOMAIN ch', t)
               /\ \A k \in Keys :
                    /\ RowSync(id, Pending(t, k)' # None, t, k)
                    /\ RowSync(last, Held(t, k)' # None, t, k)
                    /\ t \in DOMAIN ch' /\ ch'[t][k].val = None => ch'[t][k].ver = 0
    PROVE  SyncInv'
<1>1. /\ pc' # "down" /\ non_uploaded' = id /\ last' = last /\ UNCHANGED <<log, mysql>>
      /\ saved' = saved \/ saved'.last = last
  BY DEF FinishEvent, UploadRecords, SaveStateIfRequired, Save, source
<1>2. Handled' = id /\ Uploaded' = last
  BY <1>1 DEF Handled, Uploaded
<1>3. saved'.last <= last'
  BY <1>1, RunningSync
<1>4. BatchInv'
  BY DEF BatchInv
<1> QED
  BY <1>1, <1>2, <1>3, <1>4, SyncStep

LEMMA NewEventNext ==
    ASSUME RealtimeInv, Reading, NextId > non_uploaded, NoRename
    PROVE  non_uploaded \in 0..(Len(log) - 1) /\ log[non_uploaded + 1].kind # "rename"
<1>1. NextId = non_uploaded + 1 /\ NextId \in 1..Len(log) /\ NextId \in DOMAIN log
  <2>1. log \in Seq(Statements)
    BY Unfold DEF SourceTypeOK
  <2> QED
    BY <2>1, NewEventIsNext
<1>2. non_uploaded \in 0..(Len(log) - 1)
  BY <1>1, LocalTypes
<1> QED
  BY <1>1, <1>2 DEF NoRename

LEMMA InsertSync == RealtimeInv /\ SyncInv /\ HandleInsert => SyncInv'
<1> SUFFICES ASSUME RealtimeInv, SyncInv, HandleInsert PROVE SyncInv'
  OBVIOUS
<1> DEFINE e == log[NextId]
           id == NextId
           d == ins[e.table]
           key == RecordId(e)
<1>1. /\ Reading /\ NextId > non_uploaded /\ e.kind \in {"insert", "rekey"}
      /\ ins' = [ins EXCEPT ![e.table] = Put(@, key, id)]
      /\ del' = [del EXCEPT ![e.table] = @ \ {key}]
      /\ UNCHANGED <<ch, structs>> /\ FinishEvent(id, applied) /\ pc = "loop"
  BY DEF HandleInsert, NewEvent, Reading
<1>2. /\ id = non_uploaded + 1 /\ id \in 1..Len(log) /\ e \in Statements
  BY <1>1, NewEventIsNext
<1>3. e.table \in Tables /\ key \in Keys /\ e.kind \in RowKinds
  <2>1. e.kind \in RowKinds
    BY <1>1 DEF RowKinds
  <2> QED
    BY <1>2, <2>1, StatementTypes
<1>4. NoRename => /\ non_uploaded \in 0..(Len(log) - 1) /\ log[non_uploaded + 1] = e
                  /\ e.kind # "rename" /\ mysql[non_uploaded + 2] = mysql[id + 1]
  BY <1>1, <1>2, NewEventNext, LocalTypes
<1> HIDE DEF e, id, key
<1>5. /\ ins \in [Tables -> Seq(Records(non_uploaded))] /\ del \in [Tables -> SUBSET Keys]
      /\ non_uploaded \in Nat
  BY LocalTypes
<1>6. /\ ins'[e.table] = Put(d, key, id) /\ del'[e.table] = del[e.table] \ {key}
      /\ \A t \in Tables \ {e.table} : ins'[t] = ins[t] /\ del'[t] = del[t]
  BY <1>1, <1>3, <1>5
<1>7. /\ \A t \in Tables : OnceEach(ins[t]) /\ \A k \in del[t] : ~Has(ins[t], k)
      /\ NoRename =>
           \A t \in Tables :
             /\ TableSync(non_uploaded, t \in DOMAIN ch, t)
             /\ \A k \in Keys :
                  /\ RowSync(non_uploaded, Pending(t, k) # None, t, k)
                  /\ RowSync(last, Held(t, k) # None, t, k)
                  /\ t \in DOMAIN ch /\ ch[t][k].val = None => ch[t][k].ver = 0
  BY <1>1, RunningSync
<1>8. /\ OnceEach(ins'[e.table])
      /\ Has(ins'[e.table], key) /\ ins'[e.table][IndexOf(ins'[e.table], key)].val = id
      /\ \A x \in Keys \ {key} :
           /\ Has(ins'[e.table], x) <=> Has(d, x)
           /\ Has(d, x) => ins'[e.table][IndexOf(ins'[e.table], x)].val = d[IndexOf(d, x)].val
  <2>1. d \in Seq(Records(non_uploaded)) /\ OnceEach(d)
    BY <1>3, <1>5, <1>7
  <2> HIDE DEF d
  <2> QED
    BY <1>3, <1>5, <1>6, <2>1, PutDict
<1>9. \A t \in Tables : OnceEach(ins'[t]) /\ \A k \in del'[t] : ~Has(ins'[t], k)
  BY <1>3, <1>5, <1>6, <1>7, <1>8
<1>10. ASSUME NoRename, NEW t \in Tables PROVE TableSync(id, t \in DOMAIN ch', t)
  <2>1. TableSync(non_uploaded + 1, t \in DOMAIN ch, t)
    BY <1>3, <1>4, <1>7, <1>10, NextTableSync
  <2> QED
    BY <1>1, <1>2, <2>1
<1>11. ASSUME NoRename, NEW t \in Tables, NEW k \in Keys
       PROVE  /\ RowSync(id, Pending(t, k)' # None, t, k)
              /\ RowSync(last, Held(t, k)' # None, t, k)
              /\ t \in DOMAIN ch' /\ ch'[t][k].val = None => ch'[t][k].ver = 0
  <2>1. Held(t, k)' = Held(t, k)
    BY <1>1 DEF Held
  <2>2. RowSync(id, Pending(t, k)' # None, t, k)
    <3>1. CASE t # e.table
      <4>1. Pending(t, k)' = Pending(t, k)
        BY <1>6, <2>1, <3>1 DEF Pending
      <4> QED
        BY <1>2, <1>4, <1>7, <1>11, <3>1, <4>1, NextSync
    <3>2. CASE t = e.table /\ k # key
      <4>1. Pending(t, k)' = Pending(t, k)
        BY <1>6, <1>8, <2>1, <3>2 DEF Pending
      <4> QED
        BY <1>2, <1>3, <1>4, <1>7, <1>11, <3>2, <4>1, NextSync DEF key
    <3>3. CASE t = e.table /\ k = key
      <4>1. Pending(t, k)' # None
        BY <1>2, <1>5, <1>8, <3>3 DEF Pending, None
      <4>2. ValueIn(mysql[id + 1], t, k) # None
        <5>1. ValueIn(mysql[non_uploaded + 2], t, k) = non_uploaded + 1
          BY <1>1, <1>4, <1>11, <3>3, NextStatement DEF key
        <5> QED
          BY <1>4, <1>5, <1>11, <5>1 DEF None
      <4> QED
        BY <1>2, <1>4, <1>11, <4>1, <4>2, NextSync
    <3> QED
      BY <3>1, <3>2, <3>3
  <2> QED
    BY <1>1, <1>7, <1>11, <2>1, <2>2
<1> QED
  BY <1>1, <1>9, <1>10, <1>11, FinishEventSync

LEMMA EraseSync == RealtimeInv /\ SyncInv /\ HandleErase => SyncInv'
<1> SUFFICES ASSUME RealtimeInv, SyncInv, HandleErase PROVE SyncInv'
  OBVIOUS
<1> DEFINE e == log[NextId]
           id == NextId
           d == ins[e.table]
           key == e.key
<1>1. /\ Reading /\ NextId > non_uploaded /\ e.kind = "delete"
      /\ del' = [del EXCEPT ![e.table] = @ \cup {key}]
      /\ ins' = [ins EXCEPT ![e.table] = Pop(@, key)]
      /\ UNCHANGED <<ch, structs>> /\ FinishEvent(id, applied) /\ pc = "loop"
  BY DEF HandleErase, NewEvent, Reading
<1>2. /\ id = non_uploaded + 1 /\ id \in 1..Len(log) /\ e \in Statements
  BY <1>1, NewEventIsNext
<1>3. e.table \in Tables /\ key \in Keys /\ e.kind \in RowKinds /\ RecordId(e) = key
  BY <1>1, <1>2, StatementTypes DEF RowKinds, RecordId
<1>4. NoRename => /\ non_uploaded \in 0..(Len(log) - 1) /\ log[non_uploaded + 1] = e
                  /\ e.kind # "rename" /\ mysql[non_uploaded + 2] = mysql[id + 1]
  BY <1>1, <1>2, NewEventNext, LocalTypes
<1> HIDE DEF e, id, key
<1>5. /\ ins \in [Tables -> Seq(Records(non_uploaded))] /\ del \in [Tables -> SUBSET Keys]
      /\ non_uploaded \in Nat
  BY LocalTypes
<1>6. /\ ins'[e.table] = Pop(d, key) /\ del'[e.table] = del[e.table] \cup {key}
      /\ \A t \in Tables \ {e.table} : ins'[t] = ins[t] /\ del'[t] = del[t]
  BY <1>1, <1>3, <1>5
<1>7. /\ \A t \in Tables : OnceEach(ins[t]) /\ \A k \in del[t] : ~Has(ins[t], k)
      /\ NoRename =>
           \A t \in Tables :
             /\ TableSync(non_uploaded, t \in DOMAIN ch, t)
             /\ \A k \in Keys :
                  /\ RowSync(non_uploaded, Pending(t, k) # None, t, k)
                  /\ RowSync(last, Held(t, k) # None, t, k)
                  /\ t \in DOMAIN ch /\ ch[t][k].val = None => ch[t][k].ver = 0
  BY <1>1, RunningSync
<1>8. /\ OnceEach(ins'[e.table]) /\ ~Has(ins'[e.table], key)
      /\ \A x \in Keys \ {key} :
           /\ Has(ins'[e.table], x) <=> Has(d, x)
           /\ Has(d, x) => ins'[e.table][IndexOf(ins'[e.table], x)].val = d[IndexOf(d, x)].val
  <2>1. d \in Seq(Records(non_uploaded)) /\ OnceEach(d)
    BY <1>3, <1>5, <1>7
  <2> HIDE DEF d
  <2> QED
    BY <1>3, <1>6, <2>1, PopDict
<1>9. \A t \in Tables : OnceEach(ins'[t]) /\ \A k \in del'[t] : ~Has(ins'[t], k)
  BY <1>3, <1>5, <1>6, <1>7, <1>8
<1>10. ASSUME NoRename, NEW t \in Tables PROVE TableSync(id, t \in DOMAIN ch', t)
  <2>1. TableSync(non_uploaded + 1, t \in DOMAIN ch, t)
    BY <1>3, <1>4, <1>7, <1>10, NextTableSync
  <2> QED
    BY <1>1, <1>2, <2>1
<1>11. ASSUME NoRename, NEW t \in Tables, NEW k \in Keys
       PROVE  /\ RowSync(id, Pending(t, k)' # None, t, k)
              /\ RowSync(last, Held(t, k)' # None, t, k)
              /\ t \in DOMAIN ch' /\ ch'[t][k].val = None => ch'[t][k].ver = 0
  <2>1. Held(t, k)' = Held(t, k)
    BY <1>1 DEF Held
  <2>2. RowSync(id, Pending(t, k)' # None, t, k)
    <3>1. CASE t # e.table
      <4>1. Pending(t, k)' = Pending(t, k)
        BY <1>6, <2>1, <3>1 DEF Pending
      <4> QED
        BY <1>2, <1>4, <1>7, <1>11, <3>1, <4>1, NextSync
    <3>2. CASE t = e.table /\ k # key
      <4>1. Pending(t, k)' = Pending(t, k)
        BY <1>6, <1>8, <2>1, <3>2 DEF Pending
      <4> QED
        BY <1>2, <1>3, <1>4, <1>7, <1>11, <3>2, <4>1, NextSync
    <3>3. CASE t = e.table /\ k = key
      <4>1. Pending(t, k)' = None
        BY <1>6, <1>8, <3>3 DEF Pending
      <4>2. ValueIn(mysql[id + 1], t, k) = None
        <5>1. log[non_uploaded + 1].kind = "delete" /\ log[non_uploaded + 1].key = key
          BY <1>1, <1>4, <1>11 DEF key
        <5>2. ValueIn(mysql[non_uploaded + 2], t, k) = None
          <6>1. ~(log[non_uploaded + 1].kind \in {"insert", "rekey"})
            BY <5>1
          <6>2. t = log[non_uploaded + 1].table /\ k = log[non_uploaded + 1].key
            BY <1>4, <1>11, <3>3, <5>1
          <6> QED
            BY <1>4, <1>11, <6>1, <6>2, NextStatement
        <5> QED
          BY <1>4, <1>11, <5>2
      <4> QED
        BY <1>2, <1>4, <1>11, <4>1, <4>2, NextSync
    <3> QED
      BY <3>1, <3>2, <3>3
  <2> QED
    BY <1>1, <1>7, <1>11, <2>1, <2>2
<1> QED
  BY <1>1, <1>9, <1>10, <1>11, FinishEventSync

LEMMA CreateSync == RealtimeInv /\ SyncInv /\ HandleCreateTable => SyncInv'
<1> SUFFICES ASSUME RealtimeInv, SyncInv, HandleCreateTable PROVE SyncInv'
  OBVIOUS
<1> DEFINE e == log[NextId]
           id == NextId
<1>1. /\ Reading /\ NextId > non_uploaded /\ e.kind = "create"
      /\ ch' = IF e.table \in DOMAIN ch THEN ch ELSE With(ch, e.table, EmptyTable)
      /\ UNCHANGED <<ins, del>> /\ FinishEvent(id, applied) /\ pc = "loop"
  BY DEF HandleCreateTable, NewEvent, Reading
<1>2. /\ id = non_uploaded + 1 /\ id \in 1..Len(log) /\ e \in Statements
  BY <1>1, NewEventIsNext
<1>3. e.table \in Tables
  BY <1>2, StatementTypes
<1>4. NoRename => /\ non_uploaded \in 0..(Len(log) - 1) /\ log[non_uploaded + 1] = e
                  /\ e.kind # "rename" /\ mysql[non_uploaded + 2] = mysql[id + 1]
  BY <1>1, <1>2, NewEventNext, LocalTypes
<1> HIDE DEF e, id
<1>5. /\ \A t \in Tables : OnceEach(ins[t]) /\ \A k \in del[t] : ~Has(ins[t], k)
      /\ NoRename =>
           \A t \in Tables :
             /\ TableSync(non_uploaded, t \in DOMAIN ch, t)
             /\ \A k \in Keys :
                  /\ RowSync(non_uploaded, Pending(t, k) # None, t, k)
                  /\ RowSync(last, Held(t, k) # None, t, k)
                  /\ t \in DOMAIN ch /\ ch[t][k].val = None => ch[t][k].ver = 0
  BY <1>1, RunningSync
<1>6. /\ DOMAIN ch' = DOMAIN ch \cup {e.table}
      /\ \A t \in DOMAIN ch : ch'[t] = ch[t]
      /\ e.table \notin DOMAIN ch => ch'[e.table] = [k \in Keys |-> [val |-> None, ver |-> 0]]
  BY <1>1 DEF With, EmptyTable, NoRow
<1>7. ASSUME NoRename
      PROVE  /\ e.table \in DOMAIN mysql[non_uploaded + 2]
             /\ e.table \notin DOMAIN mysql[non_uploaded + 1]
             /\ \A k \in Keys : ValueIn(mysql[non_uploaded + 2], e.table, k) = None
             /\ \A k \in Keys : ValueIn(mysql[non_uploaded + 1], e.table, k) = None
  <2>1. /\ DOMAIN mysql[non_uploaded + 2] = DOMAIN mysql[non_uploaded + 1] \cup {e.table}
        /\ Valid(e, mysql[non_uploaded + 1])
        /\ \A k \in Keys : ValueIn(mysql[non_uploaded + 2], e.table, k) = None
    BY <1>1, <1>3, <1>4, <1>7, NextStatement DEF RowKinds
  <2> QED
    BY <1>1, <2>1 DEF Valid, ValueIn
<1>8. ASSUME NoRename, NEW t \in Tables PROVE TableSync(id, t \in DOMAIN ch', t)
  <2>1. CASE t = e.table
    <3>1. TableSync(non_uploaded + 1, t \in DOMAIN mysql[non_uploaded + 2], t)
      BY <1>4, <1>8, NextTableSync
    <3>2. t \in DOMAIN mysql[non_uploaded + 2] /\ t \in DOMAIN ch'
      BY <1>6, <1>7, <1>8, <2>1
    <3> QED
      BY <1>2, <3>1, <3>2
  <2>2. CASE t # e.table
    <3>1. TableSync(non_uploaded + 1, t \in DOMAIN ch, t)
      BY <1>4, <1>5, <1>8, <2>2, NextTableSync
    <3>2. t \in DOMAIN ch' <=> t \in DOMAIN ch
      BY <1>6, <2>2
    <3> QED
      BY <1>2, <3>1, <3>2
  <2> QED
    BY <2>1, <2>2
<1>9. ASSUME NoRename, NEW t \in Tables, NEW k \in Keys
      PROVE  /\ RowSync(id, Pending(t, k)' # None, t, k)
             /\ RowSync(last, Held(t, k)' # None, t, k)
             /\ t \in DOMAIN ch' /\ ch'[t][k].val = None => ch'[t][k].ver = 0
  <2>1. Held(t, k)' = Held(t, k)
    BY <1>6 DEF Held
  <2>2. Pending(t, k)' = Pending(t, k)
    BY <1>1, <2>1 DEF Pending
  <2>3. RowSync(id, Pending(t, k) # None, t, k)
    <3>1. CASE t # e.table
      BY <1>2, <1>4, <1>5, <1>9, <3>1, NextSync
    <3>2. CASE t = e.table
      <4>1. PICK q \in non_uploaded..Len(log) :
              /\ ValueIn(mysql[q + 1], t, k) # None => Pending(t, k) # None
              /\ Pending(t, k) # None => ValueIn(mysql[q + 1], t, k) # None \/ k \in MovedFrom(t)
        BY <1>5, <1>9 DEF RowSync
      <4>2. CASE q \in id..Len(log)
        BY <4>1, <4>2 DEF RowSync
      <4>3. CASE q = non_uploaded
        <5>1. /\ ValueIn(mysql[id + 1], t, k) # None => Pending(t, k) # None
              /\ Pending(t, k) # None => ValueIn(mysql[id + 1], t, k) # None \/ k \in MovedFrom(t)
          BY <1>4, <1>7, <1>9, <3>2, <4>1, <4>3
        <5>2. id \in id..Len(log)
          BY <1>2, LocalTypes
        <5> QED
          BY <5>1, <5>2 DEF RowSync
      <4>4. q = non_uploaded \/ q \in id..Len(log)
        BY <1>2, LocalTypes
      <4> QED
        BY <4>2, <4>3, <4>4
    <3> QED
      BY <3>1, <3>2
  <2>4. t \in DOMAIN ch' /\ ch'[t][k].val = None => ch'[t][k].ver = 0
    BY <1>5, <1>6, <1>9
  <2> QED
    BY <1>5, <1>9, <2>1, <2>2, <2>3, <2>4
<1>10. \A t \in Tables : OnceEach(ins'[t]) /\ \A k \in del'[t] : ~Has(ins'[t], k)
  BY <1>1, <1>5
<1> QED
  BY <1>1, <1>8, <1>9, <1>10, FinishEventSync

(* A DDL statement finds the batch uploaded, and leaves its table as it is  *)
(* after it and the others alone.                                           *)
LEMMA QuerySync ==
    ASSUME RealtimeInv, SyncInv, pc = "query", FinishQuery,
           NEW id, id = relay[reader], NEW e, e = log[id],
           ins' = NoRecords, del' = NoKeys,
           e.table \in DOMAIN ch' <=> e.table \in DOMAIN ch /\ e.kind = "truncate",
           \A t \in Tables \ {e.table} : /\ t \in DOMAIN ch' <=> t \in DOMAIN ch
                                         /\ t \in DOMAIN ch => ch'[t] = ch[t],
           e.table \in DOMAIN ch' => ch'[e.table] = EmptyTable
    PROVE  SyncInv'
<1>1. /\ id \in 1..Len(log) /\ id = non_uploaded + 1 /\ last = non_uploaded
      /\ e \in Statements /\ e.kind \in QueryKinds \ {"create"} /\ e.table \in Tables
      /\ ins = NoRecords /\ del = NoKeys
  BY QueryFacts
<1>2. FinishEvent(id, id)
  BY DEF FinishQuery
<1>3. /\ OnceEach(<<>>) /\ \A k : ~Has(<<>>, k)
      /\ \A t \in Tables : /\ ins[t] = <<>> /\ del[t] = {}
                           /\ ins'[t] = <<>> /\ del'[t] = {}
  BY <1>1 DEF OnceEach, Has, NoRecords, NoKeys
<1>4. \A t \in Tables : OnceEach(ins'[t]) /\ \A k \in del'[t] : ~Has(ins'[t], k)
  BY <1>3
<1>5. NoRename => /\ non_uploaded \in 0..(Len(log) - 1) /\ log[non_uploaded + 1] = e
                  /\ e.kind \in {"truncate", "drop", "drop if exists"}
                  /\ mysql[non_uploaded + 2] = mysql[id + 1]
  <2>1. log \in Seq(Statements)
    BY Unfold DEF SourceTypeOK
  <2>2. id \in DOMAIN log
    BY <1>1, <2>1
  <2>3. non_uploaded \in Nat /\ Len(log) \in Nat
    BY LocalTypes
  <2>4. /\ non_uploaded \in 0..(Len(log) - 1) /\ log[non_uploaded + 1] = e
        /\ mysql[non_uploaded + 2] = mysql[id + 1]
    BY <1>1, <2>3
  <2>5. NoRename => e.kind # "rename"
    BY <2>2 DEF NoRename
  <2> QED
    BY <1>1, <2>4, <2>5 DEF QueryKinds
<1>6. NoRename =>
        \A t \in Tables :
          /\ TableSync(non_uploaded, t \in DOMAIN ch, t)
          /\ \A k \in Keys :
               /\ RowSync(non_uploaded, Pending(t, k) # None, t, k)
               /\ t \in DOMAIN ch /\ ch[t][k].val = None => ch[t][k].ver = 0
  BY RunningSync
<1>7. ASSUME NoRename, NEW t \in Tables PROVE TableSync(id, t \in DOMAIN ch', t)
  <2>1. CASE t # e.table \/ e.kind = "truncate"
    <3>1. TableSync(non_uploaded + 1, t \in DOMAIN ch, t)
      BY <1>5, <1>6, <1>7, <2>1, NextTableSync
    <3>2. t \in DOMAIN ch' <=> t \in DOMAIN ch
      BY <1>7, <2>1
    <3> QED
      BY <1>1, <3>1, <3>2
  <2>2. CASE t = e.table /\ e.kind \in {"drop", "drop if exists"}
    <3>1. TableSync(non_uploaded + 1, t \in DOMAIN mysql[non_uploaded + 2], t)
      BY <1>5, <1>7, NextTableSync
    <3>2. t \notin DOMAIN mysql[non_uploaded + 2]
      BY <1>5, <1>7, <2>2, NextStatement
    <3>3. t \notin DOMAIN ch'
      BY <2>2
    <3> QED
      BY <1>1, <3>1, <3>2, <3>3
  <2> QED
    BY <1>5, <1>7, <2>1, <2>2
<1>8. ASSUME NoRename, NEW t \in Tables, NEW k \in Keys
      PROVE  /\ RowSync(id, Pending(t, k)' # None, t, k)
             /\ RowSync(last, Held(t, k)' # None, t, k)
             /\ t \in DOMAIN ch' /\ ch'[t][k].val = None => ch'[t][k].ver = 0
  <2>1. Pending(t, k)' = Held(t, k)' /\ Pending(t, k) = Held(t, k)
    BY <1>3 DEF Pending
  <2>2. CASE t # e.table
    <3>1. Held(t, k)' = Held(t, k)
      BY <1>8, <2>2 DEF Held
    <3>2. RowSync(non_uploaded + 1, Pending(t, k) # None, t, k)
      BY <1>5, <1>6, <1>8, <2>2, NextSync
    <3>3. t \in DOMAIN ch' /\ ch'[t][k].val = None => ch'[t][k].ver = 0
      BY <1>6, <1>8, <2>2
    <3> QED
      BY <1>1, <1>6, <1>8, <2>1, <3>1, <3>2, <3>3
  <2>3. CASE t = e.table
    <3>1. Held(t, k)' = None /\ (t \in DOMAIN ch' => ch'[t][k].ver = 0)
      BY <2>3 DEF Held, EmptyTable, NoRow
    <3>2. ValueIn(mysql[non_uploaded + 2], t, k) = None
      <4>1. e.kind \notin RowKinds /\ e.kind \notin {"insert", "rekey", "rename"}
        BY <1>5, <1>8 DEF RowKinds
      <4> QED
        BY <1>5, <1>8, <2>3, <4>1, NextStatement
    <3>3. RowSync(non_uploaded + 1, Held(t, k)' # None, t, k)
      BY <1>5, <1>8, <3>1, <3>2, NextSync
    <3>4. RowSync(non_uploaded, Held(t, k)' # None, t, k)
      <4>1. non_uploaded \in Nat /\ non_uploaded + 1 \in Nat /\ non_uploaded <= non_uploaded + 1
        BY LocalTypes
      <4> QED
        BY <3>3, <4>1, SyncEarlier
    <3> QED
      BY <1>1, <2>1, <3>1, <3>3, <3>4
  <2> QED
    BY <2>2, <2>3
<1> QED
  BY <1>2, <1>4, <1>7, <1>8, FinishEventSync

LEMMA DropSync == RealtimeInv /\ SyncInv /\ HandleDropTable => SyncInv'
<1> SUFFICES ASSUME RealtimeInv, SyncInv, HandleDropTable PROVE SyncInv'
  OBVIOUS
<1> DEFINE id == relay[reader]
           e == log[id]
<1>1. /\ pc = "query" /\ e.kind \in {"drop", "drop if exists"}
      /\ ch' = Without(ch, e.table) /\ UNCHANGED <<ins, del>> /\ FinishQuery
  BY DEF HandleDropTable, Executing, Query
<1>2. ins' = NoRecords /\ del' = NoKeys
  BY <1>1, QueryFacts
<1> HIDE DEF e
<1>3. DOMAIN ch' = DOMAIN ch \ {e.table} /\ \A t \in DOMAIN ch' : ch'[t] = ch[t]
  BY <1>1 DEF Without
<1> HIDE DEF id
<1>4. /\ e.table \in DOMAIN ch' <=> e.table \in DOMAIN ch /\ e.kind = "truncate"
      /\ \A t \in Tables \ {e.table} : /\ t \in DOMAIN ch' <=> t \in DOMAIN ch
                                       /\ t \in DOMAIN ch => ch'[t] = ch[t]
      /\ e.table \in DOMAIN ch' => ch'[e.table] = EmptyTable
  BY <1>1, <1>3
<1> QED
  BY <1>1, <1>2, <1>4, QuerySync DEF e, id

LEMMA TruncateSync == RealtimeInv /\ SyncInv /\ HandleTruncate => SyncInv'
<1> SUFFICES ASSUME RealtimeInv, SyncInv, HandleTruncate PROVE SyncInv'
  OBVIOUS
<1> DEFINE id == relay[reader]
           e == log[id]
<1>1. /\ pc = "query" /\ e.kind = "truncate" /\ FinishQuery
      /\ e.table \in structs => e.table \in DOMAIN ch
      /\ IF e.table \in structs
         THEN /\ ch' = [ch EXCEPT ![e.table] = EmptyTable]
              /\ ins' = [ins EXCEPT ![e.table] = <<>>]
              /\ del' = [del EXCEPT ![e.table] = {}]
         ELSE UNCHANGED <<ch, ins, del>>
  BY DEF HandleTruncate, Executing, Query
<1>2. /\ e \in Statements /\ e.table \in Tables /\ ins = NoRecords /\ del = NoKeys
      /\ IsContent(mysql[id]) /\ Valid(e, mysql[id]) /\ id \in 1..Len(log)
      /\ mysql[id + 1] = Effect(e, id, mysql[id])
      /\ DOMAIN mysql[id] \subseteq structs \/ DOMAIN mysql[id + 1] \subseteq structs
  BY <1>1, QueryFacts
<1> HIDE DEF e
<1>3. e.table \in structs /\ e.table \in DOMAIN ch
  <2>1. /\ DOMAIN Effect(e, id, mysql[id]) = DOMAIN mysql[id]
        /\ e.table \in DOMAIN mysql[id]
    <3>1. id \in Nat
      BY <1>2
    <3> HIDE DEF id
    <3> QED
      BY <1>1, <1>2, <3>1, EffectContent
  <2> QED
    BY <1>1, <1>2, <2>1
<1>4. ins' = NoRecords /\ del' = NoKeys
  BY <1>1, <1>2, <1>3 DEF NoRecords, NoKeys
<1>5. /\ DOMAIN ch' = DOMAIN ch /\ ch'[e.table] = EmptyTable
      /\ \A t \in DOMAIN ch \ {e.table} : ch'[t] = ch[t]
  BY <1>1, <1>3
<1> HIDE DEF id
<1>6. /\ e.table \in DOMAIN ch' <=> e.table \in DOMAIN ch /\ e.kind = "truncate"
      /\ \A t \in Tables \ {e.table} : /\ t \in DOMAIN ch' <=> t \in DOMAIN ch
                                       /\ t \in DOMAIN ch => ch'[t] = ch[t]
      /\ e.table \in DOMAIN ch' => ch'[e.table] = EmptyTable
  BY <1>1, <1>3, <1>5
<1> QED
  BY <1>1, <1>4, <1>6, QuerySync DEF e, id

(* RENAME is outside KeysInSync. *)
LEMMA RenameSync == RealtimeInv /\ SyncInv /\ HandleRenameTable => SyncInv'
<1> SUFFICES ASSUME RealtimeInv, SyncInv, HandleRenameTable PROVE SyncInv'
  OBVIOUS
<1> DEFINE id == relay[reader]
<1>1. /\ pc = "query" /\ log[id].kind = "rename" /\ UNCHANGED <<ins, del>>
      /\ FinishEvent(id, id)
  BY DEF HandleRenameTable, Executing, Query, FinishQuery
<1>2. ~NoRename
  <2>1. log \in Seq(Statements) /\ id \in 1..Len(log)
    BY <1>1, QueryFacts, Unfold DEF SourceTypeOK
  <2>2. id \in DOMAIN log
    BY <2>1
  <2> QED
    BY <1>1, <2>2 DEF NoRename
<1>3. \A t \in Tables : OnceEach(ins'[t]) /\ \A k \in del'[t] : ~Has(ins'[t], k)
  BY <1>1, RunningSync
<1> HIDE DEF id
<1> QED
  BY <1>1, <1>2, <1>3, FinishEventSync

-----------------------------------------------------------------------------
(* KeysInSync: the other steps. *)

(* Nothing moves but the reader, or an upload begins. *)
LEMMA DataStaysSync ==
    ASSUME RealtimeInv, SyncInv, pc # "down", pc' # "down",
           UNCHANGED <<log, mysql, ch, saved, last, non_uploaded, ins, del>>
    PROVE  SyncInv'
<1>1. /\ Handled = non_uploaded /\ Handled' = non_uploaded
      /\ Uploaded = last /\ Uploaded' = last
  BY DEF Handled, Uploaded
<1>2. \A t \in Tables : \A k \in Keys : Held(t, k)' = Held(t, k)
  BY DEF Held
<1>3. \A t \in Tables : \A k \in Keys : Pending(t, k)' = Pending(t, k)
  BY <1>2 DEF Pending
<1>4. BatchInv' /\ saved'.last <= last'
  BY DEF SyncInv, BatchInv
<1> QED
  BY <1>1, <1>2, <1>3, <1>4, RunningSync, SyncStep

LEMMA UploadDoneSync == RealtimeInv /\ SyncInv /\ UploadDone => SyncInv'
<1> SUFFICES ASSUME RealtimeInv, SyncInv, UploadDone PROVE SyncInv'
  OBVIOUS
<1>1. /\ pc = "upload" /\ ins = NoRecords /\ del = NoKeys
      /\ last' = non_uploaded /\ pc' = ret /\ non_uploaded' = non_uploaded
      /\ saved' = saved \/ saved'.last = non_uploaded
      /\ UNCHANGED <<log, mysql, ch, ins, del>>
  BY DEF UploadDone, SaveStateIfRequired, Save, source
<1>2. pc' # "down"
  BY <1>1, Unfold DEF LocalInv, ProcessTypeOK
<1>3. Handled' = non_uploaded /\ Uploaded' = non_uploaded
  BY <1>1, <1>2 DEF Handled, Uploaded
<1>4. saved'.last <= last'
  BY <1>1, RunningSync
<1>5. ASSUME NEW t \in Tables, NEW k \in Keys
      PROVE  /\ Held(t, k)' = Held(t, k) /\ Pending(t, k) = Held(t, k)
             /\ Pending(t, k)' = Held(t, k)
  <2>1. Held(t, k)' = Held(t, k)
    BY <1>1 DEF Held
  <2> QED
    BY <1>1, <2>1 DEF Pending, Has, NoRecords, NoKeys
<1>6. BatchInv'
  BY <1>1 DEF SyncInv, BatchInv
<1>7. NoRename =>
        \A t \in Tables :
          /\ TableSync(non_uploaded, t \in DOMAIN ch', t)
          /\ \A k \in Keys :
               /\ RowSync(non_uploaded, Pending(t, k) # None, t, k)
               /\ t \in DOMAIN ch' /\ ch'[t][k].val = None => ch'[t][k].ver = 0
  BY <1>1, RunningSync
<1> QED
  BY <1>1, <1>3, <1>4, <1>5, <1>6, <1>7, SyncStep

(* A request of an upload: the rows of the batch that it does not concern,  *)
(* and the presence of all rows once the batch is uploaded, stay.           *)
LEMMA UploadGoesOnSync ==
    ASSUME RealtimeInv, SyncInv, pc = "upload", BatchInv',
           UNCHANGED <<log, mysql, saved, pc, last, non_uploaded>>,
           DOMAIN ch' = DOMAIN ch,
           NoRename =>
             \A t \in Tables : \A k \in Keys :
               /\ Pending(t, k)' # None <=> Pending(t, k) # None
               /\ Held(t, k)' = Held(t, k) \/ (Held(t, k)' # None <=> Pending(t, k) # None)
               /\ t \in DOMAIN ch' /\ ch'[t][k].val = None => ch'[t][k].ver = 0
    PROVE  SyncInv'
<1>1. Handled' = non_uploaded /\ Uploaded' = last
  BY DEF Handled, Uploaded
<1>2. saved'.last <= last' /\ last \in Nat /\ non_uploaded \in Nat /\ last <= non_uploaded
  BY RunningSync
<1>3. NoRename =>
        \A t \in Tables :
          /\ TableSync(non_uploaded, t \in DOMAIN ch, t)
          /\ \A k \in Keys : /\ RowSync(non_uploaded, Pending(t, k) # None, t, k)
                             /\ RowSync(last, Held(t, k) # None, t, k)
  BY RunningSync
<1>4. ASSUME NoRename, NEW t \in Tables PROVE TableSync(non_uploaded, t \in DOMAIN ch', t)
  BY <1>3, <1>4
<1>5. ASSUME NoRename, NEW t \in Tables, NEW k \in Keys
      PROVE  /\ RowSync(non_uploaded, Pending(t, k)' # None, t, k)
             /\ RowSync(last, Held(t, k)' # None, t, k)
             /\ t \in DOMAIN ch' /\ ch'[t][k].val = None => ch'[t][k].ver = 0
  <2>1. RowSync(non_uploaded, Pending(t, k) # None, t, k)
    BY <1>3, <1>5
  <2>2. RowSync(non_uploaded, Pending(t, k)' # None, t, k)
    BY <1>5, <2>1 DEF RowSync
  <2>3. RowSync(last, Held(t, k)' # None, t, k)
    <3>1. CASE Held(t, k)' = Held(t, k)
      BY <1>3, <1>5, <3>1
    <3>2. CASE Held(t, k)' # None <=> Pending(t, k) # None
      <4>1. RowSync(last, Pending(t, k) # None, t, k)
        BY <1>2, <2>1, SyncEarlier
      <4> QED
        BY <3>2, <4>1 DEF RowSync
    <3> QED
      BY <1>5, <3>1, <3>2
  <2> QED
    BY <1>5, <2>2, <2>3
<1> QED
  BY <1>1, <1>2, <1>4, <1>5, SyncStep

LEMMA UploadInsertSync ==
    ASSUME RealtimeInv, SyncInv, NEW t \in Tables, InsertRecords(t)
    PROVE  SyncInv'
<1> DEFINE d == ins[t]
           new(k) == [val |-> d[IndexOf(d, k)].val, ver |-> versions[t] + IndexOf(d, k)]
<1>1. /\ pc = "upload" /\ pc' = pc /\ t \in DOMAIN ch
      /\ ch' = [ch EXCEPT ![t] = [k \in Keys |-> IF Has(d, k) THEN Winner(ch[t][k], new(k))
                                                 ELSE ch[t][k]]]
      /\ ins' = [ins EXCEPT ![t] = <<>>]
      /\ UNCHANGED <<log, mysql, saved, last, non_uploaded, del>>
  BY DEF InsertRecords, source
<1>2. /\ ins \in [Tables -> Seq(Records(non_uploaded))] /\ versions \in [Tables -> Nat]
      /\ \A s \in DOMAIN ch : ch[s] \in [Keys -> [val : 0..Len(log), ver : Nat]]
      /\ non_uploaded \in Nat
  BY LocalTypes, Unfold DEF LocalInv, ProcessTypeOK
<1>3. /\ \A s \in Tables : OnceEach(ins[s]) /\ \A k \in del[s] : ~Has(ins[s], k)
      /\ NoRename => \A s \in Tables : \A k \in Keys :
                       s \in DOMAIN ch /\ ch[s][k].val = None => ch[s][k].ver = 0
  BY <1>1, RunningSync
<1>4. versions[t] \in Nat /\ d \in Seq(Records(non_uploaded))
  BY <1>2
<1>5. ASSUME NEW k \in Keys, Has(d, k)
      PROVE  d[IndexOf(d, k)].val # None /\ new(k).val # None /\ new(k).ver > 0
  <2> DEFINE i == IndexOf(d, k)
  <2>1. i \in DOMAIN d
    BY <1>5, IndexOfHas
  <2> HIDE DEF i
  <2>2. new(k) = [val |-> d[i].val, ver |-> versions[t] + i]
    BY DEF i
  <2>3. d[i] \in Records(non_uploaded) /\ i \in Nat \ {0}
    BY <1>4, <2>1
  <2>4. d[i].val \in 1..non_uploaded
    BY <2>3 DEF Records
  <2> HIDE DEF new, d
  <2>5. new(k).val = d[i].val /\ new(k).ver = versions[t] + i
    BY <2>2
  <2> QED
    BY <1>2, <1>4, <2>3, <2>4, <2>5 DEF None, i
<1> DEFINE row(k) == IF Has(d, k) THEN Winner(ch[t][k], new(k)) ELSE ch[t][k]
<1>6. /\ DOMAIN ch' = DOMAIN ch /\ \A s \in DOMAIN ch \ {t} : ch'[s] = ch[s]
      /\ \A k \in Keys : ch'[t][k] = row(k)
  <2> HIDE DEF row
  <2>1. ch' = [ch EXCEPT ![t] = [k \in Keys |-> row(k)]]
    BY <1>1 DEF row
  <2> QED
    BY <1>1, <2>1
<1>7. ins'[t] = <<>> /\ \A s \in Tables \ {t} : ins'[s] = ins[s]
  BY <1>1, <1>2
<1>8. OnceEach(<<>>) /\ \A k : ~Has(<<>>, k)
  BY DEF OnceEach, Has
<1>9. BatchInv'
  BY <1>1, <1>3, <1>7, <1>8 DEF BatchInv
<1> HIDE DEF d, new, row
<1>10. ASSUME NoRename, NEW s \in Tables, NEW k \in Keys
       PROVE  /\ Pending(s, k)' # None <=> Pending(s, k) # None
              /\ Held(s, k)' = Held(s, k) \/ (Held(s, k)' # None <=> Pending(s, k) # None)
              /\ s \in DOMAIN ch' /\ ch'[s][k].val = None => ch'[s][k].ver = 0
  <2>1. CASE s # t
    BY <1>1, <1>3, <1>6, <1>7, <1>10, <2>1 DEF Pending, Held
  <2>2. CASE s = t /\ ~Has(d, k)
    <3>1. ch'[t][k] = ch[t][k]
      BY <1>6, <2>2 DEF row
    <3>2. Held(s, k)' = Held(s, k)
      BY <1>1, <1>6, <2>2, <3>1 DEF Held
    <3> QED
      BY <1>1, <1>3, <1>7, <1>8, <1>10, <2>2, <3>1, <3>2 DEF Pending, d
  <2>3. CASE s = t /\ Has(d, k)
    <3>1. ch'[t][k].val # None
      <4>1. ch'[t][k] = Winner(ch[t][k], new(k))
        BY <1>6, <2>3 DEF row
      <4>2. ch[t][k].ver \in Nat
        BY <1>1, <1>2
      <4>3. new(k).ver > 0 /\ new(k).val # None
        BY <1>5, <2>3
      <4>4. ch[t][k].val = None => ch[t][k].ver = 0
        BY <1>1, <1>3, <1>10
      <4>5. new(k).ver \in Nat
        <5>1. IndexOf(d, k) \in Nat
          BY <1>4, <2>3, IndexOfHas
        <5>2. new(k).ver = versions[t] + IndexOf(d, k)
          BY DEF new
        <5> QED
          BY <1>4, <5>1, <5>2
      <4> QED
        BY <4>1, <4>2, <4>3, <4>4, <4>5 DEF Winner
    <3>2. Held(s, k)' # None
      BY <1>1, <1>6, <2>3, <3>1 DEF Held
    <3>3. k \notin del[t]
      BY <1>3, <2>3 DEF d
    <3>4. Pending(s, k)' = Held(s, k)'
      BY <1>1, <1>7, <1>8, <2>3, <3>3 DEF Pending
    <3>5. Pending(s, k) # None
      BY <1>5, <2>3 DEF Pending, d
    <3> QED
      BY <2>3, <3>1, <3>2, <3>4, <3>5
  <2> QED
    BY <2>1, <2>2, <2>3
<1> QED
  BY <1>1, <1>6, <1>9, <1>10, UploadGoesOnSync

LEMMA UploadEraseSync ==
    ASSUME RealtimeInv, SyncInv, NEW t \in Tables, EraseRecords(t)
    PROVE  SyncInv'
<1>1. /\ pc = "upload" /\ pc' = pc /\ t \in DOMAIN ch
      /\ UNCHANGED <<log, mysql, saved, last, non_uploaded, ins>>
  BY DEF EraseRecords, source
<1>2. PICK batch \in SUBSET del[t] :
        /\ ch' = [ch EXCEPT ![t] = [k \in Keys |-> IF k \in batch THEN NoRow ELSE @[k]]]
        /\ del' = [del EXCEPT ![t] = @ \ batch]
  BY DEF EraseRecords
<1>3. /\ \A s \in Tables : OnceEach(ins[s]) /\ \A k \in del[s] : ~Has(ins[s], k)
      /\ NoRename => \A s \in Tables : \A k \in Keys :
                       s \in DOMAIN ch /\ ch[s][k].val = None => ch[s][k].ver = 0
  BY <1>1, RunningSync
<1>4. /\ DOMAIN ch' = DOMAIN ch /\ \A s \in DOMAIN ch \ {t} : ch'[s] = ch[s]
      /\ \A k \in Keys : ch'[t][k] = IF k \in batch THEN NoRow ELSE ch[t][k]
  BY <1>1, <1>2
<1>5. del'[t] = del[t] \ batch /\ \A s \in Tables \ {t} : del'[s] = del[s]
  BY <1>2, LocalTypes
<1>6. BatchInv'
  BY <1>1, <1>3, <1>5 DEF BatchInv
<1>7. ASSUME NoRename, NEW s \in Tables, NEW k \in Keys
      PROVE  /\ Pending(s, k)' # None <=> Pending(s, k) # None
             /\ Held(s, k)' = Held(s, k) \/ (Held(s, k)' # None <=> Pending(s, k) # None)
             /\ s \in DOMAIN ch' /\ ch'[s][k].val = None => ch'[s][k].ver = 0
  <2>1. CASE s # t
    BY <1>1, <1>3, <1>4, <1>5, <1>7, <2>1 DEF Pending, Held
  <2>2. CASE s = t /\ k \notin batch
    BY <1>1, <1>3, <1>4, <1>5, <1>7, <2>2 DEF Pending, Held
  <2>3. CASE s = t /\ k \in batch
    <3>1. ~Has(ins[t], k) /\ k \in del[t] /\ k \notin del'[t]
      BY <1>3, <1>5, <2>3
    <3>2. ch'[t][k].val = None /\ ch'[t][k].ver = 0
      BY <1>4, <2>3 DEF NoRow
    <3>3. Held(s, k)' = None
      BY <1>1, <1>4, <2>3, <3>2 DEF Held
    <3>4. Pending(s, k)' = None /\ Pending(s, k) = None
      BY <1>1, <2>3, <3>1, <3>3 DEF Pending
    <3> QED
      BY <2>3, <3>2, <3>3, <3>4
  <2> QED
    BY <2>1, <2>2, <2>3
<1> QED
  BY <1>1, <1>4, <1>6, <1>7, UploadGoesOnSync

(* Whatever ends the process, ClickHouse is not behind what was saved. *)
LEMMA EndsSync ==
    ASSUME RealtimeInv, SyncInv, pc # "down", ProcessEnds, UNCHANGED <<log, mysql, ch>>,
           saved' = saved \/ saved'.last = last
    PROVE  SyncInv'
<1>1. pc' = "down" /\ ins' = NoRecords /\ del' = NoKeys
  BY DEF ProcessEnds
<1>2. Handled' = saved'.last /\ Uploaded' = saved'.last
  BY <1>1 DEF Handled, Uploaded
<1>3. /\ saved'.last \in Nat /\ last \in Nat /\ non_uploaded \in Nat
      /\ saved'.last <= last /\ last <= non_uploaded
      /\ NoRename =>
           \A t \in Tables :
             /\ TableSync(non_uploaded, t \in DOMAIN ch, t)
             /\ \A k \in Keys :
                  /\ RowSync(last, Held(t, k) # None, t, k)
                  /\ t \in DOMAIN ch /\ ch[t][k].val = None => ch[t][k].ver = 0
  BY RunningSync
<1>4. OnceEach(<<>>) /\ \A k : ~Has(<<>>, k)
  BY DEF OnceEach, Has
<1>5. \A t \in Tables : ins'[t] = <<>> /\ del'[t] = {}
  BY <1>1 DEF NoRecords, NoKeys
<1>6. BatchInv'
  BY <1>4, <1>5 DEF BatchInv
<1>7. ASSUME NEW t \in Tables, NEW k \in Keys
      PROVE  Held(t, k)' = Held(t, k) /\ Pending(t, k)' = Held(t, k)
  <2>1. Held(t, k)' = Held(t, k)
    BY DEF Held
  <2> QED
    BY <1>4, <1>5, <2>1 DEF Pending
<1>8. ASSUME NoRename, NEW t \in Tables PROVE TableSync(saved'.last, t \in DOMAIN ch', t)
  <2>1. TableSync(non_uploaded, t \in DOMAIN ch, t) /\ saved'.last <= non_uploaded
    BY <1>3, <1>8
  <2>2. TableSync(saved'.last, t \in DOMAIN ch, t)
    BY <1>3, <2>1, TableSyncEarlier
  <2> QED
    BY <2>2
<1>9. ASSUME NoRename, NEW t \in Tables, NEW k \in Keys
      PROVE  /\ RowSync(saved'.last, Held(t, k) # None, t, k)
             /\ t \in DOMAIN ch' /\ ch'[t][k].val = None => ch'[t][k].ver = 0
  <2>1. RowSync(saved'.last, Held(t, k) # None, t, k)
    BY <1>3, <1>9, SyncEarlier
  <2> QED
    BY <1>3, <1>9, <2>1
<1> QED
  BY <1>1, <1>2, <1>6, <1>7, <1>8, <1>9, SyncStep

LEMMA StartSync == RealtimeInv /\ SyncInv /\ Start => SyncInv'
<1> SUFFICES ASSUME RealtimeInv, SyncInv, Start PROVE SyncInv'
  OBVIOUS
<1>1. /\ pc = "down" /\ pc' = "loop" /\ last' = saved.last /\ non_uploaded' = saved.last
      /\ UNCHANGED <<log, mysql, ch, saved, ins, del>>
  BY DEF Start, source
<1>2. /\ Handled = saved.last /\ Handled' = saved.last
      /\ Uploaded = saved.last /\ Uploaded' = saved.last
  BY <1>1 DEF Handled, Uploaded
<1>3. \A t \in Tables : \A k \in Keys : Held(t, k)' = Held(t, k)
  BY <1>1 DEF Held
<1>4. \A t \in Tables : \A k \in Keys : Pending(t, k)' = Pending(t, k)
  BY <1>1, <1>3 DEF Pending
<1>5. saved'.last <= last'
  BY <1>1, SavedFacts
<1>6. BatchInv'
  BY <1>1 DEF SyncInv, BatchInv
<1>7. NoRename =>
        \A t \in Tables :
          /\ TableSync(saved.last, t \in DOMAIN ch, t)
          /\ \A k \in Keys :
               /\ RowSync(saved.last, Pending(t, k) # None, t, k)
               /\ RowSync(saved.last, Held(t, k) # None, t, k)
               /\ t \in DOMAIN ch /\ ch[t][k].val = None => ch[t][k].ver = 0
  BY <1>2 DEF SyncInv, NoRename
<1> QED
  BY <1>1, <1>2, <1>3, <1>4, <1>5, <1>6, <1>7, SyncStep

(* MySQL and binlog_replicator do not disturb the process. *)
LEMMA SourceSync ==
    ASSUME RealtimeInv, SyncInv, [Next]_vars,
           UNCHANGED <<ch, saved, pc, ret, memory, history>>
    PROVE  SyncInv'
<1>1. UNCHANGED <<ch, saved, pc, last, non_uploaded, ins, del>>
  BY DEF memory
<1>2. Handled' = Handled /\ Uploaded' = Uploaded
  BY <1>1 DEF Handled, Uploaded
<1>3. /\ Len(log) \in Nat /\ Len(log') \in Nat /\ Len(log) <= Len(log')
      /\ \A n \in 1..Len(log) : log'[n] = log[n]
      /\ \A n \in 1..(Len(log) + 1) : mysql'[n] = mysql[n]
      /\ DOMAIN log = 1..Len(log) /\ DOMAIN log' = 1..Len(log')
  <2>1. SourceTypeOK /\ SourceTypeOK'
    BY Unfold, SourceStep
  <2>2. log \in Seq(Statements) /\ log' \in Seq(Statements)
    BY <2>1 DEF SourceTypeOK
  <2>3. DOMAIN log = 1..Len(log) /\ DOMAIN log' = 1..Len(log')
    BY <2>2
  <2>4. TypeOK
    BY Unfold
  <2> QED
    BY <2>3, <2>4, SourceGrows
<1>4. /\ Handled \in Nat /\ Uploaded \in Nat
  BY SavedFacts, LocalTypes DEF Handled, Uploaded
<1>5. NoRename' => NoRename
  BY <1>3 DEF NoRename
<1>6. \A t \in Tables : MovedFrom(t) \subseteq MovedFrom(t)'
  BY <1>3 DEF MovedFrom
<1>7. \A t \in Tables : \A k \in Keys : Held(t, k)' = Held(t, k)
  BY <1>1 DEF Held
<1>8. \A t \in Tables : \A k \in Keys : Pending(t, k)' = Pending(t, k)
  BY <1>1, <1>7 DEF Pending
<1>9. BatchInv' /\ (pc' # "down" => saved'.last <= last')
  BY <1>1 DEF SyncInv, BatchInv
<1>10. ASSUME NEW m \in Nat, NEW n \in m..Len(log)
       PROVE  n \in m..Len(log') /\ mysql'[n + 1] = mysql[n + 1]
  BY <1>3
<1>11. ASSUME NEW t \in Tables, TableSync(Handled, t \in DOMAIN ch, t)
       PROVE  TableSync(Handled, t \in DOMAIN ch, t)'
  <2>1. PICK n \in Handled..Len(log) : t \in DOMAIN ch <=> t \in DOMAIN mysql[n + 1]
    BY <1>11 DEF TableSync
  <2>2. n \in Handled..Len(log') /\ mysql'[n + 1] = mysql[n + 1]
    BY <1>4, <1>10
  <2> QED
    BY <1>1, <1>2, <2>1, <2>2 DEF TableSync
<1>12. ASSUME NEW t \in Tables, NEW k \in Keys, NEW m \in Nat, NEW p, RowSync(m, p, t, k)
       PROVE  \E n \in m..Len(log') :
                /\ ValueIn(mysql'[n + 1], t, k) # None => p
                /\ p => ValueIn(mysql'[n + 1], t, k) # None \/ k \in MovedFrom(t)'
  <2>1. PICK n \in m..Len(log) :
          /\ ValueIn(mysql[n + 1], t, k) # None => p
          /\ p => ValueIn(mysql[n + 1], t, k) # None \/ k \in MovedFrom(t)
    BY <1>12 DEF RowSync
  <2>2. n \in m..Len(log') /\ mysql'[n + 1] = mysql[n + 1]
    BY <1>10
  <2> QED
    BY <1>6, <2>1, <2>2
<1>13. ASSUME NEW t \in Tables, NEW k \in Keys, RowSync(Handled, Pending(t, k) # None, t, k)
       PROVE  RowSync(Handled, Pending(t, k) # None, t, k)'
  <2>1. \E n \in Handled..Len(log') :
          /\ ValueIn(mysql'[n + 1], t, k) # None => Pending(t, k) # None
          /\ Pending(t, k) # None => ValueIn(mysql'[n + 1], t, k) # None \/ k \in MovedFrom(t)'
    BY <1>4, <1>12, <1>13
  <2> QED
    BY <1>2, <1>8, <2>1 DEF RowSync, ValueIn
<1>14. ASSUME NEW t \in Tables, NEW k \in Keys, RowSync(Uploaded, Held(t, k) # None, t, k)
       PROVE  RowSync(Uploaded, Held(t, k) # None, t, k)'
  <2>1. \E n \in Uploaded..Len(log') :
          /\ ValueIn(mysql'[n + 1], t, k) # None => Held(t, k) # None
          /\ Held(t, k) # None => ValueIn(mysql'[n + 1], t, k) # None \/ k \in MovedFrom(t)'
    BY <1>4, <1>12, <1>14
  <2> QED
    BY <1>2, <1>7, <2>1 DEF RowSync, ValueIn
<1> QED
  BY <1>1, <1>5, <1>9, <1>11, <1>13, <1>14 DEF SyncInv, NoRename

LEMMA InitSyncInv == Init => SyncInv
<1> SUFFICES ASSUME Init PROVE SyncInv
  OBVIOUS
<1> DEFINE c == [t \in InitialTables |-> [k \in Keys |-> None]]
<1>1. /\ mysql[1] = c /\ ch = [t \in InitialTables |-> EmptyTable] /\ pc = "down"
      /\ saved = [last |-> None, versions |-> [t \in Tables |-> 0], structs |-> InitialTables]
      /\ ins = NoRecords /\ del = NoKeys /\ Len(log) = 0
  BY DEF Init
<1>2. Handled = 0 /\ Uploaded = 0 /\ 0 \in 0..Len(log) /\ mysql[0 + 1] = c
  BY <1>1 DEF Handled, Uploaded, None
<1>3. OnceEach(<<>>) /\ \A k : ~Has(<<>>, k)
  BY DEF OnceEach, Has
<1>4. \A t \in Tables : ins[t] = <<>> /\ del[t] = {}
  BY <1>1 DEF NoRecords, NoKeys
<1>5. \A t \in Tables : \A k \in Keys :
        Pending(t, k) = None /\ Held(t, k) = None /\ ValueIn(c, t, k) = None
  BY <1>1, <1>3, <1>4 DEF Pending, Held, ValueIn, EmptyTable, NoRow
<1>6. BatchInv
  BY <1>3, <1>4 DEF BatchInv
<1>7. \A t \in Tables : \A k \in Keys :
        t \in DOMAIN ch /\ ch[t][k].val = None => ch[t][k].ver = 0
  BY <1>1 DEF EmptyTable, NoRow
<1>8. \A t \in Tables : TableSync(0, t \in DOMAIN ch, t)
  BY <1>1, <1>2 DEF TableSync
<1> HIDE DEF c
<1>9. \A t \in Tables : \A k \in Keys :
        RowSync(0, Pending(t, k) # None, t, k) /\ RowSync(0, Held(t, k) # None, t, k)
  BY <1>2, <1>5 DEF RowSync
<1> QED
  BY <1>1, <1>2, <1>6, <1>7, <1>8, <1>9 DEF SyncInv

LEMMA SyncInvStep ==
    ASSUME RealtimeInv, SyncInv, [Next]_vars
    PROVE  SyncInv'
<1>1. CASE Start
  BY <1>1, StartSync
<1>2. CASE HandleEvent
  <2>1. CASE SkipDuplicate
    BY <2>1, DataStaysSync DEF SkipDuplicate, Reading, source
  <2>2. CASE HandleQuery
    BY <2>2, DataStaysSync DEF HandleQuery, NewEvent, Reading, UploadRecords, source
  <2>3. CASE QueryRefused
    BY <2>3, EndsSync DEF QueryRefused, Executing, Raise, source
  <2> QED
    BY <1>2, <2>1, <2>2, <2>3, InsertSync, EraseSync, CreateSync, DropSync, RenameSync,
       TruncateSync DEF HandleEvent
<1>3. CASE Upload
  <2>1. ASSUME NEW t \in Tables, UploadRefused(t) PROVE SyncInv'
    BY <2>1, EndsSync DEF UploadRefused, Raise, source
  <2> QED
    BY <1>3, <2>1, UploadInsertSync, UploadEraseSync, UploadDoneSync DEF Upload
<1>4. CASE ReadNothing
  BY <1>4, DataStaysSync DEF ReadNothing, UploadRecords, source, memory
<1>5. CASE LeaveLoop
  BY <1>5, DataStaysSync DEF LeaveLoop, UploadRecords, source, memory
<1>6. CASE Stop
  BY <1>6, EndsSync DEF Stop, Save, source
<1>7. CASE Crash
  BY <1>7, EndsSync DEF Crash, source
<1>8. CASE MySQLCommits
  BY <1>8, SourceSync DEF MySQLCommits
<1>9. CASE RelayReplays
  BY <1>9, SourceSync DEF RelayReplays
<1>10. CASE UNCHANGED vars
  BY <1>10, SourceSync DEF vars
<1> QED
  BY <1>1, <1>2, <1>3, <1>4, <1>5, <1>6, <1>7, <1>8, <1>9, <1>10 DEF Next

(* handle_insert_event, handle_erase_event and upload_records: whatever was *)
(* killed, refused, restarted or replayed, and although versions go back    *)
(* and a row may lose to one that was inserted before a crash, ClickHouse   *)
(* has the tables and the primary keys of MySQL when the replicator has     *)
(* caught up, rows that an UPDATE has moved away excepted.                  *)
THEOREM KeysAreInSync == Spec => []KeysInSync
<1>1. RealtimeInv /\ SyncInv => KeysInSync
  <2> SUFFICES ASSUME RealtimeInv, SyncInv, CaughtUp, NoRename
               PROVE  /\ DOMAIN ch = DOMAIN Current
                      /\ \A t \in DOMAIN ch : \A k \in Keys :
                           /\ Current[t][k] # None => ch[t][k].val # None
                           /\ ch[t][k].val # None => Current[t][k] # None \/ k \in MovedFrom(t)
    BY DEF KeysInSync, NoRename
  <2>1. /\ last = Len(log) /\ non_uploaded = Len(log) /\ pc # "down" /\ Len(log) \in Nat
    BY LocalTypes DEF CaughtUp
  <2>2. /\ Current = mysql[Len(log) + 1] /\ DOMAIN Current \subseteq Tables
        /\ DOMAIN ch \subseteq Tables
    <3>1. /\ Len(mysql) = Len(log) + 1 /\ mysql \in Seq(Range(mysql))
          /\ \A n \in DOMAIN mysql : IsContent(mysql[n])
      BY Unfold DEF SourceTypeOK
    <3>2. Len(log) + 1 \in DOMAIN mysql
      BY <2>1, <3>1
    <3> QED
      BY <3>1, <3>2, LocalTypes DEF Current, IsContent
  <2>3. \A n \in Len(log)..Len(log) : n = Len(log)
    BY <2>1
  <2>4. \A t \in Tables :
          /\ TableSync(Len(log), t \in DOMAIN ch, t)
          /\ \A k \in Keys : RowSync(Len(log), Held(t, k) # None, t, k)
    BY <2>1, RunningSync
  <2>5. \A t \in Tables : t \in DOMAIN ch <=> t \in DOMAIN Current
    BY <2>2, <2>3, <2>4 DEF TableSync
  <2>6. ASSUME NEW t \in DOMAIN ch, NEW k \in Keys
        PROVE  /\ Current[t][k] # None => ch[t][k].val # None
               /\ ch[t][k].val # None => Current[t][k] # None \/ k \in MovedFrom(t)
    <3>1. t \in Tables /\ t \in DOMAIN Current
      BY <2>2, <2>5
    <3>2. Held(t, k) = ch[t][k].val /\ ValueIn(mysql[Len(log) + 1], t, k) = Current[t][k]
      BY <2>2, <3>1 DEF Held, ValueIn
    <3> QED
      BY <2>3, <2>4, <3>1, <3>2 DEF RowSync
  <2>7. DOMAIN ch = DOMAIN Current
    BY <2>2, <2>5
  <2> QED
    BY <2>6, <2>7
<1>2. Init => RealtimeInv /\ SyncInv
  BY InitRealtimeInv, InitSyncInv
<1>3. RealtimeInv /\ SyncInv /\ [Next]_vars => (RealtimeInv /\ SyncInv)'
  BY RealtimeInvStep, SyncInvStep
<1> QED
  BY <1>1, <1>2, <1>3, PTL DEF Spec

=============================================================================
