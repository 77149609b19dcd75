---------------------------- MODULE SchemaProofs ----------------------------
(***************************************************************************)
(* TLAPS proofs about SchemaChange.                                        *)
(*                                                                         *)
(* First what the methods of TableStructure do to the names and the types  *)
(* of the columns; then that the two structures stay a Pair under every    *)
(* clause, that the copy of _validate_alter_plan stays Similar to them     *)
(* (the same names in the same order), and with it that validation         *)
(* foresees execution.  Then replay: a command on a table that has the     *)
(* clause already, and by how much ClickHouse can be ahead of the          *)
(* structures (ReplayInv).  Last, the definitions of MySQL: what the       *)
(* clauses still to execute make of the columns (SourceInv).               *)
(***************************************************************************)
EXTENDS SchemaChange, SequenceTheorems, WellFoundedInduction, TLAPS

-----------------------------------------------------------------------------
(* Columns of a structure. *)

FieldsOf(T) == [name : ColumnNames, type : T]
Place(fields, pos) == IF pos = AtFirst THEN 1 ELSE Index(fields, pos) + 1
Placed(fields, pos) == pos = AtFirst \/ Has(fields, pos)
Unique(fields) == \A i, j \in DOMAIN fields : fields[i].name = fields[j].name => i = j

LEMMA LeastOf ==
    ASSUME NEW S \in SUBSET Nat, S # {}
    PROVE  Min(S) \in S /\ \A k \in S : Min(S) <= k
<1> DEFINE R == {ss \in Nat \X Nat : ss[1] < ss[2]}
<1>1. IsWellFoundedOn(R, Nat)
  BY NatLessThanWellFounded DEF OpToRel
<1> HIDE DEF R
<1>2. PICK n \in S : \A m \in S : ~(<<m, n>> \in R)
  BY <1>1, WFMin
<1>3. ASSUME NEW k \in S PROVE n <= k
  <2>1. k \in Nat /\ n \in Nat
    OBVIOUS
  <2>2. k < n => <<k, n>> \in R
    BY <2>1 DEF R
  <2> QED
    BY <1>2, <2>1, <2>2
<1> QED
  BY <1>3 DEF Min

LEMMA IndexMeaning ==
    ASSUME NEW T, NEW f \in Seq(FieldsOf(T)), NEW c
    PROVE  /\ Index(f, c) \in 0..Len(f)
           /\ Has(f, c) <=> \E i \in 1..Len(f) : f[i].name = c
           /\ Has(f, c) => /\ Index(f, c) \in 1..Len(f)
                           /\ f[Index(f, c)].name = c
<1> DEFINE I == {i \in 1..Len(f) : f[i].name = c}
<1>1. Index(f, c) = IF I # {} THEN Min(I) ELSE 0
  BY DEF Index, SelectInSeq
<1>2. I \in SUBSET Nat /\ Len(f) \in Nat
  OBVIOUS
<1>3. I # {} => Min(I) \in I
  BY <1>2, LeastOf
<1> QED
  BY <1>1, <1>2, <1>3 DEF Has

LEMMA IndexByNames ==
    ASSUME NEW T, NEW f \in Seq(FieldsOf(T)), NEW U, NEW g \in Seq(FieldsOf(U)), NEW c,
           Names(f) = Names(g)
    PROVE  Index(f, c) = Index(g, c) /\ (Has(f, c) <=> Has(g, c)) /\ Len(f) = Len(g)
<1> DEFINE I(h) == {i \in 1..Len(h) : h[i].name = c}
<1>1. DOMAIN f = 1..Len(f) /\ DOMAIN g = 1..Len(g) /\ Len(f) \in Nat /\ Len(g) \in Nat
  OBVIOUS
<1>2. DOMAIN f = DOMAIN g
  <2>1. DOMAIN Names(f) = DOMAIN f /\ DOMAIN Names(g) = DOMAIN g
    BY DEF Names
  <2> QED
    BY <2>1
<1>3. Len(f) = Len(g)
  <2>1. ASSUME NEW m \in Nat, NEW n \in Nat, 1..m = 1..n PROVE m = n
    <3>1. (m \in 1..m <=> m >= 1) /\ (n \in 1..n <=> n >= 1)
      OBVIOUS
    <3>2. (m \in 1..n => m <= n) /\ (n \in 1..m => n <= m)
      OBVIOUS
    <3> QED
      BY <2>1, <3>1, <3>2
  <2> QED
    BY <1>1, <1>2, <2>1
<1>4. \A i \in DOMAIN f : f[i].name = g[i].name
  <2>1. \A i \in DOMAIN f : Names(f)[i] = f[i].name /\ Names(g)[i] = g[i].name
    BY <1>2 DEF Names
  <2> QED
    BY <2>1
<1>5. I(f) = I(g)
  BY <1>1, <1>2, <1>4
<1>6. /\ Index(f, c) = IF I(f) # {} THEN Min(I(f)) ELSE 0
      /\ Index(g, c) = IF I(g) # {} THEN Min(I(g)) ELSE 0
  BY DEF Index, SelectInSeq
<1> HIDE DEF I
<1> QED
  BY <1>3, <1>5, <1>6 DEF Has

LEMMA IndexOfUnique ==
    ASSUME NEW T, NEW f \in Seq(FieldsOf(T)), Unique(f), NEW i \in 1..Len(f)
    PROVE  Index(f, f[i].name) = i
<1>1. Has(f, f[i].name)
  BY IndexMeaning
<1>2. Index(f, f[i].name) \in 1..Len(f) /\ f[Index(f, f[i].name)].name = f[i].name
  BY <1>1, IndexMeaning
<1> QED
  BY <1>2 DEF Unique

LEMMA PlaceIsInRange ==
    ASSUME NEW T, NEW f \in Seq(FieldsOf(T)), NEW pos, Placed(f, pos)
    PROVE  Place(f, pos) \in 1..(Len(f) + 1)
<1>1. Index(f, pos) \in 0..Len(f) /\ Len(f) \in Nat
  BY IndexMeaning
<1> QED
  BY <1>1 DEF Place

(* g is s, a sequence of elements of S, with x inserted at position p. *)
WithInserted(g, S, s, p, x) ==
    /\ g \in Seq(S)
    /\ Len(g) = Len(s) + 1
    /\ \A i \in 1..(Len(s) + 1) :
         g[i] = IF i < p THEN s[i] ELSE IF i = p THEN x ELSE s[i - 1]

LEMMA InsertAtShape ==
    ASSUME NEW S, NEW s \in Seq(S), NEW p \in 1..(Len(s) + 1), NEW x \in S
    PROVE  WithInserted(InsertAt(s, p, x), S, s, p, x)
<1> DEFINE n == Len(s)
           A == SubSeq(s, 1, p - 1)
           B == SubSeq(s, p, n)
           AX == A \o <<x>>
<1>1. n \in Nat /\ \A i \in 1..n : s[i] \in S
  OBVIOUS
<1>2. InsertAt(s, p, x) = AX \o B
  BY DEF InsertAt
<1>3. p \in 1..(n + 1)
  OBVIOUS
<1> HIDE DEF n
<1>4. /\ A \in Seq(S) /\ Len(A) = p - 1
      /\ \A i \in 1..(p - 1) : A[i] = s[i]
  BY <1>1, <1>3, SubSeqProperties
<1>5. /\ B \in Seq(S) /\ Len(B) = n - p + 1
      /\ \A i \in 1..(n - p + 1) : B[i] = s[p + i - 1]
  BY <1>1, <1>3, SubSeqProperties
<1> HIDE DEF A, B
<1>6. <<x>> \in Seq(S) /\ Len(<<x>>) = 1 /\ <<x>>[1] = x
  OBVIOUS
<1>7. /\ AX \in Seq(S) /\ Len(AX) = p
      /\ \A i \in 1..p : AX[i] = IF i <= p - 1 THEN s[i] ELSE x
  BY <1>3, <1>4, <1>6, ConcatProperties
<1> HIDE DEF AX
<1>8. /\ AX \o B \in Seq(S) /\ Len(AX \o B) = n + 1
      /\ \A i \in 1..(n + 1) : (AX \o B)[i] = IF i <= p THEN AX[i] ELSE B[i - p]
  <2>1. Len(AX) + Len(B) = n + 1
    BY <1>1, <1>3, <1>5, <1>7
  <2>2. /\ AX \o B \in Seq(S) /\ Len(AX \o B) = Len(AX) + Len(B)
        /\ \A i \in 1..(Len(AX) + Len(B)) :
             (AX \o B)[i] = IF i <= Len(AX) THEN AX[i] ELSE B[i - Len(AX)]
    BY <1>5, <1>7, ConcatProperties
  <2> QED
    BY <1>7, <2>1, <2>2
<1>9. ASSUME NEW i \in 1..(n + 1), i > p PROVE B[i - p] = s[i - 1]
  <2>1. i - p \in 1..(n - p + 1) /\ p + (i - p) - 1 = i - 1
    BY <1>1, <1>3, <1>9
  <2> QED
    BY <1>5, <2>1
<1> DEFINE h == AX \o B
<1>10. \A i \in 1..(n + 1) : h[i] = IF i <= p THEN AX[i] ELSE B[i - p]
  BY <1>8
<1> HIDE DEF h
<1>11. ASSUME NEW i \in 1..(n + 1)
       PROVE  h[i] = IF i < p THEN s[i] ELSE IF i = p THEN x ELSE s[i - 1]
  <2>1. CASE i > p
    BY <1>1, <1>3, <1>9, <1>10, <2>1
  <2>2. CASE i <= p
    <3>1. i \in 1..p /\ (i <= p - 1 <=> i < p)
      BY <1>1, <1>3, <2>2
    <3> QED
      BY <1>3, <1>7, <1>10, <2>2, <3>1
  <2> QED
    BY <1>1, <1>3, <2>1, <2>2
<1> QED
  BY <1>2, <1>8, <1>11 DEF n, h, WithInserted

LEMMA RemoveAtShape ==
    ASSUME NEW S, NEW s \in Seq(S), NEW p \in 1..Len(s)
    PROVE  /\ RemoveAt(s, p) \in Seq(S)
           /\ Len(RemoveAt(s, p)) = Len(s) - 1
           /\ \A i \in 1..(Len(s) - 1) :
                RemoveAt(s, p)[i] = IF i < p THEN s[i] ELSE s[i + 1]
<1> DEFINE n == Len(s)
           A == SubSeq(s, 1, p - 1)
           B == SubSeq(s, p + 1, n)
<1>1. n \in Nat /\ \A i \in 1..n : s[i] \in S
  OBVIOUS
<1>2. RemoveAt(s, p) = A \o B
  BY DEF RemoveAt
<1>3. p \in 1..n
  OBVIOUS
<1> HIDE DEF n
<1>4. /\ A \in Seq(S) /\ Len(A) = p - 1
      /\ \A i \in 1..(p - 1) : A[i] = s[i]
  BY <1>1, <1>3, SubSeqProperties
<1>5. /\ B \in Seq(S) /\ Len(B) = n - p
      /\ \A i \in 1..(n - p) : B[i] = s[p + i]
  <2>1. /\ B \in Seq(S) /\ Len(B) = IF p + 1 <= n THEN n - (p + 1) + 1 ELSE 0
        /\ \A i \in 1..(n - (p + 1) + 1) : B[i] = s[(p + 1) + i - 1]
    <3>1. p + 1 \in Int /\ n \in Int /\ \A i \in (p + 1)..n : s[i] \in S
      BY <1>1, <1>3
    <3> QED
      BY <3>1, SubSeqProperties
  <2>2. n - (p + 1) + 1 = n - p
    BY <1>1, <1>3
  <2>3. \A i \in 1..(n - p) : (p + 1) + i - 1 = p + i
    BY <1>1, <1>3
  <2> QED
    BY <1>1, <1>3, <2>1, <2>2, <2>3
<1> HIDE DEF A, B
<1>6. /\ A \o B \in Seq(S) /\ Len(A \o B) = n - 1
      /\ \A i \in 1..(n - 1) : (A \o B)[i] = IF i <= p - 1 THEN A[i] ELSE B[i - (p - 1)]
  <2>1. Len(A) + Len(B) = n - 1
    BY <1>1, <1>3, <1>4, <1>5
  <2>2. /\ A \o B \in Seq(S) /\ Len(A \o B) = Len(A) + Len(B)
        /\ \A i \in 1..(Len(A) + Len(B)) :
             (A \o B)[i] = IF i <= Len(A) THEN A[i] ELSE B[i - Len(A)]
    BY <1>4, <1>5, ConcatProperties
  <2> QED
    BY <1>4, <2>1, <2>2
<1>7. ASSUME NEW i \in 1..(n - 1), i >= p PROVE B[i - (p - 1)] = s[i + 1]
  <2>1. i - (p - 1) \in 1..(n - p) /\ p + (i - (p - 1)) = i + 1
    BY <1>1, <1>3, <1>7
  <2> QED
    BY <1>5, <2>1
<1>8. \A i \in 1..(n - 1) : (A \o B)[i] = IF i < p THEN s[i] ELSE s[i + 1]
  BY <1>1, <1>3, <1>4, <1>6, <1>7
<1> QED
  BY <1>2, <1>6, <1>8 DEF n

LEMMA InsertedShape ==
    ASSUME NEW T, NEW f \in Seq(FieldsOf(T)), NEW x \in FieldsOf(T), NEW pos, Placed(f, pos)
    PROVE  LET g == Inserted(f, x, pos) IN
           /\ g \in Seq(FieldsOf(T))
           /\ Len(g) = Len(f) + 1
           /\ \A i \in 1..(Len(f) + 1) :
                g[i] = IF i < Place(f, pos) THEN f[i]
                       ELSE IF i = Place(f, pos) THEN x ELSE f[i - 1]
<1>1. Inserted(f, x, pos) = InsertAt(f, Place(f, pos), x)
  BY DEF Inserted, Place
<1>2. Place(f, pos) \in 1..(Len(f) + 1)
  BY PlaceIsInRange
<1>3. WithInserted(Inserted(f, x, pos), FieldsOf(T), f, Place(f, pos), x)
  BY <1>1, <1>2, InsertAtShape
<1> QED
  BY <1>3 DEF WithInserted

LEMMA RemovedShape ==
    ASSUME NEW T, NEW f \in Seq(FieldsOf(T)), NEW c, Has(f, c)
    PROVE  LET g == Removed(f, c) IN
           /\ g \in Seq(FieldsOf(T))
           /\ Len(g) = Len(f) - 1
           /\ \A i \in 1..(Len(f) - 1) :
                g[i] = IF i < Index(f, c) THEN f[i] ELSE f[i + 1]
<1>1. Removed(f, c) = RemoveAt(f, Index(f, c))
  <2>1. \E i \in 1..Len(f) : f[i].name = c
    BY IndexMeaning
  <2> QED
    BY <2>1 DEF Removed, RemoveFirstMatch, Index
<1>2. Index(f, c) \in 1..Len(f)
  BY IndexMeaning
<1> QED
  BY <1>1, <1>2, RemoveAtShape

LEMMA UpdatedShape ==
    ASSUME NEW T, NEW f \in Seq(FieldsOf(T)), NEW x \in FieldsOf(T)
    PROVE  LET g == Updated(f, x) IN
           /\ g \in Seq(FieldsOf(T))
           /\ Len(g) = Len(f)
           /\ \A i \in 1..Len(f) : g[i] = IF i = Index(f, x.name) THEN x ELSE f[i]
<1>1. Updated(f, x) = [f EXCEPT ![Index(f, x.name)] = x]
  BY DEF Updated
<1>2. CASE Has(f, x.name)
  BY <1>1, <1>2, IndexMeaning, ExceptSeq
<1>3. CASE ~Has(f, x.name)
  <2>1. Index(f, x.name) = 0
    BY <1>3 DEF Has
  <2>2. Updated(f, x) = f
    BY <1>1, <2>1
  <2> QED
    BY <2>1, <2>2
<1> QED
  BY <1>2, <1>3

LEMMA RenamedShape ==
    ASSUME NEW T, NEW f \in Seq(FieldsOf(T)), NEW c, NEW d \in ColumnNames
    PROVE  LET g == Renamed(f, c, d) IN
           /\ g \in Seq(FieldsOf(T))
           /\ Len(g) = Len(f)
           /\ \A i \in 1..Len(f) : g[i] = IF i = Index(f, c) THEN Field(d, f[i].type) ELSE f[i]
<1> DEFINE n == Index(f, c)
<1>1. Renamed(f, c, d) = [f EXCEPT ![n] = [f[n] EXCEPT !.name = d]]
  BY DEF Renamed
<1>2. CASE Has(f, c)
  <2>1. n \in 1..Len(f)
    BY <1>2, IndexMeaning
  <2>2. f[n] \in FieldsOf(T)
    BY <2>1, ElementOfSeq
  <2>3. [f[n] EXCEPT !.name = d] = Field(d, f[n].type) /\ Field(d, f[n].type) \in FieldsOf(T)
    BY <2>2 DEF FieldsOf, Field
  <2> HIDE DEF n
  <2>4. Renamed(f, c, d) = [f EXCEPT ![n] = Field(d, f[n].type)]
    BY <1>1, <2>3
  <2>5. \A i \in 1..Len(f) : (IF i = n THEN Field(d, f[n].type) ELSE f[i])
                           = IF i = n THEN Field(d, f[i].type) ELSE f[i]
    OBVIOUS
  <2> QED
    BY <2>1, <2>3, <2>4, <2>5, ExceptSeq DEF n
<1>3. CASE ~Has(f, c)
  <2>1. n = 0
    BY <1>3 DEF Has
  <2>2. Renamed(f, c, d) = f
    BY <1>1, <2>1
  <2> QED
    BY <2>1, <2>2
<1> QED
  BY <1>2, <1>3

LEMMA NamesEqual ==
    ASSUME NEW T, NEW f \in Seq(FieldsOf(T)), NEW U, NEW g \in Seq(FieldsOf(U))
    PROVE  Names(f) = Names(g) <=>
             Len(f) = Len(g) /\ \A i \in 1..Len(f) : f[i].name = g[i].name
<1>1. DOMAIN f = 1..Len(f) /\ DOMAIN g = 1..Len(g)
  OBVIOUS
<1>2. ASSUME Names(f) = Names(g)
      PROVE  Len(f) = Len(g) /\ \A i \in 1..Len(f) : f[i].name = g[i].name
  <2>1. Len(f) = Len(g)
    BY <1>2, IndexByNames
  <2>2. ASSUME NEW i \in 1..Len(f) PROVE Names(f)[i] = f[i].name /\ Names(g)[i] = g[i].name
    BY <1>1, <2>1 DEF Names
  <2> QED
    BY <1>2, <2>1, <2>2
<1>3. ASSUME Len(f) = Len(g), \A i \in 1..Len(f) : f[i].name = g[i].name
      PROVE  Names(f) = Names(g)
  BY <1>1, <1>3 DEF Names
<1> QED
  BY <1>2, <1>3

LEMMA NamesOfInserted ==
    ASSUME NEW T, NEW f \in Seq(FieldsOf(T)), NEW x \in FieldsOf(T),
           NEW U, NEW g \in Seq(FieldsOf(U)), NEW y \in FieldsOf(U),
           Names(f) = Names(g), x.name = y.name, NEW pos, Placed(f, pos)
    PROVE  Names(Inserted(f, x, pos)) = Names(Inserted(g, y, pos))
<1> DEFINE ff == Inserted(f, x, pos)
           gg == Inserted(g, y, pos)
           n == Len(f)
           p == Place(f, pos)
<1>1. n = Len(g) /\ n \in Nat /\ \A i \in 1..n : f[i].name = g[i].name
  BY NamesEqual
<1>2. Placed(g, pos) /\ Place(g, pos) = p /\ p \in 1..(n + 1)
  BY IndexByNames, PlaceIsInRange DEF Placed, Place
<1>3. /\ ff \in Seq(FieldsOf(T)) /\ Len(ff) = n + 1
      /\ \A i \in 1..(n + 1) : ff[i] = IF i < p THEN f[i] ELSE IF i = p THEN x ELSE f[i - 1]
  BY InsertedShape
<1>4. /\ gg \in Seq(FieldsOf(U)) /\ Len(gg) = n + 1
      /\ \A i \in 1..(n + 1) : gg[i] = IF i < p THEN g[i] ELSE IF i = p THEN y ELSE g[i - 1]
  BY <1>1, <1>2, InsertedShape
<1> HIDE DEF ff, gg, n, p
<1>5. ASSUME NEW i \in 1..(n + 1) PROVE ff[i].name = gg[i].name
  <2>1. (i < p => i \in 1..n) /\ (i > p => i - 1 \in 1..n) /\ (i < p \/ i = p \/ i > p)
    BY <1>1, <1>2
  <2>2. CASE i < p
    BY <1>1, <1>3, <1>4, <2>1, <2>2
  <2>3. CASE i = p
    BY <1>3, <1>4, <2>3
  <2>4. CASE i > p
    <3>1. ff[i] = f[i - 1] /\ gg[i] = g[i - 1]
      BY <1>1, <1>2, <1>3, <1>4, <2>4
    <3> QED
      BY <1>1, <2>1, <2>4, <3>1
  <2> QED
    BY <2>1, <2>2, <2>3, <2>4
<1>6. Names(ff) = Names(gg)
  BY <1>3, <1>4, <1>5, NamesEqual
<1> QED
  BY <1>6 DEF ff, gg

LEMMA NamesOfRemoved ==
    ASSUME NEW T, NEW f \in Seq(FieldsOf(T)), NEW U, NEW g \in Seq(FieldsOf(U)),
           Names(f) = Names(g), NEW c, Has(f, c)
    PROVE  Names(Removed(f, c)) = Names(Removed(g, c))
<1> DEFINE ff == Removed(f, c)
           gg == Removed(g, c)
           n == Len(f)
           p == Index(f, c)
<1>1. n = Len(g) /\ n \in Nat /\ \A i \in 1..n : f[i].name = g[i].name
  BY NamesEqual
<1>2. Has(g, c) /\ Index(g, c) = p /\ p \in 1..n
  BY IndexByNames, IndexMeaning
<1>3. /\ ff \in Seq(FieldsOf(T)) /\ Len(ff) = n - 1
      /\ \A i \in 1..(n - 1) : ff[i] = IF i < p THEN f[i] ELSE f[i + 1]
  BY RemovedShape
<1>4. /\ gg \in Seq(FieldsOf(U)) /\ Len(gg) = n - 1
      /\ \A i \in 1..(n - 1) : gg[i] = IF i < p THEN g[i] ELSE g[i + 1]
  BY <1>1, <1>2, RemovedShape
<1> HIDE DEF ff, gg, n, p
<1>5. ASSUME NEW i \in 1..(n - 1) PROVE ff[i].name = gg[i].name
  <2>1. i \in 1..n /\ i + 1 \in 1..n
    BY <1>1
  <2>2. f[i].name = g[i].name /\ f[i + 1].name = g[i + 1].name
    BY <1>1, <2>1
  <2> QED
    BY <1>3, <1>4, <2>2
<1>6. Names(ff) = Names(gg)
  BY <1>3, <1>4, <1>5, NamesEqual
<1> QED
  BY <1>6 DEF ff, gg

LEMMA NamesOfUpdated ==
    ASSUME NEW T, NEW f \in Seq(FieldsOf(T)), NEW x \in FieldsOf(T)
    PROVE  Names(Updated(f, x)) = Names(f)
<1> DEFINE g == Updated(f, x)
<1>1. /\ g \in Seq(FieldsOf(T)) /\ Len(g) = Len(f)
      /\ \A i \in 1..Len(f) : g[i] = IF i = Index(f, x.name) THEN x ELSE f[i]
  BY UpdatedShape
<1> HIDE DEF g
<1>2. ASSUME NEW i \in 1..Len(f) PROVE g[i].name = f[i].name
  <2>1. CASE i = Index(f, x.name)
    <3>1. Has(f, x.name) /\ f[i].name = x.name
      BY <2>1, IndexMeaning DEF Has
    <3> QED
      BY <1>1, <2>1, <3>1
  <2> QED
    BY <1>1, <2>1
<1>3. Names(g) = Names(f)
  BY <1>1, <1>2, NamesEqual
<1> QED
  BY <1>3 DEF g

LEMMA NamesOfRenamed ==
    ASSUME NEW T, NEW f \in Seq(FieldsOf(T)), NEW U, NEW g \in Seq(FieldsOf(U)),
           Names(f) = Names(g), NEW c, NEW d \in ColumnNames
    PROVE  Names(Renamed(f, c, d)) = Names(Renamed(g, c, d))
<1> DEFINE ff == Renamed(f, c, d)
           gg == Renamed(g, c, d)
           n == Len(f)
           p == Index(f, c)
<1>1. n = Len(g) /\ n \in Nat /\ \A i \in 1..n : f[i].name = g[i].name
  BY NamesEqual
<1>2. Index(g, c) = p
  BY IndexByNames
<1>3. /\ ff \in Seq(FieldsOf(T)) /\ Len(ff) = n
      /\ \A i \in 1..n : ff[i] = IF i = p THEN Field(d, f[i].type) ELSE f[i]
  BY RenamedShape
<1>4. /\ gg \in Seq(FieldsOf(U)) /\ Len(gg) = n
      /\ \A i \in 1..n : gg[i] = IF i = p THEN Field(d, g[i].type) ELSE g[i]
  BY <1>1, <1>2, RenamedShape
<1> HIDE DEF ff, gg, n, p
<1>5. ASSUME NEW i \in 1..n PROVE ff[i].name = gg[i].name
  <2>1. \A t : Field(d, t).name = d
    BY DEF Field
  <2>2. f[i].name = g[i].name
    BY <1>1
  <2>3. CASE i = p
    <3>1. ff[i] = Field(d, f[i].type) /\ gg[i] = Field(d, g[i].type)
      BY <1>3, <1>4, <2>3
    <3> QED
      BY <2>1, <3>1
  <2>4. CASE i # p
    BY <1>3, <1>4, <2>2, <2>4
  <2> QED
    BY <2>3, <2>4
<1>6. Names(ff) = Names(gg)
  BY <1>3, <1>4, <1>5, NamesEqual
<1> QED
  BY <1>6 DEF ff, gg

-----------------------------------------------------------------------------
(* The names stay distinct. *)

LEMMA UniqueInserted ==
    ASSUME NEW T, NEW f \in Seq(FieldsOf(T)), NEW x \in FieldsOf(T), NEW pos, Placed(f, pos),
           Unique(f), ~Has(f, x.name)
    PROVE  Unique(Inserted(f, x, pos))
<1> DEFINE g == Inserted(f, x, pos)
           n == Len(f)
           p == Place(f, pos)
<1>1. n \in Nat /\ p \in 1..(n + 1)
  BY PlaceIsInRange
<1>2. /\ DOMAIN g = 1..(n + 1)
      /\ \A i \in 1..(n + 1) : g[i] = IF i < p THEN f[i] ELSE IF i = p THEN x ELSE f[i - 1]
  BY InsertedShape
<1>3. /\ \A i \in 1..n : f[i].name # x.name
      /\ \A i, j \in 1..n : f[i].name = f[j].name => i = j
  BY IndexMeaning DEF Unique
<1> HIDE DEF g, n, p
<1> DEFINE of(i) == IF i < p THEN i ELSE i - 1
<1>4. ASSUME NEW i \in 1..(n + 1), i # p PROVE of(i) \in 1..n /\ g[i] = f[of(i)]
  BY <1>1, <1>2, <1>4
<1>5. ASSUME NEW i \in 1..(n + 1), NEW j \in 1..(n + 1), g[i].name = g[j].name PROVE i = j
  <2>1. CASE i = p \/ j = p
    BY <1>1, <1>2, <1>3, <1>4, <1>5, <2>1
  <2>2. CASE i # p /\ j # p
    <3>1. of(i) = of(j)
      BY <1>3, <1>4, <1>5, <2>2
    <3> QED
      BY <1>1, <2>2, <3>1
  <2> QED
    BY <2>1, <2>2
<1> QED
  BY <1>2, <1>5 DEF Unique, g

LEMMA UniqueRemoved ==
    ASSUME NEW T, NEW f \in Seq(FieldsOf(T)), Unique(f), NEW c, Has(f, c)
    PROVE  Unique(Removed(f, c))
<1> DEFINE g == Removed(f, c)
           n == Len(f)
           p == Index(f, c)
<1>1. n \in Nat /\ p \in 1..n
  BY IndexMeaning
<1>2. /\ DOMAIN g = 1..(n - 1)
      /\ \A i \in 1..(n - 1) : g[i] = IF i < p THEN f[i] ELSE f[i + 1]
  BY RemovedShape
<1>3. \A i, j \in 1..n : f[i].name = f[j].name => i = j
  BY DEF Unique
<1> HIDE DEF g, n, p
<1> DEFINE of(i) == IF i < p THEN i ELSE i + 1
<1>4. ASSUME NEW i \in 1..(n - 1) PROVE of(i) \in 1..n /\ g[i] = f[of(i)]
  BY <1>1, <1>2
<1>5. ASSUME NEW i \in 1..(n - 1), NEW j \in 1..(n - 1), g[i].name = g[j].name PROVE i = j
  <2>1. of(i) = of(j)
    BY <1>3, <1>4, <1>5
  <2> QED
    BY <1>1, <2>1
<1> QED
  BY <1>2, <1>5 DEF Unique, g

LEMMA UniqueUpdated ==
    ASSUME NEW T, NEW f \in Seq(FieldsOf(T)), NEW x \in FieldsOf(T), Unique(f)
    PROVE  Unique(Updated(f, x))
<1>1. Names(Updated(f, x)) = Names(f) /\ Updated(f, x) \in Seq(FieldsOf(T))
  BY NamesOfUpdated, UpdatedShape
<1>2. Len(Updated(f, x)) = Len(f) /\ \A i \in 1..Len(f) : Updated(f, x)[i].name = f[i].name
  BY <1>1, NamesEqual
<1> QED
  BY <1>1, <1>2 DEF Unique

LEMMA UniqueRenamed ==
    ASSUME NEW T, NEW f \in Seq(FieldsOf(T)), NEW c, NEW d \in ColumnNames, Unique(f), ~Has(f, d)
    PROVE  Unique(Renamed(f, c, d))
<1> DEFINE g == Renamed(f, c, d)
<1>1. /\ DOMAIN g = 1..Len(f) /\ DOMAIN f = 1..Len(f)
      /\ \A i \in 1..Len(f) : g[i] = IF i = Index(f, c) THEN Field(d, f[i].type) ELSE f[i]
  BY RenamedShape
<1>2. \A i \in 1..Len(f) : f[i].name # d
  BY IndexMeaning
<1> QED
  BY <1>1, <1>2 DEF Unique, Field

-----------------------------------------------------------------------------
(* convert_table_structure maps the columns one by one. *)

KnownTypes == DOMAIN ConvertFieldType
ConvertedField(x) == Field(x.name, ConvertFieldType[x.type])
Converted(fields) == [i \in DOMAIN fields |-> ConvertedField(fields[i])]

LEMMA ConvertedFieldType ==
    ASSUME NEW x \in FieldsOf(KnownTypes)
    PROVE  ConvertedField(x) \in FieldsOf(STRING) /\ ConvertedField(x).name = x.name
  BY SchemaAssumption DEF FieldsOf, KnownTypes, ConvertedField, Field

LEMMA ConvertedShape ==
    ASSUME NEW f \in Seq(FieldsOf(KnownTypes))
    PROVE  /\ Converted(f) \in Seq(FieldsOf(STRING))
           /\ Len(Converted(f)) = Len(f)
           /\ \A i \in 1..Len(f) : Converted(f)[i] = ConvertedField(f[i])
           /\ Names(Converted(f)) = Names(f)
<1>1. \A i \in 1..Len(f) : /\ ConvertedField(f[i]) \in FieldsOf(STRING)
                           /\ ConvertedField(f[i]).name = f[i].name
  BY ConvertedFieldType, ElementOfSeq
<1>2. Converted(f) = [i \in 1..Len(f) |-> ConvertedField(f[i])]
  BY DEF Converted
<1> HIDE DEF FieldsOf
<1>3. /\ Converted(f) \in Seq(FieldsOf(STRING)) /\ Len(Converted(f)) = Len(f)
      /\ \A i \in 1..Len(f) : Converted(f)[i] = ConvertedField(f[i])
  <2>1. Len(f) \in Nat
    OBVIOUS
  <2>2. Converted(f) \in Seq(FieldsOf(STRING))
    BY <1>1, <1>2, <2>1, IsASeq
  <2>3. Len(Converted(f)) = Len(f)
    BY <1>2, <2>1, <2>2
  <2> QED
    BY <1>2, <2>2, <2>3
<1>4. Names(Converted(f)) = Names(f)
  BY <1>1, <1>3, NamesEqual
<1> QED
  BY <1>3, <1>4

LEMMA ConvertedInserted ==
    ASSUME NEW f \in Seq(FieldsOf(KnownTypes)), NEW x \in FieldsOf(KnownTypes), NEW pos,
           Placed(f, pos)
    PROVE  Converted(Inserted(f, x, pos)) = Inserted(Converted(f), ConvertedField(x), pos)
<1> DEFINE g == Converted(f)
           y == ConvertedField(x)
           ff == Inserted(f, x, pos)
           gg == Inserted(g, y, pos)
           n == Len(f)
           p == Place(f, pos)
<1>1. /\ g \in Seq(FieldsOf(STRING)) /\ n = Len(g) /\ n \in Nat
      /\ \A i \in 1..n : g[i] = ConvertedField(f[i])
      /\ Names(g) = Names(f)
  BY ConvertedShape
<1>2. Placed(g, pos) /\ Place(g, pos) = p /\ p \in 1..(n + 1)
  BY <1>1, IndexByNames, PlaceIsInRange DEF Placed, Place
<1>3. /\ ff \in Seq(FieldsOf(KnownTypes)) /\ Len(ff) = n + 1
      /\ \A i \in 1..(n + 1) : ff[i] = IF i < p THEN f[i] ELSE IF i = p THEN x ELSE f[i - 1]
  BY InsertedShape
<1>4. y \in FieldsOf(STRING)
  BY ConvertedFieldType
<1>5. /\ gg \in Seq(FieldsOf(STRING)) /\ Len(gg) = n + 1
      /\ \A i \in 1..(n + 1) : gg[i] = IF i < p THEN g[i] ELSE IF i = p THEN y ELSE g[i - 1]
  BY <1>1, <1>2, <1>4, InsertedShape
<1>6. /\ Converted(ff) \in Seq(FieldsOf(STRING)) /\ Len(Converted(ff)) = n + 1
      /\ \A i \in 1..(n + 1) : Converted(ff)[i] = ConvertedField(ff[i])
  BY <1>3, ConvertedShape
<1> HIDE DEF ff, gg, g, n, p, y
<1>7. ASSUME NEW i \in 1..(n + 1) PROVE Converted(ff)[i] = gg[i]
  <2>1. (i < p => i \in 1..n) /\ (i > p => i - 1 \in 1..n) /\ (i < p \/ i = p \/ i > p)
    BY <1>1, <1>2
  <2>2. CASE i < p
    BY <1>1, <1>3, <1>5, <1>6, <2>1, <2>2
  <2>3. CASE i = p
    BY <1>3, <1>5, <1>6, <2>3 DEF y
  <2>4. CASE i > p
    <3>1. ff[i] = f[i - 1] /\ gg[i] = g[i - 1]
      BY <1>1, <1>2, <1>3, <1>5, <2>4
    <3> QED
      BY <1>1, <1>6, <2>1, <2>4, <3>1
  <2> QED
    BY <2>1, <2>2, <2>3, <2>4
<1>8. Converted(ff) = gg
  BY <1>5, <1>6, <1>7, SeqEqual
<1> QED
  BY <1>8 DEF ff, gg, g, y

LEMMA ConvertedRemoved ==
    ASSUME NEW f \in Seq(FieldsOf(KnownTypes)), NEW c, Has(f, c)
    PROVE  Converted(Removed(f, c)) = Removed(Converted(f), c)
<1> DEFINE g == Converted(f)
           ff == Removed(f, c)
           gg == Removed(g, c)
           n == Len(f)
           p == Index(f, c)
<1>1. /\ g \in Seq(FieldsOf(STRING)) /\ n = Len(g) /\ n \in Nat
      /\ \A i \in 1..n : g[i] = ConvertedField(f[i])
      /\ Names(g) = Names(f)
  BY ConvertedShape
<1>2. Has(g, c) /\ Index(g, c) = p /\ p \in 1..n
  BY <1>1, IndexByNames, IndexMeaning
<1>3. /\ ff \in Seq(FieldsOf(KnownTypes)) /\ Len(ff) = n - 1
      /\ \A i \in 1..(n - 1) : ff[i] = IF i < p THEN f[i] ELSE f[i + 1]
  BY RemovedShape
<1>4. /\ gg \in Seq(FieldsOf(STRING)) /\ Len(gg) = n - 1
      /\ \A i \in 1..(n - 1) : gg[i] = IF i < p THEN g[i] ELSE g[i + 1]
  BY <1>1, <1>2, RemovedShape
<1>5. /\ Converted(ff) \in Seq(FieldsOf(STRING)) /\ Len(Converted(ff)) = n - 1
      /\ \A i \in 1..(n - 1) : Converted(ff)[i] = ConvertedField(ff[i])
  BY <1>3, ConvertedShape
<1> HIDE DEF ff, gg, g, n, p
<1>6. ASSUME NEW i \in 1..(n - 1) PROVE Converted(ff)[i] = gg[i]
  BY <1>1, <1>2, <1>3, <1>4, <1>5
<1>7. Converted(ff) = gg
  BY <1>4, <1>5, <1>6, SeqEqual
<1> QED
  BY <1>7 DEF ff, gg, g

LEMMA ConvertedUpdated ==
    ASSUME NEW f \in Seq(FieldsOf(KnownTypes)), NEW x \in FieldsOf(KnownTypes)
    PROVE  Converted(Updated(f, x)) = Updated(Converted(f), ConvertedField(x))
<1> DEFINE g == Converted(f)
           y == ConvertedField(x)
           ff == Updated(f, x)
           gg == Updated(g, y)
           n == Len(f)
           p == Index(f, x.name)
<1>1. /\ g \in Seq(FieldsOf(STRING)) /\ n = Len(g) /\ n \in Nat
      /\ \A i \in 1..n : g[i] = ConvertedField(f[i])
      /\ Names(g) = Names(f)
  BY ConvertedShape
<1>2. y \in FieldsOf(STRING) /\ y.name = x.name
  BY ConvertedFieldType
<1> HIDE DEF y, g
<1>3. Index(g, y.name) = p
  BY <1>1, <1>2, IndexByNames
<1>4. /\ ff \in Seq(FieldsOf(KnownTypes)) /\ Len(ff) = n
      /\ \A i \in 1..n : ff[i] = IF i = p THEN x ELSE f[i]
  BY UpdatedShape, ZenonT(30)
<1>5. /\ gg \in Seq(FieldsOf(STRING)) /\ Len(gg) = n
      /\ \A i \in 1..n : gg[i] = IF i = p THEN y ELSE g[i]
  <2>1. g \in Seq(FieldsOf(STRING)) /\ y \in FieldsOf(STRING)
    BY <1>1, <1>2
  <2>2. /\ gg \in Seq(FieldsOf(STRING)) /\ Len(gg) = Len(g)
        /\ \A i \in 1..Len(g) : gg[i] = IF i = Index(g, y.name) THEN y ELSE g[i]
    BY <2>1, UpdatedShape, ZenonT(30)
  <2> QED
    BY <1>1, <1>3, <2>2
<1>6. /\ Converted(ff) \in Seq(FieldsOf(STRING)) /\ Len(Converted(ff)) = n
      /\ \A i \in 1..n : Converted(ff)[i] = ConvertedField(ff[i])
  BY <1>4, ConvertedShape
<1> HIDE DEF ff, gg, g, n, p
<1>7. ASSUME NEW i \in 1..n PROVE Converted(ff)[i] = gg[i]
  BY <1>1, <1>4, <1>5, <1>6 DEF y
<1>8. Converted(ff) = gg
  BY <1>5, <1>6, <1>7, SeqEqual
<1> QED
  BY <1>8 DEF ff, gg, g, y

LEMMA ConvertedRenamed ==
    ASSUME NEW f \in Seq(FieldsOf(KnownTypes)), NEW c, NEW d \in ColumnNames
    PROVE  Converted(Renamed(f, c, d)) = Renamed(Converted(f), c, d)
<1> DEFINE g == Converted(f)
           ff == Renamed(f, c, d)
           gg == Renamed(g, c, d)
           n == Len(f)
           p == Index(f, c)
<1>1. /\ g \in Seq(FieldsOf(STRING)) /\ n = Len(g) /\ n \in Nat
      /\ \A i \in 1..n : g[i] = ConvertedField(f[i])
      /\ Names(g) = Names(f)
  BY ConvertedShape
<1>2. Index(g, c) = p
  BY <1>1, IndexByNames
<1>3. /\ ff \in Seq(FieldsOf(KnownTypes)) /\ Len(ff) = n
      /\ \A i \in 1..n : ff[i] = IF i = p THEN Field(d, f[i].type) ELSE f[i]
  BY RenamedShape
<1>4. /\ gg \in Seq(FieldsOf(STRING)) /\ Len(gg) = n
      /\ \A i \in 1..n : gg[i] = IF i = p THEN Field(d, g[i].type) ELSE g[i]
  BY <1>1, <1>2, RenamedShape
<1>5. /\ Converted(ff) \in Seq(FieldsOf(STRING)) /\ Len(Converted(ff)) = n
      /\ \A i \in 1..n : Converted(ff)[i] = ConvertedField(ff[i])
  BY <1>3, ConvertedShape
<1> HIDE DEF ff, gg, g, n, p
<1>6. ASSUME NEW i \in 1..n PROVE Converted(ff)[i] = gg[i]
  <2>1. Converted(ff)[i] = ConvertedField(ff[i]) /\ g[i] = ConvertedField(f[i])
    BY <1>1, <1>5
  <2>2. CASE i = p
    <3>1. ff[i] = Field(d, f[i].type) /\ gg[i] = Field(d, g[i].type)
      BY <1>3, <1>4, <2>2
    <3>2. g[i].type = ConvertFieldType[f[i].type]
      BY <2>1 DEF ConvertedField, Field
    <3>3. ConvertedField(Field(d, f[i].type)) = Field(d, ConvertFieldType[f[i].type])
      BY DEF ConvertedField, Field
    <3> QED
      BY <2>1, <3>1, <3>2, <3>3
  <2>3. CASE i # p
    BY <1>3, <1>4, <2>1, <2>3
  <2> QED
    BY <2>2, <2>3
<1>7. Converted(ff) = gg
  BY <1>4, <1>5, <1>6, SeqEqual
<1> QED
  BY <1>7 DEF ff, gg, g

-----------------------------------------------------------------------------
(* The recursive definitions have the values their equations give. *)

LEMMA PlanStructuresMeaning ==
    ASSUME NEW ops, Len(ops) \in Nat, NEW m, NEW c
    PROVE  LET copy == PlanStructures(ops, m, c) IN
           /\ copy[0] = [m |-> m, c |-> c]
           /\ \A i \in 1..Len(ops) : copy[i] = AfterClause(ops[i], copy[i - 1])
<1> DEFINE n == Len(ops)
           R(f, k) == f = [i \in 0..k |-> IF i = 0 THEN [m |-> m, c |-> c]
                                          ELSE AfterClause(ops[i], f[i - 1])]
           S == {k \in 0..n : ~\E f : R(f, k)}
<1>1. SUFFICES ASSUME S # {} PROVE FALSE
  <2>1. \E f : R(f, n)
    BY <1>1
  <2> DEFINE copy == PlanStructures(ops, m, c)
  <2>2. copy = CHOOSE f : R(f, n)
    BY DEF PlanStructures
  <2> HIDE DEF R, copy
  <2>3. R(copy, n)
    BY <2>1, <2>2
  <2> QED
    BY <2>3 DEF R, copy
<1>2. S \in SUBSET Nat
  OBVIOUS
<1> DEFINE k == Min(S)
<1>3. k \in S /\ \A j \in S : k <= j
  BY <1>1, <1>2, LeastOf
<1> HIDE DEF k
<1>4. k \in 0..n /\ n \in Nat /\ ~\E f : R(f, k)
  BY <1>3
<1>5. CASE k = 0
  <2> DEFINE f == [i \in 0..k |-> [m |-> m, c |-> c]]
  <2>1. R(f, k)
    BY <1>5
  <2> QED
    BY <1>4, <2>1
<1>6. CASE k > 0
  <2>1. k - 1 \in 0..n /\ ~(k <= k - 1)
    BY <1>4, <1>6
  <2>2. k - 1 \notin S
    BY <1>3, <2>1
  <2>3. PICK f : R(f, k - 1)
    BY <2>1, <2>2
  <2>6. \A i \in 0..(k - 1) : f[i] = IF i = 0 THEN [m |-> m, c |-> c]
                                    ELSE AfterClause(ops[i], f[i - 1])
    <3> DEFINE h == [i \in 0..(k - 1) |-> IF i = 0 THEN [m |-> m, c |-> c]
                                         ELSE AfterClause(ops[i], f[i - 1])]
    <3>1. f = h
      BY <2>3
    <3>2. \A i \in 0..(k - 1) : h[i] = IF i = 0 THEN [m |-> m, c |-> c]
                                      ELSE AfterClause(ops[i], f[i - 1])
      OBVIOUS
    <3> HIDE DEF h
    <3> QED
      BY <3>1, <3>2
  <2> DEFINE g == [i \in 0..k |-> IF i < k THEN f[i] ELSE AfterClause(ops[k], f[k - 1])]
  <2>4. ASSUME NEW i \in 0..k
        PROVE  g[i] = IF i = 0 THEN [m |-> m, c |-> c] ELSE AfterClause(ops[i], g[i - 1])
    <3>1. CASE i = 0
      BY <1>4, <1>6, <2>6, <3>1
    <3>2. CASE i > 0 /\ i < k
      <4>1. i \in 0..(k - 1) /\ i - 1 \in 0..k /\ i - 1 < k
        BY <1>4, <3>2
      <4>2. f[i] = AfterClause(ops[i], f[i - 1])
        BY <2>6, <3>2, <4>1
      <4>3. g[i] = f[i] /\ g[i - 1] = f[i - 1]
        BY <3>2, <4>1
      <4> QED
        BY <3>2, <4>2, <4>3
    <3>3. CASE i = k
      <4>1. k - 1 \in 0..k /\ k - 1 < k
        BY <1>4, <1>6
      <4>2. g[k - 1] = f[k - 1] /\ g[k] = AfterClause(ops[k], f[k - 1])
        BY <1>4, <4>1
      <4> QED
        BY <1>6, <3>3, <4>2
    <3> QED
      BY <1>4, <3>1, <3>2, <3>3
  <2>5. R(g, k)
    <3>1. g = [i \in 0..k |-> g[i]]
      OBVIOUS
    <3> HIDE DEF g
    <3>2. [i \in 0..k |-> g[i]] = [i \in 0..k |-> IF i = 0 THEN [m |-> m, c |-> c]
                                                 ELSE AfterClause(ops[i], g[i - 1])]
      BY <2>4
    <3> QED
      BY <3>1, <3>2
  <2> QED
    BY <1>4, <2>5
<1> QED
  BY <1>4, <1>5, <1>6

LEMMA ColumnChangesMeaning ==
    ASSUME NEW stmt, Len(stmt) \in Nat
    PROVE  \E ops : /\ ops[0] = <<>>
                    /\ \A i \in 1..Len(stmt) :
                         ops[i] = IF Category(stmt[i]) = "column_change"
                                  THEN Append(ops[i - 1], stmt[i]) ELSE ops[i - 1]
                    /\ ColumnChanges(stmt) = ops[Len(stmt)]
<1> DEFINE n == Len(stmt)
           E(i, o) == IF i = 0 THEN <<>>
                      ELSE IF Category(stmt[i]) = "column_change"
                           THEN Append(o, stmt[i]) ELSE o
           R(f, k) == f = [i \in 0..k |-> E(i, f[i - 1])]
           S == {k \in 0..n : ~\E f : R(f, k)}
<1>1. ASSUME NEW f, NEW k \in 0..n, R(f, k), NEW i \in 0..k
      PROVE  f[i] = E(i, f[i - 1])
  <2> DEFINE h == [j \in 0..k |-> E(j, f[j - 1])]
  <2>1. f = h
    BY <1>1
  <2> HIDE DEF E
  <2>2. h[i] = E(i, f[i - 1])
    OBVIOUS
  <2> HIDE DEF h
  <2> QED
    BY <2>1, <2>2
<1>2. SUFFICES ASSUME S # {} PROVE FALSE
  <2>1. n \in 0..n /\ \E f : R(f, n)
    BY <1>2
  <2> DEFINE ops == CHOOSE f : R(f, n)
  <2>2. ColumnChanges(stmt) = ops[n]
    BY DEF ColumnChanges
  <2> HIDE DEF R, ops
  <2>3. R(ops, n)
    BY <2>1 DEF ops
  <2>4. \A i \in 0..n : ops[i] = E(i, ops[i - 1])
    BY <1>1, <2>1, <2>3
  <2>5. ops[0] = <<>> /\ \A i \in 1..n : ops[i] = E(i, ops[i - 1]) /\ i # 0
    BY <2>4
  <2> QED
    BY <2>2, <2>5
<1>3. S \in SUBSET Nat
  OBVIOUS
<1> DEFINE k == Min(S)
<1>4. k \in S /\ \A j \in S : k <= j
  BY <1>2, <1>3, LeastOf
<1> HIDE DEF k
<1>5. k \in 0..n /\ n \in Nat /\ ~\E f : R(f, k)
  BY <1>4
<1>6. CASE k = 0
  <2> DEFINE f == [i \in 0..k |-> <<>>]
  <2>1. R(f, k)
    BY <1>6
  <2> QED
    BY <1>5, <2>1
<1>7. CASE k > 0
  <2>1. k - 1 \in 0..n /\ ~(k <= k - 1)
    BY <1>5, <1>7
  <2>2. k - 1 \notin S
    BY <1>4, <2>1
  <2>3. PICK f : R(f, k - 1)
    BY <2>1, <2>2
  <2>4. \A i \in 0..(k - 1) : f[i] = E(i, f[i - 1])
    BY <1>1, <2>1, <2>3
  <2> HIDE DEF R, E
  <2> DEFINE g == [i \in 0..k |-> IF i < k THEN f[i] ELSE E(k, f[k - 1])]
  <2>5. ASSUME NEW i \in 0..k PROVE g[i] = E(i, g[i - 1])
    <3>1. CASE i = 0
      <4>1. 0 \in 0..(k - 1) /\ g[0] = f[0]
        BY <1>5, <1>7
      <4>2. E(0, f[0 - 1]) = <<>> /\ E(0, g[0 - 1]) = <<>>
        BY DEF E
      <4> QED
        BY <2>4, <3>1, <4>1, <4>2
    <3>2. CASE i > 0 /\ i < k
      <4>1. i \in 0..(k - 1) /\ i - 1 \in 0..k /\ i - 1 < k
        BY <1>5, <3>2
      <4>2. g[i] = f[i] /\ g[i - 1] = f[i - 1]
        BY <3>2, <4>1
      <4> QED
        BY <2>4, <4>1, <4>2
    <3>3. CASE i = k
      <4>1. k - 1 \in 0..k /\ k - 1 < k
        BY <1>5, <1>7
      <4>2. g[k - 1] = f[k - 1] /\ g[k] = E(k, f[k - 1])
        BY <1>5, <4>1
      <4> QED
        BY <3>3, <4>2
    <3> QED
      BY <1>5, <3>1, <3>2, <3>3
  <2>6. g = [i \in 0..k |-> g[i]]
    OBVIOUS
  <2> HIDE DEF g
  <2>7. [i \in 0..k |-> g[i]] = [i \in 0..k |-> E(i, g[i - 1])]
    BY <2>5
  <2>8. R(g, k)
    BY <2>6, <2>7 DEF R
  <2> QED
    BY <1>5, <2>8
<1> QED
  BY <1>5, <1>6, <1>7

LEMMA ColumnChangesAreColumnClauses ==
    ASSUME NEW stmt \in Seq(Clauses)
    PROVE  /\ ColumnChanges(stmt) \in Seq(Clauses)
           /\ \A i \in 1..Len(ColumnChanges(stmt)) :
                /\ Category(ColumnChanges(stmt)[i]) = "column_change"
                /\ \E j \in 1..Len(stmt) : ColumnChanges(stmt)[i] = stmt[j]
<1> DEFINE n == Len(stmt)
           Good(s) == /\ s \in Seq(Clauses)
                      /\ \A i \in 1..Len(s) : /\ Category(s[i]) = "column_change"
                                              /\ \E j \in 1..n : s[i] = stmt[j]
<1>1. n \in Nat /\ \A i \in 1..n : stmt[i] \in Clauses
  OBVIOUS
<1>2. PICK ops : /\ ops[0] = <<>>
                 /\ \A i \in 1..n : ops[i] = IF Category(stmt[i]) = "column_change"
                                             THEN Append(ops[i - 1], stmt[i]) ELSE ops[i - 1]
                 /\ ColumnChanges(stmt) = ops[n]
  BY <1>1, ColumnChangesMeaning
<1> DEFINE S == {i \in 0..n : ~Good(ops[i])}
<1>3. SUFFICES ASSUME S # {} PROVE FALSE
  BY <1>1, <1>2
<1>4. S \in SUBSET Nat
  OBVIOUS
<1> DEFINE k == Min(S)
<1>5. k \in S /\ \A j \in S : k <= j
  BY <1>3, <1>4, LeastOf
<1> HIDE DEF k, Good
<1>6. k \in 0..n /\ ~Good(ops[k])
  BY <1>5
<1>7. k # 0
  <2>1. Good(<<>>)
    BY DEF Good
  <2> QED
    BY <1>2, <1>6, <2>1
<1>8. k \in 1..n /\ k - 1 \in 0..n /\ ~(k <= k - 1)
  BY <1>1, <1>6, <1>7
<1>9. Good(ops[k - 1])
  BY <1>5, <1>8
<1>10. CASE Category(stmt[k]) = "column_change"
  <2> DEFINE s == ops[k - 1]
             t == Append(s, stmt[k])
  <2>1. ops[k] = t
    BY <1>2, <1>8, <1>10
  <2>2. s \in Seq(Clauses) /\ stmt[k] \in Clauses
    BY <1>1, <1>8, <1>9 DEF Good
  <2> HIDE DEF s
  <2>3. /\ t \in Seq(Clauses) /\ Len(t) = Len(s) + 1
        /\ \A i \in 1..Len(s) : t[i] = s[i]
        /\ t[Len(s) + 1] = stmt[k]
    BY <2>2, AppendProperties
  <2> HIDE DEF t
  <2>4. ASSUME NEW i \in 1..Len(t)
        PROVE  Category(t[i]) = "column_change" /\ \E j \in 1..n : t[i] = stmt[j]
    <3>1. CASE i = Len(s) + 1
      BY <1>8, <1>10, <2>3, <3>1
    <3>2. CASE i # Len(s) + 1
      <4>1. i \in 1..Len(s)
        BY <2>2, <2>3, <3>2
      <4> QED
        BY <1>9, <2>3, <4>1 DEF Good, s
    <3> QED
      BY <3>1, <3>2
  <2> QED
    BY <1>6, <2>1, <2>3, <2>4 DEF Good
<1>11. CASE Category(stmt[k]) # "column_change"
  BY <1>2, <1>6, <1>8, <1>9, <1>11
<1> QED
  BY <1>10, <1>11

-----------------------------------------------------------------------------
(* The pair of structures. *)

StructureOf(T) == [fields : Seq(FieldsOf(T)), keys : Seq(Columns), ids : Seq(Nat)]
Ids(fields) == [i \in DOMAIN PrimaryKeys |-> Index(fields, PrimaryKeys[i])]

Pair(m, c) ==
    /\ m \in StructureOf(KnownTypes)
    /\ Unique(m.fields)
    /\ m.keys = PrimaryKeys
    /\ m.ids = Ids(m.fields)
    /\ c \in StructureOf(STRING)
    /\ c.fields = Converted(m.fields)
    /\ c.keys = PrimaryKeys
    /\ c.ids = m.ids

LEMMA IdsType ==
    ASSUME NEW T, NEW f \in Seq(FieldsOf(T))
    PROVE  Ids(f) \in Seq(Nat)
<1>1. DOMAIN PrimaryKeys = 1..Len(PrimaryKeys) /\ Len(PrimaryKeys) \in Nat
  BY SchemaAssumption
<1>2. \A i \in 1..Len(PrimaryKeys) : Index(f, PrimaryKeys[i]) \in Nat
  BY IndexMeaning
<1>3. Ids(f) = [i \in 1..Len(PrimaryKeys) |-> Index(f, PrimaryKeys[i])]
  BY <1>1 DEF Ids
<1> QED
  BY <1>1, <1>2, <1>3, IsASeq

LEMMA IdsByNames ==
    ASSUME NEW T, NEW f \in Seq(FieldsOf(T)), NEW U, NEW g \in Seq(FieldsOf(U)),
           Names(f) = Names(g)
    PROVE  Ids(f) = Ids(g)
<1>1. \A c : Index(f, c) = Index(g, c)
  BY IndexByNames
<1> QED
  BY <1>1 DEF Ids

LEMMA PairFields ==
    ASSUME NEW m, NEW c, Pair(m, c)
    PROVE  /\ m.fields \in Seq(FieldsOf(KnownTypes)) /\ c.fields \in Seq(FieldsOf(STRING))
           /\ Names(c.fields) = Names(m.fields)
           /\ Len(c.fields) = Len(m.fields)
           /\ \A n : (Has(m.fields, n) <=> Has(c.fields, n)) /\ Index(m.fields, n) = Index(c.fields, n)
<1>1. m.fields \in Seq(FieldsOf(KnownTypes)) /\ c.fields \in Seq(FieldsOf(STRING))
  BY DEF Pair, StructureOf
<1>2. Names(c.fields) = Names(m.fields)
  BY <1>1, ConvertedShape DEF Pair
<1> QED
  BY <1>1, <1>2, IndexByNames

LEMMA FieldsReplaced ==
    ASSUME NEW T, NEW s \in StructureOf(T), NEW f
    PROVE  [s EXCEPT !.fields = f] = [fields |-> f, keys |-> s.keys, ids |-> s.ids]
<1>1. s = [fields |-> s.fields, keys |-> s.keys, ids |-> s.ids]
  BY DEF StructureOf
<1>2. \A a, k, i : [[fields |-> a, keys |-> k, ids |-> i] EXCEPT !.fields = f]
                   = [fields |-> f, keys |-> k, ids |-> i]
  OBVIOUS
<1> QED
  BY <1>1, <1>2

LEMMA WithFieldsShape ==
    ASSUME NEW T, NEW s \in StructureOf(T), s.keys = PrimaryKeys, NEW f \in Seq(FieldsOf(T))
    PROVE  /\ WithFields(s, f) \in StructureOf(T)
           /\ WithFields(s, f).fields = f
           /\ WithFields(s, f).keys = PrimaryKeys
           /\ WithFields(s, f).ids = Ids(f)
<1>1. WithFields(s, f) = [fields |-> f, keys |-> PrimaryKeys, ids |-> Ids(f)]
  <2> DEFINE t == [s EXCEPT !.fields = f]
  <2>1. t = [fields |-> f, keys |-> s.keys, ids |-> s.ids]
    BY FieldsReplaced
  <2>2. WithFields(s, f) = Preprocess(t)
    BY DEF WithFields
  <2> HIDE DEF t
  <2> QED
    BY <2>1, <2>2 DEF Preprocess, Ids
<1>2. Ids(f) \in Seq(Nat) /\ PrimaryKeys \in Seq(Columns)
  BY IdsType, SchemaAssumption
<1> QED
  BY <1>1, <1>2 DEF StructureOf

LEMMA AddFieldShape ==
    ASSUME NEW T, NEW s \in StructureOf(T), s.keys = PrimaryKeys, NEW x \in FieldsOf(T),
           NEW pos, Placed(s.fields, pos)
    PROVE  /\ AddField(s, x, pos) \in StructureOf(T)
           /\ AddField(s, x, pos).fields = Inserted(s.fields, x, pos)
           /\ AddField(s, x, pos).keys = PrimaryKeys
           /\ AddField(s, x, pos).ids = Ids(AddField(s, x, pos).fields)
<1>1. s.fields \in Seq(FieldsOf(T))
  BY DEF StructureOf
<1>2. Inserted(s.fields, x, pos) \in Seq(FieldsOf(T))
  BY <1>1, InsertedShape
<1> QED
  BY <1>2, WithFieldsShape DEF AddField

LEMMA RemoveFieldShape ==
    ASSUME NEW T, NEW s \in StructureOf(T), s.keys = PrimaryKeys, NEW n, Has(s.fields, n)
    PROVE  /\ RemoveField(s, n) \in StructureOf(T)
           /\ RemoveField(s, n).fields = Removed(s.fields, n)
           /\ RemoveField(s, n).keys = PrimaryKeys
           /\ RemoveField(s, n).ids = Ids(RemoveField(s, n).fields)
<1>1. s.fields \in Seq(FieldsOf(T))
  BY DEF StructureOf
<1>2. Removed(s.fields, n) \in Seq(FieldsOf(T))
  BY <1>1, RemovedShape
<1> QED
  BY <1>2, WithFieldsShape DEF RemoveField

LEMMA UpdateFieldShape ==
    ASSUME NEW T, NEW s \in StructureOf(T), s.keys = PrimaryKeys, s.ids = Ids(s.fields),
           NEW x \in FieldsOf(T)
    PROVE  /\ UpdateField(s, x) \in StructureOf(T)
           /\ UpdateField(s, x).fields = Updated(s.fields, x)
           /\ UpdateField(s, x).keys = PrimaryKeys
           /\ UpdateField(s, x).ids = Ids(UpdateField(s, x).fields)
<1>1. s.fields \in Seq(FieldsOf(T))
  BY DEF StructureOf
<1>2. Updated(s.fields, x) \in Seq(FieldsOf(T)) /\ Names(Updated(s.fields, x)) = Names(s.fields)
  BY <1>1, UpdatedShape, NamesOfUpdated
<1>3. Ids(Updated(s.fields, x)) = Ids(s.fields)
  BY <1>1, <1>2, IdsByNames
<1>4. UpdateField(s, x) = [fields |-> Updated(s.fields, x), keys |-> s.keys, ids |-> s.ids]
  BY DEF UpdateField, StructureOf
<1> QED
  BY <1>2, <1>3, <1>4 DEF StructureOf

LEMMA RenameStructureFieldShape ==
    ASSUME NEW T, NEW s \in StructureOf(T), s.keys = PrimaryKeys, NEW c, NEW d \in ColumnNames,
           \A i \in DOMAIN PrimaryKeys : PrimaryKeys[i] # c
    PROVE  /\ RenameStructureField(s, c, d) \in StructureOf(T)
           /\ RenameStructureField(s, c, d).fields = Renamed(s.fields, c, d)
           /\ RenameStructureField(s, c, d).keys = PrimaryKeys
           /\ RenameStructureField(s, c, d).ids = Ids(Renamed(s.fields, c, d))
<1>1. s.fields \in Seq(FieldsOf(T))
  BY DEF StructureOf
<1>2. Renamed(s.fields, c, d) \in Seq(FieldsOf(T))
  BY <1>1, RenamedShape
<1> DEFINE kk == [i \in DOMAIN s.keys |-> IF s.keys[i] = c THEN d ELSE s.keys[i]]
<1>3. kk = s.keys
  <2>1. s.keys = [i \in DOMAIN s.keys |-> s.keys[i]]
    BY SchemaAssumption
  <2>2. \A i \in DOMAIN s.keys : (IF s.keys[i] = c THEN d ELSE s.keys[i]) = s.keys[i]
    OBVIOUS
  <2> QED
    BY <2>1, <2>2
<1>4. [s EXCEPT !.keys = kk] = s
  BY <1>3 DEF StructureOf
<1>5. RenameStructureField(s, c, d) = WithFields(s, Renamed(s.fields, c, d))
  BY <1>4 DEF RenameStructureField
<1> QED
  BY <1>2, <1>5, WithFieldsShape

LEMMA PairAgrees ==
    ASSUME NEW m, NEW c, Pair(m, c)
    PROVE  m = Preprocess(m) /\ c = ConvertTableStructure(m)
<1>1. m.fields \in Seq(FieldsOf(KnownTypes))
  BY DEF Pair, StructureOf
<1>2. m = Preprocess(m)
  BY DEF Pair, StructureOf, Preprocess, Ids
<1> DEFINE g == [i \in DOMAIN m.fields |->
                   Field(m.fields[i].name, ConvertFieldType[m.fields[i].type])]
           t == [m EXCEPT !.fields = g]
<1>3. g = Converted(m.fields)
  BY DEF Converted, ConvertedField
<1>4. t = [fields |-> Converted(m.fields), keys |-> PrimaryKeys, ids |-> m.ids]
  BY <1>3 DEF Pair, StructureOf
<1>5. ConvertTableStructure(m) = Preprocess(t)
  BY DEF ConvertTableStructure
<1> HIDE DEF t
<1>6. Preprocess(t) = [fields |-> Converted(m.fields), keys |-> PrimaryKeys,
                       ids |-> Ids(Converted(m.fields))]
  BY <1>4 DEF Preprocess, Ids
<1>7. Ids(Converted(m.fields)) = m.ids
  BY <1>1, ConvertedShape, IdsByNames DEF Pair
<1> QED
  BY <1>2, <1>5, <1>6, <1>7 DEF Pair, StructureOf

LEMMA AgreeingPair ==
    ASSUME NEW f \in Seq(FieldsOf(KnownTypes)), Unique(f)
    PROVE  LET m == Preprocess([fields |-> f, keys |-> PrimaryKeys, ids |-> <<>>]) IN
           /\ Pair(m, ConvertTableStructure(m))
           /\ m.fields = f
<1> DEFINE m == Preprocess([fields |-> f, keys |-> PrimaryKeys, ids |-> <<>>])
           g == Converted(f)
           c == [fields |-> g, keys |-> PrimaryKeys, ids |-> Ids(f)]
<1>1. m = [fields |-> f, keys |-> PrimaryKeys, ids |-> Ids(f)]
  BY DEF Preprocess, Ids
<1>2. Ids(f) \in Seq(Nat) /\ PrimaryKeys \in Seq(Columns)
  BY IdsType, SchemaAssumption
<1>3. g \in Seq(FieldsOf(STRING)) /\ Ids(g) = Ids(f)
  BY ConvertedShape, IdsByNames
<1> HIDE DEF m
<1>4. Pair(m, c)
  BY <1>1, <1>2, <1>3 DEF Pair, StructureOf
<1>5. c = ConvertTableStructure(m)
  BY <1>4, PairAgrees
<1> QED
  BY <1>1, <1>4, <1>5 DEF m

LEMMA PairAdd ==
    ASSUME NEW m, NEW c, Pair(m, c), NEW x \in FieldsOf(KnownTypes), NEW pos,
           Placed(m.fields, pos), ~Has(m.fields, x.name)
    PROVE  Pair(AddField(m, x, pos), AddField(c, ConvertedField(x), pos))
<1>1. m.fields \in Seq(FieldsOf(KnownTypes)) /\ c.fields \in Seq(FieldsOf(STRING))
  BY PairFields
<1> DEFINE f == Inserted(m.fields, x, pos)
           g == Inserted(c.fields, ConvertedField(x), pos)
<1>2. f \in Seq(FieldsOf(KnownTypes)) /\ Unique(f)
  BY <1>1, InsertedShape, UniqueInserted DEF Pair
<1>3. g = Converted(f)
  BY <1>1, ConvertedInserted DEF Pair
<1> HIDE DEF f, g
<1>4. g \in Seq(FieldsOf(STRING)) /\ Ids(g) = Ids(f)
  BY <1>2, <1>3, ConvertedShape, IdsByNames
<1>5. m \in StructureOf(KnownTypes) /\ m.keys = PrimaryKeys
      /\ c \in StructureOf(STRING) /\ c.keys = PrimaryKeys
  BY DEF Pair
<1>6. Pair(WithFields(m, f), WithFields(c, g))
  BY <1>2, <1>3, <1>4, <1>5, WithFieldsShape DEF Pair
<1> QED
  BY <1>6 DEF AddField, f, g

LEMMA PairRemove ==
    ASSUME NEW m, NEW c, Pair(m, c), NEW n, Has(m.fields, n)
    PROVE  Pair(RemoveField(m, n), RemoveField(c, n))
<1>1. m.fields \in Seq(FieldsOf(KnownTypes)) /\ c.fields \in Seq(FieldsOf(STRING))
  BY PairFields
<1> DEFINE f == Removed(m.fields, n)
           g == Removed(c.fields, n)
<1>2. f \in Seq(FieldsOf(KnownTypes)) /\ Unique(f)
  BY <1>1, RemovedShape, UniqueRemoved DEF Pair
<1>3. g = Converted(f)
  BY <1>1, ConvertedRemoved DEF Pair
<1> HIDE DEF f, g
<1>4. g \in Seq(FieldsOf(STRING)) /\ Ids(g) = Ids(f)
  BY <1>2, <1>3, ConvertedShape, IdsByNames
<1>5. m \in StructureOf(KnownTypes) /\ m.keys = PrimaryKeys
      /\ c \in StructureOf(STRING) /\ c.keys = PrimaryKeys
  BY DEF Pair
<1>6. Pair(WithFields(m, f), WithFields(c, g))
  BY <1>2, <1>3, <1>4, <1>5, WithFieldsShape DEF Pair
<1> QED
  BY <1>6 DEF RemoveField, f, g

LEMMA PairUpdate ==
    ASSUME NEW m, NEW c, Pair(m, c), NEW x \in FieldsOf(KnownTypes)
    PROVE  Pair(UpdateField(m, x), UpdateField(c, ConvertedField(x)))
<1>1. m.fields \in Seq(FieldsOf(KnownTypes)) /\ c.fields \in Seq(FieldsOf(STRING))
  BY PairFields
<1> DEFINE y == ConvertedField(x)
           f == Updated(m.fields, x)
           g == Updated(c.fields, y)
<1>2. f \in Seq(FieldsOf(KnownTypes)) /\ Unique(f)
  BY <1>1, UpdatedShape, UniqueUpdated DEF Pair
<1>3. g = Converted(f)
  BY <1>1, ConvertedUpdated DEF Pair
<1>4. y \in FieldsOf(STRING)
  BY ConvertedFieldType
<1> HIDE DEF f, g, y
<1>5. Ids(g) = Ids(f)
  BY <1>2, <1>3, ConvertedShape, IdsByNames
<1>6. m \in StructureOf(KnownTypes) /\ m.keys = PrimaryKeys /\ m.ids = Ids(m.fields)
      /\ c \in StructureOf(STRING) /\ c.keys = PrimaryKeys /\ c.ids = Ids(c.fields)
  BY <1>1, PairFields, IdsByNames DEF Pair
<1>7. /\ UpdateField(m, x) \in StructureOf(KnownTypes)
      /\ UpdateField(m, x).fields = f
      /\ UpdateField(m, x).keys = PrimaryKeys
      /\ UpdateField(m, x).ids = Ids(f)
  BY <1>6, UpdateFieldShape DEF f
<1>8. /\ UpdateField(c, y) \in StructureOf(STRING)
      /\ UpdateField(c, y).fields = g
      /\ UpdateField(c, y).keys = PrimaryKeys
      /\ UpdateField(c, y).ids = Ids(g)
  BY <1>4, <1>6, UpdateFieldShape DEF g
<1>9. Pair(UpdateField(m, x), UpdateField(c, y))
  BY <1>2, <1>3, <1>5, <1>7, <1>8 DEF Pair
<1> QED
  BY <1>9 DEF y

LEMMA PairRename ==
    ASSUME NEW m, NEW c, Pair(m, c), NEW n, NEW d \in ColumnNames, ~Has(m.fields, d),
           \A i \in DOMAIN PrimaryKeys : PrimaryKeys[i] # n
    PROVE  Pair(RenameStructureField(m, n, d), RenameStructureField(c, n, d))
<1>1. m.fields \in Seq(FieldsOf(KnownTypes)) /\ c.fields \in Seq(FieldsOf(STRING))
  BY PairFields
<1> DEFINE f == Renamed(m.fields, n, d)
           g == Renamed(c.fields, n, d)
<1>2. f \in Seq(FieldsOf(KnownTypes)) /\ Unique(f)
  BY <1>1, RenamedShape, UniqueRenamed DEF Pair
<1>3. g = Converted(f)
  BY <1>1, ConvertedRenamed DEF Pair
<1>4. m \in StructureOf(KnownTypes) /\ m.keys = PrimaryKeys
      /\ c \in StructureOf(STRING) /\ c.keys = PrimaryKeys
  BY DEF Pair
<1> HIDE DEF f, g
<1>5. Ids(g) = Ids(f)
  BY <1>2, <1>3, ConvertedShape, IdsByNames
<1>6. /\ RenameStructureField(m, n, d) \in StructureOf(KnownTypes)
      /\ RenameStructureField(m, n, d).fields = f
      /\ RenameStructureField(m, n, d).keys = PrimaryKeys
      /\ RenameStructureField(m, n, d).ids = Ids(f)
  BY <1>4, RenameStructureFieldShape DEF f
<1>7. /\ RenameStructureField(c, n, d) \in StructureOf(STRING)
      /\ RenameStructureField(c, n, d).fields = g
      /\ RenameStructureField(c, n, d).keys = PrimaryKeys
      /\ RenameStructureField(c, n, d).ids = Ids(g)
  BY <1>4, RenameStructureFieldShape DEF g
<1> QED
  BY <1>2, <1>3, <1>5, <1>6, <1>7 DEF Pair

-----------------------------------------------------------------------------
(* Validation depends on the names of the columns only: it foresees what   *)
(* execution does to them.                                                 *)

KeyColumn(n) == \E i \in DOMAIN PrimaryKeys : PrimaryKeys[i] = n
PlanClauses == {cl \in Clauses : Category(cl) = "column_change" /\ ~KeyColumn(cl.name)}

Similar(s, m, c) ==
    /\ s.m \in StructureOf(STRING) /\ s.m.keys = PrimaryKeys
    /\ s.c \in StructureOf(STRING) /\ s.c.keys = PrimaryKeys
    /\ s.m.ids = Ids(s.m.fields) /\ s.c.ids = Ids(s.c.fields)
    /\ Names(s.m.fields) = Names(m.fields)
    /\ Names(s.c.fields) = Names(c.fields)

LEMMA PlanClauseOps ==
    ASSUME NEW cl \in PlanClauses
    PROVE  /\ cl.op \in ColumnOps
           /\ cl \in Clauses /\ cl.name \in ColumnNames /\ cl.to \in ColumnNames
           /\ cl.type \in STRING /\ ~KeyColumn(cl.name)
<1>1. cl \in Clauses /\ Category(cl) = "column_change" /\ ~KeyColumn(cl.name)
  BY DEF PlanClauses
<1>2. cl.op \in ColumnOps
  BY <1>1 DEF Category
<1> QED
  BY <1>1, <1>2 DEF Clauses

LEMMA SimilarFields ==
    ASSUME NEW m, NEW c, Pair(m, c), NEW s, Similar(s, m, c)
    PROVE  /\ s.m.fields \in Seq(FieldsOf(STRING)) /\ s.c.fields \in Seq(FieldsOf(STRING))
           /\ m.fields \in Seq(FieldsOf(KnownTypes)) /\ c.fields \in Seq(FieldsOf(STRING))
           /\ \A n : /\ Has(s.m.fields, n) <=> Has(m.fields, n)
                     /\ Has(s.c.fields, n) <=> Has(m.fields, n)
                     /\ Has(c.fields, n) <=> Has(m.fields, n)
           /\ Names(s.c.fields) = Names(s.m.fields)
<1>1. /\ s.m.fields \in Seq(FieldsOf(STRING)) /\ s.c.fields \in Seq(FieldsOf(STRING))
      /\ Names(s.m.fields) = Names(m.fields) /\ Names(s.c.fields) = Names(c.fields)
  BY DEF Similar, StructureOf
<1>2. /\ m.fields \in Seq(FieldsOf(KnownTypes)) /\ c.fields \in Seq(FieldsOf(STRING))
      /\ Names(c.fields) = Names(m.fields)
      /\ \A n : Has(m.fields, n) <=> Has(c.fields, n)
  BY PairFields
<1>3. \A n : (Has(s.m.fields, n) <=> Has(m.fields, n)) /\ (Has(s.c.fields, n) <=> Has(c.fields, n))
  BY <1>1, <1>2, IndexByNames
<1> QED
  BY <1>1, <1>2, <1>3

LEMMA CurrentNameByNames ==
    ASSUME NEW f, NEW g, NEW ff, NEW gg, NEW old, NEW new,
           \A n : Has(f, n) <=> Has(ff, n),
           \A n : Has(g, n) <=> Has(gg, n)
    PROVE  CurrentName(f, g, old, new) = CurrentName(ff, gg, old, new)
  BY DEF CurrentName

LEMMA CurrentNameMeaning ==
    ASSUME NEW f, NEW g, NEW old, NEW new, CurrentName(f, g, old, new) # NoName
    PROVE  LET n == CurrentName(f, g, old, new) IN
           /\ n \in {old, new}
           /\ Has(f, n) /\ Has(g, n)
           /\ n # new => n = old /\ ~Has(f, new) /\ ~Has(g, new)
           /\ n # old => n = new /\ ~Has(f, old) /\ ~Has(g, old)
<1>1. CASE /\ Has(f, old) /\ Has(g, old)
           /\ old = new \/ (~Has(f, new) /\ ~Has(g, new))
  <2>1. CurrentName(f, g, old, new) = old
    BY <1>1 DEF CurrentName
  <2> QED
    BY <1>1, <2>1
<1>2. CASE /\ ~(/\ Has(f, old) /\ Has(g, old)
                /\ old = new \/ (~Has(f, new) /\ ~Has(g, new)))
           /\ old # new /\ Has(f, new) /\ Has(g, new)
           /\ ~Has(f, old) /\ ~Has(g, old)
  <2>1. CurrentName(f, g, old, new) = new
    BY <1>2 DEF CurrentName
  <2> QED
    BY <1>2, <2>1
<1>3. CASE /\ ~(/\ Has(f, old) /\ Has(g, old)
                /\ old = new \/ (~Has(f, new) /\ ~Has(g, new)))
           /\ ~(/\ old # new /\ Has(f, new) /\ Has(g, new)
                /\ ~Has(f, old) /\ ~Has(g, old))
  <2>1. CurrentName(f, g, old, new) = NoName
    BY <1>3 DEF CurrentName
  <2> QED
    BY <2>1
<1> QED
  BY <1>1, <1>2, <1>3

LEMMA ColumnAfterByNames ==
    ASSUME NEW T, NEW f \in Seq(FieldsOf(T)), NEW U, NEW g \in Seq(FieldsOf(U)),
           Names(f) = Names(g), NEW cl, NEW n, Has(f, n)
    PROVE  ColumnAfter(cl, f) = ColumnAfter(cl, g)
<1>1. Len(f) = Len(g) /\ \A i \in 1..Len(f) : f[i].name = g[i].name
  BY NamesEqual
<1>2. Index(f, n) \in 1..Len(f) /\ Len(f) \in Nat
  BY IndexMeaning
<1>3. Len(f) \in 1..Len(f)
  BY <1>2
<1> QED
  BY <1>1, <1>3 DEF ColumnAfter

(* The guards of a valid clause, on the structures themselves. *)
LEMMA ValidClause ==
    ASSUME NEW m, NEW c, Pair(m, c), NEW s, Similar(s, m, c), NEW cl \in PlanClauses,
           ~Invalid(cl, s.m, s.c)
    PROVE  LET n == CurrentName(m.fields, c.fields, cl.name, cl.to) IN
           /\ KnownType(cl)
           /\ n = CurrentName(s.m.fields, s.c.fields, cl.name, cl.to)
           /\ cl.op = "add" /\ ~Has(m.fields, cl.name) =>
                /\ ColumnAfter(cl, s.m.fields) = ColumnAfter(cl, m.fields)
                /\ cl.pos = AtFirst \/ Has(m.fields, ColumnAfter(cl, m.fields))
                /\ Placed(m.fields, ColumnAfter(cl, m.fields))
           /\ cl.op = "modify" => Has(m.fields, cl.name)
           /\ cl.op \in {"change", "rename"} =>
                /\ n # NoName /\ n \in {cl.name, cl.to} /\ Has(m.fields, n)
                /\ n # cl.to => n = cl.name /\ ~Has(m.fields, cl.to)
<1>1. /\ s.m.fields \in Seq(FieldsOf(STRING)) /\ s.c.fields \in Seq(FieldsOf(STRING))
      /\ m.fields \in Seq(FieldsOf(KnownTypes)) /\ c.fields \in Seq(FieldsOf(STRING))
      /\ \A n : /\ Has(s.m.fields, n) <=> Has(m.fields, n)
                /\ Has(s.c.fields, n) <=> Has(m.fields, n)
                /\ Has(c.fields, n) <=> Has(m.fields, n)
  BY SimilarFields
<1>2. CurrentName(m.fields, c.fields, cl.name, cl.to)
        = CurrentName(s.m.fields, s.c.fields, cl.name, cl.to)
  BY <1>1, CurrentNameByNames
<1>3. KnownType(cl)
  BY DEF Invalid
<1>4. ASSUME cl.op = "add", ~Has(m.fields, cl.name)
      PROVE  /\ ColumnAfter(cl, s.m.fields) = ColumnAfter(cl, m.fields)
             /\ cl.pos = AtFirst \/ Has(m.fields, ColumnAfter(cl, m.fields))
             /\ Placed(m.fields, ColumnAfter(cl, m.fields))
  <2>1. CASE cl.pos = AtFirst
    BY <2>1 DEF ColumnAfter, Placed, AtEnd, AtFirst
  <2>2. CASE cl.pos # AtFirst
    <3>1. Has(s.m.fields, ColumnAfter(cl, s.m.fields))
      BY <1>1, <1>4, <2>2 DEF Invalid
    <3>2. Names(s.m.fields) = Names(m.fields)
      BY DEF Similar
    <3>3. ColumnAfter(cl, s.m.fields) = ColumnAfter(cl, m.fields)
      BY <1>1, <3>1, <3>2, ColumnAfterByNames
    <3> QED
      BY <1>1, <3>1, <3>3 DEF Placed
  <2> QED
    BY <2>1, <2>2
<1>5. cl.op = "modify" => Has(m.fields, cl.name)
  BY <1>1 DEF Invalid
<1>6. ASSUME cl.op \in {"change", "rename"}
      PROVE  LET n == CurrentName(m.fields, c.fields, cl.name, cl.to) IN
             /\ n # NoName /\ n \in {cl.name, cl.to} /\ Has(m.fields, n)
             /\ n # cl.to => n = cl.name /\ ~Has(m.fields, cl.to)
  <2>1. CurrentName(m.fields, c.fields, cl.name, cl.to) # NoName
    BY <1>2, <1>6 DEF Invalid
  <2> QED
    BY <2>1, CurrentNameMeaning
<1> QED
  BY <1>2, <1>3, <1>4, <1>5, <1>6

LEMMA ValidClauseNeverFails ==
    ASSUME NEW m, NEW c, Pair(m, c), NEW s, Similar(s, m, c), NEW cl \in PlanClauses,
           ~Invalid(cl, s.m, s.c)
    PROVE  ~ClauseFails(cl, m.fields, c.fields)
<1>1. \A n : Has(c.fields, n) <=> Has(m.fields, n)
  BY PairFields
<1>2. ~KeyColumn(cl.name)
  BY PlanClauseOps
<1>3. /\ cl.op = "add" /\ ~Has(m.fields, cl.name) =>
           cl.pos = AtFirst \/ Has(m.fields, ColumnAfter(cl, m.fields))
      /\ cl.op = "modify" => Has(m.fields, cl.name)
      /\ cl.op \in {"change", "rename"} =>
           CurrentName(m.fields, c.fields, cl.name, cl.to) # NoName
  BY ValidClause
<1> QED
  BY <1>1, <1>2, <1>3 DEF ClauseFails, KeyColumn

LEMMA ClauseField ==
    ASSUME NEW cl \in PlanClauses, KnownType(cl), cl.op \in {"add", "modify", "change"},
           NEW n \in ColumnNames
    PROVE  /\ Field(n, cl.type) \in FieldsOf(KnownTypes)
           /\ Field(n, cl.type) \in FieldsOf(STRING)
           /\ Field(n, cl.type).name = n
           /\ ConvertedField(Field(n, cl.type)) = Field(n, ConvertFieldType[cl.type])
           /\ Field(n, ConvertFieldType[cl.type]) \in FieldsOf(STRING)
           /\ Field(n, ConvertFieldType[cl.type]).name = n
<1>1. cl.type \in KnownTypes /\ cl.type \in STRING
  BY PlanClauseOps DEF KnownType, KnownTypes
<1>2. ConvertFieldType[cl.type] \in STRING
  BY <1>1, SchemaAssumption DEF KnownTypes
<1> QED
  BY <1>1, <1>2 DEF FieldsOf, Field, ConvertedField

(* The structures a valid clause leaves in the copy have the columns that  *)
(* its execution leaves in the structures, if it changes them by k: an     *)
(* addition, a removal, an update or a renaming.                           *)

LEMMA SimilarStructures ==
    ASSUME NEW s, NEW t, NEW m, NEW c,
           t.m \in StructureOf(STRING), t.m.keys = PrimaryKeys, t.m.ids = Ids(t.m.fields),
           t.c \in StructureOf(STRING), t.c.keys = PrimaryKeys, t.c.ids = Ids(t.c.fields),
           Names(t.m.fields) = Names(m.fields), Names(t.c.fields) = Names(c.fields)
    PROVE  Similar(t, m, c)
  BY DEF Similar

LEMMA SimilarSkipped ==
    ASSUME NEW m, NEW c, Pair(m, c), NEW s, Similar(s, m, c), NEW cl \in PlanClauses,
           ~Invalid(cl, s.m, s.c),
           \/ cl.op = "add" /\ Has(m.fields, cl.name)
           \/ cl.op = "drop" /\ ~Has(m.fields, cl.name)
           \/ /\ cl.op \in {"change", "rename"}
              /\ CurrentName(m.fields, c.fields, cl.name, cl.to) = cl.to
    PROVE  Similar(AfterClause(cl, s), m, c)
<1> DEFINE t == AfterClause(cl, s)
           n == CurrentName(s.m.fields, s.c.fields, cl.name, cl.to)
           ty == IF cl.op \in {"drop", "rename"} THEN cl.type ELSE ConvertFieldType[cl.type]
           pos == ColumnAfter(cl, s.m.fields)
<1>1. /\ s.m.fields \in Seq(FieldsOf(STRING)) /\ s.c.fields \in Seq(FieldsOf(STRING))
      /\ \A k : (Has(s.m.fields, k) <=> Has(m.fields, k)) /\ (Has(s.c.fields, k) <=> Has(m.fields, k))
  BY SimilarFields
<1>2. t.m = Applied(cl, s.m, cl.type, pos, n) /\ t.c = Applied(cl, s.c, ty, pos, n)
  BY DEF AfterClause
<1>3. n = CurrentName(m.fields, c.fields, cl.name, cl.to) /\ KnownType(cl)
  BY ValidClause
<1> HIDE DEF t, n, ty, pos
<1>4. CASE cl.op \in {"add", "drop", "rename"}
  <2>1. t.m = s.m /\ t.c = s.c
    BY <1>1, <1>2, <1>3, <1>4 DEF Applied
  <2> QED
    BY <2>1 DEF Similar, t
<1>5. CASE cl.op = "change"
  <2>1. n = cl.to
    BY <1>3, <1>5
  <2> DEFINE x == Field(n, cl.type)
             y == Field(n, ty)
  <2>2. t.m = UpdateField(s.m, x) /\ t.c = UpdateField(s.c, y)
    BY <1>2, <1>5, <2>1 DEF Applied
  <2>3. cl.to \in ColumnNames
    BY PlanClauseOps
  <2>4. ty = ConvertFieldType[cl.type]
    BY <1>5 DEF ty
  <2>5. x \in FieldsOf(STRING) /\ y \in FieldsOf(STRING)
    BY <1>3, <1>5, <2>1, <2>3, <2>4, ClauseField
  <2> HIDE DEF x, y
  <2>6. /\ s.m \in StructureOf(STRING) /\ s.m.keys = PrimaryKeys /\ s.m.ids = Ids(s.m.fields)
        /\ s.c \in StructureOf(STRING) /\ s.c.keys = PrimaryKeys /\ s.c.ids = Ids(s.c.fields)
    BY DEF Similar
  <2>7. Names(t.m.fields) = Names(s.m.fields) /\ Names(t.c.fields) = Names(s.c.fields)
    <3>1. t.m.fields = Updated(s.m.fields, x) /\ t.c.fields = Updated(s.c.fields, y)
      BY <2>2, <2>5, <2>6, UpdateFieldShape
    <3> QED
      BY <1>1, <2>5, <3>1, NamesOfUpdated
  <2>8. Names(t.m.fields) = Names(m.fields) /\ Names(t.c.fields) = Names(c.fields)
    BY <2>7 DEF Similar
  <2>9. /\ t.m \in StructureOf(STRING) /\ t.m.keys = PrimaryKeys /\ t.m.ids = Ids(t.m.fields)
        /\ t.c \in StructureOf(STRING) /\ t.c.keys = PrimaryKeys /\ t.c.ids = Ids(t.c.fields)
    BY <2>2, <2>5, <2>6, UpdateFieldShape
  <2> QED
    BY <2>8, <2>9, SimilarStructures DEF t
<1> QED
  BY <1>4, <1>5

LEMMA SimilarAdded ==
    ASSUME NEW m, NEW c, Pair(m, c), NEW s, Similar(s, m, c), NEW cl \in PlanClauses,
           ~Invalid(cl, s.m, s.c), cl.op = "add", ~Has(m.fields, cl.name)
    PROVE  LET pos == ColumnAfter(cl, m.fields) IN
           Similar(AfterClause(cl, s), AddField(m, Field(cl.name, cl.type), pos),
                   AddField(c, Field(cl.name, ConvertFieldType[cl.type]), pos))
<1> DEFINE t == AfterClause(cl, s)
           pos == ColumnAfter(cl, m.fields)
           x == Field(cl.name, cl.type)
           y == Field(cl.name, ConvertFieldType[cl.type])
<1>1. /\ s.m.fields \in Seq(FieldsOf(STRING)) /\ s.c.fields \in Seq(FieldsOf(STRING))
      /\ m.fields \in Seq(FieldsOf(KnownTypes)) /\ c.fields \in Seq(FieldsOf(STRING))
      /\ \A k : /\ Has(s.m.fields, k) <=> Has(m.fields, k)
                /\ Has(s.c.fields, k) <=> Has(m.fields, k)
                /\ Has(c.fields, k) <=> Has(m.fields, k)
  BY SimilarFields
<1>2. KnownType(cl) /\ ColumnAfter(cl, s.m.fields) = pos /\ Placed(m.fields, pos)
  BY ValidClause
<1>3. /\ x \in FieldsOf(KnownTypes) /\ x \in FieldsOf(STRING) /\ y \in FieldsOf(STRING)
      /\ x.name = cl.name /\ y.name = cl.name
  BY <1>2, PlanClauseOps, ClauseField
<1>4. t.m = AddField(s.m, x, pos) /\ t.c = AddField(s.c, y, pos)
  BY <1>1, <1>2 DEF AfterClause, Applied
<1> HIDE DEF t, pos, x, y
<1>5. Placed(s.m.fields, pos) /\ Placed(s.c.fields, pos) /\ Placed(c.fields, pos)
  BY <1>1, <1>2 DEF Placed
<1>6. /\ s.m \in StructureOf(STRING) /\ s.m.keys = PrimaryKeys
      /\ s.c \in StructureOf(STRING) /\ s.c.keys = PrimaryKeys
      /\ Names(s.m.fields) = Names(m.fields) /\ Names(s.c.fields) = Names(c.fields)
  BY DEF Similar
<1>7. /\ m \in StructureOf(KnownTypes) /\ m.keys = PrimaryKeys
      /\ c \in StructureOf(STRING) /\ c.keys = PrimaryKeys
  BY DEF Pair
<1>9. /\ Names(Inserted(s.m.fields, x, pos)) = Names(Inserted(m.fields, x, pos))
      /\ Names(Inserted(s.c.fields, y, pos)) = Names(Inserted(c.fields, y, pos))
  BY <1>1, <1>3, <1>5, <1>6, NamesOfInserted
<1>10. /\ t.m \in StructureOf(STRING) /\ t.m.keys = PrimaryKeys /\ t.m.ids = Ids(t.m.fields)
       /\ t.m.fields = Inserted(s.m.fields, x, pos)
  BY <1>3, <1>4, <1>5, <1>6, AddFieldShape
<1>11. /\ t.c \in StructureOf(STRING) /\ t.c.keys = PrimaryKeys /\ t.c.ids = Ids(t.c.fields)
       /\ t.c.fields = Inserted(s.c.fields, y, pos)
  BY <1>3, <1>4, <1>5, <1>6, AddFieldShape
<1>12. /\ AddField(m, x, pos).fields = Inserted(m.fields, x, pos)
       /\ AddField(c, y, pos).fields = Inserted(c.fields, y, pos)
  BY <1>2, <1>3, <1>5, <1>7, AddFieldShape
<1>13. Similar(t, AddField(m, x, pos), AddField(c, y, pos))
  BY <1>9, <1>10, <1>11, <1>12, SimilarStructures
<1> QED
  BY <1>13 DEF t, pos, x, y

LEMMA SimilarRemoved ==
    ASSUME NEW m, NEW c, Pair(m, c), NEW s, Similar(s, m, c), NEW cl \in PlanClauses,
           ~Invalid(cl, s.m, s.c), cl.op = "drop", Has(m.fields, cl.name)
    PROVE  Similar(AfterClause(cl, s), RemoveField(m, cl.name), RemoveField(c, cl.name))
<1> DEFINE t == AfterClause(cl, s)
           n == cl.name
<1>1. /\ s.m.fields \in Seq(FieldsOf(STRING)) /\ s.c.fields \in Seq(FieldsOf(STRING))
      /\ m.fields \in Seq(FieldsOf(KnownTypes)) /\ c.fields \in Seq(FieldsOf(STRING))
      /\ Has(s.m.fields, n) /\ Has(s.c.fields, n) /\ Has(c.fields, n)
  BY SimilarFields
<1>2. t.m = RemoveField(s.m, n) /\ t.c = RemoveField(s.c, n)
  BY <1>1 DEF AfterClause, Applied
<1> HIDE DEF t, n
<1>3. /\ s.m \in StructureOf(STRING) /\ s.m.keys = PrimaryKeys
      /\ s.c \in StructureOf(STRING) /\ s.c.keys = PrimaryKeys
      /\ Names(s.m.fields) = Names(m.fields) /\ Names(s.c.fields) = Names(c.fields)
  BY DEF Similar
<1>4. /\ m \in StructureOf(KnownTypes) /\ m.keys = PrimaryKeys
      /\ c \in StructureOf(STRING) /\ c.keys = PrimaryKeys
      /\ Has(m.fields, n)
  BY DEF Pair, n
<1>6. /\ Names(Removed(s.m.fields, n)) = Names(Removed(m.fields, n))
      /\ Names(Removed(s.c.fields, n)) = Names(Removed(c.fields, n))
  BY <1>1, <1>3, NamesOfRemoved
<1>7. /\ t.m \in StructureOf(STRING) /\ t.m.keys = PrimaryKeys /\ t.m.ids = Ids(t.m.fields)
      /\ t.m.fields = Removed(s.m.fields, n)
  BY <1>1, <1>2, <1>3, RemoveFieldShape
<1>8. /\ t.c \in StructureOf(STRING) /\ t.c.keys = PrimaryKeys /\ t.c.ids = Ids(t.c.fields)
      /\ t.c.fields = Removed(s.c.fields, n)
  BY <1>1, <1>2, <1>3, RemoveFieldShape
<1>9. /\ RemoveField(m, n).fields = Removed(m.fields, n)
      /\ RemoveField(c, n).fields = Removed(c.fields, n)
  BY <1>1, <1>4, RemoveFieldShape
<1>10. Similar(t, RemoveField(m, n), RemoveField(c, n))
  BY <1>6, <1>7, <1>8, <1>9, SimilarStructures
<1> QED
  BY <1>10 DEF t, n

(* An update keeps the names. *)
LEMMA UpdateKeepsNames ==
    ASSUME NEW T, NEW s \in StructureOf(T), s.keys = PrimaryKeys, s.ids = Ids(s.fields),
           NEW x \in FieldsOf(T)
    PROVE  Names(UpdateField(s, x).fields) = Names(s.fields)
<1>1. s.fields \in Seq(FieldsOf(T))
  BY DEF StructureOf
<1>2. UpdateField(s, x).fields = Updated(s.fields, x)
  BY UpdateFieldShape
<1> QED
  BY <1>1, <1>2, NamesOfUpdated

LEMMA SimilarUpdated ==
    ASSUME NEW m, NEW c, Pair(m, c), NEW s, Similar(s, m, c), NEW x \in FieldsOf(KnownTypes)
    PROVE  Similar(s, UpdateField(m, x), UpdateField(c, ConvertedField(x)))
<1> DEFINE y == ConvertedField(x)
<1>1. y \in FieldsOf(STRING)
  BY ConvertedFieldType
<1> HIDE DEF y
<1>2. /\ m \in StructureOf(KnownTypes) /\ m.keys = PrimaryKeys /\ m.ids = Ids(m.fields)
      /\ c \in StructureOf(STRING) /\ c.keys = PrimaryKeys /\ c.ids = Ids(c.fields)
  BY PairFields, IdsByNames DEF Pair
<1>3. /\ Names(UpdateField(m, x).fields) = Names(m.fields)
      /\ Names(UpdateField(c, y).fields) = Names(c.fields)
  BY <1>1, <1>2, UpdateKeepsNames
<1>4. Similar(s, UpdateField(m, x), UpdateField(c, y))
  BY <1>3 DEF Similar
<1> QED
  BY <1>4 DEF y

LEMMA SimilarModified ==
    ASSUME NEW m, NEW c, Pair(m, c), NEW s, Similar(s, m, c), NEW cl \in PlanClauses,
           ~Invalid(cl, s.m, s.c), cl.op = "modify"
    PROVE  Similar(AfterClause(cl, s), UpdateField(m, Field(cl.name, cl.type)),
                   UpdateField(c, Field(cl.name, ConvertFieldType[cl.type])))
<1> DEFINE t == AfterClause(cl, s)
           x == Field(cl.name, cl.type)
           y == Field(cl.name, ConvertFieldType[cl.type])
<1>1. KnownType(cl)
  BY ValidClause
<1>2. /\ x \in FieldsOf(KnownTypes) /\ x \in FieldsOf(STRING) /\ y \in FieldsOf(STRING)
      /\ y = ConvertedField(x)
  BY <1>1, PlanClauseOps, ClauseField
<1>3. t.m = UpdateField(s.m, x) /\ t.c = UpdateField(s.c, y)
  BY DEF AfterClause, Applied
<1> HIDE DEF t, x, y
<1>4. Similar(s, UpdateField(m, x), UpdateField(c, y))
  BY <1>2, SimilarUpdated
<1>5. /\ s.m \in StructureOf(STRING) /\ s.m.keys = PrimaryKeys /\ s.m.ids = Ids(s.m.fields)
      /\ s.c \in StructureOf(STRING) /\ s.c.keys = PrimaryKeys /\ s.c.ids = Ids(s.c.fields)
      /\ Names(s.m.fields) = Names(UpdateField(m, x).fields)
      /\ Names(s.c.fields) = Names(UpdateField(c, y).fields)
  BY <1>4 DEF Similar
<1>6. Names(t.m.fields) = Names(s.m.fields) /\ Names(t.c.fields) = Names(s.c.fields)
  BY <1>2, <1>3, <1>5, UpdateKeepsNames
<1>7. /\ t.m \in StructureOf(STRING) /\ t.m.keys = PrimaryKeys /\ t.m.ids = Ids(t.m.fields)
      /\ t.c \in StructureOf(STRING) /\ t.c.keys = PrimaryKeys /\ t.c.ids = Ids(t.c.fields)
  BY <1>2, <1>3, <1>5, UpdateFieldShape
<1>8. Similar(t, UpdateField(m, x), UpdateField(c, y))
  BY <1>5, <1>6, <1>7, SimilarStructures
<1> QED
  BY <1>8 DEF t, x, y

LEMMA RenameByNames ==
    ASSUME NEW T, NEW s \in StructureOf(T), s.keys = PrimaryKeys,
           NEW U, NEW r \in StructureOf(U), r.keys = PrimaryKeys,
           Names(s.fields) = Names(r.fields), NEW n, NEW d \in ColumnNames, ~KeyColumn(n)
    PROVE  Names(RenameStructureField(s, n, d).fields) = Names(RenameStructureField(r, n, d).fields)
<1>1. s.fields \in Seq(FieldsOf(T)) /\ r.fields \in Seq(FieldsOf(U))
  BY DEF StructureOf
<1>2. /\ RenameStructureField(s, n, d).fields = Renamed(s.fields, n, d)
      /\ RenameStructureField(r, n, d).fields = Renamed(r.fields, n, d)
  BY RenameStructureFieldShape DEF KeyColumn
<1> QED
  BY <1>1, <1>2, NamesOfRenamed

LEMMA SimilarRenamed ==
    ASSUME NEW m, NEW c, Pair(m, c), NEW s, Similar(s, m, c), NEW cl \in PlanClauses,
           ~Invalid(cl, s.m, s.c), cl.op \in {"change", "rename"},
           CurrentName(m.fields, c.fields, cl.name, cl.to) # cl.to
    PROVE  Similar(AfterClause(cl, s), RenameStructureField(m, cl.name, cl.to),
                   RenameStructureField(c, cl.name, cl.to))
<1> DEFINE t == AfterClause(cl, s)
           n == cl.name
           d == cl.to
           x == Field(n, cl.type)
           y == Field(n, ConvertFieldType[cl.type])
           sm == IF cl.op = "change" THEN UpdateField(s.m, x) ELSE s.m
           sc == IF cl.op = "change" THEN UpdateField(s.c, y) ELSE s.c
<1>1. /\ KnownType(cl)
      /\ CurrentName(s.m.fields, s.c.fields, cl.name, cl.to) = n
      /\ n # d
  BY ValidClause
<1>2. n \in ColumnNames /\ d \in ColumnNames /\ ~KeyColumn(n)
  BY PlanClauseOps
<1>3. cl.op = "change" => x \in FieldsOf(STRING) /\ y \in FieldsOf(STRING)
  BY <1>1, <1>2, ClauseField
<1>4. t.m = RenameStructureField(sm, n, d) /\ t.c = RenameStructureField(sc, n, d)
  BY <1>1 DEF AfterClause, Applied
<1>5. /\ s.m \in StructureOf(STRING) /\ s.m.keys = PrimaryKeys /\ s.m.ids = Ids(s.m.fields)
      /\ s.c \in StructureOf(STRING) /\ s.c.keys = PrimaryKeys /\ s.c.ids = Ids(s.c.fields)
      /\ Names(s.m.fields) = Names(m.fields)
      /\ Names(s.c.fields) = Names(c.fields)
  BY DEF Similar
<1> HIDE DEF t, x, y, n, d
<1>6. /\ sm \in StructureOf(STRING) /\ sm.keys = PrimaryKeys /\ Names(sm.fields) = Names(s.m.fields)
      /\ sc \in StructureOf(STRING) /\ sc.keys = PrimaryKeys /\ Names(sc.fields) = Names(s.c.fields)
  BY <1>3, <1>5, UpdateFieldShape, UpdateKeepsNames
<1>7. /\ m \in StructureOf(KnownTypes) /\ m.keys = PrimaryKeys
      /\ c \in StructureOf(STRING) /\ c.keys = PrimaryKeys
  BY DEF Pair
<1> HIDE DEF sm, sc
<1>8. /\ Names(t.m.fields) = Names(RenameStructureField(m, n, d).fields)
      /\ Names(t.c.fields) = Names(RenameStructureField(c, n, d).fields)
  BY <1>2, <1>4, <1>5, <1>6, <1>7, RenameByNames
<1>9. /\ t.m \in StructureOf(STRING) /\ t.m.keys = PrimaryKeys /\ t.m.ids = Ids(t.m.fields)
      /\ t.c \in StructureOf(STRING) /\ t.c.keys = PrimaryKeys /\ t.c.ids = Ids(t.c.fields)
  BY <1>2, <1>4, <1>6, RenameStructureFieldShape DEF KeyColumn
<1>10. Similar(t, RenameStructureField(m, n, d), RenameStructureField(c, n, d))
  BY <1>8, <1>9, SimilarStructures
<1> QED
  BY <1>10 DEF t, n, d

-----------------------------------------------------------------------------
(* A plan that passed validation: copy is the sequence of structures that  *)
(* _validate_alter_plan went through, from the clause at the head on.      *)

Foreseen(ops, m, c) ==
    \E copy : /\ Similar(copy[0], m, c)
              /\ \A i \in 1..Len(ops) : /\ ~Invalid(ops[i], copy[i - 1].m, copy[i - 1].c)
                                        /\ copy[i] = AfterClause(ops[i], copy[i - 1])

LEMMA KnownTypesAreStrings ==
    ASSUME NEW m \in StructureOf(KnownTypes)
    PROVE  m \in StructureOf(STRING)
<1>1. FieldsOf(KnownTypes) \subseteq FieldsOf(STRING)
  BY SchemaAssumption DEF FieldsOf, KnownTypes
<1>2. m.fields \in Seq(FieldsOf(STRING))
  <2>1. m.fields \in Seq(FieldsOf(KnownTypes))
    BY DEF StructureOf
  <2> QED
    BY <1>1, <2>1, SeqMonotonic
<1> QED
  BY <1>2 DEF StructureOf

LEMMA ForeseenPlan ==
    ASSUME NEW m, NEW c, Pair(m, c), NEW ops, Len(ops) \in Nat, PlanValid(ops, m, c),
           DOMAIN ops = 1..Len(ops)
    PROVE  Foreseen(ops, m, c)
<1> DEFINE copy == PlanStructures(ops, m, c)
<1>1. /\ copy[0] = [m |-> m, c |-> c]
      /\ \A i \in 1..Len(ops) : copy[i] = AfterClause(ops[i], copy[i - 1])
  BY PlanStructuresMeaning
<1>2. \A i \in 1..Len(ops) : ~Invalid(ops[i], copy[i - 1].m, copy[i - 1].c)
  BY DEF PlanValid
<1> HIDE DEF copy
<1>3. Similar(copy[0], m, c)
  <2>1. copy[0].m = m /\ copy[0].c = c
    BY <1>1
  <2>2. m \in StructureOf(STRING) /\ c.ids = Ids(c.fields)
    BY KnownTypesAreStrings, PairFields, IdsByNames DEF Pair
  <2> QED
    BY <2>1, <2>2 DEF Similar, Pair
<1> QED
  BY <1>1, <1>2, <1>3 DEF Foreseen

LEMMA ForeseenHead ==
    ASSUME NEW m, NEW c, NEW ops \in Seq(PlanClauses), ops # <<>>, Foreseen(ops, m, c)
    PROVE  /\ Head(ops) \in PlanClauses
           /\ Tail(ops) \in Seq(PlanClauses)
           /\ \E s : /\ Similar(s, m, c)
                     /\ ~Invalid(Head(ops), s.m, s.c)
                     /\ \A mm, cc : Similar(AfterClause(Head(ops), s), mm, cc) =>
                                      Foreseen(Tail(ops), mm, cc)
<1>1. PICK copy : /\ Similar(copy[0], m, c)
                  /\ \A i \in 1..Len(ops) : /\ ~Invalid(ops[i], copy[i - 1].m, copy[i - 1].c)
                                            /\ copy[i] = AfterClause(ops[i], copy[i - 1])
  BY DEF Foreseen
<1>2. /\ Len(ops) \in Nat \ {0} /\ Head(ops) = ops[1]
      /\ Head(ops) \in PlanClauses /\ Tail(ops) \in Seq(PlanClauses)
      /\ Len(Tail(ops)) = Len(ops) - 1
      /\ \A i \in 1..(Len(ops) - 1) : Tail(ops)[i] = ops[i + 1]
  BY HeadTailProperties
<1> DEFINE rest == Tail(ops)
           n == Len(ops) - 1
           next == [i \in 0..n |-> copy[i + 1]]
<1>3. 1 \in 1..Len(ops) /\ 1 - 1 = 0 /\ n \in Nat
  BY <1>2
<1>4. ~Invalid(Head(ops), copy[0].m, copy[0].c) /\ copy[1] = AfterClause(Head(ops), copy[0])
  BY <1>1, <1>2, <1>3
<1>5. ASSUME NEW i \in 1..n
      PROVE  /\ ~Invalid(rest[i], next[i - 1].m, next[i - 1].c)
             /\ next[i] = AfterClause(rest[i], next[i - 1])
  <2>1. i + 1 \in 1..Len(ops) /\ (i + 1) - 1 = i /\ i \in 0..n /\ i - 1 \in 0..n /\ (i - 1) + 1 = i
    BY <1>2
  <2>2. next[i] = copy[i + 1] /\ next[i - 1] = copy[i] /\ rest[i] = ops[i + 1]
    BY <1>2, <2>1
  <2>3. /\ ~Invalid(ops[i + 1], copy[i].m, copy[i].c)
        /\ copy[i + 1] = AfterClause(ops[i + 1], copy[i])
    BY <1>1, <2>1
  <2> QED
    BY <2>2, <2>3
<1>6. next[0] = copy[1] /\ Len(rest) = n
  BY <1>2, <1>3
<1> HIDE DEF rest, n, next
<1>7. ASSUME NEW mm, NEW cc, Similar(AfterClause(Head(ops), copy[0]), mm, cc)
      PROVE  Foreseen(rest, mm, cc)
  <2>1. Similar(next[0], mm, cc)
    BY <1>4, <1>6, <1>7
  <2> QED
    BY <1>5, <1>6, <2>1 DEF Foreseen
<1> QED
  BY <1>1, <1>2, <1>4, <1>7 DEF rest

-----------------------------------------------------------------------------
(* The structures in memory and on disk. *)

LogInv ==
    /\ log \in Seq(Seq(Clauses))
    /\ \A n \in 1..Len(log) : \A i \in 1..Len(log[n]) :
         Category(log[n][i]) = "column_change" => ~KeyColumn(log[n][i].name)
    /\ pc \in {"down", "loop", "alter"}
    /\ done \in Nat
    /\ pc = "alter" => done < Len(log)

StructureInv ==
    /\ Pair(saved.mysql_structure, saved.ch_structure)
    /\ IF pc = "down" THEN mysql_structure = NoStructure /\ ch_structure = NoStructure
       ELSE Pair(mysql_structure, ch_structure)
    /\ pc = "alter" => plan \in Seq(PlanClauses) /\ Foreseen(plan, mysql_structure, ch_structure)

(* The checkpoint in memory is never behind the saved one, and a clause is  *)
(* executed in ClickHouse only for a statement of the log.                 *)
CounterInv ==
    /\ last \in Nat /\ done \in Nat /\ begun \in Nat /\ saved.last \in Nat
    /\ saved.last <= begun /\ begun <= Len(log)
    /\ pc # "down" => saved.last <= last /\ last <= done /\ done <= begun
    /\ pc = "down" => plan = <<>>

PlanningInv == LogInv /\ CounterInv /\ StructureInv

LEMMA PlanOfStatement ==
    ASSUME LogInv, NEW n \in 1..Len(log)
    PROVE  ColumnChanges(log[n]) \in Seq(PlanClauses)
<1> DEFINE ops == ColumnChanges(log[n])
<1>1. log[n] \in Seq(Clauses)
  BY ElementOfSeq DEF LogInv
<1>2. /\ ops \in Seq(Clauses)
      /\ \A i \in 1..Len(ops) : /\ Category(ops[i]) = "column_change"
                                /\ \E j \in 1..Len(log[n]) : ops[i] = log[n][j]
  BY <1>1, ColumnChangesAreColumnClauses
<1> HIDE DEF ops
<1>3. \A i \in 1..Len(ops) : ops[i] \in PlanClauses
  <2> TAKE i \in 1..Len(ops)
  <2>1. PICK j \in 1..Len(log[n]) : ops[i] = log[n][j]
    BY <1>2
  <2>2. ops[i] \in Clauses
    BY <1>2, ElementOfSeq
  <2>3. Category(ops[i]) = "column_change"
    BY <1>2
  <2>4. ~KeyColumn(ops[i].name)
    BY <2>1, <2>3 DEF LogInv
  <2> QED
    BY <2>2, <2>3, <2>4 DEF PlanClauses
<1>4. ops \in Seq(PlanClauses)
  <2>1. Len(ops) \in Nat /\ ops = [i \in 1..Len(ops) |-> ops[i]]
    BY <1>2
  <2> QED
    BY <1>3, <2>1, IsASeq
<1> QED
  BY <1>4 DEF ops

LEMMA LogInvInit ==
    ASSUME Init
    PROVE  LogInv
  BY DEF Init, LogInv

LEMMA LogInvStep ==
    ASSUME LogInv, saved.last \in Nat, [Next]_vars
    PROVE  LogInv'
<1>1. CASE MySQLAlters
  <2>1. PICK stmt \in Statements : Legal(Current, stmt) /\ log' = Append(log, stmt)
    BY <1>1 DEF MySQLAlters
  <2>2. stmt \in Seq(Clauses)
    BY SchemaAssumption
  <2>3. \A i \in 1..Len(stmt) : Category(stmt[i]) = "column_change" => ~KeyColumn(stmt[i].name)
    <3>1. DOMAIN stmt = 1..Len(stmt)
      BY <2>2
    <3> QED
      BY <2>1, <3>1 DEF Legal, KeyColumn
  <2>4. log \in Seq(Seq(Clauses))
    BY DEF LogInv
  <2>5. /\ log' \in Seq(Seq(Clauses)) /\ Len(log') = Len(log) + 1 /\ Len(log) \in Nat
        /\ \A n \in 1..Len(log) : log'[n] = log[n]
        /\ log'[Len(log) + 1] = stmt
    BY <2>1, <2>2, <2>4, AppendProperties
  <2>6. ASSUME NEW n \in 1..Len(log'), NEW i \in 1..Len(log'[n]), Category(log'[n][i]) = "column_change"
        PROVE  ~KeyColumn(log'[n][i].name)
    <3>1. CASE n = Len(log) + 1
      BY <2>3, <2>5, <2>6, <3>1
    <3>2. CASE n # Len(log) + 1
      <4>1. n \in 1..Len(log) /\ log'[n] = log[n]
        BY <2>5, <3>2
      <4> QED
        BY <2>6, <4>1 DEF LogInv
    <3> QED
      BY <3>1, <3>2
  <2>7. pc' = pc /\ done' = done
    BY <1>1 DEF MySQLAlters, memory
  <2>8. pc' = "alter" => done' < Len(log')
    BY <2>5, <2>7 DEF LogInv
  <2> QED
    BY <2>5, <2>6, <2>7, <2>8 DEF LogInv
<1>2. CASE UNCHANGED <<log, pc, done>>
  BY <1>2 DEF LogInv
<1>3. ASSUME UNCHANGED log, pc' \in {"down", "loop", "alter"}, done' \in Nat,
             pc' = "alter" => done' < Len(log)
      PROVE  LogInv'
  BY <1>3 DEF LogInv
<1>4. CASE Start
  BY <1>3, <1>4 DEF Start
<1>5. CASE HandleAlterQuery
  <2>1. Len(log) \in Nat
    BY DEF LogInv
  <2> QED
    BY <1>3, <1>5 DEF HandleAlterQuery, LogInv
<1>6. CASE ProcessEnds
  BY <1>3, <1>6 DEF ProcessEnds
<1>7. CASE FinishAlter
  BY <1>3, <1>7 DEF FinishAlter, LogInv
<1>8. CASE UNCHANGED vars
  BY <1>2, <1>8 DEF vars, memory
<1>9. CASE SkipClause \/ AddColumn \/ DropColumn \/ ModifyColumn \/ ChangeColumnType \/ RenameColumn \/ ReadNothing
  BY <1>2, <1>9 DEF SkipClause, AddColumn, DropColumn, ModifyColumn, ChangeColumnType, RenameColumn,
                    ReadNothing, Sends
<1> QED
  BY <1>1, <1>4, <1>5, <1>6, <1>7, <1>8, <1>9
     DEF Next, RejectAlterQuery, CommandRefused, Stop, Crash

-----------------------------------------------------------------------------
(* The clause at the head of a plan, and the step that executes it. *)

LEMMA HeadOfPlan ==
    ASSUME StructureInv, pc = "alter", plan # <<>>
    PROVE  /\ Pair(mysql_structure, ch_structure)
           /\ Op \in PlanClauses
           /\ Tail(plan) \in Seq(PlanClauses)
           /\ \E s : /\ Similar(s, mysql_structure, ch_structure)
                     /\ ~Invalid(Op, s.m, s.c)
                     /\ \A mm, cc : Similar(AfterClause(Op, s), mm, cc) => Foreseen(Tail(plan), mm, cc)
<1>1. /\ Pair(mysql_structure, ch_structure)
      /\ plan \in Seq(PlanClauses) /\ Foreseen(plan, mysql_structure, ch_structure)
  BY DEF StructureInv
<1> QED
  BY <1>1, ForeseenHead DEF Op

(* What execution finds of the clause at the head. *)
LEMMA HeadIsValid ==
    ASSUME StructureInv, pc = "alter", plan # <<>>
    PROVE  /\ KnownType(Op)
           /\ Op.op = "add" /\ ~Has(mysql_structure.fields, Op.name) =>
                Placed(mysql_structure.fields, OpAfter)
           /\ Op.op = "modify" => Has(mysql_structure.fields, Op.name)
           /\ Op.op \in {"change", "rename"} =>
                /\ OpName \in {Op.name, Op.to} /\ Has(mysql_structure.fields, OpName)
                /\ OpName # Op.to => OpName = Op.name /\ ~Has(mysql_structure.fields, Op.to)
           /\ ~ClauseFails(Op, mysql_structure.fields, ch_structure.fields)
           /\ Op.op \in ColumnOps /\ Op.name \in ColumnNames /\ Op.to \in ColumnNames
           /\ ~KeyColumn(Op.name)
           /\ \A n : Has(ch_structure.fields, n) <=> Has(mysql_structure.fields, n)
<1>1. PICK s : Similar(s, mysql_structure, ch_structure) /\ ~Invalid(Op, s.m, s.c)
  BY HeadOfPlan
<1>2. Pair(mysql_structure, ch_structure) /\ Op \in PlanClauses
  BY HeadOfPlan
<1>3. ~ClauseFails(Op, mysql_structure.fields, ch_structure.fields)
  BY <1>1, <1>2, ValidClauseNeverFails
<1>4. Op.op \in ColumnOps /\ Op.name \in ColumnNames /\ Op.to \in ColumnNames /\ ~KeyColumn(Op.name)
  BY <1>2, PlanClauseOps
<1>5. \A n : Has(ch_structure.fields, n) <=> Has(mysql_structure.fields, n)
  BY <1>2, PairFields
<1>6. /\ KnownType(Op)
      /\ Op.op = "add" /\ ~Has(mysql_structure.fields, Op.name) =>
           Placed(mysql_structure.fields, OpAfter)
      /\ Op.op = "modify" => Has(mysql_structure.fields, Op.name)
      /\ Op.op \in {"change", "rename"} =>
           /\ OpName \in {Op.name, Op.to} /\ Has(mysql_structure.fields, OpName)
           /\ OpName # Op.to => OpName = Op.name /\ ~Has(mysql_structure.fields, Op.to)
  BY <1>1, <1>2, ValidClause DEF OpAfter, OpName
<1> QED
  BY <1>3, <1>4, <1>5, <1>6

(* The structures after a step that takes the clause off the plan.         *)
LEMMA ClauseTaken ==
    ASSUME StructureInv, pc = "alter", plan # <<>>, plan' = Tail(plan),
           UNCHANGED <<saved, pc>>, Pair(mysql_structure', ch_structure'),
           \A s : Similar(s, mysql_structure, ch_structure) /\ ~Invalid(Op, s.m, s.c) =>
                    Similar(AfterClause(Op, s), mysql_structure', ch_structure')
    PROVE  StructureInv'
<1>1. /\ Tail(plan) \in Seq(PlanClauses)
      /\ \E s : /\ Similar(s, mysql_structure, ch_structure)
                /\ ~Invalid(Op, s.m, s.c)
                /\ \A mm, cc : Similar(AfterClause(Op, s), mm, cc) => Foreseen(Tail(plan), mm, cc)
  BY HeadOfPlan
<1>2. Foreseen(Tail(plan), mysql_structure', ch_structure')
  BY <1>1
<1>3. Foreseen(plan', mysql_structure', ch_structure')
  BY <1>2
<1> QED
  BY <1>1, <1>3 DEF StructureInv

LEMMA StructureInvSkip ==
    ASSUME StructureInv, SkipClause
    PROVE  StructureInv'
<1>1. pc = "alter" /\ plan # <<>> /\ plan' = Tail(plan) /\ UNCHANGED <<saved, pc, structures>>
  BY DEF SkipClause, NothingToDo, Executing
<1>2. Pair(mysql_structure, ch_structure) /\ Op \in PlanClauses
  BY <1>1, HeadOfPlan
<1>3. \/ Op.op = "add" /\ Has(mysql_structure.fields, Op.name)
      \/ Op.op = "drop" /\ ~Has(mysql_structure.fields, Op.name)
      \/ Op.op \in {"change", "rename"} /\ OpName = Op.to
  BY DEF SkipClause, NothingToDo, Executing, Op
<1>4. ASSUME NEW s, Similar(s, mysql_structure, ch_structure), ~Invalid(Op, s.m, s.c)
      PROVE  Similar(AfterClause(Op, s), mysql_structure, ch_structure)
  BY <1>2, <1>3, <1>4, SimilarSkipped DEF OpName
<1>5. mysql_structure' = mysql_structure /\ ch_structure' = ch_structure
  BY <1>1 DEF structures
<1> QED
  BY <1>1, <1>2, <1>4, <1>5, ClauseTaken

LEMMA StructureInvAdd ==
    ASSUME StructureInv, AddColumn
    PROVE  StructureInv'
<1>1. /\ pc = "alter" /\ plan # <<>> /\ plan' = Tail(plan) /\ UNCHANGED <<saved, pc>>
      /\ Op.op = "add"
      /\ mysql_structure' = AddField(mysql_structure, OpField(Op.name), OpAfter)
      /\ ch_structure' = AddField(ch_structure, OpFieldCh(Op.name), OpAfter)
  BY DEF AddColumn, Executing, Sends, Op
<1>2. Pair(mysql_structure, ch_structure) /\ Op \in PlanClauses
  BY <1>1, HeadOfPlan
<1>3. ~Has(mysql_structure.fields, Op.name)
  <2>1. ~(Has(mysql_structure.fields, Op.name) /\ Has(ch_structure.fields, Op.name))
    BY DEF AddColumn, NothingToDo
  <2> QED
    BY <1>1, <2>1, HeadIsValid
<1>4. Placed(mysql_structure.fields, OpAfter) /\ KnownType(Op) /\ Op.name \in ColumnNames
  BY <1>1, <1>3, HeadIsValid
<1>5. /\ OpField(Op.name) \in FieldsOf(KnownTypes)
      /\ OpField(Op.name).name = Op.name
      /\ ConvertedField(OpField(Op.name)) = OpFieldCh(Op.name)
  BY <1>1, <1>2, <1>4, ClauseField DEF OpField, OpFieldCh
<1>6. Pair(mysql_structure', ch_structure')
  BY <1>1, <1>2, <1>3, <1>4, <1>5, PairAdd
<1>7. ASSUME NEW s, Similar(s, mysql_structure, ch_structure), ~Invalid(Op, s.m, s.c)
      PROVE  Similar(AfterClause(Op, s), mysql_structure', ch_structure')
  BY <1>1, <1>2, <1>3, <1>7, SimilarAdded DEF OpField, OpFieldCh, OpAfter
<1> QED
  BY <1>1, <1>6, <1>7, ClauseTaken

LEMMA StructureInvDrop ==
    ASSUME StructureInv, DropColumn
    PROVE  StructureInv'
<1>1. /\ pc = "alter" /\ plan # <<>> /\ plan' = Tail(plan) /\ UNCHANGED <<saved, pc>>
      /\ Op.op = "drop"
      /\ mysql_structure' = RemoveField(mysql_structure, Op.name)
      /\ ch_structure' = RemoveField(ch_structure, Op.name)
  BY DEF DropColumn, Executing, Sends, Op
<1>2. Pair(mysql_structure, ch_structure) /\ Op \in PlanClauses
  BY <1>1, HeadOfPlan
<1>3. Has(mysql_structure.fields, Op.name)
  <2>1. Has(mysql_structure.fields, Op.name) \/ Has(ch_structure.fields, Op.name)
    BY DEF DropColumn, NothingToDo
  <2> QED
    BY <1>1, <2>1, HeadIsValid
<1>4. Pair(mysql_structure', ch_structure')
  BY <1>1, <1>2, <1>3, PairRemove
<1>5. ASSUME NEW s, Similar(s, mysql_structure, ch_structure), ~Invalid(Op, s.m, s.c)
      PROVE  Similar(AfterClause(Op, s), mysql_structure', ch_structure')
  BY <1>1, <1>2, <1>3, <1>5, SimilarRemoved
<1> QED
  BY <1>1, <1>4, <1>5, ClauseTaken

LEMMA StructureInvModify ==
    ASSUME StructureInv, ModifyColumn
    PROVE  StructureInv'
<1>1. /\ pc = "alter" /\ plan # <<>> /\ plan' = Tail(plan) /\ UNCHANGED <<saved, pc>>
      /\ Op.op = "modify"
      /\ mysql_structure' = UpdateField(mysql_structure, OpField(Op.name))
      /\ ch_structure' = UpdateField(ch_structure, OpFieldCh(Op.name))
  BY DEF ModifyColumn, Executing, Sends, Op
<1>2. Pair(mysql_structure, ch_structure) /\ Op \in PlanClauses
  BY <1>1, HeadOfPlan
<1>3. KnownType(Op) /\ Op.name \in ColumnNames
  BY <1>1, HeadIsValid
<1>4. /\ OpField(Op.name) \in FieldsOf(KnownTypes)
      /\ ConvertedField(OpField(Op.name)) = OpFieldCh(Op.name)
  BY <1>1, <1>2, <1>3, ClauseField DEF OpField, OpFieldCh
<1>5. Pair(mysql_structure', ch_structure')
  BY <1>1, <1>2, <1>4, PairUpdate
<1>6. ASSUME NEW s, Similar(s, mysql_structure, ch_structure), ~Invalid(Op, s.m, s.c)
      PROVE  Similar(AfterClause(Op, s), mysql_structure', ch_structure')
  BY <1>1, <1>2, <1>6, SimilarModified DEF OpField, OpFieldCh
<1> QED
  BY <1>1, <1>5, <1>6, ClauseTaken

LEMMA StructureInvChange ==
    ASSUME StructureInv, ChangeColumnType
    PROVE  StructureInv'
<1>1. /\ pc = "alter" /\ plan # <<>> /\ UNCHANGED <<saved, pc, plan>>
      /\ Op.op = "change"
      /\ mysql_structure' = UpdateField(mysql_structure, OpField(OpName))
      /\ ch_structure' = UpdateField(ch_structure, OpFieldCh(OpName))
  BY DEF ChangeColumnType, Executing, Sends, Op
<1>2. Pair(mysql_structure, ch_structure) /\ Op \in PlanClauses
  BY <1>1, HeadOfPlan
<1>3. KnownType(Op) /\ OpName \in ColumnNames
  BY <1>1, HeadIsValid
<1>4. /\ OpField(OpName) \in FieldsOf(KnownTypes)
      /\ ConvertedField(OpField(OpName)) = OpFieldCh(OpName)
  BY <1>1, <1>2, <1>3, ClauseField DEF OpField, OpFieldCh
<1>5. Pair(mysql_structure', ch_structure')
  BY <1>1, <1>2, <1>4, PairUpdate
<1>6. plan \in Seq(PlanClauses) /\ Foreseen(plan, mysql_structure, ch_structure)
  BY <1>1 DEF StructureInv
<1>7. Foreseen(plan, mysql_structure', ch_structure')
  <2>1. \A s : Similar(s, mysql_structure, ch_structure) => Similar(s, mysql_structure', ch_structure')
    BY <1>1, <1>2, <1>4, SimilarUpdated
  <2> QED
    BY <1>6, <2>1 DEF Foreseen
<1>8. Foreseen(plan', mysql_structure', ch_structure') /\ plan' \in Seq(PlanClauses)
  BY <1>1, <1>6, <1>7
<1> QED
  BY <1>1, <1>5, <1>8 DEF StructureInv

LEMMA StructureInvRename ==
    ASSUME StructureInv, RenameColumn
    PROVE  StructureInv'
<1>1. /\ pc = "alter" /\ plan # <<>> /\ plan' = Tail(plan) /\ UNCHANGED <<saved, pc>>
      /\ Op.op \in {"change", "rename"} /\ OpName # Op.to
      /\ mysql_structure' = RenameStructureField(mysql_structure, OpName, Op.to)
      /\ ch_structure' = RenameStructureField(ch_structure, OpName, Op.to)
  BY DEF RenameColumn, Renaming, Executing, Sends, Op
<1>2. Pair(mysql_structure, ch_structure) /\ Op \in PlanClauses
  BY <1>1, HeadOfPlan
<1>3. /\ OpName = Op.name /\ ~Has(mysql_structure.fields, Op.to)
      /\ Op.to \in ColumnNames /\ ~KeyColumn(Op.name)
  BY <1>1, HeadIsValid
<1>4. Pair(mysql_structure', ch_structure')
  BY <1>1, <1>2, <1>3, PairRename DEF KeyColumn
<1>5. ASSUME NEW s, Similar(s, mysql_structure, ch_structure), ~Invalid(Op, s.m, s.c)
      PROVE  Similar(AfterClause(Op, s), mysql_structure', ch_structure')
  BY <1>1, <1>2, <1>3, <1>5, SimilarRenamed DEF OpName
<1> QED
  BY <1>1, <1>4, <1>5, ClauseTaken

LEMMA SavedPair ==
    ASSUME NEW l, NEW m, NEW c, Pair(m, c), Pair(saved.mysql_structure, saved.ch_structure),
           SaveStateIfRequired(l, m, c)
    PROVE  Pair(saved'.mysql_structure, saved'.ch_structure)
  BY DEF SaveStateIfRequired, Save

LEMMA StructureInvEnd ==
    ASSUME Pair(saved'.mysql_structure, saved'.ch_structure), ProcessEnds
    PROVE  StructureInv'
  BY DEF StructureInv, ProcessEnds

LEMMA StructureInvStep ==
    ASSUME LogInv, StructureInv, saved.last \in Nat, [Next]_vars
    PROVE  StructureInv'
<1>1. CASE MySQLAlters
  BY <1>1 DEF MySQLAlters, memory, structures, StructureInv
<1>2. CASE Start
  BY <1>2 DEF Start, StructureInv
<1>3. CASE HandleAlterQuery
  <2> DEFINE stmt == log[done + 1]
             ops == ColumnChanges(stmt)
  <2>1. /\ pc = "loop" /\ pc' = "alter" /\ done < Len(log) /\ plan' = ops
        /\ PlanValid(ops, mysql_structure, ch_structure)
        /\ SaveStateIfRequired(done, mysql_structure, ch_structure)
        /\ mysql_structure' = mysql_structure /\ ch_structure' = ch_structure
    BY <1>3 DEF HandleAlterQuery, Uploaded, structures
  <2>2. Pair(mysql_structure, ch_structure)
    BY <2>1 DEF StructureInv
  <2>3. done + 1 \in 1..Len(log)
    <3>1. done \in Nat /\ Len(log) \in Nat
      BY DEF LogInv
    <3> QED
      BY <2>1, <3>1
  <2>4. ops \in Seq(PlanClauses)
    BY <2>3, PlanOfStatement
  <2> HIDE DEF ops
  <2>5. Foreseen(ops, mysql_structure, ch_structure)
    <3>1. Len(ops) \in Nat /\ DOMAIN ops = 1..Len(ops)
      BY <2>4
    <3> QED
      BY <2>1, <2>2, <3>1, ForeseenPlan
  <2>6. Pair(saved'.mysql_structure, saved'.ch_structure)
    BY <2>1, <2>2, SavedPair DEF StructureInv
  <2>7. plan' \in Seq(PlanClauses) /\ Foreseen(plan', mysql_structure', ch_structure')
    BY <2>1, <2>4, <2>5
  <2> QED
    BY <2>1, <2>2, <2>6, <2>7 DEF StructureInv
<1>4. CASE RejectAlterQuery
  <2>1. /\ pc = "loop" /\ ProcessEnds
        /\ SaveStateIfRequired(done, mysql_structure, ch_structure)
    BY <1>4 DEF RejectAlterQuery
  <2>2. Pair(saved'.mysql_structure, saved'.ch_structure)
    BY <2>1, SavedPair DEF StructureInv
  <2> QED
    BY <2>1, <2>2, StructureInvEnd
<1>5. CASE FinishAlter
  <2>1. /\ pc = "alter" /\ pc' = "loop" /\ structures' = structures
        /\ SaveStateIfRequired(last', mysql_structure, ch_structure)
    BY <1>5 DEF FinishAlter
  <2>2. Pair(mysql_structure, ch_structure)
    BY <2>1 DEF StructureInv
  <2>3. Pair(saved'.mysql_structure, saved'.ch_structure)
    BY <2>1, <2>2, SavedPair DEF StructureInv
  <2> QED
    BY <2>1, <2>2, <2>3 DEF StructureInv, structures
<1>6. CASE ReadNothing
  <2>1. /\ pc = "loop" /\ pc' = pc /\ structures' = structures
        /\ SaveStateIfRequired(done, mysql_structure, ch_structure)
    BY <1>6 DEF ReadNothing, Uploaded
  <2>2. Pair(mysql_structure, ch_structure)
    BY <2>1 DEF StructureInv
  <2>3. Pair(saved'.mysql_structure, saved'.ch_structure)
    BY <2>1, <2>2, SavedPair DEF StructureInv
  <2> QED
    BY <2>1, <2>2, <2>3 DEF StructureInv, structures
<1>7. CASE Stop
  <2>1. pc = "loop" /\ ProcessEnds /\ Save(done, mysql_structure, ch_structure)
    BY <1>7 DEF Stop
  <2>2. Pair(saved'.mysql_structure, saved'.ch_structure)
    BY <2>1 DEF StructureInv, Save
  <2> QED
    BY <2>1, <2>2, StructureInvEnd
<1>8. CASE CommandRefused \/ Crash
  <2>1. ProcessEnds /\ saved' = saved
    BY <1>8 DEF CommandRefused, Crash
  <2>2. Pair(saved'.mysql_structure, saved'.ch_structure)
    BY <2>1 DEF StructureInv
  <2> QED
    BY <2>1, <2>2, StructureInvEnd
<1>9. CASE UNCHANGED vars
  BY <1>9 DEF StructureInv, vars, memory, structures
<1> QED
  BY <1>1, <1>2, <1>3, <1>4, <1>5, <1>6, <1>7, <1>8, <1>9, StructureInvSkip, StructureInvAdd,
     StructureInvDrop, StructureInvModify, StructureInvChange, StructureInvRename
     DEF Next

LEMMA InitialPair ==
    /\ Pair(InitialStructure, ConvertTableStructure(InitialStructure))
    /\ InitialStructure.fields = InitialFields
<1>1. InitialFields \in Seq(FieldsOf(KnownTypes))
  <2>1. [name : Columns, type : DOMAIN ConvertFieldType] \subseteq FieldsOf(KnownTypes)
    BY DEF FieldsOf, KnownTypes, ColumnNames
  <2>2. InitialFields \in Seq([name : Columns, type : DOMAIN ConvertFieldType])
    BY SchemaAssumption
  <2> QED
    BY <2>1, <2>2, SeqMonotonic
<1>2. Unique(InitialFields)
  BY SchemaAssumption DEF Unique
<1> QED
  BY <1>1, <1>2, AgreeingPair DEF InitialStructure

LEMMA StructureInvInit ==
    ASSUME Init
    PROVE  StructureInv
  BY InitialPair DEF Init, StructureInv

LEMMA LaterOfTwo ==
    ASSUME NEW a \in Nat, NEW b \in Nat
    PROVE  /\ Max({a, b}) \in Nat /\ a <= Max({a, b}) /\ b <= Max({a, b})
           /\ Max({a, b}) = a \/ Max({a, b}) = b
<1>1. \E x \in {a, b} : \A y \in {a, b} : x >= y
  OBVIOUS
<1>2. Max({a, b}) \in {a, b} /\ \A y \in {a, b} : Max({a, b}) >= y
  BY <1>1 DEF Max
<1> QED
  BY <1>2

LEMMA CounterInvInit ==
    ASSUME Init
    PROVE  CounterInv
  BY DEF Init, CounterInv

LEMMA LogLength ==
    ASSUME LogInv
    PROVE  Len(log) \in Nat
  BY DEF LogInv

LEMMA CounterInvSends ==
    ASSUME LogInv, CounterInv, Sends, pc = "alter"
    PROVE  CounterInv'
<1>1. Len(log) \in Nat /\ done < Len(log)
  BY LogLength DEF LogInv
<1>2. /\ begun' = Max({begun, done + 1})
      /\ UNCHANGED <<log, saved, pc, last, done>>
  BY DEF Sends
<1>3. begun \in Nat /\ done \in Nat /\ last \in Nat /\ saved.last \in Nat
  BY DEF CounterInv
<1>4. /\ begun' \in Nat /\ begun <= begun' /\ done + 1 <= begun'
      /\ begun' = begun \/ begun' = done + 1
  BY <1>2, <1>3, LaterOfTwo
<1> QED
  BY <1>1, <1>2, <1>3, <1>4 DEF CounterInv

LEMMA CounterInvEnds ==
    ASSUME CounterInv, ProcessEnds, begun' = begun, saved' = saved \/ saved'.last = done, pc # "down"
    PROVE  CounterInv'
  BY DEF CounterInv, ProcessEnds

LEMMA CounterInvStep ==
    ASSUME LogInv, CounterInv, [Next]_vars
    PROVE  CounterInv'
<1>1. Len(log) \in Nat
  BY LogLength
<1>2. CASE MySQLAlters
  <2>1. PICK stmt : log' = Append(log, stmt)
    BY <1>2 DEF MySQLAlters
  <2>2. Len(log') = Len(log) + 1
    BY <2>1 DEF LogInv
  <2>3. UNCHANGED <<saved, pc, last, done, begun, plan>>
    BY <1>2 DEF MySQLAlters, memory
  <2> QED
    BY <1>1, <2>2, <2>3 DEF CounterInv
<1>3. CASE Start
  BY <1>3 DEF Start, CounterInv
<1>4. CASE HandleAlterQuery \/ ReadNothing
  <2>1. /\ pc = "loop" /\ pc' # "down" /\ UNCHANGED <<log, done, begun>> /\ last' = done
        /\ saved' = saved \/ saved'.last = done
    BY <1>4 DEF HandleAlterQuery, ReadNothing, Uploaded, SaveStateIfRequired, Save
  <2> QED
    BY <2>1 DEF CounterInv
<1>5. CASE RejectAlterQuery \/ CommandRefused \/ Stop \/ Crash
  <2>1. /\ pc # "down" /\ ProcessEnds /\ begun' = begun
        /\ saved' = saved \/ saved'.last = done
    BY <1>5 DEF RejectAlterQuery, CommandRefused, Executing, Renaming, Stop, Crash,
                SaveStateIfRequired, Save
  <2> QED
    BY <2>1, CounterInvEnds
<1>6. CASE SkipClause
  BY <1>6 DEF SkipClause, NothingToDo, Executing, CounterInv
<1>7. CASE AddColumn \/ DropColumn \/ ModifyColumn \/ ChangeColumnType \/ RenameColumn
  <2>1. pc = "alter" /\ Sends
    BY <1>7 DEF AddColumn, DropColumn, ModifyColumn, ChangeColumnType, RenameColumn, Renaming, Executing
  <2> QED
    BY <2>1, CounterInvSends
<1>8. CASE FinishAlter
  <2>1. /\ pc = "alter" /\ pc' = "loop" /\ done' = done + 1 /\ log' = log
        /\ begun' = Max({begun, done + 1})
        /\ last' \in {last, done + 1}
        /\ saved' = saved \/ saved'.last = last'
    BY <1>8 DEF FinishAlter, SaveStateIfRequired, Save
  <2>2. begun \in Nat /\ done \in Nat /\ done < Len(log)
    BY <2>1 DEF CounterInv, LogInv
  <2>3. /\ begun' \in Nat /\ begun <= begun' /\ done + 1 <= begun'
        /\ begun' = begun \/ begun' = done + 1
    BY <2>1, <2>2, LaterOfTwo
  <2> QED
    BY <1>1, <2>1, <2>2, <2>3 DEF CounterInv
<1>9. CASE UNCHANGED vars
  BY <1>9 DEF CounterInv, vars, memory
<1> QED
  BY <1>2, <1>3, <1>4, <1>5, <1>6, <1>7, <1>8, <1>9 DEF Next

LEMMA PlanningInvHolds == Spec => []PlanningInv
<1>1. Init => PlanningInv
  BY LogInvInit, CounterInvInit, StructureInvInit DEF PlanningInv
<1>2. PlanningInv /\ [Next]_vars => PlanningInv'
  <2> SUFFICES ASSUME PlanningInv, [Next]_vars
               PROVE  PlanningInv'
    OBVIOUS
  <2>1. LogInv /\ CounterInv /\ StructureInv /\ saved.last \in Nat
    BY DEF PlanningInv, CounterInv
  <2> QED
    BY <2>1, LogInvStep, CounterInvStep, StructureInvStep DEF PlanningInv
<1> QED
  BY <1>1, <1>2, PTL DEF Spec

LEMMA NothingConverted ==
    Preprocess(NoStructure) = NoStructure /\ ConvertTableStructure(NoStructure) = NoStructure
<1> DEFINE none == NoStructure
           ids == [i \in DOMAIN none.keys |-> Index(none.fields, none.keys[i])]
           converted == [i \in DOMAIN none.fields |->
                           Field(none.fields[i].name, ConvertFieldType[none.fields[i].type])]
<1>1. none = [fields |-> <<>>, keys |-> <<>>, ids |-> <<>>]
  BY DEF NoStructure
<1>2. none.fields = <<>> /\ none.keys = <<>> /\ none.ids = <<>>
  BY <1>1
<1>3. DOMAIN none.keys = {} /\ DOMAIN none.fields = {}
  BY <1>2
<1>4. ids = <<>> /\ converted = <<>>
  BY <1>3
<1>5. [none EXCEPT !.ids = ids] = none /\ [none EXCEPT !.fields = converted] = none
  <2> HIDE DEF ids, converted
  <2> QED
    BY <1>1, <1>4
<1>6. Preprocess(none) = none
  BY <1>5 DEF Preprocess
<1> QED
  BY <1>5, <1>6 DEF ConvertTableStructure

(* Whatever clauses, statements, stops and crashes came before, the two    *)
(* structures describe the same columns in the same order, the ClickHouse  *)
(* types are the converted ones and primary_key_ids point at the primary   *)
(* key: _get_record_id reads the key of a row where it is.                 *)
THEOREM StructuresAlwaysAgree == Spec => []StructuresAgree
<1>1. PlanningInv => StructuresAgree
  <2> SUFFICES ASSUME PlanningInv
               PROVE  StructuresAgree
    OBVIOUS
  <2>1. CASE pc = "down"
    <3>1. mysql_structure = NoStructure /\ ch_structure = NoStructure
      BY <2>1 DEF PlanningInv, StructureInv
    <3> QED
      BY <3>1, NothingConverted DEF StructuresAgree
  <2>2. CASE pc # "down"
    BY <2>2, PairAgrees DEF PlanningInv, StructureInv, StructuresAgree
  <2> QED
    BY <2>1, <2>2
<1> QED
  BY <1>1, PlanningInvHolds, PTL

(* A statement that passes validation never raises half way: validation on *)
(* the copy of the structures foresees what each clause finds, for any     *)
(* statement and any number of clauses, also when some of them find their  *)
(* work done by an execution before a crash.                               *)
THEOREM ValidPlansComplete == Spec => []PlanCompletes
<1>1. PlanningInv => PlanCompletes
  <2> SUFFICES ASSUME PlanningInv, pc = "alter", plan # <<>>
               PROVE  ~ClauseFails(Head(plan), mysql_structure.fields, ch_structure.fields)
    BY DEF PlanCompletes
  <2> QED
    BY HeadIsValid DEF PlanningInv, Op
<1> QED
  BY <1>1, PlanningInvHolds, PTL

-----------------------------------------------------------------------------
(* A command on a table that has been changed already. *)

LEMMA HasInserted ==
    ASSUME NEW T, NEW f \in Seq(FieldsOf(T)), NEW x \in FieldsOf(T), NEW pos, Placed(f, pos)
    PROVE  Has(Inserted(f, x, pos), x.name)
<1> DEFINE g == Inserted(f, x, pos)
<1>1. /\ g \in Seq(FieldsOf(T)) /\ Len(g) = Len(f) + 1
      /\ \A i \in 1..(Len(f) + 1) :
           g[i] = IF i < Place(f, pos) THEN f[i] ELSE IF i = Place(f, pos) THEN x ELSE f[i - 1]
  BY InsertedShape
<1>2. Place(f, pos) \in 1..(Len(f) + 1)
  BY PlaceIsInRange
<1>3. Has(g, x.name) <=> \E i \in 1..Len(g) : g[i].name = x.name
  BY <1>1, IndexMeaning
<1>4. g[Place(f, pos)] = x
  BY <1>1, <1>2
<1> HIDE DEF g
<1>5. Place(f, pos) \in 1..Len(g)
  BY <1>1, <1>2
<1>6. Has(g, x.name)
  BY <1>3, <1>4, <1>5
<1> QED
  BY <1>6 DEF g

LEMMA RemovedAbsent ==
    ASSUME NEW T, NEW f \in Seq(FieldsOf(T)), NEW c, ~Has(f, c)
    PROVE  Removed(f, c) = f
<1>1. ~\E i \in 1..Len(f) : f[i].name = c
  BY IndexMeaning
<1>2. DOMAIN f = 1..Len(f)
  OBVIOUS
<1> QED
  BY <1>1, <1>2 DEF Removed, RemoveFirstMatch

LEMMA RemovedIsAbsent ==
    ASSUME NEW T, NEW f \in Seq(FieldsOf(T)), Unique(f), NEW c, Has(f, c)
    PROVE  ~Has(Removed(f, c), c)
<1> DEFINE g == Removed(f, c)
           p == Index(f, c)
<1>1. /\ g \in Seq(FieldsOf(T)) /\ Len(g) = Len(f) - 1
      /\ \A i \in 1..(Len(f) - 1) : g[i] = IF i < p THEN f[i] ELSE f[i + 1]
  BY RemovedShape
<1>2. p \in 1..Len(f) /\ f[p].name = c /\ Len(f) \in Nat /\ DOMAIN f = 1..Len(f)
  BY IndexMeaning
<1>3. Has(g, c) <=> \E i \in 1..Len(g) : g[i].name = c
  BY <1>1, IndexMeaning
<1> HIDE DEF g, p
<1>4. ASSUME NEW i \in 1..Len(g), g[i].name = c
      PROVE  FALSE
  <2>1. CASE i < p
    <3>1. f[i].name = c /\ i \in DOMAIN f /\ p \in DOMAIN f /\ i # p
      BY <1>1, <1>2, <1>4, <2>1
    <3> QED
      BY <1>2, <3>1 DEF Unique
  <2>2. CASE ~(i < p)
    <3>1. f[i + 1].name = c /\ i + 1 \in DOMAIN f /\ p \in DOMAIN f /\ i + 1 # p
      BY <1>1, <1>2, <1>4, <2>2
    <3> QED
      BY <1>2, <3>1 DEF Unique
  <2> QED
    BY <2>1, <2>2
<1>5. ~Has(g, c)
  BY <1>3, <1>4
<1> QED
  BY <1>5 DEF g

LEMMA HasUpdated ==
    ASSUME NEW T, NEW f \in Seq(FieldsOf(T)), NEW x \in FieldsOf(T), NEW n
    PROVE  /\ Updated(f, x) \in Seq(FieldsOf(T))
           /\ Index(Updated(f, x), n) = Index(f, n)
           /\ Has(Updated(f, x), n) <=> Has(f, n)
<1>1. Updated(f, x) \in Seq(FieldsOf(T))
  BY UpdatedShape
<1>2. Names(Updated(f, x)) = Names(f)
  BY NamesOfUpdated
<1> HIDE DEF Updated
<1> QED
  BY <1>1, <1>2, IndexByNames

LEMMA UpdatedTwice ==
    ASSUME NEW T, NEW f \in Seq(FieldsOf(T)), NEW x \in FieldsOf(T)
    PROVE  Updated(Updated(f, x), x) = Updated(f, x)
<1> DEFINE g == Updated(f, x)
           h == Updated(g, x)
<1>1. /\ g \in Seq(FieldsOf(T)) /\ Len(g) = Len(f)
      /\ \A i \in 1..Len(f) : g[i] = IF i = Index(f, x.name) THEN x ELSE f[i]
  BY UpdatedShape
<1>2. Index(g, x.name) = Index(f, x.name)
  BY HasUpdated
<1> HIDE DEF g
<1>3. /\ h \in Seq(FieldsOf(T)) /\ Len(h) = Len(g)
      /\ \A i \in 1..Len(g) : h[i] = IF i = Index(g, x.name) THEN x ELSE g[i]
  BY <1>1, UpdatedShape
<1> HIDE DEF h
<1>4. \A i \in 1..Len(g) : h[i] = g[i]
  BY <1>1, <1>2, <1>3
<1>5. h = g
  BY <1>1, <1>3, <1>4, SeqEqual
<1> QED
  BY <1>5 DEF g, h

LEMMA UpdatedSame ==
    ASSUME NEW T, NEW f \in Seq(FieldsOf(T)), NEW n, NEW t, Field(n, t) \in FieldsOf(T),
           Has(f, n), f[Index(f, n)].type = t
    PROVE  Updated(f, Field(n, t)) = f
<1> DEFINE x == Field(n, t)
           g == Updated(f, x)
<1>1. x.name = n /\ x \in FieldsOf(T) /\ x = [name |-> n, type |-> t]
  BY DEF Field
<1>2. /\ Index(f, n) \in 1..Len(f) /\ f[Index(f, n)].name = n
  BY IndexMeaning
<1>3. f[Index(f, n)] \in FieldsOf(T)
  BY <1>2, ElementOfSeq
<1>4. f[Index(f, n)] = x
  BY <1>1, <1>2, <1>3 DEF FieldsOf
<1> HIDE DEF x
<1>5. /\ g \in Seq(FieldsOf(T)) /\ Len(g) = Len(f)
      /\ \A i \in 1..Len(f) : g[i] = IF i = Index(f, x.name) THEN x ELSE f[i]
  BY <1>1, UpdatedShape, ZenonT(30)
<1> HIDE DEF g
<1>6. \A i \in 1..Len(f) : g[i] = f[i]
  BY <1>1, <1>4, <1>5
<1>7. g = f
  BY <1>5, <1>6, SeqEqual
<1> QED
  BY <1>7 DEF g, x

LEMMA TypeOfUpdated ==
    ASSUME NEW T, NEW f \in Seq(FieldsOf(T)), NEW x \in FieldsOf(T), Has(f, x.name)
    PROVE  LET g == Updated(f, x) IN g[Index(g, x.name)] = x
<1> DEFINE g == Updated(f, x)
<1>1. /\ g \in Seq(FieldsOf(T)) /\ Len(g) = Len(f)
      /\ \A i \in 1..Len(f) : g[i] = IF i = Index(f, x.name) THEN x ELSE f[i]
  BY UpdatedShape
<1>2. Index(g, x.name) = Index(f, x.name)
  BY HasUpdated
<1>3. Index(f, x.name) \in 1..Len(f)
  BY IndexMeaning
<1> HIDE DEF g
<1>4. g[Index(g, x.name)] = x
  BY <1>1, <1>2, <1>3
<1> QED
  BY <1>4 DEF g

LEMMA RenamedIsAbsent ==
    ASSUME NEW T, NEW f \in Seq(FieldsOf(T)), Unique(f), NEW c, Has(f, c),
           NEW d \in ColumnNames, c # d
    PROVE  ~Has(Renamed(f, c, d), c) /\ Has(Renamed(f, c, d), d)
<1> DEFINE g == Renamed(f, c, d)
           p == Index(f, c)
<1>1. /\ g \in Seq(FieldsOf(T)) /\ Len(g) = Len(f)
      /\ \A i \in 1..Len(f) : g[i] = IF i = p THEN Field(d, f[i].type) ELSE f[i]
  BY RenamedShape
<1>2. p \in 1..Len(f) /\ f[p].name = c /\ DOMAIN f = 1..Len(f)
  BY IndexMeaning
<1>3. \A n : Has(g, n) <=> \E i \in 1..Len(g) : g[i].name = n
  BY <1>1, IndexMeaning
<1> HIDE DEF g, p
<1>4. ASSUME NEW i \in 1..Len(g), g[i].name = c
      PROVE  FALSE
  <2>1. i # p
    <3> SUFFICES ASSUME i = p
                 PROVE  FALSE
      OBVIOUS
    <3>1. g[i] = Field(d, f[i].type)
      BY <1>1, <1>4
    <3>2. g[i].name = d
      BY <3>1 DEF Field
    <3> QED
      BY <1>4, <3>2
  <2>2. f[i].name = c /\ i \in DOMAIN f /\ p \in DOMAIN f
    BY <1>1, <1>2, <1>4, <2>1
  <2> QED
    BY <1>2, <2>1, <2>2 DEF Unique
<1>5. p \in 1..Len(g) /\ g[p].name = d
  <2>1. p \in 1..Len(g) /\ g[p] = Field(d, f[p].type)
    BY <1>1, <1>2
  <2> QED
    BY <2>1 DEF Field
<1>6. ~Has(g, c)
  BY <1>3, <1>4
<1>7. Has(g, d)
  BY <1>3, <1>5
<1> QED
  BY <1>6, <1>7 DEF g

-----------------------------------------------------------------------------
(* The states of the columns while a clause is executed.                   *)

Rows == Seq(FieldsOf(STRING))
ChType(cl) == ConvertFieldType[cl.type]
ColOf(cl, f) == CurrentName(f, f, cl.name, cl.to)
Retyped(cl, f) == Updated(f, Field(ColOf(cl, f), ChType(cl)))

(* The table has h where the structure has f: the clause was executed, or   *)
(* the first command of a CHANGE.                                          *)
Stage(cl, f, h) ==
    \/ /\ cl.op = "add" /\ ~Has(f, cl.name)
       /\ h = Inserted(f, Field(cl.name, ChType(cl)), ColumnAfter(cl, f))
    \/ cl.op = "drop" /\ Has(f, cl.name) /\ h = Removed(f, cl.name)
    \/ cl.op = "modify" /\ h = Updated(f, Field(cl.name, ChType(cl)))
    \/ cl.op = "change" /\ h = Retyped(cl, f)
    \/ cl.op = "change" /\ ColOf(cl, f) # cl.to /\ h = Renamed(Retyped(cl, f), ColOf(cl, f), cl.to)
    \/ cl.op = "rename" /\ ColOf(cl, f) # cl.to /\ h = Renamed(f, ColOf(cl, f), cl.to)

(* What validation says about a clause, on the columns it finds. *)
Fits(cl, f) ==
    /\ cl.op \in {"add", "modify", "change"} =>
         \A n \in ColumnNames : Field(n, ChType(cl)) \in FieldsOf(STRING)
    /\ cl.name \in ColumnNames /\ cl.to \in ColumnNames
    /\ cl.op = "add" /\ ~Has(f, cl.name) => Placed(f, ColumnAfter(cl, f))
    /\ cl.op = "modify" => Has(f, cl.name)
    /\ cl.op \in {"change", "rename"} =>
         /\ ColOf(cl, f) \in ColumnNames /\ Has(f, ColOf(cl, f))
         /\ ColOf(cl, f) # cl.to => ~Has(f, cl.to)

LEMMA RetypedShape ==
    ASSUME NEW f \in Rows, NEW cl, cl.op = "change", Fits(cl, f)
    PROVE  /\ Retyped(cl, f) \in Rows
           /\ ColOf(cl, Retyped(cl, f)) = ColOf(cl, f)
           /\ Retyped(cl, Retyped(cl, f)) = Retyped(cl, f)
           /\ \A n : Has(Retyped(cl, f), n) <=> Has(f, n)
           /\ Retyped(cl, f)[Index(Retyped(cl, f), ColOf(cl, f))].type = ChType(cl)
<1> DEFINE n == ColOf(cl, f)
           x == Field(n, ChType(cl))
           g == Updated(f, x)
<1>1. x \in FieldsOf(STRING) /\ n \in ColumnNames /\ Has(f, n)
  BY DEF Fits
<1>2. x.name = n /\ x.type = ChType(cl)
  BY DEF Field
<1>3. g = Retyped(cl, f)
  BY DEF Retyped
<1> HIDE DEF x, n
<1>4. f \in Seq(FieldsOf(STRING))
  BY DEF Rows
<1>5. g \in Seq(FieldsOf(STRING)) /\ \A k : Has(g, k) <=> Has(f, k)
  BY <1>1, <1>4, HasUpdated
<1>6. Updated(g, x) = g
  BY <1>1, <1>4, UpdatedTwice
<1>7. g[Index(g, x.name)] = x
  BY <1>1, <1>2, <1>4, TypeOfUpdated
<1> HIDE DEF g
<1>8. ColOf(cl, g) = ColOf(cl, f)
  BY <1>5, CurrentNameByNames DEF ColOf
<1>9. Retyped(cl, g) = g
  <2>1. Retyped(cl, g) = Updated(g, Field(ColOf(cl, g), ChType(cl)))
    BY DEF Retyped
  <2> QED
    BY <1>6, <1>8, <2>1 DEF x, n
<1>10. g[Index(g, n)].type = ChType(cl)
  BY <1>2, <1>7
<1> QED
  BY <1>3, <1>5, <1>8, <1>9, <1>10 DEF Rows, n

LEMMA RetypedStage ==
    ASSUME NEW f \in Rows, NEW cl, cl.op = "change", Fits(cl, f), NEW h,
           Stage(cl, Retyped(cl, f), h)
    PROVE  Stage(cl, f, h)
<1>1. /\ ColOf(cl, Retyped(cl, f)) = ColOf(cl, f)
      /\ Retyped(cl, Retyped(cl, f)) = Retyped(cl, f)
  BY RetypedShape
<1>2. \/ h = Retyped(cl, Retyped(cl, f))
      \/ /\ ColOf(cl, Retyped(cl, f)) # cl.to
         /\ h = Renamed(Retyped(cl, Retyped(cl, f)), ColOf(cl, Retyped(cl, f)), cl.to)
  BY DEF Stage
<1> QED
  BY <1>1, <1>2 DEF Stage

LEMMA RetypedAlready ==
    ASSUME NEW f \in Rows, NEW cl, cl.op = "change", Fits(cl, f),
           f[Index(f, ColOf(cl, f))].type = ChType(cl)
    PROVE  Retyped(cl, f) = f
<1>1. f \in Seq(FieldsOf(STRING)) /\ Has(f, ColOf(cl, f))
      /\ Field(ColOf(cl, f), ChType(cl)) \in FieldsOf(STRING)
  BY DEF Rows, Fits
<1> QED
  BY <1>1, UpdatedSame DEF Retyped

LEMMA UniqueByNames ==
    ASSUME NEW T, NEW f \in Seq(FieldsOf(T)), NEW U, NEW g \in Seq(FieldsOf(U)),
           Names(f) = Names(g), Unique(f)
    PROVE  Unique(g)
<1>1. Len(f) = Len(g) /\ \A i \in 1..Len(f) : f[i].name = g[i].name
  BY NamesEqual
<1>2. DOMAIN f = 1..Len(f) /\ DOMAIN g = 1..Len(g)
  OBVIOUS
<1> QED
  BY <1>1, <1>2 DEF Unique

LEMMA OpFits ==
    ASSUME StructureInv, pc = "alter", plan # <<>>
    PROVE  LET f == ch_structure.fields IN
           /\ f \in Rows /\ Unique(f) /\ Fits(Op, f)
           /\ OpName = ColOf(Op, f)
           /\ Op.op = "add" /\ ~Has(f, Op.name) =>
                /\ OpAfter = ColumnAfter(Op, f)
                /\ OpAfter = AtFirst \/ Has(f, OpAfter)
           /\ \A n : Has(f, n) <=> Has(mysql_structure.fields, n)
           /\ ch_structure \in StructureOf(STRING) /\ ch_structure.keys = PrimaryKeys
           /\ ch_structure.ids = Ids(f)
           /\ ~KeyColumn(Op.name)
<1> DEFINE m == mysql_structure.fields
           f == ch_structure.fields
<1>1. Pair(mysql_structure, ch_structure) /\ Op \in PlanClauses
  BY HeadOfPlan
<1>2. /\ m \in Seq(FieldsOf(KnownTypes)) /\ f \in Seq(FieldsOf(STRING)) /\ Names(f) = Names(m)
      /\ \A n : Has(m, n) <=> Has(f, n)
  BY <1>1, PairFields
<1>3. /\ KnownType(Op)
      /\ Op.op = "add" /\ ~Has(m, Op.name) => Placed(m, OpAfter)
      /\ Op.op = "modify" => Has(m, Op.name)
      /\ Op.op \in {"change", "rename"} =>
           /\ OpName \in {Op.name, Op.to} /\ Has(m, OpName)
           /\ OpName # Op.to => OpName = Op.name /\ ~Has(m, Op.to)
      /\ ~ClauseFails(Op, m, f)
      /\ Op.op \in ColumnOps /\ Op.name \in ColumnNames /\ Op.to \in ColumnNames
      /\ ~KeyColumn(Op.name)
  BY HeadIsValid
<1>4. Unique(m) /\ ch_structure \in StructureOf(STRING) /\ ch_structure.keys = PrimaryKeys
  BY <1>1 DEF Pair
<1>5. ch_structure.ids = Ids(f)
  <2>1. ch_structure.ids = Ids(m)
    BY <1>1 DEF Pair
  <2> QED
    BY <1>2, <2>1, IdsByNames
<1>6. Unique(f)
  BY <1>2, <1>4, UniqueByNames
<1>7. OpName = ColOf(Op, f)
  BY <1>2, CurrentNameByNames DEF OpName, ColOf
<1>8. ASSUME Op.op = "add", ~Has(f, Op.name)
      PROVE  /\ OpAfter = ColumnAfter(Op, f)
             /\ OpAfter = AtFirst \/ Has(f, OpAfter)
  <2>1. CASE Op.pos = AtFirst
    BY <2>1 DEF OpAfter, ColumnAfter, AtFirst, AtEnd
  <2>2. CASE Op.pos # AtFirst
    <3>1. Has(m, OpAfter) /\ Has(f, OpAfter)
      BY <1>2, <1>3, <1>8, <2>2 DEF ClauseFails, OpAfter
    <3>2. ColumnAfter(Op, m) = ColumnAfter(Op, f)
      BY <1>2, <3>1, ColumnAfterByNames
    <3> QED
      BY <3>1, <3>2 DEF OpAfter
  <2> QED
    BY <2>1, <2>2
<1>9. Op.op = "add" /\ ~Has(f, Op.name) => Placed(f, ColumnAfter(Op, f))
  BY <1>8 DEF Placed
<1>10. Op.op \in {"add", "modify", "change"} =>
         \A n \in ColumnNames : Field(n, ChType(Op)) \in FieldsOf(STRING)
  BY <1>1, <1>3, ClauseField DEF ChType
<1> HIDE DEF m, f
<1>11. Fits(Op, f)
  BY <1>2, <1>3, <1>7, <1>9, <1>10 DEF Fits
<1> QED
  BY <1>2, <1>3, <1>4, <1>5, <1>6, <1>7, <1>8, <1>11 DEF Rows, m, f

(* What a command does to a table that has the columns of the structure, or  *)
(* already those the command makes.                                        *)
LEMMA AddEffect ==
    ASSUME StructureInv, AddColumn
    PROVE  LET f == ch_structure.fields
               g == ch_structure'.fields
           IN  /\ plan' = Tail(plan) /\ Stage(Op, f, g)
               /\ ch = f => ch' = g
               /\ Stage(Op, f, ch) => ch' = g
<1> DEFINE f == ch_structure.fields
           x == Field(Op.name, ChType(Op))
           g == Inserted(f, x, OpAfter)
<1>1. /\ pc = "alter" /\ plan # <<>> /\ Op.op = "add" /\ ~NothingToDo
      /\ ch' = ChAdd(x, OpAfter) /\ plan' = Tail(plan)
      /\ ch_structure' = AddField(ch_structure, x, OpAfter)
  BY DEF AddColumn, Executing, Op, OpFieldCh, ChType
<1>2. /\ f \in Rows /\ Fits(Op, f) /\ \A n : Has(f, n) <=> Has(mysql_structure.fields, n)
      /\ ch_structure \in StructureOf(STRING) /\ ch_structure.keys = PrimaryKeys
      /\ Op.op = "add" /\ ~Has(f, Op.name) => OpAfter = ColumnAfter(Op, f)
  BY <1>1, OpFits
<1>3. ~Has(f, Op.name)
  BY <1>1, <1>2 DEF NothingToDo, Executing, Op
<1>4. Placed(f, OpAfter) /\ x \in FieldsOf(STRING) /\ x.name = Op.name /\ OpAfter = ColumnAfter(Op, f)
  BY <1>1, <1>2, <1>3 DEF Fits, Field
<1>5. ch_structure'.fields = g
  BY <1>1, <1>2, <1>4, AddFieldShape
<1>6. Has(g, Op.name)
  BY <1>2, <1>4, HasInserted DEF Rows
<1> HIDE DEF f, x
<1>7. Stage(Op, f, g)
  BY <1>1, <1>3, <1>4 DEF Stage, x
<1>8. ch = f => ch' = g
  BY <1>1, <1>3, <1>4 DEF ChAdd
<1>9. ASSUME Stage(Op, f, ch)
      PROVE  ch' = g
  <2>1. ch = g
    BY <1>1, <1>4, <1>9 DEF Stage, x
  <2> QED
    BY <1>1, <1>4, <1>6, <2>1 DEF ChAdd
<1> QED
  BY <1>1, <1>5, <1>7, <1>8, <1>9 DEF f

LEMMA DropEffect ==
    ASSUME StructureInv, DropColumn
    PROVE  LET f == ch_structure.fields
               g == ch_structure'.fields
           IN  /\ plan' = Tail(plan) /\ Stage(Op, f, g)
               /\ ch = f => ch' = g
               /\ Stage(Op, f, ch) => ch' = g
<1> DEFINE f == ch_structure.fields
           g == Removed(f, Op.name)
<1>1. /\ pc = "alter" /\ plan # <<>> /\ Op.op = "drop" /\ ~NothingToDo
      /\ ch' = Removed(ch, Op.name) /\ plan' = Tail(plan)
      /\ ch_structure' = RemoveField(ch_structure, Op.name)
  BY DEF DropColumn, Executing, Op
<1>2. /\ f \in Rows /\ Unique(f) /\ \A n : Has(f, n) <=> Has(mysql_structure.fields, n)
      /\ ch_structure \in StructureOf(STRING) /\ ch_structure.keys = PrimaryKeys
  BY <1>1, OpFits
<1>3. Has(f, Op.name)
  BY <1>1, <1>2 DEF NothingToDo, Executing, Op
<1>4. ch_structure'.fields = g
  BY <1>1, <1>2, <1>3, RemoveFieldShape
<1>5. g \in Seq(FieldsOf(STRING)) /\ ~Has(g, Op.name)
  BY <1>2, <1>3, RemovedIsAbsent, RemovedShape DEF Rows
<1> HIDE DEF f
<1>6. Stage(Op, f, g)
  BY <1>1, <1>3 DEF Stage
<1>7. ASSUME Stage(Op, f, ch)
      PROVE  ch' = g
  <2>1. ch = g
    BY <1>1, <1>7 DEF Stage
  <2> HIDE DEF g
  <2> QED
    BY <1>1, <1>5, <2>1, RemovedAbsent
<1> QED
  BY <1>1, <1>4, <1>6, <1>7 DEF f

LEMMA ModifyEffect ==
    ASSUME StructureInv, ModifyColumn
    PROVE  LET f == ch_structure.fields
               g == ch_structure'.fields
           IN  /\ plan' = Tail(plan) /\ Stage(Op, f, g)
               /\ ch = f => ch' = g
               /\ Stage(Op, f, ch) => ch' = g
<1> DEFINE f == ch_structure.fields
           x == Field(Op.name, ChType(Op))
           g == Updated(f, x)
<1>1. /\ pc = "alter" /\ plan # <<>> /\ Op.op = "modify"
      /\ ch' = ChModify(x) /\ plan' = Tail(plan)
      /\ ch_structure' = UpdateField(ch_structure, x)
  BY DEF ModifyColumn, Executing, Op, OpFieldCh, ChType
<1>2. /\ f \in Rows /\ Fits(Op, f) /\ ch_structure.ids = Ids(f)
      /\ ch_structure \in StructureOf(STRING) /\ ch_structure.keys = PrimaryKeys
  BY <1>1, OpFits
<1>3. Has(f, Op.name) /\ x \in FieldsOf(STRING) /\ x.name = Op.name
  BY <1>1, <1>2 DEF Fits, Field
<1>4. ch_structure'.fields = g
  BY <1>1, <1>2, <1>3, UpdateFieldShape
<1>5. Has(g, Op.name) /\ Updated(g, x) = g
  BY <1>2, <1>3, HasUpdated, UpdatedTwice DEF Rows
<1> HIDE DEF f, x
<1>6. Stage(Op, f, g)
  BY <1>1 DEF Stage, x
<1>7. ch = f => ch' = g
  BY <1>1, <1>3 DEF ChModify
<1>8. ASSUME Stage(Op, f, ch)
      PROVE  ch' = g
  <2>1. ch = g
    BY <1>1, <1>8 DEF Stage, x
  <2> HIDE DEF g
  <2> QED
    BY <1>1, <1>3, <1>5, <2>1 DEF ChModify
<1> QED
  BY <1>1, <1>4, <1>6, <1>7, <1>8 DEF f

LEMMA ChangeEffect ==
    ASSUME StructureInv, ChangeColumnType
    PROVE  LET f == ch_structure.fields
               g == ch_structure'.fields
           IN  /\ plan' = plan /\ Op.op = "change" /\ g = Retyped(Op, f)
               /\ ch = f => ch' = g
               /\ Stage(Op, f, ch) => ch' = g \/ Stage(Op, g, ch')
<1> DEFINE f == ch_structure.fields
           x == Field(OpName, ChType(Op))
           g == Updated(f, x)
<1>1. /\ pc = "alter" /\ plan # <<>> /\ Op.op = "change"
      /\ ch' = ChModify(x) /\ plan' = plan
      /\ ch_structure' = UpdateField(ch_structure, x)
  BY DEF ChangeColumnType, Executing, Op, OpFieldCh, ChType
<1>2. /\ f \in Rows /\ Unique(f) /\ Fits(Op, f) /\ OpName = ColOf(Op, f) /\ ch_structure.ids = Ids(f)
      /\ ch_structure \in StructureOf(STRING) /\ ch_structure.keys = PrimaryKeys
  BY <1>1, OpFits
<1>3. /\ OpName \in ColumnNames /\ Has(f, OpName) /\ Op.to \in ColumnNames
      /\ x \in FieldsOf(STRING) /\ x.name = OpName
  BY <1>1, <1>2 DEF Fits, Field
<1>4. ch_structure'.fields = g
  BY <1>1, <1>2, <1>3, UpdateFieldShape
<1>5. g = Retyped(Op, f)
  BY <1>2 DEF Retyped
<1>6. /\ g \in Rows /\ Has(g, OpName) /\ Updated(g, x) = g /\ Unique(g)
  BY <1>2, <1>3, HasUpdated, UpdatedTwice, UniqueUpdated DEF Rows
<1>7. ColOf(Op, g) = ColOf(Op, f) /\ Retyped(Op, g) = g
  BY <1>1, <1>2, <1>5, RetypedShape
<1> HIDE DEF f, x, g
<1>8. ch = f => ch' = g
  BY <1>1, <1>3 DEF ChModify, g
<1>9. ASSUME Stage(Op, f, ch)
      PROVE  ch' = g \/ Stage(Op, g, ch')
  <2>1. CASE ch = g
    BY <1>1, <1>3, <1>6, <2>1 DEF ChModify
  <2>2. CASE OpName # Op.to /\ ch = Renamed(g, OpName, Op.to)
    <3>1. ~Has(ch, OpName)
      BY <1>3, <1>6, <2>2, RenamedIsAbsent DEF Rows
    <3>2. ch' = Renamed(g, OpName, Op.to)
      BY <1>1, <1>3, <2>2, <3>1 DEF ChModify
    <3> QED
      BY <1>1, <1>2, <1>7, <2>2, <3>2 DEF Stage
  <2>3. ch = g \/ (OpName # Op.to /\ ch = Renamed(g, OpName, Op.to))
    BY <1>1, <1>2, <1>5, <1>9 DEF Stage
  <2> QED
    BY <2>1, <2>2, <2>3
<1> QED
  BY <1>1, <1>4, <1>5, <1>8, <1>9 DEF f

LEMMA RenamingStates ==
    ASSUME StructureInv, Renaming
    PROVE  LET f == ch_structure.fields
               g == Renamed(f, OpName, Op.to)
           IN  /\ f \in Rows /\ g \in Rows
               /\ OpName \in ColumnNames /\ Op.to \in ColumnNames /\ OpName = Op.name
               /\ Has(f, OpName) /\ ~Has(f, Op.to) /\ ~Has(g, OpName)
               /\ Stage(Op, f, g)
               /\ Stage(Op, f, ch) => ch = f \/ ch = g
<1> DEFINE f == ch_structure.fields
           g == Renamed(f, OpName, Op.to)
<1>1. /\ pc = "alter" /\ plan # <<>> /\ Op.op \in {"change", "rename"} /\ OpName # Op.to
      /\ Op.op = "change" => f[Index(f, OpName)].type = ChType(Op)
  BY DEF Renaming, Executing, Op, ChType
<1>2. f \in Rows /\ Unique(f) /\ Fits(Op, f) /\ OpName = ColOf(Op, f)
  BY <1>1, OpFits
<1>3. /\ OpName \in ColumnNames /\ Op.to \in ColumnNames
      /\ Has(f, OpName) /\ ~Has(f, Op.to)
  BY <1>1, <1>2 DEF Fits
<1>4. g \in Rows /\ ~Has(g, OpName)
  BY <1>1, <1>2, <1>3, RenamedShape, RenamedIsAbsent DEF Rows
<1>5. OpName = Op.name
  BY <1>1, HeadIsValid
<1>6. Op.op = "change" => Retyped(Op, f) = f
  BY <1>1, <1>2, RetypedAlready
<1> HIDE DEF f
<1>7. Stage(Op, f, g)
  BY <1>1, <1>2, <1>6 DEF Stage
<1>8. Stage(Op, f, ch) => ch = f \/ ch = g
  BY <1>1, <1>2, <1>6 DEF Stage
<1> QED
  BY <1>2, <1>3, <1>4, <1>5, <1>7, <1>8 DEF f

LEMMA RenameEffect ==
    ASSUME StructureInv, RenameColumn
    PROVE  LET f == ch_structure.fields
               g == ch_structure'.fields
           IN  /\ plan' = Tail(plan) /\ Stage(Op, f, g)
               /\ ch = f => ch' = g
               /\ Stage(Op, f, ch) => ch' = g
<1> DEFINE f == ch_structure.fields
           g == Renamed(f, OpName, Op.to)
<1>1. /\ pc = "alter" /\ plan # <<>> /\ Renaming
      /\ ch' = ChRename(OpName, Op.to) /\ plan' = Tail(plan)
      /\ ch_structure' = RenameStructureField(ch_structure, OpName, Op.to)
  BY DEF RenameColumn, Renaming, Executing
<1>2. /\ OpName \in ColumnNames /\ Op.to \in ColumnNames /\ OpName = Op.name
      /\ Has(f, OpName) /\ ~Has(g, OpName)
      /\ Stage(Op, f, g)
      /\ Stage(Op, f, ch) => ch = f \/ ch = g
  BY <1>1, RenamingStates
<1>3. /\ ch_structure \in StructureOf(STRING) /\ ch_structure.keys = PrimaryKeys
      /\ ~KeyColumn(Op.name)
  BY <1>1, OpFits
<1>4. ch_structure'.fields = g
  BY <1>1, <1>2, <1>3, RenameStructureFieldShape DEF KeyColumn
<1>5. ch = f => ch' = g
  BY <1>1, <1>2 DEF ChRename
<1> HIDE DEF g
<1>6. ch = g => ch' = g
  BY <1>1, <1>2 DEF ChRename
<1> QED
  BY <1>1, <1>2, <1>4, <1>5, <1>6

LEMMA SkipEffect ==
    ASSUME StructureInv, SkipClause
    PROVE  /\ plan' = Tail(plan) /\ plan # <<>> /\ UNCHANGED <<ch, ch_structure>>
           /\ Stage(Op, ch_structure.fields, ch) => ch = ch_structure.fields
<1> DEFINE f == ch_structure.fields
<1>1. /\ pc = "alter" /\ plan # <<>> /\ NothingToDo
      /\ plan' = Tail(plan) /\ UNCHANGED <<ch, ch_structure>>
  BY DEF SkipClause, NothingToDo, Executing, structures
<1>2. /\ f \in Rows /\ Fits(Op, f) /\ OpName = ColOf(Op, f)
      /\ \A n : Has(f, n) <=> Has(mysql_structure.fields, n)
  BY <1>1, OpFits
<1>3. \/ Op.op = "add" /\ Has(f, Op.name)
      \/ Op.op = "drop" /\ ~Has(f, Op.name)
      \/ Op.op = "rename" /\ OpName = Op.to
      \/ Op.op = "change" /\ OpName = Op.to /\ f[Index(f, OpName)].type = ChType(Op)
  BY <1>1, <1>2 DEF NothingToDo, Executing, Op, ChType
<1>4. Op.op = "change" => Retyped(Op, f) = f
  BY <1>2, <1>3, RetypedAlready
<1> HIDE DEF f
<1>5. Stage(Op, f, ch) => ch = f
  BY <1>2, <1>3, <1>4 DEF Stage
<1> QED
  BY <1>1, <1>5 DEF f

LEMMA NotRefused ==
    ASSUME StructureInv, CommandRefused
    PROVE  ch # ch_structure.fields /\ ~Stage(Op, ch_structure.fields, ch)
<1> DEFINE f == ch_structure.fields
<1>1. CASE /\ Executing({"add"}) /\ ~NothingToDo
           /\ ChAddRefused(OpFieldCh(Op.name), OpAfter)
  <2> DEFINE x == Field(Op.name, ChType(Op))
  <2>1. /\ pc = "alter" /\ plan # <<>> /\ Op.op = "add" /\ ~NothingToDo
        /\ ~Has(ch, x.name) /\ OpAfter # AtFirst /\ ~Has(ch, OpAfter)
    BY <1>1 DEF Executing, Op, ChAddRefused, OpFieldCh, ChType
  <2>2. /\ f \in Rows /\ Fits(Op, f) /\ \A n : Has(f, n) <=> Has(mysql_structure.fields, n)
        /\ Op.op = "add" /\ ~Has(f, Op.name) =>
             /\ OpAfter = ColumnAfter(Op, f)
             /\ OpAfter = AtFirst \/ Has(f, OpAfter)
    BY <2>1, OpFits
  <2>3. ~Has(f, Op.name)
    BY <2>1, <2>2 DEF NothingToDo, Executing, Op
  <2>4. Placed(f, OpAfter) /\ x \in FieldsOf(STRING) /\ x.name = Op.name /\ Has(f, OpAfter)
    BY <2>1, <2>2, <2>3 DEF Fits, Field
  <2>5. Has(Inserted(f, x, OpAfter), Op.name)
    BY <2>2, <2>4, HasInserted DEF Rows
  <2>6. OpAfter = ColumnAfter(Op, f)
    BY <2>1, <2>2, <2>3
  <2> HIDE DEF f
  <2>7. ~Stage(Op, f, ch)
    BY <2>1, <2>4, <2>5, <2>6 DEF Stage
  <2> QED
    BY <2>1, <2>4, <2>7 DEF f
<1>2. CASE Renaming /\ ChRenameRefused(OpName, Op.to)
  <2>1. /\ ~Has(f, Op.to) /\ ~Has(Renamed(f, OpName, Op.to), OpName)
        /\ Stage(Op, f, ch) => ch = f \/ ch = Renamed(f, OpName, Op.to)
    BY <1>2, RenamingStates
  <2>2. Has(ch, OpName) /\ Has(ch, Op.to)
    BY <1>2 DEF ChRenameRefused
  <2> HIDE DEF f
  <2>3. ch # f /\ ~Stage(Op, f, ch)
    BY <2>1, <2>2
  <2> QED
    BY <2>3 DEF f
<1> QED
  BY <1>1, <1>2 DEF CommandRefused

LEMMA SendingEffect ==
    ASSUME StructureInv,
           AddColumn \/ DropColumn \/ ModifyColumn \/ ChangeColumnType \/ RenameColumn
    PROVE  LET f == ch_structure.fields
               g == ch_structure'.fields
           IN  /\ pc = "alter" /\ plan # <<>> /\ Sends
               /\ \/ plan' = Tail(plan) /\ Stage(Op, f, g)
                  \/ plan' = plan /\ Op.op = "change" /\ g = Retyped(Op, f)
               /\ ch = f => ch' = g
               /\ Stage(Op, f, ch) => ch' = g \/ (plan' = plan /\ Stage(Op, g, ch'))
<1>1. pc = "alter" /\ plan # <<>> /\ Sends
  BY DEF AddColumn, DropColumn, ModifyColumn, ChangeColumnType, RenameColumn, Renaming, Executing
<1>2. CASE AddColumn
  BY <1>1, <1>2, AddEffect
<1>3. CASE DropColumn
  BY <1>1, <1>3, DropEffect
<1>4. CASE ModifyColumn
  BY <1>1, <1>4, ModifyEffect
<1>5. CASE ChangeColumnType
  BY <1>1, <1>5, ChangeEffect
<1>6. CASE RenameColumn
  BY <1>1, <1>6, RenameEffect
<1> QED
  BY <1>2, <1>3, <1>4, <1>5, <1>6

-----------------------------------------------------------------------------
(* What a restart finds.                                                   *)

Ops(n) == ColumnChanges(log[n])

(* The table of ClickHouse is that of the structure f, or the only clause   *)
(* of the statement after l has been executed on it, in part at least.     *)
Behind(l, f) ==
    \/ ch = f
    \/ begun = l + 1 /\ Len(Ops(begun)) = 1 /\ Stage(Ops(begun)[1], f, ch)

SavedBehind ==
    ~risky /\ ~ManyClauses(saved.last + 1, begun) => Behind(saved.last, saved.ch_structure.fields)

LoopBehind ==
    pc = "loop" =>
      /\ saved.last = done => saved.ch_structure.fields = ch_structure.fields
      /\ ~risky => ~ManyClauses(done + 1, begun) /\ Behind(done, ch_structure.fields)

(* What the structures have become since they were saved, while the         *)
(* clauses ops are executed.                                               *)
SinceSaved(ops) ==
    LET f == saved.ch_structure.fields
        g == ch_structure.fields
    IN  /\ Len(ops) = 0 => g = f
        /\ Len(ops) = 1 =>
             \/ plan = ops /\ g = f
             \/ plan = ops /\ ops[1].op = "change" /\ g = Retyped(ops[1], f)
             \/ plan = <<>> /\ (g = f \/ Stage(ops[1], f, g))

AlterBehind ==
    LET ops == Ops(done + 1) IN
    pc = "alter" =>
      /\ Len(plan) <= Len(ops)
      /\ saved.last = done => SinceSaved(ops)
      /\ ~risky =>
           /\ begun <= done + 1
           /\ \/ ch = ch_structure.fields
              \/ /\ begun = done + 1 /\ Len(ops) = 1 /\ plan = ops
                 /\ Stage(ops[1], ch_structure.fields, ch)

ReplayInv == SavedBehind /\ LoopBehind /\ AlterBehind /\ RefusedOnlyOnReplay

LEMMA RetypedFits ==
    ASSUME NEW f \in Rows, NEW cl, cl.op = "change", Fits(cl, Retyped(cl, f))
    PROVE  Fits(cl, f)
<1> DEFINE n == ColOf(cl, f)
           x == Field(n, ChType(cl))
<1>1. /\ cl.name \in ColumnNames /\ cl.to \in ColumnNames
      /\ \A k \in ColumnNames : Field(k, ChType(cl)) \in FieldsOf(STRING)
  BY DEF Fits
<1>2. n \in ColumnNames
  BY <1>1 DEF ColOf, CurrentName, ColumnNames
<1>3. x \in FieldsOf(STRING)
  BY <1>1, <1>2
<1> HIDE DEF x
<1>4. \A k : Has(Updated(f, x), k) <=> Has(f, k)
  BY <1>3, HasUpdated DEF Rows
<1>5. \A k : Has(Retyped(cl, f), k) <=> Has(f, k)
  BY <1>4 DEF Retyped, x
<1>6. ColOf(cl, Retyped(cl, f)) = n
  BY <1>5, CurrentNameByNames DEF ColOf
<1>7. Has(f, n) /\ (n # cl.to => ~Has(f, cl.to))
  BY <1>5, <1>6 DEF Fits
<1> HIDE DEF n
<1> QED
  BY <1>1, <1>2, <1>7 DEF Fits, n

LEMMA SavedFields ==
    ASSUME StructureInv, pc = "alter", plan # <<>>, Op.op = "change",
           \/ ch_structure.fields = saved.ch_structure.fields
           \/ ch_structure.fields = Retyped(Op, saved.ch_structure.fields)
    PROVE  LET f == saved.ch_structure.fields IN
           /\ \A h : Stage(Op, Retyped(Op, f), h) => Stage(Op, f, h)
           /\ Retyped(Op, Retyped(Op, f)) = Retyped(Op, f)
           /\ Stage(Op, f, Retyped(Op, f))
<1> DEFINE f == saved.ch_structure.fields
<1>1. f \in Rows
  <2>1. Pair(saved.mysql_structure, saved.ch_structure)
    BY DEF StructureInv
  <2> QED
    BY <2>1, PairFields DEF Rows
<1>2. Fits(Op, ch_structure.fields)
  BY OpFits
<1> HIDE DEF f
<1>3. Fits(Op, f)
  <2>1. CASE ch_structure.fields = f
    BY <1>2, <2>1
  <2>2. CASE ch_structure.fields = Retyped(Op, f)
    BY <1>1, <1>2, <2>2, RetypedFits
  <2> QED
    BY <2>1, <2>2 DEF f
<1>4. \A h : Stage(Op, Retyped(Op, f), h) => Stage(Op, f, h)
  BY <1>1, <1>3, RetypedStage
<1>5. Retyped(Op, Retyped(Op, f)) = Retyped(Op, f)
  BY <1>1, <1>3, RetypedShape
<1>6. Stage(Op, f, Retyped(Op, f))
  BY DEF Stage
<1> QED
  BY <1>4, <1>5, <1>6 DEF f

LEMMA PlanTypes ==
    ASSUME LogInv, StructureInv, pc = "alter"
    PROVE  /\ Ops(done + 1) \in Seq(PlanClauses) /\ Len(Ops(done + 1)) \in Nat
           /\ plan \in Seq(PlanClauses) /\ Len(plan) \in Nat /\ (Len(plan) = 0 <=> plan = <<>>)
           /\ plan # <<>> => /\ Len(Tail(plan)) = Len(plan) - 1 /\ Op = plan[1]
                             /\ Len(plan) = 1 => Tail(plan) = <<>>
<1>1. done + 1 \in 1..Len(log)
  BY DEF LogInv
<1>2. Ops(done + 1) \in Seq(PlanClauses)
  BY <1>1, PlanOfStatement DEF Ops
<1>3. plan \in Seq(PlanClauses)
  BY DEF StructureInv
<1>4. Len(Ops(done + 1)) \in Nat /\ Len(plan) \in Nat /\ (Len(plan) = 0 <=> plan = <<>>)
  BY <1>2, <1>3, EmptySeq, LenProperties
<1>5. ASSUME plan # <<>>
      PROVE  /\ Len(Tail(plan)) = Len(plan) - 1 /\ Op = plan[1]
             /\ Len(plan) = 1 => Tail(plan) = <<>>
  <2>1. Tail(plan) \in Seq(PlanClauses) /\ Len(Tail(plan)) = Len(plan) - 1 /\ Head(plan) = plan[1]
    BY <1>3, <1>5, HeadTailProperties
  <2>2. Len(plan) = 1 => Tail(plan) = <<>>
    <3>1. Len(Tail(plan)) = 0 => Tail(plan) = <<>>
      BY <2>1, EmptySeq
    <3> QED
      BY <1>4, <2>1, <3>1
  <2> QED
    BY <2>1, <2>2 DEF Op
<1> QED
  BY <1>2, <1>3, <1>4, <1>5

LEMMA ReplaySends ==
    ASSUME LogInv, CounterInv, StructureInv, ReplayInv,
           AddColumn \/ DropColumn \/ ModifyColumn \/ ChangeColumnType \/ RenameColumn
    PROVE  ReplayInv'
<1> DEFINE f == ch_structure.fields
           g == ch_structure'.fields
           h == saved.ch_structure.fields
           ops == Ops(done + 1)
<1>1. /\ pc = "alter" /\ plan # <<>> /\ Sends
      /\ \/ plan' = Tail(plan) /\ Stage(Op, f, g)
         \/ plan' = plan /\ Op.op = "change" /\ g = Retyped(Op, f)
      /\ ch = f => ch' = g
      /\ Stage(Op, f, ch) => ch' = g \/ (plan' = plan /\ Stage(Op, g, ch'))
  BY SendingEffect
<1>2. /\ begun' = Max({begun, done + 1})
      /\ UNCHANGED <<log, saved, pc, done, risky, refused>>
  BY <1>1 DEF Sends
<1>3. /\ done \in Nat /\ begun \in Nat /\ begun' \in Nat
      /\ begun' >= done + 1
      /\ begun' = begun \/ begun' = done + 1
      /\ saved.last \in Nat /\ saved.last <= done
  <2>1. /\ done \in Nat /\ begun \in Nat /\ saved.last \in Nat /\ saved.last <= done
    BY <1>1 DEF CounterInv
  <2> QED
    BY <1>2, <2>1, LaterOfTwo
<1>4. /\ ops \in Seq(PlanClauses) /\ Len(ops) \in Nat
      /\ Len(plan) \in Nat /\ (Len(plan) = 0 <=> plan = <<>>)
      /\ Len(Tail(plan)) = Len(plan) - 1 /\ Op = plan[1]
      /\ Len(plan) = 1 => Tail(plan) = <<>>
  BY <1>1, PlanTypes
<1>5. /\ Len(plan) <= Len(ops)
      /\ saved.last = done => SinceSaved(ops)
      /\ ~risky => /\ begun <= done + 1
                   /\ \/ ch = f
                      \/ begun = done + 1 /\ Len(ops) = 1 /\ plan = ops /\ Stage(ops[1], f, ch)
  BY <1>1 DEF ReplayInv, AlterBehind
<1>6. Ops(done + 1)' = ops /\ ops' = ops
  BY <1>2 DEF Ops
<1> HIDE DEF ops
<1>7. Len(plan') <= Len(ops)
  BY <1>1, <1>4, <1>5
<1> DEFINE n == Len(ops)
<1>15. n \in Nat
  BY <1>4
<1>0. h' = h /\ ch_structure'.fields = g
  BY <1>2
<1> HIDE DEF f, g, h
<1>8. ASSUME saved.last = done, Len(ops) <= 1
      PROVE  /\ Len(ops) = 1 /\ plan = ops /\ Op = ops[1]
             /\ \/ /\ plan' = ops /\ Op.op = "change" /\ g = Retyped(Op, h)
                   /\ \A k : Stage(Op, g, k) => Stage(Op, h, k)
                   /\ Stage(Op, h, g)
                \/ plan' = <<>> /\ Stage(Op, h, g)
  <2>1. Len(ops) = 1
    <3>1. Len(plan) # 0 /\ Len(plan) <= Len(ops)
      BY <1>1, <1>4, <1>5
    <3>2. Len(plan) \in Nat /\ n <= 1
      BY <1>4, <1>8
    <3> HIDE DEF n
    <3>3. n # 0
      BY <1>15, <3>1, <3>2 DEF n
    <3>4. n = 1
      BY <1>15, <3>2, <3>3
    <3> QED
      BY <3>4 DEF n
  <2>2. /\ plan = ops
        /\ f = h \/ (ops[1].op = "change" /\ f = Retyped(ops[1], h))
    BY <1>1, <1>5, <1>8, <2>1 DEF SinceSaved, f, h
  <2>3. Op = ops[1] /\ Tail(plan) = <<>>
    BY <1>4, <2>1, <2>2
  <2>4. Op.op = "change" => /\ \A k : Stage(Op, Retyped(Op, h), k) => Stage(Op, h, k)
                            /\ Retyped(Op, Retyped(Op, h)) = Retyped(Op, h)
                            /\ Stage(Op, h, Retyped(Op, h))
    BY <1>1, <2>2, <2>3, SavedFields DEF f, h
  <2>5. CASE plan' = Tail(plan) /\ Stage(Op, f, g)
    BY <2>1, <2>2, <2>3, <2>4, <2>5
  <2>6. CASE plan' = plan /\ Op.op = "change" /\ g = Retyped(Op, f)
    BY <2>1, <2>2, <2>3, <2>4, <2>6
  <2> QED
    BY <1>1, <2>5, <2>6
<1>9. saved.last = done => SinceSaved(ops)'
  <2> SUFFICES ASSUME saved.last = done
               PROVE  SinceSaved(ops)'
    OBVIOUS
  <2>1. CASE Len(ops) <= 1
    <3>1. Len(ops) = 1
      BY <1>8, <2>1
    <3>2. \/ plan' = ops /\ ops[1].op = "change" /\ g = Retyped(ops[1], h)
          \/ plan' = <<>> /\ Stage(ops[1], h, g)
      BY <1>8, <2>1
    <3> QED
      BY <1>0, <1>6, <3>1, <3>2 DEF SinceSaved, g, h
  <2>2. CASE ~(Len(ops) <= 1)
    <3>1. Len(ops) # 0 /\ Len(ops) # 1
      <4>1. ~(n <= 1)
        BY <2>2
      <4> HIDE DEF n
      <4>2. n # 0 /\ n # 1
        BY <1>15, <4>1
      <4> QED
        BY <4>2 DEF n
    <3> QED
      BY <1>6, <3>1 DEF SinceSaved
  <2> QED
    BY <2>1, <2>2
<1>10. ASSUME ~risky
       PROVE  /\ begun' = done + 1
              /\ \/ ch' = g
                 \/ Len(ops) = 1 /\ plan = ops /\ plan' = ops /\ Op = ops[1] /\ Stage(Op, g, ch')
  <2>1. begun' = done + 1
    BY <1>3, <1>5, <1>10
  <2>2. CASE ch = f
    BY <1>1, <2>1, <2>2
  <2>3. CASE Len(ops) = 1 /\ plan = ops /\ Stage(ops[1], f, ch)
    BY <1>1, <1>4, <2>1, <2>3
  <2> QED
    BY <1>5, <1>10, <2>2, <2>3
<1>11. AlterBehind'
  <2>1. /\ Len(plan') <= Len(ops)
        /\ saved'.last = done' => SinceSaved(ops)'
        /\ ~risky' =>
             /\ begun' <= done' + 1
             /\ \/ ch' = g
                \/ begun' = done' + 1 /\ Len(ops) = 1 /\ plan' = ops /\ Stage(ops[1], g, ch')
    BY <1>2, <1>3, <1>7, <1>9, <1>10
  <2> QED
    BY <1>6, <2>1 DEF AlterBehind, g
<1>12. SavedBehind'
  <2> SUFFICES ASSUME ~risky, ~ManyClauses(saved.last + 1, begun)'
               PROVE  Behind(saved.last, saved.ch_structure.fields)'
    BY <1>2 DEF SavedBehind
  <2>1. begun' = done + 1
    BY <1>10
  <2>2. saved.last = done /\ ~(Len(ops) > 1)
    BY <1>2, <1>3, <1>6, <2>1 DEF ManyClauses, Ops
  <2>3. /\ Len(ops) = 1 /\ Op = ops[1]
        /\ \/ /\ plan' = ops /\ Op.op = "change" /\ g = Retyped(Op, h)
              /\ \A k : Stage(Op, g, k) => Stage(Op, h, k)
              /\ Stage(Op, h, g)
           \/ plan' = <<>> /\ Stage(Op, h, g)
    BY <1>4, <1>8, <2>2
  <2>4. Stage(Op, h, ch')
    <3>1. CASE ch' = g
      BY <2>3, <3>1
    <3>2. CASE plan = ops /\ plan' = ops /\ Stage(Op, g, ch')
      BY <1>1, <2>3, <3>2
    <3> QED
      BY <1>10, <3>1, <3>2
  <2> QED
    BY <1>0, <1>2, <1>6, <2>1, <2>2, <2>3, <2>4 DEF Behind, h
<1>13. LoopBehind'
  BY <1>1, <1>2 DEF LoopBehind
<1>14. RefusedOnlyOnReplay'
  BY <1>2 DEF ReplayInv, RefusedOnlyOnReplay
<1> QED
  BY <1>11, <1>12, <1>13, <1>14 DEF ReplayInv

LEMMA ReplaySkips ==
    ASSUME LogInv, CounterInv, StructureInv, ReplayInv, SkipClause
    PROVE  ReplayInv'
<1> DEFINE f == ch_structure.fields
           h == saved.ch_structure.fields
           ops == Ops(done + 1)
<1>1. /\ pc = "alter" /\ plan # <<>> /\ plan' = Tail(plan)
      /\ UNCHANGED <<log, ch, saved, pc, done, ch_structure, begun, risky, refused>>
      /\ Stage(Op, f, ch) => ch = f
  <2>1. pc = "alter" /\ UNCHANGED <<log, saved, pc, done, begun, risky, refused>>
    BY DEF SkipClause, NothingToDo, Executing
  <2> QED
    BY <2>1, SkipEffect
<1>4. /\ ops \in Seq(PlanClauses) /\ Len(ops) \in Nat
      /\ Len(plan) \in Nat /\ (Len(plan) = 0 <=> plan = <<>>)
      /\ Len(Tail(plan)) = Len(plan) - 1 /\ Op = plan[1]
      /\ Len(plan) = 1 => Tail(plan) = <<>>
  BY <1>1, PlanTypes
<1>5. /\ Len(plan) <= Len(ops)
      /\ saved.last = done => SinceSaved(ops)
      /\ ~risky => /\ begun <= done + 1
                   /\ \/ ch = f
                      \/ begun = done + 1 /\ Len(ops) = 1 /\ plan = ops /\ Stage(ops[1], f, ch)
  BY <1>1 DEF ReplayInv, AlterBehind
<1>6. Ops(done + 1)' = ops /\ ops' = ops
  BY <1>1 DEF Ops
<1> HIDE DEF ops
<1>7. Len(plan') <= Len(ops)
  BY <1>1, <1>4, <1>5
<1>8. ASSUME saved.last = done
      PROVE  SinceSaved(ops)'
  <2>1. SinceSaved(ops)
    BY <1>5, <1>8
  <2>2. Len(plan) # 0 /\ Len(plan) <= Len(ops)
    BY <1>1, <1>4, <1>5
  <2>3. Len(ops) # 0
    BY <1>4, <2>2
  <2>4. ASSUME Len(ops) = 1
        PROVE  plan' = <<>> /\ (f = h \/ Stage(ops[1], h, f))
    <3>1. plan = ops
      BY <1>1, <2>1, <2>4 DEF SinceSaved
    <3>2. plan' = <<>>
      BY <1>1, <1>4, <2>4, <3>1
    <3>3. f = h \/ (ops[1].op = "change" /\ f = Retyped(ops[1], h))
      BY <1>1, <2>1, <2>4 DEF SinceSaved
    <3> HIDE DEF f, h
    <3> QED
      BY <3>2, <3>3 DEF Stage
  <2> QED
    BY <1>1, <1>6, <2>3, <2>4 DEF SinceSaved
<1>9. ~risky => begun <= done + 1 /\ ch = f
  <2>1. plan = ops => Op = ops[1]
    BY <1>4
  <2> QED
    BY <1>1, <1>5, <2>1
<1>10. AlterBehind'
  <2>1. /\ Len(plan') <= Len(ops)
        /\ saved'.last = done' => SinceSaved(ops)'
        /\ ~risky' => begun' <= done' + 1 /\ ch' = ch_structure'.fields
    BY <1>1, <1>7, <1>8, <1>9
  <2> QED
    BY <1>6, <2>1 DEF AlterBehind
<1>11. SavedBehind'
  <2>1. SavedBehind
    BY DEF ReplayInv
  <2> QED
    BY <1>1, <2>1 DEF SavedBehind, Behind, ManyClauses, Ops
<1>12. LoopBehind'
  BY <1>1 DEF LoopBehind
<1>13. RefusedOnlyOnReplay'
  BY <1>1 DEF ReplayInv, RefusedOnlyOnReplay
<1> QED
  BY <1>10, <1>11, <1>12, <1>13 DEF ReplayInv

(* A statement is over: the checkpoint in memory passes it, and the saved   *)
(* one may.                                                                *)
LEMMA ReplayFinishes ==
    ASSUME LogInv, CounterInv, StructureInv, ReplayInv, FinishAlter
    PROVE  ReplayInv'
<1> DEFINE f == ch_structure.fields
           h == saved.ch_structure.fields
           ops == Ops(done + 1)
<1>1. /\ pc = "alter" /\ plan = <<>> /\ pc' = "loop" /\ done' = done + 1
      /\ begun' = Max({begun, done + 1})
      /\ UNCHANGED <<log, ch, ch_structure, risky, refused>>
      /\ last' \in {last, done + 1}
      /\ saved' = saved \/ (saved'.last = last' /\ saved'.ch_structure = ch_structure)
  BY DEF FinishAlter, SaveStateIfRequired, Save, structures
<1>2. /\ done \in Nat /\ begun \in Nat /\ saved.last \in Nat /\ last \in Nat
      /\ saved.last <= last /\ last <= done
  BY <1>1 DEF CounterInv
<1>3. /\ begun' \in Nat /\ begun' >= done + 1
      /\ begun' = begun \/ begun' = done + 1
  BY <1>1, <1>2, LaterOfTwo
<1>4. /\ saved.last = done => SinceSaved(ops)
      /\ ~risky => /\ begun <= done + 1
                   /\ \/ ch = f
                      \/ Len(ops) = 1 /\ plan = ops
  BY <1>1 DEF ReplayInv, AlterBehind
<1>5. Len(ops) \in Nat /\ (Len(ops) = 1 => plan # ops)
  <2>1. Len(ops) \in Nat
    BY <1>1, PlanTypes
  <2> HIDE DEF ops
  <2> QED
    BY <1>1, <2>1
<1>6. log' = log /\ ops = ColumnChanges(log[done + 1])
  BY <1>1 DEF Ops
<1> HIDE DEF ops
<1>7. ASSUME ~risky
      PROVE  begun' = done + 1 /\ ch = f
  BY <1>2, <1>3, <1>4, <1>5, <1>7
<1>8. saved'.last = done' => saved'.ch_structure.fields = f
  BY <1>1, <1>2
<1>9. LoopBehind'
  <2>1. ASSUME ~risky
        PROVE  ~ManyClauses(done + 1, begun)' /\ Behind(done, ch_structure.fields)'
    <3>1. begun' = done + 1 /\ done' = done + 1 /\ ch' = ch_structure'.fields
      BY <1>1, <1>7, <2>1
    <3> QED
      BY <1>2, <3>1 DEF ManyClauses, Behind
  <2> QED
    BY <1>1, <1>8, <2>1 DEF LoopBehind
<1>10. SavedBehind'
  <2> SUFFICES ASSUME ~risky, ~ManyClauses(saved.last + 1, begun)'
               PROVE  Behind(saved.last, saved.ch_structure.fields)'
    BY <1>1 DEF SavedBehind
  <2>1. begun' = done + 1 /\ ch' = f
    BY <1>1, <1>7
  <2>2. CASE saved'.ch_structure = ch_structure
    BY <2>1, <2>2 DEF Behind
  <2>3. CASE saved' = saved
    <3>0. /\ ~(saved.last + 1 < done + 1)
          /\ saved.last + 1 = done + 1 => ~(Len(ops) > 1)
      BY <1>6, <2>1, <2>3 DEF ManyClauses
    <3>1. saved.last = done /\ ~(Len(ops) > 1)
      BY <1>2, <3>0
    <3>2. SinceSaved(ops)
      BY <1>4, <3>1
    <3>3. f = h \/ (Len(ops) = 1 /\ Stage(ops[1], h, f))
      <4>1. CASE Len(ops) = 0
        BY <3>2, <4>1 DEF SinceSaved
      <4>2. CASE Len(ops) = 1
        <5>1. plan # ops
          BY <1>5, <4>2
        <5> QED
          BY <3>2, <4>2, <5>1 DEF SinceSaved
      <4>3. Len(ops) = 0 \/ Len(ops) = 1
        <5> DEFINE n == Len(ops)
        <5>1. n \in Nat /\ ~(n > 1)
          BY <1>5, <3>1
        <5> HIDE DEF n
        <5>2. n = 0 \/ n = 1
          BY <5>1
        <5> QED
          BY <5>2 DEF n
      <4> HIDE DEF f, h
      <4> QED
        BY <4>1, <4>2, <4>3
    <3> HIDE DEF f, h
    <3>4. ch' = h \/ (Len(ops) = 1 /\ Stage(ops[1], h, ch'))
      BY <2>1, <3>3
    <3>5. begun' = saved'.last + 1 /\ Ops(begun)' = ops /\ saved'.ch_structure.fields = h
      BY <1>6, <2>1, <2>3, <3>1 DEF Ops, h
    <3> QED
      BY <3>4, <3>5 DEF Behind
  <2> QED
    BY <1>1, <2>2, <2>3
<1>11. AlterBehind'
  BY <1>1 DEF AlterBehind
<1>12. RefusedOnlyOnReplay'
  BY <1>1 DEF ReplayInv, RefusedOnlyOnReplay
<1> QED
  BY <1>9, <1>10, <1>11, <1>12 DEF ReplayInv

(* Steps of the process between two statements. *)
LEMMA ReplayLoops ==
    ASSUME LogInv, CounterInv, StructureInv, ReplayInv, pc = "loop",
           UNCHANGED <<log, ch, begun, risky, refused>>,
           saved' = saved \/ (saved'.last = done /\ saved'.ch_structure = ch_structure)
    PROVE  /\ SavedBehind' /\ RefusedOnlyOnReplay'
           /\ saved'.last = done => saved'.ch_structure.fields = ch_structure.fields
<1>1. /\ saved.last = done => saved.ch_structure.fields = ch_structure.fields
      /\ ~risky => ~ManyClauses(done + 1, begun) /\ Behind(done, ch_structure.fields)
      /\ SavedBehind /\ RefusedOnlyOnReplay
  BY DEF ReplayInv, LoopBehind
<1>2. CASE saved' = saved
  BY <1>1, <1>2 DEF SavedBehind, Behind, ManyClauses, Ops, RefusedOnlyOnReplay
<1>3. CASE saved'.last = done /\ saved'.ch_structure = ch_structure
  BY <1>1, <1>3 DEF SavedBehind, Behind, ManyClauses, Ops, RefusedOnlyOnReplay
<1> QED
  BY <1>2, <1>3

LEMMA ReplayInvInit ==
    ASSUME Init
    PROVE  ReplayInv
  BY DEF Init, ReplayInv, SavedBehind, LoopBehind, AlterBehind, RefusedOnlyOnReplay,
         ManyClauses, Behind

LEMMA ReplayInvStep ==
    ASSUME LogInv, CounterInv, StructureInv, ReplayInv, [Next]_vars
    PROVE  ReplayInv'
<1>1. CASE MySQLAlters
  <2>1. PICK stmt : log' = Append(log, stmt)
    BY <1>1 DEF MySQLAlters
  <2>2. UNCHANGED <<ch, saved, pc, done, plan, ch_structure, begun, risky, refused>>
    BY <1>1 DEF MySQLAlters, memory, structures
  <2>3. Len(log) \in Nat /\ \A n \in 1..Len(log) : log'[n] = log[n]
    BY <2>1 DEF LogInv
  <2>4. \A n \in 1..Len(log) : Ops(n)' = Ops(n)
    BY <2>3 DEF Ops
  <2>5. begun \in Nat /\ begun <= Len(log) /\ saved.last \in Nat /\ done \in Nat
    BY DEF CounterInv
  <2>6. \A i \in Nat : ManyClauses(i + 1, begun)' <=> ManyClauses(i + 1, begun)
    <3> TAKE i \in Nat
    <3>1. i + 1 = begun => i + 1 \in 1..Len(log)
      BY <2>3, <2>5
    <3> QED
      BY <2>2, <2>3, <3>1 DEF ManyClauses
  <2>7. ASSUME NEW l \in Nat, NEW f
        PROVE  (\/ ch' = f
                \/ /\ begun' = l + 1 /\ Len(Ops(begun)') = 1
                   /\ Stage(Ops(begun)'[1], f, ch'))
               <=> Behind(l, f)
    <3>1. begun = l + 1 => Ops(begun)' = Ops(begun)
      <4>1. begun = l + 1 => begun \in 1..Len(log)
        BY <2>3, <2>5
      <4> QED
        BY <2>2, <2>4, <4>1 DEF Ops
    <3> QED
      BY <2>2, <3>1 DEF Behind
  <2>8. SavedBehind'
    BY <2>2, <2>5, <2>6, <2>7 DEF ReplayInv, SavedBehind, Behind
  <2>9. LoopBehind'
    BY <2>2, <2>5, <2>6, <2>7 DEF ReplayInv, LoopBehind, Behind
  <2>10. AlterBehind'
    <3> SUFFICES ASSUME pc = "alter"
                 PROVE  AlterBehind'
      BY <2>2 DEF AlterBehind
    <3>1. done + 1 \in 1..Len(log)
      BY <2>3, <2>5 DEF LogInv
    <3>2. Ops(done + 1)' = Ops(done + 1)
      BY <2>2, <2>3, <3>1 DEF Ops
    <3> QED
      BY <2>2, <3>2 DEF ReplayInv, AlterBehind, SinceSaved
  <2>11. RefusedOnlyOnReplay'
    BY <2>2 DEF ReplayInv, RefusedOnlyOnReplay
  <2> QED
    BY <2>8, <2>9, <2>10, <2>11 DEF ReplayInv
<1>2. CASE Start
  <2>1. /\ pc' = "loop" /\ done' = saved.last /\ ch_structure' = saved.ch_structure
        /\ risky' = (risky \/ ManyClauses(saved.last + 1, begun))
        /\ UNCHANGED <<log, ch, saved, begun, refused>>
    BY <1>2 DEF Start
  <2>2. SavedBehind'
    BY <2>1 DEF ReplayInv, SavedBehind, Behind, ManyClauses, Ops
  <2>3. LoopBehind'
    BY <2>1 DEF ReplayInv, SavedBehind, LoopBehind, Behind, ManyClauses, Ops
  <2>4. AlterBehind' /\ RefusedOnlyOnReplay'
    BY <2>1 DEF ReplayInv, AlterBehind, RefusedOnlyOnReplay
  <2> QED
    BY <2>2, <2>3, <2>4 DEF ReplayInv
<1>3. CASE HandleAlterQuery
  <2> DEFINE ops == Ops(done + 1)
  <2>1. /\ pc = "loop" /\ pc' = "alter" /\ done' = done /\ done < Len(log)
        /\ plan' = ops /\ ch_structure' = ch_structure
        /\ UNCHANGED <<log, ch, begun, risky, refused>>
        /\ saved' = saved \/ (saved'.last = done /\ saved'.ch_structure = ch_structure)
    BY <1>3 DEF HandleAlterQuery, Uploaded, SaveStateIfRequired, Save, structures, Ops
  <2>2. /\ SavedBehind' /\ RefusedOnlyOnReplay'
        /\ saved'.last = done => saved'.ch_structure.fields = ch_structure.fields
    BY <2>1, ReplayLoops
  <2>3. Ops(done + 1)' = ops /\ ops' = ops
    BY <2>1 DEF Ops
  <2>4. saved'.last = done' => SinceSaved(ops)'
    BY <2>1, <2>2, <2>3 DEF SinceSaved
  <2>5. Len(ops) \in Nat
    <3>1. done + 1 \in 1..Len(log)
      BY <2>1 DEF LogInv
    <3> QED
      BY <3>1, PlanOfStatement DEF Ops
  <2>6. ASSUME ~risky
        PROVE  /\ begun <= done + 1
               /\ \/ ch = ch_structure.fields
                  \/ begun = done + 1 /\ Len(ops) = 1 /\ Stage(ops[1], ch_structure.fields, ch)
    <3>1. ~ManyClauses(done + 1, begun) /\ Behind(done, ch_structure.fields)
      BY <2>1, <2>6 DEF ReplayInv, LoopBehind
    <3>2. begun \in Nat /\ done \in Nat
      BY DEF CounterInv
    <3>3. begun <= done + 1
      BY <3>1, <3>2 DEF ManyClauses
    <3> QED
      BY <3>1, <3>3 DEF Behind
  <2> HIDE DEF ops
  <2>7. AlterBehind'
    <3>1. Len(plan') <= Len(ops)
      BY <2>1, <2>5
    <3> QED
      BY <2>1, <2>3, <2>4, <2>6, <3>1 DEF AlterBehind
  <2>8. LoopBehind'
    BY <2>1 DEF LoopBehind
  <2> QED
    BY <2>2, <2>7, <2>8 DEF ReplayInv
<1>4. CASE RejectAlterQuery \/ Stop
  <2>1. /\ pc = "loop" /\ pc' = "down"
        /\ UNCHANGED <<log, ch, begun, risky, refused>>
        /\ saved' = saved \/ (saved'.last = done /\ saved'.ch_structure = ch_structure)
    BY <1>4 DEF RejectAlterQuery, Stop, ProcessEnds, SaveStateIfRequired, Save
  <2>2. SavedBehind' /\ RefusedOnlyOnReplay'
    BY <2>1, ReplayLoops
  <2> QED
    BY <2>1, <2>2 DEF ReplayInv, LoopBehind, AlterBehind
<1>5. CASE ReadNothing
  <2>1. /\ pc = "loop" /\ pc' = "loop"
        /\ UNCHANGED <<log, ch, begun, risky, refused, done, ch_structure>>
        /\ saved' = saved \/ (saved'.last = done /\ saved'.ch_structure = ch_structure)
    BY <1>5 DEF ReadNothing, Uploaded, SaveStateIfRequired, Save, structures
  <2>2. /\ SavedBehind' /\ RefusedOnlyOnReplay'
        /\ saved'.last = done => saved'.ch_structure.fields = ch_structure.fields
    BY <2>1, ReplayLoops
  <2>3. LoopBehind'
    BY <2>1, <2>2 DEF ReplayInv, LoopBehind, Behind, ManyClauses, Ops
  <2> QED
    BY <2>1, <2>2, <2>3 DEF ReplayInv, AlterBehind
<1>6. CASE Crash
  <2>1. pc' = "down" /\ UNCHANGED <<log, ch, saved, begun, risky, refused>>
    BY <1>6 DEF Crash, ProcessEnds
  <2> QED
    BY <2>1 DEF ReplayInv, SavedBehind, LoopBehind, AlterBehind, RefusedOnlyOnReplay,
                Behind, ManyClauses, Ops
<1>7. CASE CommandRefused
  <2>1. pc' = "down" /\ UNCHANGED <<log, ch, saved, begun, risky>>
    BY <1>7 DEF CommandRefused, ProcessEnds
  <2>2. pc = "alter" /\ plan # <<>>
    BY <1>7 DEF CommandRefused, Executing, Renaming
  <2>3. ch # ch_structure.fields /\ ~Stage(Op, ch_structure.fields, ch)
    BY <1>7, NotRefused
  <2>4. Op = plan[1]
    BY <2>2, PlanTypes
  <2>5. risky
    BY <2>2, <2>3, <2>4 DEF ReplayInv, AlterBehind
  <2> QED
    BY <2>1, <2>5 DEF ReplayInv, SavedBehind, LoopBehind, AlterBehind, RefusedOnlyOnReplay
<1>8. CASE UNCHANGED vars
  <2>1. UNCHANGED <<log, ch, saved, pc, done, plan, ch_structure, begun, risky, refused>>
    BY <1>8 DEF vars, memory, structures
  <2> QED
    BY <2>1 DEF ReplayInv, SavedBehind, LoopBehind, AlterBehind, RefusedOnlyOnReplay,
                SinceSaved, Behind, ManyClauses, Ops
<1> QED
  BY <1>1, <1>2, <1>3, <1>4, <1>5, <1>6, <1>7, <1>8, ReplaySends, ReplaySkips, ReplayFinishes
     DEF Next

LEMMA ReplayInvHolds == Spec => []ReplayInv
<1>1. Init => ReplayInv
  BY ReplayInvInit
<1>2. PlanningInv /\ ReplayInv /\ [Next]_vars => ReplayInv'
  BY ReplayInvStep DEF PlanningInv
<1> QED
  BY <1>1, <1>2, PlanningInvHolds, PTL DEF Spec

(* ClickHouse refuses no command of a statement that is new to it, nor of   *)
(* the only clause that restarts execute again, any number of times: IF     *)
(* EXISTS and IF NOT EXISTS, and the position that ADD COLUMN names.       *)
THEOREM OnlyReplaysAreRefused == Spec => []RefusedOnlyOnReplay
<1>1. ReplayInv => RefusedOnlyOnReplay
  BY DEF ReplayInv
<1> QED
  BY <1>1, ReplayInvHolds, PTL

-----------------------------------------------------------------------------
(* The columns of ClickHouse and the definitions of MySQL.                 *)

(* The columns f of a table after a valid clause. *)
NextFields(cl, f) ==
    CASE cl.op = "add" ->
           IF Has(f, cl.name) THEN f
           ELSE Inserted(f, Field(cl.name, ChType(cl)), ColumnAfter(cl, f))
      [] cl.op = "drop" -> IF Has(f, cl.name) THEN Removed(f, cl.name) ELSE f
      [] cl.op = "modify" -> Updated(f, Field(cl.name, ChType(cl)))
      [] cl.op = "change" ->
           IF ColOf(cl, f) = cl.to THEN Retyped(cl, f)
           ELSE Renamed(Retyped(cl, f), ColOf(cl, f), cl.to)
      [] cl.op = "rename" ->
           IF ColOf(cl, f) = cl.to THEN f ELSE Renamed(f, ColOf(cl, f), cl.to)

LEMMA NextFieldsMeaning ==
    ASSUME NEW cl, NEW f
    PROVE  /\ cl.op = "add" /\ Has(f, cl.name) => NextFields(cl, f) = f
           /\ cl.op = "add" /\ ~Has(f, cl.name) =>
                NextFields(cl, f) = Inserted(f, Field(cl.name, ChType(cl)), ColumnAfter(cl, f))
           /\ cl.op = "drop" /\ Has(f, cl.name) => NextFields(cl, f) = Removed(f, cl.name)
           /\ cl.op = "drop" /\ ~Has(f, cl.name) => NextFields(cl, f) = f
           /\ cl.op = "modify" => NextFields(cl, f) = Updated(f, Field(cl.name, ChType(cl)))
           /\ cl.op = "change" /\ ColOf(cl, f) = cl.to => NextFields(cl, f) = Retyped(cl, f)
           /\ cl.op = "change" /\ ColOf(cl, f) # cl.to =>
                NextFields(cl, f) = Renamed(Retyped(cl, f), ColOf(cl, f), cl.to)
           /\ cl.op = "rename" /\ ColOf(cl, f) = cl.to => NextFields(cl, f) = f
           /\ cl.op = "rename" /\ ColOf(cl, f) # cl.to =>
                NextFields(cl, f) = Renamed(f, ColOf(cl, f), cl.to)
  BY DEF NextFields

(* The new name of a column that has been renamed is found. *)
LEMMA ColOfRenamed ==
    ASSUME NEW f \in Rows, Unique(f), NEW cl, NEW n, n = cl.name, n # cl.to, Has(f, n),
           cl.to \in ColumnNames, ~Has(f, cl.to)
    PROVE  LET g == Renamed(f, n, cl.to) IN
           /\ g \in Rows /\ Has(g, cl.to) /\ ColOf(cl, g) = cl.to
           /\ g[Index(g, cl.to)].type = f[Index(f, n)].type
<1> DEFINE g == Renamed(f, n, cl.to)
           p == Index(f, n)
<1>1. /\ g \in Rows /\ Len(g) = Len(f) /\ Unique(g)
      /\ \A i \in 1..Len(f) : g[i] = IF i = p THEN Field(cl.to, f[i].type) ELSE f[i]
  BY RenamedShape, UniqueRenamed DEF Rows
<1>2. ~Has(g, n) /\ Has(g, cl.to)
  BY RenamedIsAbsent DEF Rows
<1>3. p \in 1..Len(f)
  BY IndexMeaning DEF Rows
<1> HIDE DEF g, p
<1>4. ColOf(cl, g) = cl.to
  BY <1>2 DEF ColOf, CurrentName
<1>5. g[p].name = cl.to /\ g[p].type = f[p].type /\ p \in 1..Len(g)
  <2>1. g[p] = Field(cl.to, f[p].type) /\ p \in 1..Len(g)
    BY <1>1, <1>3
  <2> QED
    BY <2>1 DEF Field
<1>6. Index(g, cl.to) = p
  BY <1>1, <1>5, IndexOfUnique DEF Rows
<1> QED
  BY <1>1, <1>2, <1>4, <1>5, <1>6 DEF g, p

(* A clause that was executed changes nothing more. *)
LEMMA NextTwice ==
    ASSUME NEW f \in Rows, Unique(f), NEW cl, cl.op \in ColumnOps, Fits(cl, f),
           cl.op \in {"change", "rename"} => ColOf(cl, f) \in {cl.name, cl.to}
    PROVE  NextFields(cl, NextFields(cl, f)) = NextFields(cl, f)
<1> DEFINE g == NextFields(cl, f)
<1>1. CASE cl.op = "add"
  <2>1. CASE Has(f, cl.name)
    BY <1>1, <2>1, NextFieldsMeaning
  <2>2. CASE ~Has(f, cl.name)
    <3> DEFINE x == Field(cl.name, ChType(cl))
               pos == ColumnAfter(cl, f)
    <3>1. x \in FieldsOf(STRING) /\ x.name = cl.name /\ Placed(f, pos)
      BY <1>1, <2>2 DEF Fits, Field
    <3> HIDE DEF x, pos
    <3>2. Has(Inserted(f, x, pos), cl.name)
      BY <3>1, HasInserted DEF Rows
    <3>3. Has(g, cl.name)
      BY <1>1, <2>2, <3>2, NextFieldsMeaning DEF x, pos
    <3> HIDE DEF g
    <3>4. NextFields(cl, g) = g
      BY <1>1, <3>3, NextFieldsMeaning
    <3> QED
      BY <3>4 DEF g
  <2> QED
    BY <2>1, <2>2
<1>2. CASE cl.op = "drop"
  <2>1. ~Has(g, cl.name)
    <3>1. CASE Has(f, cl.name)
      <4>1. g = Removed(f, cl.name)
        BY <1>2, <3>1, NextFieldsMeaning
      <4> HIDE DEF g
      <4> QED
        BY <3>1, <4>1, RemovedIsAbsent DEF Rows
    <3>2. CASE ~Has(f, cl.name)
      BY <1>2, <3>2, NextFieldsMeaning
    <3> QED
      BY <3>1, <3>2
  <2> HIDE DEF g
  <2>2. NextFields(cl, g) = g
    BY <1>2, <2>1, NextFieldsMeaning
  <2> QED
    BY <2>2 DEF g
<1>3. CASE cl.op = "modify"
  <2> DEFINE x == Field(cl.name, ChType(cl))
  <2>1. x \in FieldsOf(STRING)
    BY <1>3 DEF Fits
  <2>2. g = Updated(f, x)
    BY <1>3, NextFieldsMeaning
  <2>3. NextFields(cl, g) = Updated(g, x)
    BY <1>3, NextFieldsMeaning
  <2> HIDE DEF x, g
  <2>4. Updated(Updated(f, x), x) = Updated(f, x)
    BY <2>1, UpdatedTwice DEF Rows
  <2>5. NextFields(cl, g) = g
    BY <2>2, <2>3, <2>4
  <2> QED
    BY <2>5 DEF g
<1>4. CASE cl.op = "change"
  <2> DEFINE n == ColOf(cl, f)
             h == Retyped(cl, f)
  <2>1. /\ h \in Rows /\ ColOf(cl, h) = n /\ Retyped(cl, h) = h
        /\ \A k : Has(h, k) <=> Has(f, k)
        /\ h[Index(h, n)].type = ChType(cl)
    BY <1>4, RetypedShape
  <2>2. n \in ColumnNames /\ Has(f, n) /\ cl.to \in ColumnNames
        /\ Field(n, ChType(cl)) \in FieldsOf(STRING)
        /\ Field(cl.to, ChType(cl)) \in FieldsOf(STRING)
    BY <1>4 DEF Fits
  <2>3. CASE n = cl.to
    <3>1. g = h
      BY <1>4, <2>3, NextFieldsMeaning
    <3> HIDE DEF g, h, n
    <3>2. NextFields(cl, g) = g
      BY <1>4, <2>1, <2>3, <3>1, NextFieldsMeaning
    <3> QED
      BY <3>2 DEF g
  <2>4. CASE n # cl.to
    <3>1. g = Renamed(h, n, cl.to)
      BY <1>4, <2>4, NextFieldsMeaning
    <3>2. n = cl.name /\ ~Has(h, cl.to)
      BY <1>4, <2>1, <2>4 DEF Fits
    <3>3. Unique(h)
      BY <2>2, UniqueUpdated DEF Rows, Retyped
    <3> HIDE DEF n, h, g
    <3>4. /\ g \in Rows /\ Has(g, cl.to) /\ ColOf(cl, g) = cl.to
          /\ g[Index(g, cl.to)].type = h[Index(h, n)].type
      BY <2>1, <2>2, <2>4, <3>1, <3>2, <3>3, ColOfRenamed
    <3>5. g[Index(g, cl.to)].type = ChType(cl)
      BY <2>1, <3>4
    <3>6. Retyped(cl, g) = g
      <4>1. Updated(g, Field(cl.to, ChType(cl))) = g
        BY <2>2, <3>4, <3>5, UpdatedSame DEF Rows
      <4> QED
        BY <3>4, <4>1 DEF Retyped
    <3>7. NextFields(cl, g) = g
      BY <1>4, <3>4, <3>6, NextFieldsMeaning
    <3> QED
      BY <3>7 DEF g
  <2> QED
    BY <2>3, <2>4
<1>5. CASE cl.op = "rename"
  <2> DEFINE n == ColOf(cl, f)
  <2>1. n \in ColumnNames /\ Has(f, n) /\ cl.to \in ColumnNames
    BY <1>5 DEF Fits
  <2>2. CASE n = cl.to
    BY <1>5, <2>2, NextFieldsMeaning
  <2>3. CASE n # cl.to
    <3>1. g = Renamed(f, n, cl.to)
      BY <1>5, <2>3, NextFieldsMeaning
    <3>2. n = cl.name /\ ~Has(f, cl.to)
      BY <1>5, <2>3 DEF Fits
    <3> HIDE DEF n, g
    <3>3. g \in Rows /\ ColOf(cl, g) = cl.to
      BY <2>1, <2>3, <3>1, <3>2, ColOfRenamed
    <3>4. NextFields(cl, g) = g
      BY <1>5, <3>3, NextFieldsMeaning
    <3> QED
      BY <3>4 DEF g
  <2> QED
    BY <2>2, <2>3
<1> QED
  BY <1>1, <1>2, <1>3, <1>4, <1>5 DEF ColumnOps

(* A step that executes a clause, or the first command of a CHANGE. *)
LEMMA NextOfOp ==
    ASSUME StructureInv, pc = "alter", plan # <<>>
    PROVE  LET f == ch_structure.fields IN
           NextFields(Op, NextFields(Op, f)) = NextFields(Op, f)
<1> DEFINE f == ch_structure.fields
<1>1. f \in Rows /\ Unique(f) /\ Fits(Op, f) /\ OpName = ColOf(Op, f)
  BY OpFits
<1>2. /\ Op.op \in ColumnOps
      /\ Op.op \in {"change", "rename"} => OpName \in {Op.name, Op.to}
  BY HeadIsValid
<1> HIDE DEF f
<1>3. NextFields(Op, NextFields(Op, f)) = NextFields(Op, f)
  BY <1>1, <1>2, NextTwice
<1> QED
  BY <1>3 DEF f

LEMMA SendingNext ==
    ASSUME StructureInv,
           AddColumn \/ DropColumn \/ ModifyColumn \/ ChangeColumnType \/ RenameColumn
    PROVE  LET f == ch_structure.fields
               g == ch_structure'.fields
           IN  \/ plan' = Tail(plan) /\ g = NextFields(Op, f)
               \/ plan' = plan /\ NextFields(Op, g) = NextFields(Op, f)
<1> DEFINE f == ch_structure.fields
           g == ch_structure'.fields
<1>1. pc = "alter" /\ plan # <<>>
  BY SendingEffect
<1>2. /\ f \in Rows /\ Fits(Op, f) /\ OpName = ColOf(Op, f)
      /\ Op.op = "add" /\ ~Has(f, Op.name) => OpAfter = ColumnAfter(Op, f)
      /\ \A n : Has(f, n) <=> Has(mysql_structure.fields, n)
      /\ ch_structure \in StructureOf(STRING) /\ ch_structure.keys = PrimaryKeys
      /\ ch_structure.ids = Ids(f)
      /\ ~KeyColumn(Op.name)
  BY <1>1, OpFits
<1>4. CASE AddColumn
  <2>1. Op.op = "add" /\ plan' = Tail(plan) /\ Stage(Op, f, g)
    BY <1>4, AddEffect DEF AddColumn, Executing, Op
  <2>2. ~Has(f, Op.name) /\ g = Inserted(f, Field(Op.name, ChType(Op)), ColumnAfter(Op, f))
    BY <2>1 DEF Stage
  <2> QED
    BY <2>1, <2>2, NextFieldsMeaning
<1>5. CASE DropColumn
  <2>1. Op.op = "drop" /\ plan' = Tail(plan) /\ Stage(Op, f, g)
    BY <1>5, DropEffect DEF DropColumn, Executing, Op
  <2>2. Has(f, Op.name) /\ g = Removed(f, Op.name)
    BY <2>1 DEF Stage
  <2> QED
    BY <2>1, <2>2, NextFieldsMeaning
<1>6. CASE ModifyColumn
  <2>1. Op.op = "modify" /\ plan' = Tail(plan) /\ Stage(Op, f, g)
    BY <1>6, ModifyEffect DEF ModifyColumn, Executing, Op
  <2>2. g = Updated(f, Field(Op.name, ChType(Op)))
    BY <2>1 DEF Stage
  <2> QED
    BY <2>1, <2>2, NextFieldsMeaning
<1>7. CASE ChangeColumnType
  <2>1. plan' = plan /\ Op.op = "change" /\ g = Retyped(Op, f)
    BY <1>7, ChangeEffect
  <2> HIDE DEF f, g
  <2>2. ColOf(Op, g) = ColOf(Op, f) /\ Retyped(Op, g) = g
    BY <1>2, <2>1, RetypedShape
  <2>3. NextFields(Op, g) = NextFields(Op, f)
    <3>1. CASE ColOf(Op, f) = Op.to
      BY <2>1, <2>2, <3>1, NextFieldsMeaning
    <3>2. CASE ColOf(Op, f) # Op.to
      BY <2>1, <2>2, <3>2, NextFieldsMeaning
    <3> QED
      BY <3>1, <3>2
  <2> QED
    BY <2>1, <2>3 DEF f, g
<1>8. CASE RenameColumn
  <2>1. /\ Op.op \in {"change", "rename"} /\ OpName # Op.to
        /\ Op.op = "change" => f[Index(f, OpName)].type = ChType(Op)
        /\ Renaming
        /\ plan' = Tail(plan)
        /\ ch_structure' = RenameStructureField(ch_structure, OpName, Op.to)
    BY <1>8 DEF RenameColumn, Renaming, Executing, Op, ChType
  <2>2. OpName = Op.name /\ Op.to \in ColumnNames
    BY <2>1, RenamingStates
  <2>3. g = Renamed(f, OpName, Op.to)
    BY <1>2, <2>1, <2>2, RenameStructureFieldShape DEF KeyColumn
  <2>4. Op.op = "change" => Retyped(Op, f) = f
    BY <1>2, <2>1, RetypedAlready
  <2> HIDE DEF f, g
  <2>5. g = NextFields(Op, f)
    BY <1>2, <2>1, <2>3, <2>4, NextFieldsMeaning
  <2> QED
    BY <2>1, <2>5 DEF f, g
<1> QED
  BY <1>4, <1>5, <1>6, <1>7, <1>8

LEMMA SkippingNext ==
    ASSUME StructureInv, SkipClause
    PROVE  NextFields(Op, ch_structure.fields) = ch_structure.fields
<1> DEFINE f == ch_structure.fields
<1>1. pc = "alter" /\ plan # <<>> /\ NothingToDo
  BY DEF SkipClause, NothingToDo, Executing
<1>2. /\ f \in Rows /\ Fits(Op, f) /\ OpName = ColOf(Op, f)
      /\ \A n : Has(f, n) <=> Has(mysql_structure.fields, n)
  BY <1>1, OpFits
<1>3. \/ Op.op = "add" /\ Has(f, Op.name)
      \/ Op.op = "drop" /\ ~Has(f, Op.name)
      \/ Op.op = "rename" /\ OpName = Op.to
      \/ Op.op = "change" /\ OpName = Op.to /\ f[Index(f, OpName)].type = ChType(Op)
  BY <1>1, <1>2 DEF NothingToDo, Executing, Op, ChType
<1>4. Op.op = "change" => Retyped(Op, f) = f
  BY <1>2, <1>3, RetypedAlready
<1> HIDE DEF f
<1>5. NextFields(Op, f) = f
  BY <1>2, <1>3, <1>4, NextFieldsMeaning
<1> QED
  BY <1>5 DEF f

-----------------------------------------------------------------------------
(* Two pairs with the same columns in ClickHouse and the same names: a     *)
(* plan is valid on both, and does the same to the columns of ClickHouse.  *)

LEMMA ValidOnPair ==
    ASSUME NEW m, NEW c, Pair(m, c), NEW s, Similar(s, m, c), NEW cl \in PlanClauses,
           ~Invalid(cl, s.m, s.c)
    PROVE  ~Invalid(cl, m, c)
<1>1. \A n : Has(c.fields, n) <=> Has(m.fields, n)
  BY PairFields
<1>2. ~KeyColumn(cl.name) /\ m.keys = PrimaryKeys
  BY PlanClauseOps DEF Pair
<1>3. /\ KnownType(cl)
      /\ cl.op = "add" /\ ~Has(m.fields, cl.name) =>
           cl.pos = AtFirst \/ Has(m.fields, ColumnAfter(cl, m.fields))
      /\ cl.op = "modify" => Has(m.fields, cl.name)
      /\ cl.op \in {"change", "rename"} =>
           CurrentName(m.fields, c.fields, cl.name, cl.to) # NoName
  BY ValidClause
<1> DEFINE after == ColumnAfter(cl, m.fields)
           n == CurrentName(m.fields, c.fields, cl.name, cl.to)
<1>4. ~(cl.op = "drop" /\ \E i \in DOMAIN m.keys : m.keys[i] = cl.name)
  BY <1>2 DEF KeyColumn
<1>5. ASSUME Invalid(cl, m, c)
      PROVE  \/ cl.op = "add" /\ ~Has(m.fields, cl.name) /\ cl.pos # AtFirst
                /\ (~Has(m.fields, after) \/ ~Has(c.fields, after))
             \/ cl.op = "modify" /\ ~(Has(m.fields, cl.name) /\ Has(c.fields, cl.name))
             \/ cl.op \in {"change", "rename"} /\ n = NoName
  <2>1. Has(m.fields, cl.name) = Has(c.fields, cl.name)
    BY <1>1 DEF Has
  <2>2. ~(cl.op \in {"add", "drop"} /\ Has(m.fields, cl.name) # Has(c.fields, cl.name))
    BY <2>1
  <2>3. /\ KnownType(cl)
        /\ Invalid(cl, m, c)
    BY <1>3, <1>5
  <2> QED
    BY <1>4, <2>2, <2>3, Zenon DEF Invalid
<1> HIDE DEF after, n
<1>6. /\ cl.op = "add" /\ ~Has(m.fields, cl.name) => cl.pos = AtFirst \/ Has(m.fields, after)
      /\ cl.op \in {"change", "rename"} => n # NoName
  BY <1>3 DEF after, n
<1> QED
  BY <1>1, <1>3, <1>5, <1>6

LEMMA UpdatePair ==
    ASSUME NEW m, NEW c, Pair(m, c), NEW cl \in PlanClauses, KnownType(cl),
           cl.op \in {"add", "modify", "change"}, NEW n \in ColumnNames
    PROVE  LET x == Field(n, cl.type)
               y == Field(n, ChType(cl))
           IN  /\ Pair(UpdateField(m, x), UpdateField(c, y))
               /\ UpdateField(c, y).fields = Updated(c.fields, y)
               /\ Names(UpdateField(m, x).fields) = Names(m.fields)
               /\ Names(UpdateField(c, y).fields) = Names(c.fields)
<1> DEFINE x == Field(n, cl.type)
           y == Field(n, ChType(cl))
<1>1. x \in FieldsOf(KnownTypes) /\ ConvertedField(x) = y /\ y \in FieldsOf(STRING)
  BY ClauseField DEF ChType
<1> HIDE DEF x, y
<1>2. /\ m \in StructureOf(KnownTypes) /\ m.keys = PrimaryKeys /\ m.ids = Ids(m.fields)
      /\ c \in StructureOf(STRING) /\ c.keys = PrimaryKeys /\ c.ids = Ids(c.fields)
  BY PairFields, IdsByNames DEF Pair
<1>3. Pair(UpdateField(m, x), UpdateField(c, y))
  BY <1>1, PairUpdate
<1>4. UpdateField(c, y).fields = Updated(c.fields, y)
  BY <1>1, <1>2, UpdateFieldShape
<1>5. /\ Names(UpdateField(m, x).fields) = Names(m.fields)
      /\ Names(UpdateField(c, y).fields) = Names(c.fields)
  BY <1>1, <1>2, UpdateKeepsNames
<1> QED
  BY <1>3, <1>4, <1>5 DEF x, y

(* A valid clause on a pair of structures. *)
LEMMA ClauseOnPair ==
    ASSUME NEW m, NEW c, Pair(m, c), NEW s, Similar(s, m, c), NEW cl \in PlanClauses,
           ~Invalid(cl, s.m, s.c)
    PROVE  LET t == AfterClause(cl, [m |-> m, c |-> c]) IN
           /\ Pair(t.m, t.c)
           /\ Similar(AfterClause(cl, s), t.m, t.c)
           /\ t.c.fields = NextFields(cl, c.fields)
<1> DEFINE t == AfterClause(cl, [m |-> m, c |-> c])
           u == AfterClause(cl, s)
           pos == ColumnAfter(cl, m.fields)
           n == CurrentName(m.fields, c.fields, cl.name, cl.to)
           x == Field(cl.name, cl.type)
           y == Field(cl.name, ChType(cl))
           f == c.fields
<1> SUFFICES Pair(t.m, t.c) /\ Similar(u, t.m, t.c) /\ t.c.fields = NextFields(cl, f)
  OBVIOUS
<1>1. /\ m.fields \in Seq(FieldsOf(KnownTypes)) /\ f \in Seq(FieldsOf(STRING))
      /\ Names(f) = Names(m.fields)
      /\ \A k : Has(m.fields, k) <=> Has(f, k)
  BY PairFields
<1>2. /\ cl.op \in ColumnOps /\ cl.name \in ColumnNames /\ cl.to \in ColumnNames
      /\ ~KeyColumn(cl.name) /\ KnownType(cl)
      /\ cl.op = "add" /\ ~Has(m.fields, cl.name) => Placed(m.fields, pos)
      /\ cl.op \in {"change", "rename"} =>
           /\ n \in {cl.name, cl.to}
           /\ n # cl.to => n = cl.name /\ ~Has(m.fields, cl.to)
  BY PlanClauseOps, ValidClause
<1>3. n = ColOf(cl, f)
  BY <1>1, CurrentNameByNames DEF ColOf
<1>4. /\ c \in StructureOf(STRING) /\ c.keys = PrimaryKeys
      /\ m \in StructureOf(KnownTypes) /\ m.keys = PrimaryKeys
  BY DEF Pair
<1>5. CASE cl.op = "add" /\ Has(m.fields, cl.name)
  <2>1. t.m = m /\ t.c = c
    BY <1>1, <1>5 DEF AfterClause, Applied
  <2>2. Similar(u, m, c)
    BY <1>5, SimilarSkipped
  <2>3. NextFields(cl, f) = f
    BY <1>1, <1>5, NextFieldsMeaning
  <2> HIDE DEF t, u
  <2> QED
    BY <2>1, <2>2, <2>3
<1>6. CASE cl.op = "add" /\ ~Has(m.fields, cl.name)
  <2>1. t.m = AddField(m, x, pos) /\ t.c = AddField(c, y, pos)
    BY <1>1, <1>6 DEF AfterClause, Applied, ChType
  <2>2. /\ x \in FieldsOf(KnownTypes) /\ x.name = cl.name /\ y \in FieldsOf(STRING)
        /\ ConvertedField(x) = y
    BY <1>2, <1>6, ClauseField DEF ChType
  <2>3. Placed(m.fields, pos) /\ Placed(f, pos)
    BY <1>1, <1>2, <1>6 DEF Placed
  <2>4. Similar(u, AddField(m, x, pos), AddField(c, y, pos))
    BY <1>6, SimilarAdded DEF ChType
  <2>5. pos = ColumnAfter(cl, f)
    <3>1. CASE cl.pos = AtFirst
      BY <3>1 DEF ColumnAfter, AtFirst, AtEnd
    <3>2. CASE cl.pos # AtFirst
      <4>1. Has(m.fields, pos)
        BY <1>6, <3>2, ValidClause
      <4> QED
        BY <1>1, <4>1, ColumnAfterByNames
    <3> QED
      BY <3>1, <3>2
  <2>6. NextFields(cl, f) = Inserted(f, y, pos)
    BY <1>1, <1>6, <2>5, NextFieldsMeaning
  <2> HIDE DEF t, u, x, y, pos
  <2>7. Pair(AddField(m, x, pos), AddField(c, y, pos))
    BY <1>6, <2>2, <2>3, PairAdd
  <2>8. AddField(c, y, pos).fields = Inserted(f, y, pos)
    BY <1>4, <2>2, <2>3, AddFieldShape
  <2> QED
    BY <2>1, <2>4, <2>6, <2>7, <2>8
<1>7. CASE cl.op = "drop" /\ ~Has(m.fields, cl.name)
  <2>1. t.m = m /\ t.c = c
    BY <1>1, <1>7 DEF AfterClause, Applied
  <2>2. Similar(u, m, c)
    BY <1>7, SimilarSkipped
  <2>3. NextFields(cl, f) = f
    BY <1>1, <1>7, NextFieldsMeaning
  <2> HIDE DEF t, u
  <2> QED
    BY <2>1, <2>2, <2>3
<1>8. CASE cl.op = "drop" /\ Has(m.fields, cl.name)
  <2>1. t.m = RemoveField(m, cl.name) /\ t.c = RemoveField(c, cl.name)
    BY <1>1, <1>8 DEF AfterClause, Applied
  <2>2. Similar(u, RemoveField(m, cl.name), RemoveField(c, cl.name))
    BY <1>8, SimilarRemoved
  <2>3. Pair(RemoveField(m, cl.name), RemoveField(c, cl.name))
    BY <1>8, PairRemove
  <2>4. RemoveField(c, cl.name).fields = Removed(f, cl.name)
    BY <1>1, <1>4, <1>8, RemoveFieldShape
  <2>5. NextFields(cl, f) = Removed(f, cl.name)
    BY <1>1, <1>8, NextFieldsMeaning
  <2> HIDE DEF t, u
  <2> QED
    BY <2>1, <2>2, <2>3, <2>4, <2>5
<1>9. CASE cl.op = "modify"
  <2>1. t.m = UpdateField(m, x) /\ t.c = UpdateField(c, y)
    BY <1>9 DEF AfterClause, Applied, ChType
  <2>2. Similar(u, UpdateField(m, x), UpdateField(c, y))
    BY <1>9, SimilarModified DEF ChType
  <2>3. /\ Pair(UpdateField(m, x), UpdateField(c, y))
        /\ UpdateField(c, y).fields = Updated(f, y)
    BY <1>2, <1>9, UpdatePair
  <2>4. NextFields(cl, f) = Updated(f, y)
    BY <1>9, NextFieldsMeaning
  <2> HIDE DEF t, u, x, y
  <2> QED
    BY <2>1, <2>2, <2>3, <2>4
<1>10. CASE cl.op = "change"
  <2> DEFINE mm == UpdateField(m, Field(n, cl.type))
             cc == UpdateField(c, Field(n, ChType(cl)))
  <2>1. /\ Pair(mm, cc)
        /\ cc.fields = Updated(f, Field(n, ChType(cl)))
        /\ Names(mm.fields) = Names(m.fields) /\ Names(cc.fields) = Names(f)
    <3>1. n \in ColumnNames
      BY <1>2, <1>10
    <3> HIDE DEF n
    <3> QED
      BY <1>2, <1>10, <3>1, UpdatePair
  <2>2. cc.fields = Retyped(cl, f)
    BY <1>3, <2>1 DEF Retyped
  <2>3. /\ t.m = IF n = cl.to THEN mm ELSE RenameStructureField(mm, n, cl.to)
        /\ t.c = IF n = cl.to THEN cc ELSE RenameStructureField(cc, n, cl.to)
    BY <1>10 DEF AfterClause, Applied, ChType
  <2> HIDE DEF mm, cc
  <2>4. CASE n = cl.to
    <3>1. Similar(u, m, c)
      BY <1>10, <2>4, SimilarSkipped
    <3>2. Similar(u, mm, cc)
      BY <2>1, <3>1 DEF Similar
    <3>3. NextFields(cl, f) = Retyped(cl, f)
      BY <1>3, <1>10, <2>4, NextFieldsMeaning
    <3> HIDE DEF t, u, n
    <3> QED
      BY <2>1, <2>2, <2>3, <2>4, <3>2, <3>3
  <2>5. CASE n # cl.to
    <3>1. Similar(u, RenameStructureField(m, cl.name, cl.to), RenameStructureField(c, cl.name, cl.to))
      BY <1>10, <2>5, SimilarRenamed
    <3>2. n = cl.name /\ ~Has(m.fields, cl.to)
      BY <1>2, <1>10, <2>5
    <3>3. NextFields(cl, f) = Renamed(Retyped(cl, f), n, cl.to)
      BY <1>3, <1>10, <2>5, NextFieldsMeaning
    <3> HIDE DEF t, u, n
    <3>4. /\ mm \in StructureOf(KnownTypes) /\ mm.keys = PrimaryKeys
          /\ cc \in StructureOf(STRING) /\ cc.keys = PrimaryKeys
          /\ mm.fields \in Seq(FieldsOf(KnownTypes))
      BY <2>1 DEF Pair, StructureOf
    <3>5. ~Has(mm.fields, cl.to)
      BY <1>1, <2>1, <3>2, <3>4, IndexByNames
    <3>6. Pair(RenameStructureField(mm, n, cl.to), RenameStructureField(cc, n, cl.to))
      BY <1>2, <2>1, <3>2, <3>5, PairRename DEF KeyColumn
    <3>7. RenameStructureField(cc, n, cl.to).fields = Renamed(cc.fields, n, cl.to)
      BY <1>2, <3>2, <3>4, RenameStructureFieldShape DEF KeyColumn
    <3>8. /\ Names(RenameStructureField(mm, n, cl.to).fields)
               = Names(RenameStructureField(m, n, cl.to).fields)
          /\ Names(RenameStructureField(cc, n, cl.to).fields)
               = Names(RenameStructureField(c, n, cl.to).fields)
      BY <1>2, <1>4, <2>1, <3>2, <3>4, RenameByNames
    <3>9. Similar(u, RenameStructureField(mm, n, cl.to), RenameStructureField(cc, n, cl.to))
      BY <3>1, <3>2, <3>8 DEF Similar
    <3> QED
      BY <2>2, <2>3, <2>5, <3>3, <3>6, <3>7, <3>9
  <2> QED
    BY <2>4, <2>5
<1>11. CASE cl.op = "rename"
  <2>1. CASE n = cl.to
    <3>1. t.m = m /\ t.c = c
      BY <1>11, <2>1 DEF AfterClause, Applied
    <3>2. Similar(u, m, c)
      BY <1>11, <2>1, SimilarSkipped
    <3>3. NextFields(cl, f) = f
      BY <1>3, <1>11, <2>1, NextFieldsMeaning
    <3> HIDE DEF t, u
    <3> QED
      BY <3>1, <3>2, <3>3
  <2>2. CASE n # cl.to
    <3>1. n = cl.name /\ ~Has(m.fields, cl.to)
      BY <1>2, <1>11, <2>2
    <3>2. /\ t.m = RenameStructureField(m, n, cl.to)
          /\ t.c = RenameStructureField(c, n, cl.to)
      BY <1>11, <2>2 DEF AfterClause, Applied
    <3>3. Similar(u, RenameStructureField(m, cl.name, cl.to), RenameStructureField(c, cl.name, cl.to))
      BY <1>11, <2>2, SimilarRenamed
    <3>4. NextFields(cl, f) = Renamed(f, n, cl.to)
      BY <1>3, <1>11, <2>2, NextFieldsMeaning
    <3> HIDE DEF t, u, n
    <3>5. Pair(RenameStructureField(m, n, cl.to), RenameStructureField(c, n, cl.to))
      BY <1>2, <3>1, PairRename DEF KeyColumn
    <3>6. RenameStructureField(c, n, cl.to).fields = Renamed(f, n, cl.to)
      BY <1>2, <1>4, <3>1, RenameStructureFieldShape DEF KeyColumn
    <3> QED
      BY <3>1, <3>2, <3>3, <3>4, <3>5, <3>6
  <2> QED
    BY <2>1, <2>2
<1> HIDE DEF t, u, n, pos, x, y, f
<1> QED
  BY <1>2, <1>5, <1>6, <1>7, <1>8, <1>9, <1>10, <1>11 DEF ColumnOps

LEMMA PlanOnPair ==
    ASSUME NEW m, NEW c, Pair(m, c), NEW r, Pair(r, c), NEW ops \in Seq(PlanClauses),
           PlanValid(ops, m, c)
    PROVE  LET q == PlanStructures(ops, r, c) IN
           /\ PlanValid(ops, r, c)
           /\ q[0] = [m |-> r, c |-> c]
           /\ \A i \in 0..Len(ops) : Pair(q[i].m, q[i].c)
           /\ \A i \in 1..Len(ops) : q[i].c.fields = NextFields(ops[i], q[i - 1].c.fields)
<1> DEFINE n == Len(ops)
           p == PlanStructures(ops, m, c)
           q == PlanStructures(ops, r, c)
           Good(i) == Pair(q[i].m, q[i].c) /\ Similar(p[i], q[i].m, q[i].c)
           S == {i \in 0..n : ~Good(i)}
<1>1. n \in Nat /\ DOMAIN ops = 1..n /\ \A i \in 1..n : ops[i] \in PlanClauses
  BY ElementOfSeq, LenProperties
<1>2. /\ p[0] = [m |-> m, c |-> c]
      /\ \A i \in 1..n : p[i] = AfterClause(ops[i], p[i - 1])
  BY <1>1, PlanStructuresMeaning
<1>3. /\ q[0] = [m |-> r, c |-> c]
      /\ \A i \in 1..n : q[i] = AfterClause(ops[i], q[i - 1])
  BY <1>1, PlanStructuresMeaning
<1>4. \A i \in 1..n : ~Invalid(ops[i], p[i - 1].m, p[i - 1].c)
  BY <1>1 DEF PlanValid
<1>5. \A i \in 1..n : q[i - 1] = [m |-> q[i - 1].m, c |-> q[i - 1].c]
  <2> TAKE i \in 1..n
  <2> HIDE DEF q
  <2>1. CASE i = 1
    <3>1. i - 1 = 0
      BY <2>1
    <3> QED
      BY <1>3, <3>1
  <2>2. CASE i # 1
    <3>1. i - 1 \in 1..n
      BY <1>1, <2>2
    <3>2. q[i - 1] = AfterClause(ops[i - 1], q[(i - 1) - 1])
      BY <1>3, <3>1
    <3> DEFINE cl == ops[i - 1]
               s == q[(i - 1) - 1]
               t == q[i - 1]
    <3> HIDE DEF cl, s, t
    <3>3. t = AfterClause(cl, s)
      BY <3>2 DEF cl, s, t
    <3>4. t = [m |-> t.m, c |-> t.c]
      BY <3>3 DEF AfterClause
    <3> QED
      BY <3>4 DEF t
  <2> QED
    BY <2>1, <2>2
<1>6. (\A i \in 1..n : ~Invalid(ops[i], q[i - 1].m, q[i - 1].c)) => PlanValid(ops, r, c)
  BY <1>1 DEF PlanValid
<1>7. Good(0)
  <2>1. p[0].m = m /\ p[0].c = c /\ q[0].m = r /\ q[0].c = c
    BY <1>2, <1>3
  <2>2. m \in StructureOf(STRING) /\ c.ids = Ids(c.fields)
    BY KnownTypesAreStrings, PairFields, IdsByNames DEF Pair
  <2>3. Names(m.fields) = Names(r.fields)
    BY PairFields
  <2>4. Similar(p[0], r, c)
    BY <2>1, <2>2, <2>3 DEF Similar, Pair
  <2> QED
    BY <2>1, <2>4
<1> HIDE DEF n, p, q
<1>8. ASSUME NEW i \in 1..n, Good(i - 1)
      PROVE  /\ Good(i)
             /\ ~Invalid(ops[i], q[i - 1].m, q[i - 1].c)
             /\ q[i].c.fields = NextFields(ops[i], q[i - 1].c.fields)
  <2> DEFINE cl == ops[i]
             s == p[i - 1]
             mm == q[i - 1].m
             cc == q[i - 1].c
  <2>1. /\ Pair(mm, cc) /\ Similar(s, mm, cc) /\ cl \in PlanClauses /\ ~Invalid(cl, s.m, s.c)
    BY <1>1, <1>4, <1>8
  <2>2. q[i - 1] = [m |-> mm, c |-> cc]
    BY <1>5
  <2>3. p[i] = AfterClause(cl, s) /\ q[i] = AfterClause(cl, [m |-> mm, c |-> cc])
    BY <1>2, <1>3, <2>2
  <2> HIDE DEF cl, s, mm, cc
  <2>4. /\ Pair(q[i].m, q[i].c) /\ Similar(p[i], q[i].m, q[i].c)
        /\ q[i].c.fields = NextFields(cl, cc.fields)
    BY <2>1, <2>3, ClauseOnPair
  <2>5. ~Invalid(cl, mm, cc)
    BY <2>1, ValidOnPair
  <2>6. Good(i)
    BY <2>4
  <2>7. ~Invalid(ops[i], q[i - 1].m, q[i - 1].c)
    BY <2>5 DEF cl, mm, cc
  <2>8. q[i].c.fields = NextFields(ops[i], q[i - 1].c.fields)
    BY <2>4 DEF cl, cc
  <2> QED
    BY <2>6, <2>7, <2>8
<1>9. S = {}
  <2> SUFFICES ASSUME S # {}
               PROVE  FALSE
    OBVIOUS
  <2> DEFINE k == Min(S)
  <2>1. S \in SUBSET Nat
    BY <1>1
  <2> HIDE DEF S
  <2>2. k \in S /\ \A j \in S : k <= j
    BY <2>1, LeastOf
  <2> HIDE DEF k, Good
  <2>3. k \in 0..n /\ ~Good(k) /\ k \in Nat
    BY <1>1, <2>2 DEF S
  <2>4. k # 0
    BY <1>7, <2>3
  <2>5. k \in 1..n /\ k - 1 \in 0..n
    BY <1>1, <2>3, <2>4
  <2>6. k - 1 \notin S
    BY <2>1, <2>2, <2>3
  <2>7. Good(k - 1)
    BY <2>5, <2>6 DEF S
  <2> QED
    BY <1>8, <2>3, <2>5, <2>7
<1> HIDE DEF Good
<1>10. \A i \in 0..n : Good(i)
  BY <1>9
<1>11. \A i \in 1..n : i - 1 \in 0..n
  BY <1>1
<1>12. \A i \in 1..n : /\ ~Invalid(ops[i], q[i - 1].m, q[i - 1].c)
                       /\ q[i].c.fields = NextFields(ops[i], q[i - 1].c.fields)
  BY <1>8, <1>10, <1>11
<1>13. PlanValid(ops, r, c)
  BY <1>6, <1>12
<1>14. \A i \in 0..n : Pair(q[i].m, q[i].c)
  BY <1>10 DEF Good
<1> QED
  BY <1>3, <1>12, <1>13, <1>14 DEF n, q

-----------------------------------------------------------------------------
(* The clauses ops make the columns h from the columns f. *)
Leads(ops, f, h) ==
    \E run : /\ run[0] = f
             /\ \A i \in 1..Len(ops) : run[i] = NextFields(ops[i], run[i - 1])
             /\ run[Len(ops)] = h

LEMMA LeadsNowhere ==
    ASSUME NEW f, NEW h
    PROVE  Leads(<<>>, f, h) => f = h
  BY DEF Leads

LEMMA LeadsByHead ==
    ASSUME NEW ops \in Seq(PlanClauses), ops # <<>>, NEW f, NEW h, Leads(ops, f, h)
    PROVE  /\ Leads(Tail(ops), NextFields(Head(ops), f), h)
           /\ \A g : NextFields(Head(ops), g) = NextFields(Head(ops), f) => Leads(ops, g, h)
<1>1. PICK run : /\ run[0] = f
                 /\ \A i \in 1..Len(ops) : run[i] = NextFields(ops[i], run[i - 1])
                 /\ run[Len(ops)] = h
  BY DEF Leads
<1> DEFINE n == Len(ops) - 1
           rest == Tail(ops)
           next == [i \in 0..n |-> run[i + 1]]
<1>2. /\ Len(ops) \in Nat \ {0} /\ Head(ops) = ops[1]
      /\ Len(rest) = Len(ops) - 1
      /\ \A i \in 1..(Len(ops) - 1) : rest[i] = ops[i + 1]
  BY HeadTailProperties
<1>3. run[1] = NextFields(Head(ops), f)
  BY <1>1, <1>2
<1>4. Leads(rest, NextFields(Head(ops), f), h)
  <2>1. next[0] = run[1] /\ next[n] = h /\ n \in Nat /\ Len(rest) = n
    BY <1>1, <1>2
  <2>2. ASSUME NEW i \in 1..n
        PROVE  next[i] = NextFields(rest[i], next[i - 1])
    <3>1. i + 1 \in 1..Len(ops) /\ (i + 1) - 1 = i /\ i \in 0..n /\ i - 1 \in 0..n /\ (i - 1) + 1 = i
      BY <1>2
    <3>2. next[i] = run[i + 1] /\ next[i - 1] = run[i] /\ rest[i] = ops[i + 1]
      BY <1>2, <3>1
    <3>3. run[i + 1] = NextFields(ops[i + 1], run[i])
      BY <1>1, <3>1
    <3> QED
      BY <3>2, <3>3
  <2> HIDE DEF next, n, rest
  <2> QED
    BY <1>3, <2>1, <2>2 DEF Leads
<1>5. ASSUME NEW g, NextFields(Head(ops), g) = NextFields(Head(ops), f)
      PROVE  Leads(ops, g, h)
  <2> DEFINE new == [i \in 0..Len(ops) |-> IF i = 0 THEN g ELSE run[i]]
  <2>1. new[0] = g /\ new[Len(ops)] = h
    BY <1>1, <1>2
  <2>2. ASSUME NEW i \in 1..Len(ops)
        PROVE  new[i] = NextFields(ops[i], new[i - 1])
    <3>1. new[i] = run[i]
      BY <1>2
    <3>2. CASE i = 1
      BY <1>2, <1>3, <1>5, <2>1, <3>1, <3>2
    <3>3. CASE i # 1
      <4>1. new[i - 1] = run[i - 1]
        BY <1>2, <3>3
      <4> QED
        BY <1>1, <3>1, <4>1
    <3> QED
      BY <3>2, <3>3
  <2> HIDE DEF new
  <2> QED
    BY <2>1, <2>2 DEF Leads
<1> QED
  BY <1>4, <1>5 DEF rest

-----------------------------------------------------------------------------
(* The definitions of MySQL that the structures have.                      *)

Defined(f, def) == def \in Seq(FieldsOf(KnownTypes)) /\ f = Converted(def)

(* Structures with the columns f, saved or loaded after l statements: those *)
(* MySQL had then, or those after the only clause of the next statement,    *)
(* which has been executed and does nothing more.                          *)
AtSource(l, f) ==
    \/ Defined(f, defs[l + 1])
    \/ /\ begun = l + 1 /\ Len(Ops(begun)) = 1
       /\ Defined(f, defs[l + 2]) /\ NextFields(Ops(begun)[1], f) = f

DefsInv == (\E S : defs \in Seq(S)) /\ Len(defs) = Len(log) + 1

SavedAtSource ==
    ~risky /\ ~ManyClauses(saved.last + 1, begun) =>
      AtSource(saved.last, saved.ch_structure.fields)

LoopAtSource == pc = "loop" /\ ~risky => AtSource(done, ch_structure.fields)

(* The clauses of the plan make the columns that MySQL has. *)
AlterAtSource ==
    LET ops == Ops(done + 1)
        f == ch_structure.fields
    IN  pc = "alter" =>
          /\ ~risky => /\ defs[done + 2] \in Seq(FieldsOf(KnownTypes))
                       /\ Leads(plan, f, Converted(defs[done + 2]))
                       /\ Len(ops) = 0 => Defined(f, defs[done + 1])
          /\ Len(ops) = 1 => plan = ops \/ (plan = <<>> /\ NextFields(ops[1], f) = f)

SourceInv == DefsInv /\ SavedAtSource /\ LoopAtSource /\ AlterAtSource

(* A clause is executed, or a statement ends, and nothing is saved.        *)
LEMMA SavedStaysAtSource ==
    ASSUME CounterInv, SavedAtSource, pc = "alter", begun' = Max({begun, done + 1}),
           UNCHANGED <<log, defs, saved, risky>>
    PROVE  SavedAtSource'
<1>1. /\ done \in Nat /\ begun \in Nat /\ saved.last \in Nat
      /\ saved.last <= done /\ done <= begun
  BY DEF CounterInv
<1>2. begun' \in Nat /\ begun' >= done + 1 /\ begun' >= begun /\ (begun' = begun \/ begun' = done + 1)
  BY <1>1, LaterOfTwo
<1> SUFFICES ASSUME ~risky, ~ManyClauses(saved.last + 1, begun)'
             PROVE  AtSource(saved.last, saved.ch_structure.fields)'
  BY DEF SavedAtSource
<1>3. CASE begun' = begun
  BY <1>3 DEF SavedAtSource, AtSource, ManyClauses, Ops
<1>4. CASE begun' # begun
  <2>1. begun = done /\ begun' = done + 1
    BY <1>1, <1>2, <1>4
  <2>2. ~(saved.last + 1 < begun')
    BY DEF ManyClauses
  <2>3. saved.last = done
    BY <1>1, <2>1, <2>2
  <2>4. ~ManyClauses(saved.last + 1, begun)
    BY <1>1, <2>1, <2>3 DEF ManyClauses
  <2>5. Defined(saved.ch_structure.fields, defs[saved.last + 1])
    BY <1>1, <2>1, <2>3, <2>4 DEF SavedAtSource, AtSource
  <2> QED
    BY <2>5 DEF AtSource
<1> QED
  BY <1>3, <1>4

LEMMA SourceSends ==
    ASSUME LogInv, CounterInv, StructureInv, ReplayInv, SourceInv,
           AddColumn \/ DropColumn \/ ModifyColumn \/ ChangeColumnType \/ RenameColumn
    PROVE  SourceInv'
<1> DEFINE f == ch_structure.fields
           g == ch_structure'.fields
           ops == Ops(done + 1)
           h == Converted(defs[done + 2])
<1>1. pc = "alter" /\ plan # <<>> /\ Sends
  BY SendingEffect
<1>2. begun' = Max({begun, done + 1}) /\ UNCHANGED <<log, defs, saved, pc, done, risky>>
  BY <1>1 DEF Sends
<1>3. \/ plan' = Tail(plan) /\ g = NextFields(Op, f)
      \/ plan' = plan /\ NextFields(Op, g) = NextFields(Op, f)
  BY SendingNext
<1>4. /\ Len(ops) \in Nat /\ plan \in Seq(PlanClauses) /\ Len(plan) \in Nat
      /\ (Len(plan) = 0 <=> plan = <<>>) /\ Op = plan[1]
      /\ Len(plan) = 1 => Tail(plan) = <<>>
  BY <1>1, PlanTypes
<1>5. Len(plan) <= Len(ops)
  BY <1>1 DEF ReplayInv, AlterBehind
<1>6. Ops(done + 1)' = ops /\ ops' = ops
  BY <1>2 DEF Ops
<1>7. Len(ops) # 0
  BY <1>1, <1>4, <1>5
<1>8. /\ ~risky => /\ defs[done + 2] \in Seq(FieldsOf(KnownTypes))
                   /\ Leads(plan, f, h)
      /\ Len(ops) = 1 => plan = ops
  BY <1>1 DEF SourceInv, AlterAtSource
<1>9. NextFields(Op, NextFields(Op, f)) = NextFields(Op, f)
  BY <1>1, NextOfOp
<1> HIDE DEF f, g, ops, h
<1>10. ASSUME ~risky
       PROVE  Leads(plan', g, h)
  <2>1. /\ Leads(Tail(plan), NextFields(Op, f), h)
        /\ \A k : NextFields(Op, k) = NextFields(Op, f) => Leads(plan, k, h)
    BY <1>1, <1>4, <1>8, <1>10, LeadsByHead DEF Op
  <2> QED
    BY <1>3, <2>1
<1>11. ASSUME Len(ops) = 1
       PROVE  plan' = ops \/ (plan' = <<>> /\ NextFields(ops[1], g) = g)
  BY <1>3, <1>4, <1>8, <1>9, <1>11
<1>12. AlterAtSource'
  BY <1>1, <1>2, <1>6, <1>7, <1>8, <1>10, <1>11 DEF AlterAtSource, g, h
<1>13. SavedAtSource'
  BY <1>1, <1>2, SavedStaysAtSource DEF SourceInv
<1>14. DefsInv' /\ LoopAtSource'
  BY <1>1, <1>2 DEF SourceInv, DefsInv, LoopAtSource
<1> QED
  BY <1>12, <1>13, <1>14 DEF SourceInv

LEMMA SourceSkips ==
    ASSUME LogInv, CounterInv, StructureInv, ReplayInv, SourceInv, SkipClause
    PROVE  SourceInv'
<1> DEFINE f == ch_structure.fields
           ops == Ops(done + 1)
           h == Converted(defs[done + 2])
<1>1. /\ pc = "alter" /\ plan # <<>> /\ plan' = Tail(plan)
      /\ UNCHANGED <<log, defs, saved, pc, done, ch_structure, begun, risky>>
  BY DEF SkipClause, NothingToDo, Executing, structures
<1>2. NextFields(Op, f) = f
  BY SkippingNext
<1>3. /\ Len(ops) \in Nat /\ plan \in Seq(PlanClauses) /\ Len(plan) \in Nat
      /\ (Len(plan) = 0 <=> plan = <<>>) /\ Op = plan[1]
      /\ Len(plan) = 1 => Tail(plan) = <<>>
  BY <1>1, PlanTypes
<1>4. Len(plan) <= Len(ops)
  BY <1>1 DEF ReplayInv, AlterBehind
<1>5. Ops(done + 1)' = ops /\ ops' = ops
  BY <1>1 DEF Ops
<1>6. Len(ops) # 0
  BY <1>1, <1>3, <1>4
<1>7. /\ ~risky => /\ defs[done + 2] \in Seq(FieldsOf(KnownTypes))
                   /\ Leads(plan, f, h)
      /\ Len(ops) = 1 => plan = ops
  BY <1>1 DEF SourceInv, AlterAtSource
<1> HIDE DEF f, ops, h
<1>8. ASSUME ~risky
      PROVE  Leads(plan', f, h)
  <2>1. Leads(Tail(plan), NextFields(Op, f), h)
    BY <1>1, <1>3, <1>7, <1>8, LeadsByHead DEF Op
  <2> QED
    BY <1>1, <1>2, <2>1
<1>9. ASSUME Len(ops) = 1
      PROVE  plan' = <<>> /\ NextFields(ops[1], f) = f
  BY <1>1, <1>2, <1>3, <1>7, <1>9
<1>10. AlterAtSource'
  BY <1>1, <1>5, <1>6, <1>7, <1>8, <1>9 DEF AlterAtSource, f, h
<1>11. SavedAtSource' /\ DefsInv' /\ LoopAtSource'
  BY <1>1 DEF SourceInv, SavedAtSource, AtSource, ManyClauses, Ops, DefsInv, LoopAtSource
<1> QED
  BY <1>10, <1>11 DEF SourceInv

-----------------------------------------------------------------------------
(* A statement that passes validation. *)

(* The structures are those of any definition with the same columns. *)
LEMMA PairOfSource ==
    ASSUME NEW m, NEW c, Pair(m, c), NEW def, Defined(c.fields, def)
    PROVE  LET s == StructuresOf(def) IN
           Pair(s.m, c) /\ s.c = c /\ s.m.fields = def
<1> DEFINE r == Preprocess([fields |-> def, keys |-> PrimaryKeys, ids |-> <<>>])
           d == ConvertTableStructure(r)
<1>1. def \in Seq(FieldsOf(KnownTypes)) /\ c.fields = Converted(def)
  BY DEF Defined
<1>2. m.fields \in Seq(FieldsOf(KnownTypes)) /\ Names(m.fields) = Names(c.fields)
  BY PairFields
<1>3. Names(m.fields) = Names(def)
  BY <1>1, <1>2, ConvertedShape
<1>4. Unique(def)
  BY <1>1, <1>2, <1>3, UniqueByNames DEF Pair
<1>5. Pair(r, d) /\ r.fields = def
  BY <1>1, <1>4, AgreeingPair
<1>6. StructuresOf(def) = [m |-> r, c |-> d]
  BY DEF StructuresOf
<1> HIDE DEF r, d
<1>7. Ids(m.fields) = Ids(def)
  BY <1>1, <1>2, <1>3, IdsByNames
<1>8. /\ d \in StructureOf(STRING) /\ c \in StructureOf(STRING)
      /\ d.fields = c.fields /\ d.keys = c.keys /\ d.ids = c.ids
  BY <1>1, <1>5, <1>7 DEF Pair
<1>9. d = c
  <2>1. d = [fields |-> d.fields, keys |-> d.keys, ids |-> d.ids]
    BY <1>8 DEF StructureOf
  <2>2. c = [fields |-> c.fields, keys |-> c.keys, ids |-> c.ids]
    BY <1>8 DEF StructureOf
  <2> QED
    BY <1>8, <2>1, <2>2
<1> QED
  BY <1>5, <1>6, <1>9

(* Validation with the columns of the definition def is validation with     *)
(* the structures, and its clauses make the columns it foresees.           *)
LEMMA PlanFromSource ==
    ASSUME NEW m, NEW c, Pair(m, c), NEW ops \in Seq(PlanClauses), PlanValid(ops, m, c),
           NEW def, Defined(c.fields, def)
    PROVE  LET s == StructuresOf(def)
               new == PlanStructures(ops, s.m, s.c)[Len(ops)].m.fields
           IN  /\ PlanValid(ops, s.m, s.c)
               /\ new \in Seq(FieldsOf(KnownTypes))
               /\ Leads(ops, c.fields, Converted(new))
<1> DEFINE s == StructuresOf(def)
           n == Len(ops)
           q == PlanStructures(ops, s.m, s.c)
           new == q[n].m.fields
           run == [i \in 0..n |-> q[i].c.fields]
<1>1. Pair(s.m, c) /\ s.c = c
  BY PairOfSource
<1> HIDE DEF s
<1>2. /\ PlanValid(ops, s.m, s.c)
      /\ q[0] = [m |-> s.m, c |-> c]
      /\ \A i \in 0..n : Pair(q[i].m, q[i].c)
      /\ \A i \in 1..n : q[i].c.fields = NextFields(ops[i], q[i - 1].c.fields)
  BY <1>1, PlanOnPair
<1>3. n \in Nat /\ 0 \in 0..n /\ n \in 0..n
  BY LenProperties
<1> HIDE DEF q, n
<1>4. new \in Seq(FieldsOf(KnownTypes)) /\ q[n].c.fields = Converted(new)
  BY <1>2, <1>3 DEF Pair, StructureOf
<1>5. run[0] = c.fields /\ run[n] = Converted(new)
  BY <1>2, <1>3, <1>4
<1>6. ASSUME NEW i \in 1..n
      PROVE  run[i] = NextFields(ops[i], run[i - 1])
  <2>1. i \in 0..n /\ i - 1 \in 0..n
    BY <1>3
  <2> QED
    BY <1>2, <2>1
<1> HIDE DEF run, new
<1>7. Leads(ops, c.fields, Converted(new))
  BY <1>5, <1>6 DEF Leads, n
<1> QED
  BY <1>2, <1>4, <1>7 DEF s, n, q, new

(* The process works on a statement and saves nothing but its checkpoint.   *)
LEMMA SavedFromLoop ==
    ASSUME SourceInv, pc = "loop", UNCHANGED <<log, defs, begun, risky>>,
           saved' = saved \/ (saved'.last = done /\ saved'.ch_structure = ch_structure)
    PROVE  SavedAtSource' /\ DefsInv'
<1>1. DefsInv'
  BY DEF SourceInv, DefsInv
<1>2. CASE saved' = saved
  BY <1>1, <1>2 DEF SourceInv, SavedAtSource, AtSource, ManyClauses, Ops
<1>3. CASE saved'.last = done /\ saved'.ch_structure = ch_structure
  <2>1. ~risky => AtSource(done, ch_structure.fields)
    BY DEF SourceInv, LoopAtSource
  <2> QED
    BY <1>1, <1>3, <2>1 DEF SavedAtSource, AtSource, Ops
<1> QED
  BY <1>2, <1>3

LEMMA SourceHandles ==
    ASSUME LogInv, CounterInv, StructureInv, SourceInv, ClausesFollowStatement, HandleAlterQuery
    PROVE  SourceInv'
<1> DEFINE n == done + 1
           f == ch_structure.fields
           ops == Ops(n)
           h == defs[n + 1]
<1>1. /\ pc = "loop" /\ pc' = "alter" /\ done' = done /\ done < Len(log)
      /\ plan' = ops /\ ch_structure' = ch_structure
      /\ UNCHANGED <<log, defs, begun, risky>>
      /\ saved' = saved \/ (saved'.last = done /\ saved'.ch_structure = ch_structure)
      /\ PlanValid(ops, mysql_structure, ch_structure)
  BY DEF HandleAlterQuery, Uploaded, SaveStateIfRequired, Save, structures, Ops
<1>2. SavedAtSource' /\ DefsInv'
  BY <1>1, SavedFromLoop
<1>3. n \in 1..Len(log) /\ n \in DOMAIN log /\ n + 1 = done + 2
  BY <1>1 DEF LogInv
<1>4. ops \in Seq(PlanClauses)
  BY <1>3, PlanOfStatement DEF Ops
<1>5. Len(ops) \in Nat
  BY <1>4, LenProperties
<1>6. Pair(mysql_structure, ch_structure)
  BY <1>1 DEF StructureInv
<1>7. Ops(n)' = ops /\ ops' = ops /\ h' = h
  BY <1>1 DEF Ops
<1> HIDE DEF ops, h, n
<1>8. ASSUME ~risky
      PROVE  /\ h \in Seq(FieldsOf(KnownTypes)) /\ Leads(ops, f, Converted(h))
             /\ Len(ops) = 0 => Defined(f, defs[n])
  <2>1. AtSource(done, f)
    BY <1>1, <1>8 DEF SourceInv, LoopAtSource
  <2>2. CASE Defined(f, defs[n])
    <3> DEFINE s == StructuresOf(defs[n])
               new == PlanStructures(ops, s.m, s.c)[Len(ops)].m.fields
    <3>1. /\ PlanValid(ops, s.m, s.c)
          /\ new \in Seq(FieldsOf(KnownTypes))
          /\ Leads(ops, f, Converted(new))
      BY <1>1, <1>4, <1>6, <2>2, PlanFromSource
    <3>2. \A i \in DOMAIN defs[n] : defs[n][i].type \in DOMAIN ConvertFieldType
      <4>1. defs[n] \in Seq(FieldsOf(KnownTypes))
        BY <2>2 DEF Defined
      <4>2. \A i \in DOMAIN defs[n] : defs[n][i] \in FieldsOf(KnownTypes)
        BY <4>1, ElementOfSeq
      <4> QED
        BY <4>2 DEF FieldsOf, KnownTypes
    <3>3. PlanValid(ops, s.m, s.c) => new = h
      BY <1>3, <3>2 DEF ClausesFollowStatement, ops, Ops, h
    <3> HIDE DEF s, new
    <3> QED
      BY <2>2, <3>1, <3>3
  <2>3. CASE /\ Len(ops) = 1 /\ Defined(f, h) /\ NextFields(ops[1], f) = f
    <3> DEFINE run == [i \in 0..1 |-> f]
    <3>1. run[0] = f /\ run[Len(ops)] = Converted(h) /\ h \in Seq(FieldsOf(KnownTypes))
      BY <2>3 DEF Defined
    <3>2. \A i \in 1..Len(ops) : run[i] = NextFields(ops[i], run[i - 1])
      <4> TAKE i \in 1..Len(ops)
      <4>1. i = 1
        BY <2>3
      <4> HIDE DEF f
      <4>2. run[1] = f /\ run[i - 1] = f
        BY <4>1
      <4> QED
        BY <2>3, <4>1, <4>2
    <3> HIDE DEF run
    <3> QED
      BY <2>3, <3>1, <3>2 DEF Leads
  <2> QED
    BY <1>3, <2>1, <2>2, <2>3 DEF AtSource, ops, h, n
<1>9. AlterAtSource'
  <2>1. h = defs[done + 2]
    BY <1>3 DEF h
  <2>2. ops = Ops(done + 1) /\ ops = Ops(done + 1)' /\ n = done + 1
    BY <1>7 DEF ops, n
  <2> QED
    BY <1>1, <1>8, <2>1, <2>2 DEF AlterAtSource
<1>10. LoopAtSource'
  BY <1>1 DEF LoopAtSource
<1> QED
  BY <1>2, <1>9, <1>10 DEF SourceInv

LEMMA SourceFinishes ==
    ASSUME LogInv, CounterInv, StructureInv, SourceInv, FinishAlter
    PROVE  SourceInv'
<1> DEFINE f == ch_structure.fields
           ops == Ops(done + 1)
<1>1. /\ pc = "alter" /\ plan = <<>> /\ pc' = "loop" /\ done' = done + 1
      /\ begun' = Max({begun, done + 1})
      /\ UNCHANGED <<log, defs, ch_structure, risky>>
      /\ last' \in {last, done + 1}
      /\ saved' = saved \/ (saved'.last = last' /\ saved'.ch_structure = ch_structure)
  BY DEF FinishAlter, SaveStateIfRequired, Save, structures
<1>2. /\ done \in Nat /\ begun \in Nat /\ last \in Nat /\ last <= done
  BY <1>1 DEF CounterInv
<1>3. /\ begun' \in Nat /\ begun' >= done + 1
  BY <1>1, <1>2, LaterOfTwo
<1>4. Len(ops) \in Nat /\ (Len(ops) = 1 => plan # ops)
  <2>1. Len(ops) \in Nat
    BY <1>1, PlanTypes
  <2> HIDE DEF ops
  <2> QED
    BY <1>1, <2>1
<1>5. /\ ~risky => /\ defs[done + 2] \in Seq(FieldsOf(KnownTypes))
                   /\ Leads(plan, f, Converted(defs[done + 2]))
                   /\ Len(ops) = 0 => Defined(f, defs[done + 1])
      /\ Len(ops) = 1 => NextFields(ops[1], f) = f
  BY <1>1, <1>4 DEF SourceInv, AlterAtSource
<1>6. ASSUME ~risky
      PROVE  Defined(f, defs[done + 2])
  BY <1>1, <1>5, <1>6, LeadsNowhere DEF Defined
<1>7. log' = log /\ ops = ColumnChanges(log[done + 1])
  BY <1>1 DEF Ops
<1> HIDE DEF ops, f
<1>8. LoopAtSource'
  <2>1. (done' + 1) = done + 2 /\ ch_structure'.fields = f /\ defs' = defs /\ risky' = risky
    BY <1>1, <1>2 DEF f
  <2>2. ~risky => Defined(f, defs[done' + 1])
    BY <1>6, <2>1
  <2> QED
    BY <2>1, <2>2 DEF LoopAtSource, AtSource
<1>9. SavedAtSource'
  <2>1. CASE saved' = saved
    BY <1>1, <2>1, SavedStaysAtSource DEF SourceInv
  <2>2. CASE saved'.last = last' /\ saved'.ch_structure = ch_structure
    <3> SUFFICES ASSUME ~risky, ~ManyClauses(saved.last + 1, begun)'
                 PROVE  AtSource(saved.last, saved.ch_structure.fields)'
      BY <1>1 DEF SavedAtSource
    <3>1. saved'.ch_structure.fields = f /\ defs' = defs
      BY <1>1, <2>2 DEF f
    <3>2. CASE last' = done + 1
      <4>1. saved'.last + 1 = done + 2
        BY <1>2, <2>2, <3>2
      <4> QED
        BY <1>6, <3>1, <4>1 DEF AtSource
    <3>3. CASE last' = last
      <4>1. saved'.last = last
        BY <2>2, <3>3
      <4>2. /\ ~(last + 1 < begun')
            /\ last + 1 = begun' => ~(Len(ColumnChanges(log[last + 1])) > 1)
        BY <1>1, <4>1 DEF ManyClauses
      <4>3. last = done /\ begun' = done + 1
        BY <1>2, <1>3, <4>2
      <4>4. ~(Len(ops) > 1)
        BY <1>7, <4>2, <4>3
      <4>5. Len(ops) = 0 \/ Len(ops) = 1
        <5> DEFINE n == Len(ops)
        <5>1. n \in Nat /\ ~(n > 1)
          BY <1>4, <4>4
        <5> HIDE DEF n
        <5>2. n = 0 \/ n = 1
          BY <5>1
        <5> QED
          BY <5>2 DEF n
      <4>6. CASE Len(ops) = 0
        <5>1. Defined(f, defs[done + 1])
          BY <1>5, <4>6
        <5> QED
          BY <3>1, <4>1, <4>3, <5>1 DEF AtSource
      <4>7. CASE Len(ops) = 1
        <5>1. /\ begun' = saved'.last + 1 /\ saved'.last + 2 = done + 2
              /\ Ops(begun)' = ops
          BY <1>1, <1>7, <4>1, <4>3 DEF Ops
        <5>2. Defined(f, defs[done + 2]) /\ NextFields(ops[1], f) = f
          BY <1>5, <1>6, <4>7
        <5> QED
          BY <3>1, <4>7, <5>1, <5>2 DEF AtSource
      <4> QED
        BY <4>5, <4>6, <4>7
    <3> QED
      BY <1>1, <3>2, <3>3
  <2> QED
    BY <1>1, <2>1, <2>2
<1>10. DefsInv' /\ AlterAtSource'
  BY <1>1 DEF SourceInv, DefsInv, AlterAtSource
<1> QED
  BY <1>8, <1>9, <1>10 DEF SourceInv

(* MySQL logs another statement. *)
LEMMA SourceGrows ==
    ASSUME LogInv, CounterInv, SourceInv, MySQLAlters
    PROVE  SourceInv'
<1>1. PICK stmt, new : log' = Append(log, stmt) /\ defs' = Append(defs, new)
  BY DEF MySQLAlters
<1>2. UNCHANGED <<saved, pc, done, plan, ch_structure, begun, risky>>
  BY DEF MySQLAlters, memory, structures
<1>3. PICK S : defs \in Seq(S)
  BY DEF SourceInv, DefsInv
<1>4. Len(defs) = Len(log) + 1 /\ Len(log) \in Nat
  BY DEF SourceInv, DefsInv, LogInv
<1>5. DefsInv' /\ \A n \in 1..Len(defs) : defs'[n] = defs[n]
  <2> DEFINE T == S \cup {new}
  <2>1. defs \in Seq(T) /\ new \in T
    BY <1>3, SeqMonotonic
  <2> HIDE DEF T
  <2>2. /\ defs' \in Seq(T) /\ Len(defs') = Len(defs) + 1
        /\ \A n \in 1..Len(defs) : defs'[n] = defs[n]
    BY <1>1, <2>1, AppendProperties
  <2>3. Len(log') = Len(log) + 1
    BY <1>1 DEF LogInv
  <2>4. (\E U : defs' \in Seq(U)) /\ Len(defs') = Len(log') + 1
    BY <1>4, <2>2, <2>3
  <2> QED
    BY <2>2, <2>4 DEF DefsInv
<1>6. \A n \in 1..Len(log) : log'[n] = log[n]
  BY <1>1 DEF LogInv
<1>7. begun \in Nat /\ begun <= Len(log) /\ saved.last \in Nat /\ done \in Nat
      /\ saved.last <= begun /\ (pc # "down" => done <= begun)
  BY DEF CounterInv
<1>8. ASSUME NEW l \in Nat, l <= Len(log), NEW f, AtSource(l, f)
      PROVE  \/ Defined(f, defs'[l + 1])
             \/ /\ begun' = l + 1 /\ Len(Ops(begun)') = 1
                /\ Defined(f, defs'[l + 2]) /\ NextFields(Ops(begun)'[1], f) = f
  <2>1. l + 1 \in 1..Len(defs)
    BY <1>4, <1>8
  <2>2. CASE Defined(f, defs[l + 1])
    BY <1>5, <2>1, <2>2
  <2>3. CASE /\ begun = l + 1 /\ Len(Ops(begun)) = 1
             /\ Defined(f, defs[l + 2]) /\ NextFields(Ops(begun)[1], f) = f
    <3>1. begun \in 1..Len(log) /\ l + 2 \in 1..Len(defs)
      BY <1>4, <1>7, <1>8, <2>3
    <3>2. Ops(begun)' = Ops(begun)
      BY <1>2, <1>6, <3>1 DEF Ops
    <3> QED
      BY <1>2, <1>5, <2>3, <3>1, <3>2
  <2> QED
    BY <1>8, <2>2, <2>3 DEF AtSource
<1>9. SavedAtSource'
  <2>1. ManyClauses(saved.last + 1, begun)' <=> ManyClauses(saved.last + 1, begun)
    <3>1. saved.last + 1 = begun => saved.last + 1 \in 1..Len(log)
      BY <1>4, <1>7
    <3> QED
      BY <1>2, <1>6, <3>1 DEF ManyClauses
  <2>2. saved.last <= Len(log)
    BY <1>4, <1>7
  <2> QED
    BY <1>2, <1>7, <1>8, <2>1, <2>2 DEF SourceInv, SavedAtSource, AtSource
<1>10. LoopAtSource'
  <2>1. pc = "loop" => done <= Len(log)
    BY <1>4, <1>7
  <2> QED
    BY <1>2, <1>7, <1>8, <2>1 DEF SourceInv, LoopAtSource, AtSource
<1>11. AlterAtSource'
  <2> SUFFICES ASSUME pc = "alter"
               PROVE  AlterAtSource'
    BY <1>2 DEF AlterAtSource
  <2>1. done < Len(log)
    BY DEF LogInv
  <2>2. done + 1 \in 1..Len(log) /\ done + 1 \in 1..Len(defs) /\ done + 2 \in 1..Len(defs)
    BY <1>4, <1>7, <2>1
  <2>3. Ops(done + 1)' = Ops(done + 1) /\ defs'[done + 1] = defs[done + 1]
        /\ defs'[done + 2] = defs[done + 2]
    BY <1>2, <1>5, <1>6, <2>2 DEF Ops
  <2> QED
    BY <1>2, <2>3 DEF SourceInv, AlterAtSource
<1> QED
  BY <1>5, <1>9, <1>10, <1>11 DEF SourceInv

LEMMA SourceInvInit ==
    ASSUME Init
    PROVE  SourceInv
<1>1. /\ defs = <<InitialFields>> /\ log = <<>> /\ begun = 0 /\ pc = "down" /\ saved.last = 0
      /\ saved.ch_structure = ConvertTableStructure(InitialStructure)
  BY DEF Init
<1>2. Defined(saved.ch_structure.fields, InitialFields)
  BY <1>1, InitialPair DEF Pair, StructureOf, Defined
<1>3. DefsInv
  <2>1. defs \in Seq({InitialFields}) /\ Len(defs) = 1 /\ Len(log) = 0
    BY <1>1
  <2> QED
    BY <2>1 DEF DefsInv
<1>4. SavedAtSource
  BY <1>1, <1>2 DEF SavedAtSource, AtSource
<1> QED
  BY <1>1, <1>3, <1>4 DEF SourceInv, LoopAtSource, AlterAtSource

LEMMA SourceInvStep ==
    ASSUME LogInv, CounterInv, StructureInv, ReplayInv, SourceInv, ClausesFollowStatement,
           [Next]_vars
    PROVE  SourceInv'
<1>1. CASE Start
  <2>1. /\ pc' = "loop" /\ done' = saved.last /\ ch_structure' = saved.ch_structure
        /\ risky' = (risky \/ ManyClauses(saved.last + 1, begun))
        /\ UNCHANGED <<log, defs, saved, begun>>
    BY <1>1 DEF Start
  <2>2. SavedAtSource' /\ LoopAtSource'
    BY <2>1 DEF SourceInv, SavedAtSource, LoopAtSource, AtSource, ManyClauses, Ops
  <2> QED
    BY <2>1, <2>2 DEF SourceInv, DefsInv, AlterAtSource
<1>2. CASE RejectAlterQuery \/ Stop
  <2>1. /\ pc = "loop" /\ pc' = "down"
        /\ UNCHANGED <<log, defs, begun, risky>>
        /\ saved' = saved \/ (saved'.last = done /\ saved'.ch_structure = ch_structure)
    BY <1>2 DEF RejectAlterQuery, Stop, ProcessEnds, SaveStateIfRequired, Save
  <2>2. SavedAtSource' /\ DefsInv'
    BY <2>1, SavedFromLoop
  <2> QED
    BY <2>1, <2>2 DEF SourceInv, LoopAtSource, AlterAtSource
<1>3. CASE ReadNothing
  <2>1. /\ pc = "loop" /\ pc' = "loop"
        /\ UNCHANGED <<log, defs, begun, risky, done, ch_structure>>
        /\ saved' = saved \/ (saved'.last = done /\ saved'.ch_structure = ch_structure)
    BY <1>3 DEF ReadNothing, Uploaded, SaveStateIfRequired, Save, structures
  <2>2. SavedAtSource' /\ DefsInv'
    BY <2>1, SavedFromLoop
  <2>3. LoopAtSource'
    BY <2>1 DEF SourceInv, LoopAtSource, AtSource, Ops
  <2> QED
    BY <2>1, <2>2, <2>3 DEF SourceInv, AlterAtSource
<1>4. CASE Crash \/ CommandRefused
  <2>1. pc' = "down" /\ UNCHANGED <<log, defs, saved, begun, risky>>
    BY <1>4 DEF Crash, CommandRefused, ProcessEnds
  <2> QED
    BY <2>1 DEF SourceInv, SavedAtSource, LoopAtSource, AlterAtSource, DefsInv, AtSource,
                ManyClauses, Ops
<1>5. CASE UNCHANGED vars
  <2>1. UNCHANGED <<log, defs, saved, pc, done, plan, ch_structure, begun, risky>>
    BY <1>5 DEF vars, memory, structures
  <2> QED
    BY <2>1 DEF SourceInv, SavedAtSource, LoopAtSource, AlterAtSource, DefsInv, AtSource,
                ManyClauses, Ops
<1> QED
  BY <1>1, <1>2, <1>3, <1>4, <1>5, SourceGrows, SourceHandles, SourceSends, SourceSkips,
     SourceFinishes
     DEF Next

(* Once the statements are executed, the columns of ClickHouse, of both     *)
(* structures and of MySQL are the same, in the same order, after crashes   *)
(* too unless one made the replicator execute more than one column clause   *)
(* again; provided that the statements that pass validation mean, clause by *)
(* clause, what they mean in MySQL.                                        *)
THEOREM ColumnsAlwaysFollowSource ==
    Spec /\ []ClausesFollowStatement => []ColumnsFollowSource
<1>1. Init => SourceInv
  BY SourceInvInit
<1>2. PlanningInv /\ ReplayInv /\ SourceInv /\ ClausesFollowStatement /\ [Next]_vars => SourceInv'
  BY SourceInvStep DEF PlanningInv
<1>3. PlanningInv /\ ReplayInv /\ SourceInv => ColumnsFollowSource
  <2> SUFFICES ASSUME PlanningInv, ReplayInv, SourceInv, pc = "loop", done = begun, ~risky
               PROVE  /\ ch = ch_structure.fields
                      /\ Names(mysql_structure.fields) = Names(defs[done + 1])
                      /\ \A i \in DOMAIN ch :
                           ch[i].type = ConvertFieldType[defs[done + 1][i].type]
    BY DEF ColumnsFollowSource
  <2> DEFINE f == ch_structure.fields
             def == defs[done + 1]
  <2>1. done \in Nat /\ begun # done + 1
    BY DEF PlanningInv, CounterInv
  <2>2. ch = f
    BY <2>1 DEF ReplayInv, LoopBehind, Behind
  <2>3. Defined(f, def)
    BY <2>1 DEF SourceInv, LoopAtSource, AtSource
  <2>4. Pair(mysql_structure, ch_structure)
    BY DEF PlanningInv, StructureInv
  <2> HIDE DEF f, def
  <2>5. /\ def \in Seq(FieldsOf(KnownTypes)) /\ f = Converted(def)
        /\ DOMAIN f = DOMAIN def
    BY <2>3 DEF Defined, Converted
  <2>6. Names(mysql_structure.fields) = Names(def)
    BY <2>4, <2>5, PairFields, ConvertedShape DEF f
  <2>7. \A i \in DOMAIN f : f[i].type = ConvertFieldType[def[i].type]
    BY <2>5 DEF Converted, ConvertedField, Field
  <2> QED
    BY <2>2, <2>6, <2>7 DEF f, def
<1> QED
  BY <1>1, <1>2, <1>3, PlanningInvHolds, ReplayInvHolds, PTL DEF Spec

=============================================================================
