---------------------------- MODULE SqlExProofs -----------------------------
(***************************************************************************)
(* Proofs about a work area of SQLEX (SqlEx).                               *)
(*                                                                          *)
(* SInv is what holds between two calls: the table is one, the list holds   *)
(* records of it and the position is on the list, the ends that are         *)
(* remembered and the pool are of records of the table, and aBuffer holds   *)
(* the current record, unless the area is at EOF or the record is being     *)
(* edited.  It is proved operator by operator, in the order of SqlEx: the   *)
(* rows of a SELECT, the list, the page read into aBuffer and the pool, the *)
(* raw skips, the filters, the writes, and then each call.                  *)
(*                                                                          *)
(* A loop of the code is a recursive function of the number of its passes.  *)
(* LoopExists shows that such a function exists, and LoopStays that what    *)
(* every pass keeps, all of them keep.                                      *)
(***************************************************************************)
EXTENDS SqlEx, OrderProofs

-----------------------------------------------------------------------------
(* The types.                                                               *)
Contents == [Columns -> Int]
Results  == {"none", "ok", "retry", "endless"}

Line(t)  == [rec : Rows(t), del : BOOLEAN]
Lists(t) == {q \in Seq(Line(t)) : Len(q) \in 1 .. ListSize}
Marks(t) == Rows(t) \cup {0}

(* Records with their contents, some of them marked as deleted.              *)
IsTable(t) ==
  /\ t \in [row : {t.row}, marked : {t.marked}]
  /\ t.row \in [Rows(t) -> Contents]
  /\ Rows(t) \in SUBSET (1 .. MaxRec) /\ Rows(t) # {}
  /\ t.marked \in SUBSET Rows(t)

(***************************************************************************)
(* The hypotheses of what is proved about the contents: marked records are  *)
(* shown, nothing is replaced at EOF, and of the sets of columns that are   *)
(* replaced together none is a part of another.                             *)
(***************************************************************************)
Simple ==
  /\ ~SetDeleted /\ ~EditAtEof
  /\ \A e, f \in EditSets : e \subseteq f => e = f

(* The pool: records of the table, not too many of them, as they are stored. *)
Pools(t) ==
  {p \in UNION {[R -> Contents] : R \in SUBSET Rows(t)} :
     /\ Cardinality(DOMAIN p) <= PoolSize + PageReadSize
     /\ Simple => \A r \in DOMAIN p : p[r] = t.row[r]}

(* What the moves leave alone: the edit, the order, the counts.              *)
IsFrame(x) ==
  /\ x.cur \in Nat /\ x.rcount \in Nat /\ x.order \in 0 .. 1
  /\ x.insert \in BOOLEAN /\ x.hot \in BOOLEAN /\ x.touched \in BOOLEAN
  /\ x.edit \in SUBSET Columns /\ x.updated \in SUBSET Columns /\ x.stmt \in SUBSET x.updated

(* An area over t, its list in Q, with the fields of x that the moves leave  *)
(* alone.                                                                    *)
Fields(t, x, Q) ==
  [list : Q, pos : Nat, dir : {1, -1}, bofAt : Marks(t), eofAt : Marks(t), lastRec : Nat,
   bof : BOOLEAN, eof : BOOLEAN, bottom : BOOLEAN, changed : BOOLEAN, cond : BOOLEAN,
   prepared : {0, 1, -1}, pool : Pools(t), buf : Contents, res : Results,
   cur : {x.cur}, rcount : {x.rcount}, order : {x.order}, insert : {x.insert}, hot : {x.hot},
   touched : {x.touched}, edit : {x.edit}, updated : {x.updated}, stmt : {x.stmt}]

(* The list holds records of the table, and the position is on it.           *)
Area(t, x) == {a \in Fields(t, x, Lists(t)) : a.pos \in 1 .. Len(a.list)}

(* aBuffer holds the current record.                                         *)
Stored(t, a) == Simple => a.buf = t.row[Current(a)]

(* It does, unless the area is at EOF.                                       *)
Shown(t, x) == {a \in Area(t, x) : ~a.eof => Stored(t, a)}

(* It does, EOF or not.                                                      *)
OnRecord(t, x) == {a \in Area(t, x) : Stored(t, a)}

-----------------------------------------------------------------------------
(* The rows of a SELECT.                                                     *)

(* The sizes are numbers.                                                    *)
LEMMA Sizes ==
    /\ MaxRec \in Nat /\ ListSize \in Nat \ {0} /\ TopSize \in 1 .. ListSize
    /\ PageReadSize \in Nat \ {0} /\ PoolSize \in Nat
BY SqlExAssumption

(* Both orders are orders of the records.                                    *)
LEMMA BeforeOrders ==
    ASSUME NEW t, IsTable(t), NEW o \in 0 .. 1, NEW d \in {1, -1}, NEW S \in SUBSET Rows(t)
    PROVE  Orders({p \in S \X S : IF d = 1 THEN Before(t, o, p[1], p[2]) ELSE Before(t, o, p[2], p[1])}, S)
<1> DEFINE L == {p \in S \X S : IF d = 1 THEN Before(t, o, p[1], p[2]) ELSE Before(t, o, p[2], p[1])}
           K == [r \in S |-> t.row[r]["k"]]
<1>1. \A r \in S : r \in Int /\ K[r] \in Int /\ K[r] = t.row[r]["k"]
  BY SqlExAssumption DEF IsTable, Contents, Columns
<1>2. \A r, s \in S : << r, s >> \in L <=> IF d = 1 THEN Before(t, o, r, s) ELSE Before(t, o, s, r)
  OBVIOUS
<1>3. \A r, s \in S : Before(t, o, r, s) <=> IF o = 0 \/ K[r] = K[s] THEN r < s ELSE K[r] < K[s]
  BY <1>1 DEF Before
<1> HIDE DEF L, K
<1>4. \A r \in S : << r, r >> \notin L
  BY <1>1, <1>2, <1>3
<1>5. \A r, s \in S : r # s => << r, s >> \in L \/ << s, r >> \in L
  BY <1>1, <1>2, <1>3
<1>6. \A r, s, x \in S : << r, s >> \in L /\ << s, x >> \in L => << r, x >> \in L
  BY <1>1, <1>2, <1>3
<1> QED
  BY <1>4, <1>5, <1>6 DEF Orders, L

(* ORDER BY lists the records of S, each once, in the order asked for.       *)
LEMMA OrderedRows ==
    ASSUME NEW t, IsTable(t), NEW o \in 0 .. 1, NEW d \in {1, -1}, NEW S \in SUBSET Rows(t), NEW q,
           q = SR_getOrderByExpression(t, o, d, S)
    PROVE  /\ q \in Seq(S) /\ Len(q) = Cardinality(S) /\ Cardinality(S) \in Nat
           /\ \A i, j \in 1 .. Cardinality(S) :
                i < j <=> IF d = 1 THEN Before(t, o, q[i], q[j]) ELSE Before(t, o, q[j], q[i])
           /\ \A r \in S : \E i \in 1 .. Cardinality(S) : q[i] = r
<1> DEFINE Less(r, s) == IF d = 1 THEN Before(t, o, r, s) ELSE Before(t, o, s, r)
           L == {p \in S \X S : IF d = 1 THEN Before(t, o, p[1], p[2]) ELSE Before(t, o, p[2], p[1])}
           n == Cardinality(S)
<1>1. IsFiniteSet(S)
  <2>1. IsFiniteSet(1 .. MaxRec)
    BY Sizes, FS_Interval
  <2>2. S \in SUBSET (1 .. MaxRec)
    BY DEF IsTable
  <2> QED
    BY <2>1, <2>2, FS_Subset
<1>2. Orders(L, S)
  BY BeforeOrders
<1>3. \A r, s \in S : << r, s >> \in L <=> Less(r, s)
  OBVIOUS
<1> HIDE DEF L
<1>4. q = Listed(L, S)
  <2> DEFINE F(k) == CHOOSE r \in S : Cardinality({s \in S : Less(s, r)}) = k - 1
             G(k) == CHOOSE r \in S : Cardinality({s \in S : << s, r >> \in L}) = k - 1
  <2>1. \A r \in S : {s \in S : Less(s, r)} = {s \in S : << s, r >> \in L}
    BY <1>3
  <2>2. \A k : F(k) = G(k)
    <3> TAKE k
    <3> HIDE DEF Less
    <3>1. \A r : (r \in S /\ Cardinality({s \in S : Less(s, r)}) = k - 1)
                   <=> (r \in S /\ Cardinality({s \in S : << s, r >> \in L}) = k - 1)
      BY <2>1
    <3> QED
      BY <3>1
  <2>3. q = [k \in 1 .. Cardinality(S) |-> F(k)]
    BY DEF SR_getOrderByExpression
  <2>4. Listed(L, S) = [k \in 1 .. Cardinality(S) |-> G(k)]
    BY DEF Listed
  <2> HIDE DEF F, G
  <2> QED
    BY <2>2, <2>3, <2>4
<1>5. /\ q \in Seq(S) /\ Len(q) = n /\ n \in Nat
      /\ \A i, j \in 1 .. n : i < j <=> << q[i], q[j] >> \in L
      /\ \A r \in S : \E i \in 1 .. n : q[i] = r
  BY <1>1, <1>2, <1>4, ListedRows
<1> HIDE DEF n
<1>6. \A i \in 1 .. n : q[i] \in S
  BY <1>5
<1> QED
  BY <1>3, <1>5, <1>6 DEF n

(* The first n rows.                                                         *)
LEMMA FirstRowsOf ==
    ASSUME NEW S, NEW q \in Seq(S), NEW n \in Nat
    PROVE  AtMost(q, n) \in Seq(S) /\ Len(AtMost(q, n)) = IF Len(q) <= n THEN Len(q) ELSE n
<1>1. CASE Len(q) <= n
  BY <1>1 DEF AtMost
<1>2. CASE ~(Len(q) <= n)
  <2>1. AtMost(q, n) = SubSeq(q, 1, n) /\ n \in 0 .. Len(q)
    BY <1>2 DEF AtMost
  <2>2. SubSeq(q, 1, n) \in Seq(S) /\ Len(SubSeq(q, 1, n)) = n
    BY <2>1
  <2> QED
    BY <1>2, <2>1, <2>2
<1> QED
  BY <1>1, <1>2

(* The rows after the current one.                                           *)
LEMMA FollowingRows ==
    ASSUME NEW S, NEW q \in Seq(S), NEW r
    PROVE  Following(q, r) \in Seq(S)
<1>1. CASE \E i \in 1 .. Len(q) : q[i] = r
  <2> DEFINE k == CHOOSE i \in 1 .. Len(q) : q[i] = r
  <2>1. k \in 1 .. Len(q)
    BY <1>1
  <2>2. Following(q, r) = SubSeq(q, k + 1, Len(q))
    BY <1>1 DEF Following
  <2> HIDE DEF k
  <2>3. \A i \in (k + 1) .. Len(q) : i \in 1 .. Len(q)
    BY <2>1
  <2> QED
    BY <2>1, <2>2, <2>3
<1>2. CASE ~\E i \in 1 .. Len(q) : q[i] = r
  BY <1>2 DEF Following
<1> QED
  BY <1>1, <1>2

(* They are a list when there are some and not too many.                     *)
LEMMA RowsMakeAList ==
    ASSUME NEW t, IsTable(t), NEW q \in Seq(Rows(t)), Len(q) \in 1 .. ListSize
    PROVE  /\ ListOf(t, q) \in Lists(t) /\ Len(ListOf(t, q)) = Len(q) /\ q[Len(q)] \in Rows(t)
           /\ \A i \in 1 .. Len(q) : ListOf(t, q)[i].rec = q[i]
<1> DEFINE l == ListOf(t, q)
<1>1. \A i \in 1 .. Len(q) : q[i] \in Rows(t) /\ Entry(t, q[i]) \in Line(t) /\ Entry(t, q[i]).rec = q[i]
  BY DEF Entry, Line
<1>2. l = [i \in 1 .. Len(q) |-> Entry(t, q[i])]
  BY DEF ListOf
<1> HIDE DEF l
<1>3. l \in [1 .. Len(q) -> Line(t)] /\ Len(q) \in Nat
  BY <1>1, <1>2
<1>4. l \in Seq(Line(t)) /\ Len(l) = Len(q)
  BY <1>3
<1>5. q[Len(q)] \in Rows(t)
  BY Sizes
<1> QED
  BY <1>1, <1>2, <1>4, <1>5 DEF Lists, l

(* The rows of the SELECT of a skip.                                         *)
LEMMA SkipRowsOf ==
    ASSUME NEW t, IsTable(t), NEW x, IsFrame(x), NEW a \in Area(t, x)
    PROVE  SkipRows(t, a) \in Seq(Rows(t))
<1> DEFINE n == SR_GetCurrentRecordNum(a)
           AtOrPast(y, z) == IF a.dir = 1 THEN y >= z ELSE y <= z
           S == {r \in Rows(t) : IF a.order = 0 THEN AtOrPast(r, n)
                                 ELSE AtOrPast(t.row[r]["k"], a.buf["k"])}
           q == SR_getOrderByExpression(t, a.order, a.dir, S)
<1>1. a.order \in 0 .. 1 /\ a.dir \in {1, -1}
  BY DEF Area, Fields, IsFrame
<1>2. S \in SUBSET Rows(t)
  OBVIOUS
<1>3. SkipRows(t, a) = IF Limited THEN AtMost(q, ListSize + 1) ELSE q
  BY DEF SkipRows
<1> HIDE DEF S
<1>4. q \in Seq(S)
  BY <1>1, <1>2, OrderedRows
<1> HIDE DEF q
<1>5. q \in Seq(Rows(t))
  BY <1>2, <1>4
<1>6. AtMost(q, ListSize + 1) \in Seq(Rows(t))
  BY <1>5, Sizes, FirstRowsOf
<1> QED
  BY <1>3, <1>5, <1>6

-----------------------------------------------------------------------------
(* The pool.                                                                 *)

(* The records of the table are finitely many.                               *)
LEMMA RowsFinite ==
    ASSUME NEW t, IsTable(t), NEW S \in SUBSET Rows(t)
    PROVE  IsFiniteSet(S) /\ Cardinality(S) \in Nat
<1>1. IsFiniteSet(1 .. MaxRec)
  BY Sizes, FS_Interval
<1>2. S \in SUBSET (1 .. MaxRec)
  BY DEF IsTable
<1>3. IsFiniteSet(S)
  BY <1>1, <1>2, FS_Subset
<1> QED
  BY <1>3, FS_CardinalityType

(* A page has the current record and at most PageReadSize records.           *)
LEMMA PageRecords ==
    ASSUME NEW t, IsTable(t), NEW x, IsFrame(x), NEW a \in Area(t, x)
    PROVE  /\ Page(t, a) \in SUBSET Rows(t) /\ Current(a) \in Page(t, a)
           /\ Cardinality(Page(t, a)) <= PageReadSize
<1> DEFINE n == Min({Len(a.list), a.pos + PageReadSize - 1})
           I == a.pos .. n
           f == [i \in I |-> a.list[i].rec]
           D == {f[i] : i \in I}
<1>1. a.list \in Seq(Line(t)) /\ a.pos \in 1 .. Len(a.list) /\ Len(a.list) \in Nat
  BY DEF Area, Fields, Lists
<1>2. PageReadSize \in Nat \ {0}
  BY Sizes
<1>3. n \in Nat /\ a.pos <= n /\ n <= Len(a.list) /\ n <= a.pos + PageReadSize - 1
  <2> DEFINE y == a.pos + PageReadSize - 1
  <2>1. y \in Nat /\ a.pos <= y
    BY <1>1, <1>2
  <2>2. n = CHOOSE v \in {Len(a.list), y} : \A w \in {Len(a.list), y} : v <= w
    BY DEF Min
  <2> HIDE DEF n, y
  <2>3. \E v \in {Len(a.list), y} : \A w \in {Len(a.list), y} : v <= w
    BY <1>1, <2>1
  <2>4. n \in {Len(a.list), y} /\ n <= Len(a.list) /\ n <= y
    BY <2>2, <2>3
  <2> QED
    BY <1>1, <2>1, <2>4 DEF y
<1>4. Page(t, a) = Rows(t) \cap {a.list[i].rec : i \in I}
  BY DEF Page
<1> HIDE DEF n
<1>5. \A i \in I : i \in 1 .. Len(a.list) /\ a.list[i].rec \in Rows(t)
  <2> TAKE i \in I
  <2>1. i \in 1 .. Len(a.list)
    BY <1>1, <1>3
  <2>2. a.list[i] \in Line(t)
    BY <1>1, <2>1
  <2> QED
    BY <2>1, <2>2 DEF Line
<1>6. Page(t, a) = D
  BY <1>4, <1>5
<1>7. Current(a) \in Page(t, a)
  BY <1>1, <1>3, <1>5, <1>6 DEF Current
<1>8. IsFiniteSet(I) /\ Cardinality(I) <= PageReadSize
  <2>1. a.pos \in Int /\ n \in Int
    BY <1>1, <1>3
  <2>2. IsFiniteSet(I) /\ Cardinality(I) = IF a.pos > n THEN 0 ELSE n - a.pos + 1
    BY <2>1, FS_Interval
  <2> QED
    BY <1>1, <1>2, <1>3, <2>2
<1> HIDE DEF I
<1>9. IsFiniteSet(D) /\ Cardinality(D) <= Cardinality(I)
  <2>1. f \in [I -> D]
    OBVIOUS
  <2>2. f \in Surjection(I, D)
    BY <2>1 DEF Surjection
  <2> QED
    BY <1>8, <2>2, FS_Surjection
<1>10. Cardinality(D) <= PageReadSize
  <2>1. Cardinality(D) \in Nat /\ Cardinality(I) \in Nat
    BY <1>8, <1>9, FS_CardinalityType
  <2> HIDE DEF D
  <2> QED
    BY <1>2, <1>8, <1>9, <2>1
<1> QED
  BY <1>4, <1>6, <1>7, <1>10

(* The pool of a new work area, and the one that was emptied.                *)
LEMMA EmptyPool ==
    ASSUME NEW t
    PROVE  /\ [r \in {} |-> Blank] \in Pools(t)
           /\ Cardinality(DOMAIN [r \in {} |-> Blank]) <= PoolSize
<1> DEFINE p == [r \in {} |-> Blank]
<1>1. DOMAIN p = {} /\ p \in [{} -> Contents] /\ {} \in SUBSET Rows(t)
  OBVIOUS
<1> HIDE DEF p
<1>2. Cardinality(DOMAIN p) = 0
  BY <1>1, FS_EmptySet
<1>3. p \in UNION {[R -> Contents] : R \in SUBSET Rows(t)}
  BY <1>1
<1>4. Cardinality(DOMAIN p) <= PoolSize /\ Cardinality(DOMAIN p) <= PoolSize + PageReadSize
  BY <1>2, Sizes
<1>5. p \in Pools(t)
  BY <1>1, <1>3, <1>4 DEF Pools
<1> QED
  BY <1>4, <1>5 DEF p

(* The pool is emptied when it is over its size.                             *)
LEMMA RoomForAPage ==
    ASSUME NEW t, IsTable(t), NEW x, IsFrame(x), NEW a \in Area(t, x)
    PROVE  RoomInPool(a) \in Pools(t) /\ Cardinality(DOMAIN RoomInPool(a)) <= PoolSize
<1>1. a.pool \in Pools(t)
  BY DEF Area, Fields
<1>2. DOMAIN a.pool \in SUBSET Rows(t)
  BY <1>1 DEF Pools
<1>3. Cardinality(DOMAIN a.pool) \in Nat
  BY <1>2, RowsFinite
<1>4. CASE Cardinality(DOMAIN a.pool) > PoolSize
  <2>1. RoomInPool(a) = [r \in {} |-> Blank]
    BY <1>4 DEF RoomInPool
  <2> QED
    BY <2>1, EmptyPool
<1>5. CASE ~(Cardinality(DOMAIN a.pool) > PoolSize)
  BY <1>1, <1>3, <1>5, Sizes DEF RoomInPool
<1> QED
  BY <1>4, <1>5

(* A page read into it leaves it within its bound, and as stored.            *)
LEMMA PageInPool ==
    ASSUME NEW t, IsTable(t), NEW kept \in Pools(t), Cardinality(DOMAIN kept) <= PoolSize,
           NEW read \in SUBSET Rows(t), Cardinality(read) <= PageReadSize
    PROVE  [y \in DOMAIN kept \cup read |-> IF y \in read THEN t.row[y] ELSE kept[y]] \in Pools(t)
<1> DEFINE R == DOMAIN kept \cup read
           p == [y \in R |-> IF y \in read THEN t.row[y] ELSE kept[y]]
<1>1. DOMAIN kept \in SUBSET Rows(t) /\ \A y \in DOMAIN kept : kept[y] \in Contents
  BY DEF Pools
<1>2. R \in SUBSET Rows(t)
  BY <1>1
<1>3. \A y \in read : t.row[y] \in Contents
  BY DEF IsTable
<1>4. p \in [R -> Contents] /\ DOMAIN p = R
  BY <1>1, <1>3
<1>5. Cardinality(R) <= PoolSize + PageReadSize
  <2>1. IsFiniteSet(DOMAIN kept) /\ IsFiniteSet(read)
    BY <1>1, RowsFinite
  <2>2. /\ IsFiniteSet(R)
        /\ Cardinality(R) = Cardinality(DOMAIN kept) + Cardinality(read) - Cardinality(DOMAIN kept \cap read)
    BY <2>1, FS_Union
  <2>3. IsFiniteSet(DOMAIN kept \cap read)
    BY <2>1, FS_Intersection
  <2>4. /\ Cardinality(DOMAIN kept) \in Nat /\ Cardinality(read) \in Nat
        /\ Cardinality(DOMAIN kept \cap read) \in Nat
    BY <2>1, <2>3, FS_CardinalityType
  <2> HIDE DEF R
  <2> QED
    BY <2>2, <2>4, Sizes
<1>6. Simple => \A y \in R : p[y] = t.row[y]
  BY DEF Pools
<1> HIDE DEF R
<1>7. p \in UNION {[Q -> Contents] : Q \in SUBSET Rows(t)}
  <2> HIDE DEF p
  <2> QED
    BY <1>2, <1>4
<1> HIDE DEF p
<1>8. p \in Pools(t)
  BY <1>4, <1>5, <1>6, <1>7 DEF Pools
<1> QED
  BY <1>8 DEF p, R

-----------------------------------------------------------------------------
(* The current record and its contents.                                      *)

(* The deleted flag of a record of the list changes nothing else of it.      *)
LEMMA FlagInList ==
    ASSUME NEW t, NEW q \in Lists(t), NEW i \in 1 .. Len(q), NEW b \in BOOLEAN
    PROVE  LET p == [q EXCEPT ![i] = [q[i] EXCEPT !.del = b]]
           IN  /\ p \in Lists(t) /\ Len(p) = Len(q)
               /\ \A j \in 1 .. Len(q) : p[j].rec = q[j].rec
<1> DEFINE l == [q[i] EXCEPT !.del = b]
           p == [q EXCEPT ![i] = l]
<1>1. q \in Seq(Line(t)) /\ Len(q) \in 1 .. ListSize
  BY DEF Lists
<1>2. q[i] \in Line(t)
  BY <1>1
<1>3. l \in Line(t) /\ l.rec = q[i].rec
  BY <1>2 DEF Line
<1> HIDE DEF l
<1>4. p \in Seq(Line(t)) /\ Len(p) = Len(q)
  BY <1>1, <1>3
<1>5. \A j \in 1 .. Len(q) : p[j].rec = q[j].rec
  BY <1>1, <1>3
<1> HIDE DEF p
<1>6. p \in Lists(t)
  BY <1>1, <1>4 DEF Lists
<1> QED
  BY <1>4, <1>5, <1>6 DEF p, l

(* The current record is one of the table.                                   *)
LEMMA CurrentInRows ==
    ASSUME NEW t, NEW x, NEW a \in Area(t, x)
    PROVE  Current(a) \in Rows(t) /\ a.list[a.pos] \in Line(t)
<1>1. a.list \in Seq(Line(t)) /\ a.pos \in 1 .. Len(a.list)
  BY DEF Area, Fields, Lists
<1>2. a.list[a.pos] \in Line(t)
  BY <1>1
<1> QED
  BY <1>2 DEF Current, Line

(* updateRecordBuffer: aBuffer holds the current record.                     *)
LEMMA BufferIsRead ==
    ASSUME NEW t, IsTable(t), NEW x, IsFrame(x), NEW a \in Area(t, x), NEW u \in BOOLEAN
    PROVE  LET c == updateRecordBuffer(t, a, u)
           IN  c \in Area(t, x) /\ Stored(t, c) /\ c.eof = a.eof
<1> DEFINE c == updateRecordBuffer(t, a, u)
           r == Current(a)
<1>1. r \in Rows(t) /\ a.list[a.pos] \in Line(t)
  BY CurrentInRows
<1>2. a.pool \in Pools(t) /\ a.list \in Lists(t) /\ a.pos \in 1 .. Len(a.list)
  BY DEF Area, Fields
<1>3. CASE ~u /\ r \in DOMAIN a.pool
  <2>1. c = [a EXCEPT !.buf = a.pool[r]]
    BY <1>3 DEF updateRecordBuffer
  <2>2. a.pool[r] \in Contents /\ (Simple => a.pool[r] = t.row[r])
    BY <1>2, <1>3 DEF Pools
  <2> HIDE DEF c, r
  <2>3. /\ c \in Area(t, x) /\ c.eof = a.eof
        /\ c.list = a.list /\ c.pos = a.pos /\ c.buf = a.pool[r]
    BY <2>1, <2>2 DEF Area, Fields
  <2> QED
    BY <2>2, <2>3 DEF Stored, Current, r, c
<1>4. CASE ~(~u /\ r \in DOMAIN a.pool)
  <2> DEFINE read == Page(t, a)
             kept == RoomInPool(a)
             p == [y \in DOMAIN kept \cup read |-> IF y \in read THEN t.row[y] ELSE kept[y]]
             q == [a.list EXCEPT ![a.pos] = [a.list[a.pos] EXCEPT !.del = r \in t.marked]]
  <2>1. read \in SUBSET Rows(t) /\ r \in read /\ Cardinality(read) <= PageReadSize
    BY PageRecords
  <2>2. kept \in Pools(t) /\ Cardinality(DOMAIN kept) <= PoolSize
    BY RoomForAPage
  <2>3. c = PageRead(t, a, read, kept)
    BY <1>4 DEF updateRecordBuffer
  <2> HIDE DEF read, kept
  <2>4. p \in Pools(t)
    BY <2>1, <2>2, PageInPool
  <2>5. (r \in t.marked) \in BOOLEAN
    OBVIOUS
  <2>6. /\ q \in Lists(t) /\ Len(q) = Len(a.list)
        /\ \A j \in 1 .. Len(a.list) : q[j].rec = a.list[j].rec
    <3> DEFINE m == r \in t.marked
    <3>1. m \in BOOLEAN
      OBVIOUS
    <3> HIDE DEF m
    <3>2. LET p0 == [a.list EXCEPT ![a.pos] = [a.list[a.pos] EXCEPT !.del = m]]
          IN  /\ p0 \in Lists(t) /\ Len(p0) = Len(a.list)
              /\ \A j \in 1 .. Len(a.list) : p0[j].rec = a.list[j].rec
      BY <1>2, <3>1, FlagInList
    <3> QED
      BY <3>2 DEF m
  <2>7. c = [a EXCEPT !.pool = p, !.buf = t.row[r], !.list = q]
    BY <2>1, <2>3 DEF PageRead, Area, Fields
  <2>8. t.row[r] \in Contents
    BY <1>1 DEF IsTable
  <2> HIDE DEF c, r, p, q
  <2>9. /\ c \in Area(t, x) /\ c.eof = a.eof
        /\ c.list = q /\ c.pos = a.pos /\ c.buf = t.row[r]
    BY <1>2, <2>4, <2>6, <2>7, <2>8 DEF Area, Fields
  <2>10. Current(c) = r
    BY <1>2, <2>6, <2>9 DEF Current, r
  <2> QED
    BY <2>9, <2>10 DEF Stored, c
<1> QED
  BY <1>3, <1>4

(* sqlGetCleanBuffer: the area is at EOF.                                    *)
LEMMA BufferIsClean ==
    ASSUME NEW t, NEW x, IsFrame(x), NEW a \in Area(t, x)
    PROVE  LET c == sqlGetCleanBuffer(a) IN c \in Shown(t, x) /\ c.eof /\ c.lastRec = a.rcount + 1
<1>1. a.rcount + 1 \in Nat
  BY DEF Area, Fields, IsFrame
<1>2. Blank \in Contents
  BY DEF Blank, Contents
<1> DEFINE c == sqlGetCleanBuffer(a)
<1>3. c = [a EXCEPT !.buf = Blank, !.lastRec = a.rcount + 1, !.eof = TRUE]
  BY DEF sqlGetCleanBuffer
<1> HIDE DEF c
<1>4. c \in Area(t, x) /\ c.eof /\ c.lastRec = a.rcount + 1
  BY <1>1, <1>2, <1>3 DEF Area, Fields
<1> QED
  BY <1>4 DEF Shown, c

(* A flag, the direction or the result leaves the contents with the record.  *)
LEMMA BofSet ==
    ASSUME NEW t, NEW x, NEW a \in Area(t, x), NEW b \in BOOLEAN
    PROVE  LET c == [a EXCEPT !.bof = b]
           IN  c \in Area(t, x) /\ (Stored(t, a) => Stored(t, c)) /\ c.eof = a.eof
<1> DEFINE c == [a EXCEPT !.bof = b]
<1>2. c \in Area(t, x) /\ c.list = a.list /\ c.pos = a.pos /\ c.buf = a.buf /\ c.eof = a.eof
  BY DEF Area, Fields
<1> HIDE DEF c
<1>3. Stored(t, a) => Stored(t, c)
  BY <1>2 DEF Stored, Current
<1> QED
  BY <1>2, <1>3 DEF c

(* The same for both flags.                                                  *)
LEMMA FlagsSet ==
    ASSUME NEW t, NEW x, NEW a \in Area(t, x), NEW e \in BOOLEAN, NEW b \in BOOLEAN
    PROVE  LET c == [a EXCEPT !.eof = e, !.bof = b]
           IN  c \in Area(t, x) /\ (Stored(t, a) => Stored(t, c)) /\ c.eof = e
<1> DEFINE c == [a EXCEPT !.eof = e, !.bof = b]
<1>2. c \in Area(t, x) /\ c.list = a.list /\ c.pos = a.pos /\ c.buf = a.buf /\ c.eof = e
  BY ZenonT(40) DEF Area, Fields
<1> HIDE DEF c
<1>3. Stored(t, a) => Stored(t, c)
  BY <1>2 DEF Stored, Current
<1> QED
  BY <1>2, <1>3 DEF c

(* The direction of a skip.                                                  *)
LEMMA DirSet ==
    ASSUME NEW t, NEW x, NEW a \in Area(t, x), NEW d \in {1, -1}
    PROVE  LET c == [a EXCEPT !.dir = d]
           IN  c \in Area(t, x) /\ (Stored(t, a) => Stored(t, c)) /\ c.eof = a.eof
<1> DEFINE c == [a EXCEPT !.dir = d]
<1>2. c \in Area(t, x) /\ c.list = a.list /\ c.pos = a.pos /\ c.buf = a.buf /\ c.eof = a.eof
  BY DEF Area, Fields
<1> HIDE DEF c
<1>3. Stored(t, a) => Stored(t, c)
  BY <1>2 DEF Stored, Current
<1> QED
  BY <1>2, <1>3 DEF c

(* The result of a statement.                                                *)
LEMMA ResSet ==
    ASSUME NEW t, NEW x, NEW a \in Area(t, x), NEW v \in Results
    PROVE  LET c == [a EXCEPT !.res = v]
           IN  c \in Area(t, x) /\ (Stored(t, a) => Stored(t, c)) /\ c.eof = a.eof
<1> DEFINE c == [a EXCEPT !.res = v]
<1>2. c \in Area(t, x) /\ c.list = a.list /\ c.pos = a.pos /\ c.buf = a.buf /\ c.eof = a.eof
  BY DEF Area, Fields
<1> HIDE DEF c
<1>3. Stored(t, a) => Stored(t, c)
  BY <1>2 DEF Stored, Current
<1> QED
  BY <1>2, <1>3 DEF c

(* The first record is marked.                                               *)
LEMMA FirstMarkedBof ==
    ASSUME NEW t, NEW x, NEW a \in Area(t, x)
    PROVE  LET c == AtFirst(a)
           IN  c \in Area(t, x) /\ (Stored(t, a) => Stored(t, c)) /\ c.eof = a.eof
<1> DEFINE c == AtFirst(a)
<1>1. Current(a) \in Marks(t)
  BY CurrentInRows DEF Marks
<1>2. c \in Area(t, x) /\ c.list = a.list /\ c.pos = a.pos /\ c.buf = a.buf /\ c.eof = a.eof
  BY <1>1 DEF Area, Fields, AtFirst
<1> HIDE DEF c
<1>3. Stored(t, a) => Stored(t, c)
  BY <1>2 DEF Stored, Current
<1> QED
  BY <1>2, <1>3 DEF c

(* The ends are marked.                                                      *)
LEMMA EndsMarked ==
    ASSUME NEW t, NEW x, NEW a \in Area(t, x)
    PROVE  OnFirst(a) \in Area(t, x) /\ OnLast(a) \in Area(t, x)
<1>1. Current(a) \in Marks(t)
  BY CurrentInRows DEF Marks
<1>2. OnFirst(a) \in Area(t, x)
  BY <1>1 DEF OnFirst, Area, Fields
<1>3. OnLast(a) \in Area(t, x)
  BY <1>1 DEF OnLast, Area, Fields
<1> QED
  BY <1>2, <1>3

-----------------------------------------------------------------------------
(* The moves.                                                                *)

(* getRecordList, whatever the list was before.                              *)
LEMMA ListIsRead ==
    ASSUME NEW t, IsTable(t), NEW x, IsFrame(x), NEW Q, NEW a \in Fields(t, x, Q), NEW d \in {1, -1}
    PROVE  getRecordList(t, a, d) \in Area(t, x)
<1> DEFINE s == SR_getOrderByExpression(t, a.order, d, Rows(t))
           q == AtMost(s, TopSize)
           c == getRecordList(t, a, d)
           eofAt == IF d = 1 /\ Len(q) < TopSize THEN q[Len(q)] ELSE a.eofAt
           bofAt == IF d = -1 /\ Len(q) < TopSize THEN q[Len(q)] ELSE a.bofAt
<1>1. a.order \in 0 .. 1 /\ a.eofAt \in Marks(t) /\ a.bofAt \in Marks(t)
  BY DEF Fields, IsFrame
<1>2. s \in Seq(Rows(t)) /\ Len(s) = Cardinality(Rows(t))
  BY <1>1, OrderedRows
<1>3. Len(s) # 0
  <2>1. IsFiniteSet(Rows(t)) /\ Rows(t) # {}
    BY RowsFinite DEF IsTable
  <2> QED
    BY <1>2, <2>1, FS_EmptySet
<1> HIDE DEF s
<1>4. q \in Seq(Rows(t)) /\ Len(q) \in 1 .. ListSize
  BY <1>2, <1>3, Sizes, FirstRowsOf
<1>5. c = ListFromEnd(t, a, d, q)
  BY DEF getRecordList, s
<1> HIDE DEF q
<1>6. ListOf(t, q) \in Lists(t) /\ Len(ListOf(t, q)) = Len(q) /\ q[Len(q)] \in Rows(t)
  BY <1>4, RowsMakeAList
<1>7. eofAt \in Marks(t) /\ bofAt \in Marks(t)
  BY <1>1, <1>6 DEF Marks
<1>8. c = [a EXCEPT !.dir = d, !.cond = FALSE, !.pos = 1, !.list = ListOf(t, q),
                    !.eofAt = eofAt, !.bofAt = bofAt]
  BY <1>5 DEF ListFromEnd, Fields
<1> HIDE DEF c, eofAt, bofAt
<1>9. c \in Fields(t, x, Lists(t)) /\ c.pos = 1 /\ c.list = ListOf(t, q)
  BY <1>6, <1>7, <1>8 DEF Fields
<1>10. c \in Area(t, x)
  BY <1>4, <1>6, <1>9, Sizes DEF Area
<1> QED
  BY <1>10 DEF c

(* GO TO a record of the table shows it; GO TO 0 goes to EOF.                *)
LEMMA GoToShows ==
    ASSUME NEW t, IsTable(t), NEW x, IsFrame(x), NEW a \in Area(t, x), NEW r \in Marks(t)
    PROVE  sqlExGoTo(t, a, r) \in Shown(t, x)
<1> DEFINE at == {i \in 1 .. Len(a.list) :
                    /\ a.list[i].rec = r
                    /\ r \in DOMAIN a.pool \/ Page(t, [a EXCEPT !.pos = i]) # {}}
           on(b) == [b EXCEPT !.eof = FALSE, !.bof = FALSE]
           one == [a EXCEPT !.list = <<[a.list[1] EXCEPT !.rec = r]>>, !.dir = 1, !.pos = 1]
<1>1. a.list \in Lists(t) /\ a.pos \in 1 .. Len(a.list) /\ Len(a.list) \in 1 .. ListSize
  BY DEF Area, Fields, Lists
<1>2. ASSUME NEW b \in Area(t, x), NEW u \in BOOLEAN
      PROVE  on(updateRecordBuffer(t, b, u)) \in Shown(t, x)
  <2> DEFINE c == updateRecordBuffer(t, b, u)
  <2>1. c \in Area(t, x) /\ Stored(t, c)
    BY <1>2, BufferIsRead
  <2> HIDE DEF c
  <2>2. on(c) \in Area(t, x) /\ Stored(t, on(c))
    BY <2>1, FlagsSet
  <2> QED
    BY <2>2 DEF Shown, c
<1>3. CASE r = 0
  <2> DEFINE c == sqlGetCleanBuffer(a)
  <2>1. c \in Area(t, x) /\ c.eof
    BY BufferIsClean DEF Shown
  <2>2. sqlExGoTo(t, a, r) = [c EXCEPT !.bof = TRUE]
    BY <1>3 DEF sqlExGoTo
  <2> HIDE DEF c
  <2>3. [c EXCEPT !.bof = TRUE] \in Area(t, x) /\ [c EXCEPT !.bof = TRUE].eof
    BY <2>1, BofSet
  <2> QED
    BY <2>2, <2>3 DEF Shown
<1>4. CASE r # 0 /\ at # {}
  <2> DEFINE b == [a EXCEPT !.pos = Min(at)]
  <2>1. at \in SUBSET (1 .. Len(a.list))
    OBVIOUS
  <2>2. sqlExGoTo(t, a, r) = on(updateRecordBuffer(t, b, FALSE))
    BY <1>4 DEF sqlExGoTo
  <2> HIDE DEF at, on
  <2>3. at \in SUBSET Nat /\ Len(a.list) \in Nat
    BY <1>1, <2>1
  <2>4. \E m \in at : \A n \in at : m <= n
    BY <1>4, <2>3, LeastElement
  <2>5. Min(at) \in at
    BY <2>4 DEF Min
  <2>6. Min(at) \in 1 .. Len(a.list) /\ Min(at) \in Nat
    BY <2>1, <2>3, <2>5
  <2>7. b \in Area(t, x)
    BY <2>6 DEF Area, Fields
  <2> QED
    BY <1>2, <2>2, <2>7
<1>5. CASE r # 0 /\ at = {}
  <2>1. r \in Rows(t)
    BY <1>5 DEF Marks
  <2>2. sqlExGoTo(t, a, r) = on(updateRecordBuffer(t, one, TRUE))
    BY <1>5, <2>1 DEF sqlExGoTo
  <2> DEFINE q == <<[a.list[1] EXCEPT !.rec = r]>>
  <2>3. a.list[1] \in Line(t)
    BY <1>1, Sizes DEF Lists
  <2>4. [a.list[1] EXCEPT !.rec = r] \in Line(t)
    BY <2>1, <2>3 DEF Line
  <2>5. q \in Lists(t) /\ Len(q) = 1
    BY <2>4, Sizes DEF Lists
  <2> HIDE DEF q, on, at
  <2>6. one = [a EXCEPT !.list = q, !.dir = 1, !.pos = 1]
    BY DEF q
  <2> HIDE DEF one
  <2>7. one \in Fields(t, x, Lists(t)) /\ one.list = q /\ one.pos = 1
    BY <2>5, <2>6 DEF Area, Fields
  <2>8. one \in Area(t, x)
    <3>1. 1 \in 1 .. Len(q)
      BY <2>5
    <3> QED
      BY <2>7, <3>1, Zenon DEF Area
  <2> QED
    BY <1>2, <2>2, <2>8
<1> QED
  BY <1>3, <1>4, <1>5

(* GO TOP and GO BOTTOM before their filters.                                *)
LEMMA EndsAreRead ==
    ASSUME NEW t, IsTable(t), NEW x, IsFrame(x), NEW a \in Area(t, x)
    PROVE  FirstRecord(t, a) \in OnRecord(t, x) /\ LastRecord(t, a) \in OnRecord(t, x)
<1>1. a.bofAt \in Marks(t) /\ a.eofAt \in Marks(t) /\ a \in Fields(t, x, Lists(t))
  BY DEF Area, Fields
<1>2. sqlExGoTo(t, a, a.bofAt) \in Area(t, x) /\ sqlExGoTo(t, a, a.eofAt) \in Area(t, x)
  BY <1>1, GoToShows DEF Shown
<1>3. getRecordList(t, a, 1) \in Area(t, x) /\ getRecordList(t, a, -1) \in Area(t, x)
  BY <1>1, ListIsRead
<1>4. ASSUME NEW b \in Area(t, x)
      PROVE  /\ updateRecordBuffer(t, OnFirst(b), FALSE) \in OnRecord(t, x)
             /\ updateRecordBuffer(t, OnLast(b), FALSE) \in OnRecord(t, x)
  <2>1. OnFirst(b) \in Area(t, x) /\ OnLast(b) \in Area(t, x)
    BY <1>4, EndsMarked
  <2> QED
    BY <2>1, BufferIsRead DEF OnRecord
<1> QED
  BY <1>2, <1>3, <1>4 DEF FirstRecord, LastRecord

(* A skip off the list: a new list, or the old one.                          *)
LEMMA SkipReads ==
    ASSUME NEW t, IsTable(t), NEW x, IsFrame(x), NEW a \in Area(t, x), NEW d \in {1, -1}
    PROVE  LET c == SkipOffList(t, a, d)
           IN  c \in Area(t, x) /\ (c.res # "ok" /\ Stored(t, a) => Stored(t, c))
<1>1. LET b == [a EXCEPT !.dir = d]
      IN  b \in Area(t, x) /\ (Stored(t, a) => Stored(t, b))
  BY DirSet
<1>2. ASSUME NEW b \in Area(t, x)
      PROVE  LET c == CreateSkipStmt(b)
             IN  c \in Area(t, x) /\ (Stored(t, b) => Stored(t, c))
  <2>1. CASE b.changed \/ b.cond \/ b.prepared # b.dir
    <3> DEFINE c == CreateSkipStmt(b)
    <3>1. c = [b EXCEPT !.bofAt = 0, !.eofAt = 0, !.changed = FALSE, !.cond = FALSE,
                        !.prepared = b.dir]
      BY <2>1 DEF CreateSkipStmt
    <3>2. 0 \in Marks(t) /\ b.dir \in {1, -1}
      BY DEF Marks, Area, Fields
    <3> HIDE DEF c
    <3>3. c \in Area(t, x) /\ c.list = b.list /\ c.pos = b.pos /\ c.buf = b.buf
      BY <3>1, <3>2, ZenonT(40) DEF Area, Fields
    <3>4. Stored(t, b) => Stored(t, c)
      BY <3>3 DEF Stored, Current
    <3> QED
      BY <3>3, <3>4 DEF c
  <2>2. CASE ~(b.changed \/ b.cond \/ b.prepared # b.dir)
    BY <2>2 DEF CreateSkipStmt
  <2> QED
    BY <2>1, <2>2
<1>3. ASSUME NEW b \in Area(t, x), NEW new \in Seq(Rows(t)), Len(new) <= ListSize
      PROVE  LET c == NewList(t, b, new)
             IN  c \in Area(t, x) /\ (c.res # "ok" /\ Stored(t, b) => Stored(t, c))
  <2> DEFINE c == NewList(t, b, new)
             mark == IF new = <<>> THEN Current(b) ELSE new[Len(new)]
             ended == Len(new) < ListSize /\ (b.order = 0 \/ new = <<>>)
             eofAt == IF ended /\ b.dir = 1 THEN mark ELSE b.eofAt
             bofAt == IF ended /\ b.dir = -1 THEN mark ELSE b.bofAt
             res == IF new = <<>> THEN "none" ELSE "ok"
             pos == IF new = <<>> THEN b.pos ELSE 1
             list == IF new = <<>> THEN b.list ELSE ListOf(t, new)
  <2>1. b.eofAt \in Marks(t) /\ b.bofAt \in Marks(t) /\ b.pos \in 1 .. Len(b.list) /\ b.list \in Lists(t)
    BY DEF Area, Fields
  <2>2. new # <<>> => Len(new) \in 1 .. ListSize
    BY <1>3, Sizes
  <2>3. new # <<>> => /\ ListOf(t, new) \in Lists(t) /\ Len(ListOf(t, new)) = Len(new)
                      /\ new[Len(new)] \in Rows(t)
    BY <2>2, RowsMakeAList
  <2>4. mark \in Rows(t)
    BY <2>3, CurrentInRows
  <2> HIDE DEF mark, ended
  <2>5. eofAt \in Marks(t) /\ bofAt \in Marks(t)
    BY <2>1, <2>4 DEF Marks
  <2>6. list \in Lists(t) /\ pos \in 1 .. Len(list) /\ pos \in Nat
    BY <2>1, <2>2, <2>3
  <2>7. res \in Results
    BY DEF Results
  <2>8. c = [b EXCEPT !.eofAt = eofAt, !.bofAt = bofAt, !.res = res, !.pos = pos, !.list = list]
    BY DEF NewList, Area, Fields, mark, ended
  <2>9. (res # "ok") => list = b.list /\ pos = b.pos
    OBVIOUS
  <2> HIDE DEF c, eofAt, bofAt, res, pos, list
  <2>10. c \in Area(t, x) /\ c.list = list /\ c.pos = pos /\ c.buf = b.buf /\ c.res = res
    BY <2>5, <2>6, <2>7, <2>8 DEF Area, Fields
  <2>11. c.res # "ok" /\ Stored(t, b) => Stored(t, c)
    BY <2>9, <2>10 DEF Stored, Current
  <2> QED
    BY <2>10, <2>11 DEF c
<1>4. ASSUME NEW b \in Area(t, x)
      PROVE  LET c == getPreparedRecordList(t, b)
             IN  c \in Area(t, x) /\ (c.res # "ok" /\ Stored(t, b) => Stored(t, c))
  <2> DEFINE q == SkipRows(t, b)
             new == AtMost(Following(q, b.cur), ListSize)
  <2>1. q \in Seq(Rows(t))
    BY SkipRowsOf
  <2>2. getPreparedRecordList(t, b) = ListAfter(t, b, q)
    BY DEF getPreparedRecordList
  <2> HIDE DEF q
  <2>3. CASE \A i \in 1 .. Len(q) : q[i] # b.cur
    <3>1. getPreparedRecordList(t, b) = [b EXCEPT !.res = "retry"]
      BY <2>2, <2>3 DEF ListAfter
    <3>2. "retry" \in Results
      BY DEF Results
    <3> QED
      BY <3>1, <3>2, ResSet
  <2>4. CASE ~\A i \in 1 .. Len(q) : q[i] # b.cur
    <3>1. getPreparedRecordList(t, b) = NewList(t, b, new)
      BY <2>2, <2>4 DEF ListAfter
    <3>2. Following(q, b.cur) \in Seq(Rows(t))
      BY <2>1, FollowingRows
    <3>3. new \in Seq(Rows(t)) /\ Len(new) <= ListSize
      BY <3>2, Sizes, FirstRowsOf
    <3> HIDE DEF new
    <3> QED
      BY <1>3, <3>1, <3>3
  <2> QED
    BY <2>3, <2>4
<1> QED
  BY <1>1, <1>2, <1>4 DEF SkipOffList

(* A raw skip forward shows a record or goes to EOF.                         *)
LEMMA RawForwardShows ==
    ASSUME NEW t, IsTable(t), NEW x, IsFrame(x), NEW a \in Area(t, x)
    PROVE  SkipRawForward(t, a) \in Shown(t, x)
<1> DEFINE to == a.pos + 1 * a.dir
           s == SkipOffList(t, a, 1)
<1>1. CASE OnCache(a, 1) /\ to \in 1 .. Len(a.list)
  <2> DEFINE b == [a EXCEPT !.pos = to]
  <2>1. SkipRawForward(t, a) = updateRecordBuffer(t, b, FALSE)
    BY <1>1 DEF SkipRawForward, trySkippingOnCache
  <2> HIDE DEF to
  <2>2. to \in Nat
    <3>1. Len(a.list) \in Nat
      BY DEF Area, Fields, Lists
    <3> QED
      BY <1>1, <3>1
  <2>3. b \in Area(t, x)
    BY <1>1, <2>2 DEF Area, Fields
  <2> HIDE DEF b
  <2> QED
    BY <2>1, <2>3, BufferIsRead DEF Shown
<1>2. CASE OnCache(a, 1) /\ ~(to \in 1 .. Len(a.list))
  <2>1. SkipRawForward(t, a) = sqlGetCleanBuffer(a)
    BY <1>2 DEF SkipRawForward, trySkippingOnCache
  <2> QED
    BY <2>1, BufferIsClean
<1>3. CASE ~OnCache(a, 1)
  <2>1. SkipRawForward(t, a) = ReadForward(t, s)
    BY <1>3 DEF SkipRawForward
  <2>2. s \in Area(t, x)
    BY SkipReads
  <2> HIDE DEF s
  <2>3. updateRecordBuffer(t, s, FALSE) \in Shown(t, x)
    BY <2>2, BufferIsRead DEF Shown
  <2>4. sqlGetCleanBuffer(s) \in Shown(t, x)
    BY <2>2, BufferIsClean
  <2> QED
    BY <2>1, <2>3, <2>4 DEF ReadForward
<1> QED
  BY <1>1, <1>2, <1>3

(* The filters keep to the areas that are Shown, and to the ones OnRecord:   *)
(* when these are not all areas, no record is passed.                        *)
LEMMA NoFilter ==
    ASSUME NEW t, NEW x, NEW S \in {Shown(t, x), OnRecord(t, x)}
    PROVE  /\ S \in SUBSET Area(t, x) /\ OnRecord(t, x) \in SUBSET Shown(t, x)
           /\ SetDeleted => S = Area(t, x)
<1>1. SetDeleted => ~Simple
  BY DEF Simple
<1> QED
  BY <1>1 DEF Shown, OnRecord, Stored

(* A filter that does not end is noted.                                      *)
LEMMA PassedStays ==
    ASSUME NEW t, NEW x, NEW S \in {Shown(t, x), OnRecord(t, x)}, NEW a \in S
    PROVE  Passed(a) \in S
<1>1. CASE ~SetDeleted
  BY <1>1 DEF Passed, Passing
<1>2. CASE SetDeleted
  <2>1. S = Area(t, x)
    BY <1>2, NoFilter
  <2>2. "endless" \in Results
    BY DEF Results
  <2>3. [a EXCEPT !.res = "endless"] \in Area(t, x)
    BY <2>1, <2>2, ResSet
  <2> QED
    BY <2>1, <2>3 DEF Passed
<1> QED
  BY <1>1, <1>2

(* The filter forward.                                                       *)
LEMMA PassForwardStays ==
    ASSUME NEW t, IsTable(t), NEW x, IsFrame(x), NEW S \in {Shown(t, x), OnRecord(t, x)},
           NEW a \in S
    PROVE  PassForward(t, a) \in S
<1> DEFINE Turn(b) == IF Passing(b) THEN SkipRawForward(t, b) ELSE b
           Body == [k \in 1 .. Depth |-> [b \in S |-> Turn(b)]]
           round == CHOOSE g : g = [k \in 0 .. Depth |-> IF k = 0 THEN a ELSE Turn(g[k - 1])]
<1>0. Depth \in Nat
  BY Sizes DEF Depth
<1>1. \A b \in S : Turn(b) \in S
  <2> TAKE b \in S
  <2>1. CASE ~Passing(b)
    BY <2>1
  <2>2. CASE Passing(b)
    <3>1. S = Area(t, x) /\ SetDeleted
      BY <2>2, NoFilter DEF Passing
    <3>2. SkipRawForward(t, b) \in S
      BY <3>1, RawForwardShows DEF Shown
    <3> QED
      BY <2>2, <3>2
  <2> QED
    BY <2>1, <2>2
<1>9. PassForward(t, a) = Passed(round[Depth])
  BY DEF PassForward, Turn
<1> HIDE DEF Turn
<1>2. Body \in [1 .. Depth -> [S -> S]]
  BY <1>1
<1>3. PICK g \in [0 .. Depth -> S] : g[0] = a /\ \A k \in 1 .. Depth : g[k] = Body[k][g[k - 1]]
  <2>1. Loops(S, Depth, a, Body) # {}
    <3> HIDE DEF Body
    <3> QED
      BY <1>0, <1>2, LoopExists
  <2> HIDE DEF Body
  <2> QED
    BY <2>1 DEF Loops
<1>4. g = [k \in 0 .. Depth |-> IF k = 0 THEN a ELSE Turn(g[k - 1])]
  <2>1. ASSUME NEW k \in 0 .. Depth PROVE g[k] = IF k = 0 THEN a ELSE Turn(g[k - 1])
    <3>1. CASE k = 0
      BY <1>3, <3>1
    <3>2. CASE k # 0
      <4>1. k \in 1 .. Depth /\ k - 1 \in 0 .. Depth
        BY <1>0, <3>2
      <4>2. g[k - 1] \in S /\ g[k] = Body[k][g[k - 1]]
        BY <1>3, <4>1
      <4> QED
        BY <3>2, <4>1, <4>2
    <3> QED
      BY <3>1, <3>2
  <2> QED
    BY <1>3, <2>1
<1>5. round = [k \in 0 .. Depth |-> IF k = 0 THEN a ELSE Turn(round[k - 1])]
  BY <1>4
<1> HIDE DEF round
<1>6. round[0] = a /\ \A k \in 1 .. Depth : round[k] = Turn(round[k - 1])
  BY <1>0, <1>5
<1>7. \A k \in 0 .. Depth : round[k] \in S
  <2>1. round[0] \in S /\ \A k \in 1 .. Depth : round[k - 1] \in S => round[k] \in S
    BY <1>1, <1>6
  <2> QED
    BY <1>0, <2>1, LoopStays
<1>8. round[Depth] \in S
  BY <1>0, <1>7
<1> QED
  BY <1>8, <1>9, PassedStays

(* GO TOP.                                                                   *)
LEMMA GoTopShows ==
    ASSUME NEW t, IsTable(t), NEW x, IsFrame(x), NEW a \in Area(t, x)
    PROVE  sqlExGoTop(t, a) \in OnRecord(t, x)
BY EndsAreRead, PassForwardStays DEF sqlExGoTop

(* A raw skip back from the phantom record, or from a record whose contents  *)
(* are in aBuffer.                                                           *)
LEMMA RawBackwardShows ==
    ASSUME NEW t, IsTable(t), NEW x, IsFrame(x), NEW a \in Area(t, x),
           a.cur = a.lastRec \/ Stored(t, a)
    PROVE  SkipRawBackward(t, a) \in OnRecord(t, x)
<1> DEFINE to == a.pos + (-1) * a.dir
           s == SkipOffList(t, a, -1)
<1>1. CASE a.cur = a.lastRec
  <2>1. SkipRawBackward(t, a) = Passed(LastRecord(t, a))
    BY <1>1 DEF SkipRawBackward, RawToBottom
  <2>2. LastRecord(t, a) \in OnRecord(t, x)
    BY EndsAreRead
  <2> QED
    BY <2>1, <2>2, PassedStays
<1>2. CASE a.cur # a.lastRec /\ OnCache(a, -1) /\ to \in 1 .. Len(a.list)
  <2> DEFINE b == [a EXCEPT !.pos = to]
  <2>1. SkipRawBackward(t, a) = updateRecordBuffer(t, b, FALSE)
    BY <1>2 DEF SkipRawBackward, trySkippingOnCache
  <2> HIDE DEF to
  <2>2. to \in Nat
    <3>1. Len(a.list) \in Nat
      BY DEF Area, Fields, Lists
    <3> QED
      BY <1>2, <3>1
  <2>3. b \in Area(t, x)
    BY <1>2, <2>2 DEF Area, Fields
  <2> HIDE DEF b
  <2> QED
    BY <2>1, <2>3, BufferIsRead DEF OnRecord
<1>3. CASE a.cur # a.lastRec /\ OnCache(a, -1) /\ ~(to \in 1 .. Len(a.list))
  <2>1. SkipRawBackward(t, a) = [a EXCEPT !.bof = TRUE]
    <3>1. -1 # 1
      OBVIOUS
    <3>2. SkipRawBackward(t, a) = trySkippingOnCache(t, a, -1)
      BY <1>3 DEF SkipRawBackward
    <3> QED
      BY <1>3, <3>1, <3>2 DEF trySkippingOnCache
  <2>2. LET c == [a EXCEPT !.bof = TRUE] IN c \in Area(t, x) /\ Stored(t, c)
    BY <1>3, BofSet
  <2> QED
    BY <2>1, <2>2 DEF OnRecord
<1>4. CASE a.cur # a.lastRec /\ ~OnCache(a, -1)
  <2>1. SkipRawBackward(t, a) = ReadBackward(t, s)
    BY <1>4 DEF SkipRawBackward
  <2>2. s \in Area(t, x) /\ (s.res # "ok" => Stored(t, s))
    BY <1>4, SkipReads
  <2> HIDE DEF s
  <2>3. CASE s.res = "ok"
    <3>1. updateRecordBuffer(t, s, FALSE) \in OnRecord(t, x)
      BY <2>2, BufferIsRead DEF OnRecord
    <3> QED
      BY <2>1, <2>3, <3>1 DEF ReadBackward
  <2>4. CASE s.res # "ok"
    <3> DEFINE b == IF s.res = "retry" THEN sqlExGoTop(t, s) ELSE s
    <3>1. b \in OnRecord(t, x)
      BY <2>2, <2>4, GoTopShows DEF OnRecord
    <3>2. ReadBackward(t, s) = AtFirst(b)
      BY <2>4 DEF ReadBackward
    <3> HIDE DEF b
    <3>3. AtFirst(b) \in Area(t, x) /\ (Stored(t, b) => Stored(t, AtFirst(b)))
      BY <3>1, FirstMarkedBof DEF OnRecord
    <3> QED
      BY <2>1, <3>1, <3>2, <3>3 DEF OnRecord
  <2> QED
    BY <2>3, <2>4
<1> QED
  BY <1>1, <1>2, <1>3, <1>4

(* The filter back.                                                          *)
LEMMA PassBackwardStays ==
    ASSUME NEW t, IsTable(t), NEW x, IsFrame(x), NEW S \in {Shown(t, x), OnRecord(t, x)},
           NEW a \in S
    PROVE  PassBackward(t, a) \in S
<1> DEFINE Turn(b) == IF Passing(b) THEN SkipRawBackward(t, b) ELSE b
           Body == [k \in 1 .. Depth |-> [b \in S |-> Turn(b)]]
           round == CHOOSE g : g = [k \in 0 .. Depth |-> IF k = 0 THEN a ELSE Turn(g[k - 1])]
<1>0. Depth \in Nat
  BY Sizes DEF Depth
<1>1. \A b \in S : Turn(b) \in S
  <2> TAKE b \in S
  <2>1. CASE ~Passing(b)
    BY <2>1
  <2>2. CASE Passing(b)
    <3>1. S = Area(t, x) /\ SetDeleted
      BY <2>2, NoFilter DEF Passing
    <3>2. Stored(t, b)
      BY <3>1 DEF Stored, Simple
    <3>3. SkipRawBackward(t, b) \in S
      BY <3>1, <3>2, RawBackwardShows DEF OnRecord
    <3> QED
      BY <2>2, <3>3
  <2> QED
    BY <2>1, <2>2
<1>9. PassBackward(t, a) = Passed(round[Depth])
  BY DEF PassBackward, Turn
<1> HIDE DEF Turn
<1>2. Body \in [1 .. Depth -> [S -> S]]
  BY <1>1
<1>3. PICK g \in [0 .. Depth -> S] : g[0] = a /\ \A k \in 1 .. Depth : g[k] = Body[k][g[k - 1]]
  <2>1. Loops(S, Depth, a, Body) # {}
    <3> HIDE DEF Body
    <3> QED
      BY <1>0, <1>2, LoopExists
  <2> HIDE DEF Body
  <2> QED
    BY <2>1 DEF Loops
<1>4. g = [k \in 0 .. Depth |-> IF k = 0 THEN a ELSE Turn(g[k - 1])]
  <2>1. ASSUME NEW k \in 0 .. Depth PROVE g[k] = IF k = 0 THEN a ELSE Turn(g[k - 1])
    <3>1. CASE k = 0
      BY <1>3, <3>1
    <3>2. CASE k # 0
      <4>1. k \in 1 .. Depth /\ k - 1 \in 0 .. Depth
        BY <1>0, <3>2
      <4>2. g[k - 1] \in S /\ g[k] = Body[k][g[k - 1]]
        BY <1>3, <4>1
      <4> QED
        BY <3>2, <4>1, <4>2
    <3> QED
      BY <3>1, <3>2
  <2> QED
    BY <1>3, <2>1
<1>5. round = [k \in 0 .. Depth |-> IF k = 0 THEN a ELSE Turn(round[k - 1])]
  BY <1>4
<1> HIDE DEF round
<1>6. round[0] = a /\ \A k \in 1 .. Depth : round[k] = Turn(round[k - 1])
  BY <1>0, <1>5
<1>7. \A k \in 0 .. Depth : round[k] \in S
  <2>1. round[0] \in S /\ \A k \in 1 .. Depth : round[k - 1] \in S => round[k] \in S
    BY <1>1, <1>6
  <2> QED
    BY <1>0, <2>1, LoopStays
<1>8. round[Depth] \in S
  BY <1>0, <1>7
<1> QED
  BY <1>8, <1>9, PassedStays

(* Its end at BOF, and the filters in both directions.                       *)
LEMMA FiltersStay ==
    ASSUME NEW t, IsTable(t), NEW x, IsFrame(x), NEW S \in {Shown(t, x), OnRecord(t, x)},
           NEW a \in S
    PROVE  /\ SkipFilterBackward(t, a) \in S
           /\ \A d \in {1, -1} : sqlExSkipFilter(t, a, d) \in S
<1>1. ASSUME NEW b \in S, NEW bottom PROVE FilteredBack(t, b, bottom) \in S
  <2>1. CASE ~SetDeleted
    BY <2>1 DEF FilteredBack
  <2>2. CASE SetDeleted
    <3>1. S = Area(t, x) /\ 0 \in Marks(t)
      BY <2>2, NoFilter DEF Marks
    <3>2. sqlExGoTo(t, b, 0) \in Area(t, x)
      BY <3>1, GoToShows DEF Shown
    <3>3. sqlExGoTop(t, b) \in Area(t, x)
      BY <3>1, GoTopShows DEF OnRecord
    <3>4. [sqlExGoTop(t, b) EXCEPT !.bof = TRUE] \in Area(t, x)
      BY <3>3, BofSet
    <3> QED
      BY <1>1, <3>1, <3>2, <3>4 DEF FilteredBack
  <2> QED
    BY <2>1, <2>2
<1>2. SkipFilterBackward(t, a) \in S
  BY <1>1, PassBackwardStays DEF SkipFilterBackward
<1> QED
  BY <1>2, PassForwardStays DEF sqlExSkipFilter

(* GO BOTTOM.                                                                *)
LEMMA GoBottomShows ==
    ASSUME NEW t, IsTable(t), NEW x, IsFrame(x), NEW a \in Area(t, x)
    PROVE  sqlExGoBottom(t, a) \in OnRecord(t, x)
<1>1. LastRecord(t, a) \in OnRecord(t, x)
  BY EndsAreRead
<1> QED
  BY <1>1, FiltersStay DEF sqlExGoBottom

(* SKIP n: one raw skip with its filter after the other.                     *)
OneSkip(t, b, d) == sqlExSkipFilter(t, sqlExSkipRaw(t, b, d), d)

(* The loop over them, which ends at BOF and at EOF.                         *)
SkipSteps(t, a, n, d) ==
  LET step[k \in 0 .. d * n] ==
        IF k = 0 THEN a
        ELSE LET b == step[k - 1] IN IF k > 1 /\ (b.bof \/ b.eof) THEN b ELSE OneSkip(t, b, d)
  IN  step[d * n]

(* Where it ends: forward possibly at EOF.                                   *)
Skips(t, x, d) == IF d = 1 THEN Shown(t, x) ELSE OnRecord(t, x)

(* A skip reads the record it comes to.                                      *)
LEMMA OneSkipShows ==
    ASSUME NEW t, IsTable(t), NEW x, IsFrame(x), NEW a \in Area(t, x), NEW d \in {1, -1},
           a.cur = a.lastRec \/ Stored(t, a)
    PROVE  OneSkip(t, a, d) \in Skips(t, x, d)
<1>1. CASE d = 1
  <2>1. sqlExSkipRaw(t, a, d) \in Shown(t, x)
    BY <1>1, RawForwardShows DEF sqlExSkipRaw
  <2> QED
    BY <1>1, <2>1, FiltersStay DEF OneSkip, Skips
<1>2. CASE d = -1
  <2>1. sqlExSkipRaw(t, a, d) \in OnRecord(t, x)
    BY <1>2, RawBackwardShows DEF sqlExSkipRaw
  <2> QED
    BY <1>2, <2>1, FiltersStay DEF OneSkip, Skips
<1> QED
  BY <1>1, <1>2

(* And so do n of them.                                                      *)
LEMMA SkipShows ==
    ASSUME NEW t, IsTable(t), NEW x, IsFrame(x), NEW a \in Area(t, x), ~a.bof, ~a.eof,
           a.cur = a.lastRec \/ Stored(t, a),
           NEW n \in Int \ {0}, NEW d, d = IF n > 0 THEN 1 ELSE -1
    PROVE  SkipSteps(t, a, n, d) \in Skips(t, x, d)
<1> DEFINE m == d * n
           S == Skips(t, x, d) \cup {a}
           Full(k, b) == IF k > 1 /\ (b.bof \/ b.eof) THEN b ELSE OneSkip(t, b, d)
           Turn(b) == IF b.bof \/ b.eof THEN b ELSE OneSkip(t, b, d)
           Body == [k \in 1 .. m |-> [b \in S |-> Turn(b)]]
           step == CHOOSE g : g = [k \in 0 .. m |-> IF k = 0 THEN a ELSE Full(k, g[k - 1])]
<1>0. m \in Nat \ {0} /\ d \in {1, -1}
  OBVIOUS
<1>1. \A b \in S : Turn(b) \in Skips(t, x, d)
  <2> TAKE b \in S
  <2>1. CASE b.bof \/ b.eof
    BY <2>1
  <2>2. CASE ~(b.bof \/ b.eof)
    <3>1. b \in Area(t, x) /\ (b.cur = b.lastRec \/ Stored(t, b))
      BY <2>2 DEF Skips, Shown, OnRecord
    <3>2. OneSkip(t, b, d) \in Skips(t, x, d)
      BY <1>0, <3>1, OneSkipShows
    <3> QED
      BY <2>2, <3>2
  <2> QED
    BY <2>1, <2>2
<1>2. SkipSteps(t, a, n, d) = step[m]
  BY DEF SkipSteps
<1>3. \A k \in Nat : \A b : (k > 1 => Full(k, b) = Turn(b)) /\ Full(1, a) = Turn(a)
  OBVIOUS
<1>4. a \in S /\ \A b \in S : Turn(b) \in S
  BY <1>1
<1> HIDE DEF S, m, Full, Turn
<1>5. Body \in [1 .. m -> [S -> S]]
  BY <1>4
<1>6. PICK g \in [0 .. m -> S] : g[0] = a /\ \A k \in 1 .. m : g[k] = Body[k][g[k - 1]]
  <2>1. Loops(S, m, a, Body) # {}
    <3> HIDE DEF Body
    <3> QED
      BY <1>0, <1>4, <1>5, LoopExists
  <2> HIDE DEF Body
  <2> QED
    BY <2>1 DEF Loops
<1>7. ASSUME NEW k \in 1 .. m
      PROVE  g[k - 1] \in S /\ g[k] = Turn(g[k - 1]) /\ Full(k, g[k - 1]) = Turn(g[k - 1])
  <2>1. k \in Nat /\ k - 1 \in 0 .. m /\ (k = 1 \/ k > 1)
    BY <1>0
  <2>2. g[k - 1] \in S /\ g[k] = Body[k][g[k - 1]]
    BY <1>6, <2>1
  <2>3. k = 1 => g[k - 1] = a
    BY <1>6
  <2> QED
    BY <1>3, <2>1, <2>2, <2>3
<1>8. g = [k \in 0 .. m |-> IF k = 0 THEN a ELSE Full(k, g[k - 1])]
  <2>1. ASSUME NEW k \in 0 .. m PROVE g[k] = IF k = 0 THEN a ELSE Full(k, g[k - 1])
    <3>1. k # 0 => k \in 1 .. m
      BY <1>0
    <3> QED
      BY <1>6, <1>7, <3>1
  <2> QED
    BY <1>6, <2>1
<1>9. step = [k \in 0 .. m |-> IF k = 0 THEN a ELSE Full(k, step[k - 1])]
  BY <1>8
<1>10. step[m] \in Skips(t, x, d)
  <2> HIDE DEF step
  <2>1. step[0] = a /\ \A k \in 1 .. m : step[k] = Full(k, step[k - 1])
    <3>1. 0 \in 0 .. m /\ \A k \in 1 .. m : k \in 0 .. m /\ k # 0
      BY <1>0
    <3> HIDE DEF m, Full
    <3> QED
      BY <1>9, <3>1
  <2>2. step[0] \in S /\ \A k \in 1 .. m : step[k - 1] \in S => step[k] \in S
    <3>1. ASSUME NEW k \in 1 .. m, step[k - 1] \in S PROVE step[k] \in S
      <4>1. k \in Nat /\ (k = 1 \/ k > 1) /\ (k = 1 => step[k - 1] = a)
        BY <1>0, <2>1
      <4>2. Full(k, step[k - 1]) = Turn(step[k - 1])
        BY <1>3, <4>1
      <4> QED
        BY <1>4, <2>1, <3>1, <4>2
    <3> QED
      BY <1>4, <2>1, <3>1
  <2>3. \A k \in 0 .. m : step[k] \in S
    BY <1>0, <2>2, LoopStays
  <2>4. m \in 1 .. m /\ m - 1 \in 0 .. m /\ m \in Nat /\ (m = 1 \/ m > 1) /\ (m = 1 => m - 1 = 0)
    BY <1>0
  <2>5. step[m] = Turn(step[m - 1])
    <3>1. Full(m, step[m - 1]) = Turn(step[m - 1])
      BY <1>3, <2>1, <2>4
    <3> QED
      BY <2>1, <2>4, <3>1
  <2> QED
    BY <1>1, <2>3, <2>4, <2>5
<1> QED
  BY <1>2, <1>10

-----------------------------------------------------------------------------
(* Writing the buffer.                                                       *)

(* The table t2 has the records of t, as they are, and perhaps others.       *)
Grown(t, t2) == Rows(t) \subseteq Rows(t2) /\ \A r \in Rows(t) : t2.row[r] = t.row[r]

(* An area over the smaller one is one over the larger.                      *)
LEMMA AreaOfGrown ==
    ASSUME NEW t, NEW t2, Grown(t, t2), NEW x
    PROVE  /\ Area(t, x) \in SUBSET Area(t2, x) /\ Pools(t) \in SUBSET Pools(t2)
           /\ \A a \in Area(t, x) : Stored(t, a) => Stored(t2, a)
<1>1. Marks(t) \in SUBSET Marks(t2)
  BY DEF Marks, Grown
<1>2. Lists(t) \in SUBSET Lists(t2)
  <2>1. Line(t) \in SUBSET Line(t2)
    BY DEF Line, Grown
  <2>2. Seq(Line(t)) \in SUBSET Seq(Line(t2))
    BY <2>1
  <2> QED
    BY <2>2 DEF Lists
<1>3. ASSUME NEW p \in Pools(t) PROVE p \in Pools(t2)
  <2>1. PICK R \in SUBSET Rows(t) : p \in [R -> Contents]
    BY <1>3 DEF Pools
  <2>2. R \in SUBSET Rows(t2)
    BY DEF Grown
  <2>3. p \in UNION {[Q -> Contents] : Q \in SUBSET Rows(t2)}
    BY <2>1, <2>2
  <2>4. /\ Cardinality(DOMAIN p) <= PoolSize + PageReadSize
        /\ Simple => \A r \in DOMAIN p : p[r] = t2.row[r]
    BY <2>1, <1>3 DEF Pools, Grown
  <2> QED
    BY <2>3, <2>4 DEF Pools
<1>4. Pools(t) \in SUBSET Pools(t2)
  BY <1>3
<1>5. ASSUME NEW a \in Area(t, x) PROVE a \in Area(t2, x)
  BY <1>1, <1>2, <1>4 DEF Area, Fields
<1>6. ASSUME NEW a \in Area(t, x), Stored(t, a) PROVE Stored(t2, a)
  BY <1>6, CurrentInRows DEF Stored, Grown
<1> QED
  BY <1>4, <1>5, <1>6

(* The largest record number.                                                *)
LEMMA LargestRow ==
    ASSUME NEW t, IsTable(t)
    PROVE  Max(Rows(t)) \in Rows(t) /\ Max(Rows(t)) \in Nat /\ \A s \in Rows(t) : Max(Rows(t)) >= s
<1> DEFINE S == Rows(t)
           T == {MaxRec - r : r \in S}
<1>0. MaxRec \in Nat /\ S \in SUBSET (1 .. MaxRec) /\ S # {}
  BY Sizes DEF IsTable
<1> HIDE DEF S
<1>1. T \in SUBSET Nat /\ T # {}
  <2>1. \A r \in S : MaxRec - r \in Nat
    BY <1>0
  <2> QED
    BY <1>0, <2>1
<1> HIDE DEF T
<1>2. PICK m \in T : \A n \in T : m <= n
  BY <1>1, LeastElement
<1>3. PICK r \in S : m = MaxRec - r
  BY <1>2 DEF T
<1>4. \A s \in S : r >= s
  <2> TAKE s \in S
  <2>1. m <= MaxRec - s
    BY <1>2 DEF T
  <2> QED
    BY <1>0, <1>3, <2>1
<1>5. Max(S) \in S /\ \A s \in S : Max(S) >= s
  BY <1>4 DEF Max
<1>6. Max(S) \in Nat
  <2>1. S \in SUBSET Nat
    BY <1>0
  <2> QED
    BY <1>5, <2>1
<1> QED
  BY <1>5, <1>6 DEF S

(* The record INSERT adds.                                                   *)
LEMMA InsertGrows ==
    ASSUME NEW t, IsTable(t), Max(Rows(t)) < MaxRec, NEW a, a.buf \in Contents
    PROVE  LET t2 == SR_ExecuteInsertStmt(t, a).table
               r == Max(Rows(t)) + 1
           IN  /\ IsTable(t2) /\ Grown(t, t2) /\ t2.marked = t.marked
               /\ Rows(t2) = Rows(t) \cup {r} /\ t2.row[r] = a.buf /\ r \in Nat
               /\ Max(Rows(t2)) = r
<1> DEFINE t2 == SR_ExecuteInsertStmt(t, a).table
           r == Max(Rows(t)) + 1
           R == Rows(t) \cup {r}
           row == [y \in R |-> IF y = r THEN a.buf ELSE t.row[y]]
<1>1. Max(Rows(t)) \in Nat /\ \A s \in Rows(t) : Max(Rows(t)) >= s
  BY LargestRow
<1>2. Rows(t) \in SUBSET (1 .. MaxRec) /\ MaxRec \in Nat
  BY Sizes DEF IsTable
<1>3. r \in 1 .. MaxRec /\ r \notin Rows(t)
  <2> DEFINE m == Max(Rows(t))
  <2>1. m \in Nat /\ m < MaxRec /\ \A s \in Rows(t) : m >= s
    BY <1>1
  <2> HIDE DEF m
  <2>2. m + 1 \in 1 .. MaxRec /\ m + 1 \notin Rows(t)
    BY <1>2, <2>1
  <2> QED
    BY <2>2 DEF m
<1>4. t2 = [t EXCEPT !.row = row]
  BY DEF SR_ExecuteInsertStmt
<1> HIDE DEF r
<1>5. t2 \in [row : {row}, marked : {t.marked}]
  BY <1>4 DEF IsTable
<1>6. t2.row = row /\ t2.marked = t.marked
  BY <1>5
<1>7. \A y \in Rows(t) : t.row[y] \in Contents
  BY DEF IsTable
<1>8. row \in [R -> Contents] /\ DOMAIN row = R
  BY <1>7
<1>9. \A y \in Rows(t) : row[y] = t.row[y]
  BY <1>3
<1>10. row[r] = a.buf
  OBVIOUS
<1> HIDE DEF t2, row
<1>11. Rows(t2) = R
  BY <1>6, <1>8 DEF Rows
<1>12. IsTable(t2)
  <2>1. t2 \in [row : {t2.row}, marked : {t2.marked}]
    BY <1>5, <1>6
  <2>2. R \in SUBSET (1 .. MaxRec) /\ R # {} /\ t2.marked \in SUBSET R
    BY <1>2, <1>3, <1>6 DEF IsTable
  <2> QED
    BY <1>6, <1>8, <1>11, <2>1, <2>2 DEF IsTable
<1>13. Grown(t, t2)
  BY <1>6, <1>9, <1>11 DEF Grown
<1>14. Max(Rows(t2)) = r
  <2> DEFINE M == Max(Rows(t2))
             m == Max(Rows(t))
  <2>1. M \in R /\ M \in Nat /\ \A s \in R : M >= s
    BY <1>11, <1>12, LargestRow
  <2>2. m \in Nat /\ (\A s \in Rows(t) : m >= s) /\ r = m + 1
    BY <1>1 DEF r
  <2> HIDE DEF M, m
  <2>3. M >= r /\ (M = r \/ m >= M)
    BY <2>1, <2>2
  <2>4. M = r
    BY <2>1, <2>2, <2>3
  <2> QED
    BY <2>4 DEF M
<1> QED
  BY <1>3, <1>6, <1>10, <1>11, <1>12, <1>13, <1>14 DEF t2, r

(* The columns of the prepared UPDATE were replaced together.                *)
StmtKnown(a) == Simple => a.stmt = {} \/ a.stmt \in EditSets

(* The columns that are not being replaced are as they were read.            *)
Edited(t, a) ==
  Simple => /\ a.edit \in EditSets
            /\ \A c \in Columns \ a.edit : a.buf[c] = t.row[Current(a)][c]

(* An area that can be written.                                              *)
Writable(t, a) ==
  /\ IsFrame(a) /\ a \in Area(t, a) /\ StmtKnown(a)
  /\ a.insert => a.hot /\ Max(Rows(t)) < MaxRec
  /\ a.hot /\ ~a.insert => Edited(t, a)

(* SR_ExecuteInsertStmt: the new record is the list.                         *)
LEMMA InsertWrites ==
    ASSUME NEW t, IsTable(t), NEW a, IsFrame(a), a \in Area(t, a), Max(Rows(t)) < MaxRec
    PROVE  LET w == SR_ExecuteInsertStmt(t, a)
               b == w.area
           IN  /\ IsTable(w.table) /\ IsFrame(b) /\ b \in Area(w.table, b) /\ Stored(w.table, b)
               /\ b.stmt = a.stmt /\ b.eof = a.eof /\ b.bof = a.bof /\ b.cur = a.cur
<1> DEFINE w == SR_ExecuteInsertStmt(t, a)
           b == w.area
           t2 == w.table
           r == Max(Rows(t)) + 1
           q == <<[rec |-> r, del |-> FALSE]>>
<1>1. a.buf \in Contents
  BY DEF Area, Fields
<1>2. /\ IsTable(t2) /\ Grown(t, t2)
      /\ Rows(t2) = Rows(t) \cup {r} /\ t2.row[r] = a.buf /\ r \in Nat
  BY <1>1, InsertGrows
<1>3. b = [a EXCEPT !.list = q, !.pos = 1, !.rcount = r, !.lastRec = r + 1]
  BY DEF SR_ExecuteInsertStmt
<1> HIDE DEF t2, r
<1>4. q \in Lists(t2) /\ Len(q) = 1 /\ q[1].rec = r
  <2> DEFINE e == [rec |-> r, del |-> FALSE]
  <2>1. e \in Line(t2) /\ e.rec = r
    BY <1>2 DEF Line
  <2> HIDE DEF e
  <2>2. <<e>> \in Seq(Line(t2)) /\ Len(<<e>>) = 1 /\ <<e>>[1] = e
    BY <2>1
  <2>3. <<e>> \in Lists(t2)
    BY <2>2, Sizes DEF Lists
  <2> QED
    BY <2>1, <2>2, <2>3 DEF e
<1>5. a \in Area(t2, a)
  BY <1>2, AreaOfGrown
<1> HIDE DEF b, q
<1>6. r \in Nat /\ r + 1 \in Nat
  BY <1>2
<1>7. /\ b \in Fields(t2, b, Lists(t2)) /\ b.list = q /\ b.pos = 1 /\ b.buf = a.buf
      /\ b.stmt = a.stmt /\ b.eof = a.eof /\ b.bof = a.bof /\ b.cur = a.cur
  BY <1>3, <1>4, <1>5, <1>6, ZenonT(40) DEF Area, Fields
<1>8. IsFrame(b)
  <2>1. /\ b.cur = a.cur /\ b.rcount = r /\ b.order = a.order /\ b.insert = a.insert
        /\ b.hot = a.hot /\ b.touched = a.touched /\ b.edit = a.edit /\ b.updated = a.updated
        /\ b.stmt = a.stmt
    BY <1>3, <1>5 DEF Area, Fields
  <2> QED
    BY <1>6, <2>1 DEF IsFrame
<1>9. b \in Area(t2, b)
  <2>1. 1 \in 1 .. Len(q)
    BY <1>4
  <2> QED
    BY <1>7, <2>1, Zenon DEF Area
<1>10. Stored(t2, b)
  BY <1>2, <1>4, <1>7 DEF Stored, Current
<1> QED
  BY <1>2, <1>7, <1>8, <1>9, <1>10 DEF b, t2

(* SR_CreateUpdateStmt: the prepared statement writes the edited columns.    *)
LEMMA StatementFitsEdit ==
    ASSUME NEW t, NEW a, IsFrame(a), a \in Area(t, a), StmtKnown(a), Edited(t, a)
    PROVE  LET b == SR_CreateUpdateStmt(a)
           IN  /\ IsFrame(b) /\ b \in Area(t, b) /\ StmtKnown(b) /\ (Simple => b.stmt = a.edit)
               /\ b.list = a.list /\ b.pos = a.pos /\ b.buf = a.buf
               /\ b.eof = a.eof /\ b.bof = a.bof /\ b.cur = a.cur
<1> DEFINE b == SR_CreateUpdateStmt(a)
<1>1. CASE a.stmt # {} /\ a.edit = a.updated
  <2>1. b = a
    BY <1>1 DEF SR_CreateUpdateStmt
  <2>2. a.stmt \in SUBSET a.edit
    BY <1>1 DEF IsFrame
  <2>3. Simple => a.stmt = a.edit
    BY <1>1, <2>2 DEF Simple, StmtKnown, Edited
  <2> QED
    BY <2>1, <2>3
<1>2. CASE ~(a.stmt # {} /\ a.edit = a.updated)
  <2> DEFINE u == a.updated \cup a.edit
             touched == a.order = 1 /\ "k" \in a.edit
  <2>1. b = [a EXCEPT !.stmt = a.edit, !.updated = u, !.touched = touched]
    BY <1>2 DEF SR_CreateUpdateStmt, Area, Fields
  <2>2. touched \in BOOLEAN /\ u \in SUBSET Columns /\ a.edit \in SUBSET u
    BY DEF IsFrame
  <2> HIDE DEF b, u, touched
  <2>3. /\ b \in Area(t, b) /\ b.stmt = a.edit /\ b.updated = u /\ b.touched = touched
        /\ b.list = a.list /\ b.pos = a.pos /\ b.buf = a.buf
        /\ b.eof = a.eof /\ b.bof = a.bof /\ b.cur = a.cur
        /\ b.rcount = a.rcount /\ b.order = a.order /\ b.insert = a.insert
        /\ b.hot = a.hot /\ b.edit = a.edit
    BY <2>1 DEF Area, Fields
  <2>4. IsFrame(b)
    BY <2>2, <2>3 DEF IsFrame
  <2>5. StmtKnown(b)
    BY <2>3 DEF StmtKnown, Edited
  <2> QED
    BY <2>3, <2>4, <2>5 DEF b
<1> QED
  BY <1>1, <1>2

(* SR_ExecuteUpdateStmt: the row is the buffer, and so is the pool.          *)
LEMMA UpdateWrites ==
    ASSUME NEW t, IsTable(t), NEW a, IsFrame(a), a \in Area(t, a),
           Simple => \A c \in Columns \ a.stmt : a.buf[c] = t.row[Current(a)][c]
    PROVE  LET w == SR_ExecuteUpdateStmt(t, a)
               b == w.area
           IN  /\ IsTable(w.table) /\ Rows(w.table) = Rows(t)
               /\ IsFrame(b) /\ b \in Area(w.table, b) /\ Stored(w.table, b)
               /\ b.stmt = a.stmt /\ b.eof = a.eof /\ b.bof = a.bof /\ b.cur = a.cur
<1> DEFINE w == SR_ExecuteUpdateStmt(t, a)
           b == w.area
           t2 == w.table
           r == Current(a)
           new == [c \in Columns |-> IF c \in a.stmt THEN a.buf[c] ELSE t.row[r][c]]
           row == [t.row EXCEPT ![r] = new]
           q == IF a.touched THEN <<[a.list[1] EXCEPT !.rec = r]>> ELSE a.list
           p == IF r \in DOMAIN a.pool THEN [a.pool EXCEPT ![r] = a.buf] ELSE a.pool
           pos == IF a.touched THEN 1 ELSE a.pos
<1>1. /\ r \in Rows(t) /\ a.buf \in Contents /\ a.pool \in Pools(t)
      /\ a.list \in Lists(t) /\ a.pos \in 1 .. Len(a.list)
  BY CurrentInRows DEF Area, Fields
<1>2. t.row \in [Rows(t) -> Contents] /\ t.row[r] \in Contents
  BY <1>1 DEF IsTable
<1>3. new \in Contents /\ (Simple => new = a.buf)
  <2>1. new \in Contents
    BY <1>1, <1>2 DEF Contents
  <2>2. Simple => \A c \in Columns : new[c] = a.buf[c]
    OBVIOUS
  <2> HIDE DEF new
  <2> QED
    BY <1>1, <2>1, <2>2 DEF Contents
<1>4. t2 = [t EXCEPT !.row = row]
  BY DEF SR_ExecuteUpdateStmt, IsTable, Rows
<1>5. b = [a EXCEPT !.list = q, !.pos = pos, !.pool = p]
  BY DEF SR_ExecuteUpdateStmt, Area, Fields
<1> HIDE DEF new, r
<1>6. row \in [Rows(t) -> Contents] /\ row[r] = new /\ \A y \in Rows(t) \ {r} : row[y] = t.row[y]
  BY <1>1, <1>2, <1>3
<1>7. t2 \in [row : {row}, marked : {t.marked}]
  BY <1>4 DEF IsTable
<1> HIDE DEF row, t2, b
<1>8. t2.row = row /\ t2.marked = t.marked /\ Rows(t2) = Rows(t)
  BY <1>6, <1>7 DEF Rows
<1>9. IsTable(t2)
  <2>1. t2 \in [row : {t2.row}, marked : {t2.marked}]
    BY <1>7, <1>8
  <2> QED
    BY <1>6, <1>8, <2>1 DEF IsTable
<1>10. q \in Lists(t2) /\ pos \in 1 .. Len(q) /\ pos \in Nat /\ q[pos].rec = r
  <2>1. Lists(t2) = Lists(t)
    BY <1>8 DEF Lists, Line
  <2>2. CASE a.touched
    <3> DEFINE e == [a.list[1] EXCEPT !.rec = r]
    <3>1. a.list[1] \in Line(t)
      BY <1>1, Sizes DEF Lists
    <3>2. e \in Line(t) /\ e.rec = r
      BY <1>1, <3>1 DEF Line
    <3>3. q = <<e>> /\ pos = 1
      BY <2>2
    <3> HIDE DEF e, q, pos
    <3>4. <<e>> \in Seq(Line(t)) /\ Len(<<e>>) = 1 /\ <<e>>[1] = e
      BY <3>2
    <3>5. <<e>> \in Lists(t) /\ 1 \in 1 .. Len(<<e>>)
      BY <3>4, Sizes DEF Lists
    <3> QED
      BY <2>1, <3>2, <3>3, <3>4, <3>5
  <2>3. CASE ~a.touched
    BY <1>1, <2>1, <2>3 DEF r, Current
  <2> QED
    BY <2>2, <2>3
<1>11. p \in Pools(t2)
  <2>1. PICK R \in SUBSET Rows(t) : a.pool \in [R -> Contents]
    BY <1>1 DEF Pools
  <2>2. p \in [R -> Contents]
    BY <1>1, <2>1
  <2>3. Simple => \A y \in R : p[y] = row[y]
    <3>1. Simple => \A y \in R : a.pool[y] = t.row[y]
      BY <1>1, <2>1 DEF Pools
    <3>2. ASSUME Simple, NEW y \in R PROVE p[y] = row[y]
      <4>1. CASE y = r
        BY <1>3, <1>6, <2>1, <3>2, <4>1
      <4>2. CASE y # r
        BY <1>6, <2>1, <3>1, <3>2, <4>2
      <4> QED
        BY <4>1, <4>2
    <3> QED
      BY <3>2
  <2>4. Cardinality(R) <= PoolSize + PageReadSize
    BY <1>1, <2>1 DEF Pools
  <2> HIDE DEF p
  <2>5. p \in UNION {[Q -> Contents] : Q \in SUBSET Rows(t2)} /\ DOMAIN p = R
    BY <1>8, <2>2
  <2> QED
    BY <1>8, <2>3, <2>4, <2>5 DEF Pools
<1> HIDE DEF p, q, pos
<1>12. Marks(t2) = Marks(t)
  BY <1>8 DEF Marks
<1>13. /\ b \in Fields(t2, b, Lists(t2)) /\ b.list = q /\ b.pos = pos /\ b.buf = a.buf
       /\ b.stmt = a.stmt /\ b.eof = a.eof /\ b.bof = a.bof /\ b.cur = a.cur
       /\ b.rcount = a.rcount /\ b.order = a.order /\ b.insert = a.insert
       /\ b.hot = a.hot /\ b.edit = a.edit /\ b.updated = a.updated /\ b.touched = a.touched
  BY <1>5, <1>10, <1>11, <1>12, ZenonT(40) DEF Area, Fields
<1>14. IsFrame(b)
  BY <1>13 DEF IsFrame
<1>15. b \in Area(t2, b)
  BY <1>10, <1>13, Zenon DEF Area
<1>16. Stored(t2, b)
  BY <1>3, <1>6, <1>8, <1>10, <1>13 DEF Stored, Current
<1> QED
  BY <1>8, <1>9, <1>13, <1>14, <1>15, <1>16 DEF b, t2

(* The edit ends.                                                            *)
LEMMA EditEnds ==
    ASSUME NEW t, NEW a, IsFrame(a), a \in Area(t, a)
    PROVE  LET b == [a EXCEPT !.hot = FALSE, !.insert = FALSE, !.edit = {}]
           IN  /\ IsFrame(b) /\ b \in Area(t, b) /\ (Stored(t, a) => Stored(t, b))
               /\ b.stmt = a.stmt /\ b.eof = a.eof /\ b.bof = a.bof /\ b.cur = a.cur
               /\ b.lastRec = a.lastRec /\ ~b.hot /\ ~b.insert
<1> DEFINE b == [a EXCEPT !.hot = FALSE, !.insert = FALSE, !.edit = {}]
<1>1. /\ b \in Area(t, b) /\ b.list = a.list /\ b.pos = a.pos /\ b.buf = a.buf
      /\ b.stmt = a.stmt /\ b.eof = a.eof /\ b.bof = a.bof /\ b.cur = a.cur
      /\ b.rcount = a.rcount /\ b.order = a.order /\ b.insert = FALSE /\ b.hot = FALSE
      /\ b.edit = {} /\ b.updated = a.updated /\ b.touched = a.touched /\ b.lastRec = a.lastRec
  BY DEF Area, Fields
<1> HIDE DEF b
<1>2. IsFrame(b)
  BY <1>1 DEF IsFrame
<1>3. Stored(t, a) => Stored(t, b)
  BY <1>1 DEF Stored, Current
<1> QED
  BY <1>1, <1>2, <1>3 DEF b

(* sqlExGoCold: nothing is pending, and what was written is shown.           *)
LEMMA GoColdWrites ==
    ASSUME NEW t, IsTable(t), NEW a, Writable(t, a)
    PROVE  LET w == sqlExGoCold(t, a)
               b == w.area
           IN  /\ IsTable(w.table) /\ IsFrame(b) /\ b \in Area(w.table, b) /\ StmtKnown(b)
               /\ ~b.hot /\ ~b.insert /\ b.eof = a.eof /\ b.bof = a.bof /\ b.cur = a.cur
               /\ a.hot /\ (a.insert \/ ~a.eof) => Stored(w.table, b)
               /\ ~a.hot /\ Stored(t, a) => Stored(w.table, b)
               /\ ~a.hot => b.lastRec = a.lastRec
<1> DEFINE w == sqlExGoCold(t, a)
           Ends(b) == [b EXCEPT !.hot = FALSE, !.insert = FALSE, !.edit = {}]
           v == IF ~a.hot THEN [table |-> t, area |-> a]
                ELSE IF a.insert THEN SR_ExecuteInsertStmt(t, a)
                ELSE IF ~a.eof THEN SR_ExecuteUpdateStmt(t, SR_CreateUpdateStmt(a))
                ELSE [table |-> t, area |-> a]
<1>1. IsFrame(a) /\ a \in Area(t, a) /\ StmtKnown(a)
  BY DEF Writable
<1>2. ASSUME NEW t2, NEW c, IsFrame(c), c \in Area(t2, c), v = [table |-> t2, area |-> c]
      PROVE  w.table = t2 /\ w.area = Ends(c)
  <2>1. w = [v EXCEPT !.area.hot = FALSE, !.area.insert = FALSE, !.area.edit = {}]
    BY DEF sqlExGoCold
  <2> HIDE DEF v, w
  <2> QED
    BY <1>2, <2>1 DEF Area, Fields
<1>3. CASE ~a.hot \/ (~a.insert /\ a.eof)
  <2>1. v = [table |-> t, area |-> a]
    BY <1>3 DEF Writable
  <2>2. w.table = t /\ w.area = Ends(a)
    BY <1>1, <1>2, <2>1
  <2> HIDE DEF w, v, Ends
  <2>3. LET b == Ends(a)
        IN  /\ IsFrame(b) /\ b \in Area(t, b) /\ (Stored(t, a) => Stored(t, b))
            /\ b.stmt = a.stmt /\ b.eof = a.eof /\ b.bof = a.bof /\ b.cur = a.cur
            /\ b.lastRec = a.lastRec /\ ~b.hot /\ ~b.insert
    BY <1>1, EditEnds DEF Ends
  <2> QED
    BY <1>1, <1>3, <2>2, <2>3 DEF w, StmtKnown
<1>4. CASE a.hot /\ a.insert
  <2> DEFINE u == SR_ExecuteInsertStmt(t, a)
  <2>1. /\ IsTable(u.table) /\ IsFrame(u.area) /\ u.area \in Area(u.table, u.area) /\ Stored(u.table, u.area)
        /\ u.area.stmt = a.stmt /\ u.area.eof = a.eof /\ u.area.bof = a.bof /\ u.area.cur = a.cur
    BY <1>1, <1>4, InsertWrites DEF Writable
  <2>2. v = [table |-> u.table, area |-> u.area]
    BY <1>4 DEF SR_ExecuteInsertStmt
  <2>3. w.table = u.table /\ w.area = Ends(u.area)
    BY <1>2, <2>1, <2>2
  <2> HIDE DEF w, v, u, Ends
  <2> DEFINE c == u.area
             t2 == u.table
  <2>4. /\ IsTable(t2) /\ IsFrame(c) /\ c \in Area(t2, c) /\ Stored(t2, c)
        /\ c.stmt = a.stmt /\ c.eof = a.eof /\ c.bof = a.bof /\ c.cur = a.cur
    BY <2>1
  <2> HIDE DEF c, t2
  <2>5. LET b == Ends(c)
        IN  /\ IsFrame(b) /\ b \in Area(t2, b) /\ (Stored(t2, c) => Stored(t2, b))
            /\ b.stmt = c.stmt /\ b.eof = c.eof /\ b.bof = c.bof /\ b.cur = c.cur
            /\ ~b.hot /\ ~b.insert
    BY <2>4, EditEnds DEF Ends
  <2>6. w.table = t2 /\ w.area = Ends(c)
    BY <2>3 DEF c, t2
  <2> QED
    BY <1>1, <1>4, <2>4, <2>5, <2>6 DEF w, StmtKnown
<1>5. CASE a.hot /\ ~a.insert /\ ~a.eof
  <2> DEFINE d == SR_CreateUpdateStmt(a)
             u == SR_ExecuteUpdateStmt(t, d)
  <2>1. /\ IsFrame(d) /\ d \in Area(t, d) /\ StmtKnown(d) /\ (Simple => d.stmt = a.edit)
        /\ d.list = a.list /\ d.pos = a.pos /\ d.buf = a.buf
        /\ d.eof = a.eof /\ d.bof = a.bof /\ d.cur = a.cur
    BY <1>1, <1>5, StatementFitsEdit DEF Writable
  <2>2. Simple => \A c \in Columns \ d.stmt : d.buf[c] = t.row[Current(d)][c]
    BY <1>5, <2>1 DEF Writable, Edited, Current
  <2>3. v = [table |-> u.table, area |-> u.area]
    BY <1>5 DEF SR_ExecuteUpdateStmt
  <2> HIDE DEF d
  <2>4. /\ IsTable(u.table) /\ IsFrame(u.area) /\ u.area \in Area(u.table, u.area) /\ Stored(u.table, u.area)
        /\ u.area.stmt = d.stmt /\ u.area.eof = d.eof /\ u.area.bof = d.bof /\ u.area.cur = d.cur
    BY <2>1, <2>2, UpdateWrites
  <2>5. w.table = u.table /\ w.area = Ends(u.area)
    BY <1>2, <2>3, <2>4
  <2> HIDE DEF w, v, u, Ends
  <2> DEFINE c == u.area
             t2 == u.table
  <2>6. /\ IsTable(t2) /\ IsFrame(c) /\ c \in Area(t2, c) /\ Stored(t2, c)
        /\ c.stmt = d.stmt /\ c.eof = a.eof /\ c.bof = a.bof /\ c.cur = a.cur
    BY <2>1, <2>4
  <2> HIDE DEF c, t2
  <2>7. LET b == Ends(c)
        IN  /\ IsFrame(b) /\ b \in Area(t2, b) /\ (Stored(t2, c) => Stored(t2, b))
            /\ b.stmt = c.stmt /\ b.eof = c.eof /\ b.bof = c.bof /\ b.cur = c.cur
            /\ ~b.hot /\ ~b.insert
    BY <2>6, EditEnds DEF Ends
  <2>8. w.table = t2 /\ w.area = Ends(c)
    BY <2>5 DEF c, t2
  <2> QED
    BY <1>5, <2>1, <2>6, <2>7, <2>8 DEF w, StmtKnown
<1> QED
  BY <1>3, <1>4, <1>5

-----------------------------------------------------------------------------
(***************************************************************************)
(* The area between two calls.  A new record is pending only at EOF, a      *)
(* REPLACE only off it; a buffer that is not hot and not at EOF holds the   *)
(* current record.                                                          *)
(***************************************************************************)
Rest(t, a) ==
  /\ Writable(t, a)
  /\ a.insert => a.eof
  /\ Simple /\ a.hot /\ ~a.insert => ~a.eof
  /\ ~a.hot /\ ~a.eof => Stored(t, a)

(* The inductive invariant.                                                  *)
SInv == IsTable(table) /\ Rest(table, wa)

(* An area with nothing pending.                                             *)
IsCold(x) == IsFrame(x) /\ ~x.hot /\ ~x.insert /\ StmtKnown(x)

(* What a move shows is at rest.                                             *)
LEMMA ShownRests ==
    ASSUME NEW t, NEW x, IsCold(x), NEW a \in Shown(t, x)
    PROVE  Rest(t, a) /\ Rest(t, Settled(a))
<1> USE DEF IsCold
<1>1. a \in Area(t, x) /\ (~a.eof => Stored(t, a))
  BY DEF Shown
<1>2. /\ a.cur = x.cur /\ a.rcount = x.rcount /\ a.order = x.order /\ a.insert = x.insert
      /\ a.hot = x.hot /\ a.touched = x.touched /\ a.edit = x.edit /\ a.updated = x.updated
      /\ a.stmt = x.stmt
  BY <1>1 DEF Area, Fields
<1>3. IsFrame(a) /\ StmtKnown(a) /\ a \in Area(t, a) /\ ~a.hot /\ ~a.insert
  <2>1. a \in Area(t, a)
    BY <1>1, <1>2 DEF Area, Fields
  <2> QED
    BY <1>2, <2>1 DEF IsFrame, StmtKnown
<1>4. Rest(t, a)
  BY <1>1, <1>3 DEF Rest, Writable
<1>5. Rest(t, Settled(a))
  <2> DEFINE cur == IF SetDeleted THEN a.cur ELSE 0
             res == IF a.res \in {"retry", "endless"} THEN a.res ELSE "none"
             c == Settled(a)
  <2>1. c = [a EXCEPT !.bottom = FALSE, !.cur = cur, !.res = res]
    BY <1>1 DEF Settled, Area, Fields
  <2>2. cur \in Nat /\ res \in Results
    BY <1>3 DEF IsFrame, Results
  <2> HIDE DEF cur, res, c
  <2>3. /\ c \in Area(t, c) /\ c.list = a.list /\ c.pos = a.pos /\ c.buf = a.buf /\ c.eof = a.eof
        /\ c.cur = cur /\ c.rcount = a.rcount /\ c.order = a.order /\ c.insert = a.insert
        /\ c.hot = a.hot /\ c.touched = a.touched /\ c.edit = a.edit /\ c.updated = a.updated
        /\ c.stmt = a.stmt
    BY <1>1, <2>1, <2>2, ZenonT(40) DEF Area, Fields
  <2>4. IsFrame(c) /\ StmtKnown(c)
    BY <1>3, <2>2, <2>3 DEF IsFrame, StmtKnown
  <2>5. Stored(t, a) => Stored(t, c)
    BY <2>3 DEF Stored, Current
  <2> QED
    BY <1>1, <1>3, <2>3, <2>4, <2>5 DEF Rest, Writable, c
<1> QED
  BY <1>4, <1>5

(* It does not depend on the other fields.                                   *)
LEMMA RestIsKept ==
    ASSUME NEW t, NEW a, Rest(t, a), NEW c, c \in Area(t, c), c.order \in 0 .. 1,
           c.list = a.list, c.pos = a.pos, c.buf = a.buf,
           c.cur = a.cur, c.rcount = a.rcount, c.insert = a.insert,
           c.hot = a.hot, c.touched = a.touched, c.edit = a.edit, c.updated = a.updated,
           c.stmt = a.stmt, c.eof = a.eof
    PROVE  Rest(t, c)
<1>1. IsFrame(c)
  BY DEF IsFrame, Rest, Writable
<1>2. StmtKnown(a) => StmtKnown(c)
  BY DEF StmtKnown
<1>3. Edited(t, a) => Edited(t, c)
  BY DEF Edited, Current
<1>4. Stored(t, a) => Stored(t, c)
  BY DEF Stored, Current
<1>5. Writable(t, c)
  BY <1>1, <1>2, <1>3 DEF Writable, Rest
<1> QED
  BY <1>4, <1>5 DEF Rest

(* Before a move the buffer is written.                                      *)
LEMMA ColdRests ==
    ASSUME NEW t, IsTable(t), NEW a, Rest(t, a)
    PROVE  LET w == sqlExGoCold(t, a)
               b == w.area
           IN  IsTable(w.table) /\ IsCold(b) /\ b \in Area(w.table, b) /\ b \in Shown(w.table, b)
<1> DEFINE w == sqlExGoCold(t, a)
           b == w.area
<1>1. Writable(t, a)
  BY DEF Rest
<1>2. /\ IsTable(w.table) /\ IsFrame(b) /\ b \in Area(w.table, b) /\ StmtKnown(b)
      /\ ~b.hot /\ ~b.insert /\ b.eof = a.eof
      /\ a.hot /\ (a.insert \/ ~a.eof) => Stored(w.table, b)
      /\ ~a.hot /\ Stored(t, a) => Stored(w.table, b)
  BY <1>1, GoColdWrites
<1> HIDE DEF w
<1>3. ~b.eof => Stored(w.table, b)
  BY <1>2 DEF Rest
<1> QED
  BY <1>2, <1>3 DEF IsCold, Shown, w

(* GO TOP, GO BOTTOM and GO TO.                                              *)
LEMMA GoKeeps ==
    ASSUME SInv
    PROVE  /\ GoTop => SInv'
           /\ GoBottom => SInv'
           /\ \A r \in Targets : GoTo(r) /\ r \in Rows(table') \cup {0} => SInv'
<1> DEFINE w == sqlExGoCold(table, wa)
           b == w.area
           t == w.table
<1>1. IsTable(t) /\ IsCold(b) /\ b \in Area(t, b)
  BY ColdRests DEF SInv
<1>2. IsFrame(b)
  BY <1>1 DEF IsCold
<1>3. ASSUME GoTop PROVE SInv'
  <2>1. table' = t /\ wa' = Settled(sqlExGoTop(t, b))
    BY <1>3 DEF GoTop
  <2> HIDE DEF w
  <2>2. sqlExGoTop(t, b) \in Shown(t, b)
    BY <1>1, <1>2, GoTopShows, NoFilter
  <2> QED
    BY <1>1, <2>1, <2>2, ShownRests DEF SInv
<1>4. ASSUME GoBottom PROVE SInv'
  <2>1. table' = t /\ wa' = Settled(sqlExGoBottom(t, b))
    BY <1>4 DEF GoBottom
  <2> HIDE DEF w
  <2>2. sqlExGoBottom(t, b) \in Shown(t, b)
    BY <1>1, <1>2, GoBottomShows, NoFilter
  <2> QED
    BY <1>1, <2>1, <2>2, ShownRests DEF SInv
<1>5. ASSUME NEW r \in Targets, GoTo(r), r \in Rows(table') \cup {0} PROVE SInv'
  <2>1. table' = t /\ wa' = sqlExGoTo(t, b, r)
    BY <1>5 DEF GoTo
  <2> HIDE DEF w
  <2>2. r \in Marks(t)
    BY <1>5, <2>1 DEF Marks
  <2>3. sqlExGoTo(t, b, r) \in Shown(t, b)
    BY <1>1, <1>2, <2>2, GoToShows
  <2> QED
    BY <1>1, <2>1, <2>3, ShownRests DEF SInv
<1> QED
  BY <1>3, <1>4, <1>5

(* SKIP.                                                                     *)
LEMMA SkipKeeps ==
    ASSUME SInv, NEW n \in Int \ {0}, Skip(n)
    PROVE  SInv'
<1> DEFINE d == IF n > 0 THEN 1 ELSE -1
           cur == SR_GetCurrentRecordNum(wa)
           a == [wa EXCEPT !.cur = cur, !.bottom = FALSE, !.bof = FALSE, !.eof = FALSE, !.res = "none"]
           w == sqlExGoCold(table, a)
           b == w.area
           t == w.table
           c == SkipSteps(t, b, n, d)
<1>1. table' = t /\ wa' = Settled(IF d = 1 THEN [c EXCEPT !.bof = FALSE] ELSE [c EXCEPT !.eof = FALSE])
  BY DEF Skip, SkipSteps, OneSkip
<1>2. IsTable(table) /\ Rest(table, wa) /\ Writable(table, wa) /\ wa \in Area(table, wa) /\ IsFrame(wa)
  BY DEF SInv, Rest, Writable
<1>3. cur \in Nat
  <2>1. Current(wa) \in 1 .. MaxRec /\ wa.lastRec \in Nat
    BY <1>2, CurrentInRows DEF IsTable, Area, Fields
  <2>2. Current(wa) \in Nat
    BY <2>1, Sizes
  <2> QED
    BY <2>1, <2>2 DEF SR_GetCurrentRecordNum
<1>4. /\ a \in Area(table, a) /\ a.list = wa.list /\ a.pos = wa.pos /\ a.buf = wa.buf
      /\ a.cur = cur /\ a.rcount = wa.rcount /\ a.order = wa.order /\ a.insert = wa.insert
      /\ a.hot = wa.hot /\ a.touched = wa.touched /\ a.edit = wa.edit /\ a.updated = wa.updated
      /\ a.stmt = wa.stmt /\ a.eof = FALSE /\ a.bof = FALSE /\ a.lastRec = wa.lastRec
  <2>1. "none" \in Results
    BY DEF Results
  <2> HIDE DEF cur
  <2> QED
    BY <1>2, <1>3, <2>1 DEF Area, Fields
<1>5. cur = IF wa.insert \/ wa.eof THEN wa.lastRec ELSE Current(wa)
  BY DEF SR_GetCurrentRecordNum
<1> HIDE DEF a, cur
<1>6. Writable(table, a)
  <2>1. IsFrame(a) /\ StmtKnown(a)
    BY <1>2, <1>3, <1>4 DEF IsFrame, StmtKnown, Writable
  <2>2. a.hot /\ ~a.insert => Edited(table, a)
    BY <1>2, <1>4 DEF Writable, Edited, Current
  <2> QED
    BY <1>2, <1>4, <2>1, <2>2 DEF Writable
<1>7. /\ IsTable(t) /\ IsFrame(b) /\ b \in Area(t, b) /\ StmtKnown(b)
      /\ ~b.hot /\ ~b.insert /\ b.eof = a.eof /\ b.bof = a.bof /\ b.cur = a.cur
      /\ a.hot /\ (a.insert \/ ~a.eof) => Stored(t, b)
      /\ ~a.hot /\ Stored(table, a) => Stored(t, b)
      /\ ~a.hot => b.lastRec = a.lastRec
  BY <1>2, <1>6, GoColdWrites
<1> HIDE DEF w
<1>8. b.cur = b.lastRec \/ Stored(t, b)
  <2>1. CASE a.hot
    BY <1>4, <1>7, <2>1
  <2>2. CASE ~a.hot /\ wa.eof
    BY <1>4, <1>5, <1>7, <2>2
  <2>3. CASE ~a.hot /\ ~wa.eof
    <3>1. Stored(table, wa)
      BY <1>2, <1>4, <2>3 DEF Rest
    <3>2. Stored(table, a)
      BY <1>4, <3>1 DEF Stored, Current
    <3> QED
      BY <1>7, <2>3, <3>2
  <2> QED
    BY <2>1, <2>2, <2>3
<1>9. IsCold(b) /\ ~b.eof /\ ~b.bof
  BY <1>4, <1>7 DEF IsCold
<1>10. c \in Skips(t, b, d) /\ d \in {1, -1}
  BY <1>7, <1>8, <1>9, SkipShows
<1> HIDE DEF c, d
<1>11. CASE d = 1
  <2> DEFINE e == [c EXCEPT !.bof = FALSE]
  <2>1. c \in Area(t, b) /\ (~c.eof => Stored(t, c))
    BY <1>10, <1>11 DEF Skips, Shown
  <2>2. e \in Area(t, b) /\ (Stored(t, c) => Stored(t, e)) /\ e.eof = c.eof
    BY <2>1, BofSet
  <2>3. wa' = Settled(e)
    BY <1>1, <1>11
  <2> HIDE DEF e
  <2>4. e \in Shown(t, b)
    BY <2>1, <2>2 DEF Shown
  <2> QED
    BY <1>1, <1>7, <1>9, <2>3, <2>4, ShownRests DEF SInv
<1>12. CASE d # 1
  <2> DEFINE e == [c EXCEPT !.eof = FALSE]
  <2>1. c \in Area(t, b) /\ Stored(t, c)
    BY <1>10, <1>12 DEF Skips, OnRecord
  <2>2. e \in Area(t, b) /\ e.list = c.list /\ e.pos = c.pos /\ e.buf = c.buf
    BY <2>1 DEF Area, Fields
  <2>3. wa' = Settled(e)
    BY <1>1, <1>12
  <2> HIDE DEF e
  <2>4. e \in Shown(t, b)
    BY <2>1, <2>2 DEF Shown, Stored, Current
  <2> QED
    BY <1>1, <1>7, <1>9, <2>3, <2>4, ShownRests DEF SInv
<1> QED
  BY <1>11, <1>12

(* SEEK: the record that was found becomes the list.                         *)
LEMMA SeekKeeps ==
    ASSUME SInv, NEW soft \in BOOLEAN, NEW x \in Values, NEW d \in {1, -1}, Seek(soft, x, d)
    PROVE  SInv'
<1> DEFINE a == [wa EXCEPT !.bottom = FALSE, !.eof = FALSE]
           w == sqlExGoCold(table, a)
           t == w.table
           b == [w.area EXCEPT !.dir = d, !.cond = TRUE, !.changed = FALSE]
           q == SeekRows(t, d, x)
           y == w.area
<1>1. table' = t /\ wa' = Settled(sqlExSeek(t, w.area, soft, x, d))
  BY DEF Seek
<1>2. IsTable(table) /\ Writable(table, wa) /\ wa \in Area(table, wa) /\ IsFrame(wa)
  BY DEF SInv, Rest, Writable
<1>3. /\ a \in Area(table, a) /\ a.list = wa.list /\ a.pos = wa.pos /\ a.buf = wa.buf
      /\ a.cur = wa.cur /\ a.rcount = wa.rcount /\ a.order = wa.order /\ a.insert = wa.insert
      /\ a.hot = wa.hot /\ a.touched = wa.touched /\ a.edit = wa.edit /\ a.updated = wa.updated
      /\ a.stmt = wa.stmt
  BY <1>2 DEF Area, Fields
<1> HIDE DEF a
<1>4. Writable(table, a)
  <2>1. IsFrame(a) /\ StmtKnown(a)
    BY <1>2, <1>3 DEF IsFrame, StmtKnown, Writable
  <2>2. a.hot /\ ~a.insert => Edited(table, a)
    BY <1>2, <1>3 DEF Writable, Edited, Current
  <2> QED
    BY <1>2, <1>3, <2>1, <2>2 DEF Writable
<1>5. IsTable(t) /\ IsCold(y) /\ IsFrame(y) /\ y \in Area(t, y)
  BY <1>2, <1>4, GoColdWrites DEF IsCold
<1>6. q \in Seq(Rows(t))
  <2> DEFINE S == {r \in Rows(t) : IF d = 1 THEN t.row[r]["k"] >= x ELSE t.row[r]["k"] <= x}
  <2>1. S \in SUBSET Rows(t)
    OBVIOUS
  <2>2. q = SR_getOrderByExpression(t, 1, d, S)
    BY DEF SeekRows
  <2> HIDE DEF S, w, q
  <2>3. q \in Seq(S)
    BY <1>5, <2>1, <2>2, OrderedRows
  <2> QED
    BY <2>1, <2>3
<1> DEFINE s == sqlExSeek(t, y, soft, x, d)
<1>7. s = IF q = <<>> THEN sqlGetCleanBuffer(b) ELSE SeekShown(t, Sought(t, b, soft, x, q[1]), soft, x, d)
  BY DEF sqlExSeek
<1>8. b \in Area(t, y)
  <2> HIDE DEF w
  <2> QED
    BY <1>5 DEF Area, Fields
<1> HIDE DEF w, b, q, s
<1>9. s \in Shown(t, y)
  <2>1. CASE q = <<>>
    BY <1>5, <1>7, <1>8, <2>1, BufferIsClean
  <2>2. CASE q # <<>>
    <3> DEFINE r == q[1]
               e == [b EXCEPT !.list = <<Entry(t, r)>>, !.pos = 1, !.buf = t.row[r]]
               f == Sought(t, b, soft, x, r)
    <3>1. r \in Rows(t)
      BY <1>6, <2>2
    <3> HIDE DEF r
    <3>2. t.row[r] \in Contents
      BY <1>5, <3>1 DEF IsTable
    <3>3. <<Entry(t, r)>> \in Lists(t) /\ Len(<<Entry(t, r)>>) = 1 /\ <<Entry(t, r)>>[1].rec = r
      <4>1. Entry(t, r) \in Line(t) /\ Entry(t, r).rec = r
        BY <3>1 DEF Entry, Line
      <4> QED
        BY <4>1, Sizes DEF Lists
    <3>4. e \in Area(t, y) /\ Stored(t, e)
      <4> DEFINE l == <<Entry(t, r)>>
      <4>1. e = [b EXCEPT !.list = l, !.pos = 1, !.buf = t.row[r]]
        OBVIOUS
      <4>2. l \in Lists(t) /\ 1 \in 1 .. Len(l) /\ l[1].rec = r
        BY <3>3
      <4> HIDE DEF l, e
      <4>3. e \in Fields(t, y, Lists(t)) /\ e.list = l /\ e.pos = 1 /\ e.buf = t.row[r]
        BY <1>8, <3>2, <4>1, <4>2 DEF Area, Fields
      <4>4. e \in Area(t, y)
        BY <4>2, <4>3, Zenon DEF Area
      <4>5. Stored(t, e)
        BY <4>2, <4>3 DEF Stored, Current
      <4> QED
        BY <4>4, <4>5
    <3>5. f = IF t.row[r]["k"] = x THEN [e EXCEPT !.bof = FALSE] ELSE IF soft THEN e ELSE sqlGetCleanBuffer(e)
      BY DEF Sought
    <3> HIDE DEF e
    <3>6. f \in Shown(t, y)
      <4>1. [e EXCEPT !.bof = FALSE] \in Shown(t, y)
        BY <3>4, BofSet DEF Shown
      <4>2. sqlGetCleanBuffer(e) \in Shown(t, y)
        BY <1>5, <3>4, BufferIsClean
      <4>3. e \in Shown(t, y)
        BY <3>4 DEF Shown
      <4> QED
        BY <3>5, <4>1, <4>2, <4>3
    <3>7. s = SeekShown(t, f, soft, x, d)
      BY <1>7, <2>2 DEF r
    <3> HIDE DEF f
    <3>8. sqlExSkipFilter(t, f, d) \in Shown(t, y)
      BY <1>5, <3>6, FiltersStay
    <3> DEFINE g == sqlExSkipFilter(t, f, d)
    <3>9. sqlGetCleanBuffer(g) \in Shown(t, y)
      <4>1. g \in Area(t, y)
        BY <3>8 DEF Shown
      <4> HIDE DEF g
      <4> QED
        BY <1>5, <4>1, BufferIsClean
    <3> QED
      BY <3>6, <3>7, <3>8, <3>9 DEF SeekShown, StillSought
  <2> QED
    BY <2>1, <2>2
<1>10. wa' = Settled(s)
  BY <1>1 DEF s
<1> QED
  BY <1>1, <1>5, <1>9, <1>10, ShownRests DEF SInv

(* COMMIT and RECCOUNT().                                                    *)
LEMMA FlushKeeps ==
    ASSUME SInv
    PROVE  (sqlExFlush => SInv') /\ (sqlExRecCount => SInv')
<1> DEFINE w == sqlExGoCold(table, wa)
           b == w.area
           t == w.table
<1>1. ASSUME sqlExFlush PROVE SInv'
  <2>1. IsTable(t) /\ IsCold(b) /\ b \in Shown(t, b)
    BY ColdRests DEF SInv
  <2>2. table' = t /\ wa' = b
    BY <1>1 DEF sqlExFlush
  <2> HIDE DEF w
  <2> QED
    BY <2>1, <2>2, ShownRests DEF SInv
<1>2. ASSUME sqlExRecCount PROVE SInv'
  <2> DEFINE n == wa.rcount + (IF wa.insert /\ wa.hot THEN 2 ELSE 1)
             c == [wa EXCEPT !.lastRec = n]
  <2>1. table' = table /\ wa' = c
    BY <1>2 DEF sqlExRecCount
  <2>2. IsTable(table) /\ Rest(table, wa) /\ wa \in Area(table, wa) /\ IsFrame(wa)
    BY DEF SInv, Rest, Writable
  <2>3. n \in Nat
    BY <2>2 DEF IsFrame
  <2> HIDE DEF n
  <2>4. /\ c \in Area(table, c) /\ c.list = wa.list /\ c.pos = wa.pos /\ c.buf = wa.buf
        /\ c.cur = wa.cur /\ c.rcount = wa.rcount /\ c.order = wa.order /\ c.insert = wa.insert
        /\ c.hot = wa.hot /\ c.touched = wa.touched /\ c.edit = wa.edit /\ c.updated = wa.updated
        /\ c.stmt = wa.stmt /\ c.eof = wa.eof
    BY <2>2, <2>3 DEF Area, Fields
  <2> HIDE DEF c
  <2>5. Rest(table, c)
    BY <2>2, <2>4, RestIsKept DEF IsFrame
  <2> QED
    BY <2>1, <2>2, <2>5 DEF SInv
<1> QED
  BY <1>1, <1>2

(* APPEND BLANK.                                                             *)
LEMMA AppendKeeps ==
    ASSUME SInv, sqlExAppend
    PROVE  SInv'
<1> DEFINE w == sqlExGoCold(table, wa)
           b == w.area
           t == w.table
           h == [b EXCEPT !.hot = TRUE, !.insert = TRUE]
           c == sqlGetCleanBuffer(h)
<1>1. IsTable(t) /\ IsCold(b) /\ b \in Area(t, b)
  BY ColdRests DEF SInv
<1>2. table' = t /\ wa' = c /\ Max(Rows(t)) < MaxRec
  BY DEF sqlExAppend
<1> HIDE DEF w
<1>3. /\ h \in Area(t, h) /\ h.stmt = b.stmt /\ h.hot = TRUE /\ h.insert = TRUE
      /\ h.cur = b.cur /\ h.rcount = b.rcount /\ h.order = b.order
      /\ h.touched = b.touched /\ h.edit = b.edit /\ h.updated = b.updated
  BY <1>1 DEF Area, Fields
<1> HIDE DEF h
<1>4. IsFrame(h)
  BY <1>1, <1>3 DEF IsFrame, IsCold
<1>5. c \in Area(t, h) /\ c.eof
  BY <1>3, <1>4, BufferIsClean DEF Shown
<1> HIDE DEF c
<1>6. /\ c \in Area(t, c) /\ c.stmt = h.stmt /\ c.hot = TRUE /\ c.insert = TRUE
      /\ c.cur = h.cur /\ c.rcount = h.rcount /\ c.order = h.order
      /\ c.touched = h.touched /\ c.edit = h.edit /\ c.updated = h.updated
  BY <1>3, <1>5 DEF Area, Fields
<1>7. IsFrame(c) /\ StmtKnown(c)
  BY <1>1, <1>3, <1>4, <1>6 DEF IsFrame, IsCold, StmtKnown
<1>8. Rest(t, c)
  BY <1>2, <1>5, <1>6, <1>7 DEF Rest, Writable
<1> QED
  BY <1>1, <1>2, <1>8 DEF SInv

(* REPLACE.                                                                  *)
LEMMA PutValueKeeps ==
    ASSUME SInv, NEW f \in Columns, NEW x \in Values, sqlExPutValue(f, x)
    PROVE  SInv'
<1> DEFINE buf == [wa.buf EXCEPT ![f] = x]
           edit == wa.edit \cup {f}
           c == [wa EXCEPT !.buf = buf, !.edit = edit, !.hot = TRUE]
<1>1. IsTable(table) /\ Rest(table, wa) /\ Writable(table, wa) /\ wa \in Area(table, wa) /\ IsFrame(wa)
  BY DEF SInv, Rest, Writable
<1>2. /\ table' = table /\ wa' = c
      /\ wa.insert \/ (edit \in EditSets /\ (EditAtEof \/ ~wa.eof))
  BY <1>1 DEF sqlExPutValue, Area, Fields
<1>3. x \in Int
  BY SqlExAssumption
<1>4. wa.buf \in Contents
  BY <1>1 DEF Area, Fields
<1>5. buf \in Contents /\ \A y \in Columns \ {f} : buf[y] = wa.buf[y]
  BY <1>3, <1>4 DEF Contents
<1>6. edit \in SUBSET Columns
  BY <1>1 DEF IsFrame
<1> HIDE DEF buf
<1>7. /\ c \in Area(table, c) /\ c.list = wa.list /\ c.pos = wa.pos /\ c.buf = buf
      /\ c.cur = wa.cur /\ c.rcount = wa.rcount /\ c.order = wa.order /\ c.insert = wa.insert
      /\ c.hot = TRUE /\ c.touched = wa.touched /\ c.edit = edit /\ c.updated = wa.updated
      /\ c.stmt = wa.stmt /\ c.eof = wa.eof
  BY <1>1, <1>5 DEF Area, Fields
<1> HIDE DEF c
<1>8. IsFrame(c) /\ StmtKnown(c)
  BY <1>1, <1>6, <1>7 DEF IsFrame, StmtKnown, Writable
<1>9. c.insert => c.eof /\ Max(Rows(table)) < MaxRec
  BY <1>1, <1>7 DEF Rest, Writable
<1>10. ASSUME ~c.insert, Simple PROVE ~c.eof /\ Edited(table, c)
  <2>1. ~wa.insert /\ edit \in EditSets /\ ~wa.eof
    BY <1>2, <1>7, <1>10 DEF Simple
  <2>2. \A y \in Columns \ edit : wa.buf[y] = table.row[Current(wa)][y]
    <3>1. CASE wa.hot
      BY <1>1, <1>10, <2>1, <3>1 DEF Writable, Edited
    <3>2. CASE ~wa.hot
      BY <1>1, <1>10, <2>1, <3>2 DEF Rest, Stored
    <3> QED
      BY <3>1, <3>2
  <2>3. Current(c) = Current(wa)
    BY <1>7 DEF Current
  <2> QED
    BY <1>5, <1>7, <2>1, <2>2, <2>3 DEF Edited
<1>11. Rest(table, c)
  <2>1. c.hot /\ ~c.insert => Edited(table, c)
    BY <1>10 DEF Edited
  <2> QED
    BY <1>7, <1>8, <1>9, <1>10, <2>1 DEF Rest, Writable
<1> QED
  BY <1>1, <1>2, <1>11 DEF SInv

(* Marks of records leave their contents.                                    *)
LEMMA MarkedTable ==
    ASSUME NEW t, IsTable(t), NEW m \in SUBSET Rows(t)
    PROVE  LET t2 == [t EXCEPT !.marked = m]
           IN  IsTable(t2) /\ Grown(t, t2) /\ Rows(t2) = Rows(t)
<1> DEFINE t2 == [t EXCEPT !.marked = m]
<1>1. t2 \in [row : {t.row}, marked : {m}]
  BY DEF IsTable
<1> HIDE DEF t2
<1>2. t2.row = t.row /\ t2.marked = m
  BY <1>1
<1>3. Rows(t2) = Rows(t)
  BY <1>2 DEF Rows
<1>4. IsTable(t2)
  BY <1>1, <1>2, <1>3 DEF IsTable
<1> QED
  BY <1>2, <1>3, <1>4 DEF Grown, t2

(* The flag in the list and the marks.                                       *)
LEMMA FlaggedShown ==
    ASSUME NEW t, NEW x, NEW a \in Shown(t, x), NEW v \in BOOLEAN,
           NEW e \in Marks(t), NEW f \in Marks(t)
    PROVE  LET q == [a.list EXCEPT ![a.pos] = [a.list[a.pos] EXCEPT !.del = v]]
           IN  [a EXCEPT !.list = q, !.eofAt = e, !.bofAt = f] \in Shown(t, x)
<1> DEFINE q == [a.list EXCEPT ![a.pos] = [a.list[a.pos] EXCEPT !.del = v]]
           c == [a EXCEPT !.list = q, !.eofAt = e, !.bofAt = f]
<1>1. /\ a \in Area(t, x) /\ a.list \in Lists(t) /\ a.pos \in 1 .. Len(a.list)
      /\ ~a.eof => Stored(t, a)
  BY DEF Shown, Area, Fields
<1>2. /\ q \in Lists(t) /\ Len(q) = Len(a.list)
      /\ \A j \in 1 .. Len(a.list) : q[j].rec = a.list[j].rec
  BY <1>1, FlagInList
<1> HIDE DEF q
<1>3. c \in Area(t, x) /\ c.list = q /\ c.pos = a.pos /\ c.buf = a.buf /\ c.eof = a.eof
  BY <1>1, <1>2 DEF Area, Fields
<1> HIDE DEF c
<1>4. Current(c) = Current(a)
  BY <1>1, <1>2, <1>3 DEF Current
<1>5. ~c.eof => Stored(t, c)
  BY <1>1, <1>3, <1>4 DEF Stored
<1> QED
  BY <1>3, <1>5 DEF Shown, c, q

(* DELETE and RECALL.                                                        *)
LEMMA DeleteKeeps ==
    ASSUME SInv
    PROVE  (sqlExDeleteRec => SInv') /\ (sqlExRecall => SInv')
<1> DEFINE w == sqlExGoCold(table, wa)
           a == w.area
           t == w.table
           r == SR_GetCurrentRecordNum(a)
           Q(v) == [a.list EXCEPT ![a.pos] = [a.list[a.pos] EXCEPT !.del = v]]
<1>1. IsTable(t) /\ IsCold(a) /\ a \in Shown(t, a) /\ a \in Area(t, a)
  BY ColdRests DEF SInv
<1>2. t.marked \in SUBSET Rows(t)
  BY <1>1 DEF IsTable
<1>3. a.eofAt \in Marks(t) /\ a.bofAt \in Marks(t) /\ 0 \in Marks(t)
  BY <1>1 DEF Area, Fields, Marks
<1>4. ASSUME NEW t2, IsTable(t2), Grown(t, t2), NEW v \in BOOLEAN, NEW e \in Marks(t), NEW f \in Marks(t),
             table' = t2, wa' = [a EXCEPT !.list = Q(v), !.eofAt = e, !.bofAt = f]
      PROVE  SInv'
  <2> DEFINE c == [a EXCEPT !.list = Q(v), !.eofAt = e, !.bofAt = f]
  <2> HIDE DEF w
  <2>1. c \in Shown(t, a)
    BY <1>1, <1>4, FlaggedShown
  <2>2. wa' = c
    BY <1>4
  <2> HIDE DEF c
  <2>3. c \in Shown(t2, a)
    BY <1>4, <2>1, AreaOfGrown DEF Shown
  <2> QED
    BY <1>1, <1>4, <2>2, <2>3, ShownRests DEF SInv
<1>5. ASSUME sqlExDeleteRec PROVE SInv'
  <2> DEFINE m == t.marked \cup ({r} \cap Rows(t))
             t2 == IF ~sqlExDeleted(a) /\ ~a.eof THEN [t EXCEPT !.marked = m] ELSE t
             e == IF a.eofAt = Current(a) THEN 0 ELSE a.eofAt
             f == IF a.bofAt = Current(a) THEN 0 ELSE a.bofAt
  <2>1. table' = t2
    BY <1>1, <1>5 DEF sqlExDeleteRec, IsTable
  <2>2. wa' = [a EXCEPT !.list = Q(TRUE), !.eofAt = e, !.bofAt = f]
    <3>1. wa' = [a EXCEPT !.list[a.pos].del = TRUE, !.eofAt = IF @ = Current(a) THEN 0 ELSE @,
                          !.bofAt = IF @ = Current(a) THEN 0 ELSE @]
      BY <1>5 DEF sqlExDeleteRec
    <3> HIDE DEF w
    <3> QED
      BY <1>1, <3>1 DEF Area, Fields
  <2>3. m \in SUBSET Rows(t)
    BY <1>2
  <2> HIDE DEF w, m
  <2>4. IsTable(t2) /\ Grown(t, t2)
    BY <1>1, <2>3, MarkedTable DEF Grown
  <2>5. e \in Marks(t) /\ f \in Marks(t)
    BY <1>3
  <2> HIDE DEF t2, e, f
  <2> QED
    BY <1>4, <2>1, <2>2, <2>4, <2>5
<1>6. ASSUME sqlExRecall PROVE SInv'
  <2> DEFINE m == t.marked \ {r}
             t2 == IF sqlExDeleted(a) THEN [t EXCEPT !.marked = m] ELSE t
  <2>1. table' = t2
    BY <1>1, <1>6 DEF sqlExRecall, IsTable
  <2>2. wa' = [a EXCEPT !.list = Q(FALSE), !.eofAt = a.eofAt, !.bofAt = a.bofAt]
    <3>1. wa' = [a EXCEPT !.list[a.pos].del = FALSE]
      BY <1>6 DEF sqlExRecall
    <3> HIDE DEF w
    <3> QED
      BY <1>1, <3>1 DEF Area, Fields
  <2>3. m \in SUBSET Rows(t)
    BY <1>2
  <2> HIDE DEF w, m
  <2>4. IsTable(t2) /\ Grown(t, t2)
    BY <1>1, <2>3, MarkedTable DEF Grown
  <2> HIDE DEF t2
  <2> QED
    BY <1>3, <1>4, <2>1, <2>2, <2>4
<1> QED
  BY <1>5, <1>6

(* SET ORDER TO.                                                             *)
LEMMA FocusKeeps ==
    ASSUME SInv, NEW o \in 0 .. 1, sqlExOrderListFocus(o)
    PROVE  SInv'
<1> DEFINE c == [wa EXCEPT !.order = o, !.changed = TRUE, !.bofAt = 0, !.eofAt = 0, !.prepared = 0]
<1>1. IsTable(table) /\ Rest(table, wa) /\ wa \in Area(table, wa)
  BY DEF SInv, Rest, Writable
<1>2. table' = table /\ wa' = c
  BY DEF sqlExOrderListFocus
<1>3. 0 \in Marks(table)
  BY DEF Marks
<1>4. /\ c \in Area(table, c) /\ c.list = wa.list /\ c.pos = wa.pos /\ c.buf = wa.buf
      /\ c.cur = wa.cur /\ c.rcount = wa.rcount /\ c.order = o /\ c.insert = wa.insert
      /\ c.hot = wa.hot /\ c.touched = wa.touched /\ c.edit = wa.edit /\ c.updated = wa.updated
      /\ c.stmt = wa.stmt /\ c.eof = wa.eof
  BY <1>1, <1>3 DEF Area, Fields
<1> HIDE DEF c
<1>5. Rest(table, c)
  BY <1>1, <1>4, RestIsKept
<1> QED
  BY <1>1, <1>2, <1>5 DEF SInv

(* A record of another user.                                                 *)
LEMMA OtherKeeps ==
    ASSUME SInv, NEW x \in Values, OtherInsert(x)
    PROVE  SInv'
<1> DEFINE a == [wa EXCEPT !.buf = [Blank EXCEPT !["k"] = x]]
           t2 == SR_ExecuteInsertStmt(table, a).table
           n == Max(Rows(table))
<1>1. IsTable(table) /\ Rest(table, wa) /\ Writable(table, wa) /\ wa \in Area(table, wa)
  BY DEF SInv, Rest, Writable
<1>2. table' = t2 /\ wa' = wa /\ n + (IF wa.insert THEN 1 ELSE 0) < MaxRec
  BY DEF OtherInsert
<1>3. x \in Int
  BY SqlExAssumption
<1>4. a.buf \in Contents
  <2>1. [Blank EXCEPT !["k"] = x] \in Contents
    BY <1>3 DEF Blank, Contents, Columns
  <2> QED
    BY <1>1, <2>1 DEF Area, Fields
<1> HIDE DEF a
<1>5. n \in Nat /\ MaxRec \in Nat
  BY <1>1, LargestRow, Sizes
<1>6. n < MaxRec /\ (wa.insert => n + 1 < MaxRec)
  <2> HIDE DEF n
  <2> QED
    BY <1>2, <1>5
<1>7. IsTable(t2) /\ Grown(table, t2) /\ Max(Rows(t2)) = n + 1
  BY <1>1, <1>4, <1>6, InsertGrows
<1> HIDE DEF t2, n
<1>8. wa \in Area(t2, wa) /\ (Stored(table, wa) => Stored(t2, wa))
  BY <1>1, <1>7, AreaOfGrown
<1>9. Edited(table, wa) => Edited(t2, wa)
  BY <1>1, <1>7, CurrentInRows DEF Edited, Grown
<1>10. Writable(t2, wa)
  BY <1>1, <1>6, <1>7, <1>8, <1>9 DEF Writable
<1>11. Rest(t2, wa)
  BY <1>1, <1>8, <1>10 DEF Rest
<1> QED
  BY <1>2, <1>7, <1>11 DEF SInv

(* The first table and the first GO TOP.                                     *)
LEMMA InitRests == Init => SInv
<1> SUFFICES ASSUME Init PROVE SInv
  OBVIOUS
<1> DEFINE t == FirstTable
           D == DOMAIN FirstKeys
           row == [r \in D |-> [c \in Columns |-> IF c = "k" THEN FirstKeys[r] ELSE 0]]
<1>0. /\ D \in SUBSET (1 .. MaxRec) /\ D # {} /\ FirstMarked \in SUBSET D
      /\ \A r \in D : FirstKeys[r] \in Int
  BY SqlExAssumption
<1>1. IsTable(t) /\ Rows(t) = D
  <2>1. t = [row |-> row, marked |-> FirstMarked]
    BY DEF FirstTable
  <2>2. row \in [D -> Contents] /\ DOMAIN row = D
    BY <1>0 DEF Contents, Columns
  <2> HIDE DEF t, row
  <2>3. t.row = row /\ t.marked = FirstMarked /\ t \in [row : {row}, marked : {FirstMarked}]
    BY <2>1
  <2>4. Rows(t) = D
    BY <2>2, <2>3 DEF Rows
  <2> QED
    BY <1>0, <2>2, <2>3, <2>4 DEF IsTable
<1>2. PICK o \in 0 .. 1 : wa = sqlExGoTop(t, NewArea(o))
  BY DEF Init
<1>3. table = t
  BY DEF Init
<1> HIDE DEF t, D
<1> DEFINE x == NewArea(o)
           l == <<[rec |-> 0, del |-> FALSE]>>
           p == [r \in {} |-> Blank]
<1>4. Max(Rows(t)) \in Nat
  BY <1>1, LargestRow
<1>5. p \in Pools(t)
  BY EmptyPool
<1>6. /\ Blank \in Contents /\ 0 \in Marks(t) /\ "none" \in Results
  BY DEF Blank, Contents, Marks, Results
<1>7. x = [list |-> l, pos |-> 1, dir |-> 1, bofAt |-> 0, eofAt |-> 0,
           cur |-> 0, lastRec |-> 0, bof |-> FALSE, eof |-> FALSE, bottom |-> FALSE,
           insert |-> FALSE, hot |-> FALSE, edit |-> {}, updated |-> {}, stmt |-> {}, touched |-> FALSE,
           order |-> o, changed |-> TRUE, cond |-> FALSE, prepared |-> 0,
           pool |-> p, buf |-> Blank, rcount |-> Max(Rows(t)), res |-> "none"]
  BY <1>1 DEF NewArea, D
<1> HIDE DEF x, l, p
<1>8. /\ x \in Fields(t, x, {l}) /\ x.bofAt = 0 /\ x.rcount = Max(Rows(t)) /\ x.order = o /\ x.cur = 0
      /\ x.insert = FALSE /\ x.hot = FALSE /\ x.touched = FALSE
      /\ x.edit = {} /\ x.updated = {} /\ x.stmt = {}
  BY <1>5, <1>6, <1>7 DEF Fields
<1>9. IsCold(x) /\ IsFrame(x)
  <2>1. x.cur \in Nat /\ x.rcount \in Nat /\ x.order \in 0 .. 1
    BY <1>4, <1>8
  <2>2. x.insert \in BOOLEAN /\ x.hot \in BOOLEAN /\ x.touched \in BOOLEAN /\ ~x.hot /\ ~x.insert
    BY <1>8
  <2>3. x.edit \in SUBSET Columns /\ x.updated \in SUBSET Columns /\ x.stmt \in SUBSET x.updated
    BY <1>8
  <2>4. StmtKnown(x)
    BY <1>8 DEF StmtKnown
  <2>5. IsFrame(x)
    BY <2>1, <2>2, <2>3 DEF IsFrame
  <2> QED
    BY <2>2, <2>4, <2>5 DEF IsCold
<1> DEFINE b == getRecordList(t, x, 1)
<1>10. b \in Area(t, x)
  BY <1>1, <1>8, <1>9, ListIsRead
<1>11. FirstRecord(t, x) = updateRecordBuffer(t, OnFirst(b), FALSE)
  BY <1>8 DEF FirstRecord
<1> HIDE DEF b
<1>12. FirstRecord(t, x) \in Shown(t, x)
  <2>1. OnFirst(b) \in Area(t, x)
    BY <1>10, EndsMarked
  <2> QED
    BY <1>1, <1>9, <1>11, <2>1, BufferIsRead DEF Shown
<1>13. sqlExGoTop(t, x) \in Shown(t, x)
  BY <1>1, <1>9, <1>12, PassForwardStays DEF sqlExGoTop
<1> QED
  BY <1>1, <1>2, <1>3, <1>9, <1>13, ShownRests DEF SInv, x

-----------------------------------------------------------------------------
(***************************************************************************)
(* GO TO is called with a record of the table, or with 0.                   *)
(***************************************************************************)
KnownTargets == \A r \in Targets : GoTo(r) => r \in Rows(table') \cup {0}

(* The invariant is inductive as long as that holds.                         *)
LEMMA StepKeeps == SInv /\ [Next]_vars /\ [KnownTargets]_vars => SInv'
<1> SUFFICES ASSUME SInv, [Next]_vars, [KnownTargets]_vars PROVE SInv'
  OBVIOUS
<1>1. CASE UNCHANGED vars
  BY <1>1 DEF vars, SInv
<1>2. CASE Move /\ KnownTargets
  <2>1. CASE GoTop \/ GoBottom \/ sqlExFlush \/ sqlExRecCount
    BY <2>1, GoKeeps, FlushKeeps
  <2>2. CASE \E r \in Targets : GoTo(r)
    <3>1. PICK r \in Targets : GoTo(r)
      BY <2>2
    <3>2. r \in Rows(table') \cup {0}
      BY <1>2, <3>1 DEF KnownTargets
    <3> QED
      BY <3>1, <3>2, GoKeeps
  <2>3. CASE \E n \in Steps : Skip(n)
    <3>1. PICK n \in Steps : Skip(n)
      BY <2>3
    <3>2. n \in Int \ {0}
      BY SqlExAssumption
    <3> QED
      BY <3>1, <3>2, SkipKeeps
  <2>4. CASE \E soft \in BOOLEAN, x \in Values, d \in {1, -1} : Seek(soft, x, d)
    BY <2>4, SeekKeeps
  <2> QED
    BY <1>2, <2>1, <2>2, <2>3, <2>4 DEF Move
<1>3. CASE Change
  <2>1. CASE sqlExAppend \/ sqlExDeleteRec \/ sqlExRecall
    BY <2>1, AppendKeeps, DeleteKeeps
  <2>2. CASE \E c \in Columns, x \in Values : sqlExPutValue(c, x)
    BY <2>2, PutValueKeeps
  <2>3. CASE \E o \in 0 .. 1 : sqlExOrderListFocus(o)
    BY <2>3, FocusKeeps
  <2>4. CASE \E x \in Values : OtherInsert(x)
    BY <2>4, OtherKeeps
  <2> QED
    BY <1>3, <2>1, <2>2, <2>3, <2>4 DEF Change
<1> QED
  BY <1>1, <1>2, <1>3 DEF Next

(* So it holds throughout.                                                   *)
LEMMA AlwaysRests == Spec /\ [][KnownTargets]_vars => []SInv
<1>1. Init => SInv
  BY InitRests
<1>2. SInv /\ [Next]_vars /\ [KnownTargets]_vars => SInv'
  BY StepKeeps
<1> QED
  BY <1>1, <1>2, PTL DEF Spec

(***************************************************************************)
(* The position stays on the list, the ends that are remembered and the     *)
(* records in the pool are records of the table, for every size of list,    *)
(* page, pool and table, as long as GO TO names records that exist.         *)
(***************************************************************************)
THEOREM AreaTyping == Spec /\ [][KnownTargets]_vars => []TypeOK
<1>1. SInv => TypeOK
  <2> SUFFICES ASSUME SInv PROVE TypeOK
    OBVIOUS
  <2>1. IsTable(table) /\ IsFrame(wa) /\ wa \in Area(table, wa)
    BY DEF SInv, Rest, Writable
  <2>2. Rows(table) \subseteq 1 .. MaxRec /\ table.marked \subseteq Rows(table)
    BY <2>1 DEF IsTable
  <2>3. /\ Len(wa.list) \in 1 .. ListSize /\ wa.pos \in 1 .. Len(wa.list)
        /\ wa.bofAt \in Rows(table) \cup {0} /\ wa.eofAt \in Rows(table) \cup {0}
    BY <2>1 DEF Area, Fields, Lists, Marks
  <2>4. wa.pool \in Pools(table)
    BY <2>1 DEF Area, Fields
  <2>5. DOMAIN wa.pool \subseteq Rows(table)
    BY <2>4 DEF Pools
  <2>6. wa.stmt \subseteq wa.updated /\ wa.updated \subseteq Columns
    BY <2>1 DEF IsFrame
  <2> QED
    BY <2>2, <2>3, <2>5, <2>6 DEF TypeOK
<1>2. Spec /\ [][KnownTargets]_vars => []SInv
  BY AlwaysRests
<1> QED
  BY <1>1, <1>2, PTL

(***************************************************************************)
(* hBufferPool is never more than one page over its size.                   *)
(***************************************************************************)
THEOREM PoolStaysBounded == Spec /\ [][KnownTargets]_vars => []PoolIsBounded
<1>1. SInv => PoolIsBounded
  <2> SUFFICES ASSUME SInv PROVE PoolIsBounded
    OBVIOUS
  <2>1. wa.pool \in Pools(table)
    BY DEF SInv, Rest, Writable, Area, Fields
  <2> QED
    BY <2>1 DEF Pools, PoolIsBounded
<1>2. Spec /\ [][KnownTargets]_vars => []SInv
  BY AlwaysRests
<1> QED
  BY <1>1, <1>2, PTL

(***************************************************************************)
(* aBuffer and the pool hold what is stored, whatever this area and others  *)
(* write: SR_ExecuteUpdateStmt writes every column that was replaced, and   *)
(* puts it into the pool.                                                   *)
(***************************************************************************)
THEOREM BufferIsStored ==
    ASSUME Simple
    PROVE  Spec /\ [][KnownTargets]_vars => []ShownIsStored
<1>1. SInv => ShownIsStored
  <2> SUFFICES ASSUME SInv PROVE ShownIsStored
    OBVIOUS
  <2>1. Rest(table, wa) /\ wa \in Area(table, wa)
    BY DEF SInv, Rest, Writable
  <2>2. wa.pool \in Pools(table)
    BY <2>1 DEF Area, Fields
  <2>3. \A r \in DOMAIN wa.pool : wa.pool[r] = table.row[r]
    BY <2>2 DEF Pools
  <2>4. Current(wa) \in Rows(table)
    BY <2>1, CurrentInRows
  <2>5. ~wa.hot /\ ~wa.eof => wa.buf = table.row[Current(wa)]
    BY <2>1 DEF Rest, Stored
  <2> QED
    BY <2>3, <2>4, <2>5 DEF ShownIsStored
<1>2. Spec /\ [][KnownTargets]_vars => []SInv
  BY AlwaysRests
<1> QED
  BY <1>1, <1>2, PTL

=============================================================================
