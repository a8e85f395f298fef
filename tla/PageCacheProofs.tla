-------------------------- MODULE PageCacheProofs ---------------------------
(***************************************************************************)
(* Type correctness of the ring of cached records, for rings, pages and     *)
(* tables of any size: every pointer the moves of a work area compute stays *)
(* on the ring, and every record number is one of the table's.              *)
(*                                                                         *)
(* The moves are functions of an area, so that the proof goes operator by   *)
(* operator: each one takes an area to an area.  The loops (SKIP n, the     *)
(* filter of SET DELETED) are recursive functions; that each round is an    *)
(* area is shown with LoopExists and LoopStays.                             *)
(***************************************************************************)
EXTENDS PageCache, OrderProofs

-----------------------------------------------------------------------------
(* The types.                                                               *)
Line == [rec : 0 .. MaxRec, del : BOOLEAN] \cup (IF UseDeleteds THEN {} ELSE {Nil})

(* What a move leaves alone: the edit in the buffer, the order, RCOUNT.       *)
Frame == [hot : {"no", "insert", "update"}, order : 0 .. 1, rcount : 0 .. MaxRec]

Area(x) ==
  [cache : [1 .. Lines -> Line], pos : 0 .. Lines, begin : 0 .. Lines, end : 0 .. Lines,
   bofAt : 0 .. (MaxRec + 1), eofAt : 0 .. (MaxRec + 1), order : {x.order}, rcount : {x.rcount},
   recno : 0 .. (MaxRec + 1), key : 0 .. MaxRec, isDel : BOOLEAN, hot : {x.hot},
   wasdel : BOOLEAN, bof : BOOLEAN, eof : BOOLEAN, fBof : BOOLEAN, fEof : BOOLEAN]

(* A pointer that left the ring by less than its length comes back to it.    *)
LEMMA PointerFixed ==
    ASSUME NEW p \in Int, 1 - Lines <= p, p <= 2 * Lines
    PROVE  FixCachePointer(p) \in 1 .. Lines
BY CacheAssumption DEF FixCachePointer

(* The line of a record of the table.                                       *)
LEMMA RowIsLine ==
    ASSUME NEW r \in Records
    PROVE  Row(r) \in Line
BY CacheAssumption DEF Row, Line, Records

(* searchCacheFWD and searchCacheBWD return 0 or a line that holds a record. *)
LEMMA SearchFinds ==
    ASSUME NEW x \in Frame, NEW a \in Area(x), NEW dir \in {-1, 1}, NEW prev \in 0 .. Lines
    PROVE  /\ SearchCache(a, dir, prev) \in 0 .. Lines
           /\ SearchCache(a, dir, prev) # 0 => a.cache[SearchCache(a, dir, prev)] # Nil
<1> DEFINE start == IF prev # 0 THEN a.pos + dir ELSE a.pos
           At0(d) == FixCachePointer(FixCachePointer(start) + dir * d)
           hits == {d \in 0 .. (Lines - 1) :
                      /\ a.cache[At0(d)] # Nil
                      /\ \A c \in 0 .. d : InRange(a, At0(c))}
<1>0. Lines \in Nat /\ a.pos \in 0 .. Lines
  BY CacheAssumption DEF Area
<1>1. SearchCache(a, dir, prev) = IF a.pos = 0 \/ hits = {} THEN 0 ELSE At0(Min(hits))
  BY DEF SearchCache
<1>2. CASE a.pos = 0 \/ hits = {}
  BY <1>0, <1>1, <1>2
<1>3. CASE a.pos # 0 /\ hits # {}
  <2>1. Min(hits) \in hits
    <3>1. hits \in SUBSET Nat
      OBVIOUS
    <3> HIDE DEF hits
    <3>2. \E m \in hits : \A n \in hits : m <= n
      BY <1>3, <3>1, LeastElement
    <3> QED
      BY <3>2 DEF Min
  <2> DEFINE m == Min(hits)
  <2>2. m \in 0 .. (Lines - 1) /\ a.cache[At0(m)] # Nil
    BY <2>1
  <2> HIDE DEF m, hits
  <2>3. start \in 0 .. (Lines + 1)
    BY <1>0, <1>3
  <2> HIDE DEF start
  <2>4. FixCachePointer(start) \in 1 .. Lines
    BY <1>0, <1>3, <2>3 DEF FixCachePointer
  <2> DEFINE p == FixCachePointer(start)
  <2>5. dir * m \in Int /\ 1 - Lines <= p + dir * m /\ p + dir * m <= 2 * Lines
    BY <1>0, <2>2, <2>4
  <2>6. At0(m) \in 1 .. Lines
    BY <2>4, <2>5, PointerFixed
  <2> QED
    BY <1>0, <1>1, <1>3, <2>2, <2>6 DEF m
<1> QED
  BY <1>2, <1>3

(* The record buffer after a line with a record, and after none.            *)
LEMMA CurrentIsArea ==
    ASSUME NEW x \in Frame, NEW a \in Area(x), NEW p \in 1 .. Lines, a.cache[p] # Nil
    PROVE  SetCurrentFromCache(a, p) \in Area(x)
<1>1. a.cache[p].rec \in 0 .. MaxRec /\ a.cache[p].del \in BOOLEAN
  BY DEF Area, Line
<1>2. a.cache[p].rec \in 0 .. (MaxRec + 1) /\ p \in 0 .. Lines
  BY <1>1, CacheAssumption
<1> QED
  BY <1>1, <1>2 DEF SetCurrentFromCache, Area

(* GetBuffer(.T.) leaves the blank record in the buffer.                    *)
LEMMA BlankIsArea ==
    ASSUME NEW x \in Frame, NEW a \in Area(x)
    PROVE  CleanBuffer(a) \in Area(x)
<1>1. a.rcount + 1 \in 0 .. (MaxRec + 1) /\ 0 \in 0 .. MaxRec
  BY CacheAssumption DEF Area, Frame
<1> QED
  BY <1>1 DEF CleanBuffer, Area

(* GetBuffer loads the line NPOSCACHE, or the blank record when it is 0.    *)
LEMMA BufferIsArea ==
    ASSUME NEW x \in Frame, NEW a \in Area(x), a.pos # 0 => a.cache[a.pos] # Nil
    PROVE  GetBuffer(a) \in Area(x)
<1>1. a.pos \in 0 .. Lines /\ Lines \in Nat
  BY CacheAssumption DEF Area
<1>2. CASE a.pos = 0
  BY <1>2, BlankIsArea DEF GetBuffer
<1>3. CASE a.pos # 0
  <2>1. a.pos \in 1 .. Lines
    BY <1>1, <1>3
  <2> QED
    BY <1>3, <2>1, CurrentIsArea DEF GetBuffer
<1> QED
  BY <1>2, <1>3

-----------------------------------------------------------------------------
(* The rows of a SELECT: in the order asked for, each once.                  *)

(* The key of a record in an order: integers, the last one its number.       *)
LEMMA KeyFacts ==
    ASSUME NEW o \in 0 .. 1, NEW r \in Records
    PROVE  /\ Width(o) \in Nat /\ Width(o) \in 1 .. Width(o) /\ r \in Nat
           /\ KeyOf(o, r) \in [1 .. Width(o) -> Int] /\ KeyOf(o, r)[Width(o)] = r
<1>1. Width(o) \in Nat /\ Width(o) \in 1 .. Width(o) /\ r \in Nat /\ r # 0
  BY CacheAssumption DEF Width, Records
<1>2. CASE o = 0
  BY <1>1, <1>2 DEF KeyOf
<1>3. CASE o # 0
  <2>1. KeyOf(o, r) = Key[r] /\ Width(o) = Columns
    BY <1>1, <1>3 DEF KeyOf, Width
  <2> QED
    BY <1>1, <2>1, CacheAssumption
<1> QED
  BY <1>1, <1>2, <1>3

(* Keys are compared column by column: the order is total.                   *)
LEMMA OrderIsTotal ==
    ASSUME NEW o \in 0 .. 1, NEW r \in Records, NEW s \in Records
    PROVE  /\ ~Before(o, r, r)
           /\ r # s => Before(o, r, s) \/ Before(o, s, r)
           /\ \A x \in Records : Before(o, r, s) /\ Before(o, s, x) => Before(o, r, x)
           /\ Before(o, r, s) => ~Before(o, s, r)
<1> DEFINE n == Width(o)
           K(x) == KeyOf(o, x)
<1>0. n \in Nat /\ n \in 1 .. n /\ \A x \in Records : K(x) \in [1 .. n -> Int] /\ K(x)[n] = x
  BY KeyFacts
<1>1. \A x, y \in Records :
         Before(o, x, y) <=> \E j \in 1 .. n : K(x)[j] < K(y)[j] /\ \A i \in 1 .. (j - 1) : K(y)[i] = K(x)[i]
  BY DEF Before, LexLess
<1> HIDE DEF n, K
<1>2. ~Before(o, r, r)
  <2> SUFFICES ASSUME Before(o, r, r) PROVE FALSE
    OBVIOUS
  <2>1. PICK j \in 1 .. n : K(r)[j] < K(r)[j]
    BY <1>1
  <2>2. K(r)[j] \in Int
    BY <1>0
  <2> QED
    BY <2>1, <2>2
<1>3. ASSUME r # s PROVE Before(o, r, s) \/ Before(o, s, r)
  <2>1. K(s)[n] # K(r)[n]
    BY <1>0, <1>3
  <2>2. PICK j \in 1 .. n : FirstAt(K(r), K(s), j)
    BY <1>0, <2>1, FirstDifference
  <2>3. K(r)[j] \in Int /\ K(s)[j] \in Int
    BY <1>0
  <2>4. K(r)[j] < K(s)[j] \/ K(s)[j] < K(r)[j]
    BY <2>2, <2>3 DEF FirstAt
  <2>5. \A i \in 1 .. (j - 1) : K(s)[i] = K(r)[i] /\ K(r)[i] = K(s)[i]
    BY <2>2 DEF FirstAt
  <2> QED
    BY <1>1, <2>4, <2>5
<1>4. ASSUME NEW x \in Records, Before(o, r, s), Before(o, s, x) PROVE Before(o, r, x)
  <2>1. PICK j \in 1 .. n : K(r)[j] < K(s)[j] /\ \A i \in 1 .. (j - 1) : K(s)[i] = K(r)[i]
    BY <1>1, <1>4
  <2>2. PICK l \in 1 .. n : K(s)[l] < K(x)[l] /\ \A i \in 1 .. (l - 1) : K(x)[i] = K(s)[i]
    BY <1>1, <1>4
  <2> DEFINE m == IF j <= l THEN j ELSE l
  <2>3. m \in 1 .. n
    OBVIOUS
  <2>4. \A i \in 1 .. (m - 1) : K(x)[i] = K(r)[i]
    <3> TAKE i \in 1 .. (m - 1)
    <3>1. i \in 1 .. (j - 1) /\ i \in 1 .. (l - 1)
      BY <1>0
    <3> QED
      BY <2>1, <2>2, <3>1
  <2>5. K(r)[m] \in Int /\ K(s)[m] \in Int /\ K(x)[m] \in Int
    BY <1>0, <2>3
  <2>6. CASE j = l
    <3>1. m = j
      BY <2>6
    <3> QED
      BY <1>1, <2>1, <2>2, <2>3, <2>4, <2>5, <2>6, <3>1
  <2>7. CASE j < l
    <3>1. m = j /\ j \in 1 .. (l - 1)
      BY <1>0, <2>7
    <3>2. K(x)[j] = K(s)[j]
      BY <2>2, <3>1
    <3> QED
      BY <1>1, <2>1, <2>3, <2>4, <2>5, <3>1, <3>2
  <2>8. CASE l < j
    <3>1. m = l /\ l \in 1 .. (j - 1)
      BY <1>0, <2>8
    <3>2. K(s)[l] = K(r)[l]
      BY <2>1, <3>1
    <3> QED
      BY <1>1, <2>2, <2>3, <2>4, <2>5, <3>1, <3>2
  <2> QED
    BY <1>0, <2>6, <2>7, <2>8
<1>5. ASSUME Before(o, r, s), Before(o, s, r) PROVE FALSE
  BY <1>2, <1>4, <1>5
<1> QED
  BY <1>2, <1>3, <1>4, <1>5

(* So is the order of the places, which are numbers.                        *)
LEMMA PlaceIsOrder ==
    ASSUME NEW o \in 0 .. 1
    PROVE  /\ \A r \in Records : Place[o][r] \in Nat
           /\ \A r, s \in Records : Place[o][r] < Place[o][s] <=> Before(o, r, s)
           /\ \A r, s \in Records : Place[o][r] = Place[o][s] => r = s
<1> DEFINE Less(r) == {s \in Records : Before(o, s, r)}
<1>1. \A r \in Records : Place[o][r] = Cardinality(Less(r))
  BY DEF Place
<1>2. \A r \in Records : IsFiniteSet(Less(r)) /\ Cardinality(Less(r)) \in Nat
  <2>1. IsFiniteSet(Records)
    BY CacheAssumption, FS_Interval DEF Records
  <2>2. \A r \in Records : Less(r) \in SUBSET Records
    OBVIOUS
  <2> HIDE DEF Less
  <2> QED
    BY <2>1, <2>2, FS_Subset, FS_CardinalityType
<1>3. ASSUME NEW r \in Records, NEW s \in Records, Before(o, r, s)
      PROVE  Place[o][r] < Place[o][s]
  <2>1. \A x \in Less(r) : x \in Less(s)
    BY <1>3, OrderIsTotal
  <2>2. r \in Less(s) /\ r \notin Less(r)
    BY <1>3, OrderIsTotal
  <2> HIDE DEF Less
  <2>3. Less(r) \in SUBSET Less(s) /\ Less(r) # Less(s)
    BY <2>1, <2>2
  <2>4. Cardinality(Less(r)) <= Cardinality(Less(s)) /\ Cardinality(Less(s)) # Cardinality(Less(r))
    BY <1>2, <2>3, FS_Subset
  <2> QED
    BY <1>1, <1>2, <2>4
<1>4. \A r \in Records : Place[o][r] \in Nat
  BY <1>1, <1>2
<1> HIDE DEF Less
<1> QED
  BY <1>3, <1>4, OrderIsTotal

(* ORDER BY over the records of S: its rows are the records of S, each once, *)
(* in ascending order.                                                      *)
LEMMA AscendingRows ==
    ASSUME NEW o \in 0 .. 1, NEW S \in SUBSET Records
    PROVE  /\ Ascending(o, S) \in Seq(S) /\ Len(Ascending(o, S)) = Cardinality(S)
           /\ Cardinality(S) \in Nat
           /\ \A i, j \in 1 .. Cardinality(S) :
                i < j <=> Before(o, Ascending(o, S)[i], Ascending(o, S)[j])
           /\ \A r \in S : \E i \in 1 .. Cardinality(S) : Ascending(o, S)[i] = r
<1> DEFINE L == {p \in S \X S : Place[o][p[1]] < Place[o][p[2]]}
<1>1. IsFiniteSet(S)
  <2>1. IsFiniteSet(Records)
    BY CacheAssumption, FS_Interval DEF Records
  <2> QED
    BY <2>1, FS_Subset
<1>2. \A r, s \in S : << r, s >> \in L <=> Before(o, r, s)
  BY PlaceIsOrder
<1>3. Ascending(o, S) = Listed(L, S)
  <2>1. \A r \in S : {s \in S : Place[o][s] < Place[o][r]} = {s \in S : << s, r >> \in L}
    OBVIOUS
  <2> HIDE DEF L
  <2> DEFINE F(k) == CHOOSE r \in S : Cardinality({s \in S : Place[o][s] < Place[o][r]}) = k - 1
             G(k) == CHOOSE r \in S : Cardinality({s \in S : << s, r >> \in L}) = k - 1
  <2>2. \A k : F(k) = G(k)
    <3> TAKE k
    <3>1. \A r : (r \in S /\ Cardinality({s \in S : Place[o][s] < Place[o][r]}) = k - 1)
                   <=> (r \in S /\ Cardinality({s \in S : << s, r >> \in L}) = k - 1)
      BY <2>1
    <3> QED
      BY <3>1
  <2>3. Ascending(o, S) = [k \in 1 .. Cardinality(S) |-> F(k)]
    BY DEF Ascending
  <2>4. Listed(L, S) = [k \in 1 .. Cardinality(S) |-> G(k)]
    BY DEF Listed
  <2> HIDE DEF F, G
  <2> QED
    BY <2>2, <2>3, <2>4
<1> HIDE DEF L
<1>4. Orders(L, S)
  <2>1. S \in SUBSET Records
    OBVIOUS
  <2> QED
    BY <1>2, <2>1, OrderIsTotal DEF Orders
<1>5. /\ Listed(L, S) \in Seq(S) /\ Len(Listed(L, S)) = Cardinality(S)
      /\ Cardinality(S) \in Nat
      /\ \A i, j \in 1 .. Cardinality(S) :
           i < j <=> << Listed(L, S)[i], Listed(L, S)[j] >> \in L
      /\ \A r \in S : \E i \in 1 .. Cardinality(S) : Listed(L, S)[i] = r
  BY <1>1, <1>4, ListedRows
<1> DEFINE q == Ascending(o, S)
<1> HIDE DEF q
<1>6. /\ q \in Seq(S) /\ Len(q) = Cardinality(S) /\ Cardinality(S) \in Nat
      /\ \A i, j \in 1 .. Cardinality(S) : i < j <=> << q[i], q[j] >> \in L
      /\ \A r \in S : \E i \in 1 .. Cardinality(S) : q[i] = r
  <2>1. q = Listed(L, S)
    BY <1>3 DEF q
  <2> QED
    BY <1>5, <2>1
<1>7. \A i \in 1 .. Cardinality(S) : q[i] \in S
  BY <1>6
<1>8. \A i, j \in 1 .. Cardinality(S) : i < j <=> Before(o, q[i], q[j])
  BY <1>2, <1>6, <1>7
<1> QED
  BY <1>6, <1>8 DEF q

(* ORDER BY ... DESC: the same rows, the other way round.                    *)
LEMMA DescendingRows ==
    ASSUME NEW o \in 0 .. 1, NEW S \in SUBSET Records
    PROVE  /\ Descending(o, S) \in Seq(S) /\ Len(Descending(o, S)) = Cardinality(S)
           /\ \A i, j \in 1 .. Cardinality(S) :
                i < j <=> Before(o, Descending(o, S)[j], Descending(o, S)[i])
           /\ \A r \in S : \E i \in 1 .. Cardinality(S) : Descending(o, S)[i] = r
<1> DEFINE n == Cardinality(S)
           q == Ascending(o, S)
           d == Descending(o, S)
<1>1. /\ q \in Seq(S) /\ Len(q) = n /\ n \in Nat
      /\ \A i, j \in 1 .. n : i < j <=> Before(o, q[i], q[j])
      /\ \A r \in S : \E i \in 1 .. n : q[i] = r
  BY AscendingRows
<1>2. d = [i \in 1 .. n |-> q[n - i + 1]]
  BY <1>1 DEF Descending, Reverse
<1> HIDE DEF n, q, d
<1>3. \A i \in 1 .. n : n - i + 1 \in 1 .. n
  BY <1>1
<1>4. d \in [1 .. n -> S]
  BY <1>1, <1>2, <1>3
<1>5. d \in Seq(S) /\ Len(d) = n
  BY <1>1, <1>4
<1>6. \A i, j \in 1 .. n : i < j <=> Before(o, d[j], d[i])
  <2> TAKE i, j \in 1 .. n
  <2>1. i < j <=> n - j + 1 < n - i + 1
    BY <1>1
  <2>2. d[i] = q[n - i + 1] /\ d[j] = q[n - j + 1]
    BY <1>2
  <2> QED
    BY <1>1, <1>3, <2>1, <2>2
<1>7. \A r \in S : \E i \in 1 .. n : d[i] = r
  <2> TAKE r \in S
  <2>1. PICK i \in 1 .. n : q[i] = r
    BY <1>1
  <2>2. n - i + 1 \in 1 .. n /\ d[n - i + 1] = r
    BY <1>1, <1>2, <1>3, <2>1
  <2> QED
    BY <2>2
<1> QED
  BY <1>5, <1>6, <1>7 DEF n, d

(* The first rows of a SELECT.                                              *)
LEMMA FirstRowsOf ==
    ASSUME NEW S, NEW q \in Seq(S), NEW n \in Nat \ {0}
    PROVE  /\ AtMost(q, n) \in Seq(S)
           /\ Len(AtMost(q, n)) = IF Len(q) <= n THEN Len(q) ELSE n
           /\ \A i \in 1 .. Len(AtMost(q, n)) : AtMost(q, n)[i] = q[i]
<1>1. CASE Len(q) <= n
  BY <1>1 DEF AtMost
<1>2. CASE Len(q) > n
  <2>1. AtMost(q, n) = SubSeq(q, 1, n) /\ n \in Nat /\ Len(q) \in Nat
    BY <1>2 DEF AtMost
  <2>2. SubSeq(q, 1, n) \in Seq(S) /\ Len(SubSeq(q, 1, n)) = n /\ \A i \in 1 .. n : SubSeq(q, 1, n)[i] = q[i]
    BY <1>2
  <2> QED
    BY <1>2, <2>1, <2>2
<1> QED
  BY <1>1, <1>2

-----------------------------------------------------------------------------
(* A page goes into the ring.                                               *)

(* Making room leaves BEGIN, END and the current line on the ring, however   *)
(* the page runs around its end.                                            *)
LEMMA RoomIsArea ==
    ASSUME NEW x \in Frame, NEW a \in Area(x), NEW f \in Nat \ {0}, f + 3 <= Lines
    PROVE  /\ MakeRoomForward(a, f) \in Area(x) /\ MakeRoomForward(a, f).pos \in 1 .. Lines
           /\ MakeRoomBackward(a, f) \in Area(x) /\ MakeRoomBackward(a, f).pos \in 1 .. Lines
<1>0. /\ Lines \in Nat /\ a.pos \in 0 .. Lines /\ a.begin \in 0 .. Lines /\ a.end \in 0 .. Lines
      /\ MaxRec \in Nat /\ 0 \in 0 .. (MaxRec + 1)
      /\ a.bofAt \in 0 .. (MaxRec + 1) /\ a.eofAt \in 0 .. (MaxRec + 1)
  BY CacheAssumption DEF Area
<1>1. MakeRoomForward(a, f) \in Area(x) /\ MakeRoomForward(a, f).pos \in 1 .. Lines
  <2> DEFINE end   == a.pos + f
             wraps == end > Lines
             b     == IF a.begin = a.end THEN a.begin
                      ELSE IF a.begin < a.end
                        THEN IF wraps /\ end - Lines >= a.begin - 2 THEN end - Lines + 2
                                                                    ELSE a.begin
                        ELSE IF end >= a.begin - 2 THEN end + 2 ELSE a.begin
             nb == IF b = 0 THEN 1 ELSE FixCachePointer(b)
             np == IF a.pos = 0 THEN 1 ELSE a.pos
             ne == FixCachePointer(end)
             forget == \/ wraps
                       \/ a.begin > a.end /\ (end >= a.begin - 2 \/ b > Lines)
             ea == IF a.begin = a.end \/ forget THEN 0 ELSE a.eofAt
             ba == IF a.begin # a.end /\ forget THEN 0 ELSE a.bofAt
  <2>1. nb \in 0 .. Lines /\ np \in 1 .. Lines /\ ne \in 0 .. Lines
    BY <1>0 DEF FixCachePointer
  <2>2. np \in 0 .. Lines
    BY <1>0, <2>1
  <2>3. MakeRoomForward(a, f) = [a EXCEPT !.end = ne, !.begin = nb, !.pos = np, !.eofAt = ea, !.bofAt = ba]
    BY DEF MakeRoomForward
  <2> HIDE DEF nb, np, ne, forget
  <2>4. ea \in 0 .. (MaxRec + 1)
    BY <1>0
  <2>5. ba \in 0 .. (MaxRec + 1)
    BY <1>0
  <2> HIDE DEF ea, ba
  <2>6. [a EXCEPT !.end = ne, !.begin = nb, !.pos = np, !.eofAt = ea, !.bofAt = ba] \in Area(x)
    BY <2>1, <2>2, <2>4, <2>5 DEF Area
  <2>7. MakeRoomForward(a, f).pos = np
    BY <2>3 DEF Area
  <2> QED
    BY <2>1, <2>3, <2>6, <2>7
<1>2. MakeRoomBackward(a, f) \in Area(x) /\ MakeRoomBackward(a, f).pos \in 1 .. Lines
  <2> DEFINE begin == a.pos - f
             wraps == begin < 1
             e     == IF a.begin = a.end THEN a.end
                      ELSE IF a.begin < a.end
                        THEN IF wraps /\ a.end + 2 >= begin + Lines THEN begin + Lines - 2
                                                                    ELSE a.end
                        ELSE IF a.end + 2 >= begin THEN begin - 2 ELSE a.end
             nb == FixCachePointer(begin)
             np == IF a.pos = 0 THEN Lines ELSE a.pos
             ne == FixCachePointer(e)
             forget == \/ wraps
                       \/ a.begin > a.end /\ (a.end + 2 >= begin \/ e < 1)
             ea == IF a.begin = a.end \/ forget THEN 0 ELSE a.eofAt
             ba == IF a.begin # a.end /\ forget THEN 0 ELSE a.bofAt
  <2>1. nb \in 0 .. Lines /\ np \in 1 .. Lines /\ ne \in 0 .. Lines
    BY <1>0 DEF FixCachePointer
  <2>2. np \in 0 .. Lines
    BY <1>0, <2>1
  <2>3. MakeRoomBackward(a, f) = [a EXCEPT !.begin = nb, !.end = ne, !.pos = np, !.eofAt = ea, !.bofAt = ba]
    BY DEF MakeRoomBackward
  <2> HIDE DEF nb, np, ne, forget
  <2>4. ea \in 0 .. (MaxRec + 1)
    BY <1>0
  <2>5. ba \in 0 .. (MaxRec + 1)
    BY <1>0
  <2> HIDE DEF ea, ba
  <2>6. [a EXCEPT !.begin = nb, !.end = ne, !.pos = np, !.eofAt = ea, !.bofAt = ba] \in Area(x)
    BY <2>1, <2>2, <2>4, <2>5 DEF Area
  <2>7. MakeRoomBackward(a, f).pos = np
    BY <2>3 DEF Area
  <2> QED
    BY <2>1, <2>3, <2>6, <2>7
<1> QED
  BY <1>1, <1>2

(* The rows are written and the line NPOSCACHE loaded.                      *)
LEMMA StoredIsArea ==
    ASSUME NEW x \in Frame, NEW a \in Area(x), a.pos # 0, NEW q \in Seq(Records), q # << >>, NEW dir \in {-1, 1},
           NEW f \in Nat, f + 3 <= Lines, Len(q) <= f + 1,
           NEW first \in 1 .. Lines, NEW blockPos
    PROVE  StoreAt(a, q, dir, f, first, blockPos) \in Area(x)
<1>0. /\ Lines \in Nat /\ MaxRec \in Nat /\ Len(q) \in Nat \ {0}
      /\ \A k \in 1 .. Len(q) : q[k] \in Records /\ Row(q[k]) \in Line
  BY CacheAssumption, RowIsLine
<1> DEFINE Where(k) == FixCachePointer(first + dir * (k - 1))
           b == Filled(a, q, dir, first, blockPos)
           c == MarkedEnd(b, q, dir, first, f)
<1>1. b \in Area(x) /\ b.pos = a.pos
  <2> DEFINE At0(i) == IF \E k \in 2 .. Len(q) : Where(k) = i
                         THEN Row(q[CHOOSE k \in 2 .. Len(q) : Where(k) = i])
                       ELSE IF i = blockPos THEN Row(q[1]) ELSE a.cache[i]
             cache == [i \in 1 .. Lines |-> At0(i)]
  <2>1. \A i \in 1 .. Lines : At0(i) \in Line
    <3> TAKE i \in 1 .. Lines
    <3>1. CASE \E k \in 2 .. Len(q) : Where(k) = i
      <4>1. PICK k \in 2 .. Len(q) : k = CHOOSE m \in 2 .. Len(q) : Where(m) = i
        BY <3>1
      <4> HIDE DEF Where
      <4>2. At0(i) = Row(q[k])
        BY <3>1, <4>1
      <4> QED
        BY <1>0, <4>1, <4>2
    <3>2. CASE ~\E k \in 2 .. Len(q) : Where(k) = i
      <4>1. a.cache[i] \in Line /\ Row(q[1]) \in Line
        BY <1>0 DEF Area
      <4> QED
        BY <3>2, <4>1
    <3> QED
      BY <3>1, <3>2
  <2>2. b = [a EXCEPT !.cache = cache]
    BY DEF Filled
  <2> HIDE DEF At0, b
  <2>3. cache \in [1 .. Lines -> Line]
    BY <2>1
  <2> HIDE DEF cache
  <2> QED
    BY <2>2, <2>3 DEF Area
<1>2. c \in Area(x) /\ c.pos = a.pos
  <2>1. Where(Len(q)) \in 0 .. Lines
    BY <1>0 DEF FixCachePointer
  <2>2. q[Len(q)] \in 0 .. (MaxRec + 1)
    BY <1>0 DEF Records
  <2>3. \/ c = b
        \/ c = [b EXCEPT !.eofAt = q[Len(q)], !.end = Where(Len(q))]
        \/ c = [b EXCEPT !.bofAt = q[Len(q)], !.begin = Where(Len(q))]
    BY DEF MarkedEnd
  <2> HIDE DEF b, c, Where
  <2> QED
    BY <1>1, <2>1, <2>2, <2>3 DEF Area
<1>3. Loaded(c) \in Area(x)
  <2> HIDE DEF b, c
  <2>1. c.pos # 0
    BY <1>2
  <2> QED
    BY <1>2, <2>1, BufferIsArea DEF Loaded
<1> QED
  BY <1>3 DEF StoreAt

(* What a page may be: at least one row, and room for it in the ring.        *)
IsPageSize(f) == f \in Nat \ {0} /\ f + 3 <= Lines

(* Room is made and the page stored.                                        *)
LEMMA PageIsArea ==
    ASSUME NEW x \in Frame, NEW a \in Area(x), NEW q \in Seq(Records), q # << >>,
           NEW dir \in {-1, 1}, NEW f, IsPageSize(f), Len(q) <= f + 1, NEW blockPos
    PROVE  StorePage(a, q, dir, f, blockPos) \in Area(x)
<1> DEFINE r == IF dir = 1 THEN MakeRoomForward(a, f) ELSE MakeRoomBackward(a, f)
           first == FixCachePointer(r.pos + (IF a.begin = a.end /\ a.end = 0 THEN 0 ELSE dir))
<1>1. r \in Area(x) /\ r.pos \in 1 .. Lines
  BY RoomIsArea DEF IsPageSize
<1> HIDE DEF r
<1>2. first \in 1 .. Lines
  <2> DEFINE d == IF a.begin = a.end /\ a.end = 0 THEN 0 ELSE dir
  <2>1. d \in {-1, 0, 1} /\ first = FixCachePointer(r.pos + d)
    OBVIOUS
  <2> HIDE DEF d, first
  <2>2. Lines \in Nat /\ Lines > 3
    BY CacheAssumption
  <2>3. r.pos + d \in Int /\ 1 - Lines <= r.pos + d /\ r.pos + d <= 2 * Lines
    BY <1>1, <2>1, <2>2
  <2> QED
    BY <2>1, <2>3, PointerFixed
<1>3. StorePage(a, q, dir, f, blockPos) = StoreAt(r, q, dir, f, first, blockPos)
  BY DEF StorePage, StoreInRoom, r
<1> HIDE DEF first
<1>4. r.pos # 0 /\ f \in Nat /\ f + 3 <= Lines
  BY <1>1 DEF IsPageSize
<1> QED
  BY <1>1, <1>2, <1>3, <1>4, StoredIsArea

(* The rows GoTop and GoBottom select.                                      *)
LEMMA FetchedIsArea ==
    ASSUME NEW x \in Frame, NEW a \in Area(x), NEW q \in Seq(Records), NEW dir \in {-1, 1}
    PROVE  FirstFetch(a, q, dir) \in Area(x)
<1>1. CASE q # << >>
  <2> DEFINE b == [a EXCEPT !.eof = FALSE, !.bof = FALSE]
             p == AtMost(q, FetchSize + 1)
  <2>1. b \in Area(x)
    BY DEF Area
  <2>2. IsPageSize(FetchSize) /\ FetchSize + 1 \in Nat \ {0}
    BY CacheAssumption DEF IsPageSize
  <2>3. p \in Seq(Records) /\ Len(p) <= FetchSize + 1 /\ Len(p) # 0
    BY <1>1, <2>2, FirstRowsOf
  <2>4. p # << >>
    BY <2>3
  <2> HIDE DEF b, p
  <2>5. \A blockPos : StorePage(b, p, dir, FetchSize, blockPos) \in Area(x)
    BY <2>1, <2>2, <2>3, <2>4, PageIsArea
  <2> QED
    BY <1>1, <2>5 DEF FirstFetch, b, p
<1>2. CASE q = << >>
  <2>1. [a EXCEPT !.eofAt = a.recno] \in Area(x) /\ [a EXCEPT !.bof = TRUE, !.bofAt = a.recno] \in Area(x)
    BY DEF Area
  <2> QED
    BY <1>2, <2>1, BlankIsArea DEF FirstFetch
<1> QED
  BY <1>1, <1>2

(* The rows at or after, at or before the current record.                    *)
LEMMA PageRows ==
    ASSUME NEW x \in Frame, NEW a \in Area(x), NEW t \in SUBSET Records, NEW dir \in {-1, 1}
    PROVE  PageOf(t, a, dir) \in Seq(Records)
<1>1. a.order \in 0 .. 1
  BY DEF Area, Frame
<1>2. \A S \in SUBSET t : Ascending(a.order, S) \in Seq(Records) /\ Descending(a.order, S) \in Seq(Records)
  <2> TAKE S \in SUBSET t
  <2>1. Ascending(a.order, S) \in Seq(S) /\ Descending(a.order, S) \in Seq(S) /\ S \subseteq Records
    BY <1>1, AscendingRows, DescendingRows
  <2> QED
    BY <2>1
<1> QED
  BY <1>2 DEF PageOf

(* ReadPage, with the row of the current record dropped.                    *)
LEMMA ReadIsArea ==
    ASSUME NEW x \in Frame, NEW a \in Area(x), NEW t \in SUBSET Records, NEW dir \in {-1, 1},
           NEW f, IsPageSize(f)
    PROVE  ReadPage(t, a, dir, f) \in Area(x)
<1> DEFINE found == PageOf(t, a, dir)
           drop == ~(a.wasdel /\ ~UseDeleteds)
           q == AtMost(IF drop THEN Tail(found) ELSE found, f + 1)
<1>1. found \in Seq(Records)
  BY PageRows
<1>2. CASE drop /\ found = << >>
  BY <1>2 DEF ReadPage, RowsRead
<1>3. CASE ~(drop /\ found = << >>)
  <2>1. f + 1 \in Nat \ {0}
    BY DEF IsPageSize
  <2> DEFINE p == IF drop THEN Tail(found) ELSE found
  <2>2. p \in Seq(Records)
    BY <1>1, <1>3
  <2> HIDE DEF p
  <2>3. q \in Seq(Records) /\ Len(q) <= f + 1
    <3>1. q = AtMost(p, f + 1)
      BY DEF p
    <3>2. /\ AtMost(p, f + 1) \in Seq(Records)
          /\ Len(AtMost(p, f + 1)) = IF Len(p) <= f + 1 THEN Len(p) ELSE f + 1
      BY <2>1, <2>2, FirstRowsOf
    <3> HIDE DEF q
    <3> QED
      BY <2>1, <2>2, <3>1, <3>2
  <2>4. ReadPage(t, a, dir, f) = PageRead(a, q, dir, f)
    BY <1>3 DEF ReadPage, RowsRead
  <2> HIDE DEF q
  <2>5. CASE q # << >>
    BY <2>3, <2>4, <2>5, PageIsArea DEF PageRead
  <2>6. CASE q = << >>
    <3>1. [a EXCEPT !.eofAt = a.recno] \in Area(x) /\ [a EXCEPT !.bofAt = a.recno] \in Area(x)
      BY DEF Area
    <3> QED
      BY <2>4, <2>6, <3>1, BlankIsArea DEF PageRead
  <2> QED
    BY <2>5, <2>6
<1> QED
  BY <1>2, <1>3

-----------------------------------------------------------------------------
(* The moves.                                                               *)

(* The small changes of an area.                                            *)
LEMMA SmallSteps ==
    ASSUME NEW x \in Frame, NEW a \in Area(x)
    PROVE  /\ EmptyCache(a) \in Area(x) /\ Forgotten(a) \in Area(x) /\ OneLine(a) \in Area(x)
           /\ SyncFlags(a) \in Area(x) /\ AtBof(a) \in Area(x) /\ ToEof(a) \in Area(x)
           /\ FilteredForward(a) \in Area(x)
           /\ \A b \in BOOLEAN : [a EXCEPT !.wasdel = b] \in Area(x)
           /\ \A dir \in {-1, 1} : Skipped(a, dir) \in Area(x)
<1>0. /\ Lines \in Nat /\ 1 \in 1 .. Lines /\ 1 \in 0 .. Lines /\ 0 \in 0 .. Lines
      /\ MaxRec \in Nat /\ 0 \in 0 .. (MaxRec + 1)
  BY CacheAssumption
<1>1. EmptyCache(a) \in Area(x) /\ Forgotten(a) \in Area(x)
  BY <1>0 DEF EmptyCache, Forgotten, Area
<1>2. OneLine(a) \in Area(x)
  <2> DEFINE l == [rec |-> a.key, del |-> a.isDel]
  <2>1. l \in Line
    BY DEF Area, Line
  <2> HIDE DEF l
  <2>2. [a.cache EXCEPT ![1] = l] \in [1 .. Lines -> Line]
    BY <1>0, <2>1 DEF Area
  <2>3. OneLine(a) = [a EXCEPT !.pos = 1, !.begin = 1, !.end = 1, !.cache = [a.cache EXCEPT ![1] = l]]
    BY DEF OneLine, l, Area
  <2> QED
    BY <1>0, <2>2, <2>3 DEF Area
<1>3. /\ SyncFlags(a) \in Area(x) /\ AtBof(a) \in Area(x) /\ FilteredForward(a) \in Area(x)
      /\ \A b \in BOOLEAN : [a EXCEPT !.wasdel = b] \in Area(x)
  <2>1. SyncFlags(a) \in Area(x)
    BY DEF SyncFlags, Area
  <2>2. AtBof(a) \in Area(x)
    BY DEF AtBof, Area
  <2>3. FilteredForward(a) \in Area(x)
    <3>1. [a EXCEPT !.fBof = FALSE] \in Area(x)
      BY DEF Area
    <3> QED
      BY <3>1 DEF FilteredForward
  <2>4. \A b \in BOOLEAN : [a EXCEPT !.wasdel = b] \in Area(x)
    BY DEF Area
  <2> QED
    BY <2>1, <2>2, <2>3, <2>4
<1>4. ToEof(a) \in Area(x)
  <2>1. CleanBuffer(a) \in Area(x)
    BY BlankIsArea
  <2> QED
    BY <2>1 DEF ToEof, Area
<1>5. \A dir \in {-1, 1} : Skipped(a, dir) \in Area(x)
  <2> TAKE dir \in {-1, 1}
  <2> DEFINE b == a.fBof /\ dir = -1
             e == a.fEof /\ dir = 1
  <2>1. b \in BOOLEAN /\ e \in BOOLEAN
    OBVIOUS
  <2>2. Skipped(a, dir) = [a EXCEPT !.fBof = b, !.bof = b, !.fEof = e, !.eof = e, !.wasdel = FALSE]
    BY DEF Skipped, Area
  <2> HIDE DEF b, e
  <2> QED
    BY <2>1, <2>2 DEF Area
<1> QED
  BY <1>1, <1>2, <1>3, <1>4, <1>5

(* GO TO a record number, whether a line answers it or a SELECT.            *)
LEMMA GoToIsArea ==
    ASSUME NEW x \in Frame, NEW a \in Area(x), NEW t \in SUBSET Records, NEW r \in Nat
    PROVE  WorkAreaGoTo(t, a, r) \in Area(x) /\ AreaGoTo(t, a, r) \in Area(x)
<1>0. /\ Lines \in Nat /\ 1 \in 1 .. Lines /\ 1 \in 0 .. Lines /\ MaxRec \in Nat
  BY CacheAssumption
<1>1. ASSUME NEW b \in Area(x) PROVE WorkAreaGoTo(t, b, r) \in Area(x)
  <2> DEFINE cached == b.begin > 0 /\ b.bofAt > 0 /\ b.cache[b.begin].rec = r
             Shows(c) == [c EXCEPT !.eof = FALSE, !.bof = FALSE]
  <2>1. [b EXCEPT !.bof = FALSE] \in Area(x)
    BY DEF Area
  <2>2. \A c \in Area(x) : [c EXCEPT !.bof = TRUE] \in Area(x) /\ Shows(c) \in Area(x)
    BY DEF Area
  <2>3. ASSUME cached, r # 0 PROVE Shows(GetBuffer([b EXCEPT !.pos = b.begin])) \in Area(x)
    <3> DEFINE c == [b EXCEPT !.pos = b.begin]
    <3>1. b.begin \in 0 .. Lines
      BY DEF Area
    <3>2. c \in Area(x) /\ c.pos = b.begin /\ c.cache = b.cache
      BY <3>1 DEF Area
    <3>3. Nil.rec = -1
      BY DEF Nil
    <3> HIDE DEF c
    <3>4. c.cache[c.pos] # Nil
      BY <2>3, <3>2, <3>3
    <3> QED
      BY <2>2, <3>2, <3>4, BufferIsArea DEF c
  <2>4. ASSUME r \in t
        PROVE  Shows(GetBuffer([b EXCEPT !.pos = 1, !.begin = 1, !.end = 1, !.cache[1] = Row(r)]))
                 \in Area(x)
    <3> DEFINE c == [b EXCEPT !.pos = 1, !.begin = 1, !.end = 1, !.cache[1] = Row(r)]
    <3>1. Row(r) \in Line /\ Row(r) # Nil
      BY <2>4, RowIsLine DEF Row, Nil, Records
    <3>2. [b.cache EXCEPT ![1] = Row(r)] \in [1 .. Lines -> Line] /\ [b.cache EXCEPT ![1] = Row(r)][1] = Row(r)
      BY <1>0, <3>1 DEF Area
    <3>3. c = [b EXCEPT !.pos = 1, !.begin = 1, !.end = 1, !.cache = [b.cache EXCEPT ![1] = Row(r)]]
      BY DEF Area
    <3> HIDE DEF c
    <3>4. c \in Area(x) /\ c.cache[c.pos] = Row(r)
      BY <1>0, <3>2, <3>3 DEF Area
    <3> QED
      BY <2>2, <3>1, <3>4, BufferIsArea DEF c
  <2>5. CleanBuffer(b) \in Area(x) /\ CleanBuffer(EmptyCache(b)) \in Area(x)
    BY BlankIsArea, SmallSteps
  <2> HIDE DEF Shows
  <2> QED
    BY <2>1, <2>2, <2>3, <2>4, <2>5 DEF WorkAreaGoTo, Shows
<1>2. [a EXCEPT !.wasdel = FALSE] \in Area(x)
  BY SmallSteps
<1> QED
  BY <1>1, <1>2, SmallSteps DEF AreaGoTo

(* GO TOP and GO BOTTOM of SR_WORKAREA.                                     *)
LEMMA EndsAreAreas ==
    ASSUME NEW x \in Frame, NEW a \in Area(x), NEW t \in SUBSET Records
    PROVE  WorkAreaGoTop(t, a) \in Area(x) /\ WorkAreaGoBottom(t, a) \in Area(x)
<1>0. Lines \in Nat /\ 1 \in 0 .. Lines /\ Lines \in 0 .. Lines /\ MaxRec \in Nat
  BY CacheAssumption
<1>1. a.order \in 0 .. 1
  BY DEF Area, Frame
<1>2. Ascending(a.order, t) \in Seq(Records) /\ Descending(a.order, t) \in Seq(Records)
  <2>1. Ascending(a.order, t) \in Seq(t) /\ Descending(a.order, t) \in Seq(t)
    BY <1>1, AscendingRows, DescendingRows
  <2> QED
    BY <2>1
<1>3. EmptyCache(a) \in Area(x)
  BY SmallSteps
<1>4. /\ FirstFetch(EmptyCache(a), Ascending(a.order, t), 1) \in Area(x)
      /\ FirstFetch(EmptyCache(a), Descending(a.order, t), -1) \in Area(x)
  BY <1>2, <1>3, FetchedIsArea
<1>5. ASSUME NEW b \in Area(x) PROVE OnFirst(t, b) \in Area(x) /\ OnLast(t, b) \in Area(x)
  <2>1. b.key \in 0 .. MaxRec
    BY DEF Area
  <2>2. b.key \in 0 .. (MaxRec + 1)
    BY <1>0, <2>1
  <2>3. [b EXCEPT !.bof = TRUE, !.eof = TRUE] \in Area(x)
    BY DEF Area
  <2>4. [b EXCEPT !.bofAt = b.key, !.bof = FALSE, !.eof = FALSE, !.pos = 1] \in Area(x)
    BY <1>0, <2>2 DEF Area
  <2>5. [b EXCEPT !.eofAt = b.key, !.bof = FALSE, !.eof = FALSE, !.pos = Lines] \in Area(x)
    BY <1>0, <2>2 DEF Area
  <2> QED
    BY <2>3, <2>4, <2>5 DEF OnFirst, OnLast
<1> QED
  BY <1>4, <1>5 DEF WorkAreaGoTop, WorkAreaGoBottom

(* The raw skips.                                                           *)
LEMMA RawForwardIsArea ==
    ASSUME NEW x \in Frame, NEW a \in Area(x), NEW t \in SUBSET Records, NEW f, IsPageSize(f)
    PROVE  SkipRawForward(t, a, f) \in Area(x)
<1>0. Lines \in Nat /\ 1 \in 0 .. Lines /\ a.pos \in 0 .. Lines
  BY CacheAssumption DEF Area
<1>1. ASSUME NEW b \in Area(x), NEW p \in 0 .. Lines, p # 0, b.cache[p] # Nil
      PROVE  Found(b, p) \in Area(x)
  <2>1. p \in 1 .. Lines
    BY <1>0, <1>1
  <2>2. SetCurrentFromCache(b, p) \in Area(x)
    BY <1>1, <2>1, CurrentIsArea
  <2> QED
    BY <2>2 DEF Found, Area
<1>2. ASSUME NEW b \in Area(x), NEW prev \in 0 .. Lines PROVE FoundInPage(b, prev) \in Area(x)
  <2>1. /\ SearchCache(b, 1, prev) \in 0 .. Lines
        /\ SearchCache(b, 1, prev) # 0 => b.cache[SearchCache(b, 1, prev)] # Nil
    BY SearchFinds
  <2> QED
    BY <1>1, <2>1, SmallSteps DEF FoundInPage, FoundOrEof
<1>3. FoundInPage(ReadPage(t, a, 1, f), a.pos) \in Area(x)
  BY <1>0, <1>2, ReadIsArea
<1>4. /\ SearchCache(a, 1, 1) \in 0 .. Lines
      /\ SearchCache(a, 1, 1) # 0 => a.cache[SearchCache(a, 1, 1)] # Nil
  BY <1>0, SearchFinds
<1> QED
  BY <1>1, <1>3, <1>4, SmallSteps DEF SkipRawForward

(* sqlSkipRaw(-1), over the line of a removed record too.                   *)
LEMMA RawBackwardIsArea ==
    ASSUME NEW x \in Frame, NEW a \in Area(x), NEW t \in SUBSET Records, NEW f, IsPageSize(f)
    PROVE  SkipRawBackward(t, a, f) \in Area(x)
<1>0. Lines \in Nat /\ 1 \in 0 .. Lines /\ a.pos \in 0 .. Lines
  BY CacheAssumption DEF Area
<1>1. ASSUME NEW b \in Area(x), NEW p \in 0 .. Lines, p # 0, b.cache[p] # Nil
      PROVE  SetCurrentFromCache(b, p) \in Area(x)
  <2>1. p \in 1 .. Lines
    BY <1>0, <1>1
  <2> QED
    BY <1>1, <2>1, CurrentIsArea
<1>2. ASSUME NEW b \in Area(x) PROVE ShowFirstOf(b) \in Area(x)
  <2>1. /\ SearchCache(b, 1, 1) \in 0 .. Lines
        /\ SearchCache(b, 1, 1) # 0 => b.cache[SearchCache(b, 1, 1)] # Nil
    BY <1>0, SearchFinds
  <2>2. ToEof(b) \in Area(x)
    BY SmallSteps
  <2> QED
    BY <1>1, <2>1, <2>2, SmallSteps DEF ShowFirstOf, ShowFirst
<1>3. ASSUME NEW b \in Area(x) PROVE FirstAfterRemoved(t, b, f) \in Area(x)
  BY <1>2, ReadIsArea DEF FirstAfterRemoved
<1> DEFINE s == StepBack(t, a, f)
<1>4. /\ s.area \in Area(x) /\ s.hit \in 0 .. Lines
      /\ s.hit # 0 => s.area.cache[s.hit] # Nil
  <2>1. ASSUME NEW b \in Area(x), NEW prev \in 0 .. Lines
        PROVE  LET u == Stepped(b, prev)
               IN  /\ u.area \in Area(x) /\ u.hit \in 0 .. Lines
                   /\ u.hit # 0 => u.area.cache[u.hit] # Nil
    <3>1. /\ SearchCache(b, -1, prev) \in 0 .. Lines
          /\ SearchCache(b, -1, prev) # 0 => b.cache[SearchCache(b, -1, prev)] # Nil
      BY SearchFinds
    <3> QED
      BY <3>1 DEF Stepped
  <2>2. ReadPage(t, a, -1, f) \in Area(x)
    BY ReadIsArea
  <2> QED
    BY <1>0, <2>1, <2>2 DEF StepBack
<1> HIDE DEF s
<1>5. \A removed \in BOOLEAN : SteppedBack(t, s, removed, f) \in Area(x)
  BY <1>1, <1>3, <1>4, SmallSteps DEF SteppedBack
<1>6. Removed(a) \in BOOLEAN
  BY DEF Removed
<1> QED
  BY <1>3, <1>5, <1>6, SmallSteps DEF SkipRawBackward, s

(* The loop of sqlSkipFilter: each round is a raw skip, or nothing.         *)
LEMMA PassedIsArea ==
    ASSUME NEW x \in Frame, NEW a \in Area(x), NEW t \in SUBSET Records, NEW f, IsPageSize(f),
           NEW dir \in {-1, 1}
    PROVE  PassDeleted(t, a, dir, f) \in Area(x)
<1> DEFINE Turn(b) == IF b.fBof \/ b.fEof \/ ~b.isDel THEN b
                      ELSE IF dir = 1 THEN SkipRawForward(t, b, f) ELSE SkipRawBackward(t, b, f)
           Body == [k \in 1 .. MaxRec |-> [b \in Area(x) |-> Turn(b)]]
           round == CHOOSE g : g = [k \in 0 .. MaxRec |-> IF k = 0 THEN a ELSE Turn(g[k - 1])]
<1>0. MaxRec \in Nat
  BY CacheAssumption
<1>1. \A b \in Area(x) : Turn(b) \in Area(x)
  BY RawForwardIsArea, RawBackwardIsArea
<1> HIDE DEF Turn
<1>2. Body \in [1 .. MaxRec -> [Area(x) -> Area(x)]]
  BY <1>1
<1>3. PICK g \in [0 .. MaxRec -> Area(x)] : g[0] = a /\ \A k \in 1 .. MaxRec : g[k] = Body[k][g[k - 1]]
  <2>1. Loops(Area(x), MaxRec, a, Body) # {}
    <3> HIDE DEF Body
    <3> QED
      BY <1>0, <1>2, LoopExists
  <2> HIDE DEF Body
  <2> QED
    BY <2>1 DEF Loops
<1>4. g = [k \in 0 .. MaxRec |-> IF k = 0 THEN a ELSE Turn(g[k - 1])]
  <2>1. ASSUME NEW k \in 0 .. MaxRec PROVE g[k] = IF k = 0 THEN a ELSE Turn(g[k - 1])
    <3>1. CASE k = 0
      BY <1>3, <3>1
    <3>2. CASE k # 0
      <4>1. k \in 1 .. MaxRec /\ k - 1 \in 0 .. MaxRec
        BY <1>0, <3>2
      <4>2. g[k - 1] \in Area(x) /\ g[k] = Body[k][g[k - 1]]
        BY <1>3, <4>1
      <4> QED
        BY <3>2, <4>1, <4>2
    <3> QED
      BY <3>1, <3>2
  <2> QED
    BY <1>3, <2>1
<1>5. round = [k \in 0 .. MaxRec |-> IF k = 0 THEN a ELSE Turn(round[k - 1])]
  BY <1>4
<1>6. PassDeleted(t, a, dir, f) = round[MaxRec]
  BY DEF PassDeleted, Turn
<1> HIDE DEF round
<1>7. round[0] = a /\ \A k \in 1 .. MaxRec : round[k] = Turn(round[k - 1])
  BY <1>0, <1>5
<1>8. \A k \in 0 .. MaxRec : round[k] \in Area(x)
  <2>1. round[0] \in Area(x) /\ \A k \in 1 .. MaxRec : round[k - 1] \in Area(x) => round[k] \in Area(x)
    BY <1>1, <1>7
  <2> QED
    BY <1>0, <2>1, LoopStays
<1> QED
  BY <1>0, <1>6, <1>8

(* GO TOP, GO BOTTOM, SKIP -1 and SKIP 1 of the RDD.                         *)
LEMMA GoIsArea ==
    ASSUME NEW x \in Frame, NEW a \in Area(x), NEW t \in SUBSET Records, NEW f, IsPageSize(f)
    PROVE  /\ AreaGoTop(t, a, f) \in Area(x) /\ AreaGoBottom(t, a, f) \in Area(x)
           /\ SkipFilterForward(t, a, f) \in Area(x) /\ SkipFilterBackward(t, a, f) \in Area(x)
           /\ \A dir \in {-1, 1} : SkipRaw(t, a, dir, f) \in Area(x)
<1>1. \A b \in Area(x) : SkipFilterForward(t, b, f) \in Area(x)
  BY PassedIsArea, SmallSteps DEF SkipFilterForward
<1>2. ASSUME NEW b \in Area(x)
      PROVE  /\ b.bofAt \in Nat /\ b.eofAt \in Nat
             /\ \A r \in Nat : SyncFlags(WorkAreaGoTo(t, b, r)) \in Area(x)
             /\ SyncFlags(WorkAreaGoTop(t, b)) \in Area(x) /\ SyncFlags(WorkAreaGoBottom(t, b)) \in Area(x)
  <2>1. b.bofAt \in Nat /\ b.eofAt \in Nat
    BY CacheAssumption DEF Area
  <2>2. \A r \in Nat : WorkAreaGoTo(t, b, r) \in Area(x)
    BY GoToIsArea
  <2>3. WorkAreaGoTop(t, b) \in Area(x) /\ WorkAreaGoBottom(t, b) \in Area(x)
    BY EndsAreAreas
  <2>4. \A c \in Area(x) : SyncFlags(c) \in Area(x)
    BY SmallSteps
  <2> QED
    BY <2>1, <2>2, <2>3, <2>4
<1>3. \A b \in Area(x) : AreaGoTop(t, b, f) \in Area(x)
  <2> TAKE b \in Area(x)
  <2> DEFINE c == [b EXCEPT !.wasdel = FALSE]
  <2>1. c \in Area(x)
    BY SmallSteps
  <2>2. AreaGoTop(t, b, f)
          = SkipFilterForward(t,
              SyncFlags(IF c.bofAt # 0 THEN WorkAreaGoTo(t, c, c.bofAt) ELSE WorkAreaGoTop(t, c)), f)
    BY DEF AreaGoTop
  <2> HIDE DEF c
  <2> QED
    BY <1>1, <1>2, <2>1, <2>2
<1>4. \A b \in Area(x) : SkipFilterBackward(t, b, f) \in Area(x)
  <2> TAKE b \in Area(x)
  <2> DEFINE c == PassDeleted(t, b, -1, f)
             d == [c EXCEPT !.fEof = FALSE]
  <2>1. c \in Area(x)
    BY PassedIsArea
  <2> HIDE DEF c
  <2>2. d \in Area(x)
    BY <2>1 DEF Area
  <2>3. FilteredBackward(t, c, f) \in Area(x)
    BY <1>3, <2>1, <2>2, SmallSteps DEF FilteredBackward
  <2> QED
    BY <2>3 DEF SkipFilterBackward, c
<1>5. \A b \in Area(x) : AreaGoBottom(t, b, f) \in Area(x)
  <2> TAKE b \in Area(x)
  <2> DEFINE c == [b EXCEPT !.wasdel = FALSE]
  <2>1. c \in Area(x)
    BY SmallSteps
  <2>2. AreaGoBottom(t, b, f)
          = SkipFilterBackward(t,
              SyncFlags(IF c.eofAt # 0 THEN WorkAreaGoTo(t, c, c.eofAt) ELSE WorkAreaGoBottom(t, c)), f)
    BY DEF AreaGoBottom
  <2> HIDE DEF c
  <2> QED
    BY <1>2, <1>4, <2>1, <2>2
<1>6. AreaGoTo(t, a, a.eofAt) \in Area(x)
  BY <1>2, GoToIsArea
<1>7. \A dir \in {-1, 1} : SkipRaw(t, a, dir, f) \in Area(x)
  BY <1>5, <1>6, SmallSteps, RawForwardIsArea, RawBackwardIsArea DEF SkipRaw
<1> QED
  BY <1>1, <1>3, <1>4, <1>5, <1>7

(***************************************************************************)
(* SKIP n is a loop of single skips: what a single skip keeps, SKIP n keeps.*)
(***************************************************************************)
OneSkip(t, b, dir, f) ==
  IF dir = 1 THEN SkipFilterForward(t, SkipRaw(t, b, 1, f), f)
             ELSE SkipFilterBackward(t, SkipRaw(t, b, -1, f), f)

(* A round from an area of S is an area of T; SKIP n ends like a round to T. *)
Rounds(S, T, t, f, dir) == T \in SUBSET S /\ \A b \in S : OneSkip(t, b, dir, f) \in T
EndsIn(T, t, a, n, f, dir) == \E b \in T : AreaSkip(t, a, n, f) = Skipped(b, dir)

(* SKIP n is the loop of n such rounds, at least one, and the flags after it. *)
LEMMA SkipIsALoop ==
    ASSUME NEW S, NEW T, NEW t, NEW a \in S, NEW f, NEW n \in Int \ {0}, NEW dir,
           dir = (IF n > 0 THEN 1 ELSE -1), Rounds(S, T, t, f, dir)
    PROVE  EndsIn(T, t, a, n, f, dir)
<1> USE DEF Rounds
<1> DEFINE m == n * dir
           Turn(k, b) == IF k > 1 /\ (b.fBof \/ b.fEof) THEN b ELSE OneSkip(t, b, dir, f)
           Body == [k \in 1 .. m |-> [b \in S |-> Turn(k, b)]]
           round == CHOOSE g : g = [k \in 0 .. m |-> IF k = 0 THEN a ELSE Turn(k, g[k - 1])]
<1>0. m \in Nat \ {0}
  OBVIOUS
<1>1. /\ \A k, b : b \in S => Turn(k, b) \in S
      /\ \A k, b : b \in T => Turn(k, b) \in T
      /\ Turn(1, a) \in T
  OBVIOUS
<1>2. Body \in [1 .. m -> [S -> S]]
  BY <1>1
<1>3. PICK g \in [0 .. m -> S] : g[0] = a /\ \A k \in 1 .. m : g[k] = Body[k][g[k - 1]]
  <2>1. Loops(S, m, a, Body) # {}
    <3> HIDE DEF Body, m
    <3> QED
      BY <1>0, <1>2, LoopExists
  <2> HIDE DEF Body, m
  <2> QED
    BY <2>1 DEF Loops
<1>9. AreaSkip(t, a, n, f) = Skipped(round[m], dir)
  BY DEF AreaSkip, OneSkip
<1> HIDE DEF Turn, m
<1>4. g = [k \in 0 .. m |-> IF k = 0 THEN a ELSE Turn(k, g[k - 1])]
  <2>1. ASSUME NEW k \in 0 .. m PROVE g[k] = IF k = 0 THEN a ELSE Turn(k, g[k - 1])
    <3>1. CASE k = 0
      BY <1>3, <3>1
    <3>2. CASE k # 0
      <4>1. k \in 1 .. m /\ k - 1 \in 0 .. m
        BY <1>0, <3>2
      <4>2. g[k - 1] \in S /\ g[k] = Body[k][g[k - 1]]
        BY <1>3, <4>1
      <4> QED
        BY <3>2, <4>1, <4>2
    <3> QED
      BY <3>1, <3>2
  <2> QED
    BY <1>3, <2>1
<1>5. round = [k \in 0 .. m |-> IF k = 0 THEN a ELSE Turn(k, round[k - 1])]
  BY <1>4
<1> HIDE DEF round
<1>6. round[0] = a /\ \A k \in 1 .. m : round[k] = Turn(k, round[k - 1])
  BY <1>0, <1>5
<1>7. round[m] \in T
  <2> DEFINE h == [k \in 0 .. (m - 1) |-> round[k + 1]]
  <2>1. h[0] \in T /\ m - 1 \in Nat
    BY <1>0, <1>1, <1>6
  <2>2. ASSUME NEW k \in 1 .. (m - 1), h[k - 1] \in T PROVE h[k] \in T
    <3>1. k + 1 \in 1 .. m /\ h[k] = round[k + 1] /\ h[k - 1] = round[k] /\ (k + 1) - 1 = k
      BY <1>0
    <3> QED
      BY <1>1, <1>6, <2>2, <3>1
  <2>3. m - 1 \in 0 .. (m - 1) /\ h[m - 1] = round[m]
    BY <1>0
  <2> HIDE DEF h
  <2>4. \A k \in 0 .. (m - 1) : h[k] \in T
    BY <2>1, <2>2, LoopStays
  <2> QED
    BY <2>3, <2>4
<1> QED
  BY <1>7, <1>9 DEF EndsIn

(* SKIP n for every n.                                                      *)
LEMMA SkipIsArea ==
    ASSUME NEW x \in Frame, NEW a \in Area(x), NEW t \in SUBSET Records, NEW f, IsPageSize(f),
           NEW n \in Int \ {0}
    PROVE  AreaSkip(t, a, n, f) \in Area(x)
<1> DEFINE dir == IF n > 0 THEN 1 ELSE -1
<1>1. \A b \in Area(x) : OneSkip(t, b, dir, f) \in Area(x)
  BY GoIsArea DEF OneSkip
<1>2. dir \in {-1, 1}
  OBVIOUS
<1>3. PICK b \in Area(x) : AreaSkip(t, a, n, f) = Skipped(b, dir)
  <2>1. Rounds(Area(x), Area(x), t, f, dir) /\ dir = (IF n > 0 THEN 1 ELSE -1)
    BY <1>1 DEF Rounds
  <2> HIDE DEF dir
  <2>2. EndsIn(Area(x), t, a, n, f, dir)
    BY <2>1, SkipIsALoop
  <2> QED
    BY <2>2 DEF EndsIn
<1> HIDE DEF dir
<1> QED
  BY <1>2, <1>3, SmallSteps

-----------------------------------------------------------------------------
(* The operations.                                                          *)

(* The largest record number of a table.                                    *)
LEMMA LargestRecord ==
    ASSUME NEW S \in SUBSET Records
    PROVE  MaxOf(S) \in 0 .. MaxRec /\ S \subseteq 1 .. MaxOf(S)
<1>0. MaxRec \in Nat
  BY CacheAssumption
<1>1. CASE S = {}
  BY <1>0, <1>1 DEF MaxOf
<1>2. CASE S # {}
  <2> DEFINE T == {MaxRec - r : r \in S}
  <2>1. T \in SUBSET Nat /\ T # {}
    <3>1. \A r \in S : MaxRec - r \in Nat
      BY <1>0 DEF Records
    <3> QED
      BY <1>2, <3>1
  <2> HIDE DEF T
  <2>2. PICK m \in T : \A n \in T : m <= n
    BY <2>1, LeastElement
  <2>3. PICK r \in S : m = MaxRec - r
    BY <2>2 DEF T
  <2>4. \A s \in S : r >= s
    <3> TAKE s \in S
    <3>1. m <= MaxRec - s
      BY <2>2 DEF T
    <3> QED
      BY <1>0, <2>3, <3>1 DEF Records
  <2>5. Max(S) \in S /\ \A s \in S : Max(S) >= s
    BY <2>4 DEF Max
  <2> DEFINE M == Max(S)
  <2>6. MaxOf(S) = M /\ M \in S /\ \A s \in S : M >= s
    BY <1>2, <2>5 DEF MaxOf
  <2> HIDE DEF M
  <2>7. M \in 1 .. MaxRec /\ \A s \in S : s \in 1 .. M
    BY <1>0, <2>6 DEF Records
  <2> QED
    BY <1>0, <2>6, <2>7
<1> QED
  BY <1>1, <1>2

(* Writing the buffer ends the edit.                                        *)
LEMMA WrittenIsArea ==
    ASSUME NEW x \in Frame, NEW a \in Area(x), a.hot = "insert" => a.recno \in 0 .. MaxRec
    PROVE  \E y \in Frame : /\ y.hot = "no" /\ y.order = x.order
                            /\ WriteBuffer(a) \in Area(y)
<1>0. /\ x.hot = a.hot /\ x.order \in 0 .. 1 /\ x.rcount \in 0 .. MaxRec /\ x.order = a.order
      /\ x.rcount = a.rcount /\ x.hot \in {"no", "insert", "update"}
  BY DEF Area, Frame
<1>1. CASE a.hot = "no"
  BY <1>0, <1>1 DEF WriteBuffer
<1>2. CASE a.hot # "no"
  <2> DEFINE c == IF a.hot = "insert" THEN a.recno ELSE a.rcount
             y == [hot |-> "no", order |-> x.order, rcount |-> x.rcount]
             z == [hot |-> "no", order |-> x.order, rcount |-> a.recno]
             b == [Forgotten(a) EXCEPT !.hot = "no", !.bof = FALSE, !.eof = FALSE]
  <2>1. y \in Frame /\ y.hot = "no" /\ y.order = x.order
    BY <1>0 DEF Frame
  <2>2. b \in Area(y) /\ b.cache = a.cache /\ b.recno = a.recno
    <3>1. Forgotten(a) \in Area(x) /\ Forgotten(a).cache = a.cache /\ Forgotten(a).recno = a.recno
      <4>1. Forgotten(a) \in Area(x)
        BY SmallSteps
      <4> QED
        BY <4>1 DEF Forgotten, Area
    <3> QED
      BY <3>1 DEF Area
  <2>3. OneLine(b) \in Area(y)
    BY <2>1, <2>2, SmallSteps
  <2>4. CASE a.hot = "insert"
    <3>1. z \in Frame /\ z.hot = "no" /\ z.order = x.order
      BY <1>0, <2>4 DEF Frame
    <3>2. [OneLine(b) EXCEPT !.rcount = a.recno] \in Area(z)
      BY <2>3 DEF Area
    <3>3. WriteBuffer(a) = [OneLine(b) EXCEPT !.rcount = a.recno]
      BY <2>4 DEF WriteBuffer
    <3> QED
      BY <3>1, <3>2, <3>3
  <2>5. CASE a.hot # "insert"
    <3> DEFINE l == [rec |-> a.key, del |-> a.isDel]
    <3>1. l \in Line
      BY DEF Area, Line
    <3>2. [b.cache EXCEPT ![a.pos] = l] \in [1 .. Lines -> Line]
      BY <2>2, <3>1 DEF Area
    <3>3. [b EXCEPT !.cache[a.pos] = l] = [b EXCEPT !.cache = [b.cache EXCEPT ![a.pos] = l]]
      BY <2>2 DEF Area
    <3>4. WriteBuffer(a) = IF a.begin = 0 /\ a.end = 0 THEN OneLine(b) ELSE [b EXCEPT !.cache[a.pos] = l]
      BY <1>2, <2>5 DEF WriteBuffer
    <3> HIDE DEF b, l
    <3>5. [b EXCEPT !.cache[a.pos] = l] \in Area(y)
      BY <2>2, <3>2, <3>3 DEF Area
    <3> QED
      BY <2>1, <2>3, <3>4, <3>5
  <2> QED
    BY <2>4, <2>5
<1> QED
  BY <1>1, <1>2

(***************************************************************************)
(* The inductive invariant: the area is one, the table's records are among  *)
(* those given out, marks are of records of the table, and a record being   *)
(* appended has a number that was given out and no mark.                    *)
(***************************************************************************)
PInv ==
  /\ \E x \in Frame : wa \in Area(x)
  /\ last \in 0 .. MaxRec /\ rows \subseteq 1 .. last /\ deleted \subseteq rows
  /\ wa.hot = "insert" => wa.recno \in 1 .. last /\ ~wa.isDel
  /\ UseDeleteds \/ deleted = {}

(* What the invariant says of the table and the buffer once it is written.   *)
LEMMA Written ==
    ASSUME PInv
    PROVE  /\ last \in Nat /\ last <= MaxRec /\ 1 .. last \subseteq Records
           /\ WrittenRows \subseteq 1 .. last /\ deleted \subseteq WrittenRows
           /\ WrittenRows \in SUBSET Records
           /\ \E y \in Frame : y.hot = "no" /\ WriteBuffer(wa) \in Area(y)
           /\ \E y \in Frame : y.hot # "insert" /\ ColdBuffer(wa) \in Area(y)
<1>0. MaxRec \in Nat
  BY CacheAssumption
<1>1. PICK x \in Frame : wa \in Area(x)
  BY DEF PInv
<1>2. last \in Nat /\ last <= MaxRec /\ 1 .. last \subseteq Records
  BY <1>0 DEF PInv, Records
<1>3. WrittenRows \subseteq 1 .. last /\ deleted \subseteq WrittenRows
  BY DEF PInv, WrittenRows
<1>4. wa.hot = "insert" => wa.recno \in 0 .. MaxRec
  BY <1>0, <1>2 DEF PInv
<1>5. PICK y \in Frame : y.hot = "no" /\ WriteBuffer(wa) \in Area(y)
  BY <1>1, <1>4, WrittenIsArea
<1>6. \E z \in Frame : z.hot # "insert" /\ ColdBuffer(wa) \in Area(z)
  <2>1. CASE wa.isDel
    <3>1. wa.hot # "insert" /\ x.hot = wa.hot
      BY <1>1, <2>1 DEF PInv, Area
    <3> QED
      BY <1>1, <2>1, <3>1 DEF ColdBuffer
  <2>2. CASE ~wa.isDel
    BY <1>5, <2>2 DEF ColdBuffer
  <2> QED
    BY <2>1, <2>2
<1> QED
  BY <1>2, <1>3, <1>5, <1>6

(* A step to an area without a record being appended.                       *)
LEMMA Kept ==
    ASSUME PInv, NEW y \in Frame, y.hot # "insert", wa' \in Area(y),
           last' \in 0 .. MaxRec, rows' \subseteq 1 .. last', deleted' \subseteq rows',
           UseDeleteds \/ deleted' = {}
    PROVE  PInv'
<1>1. wa'.hot # "insert"
  BY DEF Area
<1> QED
  BY <1>1 DEF PInv, Frame, Area, Line, Nil

(* The page sizes of the code.                                              *)
LEMMA SizesFit ==
    IsPageSize(FetchSize) /\ \A f \in PageSizes : IsPageSize(f)
BY CacheAssumption DEF IsPageSize

(* The moves: the buffer is written, then the area moves over the table.     *)
LEMMA MoveKeeps ==
    ASSUME PInv, Move
    PROVE  PInv'
<1>0. /\ last \in Nat /\ last <= MaxRec /\ MaxRec \in Nat
      /\ WrittenRows \subseteq 1 .. last /\ deleted \subseteq WrittenRows
      /\ WrittenRows \in SUBSET Records
  BY Written, CacheAssumption
<1>1. PICK y \in Frame : y.hot = "no" /\ WriteBuffer(wa) \in Area(y)
  BY Written
<1>2. PICK z \in Frame : z.hot # "insert" /\ ColdBuffer(wa) \in Area(z)
  BY Written
<1>3. ASSUME NEW u \in Frame, u.hot # "insert", wa' \in Area(u), Write PROVE PInv'
  <2>1. /\ last' = last /\ deleted' = deleted /\ rows' = WrittenRows
        /\ last' \in 0 .. MaxRec /\ (UseDeleteds \/ deleted = {})
    BY <1>0, <1>3 DEF Write, PInv
  <2> QED
    BY <1>0, <1>3, <2>1, Kept
<1>4. CASE GoTop
  <2>1. PICK f \in PageSizes : wa' = AreaGoTop(WrittenRows, WriteBuffer(wa), f)
    BY <1>4 DEF GoTop, Write
  <2> QED
    BY <1>0, <1>1, <1>3, <1>4, <2>1, SizesFit, GoIsArea DEF GoTop
<1>5. CASE GoBottom
  <2>1. PICK f \in PageSizes : wa' = AreaGoBottom(WrittenRows, WriteBuffer(wa), f)
    BY <1>5 DEF GoBottom, Write
  <2> QED
    BY <1>0, <1>1, <1>3, <1>5, <2>1, SizesFit, GoIsArea DEF GoBottom
<1>6. ASSUME NEW r \in Targets, GoTo(r) PROVE PInv'
  <2>1. wa' = AreaGoTo(WrittenRows, WriteBuffer(wa), r) /\ r \in Nat
    BY <1>6, CacheAssumption DEF GoTo, Write, Records
  <2> QED
    BY <1>0, <1>1, <1>3, <1>6, <2>1, GoToIsArea DEF GoTo
<1>7. ASSUME NEW n \in Steps, Skip(n) PROVE PInv'
  <2>1. PICK f \in PageSizes : wa' = AreaSkip(WrittenRows, ColdBuffer(wa), n, f)
    BY <1>7 DEF Skip, Write
  <2>2. n \in Int \ {0}
    BY CacheAssumption
  <2> QED
    BY <1>0, <1>2, <1>3, <1>7, <2>1, <2>2, SizesFit, SkipIsArea DEF Skip
<1>8. CASE GoCold
  BY <1>1, <1>3, <1>8 DEF GoCold
<1>9. CASE Bof \/ Eof
  <2>1. PICK x \in Frame : wa \in Area(x)
    BY DEF PInv
  <2>2. wa' \in Area(x) /\ wa'.hot = wa.hot /\ wa'.recno = wa.recno /\ wa'.isDel = wa.isDel
    BY <1>9, <2>1 DEF Bof, Eof, Area
  <2>3. UNCHANGED << rows, deleted, last >>
    BY <1>9 DEF Bof, Eof
  <2> QED
    BY <2>1, <2>2, <2>3 DEF PInv, Frame, Area, Line, Nil
<1> QED
  BY <1>4, <1>5, <1>6, <1>7, <1>8, <1>9 DEF Move

(* The changes of the table and of the order.                               *)
LEMMA ChangeKeeps ==
    ASSUME PInv, Change
    PROVE  PInv'
<1>0. /\ last \in Nat /\ last <= MaxRec /\ MaxRec \in Nat /\ Lines \in Nat
      /\ WrittenRows \subseteq 1 .. last /\ deleted \subseteq WrittenRows
      /\ WrittenRows \in SUBSET Records /\ last \in 0 .. MaxRec
      /\ rows \subseteq 1 .. last /\ deleted \subseteq rows /\ (UseDeleteds \/ deleted = {})
  BY Written, CacheAssumption DEF PInv
<1> DEFINE w == WriteBuffer(wa)
<1>1. PICK y \in Frame : y.hot = "no" /\ w \in Area(y)
  BY Written
<1>2. PICK x \in Frame : wa \in Area(x)
  BY DEF PInv
<1> HIDE DEF w
<1>3. CASE AppendRec
  <2> DEFINE a == SyncFlags([w EXCEPT !.wasdel = FALSE])
             c == CleanBuffer(a)
             v == [hot |-> "insert", order |-> y.order, rcount |-> y.rcount]
  <2>1. a \in Area(y) /\ c \in Area(y)
    BY <1>1, SmallSteps, BlankIsArea
  <2>2. c.isDel = FALSE
    BY <2>1 DEF CleanBuffer, Area
  <2>3. /\ wa' = [c EXCEPT !.hot = "insert", !.recno = last + 1, !.key = last + 1, !.bof = TRUE]
        /\ last < MaxRec /\ last' = last + 1 /\ rows' = WrittenRows /\ deleted' = deleted
    BY <1>3 DEF AppendRec, w
  <2> HIDE DEF c
  <2>4. v \in Frame /\ last + 1 \in 0 .. MaxRec /\ last + 1 \in 0 .. (MaxRec + 1) /\ last + 1 \in 1 .. (last + 1)
    BY <1>0, <1>1, <2>3 DEF Frame
  <2>5. wa' \in Area(v)
    BY <2>1, <2>3, <2>4 DEF Area
  <2>6. wa'.recno = last + 1 /\ wa'.isDel = FALSE
    BY <2>1, <2>2, <2>3 DEF Area
  <2>7. rows' \subseteq 1 .. last' /\ deleted' \subseteq rows'
    BY <1>0, <2>3
  <2> QED
    BY <1>0, <2>3, <2>4, <2>5, <2>6, <2>7 DEF PInv, Area, Frame, Line, Nil
<1>4. CASE PutValue
  <2> DEFINE v == [hot |-> "update", order |-> x.order, rcount |-> x.rcount]
  <2>1. v \in Frame /\ v.hot # "insert"
    BY DEF Frame
  <2>2. wa' \in Area(v)
    BY <1>2, <1>4 DEF PutValue, Area
  <2> HIDE DEF v
  <2> QED
    BY <1>0, <1>4, <2>1, <2>2, Kept DEF PutValue
<1>5. CASE DeleteRec
  <2>1. /\ w.recno \in WrittenRows
        /\ wa' = IF UseDeleteds THEN MarkDeleted(w) ELSE RemoveDeleted(w)
        /\ rows' = IF UseDeleteds THEN WrittenRows ELSE WrittenRows \ {w.recno}
        /\ deleted' = IF UseDeleteds THEN deleted \cup {w.recno} ELSE deleted
        /\ last' = last
    BY <1>5 DEF DeleteRec, w
  <2>2. CASE UseDeleteds
    <3> DEFINE cache == IF w.pos > 0 THEN [w.cache EXCEPT ![w.pos].del = TRUE] ELSE w.cache
    <3>1. cache \in [1 .. Lines -> Line]
      <4>1. CASE w.pos > 0
        <5>1. w.pos \in 1 .. Lines /\ w.cache \in [1 .. Lines -> Line]
          BY <1>0, <1>1, <4>1 DEF Area
        <5>2. [w.cache[w.pos] EXCEPT !.del = TRUE] \in Line
          BY <2>2, <5>1 DEF Line
        <5> QED
          BY <4>1, <5>1, <5>2
      <4>2. CASE ~(w.pos > 0)
        BY <1>1, <4>2 DEF Area
      <4> QED
        BY <4>1, <4>2
    <3>2. MarkDeleted(w) = [w EXCEPT !.isDel = TRUE, !.wasdel = TRUE, !.cache = cache]
      BY DEF MarkDeleted
    <3> HIDE DEF cache
    <3>3. MarkDeleted(w) \in Area(y)
      BY <1>1, <3>1, <3>2 DEF Area
    <3> QED
      BY <1>0, <1>1, <2>1, <2>2, <3>3, Kept
  <2>3. CASE ~UseDeleteds
    <3> DEFINE cache == IF w.pos # 0 THEN [w.cache EXCEPT ![w.pos] = Nil] ELSE w.cache
               e == IF w.recno \in {w.eofAt, w.bofAt} THEN 0 ELSE w.eofAt
    <3>1. cache \in [1 .. Lines -> Line] /\ e \in 0 .. (MaxRec + 1)
      <4>1. Nil \in Line
        BY <2>3 DEF Line
      <4> QED
        BY <1>0, <1>1, <4>1 DEF Area
    <3>2. RemoveDeleted(w) = [w EXCEPT !.isDel = TRUE, !.wasdel = TRUE, !.eofAt = e, !.cache = cache]
      BY DEF RemoveDeleted
    <3> HIDE DEF cache, e
    <3>3. RemoveDeleted(w) \in Area(y)
      BY <1>1, <3>1, <3>2 DEF Area
    <3> QED
      BY <1>0, <1>1, <2>1, <2>3, <3>3, Kept
  <2> QED
    BY <2>2, <2>3
<1>6. CASE Recall
  <2>1. /\ UseDeleteds /\ w.pos # 0 /\ rows' = WrittenRows /\ deleted' = deleted \ {w.recno}
        /\ wa' = [w EXCEPT !.isDel = FALSE, !.cache[w.pos].del = FALSE] /\ last' = last
    BY <1>6 DEF Recall, w
  <2>2. w.pos \in 1 .. Lines /\ w.cache \in [1 .. Lines -> Line]
    BY <1>0, <1>1, <2>1 DEF Area
  <2>3. [w.cache[w.pos] EXCEPT !.del = FALSE] \in Line
    BY <2>1, <2>2 DEF Line
  <2> DEFINE cache == [w.cache EXCEPT ![w.pos] = [w.cache[w.pos] EXCEPT !.del = FALSE]]
  <2>4. cache \in [1 .. Lines -> Line]
    BY <2>2, <2>3
  <2>5. wa' = [w EXCEPT !.isDel = FALSE, !.cache = cache]
    BY <1>1, <2>1, <2>2 DEF Area
  <2> HIDE DEF cache
  <2>6. wa' \in Area(y)
    BY <1>1, <2>4, <2>5 DEF Area
  <2> QED
    BY <1>0, <1>1, <2>1, <2>6, Kept
<1>7. CASE Pack
  <2>1. /\ rows' = WrittenRows \ deleted /\ deleted' = {} /\ last' = last
        /\ \E f \in PageSizes : wa' = AreaGoTop(rows', Refresh(w), f)
    BY <1>7 DEF Pack, w
  <2>2. Refresh(w) \in Area(y)
    <3>1. Forgotten(w) \in Area(y)
      BY <1>1, SmallSteps
    <3> QED
      BY <3>1, SmallSteps DEF Refresh
  <2>3. rows' \in SUBSET Records
    BY <1>0, <2>1
  <2>4. wa' \in Area(y)
    BY <2>1, <2>2, <2>3, SizesFit, GoIsArea
  <2> QED
    BY <1>0, <1>1, <2>1, <2>4, Kept
<1>8. CASE Zap
  <2> DEFINE c == EmptyCache(Forgotten(w))
             d == [c EXCEPT !.eof = TRUE, !.bof = TRUE, !.wasdel = FALSE]
  <2>1. rows' = {} /\ deleted' = {} /\ last' = last /\ wa' = SyncFlags(d)
    BY <1>8 DEF Zap, w
  <2>2. c \in Area(y)
    BY <1>1, SmallSteps
  <2> HIDE DEF c
  <2>3. d \in Area(y)
    BY <2>2 DEF Area
  <2>4. wa' \in Area(y)
    BY <2>1, <2>3, SmallSteps
  <2> QED
    BY <1>0, <1>1, <2>1, <2>4, Kept
<1>9. ASSUME NEW o \in 0 .. 1, SetOrder(o) PROVE PInv'
  <2> DEFINE a == [Forgotten(wa) EXCEPT !.order = o]
             v == [hot |-> x.hot, order |-> o, rcount |-> x.rcount]
  <2>1. v \in Frame
    BY DEF Frame
  <2>2. Forgotten(wa) \in Area(x)
    BY <1>2, SmallSteps
  <2>3. a \in Area(v) /\ a.recno = wa.recno /\ a.isDel = wa.isDel /\ a.hot = wa.hot
    BY <1>2, <2>2 DEF Forgotten, Area
  <2>4. (wa' = OneLine(a) \/ wa' = EmptyCache(a)) /\ UNCHANGED << rows, deleted, last >>
    BY <1>9 DEF SetOrder
  <2> HIDE DEF a, v
  <2>5. wa' \in Area(v)
    BY <2>1, <2>3, <2>4, SmallSteps
  <2>6. wa'.recno = wa.recno /\ wa'.isDel = wa.isDel /\ wa'.hot = wa.hot
    BY <2>3, <2>4 DEF OneLine, EmptyCache, Area
  <2> QED
    BY <2>1, <2>4, <2>5, <2>6 DEF PInv, Area, Frame, Line, Nil
<1>10. ASSUME wa' = CheckCache(wa), last' \in last .. MaxRec, rows' \subseteq 1 .. last',
              deleted' \subseteq rows', UseDeleteds \/ deleted' = {}
       PROVE  PInv'
  <2>1. wa' \in Area(x)
    BY <1>2, <1>10, SmallSteps DEF CheckCache
  <2>2. wa'.recno = wa.recno /\ wa'.isDel = wa.isDel /\ wa'.hot = wa.hot
    BY <1>2, <1>10 DEF CheckCache, Forgotten, EmptyCache, Area
  <2>3. wa.recno \in 1 .. last => wa.recno \in 1 .. last'
    BY <1>0, <1>10
  <2>4. last' \in 0 .. MaxRec
    BY <1>0, <1>10
  <2>5. wa'.hot = "insert" => wa'.recno \in 1 .. last' /\ ~wa'.isDel
    BY <2>2, <2>3 DEF PInv
  <2> QED
    BY <1>10, <2>1, <2>4, <2>5 DEF PInv, Area, Frame, Line, Nil
<1>11. CASE SiblingInsert
  BY <1>0, <1>10, <1>11 DEF SiblingInsert
<1>12. ASSUME NEW r \in Records, SiblingDelete(r) PROVE PInv'
  BY <1>0, <1>10, <1>12 DEF SiblingDelete
<1> QED
  BY <1>3, <1>4, <1>5, <1>6, <1>7, <1>8, <1>9, <1>11, <1>12 DEF Change

(* An area just opened has had its first GO TOP.                            *)
LEMMA InitKeeps == Init => PInv
<1> SUFFICES ASSUME Init PROVE PInv
  OBVIOUS
<1> DEFINE m == MaxOf(FirstRows)
<1>1. FirstRows \in SUBSET Records /\ m \in 0 .. MaxRec /\ FirstRows \subseteq 1 .. m
  BY CacheAssumption, LargestRecord
<1>2. PICK o \in 0 .. 1 : wa = AreaGoTop(FirstRows, InitialArea(o), FetchSize)
  BY DEF Init
<1>3. rows = FirstRows /\ deleted = FirstMarked /\ last = m
  BY DEF Init
<1> DEFINE x == [hot |-> "no", order |-> o, rcount |-> m]
<1> HIDE DEF m
<1>4. x \in Frame /\ x.hot # "insert"
  BY <1>1 DEF Frame
<1>5. InitialArea(o) \in Area(x)
  <2>1. [i \in 1 .. Lines |-> Unfilled] \in [1 .. Lines -> Line]
    BY CacheAssumption DEF Unfilled, Line
  <2> QED
    BY <1>1, <2>1, CacheAssumption DEF InitialArea, Area, m
<1>6. wa \in Area(x)
  BY <1>1, <1>2, <1>4, <1>5, SizesFit, GoIsArea
<1>7. wa.hot = "no"
  BY <1>6 DEF Area
<1> QED
  BY <1>1, <1>3, <1>4, <1>6, <1>7, CacheAssumption DEF PInv

(* The invariant is inductive.                                              *)
LEMMA PInvInductive == Spec => []PInv
<1>1. PInv /\ [Next]_vars => PInv'
  <2> SUFFICES ASSUME PInv, [Next]_vars PROVE PInv'
    OBVIOUS
  <2>1. CASE Next
    BY <2>1, MoveKeeps, ChangeKeeps DEF Next
  <2>2. CASE UNCHANGED vars
    BY <2>2 DEF vars, PInv, Area, Frame, Line, Nil
  <2> QED
    BY <2>1, <2>2
<1> QED
  BY <1>1, InitKeeps, PTL DEF Spec

(***************************************************************************)
(* TypeOK, for a ring of any length, pages of any size that fit, tables of  *)
(* any number of records with keys of any number of columns, with and       *)
(* without the column of deleted marks, and in every corner: whatever a     *)
(* user does, the pointers of the ring stay on its lines, a line, a mark    *)
(* and the buffer hold numbers the table gave out, and marked records are   *)
(* records of the table.                                                    *)
(***************************************************************************)
THEOREM RingTyping == Spec => []TypeOK
<1>1. PInv => TypeOK
  <2> SUFFICES ASSUME PInv PROVE TypeOK
    OBVIOUS
  <2>1. PICK x \in Frame : wa \in Area(x)
    BY DEF PInv
  <2>2. wa.cache \in [1 .. Lines -> Line] /\ wa.rcount \in 0 .. MaxRec
    BY <2>1 DEF Area, Frame
  <2>3. \A i \in 1 .. Lines : LineOK(wa.cache[i])
    <3> TAKE i \in 1 .. Lines
    <3> DEFINE l == wa.cache[i]
    <3>1. l \in [rec : 0 .. MaxRec, del : BOOLEAN] \/ l = [rec |-> -1, del |-> FALSE]
      BY <2>2 DEF Line, Nil
    <3> HIDE DEF l
    <3>2. l.rec \in 0 .. MaxRec \/ l.rec = -1
      BY <3>1
    <3>3. l.rec \in -1 .. MaxRec
      BY <3>2, CacheAssumption
    <3>4. l.del \in BOOLEAN
      <4>1. CASE l \in [rec : 0 .. MaxRec, del : BOOLEAN]
        BY <4>1
      <4>2. CASE l = [rec |-> -1, del |-> FALSE]
        <5>1. l.del = FALSE
          BY <4>2
        <5> QED
          BY <5>1
      <4> QED
        BY <3>1, <4>1, <4>2
    <3> QED
      BY <3>3, <3>4 DEF LineOK, l
  <2>4. rows \subseteq 1 .. last /\ deleted \subseteq rows /\ last \in 0 .. MaxRec
    BY DEF PInv
  <2>5. /\ wa.pos \in 0 .. Lines /\ wa.begin \in 0 .. Lines /\ wa.end \in 0 .. Lines
        /\ wa.recno \in 0 .. MaxRec + 1 /\ wa.key \in 0 .. MaxRec
        /\ wa.bofAt \in 0 .. MaxRec + 1 /\ wa.eofAt \in 0 .. MaxRec + 1
    BY <2>1 DEF Area
  <2> QED
    BY <2>1, <2>2, <2>3, <2>4, <2>5 DEF TypeOK
<1> QED
  BY <1>1, PInvInductive, PTL
=============================================================================
