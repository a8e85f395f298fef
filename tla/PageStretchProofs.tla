------------------------- MODULE PageStretchProofs --------------------------
(***************************************************************************)
(* What the ring of cached records holds: a stretch of the table, and the   *)
(* ends of the table in the marks; and that the moves go where they should. *)
(* For rings, pages, indexes and tables of any size.                        *)
(*                                                                         *)
(* The argument, from the bottom up:                                        *)
(*   - the lines in use are counted from BEGIN on, so that the wrap around  *)
(*     the end of the ring is in two lemmas (RingTurn, RangeIsSpan);        *)
(*   - the rows of a page are records that follow each other (RunsUp,       *)
(*     RunsDown), and the room made for them spares a part of the old       *)
(*     stretch next to which they are put (RoomForward, RoomBackward);      *)
(*   - an operator takes an area that is Good, on a record in a stretch     *)
(*     with right marks or past the end, to one that is Good, and says      *)
(*     where it is (UpAt, DownAt, TopsOut, BottomsOut);                     *)
(*   - RInv says when the area is Good between two calls: always but with   *)
(*     a new record in the buffer, whose write leaves one line.             *)
(* The hypotheses are in Plain.  Each is the limit of what the code gives:  *)
(* without it there is a behaviour that leaves CacheIsAStretch or           *)
(* MarksAreEnds.                                                            *)
(***************************************************************************)
EXTENDS PageCacheProofs

-----------------------------------------------------------------------------
(* The ring: lines counted from the first one in use.                       *)
Span(a) == IF a.begin <= a.end THEN a.end - a.begin ELSE a.end + Lines - a.begin

(* Less than one turn ahead of a line there is another line, each its own.   *)
LEMMA RingTurn ==
    ASSUME NEW b \in 1 .. Lines, NEW i \in 0 .. (Lines - 1)
    PROVE  /\ FixCachePointer(b + i) \in 1 .. Lines
           /\ \A j \in 0 .. (Lines - 1) : FixCachePointer(b + i) = FixCachePointer(b + j) => i = j
           /\ \A j \in 0 .. Lines :
                FixCachePointer(FixCachePointer(b + i) + j)
                  = IF i + j < Lines THEN FixCachePointer(b + (i + j))
                    ELSE FixCachePointer(b + (i + j - Lines))
           /\ \A j \in 0 .. i :
                FixCachePointer(FixCachePointer(b + i) - j) = FixCachePointer(b + (i - j))
BY CacheAssumption DEF FixCachePointer

(* The lines in range are those from the begin to the end.                   *)
LEMMA RangeIsSpan ==
    ASSUME NEW a, a.begin \in 1 .. Lines, a.end \in 1 .. Lines
    PROVE  /\ Span(a) \in 0 .. (Lines - 1) /\ FixCachePointer(a.begin + Span(a)) = a.end
           /\ \A p \in 1 .. Lines :
                InRange(a, p) <=> \E k \in 0 .. Span(a) : p = FixCachePointer(a.begin + k)
<1>0. Lines \in Nat
  BY CacheAssumption
<1>1. Span(a) \in 0 .. (Lines - 1) /\ FixCachePointer(a.begin + Span(a)) = a.end
  BY <1>0 DEF Span, FixCachePointer
<1>2. ASSUME NEW p \in 1 .. Lines, InRange(a, p)
      PROVE  \E k \in 0 .. Span(a) : p = FixCachePointer(a.begin + k)
  <2> DEFINE k == IF p >= a.begin THEN p - a.begin ELSE p + Lines - a.begin
  <2>1. k \in 0 .. Span(a) /\ p = FixCachePointer(a.begin + k)
    BY <1>0, <1>2 DEF InRange, IsCachePointerInRange, Span, FixCachePointer
  <2> QED
    BY <2>1
<1>3. ASSUME NEW p \in 1 .. Lines, NEW k \in 0 .. Span(a), p = FixCachePointer(a.begin + k)
      PROVE  InRange(a, p)
  BY <1>0, <1>3 DEF InRange, IsCachePointerInRange, Span, FixCachePointer
<1> QED
  BY <1>1, <1>2, <1>3

(* Without NIL lines a search looks at one line.                             *)
LEMMA SearchIs ==
    ASSUME UseDeleteds, NEW x \in Frame, NEW a \in Area(x), NEW dir \in {-1, 1},
           NEW prev \in 0 .. Lines, NEW p,
           p = FixCachePointer(IF prev # 0 THEN a.pos + dir ELSE a.pos)
    PROVE  SearchCache(a, dir, prev) = IF a.pos # 0 /\ InRange(a, p) THEN p ELSE 0
<1> DEFINE At0(d) == FixCachePointer(p + dir * d)
           hits == {d \in 0 .. (Lines - 1) :
                      /\ a.cache[At0(d)] # Nil
                      /\ \A c \in 0 .. d : InRange(a, At0(c))}
<1>0. Lines \in Nat /\ Lines > 3 /\ a.pos \in 0 .. Lines /\ a.cache \in [1 .. Lines -> Line]
  BY CacheAssumption DEF Area
<1>1. SearchCache(a, dir, prev) = IF a.pos = 0 \/ hits = {} THEN 0 ELSE At0(Min(hits))
  BY DEF SearchCache
<1>2. CASE a.pos = 0
  BY <1>1, <1>2
<1>3. CASE a.pos # 0
  <2>1. p \in 1 .. Lines
    BY <1>0, <1>3 DEF FixCachePointer
  <2>2. At0(0) = p
    BY <1>0, <2>1 DEF FixCachePointer
  <2>3. a.cache[p] # Nil
    BY <1>0, <2>1 DEF Line, Nil
  <2> HIDE DEF At0
  <2>4. \A d \in hits : InRange(a, p)
    BY <2>2
  <2>5. ASSUME InRange(a, p) PROVE 0 \in hits /\ Min(hits) = 0
    <3>1. 0 \in hits
      BY <1>0, <2>2, <2>3, <2>5
    <3>2. \A d \in hits : 0 <= d /\ d \in Nat
      OBVIOUS
    <3> HIDE DEF hits
    <3>3. \A d \in hits : (\A c \in hits : d <= c) => d = 0
      BY <3>1, <3>2
    <3> QED
      BY <3>1, <3>2, <3>3 DEF Min
  <2> HIDE DEF hits
  <2> QED
    BY <1>1, <1>3, <2>2, <2>4, <2>5
<1> QED
  BY <1>2, <1>3
-----------------------------------------------------------------------------
(* The rows of a page: consecutive records of the table.                    *)
IsFirst(o, r, t) == r \in t /\ \A s \in t \ {r} : Before(o, r, s)
IsLast(o, r, t)  == r \in t /\ \A s \in t \ {r} : Before(o, s, r)

(* q lists records of t that follow each other, up to the last one of t.     *)
RunsUp(o, q, t) ==
  /\ q \in Seq(t) /\ q # << >>
  /\ \A i \in 1 .. (Len(q) - 1) : Follows(o, q[i], q[i + 1], t)
  /\ IsLast(o, q[Len(q)], t)

(* q lists records of t that precede each other, down to the first one of t. *)
RunsDown(o, q, t) ==
  /\ q \in Seq(t) /\ q # << >>
  /\ \A i \in 1 .. (Len(q) - 1) : Follows(o, q[i + 1], q[i], t)
  /\ IsFirst(o, q[Len(q)], t)

(* ORDER BY over records of t that nothing of t outside them follows.        *)
LEMMA AscendingRuns ==
    ASSUME NEW o \in 0 .. 1, NEW t \in SUBSET Records, NEW S \in SUBSET t, S # {},
           \A r \in S, s \in t : Before(o, r, s) => s \in S
    PROVE  /\ RunsUp(o, Ascending(o, S), t)
           /\ \A s \in S : s = Ascending(o, S)[1] \/ Before(o, Ascending(o, S)[1], s)
<1> DEFINE q == Ascending(o, S)
           n == Cardinality(S)
<1>0. S \in SUBSET Records
  OBVIOUS
<1>1. /\ q \in Seq(S) /\ Len(q) = n /\ n \in Nat
      /\ \A i, j \in 1 .. n : i < j <=> Before(o, q[i], q[j])
      /\ \A r \in S : \E i \in 1 .. n : q[i] = r
  BY <1>0, AscendingRows, Zenon
<1> HIDE DEF q, n
<1>2. n # 0
  BY <1>1
<1>3. q \in Seq(t) /\ q # << >> /\ \A i \in 1 .. n : q[i] \in S /\ q[i] \in t /\ q[i] \in Records
  BY <1>1, <1>2
<1>4. ASSUME NEW i \in 1 .. (n - 1) PROVE Follows(o, q[i], q[i + 1], t)
  <2>1. i \in 1 .. n /\ i + 1 \in 1 .. n /\ Before(o, q[i], q[i + 1])
    BY <1>1
  <2>2. ASSUME NEW s \in t, Before(o, q[i], s), Before(o, s, q[i + 1]) PROVE FALSE
    <3>1. PICK j \in 1 .. n : q[j] = s
      BY <1>1, <1>3, <2>1, <2>2
    <3>2. i < j /\ j < i + 1
      BY <1>1, <2>1, <2>2, <3>1
    <3> QED
      BY <3>1, <3>2
  <2> QED
    BY <2>1, <2>2 DEF Follows
<1>5. IsLast(o, q[n], t)
  <2>1. n \in 1 .. n
    BY <1>1, <1>2
  <2>2. ASSUME NEW s \in t, s # q[n] PROVE Before(o, s, q[n])
    <3>1. CASE s \in S
      <4>1. PICK j \in 1 .. n : q[j] = s
        BY <1>1, <3>1
      <4>2. j < n
        BY <1>1, <2>2, <4>1
      <4> QED
        BY <1>1, <2>1, <4>1, <4>2
    <3>2. CASE s \notin S
      BY <1>3, <2>1, <2>2, <3>2, OrderIsTotal
    <3> QED
      BY <3>1, <3>2
  <2> QED
    BY <1>3, <2>1, <2>2 DEF IsLast
<1>6. ASSUME NEW s \in S PROVE s = q[1] \/ Before(o, q[1], s)
  <2>1. PICK j \in 1 .. n : q[j] = s
    BY <1>1
  <2>2. 1 \in 1 .. n /\ (j = 1 \/ 1 < j)
    BY <1>1, <1>2
  <2> QED
    BY <1>1, <2>1, <2>2
<1>7. RunsUp(o, q, t)
  BY <1>1, <1>3, <1>4, <1>5 DEF RunsUp
<1> QED
  BY <1>6, <1>7 DEF q

(* The same downwards.                                                      *)
LEMMA DescendingRuns ==
    ASSUME NEW o \in 0 .. 1, NEW t \in SUBSET Records, NEW S \in SUBSET t, S # {},
           \A r \in S, s \in t : Before(o, s, r) => s \in S
    PROVE  /\ RunsDown(o, Descending(o, S), t)
           /\ \A s \in S : s = Descending(o, S)[1] \/ Before(o, s, Descending(o, S)[1])
<1> DEFINE q == Descending(o, S)
           n == Cardinality(S)
<1>1. /\ q \in Seq(S) /\ Len(q) = n /\ n \in Nat
      /\ \A i, j \in 1 .. n : i < j <=> Before(o, q[j], q[i])
      /\ \A r \in S : \E i \in 1 .. n : q[i] = r
  <2>1. S \in SUBSET Records
    OBVIOUS
  <2>2. n \in Nat
    BY <2>1, AscendingRows
  <2> QED
    BY <2>1, <2>2, DescendingRows
<1> HIDE DEF q, n
<1>2. n # 0
  BY <1>1
<1>3. q \in Seq(t) /\ q # << >> /\ \A i \in 1 .. n : q[i] \in S /\ q[i] \in t /\ q[i] \in Records
  BY <1>1, <1>2
<1>4. ASSUME NEW i \in 1 .. (n - 1) PROVE Follows(o, q[i + 1], q[i], t)
  <2>1. i \in 1 .. n /\ i + 1 \in 1 .. n /\ Before(o, q[i + 1], q[i])
    BY <1>1
  <2>2. ASSUME NEW s \in t, Before(o, q[i + 1], s), Before(o, s, q[i]) PROVE FALSE
    <3>1. PICK j \in 1 .. n : q[j] = s
      BY <1>1, <1>3, <2>1, <2>2
    <3>2. i < j /\ j < i + 1
      BY <1>1, <2>1, <2>2, <3>1
    <3> QED
      BY <3>1, <3>2
  <2> QED
    BY <2>1, <2>2 DEF Follows
<1>5. IsFirst(o, q[n], t)
  <2>1. n \in 1 .. n
    BY <1>1, <1>2
  <2>2. ASSUME NEW s \in t, s # q[n] PROVE Before(o, q[n], s)
    <3>1. CASE s \in S
      <4>1. PICK j \in 1 .. n : q[j] = s
        BY <1>1, <3>1
      <4>2. j < n
        BY <1>1, <2>2, <4>1
      <4> QED
        BY <1>1, <2>1, <4>1, <4>2
    <3>2. CASE s \notin S
      BY <1>3, <2>1, <2>2, <3>2, OrderIsTotal
    <3> QED
      BY <3>1, <3>2
  <2> QED
    BY <1>3, <2>1, <2>2 DEF IsFirst
<1>6. ASSUME NEW s \in S PROVE s = q[1] \/ Before(o, s, q[1])
  <2>1. PICK j \in 1 .. n : q[j] = s
    BY <1>1
  <2>2. 1 \in 1 .. n /\ (j = 1 \/ 1 < j)
    BY <1>1, <1>2
  <2> QED
    BY <1>1, <2>1, <2>2
<1>7. RunsDown(o, q, t)
  BY <1>1, <1>3, <1>4, <1>5 DEF RunsDown
<1> QED
  BY <1>6, <1>7 DEF q

(* What the WHERE clause of a page selects, seen from a record.              *)
LEMMA ClauseSelects ==
    ASSUME NEW o \in 0 .. 1, NEW key \in Records, NEW r \in Records
    PROVE  /\ WhereMajor(Width(o), KeyOf(o, key), KeyOf(o, r)) <=> r = key \/ Before(o, key, r)
           /\ WhereMinor(Width(o), KeyOf(o, key), KeyOf(o, r)) <=> r = key \/ Before(o, r, key)
<1>1. /\ Width(o) \in Nat /\ Width(o) \in 1 .. Width(o)
      /\ KeyOf(o, key) \in [1 .. Width(o) -> Int] /\ KeyOf(o, key)[Width(o)] = key
      /\ KeyOf(o, r) \in [1 .. Width(o) -> Int] /\ KeyOf(o, r)[Width(o)] = r
  BY KeyFacts
<1>2. (\A i \in 1 .. Width(o) : KeyOf(o, r)[i] = KeyOf(o, key)[i]) <=> r = key
  BY <1>1
<1>3. /\ WhereMajor(Width(o), KeyOf(o, key), KeyOf(o, r))
           <=> AtOrAfter(Width(o), KeyOf(o, key), KeyOf(o, r))
      /\ WhereMinor(Width(o), KeyOf(o, key), KeyOf(o, r))
           <=> AtOrBefore(Width(o), KeyOf(o, key), KeyOf(o, r))
  BY <1>1, WhereMajorIsTheOrder, WhereMinorIsTheOrder
<1> QED
  BY <1>2, <1>3 DEF AtOrAfter, AtOrBefore, Before

(* The rows of a page: the current record, and those next to it.             *)
LEMMA PageRuns ==
    ASSUME NEW x \in Frame, NEW a \in Area(x), NEW t \in SUBSET Records, a.key \in t
    PROVE  /\ RunsUp(a.order, PageOf(t, a, 1), t) /\ PageOf(t, a, 1)[1] = a.key
           /\ RunsDown(a.order, PageOf(t, a, -1), t) /\ PageOf(t, a, -1)[1] = a.key
<1> DEFINE o == a.order
           U == {r \in t : WhereMajor(Width(o), KeyOf(o, a.key), KeyOf(o, r))}
           D == {r \in t : WhereMinor(Width(o), KeyOf(o, a.key), KeyOf(o, r))}
<1>0. o \in 0 .. 1 /\ a.key \in Records
  BY DEF Area, Frame
<1>1. PageOf(t, a, 1) = Ascending(o, U) /\ PageOf(t, a, -1) = Descending(o, D)
  BY DEF PageOf
<1>2. /\ \A r \in t : r \in U <=> r = a.key \/ Before(o, a.key, r)
      /\ \A r \in t : r \in D <=> r = a.key \/ Before(o, r, a.key)
  BY <1>0, ClauseSelects
<1>3. U \in SUBSET t /\ a.key \in U /\ D \in SUBSET t /\ a.key \in D
  BY <1>2
<1> HIDE DEF U, D, o
<1>4. \A r \in U, s \in t : Before(o, r, s) => s \in U
  BY <1>0, <1>2, <1>3, OrderIsTotal
<1>5. \A r \in D, s \in t : Before(o, s, r) => s \in D
  BY <1>0, <1>2, <1>3, OrderIsTotal
<1>6. /\ RunsUp(o, Ascending(o, U), t)
      /\ a.key = Ascending(o, U)[1] \/ Before(o, Ascending(o, U)[1], a.key)
  BY <1>0, <1>3, <1>4, AscendingRuns
<1>7. /\ RunsDown(o, Descending(o, D), t)
      /\ a.key = Descending(o, D)[1] \/ Before(o, a.key, Descending(o, D)[1])
  BY <1>0, <1>3, <1>5, DescendingRuns
<1>8. Ascending(o, U)[1] \in U /\ Descending(o, D)[1] \in D
  <2>1. Ascending(o, U) \in Seq(U) /\ Descending(o, D) \in Seq(D)
    BY <1>0, <1>3, AscendingRows, DescendingRows
  <2>2. Ascending(o, U) # << >> /\ Descending(o, D) # << >>
    BY <1>6, <1>7 DEF RunsUp, RunsDown
  <2> QED
    BY <2>1, <2>2
<1>9. Ascending(o, U)[1] = a.key
  <2>1. Ascending(o, U)[1] \in t /\ Ascending(o, U)[1] \in Records
    BY <1>3, <1>8
  <2> QED
    BY <1>0, <1>2, <1>6, <1>8, <2>1, OrderIsTotal
<1>10. Descending(o, D)[1] = a.key
  <2>1. Descending(o, D)[1] \in t /\ Descending(o, D)[1] \in Records
    BY <1>3, <1>8
  <2> QED
    BY <1>0, <1>2, <1>7, <1>8, <2>1, OrderIsTotal
<1> QED
  BY <1>1, <1>6, <1>7, <1>9, <1>10 DEF o

(* The rows of the whole table, as GO TOP and GO BOTTOM select them.         *)
LEMMA TableRuns ==
    ASSUME NEW o \in 0 .. 1, NEW t \in SUBSET Records, t # {}
    PROVE  /\ RunsUp(o, Ascending(o, t), t) /\ IsFirst(o, Ascending(o, t)[1], t)
           /\ RunsDown(o, Descending(o, t), t) /\ IsLast(o, Descending(o, t)[1], t)
<1>1. /\ RunsUp(o, Ascending(o, t), t)
      /\ \A s \in t : s = Ascending(o, t)[1] \/ Before(o, Ascending(o, t)[1], s)
  BY AscendingRuns
<1>2. /\ RunsDown(o, Descending(o, t), t)
      /\ \A s \in t : s = Descending(o, t)[1] \/ Before(o, s, Descending(o, t)[1])
  BY DescendingRuns
<1>3. Ascending(o, t)[1] \in t /\ Descending(o, t)[1] \in t
  BY <1>1, <1>2 DEF RunsUp, RunsDown
<1> QED
  BY <1>1, <1>2, <1>3 DEF IsFirst, IsLast
-----------------------------------------------------------------------------
(* A page in the ring.                                                      *)

(* What storing a page leaves alone.                                         *)
SameFlags(b, a) ==
  /\ b.order = a.order /\ b.rcount = a.rcount /\ b.hot = a.hot /\ b.wasdel = a.wasdel
  /\ b.bof = a.bof /\ b.eof = a.eof /\ b.fBof = a.fBof /\ b.fEof = a.fEof

(* The record in the buffer is the one on line NPOSCACHE.                    *)
Shows(b) == b.key = b.recno /\ b.cache[b.pos] = [rec |-> b.recno, del |-> b.isDel]

(* The line a record is loaded from becomes the buffer.                      *)
LEMMA LoadShows ==
    ASSUME UseDeleteds, NEW x \in Frame, NEW a \in Area(x), NEW p \in 1 .. Lines
    PROVE  LET b == SetCurrentFromCache(a, p)
           IN  /\ b \in Area(x) /\ Shows(b) /\ SameFlags(b, a) /\ b.recno = a.cache[p].rec
               /\ b.pos = p /\ b.cache = a.cache /\ b.begin = a.begin /\ b.end = a.end
               /\ b.bofAt = a.bofAt /\ b.eofAt = a.eofAt
<1>0. a.cache[p] \in Line
  BY DEF Area
<1>1. a.cache[p] \in Line /\ a.cache[p] # Nil
  BY <1>0 DEF Line, Nil
<1>2. a.cache[p] = [rec |-> a.cache[p].rec, del |-> a.cache[p].del]
  BY <1>1 DEF Line
<1>3. SetCurrentFromCache(a, p) \in Area(x)
  BY <1>1, CurrentIsArea
<1> QED
  BY <1>2, <1>3 DEF SetCurrentFromCache, Area, Shows, SameFlags

(* The rows q are on the lines from first on, the other lines as they were,  *)
(* and a page shorter than f + 1 rows has left its end and its mark.          *)
Holds(b, a, q, dir, f, first) ==
  LET Where(k) == FixCachePointer(first + dir * (k - 1))
      m == Len(q)
  IN  /\ b.pos = a.pos /\ SameFlags(b, a) /\ Shows(b)
      /\ \A k \in 1 .. m : b.cache[Where(k)] = Row(q[k])
      /\ \A i \in 1 .. Lines : (\A k \in 1 .. m : i # Where(k)) => b.cache[i] = a.cache[i]
      /\ dir = 1 => /\ b.begin = a.begin /\ b.bofAt = a.bofAt
                    /\ b.end = IF m = f + 1 THEN a.end ELSE Where(m)
                    /\ b.eofAt = IF m = f + 1 THEN a.eofAt ELSE q[m]
      /\ dir = -1 => /\ b.end = a.end /\ b.eofAt = a.eofAt
                     /\ b.begin = IF m = f + 1 THEN a.begin ELSE Where(m)
                     /\ b.bofAt = IF m = f + 1 THEN a.bofAt ELSE q[m]

(* The lines the rows of a page go to, one after the other.                  *)
LEMMA StoredLines ==
    ASSUME UseDeleteds, NEW x \in Frame, NEW a \in Area(x), a.pos \in 1 .. Lines,
           NEW q \in Seq(Records), q # << >>, NEW dir \in {-1, 1},
           NEW f \in Nat, f + 3 <= Lines, Len(q) <= f + 1, NEW first \in 1 .. Lines
    PROVE  /\ StoreAt(a, q, dir, f, first, first) \in Area(x)
           /\ Holds(StoreAt(a, q, dir, f, first, first), a, q, dir, f, first)
<1> DEFINE Where(k) == FixCachePointer(first + dir * (k - 1))
           m == Len(q)
           Is(i) == IF \E k \in 2 .. Len(q) : Where(k) = i
                      THEN Row(q[CHOOSE k \in 2 .. Len(q) : Where(k) = i])
                    ELSE IF i = first THEN Row(q[1]) ELSE a.cache[i]
           cache == [i \in 1 .. Lines |-> Is(i)]
           g == Filled(a, q, dir, first, first)
           c == MarkedEnd(g, q, dir, first, f)
           b == StoreAt(a, q, dir, f, first, first)
<1>0. Lines \in Nat /\ Len(q) \in Nat \ {0} /\ Len(q) < Lines
  BY CacheAssumption
<1>1. /\ \A k \in 1 .. m : Where(k) \in 1 .. Lines
      /\ \A k, l \in 1 .. m : Where(k) = Where(l) => k = l
      /\ Where(1) = first
  <2>1. CASE dir = 1
    BY <1>0, <2>1 DEF FixCachePointer
  <2>2. CASE dir = -1
    BY <1>0, <2>2 DEF FixCachePointer
  <2> QED
    BY <2>1, <2>2
<1>2. g = [a EXCEPT !.cache = cache]
  BY DEF Filled
<1>3. c = IF m = f + 1 THEN g
          ELSE IF dir = 1 THEN [g EXCEPT !.eofAt = q[m], !.end = Where(m)]
          ELSE [g EXCEPT !.bofAt = q[m], !.begin = Where(m)]
  BY DEF MarkedEnd
<1>4. b = Loaded(c) /\ b \in Area(x)
  BY <1>0, StoredIsArea DEF StoreAt
<1> HIDE DEF Where, g, c, b
<1>5. \A k \in 1 .. m : Is(Where(k)) = Row(q[k])
  <2> TAKE k \in 1 .. m
  <2>1. CASE k = 1
    <3>1. ~\E l \in 2 .. Len(q) : Where(l) = Where(k)
      BY <1>0, <1>1, <2>1
    <3> QED
      BY <1>1, <2>1, <3>1
  <2>2. CASE k # 1
    <3>1. k \in 2 .. Len(q) /\ \A l \in 2 .. Len(q) : Where(l) = Where(k) => l = k
      BY <1>0, <1>1, <2>2
    <3>2. (CHOOSE l \in 2 .. Len(q) : Where(l) = Where(k)) = k
      BY <3>1
    <3> QED
      BY <3>1, <3>2
  <2> QED
    BY <2>1, <2>2
<1>6. \A i \in 1 .. Lines : (\A k \in 1 .. m : i # Where(k)) => Is(i) = a.cache[i]
  <2> SUFFICES ASSUME NEW i \in 1 .. Lines, \A k \in 1 .. m : i # Where(k)
               PROVE  Is(i) = a.cache[i]
    OBVIOUS
  <2>1. i # first /\ ~\E k \in 2 .. Len(q) : Where(k) = i
    BY <1>0, <1>1
  <2> QED
    BY <2>1
<1>7. /\ \A k \in 1 .. m : cache[Where(k)] = Row(q[k])
      /\ \A i \in 1 .. Lines : (\A k \in 1 .. m : i # Where(k)) => cache[i] = a.cache[i]
  <2> HIDE DEF Is
  <2> QED
    BY <1>1, <1>5, <1>6
<1>8. \A i \in 1 .. Lines : cache[i] \in Line
  <2> SUFFICES ASSUME NEW i \in 1 .. Lines PROVE cache[i] \in Line
    OBVIOUS
  <2>1. \A k \in 1 .. m : Row(q[k]) \in Line
    BY RowIsLine
  <2>2. a.cache[i] \in Line
    BY DEF Area
  <2> HIDE DEF cache
  <2> QED
    BY <1>7, <2>1, <2>2
<1>9. cache \in [1 .. Lines -> Line]
  <2> HIDE DEF Is
  <2> QED
    BY <1>8
<1> HIDE DEF cache
<1>10. g \in Area(x) /\ SameFlags(g, a) /\ g.cache = cache /\ g.pos = a.pos
       /\ g.begin = a.begin /\ g.end = a.end /\ g.bofAt = a.bofAt /\ g.eofAt = a.eofAt
  BY <1>2, <1>9 DEF Area, SameFlags
<1>11. q[m] \in 0 .. (MaxRec + 1) /\ Where(m) \in 0 .. Lines
  <2>1. m \in 1 .. m /\ q[m] \in Records /\ Where(m) \in 1 .. Lines
    BY <1>0, <1>1
  <2> HIDE DEF Where
  <2>2. MaxRec \in Nat /\ Lines \in Nat
    BY CacheAssumption
  <2> QED
    BY <2>1, <2>2 DEF Records
<1>12. /\ c \in Area(x) /\ SameFlags(c, a) /\ c.cache = cache /\ c.pos = a.pos
       /\ dir = 1 => /\ c.begin = a.begin /\ c.bofAt = a.bofAt
                     /\ c.end = IF m = f + 1 THEN a.end ELSE Where(m)
                     /\ c.eofAt = IF m = f + 1 THEN a.eofAt ELSE q[m]
       /\ dir = -1 => /\ c.end = a.end /\ c.eofAt = a.eofAt
                      /\ c.begin = IF m = f + 1 THEN a.begin ELSE Where(m)
                      /\ c.bofAt = IF m = f + 1 THEN a.bofAt ELSE q[m]
  <2> HIDE DEF m
  <2>1. CASE m = f + 1
    BY <1>3, <1>10, <2>1
  <2>2. CASE m # f + 1 /\ dir = 1
    <3>1. c = [g EXCEPT !.eofAt = q[m], !.end = Where(m)]
      BY <1>3, <2>2
    <3>2. c \in Area(x)
      BY <1>10, <1>11, <3>1 DEF Area
    <3>3. /\ SameFlags(c, g) /\ c.cache = g.cache /\ c.pos = g.pos
          /\ c.end = Where(m) /\ c.eofAt = q[m]
          /\ c.begin = g.begin /\ c.bofAt = g.bofAt
      BY <1>10, <3>1 DEF Area, SameFlags
    <3>4. SameFlags(c, a)
      BY <1>10, <3>3 DEF SameFlags
    <3> QED
      BY <1>10, <2>2, <3>2, <3>3, <3>4
  <2>3. CASE m # f + 1 /\ dir = -1
    <3>1. c = [g EXCEPT !.bofAt = q[m], !.begin = Where(m)]
      BY <1>3, <2>3
    <3>2. c \in Area(x)
      BY <1>10, <1>11, <3>1 DEF Area
    <3>3. /\ SameFlags(c, g) /\ c.cache = g.cache /\ c.pos = g.pos
          /\ c.begin = Where(m) /\ c.bofAt = q[m]
          /\ c.end = g.end /\ c.eofAt = g.eofAt
      BY <1>10, <3>1 DEF Area, SameFlags
    <3>4. SameFlags(c, a)
      BY <1>10, <3>3 DEF SameFlags
    <3> QED
      BY <1>10, <2>3, <3>2, <3>3, <3>4
  <2> QED
    BY <2>1, <2>2, <2>3
<1>13. c.cache[c.pos] # Nil /\ c.pos # 0 /\ c.pos \in 1 .. Lines
  <2>1. c.cache[c.pos] \in Line
    BY <1>9, <1>12
  <2> QED
    BY <1>0, <1>12, <2>1 DEF Line, Nil
<1>14. b = SetCurrentFromCache(c, c.pos)
  BY <1>4, <1>13 DEF Loaded, GetBuffer
<1>15. /\ b \in Area(x) /\ Shows(b) /\ SameFlags(b, c)
       /\ b.pos = c.pos /\ b.cache = c.cache /\ b.begin = c.begin /\ b.end = c.end
       /\ b.bofAt = c.bofAt /\ b.eofAt = c.eofAt
  BY <1>12, <1>13, <1>14, LoadShows
<1>16. SameFlags(b, a)
  BY <1>12, <1>15 DEF SameFlags
<1> HIDE DEF m
<1>17. /\ b \in Area(x) /\ b.pos = a.pos /\ SameFlags(b, a) /\ Shows(b)
       /\ \A k \in 1 .. m : b.cache[Where(k)] = Row(q[k])
       /\ \A i \in 1 .. Lines : (\A k \in 1 .. m : i # Where(k)) => b.cache[i] = a.cache[i]
       /\ dir = 1 => /\ b.begin = a.begin /\ b.bofAt = a.bofAt
                     /\ b.end = IF m = f + 1 THEN a.end ELSE Where(m)
                     /\ b.eofAt = IF m = f + 1 THEN a.eofAt ELSE q[m]
       /\ dir = -1 => /\ b.end = a.end /\ b.eofAt = a.eofAt
                      /\ b.begin = IF m = f + 1 THEN a.begin ELSE Where(m)
                      /\ b.bofAt = IF m = f + 1 THEN a.bofAt ELSE q[m]
  BY <1>7, <1>12, <1>15, <1>16
<1>18. Holds(b, a, q, dir, f, first)
  BY <1>17 DEF Holds, Where, m
<1> QED
  BY <1>17, <1>18 DEF b
-----------------------------------------------------------------------------
(* A page behind the last line, and before the first one.                   *)

(* The number of lines from a begin to an end a given way ahead.             *)
LEMMA SpanIs ==
    ASSUME NEW a, a.begin \in 1 .. Lines, NEW n \in 0 .. (Lines - 1),
           a.end = FixCachePointer(a.begin + n)
    PROVE  Span(a) = n /\ a.end \in 1 .. Lines
BY CacheAssumption DEF Span, FixCachePointer

(***************************************************************************)
(* Room for f rows behind the end: some lines at the begin are given up, so *)
(* many that f + 1 rows fit, with one line to spare.  The exception is the  *)
(* page that ends on the last line of the ring when the first is in use.    *)
(***************************************************************************)
LEMMA RoomForward ==
    ASSUME NEW x \in Frame, NEW a \in Area(x), NEW f, IsPageSize(f),
           a.begin \in 1 .. Lines, a.end \in 1 .. Lines, a.pos = a.end, Span(a) <= Lines - 2
    PROVE  LET r == MakeRoomForward(a, f)
           IN  /\ r \in Area(x) /\ SameFlags(r, a) /\ r.pos = a.pos /\ r.cache = a.cache
               /\ r.end = FixCachePointer(a.pos + f)
               /\ r.bofAt \in {0, a.bofAt} /\ r.eofAt \in {0, a.eofAt}
               /\ \E d \in 0 .. Span(a) :
                    /\ r.begin = FixCachePointer(a.begin + d)
                    /\ \/ (Span(a) - d) + f + 2 <= Lines
                       \/ d = 0 /\ a.begin = 1 /\ a.pos + f = Lines
<1> DEFINE end   == a.pos + f
           wraps == end > Lines
           b     == IF a.begin = a.end THEN a.begin
                    ELSE IF a.begin < a.end
                      THEN IF wraps /\ end - Lines >= a.begin - 2 THEN end - Lines + 2
                                                                  ELSE a.begin
                      ELSE IF end >= a.begin - 2 THEN end + 2 ELSE a.begin
           nb == IF b = 0 THEN 1 ELSE FixCachePointer(b)
           np == IF a.pos = 0 THEN 1 ELSE a.pos
           forget == \/ wraps
                     \/ a.begin > a.end /\ (end >= a.begin - 2 \/ b > Lines)
           ea == IF a.begin = a.end \/ forget THEN 0 ELSE a.eofAt
           ba == IF a.begin # a.end /\ forget THEN 0 ELSE a.bofAt
           r == MakeRoomForward(a, f)
<1>0. Lines \in Nat /\ f \in Nat \ {0} /\ f + 3 <= Lines
  BY CacheAssumption DEF IsPageSize
<1>1. r = [a EXCEPT !.end = FixCachePointer(end), !.begin = nb, !.pos = np, !.eofAt = ea, !.bofAt = ba]
  BY DEF MakeRoomForward
<1>2. r \in Area(x)
  BY <1>0, RoomIsArea
<1>3. ea \in {0, a.eofAt} /\ ba \in {0, a.bofAt} /\ np = a.pos
  BY <1>0
<1> DEFINE d == IF nb >= a.begin THEN nb - a.begin ELSE nb + Lines - a.begin
<1>4. /\ d \in 0 .. Span(a) /\ nb = FixCachePointer(a.begin + d)
      /\ \/ (Span(a) - d) + f + 2 <= Lines
         \/ d = 0 /\ a.begin = 1 /\ a.pos + f = Lines
  <2>1. CASE a.begin = a.end
    <3>1. b = a.begin
      BY <2>1
    <3> HIDE DEF b
    <3>2. nb = a.begin /\ Span(a) = 0
      BY <1>0, <2>1, <3>1 DEF Span, FixCachePointer
    <3> HIDE DEF nb
    <3>3. d = 0 /\ FixCachePointer(a.begin + 0) = a.begin
      BY <1>0, <3>2 DEF FixCachePointer
    <3> HIDE DEF d
    <3> QED
      BY <1>0, <3>2, <3>3
  <2>2. CASE a.begin < a.end
    <3>1. Span(a) = a.end - a.begin
      BY <2>2 DEF Span
    <3>2. CASE end > Lines /\ end - Lines >= a.begin - 2
      <4>1. b = (end - Lines) + 2
        BY <1>0, <2>2, <3>2
      <4> HIDE DEF b
      <4>2. nb = (end - Lines) + 2 /\ nb >= a.begin /\ nb <= a.end
        BY <1>0, <3>2, <4>1 DEF FixCachePointer
      <4> HIDE DEF nb
      <4>3. d = nb - a.begin
        BY <4>2
      <4> HIDE DEF d
      <4> QED
        BY <1>0, <2>2, <3>1, <4>2, <4>3 DEF FixCachePointer
    <3>3. CASE ~(end > Lines /\ end - Lines >= a.begin - 2)
      <4>1. b = a.begin
        BY <1>0, <2>2, <3>3
      <4> HIDE DEF b
      <4>2. nb = a.begin
        BY <1>0, <4>1 DEF FixCachePointer
      <4> HIDE DEF nb
      <4>3. d = 0 /\ FixCachePointer(a.begin + 0) = a.begin
        BY <1>0, <4>2 DEF FixCachePointer
      <4> HIDE DEF d
      <4> QED
        BY <1>0, <2>2, <3>1, <3>3, <4>2, <4>3
    <3> QED
      BY <3>2, <3>3
  <2>3. CASE a.begin > a.end
    <3>1. CASE end >= a.begin - 2
      <4>1. b = end + 2 /\ b # 0
        BY <1>0, <2>3, <3>1
      <4> HIDE DEF b
      <4> QED
        BY <1>0, <2>3, <3>1, <4>1 DEF Span, FixCachePointer
    <3>2. CASE ~(end >= a.begin - 2)
      <4>1. b = a.begin
        BY <1>0, <2>3, <3>2
      <4> HIDE DEF b
      <4> QED
        BY <1>0, <2>3, <3>2, <4>1 DEF Span, FixCachePointer
    <3> QED
      BY <3>1, <3>2
  <2>4. a.begin = a.end \/ a.begin < a.end \/ a.begin > a.end
    OBVIOUS
  <2> HIDE DEF end, wraps, b, nb, d
  <2> QED
    BY <2>1, <2>2, <2>3, <2>4, Zenon
<1> HIDE DEF nb, np, ea, ba, d
<1>5. /\ SameFlags(r, a) /\ r.pos = np /\ r.cache = a.cache /\ r.begin = nb
      /\ r.end = FixCachePointer(a.pos + f) /\ r.bofAt = ba /\ r.eofAt = ea
  BY <1>1 DEF Area, SameFlags
<1> HIDE DEF r
<1>6. /\ r \in Area(x) /\ SameFlags(r, a) /\ r.pos = a.pos /\ r.cache = a.cache
      /\ r.end = FixCachePointer(a.pos + f)
      /\ r.bofAt \in {0, a.bofAt} /\ r.eofAt \in {0, a.eofAt}
      /\ r.begin = FixCachePointer(a.begin + d)
  BY <1>2, <1>3, <1>4, <1>5
<1> QED
  BY <1>4, <1>6 DEF r

(* The same before the begin: the lines given up are at the end.             *)
LEMMA RoomBackward ==
    ASSUME NEW x \in Frame, NEW a \in Area(x), NEW f, IsPageSize(f),
           a.begin \in 1 .. Lines, a.end \in 1 .. Lines, a.pos = a.begin, Span(a) <= Lines - 2
    PROVE  LET r == MakeRoomBackward(a, f)
           IN  /\ r \in Area(x) /\ SameFlags(r, a) /\ r.pos = a.pos /\ r.cache = a.cache
               /\ r.begin = FixCachePointer(a.pos - f)
               /\ r.bofAt \in {0, a.bofAt} /\ r.eofAt \in {0, a.eofAt}
               /\ \E j \in 0 .. Span(a) :
                    /\ r.end = FixCachePointer(a.begin + j)
                    /\ \/ j + f + 2 <= Lines
                       \/ j = Span(a) /\ a.pos - f = 1 /\ a.end = Lines
<1> DEFINE begin == a.pos - f
           wraps == begin < 1
           e     == IF a.begin = a.end THEN a.end
                    ELSE IF a.begin < a.end
                      THEN IF wraps /\ a.end + 2 >= begin + Lines THEN begin + Lines - 2
                                                                  ELSE a.end
                      ELSE IF a.end + 2 >= begin THEN begin - 2 ELSE a.end
           np == IF a.pos = 0 THEN Lines ELSE a.pos
           ne == FixCachePointer(e)
           forget == \/ wraps
                     \/ a.begin > a.end /\ (a.end + 2 >= begin \/ e < 1)
           ea == IF a.begin = a.end \/ forget THEN 0 ELSE a.eofAt
           ba == IF a.begin # a.end /\ forget THEN 0 ELSE a.bofAt
           r == MakeRoomBackward(a, f)
<1>0. Lines \in Nat /\ f \in Nat \ {0} /\ f + 3 <= Lines
  BY CacheAssumption DEF IsPageSize
<1>1. r = [a EXCEPT !.begin = FixCachePointer(begin), !.end = ne, !.pos = np, !.eofAt = ea, !.bofAt = ba]
  BY DEF MakeRoomBackward
<1>2. r \in Area(x)
  BY <1>0, RoomIsArea
<1>3. ea \in {0, a.eofAt} /\ ba \in {0, a.bofAt} /\ np = a.pos
  BY <1>0
<1> DEFINE j == IF ne >= a.begin THEN ne - a.begin ELSE ne + Lines - a.begin
<1>4. /\ j \in 0 .. Span(a) /\ ne = FixCachePointer(a.begin + j)
      /\ \/ j + f + 2 <= Lines
         \/ j = Span(a) /\ a.pos - f = 1 /\ a.end = Lines
  <2>1. CASE a.begin = a.end
    <3>1. e = a.end
      BY <2>1
    <3> HIDE DEF e
    <3>2. ne = a.begin /\ Span(a) = 0
      BY <1>0, <2>1, <3>1 DEF Span, FixCachePointer
    <3> HIDE DEF ne
    <3>3. j = 0 /\ FixCachePointer(a.begin + 0) = a.begin
      BY <1>0, <3>2 DEF FixCachePointer
    <3> HIDE DEF j
    <3> QED
      BY <1>0, <3>2, <3>3
  <2>2. CASE a.begin < a.end
    <3>1. Span(a) = a.end - a.begin
      BY <2>2 DEF Span
    <3>2. CASE begin < 1 /\ a.end + 2 >= begin + Lines
      <4>1. e = (begin + Lines) - 2
        BY <1>0, <2>2, <3>2
      <4> HIDE DEF e
      <4>2. ne = (begin + Lines) - 2 /\ ne >= a.begin /\ ne <= a.end
        BY <1>0, <3>2, <4>1 DEF FixCachePointer
      <4> HIDE DEF ne
      <4>3. j = ne - a.begin
        BY <4>2
      <4> HIDE DEF j
      <4> QED
        BY <1>0, <2>2, <3>1, <4>2, <4>3 DEF FixCachePointer
    <3>3. CASE ~(begin < 1 /\ a.end + 2 >= begin + Lines)
      <4>1. e = a.end
        BY <1>0, <2>2, <3>3
      <4> HIDE DEF e
      <4>2. ne = a.end
        BY <1>0, <4>1 DEF FixCachePointer
      <4> HIDE DEF ne
      <4>3. j = a.end - a.begin /\ a.begin + j = a.end
        BY <1>0, <2>2, <4>2
      <4> HIDE DEF j
      <4> QED
        BY <1>0, <2>2, <3>1, <3>3, <4>2, <4>3 DEF FixCachePointer
    <3> QED
      BY <3>2, <3>3
  <2>3. CASE a.begin > a.end
    <3>1. CASE a.end + 2 >= begin
      <4>1. e = begin - 2
        BY <1>0, <2>3, <3>1
      <4> HIDE DEF e
      <4> QED
        BY <1>0, <2>3, <3>1, <4>1 DEF Span, FixCachePointer
    <3>2. CASE ~(a.end + 2 >= begin)
      <4>1. e = a.end
        BY <1>0, <2>3, <3>2
      <4> HIDE DEF e
      <4> QED
        BY <1>0, <2>3, <3>2, <4>1 DEF Span, FixCachePointer
    <3> QED
      BY <3>1, <3>2
  <2> QED
    BY <1>0, <2>1, <2>2, <2>3
<1> HIDE DEF ne, np, ea, ba, j
<1>5. /\ SameFlags(r, a) /\ r.pos = np /\ r.cache = a.cache /\ r.end = ne
      /\ r.begin = FixCachePointer(a.pos - f) /\ r.bofAt = ba /\ r.eofAt = ea
  BY <1>1 DEF Area, SameFlags
<1> HIDE DEF r
<1>6. /\ r \in Area(x) /\ SameFlags(r, a) /\ r.pos = a.pos /\ r.cache = a.cache
      /\ r.begin = FixCachePointer(a.pos - f)
      /\ r.bofAt \in {0, a.bofAt} /\ r.eofAt \in {0, a.eofAt}
      /\ r.end = FixCachePointer(a.begin + j)
  BY <1>2, <1>3, <1>4, <1>5
<1> QED
  BY <1>4, <1>6 DEF r
(* All lines in use, from the first of the ring to the last.                 *)
Full(a) == a.begin = 1 /\ a.end = Lines

Least(m, f) == IF m <= f THEN m ELSE f

(***************************************************************************)
(* The lines of a page of m rows behind line p, n lines after line s, when  *)
(* the first d lines from s on are given up and b is the new begin.         *)
(***************************************************************************)
Behind(s, n, d, p, b, f, m) ==
  /\ p \in 1 .. Lines /\ b \in 1 .. Lines /\ FixCachePointer(p + 1) \in 1 .. Lines
  /\ \A k \in 1 .. m : FixCachePointer(FixCachePointer(p + 1) + 1 * (k - 1)) = FixCachePointer(p + k)
  /\ p = FixCachePointer(b + (n - d))
  /\ \A k \in 0 .. (n - d) : FixCachePointer(b + k) = FixCachePointer(s + (d + k))
  /\ (n - d) + m + 1 <= Lines =>
       /\ \A k \in 1 .. m : FixCachePointer(p + k) = FixCachePointer(b + ((n - d) + k))
       /\ \A k \in 0 .. (n - d), l \in 1 .. m : FixCachePointer(b + k) # FixCachePointer(p + l)
  /\ Least(m, f) \in 1 .. m /\ Least(m, f) <= f
  /\ (n - d) + f + 2 <= Lines \/ (d = 0 /\ s = 1 /\ p + f = Lines /\ m < f) =>
       (n - d) + m + 1 <= Lines /\ (n - d) + Least(m, f) <= Lines - 2
  /\ d = 0 /\ s = 1 /\ p + f = Lines /\ m >= f =>
       Least(m, f) = f /\ b = 1 /\ FixCachePointer(p + f) = Lines

(* Where those lines are.                                                    *)
LEMMA LinesBehind ==
    ASSUME NEW s \in 1 .. Lines, NEW n \in 0 .. (Lines - 2), NEW d \in 0 .. n, NEW p,
           p = FixCachePointer(s + n), NEW b, b = FixCachePointer(s + d),
           NEW f \in Nat \ {0}, f + 3 <= Lines, NEW m \in 1 .. (f + 1)
    PROVE  Behind(s, n, d, p, b, f, m)
<1>0. Lines \in Nat /\ Lines > 3
  BY CacheAssumption
<1>1. p \in 1 .. Lines /\ b \in 1 .. Lines /\ FixCachePointer(p + 1) \in 1 .. Lines
  BY <1>0 DEF FixCachePointer
<1>2. \A k \in 1 .. m : FixCachePointer(FixCachePointer(p + 1) + 1 * (k - 1)) = FixCachePointer(p + k)
  BY <1>0, <1>1 DEF FixCachePointer
<1>3. /\ p = FixCachePointer(b + (n - d))
      /\ \A k \in 0 .. (n - d) : FixCachePointer(b + k) = FixCachePointer(s + (d + k))
  BY <1>0 DEF FixCachePointer
<1>4. ASSUME (n - d) + m + 1 <= Lines
      PROVE  /\ \A k \in 1 .. m : FixCachePointer(p + k) = FixCachePointer(b + ((n - d) + k))
             /\ \A k \in 0 .. (n - d), l \in 1 .. m : FixCachePointer(b + k) # FixCachePointer(p + l)
  BY <1>0, <1>1, <1>4 DEF FixCachePointer
<1>5. Least(m, f) \in 1 .. m /\ Least(m, f) <= f
  BY DEF Least
<1>6. ASSUME \/ (n - d) + f + 2 <= Lines
             \/ d = 0 /\ s = 1 /\ p + f = Lines /\ m < f
      PROVE  (n - d) + m + 1 <= Lines /\ (n - d) + Least(m, f) <= Lines - 2
  BY <1>0, <1>6 DEF FixCachePointer, Least
<1>7. ASSUME d = 0, s = 1, p + f = Lines, m >= f
      PROVE  Least(m, f) = f /\ b = 1 /\ FixCachePointer(p + f) = Lines
  BY <1>0, <1>7 DEF FixCachePointer, Least
<1> QED
  BY <1>1, <1>2, <1>3, <1>4, <1>5, <1>6, <1>7 DEF Behind

(* The lines of a page of m rows before line p, when j lines after it stay  *)
(* of the n there were, the last one e, and b is the new begin.              *)
Ahead(n, j, p, e, b, f, m) ==
  /\ b \in 1 .. Lines /\ FixCachePointer(p + (-1)) \in 1 .. Lines
  /\ \A k \in 1 .. m :
       FixCachePointer(FixCachePointer(p + (-1)) + (-1) * (k - 1)) = FixCachePointer(p - k)
  /\ p = FixCachePointer(b + Least(m, f))
  /\ \A k \in 1 .. Least(m, f) : FixCachePointer(p - k) = FixCachePointer(b + (Least(m, f) - k))
  /\ j + m + 1 <= Lines =>
       /\ \A k \in 0 .. j : FixCachePointer(b + (Least(m, f) + k)) = FixCachePointer(p + k)
       /\ \A k \in 0 .. j, l \in 1 .. m :
            FixCachePointer(b + (Least(m, f) + k)) # FixCachePointer(p - l)
  /\ Least(m, f) \in 1 .. m /\ Least(m, f) <= f
  /\ j + f + 2 <= Lines \/ (j = n /\ p - f = 1 /\ e = Lines /\ m < f) =>
       j + m + 1 <= Lines /\ Least(m, f) + j <= Lines - 2
  /\ p - f = 1 /\ m >= f => Least(m, f) = f /\ b = 1

(* Where those lines are.                                                    *)
LEMMA LinesBefore ==
    ASSUME NEW p \in 1 .. Lines, NEW n \in 0 .. (Lines - 2), NEW j \in 0 .. n,
           NEW e, e = FixCachePointer(p + n), NEW b,
           NEW f \in Nat \ {0}, f + 3 <= Lines, NEW m \in 1 .. (f + 1),
           b = FixCachePointer(p - Least(m, f))
    PROVE  Ahead(n, j, p, e, b, f, m)
<1>0. Lines \in Nat /\ Lines > 3
  BY CacheAssumption
<1> DEFINE w == Least(m, f)
<1>5. w \in 1 .. m /\ w <= f /\ (m <= w \/ m = w + 1)
  BY DEF Least
<1>6. ASSUME \/ j + f + 2 <= Lines
             \/ j = n /\ p - f = 1 /\ e = Lines /\ m < f
      PROVE  j + m + 1 <= Lines /\ w + j <= Lines - 2
  BY <1>0, <1>6 DEF FixCachePointer, Least
<1>7. ASSUME p - f = 1, m >= f
      PROVE  w = f /\ b = 1
  BY <1>0, <1>7 DEF FixCachePointer, Least
<1> HIDE DEF w
<1>8. b = FixCachePointer(p - w)
  BY DEF w
<1>1. b \in 1 .. Lines /\ FixCachePointer(p + (-1)) \in 1 .. Lines
  BY <1>0, <1>5, <1>8 DEF FixCachePointer
<1>2. \A k \in 1 .. m :
        FixCachePointer(FixCachePointer(p + (-1)) + (-1) * (k - 1)) = FixCachePointer(p - k)
  BY <1>0, <1>1 DEF FixCachePointer
<1>3. /\ p = FixCachePointer(b + w)
      /\ \A k \in 1 .. w : FixCachePointer(p - k) = FixCachePointer(b + (w - k))
  BY <1>0, <1>5, <1>8 DEF FixCachePointer
<1>4. ASSUME j + m + 1 <= Lines
      PROVE  /\ \A k \in 0 .. j : FixCachePointer(b + (w + k)) = FixCachePointer(p + k)
             /\ \A k \in 0 .. j, l \in 1 .. m :
                  FixCachePointer(b + (w + k)) # FixCachePointer(p - l)
  <2>1. \A k \in 0 .. j : FixCachePointer(b + (w + k)) = FixCachePointer(p + k)
    BY <1>0, <1>1, <1>4, <1>5, <1>8 DEF FixCachePointer
  <2>2. \A k \in 0 .. j, l \in 1 .. m : FixCachePointer(p + k) # FixCachePointer(p - l)
    BY <1>0, <1>4 DEF FixCachePointer
  <2> QED
    BY <2>1, <2>2
<1> QED
  BY <1>1, <1>2, <1>3, <1>4, <1>5, <1>6, <1>7 DEF w, Ahead

(* The lines of b: those of a but the first d, then w rows of the page.      *)
Appended(b, a, q, w, d) ==
  LET j == Span(a) - d
  IN  /\ b.begin \in 1 .. Lines /\ b.end \in 1 .. Lines
      /\ Span(b) = j + w /\ j + w <= Lines - 2
      /\ b.pos = FixCachePointer(b.begin + j)
      /\ \A k \in 0 .. j : Nth(b, k) = Nth(a, d + k)
      /\ \A k \in 1 .. w : Nth(b, j + k) = Row(q[k])

(* The lines of b: w rows of the page, backwards, then those of a up to j.   *)
Prepended(b, a, q, w, j) ==
  /\ b.begin \in 1 .. Lines /\ b.end \in 1 .. Lines
  /\ Span(b) = w + j /\ w + j <= Lines - 2
  /\ b.pos = FixCachePointer(b.begin + w)
  /\ \A k \in 0 .. j : Nth(b, w + k) = Nth(a, k)
  /\ \A k \in 1 .. w : Nth(b, w - k) = Row(q[k])

(* What a page of the rows q leaves: the marks it may have set, the row next *)
(* to the current line, and the lines in use.                                *)
StoresUp(b, a, q, f) ==
  /\ SameFlags(b, a) /\ b.pos = a.pos
  /\ b.bofAt \in {0, a.bofAt}
  /\ b.eofAt \in IF Len(q) = f + 1 THEN {0, a.eofAt} ELSE {q[Len(q)]}
  /\ b.cache[FixCachePointer(a.pos + 1)] = Row(q[1])
  /\ \/ Full(b)
     \/ \E d \in 0 .. Span(a) : Appended(b, a, q, Least(Len(q), f), d)

StoresDown(b, a, q, f) ==
  /\ SameFlags(b, a) /\ b.pos = a.pos
  /\ b.eofAt \in {0, a.eofAt}
  /\ b.bofAt \in IF Len(q) = f + 1 THEN {0, a.bofAt} ELSE {q[Len(q)]}
  /\ b.cache[FixCachePointer(a.pos + (-1))] = Row(q[1])
  /\ \/ Full(b)
     \/ \E j \in 0 .. Span(a) : Prepended(b, a, q, Least(Len(q), f), j)

(***************************************************************************)
(* The lines in use after a page was stored behind the last one: what is    *)
(* left of the old lines, then the rows; or the ring is full.               *)
(***************************************************************************)
LEMMA PageForward ==
    ASSUME UseDeleteds, NEW x \in Frame, NEW a \in Area(x), NEW f, IsPageSize(f),
           a.begin \in 1 .. Lines, a.end \in 1 .. Lines, a.pos = a.end, Span(a) <= Lines - 2,
           NEW q \in Seq(Records), q # << >>, Len(q) <= f + 1
    PROVE  StoresUp(StorePage(a, q, 1, f, FixCachePointer(a.pos + 1)), a, q, f)
<1> DEFINE r == MakeRoomForward(a, f)
           first == FixCachePointer(a.pos + 1)
           Where(k) == FixCachePointer(first + 1 * (k - 1))
           m == Len(q)
           n == Span(a)
           b == StorePage(a, q, 1, f, first)
<1>0. /\ Lines \in Nat /\ f \in Nat \ {0} /\ f + 3 <= Lines /\ m \in 1 .. (f + 1)
      /\ n \in 0 .. (Lines - 2) /\ a.end = FixCachePointer(a.begin + n)
  <2>1. Len(q) \in Nat /\ Len(q) # 0 /\ f \in Nat \ {0} /\ f + 3 <= Lines
    BY DEF IsPageSize
  <2>2. n \in 0 .. (Lines - 1) /\ a.end = FixCachePointer(a.begin + n)
    BY RangeIsSpan
  <2>3. Lines \in Nat
    BY CacheAssumption
  <2> QED
    BY <2>1, <2>2, <2>3
<1>1. /\ r \in Area(x) /\ SameFlags(r, a) /\ r.pos = a.pos /\ r.cache = a.cache
      /\ r.end = FixCachePointer(a.pos + f)
      /\ r.bofAt \in {0, a.bofAt} /\ r.eofAt \in {0, a.eofAt}
      /\ \E d \in 0 .. n : /\ r.begin = FixCachePointer(a.begin + d)
                           /\ \/ (n - d) + f + 2 <= Lines
                              \/ d = 0 /\ a.begin = 1 /\ a.pos + f = Lines
  BY RoomForward
<1>2. PICK d \in 0 .. n : /\ r.begin = FixCachePointer(a.begin + d)
                          /\ \/ (n - d) + f + 2 <= Lines
                             \/ d = 0 /\ a.begin = 1 /\ a.pos + f = Lines
  BY <1>1
<1> DEFINE j == n - d
<1> HIDE DEF r, n, m
<1>3. /\ a.pos \in 1 .. Lines /\ r.begin \in 1 .. Lines /\ first \in 1 .. Lines
      /\ \A k \in 1 .. m : Where(k) = FixCachePointer(a.pos + k)
      /\ a.pos = FixCachePointer(r.begin + j)
      /\ \A k \in 0 .. j : FixCachePointer(r.begin + k) = FixCachePointer(a.begin + (d + k))
      /\ j + m + 1 <= Lines =>
           /\ \A k \in 1 .. m : FixCachePointer(a.pos + k) = FixCachePointer(r.begin + (j + k))
           /\ \A k \in 0 .. j, l \in 1 .. m :
                FixCachePointer(r.begin + k) # FixCachePointer(a.pos + l)
      /\ Least(m, f) \in 1 .. m /\ Least(m, f) <= f
      /\ j + f + 2 <= Lines \/ (d = 0 /\ a.begin = 1 /\ a.pos + f = Lines /\ m < f) =>
           j + m + 1 <= Lines /\ j + Least(m, f) <= Lines - 2
      /\ d = 0 /\ a.begin = 1 /\ a.pos + f = Lines /\ m >= f
           => Least(m, f) = f /\ r.begin = 1 /\ FixCachePointer(a.pos + f) = Lines
  <2>1. a.begin \in 1 .. Lines /\ a.pos = FixCachePointer(a.begin + n)
    BY <1>0
  <2>2. Behind(a.begin, n, d, a.pos, r.begin, f, m)
    BY <1>0, <1>2, <2>1, LinesBehind
  <2> QED
    BY <2>2, Zenon DEF Behind
<1>4. b = StoreAt(r, q, 1, f, first, first)
  <2>1. ~(a.begin = a.end /\ a.end = 0)
    BY <1>0
  <2> HIDE DEF first
  <2>2. b = StoreInRoom(r, q, 1, f, first, FALSE)
    BY <2>1 DEF StorePage, r
  <2> QED
    BY <1>1, <2>2 DEF StoreInRoom, first
<1> HIDE DEF b, first
<1>5. /\ b \in Area(x) /\ b.pos = r.pos /\ SameFlags(b, r) /\ Shows(b)
      /\ \A k \in 1 .. m : b.cache[Where(k)] = Row(q[k])
      /\ \A i \in 1 .. Lines : (\A k \in 1 .. m : i # Where(k)) => b.cache[i] = r.cache[i]
      /\ b.begin = r.begin /\ b.bofAt = r.bofAt
      /\ b.end = IF m = f + 1 THEN r.end ELSE Where(m)
      /\ b.eofAt = IF m = f + 1 THEN r.eofAt ELSE q[m]
  <2>1. f \in Nat /\ f + 3 <= Lines /\ r.pos \in 1 .. Lines
    BY <1>0, <1>1, <1>3
  <2>2. /\ StoreAt(r, q, 1, f, first, first) \in Area(x)
        /\ Holds(StoreAt(r, q, 1, f, first, first), r, q, 1, f, first)
    BY <1>1, <1>3, <2>1, StoredLines
  <2>3. ~(-1 = 1)
    OBVIOUS
  <2> QED
    BY <1>4, <2>2, <2>3 DEF Holds, m
<1> HIDE DEF Where
<1>6. b.end = FixCachePointer(a.pos + Least(m, f))
  <2>1. CASE m = f + 1
    BY <1>0, <1>1, <1>5, <2>1 DEF Least
  <2>2. CASE m # f + 1
    <3>1. m \in 1 .. m /\ Least(m, f) = m
      BY <1>0, <2>2 DEF Least
    <3> QED
      BY <1>3, <1>5, <2>2, <3>1
  <2> QED
    BY <2>1, <2>2
<1>7. /\ b \in Area(x) /\ SameFlags(b, a) /\ b.pos = a.pos
      /\ b.bofAt \in {0, a.bofAt}
      /\ b.eofAt \in IF m = f + 1 THEN {0, a.eofAt} ELSE {q[m]}
      /\ b.cache[FixCachePointer(a.pos + 1)] = Row(q[1])
  <2>1. SameFlags(b, a)
    BY <1>1, <1>5 DEF SameFlags
  <2>2. 1 \in 1 .. m /\ Where(1) = FixCachePointer(a.pos + 1)
    BY <1>0, <1>3
  <2> QED
    BY <1>1, <1>5, <2>1, <2>2
<1>8. CASE d = 0 /\ a.begin = 1 /\ a.pos + f = Lines /\ m >= f
  <2>1. b.end = Lines /\ b.begin = 1
    BY <1>3, <1>5, <1>6, <1>8
  <2> QED
    BY <1>7, <2>1 DEF Full, StoresUp, b, first, m
<1>9. CASE ~(d = 0 /\ a.begin = 1 /\ a.pos + f = Lines /\ m >= f)
  <2> DEFINE v == Least(m, f)
  <2>1. j + m + 1 <= Lines /\ j + v <= Lines - 2 /\ j \in 0 .. n /\ v \in 1 .. m
    <3>0. m >= f \/ m < f
      <4>1. m \in Int /\ f \in Int
        BY <1>0
      <4> QED
        BY <4>1
    <3>1. j + f + 2 <= Lines \/ (d = 0 /\ a.begin = 1 /\ a.pos + f = Lines /\ m < f)
      BY <1>2, <1>9, <3>0
    <3>2. j + m + 1 <= Lines /\ j + v <= Lines - 2 /\ v \in 1 .. m
      BY <1>3, <3>1, Zenon
    <3>3. j \in 0 .. n
      BY <1>0, <1>2
    <3> QED
      BY <3>2, <3>3
  <2> HIDE DEF j, v
  <2>2. Span(b) = j + v /\ b.end \in 1 .. Lines /\ b.begin \in 1 .. Lines
    <3>1. /\ j + v \in 0 .. (Lines - 1) /\ b.end = FixCachePointer(b.begin + (j + v))
          /\ b.begin \in 1 .. Lines
      <4>1. b.begin \in 1 .. Lines /\ j + v \in 0 .. (Lines - 1)
        BY <1>0, <1>3, <1>5, <2>1
      <4>2. FixCachePointer(a.pos + v) = FixCachePointer(b.begin + (j + v))
        BY <1>3, <1>5, <2>1
      <4> QED
        BY <1>6, <4>1, <4>2 DEF v
    <3> QED
      BY <3>1, SpanIs
  <2>3. ASSUME NEW k \in 0 .. j PROVE Nth(b, k) = Nth(a, d + k)
    <3>1. FixCachePointer(b.begin + k) \in 1 .. Lines
      <4>1. k \in 0 .. (Lines - 1)
        BY <1>0, <2>1
      <4> QED
        BY <2>2, <4>1, RingTurn
    <3>2. \A l \in 1 .. m : FixCachePointer(b.begin + k) # Where(l)
      BY <1>3, <1>5, <2>1, SMTT(40)
    <3>3. b.cache[FixCachePointer(b.begin + k)] = a.cache[FixCachePointer(b.begin + k)]
      BY <1>1, <1>5, <3>1, <3>2
    <3> QED
      BY <1>3, <1>5, <3>3 DEF Nth
  <2>4. ASSUME NEW k \in 1 .. v PROVE Nth(b, j + k) = Row(q[k])
    <3>1. k \in 1 .. m
      BY <1>0, <2>1
    <3>2. b.cache[FixCachePointer(b.begin + (j + k))] = Row(q[k])
      BY <1>3, <1>5, <2>1, <3>1
    <3> QED
      BY <3>2 DEF Nth
  <2>5. b.pos = FixCachePointer(b.begin + j)
    BY <1>1, <1>3, <1>5
  <2>6. Appended(b, a, q, v, d)
    BY <2>1, <2>2, <2>3, <2>4, <2>5 DEF Appended, j, n
  <2> QED
    BY <1>7, <2>6 DEF StoresUp, b, n, first, m, v
<1> QED
  BY <1>8, <1>9

(* The same for a page before the first line.                                *)
LEMMA PageBackward ==
    ASSUME UseDeleteds, NEW x \in Frame, NEW a \in Area(x), NEW f, IsPageSize(f),
           a.begin \in 1 .. Lines, a.end \in 1 .. Lines, a.pos = a.begin, Span(a) <= Lines - 2,
           NEW q \in Seq(Records), q # << >>, Len(q) <= f + 1
    PROVE  StoresDown(StorePage(a, q, -1, f, FixCachePointer(a.pos + (-1))), a, q, f)
<1> DEFINE r == MakeRoomBackward(a, f)
           first == FixCachePointer(a.pos + (-1))
           Where(k) == FixCachePointer(first + (-1) * (k - 1))
           m == Len(q)
           n == Span(a)
           b == StorePage(a, q, -1, f, first)
<1>0. /\ Lines \in Nat /\ f \in Nat \ {0} /\ f + 3 <= Lines /\ m \in 1 .. (f + 1)
      /\ n \in 0 .. (Lines - 2) /\ a.end = FixCachePointer(a.begin + n)
  <2>1. Len(q) \in Nat /\ Len(q) # 0 /\ f \in Nat \ {0} /\ f + 3 <= Lines
    BY DEF IsPageSize
  <2>2. n \in 0 .. (Lines - 1) /\ a.end = FixCachePointer(a.begin + n)
    BY RangeIsSpan
  <2>3. Lines \in Nat
    BY CacheAssumption
  <2> QED
    BY <2>1, <2>2, <2>3
<1>1. /\ r \in Area(x) /\ SameFlags(r, a) /\ r.pos = a.pos /\ r.cache = a.cache
      /\ r.begin = FixCachePointer(a.pos - f)
      /\ r.bofAt \in {0, a.bofAt} /\ r.eofAt \in {0, a.eofAt}
      /\ \E j \in 0 .. n : /\ r.end = FixCachePointer(a.begin + j)
                           /\ \/ j + f + 2 <= Lines
                              \/ j = n /\ a.pos - f = 1 /\ a.end = Lines
  BY RoomBackward
<1>2. PICK j \in 0 .. n : /\ r.end = FixCachePointer(a.begin + j)
                          /\ \/ j + f + 2 <= Lines
                             \/ j = n /\ a.pos - f = 1 /\ a.end = Lines
  BY <1>1
<1> DEFINE v == Least(m, f)
           nb == FixCachePointer(a.pos - Least(m, f))
<1> HIDE DEF r, n, m, nb
<1>3. /\ nb \in 1 .. Lines /\ first \in 1 .. Lines
      /\ \A k \in 1 .. m : Where(k) = FixCachePointer(a.pos - k)
      /\ a.pos = FixCachePointer(nb + v)
      /\ \A k \in 1 .. v : FixCachePointer(a.pos - k) = FixCachePointer(nb + (v - k))
      /\ j + m + 1 <= Lines =>
           /\ \A k \in 0 .. j : FixCachePointer(nb + (v + k)) = FixCachePointer(a.pos + k)
           /\ \A k \in 0 .. j, l \in 1 .. m :
                FixCachePointer(nb + (v + k)) # FixCachePointer(a.pos - l)
      /\ v \in 1 .. m /\ v <= f
      /\ j + f + 2 <= Lines \/ (j = n /\ a.pos - f = 1 /\ a.end = Lines /\ m < f) =>
           j + m + 1 <= Lines /\ v + j <= Lines - 2
      /\ a.pos - f = 1 /\ m >= f => v = f /\ nb = 1
  <2>1. a.pos \in 1 .. Lines /\ a.end = FixCachePointer(a.pos + n)
    BY <1>0
  <2>2. Ahead(n, j, a.pos, a.end, nb, f, m)
    BY <1>0, <1>2, <2>1, LinesBefore DEF nb
  <2> QED
    BY <2>2, Zenon DEF Ahead
<1>4. b = StoreAt(r, q, -1, f, first, first)
  <2>1. ~(a.begin = a.end /\ a.end = 0)
    BY <1>0
  <2> HIDE DEF first
  <2>2. b = StoreInRoom(r, q, -1, f, first, FALSE)
    <3>1. ~(-1 = 1)
      OBVIOUS
    <3> QED
      BY <2>1, <3>1 DEF StorePage, r
  <2> QED
    BY <1>1, <2>2 DEF StoreInRoom, first
<1> HIDE DEF b, first
<1>5. /\ b \in Area(x) /\ b.pos = r.pos /\ SameFlags(b, r) /\ Shows(b)
      /\ \A k \in 1 .. m : b.cache[Where(k)] = Row(q[k])
      /\ \A i \in 1 .. Lines : (\A k \in 1 .. m : i # Where(k)) => b.cache[i] = r.cache[i]
      /\ b.end = r.end /\ b.eofAt = r.eofAt
      /\ b.begin = IF m = f + 1 THEN r.begin ELSE Where(m)
      /\ b.bofAt = IF m = f + 1 THEN r.bofAt ELSE q[m]
  <2>1. f \in Nat /\ f + 3 <= Lines /\ r.pos \in 1 .. Lines
    BY <1>0, <1>1
  <2>2. /\ StoreAt(r, q, -1, f, first, first) \in Area(x)
        /\ Holds(StoreAt(r, q, -1, f, first, first), r, q, -1, f, first)
    BY <1>1, <1>3, <2>1, StoredLines
  <2>3. ~(-1 = 1)
    OBVIOUS
  <2> QED
    BY <1>4, <2>2, <2>3 DEF Holds, m
<1> HIDE DEF Where
<1>6. b.begin = nb
  <2>1. CASE m = f + 1
    BY <1>0, <1>1, <1>5, <2>1 DEF Least, nb
  <2>2. CASE m # f + 1
    <3>1. m \in 1 .. m /\ v = m
      BY <1>0, <2>2 DEF Least
    <3> QED
      BY <1>3, <1>5, <2>2, <3>1 DEF nb
  <2> QED
    BY <2>1, <2>2
<1>7. /\ b \in Area(x) /\ SameFlags(b, a) /\ b.pos = a.pos
      /\ b.eofAt \in {0, a.eofAt}
      /\ b.bofAt \in IF m = f + 1 THEN {0, a.bofAt} ELSE {q[m]}
      /\ b.cache[FixCachePointer(a.pos + (-1))] = Row(q[1])
  <2>1. SameFlags(b, a)
    BY <1>1, <1>5 DEF SameFlags
  <2>2. 1 \in 1 .. m /\ Where(1) = FixCachePointer(a.pos + (-1))
    BY <1>0, <1>3
  <2> QED
    BY <1>1, <1>5, <2>1, <2>2
<1>8. CASE j = n /\ a.pos - f = 1 /\ a.end = Lines /\ m >= f
  <2>1. b.end = Lines /\ b.begin = 1
    BY <1>0, <1>2, <1>3, <1>5, <1>6, <1>8
  <2> QED
    BY <1>7, <2>1 DEF Full, StoresDown, b, first, m
<1>9. CASE ~(j = n /\ a.pos - f = 1 /\ a.end = Lines /\ m >= f)
  <2>1. j + m + 1 <= Lines /\ v + j <= Lines - 2 /\ v \in 1 .. m
    <3>0. m >= f \/ m < f
      <4>1. m \in Int /\ f \in Int
        BY <1>0
      <4> QED
        BY <4>1
    <3>1. j + f + 2 <= Lines \/ (j = n /\ a.pos - f = 1 /\ a.end = Lines /\ m < f)
      BY <1>2, <1>9, <3>0
    <3> QED
      BY <1>3, <3>1, Zenon
  <2> HIDE DEF v
  <2>2. Span(b) = v + j /\ b.end \in 1 .. Lines /\ b.begin \in 1 .. Lines
    <3>1. j \in 0 .. j
      BY <1>2
    <3>2. /\ v + j \in 0 .. (Lines - 1) /\ b.end = FixCachePointer(b.begin + (v + j))
          /\ b.begin \in 1 .. Lines
      <4>1. b.begin \in 1 .. Lines /\ v + j \in 0 .. (Lines - 1)
        BY <1>0, <1>2, <1>3, <1>6, <2>1
      <4>2. FixCachePointer(b.begin + (v + j)) = FixCachePointer(a.begin + j)
        BY <1>3, <1>6, <2>1, <3>1
      <4> QED
        BY <1>2, <1>5, <4>1, <4>2
    <3> QED
      BY <3>2, SpanIs
  <2>3. ASSUME NEW k \in 0 .. j PROVE Nth(b, v + k) = Nth(a, k)
    <3>1. FixCachePointer(b.begin + (v + k)) \in 1 .. Lines
      <4>1. v + k \in 0 .. (Lines - 1)
        BY <1>0, <2>1
      <4> QED
        BY <2>2, <4>1, RingTurn
    <3>2. \A l \in 1 .. m : FixCachePointer(b.begin + (v + k)) # Where(l)
      BY <1>3, <1>6, <2>1
    <3>3. b.cache[FixCachePointer(b.begin + (v + k))] = a.cache[FixCachePointer(b.begin + (v + k))]
      BY <1>1, <1>5, <3>1, <3>2
    <3> QED
      BY <1>3, <1>6, <2>1, <3>3 DEF Nth
  <2>4. ASSUME NEW k \in 1 .. v PROVE Nth(b, v - k) = Row(q[k])
    <3>1. k \in 1 .. m
      BY <1>0, <2>1
    <3> QED
      BY <1>3, <1>5, <1>6, <3>1 DEF Nth
  <2>5. b.pos = FixCachePointer(b.begin + v)
    BY <1>3, <1>6, <1>7
  <2>6. Prepended(b, a, q, v, j)
    BY <2>1, <2>2, <2>3, <2>4, <2>5 DEF Prepended
  <2> QED
    BY <1>7, <2>6 DEF StoresDown, b, n, first, m, v
<1> QED
  BY <1>8, <1>9
-----------------------------------------------------------------------------
(* The stretch of the table in the ring.                                    *)
Stretch(a, t) ==
  /\ a.begin \in 1 .. Lines /\ a.end \in 1 .. Lines /\ Span(a) <= Lines - 2
  /\ \A k \in 0 .. Span(a) : Nth(a, k).rec \in t
  /\ \A k \in 0 .. (Span(a) - 1) : Follows(a.order, Nth(a, k).rec, Nth(a, k + 1).rec, t)

(* The marks, when set, are the ends of the table.                           *)
Ends(a, t) ==
  t # {} => /\ a.bofAt # 0 => IsFirst(a.order, a.bofAt, t)
            /\ a.eofAt # 0 => IsLast(a.order, a.eofAt, t)

(* At most n rows that go up in t, all there are when they are fewer.        *)
Up(o, q, n, t) ==
  /\ q \in Seq(t) /\ Len(q) <= n
  /\ \A i \in 1 .. (Len(q) - 1) : Follows(o, q[i], q[i + 1], t)
  /\ q # << >> /\ Len(q) # n => IsLast(o, q[Len(q)], t)

Down(o, q, n, t) ==
  /\ q \in Seq(t) /\ Len(q) <= n
  /\ \A i \in 1 .. (Len(q) - 1) : Follows(o, q[i + 1], q[i], t)
  /\ q # << >> /\ Len(q) # n => IsFirst(o, q[Len(q)], t)

(* The first n rows of a list that runs up or down to its end.               *)
LEMMA HeadRuns ==
    ASSUME NEW o, NEW t, NEW q, NEW n \in Nat \ {0}
    PROVE  /\ RunsUp(o, q, t) => Up(o, AtMost(q, n), n, t) /\ AtMost(q, n) # << >>
                                 /\ AtMost(q, n)[1] = q[1]
           /\ RunsDown(o, q, t) => Down(o, AtMost(q, n), n, t) /\ AtMost(q, n) # << >>
                                   /\ AtMost(q, n)[1] = q[1]
<1> SUFFICES ASSUME q \in Seq(t), q # << >>
             PROVE  /\ RunsUp(o, q, t) => Up(o, AtMost(q, n), n, t) /\ AtMost(q, n) # << >>
                                          /\ AtMost(q, n)[1] = q[1]
                    /\ RunsDown(o, q, t) => Down(o, AtMost(q, n), n, t) /\ AtMost(q, n) # << >>
                                            /\ AtMost(q, n)[1] = q[1]
  BY DEF RunsUp, RunsDown
<1> DEFINE h == AtMost(q, n)
<1>1. /\ h \in Seq(t) /\ Len(h) = (IF Len(q) <= n THEN Len(q) ELSE n)
      /\ \A i \in 1 .. Len(h) : h[i] = q[i]
  BY FirstRowsOf
<1> HIDE DEF h
<1>2. Len(q) \in Nat /\ Len(q) # 0
  OBVIOUS
<1>3. /\ Len(h) \in Nat \ {0} /\ Len(h) <= n /\ Len(h) <= Len(q) /\ h # << >>
      /\ Len(h) # n => Len(h) = Len(q)
  BY <1>1, <1>2
<1>4. h[1] = q[1] /\ h[Len(h)] = q[Len(h)]
  BY <1>1, <1>3
<1>5. \A i \in 1 .. (Len(h) - 1) : h[i] = q[i] /\ h[i + 1] = q[i + 1] /\ i \in 1 .. (Len(q) - 1)
  BY <1>1, <1>2, <1>3
<1>6. RunsUp(o, q, t) => Up(o, h, n, t)
  BY <1>1, <1>3, <1>4, <1>5 DEF RunsUp, Up
<1>7. RunsDown(o, q, t) => Down(o, h, n, t)
  BY <1>1, <1>3, <1>4, <1>5 DEF RunsDown, Down
<1> QED
  BY <1>3, <1>4, <1>6, <1>7 DEF h

(* The two halves of it, to cite for a row list that is an expression.       *)
LEMMA FirstOfUp ==
    ASSUME NEW o, NEW t, NEW q, RunsUp(o, q, t), NEW n \in Nat \ {0}
    PROVE  Up(o, AtMost(q, n), n, t) /\ AtMost(q, n) # << >> /\ AtMost(q, n)[1] = q[1]
BY HeadRuns

(* The rows that run down.                                                   *)
LEMMA FirstOfDown ==
    ASSUME NEW o, NEW t, NEW q, RunsDown(o, q, t), NEW n \in Nat \ {0}
    PROVE  Down(o, AtMost(q, n), n, t) /\ AtMost(q, n) # << >> /\ AtMost(q, n)[1] = q[1]
BY HeadRuns

(* The rows after the first one.                                            *)
LEMMA TailRuns ==
    ASSUME NEW o, NEW t, NEW q
    PROVE  /\ RunsUp(o, q, t) =>
                /\ Tail(q) = << >> => IsLast(o, q[1], t)
                /\ Tail(q) # << >> => RunsUp(o, Tail(q), t) /\ Follows(o, q[1], Tail(q)[1], t)
           /\ RunsDown(o, q, t) =>
                /\ Tail(q) = << >> => IsFirst(o, q[1], t)
                /\ Tail(q) # << >> => RunsDown(o, Tail(q), t) /\ Follows(o, Tail(q)[1], q[1], t)
<1> SUFFICES ASSUME q \in Seq(t), q # << >>
             PROVE  /\ RunsUp(o, q, t) =>
                         /\ Tail(q) = << >> => IsLast(o, q[1], t)
                         /\ Tail(q) # << >> => RunsUp(o, Tail(q), t) /\ Follows(o, q[1], Tail(q)[1], t)
                    /\ RunsDown(o, q, t) =>
                         /\ Tail(q) = << >> => IsFirst(o, q[1], t)
                         /\ Tail(q) # << >> => RunsDown(o, Tail(q), t) /\ Follows(o, Tail(q)[1], q[1], t)
  BY DEF RunsUp, RunsDown
<1> DEFINE h == Tail(q)
<1>1. /\ h \in Seq(t) /\ Len(h) = Len(q) - 1 /\ Len(q) \in Nat \ {0}
      /\ \A i \in 1 .. Len(h) : h[i] = q[i + 1]
  OBVIOUS
<1> HIDE DEF h
<1>2. CASE h = << >>
  <2>1. Len(q) = 1
    BY <1>1, <1>2
  <2> QED
    BY <1>2, <2>1 DEF RunsUp, RunsDown, h
<1>3. CASE h # << >>
  <2>1. Len(h) \in Nat \ {0} /\ h[1] = q[2] /\ h[Len(h)] = q[Len(q)] /\ 1 \in 1 .. (Len(q) - 1)
    BY <1>1, <1>3
  <2>2. \A i \in 1 .. (Len(h) - 1) : /\ h[i] = q[i + 1] /\ h[i + 1] = q[(i + 1) + 1]
                                     /\ i + 1 \in 1 .. (Len(q) - 1)
    BY <1>1, <2>1
  <2>3. RunsUp(o, q, t) => RunsUp(o, h, t) /\ Follows(o, q[1], h[1], t)
    BY <1>1, <1>3, <2>1, <2>2 DEF RunsUp
  <2>4. RunsDown(o, q, t) => RunsDown(o, h, t) /\ Follows(o, h[1], q[1], t)
    BY <1>1, <1>3, <2>1, <2>2 DEF RunsDown
  <2> QED
    BY <1>3, <2>3, <2>4 DEF h
<1> QED
  BY <1>2, <1>3

(* The lines before a page, and the page: still a stretch.                   *)
LEMMA AppendedStretch ==
    ASSUME NEW a, NEW b, NEW t, NEW q, NEW n, NEW w \in Nat \ {0}, w <= Len(q), NEW d \in 0 .. Span(a),
           Stretch(a, t), Up(a.order, q, n, t), Appended(b, a, q, w, d), b.order = a.order,
           Follows(a.order, Nth(a, Span(a)).rec, q[1], t)
    PROVE  Stretch(b, t)
<1> DEFINE j == Span(a) - d
<1>0. Lines \in Nat /\ Span(a) \in Nat /\ Len(q) \in Nat
  BY CacheAssumption, RangeIsSpan DEF Stretch, Up
<1>1. /\ j \in 0 .. Span(a) /\ d + j = Span(a)
      /\ b.begin \in 1 .. Lines /\ b.end \in 1 .. Lines /\ Span(b) = j + w /\ j + w <= Lines - 2
      /\ \A k \in 0 .. j : Nth(b, k) = Nth(a, d + k)
      /\ \A k \in 1 .. w : Nth(b, j + k) = Row(q[k])
  BY <1>0 DEF Appended
<1> HIDE DEF j
<1>2. \A k \in 1 .. w : Nth(b, j + k).rec = q[k] /\ q[k] \in t
  <2> TAKE k \in 1 .. w
  <2>1. k \in 1 .. Len(q) /\ q \in Seq(t)
    BY <1>0 DEF Up
  <2>2. q[k] \in t
    BY <2>1
  <2>3. Row(q[k]).rec = q[k]
    BY DEF Row
  <2> QED
    BY <1>1, <2>2, <2>3
<1>3. ASSUME NEW k \in 0 .. (j + w) PROVE Nth(b, k).rec \in t
  <2>1. CASE k \in 0 .. j
    <3>1. d + k \in 0 .. Span(a)
      BY <1>0, <1>1, <2>1
    <3> QED
      BY <1>1, <2>1, <3>1 DEF Stretch
  <2>2. CASE k > j
    <3>1. k - j \in 1 .. w /\ j + (k - j) = k
      BY <1>0, <1>1, <2>2
    <3> QED
      BY <1>2, <3>1
  <2> QED
    BY <1>0, <1>1, <2>1, <2>2
<1>4. ASSUME NEW k \in 0 .. ((j + w) - 1)
      PROVE  Follows(a.order, Nth(b, k).rec, Nth(b, k + 1).rec, t)
  <2>1. CASE k < j
    <3>1. /\ k \in 0 .. j /\ k + 1 \in 0 .. j /\ d + k \in 0 .. (Span(a) - 1)
          /\ d + (k + 1) = (d + k) + 1
      BY <1>0, <1>1, <2>1
    <3>2. Nth(b, k) = Nth(a, d + k) /\ Nth(b, k + 1) = Nth(a, (d + k) + 1)
      BY <1>1, <3>1
    <3> QED
      BY <3>1, <3>2 DEF Stretch
  <2>2. CASE k = j
    <3>1. 1 \in 1 .. w /\ j \in 0 .. j
      BY <1>1
    <3> QED
      BY <1>1, <1>2, <2>2, <3>1
  <2>3. CASE k > j
    <3>1. /\ k - j \in 1 .. w /\ j + (k - j) = k /\ (k - j) + 1 \in 1 .. w
          /\ j + ((k - j) + 1) = k + 1 /\ k - j \in 1 .. (Len(q) - 1)
      BY <1>0, <1>1, <2>3
    <3>2. Nth(b, k).rec = q[k - j] /\ Nth(b, k + 1).rec = q[(k - j) + 1]
      BY <1>2, <3>1
    <3> QED
      BY <3>1, <3>2 DEF Up
  <2> QED
    BY <1>0, <1>1, <2>1, <2>2, <2>3
<1> QED
  BY <1>1, <1>3, <1>4 DEF Stretch

(* The page before the lines, and the lines: still a stretch.                *)
LEMMA PrependedStretch ==
    ASSUME NEW a, NEW b, NEW t, NEW q, NEW n, NEW w \in Nat \ {0}, w <= Len(q), NEW j \in 0 .. Span(a),
           Stretch(a, t), Down(a.order, q, n, t), Prepended(b, a, q, w, j), b.order = a.order,
           Follows(a.order, q[1], Nth(a, 0).rec, t)
    PROVE  Stretch(b, t)
<1>0. Lines \in Nat /\ Span(a) \in Nat /\ Len(q) \in Nat
  BY CacheAssumption, RangeIsSpan DEF Stretch, Down
<1>1. /\ b.begin \in 1 .. Lines /\ b.end \in 1 .. Lines /\ Span(b) = w + j /\ w + j <= Lines - 2
      /\ \A k \in 0 .. j : Nth(b, w + k) = Nth(a, k)
      /\ \A k \in 1 .. w : Nth(b, w - k) = Row(q[k])
  BY DEF Prepended
<1>2. \A k \in 1 .. w : Nth(b, w - k).rec = q[k] /\ q[k] \in t
  <2> TAKE k \in 1 .. w
  <2>1. k \in 1 .. Len(q) /\ q \in Seq(t)
    BY <1>0 DEF Down
  <2>2. q[k] \in t
    BY <2>1
  <2>3. Row(q[k]).rec = q[k]
    BY DEF Row
  <2> QED
    BY <1>1, <2>2, <2>3
<1>5. w \in Int /\ j \in Int /\ w >= 1 /\ j >= 0 /\ Len(q) \in Int /\ w <= Len(q) /\ j <= Span(a)
  BY <1>0
<1>3. ASSUME NEW k \in 0 .. (w + j) PROVE Nth(b, k).rec \in t
  <2>1. CASE k < w
    <3>1. w - k \in 1 .. w /\ w - (w - k) = k
      BY <1>0, <2>1
    <3> QED
      BY <1>2, <3>1
  <2>2. CASE k >= w
    <3>1. k - w \in 0 .. j /\ k - w \in 0 .. Span(a) /\ w + (k - w) = k
      BY <1>0, <2>2
    <3> QED
      BY <1>1, <3>1 DEF Stretch
  <2> QED
    BY <1>0, <2>1, <2>2
<1>4. ASSUME NEW k \in 0 .. ((w + j) - 1)
      PROVE  Follows(a.order, Nth(b, k).rec, Nth(b, k + 1).rec, t)
  <2>1. CASE k + 1 < w
    <3>1. /\ w - k \in 1 .. w /\ w - (w - k) = k /\ w - (k + 1) \in 1 .. w
          /\ w - (w - (k + 1)) = k + 1 /\ w - (k + 1) \in 1 .. (Len(q) - 1)
          /\ (w - (k + 1)) + 1 = w - k
      <4> DEFINE m == Len(q)
      <4>1. w \in Int /\ w >= 1 /\ m \in Int /\ w <= m /\ k \in Int /\ k >= 0
        BY <1>5
      <4> HIDE DEF m
      <4> QED
        BY <2>1, <4>1 DEF m
    <3>2. Nth(b, k).rec = q[(w - (k + 1)) + 1] /\ Nth(b, k + 1).rec = q[w - (k + 1)]
      BY <1>2, <3>1
    <3> QED
      BY <3>1, <3>2 DEF Down
  <2>2. CASE k + 1 = w
    <3>1. 1 \in 1 .. w /\ w - 1 = k /\ 0 \in 0 .. j /\ w + 0 = k + 1
      BY <1>5, <2>2
    <3> QED
      BY <1>1, <1>2, <3>1
  <2>3. CASE k >= w
    <3>1. /\ k - w \in 0 .. j /\ (k - w) + 1 \in 0 .. j /\ w + (k - w) = k
          /\ w + ((k - w) + 1) = k + 1 /\ k - w \in 0 .. (Span(a) - 1)
      BY <1>0, <2>3
    <3>2. Nth(b, k) = Nth(a, k - w) /\ Nth(b, k + 1) = Nth(a, (k - w) + 1)
      BY <1>1, <3>1
    <3> QED
      BY <3>1, <3>2 DEF Stretch
  <2> QED
    BY <1>0, <2>1, <2>2, <2>3
<1> QED
  BY <1>1, <1>3, <1>4 DEF Stretch
-----------------------------------------------------------------------------
(* A page in the empty ring.                                                *)
None(a) == a.pos = 0 /\ a.begin = 0 /\ a.end = 0

(* The room in an empty ring.                                               *)
LEMMA RoomInEmpty ==
    ASSUME NEW x \in Frame, NEW a \in Area(x), NEW f, IsPageSize(f), None(a)
    PROVE  /\ LET r == MakeRoomForward(a, f)
              IN  /\ r \in Area(x) /\ SameFlags(r, a) /\ r.pos = 1 /\ r.begin = 1 /\ r.end = f
                  /\ r.cache = a.cache /\ r.bofAt = a.bofAt /\ r.eofAt = 0
           /\ LET r == MakeRoomBackward(a, f)
              IN  /\ r \in Area(x) /\ SameFlags(r, a) /\ r.pos = Lines /\ r.begin = Lines - f
                  /\ r.end = Lines /\ r.cache = a.cache /\ r.bofAt = a.bofAt /\ r.eofAt = 0
<1>0. Lines \in Nat /\ f \in Nat \ {0} /\ f + 3 <= Lines /\ a.pos = 0 /\ a.begin = 0 /\ a.end = 0
  BY CacheAssumption DEF IsPageSize, None
<1>1. MakeRoomForward(a, f) \in Area(x) /\ MakeRoomBackward(a, f) \in Area(x)
  BY <1>0, RoomIsArea
<1>2. FixCachePointer(0 + f) = f /\ FixCachePointer(0 - f) = Lines - f /\ FixCachePointer(0) = Lines
  BY <1>0 DEF FixCachePointer
<1>3. MakeRoomForward(a, f) = [a EXCEPT !.end = f, !.begin = 1, !.pos = 1, !.eofAt = 0, !.bofAt = a.bofAt]
  BY <1>0, <1>2 DEF MakeRoomForward
<1>4. MakeRoomBackward(a, f)
        = [a EXCEPT !.begin = Lines - f, !.end = Lines, !.pos = Lines, !.eofAt = 0, !.bofAt = a.bofAt]
  BY <1>0, <1>2 DEF MakeRoomBackward
<1>5. LET r == MakeRoomForward(a, f)
      IN  /\ SameFlags(r, a) /\ r.pos = 1 /\ r.begin = 1 /\ r.end = f
          /\ r.cache = a.cache /\ r.bofAt = a.bofAt /\ r.eofAt = 0
  BY <1>3 DEF Area, SameFlags
<1>6. LET r == MakeRoomBackward(a, f)
      IN  /\ SameFlags(r, a) /\ r.pos = Lines /\ r.begin = Lines - f
          /\ r.end = Lines /\ r.cache = a.cache /\ r.bofAt = a.bofAt /\ r.eofAt = 0
  BY <1>4 DEF Area, SameFlags
<1> QED
  BY <1>1, <1>5, <1>6

(* What the rows q leave in the empty ring, from its first line on and from  *)
(* its last line back.                                                       *)
StartsUp(b, a, q, t) ==
  /\ SameFlags(b, a) /\ Shows(b) /\ b.recno = q[1]
  /\ b.pos = 1 /\ Stretch(b, t) /\ InRange(b, 1)
  /\ b.bofAt = a.bofAt /\ (b.eofAt # 0 => IsLast(a.order, b.eofAt, t))

StartsDown(b, a, q, t) ==
  /\ SameFlags(b, a) /\ Shows(b) /\ b.recno = q[1]
  /\ b.pos = Lines /\ Stretch(b, t) /\ InRange(b, Lines)
  /\ b.eofAt = 0 /\ (b.bofAt # a.bofAt => IsFirst(a.order, b.bofAt, t))

(* Rows from the first line on.                                             *)
LEMMA EmptyForward ==
    ASSUME UseDeleteds, NEW x \in Frame, NEW a \in Area(x), NEW f, IsPageSize(f), None(a),
           NEW t \in SUBSET Records, NEW q, q # << >>, Up(a.order, q, f + 1, t)
    PROVE  StartsUp(StorePage(a, q, 1, f, 1), a, q, t)
<1> DEFINE r == MakeRoomForward(a, f)
           m == Len(q)
           w == Least(m, f)
           b == StorePage(a, q, 1, f, 1)
           Where(k) == FixCachePointer(1 + 1 * (k - 1))
<1>0. /\ Lines \in Nat /\ f \in Nat \ {0} /\ f + 3 <= Lines /\ q \in Seq(Records) /\ Len(q) <= f + 1
      /\ m \in Nat \ {0} /\ 1 \in 1 .. Lines
  <2>1. Lines \in Nat /\ f \in Nat \ {0} /\ f + 3 <= Lines
    BY CacheAssumption DEF IsPageSize
  <2>2. q \in Seq(t) /\ Len(q) <= f + 1
    BY DEF Up
  <2>3. q \in Seq(Records) /\ m \in Nat \ {0}
    BY <2>2
  <2> QED
    BY <2>1, <2>2, <2>3
<1>1. /\ r \in Area(x) /\ SameFlags(r, a) /\ r.pos = 1 /\ r.begin = 1 /\ r.end = f
      /\ r.cache = a.cache /\ r.bofAt = a.bofAt /\ r.eofAt = 0
  BY RoomInEmpty
<1>2. b = StoreAt(r, q, 1, f, 1, 1)
  <2>1. a.begin = a.end /\ a.end = 0
    BY DEF None
  <2>2. b = StoreInRoom(r, q, 1, f, 1, TRUE)
    BY <2>1 DEF StorePage
  <2>3. FixCachePointer(r.pos + 0) = 1
    BY <1>0, <1>1 DEF FixCachePointer
  <2> QED
    BY <2>2, <2>3 DEF StoreInRoom
<1> HIDE DEF r, b
<1>3. b \in Area(x) /\ Holds(b, r, q, 1, f, 1)
  <2>1. f \in Nat /\ r.pos \in 1 .. Lines
    BY <1>0, <1>1
  <2> QED
    BY <1>0, <1>1, <1>2, <2>1, StoredLines
<1>4. /\ b.pos = r.pos /\ SameFlags(b, r) /\ Shows(b)
      /\ \A k \in 1 .. m : b.cache[Where(k)] = Row(q[k])
      /\ b.begin = r.begin /\ b.bofAt = r.bofAt
      /\ b.end = IF m = f + 1 THEN r.end ELSE Where(m)
      /\ b.eofAt = IF m = f + 1 THEN r.eofAt ELSE q[m]
  BY <1>3 DEF Holds
<1> HIDE DEF m
<1>5. \A k \in 1 .. m : Where(k) = k
  BY <1>0 DEF FixCachePointer, m
<1> HIDE DEF Where
<1>6. w \in 1 .. m /\ w <= f /\ b.end = w
  <2>1. CASE m = f + 1
    BY <1>0, <1>1, <1>4, <2>1 DEF Least
  <2>2. CASE m # f + 1
    <3>1. m <= f /\ m \in 1 .. m
      BY <1>0, <2>2 DEF m
    <3> QED
      BY <1>4, <1>5, <2>2, <3>1 DEF Least
  <2> QED
    BY <2>1, <2>2
<1> HIDE DEF w
<1>7. Span(b) = w - 1 /\ b.begin \in 1 .. Lines /\ b.end \in 1 .. Lines /\ b.begin = 1
  BY <1>0, <1>1, <1>4, <1>6 DEF Span
<1>8. SameFlags(b, a) /\ b.order = a.order
  BY <1>1, <1>4 DEF SameFlags
<1>9. /\ \A k \in 1 .. m : q[k] \in t
      /\ \A i \in 1 .. (m - 1) : Follows(a.order, q[i], q[i + 1], t)
      /\ m # f + 1 => IsLast(a.order, q[m], t)
  BY DEF Up, m
<1>10. \A k \in 0 .. (w - 1) : Nth(b, k).rec = q[k + 1] /\ k + 1 \in 1 .. m
  <2> TAKE k \in 0 .. (w - 1)
  <2>1. k + 1 \in 1 .. m /\ FixCachePointer(1 + k) = k + 1
    BY <1>0, <1>6 DEF FixCachePointer
  <2>2. Nth(b, k) = Row(q[k + 1])
    BY <1>4, <1>5, <1>7, <2>1 DEF Nth
  <2>3. Row(q[k + 1]).rec = q[k + 1]
    BY DEF Row
  <2> QED
    BY <2>1, <2>2, <2>3
<1>11. Stretch(b, t)
  <2>1. \A k \in 0 .. (w - 1) : Nth(b, k).rec \in t
    BY <1>9, <1>10
  <2>2. ASSUME NEW k \in 0 .. ((w - 1) - 1) PROVE Follows(a.order, Nth(b, k).rec, Nth(b, k + 1).rec, t)
    <3>1. k \in 0 .. (w - 1) /\ k + 1 \in 0 .. (w - 1) /\ k + 1 \in 1 .. (m - 1)
      BY <1>0, <1>6 DEF m
    <3> QED
      BY <1>9, <1>10, <3>1
  <2>3. Span(b) <= Lines - 2
    BY <1>0, <1>6, <1>7
  <2> QED
    BY <1>7, <1>8, <2>1, <2>2, <2>3 DEF Stretch
<1>12. b.recno = q[1] /\ b.pos = 1
  <2>1. 1 \in 1 .. m
    BY <1>0 DEF m
  <2>2. b.cache[1] = Row(q[1]) /\ b.pos = 1
    BY <1>1, <1>4, <1>5, <2>1
  <2> QED
    BY <1>4, <2>2 DEF Shows, Row
<1>13. InRange(b, 1)
  BY <1>0, <1>6, <1>7 DEF InRange, IsCachePointerInRange
<1>14. b.eofAt # 0 => IsLast(a.order, b.eofAt, t)
  BY <1>1, <1>4, <1>9
<1>15. b.bofAt = a.bofAt
  BY <1>1, <1>4
<1> QED
  BY <1>3, <1>4, <1>8, <1>11, <1>12, <1>13, <1>14, <1>15 DEF StartsUp, b

(* Rows from the last line back.                                            *)
LEMMA EmptyBackward ==
    ASSUME UseDeleteds, NEW x \in Frame, NEW a \in Area(x), NEW f, IsPageSize(f), None(a),
           NEW t \in SUBSET Records, NEW q, q # << >>, Down(a.order, q, f + 1, t)
    PROVE  StartsDown(StorePage(a, q, -1, f, Lines), a, q, t)
<1> DEFINE r == MakeRoomBackward(a, f)
           m == Len(q)
           b == StorePage(a, q, -1, f, Lines)
           Where(k) == FixCachePointer(Lines + (-1) * (k - 1))
<1>0. /\ Lines \in Nat /\ f \in Nat \ {0} /\ f + 3 <= Lines /\ q \in Seq(Records) /\ Len(q) <= f + 1
      /\ m \in Nat \ {0} /\ Lines \in 1 .. Lines
  <2>1. Lines \in Nat /\ f \in Nat \ {0} /\ f + 3 <= Lines
    BY CacheAssumption DEF IsPageSize
  <2>2. q \in Seq(t) /\ Len(q) <= f + 1
    BY DEF Down
  <2>3. q \in Seq(Records) /\ m \in Nat \ {0}
    BY <2>2
  <2> QED
    BY <2>1, <2>2, <2>3
<1>1. /\ r \in Area(x) /\ SameFlags(r, a) /\ r.pos = Lines /\ r.begin = Lines - f
      /\ r.end = Lines /\ r.cache = a.cache /\ r.bofAt = a.bofAt /\ r.eofAt = 0
  BY RoomInEmpty
<1>2. b = StoreAt(r, q, -1, f, Lines, Lines)
  <2>1. a.begin = a.end /\ a.end = 0 /\ ~(-1 = 1)
    BY DEF None
  <2>2. b = StoreInRoom(r, q, -1, f, Lines, TRUE)
    BY <2>1 DEF StorePage
  <2>3. FixCachePointer(r.pos + 0) = Lines
    BY <1>0, <1>1 DEF FixCachePointer
  <2> QED
    BY <2>2, <2>3 DEF StoreInRoom
<1> HIDE DEF r, b
<1>3. b \in Area(x) /\ Holds(b, r, q, -1, f, Lines)
  <2>1. f \in Nat /\ r.pos \in 1 .. Lines
    BY <1>0, <1>1
  <2> QED
    BY <1>0, <1>1, <1>2, <2>1, StoredLines
<1>4. /\ b.pos = r.pos /\ SameFlags(b, r) /\ Shows(b)
      /\ \A k \in 1 .. m : b.cache[Where(k)] = Row(q[k])
      /\ b.end = r.end /\ b.eofAt = r.eofAt
      /\ b.begin = IF m = f + 1 THEN r.begin ELSE Where(m)
      /\ b.bofAt = IF m = f + 1 THEN r.bofAt ELSE q[m]
  BY <1>3 DEF Holds
<1> HIDE DEF m
<1>5. \A k \in 1 .. m : Where(k) = (Lines - k) + 1
  BY <1>0 DEF FixCachePointer, m
<1> HIDE DEF Where
<1>6. b.begin = (Lines - m) + 1
  <2>1. CASE m = f + 1
    BY <1>0, <1>1, <1>4, <2>1
  <2>2. CASE m # f + 1
    <3>1. m \in 1 .. m
      BY <1>0 DEF m
    <3> QED
      BY <1>4, <1>5, <2>2, <3>1
  <2> QED
    BY <2>1, <2>2
<1>7. Span(b) = m - 1 /\ b.begin \in 1 .. Lines /\ b.end \in 1 .. Lines /\ b.end = Lines
  BY <1>0, <1>1, <1>4, <1>6 DEF Span, m
<1>8. SameFlags(b, a) /\ b.order = a.order
  BY <1>1, <1>4 DEF SameFlags
<1>9. /\ \A k \in 1 .. m : q[k] \in t
      /\ \A i \in 1 .. (m - 1) : Follows(a.order, q[i + 1], q[i], t)
      /\ m # f + 1 => IsFirst(a.order, q[m], t)
  BY DEF Down, m
<1>10. \A k \in 0 .. (m - 1) : Nth(b, k).rec = q[m - k] /\ m - k \in 1 .. m
  <2> TAKE k \in 0 .. (m - 1)
  <2>1. /\ m - k \in 1 .. m /\ FixCachePointer(b.begin + k) = (Lines - (m - k)) + 1
    BY <1>0, <1>6 DEF FixCachePointer, m
  <2>2. Nth(b, k) = Row(q[m - k])
    BY <1>4, <1>5, <2>1 DEF Nth
  <2>3. Row(q[m - k]).rec = q[m - k]
    BY DEF Row
  <2> QED
    BY <2>1, <2>2, <2>3
<1>11. Stretch(b, t)
  <2>1. \A k \in 0 .. (m - 1) : Nth(b, k).rec \in t
    BY <1>9, <1>10
  <2>2. ASSUME NEW k \in 0 .. ((m - 1) - 1) PROVE Follows(a.order, Nth(b, k).rec, Nth(b, k + 1).rec, t)
    <3>1. /\ k \in 0 .. (m - 1) /\ k + 1 \in 0 .. (m - 1) /\ m - (k + 1) \in 1 .. (m - 1)
          /\ (m - (k + 1)) + 1 = m - k
      BY <1>0 DEF m
    <3>2. Nth(b, k).rec = q[(m - (k + 1)) + 1] /\ Nth(b, k + 1).rec = q[m - (k + 1)]
      BY <1>10, <3>1
    <3> QED
      BY <1>9, <3>1, <3>2
  <2>3. Span(b) <= Lines - 2
    BY <1>0, <1>7 DEF m
  <2> QED
    BY <1>7, <1>8, <2>1, <2>2, <2>3 DEF Stretch
<1>12. b.recno = q[1] /\ b.pos = Lines
  <2>1. 1 \in 1 .. m /\ (Lines - 1) + 1 = Lines
    BY <1>0 DEF m
  <2>2. b.cache[Lines] = Row(q[1]) /\ b.pos = Lines
    BY <1>1, <1>4, <1>5, <2>1
  <2> QED
    BY <1>4, <2>2 DEF Shows, Row
<1>13. InRange(b, Lines)
  BY <1>0, <1>7 DEF InRange, IsCachePointerInRange
<1>14. b.bofAt # a.bofAt => IsFirst(a.order, b.bofAt, t)
  BY <1>1, <1>4, <1>9
<1>15. b.eofAt = 0
  BY <1>1, <1>4
<1> QED
  BY <1>3, <1>4, <1>8, <1>11, <1>12, <1>13, <1>14, <1>15 DEF StartsDown, b
-----------------------------------------------------------------------------
(* ReadPage from a record at the end, or at the begin, of the lines.         *)

(* A list of rows that is not empty has a first one.                          *)
LEMMA NotEmpty ==
    ASSUME NEW t, NEW q \in Seq(t), q # << >>
    PROVE  Len(q) \in Nat \ {0} /\ q[1] \in t
OBVIOUS

(* Without removed records the first row, the current one, is dropped.       *)
LEMMA RowsAfterFirst ==
    ASSUME UseDeleteds, NEW t, NEW a, NEW dir, NEW f \in Nat, PageOf(t, a, dir) # << >>
    PROVE  /\ ReadPage(t, a, dir, f) = PageRead(a, AtMost(Tail(PageOf(t, a, dir)), f + 1), dir, f)
           /\ Tail(PageOf(t, a, dir)) = << >> => AtMost(Tail(PageOf(t, a, dir)), f + 1) = << >>
BY DEF ReadPage, RowsRead, AtMost

(* What a page leaves in the lines: the next record is on line p.             *)
Reached(b, a, t, p) ==
  /\ SameFlags(b, a) /\ Ends(b, t)
  /\ p \in 1 .. Lines /\ InRange(b, p) /\ b.cache[p].rec \in t
  /\ Full(b) \/ Stretch(b, t)

ReadsUp(b, a, t) ==
  \/ IsLast(a.order, a.key, t) /\ b = CleanBuffer([a EXCEPT !.eofAt = a.recno])
  \/ LET p == IF a.pos = 0 THEN 1 ELSE FixCachePointer(a.pos + 1)
     IN  /\ Reached(b, a, t, p) /\ b.pos = (IF a.pos = 0 THEN 1 ELSE a.pos)
         /\ Follows(a.order, a.key, b.cache[p].rec, t)

ReadsDown(b, a, t) ==
  \/ IsFirst(a.order, a.key, t) /\ b = [a EXCEPT !.bofAt = a.recno]
  \/ LET p == FixCachePointer(a.pos + (-1))
     IN  /\ Reached(b, a, t, p) /\ b.pos = a.pos
         /\ Follows(a.order, b.cache[p].rec, a.key, t)

(* A full ring has every line in range.                                       *)
LEMMA FullRange ==
    ASSUME NEW b, Full(b), NEW p \in 1 .. Lines
    PROVE  InRange(b, p)
BY CacheAssumption DEF Full, InRange, IsCachePointerInRange

(* A page behind the last line of the lines in use, or in the empty ring.    *)
LEMMA ReadForward ==
    ASSUME UseDeleteds, NEW x \in Frame, NEW a \in Area(x), NEW t \in SUBSET Records,
           NEW f, IsPageSize(f), a.key \in t, a.recno = a.key, Ends(a, t),
           None(a) \/ (Stretch(a, t) /\ Shows(a) /\ a.pos = a.end)
    PROVE  ReadsUp(ReadPage(t, a, 1, f), a, t)
<1> DEFINE found == PageOf(t, a, 1)
           q == AtMost(Tail(found), f + 1)
           b == ReadPage(t, a, 1, f)
<1>0. Lines \in Nat /\ Lines > 3 /\ f \in Nat \ {0} /\ f + 3 <= Lines /\ f + 1 \in Nat \ {0} /\ f \in Nat
  BY CacheAssumption DEF IsPageSize
<1>1. RunsUp(a.order, found, t) /\ found[1] = a.key /\ found # << >>
  BY PageRuns DEF RunsUp
<1>2. b = PageRead(a, q, 1, f) /\ (Tail(found) = << >> => q = << >>)
  BY <1>0, <1>1, RowsAfterFirst
<1> HIDE DEF found, b
<1>3. CASE Tail(found) = << >>
  <2>1. IsLast(a.order, a.key, t)
    BY <1>1, <1>3, TailRuns
  <2>2. b = CleanBuffer([a EXCEPT !.eofAt = a.recno])
    BY <1>2, <1>3 DEF PageRead
  <2> QED
    BY <2>1, <2>2 DEF ReadsUp, b
<1>4. CASE Tail(found) # << >>
  <2>1. RunsUp(a.order, Tail(found), t) /\ Follows(a.order, a.key, Tail(found)[1], t)
    BY <1>1, <1>4, TailRuns
  <2>2. Up(a.order, q, f + 1, t) /\ q # << >> /\ q[1] = Tail(found)[1]
    <3> DEFINE u == Tail(found)
    <3>1. RunsUp(a.order, u, t) /\ f + 1 \in Nat \ {0}
      BY <1>0, <2>1
    <3> HIDE DEF u
    <3>2. Up(a.order, AtMost(u, f + 1), f + 1, t) /\ AtMost(u, f + 1) # << >> /\ AtMost(u, f + 1)[1] = u[1]
      BY <3>1, FirstOfUp
    <3> QED
      BY <3>2 DEF u
  <2> HIDE DEF q
  <2>3. q \in Seq(t) /\ Len(q) <= f + 1 /\ Len(q) \in Nat \ {0} /\ q \in Seq(Records) /\ q[1] \in t
    <3>1. q \in Seq(t) /\ Len(q) <= f + 1
      BY <2>2 DEF Up
    <3>2. Len(q) \in Nat \ {0} /\ q[1] \in t
      BY <2>2, <3>1, NotEmpty
    <3> QED
      BY <3>1, <3>2
  <2>4. b = StorePage(a, q, 1, f, FixCachePointer(a.pos + 1))
    BY <1>2, <2>2 DEF PageRead
  <2>5. a.order \in 0 .. 1
    BY DEF Area, Frame
  <2>6. CASE None(a)
    <3>1. FixCachePointer(a.pos + 1) = 1 /\ a.pos = 0
      BY <1>0, <2>6 DEF None, FixCachePointer
    <3>2. /\ SameFlags(b, a) /\ Shows(b) /\ b.recno = q[1] /\ b.pos = 1 /\ Stretch(b, t) /\ InRange(b, 1)
          /\ b.bofAt = a.bofAt /\ (b.eofAt # 0 => IsLast(a.order, b.eofAt, t))
      <4>1. StartsUp(StorePage(a, q, 1, f, 1), a, q, t)
        BY <2>2, <2>6, EmptyForward
      <4>2. b = StorePage(a, q, 1, f, 1)
        BY <2>4, <3>1
      <4> QED
        BY <4>1, <4>2 DEF StartsUp
    <3>3. b.cache[1].rec = q[1]
      BY <3>2 DEF Shows
    <3>4. Ends(b, t)
      BY <3>2 DEF Ends, SameFlags
    <3>5. Reached(b, a, t, 1)
      BY <1>0, <2>3, <3>2, <3>3, <3>4 DEF Reached
    <3> QED
      BY <2>1, <2>2, <3>1, <3>2, <3>3, <3>5 DEF ReadsUp, b
  <2>7. CASE Stretch(a, t) /\ Shows(a) /\ a.pos = a.end
    <3> DEFINE p == FixCachePointer(a.pos + 1)
               w == Least(Len(q), f)
    <3>1. /\ a.begin \in 1 .. Lines /\ a.end \in 1 .. Lines /\ Span(a) <= Lines - 2
          /\ a.pos = a.end /\ a.pos # 0
      BY <1>0, <2>7 DEF Stretch
    <3>2. /\ SameFlags(b, a) /\ b.pos = a.pos
          /\ b.bofAt \in {0, a.bofAt}
          /\ b.eofAt \in IF Len(q) = f + 1 THEN {0, a.eofAt} ELSE {q[Len(q)]}
          /\ b.cache[p] = Row(q[1])
          /\ Full(b) \/ \E d \in 0 .. Span(a) : Appended(b, a, q, w, d)
      <4>1. StoresUp(b, a, q, f)
        BY <2>2, <2>3, <2>4, <3>1, PageForward
      <4> QED
        BY <4>1, Zenon DEF StoresUp, w, p
    <3>3. p \in 1 .. Lines
      BY <1>0, <3>1 DEF FixCachePointer
    <3>4. b.cache[p].rec = q[1]
      BY <3>2 DEF Row
    <3>5. Ends(b, t)
      <4>1. Len(q) # f + 1 => IsLast(a.order, q[Len(q)], t)
        BY <2>2 DEF Up
      <4>2. b.order = a.order
        BY <3>2 DEF SameFlags
      <4> QED
        BY <3>2, <4>1, <4>2 DEF Ends
    <3>6. w \in Nat \ {0} /\ w <= Len(q)
      BY <1>0, <2>3 DEF Least
    <3> HIDE DEF p, w
    <3>7. (Full(b) \/ Stretch(b, t)) /\ InRange(b, p)
      <4>1. CASE Full(b)
        BY <3>3, <4>1, FullRange
      <4>2. CASE \E d \in 0 .. Span(a) : Appended(b, a, q, w, d)
        <5>1. PICK d \in 0 .. Span(a) : Appended(b, a, q, w, d)
          BY <4>2
        <5>2. Span(a) \in 0 .. (Lines - 1) /\ FixCachePointer(a.begin + Span(a)) = a.end
          BY <3>1, RangeIsSpan
        <5>3. Nth(a, Span(a)).rec = a.key
          BY <2>7, <5>2 DEF Nth, Shows
        <5>4. Stretch(b, t)
          <6>1. b.order = a.order
            BY <3>2 DEF SameFlags
          <6> QED
            BY <2>1, <2>2, <2>7, <3>6, <5>1, <5>3, <6>1, AppendedStretch
        <5>5. InRange(b, p)
          <6> DEFINE j == Span(a) - d
          <6>1. /\ b.begin \in 1 .. Lines /\ b.end \in 1 .. Lines /\ Span(b) = j + w /\ j + w <= Lines - 2
                /\ b.pos = FixCachePointer(b.begin + j) /\ j \in Nat
            BY <5>1, <5>2 DEF Appended
          <6> HIDE DEF j
          <6>2. j \in 0 .. (Lines - 1) /\ 1 \in 0 .. Lines /\ j + 1 < Lines /\ j + 1 \in 0 .. Span(b)
            BY <1>0, <3>6, <6>1
          <6>3. p = FixCachePointer(b.begin + (j + 1))
            <7>1. FixCachePointer(FixCachePointer(b.begin + j) + 1) = FixCachePointer(b.begin + (j + 1))
              BY <6>1, <6>2, RingTurn
            <7> QED
              BY <3>2, <6>1, <7>1 DEF p
          <6> QED
            BY <3>3, <6>1, <6>2, <6>3, RangeIsSpan
        <5> QED
          BY <5>4, <5>5
      <4> QED
        BY <3>2, <4>1, <4>2
    <3>8. Reached(b, a, t, p)
      BY <2>3, <3>2, <3>3, <3>4, <3>5, <3>7 DEF Reached
    <3> QED
      BY <2>1, <2>2, <3>1, <3>2, <3>4, <3>8 DEF ReadsUp, b, p
  <2> QED
    BY <2>6, <2>7
<1> QED
  BY <1>3, <1>4

(* A page before the first line of the lines in use.                          *)
LEMMA ReadBackward ==
    ASSUME UseDeleteds, NEW x \in Frame, NEW a \in Area(x), NEW t \in SUBSET Records,
           NEW f, IsPageSize(f), a.key \in t, a.recno = a.key, Ends(a, t),
           Stretch(a, t), Shows(a), a.pos = a.begin
    PROVE  ReadsDown(ReadPage(t, a, -1, f), a, t)
<1> DEFINE found == PageOf(t, a, -1)
           q == AtMost(Tail(found), f + 1)
           b == ReadPage(t, a, -1, f)
<1>0. /\ Lines \in Nat /\ Lines > 3 /\ f \in Nat \ {0} /\ f + 3 <= Lines /\ f + 1 \in Nat \ {0} /\ f \in Nat
      /\ ~(-1 = 1)
  BY CacheAssumption DEF IsPageSize
<1>1. RunsDown(a.order, found, t) /\ found[1] = a.key /\ found # << >>
  BY PageRuns DEF RunsDown
<1>2. b = PageRead(a, q, -1, f) /\ (Tail(found) = << >> => q = << >>)
  BY <1>0, <1>1, RowsAfterFirst
<1> HIDE DEF found, b
<1>3. CASE Tail(found) = << >>
  <2>1. IsFirst(a.order, a.key, t)
    BY <1>1, <1>3, TailRuns
  <2>2. b = [a EXCEPT !.bofAt = a.recno]
    BY <1>0, <1>2, <1>3 DEF PageRead
  <2> QED
    BY <2>1, <2>2 DEF ReadsDown, b
<1>4. CASE Tail(found) # << >>
  <2>1. RunsDown(a.order, Tail(found), t) /\ Follows(a.order, Tail(found)[1], a.key, t)
    BY <1>1, <1>4, TailRuns
  <2>2. Down(a.order, q, f + 1, t) /\ q # << >> /\ q[1] = Tail(found)[1]
    <3> DEFINE u == Tail(found)
    <3>1. RunsDown(a.order, u, t) /\ f + 1 \in Nat \ {0}
      BY <1>0, <2>1
    <3> HIDE DEF u
    <3>2. Down(a.order, AtMost(u, f + 1), f + 1, t) /\ AtMost(u, f + 1) # << >> /\ AtMost(u, f + 1)[1] = u[1]
      BY <3>1, FirstOfDown
    <3> QED
      BY <3>2 DEF u
  <2> HIDE DEF q
  <2>3. q \in Seq(t) /\ Len(q) <= f + 1 /\ Len(q) \in Nat \ {0} /\ q \in Seq(Records) /\ q[1] \in t
    <3>1. q \in Seq(t) /\ Len(q) <= f + 1
      BY <2>2 DEF Down
    <3>2. Len(q) \in Nat \ {0} /\ q[1] \in t
      BY <2>2, <3>1, NotEmpty
    <3> QED
      BY <3>1, <3>2
  <2>4. b = StorePage(a, q, -1, f, FixCachePointer(a.pos + (-1)))
    BY <1>2, <2>2 DEF PageRead
  <2> DEFINE p == FixCachePointer(a.pos + (-1))
             w == Least(Len(q), f)
  <2>5. /\ a.begin \in 1 .. Lines /\ a.end \in 1 .. Lines /\ Span(a) <= Lines - 2
    BY <1>0 DEF Stretch
  <2>6. /\ SameFlags(b, a) /\ b.pos = a.pos
        /\ b.eofAt \in {0, a.eofAt}
        /\ b.bofAt \in IF Len(q) = f + 1 THEN {0, a.bofAt} ELSE {q[Len(q)]}
        /\ b.cache[p] = Row(q[1])
        /\ Full(b) \/ \E j \in 0 .. Span(a) : Prepended(b, a, q, w, j)
    <3>1. StoresDown(b, a, q, f)
      BY <2>2, <2>3, <2>4, <2>5, PageBackward
    <3> QED
      BY <3>1, Zenon DEF StoresDown, w, p
  <2>7. p \in 1 .. Lines
    BY <1>0, <2>5 DEF FixCachePointer
  <2>8. b.cache[p].rec = q[1]
    BY <2>6 DEF Row
  <2>9. Ends(b, t)
    <3>1. Len(q) # f + 1 => IsFirst(a.order, q[Len(q)], t)
      BY <2>2 DEF Down
    <3>2. b.order = a.order
      BY <2>6 DEF SameFlags
    <3> QED
      BY <2>6, <3>1, <3>2 DEF Ends
  <2>10. w \in Nat \ {0} /\ w <= Len(q)
    BY <1>0, <2>3 DEF Least
  <2> HIDE DEF p, w
  <2>11. (Full(b) \/ Stretch(b, t)) /\ InRange(b, p)
    <3>1. CASE Full(b)
      BY <2>7, <3>1, FullRange
    <3>2. CASE \E j \in 0 .. Span(a) : Prepended(b, a, q, w, j)
      <4>1. PICK j \in 0 .. Span(a) : Prepended(b, a, q, w, j)
        BY <3>2
      <4>2. Span(a) \in 0 .. (Lines - 1)
        BY <2>5, RangeIsSpan
      <4>3. Nth(a, 0).rec = a.key
        <5>1. FixCachePointer(a.begin + 0) = a.begin
          BY <1>0, <2>5 DEF FixCachePointer
        <5> QED
          BY <5>1 DEF Nth, Shows
      <4>4. Stretch(b, t)
        <5>1. b.order = a.order
          BY <2>6 DEF SameFlags
        <5> QED
          BY <2>1, <2>2, <2>10, <4>1, <4>3, <5>1, PrependedStretch
      <4>5. InRange(b, p)
        <5>1. /\ b.begin \in 1 .. Lines /\ b.end \in 1 .. Lines /\ Span(b) = w + j /\ w + j <= Lines - 2
              /\ b.pos = FixCachePointer(b.begin + w)
          BY <4>1 DEF Prepended
        <5>2. w \in 0 .. (Lines - 1) /\ 1 \in 0 .. w /\ w - 1 \in 0 .. Span(b)
          BY <1>0, <2>10, <4>2, <5>1
        <5>3. FixCachePointer(b.pos - 1) = FixCachePointer(b.begin + (w - 1))
          BY <5>1, <5>2, RingTurn
        <5>4. p = FixCachePointer(b.begin + (w - 1))
          <6>1. a.pos + (-1) = a.pos - 1
            BY <2>5
          <6> QED
            BY <2>6, <5>3, <6>1 DEF p
        <5> QED
          BY <2>7, <5>1, <5>2, <5>4, RangeIsSpan
      <4> QED
        BY <4>4, <4>5
    <3> QED
      BY <2>6, <3>1, <3>2
  <2>12. Reached(b, a, t, p)
    BY <2>3, <2>6, <2>7, <2>8, <2>9, <2>11 DEF Reached
  <2> QED
    BY <2>1, <2>2, <2>6, <2>8, <2>12 DEF ReadsDown, b, p
<1> QED
  BY <1>3, <1>4
-----------------------------------------------------------------------------
(* The current record and the lines.                                         *)
OnLine(a) == a.pos \in 1 .. Lines /\ InRange(a, a.pos)

(* The current record is a record of the table and one of the lines.          *)
Live(a, t) == a.recno \in t /\ Shows(a) /\ Stretch(a, t) /\ OnLine(a)

(* It is a record of the table, and the ring may be empty.                    *)
OnRecord(a, t) == a.recno \in t /\ a.key = a.recno /\ (None(a) \/ Live(a, t))

(* A blank line: the order was changed on the blank record past the end.      *)
BlankLine(a, t) ==
  a.pos = 1 /\ a.begin = 1 /\ a.end = 1 /\ a.bofAt = 0 /\ a.eofAt = 0 /\ t # {}

LinesOK(a, t) == None(a) \/ (Stretch(a, t) /\ OnLine(a)) \/ BlankLine(a, t)

(* The blank record past the end.                                             *)
OnBlank(a, t) == a.eof /\ a.fEof /\ a.recno \notin t /\ a.recno # 0 /\ LinesOK(a, t)

(* All lines in use: the corner the run leaves out.                           *)
FullOn(a) == Full(a) /\ a.pos \in 1 .. Lines

(* What a line becomes when it is made the current one.                       *)
Current(b, a, p) ==
  /\ b.pos = p /\ b.key = b.recno /\ b.recno = a.cache[p].rec /\ Shows(b)
  /\ b.begin = a.begin /\ b.end = a.end /\ b.cache = a.cache /\ b.order = a.order
  /\ b.bofAt = a.bofAt /\ b.eofAt = a.eofAt /\ b.eof = a.eof /\ b.bof = a.bof
  /\ b.fEof = a.fEof

(* The line becomes the record buffer.                                        *)
LEMMA LineIsCurrent ==
    ASSUME UseDeleteds, NEW x \in Frame, NEW a \in Area(x), NEW p \in 1 .. Lines
    PROVE  Current(SetCurrentFromCache(a, p), a, p) /\ Current(Found(a, p), a, p)
<1> DEFINE l == a.cache[p]
<1>1. l \in [rec : 0 .. MaxRec, del : BOOLEAN]
  BY DEF Area, Line
<1>2. l = [rec |-> l.rec, del |-> l.del]
  BY <1>1
<1> HIDE DEF l
<1>3. SetCurrentFromCache(a, p) = [a EXCEPT !.pos = p, !.recno = l.rec, !.key = l.rec, !.isDel = l.del]
  BY DEF SetCurrentFromCache, l
<1> DEFINE b == SetCurrentFromCache(a, p)
<1>4. /\ b.pos = p /\ b.key = l.rec /\ b.recno = l.rec /\ b.isDel = l.del /\ b.cache = a.cache
      /\ b.begin = a.begin /\ b.end = a.end /\ b.order = a.order
      /\ b.bofAt = a.bofAt /\ b.eofAt = a.eofAt /\ b.eof = a.eof /\ b.bof = a.bof /\ b.fEof = a.fEof
  BY <1>3 DEF Area
<1>5. Found(a, p) = [a EXCEPT !.pos = p, !.recno = l.rec, !.key = l.rec, !.isDel = l.del, !.fBof = FALSE]
  BY <1>3 DEF Found, Area
<1> DEFINE c == Found(a, p)
<1>6. /\ c.pos = p /\ c.key = l.rec /\ c.recno = l.rec /\ c.isDel = l.del /\ c.cache = a.cache
      /\ c.begin = a.begin /\ c.end = a.end /\ c.order = a.order
      /\ c.bofAt = a.bofAt /\ c.eofAt = a.eofAt /\ c.eof = a.eof /\ c.bof = a.bof /\ c.fEof = a.fEof
  BY <1>5 DEF Area
<1> HIDE DEF b, c
<1>7. Current(b, a, p)
  BY <1>2, <1>4 DEF Current, Shows, l
<1>8. Current(c, a, p)
  BY <1>2, <1>6 DEF Current, Shows, l
<1> QED
  BY <1>7, <1>8 DEF b, c

(* The stretch and the marks depend on the lines only.                        *)
SameLines(b, a) ==
  /\ b.begin = a.begin /\ b.end = a.end /\ b.cache = a.cache /\ b.order = a.order
  /\ b.bofAt = a.bofAt /\ b.eofAt = a.eofAt

(* What is true of the lines stays true when they stay.                       *)
LEMMA LinesStay ==
    ASSUME NEW a, NEW b, NEW t, SameLines(b, a)
    PROVE  /\ Span(b) = Span(a) /\ (Stretch(a, t) => Stretch(b, t)) /\ (Ends(a, t) => Ends(b, t))
           /\ \A p : InRange(b, p) <=> InRange(a, p)
           /\ Full(b) <=> Full(a)
<1>1. Span(b) = Span(a)
  BY DEF Span, SameLines
<1>2. \A k : Nth(b, k) = Nth(a, k)
  BY DEF Nth, SameLines
<1>3. Stretch(a, t) => Stretch(b, t)
  BY <1>1, <1>2 DEF Stretch, SameLines
<1>4. Ends(a, t) => Ends(b, t)
  BY DEF Ends, SameLines
<1>5. \A p : InRange(b, p) <=> InRange(a, p)
  BY DEF InRange, SameLines
<1> QED
  BY <1>1, <1>3, <1>4, <1>5 DEF Full, SameLines

(* A line in range of a stretch is a record of the table.                     *)
LEMMA LineOfStretch ==
    ASSUME NEW a, NEW t, Stretch(a, t), NEW p \in 1 .. Lines, InRange(a, p)
    PROVE  a.cache[p].rec \in t
<1>1. a.begin \in 1 .. Lines /\ a.end \in 1 .. Lines
  BY DEF Stretch
<1>2. PICK k \in 0 .. Span(a) : p = FixCachePointer(a.begin + k)
  BY <1>1, RangeIsSpan
<1>3. Nth(a, k).rec \in t
  BY DEF Stretch
<1> QED
  BY <1>2, <1>3 DEF Nth

(* Making a line of a stretch the current one.                                *)
LEMMA CurrentIsLive ==
    ASSUME NEW a, NEW b, NEW t, NEW p \in 1 .. Lines, Current(b, a, p), InRange(a, p)
    PROVE  /\ Stretch(a, t) => Live(b, t)
           /\ Full(a) => FullOn(b)
           /\ Ends(a, t) => Ends(b, t)
<1>1. SameLines(b, a) /\ b.pos = p /\ b.recno = a.cache[p].rec /\ Shows(b)
  BY DEF Current, SameLines
<1>2. OnLine(b)
  BY <1>1, LinesStay DEF OnLine
<1>3. Stretch(a, t) => b.recno \in t
  BY <1>1, LineOfStretch
<1> QED
  BY <1>1, <1>2, <1>3, LinesStay DEF Live, FullOn

(* One line on, or the end of the lines.                                      *)
StepsUp(a, t, p) ==
  IF InRange(a, p) THEN Follows(a.order, a.key, a.cache[p].rec, t) ELSE a.pos = a.end

StepsDown(a, t, p) ==
  IF InRange(a, p) THEN Follows(a.order, a.cache[p].rec, a.key, t) ELSE a.pos = a.begin

(* The lines next to the current one hold the records next to it.             *)
LEMMA NextLine ==
    ASSUME NEW a, NEW t, Live(a, t)
    PROVE  /\ FixCachePointer(a.pos + 1) \in 1 .. Lines /\ FixCachePointer(a.pos + (-1)) \in 1 .. Lines
           /\ StepsUp(a, t, FixCachePointer(a.pos + 1))
           /\ StepsDown(a, t, FixCachePointer(a.pos + (-1)))
<1> DEFINE s == Span(a)
           p == FixCachePointer(a.pos + 1)
           m == FixCachePointer(a.pos + (-1))
<1>0. Lines \in Nat /\ Lines > 3 /\ a.pos \in 1 .. Lines /\ InRange(a, a.pos)
  BY CacheAssumption DEF Live, OnLine
<1>1. /\ a.begin \in 1 .. Lines /\ a.end \in 1 .. Lines /\ s <= Lines - 2
      /\ \A k \in 0 .. (s - 1) : Follows(a.order, Nth(a, k).rec, Nth(a, k + 1).rec, t)
  BY DEF Live, Stretch
<1>2. /\ s \in 0 .. (Lines - 1) /\ FixCachePointer(a.begin + s) = a.end
      /\ \A r \in 1 .. Lines : InRange(a, r) <=> \E k \in 0 .. s : r = FixCachePointer(a.begin + k)
  BY <1>1, RangeIsSpan
<1>3. PICK k \in 0 .. s : a.pos = FixCachePointer(a.begin + k)
  BY <1>0, <1>2
<1>4. p \in 1 .. Lines /\ m \in 1 .. Lines
  BY <1>0 DEF FixCachePointer
<1>5. Nth(a, k).rec = a.key
  BY <1>3 DEF Nth, Live, Shows
<1> HIDE DEF s
<1>6. /\ p = FixCachePointer(a.begin + (k + 1))
      /\ k # s => k + 1 \in 0 .. s /\ k \in 0 .. (s - 1)
  <2>1. k \in 0 .. (Lines - 1) /\ 1 \in 0 .. Lines /\ k + 1 < Lines
    BY <1>0, <1>1, <1>2
  <2>2. FixCachePointer(FixCachePointer(a.begin + k) + 1) = FixCachePointer(a.begin + (k + 1))
    BY <1>1, <2>1, RingTurn
  <2>3. k # s => k + 1 \in 0 .. s /\ k \in 0 .. (s - 1)
    BY <1>2
  <2> QED
    BY <1>3, <2>2, <2>3
<1>7. k # 0 => /\ m = FixCachePointer(a.begin + (k - 1)) /\ k - 1 \in 0 .. s
               /\ k - 1 \in 0 .. (s - 1) /\ (k - 1) + 1 = k
  <2> SUFFICES ASSUME k # 0
               PROVE  /\ m = FixCachePointer(a.begin + (k - 1)) /\ k - 1 \in 0 .. s
                      /\ k - 1 \in 0 .. (s - 1) /\ (k - 1) + 1 = k
    OBVIOUS
  <2>1. /\ k \in 0 .. (Lines - 1) /\ 1 \in 0 .. k /\ k - 1 \in 0 .. s
        /\ k - 1 \in 0 .. (s - 1) /\ (k - 1) + 1 = k /\ a.pos + (-1) = a.pos - 1
    BY <1>0, <1>1, <1>2
  <2>2. FixCachePointer(FixCachePointer(a.begin + k) - 1) = FixCachePointer(a.begin + (k - 1))
    BY <1>1, <2>1, RingTurn
  <2> QED
    BY <1>3, <2>1, <2>2
<1> HIDE DEF p, m
<1>8. StepsUp(a, t, p)
  <2>1. CASE k = s
    <3>1. s + 1 \in 0 .. (Lines - 1) /\ \A j \in 0 .. s : j # s + 1 /\ j \in 0 .. (Lines - 1)
      BY <1>0, <1>1, <1>2
    <3>2. \A j \in 0 .. s : p # FixCachePointer(a.begin + j)
      BY <1>1, <1>6, <2>1, <3>1, RingTurn
    <3> QED
      BY <1>2, <1>3, <1>4, <2>1, <3>2 DEF StepsUp
  <2>2. CASE k # s
    BY <1>1, <1>2, <1>4, <1>5, <1>6, <2>2 DEF StepsUp, Nth
  <2> QED
    BY <2>1, <2>2
<1>9. StepsDown(a, t, m)
  <2>1. CASE k = 0
    <3>1. /\ a.pos = a.begin /\ m = FixCachePointer(a.begin + (Lines - 1))
      BY <1>0, <1>1, <1>3, <2>1 DEF FixCachePointer, m
    <3>2. Lines - 1 \in 0 .. (Lines - 1) /\ \A j \in 0 .. s : j # Lines - 1 /\ j \in 0 .. (Lines - 1)
      BY <1>0, <1>1, <1>2
    <3>3. \A j \in 0 .. s : m # FixCachePointer(a.begin + j)
      BY <1>1, <3>1, <3>2, RingTurn
    <3> QED
      BY <1>2, <1>4, <3>1, <3>3 DEF StepsDown
  <2>2. CASE k # 0
    BY <1>1, <1>2, <1>4, <1>5, <1>7, <2>2 DEF StepsDown, Nth
  <2> QED
    BY <2>1, <2>2
<1> QED
  BY <1>4, <1>8, <1>9 DEF p, m

-----------------------------------------------------------------------------
(* SKIP 1 and SKIP -1 of a record of the table.                              *)

(* The lines stay what they are when they and the current line stay.          *)
LEMMA LinesOKStay ==
    ASSUME NEW a, NEW b, NEW t, SameLines(b, a), b.pos = a.pos, LinesOK(a, t)
    PROVE  LinesOK(b, t)
<1>1. None(a) => None(b)
  BY DEF None, SameLines
<1>2. BlankLine(a, t) => BlankLine(b, t)
  BY DEF BlankLine, SameLines
<1>3. Stretch(a, t) /\ OnLine(a) => Stretch(b, t) /\ OnLine(b)
  BY LinesStay DEF OnLine
<1> QED
  BY <1>1, <1>2, <1>3 DEF LinesOK

(* The record in the buffer stays on its line.                                *)
LEMMA LiveStays ==
    ASSUME NEW a, NEW b, NEW t, SameLines(b, a), b.pos = a.pos, b.recno = a.recno, b.key = a.key,
           b.isDel = a.isDel
    PROVE  /\ Live(a, t) => Live(b, t)
           /\ OnRecord(a, t) => OnRecord(b, t)
<1>1. Shows(a) => Shows(b)
  BY DEF Shows, SameLines
<1>2. Stretch(a, t) /\ OnLine(a) => Stretch(b, t) /\ OnLine(b)
  BY LinesStay DEF OnLine
<1>3. Live(a, t) => Live(b, t)
  BY <1>1, <1>2 DEF Live
<1>4. None(a) => None(b)
  BY DEF None, SameLines
<1> QED
  BY <1>3, <1>4 DEF OnRecord

(* A blank buffer over the lines of a.                                        *)
Blank(b, a) ==
  /\ SameLines(b, a) /\ b.pos = a.pos /\ b.recno = a.rcount + 1 /\ b.key = 0
  /\ b.eof = TRUE /\ b.isDel = FALSE

(* It is the record past the end when the RDD has seen EOF.                   *)
LEMMA BlankIsPastEnd ==
    ASSUME NEW x \in Frame, NEW a \in Area(x), NEW b, NEW t, t \subseteq 1 .. a.rcount,
           Blank(b, a), LinesOK(a, t), b.fEof = TRUE
    PROVE  OnBlank(b, t) /\ (Ends(a, t) => Ends(b, t))
<1>1. a.rcount \in Nat
  BY CacheAssumption DEF Area, Frame
<1>2. LinesOK(b, t)
  BY LinesOKStay DEF Blank
<1>3. a.rcount + 1 \notin t /\ a.rcount + 1 # 0
  BY <1>1
<1> QED
  BY <1>2, <1>3, LinesStay DEF OnBlank, Blank

(* What sqlSkipRaw(1) finds: the record that follows, or the end.             *)
SkipsUp(b, a, t) ==
  \/ FullOn(b)
  \/ Live(b, t) /\ Ends(b, t) /\ Follows(a.order, a.key, b.key, t) /\ b.eof = a.eof /\ b.fEof = a.fEof
  \/ OnBlank(b, t) /\ Ends(b, t) /\ b.key = 0 /\ IsLast(a.order, a.key, t)

(* ToEof leaves the lines.                                                    *)
LEMMA EofIsBlank ==
    ASSUME NEW x \in Frame, NEW a \in Area(x)
    PROVE  Blank(ToEof(a), a) /\ ToEof(a).fEof = TRUE /\ Blank(CleanBuffer(a), a)
BY DEF ToEof, CleanBuffer, Blank, SameLines, Area

(* The line next to the current record, or a page and then the line.          *)
LEMMA RawForward ==
    ASSUME UseDeleteds, NEW x \in Frame, NEW a \in Area(x), NEW t \in SUBSET Records,
           NEW f, IsPageSize(f), t \subseteq 1 .. a.rcount, Ends(a, t), OnRecord(a, t)
    PROVE  SkipsUp(SkipRawForward(t, a, f), a, t)
<1> DEFINE b == ReadPage(t, a, 1, f)
           p == FixCachePointer(a.pos + 1)
<1>0. /\ Lines \in Nat /\ Lines > 3 /\ a.pos \in 0 .. Lines /\ 1 \in 0 .. Lines /\ 1 \in {-1, 1}
      /\ 1 # 0
  BY CacheAssumption DEF Area
<1>1. a.recno \in t /\ a.key = a.recno /\ LinesOK(a, t) /\ a.recno # 0 /\ t # {}
  <2>1. a.recno \in t /\ a.key = a.recno /\ LinesOK(a, t)
    BY DEF OnRecord, LinesOK, Live
  <2> QED
    BY <2>1 DEF Records
<1>2. ASSUME NEW c \in Area(x), SameLines(c, a), c.pos = a.pos, c.rcount = a.rcount
      PROVE  OnBlank(ToEof(c), t) /\ Ends(ToEof(c), t) /\ ToEof(c).key = 0
  <2>1. Blank(ToEof(c), c) /\ ToEof(c).fEof = TRUE
    BY EofIsBlank
  <2>2. LinesOK(c, t) /\ Ends(c, t) /\ t \subseteq 1 .. c.rcount
    BY <1>1, <1>2, LinesOKStay, LinesStay
  <2>3. OnBlank(ToEof(c), t) /\ Ends(ToEof(c), t)
    BY <2>1, <2>2, BlankIsPastEnd
  <2> QED
    BY <2>1, <2>3 DEF Blank
<1>3. CASE a.eofAt = a.recno
  <2>1. SkipRawForward(t, a, f) = ToEof(a)
    BY <1>3 DEF SkipRawForward
  <2>2. IsLast(a.order, a.key, t)
    BY <1>1, <1>3 DEF Ends
  <2>3. SameLines(a, a)
    BY DEF SameLines
  <2> QED
    BY <1>2, <2>1, <2>2, <2>3 DEF SkipsUp
<1>4. CASE a.eofAt # a.recno
  <2> DEFINE h == SearchCache(a, 1, 1)
  <2>1. SkipRawForward(t, a, f) = IF h # 0 THEN Found(a, h) ELSE FoundInPage(b, a.pos)
    BY <1>4 DEF SkipRawForward
  <2>2. h = IF a.pos # 0 /\ InRange(a, p) THEN p ELSE 0
    <3>1. p = FixCachePointer(IF 1 # 0 THEN a.pos + 1 ELSE a.pos)
      BY <1>0
    <3> HIDE DEF p
    <3> QED
      BY <1>0, <3>1, SearchIs
  <2> HIDE DEF h, p
  <2>3. ASSUME Live(a, t)
        PROVE  p \in 1 .. Lines /\ StepsUp(a, t, p) /\ a.pos # 0 /\ p # 0
    BY <1>0, <2>3, NextLine DEF p, Live, OnLine
  <2>4. CASE h # 0
    <3>1. Live(a, t)
      BY <1>1, <2>2, <2>4 DEF OnRecord, None
    <3>2. p \in 1 .. Lines /\ InRange(a, p) /\ h = p /\ Follows(a.order, a.key, a.cache[p].rec, t)
      BY <2>2, <2>3, <2>4, <3>1 DEF StepsUp
    <3>3. Current(Found(a, p), a, p)
      BY <3>2, LineIsCurrent
    <3>4. Live(Found(a, p), t) /\ Ends(Found(a, p), t)
      BY <3>1, <3>2, <3>3, CurrentIsLive DEF Live
    <3> QED
      BY <2>1, <2>4, <3>2, <3>3, <3>4 DEF SkipsUp, Current
  <2>5. CASE h = 0
    <3>1. None(a) \/ (Live(a, t) /\ a.pos = a.end /\ ~InRange(a, p))
      BY <2>2, <2>3, <2>5 DEF OnRecord, StepsUp
    <3>2. b \in Area(x)
      BY <1>0, ReadIsArea
    <3>3. ReadsUp(b, a, t)
      BY <1>1, <3>1, ReadForward DEF Live
    <3>4. SkipRawForward(t, a, f) = FoundInPage(b, a.pos)
      BY <2>1, <2>5
    <3> DEFINE g == SearchCache(b, 1, a.pos)
               u == FixCachePointer(IF a.pos # 0 THEN b.pos + 1 ELSE b.pos)
    <3>5. SkipRawForward(t, a, f) = IF g # 0 THEN Found(b, g) ELSE ToEof(b)
      BY <3>4 DEF FoundInPage, FoundOrEof
    <3> HIDE DEF b
    <3>6. g = IF b.pos # 0 /\ InRange(b, u) THEN u ELSE 0
      BY <1>0, <3>2, SearchIs
    <3> HIDE DEF g, u
    <3>7. CASE IsLast(a.order, a.key, t) /\ b = CleanBuffer([a EXCEPT !.eofAt = a.recno])
      <4> DEFINE d == [a EXCEPT !.eofAt = a.recno]
      <4>1. /\ d \in Area(x) /\ d.begin = a.begin /\ d.end = a.end /\ d.cache = a.cache
            /\ d.order = a.order /\ d.pos = a.pos /\ d.bofAt = a.bofAt /\ d.eofAt = a.recno
            /\ d.rcount = a.rcount
        BY DEF Area
      <4>2. b = CleanBuffer(d)
        BY <3>7
      <4> HIDE DEF d
      <4>3. Blank(b, d) /\ b.rcount = d.rcount
        <5>1. Blank(b, d)
          BY <4>1, <4>2, EofIsBlank
        <5>2. b.rcount = d.rcount
          BY <3>2, <4>1 DEF Area
        <5> QED
          BY <5>1, <5>2
      <4>4. /\ b.begin = a.begin /\ b.end = a.end /\ b.cache = a.cache /\ b.order = a.order
            /\ b.pos = a.pos /\ b.bofAt = a.bofAt /\ b.eofAt = a.recno /\ b.rcount = a.rcount
        BY <4>1, <4>3 DEF Blank, SameLines
      <4>5. g = 0
        <5>1. CASE None(a)
          BY <3>6, <4>4, <5>1 DEF None
        <5>2. CASE Live(a, t) /\ ~InRange(a, p)
          <6>1. u = p /\ ~InRange(b, p)
            BY <2>3, <4>4, <5>2 DEF u, p, InRange
          <6> QED
            BY <3>6, <6>1
        <5> QED
          BY <3>1, <5>1, <5>2
      <4>6. Blank(ToEof(b), b) /\ ToEof(b).fEof = TRUE
        BY <3>2, EofIsBlank
      <4>7. Ends(b, t)
        BY <1>1, <3>7, <4>4 DEF Ends
      <4>8. LinesOK(b, t)
        <5>1. None(a) => None(b)
          BY <4>4 DEF None
        <5>2. Live(a, t) => Stretch(b, t) /\ OnLine(b)
          <6>1. Span(b) = Span(a) /\ (\A k : Nth(b, k) = Nth(a, k)) /\ (\A r : InRange(b, r) <=> InRange(a, r))
            BY <4>4 DEF Span, Nth, InRange
          <6> QED
            BY <4>4, <6>1 DEF Live, Stretch, OnLine
        <5> QED
          BY <3>1, <5>1, <5>2 DEF LinesOK
      <4>9. OnBlank(ToEof(b), t) /\ Ends(ToEof(b), t) /\ ToEof(b).key = 0
        <5>1. t \subseteq 1 .. b.rcount
          BY <4>4
        <5> QED
          BY <3>2, <4>6, <4>7, <4>8, <5>1, BlankIsPastEnd DEF Blank
      <4> QED
        BY <3>5, <3>7, <4>5, <4>9 DEF SkipsUp
    <3> DEFINE n == IF a.pos = 0 THEN 1 ELSE FixCachePointer(a.pos + 1)
    <3>8. CASE /\ Reached(b, a, t, n) /\ b.pos = (IF a.pos = 0 THEN 1 ELSE a.pos)
               /\ Follows(a.order, a.key, b.cache[n].rec, t)
      <4>1. u = n /\ b.pos # 0
        <5>1. CASE a.pos = 0
          BY <1>0, <3>8, <5>1 DEF u, FixCachePointer
        <5>2. CASE a.pos # 0
          BY <3>8, <5>2 DEF u
        <5> QED
          BY <5>1, <5>2
      <4> HIDE DEF n
      <4>2. /\ n \in 1 .. Lines /\ InRange(b, n) /\ Ends(b, t) /\ SameFlags(b, a)
            /\ (Full(b) \/ Stretch(b, t)) /\ n # 0
        BY <1>0, <3>8 DEF Reached
      <4>3. g = n
        BY <3>6, <4>1, <4>2
      <4>4. Current(Found(b, n), b, n)
        BY <3>2, <4>2, LineIsCurrent
      <4>5. (FullOn(Found(b, n)) \/ Live(Found(b, n), t)) /\ Ends(Found(b, n), t)
        BY <4>2, <4>4, CurrentIsLive
      <4> QED
        BY <3>5, <3>8, <4>2, <4>3, <4>4, <4>5 DEF SkipsUp, Current, SameFlags
    <3> QED
      BY <3>3, <3>7, <3>8 DEF ReadsUp
  <2> QED
    BY <2>4, <2>5
<1> QED
  BY <1>3, <1>4

(* What sqlSkipRaw(-1) finds: the record that precedes, or it stays on the    *)
(* first one with BOF.                                                        *)
SkipsDown(b, a, t) ==
  /\ b.eof = a.eof /\ b.fEof = a.fEof
  /\ \/ FullOn(b) /\ a.bofAt # a.recno
     \/ Live(b, t) /\ Ends(b, t) /\ (a.bof \/ Follows(a.order, b.key, a.key, t))
     \/ Live(b, t) /\ Ends(b, t) /\ b.key = a.key /\ IsFirst(a.order, a.key, t) /\ b.bof /\ b.fBof

(* BOF leaves everything but its flags.                                       *)
LEMMA BofStays ==
    ASSUME NEW x \in Frame, NEW a \in Area(x)
    PROVE  /\ SameLines(AtBof(a), a) /\ AtBof(a).pos = a.pos /\ AtBof(a).recno = a.recno
           /\ AtBof(a).key = a.key /\ AtBof(a).isDel = a.isDel /\ AtBof(a).eof = a.eof
           /\ AtBof(a).fEof = a.fEof /\ AtBof(a).bof /\ AtBof(a).fBof
BY DEF AtBof, SameLines, Area

(* One line back, or a page before the first line and then one line back.     *)
LEMMA RawBackward ==
    ASSUME UseDeleteds, NEW x \in Frame, NEW a \in Area(x), NEW t \in SUBSET Records,
           NEW f, IsPageSize(f), Ends(a, t), Live(a, t)
    PROVE  SkipsDown(SkipRawBackward(t, a, f), a, t)
<1> DEFINE c == ReadPage(t, a, -1, f)
           p == FixCachePointer(a.pos + (-1))
           b == SkipRawBackward(t, a, f)
<1>0. /\ Lines \in Nat /\ Lines > 3 /\ a.pos \in 1 .. Lines /\ 1 \in 0 .. Lines /\ -1 \in {-1, 1}
      /\ 1 # 0 /\ a.pos # 0 /\ a.pos \in 0 .. Lines
  <2>1. a.pos \in 1 .. Lines
    BY DEF Live, OnLine
  <2> QED
    BY <2>1, CacheAssumption
<1>1. a.recno \in t /\ a.key = a.recno /\ a.recno # 0 /\ t # {}
  BY DEF Live, Shows, Records
<1>2. ~Removed(a)
  <2>1. a.cache[a.pos] \in Line
    BY <1>0 DEF Area
  <2> QED
    BY <2>1 DEF Removed, Line, Nil
<1>3. CASE a.bof
  <2>1. b = a
    BY <1>2, <1>3 DEF SkipRawBackward
  <2> HIDE DEF b
  <2> QED
    BY <1>3, <2>1 DEF SkipsDown, b
<1>4. CASE ~a.bof /\ a.bofAt = a.recno
  <2>1. b = AtBof(a)
    BY <1>2, <1>4 DEF SkipRawBackward
  <2>2. Live(AtBof(a), t) /\ Ends(AtBof(a), t)
    BY BofStays, LiveStays, LinesStay
  <2>3. IsFirst(a.order, a.key, t)
    BY <1>1, <1>4 DEF Ends
  <2> HIDE DEF b
  <2> QED
    BY <2>1, <2>2, <2>3, BofStays DEF SkipsDown, b
<1>5. CASE ~a.bof /\ a.bofAt # a.recno
  <2> DEFINE h == SearchCache(a, -1, 1)
  <2>1. b = SteppedBack(t, StepBack(t, a, f), Removed(a), f)
    BY <1>2, <1>5 DEF SkipRawBackward
  <2>2. StepBack(t, a, f) = IF h # 0 THEN [area |-> a, hit |-> h]
                            ELSE [area |-> c, hit |-> SearchCache(c, -1, a.pos)]
    BY DEF StepBack, Stepped
  <2>3. h = IF InRange(a, p) THEN p ELSE 0
    <3>1. p = FixCachePointer(IF 1 # 0 THEN a.pos + (-1) ELSE a.pos)
      BY <1>0
    <3> HIDE DEF p
    <3> QED
      BY <1>0, <3>1, SearchIs
  <2>4. p \in 1 .. Lines /\ StepsDown(a, t, p) /\ p # 0
    BY <1>0, NextLine
  <2> HIDE DEF h, p, b
  <2>5. CASE h # 0
    <3>1. b = SetCurrentFromCache(a, p) /\ InRange(a, p)
      BY <1>2, <2>1, <2>2, <2>3, <2>5 DEF SteppedBack
    <3>2. Current(b, a, p)
      BY <2>4, <3>1, LineIsCurrent
    <3>3. Live(b, t) /\ Ends(b, t)
      BY <2>4, <3>1, <3>2, CurrentIsLive DEF Live
    <3>4. Follows(a.order, b.key, a.key, t)
      BY <2>4, <3>1, <3>2 DEF StepsDown, Current
    <3> QED
      BY <3>2, <3>3, <3>4 DEF SkipsDown, Current, b
  <2>6. CASE h = 0
    <3>1. a.pos = a.begin /\ ~InRange(a, p)
      BY <2>3, <2>4, <2>6 DEF StepsDown
    <3>2. c \in Area(x)
      BY <1>0, ReadIsArea
    <3>3. ReadsDown(c, a, t)
      BY <1>1, <3>1, ReadBackward DEF Live
    <3> DEFINE g == SearchCache(c, -1, a.pos)
               u == FixCachePointer(IF a.pos # 0 THEN c.pos + (-1) ELSE c.pos)
    <3>4. b = IF g # 0 THEN SetCurrentFromCache(c, g) ELSE AtBof(c)
      BY <1>2, <2>1, <2>2, <2>6 DEF SteppedBack
    <3> HIDE DEF c
    <3>5. g = IF c.pos # 0 /\ InRange(c, u) THEN u ELSE 0
      BY <1>0, <3>2, SearchIs
    <3> HIDE DEF g, u
    <3>6. CASE IsFirst(a.order, a.key, t) /\ c = [a EXCEPT !.bofAt = a.recno]
      <4>1. /\ c.begin = a.begin /\ c.end = a.end /\ c.cache = a.cache /\ c.order = a.order
            /\ c.pos = a.pos /\ c.bofAt = a.recno /\ c.eofAt = a.eofAt /\ c.recno = a.recno
            /\ c.key = a.key /\ c.isDel = a.isDel /\ c.eof = a.eof /\ c.fEof = a.fEof
        BY <3>6 DEF Area
      <4>2. g = 0
        <5>1. u = p /\ ~InRange(c, p)
          BY <1>0, <3>1, <4>1 DEF u, p, InRange
        <5> QED
          BY <3>5, <5>1
      <4>3. Ends(c, t)
        BY <1>1, <3>6, <4>1 DEF Ends
      <4>4. Live(c, t)
        <5>1. Span(c) = Span(a) /\ (\A k : Nth(c, k) = Nth(a, k)) /\ (\A r : InRange(c, r) <=> InRange(a, r))
          BY <4>1 DEF Span, Nth, InRange
        <5> QED
          BY <4>1, <5>1 DEF Live, Stretch, OnLine, Shows
      <4>5. Live(AtBof(c), t) /\ Ends(AtBof(c), t)
        BY <3>2, <4>3, <4>4, BofStays, LiveStays, LinesStay
      <4>6. b = AtBof(c)
        BY <3>4, <4>2
      <4> QED
        <5>1. /\ AtBof(c).key = c.key /\ AtBof(c).eof = c.eof /\ AtBof(c).fEof = c.fEof
              /\ AtBof(c).bof /\ AtBof(c).fBof
          BY <3>2, BofStays
        <5>2. b.eof = a.eof /\ b.fEof = a.fEof /\ b.key = a.key /\ b.bof /\ b.fBof
          BY <4>1, <4>6, <5>1
        <5> QED
          BY <3>6, <4>5, <4>6, <5>2 DEF SkipsDown, b
    <3>7. CASE Reached(c, a, t, p) /\ c.pos = a.pos /\ Follows(a.order, c.cache[p].rec, a.key, t)
      <4>1. u = p
        BY <1>0, <3>7 DEF u, p
      <4>2. InRange(c, p) /\ Ends(c, t) /\ SameFlags(c, a) /\ (Full(c) \/ Stretch(c, t))
        BY <3>7 DEF Reached
      <4>3. b = SetCurrentFromCache(c, p)
        BY <1>0, <2>4, <3>4, <3>5, <3>7, <4>1, <4>2
      <4>4. Current(b, c, p)
        BY <2>4, <3>2, <4>3, LineIsCurrent
      <4>5. (FullOn(b) \/ Live(b, t)) /\ Ends(b, t)
        BY <2>4, <4>2, <4>4, CurrentIsLive
      <4> QED
        BY <1>5, <3>7, <4>2, <4>4, <4>5 DEF SkipsDown, Current, SameFlags, b
    <3> QED
      BY <3>3, <3>6, <3>7 DEF ReadsDown, p
  <2> QED
    BY <2>5, <2>6
<1> QED
  BY <1>3, <1>4, <1>5

(* A full ring stays full.                                                    *)
LEMMA FullStays ==
    ASSUME UseDeleteds, NEW x \in Frame, NEW a \in Area(x), NEW t \in SUBSET Records, NEW f, FullOn(a)
    PROVE  /\ FullOn(SkipRawForward(t, a, f))
           /\ FullOn(SkipRawBackward(t, a, f)) /\ SkipRawBackward(t, a, f).eof = a.eof
<1> DEFINE p == FixCachePointer(a.pos + 1)
           m == FixCachePointer(a.pos + (-1))
<1>0. /\ Lines \in Nat /\ Lines > 3 /\ a.pos \in 1 .. Lines /\ 1 \in 0 .. Lines /\ 1 \in {-1, 1} /\ -1 \in {-1, 1}
      /\ 1 # 0 /\ a.pos # 0 /\ Full(a)
  <2>1. a.pos \in 1 .. Lines /\ Full(a)
    BY DEF FullOn
  <2> QED
    BY <2>1, CacheAssumption
<1>1. p \in 1 .. Lines /\ m \in 1 .. Lines /\ p # 0 /\ m # 0
  BY <1>0 DEF FixCachePointer
<1>2. p = FixCachePointer(IF 1 # 0 THEN a.pos + 1 ELSE a.pos) /\ m = FixCachePointer(IF 1 # 0 THEN a.pos + (-1) ELSE a.pos)
  BY <1>0
<1> HIDE DEF p, m
<1>3. InRange(a, p) /\ InRange(a, m)
  BY <1>0, <1>1, FullRange
<1>4. SearchCache(a, 1, 1) = p /\ SearchCache(a, -1, 1) = m
  <2>1. SearchCache(a, 1, 1) = IF a.pos # 0 /\ InRange(a, p) THEN p ELSE 0
    BY <1>0, <1>2, SearchIs
  <2>2. SearchCache(a, -1, 1) = IF a.pos # 0 /\ InRange(a, m) THEN m ELSE 0
    BY <1>0, <1>2, SearchIs
  <2> QED
    BY <1>0, <1>3, <2>1, <2>2
<1>5. ~Removed(a)
  <2>1. a.cache[a.pos] \in Line
    BY <1>0 DEF Area
  <2> QED
    BY <2>1 DEF Removed, Line, Nil
<1>6. \A b : SameLines(b, a) /\ b.pos = a.pos => FullOn(b)
  BY LinesStay DEF FullOn
<1>7. FullOn(ToEof(a)) /\ FullOn(AtBof(a)) /\ AtBof(a).eof = a.eof
  BY <1>6, EofIsBlank, BofStays DEF Blank
<1>8. Current(Found(a, p), a, p) /\ Current(SetCurrentFromCache(a, m), a, m)
  BY <1>1, LineIsCurrent
<1>9. FullOn(Found(a, p)) /\ FullOn(SetCurrentFromCache(a, m)) /\ SetCurrentFromCache(a, m).eof = a.eof
  BY <1>0, <1>1, <1>3, <1>8, CurrentIsLive DEF Current
<1>10. SkipRawForward(t, a, f) \in {ToEof(a), Found(a, p)}
  BY <1>1, <1>4 DEF SkipRawForward
<1>11. SkipRawBackward(t, a, f) \in {a, AtBof(a), SetCurrentFromCache(a, m)}
  <2>1. StepBack(t, a, f) = [area |-> a, hit |-> m]
    BY <1>1, <1>4 DEF StepBack, Stepped
  <2>2. SteppedBack(t, StepBack(t, a, f), Removed(a), f) = SetCurrentFromCache(a, m)
    BY <1>1, <2>1 DEF SteppedBack
  <2> QED
    BY <1>5, <2>2 DEF SkipRawBackward
<1> QED
  BY <1>7, <1>9, <1>10, <1>11
-----------------------------------------------------------------------------
(* GO TO, GO TOP, GO BOTTOM.                                                  *)
Good(a, t) == Ends(a, t) /\ t \subseteq 1 .. a.rcount /\ (OnRecord(a, t) \/ OnBlank(a, t))

(* Only flags differ.                                                         *)
SameShown(b, a) ==
  /\ SameLines(b, a) /\ b.pos = a.pos /\ b.recno = a.recno /\ b.key = a.key
  /\ b.isDel = a.isDel /\ b.rcount = a.rcount

(* Flags do not matter, but for EOF over the blank record.                    *)
LEMMA GoodStays ==
    ASSUME NEW a, NEW b, NEW t, SameShown(b, a)
    PROVE  /\ Ends(a, t) => Ends(b, t)
           /\ Live(a, t) => Live(b, t)
           /\ OnRecord(a, t) => OnRecord(b, t)
           /\ LinesOK(a, t) => LinesOK(b, t)
           /\ Good(a, t) /\ (a.eof /\ a.fEof => b.eof /\ b.fEof) => Good(b, t)
           /\ FullOn(a) => FullOn(b)
<1>1. /\ Ends(a, t) => Ends(b, t)
      /\ Live(a, t) => Live(b, t)
      /\ OnRecord(a, t) => OnRecord(b, t)
      /\ LinesOK(a, t) => LinesOK(b, t)
  BY LinesStay, LiveStays, LinesOKStay DEF SameShown
<1>2. OnBlank(a, t) /\ b.eof /\ b.fEof => OnBlank(b, t)
  BY <1>1 DEF OnBlank, SameShown
<1>3. OnBlank(a, t) => a.eof /\ a.fEof
  BY DEF OnBlank
<1>4. FullOn(a) => FullOn(b)
  BY LinesStay DEF FullOn, SameShown
<1> QED
  BY <1>1, <1>2, <1>3, <1>4 DEF Good, SameShown

(* SyncFlags, and the changes of the other flags.                             *)
LEMMA FlagsOnly ==
    ASSUME NEW x \in Frame, NEW a \in Area(x)
    PROVE  /\ SameShown(SyncFlags(a), a) /\ SyncFlags(a).eof = a.eof /\ SyncFlags(a).fEof = a.eof
           /\ SyncFlags(a).bof = a.bof /\ SyncFlags(a).wasdel = a.wasdel
           /\ \A v : LET b == [a EXCEPT !.wasdel = v]
                     IN  /\ SameShown(b, a) /\ b.eof = a.eof /\ b.fEof = a.fEof /\ b.bof = a.bof
                         /\ b.fBof = a.fBof /\ b.hot = a.hot /\ b.wasdel = v
           /\ \A v : LET b == [a EXCEPT !.bof = v]
                     IN  SameShown(b, a) /\ b.eof = a.eof /\ b.fEof = a.fEof /\ b.bof = v
<1>1. SameShown(SyncFlags(a), a) /\ SyncFlags(a).eof = a.eof /\ SyncFlags(a).fEof = a.eof
      /\ SyncFlags(a).bof = a.bof /\ SyncFlags(a).wasdel = a.wasdel
  BY DEF SyncFlags, SameShown, SameLines, Area
<1>2. ASSUME NEW v
      PROVE  LET b == [a EXCEPT !.wasdel = v]
             IN  /\ SameShown(b, a) /\ b.eof = a.eof /\ b.fEof = a.fEof /\ b.bof = a.bof
                 /\ b.fBof = a.fBof /\ b.hot = a.hot /\ b.wasdel = v
  BY DEF SameShown, SameLines, Area
<1>3. ASSUME NEW v
      PROVE  LET b == [a EXCEPT !.bof = v]
             IN  SameShown(b, a) /\ b.eof = a.eof /\ b.fEof = a.fEof /\ b.bof = v
  BY DEF SameShown, SameLines, Area
<1> QED
  BY <1>1, <1>2, <1>3

(* One line with a record of the table is a stretch.                          *)
LEMMA OneLineLive ==
    ASSUME NEW b, NEW t, b.pos = 1, b.begin = 1, b.end = 1, b.recno \in t, Shows(b)
    PROVE  Live(b, t)
<1>0. Lines \in Nat /\ Lines > 3 /\ 1 \in 1 .. Lines
  BY CacheAssumption
<1>1. Span(b) = 0 /\ InRange(b, 1)
  BY DEF Span, InRange, IsCachePointerInRange
<1>2. Nth(b, 0).rec \in t
  <2>1. FixCachePointer(1 + 0) = 1
    BY <1>0 DEF FixCachePointer
  <2> QED
    BY <2>1 DEF Nth, Shows
<1>3. Stretch(b, t)
  <2>1. 0 \in 0 .. 0 /\ (\A k \in 0 .. 0 : k = 0) /\ 0 .. (0 - 1) = {} /\ 0 <= Lines - 2
    BY <1>0
  <2> QED
    BY <1>0, <1>1, <1>2, <2>1 DEF Stretch
<1> QED
  BY <1>0, <1>1, <1>3 DEF Live, OnLine

(* Where GO TO r leads.                                                       *)
GoesTo(b, a, t, r) ==
  /\ Good(b, t)
  /\ r \notin t => b.recno \notin t
  /\ r \in t => /\ OnRecord(b, t) /\ b.recno = r /\ (a.pos # 0 => Live(b, t))
                /\ \/ ~b.eof
                   \/ a.eof /\ ~a.bof /\ b = SyncFlags([a EXCEPT !.bof = FALSE])

(* GO TO answers from the buffer, from the first line or with a SELECT.       *)
LEMMA GoToIsGood ==
    ASSUME UseDeleteds, NEW x \in Frame, x.hot # "insert", NEW a \in Area(x), NEW t \in SUBSET Records,
           NEW r \in Nat, Good(a, t)
    PROVE  GoesTo(SyncFlags(WorkAreaGoTo(t, a, r)), a, t, r)
<1> DEFINE cached == a.begin > 0 /\ a.bofAt > 0 /\ a.cache[a.begin].rec = r
           c == WorkAreaGoTo(t, a, r)
           b == SyncFlags(c)
<1>0. /\ Lines \in Nat /\ Lines > 3 /\ 1 \in 1 .. Lines /\ a.hot # "insert" /\ 0 \notin t
      /\ a.bof \in BOOLEAN /\ a.eof \in BOOLEAN
  BY CacheAssumption DEF Area, Records
<1>1. /\ Ends(a, t) /\ t \subseteq 1 .. a.rcount /\ LinesOK(a, t)
      /\ OnRecord(a, t) \/ OnBlank(a, t)
  BY DEF Good, OnRecord, OnBlank, LinesOK, Live
<1>2. c \in Area(x) /\ b \in Area(x) /\ b.rcount = a.rcount
  <2>1. c \in Area(x)
    BY GoToIsArea
  <2>2. b \in Area(x)
    BY <2>1, SmallSteps
  <2> QED
    BY <2>1, <2>2 DEF Area
<1>3. SameShown(b, c) /\ b.eof = c.eof /\ b.fEof = c.eof
  BY <1>2, FlagsOnly
<1>4. CASE r = a.recno /\ ~(a.bof /\ a.eof)
  <2>1. c = [a EXCEPT !.bof = FALSE]
    BY <1>0, <1>4 DEF WorkAreaGoTo
  <2>2. SameShown(c, a) /\ c.eof = a.eof
    BY <2>1, FlagsOnly
  <2> HIDE DEF c
  <2>3. SameShown(b, a) /\ b.eof = a.eof /\ b.fEof = a.eof
    BY <1>3, <2>2 DEF SameShown, SameLines
  <2>4. Good(b, t)
    BY <2>3, GoodStays
  <2>5. r \in t => OnRecord(a, t) /\ (a.pos # 0 => Live(a, t))
    BY <1>1, <1>4 DEF OnBlank, OnRecord, None
  <2>6. r \in t => OnRecord(b, t) /\ b.recno = r /\ (a.pos # 0 => Live(b, t))
    BY <1>4, <2>3, <2>5, GoodStays DEF SameShown
  <2>7. b = SyncFlags([a EXCEPT !.bof = FALSE])
    BY <2>1
  <2> HIDE DEF b
  <2>8. ~b.eof \/ (a.eof /\ ~a.bof)
    BY <1>4, <2>3
  <2>9. r \notin t => b.recno \notin t
    BY <1>4, <2>3 DEF SameShown
  <2> QED
    BY <2>4, <2>6, <2>7, <2>8, <2>9, Zenon DEF GoesTo, b, c
<1>5. ASSUME NEW d \in Area(x), LinesOK(d, t), Ends(d, t), c = [CleanBuffer(d) EXCEPT !.bof = TRUE], r \notin t
      PROVE  GoesTo(b, a, t, r)
  <2>1. CleanBuffer(d) \in Area(x) /\ Blank(CleanBuffer(d), d)
    BY <1>5, BlankIsArea, EofIsBlank
  <2>2. SameShown(c, CleanBuffer(d)) /\ c.eof = CleanBuffer(d).eof
    BY <1>5, <2>1, FlagsOnly
  <2>3. Blank(b, d) /\ b.fEof = TRUE
    <3>1. SameLines(b, d)
      BY <1>3, <2>1, <2>2 DEF SameShown, SameLines, Blank
    <3> QED
      BY <1>3, <2>1, <2>2, <3>1 DEF SameShown, Blank
  <2>4. d.rcount = a.rcount
    BY <1>5 DEF Area
  <2>5. OnBlank(b, t) /\ Ends(b, t)
    BY <1>1, <1>5, <2>3, <2>4, BlankIsPastEnd
  <2> QED
    BY <1>1, <1>2, <1>5, <2>5 DEF GoesTo, Good, OnBlank
<1>6. ASSUME NEW d, Live(d, t), Ends(d, t), d.recno = r, SameShown(c, d), ~c.eof
      PROVE  GoesTo(b, a, t, r)
  <2>1. Live(b, t) /\ Ends(b, t) /\ b.recno = r /\ ~b.eof
    <3>1. SameShown(b, d)
      BY <1>3, <1>6 DEF SameShown, SameLines
    <3> QED
      BY <1>3, <1>6, <3>1, GoodStays DEF SameShown
  <2>2. OnRecord(b, t)
    BY <2>1 DEF OnRecord, Live, Shows
  <2>3. Good(b, t)
    BY <1>1, <1>2, <2>1, <2>2 DEF Good
  <2> QED
    BY <2>1, <2>2, <2>3 DEF GoesTo, Live
<1>7. CASE ~(r = a.recno /\ ~(a.bof /\ a.eof))
  <2>0. ~(r = a.recno /\ a.hot # "insert" /\ ~(a.bof /\ a.eof))
    BY <1>7
  <2>1. CASE r = 0
    <3>1. c = [CleanBuffer(a) EXCEPT !.bof = TRUE]
      BY <2>0, <2>1 DEF WorkAreaGoTo
    <3> QED
      BY <1>0, <1>1, <1>5, <2>1, <3>1
  <2>2. CASE r # 0 /\ cached
    <3>1. c = [GetBuffer([a EXCEPT !.pos = a.begin]) EXCEPT !.eof = FALSE, !.bof = FALSE]
      BY <2>0, <2>2 DEF WorkAreaGoTo
    <3>2. Stretch(a, t) /\ a.begin \in 1 .. Lines /\ a.end \in 1 .. Lines
      BY <1>1, <2>2 DEF LinesOK, None, BlankLine, Stretch
    <3> DEFINE e == [a EXCEPT !.pos = a.begin]
               d == SetCurrentFromCache(e, e.pos)
    <3>3. e \in Area(x) /\ e.pos = a.begin /\ SameLines(e, a)
      BY <3>2 DEF Area, SameLines
    <3> HIDE DEF e
    <3>4. Stretch(e, t) /\ Ends(e, t) /\ InRange(e, e.pos) /\ e.pos \in 1 .. Lines /\ e.cache[e.pos].rec = r
      <4>1. InRange(a, a.begin)
        BY <1>0, <3>2 DEF InRange, IsCachePointerInRange
      <4> QED
        BY <1>1, <2>2, <3>2, <3>3, <4>1, LinesStay DEF SameLines
    <3>5. Current(d, e, e.pos)
      BY <3>3, <3>4, LineIsCurrent
    <3>6. Live(d, t) /\ Ends(d, t) /\ d.recno = r
      BY <3>4, <3>5, CurrentIsLive DEF Current
    <3>7. GetBuffer(e) = d /\ d \in Area(x)
      <4>1. e.pos # 0
        BY <3>4
      <4>2. d \in Area(x)
        BY <3>3, <3>4, LoadShows
      <4> QED
        BY <4>1, <4>2 DEF GetBuffer
    <3>8. c = [d EXCEPT !.eof = FALSE, !.bof = FALSE]
      BY <3>1, <3>7 DEF e
    <3> HIDE DEF d
    <3>9. SameShown(c, d) /\ ~c.eof
      BY <3>7, <3>8 DEF Area, SameShown, SameLines
    <3> QED
      BY <1>6, <3>6, <3>9
  <2>3. CASE r # 0 /\ ~cached /\ r \in t
    <3> DEFINE e == [a EXCEPT !.pos = 1, !.begin = 1, !.end = 1, !.cache[1] = Row(r)]
               d == SetCurrentFromCache(e, e.pos)
    <3>1. c = [GetBuffer(e) EXCEPT !.eof = FALSE, !.bof = FALSE]
      BY <2>0, <2>3 DEF WorkAreaGoTo
    <3>2. Row(r) \in Line
      BY <2>3, RowIsLine
    <3> DEFINE k == [a.cache EXCEPT ![1] = Row(r)]
    <3>3. k \in [1 .. Lines -> Line] /\ k[1] = Row(r)
      BY <1>0, <3>2 DEF Area
    <3>4. e = [a EXCEPT !.pos = 1, !.begin = 1, !.end = 1, !.cache = k]
      BY DEF Area
    <3> HIDE DEF e, k
    <3>5. /\ e \in Area(x) /\ e.pos = 1 /\ e.begin = 1 /\ e.end = 1 /\ e.cache[1] = Row(r)
          /\ e.bofAt = a.bofAt /\ e.eofAt = a.eofAt /\ e.order = a.order
      <4>1. 1 \in 0 .. Lines
        BY <1>0
      <4>2. e \in Area(x)
        BY <3>3, <3>4, <4>1 DEF Area
      <4>3. /\ e.pos = 1 /\ e.begin = 1 /\ e.end = 1 /\ e.cache = k
            /\ e.bofAt = a.bofAt /\ e.eofAt = a.eofAt /\ e.order = a.order
        BY <3>4 DEF Area
      <4> QED
        BY <3>3, <4>2, <4>3
    <3>6. Current(d, e, 1)
      BY <1>0, <3>5, LineIsCurrent
    <3>7. GetBuffer(e) = d /\ d \in Area(x)
      <4>1. d \in Area(x)
        BY <1>0, <3>5, LoadShows
      <4> QED
        BY <1>0, <3>5, <4>1 DEF GetBuffer
    <3> HIDE DEF d
    <3>8. Live(d, t) /\ Ends(d, t) /\ d.recno = r
      <4>1. d.recno = r /\ d.pos = 1 /\ d.begin = 1 /\ d.end = 1 /\ Shows(d)
        BY <3>5, <3>6 DEF Current, Row
      <4>2. Live(d, t)
        BY <2>3, <4>1, OneLineLive
      <4>3. Ends(d, t)
        BY <1>1, <3>5, <3>6 DEF Current, Ends
      <4> QED
        BY <4>1, <4>2, <4>3
    <3>9. c = [d EXCEPT !.eof = FALSE, !.bof = FALSE]
      BY <3>1, <3>7
    <3>10. SameShown(c, d) /\ ~c.eof
      BY <3>7, <3>9 DEF Area, SameShown, SameLines
    <3> QED
      BY <1>6, <3>8, <3>10
  <2>4. CASE r # 0 /\ ~cached /\ r \notin t
    <3> DEFINE d == EmptyCache(a)
    <3>1. c = [CleanBuffer(d) EXCEPT !.bof = TRUE]
      BY <2>0, <2>4 DEF WorkAreaGoTo
    <3>2. d \in Area(x) /\ None(d) /\ d.bofAt = a.bofAt /\ d.eofAt = a.eofAt /\ d.order = a.order
      <4>1. d \in Area(x)
        BY SmallSteps
      <4> QED
        BY <4>1 DEF EmptyCache, None, Area
    <3> HIDE DEF d
    <3>3. LinesOK(d, t) /\ Ends(d, t)
      BY <1>1, <3>2 DEF LinesOK, Ends
    <3> QED
      BY <1>5, <2>4, <3>1, <3>2, <3>3
  <2> QED
    BY <2>1, <2>2, <2>3, <2>4
<1> QED
  BY <1>4, <1>7

(* Rows of a table are records.                                               *)
LEMMA RowsAreRecords ==
    ASSUME NEW t \in SUBSET Records, NEW q \in Seq(t)
    PROVE  q \in Seq(Records)
OBVIOUS

(* Where GO TOP and GO BOTTOM lead.                                           *)
TopOf(b, t) ==
  /\ Good(b, t)
  /\ t = {} => b.eof
  /\ t # {} => Live(b, t) /\ IsFirst(b.order, b.recno, t) /\ ~b.eof

BottomOf(b, t) ==
  /\ Good(b, t)
  /\ t = {} => b.eof
  /\ t # {} => Live(b, t) /\ IsLast(b.order, b.recno, t) /\ ~b.eof

(* The emptied ring with the flags cleared.                                   *)
LEMMA EmptiedIsNone ==
    ASSUME NEW x \in Frame, NEW a \in Area(x)
    PROVE  LET e == [EmptyCache(a) EXCEPT !.eof = FALSE, !.bof = FALSE]
           IN  /\ e \in Area(x) /\ None(e) /\ e.order = a.order /\ e.bofAt = a.bofAt /\ e.eofAt = a.eofAt
               /\ e.recno = a.recno /\ e.rcount = a.rcount /\ ~e.eof /\ ~e.bof
<1>1. EmptyCache(a) = [a EXCEPT !.pos = 0, !.begin = 0, !.end = 0]
  BY DEF EmptyCache
<1> DEFINE e == [EmptyCache(a) EXCEPT !.eof = FALSE, !.bof = FALSE]
<1>2. e = [a EXCEPT !.pos = 0, !.begin = 0, !.end = 0, !.eof = FALSE, !.bof = FALSE]
  BY <1>1 DEF Area
<1> HIDE DEF e
<1>3. 0 \in 0 .. Lines
  BY CacheAssumption
<1>4. e \in Area(x)
  BY <1>2, <1>3 DEF Area
<1>5. /\ None(e) /\ e.order = a.order /\ e.bofAt = a.bofAt /\ e.eofAt = a.eofAt
      /\ e.recno = a.recno /\ e.rcount = a.rcount /\ ~e.eof /\ ~e.bof
  BY <1>2 DEF Area, None
<1> QED
  BY <1>4, <1>5 DEF e

(* GO TOP reads the first page of the table into the empty ring.              *)
LEMMA TopIsGood ==
    ASSUME UseDeleteds, NEW x \in Frame, NEW a \in Area(x), NEW t \in SUBSET Records,
           t \subseteq 1 .. a.rcount
    PROVE  TopOf(SyncFlags(WorkAreaGoTop(t, a)), t)
<1> DEFINE g == EmptyCache(a)
           q == Ascending(a.order, t)
           k == FirstFetch(g, q, 1)
           c == WorkAreaGoTop(t, a)
           b == SyncFlags(c)
<1>0. /\ Lines \in Nat /\ Lines > 3 /\ FetchSize + 1 \in Nat \ {0} /\ IsPageSize(FetchSize)
      /\ a.order \in 0 .. 1 /\ a.rcount \in Nat
  BY CacheAssumption, SizesFit DEF Area, Frame
<1>1. c \in Area(x) /\ b \in Area(x) /\ b.rcount = a.rcount /\ b.order = a.order
  <2>1. c \in Area(x)
    BY EndsAreAreas
  <2>2. b \in Area(x)
    BY <2>1, SmallSteps
  <2> QED
    BY <2>1, <2>2 DEF Area
<1>2. SameShown(b, c) /\ b.eof = c.eof /\ b.fEof = c.eof
  BY <1>1, FlagsOnly
<1>3. c = OnFirst(t, k)
  BY DEF WorkAreaGoTop
<1>4. g \in Area(x) /\ None(g) /\ g.rcount = a.rcount
  <2>1. g \in Area(x)
    BY SmallSteps
  <2> QED
    BY <2>1 DEF EmptyCache, None, Area
<1>5. CASE t = {}
  <2>1. q = << >>
    <3>1. q \in Seq(t)
      BY <1>0, AscendingRows
    <3> QED
      BY <1>5, <3>1
  <2> DEFINE d == [g EXCEPT !.eofAt = g.recno]
  <2>2. k = CleanBuffer(d)
    BY <2>1 DEF FirstFetch
  <2>3. d \in Area(x) /\ None(d) /\ d.rcount = a.rcount
    BY <1>4 DEF None, Area
  <2>4. c = [k EXCEPT !.bof = TRUE, !.eof = TRUE]
    BY <1>3, <1>5 DEF OnFirst
  <2> HIDE DEF d, c
  <2>5. Blank(k, d) /\ k \in Area(x)
    BY <2>2, <2>3, EofIsBlank, BlankIsArea
  <2> HIDE DEF k
  <2>6. SameShown(c, k) /\ c.eof
    BY <2>4, <2>5 DEF Area, SameShown, SameLines
  <2>7. b.recno = a.rcount + 1 /\ None(b) /\ b.eof /\ b.fEof
    BY <1>2, <2>3, <2>5, <2>6 DEF SameShown, SameLines, Blank, None
  <2>8. OnBlank(b, t)
    BY <1>0, <1>5, <2>7 DEF OnBlank, LinesOK
  <2> HIDE DEF b
  <2> QED
    BY <1>1, <1>5, <2>7, <2>8 DEF TopOf, Good, Ends, b, c
<1>6. CASE t # {}
  <2> DEFINE e == [g EXCEPT !.eof = FALSE, !.bof = FALSE]
             h == AtMost(q, FetchSize + 1)
             d == StorePage(e, h, 1, FetchSize, 1)
  <2>1. RunsUp(a.order, q, t) /\ IsFirst(a.order, q[1], t) /\ q # << >>
    BY <1>0, <1>6, TableRuns DEF RunsUp
  <2>2. k = d
    BY <2>1 DEF FirstFetch
  <2>3. e \in Area(x) /\ None(e) /\ e.order = a.order /\ ~e.eof /\ ~e.bof
    BY EmptiedIsNone
  <2> HIDE DEF q, e, k
  <2>4. Up(a.order, h, FetchSize + 1, t) /\ h # << >> /\ h[1] = q[1]
    BY <1>0, <2>1, FirstOfUp
  <2> HIDE DEF h
  <2>5. StartsUp(d, e, h, t)
    BY <1>0, <2>3, <2>4, EmptyForward
  <2>6. d \in Area(x)
    <3>1. g \in Area(x) /\ q \in Seq(Records)
      <4>1. q \in Seq(t)
        BY <2>1 DEF RunsUp
      <4>2. q \in Seq(Records)
        BY <4>1, RowsAreRecords
      <4> QED
        BY <1>4, <4>2
    <3>2. FirstFetch(g, q, 1) \in Area(x)
      BY <3>1, FetchedIsArea
    <3> QED
      BY <2>2, <3>2 DEF k
  <2> HIDE DEF d
  <2>7. /\ Shows(d) /\ d.recno = q[1] /\ d.pos = 1 /\ Stretch(d, t) /\ InRange(d, 1) /\ d.order = a.order
        /\ d.eofAt # 0 => IsLast(a.order, d.eofAt, t)
    BY <2>3, <2>4, <2>5 DEF StartsUp, SameFlags
  <2>8. c = [d EXCEPT !.bofAt = d.key, !.bof = FALSE, !.eof = FALSE, !.pos = 1]
    BY <1>3, <1>6, <2>2 DEF OnFirst
  <2> HIDE DEF c
  <2>9. /\ c.begin = d.begin /\ c.end = d.end /\ c.cache = d.cache /\ c.order = d.order /\ c.pos = 1
        /\ c.recno = d.recno /\ c.key = d.key /\ c.isDel = d.isDel /\ ~c.eof
        /\ c.bofAt = d.key /\ c.eofAt = d.eofAt
    BY <2>6, <2>8 DEF Area
  <2>10. Live(c, t)
    <3>1. Span(c) = Span(d) /\ (\A i : Nth(c, i) = Nth(d, i)) /\ (\A r : InRange(c, r) <=> InRange(d, r))
      BY <2>9 DEF Span, Nth, InRange
    <3>2. Stretch(c, t)
      BY <2>7, <2>9, <3>1 DEF Stretch
    <3>3. Shows(c)
      BY <2>7, <2>9 DEF Shows
    <3>4. OnLine(c) /\ c.recno \in t
      BY <1>0, <2>1, <2>7, <2>9, <3>1 DEF OnLine, IsFirst
    <3> QED
      BY <3>2, <3>3, <3>4 DEF Live
  <2>11. Ends(c, t)
    <3>1. c.bofAt = q[1] /\ c.order = a.order /\ c.eofAt = d.eofAt
      BY <2>7, <2>9 DEF Shows
    <3> QED
      BY <2>1, <2>7, <3>1 DEF Ends
  <2>12. Live(b, t) /\ Ends(b, t) /\ IsFirst(b.order, b.recno, t) /\ ~b.eof
    BY <1>1, <1>2, <2>1, <2>7, <2>9, <2>10, <2>11, GoodStays DEF SameShown
  <2>13. OnRecord(b, t)
    BY <2>12 DEF OnRecord, Live, Shows
  <2> HIDE DEF b
  <2> QED
    BY <1>1, <1>6, <2>12, <2>13 DEF TopOf, Good, b, c
<1> QED
  BY <1>5, <1>6

(* GO BOTTOM reads the last page of the table into the empty ring.            *)
LEMMA BottomIsGood ==
    ASSUME UseDeleteds, NEW x \in Frame, NEW a \in Area(x), NEW t \in SUBSET Records,
           t \subseteq 1 .. a.rcount, Ends(a, t), a.recno # 0
    PROVE  BottomOf(SyncFlags(WorkAreaGoBottom(t, a)), t)
<1> DEFINE g == EmptyCache(a)
           q == Descending(a.order, t)
           k == FirstFetch(g, q, -1)
           c == WorkAreaGoBottom(t, a)
           b == SyncFlags(c)
<1>0. /\ Lines \in Nat /\ Lines > 3 /\ FetchSize + 1 \in Nat \ {0} /\ IsPageSize(FetchSize)
      /\ a.order \in 0 .. 1 /\ a.rcount \in Nat /\ ~(-1 = 1)
  BY CacheAssumption, SizesFit DEF Area, Frame
<1>1. c \in Area(x) /\ b \in Area(x) /\ b.rcount = a.rcount /\ b.order = a.order
  <2>1. c \in Area(x)
    BY EndsAreAreas
  <2>2. b \in Area(x)
    BY <2>1, SmallSteps
  <2> QED
    BY <2>1, <2>2 DEF Area
<1>2. SameShown(b, c) /\ b.eof = c.eof /\ b.fEof = c.eof
  BY <1>1, FlagsOnly
<1>3. c = OnLast(t, k)
  BY DEF WorkAreaGoBottom
<1>4. g \in Area(x) /\ None(g) /\ g.recno = a.recno
  <2>1. g \in Area(x)
    BY SmallSteps
  <2> QED
    BY <2>1 DEF EmptyCache, None, Area
<1>5. CASE t = {}
  <2>1. q = << >>
    <3>1. q \in Seq(t)
      BY <1>0, DescendingRows
    <3> QED
      BY <1>5, <3>1
  <2>2. k = [g EXCEPT !.bof = TRUE, !.bofAt = g.recno]
    BY <1>0, <2>1 DEF FirstFetch
  <2>3. c = [k EXCEPT !.bof = TRUE, !.eof = TRUE]
    BY <1>3, <1>5 DEF OnLast
  <2> HIDE DEF g, c, k
  <2>4. c.recno = a.recno /\ None(c) /\ c.eof
    BY <1>4, <2>2, <2>3 DEF Area, None
  <2>5. b.recno # 0 /\ None(b) /\ b.eof /\ b.fEof
    BY <1>2, <2>4 DEF SameShown, SameLines, None
  <2>6. OnBlank(b, t)
    BY <1>5, <2>5 DEF OnBlank, LinesOK
  <2> HIDE DEF b
  <2> QED
    BY <1>1, <1>5, <2>5, <2>6 DEF BottomOf, Good, Ends, b, c
<1>6. CASE t # {}
  <2> DEFINE e == [g EXCEPT !.eof = FALSE, !.bof = FALSE]
             h == AtMost(q, FetchSize + 1)
             d == StorePage(e, h, -1, FetchSize, Lines)
  <2>1. RunsDown(a.order, q, t) /\ IsLast(a.order, q[1], t) /\ q # << >>
    BY <1>0, <1>6, TableRuns DEF RunsDown
  <2>2. k = d
    BY <1>0, <2>1 DEF FirstFetch
  <2>3. e \in Area(x) /\ None(e) /\ e.order = a.order /\ ~e.eof /\ ~e.bof /\ e.bofAt = a.bofAt
    BY EmptiedIsNone
  <2> HIDE DEF q, e, k
  <2>4. Down(a.order, h, FetchSize + 1, t) /\ h # << >> /\ h[1] = q[1]
    BY <1>0, <2>1, FirstOfDown
  <2> HIDE DEF h
  <2>5. StartsDown(d, e, h, t)
    BY <1>0, <2>3, <2>4, EmptyBackward
  <2>6. d \in Area(x)
    <3>1. g \in Area(x) /\ q \in Seq(Records) /\ -1 \in {-1, 1}
      <4>1. q \in Seq(t)
        BY <2>1 DEF RunsDown
      <4>2. q \in Seq(Records)
        BY <4>1, RowsAreRecords
      <4> QED
        BY <1>4, <4>2
    <3>2. FirstFetch(g, q, -1) \in Area(x)
      BY <3>1, FetchedIsArea
    <3> QED
      BY <2>2, <3>2 DEF k
  <2> HIDE DEF d
  <2>7. /\ Shows(d) /\ d.recno = q[1] /\ d.pos = Lines /\ Stretch(d, t) /\ InRange(d, Lines) /\ d.order = a.order
        /\ d.bofAt # a.bofAt => IsFirst(a.order, d.bofAt, t)
    BY <2>3, <2>4, <2>5 DEF StartsDown, SameFlags
  <2>8. c = [d EXCEPT !.eofAt = d.key, !.bof = FALSE, !.eof = FALSE, !.pos = Lines]
    BY <1>3, <1>6, <2>2 DEF OnLast
  <2> HIDE DEF c
  <2>9. /\ c.begin = d.begin /\ c.end = d.end /\ c.cache = d.cache /\ c.order = d.order /\ c.pos = Lines
        /\ c.recno = d.recno /\ c.key = d.key /\ c.isDel = d.isDel /\ ~c.eof
        /\ c.eofAt = d.key /\ c.bofAt = d.bofAt
    BY <2>6, <2>8 DEF Area
  <2>10. Live(c, t)
    <3>1. Span(c) = Span(d) /\ (\A i : Nth(c, i) = Nth(d, i)) /\ (\A r : InRange(c, r) <=> InRange(d, r))
      BY <2>9 DEF Span, Nth, InRange
    <3>2. Stretch(c, t)
      BY <2>7, <2>9, <3>1 DEF Stretch
    <3>3. Shows(c)
      BY <2>7, <2>9 DEF Shows
    <3>4. OnLine(c) /\ c.recno \in t
      BY <1>0, <2>1, <2>7, <2>9, <3>1 DEF OnLine, IsLast
    <3> QED
      BY <3>2, <3>3, <3>4 DEF Live
  <2>11. Ends(c, t)
    <3>1. c.eofAt = q[1] /\ c.order = a.order /\ c.bofAt = d.bofAt
      BY <2>7, <2>9 DEF Shows
    <3> QED
      BY <2>1, <2>7, <3>1 DEF Ends
  <2>12. Live(b, t) /\ Ends(b, t) /\ IsLast(b.order, b.recno, t) /\ ~b.eof
    BY <1>1, <1>2, <2>1, <2>7, <2>9, <2>10, <2>11, GoodStays DEF SameShown
  <2>13. OnRecord(b, t)
    BY <2>12 DEF OnRecord, Live, Shows
  <2> HIDE DEF b
  <2> QED
    BY <1>1, <1>6, <2>12, <2>13 DEF BottomOf, Good, b, c
<1> QED
  BY <1>5, <1>6
-----------------------------------------------------------------------------
(* The operations of the RDD, without SET DELETED: sqlSkipFilter does nothing. *)

(***************************************************************************)
(* The hypotheses of the theorems about the stretch: marked records are     *)
(* kept (SR_UseDeleteds) and shown, no other area of the process adds a     *)
(* record, and the run stays out of the corners where the area goes wrong.  *)
(***************************************************************************)
Plain == UseDeleteds /\ ~SetDeleted /\ "insert" \notin Siblings /\ Corners = {}

(* GO TOP or GO BOTTOM over a record with EOF set answers without a move.     *)
Stays(b, a) ==
  a.eof /\ ~a.bof /\ b = SyncFlags([[a EXCEPT !.wasdel = FALSE] EXCEPT !.bof = FALSE])

TopsOut(b, a, t) ==
  /\ Good(b, t) /\ (t = {} => b.eof)
  /\ t # {} => /\ OnRecord(b, t) /\ IsFirst(b.order, b.recno, t)
               /\ ~b.eof \/ Stays(b, a)

BottomsOut(b, a, t) ==
  /\ Good(b, t) /\ (t = {} => b.eof)
  /\ t # {} => /\ OnRecord(b, t) /\ IsLast(b.order, b.recno, t)
               /\ a.pos # 0 => Live(b, t)
               /\ ~b.eof \/ Stays(b, a)

(* On an empty table there is only the blank record.                          *)
LEMMA EmptyIsBlank ==
    ASSUME NEW b, NEW t, Good(b, t), t = {}
    PROVE  b.eof
BY DEF Good, OnRecord, OnBlank

(* GO TOP from an area without BOF_AT, whatever is in its lines.              *)
LEMMA FreshTop ==
    ASSUME Plain, NEW x \in Frame, NEW a \in Area(x), NEW t \in SUBSET Records, NEW f,
           t \subseteq 1 .. a.rcount, a.bofAt = 0
    PROVE  TopOf(AreaGoTop(t, a, f), t)
<1> DEFINE c == [a EXCEPT !.wasdel = FALSE]
<1>1. c \in Area(x) /\ c.bofAt = 0 /\ t \subseteq 1 .. c.rcount
  BY DEF Area
<1>2. AreaGoTop(t, a, f) = SyncFlags(WorkAreaGoTop(t, c))
  BY <1>1 DEF AreaGoTop, SkipFilterForward, Plain
<1> HIDE DEF c
<1> QED
  BY <1>1, <1>2, TopIsGood DEF Plain

(* GO TOP, with BOF_AT or without.                                            *)
LEMMA GoTopIsGood ==
    ASSUME Plain, NEW x \in Frame, x.hot # "insert", NEW a \in Area(x), NEW t \in SUBSET Records, NEW f,
           Good(a, t)
    PROVE  TopsOut(AreaGoTop(t, a, f), a, t)
<1> DEFINE c == [a EXCEPT !.wasdel = FALSE]
           b == AreaGoTop(t, a, f)
<1>1. /\ c \in Area(x) /\ SameShown(c, a) /\ c.eof = a.eof /\ c.fEof = a.fEof /\ c.bof = a.bof
      /\ c.bofAt \in Nat /\ c.order = a.order /\ c.bofAt = a.bofAt
  <2>1. c \in Area(x)
    BY SmallSteps
  <2>2. /\ SameShown(c, a) /\ c.eof = a.eof /\ c.fEof = a.fEof /\ c.bof = a.bof
    BY FlagsOnly
  <2> HIDE DEF c
  <2>3. c.bofAt \in Nat /\ c.eofAt \in Nat
    BY <2>1, CacheAssumption DEF Area
  <2> QED
    BY <2>1, <2>2, <2>3 DEF SameShown, SameLines
<1>2. b = SyncFlags(IF c.bofAt # 0 THEN WorkAreaGoTo(t, c, c.bofAt) ELSE WorkAreaGoTop(t, c))
  BY DEF AreaGoTop, SkipFilterForward, Plain
<1>3. Good(c, t)
  <2> HIDE DEF c
  <2> QED
    BY <1>1, GoodStays
<1>4. Ends(c, t) /\ t \subseteq 1 .. a.rcount
  BY <1>3 DEF Good
<1>5. CASE c.bofAt # 0
  <2>1. GoesTo(SyncFlags(WorkAreaGoTo(t, c, c.bofAt)), c, t, c.bofAt)
    <3> HIDE DEF c
    <3> QED
      BY <1>1, <1>3, GoToIsGood DEF Plain
  <2>2. b = SyncFlags(WorkAreaGoTo(t, c, c.bofAt))
    BY <1>2, <1>5
  <2>3. GoesTo(b, c, t, c.bofAt)
    BY <2>1, <2>2
  <2>4. t # {} => c.bofAt \in t /\ IsFirst(c.order, c.bofAt, t)
    BY <1>4, <1>5 DEF Ends, IsFirst
  <2>5. b.order = c.order
    <3>1. b \in Area(x)
      BY <1>1, <2>2, GoToIsArea, SmallSteps
    <3> QED
      BY <1>1, <3>1 DEF Area
  <2>6. Good(b, t)
    BY <2>3 DEF GoesTo
  <2>7. ASSUME t # {}
        PROVE  OnRecord(b, t) /\ b.recno = c.bofAt /\ (~b.eof \/ Stays(b, a))
    <3>1. /\ OnRecord(b, t) /\ b.recno = c.bofAt
          /\ ~b.eof \/ (c.eof /\ ~c.bof /\ b = SyncFlags([c EXCEPT !.bof = FALSE]))
      BY <2>3, <2>4, <2>7, Zenon DEF GoesTo
    <3> HIDE DEF b
    <3> QED
      BY <1>1, <3>1, Zenon DEF Stays
  <2> HIDE DEF b, c
  <2> QED
    BY <2>4, <2>5, <2>6, <2>7, EmptyIsBlank DEF TopsOut, b
<1>6. CASE c.bofAt = 0
  <2>1. TopOf(b, t)
    BY <1>1, <1>4, <1>6, FreshTop DEF Good
  <2> HIDE DEF b
  <2> QED
    BY <2>1 DEF TopOf, TopsOut, OnRecord, Live, Shows, b
<1> QED
  BY <1>5, <1>6

(* GO BOTTOM, with EOF_AT or without.                                         *)
LEMMA GoBottomIsGood ==
    ASSUME Plain, NEW x \in Frame, x.hot # "insert", NEW a \in Area(x), NEW t \in SUBSET Records, NEW f,
           Good(a, t)
    PROVE  BottomsOut(AreaGoBottom(t, a, f), a, t)
<1> DEFINE c == [a EXCEPT !.wasdel = FALSE]
           b == AreaGoBottom(t, a, f)
<1>1. /\ c \in Area(x) /\ SameShown(c, a) /\ c.eof = a.eof /\ c.fEof = a.fEof /\ c.bof = a.bof
      /\ c.eofAt \in Nat /\ c.order = a.order /\ c.pos = a.pos /\ c.rcount = a.rcount
  <2>1. c \in Area(x)
    BY SmallSteps
  <2>2. /\ SameShown(c, a) /\ c.eof = a.eof /\ c.fEof = a.fEof /\ c.bof = a.bof
    BY FlagsOnly
  <2> HIDE DEF c
  <2>3. c.bofAt \in Nat /\ c.eofAt \in Nat
    BY <2>1, CacheAssumption DEF Area
  <2> QED
    BY <2>1, <2>2, <2>3 DEF SameShown, SameLines
<1>2. b = SyncFlags(IF c.eofAt # 0 THEN WorkAreaGoTo(t, c, c.eofAt) ELSE WorkAreaGoBottom(t, c))
  BY DEF AreaGoBottom, SkipFilterBackward, Plain
<1>3. Good(c, t)
  <2> HIDE DEF c
  <2> QED
    BY <1>1, GoodStays
<1>4. Ends(c, t) /\ t \subseteq 1 .. c.rcount /\ c.recno # 0
  BY <1>3 DEF Good, OnRecord, OnBlank, Records
<1>5. CASE c.eofAt # 0
  <2>1. GoesTo(SyncFlags(WorkAreaGoTo(t, c, c.eofAt)), c, t, c.eofAt)
    <3> HIDE DEF c
    <3> QED
      BY <1>1, <1>3, GoToIsGood DEF Plain
  <2>2. b = SyncFlags(WorkAreaGoTo(t, c, c.eofAt))
    BY <1>2, <1>5
  <2>3. GoesTo(b, c, t, c.eofAt)
    BY <2>1, <2>2
  <2>4. t # {} => c.eofAt \in t /\ IsLast(c.order, c.eofAt, t)
    BY <1>4, <1>5 DEF Ends, IsLast
  <2>5. b.order = c.order
    <3>1. b \in Area(x)
      BY <1>1, <2>2, GoToIsArea, SmallSteps
    <3> QED
      BY <1>1, <3>1 DEF Area
  <2>6. Good(b, t)
    BY <2>3 DEF GoesTo
  <2>7. ASSUME t # {}
        PROVE  /\ OnRecord(b, t) /\ b.recno = c.eofAt /\ (~b.eof \/ Stays(b, a))
               /\ a.pos # 0 => Live(b, t)
    <3>1. /\ OnRecord(b, t) /\ b.recno = c.eofAt /\ (c.pos # 0 => Live(b, t))
          /\ ~b.eof \/ (c.eof /\ ~c.bof /\ b = SyncFlags([c EXCEPT !.bof = FALSE]))
      BY <2>3, <2>4, <2>7, Zenon DEF GoesTo
    <3> HIDE DEF b
    <3> QED
      BY <1>1, <3>1, Zenon DEF Stays
  <2> HIDE DEF b, c
  <2> QED
    BY <2>4, <2>5, <2>6, <2>7, EmptyIsBlank DEF BottomsOut, b
<1>6. CASE c.eofAt = 0
  <2>1. BottomOf(SyncFlags(WorkAreaGoBottom(t, c)), t)
    <3> HIDE DEF c
    <3> QED
      BY <1>1, <1>4, BottomIsGood DEF Plain
  <2>2. b = SyncFlags(WorkAreaGoBottom(t, c))
    BY <1>2, <1>6
  <2>3. BottomOf(b, t)
    BY <2>1, <2>2
  <2> HIDE DEF b
  <2> QED
    BY <2>3 DEF BottomOf, BottomsOut, OnRecord, Live, Shows, b
<1> QED
  BY <1>5, <1>6

(* Where a forward skip may be, and where a backward skip may be.             *)
UpAt(b, t) == Good(b, t) \/ FullOn(b)

DownAt(b, t) == (Live(b, t) /\ Ends(b, t)) \/ (FullOn(b) /\ ~b.eof)

(* One round of SKIP n, n > 0.                                                *)
LEMMA UpRound ==
    ASSUME Plain, NEW x \in Frame, NEW a \in Area(x), NEW t \in SUBSET Records,
           NEW f, IsPageSize(f), t \subseteq 1 .. x.rcount, UpAt(a, t)
    PROVE  /\ OneSkip(t, a, 1, f) \in Area(x) /\ UpAt(OneSkip(t, a, 1, f), t)
           /\ Good(a, t) /\ ~a.eof => SkipsUp(OneSkip(t, a, 1, f), a, t)
           /\ a.eof => OneSkip(t, a, 1, f).recno = a.recno
<1> DEFINE b == OneSkip(t, a, 1, f)
<1>0. a.rcount = x.rcount /\ 1 \in {-1, 1} /\ 1 # -1 /\ UseDeleteds /\ ~SetDeleted
  BY DEF Area, Plain
<1>1. b = SkipRaw(t, a, 1, f)
  BY <1>0 DEF OneSkip, SkipFilterForward
<1>2. b \in Area(x)
  BY <1>0, <1>1, GoIsArea
<1>3. CASE a.eof
  <2>1. b = a \/ b = SyncFlags(a)
    BY <1>0, <1>1, <1>3 DEF SkipRaw
  <2>2. SameShown(SyncFlags(a), a) /\ SyncFlags(a).eof = a.eof /\ SyncFlags(a).fEof = a.eof
    BY FlagsOnly
  <2>3. UpAt(SyncFlags(a), t)
    BY <1>3, <2>2, GoodStays DEF UpAt
  <2>4. UpAt(b, t) /\ b.recno = a.recno
    BY <2>1, <2>2, <2>3 DEF SameShown
  <2> HIDE DEF b
  <2> QED
    BY <1>2, <1>3, <2>4 DEF b
<1>4. CASE ~a.eof
  <2>1. b = SkipRawForward(t, a, f)
    BY <1>0, <1>1, <1>4 DEF SkipRaw
  <2>2. ASSUME Good(a, t) PROVE SkipsUp(b, a, t) /\ UpAt(b, t)
    <3>1. OnRecord(a, t) /\ Ends(a, t)
      BY <1>4, <2>2 DEF Good, OnBlank
    <3>2. SkipsUp(SkipRawForward(t, a, f), a, t)
      BY <1>0, <3>1, RawForward
    <3>3. SkipsUp(b, a, t)
      BY <2>1, <3>2
    <3>4. b.rcount = x.rcount
      BY <1>2 DEF Area
    <3> HIDE DEF b
    <3>5. Live(b, t) => OnRecord(b, t)
      BY DEF Live, Shows, OnRecord
    <3> QED
      BY <3>3, <3>4, <3>5 DEF SkipsUp, UpAt, Good
  <2>3. FullOn(a) => UpAt(b, t)
    BY <1>0, <2>1, FullStays DEF UpAt
  <2> HIDE DEF b
  <2> QED
    BY <1>2, <1>4, <2>2, <2>3 DEF UpAt, b
<1> QED
  BY <1>3, <1>4

(* One round of SKIP n, n < 0, with a line in use.                            *)
LEMMA DownRound ==
    ASSUME Plain, NEW x \in Frame, x.hot # "insert", NEW a \in Area(x), NEW t \in SUBSET Records,
           NEW f, IsPageSize(f), t \subseteq 1 .. x.rcount,
           (Good(a, t) /\ a.pos # 0) \/ DownAt(a, t)
    PROVE  /\ OneSkip(t, a, -1, f) \in Area(x) /\ DownAt(OneSkip(t, a, -1, f), t)
           /\ Good(a, t) /\ ~a.eof => SkipsDown(OneSkip(t, a, -1, f), a, t)
<1> DEFINE b == OneSkip(t, a, -1, f)
<1>0. /\ a.rcount = x.rcount /\ -1 \in {-1, 1} /\ ~(-1 = 1) /\ UseDeleteds /\ ~SetDeleted
      /\ a.eofAt \in Nat /\ a.eof \in BOOLEAN
  BY CacheAssumption DEF Area, Plain
<1>1. b = SkipRaw(t, a, -1, f)
  BY <1>0 DEF OneSkip, SkipFilterBackward
<1>2. b \in Area(x) /\ b.rcount = x.rcount
  <2>1. b \in Area(x)
    BY <1>0, <1>1, GoIsArea
  <2> QED
    BY <2>1 DEF Area
<1>3. CASE FullOn(a) /\ ~a.eof
  <2>1. b = SkipRawBackward(t, a, f)
    BY <1>0, <1>1, <1>3 DEF SkipRaw
  <2>2. FullOn(b) /\ ~b.eof
    BY <1>0, <1>3, <2>1, FullStays
  <2>3. ~Good(a, t)
    <3>1. Full(a) => Span(a) = Lines - 1
      BY CacheAssumption DEF Full, Span
    <3>2. Full(a) => ~Stretch(a, t)
      BY <3>1, CacheAssumption DEF Stretch
    <3> QED
      BY <1>3, <3>2 DEF FullOn, Good, OnRecord, OnBlank, None, Live, Full
  <2> HIDE DEF b
  <2> QED
    BY <1>2, <2>2, <2>3 DEF DownAt, b
<1>4. CASE Good(a, t) /\ a.pos # 0
  <2>1. Ends(a, t) /\ (Live(a, t) \/ OnBlank(a, t)) /\ t # {}
    <3>1. Ends(a, t) /\ (Live(a, t) \/ OnBlank(a, t))
      BY <1>4 DEF Good, OnRecord, None
    <3>2. Stretch(a, t) => t # {}
      <4>1. Stretch(a, t) => a.begin \in 1 .. Lines /\ a.end \in 1 .. Lines
        BY DEF Stretch
      <4>2. Stretch(a, t) => 0 \in 0 .. Span(a)
        BY <4>1, RangeIsSpan
      <4> QED
        BY <4>2 DEF Stretch
    <3> QED
      BY <1>4, <3>1, <3>2 DEF Live, OnBlank, LinesOK, None, BlankLine
  <2>2. \/ b = SkipRawBackward(t, a, f) /\ (~a.eof \/ a.bofAt = a.recno)
        \/ a.eof /\ ~(a.eof /\ a.bof) /\ a.eofAt = a.recno /\ b = AreaGoTo(t, a, a.eofAt)
        \/ a.eof /\ b = AreaGoBottom(t, a, f)
    BY <1>0, <1>1 DEF SkipRaw
  <2>3. ASSUME b = SkipRawBackward(t, a, f), ~a.eof \/ a.bofAt = a.recno
        PROVE  DownAt(b, t) /\ SkipsDown(b, a, t)
    <3>1. Live(a, t)
      BY <2>1, <2>3 DEF OnBlank, Ends, IsFirst
    <3>2. SkipsDown(SkipRawBackward(t, a, f), a, t)
      BY <1>0, <2>1, <3>1, RawBackward
    <3>3. SkipsDown(b, a, t)
      BY <2>3, <3>2
    <3> HIDE DEF b
    <3> QED
      BY <2>3, <3>3 DEF SkipsDown, DownAt
  <2>4. ASSUME a.eofAt = a.recno, b = AreaGoTo(t, a, a.eofAt)
        PROVE  DownAt(b, t)
    <3> DEFINE c == [a EXCEPT !.wasdel = FALSE]
    <3>1. c \in Area(x) /\ SameShown(c, a) /\ c.eof = a.eof /\ c.fEof = a.fEof
      BY DEF Area, SameShown, SameLines
    <3>2. b = SyncFlags(WorkAreaGoTo(t, c, a.eofAt))
      BY <2>4 DEF AreaGoTo
    <3>3. a.eofAt \in t
      <4>1. a.recno # 0
        BY <2>1 DEF Live, OnBlank, Records
      <4> QED
        BY <2>1, <2>4, <4>1 DEF Ends, IsLast
    <3> HIDE DEF c
    <3>4. Good(c, t) /\ c.pos # 0
      BY <1>4, <3>1, GoodStays DEF SameShown
    <3>5. GoesTo(SyncFlags(WorkAreaGoTo(t, c, a.eofAt)), c, t, a.eofAt)
      BY <1>0, <3>1, <3>4, GoToIsGood
    <3>6. GoesTo(b, c, t, a.eofAt)
      BY <3>2, <3>5
    <3> HIDE DEF b
    <3> QED
      BY <3>3, <3>4, <3>6 DEF GoesTo, DownAt, Good
  <2>5. ASSUME b = AreaGoBottom(t, a, f)
        PROVE  DownAt(b, t)
    <3>1. BottomsOut(AreaGoBottom(t, a, f), a, t)
      BY <1>4, GoBottomIsGood
    <3>2. BottomsOut(b, a, t)
      BY <2>5, <3>1
    <3> HIDE DEF b
    <3> QED
      BY <1>4, <2>1, <3>2 DEF BottomsOut, DownAt, Good
  <2> HIDE DEF b
  <2>6. DownAt(b, t) /\ (~a.eof => SkipsDown(b, a, t))
    BY <2>2, <2>3, <2>4, <2>5
  <2> QED
    BY <1>2, <2>6 DEF b
<1>5. Live(a, t) /\ Ends(a, t) => Good(a, t) /\ a.pos # 0
  <2>1. Live(a, t) => OnRecord(a, t) /\ a.pos # 0
    BY DEF Live, Shows, OnRecord, OnLine
  <2> QED
    BY <1>0, <2>1 DEF Good
<1> QED
  BY <1>3, <1>4, <1>5 DEF DownAt

(* The flags after a SKIP.                                                    *)
LEMMA SkippedFlags ==
    ASSUME NEW x \in Frame, NEW b \in Area(x), NEW dir \in {-1, 1}
    PROVE  /\ SameShown(Skipped(b, dir), b) /\ ~Skipped(b, dir).wasdel
           /\ Skipped(b, dir).eof = (b.fEof /\ dir = 1) /\ Skipped(b, dir).fEof = (b.fEof /\ dir = 1)
           /\ Skipped(b, dir).bof = (b.fBof /\ dir = -1)
<1> DEFINE u == b.fBof /\ dir = -1
           v == b.fEof /\ dir = 1
<1>1. Skipped(b, dir) = [b EXCEPT !.fBof = u, !.bof = u, !.fEof = v, !.eof = v, !.wasdel = FALSE]
  BY DEF Skipped, Area
<1> HIDE DEF u, v
<1>2. /\ SameShown(Skipped(b, dir), b) /\ Skipped(b, dir).wasdel = FALSE
      /\ Skipped(b, dir).eof = v /\ Skipped(b, dir).fEof = v /\ Skipped(b, dir).bof = u
  BY <1>1 DEF Area, SameShown, SameLines
<1> QED
  BY <1>2 DEF u, v

(* SKIP n stays in the stretch, or fills the ring.                            *)
LEMMA SkipIsGood ==
    ASSUME Plain, NEW x \in Frame, x.hot # "insert", NEW a \in Area(x), NEW t \in SUBSET Records,
           NEW f, IsPageSize(f), Good(a, t), NEW n \in Int \ {0}, n < 0 => a.pos # 0
    PROVE  (Full(AreaSkip(t, a, n, f)) \/ Good(AreaSkip(t, a, n, f), t)) /\ ~AreaSkip(t, a, n, f).wasdel
<1> DEFINE c == AreaSkip(t, a, n, f)
           dir == IF n > 0 THEN 1 ELSE -1
<1>0. t \subseteq 1 .. x.rcount /\ a.rcount = x.rcount /\ 1 \in {-1, 1} /\ -1 \in {-1, 1} /\ ~(-1 = 1)
  BY DEF Good, Area
<1>1. CASE n > 0
  <2> DEFINE S == {b \in Area(x) : UpAt(b, t)}
  <2>1. \A b \in S : OneSkip(t, b, 1, f) \in S
    BY <1>0, UpRound
  <2>2. a \in S /\ S \in SUBSET S /\ 1 = (IF n > 0 THEN 1 ELSE -1)
    BY <1>1 DEF UpAt
  <2> HIDE DEF S
  <2>3. PICK b \in S : c = Skipped(b, 1)
    <3>1. dir = 1
      BY <2>2
    <3>2. \A b \in S : OneSkip(t, b, dir, f) \in S
      BY <2>1, <3>1
    <3>3. \E b \in S : c = Skipped(b, dir)
      <4>1. dir = (IF n > 0 THEN 1 ELSE -1)
        OBVIOUS
      <4>2. a \in S /\ Rounds(S, S, t, f, dir)
        BY <2>2, <3>2 DEF Rounds
      <4> HIDE DEF dir, c
      <4>3. EndsIn(S, t, a, n, f, dir)
        BY <4>1, <4>2, SkipIsALoop
      <4> QED
        BY <4>3 DEF c, EndsIn
    <3> QED
      BY <3>1, <3>3
  <2>4. b \in Area(x) /\ UpAt(b, t)
    BY DEF S
  <2>5. SameShown(c, b) /\ ~c.wasdel /\ c.eof = b.fEof /\ c.fEof = b.fEof
    <3>1. b.fEof \in BOOLEAN
      BY <2>4 DEF Area
    <3> QED
      BY <1>0, <2>3, <2>4, <3>1, SkippedFlags
  <2> HIDE DEF c
  <2>6. Good(b, t) => Good(c, t)
    BY <2>5, GoodStays
  <2>7. FullOn(b) => Full(c)
    BY <2>5, GoodStays DEF FullOn
  <2> QED
    BY <2>4, <2>5, <2>6, <2>7 DEF UpAt, c
<1>2. CASE n < 0
  <2> DEFINE T == {b \in Area(x) : DownAt(b, t)}
             S == {b \in Area(x) : (Good(b, t) /\ b.pos # 0) \/ DownAt(b, t)}
  <2>1. \A b \in S : OneSkip(t, b, -1, f) \in T
    BY <1>0, DownRound
  <2>2. a \in S /\ T \in SUBSET S /\ -1 = (IF n > 0 THEN 1 ELSE -1)
    BY <1>2
  <2> HIDE DEF S, T
  <2>3. PICK b \in T : c = Skipped(b, -1)
    <3>1. dir = -1
      BY <2>2
    <3>2. \A b \in S : OneSkip(t, b, dir, f) \in T
      BY <2>1, <3>1
    <3>3. \E b \in T : c = Skipped(b, dir)
      <4>1. dir = (IF n > 0 THEN 1 ELSE -1)
        OBVIOUS
      <4>2. a \in S /\ Rounds(S, T, t, f, dir)
        BY <2>2, <3>2 DEF Rounds
      <4> HIDE DEF dir, c
      <4>3. EndsIn(T, t, a, n, f, dir)
        BY <4>1, <4>2, SkipIsALoop
      <4> QED
        BY <4>3 DEF c, EndsIn
    <3> QED
      BY <3>1, <3>3
  <2>4. b \in Area(x) /\ DownAt(b, t)
    BY DEF T
  <2>5. SameShown(c, b) /\ ~c.wasdel /\ b.rcount = x.rcount
    <3>1. b.rcount = x.rcount
      BY <2>4 DEF Area
    <3> QED
      BY <1>0, <2>3, <2>4, <3>1, SkippedFlags
  <2> HIDE DEF c
  <2>6. Live(b, t) /\ Ends(b, t) => Good(c, t)
    <3>1. Live(b, t) /\ Ends(b, t) => Live(c, t) /\ Ends(c, t)
      BY <2>5, GoodStays
    <3>2. Live(c, t) => OnRecord(c, t)
      BY DEF Live, Shows, OnRecord
    <3> QED
      BY <1>0, <2>5, <3>1, <3>2 DEF Good, SameShown
  <2>7. FullOn(b) => Full(c)
    BY <2>5, GoodStays DEF FullOn
  <2> QED
    BY <2>4, <2>5, <2>6, <2>7 DEF DownAt, c
<1> QED
  BY <1>1, <1>2

(* SKIP 1 and SKIP -1 are one round.                                          *)
LEMMA SkipOnce ==
    ASSUME NEW t, NEW a, NEW f, NEW dir \in {-1, 1}
    PROVE  AreaSkip(t, a, dir, f) = Skipped(OneSkip(t, a, dir, f), dir)
<1> DEFINE Turn(k, b) == IF k > 1 /\ (b.fBof \/ b.fEof) THEN b ELSE OneSkip(t, b, dir, f)
           m == dir * dir
           round == CHOOSE g : g = [k \in 0 .. m |-> IF k = 0 THEN a ELSE Turn(k, g[k - 1])]
           h == [k \in 0 .. 1 |-> IF k = 0 THEN a ELSE OneSkip(t, a, dir, f)]
<1>0. m = 1
  OBVIOUS
<1>1. dir = (IF dir > 0 THEN 1 ELSE -1)
  OBVIOUS
<1>2. AreaSkip(t, a, dir, f) = Skipped(round[m], dir)
  <2>1. ASSUME NEW n, dir = (IF n > 0 THEN 1 ELSE -1)
        PROVE  AreaSkip(t, a, n, f) = Skipped(
                 (CHOOSE g : g = [k \in 0 .. (n * dir) |-> IF k = 0 THEN a ELSE Turn(k, g[k - 1])])[n * dir], dir)
    BY <2>1 DEF AreaSkip, OneSkip
  <2> HIDE DEF Turn
  <2> QED
    BY <1>1, <2>1
<1>3. \A b : Turn(1, b) = OneSkip(t, b, dir, f)
  OBVIOUS
<1> HIDE DEF Turn, m
<1>4. h = [k \in 0 .. 1 |-> IF k = 0 THEN a ELSE Turn(k, h[k - 1])]
  <2>1. ASSUME NEW k \in 0 .. 1
        PROVE  (IF k = 0 THEN a ELSE OneSkip(t, a, dir, f)) = (IF k = 0 THEN a ELSE Turn(k, h[k - 1]))
    <3>1. CASE k = 0
      BY <3>1
    <3>2. CASE k = 1
      <4>1. k - 1 = 0 /\ h[0] = a /\ k # 0
        BY <3>2
      <4> QED
        BY <1>3, <3>2, <4>1
    <3> QED
      BY <3>1, <3>2
  <2> QED
    BY <2>1
<1>5. round = [k \in 0 .. m |-> IF k = 0 THEN a ELSE Turn(k, round[k - 1])]
  BY <1>0, <1>4
<1> HIDE DEF round
<1>6. round[0] = a /\ round[1] = Turn(1, round[0])
  BY <1>0, <1>5
<1> QED
  BY <1>0, <1>2, <1>3, <1>6


-----------------------------------------------------------------------------
(* The invariant of the area and the table.                                  *)

(* The area is on a record or past the end, and a record shown with EOF set   *)
(* is not one that was just marked deleted.                                   *)
Sound(a, t) == Good(a, t) /\ (a.eof /\ a.recno \in t => ~a.wasdel)

(* With a new record in the buffer the lines do not matter: writing it leaves *)
(* one line.  Its number is the last one given out.  An edited record is not  *)
(* marked, so that nothing moves before it is written.                        *)
Ready(a, t, l) ==
  /\ a.hot = "insert" => a.recno = l /\ a.key = l /\ Ends(a, t) /\ a.eof
  /\ a.hot # "insert" => Sound(a, t)
  /\ a.hot = "update" => OnRecord(a, t)
  /\ a.hot # "no" => ~a.isDel

RInv == PInv /\ Ready(wa, rows, last)

(* One line, with the record of the buffer on it.                             *)
IsOneLine(b, a) ==
  /\ b.pos = 1 /\ b.begin = 1 /\ b.end = 1 /\ Shows(b)
  /\ b.recno = a.recno /\ b.key = a.key /\ b.isDel = a.isDel /\ b.order = a.order
  /\ b.rcount = a.rcount /\ b.bofAt = a.bofAt /\ b.eofAt = a.eofAt
  /\ b.eof = a.eof /\ b.fEof = a.fEof /\ b.bof = a.bof /\ b.wasdel = a.wasdel /\ b.hot = a.hot

(* What is left of the area besides its lines.                                *)
IsEmptied(b, a) ==
  /\ None(b) /\ b.recno = a.recno /\ b.key = a.key /\ b.isDel = a.isDel /\ b.order = a.order
  /\ b.rcount = a.rcount /\ b.bofAt = a.bofAt /\ b.eofAt = a.eofAt
  /\ b.eof = a.eof /\ b.fEof = a.fEof /\ b.bof = a.bof /\ b.wasdel = a.wasdel /\ b.hot = a.hot

(* OneLine and EmptyCache.                                                    *)
LEMMA FewLines ==
    ASSUME NEW x \in Frame, NEW a \in Area(x)
    PROVE  IsEmptied(EmptyCache(a), a) /\ (a.key = a.recno => IsOneLine(OneLine(a), a))
<1>1. IsEmptied(EmptyCache(a), a)
  BY DEF IsEmptied, EmptyCache, None, Area
<1>2. ASSUME a.key = a.recno PROVE IsOneLine(OneLine(a), a)
  <2> DEFINE l == [rec |-> a.key, del |-> a.isDel]
             c == [a.cache EXCEPT ![1] = l]
             b == [a EXCEPT !.pos = 1, !.begin = 1, !.end = 1, !.cache = c]
  <2>0. 1 \in 1 .. Lines
    BY CacheAssumption
  <2>1. OneLine(a) = b
    BY DEF OneLine, Area
  <2>2. c[1] = l
    BY <2>0 DEF Area
  <2> HIDE DEF c, l
  <2>3. /\ b.pos = 1 /\ b.begin = 1 /\ b.end = 1 /\ b.cache = c
        /\ b.recno = a.recno /\ b.key = a.key /\ b.isDel = a.isDel /\ b.order = a.order
        /\ b.rcount = a.rcount /\ b.bofAt = a.bofAt /\ b.eofAt = a.eofAt
        /\ b.eof = a.eof /\ b.fEof = a.fEof /\ b.bof = a.bof /\ b.wasdel = a.wasdel /\ b.hot = a.hot
    BY DEF Area
  <2> HIDE DEF b
  <2>4. Shows(b)
    BY <1>2, <2>2, <2>3 DEF Shows, l
  <2> QED
    BY <2>1, <2>3, <2>4 DEF IsOneLine
<1> QED
  BY <1>1, <1>2

(* A line over a record of the table, and no line.                            *)
LEMMA FewLinesGood ==
    ASSUME NEW a, NEW b, NEW t, a.bofAt = 0, a.eofAt = 0, t \subseteq 1 .. a.rcount,
           a.recno \in t, a.key = a.recno
    PROVE  IsOneLine(b, a) \/ IsEmptied(b, a) => Good(b, t) /\ OnRecord(b, t)
<1>1. ASSUME IsOneLine(b, a) PROVE Good(b, t) /\ OnRecord(b, t)
  <2>1. Live(b, t)
    BY <1>1, OneLineLive DEF IsOneLine
  <2>2. Ends(b, t)
    BY <1>1 DEF IsOneLine, Ends
  <2> QED
    BY <1>1, <2>1, <2>2 DEF IsOneLine, Good, OnRecord
<1>2. ASSUME IsEmptied(b, a) PROVE Good(b, t) /\ OnRecord(b, t)
  <2>1. Ends(b, t)
    BY <1>2 DEF IsEmptied, Ends
  <2> QED
    BY <1>2, <2>1 DEF IsEmptied, Good, OnRecord
<1> QED
  BY <1>1, <1>2

(* The stretch is about the record numbers on the lines.                      *)
SameRecs(b, a) ==
  /\ b.begin = a.begin /\ b.end = a.end /\ b.order = a.order /\ b.pos = a.pos
  /\ \A i \in 1 .. Lines : b.cache[i].rec = a.cache[i].rec

(* It stays when they stay, whatever marks the lines carry.                   *)
LEMMA RecsStay ==
    ASSUME NEW a, NEW b, NEW t, SameRecs(b, a)
    PROVE  /\ None(a) => None(b)
           /\ Stretch(a, t) /\ OnLine(a) => Stretch(b, t) /\ OnLine(b)
           /\ Live(a, t) /\ b.recno = a.recno /\ Shows(b) => Live(b, t)
<1>1. None(a) => None(b)
  BY DEF None, SameRecs
<1>2. ASSUME Stretch(a, t), OnLine(a) PROVE Stretch(b, t) /\ OnLine(b)
  <2>1. Span(b) = Span(a) /\ a.begin \in 1 .. Lines /\ a.end \in 1 .. Lines
    BY <1>2 DEF SameRecs, Span, Stretch
  <2>2. Span(a) \in 0 .. (Lines - 1)
    BY <2>1, RangeIsSpan
  <2>3. ASSUME NEW k \in 0 .. Span(a) PROVE Nth(b, k).rec = Nth(a, k).rec
    <3>1. FixCachePointer(a.begin + k) \in 1 .. Lines
      <4>1. k \in 0 .. (Lines - 1)
        BY <2>2, CacheAssumption
      <4> QED
        BY <2>1, <4>1, RingTurn
    <3> QED
      BY <3>1 DEF Nth, SameRecs
  <2>4. \A k \in 0 .. Span(b) : Nth(b, k).rec \in t
    BY <1>2, <2>1, <2>3 DEF Stretch
  <2>5. ASSUME NEW k \in 0 .. (Span(b) - 1)
        PROVE  Follows(b.order, Nth(b, k).rec, Nth(b, k + 1).rec, t)
    <3>1. k \in 0 .. Span(a) /\ k + 1 \in 0 .. Span(a) /\ k \in 0 .. (Span(a) - 1)
      BY <2>1, <2>2
    <3>2. Nth(b, k).rec = Nth(a, k).rec /\ Nth(b, k + 1).rec = Nth(a, k + 1).rec
      BY <2>3, <3>1
    <3>3. Follows(a.order, Nth(a, k).rec, Nth(a, k + 1).rec, t)
      BY <1>2, <3>1 DEF Stretch
    <3> QED
      BY <3>2, <3>3 DEF SameRecs
  <2>6. OnLine(b)
    BY <1>2 DEF OnLine, InRange, SameRecs
  <2>7. b.begin \in 1 .. Lines /\ b.end \in 1 .. Lines /\ Span(b) <= Lines - 2
    BY <1>2, <2>1 DEF SameRecs, Stretch
  <2> QED
    BY <2>4, <2>5, <2>6, <2>7 DEF Stretch
<1> QED
  BY <1>1, <1>2 DEF Live

(* The buffer being written: nothing hot, no flags, no marks.                 *)
LEMMA ClearedIsArea ==
    ASSUME NEW x \in Frame, NEW a \in Area(x)
    PROVE  LET b == [Forgotten(a) EXCEPT !.hot = "no", !.bof = FALSE, !.eof = FALSE]
               y == [hot |-> "no", order |-> x.order, rcount |-> x.rcount]
           IN  /\ y \in Frame /\ b \in Area(y)
               /\ b.recno = a.recno /\ b.key = a.key /\ b.isDel = a.isDel /\ b.order = a.order
               /\ b.rcount = a.rcount /\ b.bofAt = 0 /\ b.eofAt = 0 /\ b.eof = FALSE
               /\ b.begin = a.begin /\ b.end = a.end /\ b.pos = a.pos /\ b.cache = a.cache
<1> DEFINE g == Forgotten(a)
           b == [g EXCEPT !.hot = "no", !.bof = FALSE, !.eof = FALSE]
           y == [hot |-> "no", order |-> x.order, rcount |-> x.rcount]
<1>1. y \in Frame
  BY DEF Frame
<1>2. g \in Area(x)
  BY SmallSteps
<1>3. /\ g.recno = a.recno /\ g.key = a.key /\ g.isDel = a.isDel /\ g.order = a.order
      /\ g.rcount = a.rcount /\ g.bofAt = 0 /\ g.eofAt = 0
      /\ g.begin = a.begin /\ g.end = a.end /\ g.pos = a.pos /\ g.cache = a.cache
  BY DEF Forgotten, Area
<1> HIDE DEF g
<1>4. b \in Area(y)
  BY <1>2 DEF Area
<1>5. /\ b.recno = g.recno /\ b.key = g.key /\ b.isDel = g.isDel /\ b.order = g.order
      /\ b.rcount = g.rcount /\ b.bofAt = g.bofAt /\ b.eofAt = g.eofAt /\ b.eof = FALSE
      /\ b.begin = g.begin /\ b.end = g.end /\ b.pos = g.pos /\ b.cache = g.cache
  BY <1>2 DEF Area
<1> HIDE DEF b, y
<1> QED
  BY <1>1, <1>3, <1>4, <1>5 DEF b, y, g

(* What sqlGoCold leaves of an edited record: the line is written over with   *)
(* what it showed, and the marks are forgotten.                               *)
LEMMA UpdateIsWritten ==
    ASSUME NEW x \in Frame, NEW a \in Area(x), a.hot = "update", NEW t, OnRecord(a, t), Good(a, t)
    PROVE  /\ Good(WriteBuffer(a), t) /\ OnRecord(WriteBuffer(a), t)
           /\ ~WriteBuffer(a).eof
<1> DEFINE b == [Forgotten(a) EXCEPT !.hot = "no", !.bof = FALSE, !.eof = FALSE]
           y == [hot |-> "no", order |-> x.order, rcount |-> x.rcount]
           w == IF a.begin = 0 /\ a.end = 0 THEN OneLine(b)
                ELSE [b EXCEPT !.cache[a.pos] = [rec |-> a.key, del |-> a.isDel]]
<1>1. y \in Frame /\ b \in Area(y)
  BY ClearedIsArea
<1>2. /\ b.recno = a.recno /\ b.key = a.key /\ b.isDel = a.isDel /\ b.order = a.order
      /\ b.rcount = a.rcount /\ b.bofAt = 0 /\ b.eofAt = 0 /\ b.eof = FALSE
      /\ b.begin = a.begin /\ b.end = a.end /\ b.pos = a.pos /\ b.cache = a.cache
  BY DEF Forgotten, Area
<1>3. WriteBuffer(a) = w
  BY DEF WriteBuffer
<1>4. a.recno \in t /\ a.key = a.recno /\ t \subseteq 1 .. a.rcount
  BY DEF OnRecord, Good
<1> HIDE DEF b, y
<1>5. CASE a.begin = 0 /\ a.end = 0
  <2>1. w = OneLine(b)
    BY <1>5
  <2>2. IsOneLine(w, b)
    BY <1>1, <1>2, <1>4, <2>1, FewLines
  <2> HIDE DEF w
  <2>3. Good(w, t) /\ OnRecord(w, t)
    BY <1>2, <1>4, <2>2, FewLinesGood
  <2> QED
    BY <1>2, <1>3, <2>2, <2>3 DEF IsOneLine
<1>6. CASE ~(a.begin = 0 /\ a.end = 0)
  <2>1. Live(a, t)
    BY <1>6 DEF OnRecord, None
  <2> DEFINE l == [rec |-> a.key, del |-> a.isDel]
             c == [b.cache EXCEPT ![a.pos] = l]
  <2>2. c = b.cache
    <3>1. b.cache[a.pos] = l /\ b.cache \in [1 .. Lines -> Line]
      BY <1>1, <1>2, <2>1 DEF Live, Shows, Area
    <3> HIDE DEF l
    <3> QED
      BY <3>1
  <2>3. w = [b EXCEPT !.cache = c]
    BY <1>6
  <2> HIDE DEF c, w
  <2>4. w = b
    BY <1>1, <2>2, <2>3 DEF Area
  <2>5. SameRecs(b, a) /\ Shows(b)
    BY <1>2, <2>1 DEF SameRecs, Live, Shows
  <2>6. Live(b, t)
    BY <1>2, <2>1, <2>5, RecsStay
  <2>7. Ends(b, t) /\ OnRecord(b, t)
    BY <1>2, <1>4, <2>6 DEF Ends, OnRecord
  <2> QED
    BY <1>2, <1>3, <1>4, <2>4, <2>7 DEF Good
<1> QED
  BY <1>5, <1>6

(* The buffer is written: the area is sound over the table it was written to. *)
LEMMA WrittenIsSound ==
    ASSUME RInv
    PROVE  /\ Sound(WriteBuffer(wa), WrittenRows) /\ ColdBuffer(wa) = WriteBuffer(wa)
           /\ WriteBuffer(wa).recno # 0
           /\ wa.hot # "no" => ~WriteBuffer(wa).eof
           /\ wa.hot = "no" => WriteBuffer(wa) = wa /\ WrittenRows = rows
<1>0. PICK x \in Frame : wa \in Area(x)
  BY DEF RInv, PInv
<1>1. wa.hot \in {"no", "insert", "update"} /\ rows \subseteq 1 .. last /\ last \in 0 .. MaxRec /\ MaxRec \in Nat
  BY <1>0, CacheAssumption DEF Area, Frame, RInv, PInv
<1>2. ColdBuffer(wa) = WriteBuffer(wa)
  <2>1. wa.isDel => wa.hot = "no"
    BY DEF RInv, Ready
  <2> QED
    BY <2>1 DEF ColdBuffer, WriteBuffer
<1>3. ASSUME NEW a, NEW t, t \subseteq 1 .. last, Good(a, t) PROVE a.recno # 0
  BY <1>1, <1>3 DEF Good, OnRecord, OnBlank
<1>4. CASE wa.hot = "no"
  <2>1. WriteBuffer(wa) = wa /\ WrittenRows = rows
    BY <1>4 DEF WriteBuffer, WrittenRows
  <2>2. Sound(wa, rows)
    BY <1>4 DEF RInv, Ready
  <2>3. wa.recno # 0
    BY <1>1, <1>3, <2>2 DEF Sound
  <2> QED
    BY <1>2, <1>4, <2>1, <2>2, <2>3
<1>5. CASE wa.hot = "update"
  <2>1. WrittenRows = rows
    BY <1>5 DEF WrittenRows
  <2>2. OnRecord(wa, rows) /\ Good(wa, rows)
    BY <1>5 DEF RInv, Ready, Sound
  <2>3. Good(WriteBuffer(wa), rows) /\ ~WriteBuffer(wa).eof
    BY <1>0, <1>5, <2>2, UpdateIsWritten
  <2>4. WriteBuffer(wa).recno # 0
    BY <1>1, <1>3, <2>3
  <2> QED
    BY <1>2, <1>5, <2>1, <2>3, <2>4 DEF Sound
<1>6. CASE wa.hot = "insert"
  <2> DEFINE b == [Forgotten(wa) EXCEPT !.hot = "no", !.bof = FALSE, !.eof = FALSE]
             y == [hot |-> "no", order |-> x.order, rcount |-> x.rcount]
             c == OneLine(b)
             w == [c EXCEPT !.rcount = wa.recno]
             t == rows \cup {wa.recno}
  <2>1. y \in Frame /\ b \in Area(y)
    BY <1>0, ClearedIsArea
  <2>2. b.recno = wa.recno /\ b.key = wa.key /\ b.bofAt = 0 /\ b.eofAt = 0 /\ b.eof = FALSE
    BY <1>0 DEF Forgotten, Area
  <2>3. WriteBuffer(wa) = w /\ WrittenRows = t
    BY <1>6 DEF WriteBuffer, WrittenRows
  <2>4. wa.recno = last /\ wa.key = last /\ wa.recno \in 1 .. last
    BY <1>6 DEF RInv, Ready, PInv
  <2>5. t \subseteq 1 .. last
    BY <1>1, <2>4
  <2> HIDE DEF b, y, t
  <2>6. c \in Area(y) /\ IsOneLine(c, b)
    BY <2>1, <2>2, <2>4, SmallSteps, FewLines
  <2> HIDE DEF c
  <2>7. IsOneLine(w, [b EXCEPT !.rcount = wa.recno])
    BY <2>1, <2>6 DEF IsOneLine, Area, Shows
  <2> DEFINE a == [b EXCEPT !.rcount = wa.recno]
  <2>8. /\ a.recno = last /\ a.key = last /\ a.bofAt = 0 /\ a.eofAt = 0 /\ a.rcount = last
        /\ a.eof = FALSE
    BY <2>1, <2>2, <2>4 DEF Area
  <2>9. IsOneLine(w, a) /\ last \in t
    BY <2>4, <2>7 DEF t
  <2> HIDE DEF a, w
  <2>10. Good(w, t) /\ w.eof = FALSE
    <3>1. Good(w, t)
      BY <2>5, <2>8, <2>9, FewLinesGood
    <3> QED
      BY <3>1, <2>8, <2>9 DEF IsOneLine
  <2>11. w.recno # 0
    BY <1>3, <2>5, <2>10
  <2> QED
    BY <1>2, <1>6, <2>3, <2>10, <2>11 DEF Sound
<1> QED
  BY <1>1, <1>4, <1>5, <1>6

(* Nothing hot: the area is ready when it is sound.                           *)
LEMMA SettledIsReady ==
    ASSUME NEW y \in Frame, y.hot = "no", NEW b \in Area(y), NEW t, NEW l, Sound(b, t)
    PROVE  Ready(b, t, l)
<1>1. b.hot = "no"
  BY DEF Area
<1> QED
  BY <1>1 DEF Ready

(* GO TOP or GO BOTTOM that stays where it is forgets the deletion.           *)
LEMMA StaysForgets ==
    ASSUME NEW x \in Frame, NEW a \in Area(x), NEW b, Stays(b, a)
    PROVE  b.wasdel = FALSE /\ b.recno = a.recno /\ b.eof = a.eof /\ b.fEof = a.eof
<1> DEFINE c == [a EXCEPT !.wasdel = FALSE]
<1>1. c \in Area(x) /\ c.wasdel = FALSE /\ c.recno = a.recno /\ c.eof = a.eof
  BY DEF Area
<1> HIDE DEF c
<1>2. b = SyncFlags([c EXCEPT !.bof = FALSE])
  BY DEF Stays, c
<1> QED
  BY <1>1, <1>2 DEF SyncFlags, Area

(* The moves over the table leave a sound area.                               *)
LEMMA GoesAreSound ==
    ASSUME Plain, NEW x \in Frame, x.hot # "insert", NEW a \in Area(x), NEW t \in SUBSET Records,
           Sound(a, t), NEW f
    PROVE  /\ Sound(AreaGoTop(t, a, f), t) /\ Sound(AreaGoBottom(t, a, f), t)
           /\ \A r \in Nat : Sound(AreaGoTo(t, a, r), t)
<1>0. Good(a, t)
  BY DEF Sound
<1>1. Sound(AreaGoTop(t, a, f), t)
  <2> DEFINE b == AreaGoTop(t, a, f)
  <2>1. TopsOut(b, a, t)
    BY <1>0, GoTopIsGood
  <2> HIDE DEF b
  <2>2. b.recno \in t => ~b.eof \/ Stays(b, a)
    BY <2>1, Zenon DEF TopsOut
  <2>3. Stays(b, a) => b.wasdel = FALSE
    BY StaysForgets
  <2> QED
    BY <2>1, <2>2, <2>3 DEF TopsOut, Sound, b
<1>2. Sound(AreaGoBottom(t, a, f), t)
  <2> DEFINE b == AreaGoBottom(t, a, f)
  <2>1. BottomsOut(b, a, t)
    BY <1>0, GoBottomIsGood
  <2> HIDE DEF b
  <2>2. b.recno \in t => ~b.eof \/ Stays(b, a)
    BY <2>1, Zenon DEF BottomsOut
  <2>3. Stays(b, a) => b.wasdel = FALSE
    BY StaysForgets
  <2> QED
    BY <2>1, <2>2, <2>3 DEF BottomsOut, Sound, b
<1>3. ASSUME NEW r \in Nat PROVE Sound(AreaGoTo(t, a, r), t)
  <2> DEFINE c == [a EXCEPT !.wasdel = FALSE]
             b == AreaGoTo(t, a, r)
  <2>1. c \in Area(x) /\ SameShown(c, a) /\ c.eof = a.eof /\ c.fEof = a.fEof /\ c.wasdel = FALSE
    BY DEF Area, SameShown, SameLines
  <2>2. Good(c, t)
    BY <1>0, <2>1, GoodStays
  <2>3. b = SyncFlags(WorkAreaGoTo(t, c, r))
    BY DEF AreaGoTo
  <2> HIDE DEF b, c
  <2>4. GoesTo(b, c, t, r)
    BY <2>1, <2>2, <2>3, GoToIsGood DEF Plain
  <2>5. b = SyncFlags([c EXCEPT !.bof = FALSE]) => b.wasdel = FALSE
    BY <2>1 DEF SyncFlags, Area
  <2> QED
    BY <2>4, <2>5 DEF GoesTo, Sound, b
<1> QED
  BY <1>1, <1>2, <1>3

(* The moves keep the invariant, out of the corner where the ring is full.    *)
LEMMA MoveIsReady ==
    ASSUME Plain, RInv, Move, Corner
    PROVE  Ready(wa', rows', last')
<1> DEFINE w == WriteBuffer(wa)
           t == WrittenRows
<1>0. t \in SUBSET Records /\ PInv
  BY Written DEF RInv
<1>1. PICK y \in Frame : y.hot = "no" /\ w \in Area(y)
  BY <1>0, Written
<1>2. Sound(w, t) /\ ColdBuffer(wa) = w
  BY WrittenIsSound
<1>3. ASSUME wa' \in Area(y), Sound(wa', t), rows' = t PROVE Ready(wa', rows', last')
  BY <1>1, <1>3, SettledIsReady
<1> HIDE DEF w, t
<1>4. CASE GoTop
  <2>1. PICK f \in PageSizes : wa' = AreaGoTop(t, w, f) /\ rows' = t
    BY <1>4 DEF GoTop, Write, w, t
  <2> QED
    BY <1>0, <1>1, <1>2, <1>3, <2>1, SizesFit, GoIsArea, GoesAreSound
<1>5. CASE GoBottom
  <2>1. PICK f \in PageSizes : wa' = AreaGoBottom(t, w, f) /\ rows' = t
    BY <1>5 DEF GoBottom, Write, w, t
  <2> QED
    BY <1>0, <1>1, <1>2, <1>3, <2>1, SizesFit, GoIsArea, GoesAreSound
<1>6. ASSUME NEW r \in Targets, GoTo(r) PROVE Ready(wa', rows', last')
  <2>1. wa' = AreaGoTo(t, w, r) /\ r \in Nat /\ rows' = t
    BY <1>6, CacheAssumption DEF GoTo, Write, Records, w, t
  <2> QED
    BY <1>0, <1>1, <1>2, <1>3, <2>1, GoToIsArea, GoesAreSound
<1>7. ASSUME NEW n \in Steps, Skip(n) PROVE Ready(wa', rows', last')
  <2>1. PICK f \in PageSizes : wa' = AreaSkip(t, w, n, f) /\ rows' = t
    BY <1>2, <1>7 DEF Skip, Write, t
  <2>2. n \in Int \ {0} /\ (n < 0 => w.pos # 0) /\ IsPageSize(f)
    <3>1. "empty" \notin Corners
      BY DEF Plain
    <3> QED
      BY <1>2, <1>7, <3>1, SizesFit, CacheAssumption DEF Skip
  <2>3. (Full(wa') \/ Good(wa', t)) /\ ~wa'.wasdel
    BY <1>0, <1>1, <1>2, <2>1, <2>2, SkipIsGood DEF Sound
  <2>4. ~Full(wa')
    BY DEF Corner, Plain, Full
  <2> QED
    BY <1>0, <1>1, <1>3, <2>1, <2>2, <2>3, <2>4, SkipIsArea DEF Sound
<1>8. CASE GoCold
  BY <1>1, <1>2, <1>3, <1>8 DEF GoCold, Write, w, t
<1>9. CASE Bof \/ Eof
  <2>1. PICK x \in Frame : wa \in Area(x)
    BY <1>0 DEF PInv
  <2>2. rows' = rows /\ last' = last /\ (Bof \/ (Eof /\ wa.hot # "insert"))
    BY <1>9 DEF Bof, Eof
  <2>3. /\ SameShown(wa', wa) /\ wa'.eof = wa.eof /\ (wa.eof /\ wa.fEof => wa'.fEof)
        /\ wa'.hot = wa.hot /\ wa'.wasdel = wa.wasdel
    BY <1>9, <2>1 DEF Bof, Eof, Area, SameShown, SameLines
  <2>4. Good(wa, rows) => Good(wa', rows)
    BY <2>3, GoodStays
  <2>5. /\ OnRecord(wa, rows) => OnRecord(wa', rows)
        /\ Ends(wa, rows) => Ends(wa', rows)
    BY <2>3, GoodStays
  <2>6. wa'.recno = wa.recno /\ wa'.key = wa.key /\ wa'.isDel = wa.isDel
    BY <2>3 DEF SameShown
  <2> QED
    BY <2>2, <2>3, <2>4, <2>5, <2>6 DEF RInv, Ready, Sound
<1> QED
  BY <1>4, <1>5, <1>6, <1>7, <1>8, <1>9 DEF Move

(* Marking the current record and recalling it change its mark, in the buffer *)
(* and on its line.                                                           *)
Marks(b, a, v) ==
  /\ b.isDel = v /\ b.recno = a.recno /\ b.key = a.key /\ b.rcount = a.rcount /\ b.order = a.order
  /\ b.begin = a.begin /\ b.end = a.end /\ b.pos = a.pos /\ b.bofAt = a.bofAt /\ b.eofAt = a.eofAt
  /\ b.eof = a.eof /\ b.hot = a.hot
  /\ \A i \in 1 .. Lines :
       b.cache[i] = IF i = a.pos THEN [a.cache[i] EXCEPT !.del = v] ELSE a.cache[i]

(* DELETE and RECALL are such changes.                                        *)
LEMMA MarksLine ==
    ASSUME UseDeleteds, NEW x \in Frame, NEW a \in Area(x)
    PROVE  /\ MarkDeleted(a) \in Area(x) /\ Marks(MarkDeleted(a), a, TRUE)
           /\ a.pos # 0 =>
                LET b == [a EXCEPT !.isDel = FALSE, !.cache[a.pos].del = FALSE]
                IN  b \in Area(x) /\ Marks(b, a, FALSE)
<1>0. Lines \in Nat /\ a.cache \in [1 .. Lines -> Line] /\ a.pos \in 0 .. Lines
  BY CacheAssumption DEF Area
<1>1. ASSUME NEW v \in BOOLEAN, NEW b, NEW c, c = [a.cache EXCEPT ![a.pos].del = v],
             NEW u \in BOOLEAN, b = [a EXCEPT !.isDel = v, !.wasdel = u, !.cache = c]
      PROVE  b \in Area(x) /\ Marks(b, a, v)
  <2>1. \A i \in 1 .. Lines : [a.cache[i] EXCEPT !.del = v] \in Line
    BY <1>0 DEF Line
  <2>2. /\ \A i \in 1 .. Lines : c[i] = IF i = a.pos THEN [a.cache[i] EXCEPT !.del = v] ELSE a.cache[i]
        /\ DOMAIN c = 1 .. Lines /\ c = [i \in 1 .. Lines |-> c[i]]
    BY <1>0, <1>1
  <2>3. c \in [1 .. Lines -> Line]
    BY <1>0, <2>1, <2>2
  <2>4. b \in Area(x)
    BY <1>1, <2>3 DEF Area
  <2>5. /\ b.isDel = v /\ b.recno = a.recno /\ b.key = a.key /\ b.rcount = a.rcount /\ b.order = a.order
        /\ b.begin = a.begin /\ b.end = a.end /\ b.pos = a.pos /\ b.bofAt = a.bofAt /\ b.eofAt = a.eofAt
        /\ b.eof = a.eof /\ b.hot = a.hot /\ b.cache = c
    BY <1>1 DEF Area
  <2> QED
    BY <2>2, <2>4, <2>5 DEF Marks
<1>2. MarkDeleted(a) \in Area(x) /\ Marks(MarkDeleted(a), a, TRUE)
  <2>1. CASE a.pos > 0
    <3> DEFINE c == [a.cache EXCEPT ![a.pos].del = TRUE]
    <3>1. MarkDeleted(a) = [a EXCEPT !.isDel = TRUE, !.wasdel = TRUE, !.cache = c]
      BY <2>1 DEF MarkDeleted
    <3> HIDE DEF c
    <3> QED
      BY <1>1, <3>1 DEF c
  <2>2. CASE ~(a.pos > 0)
    <3>1. MarkDeleted(a) = [a EXCEPT !.isDel = TRUE, !.wasdel = TRUE, !.cache = a.cache]
      BY <2>2 DEF MarkDeleted
    <3>2. a.pos \notin 1 .. Lines
      BY <1>0, <2>2
    <3>3. MarkDeleted(a) \in Area(x)
      BY <3>1 DEF Area
    <3> QED
      BY <3>1, <3>2, <3>3 DEF Marks, Area
  <2> QED
    BY <2>1, <2>2
<1>3. ASSUME a.pos # 0
      PROVE  LET b == [a EXCEPT !.isDel = FALSE, !.cache[a.pos].del = FALSE]
             IN  b \in Area(x) /\ Marks(b, a, FALSE)
  <2> DEFINE c == [a.cache EXCEPT ![a.pos].del = FALSE]
             b == [a EXCEPT !.isDel = FALSE, !.cache[a.pos].del = FALSE]
  <2>1. b = [a EXCEPT !.isDel = FALSE, !.wasdel = a.wasdel, !.cache = c] /\ a.wasdel \in BOOLEAN
    BY DEF Area
  <2> HIDE DEF c, b
  <2>2. b \in Area(x) /\ Marks(b, a, FALSE)
    BY <1>1, <2>1 DEF c
  <2> QED
    BY <2>2 DEF b
<1> QED
  BY <1>2, <1>3

(* The stretch and the marks of the table stay.                               *)
LEMMA MarksStay ==
    ASSUME UseDeleteds, NEW x \in Frame, NEW a \in Area(x), NEW b, NEW v, Marks(b, a, v), NEW t,
           Good(a, t), ~a.eof
    PROVE  Good(b, t) /\ OnRecord(b, t)
<1>0. a.cache \in [1 .. Lines -> Line]
  BY DEF Area
<1>1. OnRecord(a, t) /\ Ends(a, t) /\ t \subseteq 1 .. a.rcount
  BY DEF Good, OnBlank
<1>2. \A i \in 1 .. Lines : b.cache[i].rec = a.cache[i].rec
  BY <1>0 DEF Marks, Line
<1>3. SameRecs(b, a)
  BY <1>2 DEF Marks, SameRecs
<1>4. Live(a, t) => Live(b, t)
  <2> SUFFICES ASSUME Live(a, t) PROVE Live(b, t)
    OBVIOUS
  <2>1. a.pos \in 1 .. Lines /\ a.cache[a.pos] = [rec |-> a.recno, del |-> a.isDel] /\ a.key = a.recno
    BY DEF Live, OnLine, Shows
  <2>2. b.cache[a.pos] = [a.cache[a.pos] EXCEPT !.del = v]
    BY <2>1 DEF Marks
  <2>3. b.cache[b.pos] = [rec |-> b.recno, del |-> b.isDel] /\ b.key = b.recno /\ b.recno = a.recno
    BY <2>1, <2>2 DEF Marks
  <2> QED
    BY <1>3, <2>3, RecsStay DEF Shows
<1>5. None(a) => None(b)
  BY <1>3, RecsStay
<1>6. OnRecord(b, t)
  BY <1>1, <1>4, <1>5 DEF OnRecord, Marks
<1>7. Ends(b, t)
  BY <1>1 DEF Ends, Marks
<1> QED
  BY <1>1, <1>6, <1>7 DEF Good, Marks

(* A new order, or an area emptied because another one wrote the table: the   *)
(* marks are gone and the lines too, or there is one line.                    *)
LEMMA FewLinesReady ==
    ASSUME UseDeleteds, NEW x \in Frame, NEW a \in Area(x), NEW t, NEW l, Ready(a, t, l),
           NEW o \in 0 .. 1, NEW g, g = [Forgotten(a) EXCEPT !.order = o],
           NEW b, b = EmptyCache(g) \/ (b = OneLine(g) /\ g.pos > 0)
    PROVE  Ready(b, t, l)
<1> DEFINE y == [hot |-> x.hot, order |-> o, rcount |-> x.rcount]
           h == Forgotten(a)
<1>1. y \in Frame
  BY DEF Frame
<1>2. h \in Area(x)
  BY SmallSteps
<1>3. /\ h.recno = a.recno /\ h.key = a.key /\ h.isDel = a.isDel /\ h.rcount = a.rcount
      /\ h.bofAt = 0 /\ h.eofAt = 0 /\ h.eof = a.eof /\ h.fEof = a.fEof /\ h.wasdel = a.wasdel
      /\ h.hot = a.hot /\ h.pos = a.pos
  BY DEF Forgotten, Area
<1> HIDE DEF h
<1>4. g = [h EXCEPT !.order = o]
  BY DEF h
<1>5. g \in Area(y)
  BY <1>2, <1>4 DEF Area
<1>6. /\ g.recno = a.recno /\ g.key = a.key /\ g.isDel = a.isDel /\ g.rcount = a.rcount
      /\ g.bofAt = 0 /\ g.eofAt = 0 /\ g.eof = a.eof /\ g.fEof = a.fEof /\ g.wasdel = a.wasdel
      /\ g.hot = a.hot /\ g.pos = a.pos
  BY <1>2, <1>3, <1>4 DEF Area
<1>7. IsEmptied(EmptyCache(g), g)
  BY <1>1, <1>5, FewLines
<1>8. CASE a.hot = "insert"
  <2>1. IsEmptied(b, g) \/ IsOneLine(b, g)
    <3>1. g.key = g.recno
      BY <1>6, <1>8 DEF Ready
    <3> QED
      BY <1>1, <1>5, <1>7, <3>1, FewLines
  <2>2. Ends(b, t) /\ b.recno = l /\ b.key = l /\ b.eof /\ ~b.isDel /\ b.hot = "insert"
    BY <1>6, <1>8, <2>1 DEF Ready, IsEmptied, IsOneLine, Ends
  <2> QED
    BY <2>2 DEF Ready
<1>9. CASE a.hot # "insert" /\ a.recno \in t
  <2>1. OnRecord(a, t) /\ t \subseteq 1 .. a.rcount /\ (a.eof => ~a.wasdel)
    BY <1>9 DEF Ready, Sound, Good, OnBlank
  <2>2. IsEmptied(b, g) \/ IsOneLine(b, g)
    <3>1. g.key = g.recno
      BY <1>6, <2>1 DEF OnRecord
    <3> QED
      BY <1>1, <1>5, <1>7, <3>1, FewLines
  <2>3. Good(b, t) /\ OnRecord(b, t)
    <3>1. g.recno \in t /\ g.key = g.recno /\ t \subseteq 1 .. g.rcount
      BY <1>6, <1>9, <2>1 DEF OnRecord
    <3> QED
      BY <1>6, <2>2, <3>1, FewLinesGood
  <2>4. b.hot = a.hot /\ b.isDel = a.isDel /\ b.eof = a.eof /\ b.wasdel = a.wasdel
    BY <1>6, <2>2 DEF IsEmptied, IsOneLine
  <2> QED
    BY <1>9, <2>1, <2>3, <2>4 DEF Ready, Sound
<1>10. CASE a.hot # "insert" /\ a.recno \notin t
  <2>1. OnBlank(a, t) /\ t \subseteq 1 .. a.rcount /\ a.hot # "update"
    BY <1>10 DEF Ready, Sound, Good, OnRecord
  <2>2. /\ b.pos = IF b = EmptyCache(g) THEN 0 ELSE 1
        /\ b.begin = b.pos /\ b.end = b.pos
        /\ b.recno = g.recno /\ b.rcount = g.rcount /\ b.bofAt = g.bofAt /\ b.eofAt = g.eofAt
        /\ b.eof = g.eof /\ b.fEof = g.fEof /\ b.hot = g.hot /\ b.isDel = g.isDel
    <3>1. CASE b = EmptyCache(g)
      BY <1>7, <3>1 DEF IsEmptied, None
    <3>2. CASE b # EmptyCache(g)
      <4> DEFINE c == [g.cache EXCEPT ![1] = [rec |-> g.key, del |-> g.isDel]]
      <4>1. OneLine(g) = [g EXCEPT !.pos = 1, !.begin = 1, !.end = 1, !.cache = c]
        BY <1>5 DEF OneLine, Area
      <4> HIDE DEF c
      <4>2. b = [g EXCEPT !.pos = 1, !.begin = 1, !.end = 1, !.cache = c]
        BY <3>2, <4>1
      <4> QED
        BY <1>5, <3>2, <4>2 DEF Area
    <3> QED
      BY <3>1, <3>2
  <2>3. b # EmptyCache(g) => t # {}
    <3> SUFFICES ASSUME a.pos > 0 PROVE t # {}
      BY <1>6
    <3>1. Stretch(a, t) \/ BlankLine(a, t)
      BY <2>1 DEF OnBlank, LinesOK, None
    <3>2. ASSUME Stretch(a, t) PROVE t # {}
      <4>1. 0 \in 0 .. Span(a)
        BY <3>2, RangeIsSpan DEF Stretch
      <4> QED
        BY <3>2, <4>1 DEF Stretch
    <3> QED
      BY <3>1, <3>2 DEF BlankLine
  <2>4. LinesOK(b, t)
    <3>1. CASE b = EmptyCache(g)
      BY <1>7, <3>1 DEF LinesOK, IsEmptied
    <3>2. CASE b # EmptyCache(g)
      BY <1>6, <2>2, <2>3, <3>2 DEF LinesOK, BlankLine
    <3> QED
      BY <3>1, <3>2
  <2>5. OnBlank(b, t) /\ Ends(b, t) /\ t \subseteq 1 .. b.rcount /\ b.recno \notin t
    BY <1>6, <1>10, <2>1, <2>2, <2>4 DEF OnBlank, Ends
  <2>6. b.hot = a.hot /\ b.isDel = a.isDel
    BY <1>6, <2>2
  <2> QED
    BY <1>10, <2>1, <2>5, <2>6 DEF Ready, Sound, Good
<1> QED
  BY <1>8, <1>9, <1>10

(* PACK removes the marked records and goes to the top of what is left.       *)
LEMMA PackGoesTop ==
    ASSUME Plain, RInv, Pack
    PROVE  \E z \in Frame : z.hot = "no" /\ wa' \in Area(z) /\ TopOf(wa', rows')
<1> DEFINE w == WriteBuffer(wa)
           t == WrittenRows
           g == Forgotten(w)
           r == Refresh(w)
<1>0. t \in SUBSET Records /\ PInv /\ UseDeleteds
  BY Written DEF RInv, Plain
<1>1. PICK y \in Frame : y.hot = "no" /\ w \in Area(y)
  BY <1>0, Written
<1>2. Sound(w, t)
  BY WrittenIsSound
<1>3. PICK f \in PageSizes : wa' = AreaGoTop(rows', r, f) /\ rows' = t \ deleted
  BY DEF Pack
<1> HIDE DEF w, t
<1>4. g \in Area(y) /\ g.bofAt = 0 /\ g.rcount = w.rcount
  <2>1. g \in Area(y)
    BY <1>1, SmallSteps
  <2> QED
    BY <1>1, <2>1 DEF Forgotten, Area
<1>5. r \in Area(y) /\ r.bofAt = 0 /\ r.rcount = w.rcount
  <2>1. r = EmptyCache(g) \/ r = OneLine(g)
    BY DEF Refresh
  <2> HIDE DEF g, r
  <2>2. r \in Area(y)
    BY <1>4, <2>1, SmallSteps
  <2> QED
    BY <1>4, <2>1, <2>2 DEF EmptyCache, OneLine, Area
<1> HIDE DEF g, r
<1>6. rows' \in SUBSET Records /\ rows' \subseteq 1 .. r.rcount
  BY <1>0, <1>2, <1>3, <1>5 DEF Sound, Good
<1>7. TopOf(wa', rows') /\ wa' \in Area(y)
  BY <1>3, <1>5, <1>6, FreshTop, GoIsArea, SizesFit
<1> QED
  BY <1>1, <1>7

(* The changes of the table and of the order keep the invariant.              *)
LEMMA ChangeIsReady ==
    ASSUME Plain, RInv, Change
    PROVE  Ready(wa', rows', last')
<1> DEFINE w == WriteBuffer(wa)
           t == WrittenRows
<1>0. t \in SUBSET Records /\ PInv /\ UseDeleteds
  BY Written DEF RInv, Plain
<1>1. PICK y \in Frame : y.hot = "no" /\ w \in Area(y)
  BY <1>0, Written
<1>2. Sound(w, t) /\ w.recno # 0 /\ Ready(wa, rows, last)
  BY WrittenIsSound DEF RInv
<1>3. PICK x \in Frame : wa \in Area(x)
  BY <1>0 DEF PInv
<1> HIDE DEF w, t
<1>4. CASE AppendRec
  <2> DEFINE e == [w EXCEPT !.wasdel = FALSE]
             a == SyncFlags(e)
             c == CleanBuffer(a)
  <2>1. /\ wa' = [c EXCEPT !.hot = "insert", !.recno = last + 1, !.key = last + 1, !.bof = TRUE]
        /\ last' = last + 1 /\ rows' = t
    BY <1>4 DEF AppendRec, w, t
  <2>2. e \in Area(y) /\ e.bofAt = w.bofAt /\ e.eofAt = w.eofAt /\ e.order = w.order
    BY <1>1 DEF Area
  <2> HIDE DEF e
  <2>3. a \in Area(y) /\ a.bofAt = w.bofAt /\ a.eofAt = w.eofAt /\ a.order = w.order
    <3>1. a \in Area(y)
      BY <2>2, SmallSteps
    <3> QED
      BY <2>2, <3>1 DEF SyncFlags, Area
  <2> HIDE DEF a
  <2>4. /\ c \in Area(y) /\ c.bofAt = w.bofAt /\ c.eofAt = w.eofAt /\ c.order = w.order
        /\ c.isDel = FALSE /\ c.eof = TRUE
    <3>1. c \in Area(y)
      BY <2>3, BlankIsArea
    <3> QED
      BY <2>3, <3>1 DEF CleanBuffer, Area
  <2> HIDE DEF c
  <2>5. /\ wa'.bofAt = w.bofAt /\ wa'.eofAt = w.eofAt /\ wa'.order = w.order
        /\ wa'.isDel = FALSE /\ wa'.eof = TRUE /\ wa'.hot = "insert"
        /\ wa'.recno = last + 1 /\ wa'.key = last + 1
    BY <2>1, <2>4 DEF Area
  <2>6. Ends(wa', t)
    BY <1>2, <2>5 DEF Sound, Good, Ends
  <2> QED
    BY <2>1, <2>5, <2>6 DEF Ready
<1>5. CASE PutValue
  <2>1. /\ wa.hot = "no" /\ wa.recno \in rows /\ wa.isDel = FALSE /\ wa' = [wa EXCEPT !.hot = "update"]
        /\ rows' = rows /\ last' = last /\ ~wa.eof
    BY <1>3, <1>5 DEF PutValue, Plain, Area
  <2>2. /\ SameShown(wa', wa) /\ wa'.eof = wa.eof /\ wa'.fEof = wa.fEof /\ wa'.hot = "update"
    BY <1>3, <2>1 DEF Area, SameShown, SameLines
  <2>3. Good(wa, rows) /\ OnRecord(wa, rows)
    BY <1>2, <2>1 DEF Ready, Sound, Good, OnBlank
  <2>4. Good(wa', rows) /\ OnRecord(wa', rows)
    BY <2>2, <2>3, GoodStays
  <2>5. wa'.isDel = FALSE
    BY <2>1, <2>2 DEF SameShown
  <2> QED
    BY <2>1, <2>2, <2>4, <2>5 DEF Ready, Sound
<1>6. ASSUME NEW v, Marks(wa', w, v), wa' \in Area(y), rows' = t, ~w.eof
      PROVE  Ready(wa', rows', last')
  <2>1. Good(wa', t) /\ ~wa'.eof
    BY <1>0, <1>1, <1>2, <1>6, MarksStay DEF Sound, Marks
  <2> QED
    BY <1>1, <1>6, <2>1, SettledIsReady DEF Sound
<1>7. CASE DeleteRec
  <2>1. wa' = MarkDeleted(w) /\ rows' = t /\ ~w.eof
    BY <1>0, <1>7 DEF DeleteRec, w, t
  <2> QED
    BY <1>0, <1>1, <1>6, <2>1, MarksLine
<1>8. CASE Recall
  <2>1. /\ wa' = [w EXCEPT !.isDel = FALSE, !.cache[w.pos].del = FALSE]
        /\ rows' = t /\ ~w.eof /\ w.pos # 0
    BY <1>8 DEF Recall, w, t
  <2> QED
    BY <1>0, <1>1, <1>6, <2>1, MarksLine
<1>9. CASE Pack
  <2>1. PICK z \in Frame : z.hot = "no" /\ wa' \in Area(z) /\ TopOf(wa', rows')
    BY <1>9, PackGoesTop
  <2>2. Sound(wa', rows')
    BY <2>1 DEF TopOf, Sound
  <2> QED
    BY <2>1, <2>2, SettledIsReady
<1>10. CASE Zap
  <2> DEFINE g == Forgotten(w)
             c == EmptyCache(g)
             d == [c EXCEPT !.eof = TRUE, !.bof = TRUE, !.wasdel = FALSE]
  <2>1. rows' = {} /\ wa' = SyncFlags(d)
    BY <1>10 DEF Zap, w
  <2>2. g \in Area(y) /\ g.recno = w.recno
    <3>1. g \in Area(y)
      BY <1>1, SmallSteps
    <3> QED
      BY <1>1, <3>1 DEF Forgotten, Area
  <2> HIDE DEF g
  <2>3. c \in Area(y) /\ IsEmptied(c, g)
    BY <2>2, SmallSteps, FewLines
  <2> HIDE DEF c
  <2>4. d \in Area(y) /\ d.pos = c.pos /\ d.begin = c.begin /\ d.end = c.end /\ d.recno = c.recno /\ d.eof = TRUE
    BY <2>3 DEF Area
  <2> HIDE DEF d
  <2>5. wa' \in Area(y) /\ SameShown(wa', d) /\ wa'.eof = TRUE /\ wa'.fEof = TRUE
    BY <2>1, <2>4, SmallSteps, FlagsOnly
  <2>6. None(wa') /\ wa'.recno # 0
    <3>1. c.recno # 0 /\ None(c)
      BY <1>2, <2>2, <2>3 DEF IsEmptied
    <3> QED
      BY <2>4, <2>5, <3>1 DEF None, SameShown, SameLines
  <2>7. Good(wa', {})
    BY <2>5, <2>6 DEF Good, Ends, OnBlank, LinesOK
  <2> QED
    BY <1>1, <2>1, <2>5, <2>7, SettledIsReady DEF Sound
<1>11. ASSUME NEW o \in 0 .. 1, SetOrder(o) PROVE Ready(wa', rows', last')
  <2> DEFINE g == [Forgotten(wa) EXCEPT !.order = o]
  <2>1. wa' = EmptyCache(g) \/ (wa' = OneLine(g) /\ g.pos > 0)
    BY <1>11 DEF SetOrder
  <2>2. rows' = rows /\ last' = last
    BY <1>11 DEF SetOrder
  <2> HIDE DEF g
  <2> QED
    BY <1>0, <1>2, <1>3, <2>1, <2>2, FewLinesReady DEF g
<1>12. ASSUME NEW r \in Records, SiblingDelete(r) PROVE Ready(wa', rows', last')
  <2> DEFINE h == Forgotten(wa)
             g == [h EXCEPT !.order = wa.order]
  <2>1. wa' = EmptyCache(h) /\ rows' = rows /\ last' = last
    BY <1>12 DEF SiblingDelete, CheckCache
  <2>2. h \in Area(x) /\ h.order = wa.order /\ wa.order \in 0 .. 1
    <3>1. h \in Area(x)
      BY <1>3, SmallSteps
    <3> QED
      BY <1>3, <3>1 DEF Area, Frame
  <2>3. g = h
    <3> HIDE DEF h
    <3> QED
      BY <2>2 DEF Area
  <2>4. wa' = EmptyCache(g)
    BY <2>1, <2>3
  <2> HIDE DEF g
  <2> QED
    BY <1>0, <1>2, <1>3, <2>1, <2>2, <2>4, FewLinesReady DEF g
<1>13. ~SiblingInsert
  BY DEF SiblingInsert, Plain
<1> QED
  BY <1>4, <1>5, <1>7, <1>8, <1>9, <1>10, <1>11, <1>12, <1>13 DEF Change

(* The area just opened.                                                      *)
LEMMA InitIsReady ==
    ASSUME Plain, Init
    PROVE  Ready(wa, rows, last)
<1> DEFINE m == MaxOf(FirstRows)
<1>1. FirstRows \in SUBSET Records /\ m \in 0 .. MaxRec /\ FirstRows \subseteq 1 .. m
  BY CacheAssumption, LargestRecord
<1>2. PICK o \in 0 .. 1 : wa = AreaGoTop(FirstRows, InitialArea(o), FetchSize)
  BY DEF Init
<1> DEFINE x == [hot |-> "no", order |-> o, rcount |-> m]
           a == InitialArea(o)
<1> HIDE DEF m
<1>3. x \in Frame /\ x.hot = "no"
  BY <1>1 DEF Frame
<1>4. a \in Area(x) /\ a.bofAt = 0 /\ a.rcount = m
  <2>1. [i \in 1 .. Lines |-> Unfilled] \in [1 .. Lines -> Line]
    BY CacheAssumption DEF Unfilled, Line
  <2> QED
    BY <1>1, <2>1, CacheAssumption DEF InitialArea, Area, m
<1> HIDE DEF a, x
<1>5. wa \in Area(x) /\ TopOf(wa, FirstRows)
  BY <1>1, <1>2, <1>3, <1>4, SizesFit, GoIsArea, FreshTop DEF a
<1>6. rows = FirstRows
  BY DEF Init
<1>7. Sound(wa, rows)
  BY <1>5, <1>6 DEF TopOf, Sound
<1> QED
  BY <1>3, <1>5, <1>7, SettledIsReady

(* The invariant is inductive.                                                *)
LEMMA RInvInductive ==
    ASSUME Plain
    PROVE  Spec => []RInv
<1>1. Init => RInv
  BY InitKeeps, InitIsReady DEF RInv
<1>2. RInv /\ [Next]_vars => RInv'
  <2> SUFFICES ASSUME RInv, [Next]_vars PROVE RInv'
    OBVIOUS
  <2>1. PInv
    BY DEF RInv
  <2>2. CASE Next
    <3>1. PInv'
      BY <2>1, <2>2, MoveKeeps, ChangeKeeps DEF Next
    <3>2. Ready(wa', rows', last')
      BY <2>2, MoveIsReady, ChangeIsReady DEF Next
    <3> QED
      BY <3>1, <3>2 DEF RInv
  <2>3. CASE UNCHANGED vars
    <3>1. PInv'
      BY <2>1, <2>3 DEF vars, PInv, Area, Frame, Line, Nil
    <3>2. Ready(wa', rows', last')
      BY <2>3 DEF vars, RInv
    <3> QED
      BY <3>1, <3>2 DEF RInv
  <2> QED
    BY <2>2, <2>3
<1> QED
  BY <1>1, <1>2, PTL DEF Spec

-----------------------------------------------------------------------------
(* The theorems.                                                             *)

(* An end of the table is the end of the table.                               *)
LEMMA EndsAreUnique ==
    ASSUME NEW o \in 0 .. 1, NEW t \in SUBSET Records, NEW r
    PROVE  /\ IsFirst(o, r, t) => r = FirstOf(o, t)
           /\ IsLast(o, r, t) => r = LastOf(o, t)
<1>1. ASSUME IsFirst(o, r, t) PROVE r = FirstOf(o, t)
  <2>1. ASSUME NEW u \in t, \A s \in t \ {u} : Before(o, u, s) PROVE u = r
    <3>1. u # r => Before(o, r, u) /\ Before(o, u, r)
      BY <1>1, <2>1 DEF IsFirst
    <3>2. u \in Records /\ r \in Records
      BY <1>1 DEF IsFirst
    <3> QED
      BY <3>1, <3>2, OrderIsTotal
  <2> QED
    BY <1>1, <2>1 DEF IsFirst, FirstOf
<1>2. ASSUME IsLast(o, r, t) PROVE r = LastOf(o, t)
  <2>1. ASSUME NEW u \in t, \A s \in t \ {u} : Before(o, s, u) PROVE u = r
    <3>1. u # r => Before(o, r, u) /\ Before(o, u, r)
      BY <1>2, <2>1 DEF IsLast
    <3>2. u \in Records /\ r \in Records
      BY <1>2 DEF IsLast
    <3> QED
      BY <3>1, <3>2, OrderIsTotal
  <2> QED
    BY <1>2, <2>1 DEF IsLast, LastOf
<1> QED
  BY <1>1, <1>2

(***************************************************************************)
(* CacheIsAStretch, for rings, pages and tables of any size: when the area  *)
(* is on a record (not past the end), the lines in use hold records of the  *)
(* table that follow each other in the active order, with none missing and  *)
(* none left over from an earlier page, wherever the pages wrapped around   *)
(* the ring, and the record in the buffer is the one on line NPOSCACHE.     *)
(***************************************************************************)
THEOREM StretchOfTheTable ==
    ASSUME Plain
    PROVE  Spec => []CacheIsAStretch
<1>1. RInv => CacheIsAStretch
  <2> SUFFICES ASSUME RInv, ~wa.eof
               PROVE  /\ \A k \in InUse(wa) : Nth(wa, k).rec \in rows
                      /\ \A k, l \in InUse(wa) :
                           k < l /\ (k + 1) .. (l - 1) \cap InUse(wa) = {} =>
                             Follows(wa.order, Nth(wa, k).rec, Nth(wa, l).rec, rows)
                      /\ wa.begin # 0 => InRange(wa, wa.pos)
                      /\ wa.begin # 0 /\ ~Removed(wa) =>
                           wa.cache[wa.pos] = [rec |-> wa.recno, del |-> wa.isDel]
    BY Zenon DEF CacheIsAStretch
  <2>1. OnRecord(wa, rows)
    BY DEF RInv, Ready, Sound, Good, OnBlank
  <2>2. CASE None(wa)
    <3>1. wa.begin = 0 /\ InUse(wa) = {}
      BY <2>2 DEF None, InUse
    <3> QED
      BY <3>1
  <2>3. CASE ~None(wa)
    <3>1. Live(wa, rows)
      BY <2>1, <2>3 DEF OnRecord
    <3>2. wa.begin \in 1 .. Lines /\ wa.end \in 1 .. Lines
      BY <3>1 DEF Live, Stretch
    <3>3. rows \subseteq Records /\ MaxRec \in Nat
      BY CacheAssumption DEF RInv, PInv, Records
    <3>4. \A k \in 0 .. Span(wa) : Nth(wa, k).rec \in rows /\ Nth(wa, k) # Nil
      <4> TAKE k \in 0 .. Span(wa)
      <4>1. Nth(wa, k).rec \in rows
        BY <3>1 DEF Live, Stretch
      <4>2. Nil.rec = -1 /\ -1 \notin rows
        BY <3>3 DEF Nil, Records
      <4> QED
        BY <4>1, <4>2
    <3>5. InUse(wa) = 0 .. Span(wa)
      <4>1. wa.begin # 0
        BY <3>2
      <4>2. InUse(wa) = {k \in 0 .. Span(wa) : Nth(wa, k) # Nil}
        BY <4>1 DEF InUse, Span
      <4> QED
        BY <3>4, <4>2
    <3>6. Span(wa) \in Nat
      BY <3>2, RangeIsSpan
    <3>7. ASSUME NEW k \in 0 .. Span(wa), NEW l \in 0 .. Span(wa),
                 k < l, (k + 1) .. (l - 1) \cap (0 .. Span(wa)) = {}
          PROVE  Follows(wa.order, Nth(wa, k).rec, Nth(wa, l).rec, rows)
      <4>1. l = k + 1
        <5>1. k + 1 \in 0 .. Span(wa)
          BY <3>6, <3>7
        <5>2. k + 1 \notin (k + 1) .. (l - 1)
          BY <3>7, <5>1
        <5> QED
          BY <3>6, <3>7, <5>2
      <4>2. k \in 0 .. (Span(wa) - 1)
        BY <3>6, <4>1
      <4> QED
        BY <3>1, <4>1, <4>2 DEF Live, Stretch
    <3>8. InRange(wa, wa.pos) /\ wa.cache[wa.pos] = [rec |-> wa.recno, del |-> wa.isDel]
      BY <3>1 DEF Live, Shows, OnLine
    <3> QED
      BY <3>4, <3>5, <3>7, <3>8
  <2> QED
    BY <2>2, <2>3
<1>2. Spec => []RInv
  BY RInvInductive
<1> QED
  BY <1>1, <1>2, PTL

(***************************************************************************)
(* MarksAreEnds, for rings, pages and tables of any size: BOF_AT and        *)
(* EOF_AT, which answer GO TOP, GO BOTTOM and the SKIP at an end without a  *)
(* SELECT, are the first and the last record of the table as it is now,     *)
(* also with a new record in the buffer that the table does not have yet.   *)
(***************************************************************************)
THEOREM EndsMarked ==
    ASSUME Plain
    PROVE  Spec => []MarksAreEnds
<1>1. RInv => MarksAreEnds
  <2> SUFFICES ASSUME RInv PROVE MarksAreEnds
    OBVIOUS
  <2>1. Ends(wa, rows)
    BY DEF RInv, Ready, Sound, Good
  <2>2. PICK x \in Frame : wa \in Area(x)
    BY DEF RInv, PInv
  <2>3. wa.order \in 0 .. 1
    BY <2>2 DEF Area, Frame
  <2>4. rows \in SUBSET Records
    BY CacheAssumption DEF RInv, PInv, Records
  <2> QED
    BY <2>1, <2>3, <2>4, EndsAreUnique DEF MarksAreEnds, Ends
<1>2. Spec => []RInv
  BY RInvInductive
<1> QED
  BY <1>1, <1>2, PTL

(* The record that follows is the first of those after it, and nothing comes  *)
(* after the last one; and the same backwards.                                *)
LEMMA NeighboursAreEnds ==
    ASSUME NEW o \in 0 .. 1, NEW t \in SUBSET Records, NEW k \in t, NEW r
    PROVE  /\ r \in t /\ Follows(o, k, r, t) => After(o, k, t) # {} /\ r = FirstOf(o, After(o, k, t))
           /\ IsLast(o, k, t) => After(o, k, t) = {}
           /\ r \in t /\ Follows(o, r, k, t) =>
                Preceding(o, k, t) # {} /\ r = LastOf(o, Preceding(o, k, t))
           /\ IsFirst(o, k, t) => Preceding(o, k, t) = {}
<1> DEFINE A == After(o, k, t)
           B == Preceding(o, k, t)
<1>1. A \in SUBSET Records /\ B \in SUBSET Records
  BY DEF After, Preceding
<1>2. ASSUME r \in t, Follows(o, k, r, t) PROVE A # {} /\ r = FirstOf(o, A)
  <2>1. r \in A /\ \A s \in t : ~(Before(o, k, s) /\ Before(o, s, r))
    BY <1>2 DEF After, Follows
  <2>2. ASSUME NEW s \in A \ {r} PROVE Before(o, r, s)
    <3>1. s \in t /\ Before(o, k, s)
      BY DEF After
    <3>2. s \in Records /\ r \in Records /\ s # r
      BY <1>2, <3>1
    <3> QED
      BY <2>1, <3>1, <3>2, OrderIsTotal
  <2>3. IsFirst(o, r, A)
    BY <2>1, <2>2 DEF IsFirst
  <2> HIDE DEF A
  <2> QED
    BY <1>1, <2>1, <2>3, EndsAreUnique
<1>3. ASSUME r \in t, Follows(o, r, k, t) PROVE B # {} /\ r = LastOf(o, B)
  <2>1. r \in B /\ \A s \in t : ~(Before(o, r, s) /\ Before(o, s, k))
    BY <1>3 DEF Preceding, Follows
  <2>2. ASSUME NEW s \in B \ {r} PROVE Before(o, s, r)
    <3>1. s \in t /\ Before(o, s, k)
      BY DEF Preceding
    <3>2. s \in Records /\ r \in Records /\ s # r
      BY <1>3, <3>1
    <3> QED
      BY <2>1, <3>1, <3>2, OrderIsTotal
  <2>3. IsLast(o, r, B)
    BY <2>1, <2>2 DEF IsLast
  <2> HIDE DEF B
  <2> QED
    BY <1>1, <2>1, <2>3, EndsAreUnique
<1>4. ASSUME NEW s \in t PROVE /\ IsLast(o, k, t) => ~Before(o, k, s)
                               /\ IsFirst(o, k, t) => ~Before(o, s, k)
  <2>1. s \in Records /\ k \in Records
    OBVIOUS
  <2> QED
    BY <2>1, OrderIsTotal DEF IsLast, IsFirst
<1>5. (IsLast(o, k, t) => A = {}) /\ (IsFirst(o, k, t) => B = {})
  BY <1>4 DEF After, Preceding
<1> QED
  BY <1>2, <1>3, <1>5

(***************************************************************************)
(* SKIP 1, for rings, pages and tables of any size: with the flags of the   *)
(* RDD and of the work area in agreement it goes to the record that follows *)
(* in the active order, whichever of the lines, the marks and a page read   *)
(* around the end of the ring answers it, and past the last record to EOF.  *)
(***************************************************************************)
THEOREM SkipGoesForward ==
    ASSUME Plain
    PROVE  Spec => SkipForwardIsRight
<1> DEFINE Right ==
             LET a == ColdBuffer(wa)
                 S == After(a.order, a.key, Shown(rows'))
                 right == IF a.eof THEN wa'.recno = a.recno
                          ELSE IF S = {} THEN AtEnd(wa')
                          ELSE At(wa', FirstOf(a.order, S))
             IN  right \/ ~Sure(a) \/ ~Skip(1)
<1>1. ASSUME RInv, Next PROVE Right
  <2> DEFINE a == ColdBuffer(wa)
             t == WrittenRows
             S == After(a.order, a.key, t)
  <2> SUFFICES ASSUME Sure(a), Skip(1)
               PROVE  IF a.eof THEN wa'.recno = a.recno
                      ELSE IF S = {} THEN AtEnd(wa')
                      ELSE At(wa', FirstOf(a.order, S))
    <3>1. Skip(1) => rows' = t
      BY DEF Skip, Write
    <3>2. \A u : Shown(u) = u
      BY DEF Shown, Plain
    <3> QED
      BY <3>1, <3>2
  <2>1. a.fEof = a.eof
    BY DEF Sure
  <2>2. Good(a, t) /\ t \in SUBSET Records
    BY <1>1, WrittenIsSound, Written DEF Sound, RInv
  <2>3. PICK y \in Frame : y.hot # "insert" /\ a \in Area(y)
    BY <1>1, Written DEF RInv
  <2>4. a.order \in 0 .. 1 /\ t \subseteq 1 .. y.rcount /\ a.eof \in BOOLEAN
    <3>1. a.rcount = y.rcount
      BY <2>3 DEF Area
    <3> QED
      BY <2>2, <2>3, <3>1 DEF Area, Frame, Good
  <2>5. PICK f \in PageSizes : wa' = AreaSkip(t, a, 1, f)
    BY DEF Skip, Write
  <2> DEFINE b == OneSkip(t, a, 1, f)
  <2>6. wa' = Skipped(b, 1)
    <3>1. 1 \in {-1, 1}
      OBVIOUS
    <3> QED
      BY <2>5, <3>1, SkipOnce
  <2> HIDE DEF a, t, S
  <2>7. /\ b \in Area(y) /\ (~a.eof => SkipsUp(b, a, t)) /\ (a.eof => b.recno = a.recno)
    BY <2>2, <2>3, <2>4, SizesFit, UpRound DEF UpAt
  <2> HIDE DEF b
  <2>8. SameShown(wa', b) /\ wa'.eof = (b.fEof /\ 1 = 1)
    <3>1. 1 \in {-1, 1}
      OBVIOUS
    <3> QED
      BY <2>3, <2>6, <2>7, <3>1, SkippedFlags
  <2>9. wa'.recno = b.recno /\ wa'.key = b.key /\ wa'.eof = b.fEof
    <3>1. b.fEof \in BOOLEAN
      BY <2>7 DEF Area
    <3> QED
      BY <2>8, <3>1 DEF SameShown
  <2>10. CASE a.eof
    BY <2>7, <2>9, <2>10
  <2>11. CASE ~a.eof
    <3>1. a.key \in t
      BY <2>2, <2>11 DEF Good, OnRecord, OnBlank
    <3>2. ~FullOn(b)
      <4>1. ~Full(wa')
        BY <1>1 DEF Next, Corner, Plain, Full
      <4>2. FullOn(b) => FullOn(wa')
        BY <2>8, GoodStays
      <4> QED
        BY <4>1, <4>2 DEF FullOn
    <3>3. CASE Live(b, t) /\ Follows(a.order, a.key, b.key, t) /\ b.fEof = a.fEof
      <4>1. b.key \in t /\ b.recno = b.key
        BY <3>3 DEF Live, Shows
      <4>2. S # {} /\ b.key = FirstOf(a.order, S)
        BY <2>2, <2>4, <3>1, <3>3, <4>1, NeighboursAreEnds DEF S
      <4>3. At(wa', b.key)
        BY <2>1, <2>9, <2>11, <3>3, <4>1 DEF At
      <4> QED
        BY <2>11, <4>2, <4>3
    <3>4. CASE OnBlank(b, t) /\ b.key = 0 /\ IsLast(a.order, a.key, t)
      <4>1. S = {}
        BY <2>2, <2>4, <3>1, <3>4, NeighboursAreEnds DEF S
      <4>2. AtEnd(wa')
        BY <2>9, <3>4 DEF AtEnd, OnBlank
      <4> QED
        BY <2>11, <4>1, <4>2
    <3> QED
      BY <2>7, <2>11, <3>2, <3>3, <3>4 DEF SkipsUp
  <2> QED
    BY <2>4, <2>10, <2>11
<1>2. RInv /\ [Next]_vars => [Right]_vars
  <2> HIDE DEF Right
  <2> QED
    BY <1>1
<1> HIDE DEF Right
<1>3. Spec => [][Right]_vars
  BY <1>2, RInvInductive, PTL DEF Spec
<1> QED
  BY <1>3 DEF SkipForwardIsRight, Right

(***************************************************************************)
(* SKIP -1, for rings, pages and tables of any size: with the flags in      *)
(* agreement it goes from a record to the one that precedes it in the       *)
(* active order, and from the first one it stays there with BOF.            *)
(***************************************************************************)
THEOREM SkipGoesBackward ==
    ASSUME Plain
    PROVE  Spec => SkipBackwardIsRight
<1> DEFINE Right ==
             LET a == ColdBuffer(wa)
                 S == Preceding(a.order, a.key, Shown(rows'))
                 right == IF S = {}
                            THEN wa'.bof /\ (Shown(rows') # {} => At(wa', FirstOf(a.order, Shown(rows'))))
                            ELSE At(wa', LastOf(a.order, S))
             IN  right \/ ~Sure(a) \/ a.key = 0 \/ a.eof \/ a.bof \/ ~Skip(-1)
<1>1. ASSUME RInv, Next PROVE Right
  <2> DEFINE a == ColdBuffer(wa)
             t == WrittenRows
             S == Preceding(a.order, a.key, t)
  <2> SUFFICES ASSUME Sure(a), Skip(-1), ~a.eof, ~a.bof
               PROVE  IF S = {} THEN wa'.bof /\ (t # {} => At(wa', FirstOf(a.order, t)))
                      ELSE At(wa', LastOf(a.order, S))
    <3>1. Skip(-1) => rows' = t
      BY DEF Skip, Write
    <3>2. \A u : Shown(u) = u
      BY DEF Shown, Plain
    <3> QED
      BY <3>1, <3>2
  <2>1. a.fEof = a.eof
    BY DEF Sure
  <2>2. Good(a, t) /\ t \in SUBSET Records
    BY <1>1, WrittenIsSound, Written DEF Sound, RInv
  <2>3. PICK y \in Frame : y.hot # "insert" /\ a \in Area(y)
    BY <1>1, Written DEF RInv
  <2>4. a.order \in 0 .. 1 /\ t \subseteq 1 .. y.rcount
    <3>1. a.rcount = y.rcount
      BY <2>3 DEF Area
    <3> QED
      BY <2>2, <2>3, <3>1 DEF Area, Frame, Good
  <2>5. (\E f \in PageSizes : wa' = AreaSkip(t, a, -1, f)) /\ a.pos # 0
    <3>1. -1 < 0 /\ "empty" \notin Corners
      BY DEF Plain
    <3> QED
      BY <3>1 DEF Skip, Write
  <2>6. PICK f \in PageSizes : wa' = AreaSkip(t, a, -1, f)
    BY <2>5
  <2> DEFINE b == OneSkip(t, a, -1, f)
  <2>7. wa' = Skipped(b, -1)
    <3>1. -1 \in {-1, 1}
      OBVIOUS
    <3> QED
      BY <2>6, <3>1, SkipOnce
  <2> HIDE DEF a, t, S
  <2>8. b \in Area(y) /\ SkipsDown(b, a, t)
    BY <2>2, <2>3, <2>4, <2>5, SizesFit, DownRound
  <2> HIDE DEF b
  <2>9. /\ SameShown(wa', b) /\ wa'.eof = FALSE /\ wa'.bof = b.fBof
    <3>1. -1 \in {-1, 1} /\ ~(-1 = 1) /\ b.fBof \in BOOLEAN
      BY <2>8 DEF Area
    <3>2. /\ SameShown(wa', b) /\ wa'.eof = (b.fEof /\ -1 = 1) /\ wa'.bof = (b.fBof /\ -1 = -1)
      BY <2>3, <2>7, <2>8, <3>1, SkippedFlags
    <3> QED
      BY <3>1, <3>2
  <2>10. wa'.recno = b.recno /\ wa'.key = b.key
    BY <2>9 DEF SameShown
  <2>11. a.key \in t
    BY <2>2 DEF Good, OnRecord, OnBlank
  <2>12. ~FullOn(b)
    <3>1. ~Full(wa')
      BY <1>1 DEF Next, Corner, Plain, Full
    <3>2. FullOn(b) => FullOn(wa')
      BY <2>9, GoodStays
    <3> QED
      BY <3>1, <3>2 DEF FullOn
  <2>13. CASE Live(b, t) /\ Follows(a.order, b.key, a.key, t)
    <3>1. b.key \in t /\ b.recno = b.key
      BY <2>13 DEF Live, Shows
    <3>2. S # {} /\ b.key = LastOf(a.order, S)
      BY <2>2, <2>4, <2>11, <2>13, <3>1, NeighboursAreEnds DEF S
    <3>3. At(wa', b.key)
      BY <2>9, <2>10, <3>1 DEF At
    <3> QED
      BY <3>2, <3>3
  <2>14. CASE Live(b, t) /\ b.key = a.key /\ IsFirst(a.order, a.key, t) /\ b.fBof
    <3>1. S = {}
      BY <2>2, <2>4, <2>11, <2>14, NeighboursAreEnds DEF S
    <3>2. a.key = FirstOf(a.order, t)
      BY <2>2, <2>4, <2>14, EndsAreUnique
    <3>3. At(wa', a.key)
      BY <2>9, <2>10, <2>14 DEF At, Live, Shows
    <3> QED
      BY <2>9, <2>14, <3>1, <3>2, <3>3
  <2> QED
    BY <2>8, <2>12, <2>13, <2>14 DEF SkipsDown
<1>2. RInv /\ [Next]_vars => [Right]_vars
  <2> HIDE DEF Right
  <2> QED
    BY <1>1
<1> HIDE DEF Right
<1>3. Spec => [][Right]_vars
  BY <1>2, RInvInductive, PTL DEF Spec
<1> QED
  BY <1>3 DEF SkipBackwardIsRight, Right

(* A step that leaves an area at EOF over a table with records, and the       *)
(* table, is no change: nothing changes.                                      *)
LEMMA NoChangeAtEof ==
    ASSUME Plain, RInv, Next, wa' = wa, rows' = rows, rows # {}, wa.eof, deleted' = deleted,
           last' = last
    PROVE  UNCHANGED vars
<1>1. PICK x \in Frame : wa \in Area(x)
  BY DEF RInv, PInv
<1>2. last \in Nat
  BY CacheAssumption DEF RInv, PInv
<1>3. ~Change
  <2>1. ~AppendRec /\ ~SiblingInsert
    BY <1>2 DEF AppendRec, Plain, SiblingInsert
  <2>2. ~PutValue
    BY DEF PutValue
  <2>3. wa.hot = "no" => ~DeleteRec /\ ~Recall
    BY WrittenIsSound DEF DeleteRec, Recall
  <2>4. wa.hot # "no" => ~DeleteRec /\ ~Recall
    <3> SUFFICES ASSUME wa.hot # "no", DeleteRec \/ Recall PROVE FALSE
      OBVIOUS
    <3>1. PICK y \in Frame : y.hot = "no" /\ WriteBuffer(wa) \in Area(y)
      BY Written DEF RInv
    <3>2. WriteBuffer(wa).hot = "no"
      BY <3>1 DEF Area
    <3>3. wa'.hot = "no"
      <4>1. CASE DeleteRec
        <5>1. wa' = MarkDeleted(WriteBuffer(wa)) /\ UseDeleteds
          BY <4>1 DEF DeleteRec, Plain
        <5>2. Marks(MarkDeleted(WriteBuffer(wa)), WriteBuffer(wa), TRUE)
          BY <3>1, <5>1, MarksLine
        <5> QED
          BY <3>2, <5>1, <5>2 DEF Marks
      <4>2. CASE Recall
        <5> DEFINE w == WriteBuffer(wa)
        <5>1. UseDeleteds /\ w.pos # 0 /\ wa' = [w EXCEPT !.isDel = FALSE, !.cache[w.pos].del = FALSE]
          BY <4>2 DEF Recall
        <5> HIDE DEF w
        <5>2. w \in Area(y)
          BY <3>1 DEF w
        <5>3. Marks(wa', w, FALSE)
          BY <5>1, <5>2, MarksLine
        <5> QED
          BY <3>2, <5>3 DEF Marks, w
      <4> QED
        BY <3>1, <4>1, <4>2
    <3> QED
      BY <3>1, <3>3
  <2>5. ~Pack
    <3>1. Pack => TopOf(wa', rows')
      BY PackGoesTop
    <3> QED
      BY <3>1 DEF TopOf
  <2>6. ~Zap
    BY DEF Zap
  <2>7. \A o \in 0 .. 1 : ~SetOrder(o)
    <3> SUFFICES ASSUME NEW o \in 0 .. 1, SetOrder(o) PROVE FALSE
      OBVIOUS
    <3> DEFINE h == Forgotten(wa)
               g == [h EXCEPT !.order = o]
               y == [hot |-> x.hot, order |-> o, rcount |-> x.rcount]
    <3>1. (wa' = EmptyCache(g) \/ wa' = OneLine(g)) /\ o # wa.order
      BY DEF SetOrder
    <3>2. h \in Area(x) /\ y \in Frame
      BY <1>1, SmallSteps DEF Frame
    <3> HIDE DEF h
    <3>3. g \in Area(y) /\ y.order = o
      BY <3>2 DEF Area
    <3> HIDE DEF g, y
    <3>4. wa' \in Area(y)
      BY <3>1, <3>2, <3>3, SmallSteps
    <3>5. wa'.order = o
      BY <3>3, <3>4 DEF Area
    <3> QED
      BY <3>1, <3>5
  <2>8. \A r \in Records : ~SiblingDelete(r)
    BY DEF SiblingDelete
  <2> QED
    BY <2>1, <2>2, <2>3, <2>4, <2>5, <2>6, <2>7, <2>8 DEF Change
<1> QED
  BY <1>3 DEF Next, vars

(***************************************************************************)
(* GO TOP and GO BOTTOM, for rings, pages and tables of any size: with the  *)
(* flags in agreement they show the first and the last record of the active *)
(* order, answered by a mark, by a line or by a page; on an empty table they *)
(* end at EOF.  They may also do nothing: over a record shown with EOF set,  *)
(* and then it is the record asked for.                                     *)
(***************************************************************************)
THEOREM EndsAreShown ==
    ASSUME Plain
    PROVE  Spec => EndsAreRight
<1> DEFINE Right ==
             LET a == WriteBuffer(wa)
                 S == Shown(rows')
                 End(r) == IF S = {} THEN wa'.eof ELSE At(wa', r)
             IN  Sure(a) => /\ End(FirstOf(a.order, S)) \/ ~GoTop
                            /\ End(LastOf(a.order, S)) \/ ~GoBottom
<1>1. ASSUME RInv, Next, ~UNCHANGED vars PROVE Right
  <2> DEFINE a == WriteBuffer(wa)
             t == WrittenRows
             End(r) == IF t = {} THEN wa'.eof ELSE At(wa', r)
  <2> SUFFICES ASSUME Sure(a)
               PROVE  /\ GoTop => End(FirstOf(a.order, t))
                      /\ GoBottom => End(LastOf(a.order, t))
    <3>1. GoTop \/ GoBottom => rows' = t
      BY DEF GoTop, GoBottom, Write
    <3>2. \A u : Shown(u) = u
      BY DEF Shown, Plain
    <3> QED
      BY <3>1, <3>2
  <2>1. a.fEof = a.eof /\ a.fBof = a.bof
    BY DEF Sure
  <2>2. /\ Sound(a, t) /\ t \in SUBSET Records
        /\ wa.hot # "no" => ~a.eof
        /\ wa.hot = "no" => a = wa /\ t = rows
    BY <1>1, WrittenIsSound, Written DEF RInv
  <2>3. PICK y \in Frame : y.hot = "no" /\ a \in Area(y)
    BY <1>1, Written DEF RInv
  <2>4. a.order = y.order /\ y.order \in 0 .. 1
    BY <2>3 DEF Area, Frame
  <2> HIDE DEF a, t
  <2>5. ASSUME Stays(wa', a), wa'.recno \in t, rows' = t, deleted' = deleted, last' = last
        PROVE  FALSE
    <3>1. a.eof /\ ~a.bof /\ wa'.recno = a.recno
      BY <2>3, <2>5, StaysForgets DEF Stays
    <3>2. ~a.wasdel
      BY <2>2, <2>5, <3>1 DEF Sound
    <3> DEFINE c == [a EXCEPT !.wasdel = FALSE]
               d == [c EXCEPT !.bof = FALSE]
    <3>3. c = a
      BY <2>3, <3>2 DEF Area
    <3> HIDE DEF c
    <3>4. d = a
      BY <2>3, <3>1, <3>3 DEF Area
    <3>5. wa' = SyncFlags(d)
      BY <2>5 DEF Stays, c
    <3> HIDE DEF d
    <3>6. wa' = a
      BY <2>1, <2>3, <3>4, <3>5 DEF SyncFlags, Area
    <3>7. wa' = wa /\ rows' = rows /\ rows # {} /\ wa.eof
      BY <2>2, <2>5, <3>1, <3>6
    <3> QED
      BY <1>1, <2>5, <3>7, NoChangeAtEof
  <2>6. ASSUME GoTop PROVE End(FirstOf(a.order, t))
    <3>1. PICK f \in PageSizes : wa' = AreaGoTop(t, a, f)
      BY <2>6 DEF GoTop, Write, a, t
    <3>2. rows' = t /\ deleted' = deleted /\ last' = last
      BY <2>6 DEF GoTop, Write, t
    <3>3. TopsOut(wa', a, t) /\ wa' \in Area(y)
      BY <2>2, <2>3, <3>1, SizesFit, GoTopIsGood, GoIsArea DEF Sound
    <3>4. wa'.order = a.order
      BY <2>4, <3>3 DEF Area
    <3>5. ASSUME t # {} PROVE At(wa', FirstOf(a.order, t))
      <4>1. OnRecord(wa', t) /\ IsFirst(wa'.order, wa'.recno, t) /\ (~wa'.eof \/ Stays(wa', a))
        BY <3>3, <3>5, Zenon DEF TopsOut
      <4>2. wa'.recno \in t /\ wa'.key = wa'.recno
        BY <4>1 DEF OnRecord
      <4>3. ~wa'.eof
        BY <2>5, <3>2, <4>1, <4>2
      <4>4. wa'.recno = FirstOf(a.order, t)
        BY <2>2, <2>4, <3>4, <4>1, EndsAreUnique
      <4> QED
        BY <4>2, <4>3, <4>4 DEF At
    <3> QED
      BY <3>3, <3>5 DEF TopsOut
  <2>7. ASSUME GoBottom PROVE End(LastOf(a.order, t))
    <3>1. PICK f \in PageSizes : wa' = AreaGoBottom(t, a, f)
      BY <2>7 DEF GoBottom, Write, a, t
    <3>2. rows' = t /\ deleted' = deleted /\ last' = last
      BY <2>7 DEF GoBottom, Write, t
    <3>3. BottomsOut(wa', a, t) /\ wa' \in Area(y)
      BY <2>2, <2>3, <3>1, SizesFit, GoBottomIsGood, GoIsArea DEF Sound
    <3>4. wa'.order = a.order
      BY <2>4, <3>3 DEF Area
    <3>5. ASSUME t # {} PROVE At(wa', LastOf(a.order, t))
      <4>1. OnRecord(wa', t) /\ IsLast(wa'.order, wa'.recno, t) /\ (~wa'.eof \/ Stays(wa', a))
        BY <3>3, <3>5, Zenon DEF BottomsOut
      <4>2. wa'.recno \in t /\ wa'.key = wa'.recno
        BY <4>1 DEF OnRecord
      <4>3. ~wa'.eof
        BY <2>5, <3>2, <4>1, <4>2
      <4>4. wa'.recno = LastOf(a.order, t)
        BY <2>2, <2>4, <3>4, <4>1, EndsAreUnique
      <4> QED
        BY <4>2, <4>3, <4>4 DEF At
    <3> QED
      BY <3>3, <3>5 DEF BottomsOut
  <2> QED
    <3>1. (GoTop => End(FirstOf(a.order, t))) /\ (GoBottom => End(LastOf(a.order, t)))
      BY <2>6, <2>7
    <3> QED
      BY <3>1 DEF a, t
<1>2. RInv /\ [Next]_vars => [Right]_vars
  <2> HIDE DEF Right
  <2> QED
    BY <1>1
<1> HIDE DEF Right
<1>3. Spec => [][Right]_vars
  BY <1>2, RInvInductive, PTL DEF Spec
<1> QED
  BY <1>3 DEF EndsAreRight, Right
=============================================================================
