----------------------------- MODULE PageCache ------------------------------
(***************************************************************************)
(* Navigation of one SQLRDD work area over its ring of cached records.      *)
(*                                                                         *)
(* A work area (SR_WORKAREA of source/sqlrdd2.prg under the SQLAREA of      *)
(* source/sqlrdd1.cpp) shows a table as a cursor: GoTop, GoBottom, GoTo,    *)
(* Skip.  aCache is a ring of SR_CACHE_PAGE_SIZE * 3 lines; NCACHEBEGIN ..  *)
(* NCACHEEND, possibly around the end of the ring, are the lines in use and *)
(* NPOSCACHE is the line of the current record.  A Skip moves along the     *)
(* lines; at their end ReadPage selects the records from the current one    *)
(* on, drops the first (the current one) and writes the others behind it.   *)
(* BOF_AT and EOF_AT remember the first and last record once a page hit the *)
(* end of the table.                                                        *)
(*                                                                         *)
(* Left out: the columns of a record (a line is its record number and its   *)
(* deleted mark), SQL text, relations, seeks, all-in-memory tables (the     *)
(* !ISAM branches) and lFetchAll.  nCurrentFetch, which the code adapts to  *)
(* the number of skips, is FetchSize after GoTop and GoBottom and any       *)
(* member of PageSizes in ReadPage.                                         *)
(***************************************************************************)
EXTENDS IndexOrder, FiniteSets, FiniteSetsExt, SequencesExt

CONSTANTS
  Lines,        \* lines of aCache: SR_CACHE_PAGE_SIZE * 3 (600 in the code)
  FetchSize,    \* SR_FetchSize(): nCurrentFetch after ResetStatistics
  PageSizes,    \* the values of nCurrentFetch a ReadPage may use
  MaxRec,       \* bound: record numbers are 1 .. MaxRec
  FirstRows,    \* the records of the table at the start
  FirstMarked,  \* the ones of them that carry the deleted mark
  Columns,      \* columns of the index, the record number is the last
  Key,          \* the index key of each record
  UseDeleteds,  \* SR_UseDeleteds(): deleted records are marked, not removed
  SetDeleted,   \* SET DELETED ON: marked records are not shown
  Siblings,     \* what other areas of the process do: "insert", "delete"
  Corners,      \* which of the corners of the ring the run goes to, see Corner
  Targets,      \* bound: the record numbers GoTo is called with
  Steps,        \* bound: the distances Skip is called with
  MaxChanges    \* bound: changes of the table or of the order

Records == 1 .. MaxRec

ASSUME CacheAssumption ==
  /\ Lines \in Nat /\ FetchSize \in Nat \ {0} /\ PageSizes \subseteq Nat \ {0}
  /\ FetchSize + 3 <= Lines /\ \A f \in PageSizes : f + 3 <= Lines
  /\ MaxRec \in Nat /\ FirstRows \subseteq Records /\ FirstMarked \subseteq FirstRows
  /\ UseDeleteds \/ FirstMarked = {}
  /\ Columns \in Nat \ {0} /\ Key \in [Records -> [1 .. Columns -> Int]]
  /\ \A r \in Records : Key[r][Columns] = r
  /\ UseDeleteds \in BOOLEAN /\ SetDeleted \in BOOLEAN
  /\ Siblings \subseteq {"insert", "delete"} /\ Corners \subseteq {"empty", "full", "marked"}
  /\ MaxChanges \in Nat
  /\ Targets \subseteq Records \cup {0} /\ Steps \subseteq Int \ {0}

VARIABLES
  rows,     \* the records of the table
  deleted,  \* the records of the table that carry the deleted mark
  last,     \* the last record number given out
  wa,       \* the work area, a record of the fields of InitialArea
  changes   \* changes so far, for the bound

vars == <<rows, deleted, last, wa, changes>>

Nil      == [rec |-> -1, del |-> FALSE]  \* a line whose record was removed
Unfilled == [rec |-> 0, del |-> FALSE]   \* Array(n): a line never written
Row(r)   == [rec |-> r, del |-> r \in deleted]

-----------------------------------------------------------------------------
(* The orders of the table: 0 is the record number, 1 the index.  A blank   *)
(* buffer (record number 0) comes before every record.                      *)
Width(o)    == IF o = 0 THEN 1 ELSE Columns
KeyOf(o, r) == IF r = 0 \/ o = 0 THEN [i \in 1 .. Width(o) |-> r] ELSE Key[r]

Before(o, r, s) == LexLess(Width(o), KeyOf(o, r), KeyOf(o, s))

(* The place of each record in an order, and ORDER BY over the records of S. *)
Place ==
  [o \in 0 .. 1 |-> [r \in Records |-> Cardinality({s \in Records : Before(o, s, r)})]]

Ascending(o, S) ==
  [k \in 1 .. Cardinality(S) |->
     CHOOSE r \in S : Cardinality({s \in S : Place[o][s] < Place[o][r]}) = k - 1]

Descending(o, S) == Reverse(Ascending(o, S))

AtMost(q, n) == IF Len(q) <= n THEN q ELSE SubSeq(q, 1, n)

-----------------------------------------------------------------------------
(* The ring (sqlrdd1.cpp).                                                   *)
FixCachePointer(p) ==
  IF p < 1 THEN p + Lines ELSE IF p > Lines THEN p - Lines ELSE p

IsCachePointerInRange(p, b, e) ==
  IF b = e THEN p = b
  ELSE IF b < e THEN p >= b /\ p <= e
  ELSE p >= b \/ p <= e

InRange(a, p) == IsCachePointerInRange(p, a.begin, a.end)

(***************************************************************************)
(* searchCacheFWD (dir = 1) and searchCacheBWD (dir = -1): the first line   *)
(* that is not NIL, from the current one or the one after it, as long as    *)
(* the lines are in range; 0 when there is none.                            *)
(***************************************************************************)
SearchCache(a, dir, previousCacheStatus) ==
  LET start == IF previousCacheStatus # 0 THEN a.pos + dir ELSE a.pos
      Line(d) == FixCachePointer(FixCachePointer(start) + dir * d)
      hits == {d \in 0 .. (Lines - 1) :
                 /\ a.cache[Line(d)] # Nil
                 /\ \A c \in 0 .. d : InRange(a, Line(c))}
  IN  IF a.pos = 0 \/ hits = {} THEN 0 ELSE Line(Min(hits))

SetCurrentFromCache(a, p) ==
  [a EXCEPT !.pos = p, !.recno = a.cache[p].rec, !.key = a.cache[p].rec,
            !.isDel = a.cache[p].del]

(* sqlGetCleanBuffer, GetBuffer(.T.): the blank record past the end. *)
CleanBuffer(a) ==
  [a EXCEPT !.recno = a.rcount + 1, !.key = 0, !.isDel = FALSE, !.eof = TRUE]

(* GetBuffer(): the line NPOSCACHE becomes the record buffer. *)
GetBuffer(a) ==
  IF a.pos = 0 THEN CleanBuffer(a) ELSE SetCurrentFromCache(a, a.pos)

-----------------------------------------------------------------------------
(* Mutant: the begin of the lines in use never makes room. *)
MakeRoomForwardOver(a, f) ==
  [a EXCEPT !.end = FixCachePointer(a.pos + f), !.eofAt = 0,
            !.begin = IF a.begin = 0 THEN 1 ELSE a.begin,
            !.pos = IF a.pos = 0 THEN 1 ELSE a.pos]

(***************************************************************************)
(* The lines in use after a page of f records is put behind line a.pos:     *)
(* when the new end would run into the old begin, the begin moves on.  A    *)
(* page writes one record more than the range shows.                        *)
(***************************************************************************)
MakeRoomForward(a, f) ==
  LET end   == a.pos + f
      wraps == end > Lines
      b     == IF a.begin = a.end THEN a.begin
               ELSE IF a.begin < a.end
                 THEN IF wraps /\ end - Lines >= a.begin - 2 THEN end - Lines + 2
                                                             ELSE a.begin
                 ELSE IF end >= a.begin - 2 THEN end + 2 ELSE a.begin
      forget == \/ wraps
                \/ a.begin > a.end /\ (end >= a.begin - 2 \/ b > Lines)
  IN  [a EXCEPT
         !.end   = FixCachePointer(end),
         !.begin = IF b = 0 THEN 1 ELSE FixCachePointer(b),
         !.pos   = IF a.pos = 0 THEN 1 ELSE a.pos,
         !.eofAt = IF a.begin = a.end \/ forget THEN 0 ELSE a.eofAt,
         !.bofAt = IF a.begin # a.end /\ forget THEN 0 ELSE a.bofAt]

MakeRoomBackward(a, f) ==
  LET begin == a.pos - f
      wraps == begin < 1
      e     == IF a.begin = a.end THEN a.end
               ELSE IF a.begin < a.end
                 THEN IF wraps /\ a.end + 2 >= begin + Lines THEN begin + Lines - 2
                                                             ELSE a.end
                 ELSE IF a.end + 2 >= begin THEN begin - 2 ELSE a.end
      forget == \/ wraps
                \/ a.begin > a.end /\ (a.end + 2 >= begin \/ e < 1)
  IN  [a EXCEPT
         !.begin = FixCachePointer(begin),
         !.end   = FixCachePointer(e),
         !.pos   = IF a.pos = 0 THEN Lines ELSE a.pos,
         !.eofAt = IF a.begin = a.end \/ forget THEN 0 ELSE a.eofAt,
         !.bofAt = IF a.begin # a.end /\ forget THEN 0 ELSE a.bofAt]

(***************************************************************************)
(* The body FirstFetch and ReadPage share: the records q, at least one and  *)
(* at most f + 1, go to the lines from blockPos on in direction dir.  When  *)
(* q is shorter than that the table has ended: its last record is the mark  *)
(* and its line the end of the range.  At the end the line NPOSCACHE is     *)
(* loaded.  q[1] goes to blockPos, the others behind line first.            *)
(***************************************************************************)
Filled(a, q, dir, first, blockPos) ==
  LET Line(k) == FixCachePointer(first + dir * (k - 1))
  IN  [a EXCEPT !.cache =
         [i \in 1 .. Lines |->
            IF \E k \in 2 .. Len(q) : Line(k) = i
              THEN Row(q[CHOOSE k \in 2 .. Len(q) : Line(k) = i])
            ELSE IF i = blockPos THEN Row(q[1]) ELSE a.cache[i]]]

MarkedEnd(a, q, dir, first, f) ==
  LET line == FixCachePointer(first + dir * (Len(q) - 1))
  IN  IF Len(q) = f + 1 THEN a
      ELSE IF dir = 1 THEN [a EXCEPT !.eofAt = q[Len(q)], !.end = line]
      ELSE [a EXCEPT !.bofAt = q[Len(q)], !.begin = line]

Loaded(a) == IF a.cache[a.pos] # Nil THEN GetBuffer(a) ELSE a

StoreAt(a, q, dir, f, first, blockPos) ==
  Loaded(MarkedEnd(Filled(a, q, dir, first, blockPos), q, dir, first, f))

StoreInRoom(a, q, dir, f, blockPos, empty) ==
  StoreAt(a, q, dir, f, FixCachePointer(a.pos + (IF empty THEN 0 ELSE dir)), blockPos)

StorePage(a, q, dir, f, blockPos) ==
  StoreInRoom(IF dir = 1 THEN MakeRoomForward(a, f) ELSE MakeRoomBackward(a, f),
              q, dir, f, blockPos, a.begin = a.end /\ a.end = 0)

(* FirstFetch on the cache GoTop and GoBottom have just emptied. *)
FirstFetch(a, q, dir) ==
  IF q # <<>>
    THEN StorePage([a EXCEPT !.eof = FALSE, !.bof = FALSE], AtMost(q, FetchSize + 1),
                   dir, FetchSize,
                   IF dir = 1 THEN 1 ELSE Lines)
  ELSE IF dir = 1 THEN CleanBuffer([a EXCEPT !.eofAt = a.recno])
  ELSE [a EXCEPT !.bof = TRUE, !.bofAt = a.recno]

(***************************************************************************)
(* ReadPage: the rows from the current record on, in its direction.  The    *)
(* first one is the current record and is dropped, except after a delete    *)
(* that removed it.                                                         *)
(***************************************************************************)
PageOf(t, a, dir) ==
  LET n == Width(a.order)
      k == KeyOf(a.order, a.key)
  IN  IF dir = 1
        THEN Ascending(a.order, {r \in t : WhereMajor(n, k, KeyOf(a.order, r))})
        ELSE Descending(a.order, {r \in t : WhereMinor(n, k, KeyOf(a.order, r))})

PageRead(a, q, dir, f) ==
  IF q # <<>> THEN StorePage(a, q, dir, f, FixCachePointer(a.pos + dir))
  ELSE IF dir = 1 THEN CleanBuffer([a EXCEPT !.eofAt = a.recno])
  ELSE [a EXCEPT !.bofAt = a.recno]

RowsRead(a, found, dir, f) ==
  LET drop == ~(a.wasdel /\ ~UseDeleteds)
  IN  IF drop /\ found = <<>> THEN a
      ELSE PageRead(a, AtMost(IF drop THEN Tail(found) ELSE found, f + 1), dir, f)

ReadPage(t, a, dir, f) == RowsRead(a, PageOf(t, a, dir), dir, f)

-----------------------------------------------------------------------------
EmptyCache(a) == [a EXCEPT !.pos = 0, !.begin = 0, !.end = 0]

Forgotten(a) == [a EXCEPT !.eofAt = 0, !.bofAt = 0]

(* Cache line 1 is the record in the buffer, and nothing else is cached. *)
OneLine(a) ==
  [a EXCEPT !.pos = 1, !.begin = 1, !.end = 1,
            !.cache[1] = [rec |-> a.key, del |-> a.isDel]]

(* SR_WORKAREA:sqlGoTo. *)
WorkAreaGoTo(t, a, r) ==
  LET cached == a.begin > 0 /\ a.bofAt > 0 /\ a.cache[a.begin].rec = r
  IN  IF r = a.recno /\ a.hot # "insert" /\ ~(a.bof /\ a.eof)
        THEN [a EXCEPT !.bof = FALSE]
      ELSE IF r = 0
        THEN [CleanBuffer(a) EXCEPT !.bof = TRUE]
      ELSE IF cached
        THEN [GetBuffer([a EXCEPT !.pos = a.begin]) EXCEPT !.eof = FALSE, !.bof = FALSE]
      ELSE IF r \in t
        THEN [GetBuffer([a EXCEPT !.pos = 1, !.begin = 1, !.end = 1, !.cache[1] = Row(r)])
                EXCEPT !.eof = FALSE, !.bof = FALSE]
      ELSE [CleanBuffer(EmptyCache(a)) EXCEPT !.bof = TRUE]

(* SR_WORKAREA:sqlGoTop and sqlGoBottom. *)
OnFirst(t, a) ==
  IF t = {} THEN [a EXCEPT !.bof = TRUE, !.eof = TRUE]
  ELSE [a EXCEPT !.bofAt = a.key, !.bof = FALSE, !.eof = FALSE, !.pos = 1]

OnLast(t, a) ==
  IF t = {} THEN [a EXCEPT !.bof = TRUE, !.eof = TRUE]
  ELSE [a EXCEPT !.eofAt = a.key, !.bof = FALSE, !.eof = FALSE, !.pos = Lines]

WorkAreaGoTop(t, a) == OnFirst(t, FirstFetch(EmptyCache(a), Ascending(a.order, t), 1))

WorkAreaGoBottom(t, a) == OnLast(t, FirstFetch(EmptyCache(a), Descending(a.order, t), -1))

(* The flags the RDD core keeps in the area follow aInfo. *)
SyncFlags(a) == [a EXCEPT !.fEof = a.eof, !.fBof = a.bof]

-----------------------------------------------------------------------------
(* sqlSkipRaw(1) of an area that is not at EOF. *)
ToEof(a) == [CleanBuffer(a) EXCEPT !.fEof = TRUE]

Found(a, p) == [SetCurrentFromCache(a, p) EXCEPT !.fBof = FALSE]

FoundOrEof(a, p) == IF p # 0 THEN Found(a, p) ELSE ToEof(a)

FoundInPage(a, previousCacheStatus) == FoundOrEof(a, SearchCache(a, 1, previousCacheStatus))

SkipRawForward(t, a, f) ==
  IF a.eofAt = a.recno THEN ToEof(a)
  ELSE LET p == SearchCache(a, 1, 1)
       IN  IF p # 0 THEN Found(a, p) ELSE FoundInPage(ReadPage(t, a, 1, f), a.pos)

(***************************************************************************)
(* sqlSkipRaw(-1) of an area that is not at EOF.  The line of a removed     *)
(* record is NIL: when nothing precedes it the record after it is shown,    *)
(* with BOF.                                                                *)
(***************************************************************************)
Removed(a) == a.pos # 0 /\ a.cache[a.pos] = Nil

AtBof(a) == [a EXCEPT !.bof = TRUE, !.fBof = TRUE]

(* One line back, over a page if the lines in use end: the area and the     *)
(* line found, 0 when there is none.                                        *)
Stepped(a, previousCacheStatus) ==
  [area |-> a, hit |-> SearchCache(a, -1, previousCacheStatus)]

(* Mutant: after a page the search starts at the current line again. *)
StepBackAgain(t, a, f) ==
  IF SearchCache(a, -1, 1) # 0 THEN Stepped(a, 1) ELSE Stepped(ReadPage(t, a, -1, f), 0)

StepBack(t, a, f) ==
  IF SearchCache(a, -1, 1) # 0 THEN Stepped(a, 1) ELSE Stepped(ReadPage(t, a, -1, f), a.pos)

(* What is shown when nothing precedes a removed record. *)
ShowFirst(a, p) == AtBof(IF p # 0 THEN SetCurrentFromCache(a, p) ELSE ToEof(a))

ShowFirstOf(a) == ShowFirst(a, SearchCache(a, 1, 1))

FirstAfterRemoved(t, a, f) ==
  ShowFirstOf(IF SearchCache(a, 1, 1) # 0 THEN a ELSE ReadPage(t, a, 1, f))

SteppedBack(t, s, removed, f) ==
  IF s.hit # 0 THEN SetCurrentFromCache(s.area, s.hit)
  ELSE IF removed THEN FirstAfterRemoved(t, s.area, f)
  ELSE AtBof(s.area)

SkipRawBackward(t, a, f) ==
  IF Removed(a) /\ a.bof THEN FirstAfterRemoved(t, a, f)
  ELSE IF a.bof THEN a
  ELSE IF ~Removed(a) /\ a.bofAt = a.recno THEN AtBof(a)
  ELSE SteppedBack(t, StepBack(t, a, f), Removed(a), f)

(***************************************************************************)
(* The loop of sqlSkipFilter under SET DELETED ON: on over marked records   *)
(* until one is shown or the table ends; at most one round per record.      *)
(***************************************************************************)
PassDeleted(t, a, dir, f) ==
  LET round[k \in 0 .. MaxRec] ==
        IF k = 0 THEN a
        ELSE LET b == round[k - 1]
             IN  IF b.fBof \/ b.fEof \/ ~b.isDel THEN b
                 ELSE IF dir = 1 THEN SkipRawForward(t, b, f) ELSE SkipRawBackward(t, b, f)
  IN  round[MaxRec]

FilteredForward(a) == IF a.fBof \/ a.fEof THEN [a EXCEPT !.fBof = FALSE] ELSE a

SkipFilterForward(t, a, f) ==
  IF SetDeleted THEN FilteredForward(PassDeleted(t, a, 1, f)) ELSE a

(* Mutant: writing a record keeps the marks. *)
WriteBufferKeepsMarks(a) ==
  LET b == [a EXCEPT !.hot = "no", !.bof = FALSE, !.eof = FALSE]
  IN  IF a.hot = "no" THEN a
      ELSE IF a.hot = "insert" THEN [OneLine(b) EXCEPT !.rcount = a.recno]
      ELSE IF a.begin = 0 /\ a.end = 0 THEN OneLine(b)
      ELSE [b EXCEPT !.cache[a.pos] = [rec |-> a.key, del |-> a.isDel]]

(* WriteBuffer of a changed or a new record; what it does to the table is   *)
(* WrittenRows.                                                             *)
WriteBuffer(a) ==
  LET b == [Forgotten(a) EXCEPT !.hot = "no", !.bof = FALSE, !.eof = FALSE]
  IN  IF a.hot = "no" THEN a
      ELSE IF a.hot = "insert" THEN [OneLine(b) EXCEPT !.rcount = a.recno]
      ELSE IF a.begin = 0 /\ a.end = 0 THEN OneLine(b)
      ELSE [b EXCEPT !.cache[a.pos] = [rec |-> a.key, del |-> a.isDel]]

(* sqlGoCold of the RDD, before a Skip: a record marked deleted is not      *)
(* written, its buffer stays hot.                                           *)
ColdBuffer(a) == IF a.isDel THEN a ELSE WriteBuffer(a)

WrittenRows == IF wa.hot = "insert" THEN rows \cup {wa.recno} ELSE rows

(* sqlGoTo and sqlGoTop of the RDD. *)
AreaGoTo(t, a, r) == SyncFlags(WorkAreaGoTo(t, [a EXCEPT !.wasdel = FALSE], r))

AreaGoTop(t, a0, f) ==
  LET a == [a0 EXCEPT !.wasdel = FALSE]
  IN  SkipFilterForward(t,
        SyncFlags(IF a.bofAt # 0 THEN WorkAreaGoTo(t, a, a.bofAt) ELSE WorkAreaGoTop(t, a)), f)

FilteredBackward(t, a, f) ==
  IF a.fBof \/ a.fEof THEN AtBof(AreaGoTop(t, [a EXCEPT !.fEof = FALSE], f)) ELSE a

SkipFilterBackward(t, a, f) ==
  IF SetDeleted THEN FilteredBackward(t, PassDeleted(t, a, -1, f), f) ELSE a

AreaGoBottom(t, a0, f) ==
  LET a == [a0 EXCEPT !.wasdel = FALSE]
  IN  SkipFilterBackward(t,
        SyncFlags(IF a.eofAt # 0 THEN WorkAreaGoTo(t, a, a.eofAt) ELSE WorkAreaGoBottom(t, a)), f)

(* sqlSkipRaw with its early returns. *)
SkipRaw(t, a, dir, f) ==
  IF a.eof /\ a.bof THEN IF dir = -1 THEN AreaGoBottom(t, a, f) ELSE SyncFlags(a)
  ELSE IF dir = 1 THEN IF a.eof THEN a ELSE SkipRawForward(t, a, f)
  ELSE IF ~a.eof \/ (a.bofAt = a.recno /\ ~Removed(a)) THEN SkipRawBackward(t, a, f)
  ELSE IF a.eofAt = a.recno /\ ~Removed(a) THEN AreaGoTo(t, a, a.eofAt)
  ELSE AreaGoBottom(t, a, f)

(* sqlSkip, with the loop of the RDD core (SUPER_SKIP). *)
Skipped(a, dir) ==
  [a EXCEPT !.fBof = @ /\ dir = -1, !.bof = a.fBof /\ dir = -1,
            !.fEof = @ /\ dir = 1, !.eof = a.fEof /\ dir = 1, !.wasdel = FALSE]

AreaSkip(t, a, n, f) ==
  LET dir == IF n > 0 THEN 1 ELSE -1
      Step(b) == IF dir = 1 THEN SkipFilterForward(t, SkipRaw(t, b, 1, f), f)
                            ELSE SkipFilterBackward(t, SkipRaw(t, b, -1, f), f)
      round[k \in 0 .. (n * dir)] ==
        IF k = 0 THEN a
        ELSE IF k > 1 /\ (round[k - 1].fBof \/ round[k - 1].fEof) THEN round[k - 1]
        ELSE Step(round[k - 1])
  IN  Skipped(round[n * dir], dir)

-----------------------------------------------------------------------------
MaxOf(S) == IF S = {} THEN 0 ELSE Max(S)

InitialArea(o) ==
  [cache |-> [i \in 1 .. Lines |-> Unfilled], pos |-> 0, begin |-> 0, end |-> 0,
   bofAt |-> 0, eofAt |-> 0, order |-> o, rcount |-> MaxOf(FirstRows),
   recno |-> 0, key |-> 0, isDel |-> FALSE, hot |-> "no", wasdel |-> FALSE,
   bof |-> FALSE, eof |-> FALSE, fBof |-> FALSE, fEof |-> FALSE]

(* The area has been opened, without or with its index; its first use       *)
(* (firstinteract) is a GoTop.                                              *)
Init ==
  /\ rows = FirstRows
  /\ deleted = FirstMarked
  /\ last = MaxOf(FirstRows)
  /\ changes = 0
  /\ \E o \in 0 .. 1 : wa = AreaGoTop(FirstRows, InitialArea(o), FetchSize)

(* An operation that first writes what is in the buffer, then moves. *)
Write == rows' = WrittenRows /\ UNCHANGED <<deleted, last>>

GoTop ==
  Write /\ \E f \in PageSizes : wa' = AreaGoTop(rows', WriteBuffer(wa), f)

GoBottom ==
  Write /\ \E f \in PageSizes : wa' = AreaGoBottom(rows', WriteBuffer(wa), f)

GoTo(r) ==
  Write /\ wa' = AreaGoTo(rows', WriteBuffer(wa), r)

Skip(n) ==
  /\ n < 0 /\ "empty" \notin Corners => ColdBuffer(wa).pos # 0
  /\ Write
  /\ \E f \in PageSizes : wa' = AreaSkip(rows', ColdBuffer(wa), n, f)

(* sqlFlush, dbCommit: the buffer is written, nothing moves. *)
GoCold ==
  /\ wa.hot # "no"
  /\ Write
  /\ wa' = WriteBuffer(wa)

(* sqlBof and sqlEof bring the flags of the area up to date. *)
Bof == wa' = [wa EXCEPT !.fBof = wa.bof] /\ UNCHANGED <<rows, deleted, last>>

Eof ==
  /\ wa.hot # "insert"
  /\ wa' = [wa EXCEPT !.fEof = wa.eof]
  /\ UNCHANGED <<rows, deleted, last>>

(* sqlAppend: a blank buffer with a new record number. *)
AppendRec ==
  /\ last < MaxRec
  /\ last' = last + 1
  /\ rows' = WrittenRows
  /\ UNCHANGED deleted
  /\ LET a == SyncFlags([WriteBuffer(wa) EXCEPT !.wasdel = FALSE])
     IN  wa' = [CleanBuffer(a) EXCEPT !.hot = "insert", !.recno = last + 1,
                                      !.key = last + 1, !.bof = TRUE]

(* sqlPutValue on the current record; what is written later is WriteBuffer. *)
PutValue ==
  /\ wa.hot = "no" /\ ~wa.eof /\ wa.recno \in rows
  /\ "marked" \notin Corners => ~wa.isDel
  /\ wa' = [wa EXCEPT !.hot = "update"]
  /\ UNCHANGED <<rows, deleted, last>>

(* sqlDeleteRec: the record is marked, or removed from the table. *)
MarkDeleted(a) ==
  [a EXCEPT !.isDel = TRUE, !.wasdel = TRUE,
            !.cache = IF a.pos > 0 THEN [a.cache EXCEPT ![a.pos].del = TRUE] ELSE a.cache]

RemoveDeleted(a) ==
  [a EXCEPT !.isDel = TRUE, !.wasdel = TRUE,
            !.eofAt = IF a.recno \in {a.eofAt, a.bofAt} THEN 0 ELSE a.eofAt,
            !.cache = IF a.pos # 0 THEN [a.cache EXCEPT ![a.pos] = Nil] ELSE a.cache]

DeleteRec ==
  LET a == WriteBuffer(wa)
  IN  /\ ~a.eof /\ a.recno \in WrittenRows /\ ~a.isDel
      /\ wa' = IF UseDeleteds THEN MarkDeleted(a) ELSE RemoveDeleted(a)
      /\ rows' = IF UseDeleteds THEN WrittenRows ELSE WrittenRows \ {a.recno}
      /\ deleted' = IF UseDeleteds THEN deleted \cup {a.recno} ELSE deleted
      /\ UNCHANGED last

(* sqlRecall. *)
Recall ==
  LET a == WriteBuffer(wa)
  IN  /\ UseDeleteds /\ ~a.eof /\ a.recno \in WrittenRows /\ a.pos # 0
      /\ rows' = WrittenRows
      /\ deleted' = deleted \ {a.recno}
      /\ wa' = [a EXCEPT !.isDel = FALSE, !.cache[a.pos].del = FALSE]
      /\ UNCHANGED last

(* sqlPack: marked records go; Refresh, then GoTop. *)
Refresh(a) ==
  IF a.eof /\ a.bof THEN EmptyCache(Forgotten(a)) ELSE OneLine(Forgotten(a))

(* Mutant: Pack forgets to take the marks away with the records. *)
PackKeepsMarks ==
  /\ UseDeleteds
  /\ rows' = WrittenRows \ deleted
  /\ \E f \in PageSizes : wa' = AreaGoTop(rows', Refresh(WriteBuffer(wa)), f)
  /\ UNCHANGED <<last, deleted>>

Pack ==
  /\ UseDeleteds
  /\ rows' = WrittenRows \ deleted
  /\ deleted' = {}
  /\ \E f \in PageSizes : wa' = AreaGoTop(rows', Refresh(WriteBuffer(wa)), f)
  /\ UNCHANGED last

(* sqlZap. *)
Zap ==
  /\ rows' = {} /\ deleted' = {}
  /\ wa' = SyncFlags([EmptyCache(Forgotten(WriteBuffer(wa)))
                        EXCEPT !.eof = TRUE, !.bof = TRUE, !.wasdel = FALSE])
  /\ UNCHANGED last

(* Mutant: a new order keeps the marks of the old one. *)
SetOrderKeepsMarks(o) ==
  LET a == [wa EXCEPT !.order = o]
  IN  /\ o # wa.order
      /\ wa' = IF o # 0 /\ ~(a.eof /\ a.bof) /\ ~a.isDel /\ a.pos > 0 THEN OneLine(a)
               ELSE EmptyCache(a)
      /\ UNCHANGED <<rows, deleted, last>>

(* sqlOrderListFocus. *)
SetOrder(o) ==
  LET a == [Forgotten(wa) EXCEPT !.order = o]
  IN  /\ o # wa.order
      /\ wa' = IF o # 0 /\ ~(a.eof /\ a.bof) /\ ~a.isDel /\ a.pos > 0 THEN OneLine(a)
               ELSE EmptyCache(a)
      /\ UNCHANGED <<rows, deleted, last>>

(* Another area of the process wrote the table and calls CheckCache here. *)
CheckCache(a) == EmptyCache(Forgotten(a))

SiblingInsert ==
  /\ "insert" \in Siblings /\ last < MaxRec
  /\ last' = last + 1
  /\ rows' = rows \cup {last + 1}
  /\ wa' = CheckCache(wa)
  /\ UNCHANGED deleted

SiblingDelete(r) ==
  /\ "delete" \in Siblings /\ UseDeleteds /\ r \in rows \ deleted
  /\ deleted' = deleted \cup {r}
  /\ wa' = CheckCache(wa)
  /\ UNCHANGED <<rows, last>>

Move ==
  \/ GoTop \/ GoBottom \/ GoCold \/ Bof \/ Eof
  \/ \E r \in Targets : GoTo(r)
  \/ \E n \in Steps : Skip(n)

Change ==
  \/ AppendRec \/ PutValue \/ DeleteRec \/ Recall \/ Pack \/ Zap
  \/ \E o \in 0 .. 1 : SetOrder(o)
  \/ SiblingInsert
  \/ \E r \in Records : SiblingDelete(r)

(***************************************************************************)
(* Three corners in which the area goes wrong are left out unless Corners   *)
(* names them: "empty" is a Skip back with no line in use (the page starts  *)
(* one line too early), "full" is a page that ends with all lines in use    *)
(* (END is not past the last line, so BEGIN does not make room), "marked"   *)
(* is an edit of a record that is marked deleted (sqlGoCold leaves its      *)
(* buffer hot, and the Skip that follows takes the edit to another record). *)
(***************************************************************************)
Corner == "full" \in Corners \/ wa'.begin # 1 \/ wa'.end # Lines

Next ==
  \/ Move /\ UNCHANGED changes /\ Corner
  \/ Change /\ changes < MaxChanges /\ changes' = changes + 1 /\ Corner

Spec == Init /\ [][Next]_vars

-----------------------------------------------------------------------------
(* The values of the variables: the marked records are records of the       *)
(* table, and the three pointers of the ring stay on its lines (0: none).   *)
LineOK(l) == l.rec \in -1 .. MaxRec /\ l.del \in BOOLEAN

TypeOK ==
  /\ rows \subseteq 1 .. last /\ deleted \subseteq rows /\ last \in 0 .. MaxRec
  /\ \A i \in 1 .. Lines : LineOK(wa.cache[i])
  /\ wa.pos \in 0 .. Lines /\ wa.begin \in 0 .. Lines /\ wa.end \in 0 .. Lines
  /\ wa.recno \in 0 .. MaxRec + 1 /\ wa.key \in 0 .. MaxRec /\ wa.rcount \in 0 .. MaxRec
  /\ wa.bofAt \in 0 .. MaxRec + 1 /\ wa.eofAt \in 0 .. MaxRec + 1

Shown(t) == IF SetDeleted THEN t \ deleted ELSE t

After(o, r, S)  == {s \in S : Before(o, r, s)}
Preceding(o, r, S) == {s \in S : Before(o, s, r)}
FirstOf(o, S) == CHOOSE r \in S : \A s \in S \ {r} : Before(o, r, s)
LastOf(o, S)  == CHOOSE r \in S : \A s \in S \ {r} : Before(o, s, r)

(* The lines in use, from NCACHEBEGIN (0) to NCACHEEND, but for the NIL ones. *)
Nth(a, k) == a.cache[FixCachePointer(a.begin + k)]

InUse(a) ==
  LET n == IF a.begin <= a.end THEN a.end - a.begin ELSE a.end + Lines - a.begin
  IN  IF a.begin = 0 THEN {} ELSE {k \in 0 .. n : Nth(a, k) # Nil}

Follows(o, r, s, S) == Before(o, r, s) /\ \A x \in S : ~(Before(o, r, x) /\ Before(o, x, s))

(***************************************************************************)
(* The lines in use are a stretch of the table: they hold, in the active    *)
(* order, records that follow each other with none between them, however    *)
(* the pages wrapped around the ring; and the current record is the line    *)
(* NPOSCACHE, one of them.                                                  *)
(***************************************************************************)
CacheIsAStretch ==
  LET used == InUse(wa)
  IN  ~wa.eof =>
        /\ \A k \in used : Nth(wa, k).rec \in rows
        /\ \A k, l \in used :
             k < l /\ (k + 1) .. (l - 1) \cap used = {} =>
               Follows(wa.order, Nth(wa, k).rec, Nth(wa, l).rec, rows)
        /\ wa.begin # 0 => InRange(wa, wa.pos)
        /\ wa.begin # 0 /\ ~Removed(wa) => wa.cache[wa.pos] = [rec |-> wa.recno, del |-> wa.isDel]

(***************************************************************************)
(* The marks are the ends of the table: BOF_AT, when set, is its first      *)
(* record in the active order and EOF_AT its last, whatever was written,    *)
(* marked or reordered since the page that set them was read.               *)
(***************************************************************************)
MarksAreEnds ==
  rows # {} =>
    /\ wa.bofAt # 0 => wa.bofAt = FirstOf(wa.order, rows)
    /\ wa.eofAt # 0 => wa.eofAt = LastOf(wa.order, rows)

At(a, r) == a.recno = r /\ a.key = r /\ ~a.eof
AtEnd(a) == a.eof /\ a.key = 0

(* The flags of the area are those of aInfo and RCOUNT is not stale. *)
Sure(a) == a.fBof = a.bof /\ a.fEof = a.eof /\ a.rcount >= MaxOf(rows)

(***************************************************************************)
(* SKIP goes to the record that follows in the active order among those     *)
(* shown, whether it comes from the lines, from a page just read around the *)
(* end of the ring or over marked records; past the last one it is EOF.     *)
(***************************************************************************)
SkipForwardIsRight ==
  [][ LET a == ColdBuffer(wa)
          S == After(a.order, a.key, Shown(rows'))
          right == IF a.eof THEN wa'.recno = a.recno
                   ELSE IF S = {} THEN AtEnd(wa')
                   ELSE At(wa', FirstOf(a.order, S))
      IN  right \/ ~Sure(a) \/ ~Skip(1)]_vars

(***************************************************************************)
(* SKIP -1 goes to the record that precedes; from the first one it stays    *)
(* there with BOF.                                                          *)
(***************************************************************************)
SkipBackwardIsRight ==
  [][ LET a == ColdBuffer(wa)
          S == Preceding(a.order, a.key, Shown(rows'))
          right == IF S = {}
                     THEN wa'.bof /\ (Shown(rows') # {} => At(wa', FirstOf(a.order, Shown(rows'))))
                     ELSE At(wa', LastOf(a.order, S))
      IN  right \/ ~Sure(a) \/ a.key = 0 \/ a.eof \/ a.bof \/ ~Skip(-1)]_vars

(***************************************************************************)
(* GO TOP and GO BOTTOM show the first and the last record that SET DELETED *)
(* lets through, also when a mark answers them without a SELECT; with none  *)
(* to show they end at EOF.                                                 *)
(***************************************************************************)
EndsAreRight ==
  [][ LET a == WriteBuffer(wa)
          S == Shown(rows')
          End(r) == IF S = {} THEN wa'.eof ELSE At(wa', r)
      IN  Sure(a) => /\ End(FirstOf(a.order, S)) \/ ~GoTop
                     /\ End(LastOf(a.order, S)) \/ ~GoBottom]_vars
=============================================================================
