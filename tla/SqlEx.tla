------------------------------- MODULE SqlEx --------------------------------
(***************************************************************************)
(* One work area of SQLEX, the RDD that moves and writes with prepared ODBC *)
(* statements (source/sqlex1.cpp, sqlex2.cpp, sqlex3.cpp).                  *)
(*                                                                         *)
(* The area walks along recordList, the record numbers of a stretch of the  *)
(* table in the direction of the last move; lBofAt and lEofAt remember the  *)
(* ends of the table; hBufferPool keeps the contents of records read        *)
(* before.  Off the list, a prepared SELECT reads the next stretch: all     *)
(* records from the first index column of the current one on, in which the  *)
(* current record is looked for and what follows it becomes the new list.   *)
(* A REPLACE only changes aBuffer; the next move writes it (GoCold) with a  *)
(* prepared UPDATE that is kept as long as the edited columns look alike.   *)
(*                                                                         *)
(* A record has two columns: "k", the first column of the index (the second *)
(* is the record number), and "v".  Left out: tables without the deleted    *)
(* column (a DELETE always marks), an empty table, historic tables, filters,*)
(* scopes, relations, descending orders, the list of columns a SELECT names,*)
(* ODBC errors, and index columns that are NULL, for which                  *)
(* FeedCurrentRecordToBindings prepares the SELECTs again (sqlex1.cpp 969). *)
(***************************************************************************)
EXTENDS Integers, Sequences, FiniteSets, FiniteSetsExt

CONSTANTS
  ListSize,     \* RECORD_LIST_SIZE (250)
  TopSize,      \* RECORD_LIST_SIZE / 10, the list GoTop and GoBottom read
  PageReadSize, \* s_pageReadSize: records whose contents one SELECT reads
  PoolSize,     \* s_bufferPoolSize
  Limited,      \* the database cuts a result set (not Oracle)
  MaxRec,       \* bound: record numbers are 1 .. MaxRec
  FirstKeys,    \* column "k" of the records of the table at the start
  FirstMarked,  \* the ones of them that carry the deleted mark
  Values,       \* bound: what a column is replaced with
  EditSets,     \* the sets of columns the program replaces before a move
  EditAtEof,    \* TRUE: the program also replaces columns at EOF
  SetDeleted,   \* SET DELETED ON
  Others,       \* TRUE: other users of the database insert records
  Targets,      \* bound: the record numbers GoTo is called with
  Steps,        \* bound: the distances Skip is called with
  MaxChanges    \* bound: changes of the table or of the order

Columns == {"k", "v"}

ASSUME SqlExAssumption ==
  /\ ListSize \in Nat \ {0} /\ TopSize \in 1 .. ListSize
  /\ PageReadSize \in Nat \ {0} /\ PoolSize \in Nat
  /\ MaxRec \in Nat /\ DOMAIN FirstKeys \subseteq 1 .. MaxRec /\ DOMAIN FirstKeys # {}
  /\ FirstKeys \in [DOMAIN FirstKeys -> Int] /\ Values \subseteq Int
  /\ FirstMarked \subseteq DOMAIN FirstKeys
  /\ EditSets \subseteq SUBSET Columns
  /\ {Limited, SetDeleted, EditAtEof, Others} \subseteq BOOLEAN
  /\ Targets \subseteq 0 .. MaxRec /\ Steps \subseteq Int \ {0} /\ MaxChanges \in Nat

VARIABLES
  table,   \* row: the contents of each record; marked: the deleted ones
  wa,      \* the work area, a record of the fields of NewArea
  changes  \* changes so far, for the bound

vars == <<table, wa, changes>>

Blank == [c \in Columns |-> 0]
Rows(t) == DOMAIN t.row
Entry(t, r) == [rec |-> r, del |-> r \in t.marked]

-----------------------------------------------------------------------------
(* The orders: 0 is the record number, 1 the column "k" with the record     *)
(* number.  ORDER BY, ascending (d = 1) or descending (d = -1).             *)
Before(t, o, r, s) ==
  IF o = 0 \/ t.row[r]["k"] = t.row[s]["k"] THEN r < s
  ELSE t.row[r]["k"] < t.row[s]["k"]

SR_getOrderByExpression(t, o, d, S) ==
  LET Ahead(r) == {s \in S : IF d = 1 THEN Before(t, o, s, r) ELSE Before(t, o, r, s)}
  IN  [i \in 1 .. Cardinality(S) |-> CHOOSE r \in S : Cardinality(Ahead(r)) = i - 1]

AtMost(q, n) == IF Len(q) <= n THEN q ELSE SubSeq(q, 1, n)

-----------------------------------------------------------------------------
Current(a) == a.list[a.pos].rec

SR_GetCurrentRecordNum(a) == IF a.insert \/ a.eof THEN a.lastRec ELSE Current(a)

sqlGetCleanBuffer(a) ==
  [a EXCEPT !.buf = Blank, !.lastRec = a.rcount + 1, !.eof = TRUE]

(* Mutant: the pool is never emptied. *)
RoomInPoolNever(a) == a.pool

(* The pool is emptied when it is over its size, before a page is added. *)
RoomInPool(a) ==
  IF Cardinality(DOMAIN a.pool) > PoolSize THEN [r \in {} |-> Blank] ELSE a.pool

(***************************************************************************)
(* updateRecordBuffer: the contents of the current record come from the     *)
(* pool, or from a SELECT of the next PageReadSize records of the list,     *)
(* which all go to the pool.  bUpdateDeleted asks for the SELECT.  It fails *)
(* when the SELECT returns nothing.                                         *)
(***************************************************************************)
Page(t, a) ==
  Rows(t) \cap {a.list[i].rec : i \in a.pos .. Min({Len(a.list), a.pos + PageReadSize - 1})}

PageRead(t, a, read, kept) ==
  LET r == Current(a)
  IN  [a EXCEPT
         !.pool = [x \in DOMAIN kept \cup read |-> IF x \in read THEN t.row[x] ELSE kept[x]],
         !.buf  = IF r \in read THEN t.row[r] ELSE a.buf,
         !.list[a.pos].del = IF r \in read THEN r \in t.marked ELSE @]

updateRecordBuffer(t, a, bUpdateDeleted) ==
  IF ~bUpdateDeleted /\ Current(a) \in DOMAIN a.pool
    THEN [a EXCEPT !.buf = a.pool[Current(a)]]
    ELSE PageRead(t, a, Page(t, a), RoomInPool(a))

-----------------------------------------------------------------------------
(* getRecordList: the first TopSize records from an end of the table.  A    *)
(* shorter list holds the other end as its last record.                     *)
ListOf(t, q) == [i \in 1 .. Len(q) |-> Entry(t, q[i])]

ListFromEnd(t, a, d, q) ==
  LET short == Len(q) < TopSize
  IN  [a EXCEPT !.dir = d, !.cond = FALSE, !.pos = 1, !.list = ListOf(t, q),
                !.eofAt = IF d = 1 /\ short THEN q[Len(q)] ELSE @,
                !.bofAt = IF d = -1 /\ short THEN q[Len(q)] ELSE @]

getRecordList(t, a, d) ==
  ListFromEnd(t, a, d, AtMost(SR_getOrderByExpression(t, a.order, d, Rows(t)), TopSize))

sqlExGoTo(t, a, recno) ==
  LET at == {i \in 1 .. Len(a.list) :
               /\ a.list[i].rec = recno
               /\ recno \in DOMAIN a.pool \/ Page(t, [a EXCEPT !.pos = i]) # {}}
      on(b) == [b EXCEPT !.eof = FALSE, !.bof = FALSE]
      one == [a EXCEPT !.list = <<[a.list[1] EXCEPT !.rec = recno]>>, !.dir = 1, !.pos = 1]
  IN  IF recno = 0 THEN [sqlGetCleanBuffer(a) EXCEPT !.bof = TRUE]
      ELSE IF at # {} THEN on(updateRecordBuffer(t, [a EXCEPT !.pos = Min(at)], FALSE))
      ELSE IF recno \in Rows(t) THEN on(updateRecordBuffer(t, one, TRUE))
      ELSE [sqlGetCleanBuffer([one EXCEPT !.pool = RoomInPool(a)]) EXCEPT !.bof = TRUE]

-----------------------------------------------------------------------------
(* trySkippingOnCache: one step along the list, or one past its end when    *)
(* that end is known to be the end of the table.                            *)
OnCache(a, d) ==
  \/ a.pos + d * a.dir \in 1 .. Len(a.list)
  \/ d = 1 /\ Current(a) = a.eofAt
  \/ d = -1 /\ Current(a) = a.bofAt

trySkippingOnCache(t, a, d) ==
  LET to == a.pos + d * a.dir
  IN  IF to \in 1 .. Len(a.list) THEN updateRecordBuffer(t, [a EXCEPT !.pos = to], FALSE)
      ELSE IF d = 1 THEN sqlGetCleanBuffer(a)
      ELSE [a EXCEPT !.bof = TRUE]

(* CreateSkipStmt: the statements of the order are dropped and the one of   *)
(* this direction prepared again when anything has changed.  So there is at *)
(* most one; prepared is its direction, or 0.                               *)
CreateSkipStmt(a) ==
  IF a.changed \/ a.cond \/ a.prepared # a.dir
    THEN [a EXCEPT !.bofAt = 0, !.eofAt = 0, !.changed = FALSE, !.cond = FALSE,
                   !.prepared = a.dir]
  ELSE a

(***************************************************************************)
(* The rows of the statement of index level 1, the one that is executed at  *)
(* every level: from the first column of the current record on.             *)
(***************************************************************************)
SkipRows(t, a) ==
  LET n == SR_GetCurrentRecordNum(a)
      AtOrPast(x, y) == IF a.dir = 1 THEN x >= y ELSE x <= y
      S == {r \in Rows(t) : IF a.order = 0 THEN AtOrPast(r, n)
                            ELSE AtOrPast(t.row[r]["k"], a.buf["k"])}
      q == SR_getOrderByExpression(t, a.order, a.dir, S)
  IN  IF Limited THEN AtMost(q, ListSize + 1) ELSE q

(* Mutant: the current record stays in the list. *)
FollowingWithCurrent(q, r) ==
  IF \E i \in 1 .. Len(q) : q[i] = r
    THEN SubSeq(q, CHOOSE i \in 1 .. Len(q) : q[i] = r, Len(q))
    ELSE <<>>

(* The rows after the current one: the fetch loop of getPreparedRecordList. *)
Following(q, r) ==
  IF \E i \in 1 .. Len(q) : q[i] = r
    THEN SubSeq(q, (CHOOSE i \in 1 .. Len(q) : q[i] = r) + 1, Len(q))
    ELSE <<>>

(***************************************************************************)
(* getPreparedRecordList under the loop over the index levels.  A result    *)
(* set without the current record is SR_HB_RETRY; a list that ended early   *)
(* marks the end of the table, at level 1 only: with two index columns      *)
(* level 1 is reached when nothing follows.                                 *)
(***************************************************************************)
NewList(t, a, new) ==
  LET mark == IF new = <<>> THEN Current(a) ELSE new[Len(new)]
      ended == Len(new) < ListSize /\ (a.order = 0 \/ new = <<>>)
  IN  [a EXCEPT !.eofAt = IF ended /\ a.dir = 1 THEN mark ELSE @,
                !.bofAt = IF ended /\ a.dir = -1 THEN mark ELSE @,
                !.res   = IF new = <<>> THEN "none" ELSE "ok",
                !.pos   = IF new = <<>> THEN @ ELSE 1,
                !.list  = IF new = <<>> THEN @ ELSE ListOf(t, new)]

ListAfter(t, a, q) ==
  IF \A i \in 1 .. Len(q) : q[i] # a.cur THEN [a EXCEPT !.res = "retry"]
  ELSE NewList(t, a, AtMost(Following(q, a.cur), ListSize))

getPreparedRecordList(t, a) == ListAfter(t, a, SkipRows(t, a))

-----------------------------------------------------------------------------
(***************************************************************************)
(* SkipRaw, SkipFilter, GoTop and GoBottom call each other.  Forward, a raw *)
(* skip calls none of them, and the filter of GoTop goes forward.           *)
(***************************************************************************)
sqlExDeleted(a) == ~a.insert /\ ~a.eof /\ a.list[a.pos].del

OnFirst(a) ==
  [a EXCEPT !.bottom = FALSE, !.eof = FALSE, !.bof = FALSE, !.bofAt = Current(a)]

OnLast(a) ==
  [a EXCEPT !.bottom = TRUE, !.eof = FALSE, !.bof = FALSE, !.eofAt = Current(a)]

(* GoTop and GoBottom before their filters.                                 *)
FirstRecord(t, a) ==
  LET b == IF a.bofAt # 0 THEN sqlExGoTo(t, a, a.bofAt) ELSE getRecordList(t, a, 1)
  IN  updateRecordBuffer(t, OnFirst(b), FALSE)

LastRecord(t, a) ==
  LET b == IF a.eofAt # 0 THEN sqlExGoTo(t, a, a.eofAt) ELSE getRecordList(t, a, -1)
  IN  updateRecordBuffer(t, OnLast(b), FALSE)

(* A skip off the list reads a new one.                                     *)
SkipOffList(t, a, d) == getPreparedRecordList(t, CreateSkipStmt([a EXCEPT !.dir = d]))

ReadForward(t, a) ==
  IF a.res = "ok" THEN updateRecordBuffer(t, a, FALSE) ELSE sqlGetCleanBuffer(a)

SkipRawForward(t, a) ==
  IF OnCache(a, 1) THEN trySkippingOnCache(t, a, 1) ELSE ReadForward(t, SkipOffList(t, a, 1))

(***************************************************************************)
(* The loop of sqlExSkipFilter: raw skips until a record is shown.  Depth   *)
(* bounds its rounds: a filter that needs more of them is "endless".        *)
(***************************************************************************)
Depth == 2 * MaxRec + 4

Passing(a) == SetDeleted /\ ~a.bof /\ ~a.eof /\ sqlExDeleted(a) /\ a.res # "endless"

Passed(a) == IF Passing(a) THEN [a EXCEPT !.res = "endless"] ELSE a

PassForward(t, a) ==
  LET round[k \in 0 .. Depth] ==
        IF k = 0 THEN a
        ELSE LET b == round[k - 1] IN IF Passing(b) THEN SkipRawForward(t, b) ELSE b
  IN  Passed(round[Depth])

sqlExGoTop(t, a) == PassForward(t, FirstRecord(t, a))

(***************************************************************************)
(* Back, a raw skip from the phantom record calls GoBottom.  When the last  *)
(* record is marked its filter makes a raw skip, lCurrentRecord is still    *)
(* lLastRec, and GoBottom is called again, until the stack ends.            *)
(***************************************************************************)
RawToBottom(t, a) == Passed(LastRecord(t, a))

AtFirst(a) == [a EXCEPT !.bof = TRUE, !.bofAt = Current(a)]

(* A result set without the current record (SR_HB_RETRY) leads to GoTop.    *)
ReadBackward(t, a) ==
  IF a.res = "ok" THEN updateRecordBuffer(t, a, FALSE)
  ELSE AtFirst(IF a.res = "retry" THEN sqlExGoTop(t, a) ELSE a)

SkipRawBackward(t, a) ==
  IF a.cur = a.lastRec THEN RawToBottom(t, a)
  ELSE IF OnCache(a, -1) THEN trySkippingOnCache(t, a, -1)
  ELSE ReadBackward(t, SkipOffList(t, a, -1))

PassBackward(t, a) ==
  LET round[k \in 0 .. Depth] ==
        IF k = 0 THEN a
        ELSE LET b == round[k - 1] IN IF Passing(b) THEN SkipRawBackward(t, b) ELSE b
  IN  Passed(round[Depth])

(* The filter from a has gone back to b.                                    *)
FilteredBack(t, b, bottom) ==
  IF ~SetDeleted \/ ~b.bof THEN b
  ELSE IF bottom THEN sqlExGoTo(t, b, 0)
  ELSE [sqlExGoTop(t, b) EXCEPT !.bof = TRUE]

SkipFilterBackward(t, a) == FilteredBack(t, PassBackward(t, a), a.bottom)

sqlExGoBottom(t, a) == SkipFilterBackward(t, LastRecord(t, a))

sqlExSkipRaw(t, a, d) == IF d = 1 THEN SkipRawForward(t, a) ELSE SkipRawBackward(t, a)

sqlExSkipFilter(t, a, d) == IF d = 1 THEN PassForward(t, a) ELSE SkipFilterBackward(t, a)

-----------------------------------------------------------------------------
(* SR_ExecuteInsertStmt.  The end of file flag of the append stays. *)
SR_ExecuteInsertStmt(t, a) ==
  LET r == Max(Rows(t)) + 1
  IN  [table |-> [t EXCEPT !.row = [x \in Rows(t) \cup {r} |->
                                      IF x = r THEN a.buf ELSE t.row[x]]],
       area  |-> [a EXCEPT !.list = <<[rec |-> r, del |-> FALSE]>>, !.pos = 1,
                           !.rcount = r, !.lastRec = r + 1]]

(* Mutant: the index columns are not looked at. *)
SR_CreateUpdateStmtUntouched(a) ==
  IF a.stmt # {} /\ a.edit = a.updated THEN a
  ELSE [a EXCEPT !.stmt = a.edit, !.updated = @ \cup a.edit, !.touched = FALSE]

(***************************************************************************)
(* SR_CreateUpdateStmt, unless the edited columns are those of updatedMask: *)
(* then the prepared statement is used again.                               *)
(***************************************************************************)
SR_CreateUpdateStmt(a) ==
  IF a.stmt # {} /\ a.edit = a.updated THEN a
  ELSE [a EXCEPT !.stmt = a.edit, !.updated = @ \cup a.edit,
                 !.touched = a.order = 1 /\ "k" \in a.edit]

(* Mutant: the record in the pool keeps its old contents. *)
SR_ExecuteUpdateStmtNotInPool(t, a) ==
  LET r == Current(a)
  IN  [table |-> [t EXCEPT !.row[r] = [c \in Columns |-> IF c \in a.stmt THEN a.buf[c] ELSE @[c]]],
       area  |-> [a EXCEPT !.list = IF a.touched THEN <<[a.list[1] EXCEPT !.rec = r]>> ELSE @,
                           !.pos  = IF a.touched THEN 1 ELSE @]]

(* Mutant: the list shrinks and the position stays where it was. *)
SR_ExecuteUpdateStmtOldPos(t, a) ==
  LET r == Current(a)
  IN  [table |-> [t EXCEPT !.row[r] = [c \in Columns |-> IF c \in a.stmt THEN a.buf[c] ELSE @[c]]],
       area  |-> [a EXCEPT !.list = IF a.touched THEN <<[a.list[1] EXCEPT !.rec = r]>> ELSE @,
                           !.pool = IF r \in DOMAIN @ THEN [@ EXCEPT ![r] = a.buf] ELSE @]]

(***************************************************************************)
(* SR_ExecuteUpdateStmt.  When an index column was written the list shrinks *)
(* to the current record, with the deleted flag of the first one.           *)
(***************************************************************************)
SR_ExecuteUpdateStmt(t, a) ==
  LET r == Current(a)
  IN  [table |-> [t EXCEPT !.row[r] = [c \in Columns |-> IF c \in a.stmt THEN a.buf[c] ELSE @[c]]],
       area  |-> [a EXCEPT !.list = IF a.touched THEN <<[a.list[1] EXCEPT !.rec = r]>> ELSE @,
                           !.pos  = IF a.touched THEN 1 ELSE @,
                           !.pool = IF r \in DOMAIN @ THEN [@ EXCEPT ![r] = a.buf] ELSE @]]

sqlExGoCold(t, a) ==
  LET w == IF ~a.hot THEN [table |-> t, area |-> a]
           ELSE IF a.insert THEN SR_ExecuteInsertStmt(t, a)
           ELSE IF ~a.eof THEN SR_ExecuteUpdateStmt(t, SR_CreateUpdateStmt(a))
           ELSE [table |-> t, area |-> a]
  IN  [w EXCEPT !.area.hot = FALSE, !.area.insert = FALSE, !.area.edit = {}]

-----------------------------------------------------------------------------
(* sqlExNewArea and the first move. *)
FirstTable ==
  [row |-> [r \in DOMAIN FirstKeys |-> [c \in Columns |-> IF c = "k" THEN FirstKeys[r] ELSE 0]],
   marked |-> FirstMarked]

NewArea(o) ==
  [list |-> <<[rec |-> 0, del |-> FALSE]>>, pos |-> 1, dir |-> 1, bofAt |-> 0, eofAt |-> 0,
   cur |-> 0, lastRec |-> 0, bof |-> FALSE, eof |-> FALSE, bottom |-> FALSE,
   insert |-> FALSE, hot |-> FALSE, edit |-> {}, updated |-> {}, stmt |-> {}, touched |-> FALSE,
   order |-> o, changed |-> TRUE, cond |-> FALSE, prepared |-> 0,
   pool |-> [r \in {} |-> Blank], buf |-> Blank,
   rcount |-> Max(DOMAIN FirstKeys), res |-> "none"]

Init ==
  /\ table = FirstTable
  /\ \E o \in 0 .. 1 : wa = sqlExGoTop(FirstTable, NewArea(o))
  /\ changes = 0

Ready == wa.res # "endless"

(***************************************************************************)
(* The area between two calls.  What the next call sets before it reads it  *)
(* is not kept: fBottom, the result of the last statement unless it failed, *)
(* and lCurrentRecord, which only a SkipRaw under SET DELETED ON reads      *)
(* without the Skip that sets it.                                           *)
(***************************************************************************)
Settled(a) ==
  [a EXCEPT !.bottom = FALSE, !.cur = IF SetDeleted THEN @ ELSE 0,
            !.res = IF @ \in {"retry", "endless"} THEN @ ELSE "none"]

GoTop ==
  LET w == sqlExGoCold(table, wa)
  IN  /\ Ready /\ table' = w.table
      /\ wa' = Settled(sqlExGoTop(w.table, w.area))

GoBottom ==
  LET w == sqlExGoCold(table, wa)
  IN  /\ Ready /\ table' = w.table
      /\ wa' = Settled(sqlExGoBottom(w.table, w.area))

GoTo(r) ==
  LET w == sqlExGoCold(table, wa)
  IN  /\ Ready /\ table' = w.table
      /\ wa' = sqlExGoTo(w.table, w.area, r)

(***************************************************************************)
(* sqlExSkip.  lCurrentRecord is taken once, and the flags are cleared,     *)
(* before the first SkipRaw writes the buffer.                              *)
(***************************************************************************)
Skip(n) ==
  LET d == IF n > 0 THEN 1 ELSE -1
      w == sqlExGoCold(table, [wa EXCEPT !.cur = SR_GetCurrentRecordNum(wa),
                                         !.bottom = FALSE, !.bof = FALSE, !.eof = FALSE,
                                         !.res = "none"])
      step[k \in 0 .. d * n] ==
        IF k = 0 THEN w.area
        ELSE LET b == step[k - 1]
             IN  IF k > 1 /\ (b.bof \/ b.eof) THEN b
                 ELSE sqlExSkipFilter(w.table, sqlExSkipRaw(w.table, b, d), d)
      a == step[d * n]
  IN  /\ Ready /\ table' = w.table
      /\ wa' = Settled(IF d = 1 THEN [a EXCEPT !.bof = FALSE] ELSE [a EXCEPT !.eof = FALSE])

(* SR_getPreparedSeek: the first record at or past the key (the last one at *)
(* or before it for bFindLast) becomes the list.                            *)
SeekRows(t, d, x) ==
  SR_getOrderByExpression(t, 1, d,
    {r \in Rows(t) : IF d = 1 THEN t.row[r]["k"] >= x ELSE t.row[r]["k"] <= x})

Sought(t, a, soft, x, r) ==
  LET b == [a EXCEPT !.list = <<Entry(t, r)>>, !.pos = 1, !.buf = t.row[r]]
  IN  IF t.row[r]["k"] = x THEN [b EXCEPT !.bof = FALSE]
      ELSE IF soft THEN b ELSE sqlGetCleanBuffer(b)

StillSought(a, soft, x) ==
  IF a.eof \/ a.buf["k"] = x \/ soft THEN a ELSE sqlGetCleanBuffer(a)

SeekShown(t, a, soft, x, d) ==
  IF ~SetDeleted \/ a.eof THEN a ELSE StillSought(sqlExSkipFilter(t, a, d), soft, x)

sqlExSeek(t, a, soft, x, d) ==
  LET b == [a EXCEPT !.dir = d, !.cond = TRUE, !.changed = FALSE]
      q == SeekRows(t, d, x)
  IN  IF q = <<>> THEN sqlGetCleanBuffer(b)
      ELSE SeekShown(t, Sought(t, b, soft, x, q[1]), soft, x, d)

Seek(soft, x, d) ==
  LET w == sqlExGoCold(table, [wa EXCEPT !.bottom = FALSE, !.eof = FALSE])
  IN  /\ Ready /\ wa.order = 1
      /\ table' = w.table
      /\ wa' = Settled(sqlExSeek(w.table, w.area, soft, x, d))

sqlExFlush ==
  LET w == sqlExGoCold(table, wa)
  IN  Ready /\ wa.hot /\ table' = w.table /\ wa' = w.area

sqlExRecCount ==
  /\ Ready
  /\ wa' = [wa EXCEPT !.lastRec = wa.rcount + (IF wa.insert /\ wa.hot THEN 2 ELSE 1)]
  /\ UNCHANGED table

-----------------------------------------------------------------------------
sqlExAppend ==
  LET w == sqlExGoCold(table, wa)
  IN  /\ Ready /\ Max(Rows(w.table)) < MaxRec
      /\ table' = w.table
      /\ wa' = sqlGetCleanBuffer([w.area EXCEPT !.hot = TRUE, !.insert = TRUE])

sqlExPutValue(c, x) ==
  /\ Ready
  /\ wa.insert \/ (wa.edit \cup {c} \in EditSets /\ (EditAtEof \/ ~wa.eof))
  /\ wa' = [wa EXCEPT !.buf[c] = x, !.edit = @ \cup {c}, !.hot = TRUE]
  /\ UNCHANGED table

sqlExDeleteRec ==
  LET w == sqlExGoCold(table, wa)
      a == w.area
  IN  /\ Ready
      /\ table' = IF ~sqlExDeleted(a) /\ ~a.eof
                    THEN [w.table EXCEPT !.marked = @ \cup ({SR_GetCurrentRecordNum(a)} \cap Rows(w.table))]
                    ELSE w.table
      /\ wa' = [a EXCEPT !.list[a.pos].del = TRUE,
                         !.eofAt = IF @ = Current(a) THEN 0 ELSE @,
                         !.bofAt = IF @ = Current(a) THEN 0 ELSE @]

sqlExRecall ==
  LET w == sqlExGoCold(table, wa)
      a == w.area
  IN  /\ Ready
      /\ table' = IF sqlExDeleted(a)
                    THEN [w.table EXCEPT !.marked = @ \ {SR_GetCurrentRecordNum(a)}]
                    ELSE w.table
      /\ wa' = [a EXCEPT !.list[a.pos].del = FALSE]

(* Mutant: the marks of the old order survive the change. *)
sqlExOrderListFocusKeepsMarks(o) ==
  /\ Ready /\ o # wa.order
  /\ wa' = [wa EXCEPT !.order = o, !.changed = TRUE, !.prepared = 0]
  /\ UNCHANGED table

(* The record list of the old order stays.  The statements of an order that *)
(* was in use before are not used again, as the order has changed.          *)
sqlExOrderListFocus(o) ==
  /\ Ready /\ o # wa.order
  /\ wa' = [wa EXCEPT !.order = o, !.changed = TRUE, !.bofAt = 0, !.eofAt = 0,
                      !.prepared = 0]
  /\ UNCHANGED table

(* Another user of the database. *)
OtherInsert(x) ==
  /\ Others /\ Max(Rows(table)) + (IF wa.insert THEN 1 ELSE 0) < MaxRec
  /\ table' = SR_ExecuteInsertStmt(table, [wa EXCEPT !.buf = [Blank EXCEPT !["k"] = x]]).table
  /\ UNCHANGED wa

Move ==
  \/ GoTop \/ GoBottom \/ sqlExFlush \/ sqlExRecCount
  \/ \E r \in Targets : GoTo(r)
  \/ \E n \in Steps : Skip(n)
  \/ \E soft \in BOOLEAN, x \in Values, d \in {1, -1} : Seek(soft, x, d)

Change ==
  \/ sqlExAppend \/ sqlExDeleteRec \/ sqlExRecall
  \/ \E c \in Columns, x \in Values : sqlExPutValue(c, x)
  \/ \E o \in 0 .. 1 : sqlExOrderListFocus(o)
  \/ \E x \in Values : OtherInsert(x)

Next ==
  \/ Move /\ UNCHANGED changes
  \/ Change /\ changes < MaxChanges /\ changes' = changes + 1

Spec == Init /\ [][Next]_vars

-----------------------------------------------------------------------------
(* The values of the variables; the position is one of the list, and every  *)
(* record in the pool is one of the table.                                  *)
TypeOK ==
  /\ Rows(table) \subseteq 1 .. MaxRec /\ table.marked \subseteq Rows(table)
  /\ Len(wa.list) \in 1 .. ListSize /\ wa.pos \in 1 .. Len(wa.list)
  /\ wa.bofAt \in Rows(table) \cup {0} /\ wa.eofAt \in Rows(table) \cup {0}
  /\ DOMAIN wa.pool \subseteq Rows(table)
  /\ wa.stmt \subseteq wa.updated /\ wa.updated \subseteq Columns

(***************************************************************************)
(* The pool is bounded: it is emptied before it can pass its size by more   *)
(* than the one page a SELECT adds.                                         *)
(***************************************************************************)
PoolIsBounded == Cardinality(DOMAIN wa.pool) <= PoolSize + PageReadSize

(***************************************************************************)
(* What the area shows is what is stored: the record in aBuffer is the one  *)
(* RecNo() names, with the contents it has in the table, and so is every    *)
(* record of the pool, whatever this area has written since it was read.    *)
(***************************************************************************)
ShownIsStored ==
  /\ \A r \in DOMAIN wa.pool : wa.pool[r] = table.row[r]
  /\ ~wa.hot /\ ~wa.eof => Current(wa) \in Rows(table) /\ wa.buf = table.row[Current(wa)]

After(t, o, r)     == {s \in Rows(t) : Before(t, o, r, s)}
Preceding(t, o, r) == {s \in Rows(t) : Before(t, o, s, r)}
FirstOf(t, o, S) == CHOOSE r \in S : \A s \in S \ {r} : Before(t, o, r, s)
LastOf(t, o, S)  == CHOOSE r \in S : \A s \in S \ {r} : Before(t, o, s, r)

(* The list is a stretch of the table in the order and direction of the     *)
(* area.                                                                    *)
Stretch(t, a) ==
  /\ \A i \in 1 .. Len(a.list) : a.list[i].rec \in Rows(t)
  /\ \A i \in 1 .. Len(a.list) - 1 :
       LET r == a.list[i].rec
           S == IF a.dir = 1 THEN After(t, a.order, r) ELSE Preceding(t, a.order, r)
       IN  S # {} /\ a.list[i + 1].rec = (IF a.dir = 1 THEN FirstOf(t, a.order, S)
                                                       ELSE LastOf(t, a.order, S))

MarksRight(t, a) ==
  /\ a.bofAt \in {0, FirstOf(t, a.order, Rows(t))}
  /\ a.eofAt \in {0, LastOf(t, a.order, Rows(t))}

(* The prepared UPDATE, if it is used again, was prepared for these columns *)
(* and for an order that they touch or not.                                 *)
StatementFits(a) ==
  a.stmt # {} /\ a.edit = a.updated
    => a.stmt = a.edit /\ a.touched = (a.order = 1 /\ "k" \in a.edit)

(* A SELECT of a list reaches past the records that share the first column  *)
(* with r.                                                                  *)
FewAlike(t, a, r) ==
  a.order = 1 /\ Limited => Cardinality({s \in Rows(t) : t.row[s]["k"] = t.row[r]["k"]}) <= ListSize

(* The area is on a record, its list is a stretch before a pending REPLACE  *)
(* is written and its marks are right after.                                *)
Sure ==
  /\ ~wa.eof /\ ~wa.insert /\ wa.lastRec \notin Rows(table)
  /\ StatementFits(wa)
  /\ Stretch(table, wa) /\ MarksRight(table', wa)
  /\ FewAlike(table', wa, Current(wa))

(***************************************************************************)
(* SKIP 1 goes to the record that follows in the order, at the place the    *)
(* current record has after a pending REPLACE of its index column, and to   *)
(* EOF only after the last one: along the list, over its end, after a       *)
(* SKIP -1, whatever was read before.                                       *)
(***************************************************************************)
SkipForwardIsRight ==
  [][ Sure /\ Skip(1)
      => LET S == After(table', wa.order, Current(wa))
         IN  /\ wa'.eof <=> S = {}
             /\ S # {} => Current(wa') = FirstOf(table', wa.order, S)
    ]_vars

(***************************************************************************)
(* SKIP -1 goes to the record before, and reports BOF only on the first one *)
(* and stays there.                                                         *)
(***************************************************************************)
SkipBackwardIsRight ==
  [][ Sure /\ Skip(-1)
      => LET S == Preceding(table', wa.order, Current(wa))
         IN  /\ wa'.bof <=> S = {}
             /\ Current(wa') = IF S = {} THEN Current(wa) ELSE LastOf(table', wa.order, S)
    ]_vars

(***************************************************************************)
(* Until a record is written, GO TOP and GO BOTTOM stand on the ends of the *)
(* table, whether they read a list or trust a mark, whatever moves, seeks   *)
(* and changes of the order came before.  (After a write lBofAt and lEofAt  *)
(* may name records that are not the ends any more.)                        *)
(***************************************************************************)
EndsAreRight ==
  [][ table'.row = FirstTable.row
      => /\ GoTop => Current(wa') = FirstOf(table', wa.order, Rows(table'))
         /\ GoBottom => Current(wa') = LastOf(table', wa.order, Rows(table'))
    ]_vars

(***************************************************************************)
(* updatedMask is what its declaration says, a copy of the mask of the      *)
(* prepared UPDATE (sqlex.h): when the edited columns equal it, the         *)
(* statement writes them.                                                   *)
(***************************************************************************)
MaskIsOfStatement ==
  wa.hot /\ ~wa.insert /\ wa.stmt # {} /\ wa.edit = wa.updated => wa.stmt = wa.edit

(***************************************************************************)
(* "Current line is always in result set if we are SKIPPING" (the comment   *)
(* of getPreparedRecordList): only a SKIP from the phantom record misses    *)
(* it.                                                                      *)
(***************************************************************************)
CurrentIsInResultSet == wa.res = "retry" => wa.cur = wa.lastRec
=============================================================================
