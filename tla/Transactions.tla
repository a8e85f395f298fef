---------------------------- MODULE Transactions ----------------------------
(***************************************************************************)
(* Record buffers, record locks and transactions of the work areas: the    *)
(* life of aLocalBuffer, aOldBuffer, aLocked and of the flags HOT and      *)
(* ISINSERT (sqlrdd1.cpp, SR_WORKAREA in sqlrdd2.prg), the commits they    *)
(* cause, nTransacCount (utils.prg) and the automatic commit               *)
(* (sqlconnection.prg), over a database with row locks that are kept until *)
(* the end of the database transaction.                                    *)
(*                                                                         *)
(* The record cache of an area matters here for what it still knows of a   *)
(* row: its lines are kept as a value per record.  Which record a move     *)
(* over the cache arrives at, which rows a page has and which lines it     *)
(* overwrites depend on an order and on the ring; that is PageCache, and   *)
(* is left open here.                                                      *)
(*                                                                         *)
(* All areas show one table with one column.  A step is one statement with *)
(* the bookkeeping around it.  Most entry points first write a HOT buffer: *)
(* they are enabled when the area is cold, and on a hot area they are      *)
(* GoCold, an entry point itself, followed by them.  sqlAppend, which      *)
(* clears aLocked before it writes, is modelled as a whole.                *)
(***************************************************************************)
EXTENDS Naturals, FiniteSets

CONSTANTS
    Clients,      \* application instances, one connection each
    Areas,        \* work areas of an instance
    Recs,         \* record numbers; some are still to be allocated
    OldRecs,      \* the records that exist at first
    Vals, Blank,  \* column values; Blank: aEmptyBuffer
    Rdbms,        \* "POSTGR": a failed statement dooms the transaction;
                  \* "ORACLE" (through ODBC): it undoes itself only
    nAutoCommit,  \* 0: no automatic commit
    MaxLocks,     \* SR_MAXIMUN_LOCKS
    OpenModes,    \* how the application opens: TRUE is SHARED
    MaxNest,      \* bound on nested SR_BeginTransaction
    DbErrors,     \* may a write fail for a reason of the database's own?
    Browses,      \* does the application move with GO TOP, SKIP, dbGoTo(0)?
                  \* FALSE: by dbGoTo to records only, which then is never
                  \* answered from a line, and no lines are kept
    Returns,      \* does it let the cache take it to a record it has locked?
    Phantom, Absent, NoChange, Free

ASSUME TxAssumption ==
    /\ OldRecs \subseteq Recs /\ Blank \in Vals /\ OpenModes \subseteq BOOLEAN
    /\ Rdbms \in {"POSTGR", "ORACLE"} /\ DbErrors \in BOOLEAN
    /\ Browses \in BOOLEAN /\ Returns \in BOOLEAN
    /\ nAutoCommit \in Nat /\ MaxLocks \in Nat /\ MaxNest \in Nat
    /\ Phantom \notin Recs /\ Free \notin Clients
    /\ Absent \notin Vals /\ NoChange \notin Vals \cup {Absent}

VARIABLES
    committed,      \* the table as everybody sees it
    work,           \* uncommitted changes of each connection
    owner,          \* row locks: FOR UPDATE, and rows that were written
    failed,         \* PQTRANS_INERROR
    used,           \* numbers the sequence of the table has given out
    wa,             \* the work areas
    nTransacCount,
    nIteractions,   \* statements since the last commit, up to nAutoCommit
    wrote           \* history: what was written since the outermost Begin

db   == << committed, work, owner, failed, nIteractions >>
tx   == << nTransacCount, wrote >>
vars == << committed, work, owner, failed, nIteractions, used, wa, nTransacCount, wrote >>

Area == [open : BOOLEAN, shared : BOOLEAN, rec : Recs \cup {Phantom},
         hot : BOOLEAN, ins : BOOLEAN, buf : Vals, old : Vals, aLocked : SUBSET Recs,
         lines : [Recs -> Vals \cup {Absent}],  \* aCache from BEGIN to END
         bofAt : BOOLEAN]                       \* BOF_AT > 0
NoLines == [r \in Recs |-> Absent]
Closed == [open |-> FALSE, shared |-> TRUE, rec |-> Phantom, hot |-> FALSE,
           ins |-> FALSE, buf |-> Blank, old |-> Blank, aLocked |-> {},
           lines |-> NoLines, bofAt |-> FALSE]
Opened(shared) == [Closed EXCEPT !.open = TRUE, !.shared = shared]
NoWork == [r \in Recs |-> NoChange]

TypeOK ==
    /\ committed \in [Recs -> Vals \cup {Absent}]
    /\ work \in [Clients -> [Recs -> Vals \cup {NoChange}]]
    /\ owner \in [Recs -> Clients \cup {Free}]
    /\ failed \in [Clients -> BOOLEAN]
    /\ used \subseteq Recs
    /\ wa \in [Clients -> [Areas -> Area]]
    /\ nTransacCount \in [Clients -> 0 .. MaxNest]
    /\ nIteractions \in [Clients -> 0 .. nAutoCommit]
    /\ wrote \in [Clients -> [Recs -> Vals \cup {NoChange}]]

Init ==
    /\ committed = [r \in Recs |-> IF r \in OldRecs THEN Blank ELSE Absent]
    /\ work = [c \in Clients |-> NoWork]
    /\ owner = [r \in Recs |-> Free]
    /\ failed = [c \in Clients |-> FALSE]
    /\ used = OldRecs
    /\ wa = [c \in Clients |-> [w \in Areas |-> Closed]]
    /\ nTransacCount = [c \in Clients |-> 0]
    /\ nIteractions = [c \in Clients |-> 0]
    /\ wrote = [c \in Clients |-> NoWork]

-----------------------------------------------------------------------------
(* The database, as SR_CONNECTION uses it.                                 *)

(* What a SELECT of the connection returns for row r (READ COMMITTED).     *)
View(c, r) == IF work[c][r] # NoChange THEN work[c][r] ELSE committed[r]

Merge(new) == [r \in Recs |-> IF new[r] # NoChange THEN new[r] ELSE committed[r]]

EndOfTransaction(c) ==
    /\ work' = [work EXCEPT ![c] = NoWork]
    /\ owner' = [r \in Recs |-> IF owner[r] = c THEN Free ELSE owner[r]]
    /\ failed' = [failed EXCEPT ![c] = FALSE]
    /\ nIteractions' = [nIteractions EXCEPT ![c] = 0]

(* oCnn:Commit(): a doomed PostgreSQL transaction is rolled back instead.  *)
Commit(c) ==
    /\ committed' = IF failed[c] THEN committed ELSE Merge(work[c])
    /\ EndOfTransaction(c)

RollBack(c) == EndOfTransaction(c) /\ UNCHANGED committed

AutoCommits(c) ==
    /\ nAutoCommit > 0 /\ nIteractions[c] + 1 >= nAutoCommit
    /\ nTransacCount[c] = 0

(* Execute() of an INSERT or UPDATE that sets the rows S to v: it waits    *)
(* for row locks, and may be followed by the automatic commit.             *)
Modify(c, S, v) ==
    LET new == [r \in Recs |-> IF r \in S THEN v ELSE work[c][r]] IN
    /\ ~failed[c] /\ \A r \in S : owner[r] \in {Free, c}
    /\ wrote' = [wrote EXCEPT ![c] = IF nTransacCount[c] = 0 THEN NoWork
                                     ELSE [r \in Recs |-> IF r \in S THEN v ELSE @[r]]]
    /\ \/ /\ AutoCommits(c)
          /\ committed' = Merge(new)
          /\ EndOfTransaction(c)
       \/ /\ ~AutoCommits(c)
          /\ work' = [work EXCEPT ![c] = new]
          /\ owner' = [r \in Recs |-> IF r \in S THEN c ELSE owner[r]]
          /\ nIteractions' = [nIteractions EXCEPT ![c] = IF @ < nAutoCommit THEN @ + 1 ELSE @]
          /\ UNCHANGED << committed, failed >>

-----------------------------------------------------------------------------
(* The record buffers and the lines of the cache.                          *)

Cached(a) == {r \in Recs : a.lines[r] # Absent}

(* The line of record r gets value v.                                      *)
WithLine(lines, r, v) ==
    IF Browses THEN [x \in Recs |-> IF x = r THEN v ELSE lines[x]] ELSE lines

OneLine(r, v) == WithLine(NoLines, r, v)

(* GetBuffer, setCurrentFromCache: a line becomes both buffers.            *)
Shown(a, r) == [a EXCEPT !.rec = r, !.buf = a.lines[r], !.old = a.lines[r]]

(* GetBuffer(.T.), sqlGetCleanBuffer: the phantom; the lines stay.         *)
CleanBuffer(a) == [a EXCEPT !.rec = Phantom, !.buf = Blank, !.old = Blank]

(* The row of one record is read: its line is the only one.                *)
RowShown(a, r, v) == [a EXCEPT !.rec = r, !.buf = v, !.old = v, !.lines = OneLine(r, v)]

(* A page: the rows S as connection c sees them; lines it runs over go.    *)
PageRead(c, a, S, over) ==
    [a EXCEPT !.lines = [r \in Recs |-> IF r \in S THEN View(c, r)
                                       ELSE IF r \in over THEN Absent ELSE @[r]]]

-----------------------------------------------------------------------------
(* WriteBuffer                                                             *)

SetArea(c, w, a) == wa' = [wa EXCEPT ![c][w] = a]

(* Mutant of Cold: ISINSERT is not cleared.                                *)
StillInsert(a) == [a EXCEPT !.hot = FALSE, !.old = a.buf, !.bofAt = FALSE]

(* HOT, ISINSERT and BOF_AT are cleared and aOldBuffer is set first of all. *)
Cold(a) == [a EXCEPT !.hot = FALSE, !.ins = FALSE, !.old = a.buf, !.bofAt = FALSE]

(* The line of the record gets what was written.                           *)
Updated(a) == [Cold(a) EXCEPT !.lines = WithLine(@, a.rec, a.buf)]

(* "Record should remain Locked"; its line is the only one.                *)
Inserted(a, n) ==
    [Cold(a) EXCEPT !.rec = n, !.lines = OneLine(n, a.buf),
       !.aLocked = IF a.shared /\ Cardinality(@) < MaxLocks THEN @ \cup {n} ELSE @]

(* sqlAppend: a clean buffer on the phantom record, HOT and ISINSERT.      *)
Appending(a) == [a EXCEPT !.rec = Phantom, !.hot = TRUE, !.ins = TRUE,
                          !.buf = Blank, !.old = Blank]

(* CheckCache: the other areas of the connection lose their lines; those   *)
(* on record r get the new values in aLocalBuffer, but not in aOldBuffer.  *)
Synced(b, r, v) == [b EXCEPT !.buf = IF b.rec = r THEN v ELSE @,
                             !.lines = NoLines, !.bofAt = FALSE]

Sync(c, w, r, v, a) ==
    wa' = [wa EXCEPT ![c] = [x \in Areas |->
             IF x = w THEN a
             ELSE IF wa[c][x].open THEN Synced(wa[c][x], r, v)
             ELSE wa[c][x]]]

(* The buffer of area w is written; what follows is nothing, or an append. *)
WriteBuffer(c, w, append) ==
    LET b == wa[c][w]
        a == IF append THEN [b EXCEPT !.aLocked = {}] ELSE b
        after(x) == IF append THEN Appending(x) ELSE x
    IN  /\ b.hot
        /\ \/ /\ ~b.ins /\ b.buf = b.old            \* nothing to update
              /\ Sync(c, w, b.rec, b.buf, after(Updated(a)))
              /\ UNCHANGED << db, wrote, used >>
           \/ /\ ~b.ins /\ b.buf # b.old
              /\ \/ View(c, b.rec) # Absent /\ Modify(c, {b.rec}, b.buf)
                 \/ View(c, b.rec) = Absent /\ Rdbms = "POSTGR" /\ Modify(c, {}, b.buf)
              /\ Sync(c, w, b.rec, b.buf, after(Updated(a)))
              /\ UNCHANGED used
           \/ /\ b.ins
              /\ \E n \in Recs \ used :
                    /\ Modify(c, {n}, b.buf)
                    /\ used' = used \cup {n}
                    /\ Sync(c, w, n, b.buf, after(Inserted(a, n)))
        /\ UNCHANGED nTransacCount

GoCold(c, w) == WriteBuffer(c, w, FALSE)

(* The statement fails: RuntimeErr rolls back and throws; nTransacCount    *)
(* and aLocked stay as they are.                                           *)
WriteFails(c, w) ==
    LET a == wa[c][w] IN
    /\ a.hot /\ (a.ins \/ a.buf # a.old)
    /\ \/ DbErrors \/ failed[c]
       \/ ~a.ins /\ View(c, a.rec) = Absent /\ Rdbms # "POSTGR"
    /\ SetArea(c, w, Cold(a))
    /\ RollBack(c)
    /\ UNCHANGED << used, tx >>

-----------------------------------------------------------------------------
(* Entry points of a work area.                                            *)

(* Nobody else has the table exclusively (see TableLocks).                 *)
MayOpen(c, shared) ==
    \A d \in Clients \ {c}, x \in Areas : wa[d][x].open => shared /\ wa[d][x].shared

Open(c, w, shared) ==
    /\ ~wa[c][w].open /\ MayOpen(c, shared)
    /\ SetArea(c, w, Opened(shared))
    /\ UNCHANGED << db, used, tx >>

(* The application's side of Returns.                                      *)
MayShow(a, r) == Returns \/ r \notin a.aLocked

(* The record on line NCACHEBEGIN, when sqlGoTo looks at it: any line may  *)
(* be the first.                                                           *)
Begins(a) == IF a.bofAt /\ Cached(a) # {} THEN Cached(a) ELSE {Phantom}

(* dbGoTo: the record the area is on is not read again; with BOF_AT set    *)
(* the record on line NCACHEBEGIN is shown from there, any other is read;  *)
(* one that does not exist leaves the area on the phantom, with no lines.  *)
GoTo(c, w, r) ==
    LET a == wa[c][w] IN
    /\ a.open /\ ~a.hot
    /\ a.rec # r \/ a.ins
    /\ \E begin \in Begins(a) :
         \/ /\ begin = r /\ MayShow(a, r)
            /\ SetArea(c, w, Shown(a, r))
         \/ /\ begin # r /\ ~failed[c] /\ View(c, r) # Absent
            /\ SetArea(c, w, RowShown(a, r, View(c, r)))
         \/ /\ begin # r /\ ~failed[c] /\ View(c, r) = Absent
            /\ SetArea(c, w, [CleanBuffer(a) EXCEPT !.lines = NoLines])
    /\ UNCHANGED << db, used, tx >>

(* dbGoTo(0), or a SKIP past the last record.                              *)
GoPhantom(c, w) ==
    LET a == wa[c][w] IN
    /\ Browses
    /\ a.open /\ ~a.hot /\ a.rec # Phantom
    /\ SetArea(c, w, CleanBuffer(a))
    /\ UNCHANGED << db, used, tx >>

(* GO TOP: to the record BOF_AT remembers, or to the first of a page.      *)
GoTop(c, w) ==
    LET a == wa[c][w]
        Rows == {r \in Recs : View(c, r) # Absent}
    IN  /\ Browses
        /\ \/ a.bofAt /\ \E r \in Recs : GoTo(c, w, r)
           \/ /\ a.open /\ ~a.hot /\ ~a.bofAt /\ ~failed[c]
              /\ \/ \E S \in SUBSET Rows : \E r \in S :
                       SetArea(c, w, [Shown(PageRead(c, a, S, Recs), r) EXCEPT !.bofAt = TRUE])
                 \/ Rows = {} /\ SetArea(c, w, [CleanBuffer(a) EXCEPT !.lines = NoLines])
              /\ UNCHANGED << db, used, tx >>

(* SKIP from a record: to one that has a line, as it was read then, or to  *)
(* one of a page that is read now, which goes on where the lines end; or   *)
(* back past the first record.                                             *)
Skip(c, w) ==
    LET a == wa[c][w]
        News == {r \in Recs \ (Cached(a) \cup {a.rec}) : View(c, r) # Absent}
    IN  /\ Browses
        /\ a.open /\ ~a.hot /\ a.rec # Phantom
        /\ \/ \E r \in Cached(a) \ {a.rec} : MayShow(a, r) /\ SetArea(c, w, Shown(a, r))
           \/ /\ ~failed[c]
              /\ \E S \in SUBSET News, over \in SUBSET (Cached(a) \ {a.rec}), bof \in BOOLEAN :
                    \E r \in S :
                      SetArea(c, w, [Shown(PageRead(c, a, S, over), r) EXCEPT !.bofAt = bof])
           \/ /\ ~failed[c] /\ ~a.bofAt
              /\ SetArea(c, w, [a EXCEPT !.bofAt = TRUE])
        /\ UNCHANGED << db, used, tx >>

(* In a doomed transaction the SELECT of a move fails: RuntimeErr.         *)
GoToFails(c, w) ==
    /\ wa[c][w].open /\ ~wa[c][w].hot /\ failed[c]
    /\ RollBack(c)
    /\ UNCHANGED << used, wa, tx >>

Append(c, w) ==
    /\ wa[c][w].open
    /\ \/ WriteBuffer(c, w, TRUE)
       \/ /\ ~wa[c][w].hot
          /\ SetArea(c, w, Appending([wa[c][w] EXCEPT !.aLocked = {}]))
          /\ UNCHANGED << db, used, tx >>

(* REPLACE: sqlPutValue looks at no lock; the application follows the      *)
(* rule to lock a record before it changes it.                             *)
PutValue(c, w, v) ==
    LET a == wa[c][w] IN
    /\ a.open
    /\ a.ins \/ (a.rec # Phantom /\ (~a.shared \/ a.rec \in a.aLocked))
    /\ v # a.buf
    /\ SetArea(c, w, [a EXCEPT !.buf = v, !.hot = TRUE])
    /\ UNCHANGED << db, used, tx >>

-----------------------------------------------------------------------------
(* Record locks and commits.                                               *)

(* Mutants of lCanICommitNow: transactions, or locks, are not looked at.   *)
CommitsAnyway(c, a) == a.shared /\ a.aLocked = {}
CommitsLocked(c, a) == nTransacCount[c] = 0 /\ a.shared

lCanICommitNow(c, a) == nTransacCount[c] = 0 /\ a.shared /\ a.aLocked = {}

CommitIfYouCan(c, a) == \/ lCanICommitNow(c, a) /\ Commit(c)
                        \/ ~lCanICommitNow(c, a) /\ UNCHANGED db

Lockable(c, w) ==
    LET a == wa[c][w] IN a.open /\ a.shared /\ ~a.hot /\ ~a.ins /\ a.rec # Phantom

(* Mutant of Refreshed: sqlLock without UpdateCache.                       *)
NotRefreshed(a, r, v) == a

(* UpdateCache: the locked row is read into the buffers of the area.       *)
Refreshed(a, r, v) == IF a.rec = r THEN [a EXCEPT !.buf = v, !.old = v] ELSE a

(* SELECT ... FOR UPDATE gets the row, or fails: a time-out, NOWAIT or the *)
(* victim of a deadlock.                                                   *)
Granted(c, r) == /\ owner' = [owner EXCEPT ![r] = c]
                 /\ UNCHANGED << committed, work, failed, nIteractions >>

(* Mutant of Refused: RuntimeErr instead of lRet := .F.                    *)
RefusedRollsBack(c) == RollBack(c)

Refused(c) == /\ failed' = [failed EXCEPT ![c] = (Rdbms = "POSTGR")]
              /\ UNCHANGED << committed, work, owner, nIteractions >>

(* RLock() of the current record (an area that has locks unlocks first),   *)
(* or dbRLock(r) in addition to the others; a record in aLocked is         *)
(* answered .T. at once.                                                   *)
Lock(c, w, r, multiple) ==
    LET a == wa[c][w] IN
    /\ Lockable(c, w) /\ r \notin a.aLocked
    /\ multiple \/ (r = a.rec /\ a.aLocked = {})
    /\ \/ /\ ~failed[c] /\ owner[r] \in {Free, c} /\ View(c, r) # Absent
          /\ Granted(c, r)
          /\ LET b == Refreshed(a, r, View(c, r))
             IN  SetArea(c, w, [b EXCEPT !.aLocked = @ \cup {r}])
       \/ /\ owner[r] \notin {Free, c}
          /\ Refused(c)
          /\ UNCHANGED wa
    /\ UNCHANGED << used, tx >>

UnLock(c, w) ==
    LET a == [wa[c][w] EXCEPT !.aLocked = {}] IN
    /\ a.open /\ a.shared /\ ~a.hot /\ wa[c][w].aLocked # {}
    /\ CommitIfYouCan(c, a)
    /\ SetArea(c, w, a)
    /\ UNCHANGED << used, tx >>

(* dbCommit()                                                              *)
Flush(c, w) ==
    /\ wa[c][w].open /\ ~wa[c][w].hot
    /\ CommitIfYouCan(c, wa[c][w])
    /\ UNCHANGED << used, wa, tx >>

Close(c, w) ==
    /\ wa[c][w].open /\ ~wa[c][w].hot
    /\ CommitIfYouCan(c, wa[c][w])
    /\ SetArea(c, w, Closed)
    /\ UNCHANGED << used, tx >>

-----------------------------------------------------------------------------
(* Transactions.                                                           *)

SetCount(c, n) == /\ nTransacCount' = [nTransacCount EXCEPT ![c] = n]
                  /\ wrote' = IF nTransacCount[c] = 0 \/ n = 0
                                THEN [wrote EXCEPT ![c] = NoWork] ELSE wrote

BeginTransaction(c) ==
    /\ nTransacCount[c] < MaxNest
    /\ IF nTransacCount[c] = 0 THEN Commit(c) ELSE UNCHANGED db
    /\ SetCount(c, nTransacCount[c] + 1)
    /\ UNCHANGED << used, wa >>

(* Mutant of CommitTransaction: a commit without a begin counts down.      *)
CommitUncounted(c) ==
    /\ IF nTransacCount[c] = 1 THEN Commit(c) ELSE UNCHANGED db
    /\ SetCount(c, nTransacCount[c] - 1)
    /\ UNCHANGED << used, wa >>

CommitTransaction(c) ==
    /\ nTransacCount[c] > 0
    /\ IF nTransacCount[c] = 1 THEN Commit(c) ELSE UNCHANGED db
    /\ SetCount(c, nTransacCount[c] - 1)
    /\ UNCHANGED << used, wa >>

EndTransaction(c) ==
    /\ nTransacCount[c] > 0
    /\ Commit(c)
    /\ SetCount(c, 0)
    /\ UNCHANGED << used, wa >>

(* Refresh(.F.): HOT is cleared, the buffer and the cache are emptied;     *)
(* ISINSERT stays.                                                         *)
CleanUp(a) == IF a.open THEN [CleanBuffer(a) EXCEPT !.hot = FALSE, !.lines = NoLines,
                                                    !.bofAt = FALSE] ELSE a

RollBackTransaction(c) ==
    /\ nTransacCount[c] > 0
    /\ SetCount(c, 0)
    /\ wa' = [wa EXCEPT ![c] = [w \in Areas |-> CleanUp(wa[c][w])]]
    /\ RollBack(c)
    /\ UNCHANGED used

(* SR_EndConnection: End() commits.                                        *)
EndConnection(c) ==
    /\ wa[c] # [w \in Areas |-> Closed] \/ work[c] # NoWork
    /\ Commit(c)
    /\ SetCount(c, 0)
    /\ wa' = [wa EXCEPT ![c] = [w \in Areas |-> Closed]]
    /\ UNCHANGED used

(* The process dies; the server rolls back; the application starts again.  *)
Crash(c) ==
    /\ wa[c] # [w \in Areas |-> Closed] \/ work[c] # NoWork
    /\ RollBack(c)
    /\ SetCount(c, 0)
    /\ wa' = [wa EXCEPT ![c] = [w \in Areas |-> Closed]]
    /\ UNCHANGED used

-----------------------------------------------------------------------------
Next ==
    \E c \in Clients :
      \/ BeginTransaction(c) \/ CommitTransaction(c) \/ EndTransaction(c)
      \/ RollBackTransaction(c) \/ EndConnection(c) \/ Crash(c)
      \/ \E w \in Areas :
           \/ GoCold(c, w) \/ WriteFails(c, w) \/ GoToFails(c, w) \/ Append(c, w)
           \/ GoPhantom(c, w) \/ GoTop(c, w) \/ Skip(c, w)
           \/ UnLock(c, w) \/ Flush(c, w) \/ Close(c, w)
           \/ \E s \in OpenModes : Open(c, w, s)
           \/ \E v \in Vals : PutValue(c, w, v)
           \/ \E r \in Recs : GoTo(c, w, r) \/ \E m \in BOOLEAN : Lock(c, w, r, m)

Spec == Init /\ [][Next]_vars

-----------------------------------------------------------------------------
(* Properties.                                                             *)

(* Nothing that was written inside a transaction reaches the table before  *)
(* its outermost level ends, whatever is flushed, unlocked, closed,        *)
(* appended or refused in any area of the connection meanwhile.            *)
AtomicTransaction ==
    [][\A c \in Clients : (nTransacCount[c] > 0 /\ nTransacCount'[c] > 0)
          => \A r \in Recs : work[c][r] # NoChange => committed'[r] = committed[r]]_vars

(* SR_CommitTransaction of the outermost level makes everything durable    *)
(* that was written since SR_BeginTransaction: refused locks and inner     *)
(* levels lose none of it.                                                 *)
WholeTransaction ==
    [][\A c \in Clients : (CommitTransaction(c) /\ nTransacCount[c] = 1)
          => \A r \in Recs : wrote[c][r] # NoChange => committed'[r] = wrote[c][r]]_vars

(* What the application was told is locked (RLock() was .T., or a record   *)
(* it has just appended: "Record should remain Locked") is locked in the   *)
(* database.                                                               *)
RecordRemainsLocked ==
    \A c \in Clients, w \in Areas : \A r \in wa[c][w].aLocked : owner[r] = c

(* Every change an area holds in its buffer was made to the row as it now  *)
(* is, so that the UPDATE neither undoes another's change nor is left out  *)
(* because aOldBuffer is out of date.  Not so with Returns: UpdateCache    *)
(* refreshes the buffers of the current record and no line, so that a      *)
(* record that is locked from elsewhere, or left and come back to, can be  *)
(* shown as it was before it was locked.                                   *)
UpToDate ==
    \A c \in Clients, w \in Areas :
        LET a == wa[c][w] IN a.hot /\ ~a.ins => View(c, a.rec) = a.old

(* An area in insert mode is on the phantom record: a change to a record   *)
(* the application went to is an UPDATE of that record.                    *)
InsertAtPhantom == \A c \in Clients, w \in Areas : wa[c][w].ins => wa[c][w].rec = Phantom
=============================================================================
