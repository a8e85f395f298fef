# SQLRDD++: locks, transactions and navigation in TLA+

SQLRDD++ is a replaceable database driver (RDD) for Harbour: `USE`, `SKIP`,
`REPLACE`, `RLock()`, `FLock()`, `dbCommit()` of a Clipper program work on the
tables of an SQL server. What a DBF driver gets from the file system (exclusive
opens, file locks, record locks that last) has to be rebuilt here from SQL
statements of many application instances that know of each other only through
the database. And where a DBF driver moves a file pointer, it has to walk along
pages of records that were selected earlier, while the table changes. This
directory models these two parts of the program, checks them with TLC on small
instances and proves the central results with TLAPS for all instances.

All paths are relative to the repository (`src/` in `PROJECT.json`). The field
`map` of `PROJECT.json` gives the lines behind every definition.

## 1. Inventory

| component | code | state | operations |
|---|---|---|---|
| lock manager | `sqlrdd0.prg` | table `SR_MGMNTLOCKS` (`LOCK_` unique, `WSID_`, `SPID_`, `LOGIN_TIME_`), second session `oCnn:oSqlTransact` | `SR_SetLocks`, `SR_ReleaseLocks`, `SR_ListLocks`, housekeeping in `SR_SetEnvSQLRDD` |
| table locks | `sqlrdd2.prg`, `sqlrdd1.cpp` | `lTableLocked`, `lSharedLock` of an area, class data `aExclusive` | `sqlOpenArea`, `LockTable`, `UnlockTable`, `sqlLock` (FLock), `sqlUnLock`, `sqlClose` |
| buffers, record locks, commits | `sqlrdd2.prg`, `sqlrdd1.cpp` | `aLocalBuffer`, `aOldBuffer`, `aLocked`, flags `HOT`, `ISINSERT`, current record | `sqlGoTo`, `sqlAppend`, `sqlPutValue`, `sqlGoCold`/`WriteBuffer`, `sqlLock`, `sqlUnLock`, `sqlFlush`, `sqlClose`, `CheckCache`, `Refresh` |
| transactions | `utils.prg` | `oCnn:nTransacCount` | `SR_BeginTransaction`, `SR_CommitTransaction`, `SR_RollBackTransaction`, `SR_EndTransaction` |
| `SR_CONNECTION` | `sqlconnection.prg`, drivers | `nIteractions`, `nAutoCommit`, the database transaction | `Execute`, `Commit`, `RollBack`, `RuntimeErr`, `End` |
| connection registry | `sqlrdd0.prg` | `s_aConnections`, `s_nActiveConnection` | `SR_AddConnection`, `SR_EndConnection`, `SR_SetConnection` |
| registry of open areas | `utils.prg`, `sqlrdd0.prg` | `oHashActiveWAs`, the `SR_SqlFastHash` table | `_SR_Register`, `_SR_UnRegister`, `_SR_ScanExec` |
| record cache, navigation | `sqlrdd2.prg`, `sqlrdd1.cpp` | the ring `aCache`, `NCACHEBEGIN`, `NCACHEEND`, `NPOSCACHE`, `BOF_AT`, `EOF_AT`, flags in `aInfo` and in the area | `sqlGoTop`/`Bottom`, `sqlGoTo`, `sqlSkip`, `sqlSkipRaw`, `sqlSkipFilter`, `ReadPage`, `FirstFetch`, `sqlAppend`, `sqlDeleteRec`, `sqlRecall`, `sqlPack`, `sqlZap`, `sqlOrderListFocus`, `CheckCache`, seeks |
| SQL generation | `sqlrdd2.prg`, `expr*.prg` | orders, filters, scopes, relations | clauses as text |
| DDL, catalog | `sqlrdd0.prg`, `sqlrdd2.prg` | `SR_MGMNT*` tables | `sqlCreate`, `sqlOrderCreate`, upgrades |
| drivers | `odbc/`, `postgresql/`, `oracle/`, ... | client library handles | subclass of `SR_CONNECTION` and its bindings |
| RDD copies for one database | `sqlrdd?_<db>.prg` | as above | as above |
| SQLEX | `sqlex?.cpp` | `recordList`, `deletedList`, `hBufferPool`, `lBofAt`, `lEofAt`, `lCurrentRecord`, `updatedMask`, prepared statements | `sqlExGoTop`/`Bottom`, `sqlExGoTo`, `sqlExSkip`, `sqlExSeek`, `sqlExAppend`, `sqlExPutValue`, `sqlExGoCold`, `sqlExDeleteRec`, `sqlExRecall`, `sqlExOrderListFocus` |
| SQL parser | `parser/`, `sqllex.cpp`, `sqlgen1.prg` | none that is shared | text to text |
| XML, languages, helpers | `xml/`, `misc/`, `utilslang.prg` | none that is shared | formatting |

How they interact. A work area calls the lock manager for `USE` and `FLock()` and
its connection for everything else. The lock manager works on a *second* session,
in autocommit, so that a row of `SR_MGMNTLOCKS` is visible at once and does not
depend on the transaction of the application. Record locks are the opposite: they
are row locks of the first session (`SELECT ... FOR UPDATE`), so that *every*
commit or rollback of the connection ends all of them, whichever area asked for
it. Areas of one instance meet in `aExclusive` (table locks), in `CheckCache`
(buffers) and in the commits of their connection.

What is hard here:

* *Interleaving.* An instance is single threaded, but between two of its SQL
  statements any statement of any other instance may run. `SR_SetLocks` is a loop
  of INSERT, housekeeping DELETE, INSERT, and an undo loop; `LockTable(.T.)` is
  check, release, and a later lock.
* *Crashes and stale data.* A process that dies leaves its lock rows. Others tell
  them from live ones by a session number that the server gives out again.
* *Partial failure.* The second lock of a list is denied; a lock is refused
  inside a transaction; a statement fails and `RuntimeErr` rolls back under an
  application that goes on.
* *Implicit commits.* `dbCommit()`, `dbUnlock()`, close, the automatic commit, and
  transactions nested to any depth decide together when a row becomes visible.
* *Two copies of one truth.* `aLocked` and the row locks of the database,
  `aOldBuffer` and the row, `aExclusive` and the rows of `SR_MGMNTLOCKS`.
* *Stale pages.* The cached records, the remembered ends of the table and the
  prepared statements outlive the order, the record and the table they were made
  for: a write, a delete, `SET ORDER` or a sibling area comes in between two SKIPs.
* *Edges of a ring.* Lines that run around the end of `aCache`, one line, all lines,
  no line, and pages that end exactly with the table.

What makes each component correct:

* lock manager: a lock is granted to one instance at a time; a grant lasts until
  it is given back; a list is granted as a whole or leaves nothing; a call returns;
  a dead holder keeps nobody out;
* table locks: one owner of a table among the instances; an exclusive area has its
  locks; a shared open sees an exclusive one; closing leaves nothing behind;
  every operation ends;
* buffers and record locks: what the application was told is locked is locked; a
  change is made to the row as it is; an append is an INSERT and a change to an
  existing record is an UPDATE of it; closing commits;
* transactions: nothing is published before the outermost end, and the outermost
  commit publishes everything;
* cache and navigation: a SKIP goes to the next record of the order that is shown,
  whatever pages were read before; the ends are the ends; the lines in use are a
  stretch of the table;
* SQLEX: the same for its list of record numbers; what an area shows is what is
  stored; the pool of contents stays bounded;
* registries (planned): the active connection exists; every open area is reached
  by `_SR_ScanExec`.

The hazards of `PROJECT.json` put these at the lines where they bite.

## 2. Modules

```
LockService            what the lock table promises (abstract)
   ^  refined by
MgmntLocks             SR_SetLocks ... statement by statement
   ^  EXTENDS                          MgmntLocksProofs
TableLocks             USE, FLock, dbUnlock, close as sequences of calls
                                       TableLocksProofs, TableHeldProofs
Transactions           buffers, record locks, commits, transactions
                                       TransactionsProofs
IndexOrder             the order of an index and the clauses that page along it
   ^  EXTENDS                          OrderProofs
PageCache              the ring of cached records and the moves over it
                                       PageCacheProofs, PageStretchProofs
SqlEx                  the record list and prepared statements of SQLEX
                                       SqlExProofs
MCMgmntLocks, MCTableLocks, MCTransactions, MCPageCache, MCSqlEx
                       constants and symmetry for TLC
```

`TableLocks` composes the work areas with the lock manager: its steps are the
statements of `MgmntLocks` and the code between the calls, and theorem
`TablesUseLocks` says that its behaviours are behaviours of `MgmntLocks`.
`Transactions` uses from `TableLocks` only that an exclusive open excludes other
instances (guard `MayOpen`). This is the guarantee the code *means* to give;
the race of section 6 between a shared and an exclusive open is left out of
`Transactions`, so that its results do not mix with that one. `PageCache` and
`SqlEx` look at one work area each; what other areas and other users do to it are
actions of their own (`SiblingInsert`, `SiblingDelete`, `OtherInsert`). Record numbers,
keys and marks are the data there, field values and locks the data of
`Transactions`.

### MgmntLocks

`rows[l]` is the row of lock `l` or `NoRow`: the UNIQUE constraint on `LOCK_` is the
type of the variable, and it is what makes INSERT a test-and-set. `call[i]` is the
program counter of the call instance `i` is in: `ins1` (step 1, first INSERT), `del1`
(step 3, housekeeping), `ins2` (second INSERT), `delR`/`insR` (the retry loop), `undo`
(the loop over `aAdded`), `rel` (the loop of `SR_ReleaseLocks`). `from .. pos - 1` is
`aAdded`. One action is one SQL statement with its `Commit()`. `held` is a history
variable: the locks the application was told it owns.

An element of `Instances` is one *run* of an application. `SR_GetInternalID` draws a
`WSID_` per run, so that an instance that is down does not come back; session
numbers do, through `AddConnection` of another instance or `OtherLogin`.
`SR_EndConnection` leaves the lock rows where they are and closes both sessions,
which is `Crash`.

`SessionLive` is the `NOT IN (...)` of the housekeeping, for the three databases the
code has a branch for: SQL Server (number and login time), PostgreSQL (number), and
Oracle, where the stored number is a SID and the compared one an AUDSID.
`DbErrors` lets every statement fail for a reason other than the constraint.
`SR_ListLocks` compares with the SIDs on Oracle, unlike `SR_SetLocks` (`ListLive`).

### TableLocks

`wa[i][w]` is a work area (file, shared, `lTableLocked`, `lSharedLock`), `aExclusive[i]`
the class data as a set of pairs (area, file), `op[i]` the operation in progress and
the call whose return it awaits. `UseExclusive`, `UseShared`, `FLock`, `UnLock` and
`Close` start operations; `...Returns` are the code after each call, with the
`SR_LOCKTABLE_TRIES` loop of `LockTable`. The early return "already exclusive by this
application instance" is `MineAlready`. `LockRetries` stands for the 4 that
`LockTable` passes; the loop it bounds is the same for 1. The statements here do
not fail for other reasons, and `SR_SetFastOpen` is off (with fast open, no
locks are taken and there is nothing to check).

### Transactions

`committed` is the table as others see it, `work[c]` the uncommitted changes of a
connection, `owner` the row locks, `failed` PostgreSQL's aborted state; `wa[c][w]` the
area with its current record, `HOT`, `ISINSERT`, the two buffers, `aLocked`, the lines of
its cache (`lines`: what `aCache` from BEGIN to END holds for a record) and whether `BOF_AT`
is set (`bofAt`). `wrote` is a history variable.

* There is one table with one column: the properties are about a record and its
  value, and `WriteBuffer` compares column by column in the same way.
* Most entry points call `GoCold` first. They are enabled on cold areas; on a hot
  area the code is `GoCold`, an entry point itself, followed by them. `sqlAppend`
  empties `aLocked` *before* it writes the buffer, so that it is one action.
* `RLock()` with other records in `aLocked` is `UnLock` followed by `Lock`. A record
  that is in `aLocked` is answered at once, without a change of state.
* `GoTo` is `sqlGoTo` with its four ends: the record it is on already, the record on line
  `NCACHEBEGIN` when `BOF_AT` is set (shown from the line, without a SELECT), a row that is
  read and becomes the only line, and no such row. `GoPhantom` is `dbGoTo(0)` and a SKIP
  past the end, `GoTop` and `Skip` move over lines and pages, `Updated`, `Inserted` and
  `Synced` are what a write does to the lines of the area and of its siblings.
* The order and the ring are `PageCache`'s subject and are left open here: a move over the
  cache goes to *any* record with a line, any line may be the one of `NCACHEBEGIN`, a
  page holds any of the rows that have no line, and overwrites any lines. That is more than
  the code does, so that what holds here holds of the code. Keys do not change.
* `Browses` switches these moves on. An application that uses `dbGoTo` with record numbers
  alone (`Browses = FALSE`) never sets `BOF_AT` and is never answered from a line.
* `Returns` is on the side of the application: may the cache take it to a record that is in
  `aLocked`? Without `Returns` it locks a record when it stands on it and unlocks before
  it moves on, or leaves records it has locked and comes back with a `dbGoTo` that reads.
  `MayShow` is that condition, on the two places that show a line.
* `PutValue` assumes the rule of every Clipper application: lock a record before
  you change it. `sqlPutValue` itself looks at no lock.
* `Refused` is a `SELECT ... FOR UPDATE` that fails (time-out, NOWAIT or deadlock
  victim). On PostgreSQL it dooms the database transaction; `Commit` of a doomed
  transaction rolls back.
* `WriteFails` is a failed INSERT or UPDATE; on Oracle through ODBC an UPDATE of no
  row is one too (`SQL_NO_DATA`). `RuntimeErr` rolls back and throws; the
  application may go on. `nTransacCount` and `aLocked` stay.
* `View` is READ COMMITTED, the isolation of PostgreSQL and Oracle here.
* `MaxLocks` is `SR_MAXIMUN_LOCKS`, `nIteractions` is capped at `nAutoCommit`.
* The work areas are all registered: `_SR_ScanExec` reaches each of them.

### IndexOrder and PageCache

An index of n columns is a key of n numbers per record, the record number last, so
that keys are unique. `LexLess` is what `ORDER BY` does with it. `WhereMajor` and
`WhereMinor` are the clauses `ReadPage` selects a page with: a union of one part per
column, strict on its own column, with `=` on the one before and `>=` on the others.
They are definitions of their own, apart from `LexLess`: that they select the rows at
or past the current one is a theorem, and the model pages with the clauses.

The work area is one record `wa`: the ring `cache` with `begin`, `end` and `pos`
(`NCACHEBEGIN`, `NCACHEEND`, `NPOSCACHE`), the marks `bofAt`, `eofAt`, the record in the
buffer (`recno`, `key`, `isDel`, `hot`), and *two* pairs of flags, `bof`/`eof` of `aInfo` and
`fBof`/`fEof` of the area, which the code reads at different places and brings
together at few. The code of a move is a chain of functions on that record with the
names of the code; an action is one call of the RDD with all of it: the write of a hot
buffer, the move, the filter under `SET DELETED`, and the flags.

* A line is a record number and its deleted mark, or `Nil` after a removing delete.
* `nCurrentFetch` adapts to the number of skips by statistics that no property is
  about; a `ReadPage` uses any size of `PageSizes`.
* A key does not change with `PutValue`: what a write does to the cache depends on
  the fact of a write, not on the value.
* `Corner` and two guards keep a run out of the states the code is wrong in
  (section 6), so that the rest is checked; `Corners` lets a run in: `"full"`, `"empty"`
  (the ring) and `"marked"` (an edit of a record that is marked deleted, which
  `page_cache` allows).
* `Ascending` is `ORDER BY` over a set of records: the record at place k is the one
  with k - 1 records of the set before it.
* `Sure`, the condition of the properties about moves, says that the two pairs of flags
  agree and that `RCOUNT` (the number of the phantom record comes from it) is not stale.

### SqlEx

`wa.list` is `recordList` with `deletedList`, in the direction `dir` of the last move, `pos`
the place in it; `pool` is `hBufferPool`; `cur` is `lCurrentRecord`; `edit`, `updated`, `stmt`
and `touched` are the edit mask, `updatedMask`, the columns of the prepared UPDATE and
`bIndexTouchedInUpdate`; `changed`, `cond` and `prepared` decide whether the SELECT of a
skip is prepared again.

* `sqlExSkipRaw`, `sqlExSkipFilter`, `sqlExGoTop` and `sqlExGoBottom` call each other
  through the method table. Followed call by call, the recursion is no more than the loop of
  the filter: forward (`PassForward`) a raw skip calls none of the four; backward
  (`PassBackward`) it can call GO TOP, whose filter goes forward, or, from the phantom record,
  GO BOTTOM (`RawToBottom`). The filter of that GO BOTTOM makes a raw skip with `lCurrentRecord`
  still at the phantom when the last record is marked, so that the code calls itself
  without end: the result `endless`, after which the area is never `Ready` again. The loops
  are recursive functions of the number of rounds with the bound `Depth`, more than any
  filter that ends needs in a table of `MaxRec` records; one that passes it is `endless` too.
* `SkipRows` is the statement of the first index level. The code prepares one per
  level and executes that one at every level, so that the loop over the levels is one
  lookup.
* `Settled` forgets between two calls what the next call sets before it reads it. It
  merges states and removes none.
* `Sure` has the conditions under which SKIP is right, each named: the list is a
  stretch of the table before the pending REPLACE and the marks are right after it;
  the prepared UPDATE fits its columns and order (`StatementFits`); no more records share
  the first index column than the list holds (`FewAlike`). Section 6 says what
  happens outside of the last two.

## 3. Runs

| run | instance | shows |
|---|---|---|
| `mgmnt_locks` | PostgreSQL, 3 instances, 5 numbers, lists over 2 locks, failing statements | `TypeOK`, `Exclusion`, `HeldIsOwned`, `ImplementsService` |
| `mgmnt_live` | SQL Server, 2 instances, 4 numbers, fair calls, no failing statements | `NothingLeaks`, `CallReturns`, `StaleIsReclaimed` |
| `table_locks` | 2 instances of 2 areas | `TableTypeOK`, `OneTableOwner`, `ClosedMeansFree` |
| `table_locks_one` | 2 instances of 1 area, fair progress | `ExclusiveHasLocks`, `LockedMeansLocked`, `CheckIsRight`, `OperationEnds` |
| `tx_single` | Oracle, 2 clients, 1 area each, moves over cached lines, no explicit transaction, `Returns` FALSE | `RecordRemainsLocked`, `UpToDate`, `InsertAtPhantom` |
| `tx_nested` | Oracle, 2 clients, nesting 2, refused locks, automatic commit | `AtomicTransaction`, `WholeTransaction` |
| `tx_postgres` | PostgreSQL, 2 clients, failing statements, both open modes | `TypeOK`, `AtomicTransaction` |
| `page_cache` | ring of 5 lines, pages of 1 and 2, 6 records, 2 marked, an index of 2 columns | `TypeOK`, `CacheIsAStretch`, `MarksAreEnds`, `SkipForwardIsRight`, `SkipBackwardIsRight`, `EndsAreRight` |
| `sqlex` | list of 2, pages of 2, an empty pool, 3 records, inserts of others | `TypeOK`, `PoolIsBounded`, `ShownIsStored`, `SkipForwardIsRight`, `SkipBackwardIsRight`, `EndsAreRight` |
| `mgmnt_oracle`, `sqlex_skip`, `sqlex_mask` | the smallest that shows it | one violated property each, section 6 |

What they say. `mgmnt_locks`: whatever crashes, restarts, reuse of session numbers and
errors happen, SR_SetLocks answers .T. to one instance at a time, the row behind the
answer stays, and the calls look like atomic grants and releases. `mgmnt_live`: a
denied list leaves no row (this is false when the DELETE of the undo loop may
fail, so that the run has no errors), every call returns, and a dead session's row
goes when somebody asks for its lock. `table_locks`: FLock and USE EXCLUSIVE of
different instances exclude each other, and when all areas of an instance are
closed it has no row left, although `aExclusive` is wrong about siblings.
`table_locks_one`: without siblings, `lTableLocked` and an exclusive open mean what
they say. `tx_single`: without explicit transactions and siblings, `aLocked` is true,
insert mode means the phantom, and the buffer with a change is based on the row as it is,
whatever stale lines the cache holds, for an application that the cache does not take to
a record it has locked already (section 6 has the lost update without that condition). `tx_nested`, `tx_postgres`: atomicity, and completeness of the outermost commit
where a refused lock undoes only itself. `page_cache`: after any moves, and one
write, append, delete, recall, pack, zap, change of the order or write of a sibling in
between, the lines in use are consecutive records of the order, the marks are the ends
of the table, and SKIP, GO TOP and GO BOTTOM stand where a scan of the table would,
under `SET DELETED ON`. `sqlex`: after any moves, seeks and two changes, the
contents shown and pooled are those of the table, the pool is bounded, and SKIP is right
in the sense of `Sure`; as deadlock is checked, no call of the run is `endless`.

Why the bounds are enough for the cases of interest:

* *Instances and session numbers.* A connected instance has two numbers. With three
  instances and five numbers, a holder dies, its number goes to a second instance
  or to a foreign session (the row looks alive), and a third one asks for the lock
  and runs the housekeeping. Liveness is checked with two instances on four numbers:
  one to die and one to ask.
* *Lists.* `<<a, b>>` and `<<b, a>>` meet in opposite order, so that undo loops run
  against each other; `<<b>>` alone gets in between. `MaxRetries = 1`
  enters the retry loop, finds its end, and lets the second lock of a list meet
  the budget the first one used up.
* *Areas.* The sibling effects need two areas of an instance; the effects between
  instances need one area in each. `LockTries` is the 2 of the code.
* *Records and values.* Two records (one to change and one to append, or two to
  change), two values, nesting 2 (an inner and an outermost level), an automatic
  commit after two statements (one statement that does not and one that does
  commit), `SR_MAXIMUN_LOCKS` at 1 so that it is reached.
* *Ring.* Five lines are the fewest that hold a page of two, the current record and
  the two spare lines `ReadPage` leaves; with six records the pages run around the
  end of the ring in both directions and push BEGIN and END before them. The first
  index column takes four values over the records, so that two records share one and
  the second part of the clause counts. One change is enough for each of the hazards,
  which are about what a move finds that a single write has left behind; the moves
  before and after are not bounded. With two changes the code leaves
  `CacheIsAStretch`, in the ways section 6 lists.
* *SQLEX.* A list of two, shorter than the table, so that it is left in both
  directions and also holds the end; two records with the same first column; a pool
  that is emptied at every SELECT; two changes: a REPLACE and what follows it, or
  an append and the insert of another user.
* *Lines.* Two records are enough for a line that goes stale while the area stands on the
  other record. `tx_nested` moves with `dbGoTo` alone (`Browses` FALSE): what is published,
  and when, does not depend on what a buffer shows; `tx_postgres` and the proofs have the
  other moves too.
* `tx_postgres` starts with an empty table, so that the only record is appended,
  committed, locked by one client and refused to the other, and GO TOP meets no row.

`MaxNest` in `BeginTransaction`, `MaxChanges` in `Next` of `PageCache` and `SqlEx`, and the
finite sets of record numbers are the only bounds inside a guard; `Targets`, `Steps` and
`Values` bound the arguments of calls. The symmetry sets permute instances (or clients),
numbers, areas and records (old and new ones apart); runs with a liveness property
use none.

Deadlock is checked in every passing run: an instance that can take no step at all
would be reported. Each property has a mutant of the code in `PROJECT.json` (a housekeeping
that looks at the first session only, an undo loop that is left out, a
`lCanICommitNow` that forgets the transaction count, ...) under which TLC finds it
violated.

## 4. Fairness

`FairSpec` gives weak fairness to `CallStep(i)`, and `TableFairSpec` to `Progress(i)`: a
process that is inside a call executes its next statement, unless it dies
(`Crash` disables it). The code justifies it: no statement of the lock manager waits
for another instance (each is followed by its commit on the autocommit session),
and the only pause is the timed `Inkey(.5)` of the retry loop. Nothing is
assumed about when the application asks or gives back, or when others log in. The
database is assumed to answer. `mgmnt_live` and `table_locks_one` have no
failing statements: a housekeeping that fails leaves the stale row to the next
request.

Record locks do wait (for the transaction of another client), and how long is a
setting of the server; no liveness is claimed for them.

## 5. Proofs

The theorems hold for any sets of instances, areas, records, session numbers and
lists, and any bounds.

**MgmntLocksProofs.** Assumption beside those of the module: `Rdbms # "ORACLE"` (and
`~DbErrors` for `AllOrNothing`).

* `Typing`: `TypeOK`.
* `OwnedRows`, `MutualExclusion`: `HeldIsOwned` and `Exclusion`. `HeldIsOwned` is not
  inductive: a housekeeping DELETE spares the row of a granted lock only because
  the row carries the number of the holder's *live second session*, and the start-up
  DELETE of one's own number spares it only because nobody else has that number.
  `IInv` has a conjunct for each: no two live sessions share a number (`PidInv`); a row
  was written by an instance that had finished its start-up, and carries its session
  number as long as the instance runs (`RowInv`); where `from` and `pos` stand at each
  point of a call (`CallInv`); what was granted, and what the current call has
  inserted so far, is in the table under the instance's name, and the two are
  disjoint (`OwnInv`). `Exclusion` then follows, as a lock has one row.
* `AllOrNothing`: `NothingLeaks`, from the converse for the rows of a running instance:
  each is granted, or the current call will grant or delete it (`LeakInv`).
* `Refinement`: `MgmntLocks` implements `LockService` under `holds <- held`. A
  returning `SR_SetLocks` is a `Grant` of the whole list: nobody else holds any of
  these locks, because the rows are the caller's. The start of `SR_ReleaseLocks` and
  `Crash` are a `Release`; all other steps stutter.

**TableLocksProofs.** For databases other than Oracle.

* `TablesUseLocks`: `TableSpec` implies `Spec` of `MgmntLocks`, so that `MutualExclusion`
  applies to its states.
* `TableTyping`: `TableTypeOK`.
* `TableOwner`: `OneTableOwner`. The class data is connected with the lock table by an
  invariant about each instance alone (`InstInv`): there is one entry of `aExclusive` per
  file, of an area with that file and `lTableLocked` (`ListInv`); behind an entry whose
  area is not being left is the FLOCK lock (`EntryInv`); the area an operation opens is
  still closed, the area it locks or leaves has its table (`OpInv`); while `LockTable`
  waits, the table is not listed, and when the call returns .T. the FLOCK lock,
  the first of either list, has been granted (`WaitInv`). Two owners would both
  hold FLOCK, against `MutualExclusion`.

**TransactionsProofs.**

* `TxTyping`: `TypeOK`.
* `Atomicity`: `AtomicTransaction`, for either database, with and without failing
  statements. The property looks only at one client's rows, but a commit of
  *another* client might overwrite them: the invariant `RowInv` says that a row
  with an uncommitted change is owned by the connection that made it.

**TableHeldProofs.** For databases other than Oracle. `InstInv` above says what is behind an
entry of `aExclusive`; it does not say what an instance holds *besides*, so that nothing
about the end of an operation follows from it. `HInv` bounds the granted locks of an
instance from above (`HeldInv`): each is the SHARED lock of an open area, the FLOCK or EXC
lock of an entry of the list, or was granted by the `SR_SetLocks` call whose answer the
operation has not looked at yet; the call in progress is the one the operation made
(`PointInv`).

* `NothingLeftBehind`: `ClosedMeansFree`, for any number of areas: an instance that has
  closed them owns no row. It needs the invariant of `AllOrNothing` too: a refused list leaves
  no row.
* `ExclusiveLocks`, `TableLockedTrue`, `SharedCheck`: `ExclusiveHasLocks`,
  `LockedMeansLocked` and the action property `CheckIsRight`, for any number of instances
  and tables with one area per instance (`Alone`). With two areas TLC finds all three
  violated (section 6), so that the hypothesis is the limit of what the code gives.

Also in `TransactionsProofs`, for what an area knows of its record: the invariant `XInv` adds to `RowInv` that
an area in insert mode is HOT on the phantom (`InsOk`); the record it is on is there, and
so are those that have a line (`RecOk`); a record in `aLocked` is owned, a shared area changes locked records only, and
the row of a locked record is still `aOldBuffer` where `Returns` is FALSE (`LockOk`); inside a transaction, what was
written is exactly what is not published yet (`TxOk`). Each part is stated under the
hypothesis it needs, in one induction. Every move is one of four arrivals (`Moved`): at
the phantom, where the area was, at a row that has just been read, or at a line.

* `InsertsAtPhantom`: `InsertAtPhantom` without explicit transactions (`NoNest`), with
  any areas, automatic commits and failing statements.
* `LockedRecords`, `NoLostUpdate`: `RecordRemainsLocked` and `UpToDate` for any number of
  clients and records, each client with one area, any moves over the cache, no explicit
  transaction, no automatic commit and statement-level rollback without other errors
  (`Single`). `NoLostUpdate` asks for shared opens and for `~Returns` besides. Dropping
  any one of the hypotheses of `Single` makes TLC find a violation, as each of these
  features ends row locks behind the back of an area; so does dropping `~Returns`, as a
  lock refreshes the buffers of the current record and no line of the cache. `~Returns` is
  a condition on the application, met by one that unlocks before it moves and by one that
  moves with `dbGoTo` to record numbers alone.
* `DurableTransaction`: `WholeTransaction` at any nesting depth, with any areas and with
  the automatic commit, for statement-level rollback without other errors (`Sure`).

**OrderProofs.** What the proofs about both RDDs share: loops, `ORDER BY`, and the clauses of a
page, for an index of any number of columns and any integer keys.

* `WhereMajorIsTheOrder`, `WhereMinorIsTheOrder`: a row satisfies the clause of a page exactly
  when it is at or past (at or before) the current one in the order of the index. The
  clause is weaker than the textbook one (`>=` where that has `=`); lemma
  `FirstDifference` gives the column where two keys part, lemma `PrefixGreater` shows that a
  part that is true cannot come from a smaller key. `page_cache` has two columns; the
  theorems say that paging loses and repeats no row of an index of more.

**PageCacheProofs.** For rings, pages, indexes and tables of any size that satisfy
`CacheAssumption`, with marking and removing deletes, and in all corners.

* `RingTyping`: `TypeOK`. The content is the arithmetic of the ring: each pointer that
  `MakeRoomForward`, `MakeRoomBackward`, the search of the lines and the storing of a page
  compute is at most one turn off, so that `FixCachePointer` brings it back, and a line that is
  loaded into the buffer holds a record. A move is a function of an area and the proof
  goes operator by operator (`...IsArea`); `PInv` is then the inductive invariant: the area
  is one of the type, marks are of records of the table, and a record that is being
  appended has a number given out and no mark (otherwise writing it would leave the table).
* On the way: the index is a total order of the records (`OrderIsTotal`), and `ORDER BY` over a
  set is a sequence of exactly its records, ascending (`AscendingRows`, from a lemma of
  `OrderProofs` about any order of a finite set).
* The loops (`SKIP n`, the filter of `SET DELETED`) are recursive functions. The library's
  induction has an operator as parameter, which no prover here takes; `SetInduction` states
  it for a set, from the least element of a set of naturals, and `LoopExists` and
  `LoopStays` (all three in `OrderProofs`) are the two facts about a loop the proofs use; `SkipIsALoop` says that `SKIP n`
  is such a loop of single skips.

**PageStretchProofs.** For rings, pages, indexes and tables of any size that satisfy
`CacheAssumption`, any number of changes, and under `Plain`: deletes mark, `SET DELETED OFF`, no
inserts of siblings, no corner. The hypotheses are the limit of what the code gives: with
removing deletes TLC finds `MarksAreEnds` violated, and with any other one of them dropped
`CacheIsAStretch`, within two changes on a ring of five lines (section 6). `page_cache` looks at the
other side: `SET DELETED ON`, siblings and a corner, for a single change.

* `StretchOfTheTable`, `EndsMarked`: `CacheIsAStretch` and `MarksAreEnds`.
* `SkipGoesForward`, `SkipGoesBackward`, `EndsAreShown`: `SkipForwardIsRight`, `SkipBackwardIsRight` and
  `EndsAreRight`. That SKIP finds the next record is a fact about the lines (the next line holds it),
  about the clauses of `IndexOrder` (a page starts at it) and about the marks (EOF only at the last
  record), so that the three need the same invariant.

`CacheIsAStretch` is stated while EOF is not set, and says nothing of the lines under a
buffer that is hot; neither it nor `MarksAreEnds` is inductive. The invariant `RInv` is `PInv` and
`Ready`:

* `Good`: the marks are ends of the table (`Ends`), `RCOUNT` is not less than any record number,
  and the area is on a record or past the end. On a record (`OnRecord`) the lines are a
  stretch with the record on line NPOSCACHE (`Live`), or there are none (after SET ORDER,
  CheckCache). Past the end (`OnBlank`) the phantom has a number that is no record's, which is
  why `RCOUNT` must not be stale, and the lines are a stretch all the same: SKIP -1 goes back to it.
* A record can be shown with EOF set (after an append that was written by a GO BOTTOM). It must not be
  one that was just marked deleted (`Sound`).
* With a new record in the buffer nothing holds of the lines, which do not have it; its
  number is the last one given out, so that the write leaves one right line. A changed
  buffer (`hot = "update"`) is on a record of the table, and a hot one carries no mark, as
  a marked one would not be written by a SKIP.

The step for a move is the composition of what its operators do: a line ahead
or behind (`StepsUp`, `StepsDown`), or the room for a page (`RoomForward`, `RoomBackward`: which lines
stay in use, and that the page does not touch them), its rows behind the old ones (`Appended`,
`Prepended`, from `RunsUp` and `RunsDown` of what the SELECT returned) and the end of the range when the
table has ended. The state excluded by `Corner` is carried along as `FullOn`: a move that
ends there is no step of the specification.

**SqlExProofs.** For lists, pages, pools and tables of any size that satisfy `SqlExAssumption`,
any number of changes, databases that cut a result set or not, and inserts of other users, in behaviours in
which GO TO names a record that is there, or 0 (`KnownTargets`).

* `AreaTyping`: `TypeOK`. Its content is that `recordListPos` stays on `recordList` through every
  list that is read, shrunk or replaced, and that `lBofAt`, `lEofAt` and the pool are of
  records of the table.
* `PoolStaysBounded`: `PoolIsBounded`. The pool is emptied before a page is added and not after,
  so that the bound is its size and one page.
* `BufferIsStored`: `ShownIsStored`, under `Simple`: `SET DELETED OFF`, no REPLACE at EOF, and of the
  sets of columns that are replaced together none is a part of another.

`KnownTargets` is needed by the first: without it TLC finds `TypeOK` violated when other users
insert (section 6). Each of the three parts of `Simple` is needed by the third: with any
one of them dropped TLC finds `ShownIsStored` violated. A filter that ends at the phantom can leave
the blank buffer without EOF; a REPLACE at EOF stays in the buffer unwritten; and `updatedMask`
that collects columns lets a REPLACE of two columns use the UPDATE of one (`sqlex_mask`),
which an antichain of edits cannot meet: a mask that has collected a second set of
columns is larger than any one of them.

The invariant `SInv` is that the table is one (`IsTable`) and the area is at rest (`Rest`): it is of
its type, the pool included (`Area`), and can be written (`Writable`); a new record is pending only
at EOF, a changed one only off it; and a buffer that is not hot and not at EOF holds the
current record. `ShownIsStored` says nothing of a hot buffer, and the write makes it the cold one of
the next state: `Writable` has what is needed there, that the columns outside the edit are
as they are stored (`Edited`) and that the prepared UPDATE is of columns that were replaced
together (`StmtKnown`). A new record that is pending also needs a number that is still
free, which other users must leave it. TLC checks `SInv` with `Simple` and without it, on tables that
grow from two to four records. The step is proved operator by operator: a move maps an area of
the type to one of the type that shows its record (`Shown`, `OnRecord`), a write maps the table to one
that has the other records as they were.

**Only model-checked.**

* The five properties of `PageStretchProofs` under `SET DELETED ON`, with siblings that insert and in the
  corner `marked`, which is where `page_cache` checks them: beyond its single change the code
  leaves them.
* `SkipForwardIsRight`, `SkipBackwardIsRight` and `EndsAreRight` of `SqlEx`: what a list says of the table is a
  condition of these properties (`Stretch` in `Sure`), not a consequence of the moves, as
  INSERT and UPDATE leave lists and marks behind.
* Liveness under fairness (`CallReturns`, `StaleIsReclaimed`, `OperationEnds`), which the proof
  system does not treat.

## 6. Where the code and its comments disagree

Each is a run that ends in a violation, with the comment quoted in `PROJECT.json`.

* `mgmnt_oracle`: on Oracle the row stores a SID and the housekeeping keeps AUDSIDs.
  The second requester of a lock deletes the live holder's row and gets the lock.
* `sqlex_skip`: "Current line is always in result set if we are SKIPPING"
  (`sqlex1.cpp`). `lCurrentRecord` is set once per SKIP and not at all by GO TOP, GO BOTTOM
  and SEEK, while the raw skips over deleted records go on: GO BOTTOM onto a deleted
  last record looks for a record that is not in the rows and ends at the phantom.
* `sqlex_mask`: "Copy of updateMask in currently prepared UPDATE stmt" (`sqlex.h`).
  `updatedMask` is never cleared; after REPLACE of one column and then of another, a
  REPLACE of both uses the second statement and leaves the first column unwritten.

Seen while modelling, without a run of their own.

Table locks. Where a run is restricted, it is because of one of these.

* `aExclusive` is looked up by file but entered and removed by area. A second area of
  the instance is answered .T. without locks of its own, and loses the table when the
  first one unlocks. USE EXCLUSIVE beside a sibling with `FLock()` takes no lock at all.
* Between "Ok, nobody have it EXCLUSIVE !" and the SHARED lock another instance can open
  the table exclusively; the refused SHARED lock is not looked at and the shared open
  succeeds.
* A DELETE of the undo loop that fails leaves a row behind. On SQL Server and Oracle
  the housekeeping names `SR_MGMNTLOCKS` without the tools owner.
* `FLock()` at EOF is answered .T. and takes no lock.

Buffers and transactions.

* `lCanICommitNow` looks at the `aLocked` of its own area; the commit releases the row
  locks of all areas of the connection.
* `ISINSERT` survives `SR_RollBackTransaction`; a later change to an existing record
  becomes an INSERT. `SR_RollBackTransaction(nCnn)` cleans the areas of the active
  connection, not of `nCnn`.
* `CheckCache` gives a sibling area the new values but not the new `aOldBuffer`, and
  overwrites changes it has not written (`UpToDate` fails with two areas).
* A line of the cache is not refreshed under a lock: `UpdateCache` copies the row that was
  locked into the buffers of the current record, and into nothing when the record is another
  one. A record that is locked with `dbRLock(r)` from elsewhere, or locked, left and come
  back to, is then shown as it was read: by SKIP from its line, by GO TOP, and by `dbGoTo`
  when `BOF_AT` is set and the record is on line `NCACHEBEGIN` (`sqlrdd2.prg`, lines
  3725-3733). `RLock()` of it is answered .T. from `aLocked` without a refresh (line 8253),
  and a REPLACE undoes what another client has committed, or is left out, as `aOldBuffer` is
  the stale line as well. With `Returns` TRUE TLC finds `UpToDate` violated: GO TOP, another
  client commits a change of the first record, `RLock()`, a move away, GO TOP, REPLACE.
* `aOldBuffer` takes a new value before the UPDATE is sent; after a failure the same change
  is not written again.
* "commit when close WA" does not happen after an append, as the new record is in
  `aLocked`. "Commit any changes BEFORE Begin Transaction" commits what was written
  and leaves out what is still in the buffers.
* A PostgreSQL transaction that a refused lock has doomed is rolled back by
  `SR_CommitTransaction` without an error.

Registries.

* `SR_EndConnection` in the middle of the array leaves a NIL slot, to which
  `s_nActiveConnection` may point. `SR_SqlFastHash` resets its table when it is full.

Record cache.

* A ring that is exactly full (BEGIN 1, END the last line) makes no room for the next
  page (corner `full`); a page read backwards with no line in use starts one line too
  early (corner `empty`).
* After a removing delete of the first record `BOF_AT` stays, as `EOF_AT` is reset twice;
  the line is cleared in the own cache and in no sibling's. A ring of removed lines
  alone gives the circular search no place to stop.
* `ReadPage` takes the first row for the current record. When another process has removed
  that record the row dropped is the next one.
* A record that was changed and then marked deleted, or changed while marked (corner
  `marked`), is not written by a SKIP (`sqlGoCold` looks at `IsDeleted`), and its buffer stays
  hot under the next record. With two changes TLC finds `CacheIsAStretch` violated after it.
* `RCOUNT` is not brought up to date when a sibling inserts: the phantom of the area then
  has the number of a real record, and a SKIP past the end, a SKIP back and SET ORDER put a
  blank line under that number (`CacheIsAStretch`, two changes). `Sure` keeps this out of the
  properties about moves.
* Under `SET DELETED ON` with every record marked, SKIP -1 ends on the blank record with EOF
  false.
* An append made at EOF leaves the EOF flag of the area set when its record is written
  (`aInfo` alone is reset): the SKIP that writes it shows the next record with EOF, and when that
  is the one in EOF_AT a GO BOTTOM leaves it so. `Sure` keeps this out of the properties about moves.

SQLEX.

* The UPDATE that is used again keeps `bIndexTouchedInUpdate` of the order it was prepared
  under: a REPLACE in natural order, SET ORDER and a REPLACE of the same column keeps a
  list in which the record has moved (outside of `StatementFits`).
* More records that share the first index column than the list holds hide what follows
  them (outside of `FewAlike`).
* INSERT and UPDATE leave `lBofAt` and `lEofAt` as they are: GO BOTTOM after an append goes
  to the old last record. The EOF flag of an append is still set after its INSERT, and
  a REPLACE at EOF is dropped.
* SKIP -1 from the phantom record, under `SET DELETED ON` with a deleted last record, calls
  itself without end.
* Contents in the pool are not read again when another user has changed the record.
* GO TO of a record that does not exist leaves its number in the list of one. When another user
  then inserts the record that has the number of the area's phantom, a SKIP starts from that one,
  finds nothing after it and makes the number in the list the end of the table (`lEofAt`).
* GO TOP resets the flag that says a filter or scope has changed before a SKIP has
  used it.

## 7. Not modelled

* *Within the modelled components*: deletes, recall, pack and zap, historic tables,
  the table locks of `sqlCreate`, `sqlZap` and `sqlDrop`; `FLock()` emptying
  `aLocked`; a failing statement inside `sqlAppend`; dirty reads (SQL Server, Sybase,
  MySQL); GO BOTTOM and SEEK over the cache, which read pages as GO TOP and SKIP do, and
  keys that change under it, in `Transactions`; several connections in one instance; the commit after the creation of a
  sequence on PostgreSQL.
* *Cache and navigation*: seeks, relations, filters and scopes, historic tables, tables that
  are fetched as a whole (`lFetchAll` and the `!ISAM` branches), descending orders; other
  processes that remove rows.
* *SQLEX*: removing deletes, an empty table, historic tables, filters, scopes, relations,
  descending orders, the list of columns a SELECT names and ODBC errors; index columns that
  are NULL: `FeedCurrentRecordToBindings` (`sqlex1.cpp`, lines 969-989) then binds an empty
  value or prepares the SELECTs again and calls itself.
* *Text*: SQL generation, expression translation, the SQL parser, XML and messages are
  sequential functions on text, without state that others see.
* *Copies*: the RDDs for one database are reductions of the files that are modelled.
* The *bindings* of the drivers: wrappers of client libraries; their behaviour is that of
  the library. Most lines of the repository are the headers of those libraries
  (`include/firebird?`, `include/oci`, ...), which have nothing to model.

## 8. Plan

Done, in this order: `MgmntLocks` with `LockService`, `TableLocks`, `Transactions`,
`IndexOrder` with `PageCache`, `SqlEx`, and the theorems of section 5. To come:

1. Deletes in `Transactions`: `sqlDeleteRec`, `sqlRecall`, `sqlZap` and the `FLock()` of
   an area with locked records; failing statements in `tx_single`.
2. `Connections`: the array of connections with the slot that `SR_EndConnection`
   empties, the active one, `SR_RollBackTransaction(nCnn)` for a connection that is
   not active, and the registry of areas with the reset of `SR_SqlFastHash`.
3. `sqlCreate`, `sqlZap`, `sqlDrop` in `TableLocks`; dirty reads as a variant of `View`; seeks
   in `PageCache`.

## 9. Running

`tlc -config MgmntLocks.cfg MCMgmntLocks` (and likewise for the other runs of
`PROJECT.json`), `tlapm MgmntLocksProofs.tla`, `tlapm TableLocksProofs.tla`,
`tlapm TransactionsProofs.tla`, `tlapm OrderProofs.tla`, `tlapm TableHeldProofs.tla`,
`tlapm PageCacheProofs.tla`, `tlapm PageStretchProofs.tla`, `tlapm SqlExProofs.tla`.
