----------------------------- MODULE TableLocks -----------------------------
(***************************************************************************)
(* Table level locking of the work areas (SR_WORKAREA in sqlrdd2.prg, the  *)
(* entry points sqlOpen, sqlClose, sqlLock and sqlUnLock of sqlrdd1.cpp):  *)
(* USE EXCLUSIVE, USE SHARED, FLock(), dbUnlock() and close, each a        *)
(* sequence of SR_SetLocks and SR_ReleaseLocks calls of MgmntLocks whose   *)
(* statements interleave with those of the other instances.  An instance   *)
(* is single threaded; its work areas share the class data aExclusive.     *)
(* SR_SetFastOpen(.F.) is in force: with the fast open no lock is taken.   *)
(* Statements do not fail for other reasons here (DbErrors = FALSE).       *)
(***************************************************************************)
EXTENDS MgmntLocks

CONSTANTS
    Areas,        \* work area numbers (nThisArea)
    Tables,       \* cFileName
    NoTable,
    LockRetries,  \* the nRetries LockTable passes: 4
    LockTries     \* SR_LOCKTABLE_TRIES: 2

FLOCK(t)  == << "FLOCK", t >>
EXC(t)    == << "EXC", t >>
SHARED(t) == << "SHARED", t >>

ASSUME TableAssumption ==
    /\ Locks = {"FLOCK", "EXC", "SHARED"} \X Tables
    /\ \A t \in Tables : { << FLOCK(t), EXC(t), SHARED(t) >>, << EXC(t) >>,
                           << FLOCK(t) >>, << SHARED(t) >>, << EXC(t), FLOCK(t) >> }
                            \subseteq LockLists
    /\ NoTable \notin Tables /\ Tables # {} /\ Areas # {}
    /\ LockRetries \in 0 .. MaxRetries /\ LockTries \in Nat \ {0}
    /\ DbErrors = FALSE

VARIABLES
    wa,           \* the work areas of each instance
    aExclusive,   \* class data of each instance: {nThisArea, cFileName} pairs
    op            \* the operation an instance is in, and where

tvars   == << wa, aExclusive, op >>
allVars == << rows, run, pid, others, call, held, wa, aExclusive, op >>

Area == [file : Tables \cup {NoTable}, shared : BOOLEAN,
         lTableLocked : BOOLEAN, lSharedLock : BOOLEAN]
Closed == [file |-> NoTable, shared |-> TRUE, lTableLocked |-> FALSE, lSharedLock |-> FALSE]

(* at: the SR_SetLocks or SR_ReleaseLocks call whose return is awaited     *)
Points == {"none", "lockX", "lockF", "check", "uncheck", "share", "unlock",
           "closeX", "closeS"}
OpType == [at : Points, w : Areas, t : Tables, tries : 1 .. LockTries]
NoOp   == [at |-> "none", w |-> CHOOSE w \in Areas : TRUE,
           t |-> CHOOSE t \in Tables : TRUE, tries |-> 1]

TableTypeOK ==
    /\ wa \in [Instances -> [Areas -> Area]]
    /\ aExclusive \in [Instances -> SUBSET (Areas \X Tables)]
    /\ op \in [Instances -> OpType]

TableInit ==
    /\ Init
    /\ wa = [i \in Instances |-> [w \in Areas |-> Closed]]
    /\ aExclusive = [i \in Instances |-> {}]
    /\ op = [i \in Instances |-> NoOp]

-----------------------------------------------------------------------------
(* AScan(::aExclusive, {|x| x[2] == ::cFileName}) > 0                      *)
MineAlready(i, t) == \E e \in aExclusive[i] : e[2] = t
Entry(i, w)       == {e \in aExclusive[i] : e[1] = w}

Ready(i)      == run[i] = "up" /\ op[i].at = "none" /\ call[i].pc = "idle"
Back(i, at)   == op[i].at = at /\ call[i].pc = "idle"
Goto(i, at, w, t, n) == op' = [op EXCEPT ![i] = [at |-> at, w |-> w, t |-> t, tries |-> n]]
Done(i)       == op' = [op EXCEPT ![i] = NoOp]
SetArea(i, w, a) == wa' = [wa EXCEPT ![i][w] = a]
TableLocked(a, b) == [a EXCEPT !.lTableLocked = b]
Quiet         == UNCHANGED vars

(* Mutant of Enlist: the two elements of the entry are swapped.            *)
EnlistSwapped(i, w, t) == aExclusive' = [aExclusive EXCEPT ![i] = @ \cup {<< t, w >>}]

(* The last lines of LockTable, after a successful SR_SetLocks.            *)
Enlist(i, w, t) == aExclusive' = [aExclusive EXCEPT ![i] = @ \cup {<< w, t >>}]

-----------------------------------------------------------------------------
(* USE ... EXCLUSIVE: sqlOpenArea, LockTable(.F.)                          *)

(* Mutant of ExclusiveList: without the EXC lock.                          *)
ListWithoutExc(t) == << FLOCK(t), SHARED(t) >>

ExclusiveList(t) == << FLOCK(t), EXC(t), SHARED(t) >>

(* Mutant of OpenedExclusive: the SHARED lock of an exclusive open is not  *)
(* recorded.                                                               *)
OpenedUnrecorded(t, locked) ==
    [file |-> t, shared |-> FALSE, lTableLocked |-> locked, lSharedLock |-> FALSE]

OpenedExclusive(t, locked) ==
    [file |-> t, shared |-> FALSE, lTableLocked |-> locked, lSharedLock |-> TRUE]

UseExclusive(i, w, t) ==
    /\ Ready(i) /\ wa[i][w] = Closed
    /\ \/ /\ MineAlready(i, t)
          /\ SetArea(i, w, OpenedExclusive(t, FALSE))
          /\ Quiet /\ UNCHANGED << aExclusive, op >>
       \/ /\ ~MineAlready(i, t)
          /\ SetLocks(i, ExclusiveList(t), LockRetries)
          /\ Goto(i, "lockX", w, t, 1)
          /\ UNCHANGED << wa, aExclusive >>

UseExclusiveReturns(i) ==
    LET o == op[i] IN
    /\ Back(i, "lockX")
    /\ \/ /\ call[i].ret
          /\ SetArea(i, o.w, OpenedExclusive(o.t, TRUE))
          /\ Enlist(i, o.w, o.t) /\ Done(i) /\ Quiet
       \/ /\ ~call[i].ret /\ o.tries < LockTries
          /\ SetLocks(i, ExclusiveList(o.t), LockRetries)
          /\ Goto(i, "lockX", o.w, o.t, o.tries + 1)
          /\ UNCHANGED << wa, aExclusive >>
       \/ /\ ~call[i].ret /\ o.tries = LockTries    \* lOpened := .F.
          /\ Done(i) /\ Quiet /\ UNCHANGED << wa, aExclusive >>

-----------------------------------------------------------------------------
(* USE ... SHARED: sqlOpenArea, LockTable(.T.), SR_SetLocks(SHARED)        *)

UseShared(i, w, t) ==
    /\ Ready(i) /\ wa[i][w] = Closed
    /\ \/ /\ MineAlready(i, t)
          /\ SetLocks(i, << SHARED(t) >>, 0)
          /\ Goto(i, "share", w, t, 1)
       \/ /\ ~MineAlready(i, t)
          /\ SetLocks(i, << EXC(t) >>, LockRetries)
          /\ Goto(i, "check", w, t, 1)
    /\ UNCHANGED << wa, aExclusive >>

(* Mutant of CheckReturns: the FOR loop of LockTable never gives up.       *)
CheckForever(i) ==
    LET o == op[i] IN
    /\ Back(i, "check")
    /\ \/ /\ call[i].ret
          /\ ReleaseLocks(i, << EXC(o.t) >>)
          /\ Goto(i, "uncheck", o.w, o.t, 1)
       \/ /\ ~call[i].ret
          /\ SetLocks(i, << EXC(o.t) >>, LockRetries)
          /\ Goto(i, "check", o.w, o.t, 1)
    /\ UNCHANGED << wa, aExclusive >>

(* Nobody has it EXCLUSIVE: release EXC again; or try once more; or fail.  *)
CheckReturns(i) ==
    LET o == op[i] IN
    /\ Back(i, "check")
    /\ \/ /\ call[i].ret
          /\ ReleaseLocks(i, << EXC(o.t) >>)
          /\ Goto(i, "uncheck", o.w, o.t, 1)
       \/ /\ ~call[i].ret /\ o.tries < LockTries
          /\ SetLocks(i, << EXC(o.t) >>, LockRetries)
          /\ Goto(i, "check", o.w, o.t, o.tries + 1)
       \/ /\ ~call[i].ret /\ o.tries = LockTries    \* lOpened := .F.
          /\ Done(i) /\ Quiet
    /\ UNCHANGED << wa, aExclusive >>

UncheckReturns(i) ==
    LET o == op[i] IN
    /\ Back(i, "uncheck")
    /\ SetLocks(i, << SHARED(o.t) >>, 0)
    /\ Goto(i, "share", o.w, o.t, 1)
    /\ UNCHANGED << wa, aExclusive >>

(* The area opens whether or not the SHARED lock was granted.              *)
ShareReturns(i) ==
    LET o == op[i] IN
    /\ Back(i, "share")
    /\ SetArea(i, o.w, [file |-> o.t, shared |-> TRUE, lTableLocked |-> FALSE,
                        lSharedLock |-> call[i].ret])
    /\ Done(i) /\ Quiet /\ UNCHANGED aExclusive

-----------------------------------------------------------------------------
(* FLock(): sqlLock (sqlrdd1.cpp) and sqlLock (sqlrdd2.prg), nType = 3     *)

FLock(i, w) ==
    LET t == wa[i][w].file IN
    /\ Ready(i) /\ t # NoTable /\ wa[i][w].shared
    /\ \/ /\ MineAlready(i, t)
          /\ SetArea(i, w, TableLocked(wa[i][w], TRUE))
          /\ Quiet /\ UNCHANGED << aExclusive, op >>
       \/ /\ ~MineAlready(i, t)
          /\ SetLocks(i, << FLOCK(t) >>, LockRetries)
          /\ Goto(i, "lockF", w, t, 1)
          /\ UNCHANGED << wa, aExclusive >>

(* Mutant of FLockReturns: lRet is not looked at.                          *)
FLockUnasked(i) ==
    /\ Back(i, "lockF")
    /\ SetArea(i, op[i].w, TableLocked(wa[i][op[i].w], TRUE))
    /\ Enlist(i, op[i].w, op[i].t) /\ Done(i) /\ Quiet

FLockReturns(i) ==
    LET o == op[i] IN
    /\ Back(i, "lockF")
    /\ \/ /\ call[i].ret
          /\ SetArea(i, o.w, TableLocked(wa[i][o.w], TRUE))
          /\ Enlist(i, o.w, o.t) /\ Done(i) /\ Quiet
       \/ /\ ~call[i].ret /\ o.tries < LockTries
          /\ SetLocks(i, << FLOCK(o.t) >>, LockRetries)
          /\ Goto(i, "lockF", o.w, o.t, o.tries + 1)
          /\ UNCHANGED << wa, aExclusive >>
       \/ /\ ~call[i].ret /\ o.tries = LockTries
          /\ Done(i) /\ Quiet /\ UNCHANGED << wa, aExclusive >>

-----------------------------------------------------------------------------
(* UnlockTable                                                             *)

(* Only the area that is listed in aExclusive releases rows.               *)
ReleaseTable(i, w) == ReleaseLocks(i, << EXC(wa[i][w].file), FLOCK(wa[i][w].file) >>)

(* dbUnlock(): sqlUnLock of a shared area that has the table locked.       *)
UnLock(i, w) ==
    LET t == wa[i][w].file IN
    /\ Ready(i) /\ t # NoTable /\ wa[i][w].shared /\ wa[i][w].lTableLocked
    /\ \/ /\ Entry(i, w) = {}
          /\ SetArea(i, w, TableLocked(wa[i][w], FALSE))
          /\ Quiet /\ UNCHANGED << aExclusive, op >>
       \/ /\ Entry(i, w) # {}
          /\ ReleaseTable(i, w)
          /\ Goto(i, "unlock", w, t, 1)
          /\ UNCHANGED << wa, aExclusive >>

UnLockReturns(i) ==
    LET w == op[i].w IN
    /\ Back(i, "unlock")
    /\ SetArea(i, w, TableLocked(wa[i][w], FALSE))
    /\ aExclusive' = [aExclusive EXCEPT ![i] = @ \ Entry(i, w)]
    /\ Done(i) /\ Quiet

-----------------------------------------------------------------------------
(* sqlClose: UnlockTable(.T.), then the SHARED lock                        *)

CloseShared(i, w) ==
    LET t == wa[i][w].file IN
    \/ /\ wa[i][w].lSharedLock
       /\ ReleaseLocks(i, << SHARED(t) >>)
       /\ Goto(i, "closeS", w, t, 1)
       /\ UNCHANGED wa
    \/ /\ ~wa[i][w].lSharedLock
       /\ SetArea(i, w, Closed) /\ Done(i) /\ Quiet

Close(i, w) ==
    LET t == wa[i][w].file IN
    /\ Ready(i) /\ t # NoTable
    /\ \/ /\ wa[i][w].lTableLocked /\ Entry(i, w) # {}
          /\ ReleaseTable(i, w)
          /\ Goto(i, "closeX", w, t, 1)
          /\ UNCHANGED wa
       \/ /\ ~wa[i][w].lTableLocked \/ Entry(i, w) = {}
          /\ CloseShared(i, w)
    /\ UNCHANGED aExclusive

CloseXReturns(i) ==
    /\ Back(i, "closeX")
    /\ aExclusive' = [aExclusive EXCEPT ![i] = @ \ Entry(i, op[i].w)]
    /\ CloseShared(i, op[i].w)

CloseSReturns(i) ==
    /\ Back(i, "closeS")
    /\ SetArea(i, op[i].w, Closed) /\ Done(i) /\ Quiet /\ UNCHANGED aExclusive

-----------------------------------------------------------------------------
(* The process dies: its work areas and class data are gone.               *)
TableCrash(i) ==
    /\ Crash(i)
    /\ wa' = [wa EXCEPT ![i] = [w \in Areas |-> Closed]]
    /\ aExclusive' = [aExclusive EXCEPT ![i] = {}]
    /\ op' = [op EXCEPT ![i] = NoOp]

Returns(i) == \/ UseExclusiveReturns(i) \/ CheckReturns(i) \/ UncheckReturns(i)
              \/ ShareReturns(i) \/ FLockReturns(i) \/ UnLockReturns(i)
              \/ CloseXReturns(i) \/ CloseSReturns(i)

Progress(i) == Returns(i) \/ (CallStep(i) /\ UNCHANGED tvars)

TableNext ==
    \/ (OtherLogin \/ OtherLogout) /\ UNCHANGED tvars
    \/ \E i \in Instances :
         \/ (AddConnection(i) \/ SetEnv(i)) /\ UNCHANGED tvars
         \/ TableCrash(i)
         \/ Progress(i)
         \/ \E w \in Areas :
              \/ FLock(i, w) \/ UnLock(i, w) \/ Close(i, w)
              \/ \E t \in Tables : UseExclusive(i, w, t) \/ UseShared(i, w, t)

TableSpec == TableInit /\ [][TableNext]_allVars

(* An operation that was begun goes on unless the process dies.            *)
TableFairSpec == TableSpec /\ \A i \in Instances : WF_allVars(Progress(i))

-----------------------------------------------------------------------------
(* Properties.                                                             *)

Leaving(i, w) == op[i].at \in {"unlock", "closeX", "closeS"} /\ op[i].w = w

(* Instance i has table t for itself: FLock() or USE EXCLUSIVE succeeded   *)
(* and is not being given back.                                            *)
Owns(i, t) == \E e \in aExclusive[i] : e[2] = t /\ ~Leaving(i, e[1])

(* aExclusive lists a table in one application instance at most: FLock()   *)
(* and USE EXCLUSIVE of different instances exclude each other.            *)
OneTableOwner == \A i, j \in Instances : \A t \in Tables :
                    i # j => ~(Owns(i, t) /\ Owns(j, t))

(* "Lock MUST be removed at workarea close": an instance whose areas are   *)
(* all closed has no row left in SR_MGMNTLOCKS, however the areas were     *)
(* opened, locked and closed and whichever opens were refused.             *)
ClosedMeansFree ==
    \A i \in Instances : (Ready(i) /\ \A w \in Areas : wa[i][w] = Closed) =>
        \A l \in Locks : rows[l] # NoRow => rows[l].wsid # i

ExclusiveOpen(i, w, t) == wa[i][w].file = t /\ ~wa[i][w].shared /\ ~Leaving(i, w)

(* "EXCLUSIVE open have EXC and SHARED locks."                             *)
ExclusiveHasLocks ==
    \A i \in Instances, w \in Areas, t \in Tables :
        ExclusiveOpen(i, w, t) => {EXC(t), SHARED(t)} \subseteq held[i]

NobodyElseExclusive(i, t) ==
    \A j \in Instances \ {i}, w \in Areas : ~ExclusiveOpen(j, w, t)

(* "Ok, nobody have it EXCLUSIVE !": when LockTable(.T.) gets the EXC      *)
(* lock, no other instance has the table open exclusively.                 *)
CheckIsRight == [][\A i \in Instances :
                      (op[i].at = "check" /\ op'[i].at = "uncheck")
                         => NobodyElseExclusive(i, op[i].t)]_allVars

(* An area that was told that it has the table locked ("Table already      *)
(* exclusive by this application instance") has it locked.                 *)
LockedMeansLocked ==
    \A i \in Instances, w \in Areas :
        (wa[i][w].lTableLocked /\ ~Leaving(i, w)) => FLOCK(wa[i][w].file) \in held[i]

(* Every open, lock, unlock and close comes to its end: LockTable gives up *)
(* after SR_LOCKTABLE_TRIES rounds, whatever the other instances do.       *)
OperationEnds == \A i \in Instances : op[i].at # "none" ~> op[i].at = "none"
=============================================================================
