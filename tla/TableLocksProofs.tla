-------------------------- MODULE TableLocksProofs --------------------------
(* Theorems about table locking, for any number of instances, work areas   *)
(* and tables.  They rest on the theorems about the lock table: an open, a *)
(* lock, an unlock or a close only makes SR_SetLocks and SR_ReleaseLocks   *)
(* calls, so every run of TableLocks is a run of MgmntLocks.               *)
EXTENDS TableLocks, MgmntLocksProofs

-----------------------------------------------------------------------------
(* The inductive invariant, one instance at a time.                        *)

(* aExclusive lists a table once, for the area that has it open, and only  *)
(* for areas with lTableLocked.                                            *)
ListInv(i) ==
    \A e \in aExclusive[i] :
        /\ wa[i][e[1]].file = e[2] /\ wa[i][e[1]].lTableLocked
        /\ \A f \in aExclusive[i] : f[2] = e[2] => f = e

(* Behind each entry that is not being given back is the FLOCK lock.       *)
EntryInv(i) ==
    \A e \in aExclusive[i] : ~Leaving(i, e[1]) => FLOCK(e[2]) \in held[i]

(* An operation in progress: its instance runs, the area it opens is still *)
(* closed, the area it locks, unlocks or closes has its table.             *)
OpInv(i) ==
    /\ op[i].at # "none" => run[i] = "up"
    /\ op[i].at \in {"lockX", "check", "uncheck", "share"} => wa[i][op[i].w] = Closed
    /\ op[i].at \in {"lockF", "unlock", "closeX", "closeS"} => wa[i][op[i].w].file = op[i].t
    /\ op[i].at = "closeS" => Entry(i, op[i].w) = {}

(* LockTable waits for SR_SetLocks: when that returns .T. the FLOCK lock,  *)
(* the first of either list, is granted; nobody listed the table meanwhile.*)
WaitInv(i) ==
    op[i].at \in {"lockX", "lockF"} =>
        /\ ~MineAlready(i, op[i].t)
        /\ (call[i].pc = "idle" /\ call[i].ret) => FLOCK(op[i].t) \in held[i]
        /\ call[i].pc # "idle" => /\ call[i].pc \in SetPcs \cup {"undo"}
                                  /\ ~call[i].ret /\ call[i].list[1] = FLOCK(op[i].t)

InstInv(i) == ListInv(i) /\ EntryInv(i) /\ OpInv(i) /\ WaitInv(i)

TInv == TableTypeOK /\ \A i \in Instances : InstInv(i)

-----------------------------------------------------------------------------
(* Table locking only uses the lock manager                                *)

(* The lists LockTable, UnlockTable, sqlOpenArea and sqlClose pass are     *)
(* lists of the lock manager.                                              *)
LEMMA TableLists ==
    ASSUME NEW t \in Tables
    PROVE  /\ ExclusiveList(t) \in LockLists /\ << EXC(t) >> \in LockLists
           /\ << FLOCK(t) >> \in LockLists /\ << SHARED(t) >> \in LockLists
           /\ << EXC(t), FLOCK(t) >> \in LockLists
           /\ LockRetries \in 0 .. MaxRetries /\ 0 \in 0 .. MaxRetries
BY TableAssumption, BoundAssumption DEF ExclusiveList

(* A SR_SetLocks or SR_ReleaseLocks call is a step of the lock manager.    *)
LEMMA CallIsNext ==
    ASSUME NEW i \in Instances, NEW list \in LockLists, NEW n \in 0 .. MaxRetries,
           SetLocks(i, list, n) \/ ReleaseLocks(i, list)
    PROVE  Next
BY DEF Next

(* Every step of a work area is a step, or no step, of the lock manager.   *)
LEMMA TableStepIsLockStep == ASSUME TInv, [TableNext]_allVars PROVE [Next]_vars
<1> USE DEF TInv, TableTypeOK
<1>1. ASSUME NEW i \in Instances PROVE op[i].t \in Tables /\ op[i].w \in Areas
  BY DEF OpType
<1>2. ASSUME NEW i \in Instances, NEW w \in Areas
      PROVE  wa[i][w].file # NoTable => wa[i][w].file \in Tables
  BY DEF Area
<1>3. CASE OtherLogin \/ OtherLogout
  BY <1>3 DEF Next
<1>4. ASSUME NEW i \in Instances,
             AddConnection(i) \/ SetEnv(i) \/ Crash(i) \/ CallStep(i)
      PROVE  [Next]_vars
  BY <1>4 DEF Next, Server
<1>5. ASSUME NEW i \in Instances, Returns(i) PROVE [Next]_vars
  <2> DEFINE t == op[i].t
             w == op[i].w
  <2>1. t \in Tables /\ w \in Areas
    BY <1>1
  <2>2. CASE UseExclusiveReturns(i)
    BY <2>1, <2>2, TableLists, CallIsNext DEF UseExclusiveReturns, Quiet
  <2>3. CASE CheckReturns(i)
    BY <2>1, <2>3, TableLists, CallIsNext DEF CheckReturns, Quiet
  <2>4. CASE UncheckReturns(i)
    BY <2>1, <2>4, TableLists, CallIsNext DEF UncheckReturns
  <2>5. CASE FLockReturns(i)
    BY <2>1, <2>5, TableLists, CallIsNext DEF FLockReturns, Quiet
  <2>6. CASE CloseXReturns(i)
    <3>1. wa[i][w].file \in Tables
      BY <2>1, <2>6 DEF CloseXReturns, Back, InstInv, OpInv
    <3> QED
      BY <2>6, <3>1, TableLists, CallIsNext DEF CloseXReturns, CloseShared, Quiet
  <2>7. CASE ShareReturns(i) \/ UnLockReturns(i) \/ CloseSReturns(i)
    BY <2>7 DEF ShareReturns, UnLockReturns, CloseSReturns, Quiet
  <2> QED
    BY <1>5, <2>2, <2>3, <2>4, <2>5, <2>6, <2>7 DEF Returns
<1>6. ASSUME NEW i \in Instances, NEW w \in Areas, FLock(i, w) \/ UnLock(i, w) \/ Close(i, w)
      PROVE  [Next]_vars
  <2>1. wa[i][w].file \in Tables
    BY <1>2, <1>6 DEF FLock, UnLock, Close
  <2> QED
    BY <1>6, <2>1, TableLists, CallIsNext
    DEF FLock, UnLock, Close, CloseShared, ReleaseTable, Quiet
<1>7. ASSUME NEW i \in Instances, NEW w \in Areas, NEW t \in Tables,
             UseExclusive(i, w, t) \/ UseShared(i, w, t)
      PROVE  [Next]_vars
  BY <1>7, TableLists, CallIsNext DEF UseExclusive, UseShared, Quiet
<1>8. CASE UNCHANGED allVars
  BY <1>8 DEF allVars, vars
<1> QED
  BY <1>3, <1>4, <1>5, <1>6, <1>7, <1>8 DEF TableNext, TableCrash, Progress

-----------------------------------------------------------------------------
(* What the pieces of the actions do, field by field                       *)

(* A work area is replaced, the other areas and instances keep theirs.     *)
LEMMA SetAreaFacts ==
    ASSUME TableTypeOK, NEW i \in Instances, NEW w \in Areas, NEW a \in Area, SetArea(i, w, a)
    PROVE  /\ wa' \in [Instances -> [Areas -> Area]]
           /\ wa'[i][w] = a /\ \A v \in Areas \ {w} : wa'[i][v] = wa[i][v]
           /\ \A j \in Instances \ {i} : wa'[j] = wa[j]
BY DEF TableTypeOK, SetArea

(* lTableLocked changes, the other fields of the area do not.              *)
LEMMA TableLockedFacts ==
    ASSUME NEW a \in Area
    PROVE  /\ TableLocked(a, TRUE) \in Area /\ TableLocked(a, TRUE).file = a.file
           /\ TableLocked(a, FALSE) \in Area /\ TableLocked(a, FALSE).file = a.file
           /\ TableLocked(a, TRUE).lTableLocked
BY DEF TableLocked, Area

(* The areas that opening and closing leave behind.                        *)
LEMMA AreaFacts ==
    /\ Closed \in Area /\ Closed.file = NoTable /\ ~Closed.lTableLocked
    /\ \A t \in Tables :
          /\ OpenedExclusive(t, TRUE) \in Area /\ OpenedExclusive(t, FALSE) \in Area
          /\ OpenedExclusive(t, TRUE).file = t /\ OpenedExclusive(t, TRUE).lTableLocked
BY DEF Closed, Area, OpenedExclusive

(* An instance goes on to a point of its operation, or ends it.            *)
LEMMA GotoFacts ==
    ASSUME TableTypeOK, NEW i \in Instances
    PROVE  /\ \A at \in Points, w \in Areas, t \in Tables, n \in 1 .. LockTries :
                 Goto(i, at, w, t, n) =>
                    /\ op' \in [Instances -> OpType]
                    /\ op'[i].at = at /\ op'[i].w = w /\ op'[i].t = t
                    /\ \A j \in Instances \ {i} : op'[j] = op[j]
           /\ Done(i) =>
                    /\ op' \in [Instances -> OpType] /\ op'[i].at = "none"
                    /\ \A j \in Instances \ {i} : op'[j] = op[j]
<1>1. ASSUME NEW at \in Points, NEW w \in Areas, NEW t \in Tables, NEW n \in 1 .. LockTries,
             Goto(i, at, w, t, n)
      PROVE  /\ op' \in [Instances -> OpType]
             /\ op'[i].at = at /\ op'[i].w = w /\ op'[i].t = t
             /\ \A j \in Instances \ {i} : op'[j] = op[j]
  BY <1>1 DEF TableTypeOK, Goto, OpType
<1>2. ASSUME Done(i)
      PROVE  /\ op' \in [Instances -> OpType] /\ op'[i].at = "none"
             /\ \A j \in Instances \ {i} : op'[j] = op[j]
  <2>1. NoOp \in OpType /\ NoOp.at = "none"
    BY TableAssumption DEF NoOp, OpType, Points
  <2> QED
    BY <1>2, <2>1 DEF TableTypeOK, Done
<1> QED
  BY <1>1, <1>2

(* SR_SetLocks begins: nothing is granted or lost by that.                 *)
LEMMA SetLocksFacts ==
    ASSUME TypeOK, NEW i \in Instances, NEW list, NEW n, SetLocks(i, list, n)
    PROVE  /\ call'[i].pc = "ins1" /\ call'[i].list = list /\ call'[i].ret = FALSE
           /\ run[i] = "up" /\ UNCHANGED << run, held >>
           /\ \A j \in Instances \ {i} : call'[j] = call[j]
BY DEF TypeOK, SetLocks

(* SR_ReleaseLocks begins: the caller gives up the locks of the list.      *)
LEMMA ReleaseLocksFacts ==
    ASSUME TypeOK, NEW i \in Instances, NEW list, ReleaseLocks(i, list)
    PROVE  /\ run[i] = "up" /\ UNCHANGED run
           /\ held'[i] = held[i] \ {list[k] : k \in 1 .. Len(list)}
           /\ \A j \in Instances \ {i} : call'[j] = call[j] /\ held'[j] = held[j]
BY DEF TypeOK, ReleaseLocks

(* Only the instance that moves can disturb its part of the invariant.     *)
LEMMA Frame ==
    ASSUME TInv, NEW i \in Instances, TableTypeOK', InstInv(i)',
           \A j \in Instances \ {i} : /\ wa'[j] = wa[j] /\ aExclusive'[j] = aExclusive[j]
                                       /\ op'[j] = op[j] /\ call'[j] = call[j]
                                       /\ held'[j] = held[j] /\ run'[j] = run[j]
    PROVE  TInv'
<1>1. ASSUME NEW j \in Instances \ {i} PROVE InstInv(j)'
  BY <1>1 DEF TInv, InstInv, ListInv, EntryInv, OpInv, WaitInv, Leaving, Entry, MineAlready
<1> QED
  BY <1>1 DEF TInv

-----------------------------------------------------------------------------
(* The steps, one action at a time                                         *)

(* The lock manager works on a call: locks may be granted, none is lost,   *)
(* and SR_SetLocks answers .T. only when its whole list is granted.        *)
LEMMA CallStepKeeps ==
    ASSUME IInv, TInv, NEW i \in Instances, CallStep(i), UNCHANGED tvars
    PROVE  TInv'
<1> USE DEF IInv, TypeOK
<1>0. /\ UNCHANGED << wa, aExclusive, op, run >>
      /\ \A j \in Instances \ {i} : call'[j] = call[j] /\ held'[j] = held[j]
      /\ held[i] \subseteq held'[i]
  <2>1. UNCHANGED << wa, aExclusive, op >>
    BY DEF tvars
  <2>2. CASE InsertOk(i, {"ins1", "ins2", "insR"})
    BY <2>1, <2>2 DEF InsertOk
  <2>3. CASE DeleteStep(i)
    BY <2>1, <2>3 DEF DeleteStep
  <2>4. CASE InsertFails1(i) \/ HousekeepStep(i)
    BY <2>1, <2>4 DEF InsertFails1, HousekeepStep
  <2>5. CASE InsertFails2(i) \/ RetryFails(i)
    BY <2>1, <2>5 DEF InsertFails2, RetryFails
  <2> QED
    BY <2>2, <2>3, <2>4, <2>5 DEF CallStep
<1>1. ListInv(i)' /\ EntryInv(i)' /\ OpInv(i)'
  BY <1>0 DEF TInv, InstInv, ListInv, EntryInv, OpInv, Leaving, Entry
<1>2. ASSUME op[i].at \in {"lockX", "lockF"}
      PROVE  /\ (call'[i].pc = "idle" /\ call'[i].ret) => FLOCK(op[i].t) \in held'[i]
             /\ call'[i].pc # "idle" => /\ call'[i].pc \in SetPcs \cup {"undo"}
                                        /\ ~call'[i].ret
                                        /\ call'[i].list[1] = FLOCK(op[i].t)
  <2>1. call[i].pc # "idle" /\ call[i] \in CallType
    BY DEF CallStep, InsertOk, InsertFails1, InsertFails2, RetryFails, HousekeepStep,
           DeleteStep, SetPcs, DeletePcs
  <2>2. /\ call[i].pc \in SetPcs \cup {"undo"} /\ call[i].ret = FALSE
        /\ call[i].list[1] = FLOCK(op[i].t)
    BY <1>2, <2>1 DEF TInv, InstInv, WaitInv, CallType
  <2>3. \A b \in BOOLEAN : Return(b).pc = "idle" /\ Return(b).ret = b
    BY DEF Return
  <2>4. CASE InsertOk(i, {"ins1", "ins2", "insR"})
    <3>1. call[i].from = 1 /\ call[i].pos \in 1 .. Len(call[i].list) /\ call[i].list \in Seq(Locks)
      BY <2>4, ListsAssumption DEF InsertOk, CallInv, CallOk, SetPcs, CallType
    <3>2. CASE call[i].pos = Len(call[i].list)
      <4>1. call'[i] = Return(TRUE) /\ held'[i] = held[i] \cup Added(i) \cup {Current(i)}
        BY <2>4, <3>2 DEF InsertOk
      <4>2. call[i].list[1] \in Added(i) \cup {Current(i)}
        BY <3>1 DEF Added, Current
      <4> QED
        BY <2>2, <2>3, <4>1, <4>2
    <3>3. CASE call[i].pos # Len(call[i].list)
      <4>1. call'[i] = NextLock(call[i])
        BY <2>4, <3>3 DEF InsertOk
      <4>2. /\ call'[i].pc = "ins1" /\ call'[i].ret = call[i].ret
            /\ call'[i].list = call[i].list
        BY <2>1, <4>1 DEF NextLock, CallType
      <4> QED
        BY <2>2, <4>2 DEF SetPcs
    <3> QED
      BY <3>2, <3>3
  <2>5. CASE InsertFails1(i) \/ HousekeepStep(i)
    <3>1. /\ call'[i].pc \in SetPcs /\ call'[i].ret = call[i].ret
          /\ call'[i].list = call[i].list
      BY <2>1, <2>5 DEF InsertFails1, HousekeepStep, SetPcs, CallType
    <3> QED
      BY <2>2, <3>1 DEF SetPcs
  <2>6. CASE InsertFails2(i) \/ RetryFails(i)
    <3>1. \/ call'[i] = Denied(call[i])
          \/ \E n \in 0 .. MaxRetries : call'[i] = Again(call[i], n)
      BY <2>6, <2>1, BoundAssumption DEF InsertFails2, RetryFails, CallType, CallInv, CallOk
    <3>2. CASE call'[i] = Denied(call[i])
      BY <2>1, <2>2, <2>3, <3>2 DEF Denied, CallType
    <3>3. ASSUME NEW n \in 0 .. MaxRetries, call'[i] = Again(call[i], n)
          PROVE  /\ call'[i].pc \in SetPcs /\ call'[i].ret = call[i].ret
                 /\ call'[i].list = call[i].list
      BY <2>1, <3>3 DEF Again, CallType, SetPcs
    <3> QED
      BY <2>2, <3>1, <3>2, <3>3 DEF SetPcs
  <2>7. CASE DeleteStep(i)
    <3>1. call'[i] = NextDelete(call[i]) \/ call'[i] = Return(FALSE)
      BY <2>2, <2>7 DEF DeleteStep
    <3>2. CASE call'[i] = NextDelete(call[i])
      BY <2>1, <2>2, <3>2 DEF NextDelete, CallType
    <3> QED
      BY <2>3, <3>1, <3>2
  <2> QED
    BY <2>4, <2>5, <2>6, <2>7 DEF CallStep
<1>3. WaitInv(i)'
  BY <1>0, <1>2 DEF TInv, InstInv, WaitInv, MineAlready
<1>4. TableTypeOK'
  BY <1>0 DEF TInv, TableTypeOK
<1> QED
  BY <1>0, <1>1, <1>3, <1>4, Frame DEF InstInv

(* A SR_SetLocks call on behalf of a work area, for a table this instance  *)
(* has not listed, or for a lock other than FLOCK.                         *)
LEMMA AskKeeps ==
    ASSUME TypeOK, TInv, NEW i \in Instances, NEW w \in Areas, NEW t \in Tables,
           NEW list, NEW m, NEW at \in {"lockX", "lockF", "check", "share"},
           NEW n \in 1 .. LockTries,
           SetLocks(i, list, m), Goto(i, at, w, t, n), UNCHANGED << wa, aExclusive >>,
           ~\E v \in Areas : Leaving(i, v),
           at \in {"lockX", "lockF"} => ~MineAlready(i, t) /\ list[1] = FLOCK(t),
           at = "lockF" => wa[i][w].file = t,
           at # "lockF" => wa[i][w] = Closed
    PROVE  TInv'
<1>1. /\ call'[i].pc = "ins1" /\ call'[i].list = list /\ call'[i].ret = FALSE
      /\ run[i] = "up" /\ UNCHANGED << run, held >>
      /\ \A j \in Instances \ {i} : call'[j] = call[j]
  BY SetLocksFacts
<1>2. /\ op' \in [Instances -> OpType]
      /\ op'[i].at = at /\ op'[i].w = w /\ op'[i].t = t
      /\ \A j \in Instances \ {i} : op'[j] = op[j]
  BY GotoFacts DEF TInv, Points
<1>3. TableTypeOK'
  BY <1>2 DEF TInv, TableTypeOK
<1>4. ListInv(i)'
  BY DEF TInv, InstInv, ListInv
<1>5. EntryInv(i)'
  BY <1>1 DEF TInv, TableTypeOK, InstInv, EntryInv
<1>6. OpInv(i)'
  BY <1>1, <1>2 DEF OpInv
<1>7. WaitInv(i)'
  BY <1>1, <1>2 DEF WaitInv, SetPcs, MineAlready
<1> QED
  BY <1>1, <1>2, <1>3, <1>4, <1>5, <1>6, <1>7, Frame DEF InstInv

(* A SR_ReleaseLocks call on behalf of a work area: it may give up the     *)
(* FLOCK lock only of the area that is leaving the list.                   *)
LEMMA GiveKeeps ==
    ASSUME TypeOK, TInv, NEW i \in Instances, NEW w \in Areas, NEW t \in Tables,
           NEW list, NEW at \in {"uncheck", "unlock", "closeX", "closeS"},
           ReleaseLocks(i, list), Goto(i, at, w, t, 1), UNCHANGED wa,
           TableTypeOK', aExclusive'[i] \subseteq aExclusive[i],
           \A j \in Instances \ {i} : aExclusive'[j] = aExclusive[j],
           \A e \in aExclusive'[i] : e[1] # w \/ at = "uncheck" =>
               /\ ~Leaving(i, e[1])
               /\ \A k \in 1 .. Len(list) : list[k] # FLOCK(e[2]),
           at = "uncheck" => wa[i][w] = Closed,
           at # "uncheck" => wa[i][w].file = t,
           at = "closeS" => Entry(i, w)' = {}
    PROVE  TInv'
<1>1. /\ run[i] = "up" /\ UNCHANGED run
      /\ held'[i] = held[i] \ {list[k] : k \in 1 .. Len(list)}
      /\ \A j \in Instances \ {i} : call'[j] = call[j] /\ held'[j] = held[j]
  BY ReleaseLocksFacts
<1>2. /\ op'[i].at = at /\ op'[i].w = w /\ op'[i].t = t
      /\ \A j \in Instances \ {i} : op'[j] = op[j]
  BY GotoFacts, TableAssumption DEF TInv, Points
<1>4. ListInv(i)'
  BY DEF TInv, InstInv, ListInv
<1>5. EntryInv(i)'
  BY <1>1, <1>2 DEF TInv, InstInv, EntryInv, Leaving
<1>6. OpInv(i)'
  BY <1>1, <1>2 DEF OpInv
<1>7. WaitInv(i)'
  BY <1>2 DEF WaitInv
<1> QED
  BY <1>1, <1>2, <1>4, <1>5, <1>6, <1>7, Frame DEF InstInv

(* An operation that ends, or that needs no lock call: the lock manager    *)
(* stands still, one area may change and the list with it.                 *)
LEMMA EndKeeps ==
    ASSUME TypeOK, TInv, NEW i \in Instances, Quiet, TableTypeOK',
           Done(i) \/ (op[i].at = "none" /\ UNCHANGED op),
           \A j \in Instances \ {i} : wa'[j] = wa[j] /\ aExclusive'[j] = aExclusive[j],
           ListInv(i)', \A e \in aExclusive'[i] : FLOCK(e[2]) \in held[i]
    PROVE  TInv'
<1>1. op'[i].at = "none" /\ \A j \in Instances \ {i} : op'[j] = op[j]
  BY GotoFacts DEF TInv
<1>2. UNCHANGED << run, call, held >>
  BY DEF Quiet, vars
<1>3. EntryInv(i)' /\ OpInv(i)' /\ WaitInv(i)'
  BY <1>1, <1>2 DEF EntryInv, OpInv, WaitInv
<1> QED
  BY <1>1, <1>2, <1>3, Frame DEF InstInv

(* An instance between two operations has the FLOCK lock of every table it *)
(* lists.                                                                  *)
LEMMA NoneLeaves ==
    ASSUME TInv, NEW i \in Instances, op[i].at \notin {"unlock", "closeX", "closeS"}
    PROVE  /\ ~\E v \in Areas : Leaving(i, v)
           /\ \A e \in aExclusive[i] : ~Leaving(i, e[1]) /\ FLOCK(e[2]) \in held[i]
BY DEF TInv, InstInv, EntryInv, Leaving

(* USE EXCLUSIVE                                                           *)
LEMMA UseExclusiveKeeps ==
    ASSUME TypeOK, TInv, NEW i \in Instances, NEW w \in Areas, NEW t \in Tables,
           UseExclusive(i, w, t)
    PROVE  TInv'
<1>1. Ready(i) /\ wa[i][w] = Closed /\ op[i].at = "none"
  BY DEF UseExclusive, Ready
<1>2. CASE MineAlready(i, t)
  <2>1. SetArea(i, w, OpenedExclusive(t, FALSE)) /\ Quiet /\ UNCHANGED << aExclusive, op >>
    BY <1>2 DEF UseExclusive
  <2>2. /\ wa' \in [Instances -> [Areas -> Area]]
        /\ \A v \in Areas \ {w} : wa'[i][v] = wa[i][v]
        /\ \A j \in Instances \ {i} : wa'[j] = wa[j]
    BY <2>1, SetAreaFacts, AreaFacts DEF TInv
  <2>3. TableTypeOK'
    BY <2>1, <2>2 DEF TInv, TableTypeOK
  <2>4. ListInv(i)'
    BY <1>1, <2>1, <2>2, AreaFacts DEF TInv, TableTypeOK, InstInv, ListInv
  <2> QED
    BY <1>1, <2>1, <2>2, <2>3, <2>4, NoneLeaves, EndKeeps
<1>3. CASE ~MineAlready(i, t)
  <2>1. /\ SetLocks(i, ExclusiveList(t), LockRetries) /\ Goto(i, "lockX", w, t, 1)
        /\ UNCHANGED << wa, aExclusive >>
    BY <1>3 DEF UseExclusive
  <2>2. ExclusiveList(t)[1] = FLOCK(t) /\ 1 \in 1 .. LockTries
    BY TableAssumption DEF ExclusiveList
  <2> QED
    BY <1>1, <1>3, <2>1, <2>2, NoneLeaves, AskKeeps
<1> QED
  BY <1>2, <1>3

(* USE EXCLUSIVE, when SR_SetLocks has answered                            *)
LEMMA UseExclusiveReturnsKeeps ==
    ASSUME TypeOK, TInv, NEW i \in Instances, UseExclusiveReturns(i)
    PROVE  TInv'
<1> DEFINE w == op[i].w
           t == op[i].t
           n == op[i].tries
<1>1. /\ op[i].at = "lockX" /\ call[i].pc = "idle" /\ w \in Areas /\ t \in Tables
      /\ n \in 1 .. LockTries /\ wa[i][w] = Closed /\ ~MineAlready(i, t)
      /\ call[i].ret => FLOCK(t) \in held[i]
  BY DEF UseExclusiveReturns, Back, TInv, TableTypeOK, OpType, InstInv, OpInv, WaitInv
<1>2. CASE call[i].ret
  <2>1. SetArea(i, w, OpenedExclusive(t, TRUE)) /\ Enlist(i, w, t) /\ Done(i) /\ Quiet
    BY <1>2 DEF UseExclusiveReturns
  <2>2. /\ wa' \in [Instances -> [Areas -> Area]]
        /\ wa'[i][w] = OpenedExclusive(t, TRUE)
        /\ \A v \in Areas \ {w} : wa'[i][v] = wa[i][v]
        /\ \A j \in Instances \ {i} : wa'[j] = wa[j]
    <3> DEFINE a == OpenedExclusive(t, TRUE)
    <3>1. a \in Area /\ SetArea(i, w, a) /\ TableTypeOK
      BY <1>1, <2>1, AreaFacts, Zenon DEF TInv
    <3> HIDE DEF a
    <3>2. /\ wa' \in [Instances -> [Areas -> Area]] /\ wa'[i][w] = a
          /\ \A v \in Areas \ {w} : wa'[i][v] = wa[i][v]
          /\ \A j \in Instances \ {i} : wa'[j] = wa[j]
      BY <1>1, <3>1, SetAreaFacts
    <3> QED
      BY <3>2, Zenon DEF a
  <2>3. /\ aExclusive' \in [Instances -> SUBSET (Areas \X Tables)]
        /\ aExclusive'[i] = aExclusive[i] \cup {<< w, t >>}
        /\ \A j \in Instances \ {i} : aExclusive'[j] = aExclusive[j]
    BY <1>1, <2>1 DEF Enlist, TInv, TableTypeOK
  <2>4. TableTypeOK'
    BY <2>1, <2>2, <2>3, GotoFacts DEF TInv, TableTypeOK
  <2>5. \A e \in aExclusive[i] : e \in Areas \X Tables /\ e[1] # w /\ e[2] # t
    BY <1>1, AreaFacts DEF TInv, TableTypeOK, InstInv, ListInv, MineAlready
  <2>6. ListInv(i)'
    <3>1. wa'[i][w].file = t /\ wa'[i][w].lTableLocked
      BY <1>1, <2>2, AreaFacts
    <3>2. \A e \in aExclusive[i] : wa'[i][e[1]] = wa[i][e[1]]
      BY <2>2, <2>5
    <3> QED
      BY <1>1, <2>3, <2>5, <3>1, <3>2 DEF TInv, InstInv, ListInv
  <2>7. \A e \in aExclusive'[i] : FLOCK(e[2]) \in held[i]
    BY <1>1, <1>2, <2>3, NoneLeaves
  <2> QED
    BY <2>1, <2>2, <2>3, <2>4, <2>6, <2>7, EndKeeps
<1>3. CASE ~call[i].ret /\ n < LockTries
  <2>1. /\ SetLocks(i, ExclusiveList(t), LockRetries) /\ Goto(i, "lockX", w, t, n + 1)
        /\ UNCHANGED << wa, aExclusive >>
    <3>1. n # LockTries
      BY <1>1, <1>3, TableAssumption
    <3> QED
      BY <1>3, <3>1, Zenon DEF UseExclusiveReturns
  <2>2. ExclusiveList(t)[1] = FLOCK(t) /\ n + 1 \in 1 .. LockTries
    BY <1>1, <1>3, TableAssumption DEF ExclusiveList
  <2>3. ~\E v \in Areas : Leaving(i, v)
    BY <1>1, NoneLeaves
  <2> HIDE DEF w, t, n
  <2> QED
    BY <1>1, <2>1, <2>2, <2>3, AskKeeps
<1>4. CASE ~call[i].ret /\ n = LockTries
  <2>1. Done(i) /\ Quiet /\ UNCHANGED << wa, aExclusive >>
    <3>1. ~(n < LockTries)
      BY <1>1, <1>4, TableAssumption
    <3> QED
      BY <1>4, <3>1, Zenon DEF UseExclusiveReturns
  <2>2. TableTypeOK'
    BY <2>1, GotoFacts DEF TInv, TableTypeOK
  <2>3. ListInv(i)'
    BY <2>1 DEF TInv, InstInv, ListInv
  <2>4. \A e \in aExclusive'[i] : FLOCK(e[2]) \in held[i]
    BY <1>1, <2>1, NoneLeaves
  <2> QED
    BY <2>1, <2>2, <2>3, <2>4, EndKeeps
<1> QED
  BY <1>1, <1>2, <1>3, <1>4, TableAssumption

(* USE SHARED, and the answers to its lock calls                           *)
LEMMA UseSharedKeeps ==
    ASSUME TypeOK, TInv, NEW i \in Instances, NEW w \in Areas, NEW t \in Tables,
           UseShared(i, w, t)
    PROVE  TInv'
<1>1. Ready(i) /\ wa[i][w] = Closed /\ op[i].at = "none" /\ UNCHANGED << wa, aExclusive >>
  BY DEF UseShared, Ready
<1>2. ~(\E v \in Areas : Leaving(i, v)) /\ 1 \in 1 .. LockTries
  BY <1>1, NoneLeaves, TableAssumption
<1>3. CASE SetLocks(i, << SHARED(t) >>, 0) /\ Goto(i, "share", w, t, 1)
  BY <1>1, <1>2, <1>3, AskKeeps
<1>4. CASE SetLocks(i, << EXC(t) >>, LockRetries) /\ Goto(i, "check", w, t, 1)
  BY <1>1, <1>2, <1>4, AskKeeps
<1> QED
  BY <1>3, <1>4 DEF UseShared

(* A failed open leaves areas and list as they are.                        *)
LEMMA GiveUpKeeps ==
    ASSUME TypeOK, TInv, NEW i \in Instances, Done(i), Quiet, UNCHANGED << wa, aExclusive >>,
           op[i].at \notin {"unlock", "closeX", "closeS"}
    PROVE  TInv'
<1>1. TableTypeOK'
  BY GotoFacts DEF TInv, TableTypeOK
<1>2. ListInv(i)'
  BY DEF TInv, InstInv, ListInv
<1>3. \A e \in aExclusive'[i] : FLOCK(e[2]) \in held[i]
  BY NoneLeaves
<1> QED
  BY <1>1, <1>2, <1>3, EndKeeps

(* LockTable(.T.): released again, tried again, or given up                *)
LEMMA CheckReturnsKeeps ==
    ASSUME TypeOK, TInv, NEW i \in Instances, CheckReturns(i)
    PROVE  TInv'
<1> DEFINE w == op[i].w
           t == op[i].t
           n == op[i].tries
<1>1. /\ op[i].at = "check" /\ w \in Areas /\ t \in Tables
      /\ n \in 1 .. LockTries /\ wa[i][w] = Closed /\ UNCHANGED << wa, aExclusive >>
  BY DEF CheckReturns, Back, TInv, TableTypeOK, OpType, InstInv, OpInv
<1>2. /\ ~\E v \in Areas : Leaving(i, v)
      /\ \A e \in aExclusive[i] : ~Leaving(i, e[1])
  BY <1>1, NoneLeaves
<1>3. CASE ReleaseLocks(i, << EXC(t) >>) /\ Goto(i, "uncheck", w, t, 1)
  <2> DEFINE list == << EXC(t) >>
  <2>1. \A e \in aExclusive'[i] : \A k \in 1 .. Len(list) : list[k] # FLOCK(e[2])
    BY DEF EXC, FLOCK
  <2>2. TableTypeOK'
    BY <1>1, <1>3, GotoFacts, TableAssumption DEF TInv, TableTypeOK, Points
  <2>3. \A e \in aExclusive'[i] : ~Leaving(i, e[1])
    BY <1>1, <1>2
  <2>4. aExclusive'[i] \subseteq aExclusive[i]
        /\ \A j \in Instances \ {i} : aExclusive'[j] = aExclusive[j]
    BY <1>1
  <2> HIDE DEF list
  <2>5. ReleaseLocks(i, list)
    BY <1>3 DEF list
  <2> HIDE DEF w, t
  <2> QED
    BY <1>1, <1>3, <2>1, <2>2, <2>3, <2>4, <2>5, GiveKeeps
<1>4. CASE /\ n < LockTries /\ SetLocks(i, << EXC(t) >>, LockRetries)
           /\ Goto(i, "check", w, t, n + 1)
  <2>1. n + 1 \in 1 .. LockTries
    BY <1>1, <1>4, TableAssumption
  <2> HIDE DEF w, t, n
  <2> QED
    BY <1>1, <1>2, <1>4, <2>1, AskKeeps
<1>5. CASE Done(i) /\ Quiet
  BY <1>1, <1>5, GiveUpKeeps
<1> QED
  BY <1>3, <1>4, <1>5 DEF CheckReturns

(* The EXC lock is back: SR_SetLocks for the SHARED lock                   *)
LEMMA UncheckReturnsKeeps ==
    ASSUME TypeOK, TInv, NEW i \in Instances, UncheckReturns(i)
    PROVE  TInv'
<1> DEFINE w == op[i].w
           t == op[i].t
<1>1. /\ op[i].at = "uncheck" /\ w \in Areas /\ t \in Tables
      /\ wa[i][w] = Closed /\ UNCHANGED << wa, aExclusive >>
      /\ SetLocks(i, << SHARED(t) >>, 0) /\ Goto(i, "share", w, t, 1)
  BY DEF UncheckReturns, Back, TInv, TableTypeOK, OpType, InstInv, OpInv
<1>2. ~(\E v \in Areas : Leaving(i, v)) /\ 1 \in 1 .. LockTries
  BY <1>1, NoneLeaves, TableAssumption
<1> HIDE DEF w, t
<1> QED
  BY <1>1, <1>2, AskKeeps

(* A closed area is replaced by an open one that lists nothing.            *)
LEMMA OpenKeeps ==
    ASSUME TypeOK, TInv, NEW i \in Instances, NEW w \in Areas, NEW a \in Area,
           wa[i][w] = Closed, SetArea(i, w, a), UNCHANGED aExclusive, Done(i), Quiet,
           op[i].at \notin {"unlock", "closeX", "closeS"}
    PROVE  TInv'
<1>1. /\ wa' \in [Instances -> [Areas -> Area]]
      /\ \A v \in Areas \ {w} : wa'[i][v] = wa[i][v]
      /\ \A j \in Instances \ {i} : wa'[j] = wa[j]
  BY SetAreaFacts DEF TInv
<1>2. TableTypeOK'
  BY <1>1, GotoFacts DEF TInv, TableTypeOK
<1>3. \A e \in aExclusive[i] : e[1] \in Areas \ {w}
  BY AreaFacts DEF TInv, TableTypeOK, InstInv, ListInv
<1>4. ListInv(i)'
  BY <1>1, <1>3 DEF TInv, InstInv, ListInv
<1>5. \A e \in aExclusive'[i] : FLOCK(e[2]) \in held[i]
  BY NoneLeaves
<1> QED
  BY <1>1, <1>2, <1>4, <1>5, EndKeeps

(* The shared open ends, with or without the SHARED lock.                  *)
LEMMA ShareReturnsKeeps ==
    ASSUME TypeOK, TInv, NEW i \in Instances, ShareReturns(i)
    PROVE  TInv'
<1> DEFINE w == op[i].w
           t == op[i].t
           a == [file |-> t, shared |-> TRUE, lTableLocked |-> FALSE,
                 lSharedLock |-> call[i].ret]
<1>1. op[i].at = "share" /\ w \in Areas /\ t \in Tables /\ wa[i][w] = Closed
  BY DEF ShareReturns, Back, TInv, TableTypeOK, OpType, InstInv, OpInv
<1>2. a \in Area
  BY <1>1 DEF Area, TypeOK, CallType
<1>3. SetArea(i, w, a) /\ Done(i) /\ Quiet /\ UNCHANGED aExclusive
  BY Zenon DEF ShareReturns
<1> HIDE DEF w, a
<1> QED
  BY <1>1, <1>2, <1>3, OpenKeeps

(* lTableLocked of an area changes; the list changes with it or not.       *)
LEMMA LockedKeeps ==
    ASSUME TypeOK, TInv, NEW i \in Instances, NEW w \in Areas, NEW a \in Area,
           a.file = wa[i][w].file, SetArea(i, w, a), Quiet,
           Done(i) \/ (op[i].at = "none" /\ UNCHANGED op),
           aExclusive' \in [Instances -> SUBSET (Areas \X Tables)],
           \A j \in Instances \ {i} : aExclusive'[j] = aExclusive[j],
           \A e \in aExclusive'[i] :
               /\ FLOCK(e[2]) \in held[i]
               /\ e[1] = w => a.lTableLocked /\ e[2] = wa[i][w].file
               /\ e[1] # w => e \in aExclusive[i]
               /\ \A f \in aExclusive'[i] : f[2] = e[2] => f = e
    PROVE  TInv'
<1>3. /\ wa' \in [Instances -> [Areas -> Area]] /\ wa'[i][w] = a
      /\ \A v \in Areas \ {w} : wa'[i][v] = wa[i][v]
      /\ \A j \in Instances \ {i} : wa'[j] = wa[j]
  BY SetAreaFacts DEF TInv
<1>4. TableTypeOK'
  BY <1>3, GotoFacts DEF TInv, TableTypeOK
<1>5. ListInv(i)'
  <2> SUFFICES ASSUME NEW e \in aExclusive'[i]
               PROVE  wa'[i][e[1]].file = e[2] /\ wa'[i][e[1]].lTableLocked
    BY DEF ListInv
  <2>1. e[1] \in Areas
    BY <1>4 DEF TableTypeOK
  <2>2. CASE e[1] = w
    BY <1>3, <2>2
  <2>3. CASE e[1] # w
    BY <1>3, <2>1, <2>3 DEF TInv, InstInv, ListInv
  <2> QED
    BY <2>2, <2>3
<1> QED
  BY <1>3, <1>4, <1>5, EndKeeps

(* FLock()                                                                 *)
LEMMA FLockKeeps ==
    ASSUME TypeOK, TInv, NEW i \in Instances, NEW w \in Areas, FLock(i, w)
    PROVE  TInv'
<1> DEFINE t == wa[i][w].file
<1>1. op[i].at = "none" /\ t \in Tables
  BY DEF FLock, Ready, TInv, TableTypeOK, Area
<1>2. CASE MineAlready(i, t)
  <2>1. /\ SetArea(i, w, TableLocked(wa[i][w], TRUE)) /\ Quiet
        /\ UNCHANGED << aExclusive, op >>
    BY <1>2, Zenon DEF FLock
  <2>2. \A e \in aExclusive'[i] :
               /\ FLOCK(e[2]) \in held[i]
               /\ e[1] = w => e[2] = wa[i][w].file
               /\ e[1] # w => e \in aExclusive[i]
               /\ \A f \in aExclusive'[i] : f[2] = e[2] => f = e
    BY <1>1, <2>1, NoneLeaves DEF TInv, InstInv, ListInv
  <2>3. /\ aExclusive' \in [Instances -> SUBSET (Areas \X Tables)]
        /\ \A j \in Instances \ {i} : aExclusive'[j] = aExclusive[j]
    BY <2>1 DEF TInv, TableTypeOK
  <2>4. op[i].at = "none" /\ UNCHANGED op
    BY <1>1, <2>1
  <2> DEFINE a == TableLocked(wa[i][w], TRUE)
  <2>5. a \in Area /\ a.file = wa[i][w].file /\ a.lTableLocked /\ SetArea(i, w, a) /\ Quiet
    <3>1. wa[i][w] \in Area
      BY DEF TInv, TableTypeOK
    <3> QED
      BY <2>1, <3>1, TableLockedFacts, Zenon
  <2> HIDE DEF t, a
  <2> QED
    BY <2>2, <2>3, <2>4, <2>5, LockedKeeps
<1>3. CASE ~MineAlready(i, t)
  <2>1. /\ SetLocks(i, << FLOCK(t) >>, LockRetries) /\ Goto(i, "lockF", w, t, 1)
        /\ UNCHANGED << wa, aExclusive >>
    BY <1>3 DEF FLock
  <2>2. << FLOCK(t) >>[1] = FLOCK(t) /\ 1 \in 1 .. LockTries /\ t = wa[i][w].file
    BY TableAssumption
  <2>3. ~\E v \in Areas : Leaving(i, v)
    BY <1>1, NoneLeaves
  <2> HIDE DEF t
  <2> QED
    BY <1>1, <1>3, <2>1, <2>2, <2>3, AskKeeps
<1> QED
  BY <1>2, <1>3

(* FLock(), when SR_SetLocks has answered                                  *)
LEMMA FLockReturnsKeeps ==
    ASSUME TypeOK, TInv, NEW i \in Instances, FLockReturns(i)
    PROVE  TInv'
<1> DEFINE w == op[i].w
           t == op[i].t
           n == op[i].tries
<1>1. /\ op[i].at = "lockF" /\ call[i].pc = "idle" /\ w \in Areas /\ t \in Tables
      /\ n \in 1 .. LockTries /\ wa[i][w].file = t /\ ~MineAlready(i, t)
      /\ call[i].ret => FLOCK(t) \in held[i]
  BY DEF FLockReturns, Back, TInv, TableTypeOK, OpType, InstInv, OpInv, WaitInv
<1>2. CASE call[i].ret
  <2>1. /\ SetArea(i, w, TableLocked(wa[i][w], TRUE)) /\ Enlist(i, w, t) /\ Done(i) /\ Quiet
    BY <1>2, Zenon DEF FLockReturns
  <2>2. /\ aExclusive' \in [Instances -> SUBSET (Areas \X Tables)]
        /\ aExclusive'[i] = aExclusive[i] \cup {<< w, t >>}
        /\ \A j \in Instances \ {i} : aExclusive'[j] = aExclusive[j]
    BY <1>1, <2>1 DEF Enlist, TInv, TableTypeOK
  <2>3. \A e \in aExclusive[i] : e[2] # t
    BY <1>1 DEF MineAlready
  <2>4. \A e \in aExclusive[i] : e[1] # w
    BY <1>1, <2>3 DEF TInv, InstInv, ListInv
  <2>5. ASSUME NEW e \in aExclusive'[i]
        PROVE  /\ FLOCK(e[2]) \in held[i]
               /\ e[1] = w => e[2] = wa[i][w].file
               /\ e[1] # w => e \in aExclusive[i]
               /\ \A f \in aExclusive'[i] : f[2] = e[2] => f = e
    <3>1. CASE e \in aExclusive[i]
      BY <1>1, <2>2, <2>3, <2>4, <3>1, NoneLeaves DEF TInv, InstInv, ListInv
    <3>2. CASE e = << w, t >>
      BY <1>1, <1>2, <2>2, <2>3, <3>2
    <3> QED
      BY <2>2, <3>1, <3>2
  <2> DEFINE a == TableLocked(wa[i][w], TRUE)
  <2>6. /\ a \in Area /\ a.file = wa[i][w].file /\ a.lTableLocked
        /\ SetArea(i, w, a) /\ Quiet /\ Done(i)
    <3>1. wa[i][w] \in Area
      BY <1>1 DEF TInv, TableTypeOK
    <3> QED
      BY <2>1, <3>1, TableLockedFacts, Zenon
  <2> HIDE DEF w, t, a
  <2> QED
    BY <1>1, <2>2, <2>5, <2>6, LockedKeeps
<1>3. CASE ~call[i].ret /\ n < LockTries
  <2>1. /\ SetLocks(i, << FLOCK(t) >>, LockRetries) /\ Goto(i, "lockF", w, t, n + 1)
        /\ UNCHANGED << wa, aExclusive >>
    <3>1. n # LockTries
      BY <1>1, <1>3, TableAssumption
    <3> QED
      BY <1>3, <3>1, Zenon DEF FLockReturns
  <2>2. << FLOCK(t) >>[1] = FLOCK(t) /\ n + 1 \in 1 .. LockTries
    BY <1>1, <1>3, TableAssumption
  <2>3. ~\E v \in Areas : Leaving(i, v)
    BY <1>1, NoneLeaves
  <2> HIDE DEF w, t, n
  <2> QED
    BY <1>1, <2>1, <2>2, <2>3, AskKeeps
<1>4. CASE ~call[i].ret /\ n = LockTries
  <2>1. Done(i) /\ Quiet /\ UNCHANGED << wa, aExclusive >>
    <3>1. ~(n < LockTries)
      BY <1>1, <1>4, TableAssumption
    <3> QED
      BY <1>4, <3>1, Zenon DEF FLockReturns
  <2> QED
    BY <1>1, <2>1, GiveUpKeeps
<1> QED
  BY <1>1, <1>2, <1>3, <1>4, TableAssumption

(* The area's entry goes, and with it the only claim on the FLOCK lock     *)
(* that UnlockTable releases.                                              *)
LEMMA ReleaseTableKeeps ==
    ASSUME TypeOK, TInv, NEW i \in Instances, NEW w \in Areas, op[i].at = "none",
           wa[i][w].file # NoTable, Entry(i, w) # {}, NEW at \in {"unlock", "closeX"},
           ReleaseTable(i, w), Goto(i, at, w, wa[i][w].file, 1), UNCHANGED << wa, aExclusive >>
    PROVE  TInv'
<1> DEFINE t == wa[i][w].file
           list == << EXC(t), FLOCK(t) >>
<1>1. t \in Tables
  BY DEF TInv, TableTypeOK, Area
<1>2. PICK e0 \in aExclusive[i] : e0[1] = w /\ e0[2] = t
  BY DEF Entry, TInv, InstInv, ListInv
<1>3. ASSUME NEW e \in aExclusive[i], e[1] # w
      PROVE  ~Leaving(i, e[1]) /\ \A k \in 1 .. Len(list) : list[k] # FLOCK(e[2])
  <2>1. e[2] # t
    BY <1>2, <1>3 DEF TInv, InstInv, ListInv
  <2>2. FLOCK(t) # FLOCK(e[2]) /\ EXC(t) # FLOCK(e[2])
    BY <2>1 DEF EXC, FLOCK
  <2>3. ~Leaving(i, e[1])
    BY NoneLeaves
  <2> QED
    BY <2>2, <2>3
<1>4. TableTypeOK' /\ ReleaseLocks(i, list)
  <2>1. at \in Points /\ 1 \in 1 .. LockTries
    BY TableAssumption DEF Points
  <2>2. op' \in [Instances -> OpType]
    BY <1>1, <2>1, GotoFacts DEF TInv
  <2> QED
    BY <2>2 DEF TInv, TableTypeOK, ReleaseTable
<1>5. Goto(i, at, w, t, 1) /\ wa[i][w].file = t
  OBVIOUS
<1>6. \A e \in aExclusive'[i] : e[1] # w =>
          ~Leaving(i, e[1]) /\ \A k \in 1 .. Len(list) : list[k] # FLOCK(e[2])
  BY <1>3
<1> HIDE DEF t, list
<1> QED
  BY <1>1, <1>4, <1>5, <1>6, GiveKeeps

(* dbUnlock()                                                              *)
LEMMA UnLockKeeps ==
    ASSUME TypeOK, TInv, NEW i \in Instances, NEW w \in Areas, UnLock(i, w)
    PROVE  TInv'
<1>1. op[i].at = "none" /\ wa[i][w].file # NoTable
  BY DEF UnLock, Ready
<1>2. CASE Entry(i, w) = {}
  <2> DEFINE a == TableLocked(wa[i][w], FALSE)
  <2>1. /\ a \in Area /\ a.file = wa[i][w].file /\ SetArea(i, w, a) /\ Quiet
        /\ UNCHANGED << aExclusive, op >>
    <3>1. wa[i][w] \in Area
      BY DEF TInv, TableTypeOK
    <3> QED
      BY <1>2, <3>1, TableLockedFacts, Zenon DEF UnLock
  <2>2. \A e \in aExclusive'[i] :
            /\ FLOCK(e[2]) \in held[i] /\ e[1] # w /\ e \in aExclusive[i]
            /\ \A f \in aExclusive'[i] : f[2] = e[2] => f = e
    BY <1>1, <1>2, <2>1, NoneLeaves DEF Entry, TInv, InstInv, ListInv
  <2>3. /\ aExclusive' \in [Instances -> SUBSET (Areas \X Tables)]
        /\ \A j \in Instances \ {i} : aExclusive'[j] = aExclusive[j]
    BY <2>1 DEF TInv, TableTypeOK
  <2> HIDE DEF a
  <2> QED
    BY <1>1, <2>1, <2>2, <2>3, LockedKeeps
<1>3. CASE Entry(i, w) # {}
  BY <1>1, <1>3, ReleaseTableKeeps DEF UnLock
<1> QED
  BY <1>2, <1>3

(* The entries that remain when one area leaves the list.                  *)
EntriesLeft(i, w) ==
    /\ aExclusive' \in [Instances -> SUBSET (Areas \X Tables)]
    /\ \A j \in Instances \ {i} : aExclusive'[j] = aExclusive[j]
    /\ aExclusive'[i] \subseteq aExclusive[i]
    /\ \A e \in aExclusive'[i] :
          /\ e[1] \in Areas \ {w} /\ ~Leaving(i, e[1]) /\ FLOCK(e[2]) \in held[i]
          /\ \A f \in aExclusive'[i] : f[2] = e[2] => f = e

(* They are the entries of the other areas, and none of those is leaving.  *)
LEMMA EntryGone ==
    ASSUME TInv, NEW i \in Instances, NEW w \in Areas,
           aExclusive' = [aExclusive EXCEPT ![i] = @ \ Entry(i, w)],
           \A v \in Areas : Leaving(i, v) => v = w
    PROVE  EntriesLeft(i, w)
<1>1. /\ aExclusive' \in [Instances -> SUBSET (Areas \X Tables)]
      /\ \A j \in Instances \ {i} : aExclusive'[j] = aExclusive[j]
      /\ aExclusive'[i] = {e \in aExclusive[i] : e[1] # w}
  BY DEF TInv, TableTypeOK, Entry
<1> QED
  BY <1>1 DEF TInv, TableTypeOK, InstInv, ListInv, EntryInv, EntriesLeft

(* dbUnlock(), when the rows are gone                                      *)
LEMMA UnLockReturnsKeeps ==
    ASSUME TypeOK, TInv, NEW i \in Instances, UnLockReturns(i)
    PROVE  TInv'
<1> DEFINE w == op[i].w
           a == TableLocked(wa[i][w], FALSE)
<1>1. /\ w \in Areas /\ a \in Area /\ a.file = wa[i][w].file /\ SetArea(i, w, a)
      /\ aExclusive' = [aExclusive EXCEPT ![i] = @ \ Entry(i, w)] /\ Done(i) /\ Quiet
  <2>1. w \in Areas /\ wa[i][w] \in Area
    BY DEF TInv, TableTypeOK, OpType
  <2> QED
    BY <2>1, TableLockedFacts, Zenon DEF UnLockReturns
<1>2. \A v \in Areas : Leaving(i, v) => v = w
  BY DEF Leaving
<1> HIDE DEF w, a
<1>3. /\ aExclusive' \in [Instances -> SUBSET (Areas \X Tables)]
      /\ \A j \in Instances \ {i} : aExclusive'[j] = aExclusive[j]
      /\ aExclusive'[i] \subseteq aExclusive[i]
      /\ \A e \in aExclusive'[i] :
            /\ e[1] \in Areas \ {w} /\ ~Leaving(i, e[1]) /\ FLOCK(e[2]) \in held[i]
            /\ \A f \in aExclusive'[i] : f[2] = e[2] => f = e
  <2>1. EntriesLeft(i, w)
    BY <1>1, <1>2, EntryGone
  <2> QED
    BY <2>1 DEF EntriesLeft
<1> QED
  BY <1>1, <1>3, LockedKeeps

(* An area that lists nothing is closed.                                   *)
LEMMA CloseAreaKeeps ==
    ASSUME TypeOK, TInv, NEW i \in Instances, NEW w \in Areas,
           SetArea(i, w, Closed), Done(i), Quiet,
           aExclusive' \in [Instances -> SUBSET (Areas \X Tables)],
           aExclusive'[i] \subseteq aExclusive[i],
           \A j \in Instances \ {i} : aExclusive'[j] = aExclusive[j],
           \A e \in aExclusive'[i] : e[1] \in Areas \ {w} /\ FLOCK(e[2]) \in held[i]
    PROVE  TInv'
<1>1. /\ wa' \in [Instances -> [Areas -> Area]]
      /\ \A v \in Areas \ {w} : wa'[i][v] = wa[i][v]
      /\ \A j \in Instances \ {i} : wa'[j] = wa[j]
  BY SetAreaFacts, AreaFacts DEF TInv
<1>2. TableTypeOK'
  BY <1>1, GotoFacts DEF TInv, TableTypeOK
<1>3. ListInv(i)'
  BY <1>1 DEF TInv, InstInv, ListInv
<1> QED
  BY <1>1, <1>2, <1>3, EndKeeps

(* The second half of sqlClose: the SHARED lock, or the end.               *)
LEMMA CloseSharedKeeps ==
    ASSUME TypeOK, TInv, NEW i \in Instances, NEW w \in Areas, CloseShared(i, w),
           wa[i][w].file \in Tables,
           aExclusive' \in [Instances -> SUBSET (Areas \X Tables)],
           aExclusive'[i] \subseteq aExclusive[i],
           \A j \in Instances \ {i} : aExclusive'[j] = aExclusive[j],
           \A e \in aExclusive'[i] :
               e[1] \in Areas \ {w} /\ ~Leaving(i, e[1]) /\ FLOCK(e[2]) \in held[i]
    PROVE  TInv'
<1> DEFINE t == wa[i][w].file
           list == << SHARED(t) >>
<1>1. CASE ReleaseLocks(i, list) /\ Goto(i, "closeS", w, t, 1) /\ UNCHANGED wa
  <2>1. TableTypeOK'
    BY <1>1, GotoFacts, TableAssumption DEF TInv, TableTypeOK, Points
  <2>2. \A e \in aExclusive'[i] : \A k \in 1 .. Len(list) : list[k] # FLOCK(e[2])
    BY DEF SHARED, FLOCK
  <2>3. Entry(i, w)' = {}
    BY DEF Entry
  <2>4. wa[i][w].file = t /\ t \in Tables
    OBVIOUS
  <2>5. \A e \in aExclusive'[i] : ~Leaving(i, e[1])
    OBVIOUS
  <2> HIDE DEF t, list
  <2> QED
    BY <1>1, <2>1, <2>2, <2>3, <2>4, <2>5, GiveKeeps
<1>2. CASE SetArea(i, w, Closed) /\ Done(i) /\ Quiet
  BY <1>2, CloseAreaKeeps
<1> QED
  BY <1>1, <1>2, Zenon DEF CloseShared

(* sqlClose                                                                *)
LEMMA CloseKeeps ==
    ASSUME TypeOK, TInv, NEW i \in Instances, NEW w \in Areas, Close(i, w)
    PROVE  TInv'
<1>1. op[i].at = "none" /\ wa[i][w].file \in Tables /\ UNCHANGED aExclusive
  BY DEF Close, Ready, TInv, TableTypeOK, Area
<1>2. CASE wa[i][w].lTableLocked /\ Entry(i, w) # {}
  <2>1. ReleaseTable(i, w) /\ Goto(i, "closeX", w, wa[i][w].file, 1) /\ UNCHANGED wa
    BY <1>2, Zenon DEF Close
  <2> QED
    BY <1>1, <1>2, <2>1, ReleaseTableKeeps, TableAssumption
<1>3. CASE ~wa[i][w].lTableLocked \/ Entry(i, w) = {}
  <2>1. CloseShared(i, w)
    BY <1>3, Zenon DEF Close
  <2>2. \A e \in aExclusive[i] : e[1] # w
    BY <1>3 DEF Entry, TInv, InstInv, ListInv
  <2>3. /\ aExclusive' \in [Instances -> SUBSET (Areas \X Tables)]
        /\ aExclusive'[i] \subseteq aExclusive[i]
        /\ \A j \in Instances \ {i} : aExclusive'[j] = aExclusive[j]
    BY <1>1 DEF TInv, TableTypeOK
  <2>4. \A e \in aExclusive'[i] :
            e[1] \in Areas \ {w} /\ ~Leaving(i, e[1]) /\ FLOCK(e[2]) \in held[i]
    BY <1>1, <2>2, NoneLeaves DEF TInv, TableTypeOK
  <2> QED
    BY <1>1, <2>1, <2>3, <2>4, CloseSharedKeeps
<1> QED
  BY <1>2, <1>3

(* sqlClose, when UnlockTable's rows are gone, and when the SHARED one is  *)
LEMMA CloseReturnsKeeps ==
    ASSUME TypeOK, TInv, NEW i \in Instances, CloseXReturns(i) \/ CloseSReturns(i)
    PROVE  TInv'
<1> DEFINE w == op[i].w
<1>1. w \in Areas /\ op[i].t \in Tables
  BY DEF TInv, TableTypeOK, OpType
<1>2. \A v \in Areas : Leaving(i, v) => v = w
  BY DEF Leaving
<1>3. CASE CloseXReturns(i)
  <2>1. /\ aExclusive' = [aExclusive EXCEPT ![i] = @ \ Entry(i, w)] /\ CloseShared(i, w)
        /\ wa[i][w].file \in Tables
    BY <1>1, <1>3 DEF CloseXReturns, Back, TInv, InstInv, OpInv
  <2> HIDE DEF w
  <2>2. /\ aExclusive' \in [Instances -> SUBSET (Areas \X Tables)]
        /\ \A j \in Instances \ {i} : aExclusive'[j] = aExclusive[j]
        /\ aExclusive'[i] \subseteq aExclusive[i]
        /\ \A e \in aExclusive'[i] :
              /\ e[1] \in Areas \ {w} /\ ~Leaving(i, e[1]) /\ FLOCK(e[2]) \in held[i]
              /\ \A f \in aExclusive'[i] : f[2] = e[2] => f = e
    <3>1. EntriesLeft(i, w)
      BY <1>1, <1>2, <2>1, EntryGone
    <3> QED
      BY <3>1 DEF EntriesLeft
  <2> QED
    BY <1>1, <2>1, <2>2, CloseSharedKeeps
<1>4. CASE CloseSReturns(i)
  <2>1. /\ SetArea(i, w, Closed) /\ Done(i) /\ Quiet /\ UNCHANGED aExclusive
        /\ Entry(i, w) = {}
    BY <1>4 DEF CloseSReturns, Back, TInv, InstInv, OpInv
  <2>2. /\ aExclusive' \in [Instances -> SUBSET (Areas \X Tables)]
        /\ aExclusive'[i] \subseteq aExclusive[i]
        /\ \A j \in Instances \ {i} : aExclusive'[j] = aExclusive[j]
    BY <2>1 DEF TInv, TableTypeOK
  <2>3. \A e \in aExclusive'[i] : e[1] \in Areas \ {w} /\ FLOCK(e[2]) \in held[i]
    BY <1>2, <2>1 DEF Entry, TInv, TableTypeOK, InstInv, EntryInv
  <2> HIDE DEF w
  <2> QED
    BY <1>1, <2>1, <2>2, <2>3, CloseAreaKeeps
<1> QED
  BY <1>3, <1>4

(* Start-up, death and foreign sessions                                    *)
LEMMA LifeKeeps ==
    ASSUME TypeOK, TInv,
           \/ (OtherLogin \/ OtherLogout) /\ UNCHANGED tvars
           \/ \E i \in Instances : \/ (AddConnection(i) \/ SetEnv(i)) /\ UNCHANGED tvars
                                   \/ TableCrash(i)
           \/ UNCHANGED allVars
    PROVE  TInv'
<1>1. ASSUME UNCHANGED << wa, aExclusive, op, call, held >>,
             \A j \in Instances : run[j] = "up" => run'[j] = "up"
      PROVE  TInv'
  BY <1>1 DEF TInv, TableTypeOK, InstInv, ListInv, EntryInv, OpInv, WaitInv, Leaving,
              Entry, MineAlready
<1>2. CASE (OtherLogin \/ OtherLogout) /\ UNCHANGED tvars
  BY <1>1, <1>2 DEF OtherLogin, OtherLogout, tvars
<1>3. ASSUME NEW i \in Instances, AddConnection(i) \/ SetEnv(i), UNCHANGED tvars
      PROVE  TInv'
  BY <1>1, <1>3 DEF AddConnection, SetEnv, tvars, TypeOK
<1>4. ASSUME NEW i \in Instances, TableCrash(i) PROVE TInv'
  <2>1. /\ wa' = [wa EXCEPT ![i] = [w \in Areas |-> Closed]] /\ Done(i)
        /\ aExclusive' = [aExclusive EXCEPT ![i] = {}]
    BY <1>4 DEF TableCrash, Done
  <2>2. /\ op' \in [Instances -> OpType] /\ op'[i].at = "none"
        /\ \A j \in Instances \ {i} : op'[j] = op[j]
    BY <2>1, GotoFacts DEF TInv
  <2>3. TableTypeOK' /\ aExclusive'[i] = {}
    BY <2>1, <2>2, AreaFacts DEF TInv, TableTypeOK
  <2>4. InstInv(i)'
    BY <2>2, <2>3 DEF InstInv, ListInv, EntryInv, OpInv, WaitInv
  <2>5. \A j \in Instances \ {i} :
            /\ wa'[j] = wa[j] /\ aExclusive'[j] = aExclusive[j]
            /\ call'[j] = call[j] /\ held'[j] = held[j] /\ run'[j] = run[j]
    BY <1>4, <2>1 DEF TableCrash, Crash, TInv, TableTypeOK, TypeOK
  <2> QED
    BY <2>2, <2>3, <2>4, <2>5, Frame
<1>5. CASE UNCHANGED allVars
  BY <1>1, <1>5 DEF allVars
<1> QED
  BY <1>2, <1>3, <1>4, <1>5

(* Every step of table locking preserves the invariant.                    *)
LEMMA TInvStep == ASSUME IInv, TInv, [TableNext]_allVars PROVE TInv'
<1>0. TypeOK
  BY DEF IInv
<1>1. ASSUME NEW i \in Instances, Returns(i) PROVE TInv'
  BY <1>0, <1>1, UseExclusiveReturnsKeeps, CheckReturnsKeeps, UncheckReturnsKeeps,
     ShareReturnsKeeps, FLockReturnsKeeps, UnLockReturnsKeeps, CloseReturnsKeeps
  DEF Returns
<1>2. ASSUME NEW i \in Instances, CallStep(i), UNCHANGED tvars PROVE TInv'
  BY <1>2, CallStepKeeps
<1>3. ASSUME NEW i \in Instances, NEW w \in Areas, FLock(i, w) \/ UnLock(i, w) \/ Close(i, w)
      PROVE  TInv'
  BY <1>0, <1>3, FLockKeeps, UnLockKeeps, CloseKeeps
<1>4. ASSUME NEW i \in Instances, NEW w \in Areas, NEW t \in Tables,
             UseExclusive(i, w, t) \/ UseShared(i, w, t)
      PROVE  TInv'
  BY <1>0, <1>4, UseExclusiveKeeps, UseSharedKeeps
<1>5. CASE \/ (OtherLogin \/ OtherLogout) /\ UNCHANGED tvars
           \/ \E i \in Instances : \/ (AddConnection(i) \/ SetEnv(i)) /\ UNCHANGED tvars
                                   \/ TableCrash(i)
           \/ UNCHANGED allVars
  BY <1>0, <1>5, LifeKeeps
<1> QED
  BY <1>1, <1>2, <1>3, <1>4, <1>5 DEF TableNext, Progress

-----------------------------------------------------------------------------
(* The theorems                                                            *)

(* Initially no area is open and nothing is listed.                        *)
LEMMA InitTInv == TableInit => TInv
<1> SUFFICES ASSUME TableInit PROVE TInv
  OBVIOUS
<1>1. NoOp \in OpType /\ NoOp.at = "none"
  BY TableAssumption DEF NoOp, OpType, Points
<1>2. TableTypeOK
  BY <1>1, AreaFacts DEF TableInit, TableTypeOK
<1>3. ASSUME NEW i \in Instances PROVE InstInv(i)
  BY <1>1 DEF TableInit, InstInv, ListInv, EntryInv, OpInv, WaitInv
<1> QED
  BY <1>2, <1>3 DEF TInv

(* Both invariants, of the lock table and of the areas, always hold.       *)
LEMMA TInvAlways == ASSUME Rdbms # "ORACLE" PROVE TableSpec => [](IInv /\ TInv)
<1>1. TableInit => IInv /\ TInv
  BY InitIInv, InitTInv DEF TableInit
<1>2. (IInv /\ TInv) /\ [TableNext]_allVars => (IInv /\ TInv)'
  BY TableStepIsLockStep, IInvStep, TInvStep
<1> QED
  BY <1>1, <1>2, PTL DEF TableSpec

(* Opening, locking and closing work areas uses the lock manager as it is  *)
(* meant to be used: all that is proved of SR_MGMNTLOCKS holds under them. *)
THEOREM TablesUseLocks == ASSUME Rdbms # "ORACLE" PROVE TableSpec => Spec
<1>1. TableInit => Init
  BY DEF TableInit
<1>2. IInv /\ TInv /\ [TableNext]_allVars => [Next]_vars
  BY TableStepIsLockStep
<1> QED
  BY <1>1, <1>2, TInvAlways, PTL DEF TableSpec, Spec

(* The state of the work areas stays well typed.                           *)
THEOREM TableTyping == ASSUME Rdbms # "ORACLE" PROVE TableSpec => []TableTypeOK
<1>1. IInv /\ TInv => TableTypeOK
  BY DEF TInv
<1> QED
  BY <1>1, TInvAlways, PTL

(* FLock() and USE EXCLUSIVE of different application instances exclude    *)
(* each other, with any number of instances, areas and tables: an entry of *)
(* aExclusive has the FLOCK lock behind it, and that has one owner.        *)
THEOREM TableOwner == ASSUME Rdbms # "ORACLE" PROVE TableSpec => []OneTableOwner
<1>1. IInv /\ TInv => OneTableOwner
  <2> SUFFICES ASSUME IInv, TInv, NEW i \in Instances, NEW j \in Instances,
                      NEW t \in Tables, i # j, Owns(i, t), Owns(j, t)
               PROVE  FALSE
    BY DEF OneTableOwner
  <2>1. FLOCK(t) \in held[i] /\ FLOCK(t) \in held[j]
    BY DEF Owns, TInv, InstInv, EntryInv
  <2> QED
    BY <2>1 DEF IInv, OwnInv
<1> QED
  BY <1>1, TInvAlways, PTL
=============================================================================
