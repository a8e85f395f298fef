-------------------------- MODULE TableHeldProofs --------------------------
(* What stands behind the rows an instance has in SR_MGMNTLOCKS: every     *)
(* granted lock is accounted for by an open area, by an entry of aExclusive *)
(* or by the SR_SetLocks call that has just returned.  So nothing is left   *)
(* when the last area is closed, however the areas were opened, locked and  *)
(* closed.  The converse, that an open area has its locks, needs an         *)
(* instance with a single work area (Alone): a second area on the same      *)
(* table takes the locks of the first with it when it is closed.            *)
EXTENDS TableLocksProofs

-----------------------------------------------------------------------------
(* The inductive invariant, one instance at a time.                        *)

(* The points where LockTable or sqlOpenArea waits for SR_SetLocks, and    *)
(* the list it passed, as a sequence and as a set.                         *)
AskPoints == {"lockX", "lockF", "check", "share"}
Asked(o) == IF o.at = "lockX" THEN ExclusiveList(o.t)
            ELSE IF o.at = "lockF" THEN << FLOCK(o.t) >>
            ELSE IF o.at = "check" THEN << EXC(o.t) >> ELSE << SHARED(o.t) >>
AskedSet(o) == IF o.at = "lockX" THEN {FLOCK(o.t), EXC(o.t), SHARED(o.t)}
               ELSE IF o.at = "lockF" THEN {FLOCK(o.t)}
               ELSE IF o.at = "check" THEN {EXC(o.t)} ELSE {SHARED(o.t)}

(* SR_SetLocks has answered .T. and its caller has not yet looked.         *)
Told(i) == op[i].at \in AskPoints /\ call[i].pc = "idle" /\ call[i].ret

(* The call in progress is the one the operation made.                     *)
PointInv(i) ==
    /\ op[i].at = "none" => call[i].pc = "idle"
    /\ (op[i].at \in AskPoints /\ call[i].pc # "idle") =>
          call[i].pc \in SetPcs \cup {"undo"} /\ call[i].list = Asked(op[i]) /\ ~call[i].ret
    /\ (op[i].at \notin AskPoints /\ call[i].pc # "idle") => call[i].pc = "rel"
    /\ Told(i) => AskedSet(op[i]) \subseteq held[i]

(* Area w will release the SHARED lock of its table when it is closed.     *)
Shares(i, w) == wa[i][w].lSharedLock /\ ~(op[i].at = "closeS" /\ op[i].w = w)

(* Who will release lock l.                                                *)
Backed(i, l) == \/ \E w \in Areas : Shares(i, w) /\ l = SHARED(wa[i][w].file)
                \/ \E e \in aExclusive[i] : /\ ~Leaving(i, e[1])
                                            /\ l \in {EXC(e[2]), FLOCK(e[2])}
                \/ Told(i) /\ l \in AskedSet(op[i])

HeldInv(i) == \A l \in held[i] : Backed(i, l)

(* The instance uses one work area.                                        *)
Alone == \A v, w \in Areas : v = w

(* With one work area, lTableLocked says that it is listed, and an         *)
(* exclusive area has its locks.                                           *)
AloneInv(i) == \A w \in Areas :
    /\ (wa[i][w].lTableLocked /\ op[i].at # "closeS") => \E e \in aExclusive[i] : e[1] = w
    /\ (~wa[i][w].shared /\ op[i].at \notin {"closeX", "closeS"}) =>
          EXC(wa[i][w].file) \in held[i] /\ SHARED(wa[i][w].file) \in held[i]

HInst(i) == PointInv(i) /\ HeldInv(i) /\ (Alone => AloneInv(i))

HInv == \A i \in Instances : HInst(i)

-----------------------------------------------------------------------------
(* Locks, lists and areas                                                  *)

(* Different kinds of lock, and locks of different tables, are different.  *)
LEMMA LockNames ==
    ASSUME NEW s, NEW t
    PROVE  /\ FLOCK(s) # EXC(t) /\ FLOCK(s) # SHARED(t) /\ EXC(s) # SHARED(t)
           /\ EXC(s) = EXC(t) => s = t
           /\ FLOCK(s) = FLOCK(t) => s = t
           /\ SHARED(s) = SHARED(t) => s = t
BY DEF FLOCK, EXC, SHARED

(* The locks of the list an operation passed.                              *)
LEMMA AskedRange ==
    ASSUME NEW o
    PROVE  {Asked(o)[k] : k \in 1 .. Len(Asked(o))} = AskedSet(o)
<1>1. ASSUME NEW x, NEW y, NEW z
      PROVE  /\ {<< x, y, z >>[k] : k \in 1 .. Len(<< x, y, z >>)} = {x, y, z}
             /\ {<< x >>[k] : k \in 1 .. Len(<< x >>)} = {x}
  OBVIOUS
<1>2. CASE o.at = "lockX"
  <2>1. Asked(o) = << FLOCK(o.t), EXC(o.t), SHARED(o.t) >>
    BY <1>2 DEF Asked, ExclusiveList
  <2>2. AskedSet(o) = {FLOCK(o.t), EXC(o.t), SHARED(o.t)}
    BY <1>2 DEF AskedSet
  <2> QED
    BY <1>1, <2>1, <2>2
<1>3. CASE o.at # "lockX"
  <2>1. PICK x : Asked(o) = << x >> /\ AskedSet(o) = {x}
    BY <1>3 DEF Asked, AskedSet
  <2> QED
    BY <1>1, <2>1
<1> QED
  BY <1>2, <1>3

(* The lists of the releases.                                              *)
LEMMA GivenRange ==
    ASSUME NEW x, NEW y
    PROVE  /\ {<< x >>[k] : k \in 1 .. Len(<< x >>)} = {x}
           /\ {<< x, y >>[k] : k \in 1 .. Len(<< x, y >>)} = {x, y}
OBVIOUS

(* The fields of the areas that opening, locking and closing leave behind. *)
LEMMA AreaFields ==
    /\ Closed.shared /\ ~Closed.lSharedLock /\ ~Closed.lTableLocked /\ Closed.file = NoTable
    /\ \A t \in Tables, b \in BOOLEAN :
          /\ OpenedExclusive(t, b).file = t /\ OpenedExclusive(t, b).lSharedLock
          /\ ~OpenedExclusive(t, b).shared /\ OpenedExclusive(t, b).lTableLocked = b
    /\ \A a \in Area, b \in BOOLEAN :
          /\ TableLocked(a, b).file = a.file /\ TableLocked(a, b).shared = a.shared
          /\ TableLocked(a, b).lSharedLock = a.lSharedLock
          /\ TableLocked(a, b).lTableLocked = b
BY DEF Closed, OpenedExclusive, TableLocked, Area

(* Only the instance that moves can disturb its part of the invariant.     *)
LEMMA HFrame ==
    ASSUME HInv, NEW i \in Instances, HInst(i)',
           \A j \in Instances \ {i} : /\ wa'[j] = wa[j] /\ aExclusive'[j] = aExclusive[j]
                                       /\ op'[j] = op[j] /\ call'[j] = call[j]
                                       /\ held'[j] = held[j]
    PROVE  HInv'
<1>1. ASSUME NEW j \in Instances \ {i} PROVE HInst(j)'
  <2>1. HInst(j)
    BY DEF HInv
  <2>2. PointInv(j)'
    BY <2>1 DEF HInst, PointInv, Told
  <2>3. HeldInv(j)'
    BY <2>1 DEF HInst, HeldInv, Backed, Shares, Told, Leaving
  <2>4. Alone => AloneInv(j)'
    BY <2>1 DEF HInst, AloneInv, Leaving
  <2> QED
    BY <2>2, <2>3, <2>4 DEF HInst
<1> QED
  BY <1>1 DEF HInv

-----------------------------------------------------------------------------
(* The steps                                                               *)

(* What one statement of the lock manager does to the call it works on: it *)
(* grants the whole list and returns, goes on, or returns with nothing     *)
(* granted.                                                                *)
LEMMA CallMoves ==
    ASSUME IInv, NEW i \in Instances, CallStep(i)
    PROVE  /\ call[i].pc # "idle"
           /\ \A j \in Instances \ {i} : call'[j] = call[j] /\ held'[j] = held[j]
           /\ \/ /\ call[i].pc \in SetPcs /\ call'[i].pc = "idle" /\ call'[i].ret
                 /\ held'[i] = held[i] \cup {call[i].list[k] : k \in 1 .. Len(call[i].list)}
              \/ /\ call[i].pc \in SetPcs \cup {"undo"} /\ call'[i].pc \in SetPcs \cup {"undo"}
                 /\ call'[i].list = call[i].list /\ call'[i].ret = call[i].ret
                 /\ held'[i] = held[i]
              \/ /\ call[i].pc = "rel" /\ call'[i].pc = "rel" /\ held'[i] = held[i]
              \/ /\ call'[i].pc = "idle" /\ held'[i] = held[i]
                 /\ call[i].pc \in SetPcs => call'[i].ret = FALSE
                 /\ call[i].pc = "undo" => call'[i].ret = call[i].ret
<1> USE DEF IInv, TypeOK
<1>1. call[i].pc # "idle" /\ call[i] \in CallType
  BY DEF CallStep, InsertOk, InsertFails1, InsertFails2, RetryFails, HousekeepStep,
         DeleteStep, SetPcs, DeletePcs
<1>2. \A b \in BOOLEAN : Return(b).pc = "idle" /\ Return(b).ret = b
  BY DEF Return
<1>3. CASE InsertOk(i, {"ins1", "ins2", "insR"})
  <2>0. \A j \in Instances \ {i} : call'[j] = call[j] /\ held'[j] = held[j]
    BY <1>3 DEF InsertOk
  <2>1. /\ call[i].pc \in SetPcs /\ call[i].from = 1
        /\ call[i].pos \in 1 .. Len(call[i].list) /\ call[i].list \in Seq(Locks)
    BY <1>3, ListsAssumption DEF InsertOk, CallInv, CallOk, SetPcs, CallType
  <2>2. CASE call[i].pos = Len(call[i].list)
    <3>1. call'[i] = Return(TRUE) /\ held'[i] = held[i] \cup Added(i) \cup {Current(i)}
      BY <1>3, <2>2 DEF InsertOk
    <3>2. Added(i) \cup {Current(i)} = {call[i].list[k] : k \in 1 .. Len(call[i].list)}
      BY <2>1, <2>2 DEF Added, Current
    <3> QED
      BY <1>1, <1>2, <2>0, <2>1, <3>1, <3>2
  <2>3. CASE call[i].pos # Len(call[i].list)
    <3>1. call'[i] = NextLock(call[i]) /\ held'[i] = held[i]
      BY <1>3, <2>3 DEF InsertOk
    <3>2. /\ call'[i].pc = "ins1" /\ call'[i].ret = call[i].ret
          /\ call'[i].list = call[i].list
      BY <1>1, <3>1 DEF NextLock, CallType
    <3> QED
      BY <1>1, <2>0, <2>1, <3>1, <3>2 DEF SetPcs
  <2> QED
    BY <2>2, <2>3
<1>4. CASE InsertFails1(i) \/ HousekeepStep(i)
  <2>1. UNCHANGED held /\ \A j \in Instances \ {i} : call'[j] = call[j]
    BY <1>4 DEF InsertFails1, HousekeepStep
  <2>2. /\ call[i].pc \in SetPcs /\ call'[i].pc \in SetPcs /\ call'[i].ret = call[i].ret
        /\ call'[i].list = call[i].list
    BY <1>1, <1>4 DEF InsertFails1, HousekeepStep, SetPcs, CallType
  <2> QED
    BY <1>1, <2>1, <2>2
<1>5. CASE InsertFails2(i) \/ RetryFails(i)
  <2>1. /\ UNCHANGED held /\ call[i].pc \in SetPcs
        /\ \A j \in Instances \ {i} : call'[j] = call[j]
    BY <1>5 DEF InsertFails2, RetryFails, SetPcs
  <2>2. \/ call'[i] = Denied(call[i])
        \/ \E n : call'[i] = Again(call[i], n)
    BY <1>5 DEF InsertFails2, RetryFails
  <2>3. ASSUME NEW n, call'[i] = Again(call[i], n)
        PROVE  /\ call'[i].pc \in SetPcs /\ call'[i].ret = call[i].ret
               /\ call'[i].list = call[i].list
    BY <1>1, <2>3 DEF Again, CallType, SetPcs
  <2>4. CASE call'[i] = Denied(call[i])
    <3>1. \/ call'[i] = Return(FALSE)
          \/ call'[i] = [call[i] EXCEPT !.pc = "undo"]
      BY <2>4 DEF Denied
    <3>2. CASE call'[i] = [call[i] EXCEPT !.pc = "undo"]
      <4>1. /\ call'[i].pc = "undo" /\ call'[i].ret = call[i].ret
            /\ call'[i].list = call[i].list
        BY <1>1, <3>2 DEF CallType
      <4> QED
        BY <1>1, <2>1, <4>1
    <3>3. CASE call'[i] = Return(FALSE)
      BY <1>1, <1>2, <2>1, <3>3 DEF SetPcs
    <3> QED
      BY <3>1, <3>2, <3>3
  <2> QED
    BY <1>1, <2>1, <2>2, <2>3, <2>4
<1>6. CASE DeleteStep(i)
  <2>1. /\ UNCHANGED held /\ call[i].pc \in DeletePcs
        /\ \A j \in Instances \ {i} : call'[j] = call[j]
    BY <1>6 DEF DeleteStep
  <2>2. call'[i] = NextDelete(call[i]) \/ call'[i] = Return(call[i].ret)
    BY <1>6 DEF DeleteStep
  <2>3. CASE call'[i] = NextDelete(call[i])
    <3>1. /\ call'[i].pc = call[i].pc /\ call'[i].ret = call[i].ret
          /\ call'[i].list = call[i].list
      BY <1>1, <2>3 DEF NextDelete, CallType
    <3> QED
      BY <1>1, <2>1, <3>1 DEF DeletePcs
  <2>4. CASE call'[i] = Return(call[i].ret)
    <3>1. call'[i].pc = "idle" /\ call'[i].ret = call[i].ret
      BY <1>1, <1>2, <2>4 DEF CallType
    <3> QED
      BY <1>1, <2>1, <3>1 DEF DeletePcs, SetPcs
  <2> QED
    BY <2>2, <2>3, <2>4
<1> QED
  BY <1>3, <1>4, <1>5, <1>6 DEF CallStep

(* The lock manager works on a call.                                       *)
LEMMA CallStepHeld ==
    ASSUME IInv, HInv, NEW i \in Instances, CallStep(i), UNCHANGED tvars
    PROVE  HInv'
<1>0. UNCHANGED << wa, aExclusive, op >> /\ HInst(i)
  BY DEF tvars, HInv
<1>1. call[i].pc # "idle" /\ ~Told(i)
  BY CallMoves DEF Told
<1>2. CASE /\ call[i].pc \in SetPcs /\ call'[i].pc = "idle" /\ call'[i].ret
           /\ held'[i] = held[i] \cup {call[i].list[k] : k \in 1 .. Len(call[i].list)}
  <2>1. op[i].at \in AskPoints /\ call[i].list = Asked(op[i])
    BY <1>0, <1>1, <1>2 DEF HInst, PointInv, SetPcs
  <2>2. held'[i] = held[i] \cup AskedSet(op[i])
    BY <1>2, <2>1, AskedRange
  <2>3. Told(i)'
    BY <1>0, <1>2, <2>1 DEF Told
  <2>4. PointInv(i)'
    BY <1>0, <1>2, <2>2 DEF PointInv
  <2>5. HeldInv(i)'
    BY <1>0, <1>1, <2>2, <2>3 DEF HInst, HeldInv, Backed, Shares, Leaving
  <2>6. Alone => AloneInv(i)'
    BY <1>0, <2>2 DEF HInst, AloneInv, Leaving
  <2> QED
    BY <1>0, <2>4, <2>5, <2>6, CallMoves, HFrame DEF HInst
<1>3. CASE /\ held'[i] = held[i] /\ ~Told(i)'
           /\ call'[i].pc # "idle" =>
                 /\ call'[i].pc \in SetPcs \cup {"undo"} =>
                       /\ call[i].pc \in SetPcs \cup {"undo"}
                       /\ call'[i].list = call[i].list /\ call'[i].ret = call[i].ret
                 /\ call'[i].pc \notin SetPcs \cup {"undo"} =>
                       call[i].pc = "rel" /\ call'[i].pc = "rel"
  <2>1. PointInv(i)'
    BY <1>0, <1>1, <1>3 DEF HInst, PointInv, SetPcs
  <2>2. HeldInv(i)'
    BY <1>0, <1>1, <1>3 DEF HInst, HeldInv, Backed, Shares, Leaving
  <2>3. Alone => AloneInv(i)'
    BY <1>0, <1>3 DEF HInst, AloneInv, Leaving
  <2> QED
    BY <1>0, <2>1, <2>2, <2>3, CallMoves, HFrame DEF HInst
<1>4. CASE /\ call'[i].pc = "idle" /\ held'[i] = held[i]
           /\ call[i].pc \in SetPcs => call'[i].ret = FALSE
           /\ call[i].pc = "undo" => call'[i].ret = call[i].ret
  <2>1. ~Told(i)'
    BY <1>0, <1>1, <1>4 DEF HInst, PointInv, Told
  <2> QED
    BY <1>3, <1>4, <2>1
<1>5. CASE \/ /\ call[i].pc \in SetPcs \cup {"undo"} /\ call'[i].pc \in SetPcs \cup {"undo"}
              /\ call'[i].list = call[i].list /\ call'[i].ret = call[i].ret
              /\ held'[i] = held[i]
           \/ call[i].pc = "rel" /\ call'[i].pc = "rel" /\ held'[i] = held[i]
  <2>1. ~Told(i)' /\ call'[i].pc # "idle"
    BY <1>5 DEF Told, SetPcs
  <2> QED
    BY <1>3, <1>5, <2>1 DEF SetPcs
<1> QED
  BY <1>2, <1>4, <1>5, CallMoves

(* SR_SetLocks is called: the operation was not waiting for an answer .T., *)
(* and was not giving anything back.                                       *)
LEMMA AskHeld ==
    ASSUME TypeOK, TInv, HInv, NEW i \in Instances, NEW w \in Areas, NEW t \in Tables,
           NEW list, NEW m, NEW at \in AskPoints, NEW n \in 1 .. LockTries,
           SetLocks(i, list, m), Goto(i, at, w, t, n), UNCHANGED << wa, aExclusive >>,
           op[i].at \notin {"unlock", "closeX", "closeS"}, ~Told(i),
           list = IF at = "lockX" THEN ExclusiveList(t)
                  ELSE IF at = "lockF" THEN << FLOCK(t) >>
                  ELSE IF at = "check" THEN << EXC(t) >> ELSE << SHARED(t) >>
    PROVE  HInv'
<1>1. /\ call'[i].pc = "ins1" /\ call'[i].list = list /\ call'[i].ret = FALSE
      /\ UNCHANGED held /\ \A j \in Instances \ {i} : call'[j] = call[j]
  BY SetLocksFacts
<1>2. /\ op'[i].at = at /\ op'[i].w = w /\ op'[i].t = t
      /\ \A j \in Instances \ {i} : op'[j] = op[j]
  BY GotoFacts DEF TInv, Points, AskPoints
<1>3. list = Asked(op'[i])
  BY <1>2, Zenon DEF Asked
<1>4. PointInv(i)'
  BY <1>1, <1>2, <1>3 DEF PointInv, Told, SetPcs, AskPoints
<1>5. HInst(i) /\ (\A v \in Areas : ~Leaving(i, v) /\ ~Leaving(i, v)')
  BY <1>2 DEF HInv, Leaving, AskPoints
<1>6. HeldInv(i)'
  <2> SUFFICES ASSUME NEW l \in held[i] PROVE Backed(i, l)'
    BY <1>1 DEF HeldInv
  <2>1. \A v \in Areas : Shares(i, v) => Shares(i, v)'
    BY <1>2 DEF Shares, AskPoints
  <2>2. \A e \in aExclusive[i] : ~Leaving(i, e[1])'
    BY <1>2 DEF Leaving, AskPoints
  <2> QED
    BY <1>5, <2>1, <2>2 DEF HInst, HeldInv, Backed
<1>7. Alone => AloneInv(i)'
  BY <1>1, <1>5 DEF HInst, AloneInv, Leaving
<1> QED
  BY <1>1, <1>2, <1>4, <1>6, <1>7, HFrame DEF HInst

(* An operation ends, or needs no lock call.  The areas that have to       *)
(* release a SHARED lock, and the entries that are not being given back,   *)
(* are still there, and a new grant is recorded.                           *)
LEMMA EndHeld ==
    ASSUME TypeOK, TInv, HInv, NEW i \in Instances, Quiet,
           Done(i) \/ (op[i].at = "none" /\ UNCHANGED op), call[i].pc = "idle",
           \A j \in Instances \ {i} : wa'[j] = wa[j] /\ aExclusive'[j] = aExclusive[j],
           \A v \in Areas : Shares(i, v) =>
               wa'[i][v].lSharedLock /\ wa'[i][v].file = wa[i][v].file,
           \A e \in aExclusive[i] : ~Leaving(i, e[1]) => e \in aExclusive'[i],
           Told(i) => \A l \in AskedSet(op[i]) :
               \/ \E v \in Areas : wa'[i][v].lSharedLock /\ l = SHARED(wa'[i][v].file)
               \/ \E e \in aExclusive'[i] : l \in {EXC(e[2]), FLOCK(e[2])},
           Alone => \A v \in Areas :
               /\ wa'[i][v].lTableLocked => \E e \in aExclusive'[i] : e[1] = v
               /\ ~wa'[i][v].shared =>
                     EXC(wa'[i][v].file) \in held[i] /\ SHARED(wa'[i][v].file) \in held[i]
    PROVE  HInv'
<1>1. op'[i].at = "none" /\ \A j \in Instances \ {i} : op'[j] = op[j]
  BY GotoFacts DEF TInv
<1>2. UNCHANGED << call, held >>
  BY DEF Quiet, vars
<1>3. PointInv(i)'
  BY <1>1, <1>2 DEF PointInv, Told, AskPoints
<1>4. HInst(i)
  BY DEF HInv
<1>5. HeldInv(i)'
  <2> SUFFICES ASSUME NEW l \in held[i] PROVE Backed(i, l)'
    BY <1>2 DEF HeldInv
  <2>1. \A v \in Areas : wa'[i][v].lSharedLock => Shares(i, v)'
    BY <1>1 DEF Shares
  <2>2. \A e \in aExclusive'[i] : ~Leaving(i, e[1])'
    BY <1>1 DEF Leaving
  <2>3. Backed(i, l)
    BY <1>4 DEF HInst, HeldInv
  <2>4. CASE \E v \in Areas : Shares(i, v) /\ l = SHARED(wa[i][v].file)
    BY <2>1, <2>4 DEF Backed
  <2>5. CASE \E e \in aExclusive[i] : ~Leaving(i, e[1]) /\ l \in {EXC(e[2]), FLOCK(e[2])}
    BY <2>2, <2>5 DEF Backed
  <2>6. CASE Told(i) /\ l \in AskedSet(op[i])
    BY <2>1, <2>2, <2>6 DEF Backed
  <2> QED
    BY <2>3, <2>4, <2>5, <2>6 DEF Backed
<1>6. Alone => AloneInv(i)'
  BY <1>1, <1>2 DEF AloneInv
<1> QED
  BY <1>1, <1>2, <1>3, <1>5, <1>6, HFrame DEF HInst

(* SR_ReleaseLocks is called with the locks given.                         *)
Gives(i, given) == /\ call'[i].pc = "rel" /\ held'[i] = held[i] \ given
                   /\ \A j \in Instances \ {i} : call'[j] = call[j] /\ held'[j] = held[j]

(* The lists that are released, as sets.                                   *)
LEMMA GivesFacts ==
    ASSUME TypeOK, NEW i \in Instances, NEW x, NEW y
    PROVE  /\ ReleaseLocks(i, << x >>) => Gives(i, {x})
           /\ ReleaseLocks(i, << x, y >>) => Gives(i, {x, y})
<1>1. ASSUME NEW list, ReleaseLocks(i, list)
      PROVE  Gives(i, {list[k] : k \in 1 .. Len(list)})
  BY <1>1 DEF TypeOK, ReleaseLocks, Gives
<1>2. ReleaseLocks(i, << x >>) => Gives(i, {<< x >>[k] : k \in 1 .. Len(<< x >>)})
  BY <1>1
<1>3. ReleaseLocks(i, << x, y >>) => Gives(i, {<< x, y >>[k] : k \in 1 .. Len(<< x, y >>)})
  BY <1>1
<1> QED
  BY <1>2, <1>3, GivenRange

(* What backed the locks that are given back may go, the rest stays.       *)
LEMMA GiveHeld ==
    ASSUME TypeOK, TInv, HInv, NEW i \in Instances, NEW w \in Areas, NEW t \in Tables,
           NEW given, NEW at \in {"uncheck", "unlock", "closeX", "closeS"},
           Gives(i, given), Goto(i, at, w, t, 1), UNCHANGED wa,
           \A j \in Instances \ {i} : aExclusive'[j] = aExclusive[j],
           \A v \in Areas : (Shares(i, v) /\ at = "closeS" /\ v = w) =>
               SHARED(wa[i][v].file) \in given,
           \A e \in aExclusive[i] :
               \/ Leaving(i, e[1]) \/ {EXC(e[2]), FLOCK(e[2])} \subseteq given
               \/ e \in aExclusive'[i] /\ (at = "uncheck" \/ e[1] # w),
           Told(i) => AskedSet(op[i]) \subseteq given,
           Alone => \A v \in Areas :
               /\ (wa[i][v].lTableLocked /\ at # "closeS") => \E e \in aExclusive'[i] : e[1] = v
               /\ ~wa[i][v].shared => at \in {"closeX", "closeS"}
    PROVE  HInv'
<1>1. /\ call'[i].pc = "rel" /\ held'[i] = held[i] \ given
      /\ \A j \in Instances \ {i} : call'[j] = call[j] /\ held'[j] = held[j]
  BY DEF Gives
<1>2. /\ op'[i].at = at /\ op'[i].w = w /\ op'[i].t = t
      /\ \A j \in Instances \ {i} : op'[j] = op[j]
  <2>1. at \in Points /\ 1 \in 1 .. LockTries
    BY TableAssumption DEF Points
  <2> QED
    BY <2>1, GotoFacts DEF TInv
<1>3. PointInv(i)'
  BY <1>1, <1>2 DEF PointInv, Told, AskPoints
<1>4. HInst(i)
  BY DEF HInv
<1>5. HeldInv(i)'
  <2> SUFFICES ASSUME NEW l \in held[i], l \notin given PROVE Backed(i, l)'
    BY <1>1 DEF HeldInv
  <2>1. Backed(i, l)
    BY <1>4 DEF HInst, HeldInv
  <2>2. CASE \E v \in Areas : Shares(i, v) /\ l = SHARED(wa[i][v].file)
    <3>1. PICK v \in Areas : Shares(i, v) /\ l = SHARED(wa[i][v].file)
      BY <2>2
    <3>2. Shares(i, v)'
      BY <1>2, <3>1 DEF Shares
    <3> QED
      BY <3>1, <3>2 DEF Backed
  <2>3. CASE \E e \in aExclusive[i] : ~Leaving(i, e[1]) /\ l \in {EXC(e[2]), FLOCK(e[2])}
    <3>1. PICK e \in aExclusive[i] : ~Leaving(i, e[1]) /\ l \in {EXC(e[2]), FLOCK(e[2])}
      BY <2>3
    <3>2. e \in aExclusive'[i] /\ (at = "uncheck" \/ e[1] # w)
      BY <3>1
    <3>3. ~Leaving(i, e[1])'
      BY <1>2, <3>2 DEF Leaving
    <3> QED
      BY <3>1, <3>2, <3>3 DEF Backed
  <2> QED
    BY <2>1, <2>2, <2>3 DEF Backed
<1>6. ASSUME Alone PROVE AloneInv(i)'
  <2> SUFFICES ASSUME NEW v \in Areas
               PROVE  /\ (wa'[i][v].lTableLocked /\ op'[i].at # "closeS") =>
                            \E e \in aExclusive'[i] : e[1] = v
                      /\ (~wa'[i][v].shared /\ op'[i].at \notin {"closeX", "closeS"}) =>
                            EXC(wa'[i][v].file) \in held'[i] /\ SHARED(wa'[i][v].file) \in held'[i]
    BY DEF AloneInv
  <2>1. v = w
    BY <1>6 DEF Alone
  <2> QED
    BY <1>2, <1>6, <2>1 DEF Leaving
<1> QED
  BY <1>1, <1>2, <1>3, <1>5, <1>6, HFrame DEF HInst

(* Setting an area, in terms of each area of the instance.                 *)
LEMMA AreaSet ==
    ASSUME TInv, NEW i \in Instances, NEW w \in Areas, NEW a, SetArea(i, w, a)
    PROVE  /\ wa'[i][w] = a /\ \A v \in Areas \ {w} : wa'[i][v] = wa[i][v]
           /\ \A j \in Instances \ {i} : wa'[j] = wa[j]
BY DEF TInv, TableTypeOK, SetArea

(* An area that stays, with lTableLocked set or not.                       *)
LEMMA LockedSet ==
    ASSUME TInv, NEW i \in Instances, NEW w \in Areas, NEW b \in BOOLEAN,
           SetArea(i, w, TableLocked(wa[i][w], b))
    PROVE  /\ \A v \in Areas : /\ wa'[i][v].lSharedLock = wa[i][v].lSharedLock
                               /\ wa'[i][v].file = wa[i][v].file
                               /\ wa'[i][v].shared = wa[i][v].shared
           /\ wa'[i][w].lTableLocked = b
           /\ \A v \in Areas \ {w} : wa'[i][v] = wa[i][v]
           /\ \A j \in Instances \ {i} : wa'[j] = wa[j]
<1>1. wa[i][w] \in Area
  BY DEF TInv, TableTypeOK
<1> QED
  BY <1>1, AreaSet, AreaFields

(* An operation between its lock calls has not been told anything.         *)
LEMMA NotTold ==
    ASSUME NEW i, op[i].at \notin AskPoints \/ ~call[i].ret
    PROVE  ~Told(i)
BY DEF Told

(* LockTable gives up: nothing was granted and nothing changes.            *)
LEMMA GiveUpHeld ==
    ASSUME TypeOK, TInv, HInv, NEW i \in Instances, op[i].at \in {"lockX", "lockF", "check"},
           call[i].pc = "idle", ~call[i].ret, Done(i), Quiet, UNCHANGED << wa, aExclusive >>
    PROVE  HInv'
<1>1. HInst(i) /\ ~Told(i) /\ \A v \in Areas : ~Leaving(i, v)
  BY NotTold DEF HInv, Leaving
<1>2. Alone => \A v \in Areas :
          /\ wa'[i][v].lTableLocked => \E e \in aExclusive'[i] : e[1] = v
          /\ ~wa'[i][v].shared =>
                EXC(wa'[i][v].file) \in held[i] /\ SHARED(wa'[i][v].file) \in held[i]
  BY <1>1 DEF HInst, AloneInv
<1>3. \A v \in Areas : Shares(i, v) => wa'[i][v].lSharedLock /\ wa'[i][v].file = wa[i][v].file
  BY DEF Shares
<1> QED
  BY <1>1, <1>2, <1>3, EndHeld

(* USE EXCLUSIVE                                                           *)
LEMMA UseExclusiveHeld ==
    ASSUME TypeOK, TInv, HInv, NEW i \in Instances, NEW w \in Areas, NEW t \in Tables,
           UseExclusive(i, w, t)
    PROVE  HInv'
<1>1. /\ op[i].at = "none" /\ call[i].pc = "idle" /\ wa[i][w] = Closed
      /\ 1 \in 1 .. LockTries
  BY TableAssumption DEF UseExclusive, Ready
<1>2. ~Told(i)
  BY <1>1, NotTold DEF AskPoints
<1>3. CASE MineAlready(i, t)
  <2>1. SetArea(i, w, OpenedExclusive(t, FALSE)) /\ Quiet /\ UNCHANGED << aExclusive, op >>
    BY <1>3 DEF UseExclusive
  <2>2. /\ wa'[i][w] = OpenedExclusive(t, FALSE) /\ \A v \in Areas \ {w} : wa'[i][v] = wa[i][v]
        /\ \A j \in Instances \ {i} : wa'[j] = wa[j]
    BY <2>1, AreaSet
  <2>3. \A v \in Areas : Shares(i, v) => wa'[i][v].lSharedLock /\ wa'[i][v].file = wa[i][v].file
    BY <1>1, <2>2, AreaFields DEF Shares
  <2>4. ~Alone
    <3>1. PICK e \in aExclusive[i] : e[2] = t
      BY <1>3 DEF MineAlready
    <3>2. e[1] \in Areas /\ wa[i][e[1]].file = t
      BY <3>1 DEF TInv, TableTypeOK, InstInv, ListInv
    <3> QED
      BY <1>1, <3>2, AreaFields, TableAssumption DEF Alone
  <2> QED
    BY <1>1, <1>2, <2>1, <2>2, <2>3, <2>4, EndHeld
<1>4. CASE ~MineAlready(i, t)
  <2>1. /\ SetLocks(i, ExclusiveList(t), LockRetries) /\ Goto(i, "lockX", w, t, 1)
        /\ UNCHANGED << wa, aExclusive >>
    BY <1>4, Zenon DEF UseExclusive
  <2> QED
    BY <1>1, <1>2, <2>1, AskHeld DEF AskPoints
<1> QED
  BY <1>3, <1>4

(* USE EXCLUSIVE, when SR_SetLocks returns                                 *)
LEMMA UseExclusiveReturnsHeld ==
    ASSUME TypeOK, TInv, HInv, NEW i \in Instances, UseExclusiveReturns(i)
    PROVE  HInv'
<1> DEFINE w == op[i].w
           t == op[i].t
           n == op[i].tries
<1>1. /\ w \in Areas /\ t \in Tables /\ n \in 1 .. LockTries /\ op[i].at = "lockX"
      /\ call[i].pc = "idle" /\ call[i].ret \in BOOLEAN
  BY DEF UseExclusiveReturns, Back, TInv, TableTypeOK, OpType, TypeOK, CallType
<1>2. wa[i][w] = Closed
  BY <1>1 DEF TInv, InstInv, OpInv
<1>3. CASE call[i].ret
  <2>1. SetArea(i, w, OpenedExclusive(t, TRUE)) /\ Enlist(i, w, t) /\ Done(i) /\ Quiet
    BY <1>3, Zenon DEF UseExclusiveReturns
  <2>2. AskedSet(op[i]) = {FLOCK(t), EXC(t), SHARED(t)} /\ AskedSet(op[i]) \subseteq held[i]
    BY <1>1, <1>3 DEF AskedSet, HInv, HInst, PointInv, Told, AskPoints
  <2> HIDE DEF w, t, n
  <2>3. /\ wa'[i][w] = OpenedExclusive(t, TRUE) /\ \A v \in Areas \ {w} : wa'[i][v] = wa[i][v]
        /\ \A j \in Instances \ {i} : wa'[j] = wa[j]
    BY <1>1, <2>1, AreaSet
  <2>4. /\ wa'[i][w].file = t /\ wa'[i][w].lSharedLock
    <3>1. wa'[i][w] = OpenedExclusive(t, TRUE)
      BY <2>3
    <3>2. OpenedExclusive(t, TRUE).file = t /\ OpenedExclusive(t, TRUE).lSharedLock
      BY <1>1, AreaFields
    <3> QED
      BY <3>1, <3>2
  <2>5. /\ aExclusive'[i] = aExclusive[i] \cup {<< w, t >>}
        /\ \A j \in Instances \ {i} : aExclusive'[j] = aExclusive[j]
    BY <2>1 DEF Enlist, TInv, TableTypeOK
  <2>6. \A v \in Areas : Shares(i, v) => wa'[i][v].lSharedLock /\ wa'[i][v].file = wa[i][v].file
    BY <1>2, <2>3, AreaFields DEF Shares
  <2>7. << w, t >> \in aExclusive'[i] /\ << w, t >>[1] = w /\ << w, t >>[2] = t
    BY <2>5
  <2>8. \A l \in AskedSet(op[i]) :
            \/ \E v \in Areas : wa'[i][v].lSharedLock /\ l = SHARED(wa'[i][v].file)
            \/ \E e \in aExclusive'[i] : l \in {EXC(e[2]), FLOCK(e[2])}
    BY <1>1, <2>2, <2>4, <2>7
  <2>9. Alone => \A v \in Areas :
            /\ wa'[i][v].lTableLocked => \E e \in aExclusive'[i] : e[1] = v
            /\ ~wa'[i][v].shared =>
                  EXC(wa'[i][v].file) \in held[i] /\ SHARED(wa'[i][v].file) \in held[i]
    BY <1>1, <2>2, <2>4, <2>7 DEF Alone
  <2> QED
    BY <1>1, <2>1, <2>3, <2>5, <2>6, <2>8, <2>9, EndHeld
<1>4. CASE ~call[i].ret /\ n < LockTries
  <2>1. /\ SetLocks(i, ExclusiveList(t), LockRetries) /\ Goto(i, "lockX", w, t, n + 1)
        /\ UNCHANGED << wa, aExclusive >>
    <3>1. n # LockTries
      BY <1>1, <1>4, TableAssumption
    <3> QED
      BY <1>4, <3>1, Zenon DEF UseExclusiveReturns
  <2>2. n + 1 \in 1 .. LockTries
    BY <1>1, <1>4, TableAssumption
  <2>3. ~Told(i)
    BY <1>4, NotTold
  <2> HIDE DEF w, t, n
  <2> QED
    BY <1>1, <2>1, <2>2, <2>3, AskHeld DEF AskPoints
<1>5. CASE ~call[i].ret /\ n = LockTries
  <2>1. Done(i) /\ Quiet /\ UNCHANGED << wa, aExclusive >>
    <3>1. ~(n < LockTries)
      BY <1>5, TableAssumption
    <3> QED
      BY <1>5, <3>1, Zenon DEF UseExclusiveReturns
  <2> QED
    BY <1>1, <1>5, <2>1, GiveUpHeld
<1>6. n < LockTries \/ n = LockTries
  BY <1>1, TableAssumption
<1> QED
  BY <1>1, <1>3, <1>4, <1>5, <1>6

(* USE SHARED                                                              *)
LEMMA UseSharedHeld ==
    ASSUME TypeOK, TInv, HInv, NEW i \in Instances, NEW w \in Areas, NEW t \in Tables,
           UseShared(i, w, t)
    PROVE  HInv'
<1>1. op[i].at = "none" /\ 1 \in 1 .. LockTries /\ UNCHANGED << wa, aExclusive >>
  BY TableAssumption DEF UseShared, Ready
<1>2. ~Told(i)
  BY <1>1, NotTold DEF AskPoints
<1>3. CASE MineAlready(i, t)
  <2>1. SetLocks(i, << SHARED(t) >>, 0) /\ Goto(i, "share", w, t, 1)
    BY <1>3 DEF UseShared
  <2> QED
    BY <1>1, <1>2, <2>1, AskHeld DEF AskPoints
<1>4. CASE ~MineAlready(i, t)
  <2>1. SetLocks(i, << EXC(t) >>, LockRetries) /\ Goto(i, "check", w, t, 1)
    BY <1>4 DEF UseShared
  <2> QED
    BY <1>1, <1>2, <2>1, AskHeld DEF AskPoints
<1> QED
  BY <1>3, <1>4

(* USE SHARED, when the EXC lock was granted or refused                    *)
LEMMA CheckReturnsHeld ==
    ASSUME TypeOK, TInv, HInv, NEW i \in Instances, CheckReturns(i)
    PROVE  HInv'
<1> DEFINE w == op[i].w
           t == op[i].t
           n == op[i].tries
<1>1. /\ w \in Areas /\ t \in Tables /\ n \in 1 .. LockTries /\ op[i].at = "check"
      /\ call[i].pc = "idle" /\ call[i].ret \in BOOLEAN /\ UNCHANGED << wa, aExclusive >>
  BY DEF CheckReturns, Back, TInv, TableTypeOK, OpType, TypeOK, CallType
<1>2. wa[i][w] = Closed
  BY <1>1 DEF TInv, InstInv, OpInv
<1>3. CASE call[i].ret
  <2>1. ReleaseLocks(i, << EXC(t) >>) /\ Goto(i, "uncheck", w, t, 1)
    BY <1>3 DEF CheckReturns
  <2>2. AskedSet(op[i]) = {EXC(t)}
    BY <1>1 DEF AskedSet
  <2>3. Alone => \A v \in Areas : ~wa[i][v].lTableLocked /\ wa[i][v].shared
    BY <1>1, <1>2, AreaFields DEF Alone
  <2>4. Gives(i, {EXC(t)})
    BY <2>1, GivesFacts
  <2> HIDE DEF w, t, n
  <2> QED
    BY <1>1, <2>1, <2>2, <2>3, <2>4, GiveHeld
<1>4. CASE ~call[i].ret /\ n < LockTries
  <2>1. SetLocks(i, << EXC(t) >>, LockRetries) /\ Goto(i, "check", w, t, n + 1)
    <3>1. n # LockTries
      BY <1>1, <1>4, TableAssumption
    <3> QED
      BY <1>4, <3>1, Zenon DEF CheckReturns
  <2>2. n + 1 \in 1 .. LockTries
    BY <1>1, <1>4, TableAssumption
  <2>3. ~Told(i)
    BY <1>4, NotTold
  <2> HIDE DEF w, t, n
  <2> QED
    BY <1>1, <2>1, <2>2, <2>3, AskHeld DEF AskPoints
<1>5. CASE ~call[i].ret /\ n = LockTries
  <2>1. Done(i) /\ Quiet
    <3>1. ~(n < LockTries)
      BY <1>5, TableAssumption
    <3> QED
      BY <1>5, <3>1, Zenon DEF CheckReturns
  <2> QED
    BY <1>1, <1>5, <2>1, GiveUpHeld
<1>6. n < LockTries \/ n = LockTries
  BY <1>1, TableAssumption
<1> QED
  BY <1>1, <1>3, <1>4, <1>5, <1>6

(* USE SHARED, when the EXC lock is released again                         *)
LEMMA UncheckReturnsHeld ==
    ASSUME TypeOK, TInv, HInv, NEW i \in Instances, UncheckReturns(i)
    PROVE  HInv'
<1> DEFINE w == op[i].w
           t == op[i].t
<1>1. /\ w \in Areas /\ t \in Tables /\ op[i].at = "uncheck" /\ 1 \in 1 .. LockTries
  BY TableAssumption DEF UncheckReturns, Back, TInv, TableTypeOK, OpType
<1>2. /\ SetLocks(i, << SHARED(t) >>, 0) /\ Goto(i, "share", w, t, 1)
      /\ UNCHANGED << wa, aExclusive >>
  BY DEF UncheckReturns
<1>3. ~Told(i)
  BY <1>1, NotTold DEF AskPoints
<1> HIDE DEF w, t
<1> QED
  BY <1>1, <1>2, <1>3, AskHeld DEF AskPoints

(* USE SHARED, when the SHARED lock was granted or refused                 *)
LEMMA ShareReturnsHeld ==
    ASSUME TypeOK, TInv, HInv, NEW i \in Instances, ShareReturns(i)
    PROVE  HInv'
<1> DEFINE w == op[i].w
           t == op[i].t
           a == [file |-> t, shared |-> TRUE, lTableLocked |-> FALSE, lSharedLock |-> call[i].ret]
<1>1. /\ w \in Areas /\ t \in Tables /\ op[i].at = "share" /\ call[i].pc = "idle"
      /\ call[i].ret \in BOOLEAN /\ Done(i) /\ Quiet /\ UNCHANGED aExclusive
      /\ SetArea(i, w, a)
  BY DEF ShareReturns, Back, TInv, TableTypeOK, OpType, TypeOK, CallType
<1>2. wa[i][w] = Closed
  BY <1>1 DEF TInv, InstInv, OpInv
<1>3. AskedSet(op[i]) = {SHARED(t)} /\ (Told(i) => call[i].ret)
  BY <1>1 DEF AskedSet, Told
<1>4. /\ a.file = t /\ a.lSharedLock = call[i].ret /\ ~a.lTableLocked /\ a.shared
  OBVIOUS
<1> HIDE DEF w, t, a
<1>5. /\ wa'[i][w] = a /\ \A v \in Areas \ {w} : wa'[i][v] = wa[i][v]
      /\ \A j \in Instances \ {i} : wa'[j] = wa[j]
  BY <1>1, AreaSet
<1>6. \A v \in Areas : Shares(i, v) => wa'[i][v].lSharedLock /\ wa'[i][v].file = wa[i][v].file
  BY <1>2, <1>5, AreaFields DEF Shares
<1>7. Told(i) => \A l \in AskedSet(op[i]) :
          \E v \in Areas : wa'[i][v].lSharedLock /\ l = SHARED(wa'[i][v].file)
  BY <1>1, <1>3, <1>4, <1>5
<1>8. Alone => \A v \in Areas : ~wa'[i][v].lTableLocked /\ wa'[i][v].shared
  BY <1>1, <1>4, <1>5 DEF Alone
<1> QED
  BY <1>1, <1>5, <1>6, <1>7, <1>8, EndHeld

(* FLock()                                                                 *)
LEMMA FLockHeld ==
    ASSUME TypeOK, TInv, HInv, NEW i \in Instances, NEW w \in Areas, FLock(i, w)
    PROVE  HInv'
<1> DEFINE t == wa[i][w].file
<1>1. /\ op[i].at = "none" /\ call[i].pc = "idle" /\ t # NoTable /\ wa[i][w].shared
      /\ 1 \in 1 .. LockTries /\ t \in Tables
  BY TableAssumption DEF FLock, Ready, TInv, TableTypeOK, Area
<1>2. ~Told(i)
  BY <1>1, NotTold DEF AskPoints
<1>3. CASE MineAlready(i, t)
  <2>1. SetArea(i, w, TableLocked(wa[i][w], TRUE)) /\ Quiet /\ UNCHANGED << aExclusive, op >>
    BY <1>3 DEF FLock
  <2>2. /\ \A v \in Areas : /\ wa'[i][v].lSharedLock = wa[i][v].lSharedLock
                            /\ wa'[i][v].file = wa[i][v].file
                            /\ wa'[i][v].shared = wa[i][v].shared
        /\ \A j \in Instances \ {i} : wa'[j] = wa[j]
    BY <2>1, LockedSet
  <2>3. \A v \in Areas : Shares(i, v) => wa'[i][v].lSharedLock /\ wa'[i][v].file = wa[i][v].file
    BY <2>2 DEF Shares
  <2>4. PICK e \in aExclusive[i] : e[2] = t
    BY <1>3 DEF MineAlready
  <2>5. e[1] \in Areas
    BY <2>4 DEF TInv, TableTypeOK
  <2>6. Alone => \A v \in Areas : wa'[i][v].shared /\ \E f \in aExclusive'[i] : f[1] = v
    BY <1>1, <2>1, <2>2, <2>5 DEF Alone
  <2> QED
    BY <1>1, <1>2, <2>1, <2>2, <2>3, <2>6, EndHeld
<1>4. CASE ~MineAlready(i, t)
  <2>1. /\ SetLocks(i, << FLOCK(t) >>, LockRetries) /\ Goto(i, "lockF", w, t, 1)
        /\ UNCHANGED << wa, aExclusive >>
    BY <1>4, Zenon DEF FLock
  <2> HIDE DEF t
  <2> QED
    BY <1>1, <1>2, <2>1, AskHeld DEF AskPoints
<1> QED
  BY <1>3, <1>4

(* FLock(), when SR_SetLocks returns                                       *)
LEMMA FLockReturnsHeld ==
    ASSUME TypeOK, TInv, HInv, NEW i \in Instances, FLockReturns(i)
    PROVE  HInv'
<1> DEFINE w == op[i].w
           t == op[i].t
           n == op[i].tries
<1>1. /\ w \in Areas /\ t \in Tables /\ n \in 1 .. LockTries /\ op[i].at = "lockF"
      /\ call[i].pc = "idle" /\ call[i].ret \in BOOLEAN
  BY DEF FLockReturns, Back, TInv, TableTypeOK, OpType, TypeOK, CallType
<1>2. HInst(i)
  BY DEF HInv
<1>3. CASE call[i].ret
  <2>1. SetArea(i, w, TableLocked(wa[i][w], TRUE)) /\ Enlist(i, w, t) /\ Done(i) /\ Quiet
    BY <1>3, Zenon DEF FLockReturns
  <2>2. AskedSet(op[i]) = {FLOCK(t)}
    BY <1>1 DEF AskedSet
  <2>3. Alone => \A v \in Areas : ~wa[i][v].shared =>
                    EXC(wa[i][v].file) \in held[i] /\ SHARED(wa[i][v].file) \in held[i]
    BY <1>1, <1>2 DEF HInst, AloneInv
  <2> HIDE DEF w, t, n
  <2>4. /\ \A v \in Areas : /\ wa'[i][v].lSharedLock = wa[i][v].lSharedLock
                            /\ wa'[i][v].file = wa[i][v].file
                            /\ wa'[i][v].shared = wa[i][v].shared
        /\ \A j \in Instances \ {i} : wa'[j] = wa[j]
    BY <1>1, <2>1, LockedSet
  <2>5. /\ aExclusive'[i] = aExclusive[i] \cup {<< w, t >>}
        /\ \A j \in Instances \ {i} : aExclusive'[j] = aExclusive[j]
    BY <2>1 DEF Enlist, TInv, TableTypeOK
  <2>6. \A v \in Areas : Shares(i, v) => wa'[i][v].lSharedLock /\ wa'[i][v].file = wa[i][v].file
    BY <2>4 DEF Shares
  <2>7. << w, t >> \in aExclusive'[i] /\ << w, t >>[1] = w /\ << w, t >>[2] = t
    BY <2>5
  <2>8. \A l \in AskedSet(op[i]) : \E e \in aExclusive'[i] : l \in {EXC(e[2]), FLOCK(e[2])}
    BY <2>2, <2>7
  <2>9. Alone => \A v \in Areas :
            /\ wa'[i][v].lTableLocked => \E e \in aExclusive'[i] : e[1] = v
            /\ ~wa'[i][v].shared =>
                  EXC(wa'[i][v].file) \in held[i] /\ SHARED(wa'[i][v].file) \in held[i]
    BY <1>1, <2>3, <2>4, <2>7 DEF Alone
  <2> QED
    BY <1>1, <2>1, <2>4, <2>5, <2>6, <2>8, <2>9, EndHeld
<1>4. CASE ~call[i].ret /\ n < LockTries
  <2>1. /\ SetLocks(i, << FLOCK(t) >>, LockRetries) /\ Goto(i, "lockF", w, t, n + 1)
        /\ UNCHANGED << wa, aExclusive >>
    <3>1. n # LockTries
      BY <1>1, <1>4, TableAssumption
    <3> QED
      BY <1>4, <3>1, Zenon DEF FLockReturns
  <2>2. n + 1 \in 1 .. LockTries
    BY <1>1, <1>4, TableAssumption
  <2>3. ~Told(i)
    BY <1>4, NotTold
  <2> HIDE DEF w, t, n
  <2> QED
    BY <1>1, <2>1, <2>2, <2>3, AskHeld DEF AskPoints
<1>5. CASE ~call[i].ret /\ n = LockTries
  <2>1. Done(i) /\ Quiet /\ UNCHANGED << wa, aExclusive >>
    <3>1. ~(n < LockTries)
      BY <1>5, TableAssumption
    <3> QED
      BY <1>5, <3>1, Zenon DEF FLockReturns
  <2> QED
    BY <1>1, <1>5, <2>1, GiveUpHeld
<1>6. n < LockTries \/ n = LockTries
  BY <1>1, TableAssumption
<1> QED
  BY <1>1, <1>3, <1>4, <1>5, <1>6

(* The area listed in aExclusive begins to release EXC and FLOCK.          *)
LEMMA ReleaseTableHeld ==
    ASSUME TypeOK, TInv, HInv, NEW i \in Instances, NEW w \in Areas,
           NEW at \in {"unlock", "closeX"}, op[i].at = "none", wa[i][w].file \in Tables,
           at = "unlock" => wa[i][w].shared,
           ReleaseTable(i, w), Goto(i, at, w, wa[i][w].file, 1), UNCHANGED << wa, aExclusive >>
    PROVE  HInv'
<1>1. PICK t \in Tables : t = wa[i][w].file
  OBVIOUS
<1>2. ReleaseLocks(i, << EXC(t), FLOCK(t) >>)
  BY <1>1 DEF ReleaseTable
<1>3. PICK given : given = {EXC(t), FLOCK(t)}
  OBVIOUS
<1>4. Gives(i, given) /\ Goto(i, at, w, t, 1)
  BY <1>1, <1>2, <1>3, GivesFacts
<1>5. ~Told(i) /\ HInst(i)
  BY NotTold DEF AskPoints, HInv
<1>6. ASSUME NEW e \in aExclusive[i]
      PROVE  \/ Leaving(i, e[1]) \/ {EXC(e[2]), FLOCK(e[2])} \subseteq given
             \/ e \in aExclusive'[i] /\ (at = "uncheck" \/ e[1] # w)
  <2>1. CASE e[1] = w
    <3>1. e[2] = t
      BY <1>1, <2>1 DEF TInv, InstInv, ListInv
    <3>2. {EXC(e[2]), FLOCK(e[2])} = given
      BY <1>3, <3>1
    <3> QED
      BY <3>2
  <2>2. CASE e[1] # w
    <3>1. aExclusive' = aExclusive
      OBVIOUS
    <3> QED
      BY <2>2, <3>1
  <2> QED
    BY <2>1, <2>2
<1>7. Alone => \A v \in Areas :
          /\ (wa[i][v].lTableLocked /\ at # "closeS") => \E e \in aExclusive'[i] : e[1] = v
          /\ ~wa[i][v].shared => at \in {"closeX", "closeS"}
  BY <1>5 DEF HInst, AloneInv, Alone
<1>8. /\ at # "closeS" /\ at \in {"uncheck", "unlock", "closeX", "closeS"}
      /\ UNCHANGED wa /\ \A j \in Instances \ {i} : aExclusive'[j] = aExclusive[j]
  OBVIOUS
<1> QED
  BY <1>4, <1>5, <1>6, <1>7, <1>8, GiveHeld

(* dbUnlock()                                                              *)
LEMMA UnLockHeld ==
    ASSUME TypeOK, TInv, HInv, NEW i \in Instances, NEW w \in Areas, UnLock(i, w)
    PROVE  HInv'
<1>1. /\ op[i].at = "none" /\ call[i].pc = "idle" /\ wa[i][w].file # NoTable /\ wa[i][w].shared
      /\ wa[i][w].file \in Tables
  BY DEF UnLock, Ready, TInv, TableTypeOK, Area
<1>2. ~Told(i)
  BY <1>1, NotTold DEF AskPoints
<1>3. CASE Entry(i, w) = {}
  <2>1. SetArea(i, w, TableLocked(wa[i][w], FALSE)) /\ Quiet /\ UNCHANGED << aExclusive, op >>
    BY <1>3 DEF UnLock
  <2>2. /\ \A v \in Areas : /\ wa'[i][v].lSharedLock = wa[i][v].lSharedLock
                            /\ wa'[i][v].file = wa[i][v].file
                            /\ wa'[i][v].shared = wa[i][v].shared
        /\ ~wa'[i][w].lTableLocked
        /\ \A j \in Instances \ {i} : wa'[j] = wa[j]
    BY <2>1, LockedSet
  <2>3. \A v \in Areas : Shares(i, v) => wa'[i][v].lSharedLock /\ wa'[i][v].file = wa[i][v].file
    BY <2>2 DEF Shares
  <2>4. Alone => \A v \in Areas : wa'[i][v].shared /\ ~wa'[i][v].lTableLocked
    BY <1>1, <2>2 DEF Alone
  <2> QED
    BY <1>1, <1>2, <2>1, <2>2, <2>3, <2>4, EndHeld
<1>4. CASE Entry(i, w) # {}
  <2>1. /\ ReleaseTable(i, w) /\ Goto(i, "unlock", w, wa[i][w].file, 1)
        /\ UNCHANGED << wa, aExclusive >>
    BY <1>4 DEF UnLock
  <2> QED
    BY <1>1, <2>1, ReleaseTableHeld
<1> QED
  BY <1>3, <1>4

(* dbUnlock(), when SR_ReleaseLocks returns                                *)
LEMMA UnLockReturnsHeld ==
    ASSUME TypeOK, TInv, HInv, NEW i \in Instances, UnLockReturns(i)
    PROVE  HInv'
<1> DEFINE w == op[i].w
<1>1. /\ w \in Areas /\ op[i].at = "unlock" /\ call[i].pc = "idle" /\ Done(i) /\ Quiet
      /\ SetArea(i, w, TableLocked(wa[i][w], FALSE))
      /\ aExclusive' = [aExclusive EXCEPT ![i] = @ \ Entry(i, w)]
  BY DEF UnLockReturns, Back, TInv, TableTypeOK, OpType
<1>2. ~Told(i) /\ HInst(i)
  BY <1>1, NotTold DEF AskPoints, HInv
<1>3. /\ aExclusive'[i] = aExclusive[i] \ Entry(i, w)
      /\ \A j \in Instances \ {i} : aExclusive'[j] = aExclusive[j]
  BY <1>1 DEF TInv, TableTypeOK
<1>4. \A e \in aExclusive[i] : ~Leaving(i, e[1]) => e \in aExclusive'[i]
  BY <1>1, <1>3 DEF Leaving, Entry
<1>5. /\ \A v \in Areas : /\ wa'[i][v].lSharedLock = wa[i][v].lSharedLock
                          /\ wa'[i][v].file = wa[i][v].file
                          /\ wa'[i][v].shared = wa[i][v].shared
      /\ ~wa'[i][w].lTableLocked
      /\ \A j \in Instances \ {i} : wa'[j] = wa[j]
  BY <1>1, LockedSet
<1>6. \A v \in Areas : Shares(i, v) => wa'[i][v].lSharedLock /\ wa'[i][v].file = wa[i][v].file
  BY <1>5 DEF Shares
<1>7. Alone => \A v \in Areas :
          /\ ~wa'[i][v].lTableLocked
          /\ ~wa'[i][v].shared =>
                EXC(wa'[i][v].file) \in held[i] /\ SHARED(wa'[i][v].file) \in held[i]
  BY <1>1, <1>2, <1>5 DEF HInst, AloneInv, Alone
<1> QED
  BY <1>1, <1>2, <1>3, <1>4, <1>5, <1>6, <1>7, EndHeld

(* sqlClose, when the area is not listed any more: the SHARED lock is      *)
(* released, or the area is closed.                                        *)
LEMMA CloseSharedHeld ==
    ASSUME TypeOK, TInv, HInv, NEW i \in Instances, NEW w \in Areas, CloseShared(i, w),
           op[i].at \in {"none", "closeX"}, call[i].pc = "idle", wa[i][w].file \in Tables,
           \A j \in Instances \ {i} : aExclusive'[j] = aExclusive[j],
           \A e \in aExclusive[i] : Leaving(i, e[1]) \/ (e \in aExclusive'[i] /\ e[1] # w)
    PROVE  HInv'
<1>1. ~Told(i)
  BY NotTold DEF AskPoints
<1>2. CASE wa[i][w].lSharedLock
  <2>1. PICK t \in Tables : t = wa[i][w].file
    OBVIOUS
  <2>2. ReleaseLocks(i, << SHARED(t) >>) /\ Goto(i, "closeS", w, t, 1) /\ UNCHANGED wa
    BY <1>2, <2>1 DEF CloseShared
  <2>3. Gives(i, {SHARED(t)})
    BY <2>2, GivesFacts
  <2>4. \A v \in Areas : v = w => SHARED(wa[i][v].file) \in {SHARED(t)}
    BY <2>1
  <2> QED
    BY <1>1, <2>2, <2>3, <2>4, GiveHeld
<1>3. CASE ~wa[i][w].lSharedLock
  <2>1. SetArea(i, w, Closed) /\ Done(i) /\ Quiet
    BY <1>3 DEF CloseShared
  <2>2. /\ wa'[i][w] = Closed /\ \A v \in Areas \ {w} : wa'[i][v] = wa[i][v]
        /\ \A j \in Instances \ {i} : wa'[j] = wa[j]
    BY <2>1, AreaSet
  <2>3. \A v \in Areas : Shares(i, v) => wa'[i][v].lSharedLock /\ wa'[i][v].file = wa[i][v].file
    BY <1>3, <2>2 DEF Shares
  <2>4. Alone => \A v \in Areas : wa'[i][v].shared /\ ~wa'[i][v].lTableLocked
    BY <2>2, AreaFields DEF Alone
  <2> QED
    BY <1>1, <2>1, <2>2, <2>3, <2>4, EndHeld
<1> QED
  BY <1>2, <1>3

(* sqlClose                                                                *)
LEMMA CloseHeld ==
    ASSUME TypeOK, TInv, HInv, NEW i \in Instances, NEW w \in Areas, Close(i, w)
    PROVE  HInv'
<1>1. /\ op[i].at = "none" /\ call[i].pc = "idle" /\ wa[i][w].file \in Tables
      /\ UNCHANGED aExclusive
  BY DEF Close, Ready, TInv, TableTypeOK, Area
<1>2. CASE wa[i][w].lTableLocked /\ Entry(i, w) # {}
  <2>1. ReleaseTable(i, w) /\ Goto(i, "closeX", w, wa[i][w].file, 1) /\ UNCHANGED wa
    BY <1>2 DEF Close
  <2> QED
    BY <1>1, <2>1, ReleaseTableHeld
<1>3. CASE ~(wa[i][w].lTableLocked /\ Entry(i, w) # {})
  <2>1. CloseShared(i, w)
    BY <1>3 DEF Close
  <2>2. \A e \in aExclusive[i] : e \in aExclusive'[i] /\ e[1] # w
    BY <1>1, <1>3 DEF TInv, InstInv, ListInv, Entry
  <2> QED
    BY <1>1, <2>1, <2>2, CloseSharedHeld
<1> QED
  BY <1>2, <1>3

(* sqlClose, when SR_ReleaseLocks returns                                  *)
LEMMA CloseReturnsHeld ==
    ASSUME TypeOK, TInv, HInv, NEW i \in Instances, CloseXReturns(i) \/ CloseSReturns(i)
    PROVE  HInv'
<1>1. PICK w \in Areas : w = op[i].w
  BY DEF TInv, TableTypeOK, OpType
<1>2. CASE CloseXReturns(i)
  <2>1. /\ op[i].at = "closeX" /\ call[i].pc = "idle" /\ CloseShared(i, w)
        /\ aExclusive' = [aExclusive EXCEPT ![i] = @ \ Entry(i, w)]
    BY <1>1, <1>2 DEF CloseXReturns, Back
  <2>2. wa[i][w].file \in Tables
    BY <1>1, <2>1 DEF TInv, TableTypeOK, InstInv, OpInv, OpType
  <2>3. /\ aExclusive'[i] = aExclusive[i] \ Entry(i, w)
        /\ \A j \in Instances \ {i} : aExclusive'[j] = aExclusive[j]
    BY <2>1 DEF TInv, TableTypeOK
  <2>4. \A e \in aExclusive[i] : Leaving(i, e[1]) \/ (e \in aExclusive'[i] /\ e[1] # w)
    BY <1>1, <2>1, <2>3 DEF Leaving, Entry
  <2> QED
    BY <2>1, <2>2, <2>3, <2>4, CloseSharedHeld
<1>3. CASE CloseSReturns(i)
  <2>1. /\ op[i].at = "closeS" /\ call[i].pc = "idle" /\ SetArea(i, w, Closed) /\ Done(i)
        /\ Quiet /\ UNCHANGED aExclusive
    BY <1>1, <1>3 DEF CloseSReturns, Back
  <2>2. ~Told(i)
    BY <2>1, NotTold DEF AskPoints
  <2>3. /\ wa'[i][w] = Closed /\ \A v \in Areas \ {w} : wa'[i][v] = wa[i][v]
        /\ \A j \in Instances \ {i} : wa'[j] = wa[j]
    BY <2>1, AreaSet
  <2>4. \A v \in Areas : Shares(i, v) => wa'[i][v].lSharedLock /\ wa'[i][v].file = wa[i][v].file
    BY <1>1, <2>1, <2>3 DEF Shares
  <2>5. Alone => \A v \in Areas : wa'[i][v].shared /\ ~wa'[i][v].lTableLocked
    BY <2>3, AreaFields DEF Alone
  <2> QED
    BY <2>1, <2>2, <2>3, <2>4, <2>5, EndHeld
<1> QED
  BY <1>2, <1>3

(* Start-up, death and foreign sessions                                    *)
LEMMA LifeHeld ==
    ASSUME TypeOK, TInv, HInv,
           \/ (OtherLogin \/ OtherLogout) /\ UNCHANGED tvars
           \/ \E i \in Instances : \/ (AddConnection(i) \/ SetEnv(i)) /\ UNCHANGED tvars
                                   \/ TableCrash(i)
           \/ UNCHANGED allVars
    PROVE  HInv'
<1>1. ASSUME UNCHANGED << wa, aExclusive, op, call, held >> PROVE HInv'
  <2>1. ASSUME NEW i \in Instances PROVE HInst(i)'
    BY <1>1 DEF HInv, HInst, PointInv, HeldInv, Backed, Shares, AloneInv, Told, Leaving
  <2> QED
    BY <2>1 DEF HInv
<1>2. CASE (OtherLogin \/ OtherLogout) /\ UNCHANGED tvars
  BY <1>1, <1>2 DEF OtherLogin, OtherLogout, tvars
<1>3. ASSUME NEW i \in Instances, AddConnection(i) \/ SetEnv(i), UNCHANGED tvars
      PROVE  HInv'
  BY <1>1, <1>3 DEF AddConnection, SetEnv, tvars
<1>4. ASSUME NEW i \in Instances, TableCrash(i) PROVE HInv'
  <2>1. /\ wa' = [wa EXCEPT ![i] = [w \in Areas |-> Closed]] /\ Done(i)
        /\ aExclusive' = [aExclusive EXCEPT ![i] = {}]
        /\ call' = [call EXCEPT ![i] = Return(TRUE)] /\ held' = [held EXCEPT ![i] = {}]
    BY <1>4 DEF TableCrash, Crash, Done
  <2>2. op'[i].at = "none" /\ \A j \in Instances \ {i} : op'[j] = op[j]
    BY <2>1, GotoFacts DEF TInv
  <2>3. /\ \A w \in Areas : wa'[i][w] = Closed
        /\ \A j \in Instances \ {i} : wa'[j] = wa[j] /\ aExclusive'[j] = aExclusive[j]
    BY <2>1 DEF TInv, TableTypeOK
  <2>4. /\ held'[i] = {} /\ call'[i].pc = "idle"
        /\ \A j \in Instances \ {i} : call'[j] = call[j] /\ held'[j] = held[j]
    BY <2>1, ReturnType DEF TypeOK
  <2>5. HInst(i)'
    BY <2>2, <2>3, <2>4, AreaFields DEF HInst, PointInv, HeldInv, AloneInv, Told, AskPoints
  <2> QED
    BY <2>2, <2>3, <2>4, <2>5, HFrame
<1>5. CASE UNCHANGED allVars
  BY <1>1, <1>5 DEF allVars
<1> QED
  BY <1>2, <1>3, <1>4, <1>5

(* Every step preserves the invariant.                                     *)
LEMMA HInvStep == ASSUME IInv, TInv, HInv, [TableNext]_allVars PROVE HInv'
<1>0. TypeOK
  BY DEF IInv
<1>1. ASSUME NEW i \in Instances, Returns(i) PROVE HInv'
  BY <1>0, <1>1, UseExclusiveReturnsHeld, CheckReturnsHeld, UncheckReturnsHeld,
     ShareReturnsHeld, FLockReturnsHeld, UnLockReturnsHeld, CloseReturnsHeld
  DEF Returns
<1>2. ASSUME NEW i \in Instances, CallStep(i), UNCHANGED tvars PROVE HInv'
  BY <1>2, CallStepHeld
<1>3. ASSUME NEW i \in Instances, NEW w \in Areas, FLock(i, w) \/ UnLock(i, w) \/ Close(i, w)
      PROVE  HInv'
  BY <1>0, <1>3, FLockHeld, UnLockHeld, CloseHeld
<1>4. ASSUME NEW i \in Instances, NEW w \in Areas, NEW t \in Tables,
             UseExclusive(i, w, t) \/ UseShared(i, w, t)
      PROVE  HInv'
  BY <1>0, <1>4, UseExclusiveHeld, UseSharedHeld
<1>5. CASE \/ (OtherLogin \/ OtherLogout) /\ UNCHANGED tvars
           \/ \E i \in Instances : \/ (AddConnection(i) \/ SetEnv(i)) /\ UNCHANGED tvars
                                   \/ TableCrash(i)
           \/ UNCHANGED allVars
  BY <1>0, <1>5, LifeHeld
<1> QED
  BY <1>1, <1>2, <1>3, <1>4, <1>5 DEF TableNext, Progress

(* Initially nothing is held.                                              *)
LEMMA InitHInv == TableInit => HInv
<1> SUFFICES ASSUME TableInit, NEW i \in Instances PROVE HInst(i)
  BY DEF HInv
<1>1. op[i].at = "none" /\ \A w \in Areas : wa[i][w] = Closed
  BY DEF TableInit, NoOp
<1>2. held[i] = {} /\ call[i].pc = "idle"
  BY ReturnType DEF TableInit, Init
<1> QED
  BY <1>1, <1>2, AreaFields DEF HInst, PointInv, HeldInv, AloneInv, Told, AskPoints

(* The three invariants always hold.                                       *)
LEMMA HInvAlways == ASSUME Rdbms # "ORACLE" PROVE TableSpec => [](IInv /\ TInv /\ HInv)
<1>1. TableInit => HInv
  BY InitHInv
<1>2. HInv /\ (IInv /\ TInv) /\ [TableNext]_allVars => HInv'
  BY HInvStep
<1> QED
  BY <1>1, <1>2, TInvAlways, PTL DEF TableSpec

-----------------------------------------------------------------------------
(* The theorems                                                            *)

(* An instance that closed all its areas has no row left in SR_MGMNTLOCKS: *)
(* UnlockTable and sqlClose between them release all that LockTable and    *)
(* sqlOpenArea were granted, with any number of areas on the same table.   *)
THEOREM NothingLeftBehind == ASSUME Rdbms # "ORACLE" PROVE TableSpec => []ClosedMeansFree
<1>1. IInv /\ TInv /\ HInv => ClosedMeansFree
  <2> SUFFICES ASSUME IInv, TInv, HInv, NEW i \in Instances, Ready(i),
                      \A w \in Areas : wa[i][w] = Closed, NEW l \in Locks,
                      rows[l] # NoRow, rows[l].wsid = i
               PROVE  FALSE
    BY DEF ClosedMeansFree
  <2>1. l \in held[i]
    BY TableAssumption DEF IInv, LeakInv, Ready
  <2>2. aExclusive[i] = {}
    BY AreaFields DEF TInv, TableTypeOK, InstInv, ListInv
  <2>3. \A w \in Areas : ~Shares(i, w)
    BY AreaFields DEF Shares
  <2>4. ~Told(i)
    BY NotTold DEF Ready, AskPoints
  <2> QED
    BY <2>1, <2>2, <2>3, <2>4 DEF HInv, HInst, HeldInv, Backed
<1> QED
  BY <1>1, HInvAlways, PTL

(* An area that was opened EXCLUSIVE has its EXC and SHARED locks until it *)
(* is closed, when each instance uses one work area.                       *)
LEMMA ExclusiveHeld ==
    ASSUME Alone, HInv, NEW i \in Instances, NEW w \in Areas, NEW t \in Tables,
           ExclusiveOpen(i, w, t), TInv
    PROVE  EXC(t) \in held[i] /\ SHARED(t) \in held[i]
<1>1. op[i].w = w
  BY DEF Alone, TInv, TableTypeOK, OpType
<1>2. wa[i][w].file = t /\ ~wa[i][w].shared /\ op[i].at \notin {"closeX", "closeS"}
  BY <1>1 DEF ExclusiveOpen, Leaving
<1> QED
  BY <1>2 DEF HInv, HInst, AloneInv

(* "EXCLUSIVE open have EXC and SHARED locks", when each instance uses one *)
(* work area.                                                              *)
THEOREM ExclusiveLocks ==
    ASSUME Rdbms # "ORACLE", Alone PROVE TableSpec => []ExclusiveHasLocks
<1>1. IInv /\ TInv /\ HInv => ExclusiveHasLocks
  BY ExclusiveHeld DEF ExclusiveHasLocks
<1> QED
  BY <1>1, HInvAlways, PTL

(* lTableLocked tells the truth when each instance uses one work area:     *)
(* FLock() and USE EXCLUSIVE leave it .T. only with the FLOCK lock.        *)
THEOREM TableLockedTrue ==
    ASSUME Rdbms # "ORACLE", Alone PROVE TableSpec => []LockedMeansLocked
<1>1. IInv /\ TInv /\ HInv => LockedMeansLocked
  <2> SUFFICES ASSUME TInv, HInv, NEW i \in Instances, NEW w \in Areas,
                      wa[i][w].lTableLocked, ~Leaving(i, w)
               PROVE  FLOCK(wa[i][w].file) \in held[i]
    BY DEF LockedMeansLocked
  <2>1. op[i].at # "closeS"
    BY DEF Alone, TInv, TableTypeOK, OpType, Leaving
  <2>2. PICK e \in aExclusive[i] : e[1] = w
    BY <2>1 DEF HInv, HInst, AloneInv
  <2> QED
    BY <2>2 DEF TInv, InstInv, ListInv, EntryInv
<1> QED
  BY <1>1, HInvAlways, PTL

(* Only LockTable(.T.), told that the EXC lock is granted, releases it.    *)
LEMMA CheckMoves ==
    ASSUME TypeOK, TInv, TableNext, NEW i \in Instances,
           op[i].at = "check", op'[i].at = "uncheck"
    PROVE  Told(i)
<1> USE DEF TInv, TableTypeOK
<1>1. ASSUME op'[i] = op[i] PROVE FALSE
  BY <1>1
<1>2. ASSUME NEW j \in Instances, NEW o, op' = [op EXCEPT ![j] = o]
      PROVE  j = i /\ op'[i] = o
  BY <1>1, <1>2
<1>3. ASSUME NEW j \in Instances, Done(j) PROVE FALSE
  BY <1>2, <1>3 DEF Done, NoOp
<1>4. ASSUME NEW j \in Instances, NEW at, NEW w, NEW t, NEW n, Goto(j, at, w, t, n)
      PROVE  j = i /\ at = "uncheck"
  BY <1>2, <1>4 DEF Goto
<1>5. ASSUME NEW j \in Instances, Returns(j) PROVE Told(i)
  <2>1. CASE CheckReturns(j)
    <3>1. CASE call[j].ret
      <4>1. j = i
        BY <1>4, <2>1, <3>1 DEF CheckReturns
      <4>2. call[i].pc = "idle"
        BY <2>1, <4>1 DEF CheckReturns, Back
      <4> QED
        BY <3>1, <4>1, <4>2 DEF Told, AskPoints
    <3>2. CASE ~call[j].ret
      BY <1>3, <1>4, <2>1, <3>2 DEF CheckReturns
    <3> QED
      BY <3>1, <3>2
  <2>2. CASE UseExclusiveReturns(j) \/ FLockReturns(j)
    <3>1. \/ Done(j)
          \/ \E w, t, n : Goto(j, "lockX", w, t, n) \/ Goto(j, "lockF", w, t, n)
      BY <2>2, Zenon DEF UseExclusiveReturns, FLockReturns
    <3> QED
      BY <1>3, <1>4, <3>1
  <2>3. CASE UncheckReturns(j)
    BY <1>4, <2>3 DEF UncheckReturns
  <2>4. CASE ShareReturns(j) \/ UnLockReturns(j) \/ CloseSReturns(j)
    BY <1>3, <2>4 DEF ShareReturns, UnLockReturns, CloseSReturns
  <2>5. CASE CloseXReturns(j)
    BY <1>3, <1>4, <2>5 DEF CloseXReturns, CloseShared
  <2> QED
    BY <1>5, <2>1, <2>2, <2>3, <2>4, <2>5 DEF Returns
<1>6. ASSUME NEW j \in Instances, NEW w \in Areas, FLock(j, w) \/ UnLock(j, w) \/ Close(j, w)
      PROVE  FALSE
  <2>1. CASE FLock(j, w)
    <3>1. UNCHANGED << aExclusive, op >> \/ Goto(j, "lockF", w, wa[j][w].file, 1)
      BY <2>1, Zenon DEF FLock
    <3> QED
      BY <1>1, <1>4, <3>1
  <2>2. CASE UnLock(j, w)
    <3>1. UNCHANGED << aExclusive, op >> \/ Goto(j, "unlock", w, wa[j][w].file, 1)
      BY <2>2, Zenon DEF UnLock
    <3> QED
      BY <1>1, <1>4, <3>1
  <2>3. CASE Close(j, w)
    BY <1>3, <1>4, <2>3 DEF Close, CloseShared
  <2> QED
    BY <1>6, <2>1, <2>2, <2>3
<1>7. ASSUME NEW j \in Instances, NEW w \in Areas, NEW t \in Tables,
             UseExclusive(j, w, t) \/ UseShared(j, w, t)
      PROVE  FALSE
  <2>1. CASE UseExclusive(j, w, t)
    <3>1. UNCHANGED << aExclusive, op >> \/ Goto(j, "lockX", w, t, 1)
      BY <2>1, Zenon DEF UseExclusive
    <3> QED
      BY <1>1, <1>4, <3>1
  <2>2. CASE UseShared(j, w, t)
    BY <1>4, <2>2 DEF UseShared
  <2> QED
    BY <1>7, <2>1, <2>2
<1>8. ASSUME NEW j \in Instances, TableCrash(j) PROVE FALSE
  BY <1>3, <1>8 DEF TableCrash, Done
<1>9. ASSUME UNCHANGED tvars PROVE FALSE
  BY <1>1, <1>9 DEF tvars
<1> QED
  BY <1>5, <1>6, <1>7, <1>8, <1>9 DEF TableNext, Progress

(* "Ok, nobody have it EXCLUSIVE !" is right when it is said: LockTable(.T.) *)
(* was granted the EXC lock that an exclusive open of another instance     *)
(* would have.                                                             *)
THEOREM SharedCheck ==
    ASSUME Rdbms # "ORACLE", Alone PROVE TableSpec => CheckIsRight
<1> DEFINE Step == \A i \in Instances : (op[i].at = "check" /\ op'[i].at = "uncheck")
                                           => NobodyElseExclusive(i, op[i].t)
<1>1. IInv /\ TInv /\ HInv /\ [TableNext]_allVars => [Step]_allVars
  <2> SUFFICES ASSUME IInv, TInv, HInv, TableNext, NEW i \in Instances,
                      op[i].at = "check", op'[i].at = "uncheck",
                      NEW j \in Instances \ {i}, NEW w \in Areas, ExclusiveOpen(j, w, op[i].t)
               PROVE  FALSE
    BY DEF NobodyElseExclusive
  <2>1. op[i].t \in Tables
    BY DEF TInv, TableTypeOK, OpType
  <2>2. EXC(op[i].t) \in held[j]
    BY <2>1, ExclusiveHeld
  <2>3. Told(i)
    BY CheckMoves DEF IInv
  <2>4. EXC(op[i].t) \in held[i]
    BY <2>3 DEF HInv, HInst, PointInv, AskedSet
  <2> QED
    BY <2>2, <2>4 DEF IInv, OwnInv
<1> QED
  BY <1>1, HInvAlways, PTL DEF TableSpec, CheckIsRight
=============================================================================
