-------------------------- MODULE MgmntLocksProofs --------------------------
(* Theorems about the lock manager, for every set of instances, locks and  *)
(* session numbers, every family of lock lists and every retry bound.      *)
EXTENDS MgmntLocks, TLAPS

-----------------------------------------------------------------------------
(* The inductive invariant.                                                *)

(* No two live sessions share a number.                                    *)
PidInv ==
    /\ \A i \in Connected : /\ pid[i].cnn \in Pids \ others
                            /\ pid[i].trans \in Pids \ others
                            /\ pid[i].cnn # pid[i].trans
    /\ \A i, j \in Connected : i # j =>
          {pid[i].cnn, pid[i].trans} \cap {pid[j].cnn, pid[j].trans} = {}

(* Only a running instance is in a call or holds locks, and the cursors of *)
(* its call are inside the list.                                           *)
CallOk(i) ==
    LET c == call[i] IN
    /\ c.pc # "idle" => run[i] = "up"
    /\ held[i] # {} => run[i] = "up"
    /\ c.pc \in SetPcs => c.from = 1 /\ c.pos \in 1 .. Len(c.list)
    /\ c.pc \in DeletePcs => /\ c.from >= 1 /\ c.from < c.pos
                             /\ c.pos <= Len(c.list) + 1
    /\ c.pc \in {"delR", "insR"} => c.retries > 0

CallInv == \A i \in Instances : CallOk(i)

(* A row was written by an instance that had finished its start-up, and    *)
(* carries the number of its session as long as that instance runs.        *)
RowInv ==
    \A l \in Locks : rows[l] # NoRow =>
        /\ run[rows[l].wsid] \in {"up", "down"}
        /\ run[rows[l].wsid] = "up" => rows[l].spid = Spid(rows[l].wsid)

(* What an instance was granted, and what its current SR_SetLocks call has *)
(* inserted so far, is in the table under its name; the two are disjoint.  *)
OwnInv ==
    \A i \in Instances :
        /\ \A l \in held[i] : rows[l] # NoRow /\ rows[l].wsid = i
        /\ call[i].pc \in SetPcs =>
              \A k \in 1 .. (call[i].pos - 1) :
                  rows[call[i].list[k]] # NoRow /\ rows[call[i].list[k]].wsid = i
        /\ call[i].pc # "idle" =>
              \A k \in call[i].from .. (call[i].pos - 1) : call[i].list[k] \notin held[i]

(* A row of a running instance is a granted lock, or the current call will *)
(* grant or delete it.  Needs statements that do not fail.                 *)
LeakInv ==
    ~DbErrors =>
    \A l \in Locks : (rows[l] # NoRow /\ run[rows[l].wsid] = "up") =>
        LET i == rows[l].wsid IN
        \/ l \in held[i]
        \/ /\ call[i].pc # "idle"
           /\ \E k \in call[i].from .. (call[i].pos - 1) : call[i].list[k] = l

IInv == TypeOK /\ PidInv /\ CallInv /\ RowInv /\ OwnInv /\ LeakInv

-----------------------------------------------------------------------------
(* Typing                                                                  *)

(* A call that has returned is well typed.                                 *)
LEMMA ReturnType == \A b \in BOOLEAN : Return(b) \in CallType /\ Return(b).pc = "idle"
BY ListsAssumption, BoundAssumption DEF Return, CallType

(* What the operators that move a call on do to each of its fields.        *)
LEMMA CallOps ==
    ASSUME NEW c \in CallType
    PROVE  /\ NextLock(c) \in CallType /\ NextLock(c).pc = "ins1"
           /\ NextLock(c).list = c.list /\ NextLock(c).from = c.from
           /\ NextLock(c).pos = c.pos + 1
           /\ NextDelete(c) \in CallType /\ NextDelete(c).pc = c.pc
           /\ NextDelete(c).list = c.list /\ NextDelete(c).from = c.from + 1
           /\ NextDelete(c).pos = c.pos
           /\ \A n \in 0 .. MaxRetries :
                 /\ Again(c, n) \in CallType /\ Again(c, n).pc = "delR"
                 /\ Again(c, n).list = c.list /\ Again(c, n).from = c.from
                 /\ Again(c, n).pos = c.pos /\ Again(c, n).retries = n
           /\ c.from < c.pos => /\ Denied(c) \in CallType /\ Denied(c).pc = "undo"
                                /\ Denied(c).list = c.list /\ Denied(c).from = c.from
                                /\ Denied(c).pos = c.pos
           /\ ~(c.from < c.pos) => Denied(c) \in CallType /\ Denied(c).pc = "idle"
<1>1. /\ NextLock(c) \in CallType /\ NextLock(c).pc = "ins1"
      /\ NextLock(c).list = c.list /\ NextLock(c).from = c.from
      /\ NextLock(c).pos = c.pos + 1
  <2>1. c.pos + 1 \in Nat
    BY DEF CallType
  <2>2. NextLock(c) \in CallType
    BY <2>1 DEF NextLock, CallType, SetPcs
  <2> QED
    BY <2>2 DEF NextLock, CallType
<1>2. /\ NextDelete(c) \in CallType /\ NextDelete(c).pc = c.pc
      /\ NextDelete(c).list = c.list /\ NextDelete(c).from = c.from + 1
      /\ NextDelete(c).pos = c.pos
  BY DEF NextDelete, CallType
<1>3. ASSUME NEW n \in 0 .. MaxRetries
      PROVE  /\ Again(c, n) \in CallType /\ Again(c, n).pc = "delR"
             /\ Again(c, n).list = c.list /\ Again(c, n).from = c.from
             /\ Again(c, n).pos = c.pos /\ Again(c, n).retries = n
  BY DEF Again, CallType, SetPcs
<1>4. CASE c.from < c.pos
  BY <1>1, <1>2, <1>3, <1>4 DEF Denied, CallType, DeletePcs
<1>5. CASE ~(c.from < c.pos)
  BY <1>1, <1>2, <1>3, <1>5, ReturnType DEF Denied
<1> QED
  BY <1>4, <1>5

(* Every step of the lock manager keeps its state well typed.              *)
LEMMA TypeStep == ASSUME IInv, [Next]_vars PROVE TypeOK'
<1> USE ListsAssumption, BoundAssumption, ReturnType DEF IInv, TypeOK
<1>1. CASE OtherLogin
  BY <1>1 DEF OtherLogin
<1>2. CASE OtherLogout
  BY <1>2 DEF OtherLogout
<1>3. ASSUME NEW i \in Instances, AddConnection(i) PROVE TypeOK'
  BY <1>3 DEF AddConnection
<1>4. ASSUME NEW i \in Instances, SetEnv(i) PROVE TypeOK'
  BY <1>4 DEF SetEnv, Purge, Stale
<1>5. ASSUME NEW i \in Instances, Crash(i) PROVE TypeOK'
  BY <1>5 DEF Crash
<1>6. ASSUME NEW i \in Instances, InsertOk(i, {"ins1", "ins2", "insR"}) PROVE TypeOK'
  <2>1. call[i] \in CallType /\ call[i].pos \in 1 .. Len(call[i].list) /\ run[i] = "up"
    BY <1>6 DEF InsertOk, CallInv, CallOk, SetPcs
  <2>2. call[i].list \in Seq(Locks)
    BY <2>1 DEF CallType
  <2>3. Current(i) \in Locks
    BY <2>1, <2>2 DEF Current
  <2>4. Spid(i) \in Pids
    BY <2>1 DEF Spid, PidInv, Connected
  <2>5. [wsid |-> i, spid |-> Spid(i)] \in Row
    BY <2>4 DEF Row
  <2>6. rows' \in [Locks -> Row \cup {NoRow}]
    BY <1>6, <2>3, <2>5 DEF InsertOk
  <2>7. call' \in [Instances -> CallType]
    BY <1>6, <2>1, CallOps DEF InsertOk
  <2>8. Added(i) \subseteq Locks
    BY <1>6, <2>1, <2>2 DEF Added, CallInv, CallOk, InsertOk, SetPcs
  <2>9. held' \in [Instances -> SUBSET Locks]
    BY <1>6, <2>3, <2>8 DEF InsertOk
  <2> QED
    BY <1>6, <2>6, <2>7, <2>9 DEF InsertOk
<1>7. ASSUME NEW i \in Instances, InsertFails1(i) PROVE TypeOK'
  <2>1. call[i] \in CallType /\ call' = [call EXCEPT ![i] = [call[i] EXCEPT !.pc = "del1"]]
    BY <1>7 DEF InsertFails1
  <2>2. [call[i] EXCEPT !.pc = "del1"] \in CallType
    BY <2>1 DEF CallType, SetPcs
  <2> QED
    BY <1>7, <2>1, <2>2 DEF InsertFails1
<1>8. ASSUME NEW i \in Instances, InsertFails2(i) PROVE TypeOK'
  <2>1. call[i] \in CallType /\ call[i].retries \in 0 .. MaxRetries
    BY DEF CallType
  <2>2. Denied(call[i]) \in CallType /\ Again(call[i], call[i].retries) \in CallType
    BY <2>1, CallOps
  <2> QED
    BY <1>8, <2>2 DEF InsertFails2
<1>9. ASSUME NEW i \in Instances, RetryFails(i) PROVE TypeOK'
  <2>1. call[i] \in CallType /\ call[i].retries - 1 \in 0 .. MaxRetries
    BY <1>9 DEF CallType, CallInv, CallOk, RetryFails
  <2>2. Denied(call[i]) \in CallType /\ Again(call[i], call[i].retries - 1) \in CallType
    BY <2>1, CallOps
  <2> QED
    BY <1>9, <2>2 DEF RetryFails
<1>10. ASSUME NEW i \in Instances, HousekeepStep(i) PROVE TypeOK'
  <2> DEFINE c == [call[i] EXCEPT !.pc = IF @ = "del1" THEN "ins2" ELSE "insR"]
  <2>1. call[i] \in CallType /\ call' = [call EXCEPT ![i] = c]
    BY <1>10 DEF HousekeepStep
  <2>2. c \in CallType
    BY <2>1 DEF CallType, SetPcs
  <2>3. rows' \in [Locks -> Row \cup {NoRow}]
    BY <1>10 DEF HousekeepStep, Housekeep, Purge
  <2> HIDE DEF c
  <2> QED
    BY <1>10, <2>1, <2>2, <2>3 DEF HousekeepStep
<1>11. ASSUME NEW i \in Instances, DeleteStep(i) PROVE TypeOK'
  <2>1. rows' \in [Locks -> Row \cup {NoRow}]
    BY <1>11 DEF DeleteStep, DeleteOwn
  <2>2. call' \in [Instances -> CallType]
    <3>1. call[i] \in CallType /\ call[i].ret \in BOOLEAN
      BY DEF CallType
    <3>2. NextDelete(call[i]) \in CallType /\ Return(call[i].ret) \in CallType
      BY <3>1, CallOps
    <3> QED
      BY <1>11, <3>2 DEF DeleteStep
  <2> QED
    BY <1>11, <2>1, <2>2 DEF DeleteStep
<1>12. ASSUME NEW i \in Instances, DeleteFails(i) PROVE TypeOK'
  <2>1. call[i] \in CallType /\ call[i].ret \in BOOLEAN
    BY DEF CallType
  <2>2. NextDelete(call[i]) \in CallType /\ Return(call[i].ret) \in CallType
    BY <2>1, CallOps
  <2> QED
    BY <1>12, <2>2 DEF DeleteFails
<1>13. ASSUME NEW i \in Instances, ListLocks(i) PROVE TypeOK'
  BY <1>13 DEF ListLocks, Purge
<1>14. ASSUME NEW i \in Instances, NEW list \in LockLists, ReleaseLocks(i, list) PROVE TypeOK'
  BY <1>14 DEF ReleaseLocks, CallType, DeletePcs
<1>15. ASSUME NEW i \in Instances, NEW list \in LockLists, NEW n \in 0 .. MaxRetries,
              SetLocks(i, list, n) PROVE TypeOK'
  BY <1>15 DEF SetLocks, CallType, SetPcs
<1>16. CASE UNCHANGED vars
  BY <1>16 DEF vars
<1> QED
  BY <1>1, <1>2, <1>3, <1>4, <1>5, <1>6, <1>7, <1>8, <1>9, <1>10, <1>11, <1>12,
     <1>13, <1>14, <1>15, <1>16 DEF Next, Server, CallStep

-----------------------------------------------------------------------------
(* Sessions and rows                                                       *)

(* A new session takes a free number, so numbers stay distinct.            *)
LEMMA PidStep == ASSUME IInv, [Next]_vars PROVE PidInv'
<1> USE NullAssumption DEF IInv, TypeOK, PidInv, Connected
<1>1. CASE OtherLogin
  BY <1>1 DEF OtherLogin, BusyPids
<1>2. CASE OtherLogout
  BY <1>2 DEF OtherLogout
<1>3. ASSUME NEW i \in Instances, AddConnection(i) PROVE PidInv'
  <2>1. PICK p, q \in Pids \ BusyPids :
           p # q /\ pid' = [pid EXCEPT ![i] = [cnn |-> p, trans |-> q]]
    BY <1>3 DEF AddConnection
  <2>2. \A j \in Connected : {p, q} \cap {pid[j].cnn, pid[j].trans} = {}
    BY <2>1 DEF BusyPids
  <2>3. p \notin others /\ q \notin others
    BY <2>1 DEF BusyPids
  <2>4. Connected' = Connected \cup {i} /\ i \notin Connected /\ others' = others
    BY <1>3 DEF AddConnection
  <2>5. pid'[i].cnn = p /\ pid'[i].trans = q /\ \A j \in Connected : pid'[j] = pid[j]
    BY <2>1, <2>4
  <2> QED
    BY <2>1, <2>2, <2>3, <2>4, <2>5
<1>4. ASSUME NEW i \in Instances, SetEnv(i) PROVE PidInv'
  BY <1>4 DEF SetEnv
<1>5. ASSUME NEW i \in Instances, Crash(i) PROVE PidInv'
  BY <1>5 DEF Crash
<1>6. CASE UNCHANGED << run, pid, others >>
  BY <1>6
<1> QED
  BY <1>1, <1>2, <1>3, <1>4, <1>5, <1>6
  DEF Next, Server, CallStep, InsertOk, InsertFails1, InsertFails2, RetryFails,
      HousekeepStep, DeleteStep, DeleteFails, ListLocks, ReleaseLocks, SetLocks, vars

(* Housekeeping keeps the rows of every running instance, except on        *)
(* Oracle, where it compares SIDs with audit numbers.                      *)
LEMMA LiveRowKept ==
    ASSUME IInv, Rdbms # "ORACLE", NEW l \in Locks,
           rows[l] # NoRow, run[rows[l].wsid] = "up"
    PROVE  SessionLive(rows[l]) /\ ListLive(rows[l])
<1>1. rows[l].spid \in Pids /\ rows[l].wsid \in Connected
  BY DEF IInv, TypeOK, Row, Connected
<1>2. rows[l].spid = pid[rows[l].wsid].trans
  BY DEF IInv, RowInv, Spid
<1>3. rows[l].spid \in BusyPids
  BY <1>1, <1>2 DEF BusyPids
<1> QED
  BY <1>1, <1>2, <1>3, RdbmsAssumption DEF SessionLive, ListLive

(* Start-up housekeeping deletes its own number as well: still no row of a *)
(* running instance, whose session has another number.                     *)
LEMMA OtherRowKept ==
    ASSUME IInv, Rdbms # "ORACLE", NEW l \in Locks, NEW i \in Instances,
           run[i] \in {"env1", "env2"}, rows[l] # NoRow, run[rows[l].wsid] = "up"
    PROVE  rows[l].spid \notin {pid[i].cnn, pid[i].trans}
<1>1. rows[l].wsid \in Connected /\ i \in Connected /\ rows[l].wsid # i
  BY DEF IInv, TypeOK, Row, Connected
<1>2. rows[l].spid = pid[rows[l].wsid].trans
  BY DEF IInv, RowInv, Spid
<1> QED
  BY <1>1, <1>2 DEF IInv, PidInv

(* Rows are deleted one by one or by housekeeping, and written only by an  *)
(* INSERT of a running instance.                                           *)
LEMMA RowStep == ASSUME IInv, [Next]_vars PROVE RowInv'
<1> USE NullAssumption DEF IInv, TypeOK, RowInv, Spid, Row
<1>1. ASSUME NEW i \in Instances, AddConnection(i) PROVE RowInv'
  BY <1>1 DEF AddConnection
<1>2. ASSUME NEW i \in Instances, SetEnv(i) PROVE RowInv'
  BY <1>2 DEF SetEnv, Purge, Stale
<1>3. ASSUME NEW i \in Instances, Crash(i) PROVE RowInv'
  BY <1>3 DEF Crash
<1>4. ASSUME NEW i \in Instances, InsertOk(i, {"ins1", "ins2", "insR"}) PROVE RowInv'
  <2>1. run[i] = "up"
    BY <1>4 DEF InsertOk, CallInv, CallOk
  <2>2. \A l \in Locks : rows'[l] = rows[l] \/ rows'[l] = [wsid |-> i, spid |-> Spid(i)]
    BY <1>4 DEF InsertOk
  <2>3. UNCHANGED << run, pid >>
    BY <1>4 DEF InsertOk
  <2> QED
    BY <2>1, <2>2, <2>3
<1>5. ASSUME NEW i \in Instances, DeleteStep(i) PROVE RowInv'
  BY <1>5 DEF DeleteStep, DeleteOwn
<1>6. ASSUME NEW i \in Instances, HousekeepStep(i) \/ ListLocks(i) PROVE RowInv'
  BY <1>6 DEF HousekeepStep, ListLocks, Housekeep, Purge, Stale
<1>7. CASE UNCHANGED << rows, run, pid >>
  BY <1>7
<1> QED
  BY <1>1, <1>2, <1>3, <1>4, <1>5, <1>6, <1>7
  DEF Next, Server, CallStep, InsertFails1, InsertFails2, RetryFails, DeleteFails,
      ReleaseLocks, SetLocks, OtherLogin, OtherLogout, vars

-----------------------------------------------------------------------------
(* Calls                                                                   *)

(* The cursors of a call stay inside its list.                             *)
LEMMA CallInvStep == ASSUME IInv, [Next]_vars PROVE CallInv'
<1> USE DEF IInv, TypeOK
<1>f. ASSUME NEW i \in Instances, CallOk(i)',
             \A j \in Instances \ {i} : call'[j] = call[j] /\ run'[j] = run[j] /\ held'[j] = held[j]
      PROVE  CallInv'
  <2>1. ASSUME NEW j \in Instances \ {i} PROVE CallOk(j)'
    BY <1>f, <2>1 DEF CallInv, CallOk
  <2> QED
    BY <1>f, <2>1 DEF CallInv
<1>1. ASSUME NEW i \in Instances, AddConnection(i) \/ SetEnv(i) PROVE CallInv'
  <2>1. CallOk(i)'
    BY <1>1 DEF AddConnection, SetEnv, CallInv, CallOk
  <2> QED
    BY <1>1, <1>f, <2>1 DEF AddConnection, SetEnv
<1>2. ASSUME NEW i \in Instances, Crash(i) PROVE CallInv'
  <2>1. CallOk(i)'
    BY <1>2, ReturnType DEF Crash, CallOk, SetPcs, DeletePcs
  <2> QED
    BY <1>2, <1>f, <2>1 DEF Crash
<1>3. ASSUME NEW i \in Instances, InsertOk(i, {"ins1", "ins2", "insR"}) PROVE CallInv'
  <2>1. call[i] \in CallType /\ run[i] = "up" /\ call[i].from = 1
        /\ call[i].pos \in 1 .. Len(call[i].list) /\ call[i].list \in Seq(Locks)
    BY <1>3, ListsAssumption DEF InsertOk, CallType, CallInv, CallOk, SetPcs
  <2>2. UNCHANGED run /\ \A j \in Instances \ {i} : call'[j] = call[j] /\ held'[j] = held[j]
    BY <1>3 DEF InsertOk
  <2>3. CallOk(i)'
    <3>1. CASE call[i].pos = Len(call[i].list)
      <4>1. call'[i] = Return(TRUE)
        BY <1>3, <3>1 DEF InsertOk
      <4> QED
        BY <2>1, <2>2, <4>1, ReturnType DEF CallOk, SetPcs, DeletePcs
    <3>2. CASE call[i].pos # Len(call[i].list)
      <4>1. call'[i] = NextLock(call[i])
        BY <1>3, <3>2 DEF InsertOk
      <4>2. call[i].pos + 1 \in 1 .. Len(call[i].list)
        BY <2>1, <3>2
      <4>3. /\ call'[i].pc = "ins1" /\ call'[i].list = call[i].list
            /\ call'[i].from = 1 /\ call'[i].pos = call[i].pos + 1
        BY <2>1, <4>1, CallOps
      <4> QED
        BY <2>1, <2>2, <4>2, <4>3 DEF CallOk, SetPcs, DeletePcs
    <3> QED
      BY <3>1, <3>2
  <2> QED
    BY <1>f, <2>2, <2>3
<1>4. ASSUME NEW i \in Instances, InsertFails1(i) PROVE CallInv'
  <2>1. /\ UNCHANGED << run, held >> /\ call'[i] = [call[i] EXCEPT !.pc = "del1"]
        /\ call[i].pc = "ins1" /\ \A j \in Instances \ {i} : call'[j] = call[j]
    BY <1>4 DEF InsertFails1
  <2>2. call[i] \in CallType
    OBVIOUS
  <2>3. /\ call'[i].pc = "del1" /\ call'[i].list = call[i].list
        /\ call'[i].from = call[i].from /\ call'[i].pos = call[i].pos
    BY <2>1, <2>2 DEF CallType
  <2>4. CallOk(i)'
    BY <2>1, <2>3 DEF CallInv, CallOk, SetPcs, DeletePcs
  <2> QED
    BY <1>f, <2>1, <2>4
<1>5. ASSUME NEW i \in Instances, NEW n \in 0 .. MaxRetries, UNCHANGED << run, held >>,
             call[i].pc \in SetPcs, call'[i] \in {Again(call[i], n), Denied(call[i])},
             call'[i] = Denied(call[i]) \/ n > 0,
             \A j \in Instances \ {i} : call'[j] = call[j]
      PROVE  CallInv'
  <2>1. /\ call[i] \in CallType /\ run[i] = "up" /\ call[i].from = 1
        /\ call[i].pos \in 1 .. Len(call[i].list) /\ call[i].list \in Seq(Locks)
    BY <1>5, ListsAssumption DEF CallType, CallInv, CallOk, SetPcs
  <2>2. CASE call'[i] = Again(call[i], n) /\ n > 0
    <3>1. /\ call'[i].pc = "delR" /\ call'[i].list = call[i].list /\ call'[i].from = call[i].from
          /\ call'[i].pos = call[i].pos /\ call'[i].retries = n
      BY <1>5, <2>1, <2>2, CallOps
    <3>2. CallOk(i)'
      BY <1>5, <2>1, <2>2, <3>1 DEF CallOk, SetPcs, DeletePcs
    <3> QED
      BY <1>5, <1>f, <3>2
  <2>3. CASE call'[i] = Denied(call[i])
    <3>1. CASE call[i].from < call[i].pos
      <4>1. /\ call'[i].pc = "undo" /\ call'[i].list = call[i].list
            /\ call'[i].from = call[i].from /\ call'[i].pos = call[i].pos
        BY <2>1, <2>3, <3>1, CallOps
      <4>2. CallOk(i)'
        BY <1>5, <2>1, <3>1, <4>1 DEF CallOk, SetPcs, DeletePcs
      <4> QED
        BY <1>5, <1>f, <4>2
    <3>2. CASE ~(call[i].from < call[i].pos)
      <4>1. call'[i].pc = "idle"
        BY <2>1, <2>3, <3>2, CallOps
      <4>2. CallOk(i)'
        BY <1>5, <2>1, <4>1 DEF CallOk, SetPcs, DeletePcs
      <4> QED
        BY <1>5, <1>f, <4>2
    <3> QED
      BY <3>1, <3>2
  <2> QED
    BY <1>5, <2>2, <2>3
<1>6. ASSUME NEW i \in Instances, InsertFails2(i) \/ RetryFails(i) PROVE CallInv'
  <2>1. call[i].retries \in 0 .. MaxRetries /\ call[i].pc \in SetPcs
    BY <1>6 DEF InsertFails2, RetryFails, CallType, SetPcs
  <2>2. UNCHANGED << run, held >> /\ \A j \in Instances \ {i} : call'[j] = call[j]
    BY <1>6 DEF InsertFails2, RetryFails
  <2>3. CASE InsertFails2(i)
    <3>1. call'[i] \in {Again(call[i], call[i].retries), Denied(call[i])}
          /\ (call'[i] = Denied(call[i]) \/ call[i].retries > 0)
      BY <2>3 DEF InsertFails2
    <3> QED
      BY <1>5, <2>1, <2>2, <3>1
  <2>4. CASE RetryFails(i)
    <3>1. call'[i] \in {Again(call[i], call[i].retries - 1), Denied(call[i])}
          /\ (call'[i] = Denied(call[i]) \/ call[i].retries - 1 > 0)
      BY <2>4 DEF RetryFails
    <3>2. call[i].retries - 1 \in 0 .. MaxRetries
      <4>1. call[i].pc = "insR"
        BY <2>4 DEF RetryFails
      <4>2. call[i].retries > 0
        BY <4>1 DEF CallInv, CallOk
      <4> QED
        BY <2>1, <4>2, BoundAssumption
    <3> QED
      BY <1>5, <2>1, <2>2, <3>1, <3>2
  <2> QED
    BY <1>6, <2>3, <2>4
<1>7. ASSUME NEW i \in Instances, HousekeepStep(i) PROVE CallInv'
  <2>1. /\ UNCHANGED << run, held >> /\ call[i].pc \in {"del1", "delR"}
        /\ call'[i] = [call[i] EXCEPT !.pc = IF @ = "del1" THEN "ins2" ELSE "insR"]
        /\ \A j \in Instances \ {i} : call'[j] = call[j]
    BY <1>7 DEF HousekeepStep
  <2>2. call[i] \in CallType
    OBVIOUS
  <2>3. /\ call'[i].pc = IF call[i].pc = "del1" THEN "ins2" ELSE "insR"
        /\ call'[i].list = call[i].list /\ call'[i].retries = call[i].retries
        /\ call'[i].from = call[i].from /\ call'[i].pos = call[i].pos
    BY <2>1, <2>2 DEF CallType
  <2>4. CallOk(i)'
    BY <2>1, <2>3 DEF CallInv, CallOk, SetPcs, DeletePcs
  <2> QED
    BY <1>f, <2>1, <2>4
<1>8. ASSUME NEW i \in Instances, DeleteStep(i) \/ DeleteFails(i) PROVE CallInv'
  <2>1. call[i] \in CallType /\ call[i].ret \in BOOLEAN /\ call[i].from \in Nat
        /\ call[i].pos \in Nat /\ call[i].list \in Seq(Locks)
    BY ListsAssumption DEF CallType
  <2>2. \/ call'[i] = Return(call[i].ret)
        \/ call[i].from + 1 < call[i].pos /\ call'[i] = NextDelete(call[i])
    BY <1>8 DEF DeleteStep, DeleteFails
  <2>3. /\ UNCHANGED << run, held >> /\ call[i].pc \in DeletePcs
        /\ \A j \in Instances \ {i} : call'[j] = call[j]
    BY <1>8 DEF DeleteStep, DeleteFails
  <2>4. run[i] = "up" /\ call[i].from >= 1 /\ call[i].pos <= Len(call[i].list) + 1
    BY <2>3 DEF CallInv, CallOk, DeletePcs
  <2>5. CASE call'[i] = Return(call[i].ret)
    <3>1. call'[i].pc = "idle"
      BY <2>1, <2>5, ReturnType
    <3>2. CallOk(i)'
      BY <2>3, <2>4, <3>1 DEF CallOk, SetPcs, DeletePcs
    <3> QED
      BY <1>f, <2>3, <3>2
  <2>6. CASE call[i].from + 1 < call[i].pos /\ call'[i] = NextDelete(call[i])
    <3>1. /\ call'[i].pc = call[i].pc /\ call'[i].list = call[i].list
          /\ call'[i].from = call[i].from + 1 /\ call'[i].pos = call[i].pos
      BY <2>1, <2>6, CallOps
    <3>2. call'[i].from >= 1 /\ call'[i].from < call'[i].pos
          /\ call'[i].pos <= Len(call'[i].list) + 1
      BY <2>1, <2>4, <2>6, <3>1
    <3>3. CallOk(i)'
      BY <2>3, <2>4, <3>1, <3>2 DEF CallOk, SetPcs, DeletePcs
    <3> QED
      BY <1>f, <2>3, <3>3
  <2> QED
    BY <2>2, <2>5, <2>6
<1>9. ASSUME NEW i \in Instances, NEW list \in LockLists, ReleaseLocks(i, list) PROVE CallInv'
  <2>1. list \in Seq(Locks) /\ Len(list) >= 1
    BY ListsAssumption
  <2>2. /\ call'[i].pc = "rel" /\ call'[i].list = list /\ call'[i].from = 1
        /\ call'[i].pos = Len(list) + 1 /\ run'[i] = "up"
    BY <1>9 DEF ReleaseLocks
  <2>3. CallOk(i)'
    BY <2>1, <2>2 DEF CallOk, SetPcs, DeletePcs
  <2> QED
    BY <1>f, <1>9, <2>3 DEF ReleaseLocks
<1>10. ASSUME NEW i \in Instances, NEW list \in LockLists, NEW n \in 0 .. MaxRetries,
              SetLocks(i, list, n) PROVE CallInv'
  <2>1. list \in Seq(Locks) /\ Len(list) >= 1
    BY ListsAssumption
  <2>2. /\ call'[i].pc = "ins1" /\ call'[i].list = list /\ call'[i].from = 1
        /\ call'[i].pos = 1 /\ run'[i] = "up"
    BY <1>10 DEF SetLocks
  <2>3. CallOk(i)'
    BY <2>1, <2>2 DEF CallOk, SetPcs, DeletePcs
  <2> QED
    BY <1>f, <1>10, <2>3 DEF SetLocks
<1>11. CASE UNCHANGED << run, call, held >>
  BY <1>11 DEF CallInv, CallOk
<1> QED
  BY <1>1, <1>2, <1>3, <1>4, <1>6, <1>7, <1>8, <1>9, <1>10, <1>11
  DEF Next, Server, CallStep, ListLocks, OtherLogin, OtherLogout, vars

-----------------------------------------------------------------------------
(* Ownership                                                               *)

(* A step that grants nothing, keeps the rows of the running instances and *)
(* leaves every call where it is, undoes it or ends it, keeps OwnInv.      *)
LEMMA OwnKept ==
    ASSUME IInv, UNCHANGED held,
           \A l \in Locks : rows[l] # NoRow /\ run[rows[l].wsid] = "up" => rows'[l] = rows[l],
           \A j \in Instances : call'[j].pc # "idle" =>
               /\ call[j].pc # "idle"
               /\ call'[j].list = call[j].list /\ call'[j].pos = call[j].pos
               /\ call'[j].from = call[j].from
               /\ call'[j].pc \in SetPcs => call[j].pc \in SetPcs
    PROVE  OwnInv'
<1> SUFFICES ASSUME NEW j \in Instances
             PROVE  /\ \A l \in held[j] : rows'[l] # NoRow /\ rows'[l].wsid = j
                    /\ call'[j].pc \in SetPcs =>
                          \A k \in 1 .. (call'[j].pos - 1) :
                             /\ rows'[call'[j].list[k]] # NoRow
                             /\ rows'[call'[j].list[k]].wsid = j
                    /\ call'[j].pc # "idle" =>
                          \A k \in call'[j].from .. (call'[j].pos - 1) :
                              call'[j].list[k] \notin held[j]
  BY DEF OwnInv
<1>1. \A l \in held[j] : rows'[l] # NoRow /\ rows'[l].wsid = j
  BY DEF IInv, TypeOK, OwnInv, CallInv, CallOk
<1>2. ASSUME call'[j].pc \in SetPcs, NEW k \in 1 .. (call'[j].pos - 1)
      PROVE  /\ rows'[call'[j].list[k]] # NoRow
             /\ rows'[call'[j].list[k]].wsid = j
  <2>1. call[j].pc \in SetPcs /\ call[j].pc # "idle" /\ k \in 1 .. (call[j].pos - 1)
        /\ call'[j].list = call[j].list
    BY <1>2 DEF SetPcs
  <2>2. call[j].list \in Seq(Locks) /\ call[j].pos \in 1 .. Len(call[j].list) /\ run[j] = "up"
    BY <2>1, ListsAssumption DEF IInv, TypeOK, CallType, CallInv, CallOk
  <2>3. call[j].list[k] \in Locks
    BY <2>1, <2>2
  <2>4. rows[call[j].list[k]] # NoRow /\ rows[call[j].list[k]].wsid = j
    BY <2>1 DEF IInv, OwnInv
  <2> QED
    BY <2>1, <2>2, <2>3, <2>4
<1>3. ASSUME call'[j].pc # "idle", NEW k \in call'[j].from .. (call'[j].pos - 1)
      PROVE  call'[j].list[k] \notin held[j]
  BY <1>3 DEF IInv, OwnInv
<1> QED
  BY <1>1, <1>2, <1>3

(* Each lock is granted to the instance that inserted its row, and stays   *)
(* so.                                                                     *)
LEMMA OwnStep == ASSUME IInv, Rdbms # "ORACLE", [Next]_vars PROVE OwnInv'
<1> USE ListsAssumption, BoundAssumption, ReturnType DEF IInv, TypeOK
<1>1. ASSUME NEW i \in Instances, SetEnv(i) PROVE OwnInv'
  BY <1>1, OwnKept, LiveRowKept, OtherRowKept DEF SetEnv, Purge, Stale
<1>2. ASSUME NEW i \in Instances, HousekeepStep(i) PROVE OwnInv'
  <2>1. \A l \in Locks : rows[l] # NoRow /\ run[rows[l].wsid] = "up" => rows'[l] = rows[l]
    BY <1>2, LiveRowKept DEF HousekeepStep, Housekeep, Purge, Stale
  <2>2. call' = [call EXCEPT ![i].pc = IF @ = "del1" THEN "ins2" ELSE "insR"]
        /\ UNCHANGED held /\ call[i].pc \in {"del1", "delR"}
    BY <1>2 DEF HousekeepStep
  <2> QED
    BY <2>1, <2>2, OwnKept DEF SetPcs, CallType
<1>3. ASSUME NEW i \in Instances, ListLocks(i) PROVE OwnInv'
  BY <1>3, OwnKept, LiveRowKept DEF ListLocks, Purge
<1>4. ASSUME NEW i \in Instances, InsertFails1(i) PROVE OwnInv'
  BY <1>4, OwnKept DEF InsertFails1, SetPcs, CallType
<1>5. ASSUME NEW i \in Instances, InsertFails2(i) \/ RetryFails(i) PROVE OwnInv'
  <2>1. UNCHANGED << rows, held >> /\ call[i].pc \in SetPcs /\ call[i].pc # "idle"
    BY <1>5 DEF InsertFails2, RetryFails, SetPcs
  <2>2. \A j \in Instances \ {i} : call'[j] = call[j]
    BY <1>5 DEF InsertFails2, RetryFails
  <2>3. PICK n \in 0 .. MaxRetries : call'[i] \in {Again(call[i], n), Denied(call[i])}
    BY <1>5 DEF InsertFails2, RetryFails, CallType, CallInv, CallOk
  <2>4. call'[i].pc # "idle" => /\ call'[i].list = call[i].list /\ call'[i].pos = call[i].pos
                                /\ call'[i].from = call[i].from
    BY <2>3, CallOps
  <2> QED
    BY <2>1, <2>2, <2>4, OwnKept
<1>6. ASSUME NEW i \in Instances, Crash(i) PROVE OwnInv'
  <2>1. \A j \in Instances \ {i} : call'[j] = call[j] /\ held'[j] = held[j]
    BY <1>6 DEF Crash
  <2>2. call'[i].pc = "idle" /\ held'[i] = {} /\ rows' = rows
    BY <1>6 DEF Crash
  <2> QED
    BY <2>1, <2>2 DEF OwnInv, SetPcs
<1>7. ASSUME NEW i \in Instances, InsertOk(i, {"ins1", "ins2", "insR"}) PROVE OwnInv'
  <2>1. /\ call[i] \in CallType /\ call[i].from = 1 /\ call[i].pc \in SetPcs
        /\ call[i].pos \in 1 .. Len(call[i].list) /\ call[i].list \in Seq(Locks)
    BY <1>7 DEF InsertOk, CallType, CallInv, CallOk, SetPcs
  <2>2. Current(i) \in Locks /\ Current(i) = call[i].list[call[i].pos]
    BY <2>1 DEF Current
  <2>3. /\ rows[Current(i)] = NoRow
        /\ rows'[Current(i)] = [wsid |-> i, spid |-> Spid(i)]
        /\ \A l \in Locks \ {Current(i)} : rows'[l] = rows[l]
    BY <1>7, <2>2 DEF InsertOk
  <2>4. rows'[Current(i)] # NoRow /\ rows'[Current(i)].wsid = i
    <3>1. run[i] = "up"
      BY <2>1 DEF CallInv, CallOk, SetPcs
    <3>2. Spid(i) \in Pids
      BY <3>1 DEF Spid, PidInv, Connected
    <3>3. rows'[Current(i)] \in [wsid : Instances, spid : Pids]
      BY <2>3, <3>2
    <3> QED
      BY <2>3, <3>3, NullAssumption
  <2>5. \A l \in Locks : rows[l] # NoRow => rows'[l] = rows[l]
    BY <2>3
  <2>6. \A j \in Instances \ {i} : call'[j] = call[j] /\ held'[j] = held[j]
    BY <1>7 DEF InsertOk
  <2>7. \A j \in Instances : \A k \in 1 .. Len(call[j].list) : call[j].list[k] \in Locks
    BY DEF CallType
  <2>8. \A l \in held[i] : l # Current(i)
    BY <2>3 DEF OwnInv
  <2>9. \A j \in Instances : \A l \in held[j] : rows'[l] # NoRow /\ rows'[l].wsid = j
    BY <2>5 DEF OwnInv
  <2>10. \A j \in Instances : call[j].pc \in SetPcs =>
            \A k \in 1 .. (call[j].pos - 1) :
               rows'[call[j].list[k]] # NoRow /\ rows'[call[j].list[k]].wsid = j
    <3> SUFFICES ASSUME NEW j \in Instances, call[j].pc \in SetPcs,
                        NEW k \in 1 .. (call[j].pos - 1)
                 PROVE  rows'[call[j].list[k]] # NoRow /\ rows'[call[j].list[k]].wsid = j
      OBVIOUS
    <3>1. k \in 1 .. Len(call[j].list)
      BY DEF CallInv, CallOk, CallType
    <3> QED
      BY <3>1, <2>5, <2>7 DEF OwnInv
  <2>11. CASE call[i].pos = Len(call[i].list)
    <3>1. call'[i].pc = "idle" /\ held'[i] = held[i] \cup Added(i) \cup {Current(i)}
      BY <1>7, <2>11 DEF InsertOk
    <3>2. \A l \in Added(i) : rows'[l] # NoRow /\ rows'[l].wsid = i
      BY <2>1, <2>10 DEF Added
    <3> QED
      BY <2>4, <2>6, <2>9, <2>10, <3>1, <3>2 DEF OwnInv, SetPcs
  <2>12. CASE call[i].pos # Len(call[i].list)
    <3>1. call' = [call EXCEPT ![i] = NextLock(call[i])] /\ held' = held
      BY <1>7, <2>12 DEF InsertOk
    <3>2. /\ call'[i].pc = "ins1" /\ call'[i].list = call[i].list
          /\ call'[i].from = 1 /\ call'[i].pos = call[i].pos + 1
      BY <2>1, <3>1, CallOps
    <3>3. \A k \in 1 .. (call'[i].pos - 1) : k = call[i].pos \/ k \in 1 .. (call[i].pos - 1)
      BY <2>1, <3>2
    <3>4. ASSUME NEW k \in 1 .. (call'[i].pos - 1)
          PROVE  /\ rows'[call'[i].list[k]] # NoRow
                 /\ rows'[call'[i].list[k]].wsid = i
                 /\ call'[i].list[k] \notin held'[i]
      <4>1. CASE k = call[i].pos
        BY <2>2, <2>4, <2>8, <3>1, <3>2, <4>1
      <4>2. CASE k \in 1 .. (call[i].pos - 1)
        <5>1. call[i].list[k] \notin held[i]
          BY <2>1, <4>2 DEF OwnInv, SetPcs
        <5> QED
          BY <2>1, <2>10, <3>1, <3>2, <4>2, <5>1
      <4> QED
        BY <3>3, <4>1, <4>2
    <3> QED
      BY <2>6, <2>9, <2>10, <3>1, <3>2, <3>4 DEF OwnInv, SetPcs
  <2> QED
    BY <2>11, <2>12
<1>8. ASSUME NEW i \in Instances, DeleteStep(i) \/ DeleteFails(i) PROVE OwnInv'
  <2> DEFINE d == call[i].list[call[i].from]
  <2>1. /\ call[i] \in CallType /\ call[i].ret \in BOOLEAN /\ call[i].from \in Nat
        /\ call[i].pos \in Nat /\ call[i].list \in Seq(Locks)
        /\ call[i].pc \in DeletePcs /\ call[i].from >= 1 /\ call[i].from < call[i].pos
        /\ call[i].pos <= Len(call[i].list) + 1
    BY <1>8 DEF CallType, DeleteStep, DeleteFails, CallInv, CallOk
  <2>2. d \in Locks /\ d \notin held[i]
    <3>1. call[i].from \in call[i].from .. (call[i].pos - 1)
          /\ call[i].from \in 1 .. Len(call[i].list) /\ call[i].pc # "idle"
      BY <2>1 DEF DeletePcs
    <3>2. d \notin held[i]
      BY <3>1 DEF OwnInv
    <3> QED
      BY <2>1, <3>1, <3>2
  <2>3. \A l \in Locks : rows'[l] = rows[l] \/ (l = d /\ rows[l].wsid = i)
    BY <1>8, <2>2 DEF DeleteStep, DeleteFails, DeleteOwn
  <2>4. \A j \in Instances \ {i} : call'[j] = call[j]
    BY <1>8 DEF DeleteStep, DeleteFails
  <2>5. \/ call'[i].pc = "idle"
        \/ /\ call'[i].pc = call[i].pc /\ call'[i].list = call[i].list
           /\ call'[i].from = call[i].from + 1 /\ call'[i].pos = call[i].pos
    BY <1>8, <2>1, CallOps DEF DeleteStep, DeleteFails
  <2>6. UNCHANGED held
    BY <1>8 DEF DeleteStep, DeleteFails
  <2>7. \A j \in Instances : \A l \in held[j] : rows'[l] # NoRow /\ rows'[l].wsid = j
    BY <2>2, <2>3 DEF OwnInv
  <2>8. ASSUME NEW j \in Instances, call'[j].pc \in SetPcs,
               NEW k \in 1 .. (call'[j].pos - 1)
        PROVE  rows'[call'[j].list[k]] # NoRow /\ rows'[call'[j].list[k]].wsid = j
    <3>1. j # i /\ call'[j] = call[j]
      BY <2>1, <2>4, <2>5, <2>8 DEF SetPcs, DeletePcs
    <3>2. k \in 1 .. Len(call[j].list) /\ call[j].list \in Seq(Locks)
      BY <2>8, <3>1 DEF CallInv, CallOk, CallType
    <3>3. rows[call[j].list[k]] # NoRow /\ rows[call[j].list[k]].wsid = j
      BY <2>8, <3>1 DEF OwnInv
    <3> QED
      BY <2>3, <3>1, <3>2, <3>3
  <2>9. ASSUME NEW j \in Instances, call'[j].pc # "idle",
               NEW k \in call'[j].from .. (call'[j].pos - 1)
        PROVE  call'[j].list[k] \notin held[j]
    <3>1. CASE j = i
      <4>1. k \in call[i].from .. (call[i].pos - 1) /\ call'[i].list = call[i].list
        BY <2>1, <2>5, <2>9, <3>1
      <4> QED
        BY <2>1, <3>1, <4>1 DEF OwnInv, DeletePcs
    <3>2. CASE j # i
      BY <2>4, <2>9, <3>2 DEF OwnInv
    <3> QED
      BY <3>1, <3>2
  <2> HIDE DEF IInv, TypeOK, d
  <2> QED
    BY <2>6, <2>7, <2>8, <2>9 DEF OwnInv
<1>9. ASSUME NEW i \in Instances, NEW list \in LockLists, ReleaseLocks(i, list) PROVE OwnInv'
  <2>1. /\ call'[i].pc = "rel" /\ call'[i].list = list
        /\ call'[i].from = 1 /\ call'[i].pos = Len(list) + 1
        /\ held'[i] = held[i] \ {list[k] : k \in 1 .. Len(list)}
        /\ rows' = rows
    BY <1>9 DEF ReleaseLocks
  <2>2. \A j \in Instances \ {i} : call'[j] = call[j] /\ held'[j] = held[j]
    BY <1>9 DEF ReleaseLocks
  <2>3. \A k \in 1 .. (call'[i].pos - 1) : call'[i].list[k] \notin held'[i]
    BY <2>1
  <2>4. \A j \in Instances : \A l \in held'[j] : rows'[l] # NoRow /\ rows'[l].wsid = j
    BY <2>1, <2>2 DEF OwnInv
  <2>5. \A j \in Instances \ {i} :
           /\ call'[j].pc \in SetPcs => \A k \in 1 .. (call'[j].pos - 1) :
                 rows'[call'[j].list[k]] # NoRow /\ rows'[call'[j].list[k]].wsid = j
           /\ call'[j].pc # "idle" => \A k \in call'[j].from .. (call'[j].pos - 1) :
                 call'[j].list[k] \notin held'[j]
    BY <2>1, <2>2 DEF OwnInv
  <2>6. call'[i].pc \notin SetPcs
    BY <2>1 DEF SetPcs
  <2> QED
    BY <2>1, <2>3, <2>4, <2>5, <2>6 DEF OwnInv
<1>10. ASSUME NEW i \in Instances, NEW list \in LockLists, NEW n \in 0 .. MaxRetries,
              SetLocks(i, list, n) PROVE OwnInv'
  BY <1>10 DEF SetLocks, OwnInv
<1>11. CASE UNCHANGED << rows, call, held >>
  BY <1>11 DEF OwnInv
<1> QED
  BY <1>1, <1>2, <1>3, <1>4, <1>5, <1>6, <1>7, <1>8, <1>9, <1>10, <1>11
  DEF Next, Server, CallStep, AddConnection, OtherLogin, OtherLogout, vars

(* Nothing is left behind: a row of a running instance belongs to a lock   *)
(* it was granted or to its current call.                                  *)
LEMMA LeakStep == ASSUME IInv, [Next]_vars PROVE LeakInv'
<1> SUFFICES ASSUME ~DbErrors, NEW l \in Locks, rows'[l] # NoRow,
                    run'[rows'[l].wsid] = "up"
             PROVE  LET o == rows'[l].wsid IN
                    \/ l \in held'[o]
                    \/ /\ call'[o].pc # "idle"
                       /\ \E k \in call'[o].from .. (call'[o].pos - 1) : call'[o].list[k] = l
  BY DEF LeakInv
<1> DEFINE o == rows'[l].wsid
           Claimed == \/ l \in held'[o]
                      \/ /\ call'[o].pc # "idle"
                         /\ \E k \in call'[o].from .. (call'[o].pos - 1) : call'[o].list[k] = l
           Claim(j) == \/ l \in held[j]
                       \/ /\ call[j].pc # "idle"
                          /\ \E k \in call[j].from .. (call[j].pos - 1) : call[j].list[k] = l
<1>0. TypeOK' /\ RowInv' /\ o \in Instances
  BY TypeStep, RowStep DEF TypeOK, Row
<1>a. ASSUME rows[l] = rows'[l], run[o] = "up" PROVE Claim(o)
  BY <1>a DEF IInv, LeakInv
<1> USE ListsAssumption, BoundAssumption, ReturnType DEF IInv, TypeOK
<1>1. ASSUME NEW i \in Instances, AddConnection(i) PROVE Claimed
  BY <1>0, <1>1, <1>a DEF AddConnection
<1>2. ASSUME NEW i \in Instances, SetEnv(i) PROVE Claimed
  BY <1>0, <1>2, <1>a DEF SetEnv, Purge, Stale, RowInv
<1>3. ASSUME NEW i \in Instances, Crash(i) PROVE Claimed
  BY <1>0, <1>3, <1>a DEF Crash
<1>4. ASSUME NEW i \in Instances, InsertOk(i, {"ins1", "ins2", "insR"}) PROVE Claimed
  <2>1. /\ call[i] \in CallType /\ call[i].from = 1 /\ call[i].pc # "idle" /\ call[i].pos \in Nat
        /\ call[i].pos \in 1 .. Len(call[i].list) /\ call[i].list \in Seq(Locks)
    BY <1>4 DEF InsertOk, CallType, CallInv, CallOk, SetPcs
  <2>2. UNCHANGED run /\ (rows'[l] = rows[l] \/ (l = Current(i) /\ o = i))
    BY <1>4 DEF InsertOk
  <2>3. (l = Current(i) /\ o = i) \/ Claim(o)
    BY <2>2, <1>a
  <2>4. CASE o # i
    BY <1>0, <1>4, <2>3, <2>4 DEF InsertOk
  <2>5. CASE o = i /\ call[i].pos = Len(call[i].list)
    <3>1. held'[i] = held[i] \cup Added(i) \cup {Current(i)}
      BY <1>4, <2>5 DEF InsertOk
    <3> QED
      BY <2>3, <2>5, <3>1 DEF Added
  <2>6. CASE o = i /\ call[i].pos # Len(call[i].list)
    <3>1. call' = [call EXCEPT ![i] = NextLock(call[i])] /\ held' = held
      BY <1>4, <2>6 DEF InsertOk
    <3>2. /\ call'[i].pc = "ins1" /\ call'[i].list = call[i].list
          /\ call'[i].from = 1 /\ call'[i].pos = call[i].pos + 1
      BY <2>1, <3>1, CallOps
    <3>3. CASE l = Current(i)
      <4>1. call[i].pos \in call'[i].from .. (call'[i].pos - 1)
        BY <2>1, <3>2
      <4> QED
        BY <2>6, <3>2, <3>3, <4>1 DEF Current
    <3>4. CASE Claim(i)
      <4>1. \A k \in call[i].from .. (call[i].pos - 1) : k \in call'[i].from .. (call'[i].pos - 1)
        BY <2>1, <3>2
      <4> QED
        BY <2>6, <3>1, <3>2, <3>4, <4>1
    <3> QED
      BY <2>3, <2>6, <3>3, <3>4
  <2> QED
    BY <2>4, <2>5, <2>6
<1>5. ASSUME NEW i \in Instances, InsertFails1(i) PROVE Claimed
  <2>1. UNCHANGED << rows, run, held >> /\ \A j \in Instances \ {i} : call'[j] = call[j]
    BY <1>5 DEF InsertFails1
  <2>2. /\ call'[i].pc # "idle" /\ call'[i].list = call[i].list
        /\ call'[i].pos = call[i].pos /\ call'[i].from = call[i].from
    BY <1>5 DEF InsertFails1, CallType
  <2>3. Claim(o)
    BY <2>1, <1>a
  <2>4. CASE o # i
    BY <1>0, <2>1, <2>3, <2>4
  <2>5. CASE o = i
    BY <2>1, <2>2, <2>3, <2>5
  <2> QED
    BY <2>4, <2>5
<1>6. ASSUME NEW i \in Instances, InsertFails2(i) \/ RetryFails(i) PROVE Claimed
  <2>1. /\ call[i] \in CallType /\ call[i].from = 1
        /\ call[i].pos \in Nat
    BY <1>6 DEF InsertFails2, RetryFails, CallType, CallInv, CallOk, SetPcs
  <2>2. UNCHANGED << rows, run, held >> /\ \A j \in Instances \ {i} : call'[j] = call[j]
    BY <1>6 DEF InsertFails2, RetryFails
  <2>3. PICK n \in 0 .. MaxRetries : call'[i] \in {Again(call[i], n), Denied(call[i])}
    <3>1. call[i].retries \in 0 .. MaxRetries
      BY DEF CallType
    <3>2. CASE InsertFails2(i)
      BY <3>1, <3>2 DEF InsertFails2
    <3>3. CASE RetryFails(i)
      <4>1. call[i].retries > 0
        BY <3>3 DEF RetryFails, CallInv, CallOk
      <4>2. call[i].retries - 1 \in 0 .. MaxRetries
        BY <3>1, <4>1
      <4> QED
        BY <3>3, <4>2 DEF RetryFails
    <3> QED
      BY <1>6, <3>2, <3>3
  <2>4. \/ ~(call[i].from < call[i].pos)
        \/ /\ call'[i].pc # "idle" /\ call'[i].list = call[i].list
           /\ call'[i].pos = call[i].pos /\ call'[i].from = call[i].from
    BY <2>1, <2>3, CallOps
  <2>5. Claim(o)
    BY <2>2, <1>a
  <2>6. CASE o # i
    BY <1>0, <2>2, <2>5, <2>6
  <2>7. CASE o = i /\ l \in held[i]
    BY <2>2, <2>7
  <2>8. CASE o = i /\ l \notin held[i]
    <3>1. PICK k \in call[i].from .. (call[i].pos - 1) : call[i].list[k] = l
      BY <2>5, <2>8
    <3>2. call[i].from < call[i].pos
      BY <2>1, <3>1
    <3> QED
      BY <2>4, <2>8, <3>1, <3>2
  <2> QED
    BY <2>6, <2>7, <2>8
<1>7. ASSUME NEW i \in Instances, HousekeepStep(i) PROVE Claimed
  <2>1. rows'[l] = rows[l] /\ UNCHANGED << run, held >>
    BY <1>7 DEF HousekeepStep, Housekeep, Purge, Stale
  <2>2. \A j \in Instances : /\ call'[j].list = call[j].list /\ call'[j].from = call[j].from
                             /\ call'[j].pos = call[j].pos
                             /\ call[j].pc # "idle" => call'[j].pc # "idle"
    <3> TAKE j \in Instances
    <3>1. call[j] \in CallType /\ call' = [call EXCEPT ![i].pc = IF @ = "del1" THEN "ins2" ELSE "insR"]
      BY <1>7 DEF HousekeepStep
    <3>2. CASE j # i
      BY <3>1, <3>2
    <3>3. CASE j = i
      <4>1. PICK p \in {"ins2", "insR"} : call'[i] = [call[i] EXCEPT !.pc = p]
        BY <3>1
      <4>2. /\ call'[i].pc = p /\ call'[i].list = call[i].list
            /\ call'[i].from = call[i].from /\ call'[i].pos = call[i].pos
        BY <3>1, <3>3, <4>1 DEF CallType
      <4> QED
        BY <3>3, <4>1, <4>2
    <3> QED
      BY <3>2, <3>3
  <2> QED
    BY <1>0, <1>a, <2>1, <2>2
<1>8. ASSUME NEW i \in Instances, DeleteStep(i) PROVE Claimed
  <2> DEFINE d == call[i].list[call[i].from]
  <2>1. /\ call[i] \in CallType /\ call[i].from \in Nat /\ call[i].pos \in Nat
        /\ call[i].ret \in BOOLEAN
        /\ call[i].list \in Seq(Locks) /\ call[i].from >= 1 /\ call[i].from < call[i].pos
        /\ call[i].pos <= Len(call[i].list) + 1
    BY <1>8 DEF CallType, DeleteStep, CallInv, CallOk
  <2>2. rows'[l] = rows[l] /\ UNCHANGED << run, held >> /\ (l = d => o # i)
    BY <1>8, <2>1 DEF DeleteStep, DeleteOwn
  <2>3. Claim(o)
    BY <1>a, <2>2
  <2>4. CASE o # i
    BY <1>0, <1>8, <2>2, <2>3, <2>4 DEF DeleteStep
  <2>5. CASE o = i
    <3>1. CASE l \in held[i]
      BY <2>2, <2>5, <3>1
    <3>2. CASE l \notin held[i]
      <4>1. PICK k \in call[i].from .. (call[i].pos - 1) : call[i].list[k] = l
        BY <2>3, <2>5, <3>2
      <4>2. k # call[i].from /\ k \in (call[i].from + 1) .. (call[i].pos - 1)
        BY <2>1, <2>2, <2>5, <4>1
      <4>3. call'[i] = NextDelete(call[i]) /\ call[i].pc # "idle"
        BY <1>8, <2>1, <4>2 DEF DeleteStep, DeletePcs
      <4>4. /\ call'[i].pc # "idle" /\ call'[i].list = call[i].list
            /\ call'[i].from = call[i].from + 1 /\ call'[i].pos = call[i].pos
        BY <2>1, <4>3, CallOps
      <4> QED
        BY <2>5, <4>1, <4>2, <4>4
    <3> QED
      BY <3>1, <3>2
  <2> QED
    BY <2>4, <2>5
<1>9. ASSUME NEW i \in Instances, DeleteFails(i) PROVE Claimed
  BY <1>9 DEF DeleteFails
<1>10. ASSUME NEW i \in Instances, ListLocks(i) PROVE Claimed
  BY <1>0, <1>10, <1>a DEF ListLocks, Purge
<1>11. ASSUME NEW i \in Instances, NEW list \in LockLists, ReleaseLocks(i, list) PROVE Claimed
  <2>1. /\ call'[i].pc = "rel" /\ call'[i].list = list /\ call[i].pc = "idle"
        /\ call'[i].from = 1 /\ call'[i].pos = Len(list) + 1
        /\ held'[i] = held[i] \ {list[k] : k \in 1 .. Len(list)}
        /\ UNCHANGED << rows, run >>
    BY <1>11 DEF ReleaseLocks
  <2>2. \A j \in Instances \ {i} : call'[j] = call[j] /\ held'[j] = held[j]
    BY <1>11 DEF ReleaseLocks
  <2>3. Claim(o) /\ list \in Seq(Locks)
    BY <1>a, <2>1
  <2>4. CASE o # i
    BY <1>0, <2>2, <2>3, <2>4
  <2>5. CASE o = i /\ l \in held'[i]
    BY <2>5
  <2>6. CASE o = i /\ l \notin held'[i]
    <3>1. PICK k \in 1 .. Len(list) : list[k] = l
      BY <2>1, <2>3, <2>6
    <3>2. k \in call'[i].from .. (call'[i].pos - 1)
      BY <2>1, <2>3, <3>1
    <3> QED
      BY <2>1, <2>6, <3>1, <3>2
  <2> QED
    BY <2>4, <2>5, <2>6
<1>12. ASSUME NEW i \in Instances, NEW list \in LockLists, NEW n \in 0 .. MaxRetries,
              SetLocks(i, list, n) PROVE Claimed
  BY <1>0, <1>12, <1>a DEF SetLocks
<1>13. CASE UNCHANGED << rows, run, call, held >>
  BY <1>0, <1>13, <1>a
<1> QED
  BY <1>1, <1>2, <1>3, <1>4, <1>5, <1>6, <1>7, <1>8, <1>9, <1>10, <1>11, <1>12, <1>13
  DEF Next, Server, CallStep, OtherLogin, OtherLogout, vars

-----------------------------------------------------------------------------
(* The theorems                                                            *)

(* The initial state satisfies the invariant.                              *)
LEMMA InitIInv == Init => IInv
<1> SUFFICES ASSUME Init PROVE IInv
  OBVIOUS
<1>1. Connected = {} /\ \A i \in Instances : call[i].pc = "idle"
  BY ReturnType DEF Init, Connected
<1>2. TypeOK
  BY ReturnType DEF Init, TypeOK
<1>3. PidInv /\ RowInv /\ LeakInv
  BY <1>1 DEF Init, PidInv, RowInv, LeakInv
<1>4. CallInv /\ OwnInv
  BY <1>1 DEF Init, CallInv, CallOk, OwnInv, SetPcs, DeletePcs
<1> QED
  BY <1>2, <1>3, <1>4 DEF IInv

(* The invariant is inductive wherever housekeeping recognises sessions.   *)
LEMMA IInvStep == ASSUME Rdbms # "ORACLE" PROVE IInv /\ [Next]_vars => IInv'
BY TypeStep, PidStep, CallInvStep, RowStep, OwnStep, LeakStep DEF IInv

(* The invariant holds in every reachable state.                          *)
LEMMA IInvAlways == ASSUME Rdbms # "ORACLE" PROVE Spec => []IInv
<1>1. IInv /\ [Next]_vars => IInv'
  BY IInvStep
<1> QED
  BY <1>1, InitIInv, PTL DEF Spec

(* The state of the lock manager stays well typed.                         *)
THEOREM Typing == ASSUME Rdbms # "ORACLE" PROVE Spec => []TypeOK
<1>1. IInv => TypeOK
  BY DEF IInv
<1> QED
  BY <1>1, IInvAlways, PTL

(* On SQL Server and PostgreSQL, housekeeping, start-up and the undo loop  *)
(* of SR_SetLocks never delete the row of a granted lock.                  *)
THEOREM OwnedRows == ASSUME Rdbms # "ORACLE" PROVE Spec => []HeldIsOwned
<1>1. IInv => HeldIsOwned
  BY DEF IInv, OwnInv, HeldIsOwned
<1> QED
  BY <1>1, IInvAlways, PTL

(* On SQL Server and PostgreSQL a lock has at most one owner, with any     *)
(* number of instances, crashes, reused session numbers and SQL errors.    *)
THEOREM MutualExclusion == ASSUME Rdbms # "ORACLE" PROVE Spec => []Exclusion
<1>1. IInv => Exclusion
  BY DEF IInv, OwnInv, Exclusion
<1> QED
  BY <1>1, IInvAlways, PTL

(* When no SQL statement fails, a call that returned left no row behind    *)
(* but those of the locks it was granted.                                  *)
THEOREM AllOrNothing == ASSUME Rdbms # "ORACLE", ~DbErrors PROVE Spec => []NothingLeaks
<1>1. IInv => NothingLeaks
  BY DEF IInv, LeakInv, NothingLeaks
<1> QED
  BY <1>1, IInvAlways, PTL

(* Each step of the protocol is an atomic grant, a release or a stutter of *)
(* the lock service.                                                       *)
LEMMA ServiceStep == ASSUME IInv, [Next]_vars PROVE [Service!Next]_held
<1> USE DEF IInv, TypeOK
<1>1. ASSUME NEW i \in Instances, InsertOk(i, {"ins1", "ins2", "insR"})
      PROVE  [Service!Next]_held
  <2> DEFINE S == Added(i) \cup {Current(i)}
  <2>1. /\ call[i].from = 1 /\ call[i].pc \in SetPcs /\ call[i].pc # "idle"
        /\ call[i].pos \in 1 .. Len(call[i].list) /\ call[i].list \in Seq(Locks)
    BY <1>1, ListsAssumption DEF InsertOk, CallType, CallInv, CallOk, SetPcs
  <2>2. Current(i) \in Locks /\ Added(i) \subseteq Locks
    BY <2>1 DEF Current, Added
  <2>3. ASSUME NEW j \in Instances PROVE held[j] \cap S = {}
    <3>1. rows[Current(i)] = NoRow
      BY <1>1 DEF InsertOk
    <3>2. Current(i) \notin held[j]
      BY <3>1 DEF OwnInv
    <3>3. \A m \in Added(i) : rows[m].wsid = i /\ m \notin held[i]
      BY <2>1 DEF Added, OwnInv
    <3>4. \A m \in Added(i) : m \notin held[j]
      BY <3>3 DEF OwnInv
    <3> QED
      BY <3>2, <3>4
  <2>4. Service!Free(S)
    BY <2>3 DEF Service!Free
  <2>5. CASE call[i].pos = Len(call[i].list)
    <3>1. held' = [held EXCEPT ![i] = held[i] \cup S]
      BY <1>1, <2>5 DEF InsertOk
    <3>2. Service!Grant(i, S) /\ S \in SUBSET Locks
      BY <2>2, <2>4, <3>1 DEF Service!Grant
    <3> QED
      BY <3>2 DEF Service!Next
  <2>6. CASE call[i].pos # Len(call[i].list)
    BY <1>1, <2>6 DEF InsertOk
  <2> QED
    BY <2>5, <2>6
<1>2. ASSUME NEW i \in Instances, Crash(i) PROVE [Service!Next]_held
  BY <1>2 DEF Crash, Service!Next, Service!Release
<1>3. ASSUME NEW i \in Instances, NEW list \in LockLists, ReleaseLocks(i, list)
      PROVE  [Service!Next]_held
  <2> DEFINE S == {list[k] : k \in 1 .. Len(list)}
  <2>1. S \in SUBSET Locks
    BY ListsAssumption
  <2>2. Service!Release(i, S)
    BY <1>3 DEF ReleaseLocks, Service!Release
  <2> QED
    BY <2>1, <2>2 DEF Service!Next
<1>4. CASE UNCHANGED held
  BY <1>4
<1> QED
  BY <1>1, <1>2, <1>3, <1>4
  DEF Next, Server, CallStep, AddConnection, SetEnv, InsertFails1, InsertFails2,
      RetryFails, HousekeepStep, DeleteStep, DeleteFails, ListLocks, SetLocks,
      OtherLogin, OtherLogout, vars

(* On SQL Server and PostgreSQL the lock manager implements the service    *)
(* its comment describes.                                                  *)
THEOREM Refinement == ASSUME Rdbms # "ORACLE" PROVE Spec => ImplementsService
<1>1. Init => Service!Init
  BY DEF Init, Service!Init
<1>2. IInv /\ [Next]_vars => [Service!Next]_held
  BY ServiceStep
<1> QED
  BY <1>1, <1>2, IInvAlways, PTL DEF Spec, ImplementsService, Service!Spec
=============================================================================
