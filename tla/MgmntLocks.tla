----------------------------- MODULE MgmntLocks -----------------------------
(***************************************************************************)
(* The lock manager of sqlrdd0.prg: SR_SetLocks, SR_ReleaseLocks,          *)
(* SR_ListLocks and the housekeeping that SR_SetEnvSQLRDD runs at start-up *)
(* over the catalog table SR_MGMNTLOCKS (LOCK_ UNIQUE, WSID_, SPID_,       *)
(* LOGIN_TIME_).                                                           *)
(*                                                                         *)
(* One step is one SQL statement on the autocommit connection together     *)
(* with the Commit() that follows it; between two statements any other     *)
(* application instance, crash or database session may act.  An element    *)
(* of Instances is one run of an application: SR_GetInternalID draws a     *)
(* fresh WSID_ in every run, so an instance that went down never returns.  *)
(* Session numbers (Pids) are reused by the server.                        *)
(***************************************************************************)
EXTENDS Naturals, Sequences, FiniteSets

CONSTANTS
    Instances,    \* application runs (WSID_)
    Locks,        \* lock strings (LOCK_)
    Pids,         \* session numbers of the database server (SPID_)
    Rdbms,        \* oCnn:nSystemID
    LockLists,    \* the uLocks arrays the application passes
    MaxRetries,   \* largest nRetries the application passes
    DbErrors,     \* may an SQL statement fail for another reason?
    NoRow, NoPid

ASSUME RdbmsAssumption == Rdbms \in {"MSSQL7", "POSTGR", "ORACLE"}
ASSUME ListsAssumption == /\ LockLists \subseteq Seq(Locks)
                          /\ LockLists # {} /\ << >> \notin LockLists
ASSUME BoundAssumption == MaxRetries \in Nat /\ DbErrors \in BOOLEAN
ASSUME NullAssumption  == NoPid \notin Pids /\ NoRow \notin [wsid : Instances, spid : Pids]

VARIABLES
    rows,      \* the table: LOCK_ is UNIQUE, so one row or none per lock
    run,       \* life cycle of an instance
    pid,       \* its two sessions: cnn (oCnn) and trans (oCnn:oSqlTransact)
    others,    \* session numbers used by clients that are not SQLRDD
    call,      \* the SR_SetLocks / SR_ReleaseLocks call an instance is in
    held       \* history: the locks the application was told it owns

vars == << rows, run, pid, others, call, held >>

Row       == [wsid : Instances, spid : Pids]
SetPcs    == {"ins1", "del1", "ins2", "delR", "insR"}
DeletePcs == {"undo", "rel"}
Connected == {i \in Instances : run[i] \in {"env1", "env2", "up"}}

(* pos: the FOR EACH cursor; from .. pos - 1: aAdded, or what is still to  *)
(* be deleted; ret: the value the last call returned.                      *)
CallType == [pc : {"idle"} \cup SetPcs \cup DeletePcs,
             list : LockLists, from : Nat, pos : Nat,
             retries : 0 .. MaxRetries, ret : BOOLEAN]

TypeOK ==
    /\ rows \in [Locks -> Row \cup {NoRow}]
    /\ run \in [Instances -> {"new", "env1", "env2", "up", "down"}]
    /\ pid \in [Instances -> [cnn : Pids \cup {NoPid}, trans : Pids \cup {NoPid}]]
    /\ others \subseteq Pids
    /\ call \in [Instances -> CallType]
    /\ held \in [Instances -> SUBSET Locks]

(* RETURN ret: no call in progress.                                        *)
Return(ret) == [pc |-> "idle", list |-> CHOOSE l \in LockLists : TRUE, from |-> 1,
                pos |-> 1, retries |-> 0, ret |-> ret]

Init ==
    /\ rows = [l \in Locks |-> NoRow]
    /\ run = [i \in Instances |-> "new"]
    /\ pid = [i \in Instances |-> [cnn |-> NoPid, trans |-> NoPid]]
    /\ others = {}
    /\ call = [i \in Instances |-> Return(TRUE)]
    /\ held = [i \in Instances |-> {}]

-----------------------------------------------------------------------------
(* Sessions, and what a row says about the session that wrote it.          *)

BusyPids == {p \in Pids : \/ p \in others
                          \/ \E i \in Connected : p \in {pid[i].cnn, pid[i].trans}}

(* The SPID_ an INSERT writes: @@SPID or pg_backend_pid() of the           *)
(* autocommit session, but oCnn:uSid, the SID of the first one, on Oracle. *)
Spid(i) == IF Rdbms = "ORACLE" THEN pid[i].cnn ELSE pid[i].trans

(* v$session."AUDSID" is an audit number, not a SID.                       *)
AudSids == {<< "audsid", p >> : p \in BusyPids}

(* Mutant of SessionLive: compares with the sessions oCnn only.            *)
FirstSessionLive(r) == r.spid \in {pid[i].cnn : i \in Connected}

(* Is row r kept by the NOT IN (live sessions) of the housekeeping DELETE? *)
(* SQL Server also compares LOGIN_TIME_, which no two sessions share.      *)
SessionLive(r) ==
    CASE Rdbms = "MSSQL7" -> r.wsid \in Connected /\ r.spid = pid[r.wsid].trans
      [] Rdbms = "POSTGR" -> r.spid \in BusyPids
      [] Rdbms = "ORACLE" -> r.spid \in AudSids

(* SR_ListLocks compares SPID_ with v$session."SID" on Oracle.             *)
ListLive(r) ==
    IF Rdbms = "ORACLE" THEN r.spid \in BusyPids ELSE SessionLive(r)

(* DELETE FROM SR_MGMNTLOCKS WHERE ...: the rows of the locks in dead go.  *)
Purge(dead) == rows' = [l \in Locks |-> IF l \in dead THEN NoRow ELSE rows[l]]

(* Mutant of Housekeep: SR_SetLocks without step 3.                        *)
NoHousekeep == UNCHANGED rows

Stale(l) == rows[l] # NoRow /\ ~SessionLive(rows[l])

Housekeep == Purge({l \in Locks : Stale(l)})

-----------------------------------------------------------------------------
(* Life cycle of an instance and of foreign sessions.                      *)

(* SR_AddConnection opens the two sessions.                                *)
AddConnection(i) ==
    /\ run[i] = "new"
    /\ \E p, q \in Pids \ BusyPids :
          p # q /\ pid' = [pid EXCEPT ![i] = [cnn |-> p, trans |-> q]]
    /\ run' = [run EXCEPT ![i] = "env1"]
    /\ UNCHANGED << rows, others, call, held >>

(* SR_SetEnvSQLRDD, FOR i := 1 TO 2: start-up housekeeping from each       *)
(* session, which also deletes the rows that carry its own number.         *)
SetEnv(i) ==
    /\ run[i] \in {"env1", "env2"}
    /\ LET own == IF run[i] = "env1" THEN pid[i].cnn ELSE pid[i].trans
       IN  Purge({l \in Locks : rows[l] # NoRow /\ (rows[l].spid = own \/ Stale(l))})
    /\ run' = [run EXCEPT ![i] = IF run[i] = "env1" THEN "env2" ELSE "up"]
    /\ UNCHANGED << pid, others, call, held >>

(* The process ends or dies at any statement: its rows stay behind.        *)
Crash(i) ==
    /\ i \in Connected
    /\ run' = [run EXCEPT ![i] = "down"]
    /\ pid' = [pid EXCEPT ![i] = [cnn |-> NoPid, trans |-> NoPid]]
    /\ call' = [call EXCEPT ![i] = Return(TRUE)]
    /\ held' = [held EXCEPT ![i] = {}]
    /\ UNCHANGED << rows, others >>

OtherLogin ==
    /\ \E p \in Pids \ BusyPids : others' = others \cup {p}
    /\ UNCHANGED << rows, run, pid, call, held >>

OtherLogout ==
    /\ \E p \in others : others' = others \ {p}
    /\ UNCHANGED << rows, run, pid, call, held >>

-----------------------------------------------------------------------------
(* SR_SetLocks                                                             *)

SetLocks(i, list, n) ==
    /\ run[i] = "up" /\ call[i].pc = "idle"
    /\ call' = [call EXCEPT ![i] = [pc |-> "ins1", list |-> list, from |-> 1,
                                    pos |-> 1, retries |-> n, ret |-> FALSE]]
    /\ UNCHANGED << rows, run, pid, others, held >>

Current(i) == call[i].list[call[i].pos]
Added(i)   == {call[i].list[k] : k \in call[i].from .. (call[i].pos - 1)}

(* Where a call goes on: with the next lock of the list, with another      *)
(* round of the retry loop, with the next DELETE.                          *)
NextLock(c)   == [c EXCEPT !.pos = c.pos + 1, !.pc = "ins1"]
Again(c, n)   == [c EXCEPT !.retries = n, !.pc = "delR"]
NextDelete(c) == [c EXCEPT !.from = c.from + 1]

(* The INSERT succeeds: the next lock, or RETURN .T. after the last one.   *)
InsertOk(i, pcs) ==
    LET c == call[i]
        last == c.pos = Len(c.list)
    IN  /\ c.pc \in pcs
        /\ rows[Current(i)] = NoRow
        /\ rows' = [rows EXCEPT ![Current(i)] = [wsid |-> i, spid |-> Spid(i)]]
        /\ call' = [call EXCEPT ![i] = IF last THEN Return(TRUE)
                                                   ELSE NextLock(c)]
        /\ held' = [held EXCEPT ![i] = IF last THEN @ \cup Added(i) \cup {Current(i)}
                                               ELSE @]
        /\ UNCHANGED << run, pid, others >>

(* The INSERT fails: on the UNIQUE constraint, or with a database error.   *)
InsertKo(i) == rows[Current(i)] # NoRow \/ DbErrors

(* Mutant of Denied: the list is given up without the undo loop.           *)
DeniedNoUndo(c) == Return(FALSE)

(* The lock is denied: undo what was added, or RETURN .F. at once.         *)
Denied(c) == IF c.from < c.pos THEN [c EXCEPT !.pc = "undo"] ELSE Return(FALSE)

InsertFails1(i) ==
    /\ call[i].pc = "ins1" /\ InsertKo(i)
    /\ call' = [call EXCEPT ![i].pc = "del1"]
    /\ UNCHANGED << rows, run, pid, others, held >>

InsertFails2(i) ==
    /\ call[i].pc = "ins2" /\ InsertKo(i)
    /\ call' = [call EXCEPT ![i] = IF @.retries > 0 THEN Again(@, @.retries)
                                                    ELSE Denied(@)]
    /\ UNCHANGED << rows, run, pid, others, held >>

(* Mutants of RetryFails: nRetries is not decremented, or not tested.      *)
RetryForever(i) ==
    /\ call[i].pc = "insR" /\ InsertKo(i)
    /\ call' = [call EXCEPT ![i] = Again(@, @.retries)]
    /\ UNCHANGED << rows, run, pid, others, held >>

RetryUntested(i) ==
    /\ call[i].pc = "insR" /\ InsertKo(i)
    /\ call' = [call EXCEPT ![i] = Again(@, @.retries - 1)]
    /\ UNCHANGED << rows, run, pid, others, held >>

(* DO WHILE nRetries > 0 ... Inkey(.5), nRetries--: the budget is shared   *)
(* by all the locks of the list.                                           *)
RetryFails(i) ==
    /\ call[i].pc = "insR" /\ InsertKo(i)
    /\ call' = [call EXCEPT ![i] = IF @.retries - 1 > 0 THEN Again(@, @.retries - 1)
                                                        ELSE Denied(@)]
    /\ UNCHANGED << rows, run, pid, others, held >>

HousekeepStep(i) ==
    /\ call[i].pc \in {"del1", "delR"}
    /\ Housekeep \/ (DbErrors /\ UNCHANGED rows)
    /\ call' = [call EXCEPT ![i].pc = IF @ = "del1" THEN "ins2" ELSE "insR"]
    /\ UNCHANGED << run, pid, others, held >>

-----------------------------------------------------------------------------
(* SR_ReleaseLocks, and the undo loop of SR_SetLocks                       *)

ReleaseLocks(i, list) ==
    /\ run[i] = "up" /\ call[i].pc = "idle"
    /\ call' = [call EXCEPT ![i] = [pc |-> "rel", list |-> list, from |-> 1,
                                    pos |-> Len(list) + 1, retries |-> 0,
                                    ret |-> TRUE]]
    /\ held' = [held EXCEPT ![i] = @ \ {list[k] : k \in 1 .. Len(list)}]
    /\ UNCHANGED << rows, run, pid, others >>

(* Mutant of DeleteOwn: without the condition on WSID_.                    *)
DeleteAny(i, l) == rows' = [rows EXCEPT ![l] = NoRow]

(* DELETE ... WHERE LOCK_ = v AND WSID_ = own                              *)
DeleteOwn(i, l) ==
    rows' = IF rows[l] # NoRow /\ rows[l].wsid = i
              THEN [rows EXCEPT ![l] = NoRow] ELSE rows

DeleteStep(i) ==
    LET c == call[i] IN
    /\ c.pc \in DeletePcs
    /\ DeleteOwn(i, c.list[c.from])
    /\ call' = [call EXCEPT ![i] = IF c.from + 1 < c.pos THEN NextDelete(c)
                                                            ELSE Return(c.ret)]
    /\ UNCHANGED << run, pid, others, held >>

(* A failing DELETE is ignored by the undo loop; SR_ReleaseLocks raises a  *)
(* run-time error and leaves its loop.                                     *)
DeleteFails(i) ==
    LET c == call[i] IN
    /\ DbErrors /\ c.pc \in DeletePcs
    /\ call' = [call EXCEPT ![i] = IF c.pc = "undo" /\ c.from + 1 < c.pos
                                     THEN NextDelete(c) ELSE Return(c.ret)]
    /\ UNCHANGED << rows, run, pid, others, held >>

(* SR_ListLocks: housekeeping, then a SELECT.                              *)
ListLocks(i) ==
    /\ run[i] = "up" /\ call[i].pc = "idle"
    /\ Purge({l \in Locks : rows[l] # NoRow /\ ~ListLive(rows[l])})
    /\ UNCHANGED << run, pid, others, call, held >>

-----------------------------------------------------------------------------
CallStep(i) == \/ InsertOk(i, {"ins1", "ins2", "insR"})
               \/ InsertFails1(i) \/ InsertFails2(i) \/ RetryFails(i)
               \/ HousekeepStep(i)
               \/ DeleteStep(i)

Server(i) == AddConnection(i) \/ SetEnv(i) \/ Crash(i)

Next ==
    \/ OtherLogin \/ OtherLogout
    \/ \E i \in Instances :
         \/ Server(i) \/ CallStep(i) \/ DeleteFails(i) \/ ListLocks(i)
         \/ \E list \in LockLists : \/ ReleaseLocks(i, list)
                                    \/ \E n \in 0 .. MaxRetries : SetLocks(i, list, n)

Spec == Init /\ [][Next]_vars

(* A call runs to its end unless the process dies.                         *)
FairSpec == Spec /\ \A i \in Instances : WF_vars(CallStep(i))

-----------------------------------------------------------------------------
(* Properties.                                                             *)

(* SR_SetLocks answers .T. to at most one instance at a time: while one    *)
(* instance was told that it owns a lock and is neither down nor           *)
(* releasing it, no other instance is told so, whatever crashes, session   *)
(* numbers are reused and housekeeping runs happen in between.             *)
Exclusion == \A i, j \in Instances : i # j => held[i] \cap held[j] = {}

(* The row behind a granted lock is there until its owner releases it: no  *)
(* housekeeping DELETE, start-up or undo loop of anybody removes it.       *)
HeldIsOwned == \A i \in Instances : \A l \in held[i] :
                  rows[l] # NoRow /\ rows[l].wsid = i

(* All or nothing: once SR_SetLocks has returned, the instance owns the    *)
(* rows of the locks it was granted and no others; a denied list leaves    *)
(* nothing behind that would block the other instances.                    *)
NothingLeaks == \A i \in Instances : run[i] = "up" /\ call[i].pc = "idle" =>
                   \A l \in Locks : rows[l] # NoRow /\ rows[l].wsid = i => l \in held[i]

(* Every SR_SetLocks and SR_ReleaseLocks call comes back: the retry loop   *)
(* terminates however the other instances interfere.                       *)
CallReturns == \A i \in Instances : call[i].pc # "idle" ~> call[i].pc = "idle"

(* A lock left behind by a session that is gone never keeps a requester    *)
(* out for good: asking for it gets rid of the row.                        *)
StaleIsReclaimed ==
    \A i \in Instances, l \in Locks :
        (call[i].pc = "ins1" /\ Current(i) = l /\ Stale(l)) ~> (~Stale(l) \/ run[i] = "down")

(* What the lock table promises its users.                                 *)
Service == INSTANCE LockService WITH holds <- held

(* The statement-by-statement protocol implements atomic grants of whole   *)
(* lists, releases, and the loss of a dead holder's locks.                 *)
ImplementsService == Service!Spec
=============================================================================
