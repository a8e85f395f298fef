------------------------- MODULE TransactionsProofs -------------------------
(***************************************************************************)
(* Proof that transactions are atomic, for every number of instances, work *)
(* areas, records and nesting levels, with or without automatic commit,    *)
(* failing statements and doomed transactions.                             *)
(*                                                                         *)
(* What a step of one connection can do to the database is one of a few    *)
(* moves (DbMove); a commit is among them only outside transactions or     *)
(* when the count goes to zero.  That one connection's commit leaves the   *)
(* uncommitted rows of another alone needs the row locks: RowInv.          *)
(***************************************************************************)
EXTENDS Transactions, TLAPS

(* The database variables of TypeOK.                                       *)
DbType ==
    /\ committed \in [Recs -> Vals \cup {Absent}]
    /\ work \in [Clients -> [Recs -> Vals \cup {NoChange}]]
    /\ owner \in [Recs -> Clients \cup {Free}]
    /\ failed \in [Clients -> BOOLEAN]
    /\ nIteractions \in [Clients -> 0 .. nAutoCommit]

(* The moves of connection c, and what becomes of the counts.              *)
MayCommit(c) == nTransacCount[c] = 0 \/ nTransacCount'[c] = 0
Statement(c) == \E S : \E v \in Vals : Modify(c, S, v)
DbMove(c) == \/ UNCHANGED db
             \/ Commit(c) /\ MayCommit(c)
             \/ RollBack(c)
             \/ Statement(c)
             \/ \E r \in Recs : owner[r] \in {Free, c} /\ Granted(c, r)
             \/ Refused(c)

TxType == /\ nTransacCount \in [Clients -> 0 .. MaxNest]
          /\ wrote \in [Clients -> [Recs -> Vals \cup {NoChange}]]
TxMove(c) == \/ UNCHANGED tx
             \/ UNCHANGED nTransacCount /\ Statement(c)
             \/ \E n \in 0 .. MaxNest : SetCount(c, n)

AreaType == wa \in [Clients -> [Areas -> Area]]

(* An uncommitted row is locked by the connection that wrote it.            *)
RowInv == \A c \in Clients, r \in Recs : work[c][r] # NoChange => owner[r] = c

Inv == TypeOK /\ RowInv

-----------------------------------------------------------------------------
(* Areas.                                                                  *)

(* The lines of a cache.                                                   *)
Lines == [Recs -> Vals \cup {Absent}]

LEMMA LineTypes ==
  /\ NoLines \in Lines
  /\ \A r, v : v \in Vals => /\ OneLine(r, v) \in Lines
                             /\ \A l \in Lines : WithLine(l, r, v) \in Lines
<1>1. NoLines \in Lines
  BY DEF NoLines, Lines
<1>2. ASSUME NEW r, NEW v \in Vals, NEW l \in Lines PROVE WithLine(l, r, v) \in Lines
  BY DEF WithLine, Lines
<1> QED BY <1>1, <1>2 DEF OneLine

(* Setting fields of an area record yields an area record.                 *)
LEMMA FieldTypes ==
  ASSUME NEW a \in Area
  PROVE  /\ \A l \in Lines : [a EXCEPT !.lines = l] \in Area
         /\ \A b \in BOOLEAN : [a EXCEPT !.bofAt = b] \in Area
         /\ \A s \in SUBSET Recs : [a EXCEPT !.aLocked = s] \in Area
         /\ \A v \in Vals, l \in Lines, b \in BOOLEAN :
               [a EXCEPT !.buf = v, !.lines = l, !.bofAt = b] \in Area
         /\ \A r \in Recs \cup {Phantom}, v \in Vals :
               /\ [a EXCEPT !.rec = r, !.buf = v, !.old = v] \in Area
               /\ \A l \in Lines : [a EXCEPT !.rec = r, !.buf = v, !.old = v, !.lines = l] \in Area
         /\ \A r \in Recs, l \in Lines, s \in SUBSET Recs :
               [a EXCEPT !.rec = r, !.lines = l, !.aLocked = s] \in Area
<1>1. \A l \in Lines : [a EXCEPT !.lines = l] \in Area
  BY DEF Area, Lines
<1>2. /\ \A b \in BOOLEAN : [a EXCEPT !.bofAt = b] \in Area
      /\ \A s \in SUBSET Recs : [a EXCEPT !.aLocked = s] \in Area
  BY DEF Area
<1>3. \A v \in Vals, l \in Lines, b \in BOOLEAN :
        [a EXCEPT !.buf = v, !.lines = l, !.bofAt = b] \in Area
  BY DEF Area, Lines
<1>4. \A r \in Recs \cup {Phantom}, v \in Vals : [a EXCEPT !.rec = r, !.buf = v, !.old = v] \in Area
  BY DEF Area
<1>5. \A r \in Recs \cup {Phantom}, v \in Vals, l \in Lines :
        [a EXCEPT !.rec = r, !.buf = v, !.old = v, !.lines = l] \in Area
  BY DEF Area, Lines
<1>6. \A r \in Recs, l \in Lines, s \in SUBSET Recs :
        [a EXCEPT !.rec = r, !.lines = l, !.aLocked = s] \in Area
  BY DEF Area, Lines
<1> QED BY <1>1, <1>2, <1>3, <1>4, <1>5, <1>6

(* The updates of an area record yield area records.                       *)
LEMMA AreaTypes ==
  ASSUME NEW a \in Area
  PROVE  /\ Cold(a) \in Area /\ Updated(a) \in Area /\ Appending(a) \in Area
         /\ CleanBuffer(a) \in Area /\ CleanUp(a) \in Area
         /\ [a EXCEPT !.aLocked = {}] \in Area
         /\ \A n \in Recs : Inserted(a, n) \in Area
         /\ \A r, v : v \in Vals => Synced(a, r, v) \in Area
         /\ \A r \in Recs, v \in Vals : Refreshed(a, r, v) \in Area
         /\ \A r \in Recs : [a EXCEPT !.aLocked = @ \cup {r}] \in Area
         /\ \A v \in Vals : [a EXCEPT !.buf = v, !.hot = TRUE] \in Area
<1> USE TxAssumption
<1>0. /\ a.rec \in Recs \cup {Phantom} /\ a.buf \in Vals /\ a.lines \in Lines
      /\ a.aLocked \subseteq Recs
  BY DEF Area, Lines
<1>1. Cold(a) \in Area /\ Cold(a).lines = a.lines /\ Cold(a).aLocked = a.aLocked
  BY DEF Area, Cold
<1>2. Updated(a) \in Area
  <2>1. WithLine(a.lines, a.rec, a.buf) \in Lines
    BY <1>0, LineTypes
  <2> QED BY <1>1, <2>1, FieldTypes DEF Updated
<1>3. Appending(a) \in Area
  BY DEF Area, Appending
<1>4. CleanBuffer(a) \in Area
  BY FieldTypes DEF CleanBuffer
<1>5. CleanUp(a) \in Area
  <2>1. \A b \in Area : [b EXCEPT !.hot = FALSE, !.lines = NoLines, !.bofAt = FALSE] \in Area
    BY LineTypes DEF Area, Lines
  <2> QED BY <1>4, <2>1 DEF CleanUp
<1>6. ASSUME NEW n \in Recs PROVE Inserted(a, n) \in Area
  <2>1. OneLine(n, a.buf) \in Lines
    BY <1>0, LineTypes
  <2>2. (IF a.shared /\ Cardinality(Cold(a).aLocked) < MaxLocks
           THEN Cold(a).aLocked \cup {n} ELSE Cold(a).aLocked) \in SUBSET Recs
    BY <1>0, <1>1
  <2> QED BY <1>1, <2>1, <2>2, FieldTypes DEF Inserted
<1>7. ASSUME NEW r, NEW v \in Vals PROVE Synced(a, r, v) \in Area
  <2>1. (IF a.rec = r THEN v ELSE a.buf) \in Vals
    BY <1>0
  <2> QED BY <2>1, LineTypes, FieldTypes DEF Synced
<1>8. /\ [a EXCEPT !.aLocked = {}] \in Area
      /\ \A r \in Recs : [a EXCEPT !.aLocked = @ \cup {r}] \in Area
  BY <1>0, FieldTypes
<1>9. \A v \in Vals : [a EXCEPT !.buf = v, !.hot = TRUE] \in Area
  BY DEF Area
<1>10. \A r \in Recs, v \in Vals : Refreshed(a, r, v) \in Area
  BY DEF Area, Refreshed
<1> QED BY <1>1, <1>2, <1>3, <1>4, <1>5, <1>6, <1>7, <1>8, <1>9, <1>10

(* Closed and freshly opened areas are area records.                       *)
LEMMA FixedAreas == Closed \in Area /\ \A s \in BOOLEAN : Opened(s) \in Area
<1>1. Closed \in Area
  BY TxAssumption, LineTypes DEF Closed, Area, Lines
<1>2. \A s \in BOOLEAN, a \in Area : [a EXCEPT !.open = TRUE, !.shared = s] \in Area
  BY DEF Area
<1> QED BY <1>1, <1>2 DEF Opened

(* Setting an area, and synchronising its siblings, keeps the areas typed. *)
LEMMA SetTypes ==
  ASSUME AreaType, NEW c \in Clients, NEW w \in Areas, NEW a \in Area
  PROVE  /\ SetArea(c, w, a) => AreaType'
         /\ \A r, v : v \in Vals /\ Sync(c, w, r, v, a) => AreaType'
<1>1. SetArea(c, w, a) => AreaType'
  BY DEF SetArea, AreaType
<1>2. ASSUME NEW r, NEW v \in Vals, Sync(c, w, r, v, a) PROVE AreaType'
  <2> DEFINE f(x) == IF x = w THEN a
                     ELSE IF wa[c][x].open THEN Synced(wa[c][x], r, v) ELSE wa[c][x]
  <2>1. \A x \in Areas : f(x) \in Area
    BY AreaTypes DEF AreaType
  <2>2. wa' = [wa EXCEPT ![c] = [x \in Areas |-> f(x)]]
    BY <1>2, Zenon DEF Sync
  <2> HIDE DEF f
  <2> QED BY <2>1, <2>2 DEF AreaType
<1> QED BY <1>1, <1>2

-----------------------------------------------------------------------------
(* Moves.                                                                  *)

(* A move keeps the database variables typed and uncommitted rows locked.  *)
LEMMA MoveKeeps ==
  ASSUME DbType, RowInv, NEW c \in Clients, DbMove(c)
  PROVE  DbType' /\ RowInv'
<1> USE TxAssumption
<1>e. ASSUME EndOfTransaction(c)
      PROVE  /\ work' \in [Clients -> [Recs -> Vals \cup {NoChange}]]
             /\ owner' \in [Recs -> Clients \cup {Free}]
             /\ failed' \in [Clients -> BOOLEAN]
             /\ nIteractions' \in [Clients -> 0 .. nAutoCommit]
             /\ RowInv'
  <2>1. work' \in [Clients -> [Recs -> Vals \cup {NoChange}]]
    BY <1>e DEF EndOfTransaction, NoWork, DbType
  <2>2. owner' \in [Recs -> Clients \cup {Free}]
    BY <1>e DEF EndOfTransaction, DbType
  <2>3. failed' \in [Clients -> BOOLEAN] /\ nIteractions' \in [Clients -> 0 .. nAutoCommit]
    BY <1>e DEF EndOfTransaction, DbType
  <2>4. ASSUME NEW d \in Clients, NEW r \in Recs, work'[d][r] # NoChange
        PROVE  owner'[r] = d
    <3>1. d # c
      BY <1>e, <2>4 DEF EndOfTransaction, NoWork, DbType
    <3>2. work'[d][r] = work[d][r]
      BY <1>e, <3>1 DEF EndOfTransaction, DbType
    <3>3. owner[r] = d
      BY <3>2, <2>4 DEF RowInv
    <3> QED BY <1>e, <3>1, <3>3 DEF EndOfTransaction
  <2> QED BY <2>1, <2>2, <2>3, <2>4 DEF RowInv
<1>m. \A f \in [Recs -> Vals \cup {NoChange}] : Merge(f) \in [Recs -> Vals \cup {Absent}]
  BY DEF Merge, DbType
<1>1. CASE UNCHANGED db
  BY <1>1 DEF db, DbType, RowInv
<1>2. CASE Commit(c)
  <2>1. committed' \in [Recs -> Vals \cup {Absent}]
    BY <1>2, <1>m DEF Commit, DbType
  <2> QED BY <1>2, <1>e, <2>1 DEF Commit, DbType
<1>3. CASE RollBack(c)
  BY <1>3, <1>e DEF RollBack, DbType
<1>4. CASE Statement(c)
  <2>1. PICK S : \E v \in Vals : Modify(c, S, v)
    BY <1>4, Zenon DEF Statement
  <2>2. PICK v \in Vals : Modify(c, S, v)
    BY <2>1
  <2> DEFINE new == [r \in Recs |-> IF r \in S THEN v ELSE work[c][r]]
  <2>3. new \in [Recs -> Vals \cup {NoChange}]
    BY DEF DbType
  <2>4. CASE AutoCommits(c)
    <3>1. committed' = Merge(new) /\ EndOfTransaction(c)
      BY <2>2, <2>4, Zenon DEF Modify
    <3> HIDE DEF new
    <3> QED BY <3>1, <2>3, <1>m, <1>e DEF DbType
  <2>5. CASE ~AutoCommits(c)
    <3>1. /\ work' = [work EXCEPT ![c] = new]
          /\ owner' = [r \in Recs |-> IF r \in S THEN c ELSE owner[r]]
          /\ nIteractions' = [nIteractions EXCEPT ![c] =
                                IF nIteractions[c] < nAutoCommit THEN nIteractions[c] + 1
                                                                 ELSE nIteractions[c]]
          /\ UNCHANGED << committed, failed >>
      BY <2>2, <2>5, Zenon DEF Modify
    <3>2. DbType'
      <4> HIDE DEF new
      <4> QED BY <3>1, <2>3 DEF DbType
    <3>3. ASSUME NEW d \in Clients, NEW r \in Recs, work'[d][r] # NoChange
          PROVE  owner'[r] = d
      <4>1. \A x \in S : owner[x] \in {Free, c}
        BY <2>2, Zenon DEF Modify
      <4>2. CASE d = c
        BY <4>2, <3>1, <3>3 DEF DbType, RowInv
      <4>3. CASE d # c
        <5>1. owner[r] = d
          BY <4>3, <3>1, <3>3 DEF DbType, RowInv
        <5>2. r \notin S
          BY <5>1, <4>1, <4>3
        <5> QED BY <5>1, <5>2, <3>1
      <4> QED BY <4>2, <4>3
    <3> QED BY <3>2, <3>3 DEF RowInv
  <2> QED BY <2>4, <2>5
<1>5. CASE \E r \in Recs : owner[r] \in {Free, c} /\ Granted(c, r)
  BY <1>5 DEF Granted, DbType, RowInv
<1>6. CASE Refused(c)
  BY <1>6 DEF Refused, DbType, RowInv
<1> QED BY <1>1, <1>2, <1>3, <1>4, <1>5, <1>6, Zenon DEF DbMove

(* A move keeps the counts and the history typed, and touches the count of *)
(* one connection only.                                                    *)
LEMMA TxKeeps ==
  ASSUME TxType, DbType, NEW c \in Clients, TxMove(c)
  PROVE  TxType' /\ \A d \in Clients \ {c} : nTransacCount'[d] = nTransacCount[d]
<1>0. NoWork \in [Recs -> Vals \cup {NoChange}]
  BY DEF NoWork
<1>1. CASE UNCHANGED tx
  BY <1>1 DEF tx, TxType
<1>2. CASE UNCHANGED nTransacCount /\ Statement(c)
  <2>1. PICK S : \E v \in Vals : Modify(c, S, v)
    BY <1>2, Zenon DEF Statement
  <2>2. PICK v \in Vals : Modify(c, S, v)
    BY <2>1
  <2> DEFINE new == IF nTransacCount[c] = 0 THEN NoWork
                    ELSE [r \in Recs |-> IF r \in S THEN v ELSE wrote[c][r]]
  <2>3. new \in [Recs -> Vals \cup {NoChange}]
    BY <1>0 DEF TxType
  <2>4. wrote' = [wrote EXCEPT ![c] = new]
    BY <2>2 DEF Modify
  <2> HIDE DEF new
  <2> QED BY <1>2, <2>3, <2>4 DEF TxType
<1>3. CASE \E n \in 0 .. MaxNest : SetCount(c, n)
  BY <1>0, <1>3 DEF SetCount, TxType
<1> QED BY <1>1, <1>2, <1>3, Zenon DEF TxMove

(* Commits leave uncommitted changes of open transactions alone.           *)
LEMMA MoveIsAtomic ==
  ASSUME TxType, DbType, RowInv, NEW c \in Clients, DbMove(c),
         \A d \in Clients \ {c} : nTransacCount'[d] = nTransacCount[d],
         NEW d \in Clients, nTransacCount[d] > 0, nTransacCount'[d] > 0,
         NEW r \in Recs, work[d][r] # NoChange
  PROVE  committed'[r] = committed[r]
<1> USE TxAssumption
<1>0. owner[r] = d
  BY DEF RowInv
<1>1. CASE UNCHANGED committed
  BY <1>1
<1>2. CASE Commit(c) /\ MayCommit(c)
  <2>1. d # c
    BY <1>2 DEF MayCommit, TxType
  <2>2. work[c][r] = NoChange
    BY <1>0, <2>1 DEF RowInv
  <2> QED BY <1>2, <2>2 DEF Commit, Merge
<1>3. CASE Statement(c)
  <2>1. PICK S : \E v \in Vals : Modify(c, S, v)
    BY <1>3, Zenon DEF Statement
  <2>2. PICK v \in Vals : Modify(c, S, v)
    BY <2>1
  <2>3. CASE ~AutoCommits(c)
    BY <2>2, <2>3, Zenon DEF Modify
  <2>4. CASE AutoCommits(c)
    <3>1. d # c
      BY <2>4 DEF AutoCommits, TxType
    <3>2. work[c][r] = NoChange
      BY <1>0, <3>1 DEF RowInv
    <3>3. r \notin S
      <4>1. \A x \in S : owner[x] \in {Free, c}
        BY <2>2, Zenon DEF Modify
      <4> QED BY <4>1, <1>0, <3>1
    <3>4. committed' = Merge([x \in Recs |-> IF x \in S THEN v ELSE work[c][x]])
      BY <2>2, <2>4, Zenon DEF Modify
    <3> QED BY <3>2, <3>3, <3>4 DEF Merge
  <2> QED BY <2>3, <2>4
<1> QED BY <1>1, <1>2, <1>3, Zenon DEF DbMove, RollBack, Granted, Refused, db

-----------------------------------------------------------------------------
(* The actions.                                                            *)

(* A step of connection c is a move and keeps the areas and numbers typed. *)
Step(c) == DbMove(c) /\ TxMove(c) /\ AreaType' /\ used' \subseteq Recs

(* Work on the buffers of an area that leaves the database alone.          *)
LEMMA QuietStep ==
  ASSUME Inv, NEW c \in Clients, UNCHANGED << db, used, tx >>, AreaType'
  PROVE  Step(c)
BY Zenon DEF Step, DbMove, TxMove, Inv, TypeOK

(* WriteBuffer: one statement at most.                                     *)
LEMMA WriteStep ==
  ASSUME Inv, NEW c \in Clients, NEW w \in Areas, NEW append \in BOOLEAN,
         WriteBuffer(c, w, append)
  PROVE  Step(c)
<1> DEFINE b == wa[c][w]
           a == IF append THEN [b EXCEPT !.aLocked = {}] ELSE b
           after(x) == IF append THEN Appending(x) ELSE x
<1>1. AreaType /\ b \in Area /\ b.buf \in Vals /\ used \subseteq Recs
  BY DEF Inv, TypeOK, AreaType, Area
<1>2. a \in Area
  BY <1>1, AreaTypes
<1>3. \A x \in Area : after(x) \in Area
  BY AreaTypes
<1>4. Updated(a) \in Area /\ \A n \in Recs : Inserted(a, n) \in Area
  BY <1>2, AreaTypes
<1>5. UNCHANGED nTransacCount
  BY Zenon DEF WriteBuffer
<1>6. \/ Sync(c, w, b.rec, b.buf, after(Updated(a))) /\ UNCHANGED << db, wrote, used >>
      \/ /\ \E S : Modify(c, S, b.buf)
         /\ Sync(c, w, b.rec, b.buf, after(Updated(a))) /\ UNCHANGED used
      \/ \E n \in Recs \ used : /\ Modify(c, {n}, b.buf)
                                /\ used' = used \cup {n}
                                /\ Sync(c, w, n, b.buf, after(Inserted(a, n)))
  BY Zenon DEF WriteBuffer
<1> HIDE DEF b, a, after
<1>7. CASE Sync(c, w, b.rec, b.buf, after(Updated(a))) /\ UNCHANGED << db, wrote, used >>
  <2>1. AreaType'
    BY <1>1, <1>3, <1>4, <1>7, SetTypes
  <2>2. UNCHANGED tx
    BY <1>5, <1>7 DEF tx
  <2> QED BY <2>1, <2>2, <1>1, <1>7 DEF Step, DbMove, TxMove
<1>8. CASE /\ \E S : Modify(c, S, b.buf)
           /\ Sync(c, w, b.rec, b.buf, after(Updated(a))) /\ UNCHANGED used
  <2>1. AreaType'
    BY <1>1, <1>3, <1>4, <1>8, SetTypes
  <2>2. Statement(c)
    BY <1>1, <1>8, Zenon DEF Statement
  <2>3. DbMove(c) /\ TxMove(c)
    BY <2>2, <1>5, Zenon DEF DbMove, TxMove
  <2>4. used' \subseteq Recs
    BY <1>1, <1>8
  <2> QED BY <2>1, <2>3, <2>4 DEF Step
<1>9. CASE \E n \in Recs \ used : /\ Modify(c, {n}, b.buf)
                                  /\ used' = used \cup {n}
                                  /\ Sync(c, w, n, b.buf, after(Inserted(a, n)))
  <2>0. PICK n \in Recs \ used : /\ Modify(c, {n}, b.buf)
                                 /\ used' = used \cup {n}
                                 /\ Sync(c, w, n, b.buf, after(Inserted(a, n)))
    BY <1>9
  <2>1. AreaType'
    BY <1>1, <1>3, <1>4, <2>0, SetTypes
  <2>2. Statement(c)
    BY <1>1, <2>0, Zenon DEF Statement
  <2>3. DbMove(c) /\ TxMove(c)
    BY <2>2, <1>5, Zenon DEF DbMove, TxMove
  <2>4. used' \subseteq Recs
    BY <1>1, <2>0
  <2> QED BY <2>1, <2>3, <2>4 DEF Step
<1> QED BY <1>6, <1>7, <1>8, <1>9

(* What a move leaves as it is.                                            *)
Kept(b, a) == /\ a.hot = b.hot /\ a.ins = b.ins /\ a.open = b.open
              /\ a.shared = b.shared /\ a.aLocked = b.aLocked

(* The fields of an area that a move leaves behind.                        *)
LEMMA MoveOps ==
  ASSUME NEW a \in Area
  PROVE  /\ \A r \in Cached(a) : LET b == Shown(a, r)
                                 IN  /\ b \in Area /\ Kept(a, b) /\ b.lines = a.lines
                                     /\ b.rec = r /\ b.old = a.lines[r]
         /\ LET b == CleanBuffer(a)
            IN  /\ b \in Area /\ Kept(a, b) /\ b.lines = a.lines /\ b.rec = Phantom
         /\ \A r \in Recs, v \in Vals :
               LET b == RowShown(a, r, v)
               IN  /\ b \in Area /\ Kept(a, b) /\ b.lines = OneLine(r, v)
                   /\ b.rec = r /\ b.old = v
         /\ \A x \in BOOLEAN :
               LET b == [a EXCEPT !.bofAt = x]
               IN  /\ b \in Area /\ Kept(a, b) /\ b.lines = a.lines
                   /\ b.rec = a.rec /\ b.old = a.old
         /\ \A l \in Lines :
               LET b == [a EXCEPT !.lines = l]
               IN  /\ b \in Area /\ Kept(a, b) /\ b.lines = l
                   /\ b.rec = a.rec /\ b.old = a.old
<1>0. \A r \in Recs, v \in Vals : OneLine(r, v) \in Lines
  BY LineTypes
<1>1. \A r \in Cached(a) : r \in Recs /\ a.lines[r] \in Vals
  BY DEF Cached, Area
<1>2. Blank \in Vals
  BY TxAssumption
<1>3. ASSUME NEW r \in Recs, NEW v \in Vals
      PROVE  LET b == RowShown(a, r, v)
             IN  /\ b \in Area /\ Kept(a, b) /\ b.lines = OneLine(r, v) /\ b.rec = r /\ b.old = v
  <2>1. RowShown(a, r, v) \in Area
    BY <1>0, FieldTypes DEF RowShown
  <2> QED BY <2>1 DEF RowShown, Kept, Area
<1>4. ASSUME NEW x \in BOOLEAN
      PROVE  LET b == [a EXCEPT !.bofAt = x]
             IN  /\ b \in Area /\ Kept(a, b) /\ b.lines = a.lines /\ b.rec = a.rec /\ b.old = a.old
  <2>1. [a EXCEPT !.bofAt = x] \in Area
    BY FieldTypes
  <2> QED BY <2>1 DEF Kept, Area
<1>5. ASSUME NEW l \in Lines
      PROVE  LET b == [a EXCEPT !.lines = l]
             IN  /\ b \in Area /\ Kept(a, b) /\ b.lines = l /\ b.rec = a.rec /\ b.old = a.old
  <2>1. [a EXCEPT !.lines = l] \in Area
    BY FieldTypes
  <2> QED BY <2>1 DEF Kept, Area
<1>6. ASSUME NEW r \in Cached(a)
      PROVE  LET b == Shown(a, r)
             IN  /\ b \in Area /\ Kept(a, b) /\ b.lines = a.lines
                 /\ b.rec = r /\ b.old = a.lines[r]
  <2>1. PICK v \in Vals : v = a.lines[r]
    BY <1>1
  <2>2. PICK b : b = Shown(a, r)
    OBVIOUS
  <2>3. b = [a EXCEPT !.rec = r, !.buf = v, !.old = v]
    BY <2>1, <2>2 DEF Shown
  <2>4. b \in Area
    BY <1>1, <2>1, <2>3, FieldTypes
  <2>5. Kept(a, b) /\ b.lines = a.lines /\ b.rec = r /\ b.old = v
    BY <2>3, <2>4 DEF Kept, Area
  <2> QED BY <2>1, <2>2, <2>4, <2>5
<1>7. LET b == CleanBuffer(a)
      IN  /\ b \in Area /\ Kept(a, b) /\ b.lines = a.lines /\ b.rec = Phantom
  <2>1. CleanBuffer(a) \in Area
    BY AreaTypes
  <2> QED BY <2>1 DEF CleanBuffer, Kept, Area
<1> QED BY <1>3, <1>4, <1>5, <1>6, <1>7

(* A move takes area b of connection c to a: to the phantom, nowhere, to a *)
(* record that was read, or to one that had a line.  Lines come from rows. *)
Moved(c, b, a) ==
    /\ a \in Area /\ Kept(b, a)
    /\ \/ a.rec = Phantom
       \/ a.rec = b.rec /\ a.old = b.old
       \/ a.rec \in Recs /\ View(c, a.rec) # Absent /\ a.old = View(c, a.rec)
       \/ a.rec \in Cached(b) /\ MayShow(b, a.rec)
    /\ \A r \in Recs : a.lines[r] # Absent => b.lines[r] # Absent \/ View(c, r) # Absent

(* A record of a page that has just been read.                             *)
LEMMA PageMoves ==
  ASSUME Inv, NEW c \in Clients, NEW b \in Area, NEW S, NEW over, NEW r \in S, NEW x \in BOOLEAN,
         \A s \in S : s \in Recs /\ View(c, s) # Absent
  PROVE  Moved(c, b, [Shown(PageRead(c, b, S, over), r) EXCEPT !.bofAt = x])
<1> DEFINE l == [s \in Recs |-> IF s \in S THEN View(c, s)
                                ELSE IF s \in over THEN Absent ELSE b.lines[s]]
<1>1. \A s \in Recs : View(c, s) \in Vals \cup {Absent} /\ b.lines[s] \in Vals \cup {Absent}
  BY DEF Inv, TypeOK, View, Area
<1>2. l \in Lines /\ PageRead(c, b, S, over) = [b EXCEPT !.lines = l]
  BY <1>1 DEF Lines, PageRead
<1>3. PICK p : p = PageRead(c, b, S, over)
  OBVIOUS
<1>4. p \in Area /\ Kept(b, p) /\ p.lines = l
  BY <1>2, <1>3, MoveOps
<1>5. r \in Cached(p) /\ p.lines[r] = View(c, r) /\ r \in Recs
  BY <1>4 DEF Cached
<1>6. PICK q : q = Shown(p, r)
  OBVIOUS
<1>7. q \in Area /\ Kept(p, q) /\ q.lines = l /\ q.rec = r /\ q.old = View(c, r)
  BY <1>4, <1>5, <1>6, MoveOps
<1>8. PICK a : a = [q EXCEPT !.bofAt = x]
  OBVIOUS
<1>9. a \in Area /\ Kept(q, a) /\ a.lines = l /\ a.rec = r /\ a.old = View(c, r)
  BY <1>7, <1>8, MoveOps
<1>10. Kept(b, a)
  BY <1>4, <1>7, <1>9 DEF Kept
<1>11. \A s \in Recs : a.lines[s] # Absent => b.lines[s] # Absent \/ View(c, s) # Absent
  BY <1>9
<1>12. Moved(c, b, a)
  BY <1>5, <1>9, <1>10, <1>11 DEF Moved
<1> QED BY <1>3, <1>6, <1>8, <1>12

(* The other ways a move can end.                                          *)
LEMMA OtherMoves ==
  ASSUME Inv, NEW c \in Clients, NEW b \in Area
  PROVE  /\ \A r \in Cached(b) : MayShow(b, r) => Moved(c, b, Shown(b, r))
         /\ \A r \in Recs : View(c, r) # Absent => Moved(c, b, RowShown(b, r, View(c, r)))
         /\ Moved(c, b, CleanBuffer(b))
         /\ Moved(c, b, [CleanBuffer(b) EXCEPT !.lines = NoLines])
         /\ Moved(c, b, [b EXCEPT !.bofAt = TRUE])
<1>1. ASSUME NEW r \in Cached(b), MayShow(b, r) PROVE Moved(c, b, Shown(b, r))
  BY <1>1, MoveOps DEF Moved
<1>2. ASSUME NEW r \in Recs, View(c, r) # Absent PROVE Moved(c, b, RowShown(b, r, View(c, r)))
  <2>1. View(c, r) \in Vals
    BY <1>2 DEF Inv, TypeOK, View
  <2>2. PICK a : a = RowShown(b, r, View(c, r))
    OBVIOUS
  <2>3. a \in Area /\ Kept(b, a) /\ a.lines = OneLine(r, View(c, r)) /\ a.rec = r /\ a.old = View(c, r)
    BY <2>1, <2>2, MoveOps
  <2>4. \A s \in Recs : a.lines[s] # Absent => s = r
    BY <2>3 DEF OneLine, WithLine, NoLines
  <2>5. Moved(c, b, a)
    BY <1>2, <2>3, <2>4 DEF Moved
  <2> QED BY <2>2, <2>5
<1>3. CleanBuffer(b) \in Area /\ Kept(b, CleanBuffer(b)) /\ CleanBuffer(b).lines = b.lines
      /\ CleanBuffer(b).rec = Phantom
  BY MoveOps
<1>4. Moved(c, b, CleanBuffer(b))
  BY <1>3 DEF Moved
<1>5. Moved(c, b, [CleanBuffer(b) EXCEPT !.lines = NoLines])
  <2>1. PICK d : d = CleanBuffer(b)
    OBVIOUS
  <2>2. PICK a : a = [d EXCEPT !.lines = NoLines]
    OBVIOUS
  <2>3. a \in Area /\ Kept(d, a) /\ a.lines = NoLines /\ a.rec = Phantom
    BY <1>3, <2>1, <2>2, LineTypes, MoveOps
  <2>4. Kept(b, a)
    BY <1>3, <2>1, <2>3 DEF Kept
  <2>5. Moved(c, b, a)
    BY <2>3, <2>4 DEF Moved, NoLines
  <2> QED BY <2>1, <2>2, <2>5
<1>6. Moved(c, b, [b EXCEPT !.bofAt = TRUE])
  BY MoveOps DEF Moved
<1> QED BY <1>1, <1>2, <1>4, <1>5, <1>6

(* The moves touch one cold area and nothing else.                         *)
LEMMA GoToMoves ==
  ASSUME Inv, NEW c \in Clients, NEW w \in Areas, NEW r \in Recs, GoTo(c, w, r)
  PROVE  \E a : /\ SetArea(c, w, a) /\ Moved(c, wa[c][w], a)
                /\ wa[c][w].open /\ ~wa[c][w].hot /\ UNCHANGED << db, used, tx >>
<1>1. PICK b : b = wa[c][w]
  OBVIOUS
<1>2. b \in Area
  BY <1>1 DEF Inv, TypeOK
<1>3. /\ b.open /\ ~b.hot /\ UNCHANGED << db, used, tx >>
      /\ \E begin \in Begins(b) :
           \/ begin = r /\ MayShow(b, r) /\ SetArea(c, w, Shown(b, r))
           \/ View(c, r) # Absent /\ SetArea(c, w, RowShown(b, r, View(c, r)))
           \/ SetArea(c, w, [CleanBuffer(b) EXCEPT !.lines = NoLines])
  BY <1>1, Zenon DEF GoTo
<1>4. r \in Begins(b) => r \in Cached(b)
  BY TxAssumption DEF Begins
<1>5. \/ r \in Cached(b) /\ MayShow(b, r) /\ SetArea(c, w, Shown(b, r))
      \/ View(c, r) # Absent /\ SetArea(c, w, RowShown(b, r, View(c, r)))
      \/ SetArea(c, w, [CleanBuffer(b) EXCEPT !.lines = NoLines])
  BY <1>3, <1>4, Zenon
<1>6. \E a : SetArea(c, w, a) /\ Moved(c, b, a)
  BY <1>2, <1>5, OtherMoves, Zenon
<1> QED BY <1>1, <1>3, <1>6

LEMMA AnyMoves ==
  ASSUME Inv, NEW c \in Clients, NEW w \in Areas,
         \/ \E r \in Recs : GoTo(c, w, r)
         \/ GoPhantom(c, w) \/ GoTop(c, w) \/ Skip(c, w)
  PROVE  \E a : /\ SetArea(c, w, a) /\ Moved(c, wa[c][w], a)
                /\ wa[c][w].open /\ ~wa[c][w].hot /\ UNCHANGED << db, used, tx >>
<1> DEFINE b == wa[c][w]
<1>0. b \in Area
  BY DEF Inv, TypeOK
<1>1. CASE \E r \in Recs : GoTo(c, w, r)
  BY <1>1, GoToMoves
<1>2. CASE GoPhantom(c, w)
  <2>1. SetArea(c, w, CleanBuffer(b)) /\ b.open /\ ~b.hot /\ UNCHANGED << db, used, tx >>
    BY <1>2, Zenon DEF GoPhantom
  <2> HIDE DEF b
  <2> QED BY <1>0, <2>1, OtherMoves DEF b
<1>3. CASE GoTop(c, w)
  <2> DEFINE Rows == {r \in Recs : View(c, r) # Absent}
  <2>1. CASE \E r \in Recs : GoTo(c, w, r)
    BY <2>1, GoToMoves
  <2>2. CASE /\ b.open /\ ~b.hot /\ UNCHANGED << db, used, tx >>
             /\ \/ \E S \in SUBSET Rows : \E r \in S :
                     SetArea(c, w, [Shown(PageRead(c, b, S, Recs), r) EXCEPT !.bofAt = TRUE])
                \/ SetArea(c, w, [CleanBuffer(b) EXCEPT !.lines = NoLines])
    <3>1. CASE \E S \in SUBSET Rows : \E r \in S :
                 SetArea(c, w, [Shown(PageRead(c, b, S, Recs), r) EXCEPT !.bofAt = TRUE])
      <4>1. PICK S \in SUBSET Rows : \E r \in S :
                 SetArea(c, w, [Shown(PageRead(c, b, S, Recs), r) EXCEPT !.bofAt = TRUE])
        BY <3>1
      <4>2. PICK r \in S :
                 SetArea(c, w, [Shown(PageRead(c, b, S, Recs), r) EXCEPT !.bofAt = TRUE])
        BY <4>1
      <4>3. \A s \in S : s \in Recs /\ View(c, s) # Absent
        OBVIOUS
      <4>4. Moved(c, b, [Shown(PageRead(c, b, S, Recs), r) EXCEPT !.bofAt = TRUE])
        BY <1>0, <4>3, PageMoves
      <4> QED BY <2>2, <4>2, <4>4
    <3>2. CASE SetArea(c, w, [CleanBuffer(b) EXCEPT !.lines = NoLines])
      <4>1. Moved(c, b, [CleanBuffer(b) EXCEPT !.lines = NoLines])
        BY <1>0, OtherMoves
      <4> QED BY <2>2, <3>2, <4>1
    <3> QED BY <2>2, <3>1, <3>2
  <2> QED BY <1>3, <2>1, <2>2, Zenon DEF GoTop
<1>4. CASE Skip(c, w)
  <2> DEFINE News == {r \in Recs \ (Cached(b) \cup {b.rec}) : View(c, r) # Absent}
             To(S, over, r, x) == [Shown(PageRead(c, b, S, over), r) EXCEPT !.bofAt = x]
  <2>1. /\ b.open /\ ~b.hot /\ UNCHANGED << db, used, tx >>
        /\ \/ \E r \in Cached(b) : MayShow(b, r) /\ SetArea(c, w, Shown(b, r))
           \/ \E S \in SUBSET News, over \in SUBSET (Cached(b) \ {b.rec}), x \in BOOLEAN :
                \E r \in S : SetArea(c, w, To(S, over, r, x))
           \/ SetArea(c, w, [b EXCEPT !.bofAt = TRUE])
    BY <1>4, Zenon DEF Skip
  <2>2. CASE \E r \in Cached(b) : MayShow(b, r) /\ SetArea(c, w, Shown(b, r))
    <3>1. PICK r \in Cached(b) : MayShow(b, r) /\ SetArea(c, w, Shown(b, r))
      BY <2>2
    <3>2. Moved(c, b, Shown(b, r))
      BY <1>0, <3>1, OtherMoves
    <3> QED BY <2>1, <3>1, <3>2
  <2>3. CASE \E S \in SUBSET News, over \in SUBSET (Cached(b) \ {b.rec}), x \in BOOLEAN :
               \E r \in S : SetArea(c, w, To(S, over, r, x))
    <3>1. PICK S \in SUBSET News, over \in SUBSET (Cached(b) \ {b.rec}), x \in BOOLEAN :
               \E r \in S : SetArea(c, w, To(S, over, r, x))
      BY <2>3
    <3>2. PICK r \in S : SetArea(c, w, To(S, over, r, x))
      BY <3>1
    <3>3. \A s \in S : s \in Recs /\ View(c, s) # Absent
      OBVIOUS
    <3>4. Moved(c, b, To(S, over, r, x))
      BY <1>0, <3>3, PageMoves
    <3> QED BY <2>1, <3>2, <3>4
  <2>4. CASE SetArea(c, w, [b EXCEPT !.bofAt = TRUE])
    <3>1. Moved(c, b, [b EXCEPT !.bofAt = TRUE])
      BY <1>0, OtherMoves
    <3> QED BY <2>1, <2>4, <3>1
  <2> QED BY <2>1, <2>2, <2>3, <2>4
<1> QED BY <1>1, <1>2, <1>3, <1>4

(* Every other operation of an area.                                       *)
LEMMA AreaStep ==
  ASSUME Inv, NEW c \in Clients, NEW w \in Areas,
         \/ WriteFails(c, w) \/ GoToFails(c, w) \/ Append(c, w)
         \/ GoPhantom(c, w) \/ GoTop(c, w) \/ Skip(c, w)
         \/ UnLock(c, w) \/ Flush(c, w) \/ Close(c, w)
         \/ \E s \in OpenModes : Open(c, w, s)
         \/ \E v \in Vals : PutValue(c, w, v)
         \/ \E r \in Recs : GoTo(c, w, r) \/ \E m \in BOOLEAN : Lock(c, w, r, m)
  PROVE  Step(c)
<1> USE TxAssumption
<1>0. AreaType /\ wa[c][w] \in Area /\ used \subseteq Recs
  BY DEF Inv, TypeOK, AreaType
<1>v. \A r \in Recs : View(c, r) \in Vals \cup {Absent}
  BY DEF Inv, TypeOK, View
<1>c. ASSUME NEW a, CommitIfYouCan(c, a), UNCHANGED << used, tx >>, AreaType' PROVE Step(c)
  <2>1. DbMove(c)
    BY <1>c, Zenon DEF CommitIfYouCan, lCanICommitNow, DbMove, MayCommit
  <2>2. TxMove(c)
    BY <1>c, Zenon DEF TxMove
  <2> QED BY <1>0, <1>c, <2>1, <2>2 DEF Step
<1>r. ASSUME RollBack(c), UNCHANGED << used, tx >>, AreaType' PROVE Step(c)
  <2>1. DbMove(c) /\ TxMove(c)
    BY <1>r, Zenon DEF DbMove, TxMove
  <2> QED BY <1>0, <1>r, <2>1 DEF Step
<1>1. CASE WriteFails(c, w)
  <2>1. SetArea(c, w, Cold(wa[c][w])) /\ RollBack(c) /\ UNCHANGED << used, tx >>
    BY <1>1, Zenon DEF WriteFails
  <2>2. AreaType'
    BY <1>0, <2>1, AreaTypes, SetTypes
  <2> QED BY <2>1, <2>2, <1>r
<1>2. CASE GoToFails(c, w)
  BY <1>0, <1>2, <1>r DEF GoToFails, AreaType
<1>3. CASE Append(c, w)
  <2>1. CASE WriteBuffer(c, w, TRUE)
    BY <2>1, WriteStep
  <2>2. CASE /\ SetArea(c, w, Appending([wa[c][w] EXCEPT !.aLocked = {}]))
             /\ UNCHANGED << db, used, tx >>
    <3>1. [wa[c][w] EXCEPT !.aLocked = {}] \in Area
      BY <1>0, AreaTypes
    <3>2. Appending([wa[c][w] EXCEPT !.aLocked = {}]) \in Area
      BY <3>1, AreaTypes
    <3>3. AreaType'
      BY <1>0, <2>2, <3>2, SetTypes
    <3> QED BY <2>2, <3>3, QuietStep
  <2> QED BY <1>3, <2>1, <2>2, Zenon DEF Append
<1>4. CASE UnLock(c, w)
  <2> DEFINE a == [wa[c][w] EXCEPT !.aLocked = {}]
  <2>1. CommitIfYouCan(c, a) /\ SetArea(c, w, a) /\ UNCHANGED << used, tx >>
    BY <1>4, Zenon DEF UnLock
  <2>2. a \in Area
    BY <1>0, AreaTypes
  <2> HIDE DEF a
  <2>3. AreaType'
    BY <1>0, <2>1, <2>2, SetTypes
  <2> QED BY <2>1, <2>3, <1>c
<1>5. CASE Flush(c, w)
  BY <1>0, <1>5, <1>c DEF Flush, AreaType
<1>6. CASE Close(c, w)
  <2>1. AreaType'
    BY <1>0, <1>6, FixedAreas, SetTypes DEF Close
  <2> QED BY <2>1, <1>6, <1>c DEF Close
<1>7. CASE \E s \in OpenModes : Open(c, w, s)
  <2>1. PICK s \in OpenModes : Open(c, w, s)
    BY <1>7
  <2>2. Opened(s) \in Area
    BY FixedAreas
  <2>3. AreaType'
    BY <1>0, <2>1, <2>2, SetTypes DEF Open
  <2> QED BY <2>1, <2>3, QuietStep DEF Open
<1>8. CASE \E v \in Vals : PutValue(c, w, v)
  <2>1. PICK v \in Vals : PutValue(c, w, v)
    BY <1>8
  <2>2. [wa[c][w] EXCEPT !.buf = v, !.hot = TRUE] \in Area
    BY <1>0, AreaTypes
  <2>3. SetArea(c, w, [wa[c][w] EXCEPT !.buf = v, !.hot = TRUE]) /\ UNCHANGED << db, used, tx >>
    BY <2>1, Zenon DEF PutValue
  <2>4. AreaType'
    BY <1>0, <2>2, <2>3, SetTypes
  <2> QED BY <2>3, <2>4, QuietStep
<1>9. CASE \/ \E r \in Recs : GoTo(c, w, r)
           \/ GoPhantom(c, w) \/ GoTop(c, w) \/ Skip(c, w)
  <2>1. PICK a : /\ SetArea(c, w, a) /\ Moved(c, wa[c][w], a)
                 /\ UNCHANGED << db, used, tx >>
    BY <1>9, AnyMoves
  <2>2. a \in Area
    BY <2>1 DEF Moved
  <2>3. AreaType'
    BY <1>0, <2>1, <2>2, SetTypes
  <2> QED BY <2>1, <2>3, QuietStep
<1>10. CASE \E r \in Recs : \E m \in BOOLEAN : Lock(c, w, r, m)
  <2>1. PICK r \in Recs, m \in BOOLEAN : Lock(c, w, r, m)
    BY <1>10
  <2>2. UNCHANGED << used, tx >>
    BY <2>1, Zenon DEF Lock
  <2>t. TxMove(c) /\ used' \subseteq Recs
    BY <1>0, <2>2 DEF TxMove
  <2>3. CASE /\ owner[r] \in {Free, c} /\ View(c, r) # Absent /\ Granted(c, r)
             /\ SetArea(c, w, [Refreshed(wa[c][w], r, View(c, r))
                                 EXCEPT !.aLocked = @ \cup {r}])
    <3>1. Refreshed(wa[c][w], r, View(c, r)) \in Area
      BY <1>0, <1>v, <2>3, AreaTypes
    <3> DEFINE b == Refreshed(wa[c][w], r, View(c, r))
               a == [b EXCEPT !.aLocked = @ \cup {r}]
    <3>2. a \in Area
      BY <3>1, AreaTypes
    <3>3. SetArea(c, w, a)
      BY <2>3
    <3> HIDE DEF a
    <3>4. AreaType'
      BY <1>0, <3>2, <3>3, SetTypes
    <3>5. DbMove(c)
      BY <2>3, Zenon DEF DbMove
    <3> QED BY <3>4, <3>5, <2>t DEF Step
  <2>4. CASE Refused(c) /\ UNCHANGED wa
    <3>1. DbMove(c)
      BY <2>4, Zenon DEF DbMove
    <3> QED BY <1>0, <2>4, <3>1, <2>t DEF Step, AreaType
  <2> QED BY <2>1, <2>3, <2>4, Zenon DEF Lock
<1> QED BY <1>1, <1>2, <1>3, <1>4, <1>5, <1>6, <1>7, <1>8, <1>9, <1>10

(* The operations of a connection.                                         *)
LEMMA ConnectionStep ==
  ASSUME Inv, NEW c \in Clients,
         \/ BeginTransaction(c) \/ CommitTransaction(c) \/ EndTransaction(c)
         \/ RollBackTransaction(c) \/ EndConnection(c) \/ Crash(c)
  PROVE  Step(c)
<1> USE TxAssumption
<1>0. /\ AreaType /\ used \subseteq Recs
      /\ nTransacCount \in [Clients -> 0 .. MaxNest] /\ nTransacCount[c] \in 0 .. MaxNest
  BY DEF Inv, TypeOK, AreaType
<1>z. ASSUME NEW n \in 0 .. MaxNest, SetCount(c, n) PROVE TxMove(c) /\ nTransacCount'[c] = n
  BY <1>0, <1>z DEF SetCount, TxMove
<1>a. ASSUME UNCHANGED << used, wa >> PROVE AreaType' /\ used' \subseteq Recs
  BY <1>0, <1>a DEF AreaType
<1>b. ASSUME wa' = [wa EXCEPT ![c] = [w \in Areas |-> Closed]], UNCHANGED used
      PROVE  AreaType' /\ used' \subseteq Recs
  BY <1>0, <1>b, FixedAreas DEF AreaType
<1>1. CASE BeginTransaction(c)
  <2>1. nTransacCount[c] + 1 \in 0 .. MaxNest /\ SetCount(c, nTransacCount[c] + 1)
    BY <1>0, <1>1 DEF BeginTransaction
  <2>2. TxMove(c)
    BY <2>1, <1>z
  <2>3. DbMove(c)
    BY <1>1, Zenon DEF BeginTransaction, DbMove, MayCommit
  <2> QED BY <1>1, <1>a, <2>2, <2>3 DEF BeginTransaction, Step
<1>2. CASE CommitTransaction(c)
  <2>1. nTransacCount[c] - 1 \in 0 .. MaxNest /\ SetCount(c, nTransacCount[c] - 1)
    BY <1>0, <1>2 DEF CommitTransaction
  <2>2. TxMove(c) /\ (nTransacCount[c] = 1 => nTransacCount'[c] = 0)
    BY <1>0, <2>1, <1>z
  <2>3. DbMove(c)
    BY <1>2, <2>2, Zenon DEF CommitTransaction, DbMove, MayCommit
  <2> QED BY <1>2, <1>a, <2>2, <2>3 DEF CommitTransaction, Step
<1>3. CASE EndTransaction(c)
  <2>1. 0 \in 0 .. MaxNest /\ SetCount(c, 0)
    BY <1>3 DEF EndTransaction
  <2>2. TxMove(c) /\ nTransacCount'[c] = 0
    BY <2>1, <1>z
  <2>3. DbMove(c)
    BY <1>3, <2>2, Zenon DEF EndTransaction, DbMove, MayCommit
  <2> QED BY <1>3, <1>a, <2>2, <2>3 DEF EndTransaction, Step
<1>4. CASE RollBackTransaction(c)
  <2>1. 0 \in 0 .. MaxNest /\ SetCount(c, 0) /\ RollBack(c) /\ UNCHANGED used
    BY <1>4 DEF RollBackTransaction
  <2>2. TxMove(c)
    BY <2>1, <1>z
  <2>3. ASSUME NEW w \in Areas PROVE CleanUp(wa[c][w]) \in Area
    <3>1. wa[c][w] \in Area
      BY <1>0 DEF AreaType
    <3> QED BY <3>1, AreaTypes
  <2>4. wa' = [wa EXCEPT ![c] = [w \in Areas |-> CleanUp(wa[c][w])]]
    BY <1>4, Zenon DEF RollBackTransaction
  <2>5. AreaType'
    BY <1>0, <2>3, <2>4 DEF AreaType
  <2>6. DbMove(c)
    BY <2>1, Zenon DEF DbMove
  <2> QED BY <1>0, <2>1, <2>2, <2>5, <2>6 DEF Step
<1>5. CASE EndConnection(c)
  <2>1. 0 \in 0 .. MaxNest /\ SetCount(c, 0) /\ Commit(c)
    BY <1>5 DEF EndConnection
  <2>2. TxMove(c) /\ nTransacCount'[c] = 0
    BY <2>1, <1>z
  <2>3. DbMove(c)
    BY <2>1, <2>2, Zenon DEF DbMove, MayCommit
  <2> QED BY <1>5, <1>b, <2>2, <2>3 DEF EndConnection, Step
<1>6. CASE Crash(c)
  <2>1. 0 \in 0 .. MaxNest /\ SetCount(c, 0) /\ RollBack(c)
    BY <1>6 DEF Crash
  <2>2. TxMove(c)
    BY <2>1, <1>z
  <2>3. DbMove(c)
    BY <2>1, Zenon DEF DbMove
  <2> QED BY <1>6, <1>b, <2>2, <2>3 DEF Crash, Step
<1> QED BY <1>1, <1>2, <1>3, <1>4, <1>5, <1>6

(* Every step of the specification is a step of some connection.           *)
LEMMA NextIsStep == ASSUME Inv, Next PROVE \E c \in Clients : Step(c)
<1>1. PICK c \in Clients :
        \/ BeginTransaction(c) \/ CommitTransaction(c) \/ EndTransaction(c)
        \/ RollBackTransaction(c) \/ EndConnection(c) \/ Crash(c)
        \/ \E w \in Areas :
             \/ GoCold(c, w) \/ WriteFails(c, w) \/ GoToFails(c, w) \/ Append(c, w)
             \/ GoPhantom(c, w) \/ GoTop(c, w) \/ Skip(c, w)
             \/ UnLock(c, w) \/ Flush(c, w) \/ Close(c, w)
             \/ \E s \in OpenModes : Open(c, w, s)
             \/ \E v \in Vals : PutValue(c, w, v)
             \/ \E r \in Recs : GoTo(c, w, r) \/ \E m \in BOOLEAN : Lock(c, w, r, m)
  BY Zenon DEF Next
<1>2. ASSUME NEW w \in Areas, GoCold(c, w) PROVE Step(c)
  BY <1>2, WriteStep DEF GoCold
<1> QED BY <1>1, <1>2, AreaStep, ConnectionStep

-----------------------------------------------------------------------------
(* The invariant holds at first.                                           *)
LEMMA InvInit == Init => Inv
<1> SUFFICES ASSUME Init PROVE Inv
  OBVIOUS
<1> USE TxAssumption
<1>1. wa \in [Clients -> [Areas -> Area]]
  BY FixedAreas DEF Init
<1>2. /\ work \in [Clients -> [Recs -> Vals \cup {NoChange}]]
      /\ wrote \in [Clients -> [Recs -> Vals \cup {NoChange}]]
      /\ RowInv
  BY DEF Init, NoWork, RowInv
<1>3. /\ committed \in [Recs -> Vals \cup {Absent}] /\ owner \in [Recs -> Clients \cup {Free}]
      /\ failed \in [Clients -> BOOLEAN] /\ used \subseteq Recs
  BY DEF Init
<1>4. nTransacCount \in [Clients -> 0 .. MaxNest] /\ nIteractions \in [Clients -> 0 .. nAutoCommit]
  BY DEF Init
<1> QED BY <1>1, <1>2, <1>3, <1>4 DEF Inv, TypeOK

(* TypeOK by its parts.                                                    *)
LEMMA Parts == TypeOK <=> DbType /\ TxType /\ AreaType /\ used \subseteq Recs
BY DEF TypeOK, DbType, TxType, AreaType

(* Every step keeps the invariant.                                         *)
LEMMA InvStep == Inv /\ [Next]_vars => Inv'
<1> SUFFICES ASSUME Inv, [Next]_vars PROVE Inv'
  OBVIOUS
<1>0. DbType /\ TxType /\ AreaType /\ used \subseteq Recs /\ RowInv
  BY Parts DEF Inv
<1>1. CASE Next
  <2>1. PICK c \in Clients : Step(c)
    BY <1>1, NextIsStep
  <2>2. DbType' /\ RowInv' /\ TxType' /\ AreaType' /\ used' \subseteq Recs
    BY <1>0, <2>1, MoveKeeps, TxKeeps DEF Step
  <2> QED BY <2>2 DEF Inv, TypeOK, DbType, TxType, AreaType
<1>2. CASE UNCHANGED vars
  BY <1>2 DEF vars, Inv, TypeOK, RowInv
<1> QED BY <1>1, <1>2

(* Type correctness: buffers hold values, counts stay in their bounds.     *)
THEOREM TxTyping == Spec => []TypeOK
BY InvInit, InvStep, PTL DEF Spec, Inv

(* Nothing written inside a transaction is committed before its outermost  *)
(* level ends: lCanICommitNow, the automatic commit and the nesting count  *)
(* see to it, whatever the areas of the connection do.                     *)
THEOREM Atomicity == Spec => AtomicTransaction
<1> DEFINE Atomic == \A c \in Clients : (nTransacCount[c] > 0 /\ nTransacCount'[c] > 0)
          => \A r \in Recs : work[c][r] # NoChange => committed'[r] = committed[r]
<1>1. ASSUME Inv, Next PROVE Atomic
  <2>0. DbType /\ TxType /\ RowInv
    BY <1>1, Parts DEF Inv
  <2>1. PICK c \in Clients : Step(c)
    BY <1>1, NextIsStep
  <2>2. DbMove(c) /\ \A d \in Clients \ {c} : nTransacCount'[d] = nTransacCount[d]
    BY <2>0, <2>1, TxKeeps DEF Step
  <2> QED BY <2>0, <2>2, MoveIsAtomic
<1>2. Inv /\ [Next]_vars => [Atomic]_vars
  BY <1>1
<1> HIDE DEF Atomic
<1>3. Spec => [][Atomic]_vars
  BY InvInit, InvStep, <1>2, PTL DEF Spec
<1> QED BY <1>3 DEF AtomicTransaction, Atomic

-----------------------------------------------------------------------------
(***************************************************************************)
(* What an area knows about its record: that the row is there, that it is  *)
(* locked when aLocked says so, that aOldBuffer is the row as it is now,   *)
(* and what a transaction has written.  These hold under conditions on how *)
(* the application uses the connection, and each theorem names its own:    *)
(* the code does not keep them with two work areas, automatic commit,      *)
(* transactions around record locks or statements that fail.               *)
(***************************************************************************)
(* SR_BeginTransaction is not used.                                        *)
NoNest == MaxNest = 0

(* Statements fail for row locks only, and then undo themselves only.      *)
Sure == Rdbms = "ORACLE" /\ ~DbErrors

(* One work area on the connection, and commits only by the area itself.   *)
Single == Sure /\ NoNest /\ nAutoCommit = 0 /\ \A v, w \in Areas : v = w

-----------------------------------------------------------------------------
(* The inductive invariant, for one area a of connection c.                *)

(* Insert mode: on the phantom record, with something to write.            *)
InsOk(a) == a.ins => a.rec = Phantom /\ a.hot

(* The record the area is on is there, and those that have a line are; a   *)
(* HOT area has a record.                                                  *)
RecOk(c, a) == /\ a.hot => a.open /\ (a.ins \/ a.rec # Phantom)
               /\ a.rec # Phantom => a.open /\ View(c, a.rec) # Absent
               /\ \A r \in Recs : a.lines[r] # Absent => a.open /\ View(c, r) # Absent

(* aLocked is what the database has locked; a change is made to a locked   *)
(* record; a locked record has not changed under the buffer, as long as it *)
(* is never shown from a line that was read before it was locked.          *)
LockOk(c, a) == /\ \A r \in a.aLocked : owner[r] = c
                /\ (a.hot /\ ~a.ins /\ a.shared) => a.rec \in a.aLocked
                /\ (~Returns /\ a.rec \in a.aLocked) => View(c, a.rec) = a.old

AreaOk(c, a) == /\ NoNest => InsOk(a)
                /\ Sure => RecOk(c, a)
                /\ Single => LockOk(c, a)
                /\ OpenModes \subseteq {TRUE} => a.shared

(* What was written in a transaction is what is not committed yet.         *)
TxOk(c) == Sure => ~failed[c] /\ (nTransacCount[c] > 0 => wrote[c] = work[c])

XInv == \A c \in Clients : TxOk(c) /\ \A w \in Areas : AreaOk(c, wa[c][w])

-----------------------------------------------------------------------------
(* The database, as its connections see it                                 *)

(* A commit leaves what its connection sees.                               *)
LEMMA CommitFacts ==
  ASSUME DbType, NEW c \in Clients, Commit(c)
  PROVE  /\ work'[c] = NoWork /\ failed'[c] = FALSE
         /\ ~failed[c] => \A r \in Recs : View(c, r)' = View(c, r)
<1>1. work'[c] = NoWork /\ failed'[c] = FALSE
  BY DEF Commit, EndOfTransaction, DbType
<1>2. ASSUME ~failed[c], NEW r \in Recs PROVE View(c, r)' = View(c, r)
  <2>1. committed'[r] = IF work[c][r] # NoChange THEN work[c][r] ELSE committed[r]
    BY <1>2 DEF Commit, Merge
  <2>2. work'[c][r] = NoChange
    BY <1>1 DEF NoWork
  <2> QED BY <2>1, <2>2 DEF View
<1> QED BY <1>1, <1>2

(* A rollback.                                                             *)
LEMMA RollBackFacts ==
  ASSUME DbType, NEW c \in Clients, RollBack(c)
  PROVE  work'[c] = NoWork /\ failed'[c] = FALSE
BY DEF RollBack, EndOfTransaction, DbType

(* A statement: its connection sees the rows it wrote, committed or not.   *)
LEMMA ModifyFacts ==
  ASSUME DbType, TxType, NEW c \in Clients, NEW S \in SUBSET Recs, NEW v \in Vals,
         Modify(c, S, v)
  PROVE  /\ failed'[c] = FALSE
         /\ \A r \in Recs : View(c, r)' = IF r \in S THEN v ELSE View(c, r)
         /\ nAutoCommit = 0 => \A r \in Recs : (r \in S \/ owner[r] = c) => owner'[r] = c
         /\ (nTransacCount[c] > 0 /\ wrote[c] = work[c]) => wrote'[c] = work'[c]
<1> USE TxAssumption
<1> DEFINE new == [r \in Recs |-> IF r \in S THEN v ELSE work[c][r]]
<1>1. /\ ~failed[c]
      /\ wrote' = [wrote EXCEPT ![c] = IF nTransacCount[c] = 0 THEN NoWork
                                  ELSE [r \in Recs |-> IF r \in S THEN v ELSE wrote[c][r]]]
  BY DEF Modify
<1>2. CASE AutoCommits(c)
  <2>1. committed' = Merge(new) /\ EndOfTransaction(c)
    BY <1>2, Zenon DEF Modify
  <2>2. work'[c] = NoWork /\ failed'[c] = FALSE
    BY <2>1 DEF EndOfTransaction, DbType
  <2>3. ASSUME NEW r \in Recs PROVE View(c, r)' = IF r \in S THEN v ELSE View(c, r)
    <3>1. work'[c][r] = NoChange
      BY <2>2 DEF NoWork
    <3>2. committed'[r] = IF new[r] # NoChange THEN new[r] ELSE committed[r]
      BY <2>1 DEF Merge
    <3>3. new[r] = IF r \in S THEN v ELSE work[c][r]
      OBVIOUS
    <3> HIDE DEF new
    <3> QED BY <3>1, <3>2, <3>3 DEF View
  <2>4. nAutoCommit # 0 /\ ~(nTransacCount[c] > 0)
    BY <1>2 DEF AutoCommits, TxType
  <2> QED BY <2>2, <2>3, <2>4
<1>3. CASE ~AutoCommits(c)
  <2>1. /\ work' = [work EXCEPT ![c] = new]
        /\ owner' = [r \in Recs |-> IF r \in S THEN c ELSE owner[r]]
        /\ UNCHANGED << committed, failed >>
    BY <1>3, Zenon DEF Modify
  <2>2. work'[c] = new /\ failed'[c] = FALSE
    BY <1>1, <2>1 DEF DbType
  <2>3. ASSUME NEW r \in Recs PROVE View(c, r)' = IF r \in S THEN v ELSE View(c, r)
    BY <2>1, <2>2 DEF View
  <2>4. ASSUME nTransacCount[c] > 0, wrote[c] = work[c] PROVE wrote'[c] = work'[c]
    <3>1. wrote'[c] = [r \in Recs |-> IF r \in S THEN v ELSE wrote[c][r]]
      BY <1>1, <2>4 DEF TxType
    <3> QED BY <2>2, <2>4, <3>1
  <2>5. \A r \in Recs : (r \in S \/ owner[r] = c) => owner'[r] = c
    BY <2>1
  <2> QED BY <2>2, <2>3, <2>4, <2>5
<1> QED BY <1>2, <1>3

(* A row lock is granted, or refused.                                      *)
LEMMA LockFacts ==
  ASSUME DbType, NEW c \in Clients, NEW r \in Recs, owner[r] \in {Free, c},
         Granted(c, r)
  PROVE  /\ UNCHANGED << work, failed >> /\ \A s \in Recs : View(c, s)' = View(c, s)
         /\ owner'[r] = c /\ \A s \in Recs : owner[s] = c => owner'[s] = c
BY DEF Granted, View, DbType

(* What a move of connection c leaves of another connection d: its own     *)
(* changes, its row locks and what it sees of the rows it has locked; and  *)
(* no row goes away.                                                       *)
Untouched(d) ==
    /\ work'[d] = work[d] /\ failed'[d] = failed[d]
    /\ \A r \in Recs : /\ owner[r] = d => owner'[r] = d /\ View(d, r)' = View(d, r)
                       /\ View(d, r) # Absent => View(d, r)' # Absent

(* A commit merges rows that nobody else has locked.                       *)
LEMMA OthersKept ==
  ASSUME DbType, RowInv, NEW c \in Clients, NEW d \in Clients \ {c}, DbMove(c)
  PROVE  Untouched(d)
<1> USE TxAssumption
<1>e. ASSUME EndOfTransaction(c)
      PROVE  /\ work'[d] = work[d] /\ failed'[d] = failed[d]
             /\ \A r \in Recs : owner[r] = d => owner'[r] = d
  BY <1>e DEF EndOfTransaction, DbType
<1>v. ASSUME work'[d] = work[d], NEW f \in [Recs -> Vals \cup {NoChange}],
             committed' = Merge(f) \/ UNCHANGED committed,
             \A r \in Recs : f[r] # NoChange => owner[r] # d
      PROVE  \A r \in Recs : /\ owner[r] = d => View(d, r)' = View(d, r)
                             /\ View(d, r) # Absent => View(d, r)' # Absent
  <2> TAKE r \in Recs
  <2>1. /\ owner[r] = d => committed'[r] = committed[r]
        /\ committed[r] # Absent => committed'[r] # Absent
    BY <1>v DEF Merge
  <2> QED BY <1>v, <2>1 DEF View
<1>0. NoWork \in [Recs -> Vals \cup {NoChange}] /\ \A r \in Recs : NoWork[r] = NoChange
  BY DEF NoWork
<1>1. CASE UNCHANGED db
  BY <1>1 DEF db, Untouched, View
<1>2. CASE Commit(c)
  <2>1. work[c] \in [Recs -> Vals \cup {NoChange}] /\ \A r \in Recs : work[c][r] # NoChange => owner[r] # d
    BY DEF DbType, RowInv
  <2>2. EndOfTransaction(c) /\ (committed' = Merge(work[c]) \/ UNCHANGED committed)
    BY <1>2, Zenon DEF Commit
  <2> QED BY <1>e, <1>v, <2>1, <2>2 DEF Untouched
<1>3. CASE RollBack(c)
  <2>1. EndOfTransaction(c) /\ UNCHANGED committed
    BY <1>3 DEF RollBack
  <2> QED BY <1>0, <1>e, <1>v, <2>1 DEF Untouched
<1>4. CASE Statement(c)
  <2>1. PICK S : \E v \in Vals : Modify(c, S, v)
    BY <1>4, Zenon DEF Statement
  <2>2. PICK v \in Vals : Modify(c, S, v)
    BY <2>1
  <2> DEFINE new == [r \in Recs |-> IF r \in S THEN v ELSE work[c][r]]
  <2>3. \A x \in S : owner[x] \in {Free, c}
    BY <2>2, Zenon DEF Modify
  <2>4. new \in [Recs -> Vals \cup {NoChange}] /\ \A r \in Recs : new[r] # NoChange => owner[r] # d
    BY <2>3 DEF DbType, RowInv
  <2>5. CASE AutoCommits(c)
    <3>1. committed' = Merge(new) /\ EndOfTransaction(c)
      BY <2>2, <2>5, Zenon DEF Modify
    <3> HIDE DEF new
    <3> QED BY <1>e, <1>v, <2>4, <3>1 DEF Untouched
  <2>6. CASE ~AutoCommits(c)
    <3>1. /\ work' = [work EXCEPT ![c] = new]
          /\ owner' = [r \in Recs |-> IF r \in S THEN c ELSE owner[r]]
          /\ UNCHANGED << committed, failed >>
      BY <2>2, <2>6, Zenon DEF Modify
    <3>2. work'[d] = work[d]
      BY <3>1 DEF DbType
    <3>3. \A r \in Recs : owner[r] = d => owner'[r] = d
      BY <2>3, <3>1
    <3> QED BY <1>0, <1>v, <3>1, <3>2, <3>3 DEF Untouched
  <2> QED BY <2>5, <2>6
<1>5. CASE \E r \in Recs : owner[r] \in {Free, c} /\ Granted(c, r)
  BY <1>5 DEF Granted, DbType, Untouched, View
<1>6. CASE Refused(c)
  BY <1>6 DEF Refused, DbType, Untouched, View
<1> QED BY <1>1, <1>2, <1>3, <1>4, <1>5, <1>6, Zenon DEF DbMove

(* The history of another connection is left alone.                        *)
LEMMA WroteKept ==
  ASSUME TxType, NEW c \in Clients, NEW d \in Clients \ {c}, TxMove(c)
  PROVE  wrote'[d] = wrote[d]
<1>1. CASE UNCHANGED tx
  BY <1>1 DEF tx
<1>2. CASE Statement(c)
  <2>1. PICK S : \E v \in Vals : Modify(c, S, v)
    BY <1>2, Zenon DEF Statement
  <2>2. PICK v \in Vals : Modify(c, S, v)
    BY <2>1
  <2>3. PICK new : wrote' = [wrote EXCEPT ![c] = new]
    BY <2>2 DEF Modify
  <2> QED BY <2>3 DEF TxType
<1>3. CASE \E n \in 0 .. MaxNest : SetCount(c, n)
  BY <1>3 DEF SetCount, TxType
<1> QED BY <1>1, <1>2, <1>3, Zenon DEF TxMove

(* Only the connection that moves can disturb its part of the invariant.   *)
LEMMA XFrame ==
  ASSUME Inv, XInv, NEW c \in Clients, Step(c),
         \A d \in Clients \ {c} : wa'[d] = wa[d],
         TxOk(c)', \A w \in Areas : AreaOk(c, wa[c][w])'
  PROVE  XInv'
<1>0. DbType /\ TxType /\ RowInv /\ AreaType
  BY Parts DEF Inv
<1>1. ASSUME NEW d \in Clients \ {c}
      PROVE  TxOk(d)' /\ \A w \in Areas : AreaOk(d, wa[d][w])'
  <2>1. Untouched(d) /\ wrote'[d] = wrote[d] /\ nTransacCount'[d] = nTransacCount[d]
    BY <1>0, OthersKept, WroteKept, TxKeeps DEF Step
  <2>2. TxOk(d)'
    BY <2>1 DEF XInv, TxOk, Untouched
  <2>3. ASSUME NEW w \in Areas PROVE AreaOk(d, wa[d][w])'
    <3>1. AreaOk(d, wa[d][w]) /\ wa'[d][w] = wa[d][w] /\ wa[d][w] \in Area
      BY <1>0 DEF XInv, AreaType
    <3>2. wa[d][w].aLocked \subseteq Recs /\ wa[d][w].rec \in Recs \cup {Phantom}
      BY <3>1 DEF Area
    <3>3. Sure => RecOk(d, wa[d][w])'
      BY <2>1, <3>1, <3>2 DEF AreaOk, RecOk, Untouched
    <3>4. Single => LockOk(d, wa[d][w])'
      BY <2>1, <3>1, <3>2 DEF AreaOk, LockOk, Untouched
    <3> QED BY <3>1, <3>3, <3>4 DEF AreaOk, InsOk
  <2> QED BY <2>2, <2>3
<1> QED BY <1>1 DEF XInv

-----------------------------------------------------------------------------
(* The areas of the connection that moves                                  *)

(* The fields that matter of the areas the operations leave behind.        *)
LEMMA AreaOps ==
  ASSUME NEW a \in Area
  PROVE  /\ /\ ~Cold(a).hot /\ ~Cold(a).ins /\ Cold(a).old = a.buf /\ Cold(a).rec = a.rec
            /\ Cold(a).open = a.open /\ Cold(a).shared = a.shared /\ Cold(a).aLocked = a.aLocked
            /\ Cold(a).lines = a.lines
         /\ /\ Appending(a).rec = Phantom /\ Appending(a).hot /\ Appending(a).ins
            /\ Appending(a).open = a.open /\ Appending(a).shared = a.shared
            /\ Appending(a).aLocked = a.aLocked /\ Appending(a).lines = a.lines
         /\ LET b == [a EXCEPT !.aLocked = {}]
            IN  /\ b.aLocked = {} /\ b.rec = a.rec /\ b.hot = a.hot /\ b.ins = a.ins
                /\ b.open = a.open /\ b.shared = a.shared /\ b.old = a.old /\ b.buf = a.buf
                /\ b.lines = a.lines
         /\ \A r, v : LET b == Synced(a, r, v)
                      IN  /\ b.rec = a.rec /\ b.hot = a.hot /\ b.ins = a.ins
                          /\ b.open = a.open /\ b.shared = a.shared /\ b.lines = NoLines
         /\ a.open => /\ CleanUp(a).rec = Phantom /\ ~CleanUp(a).hot
                      /\ CleanUp(a).shared = a.shared /\ CleanUp(a).lines = NoLines
         /\ ~a.open => CleanUp(a) = a
<1>1. \A r, v : LET b == Synced(a, r, v)
                IN  /\ b.rec = a.rec /\ b.hot = a.hot /\ b.ins = a.ins
                    /\ b.open = a.open /\ b.shared = a.shared /\ b.lines = NoLines
  BY DEF Synced, Area
<1>2. /\ a.open => /\ CleanUp(a).rec = Phantom /\ ~CleanUp(a).hot
                   /\ CleanUp(a).shared = a.shared /\ CleanUp(a).lines = NoLines
      /\ ~a.open => CleanUp(a) = a
  BY DEF CleanUp, CleanBuffer, Area
<1>3. /\ ~Cold(a).hot /\ ~Cold(a).ins /\ Cold(a).old = a.buf /\ Cold(a).rec = a.rec
      /\ Cold(a).open = a.open /\ Cold(a).shared = a.shared /\ Cold(a).aLocked = a.aLocked
      /\ Cold(a).lines = a.lines
  BY DEF Cold, Area
<1>4. /\ Appending(a).rec = Phantom /\ Appending(a).hot /\ Appending(a).ins
      /\ Appending(a).open = a.open /\ Appending(a).shared = a.shared
      /\ Appending(a).aLocked = a.aLocked /\ Appending(a).lines = a.lines
  BY DEF Appending, Area
<1>5. LET b == [a EXCEPT !.aLocked = {}]
      IN  /\ b.aLocked = {} /\ b.rec = a.rec /\ b.hot = a.hot /\ b.ins = a.ins
          /\ b.open = a.open /\ b.shared = a.shared /\ b.old = a.old /\ b.buf = a.buf
          /\ b.lines = a.lines
  BY DEF Area
<1> QED BY <1>1, <1>2, <1>3, <1>4, <1>5

(* A record that was written: it alone may have got a line.                *)
LEMMA UpdatedOps ==
  ASSUME NEW a \in Area
  PROVE  LET u == Updated(a)
         IN  /\ ~u.hot /\ ~u.ins /\ u.old = a.buf /\ u.rec = a.rec /\ u.open = a.open
             /\ u.shared = a.shared /\ u.aLocked = a.aLocked
             /\ \A r \in Recs : u.lines[r] # Absent => a.lines[r] # Absent \/ r = a.rec
<1>1. PICK b : b = Cold(a)
  OBVIOUS
<1>2. /\ b \in Area /\ ~b.hot /\ ~b.ins /\ b.old = a.buf /\ b.rec = a.rec /\ b.open = a.open
      /\ b.shared = a.shared /\ b.aLocked = a.aLocked /\ b.lines = a.lines
  BY <1>1, AreaTypes, AreaOps
<1>3. PICK l : l = WithLine(a.lines, a.rec, a.buf)
  OBVIOUS
<1>4. \A r \in Recs : l[r] # Absent => a.lines[r] # Absent \/ r = a.rec
  BY <1>3 DEF WithLine
<1>5. Updated(a) = [b EXCEPT !.lines = l]
  BY <1>1, <1>2, <1>3 DEF Updated
<1>6. LET d == [b EXCEPT !.lines = l]
      IN  /\ d.hot = b.hot /\ d.ins = b.ins /\ d.old = b.old /\ d.rec = b.rec
          /\ d.open = b.open /\ d.shared = b.shared /\ d.aLocked = b.aLocked /\ d.lines = l
  BY <1>2 DEF Area
<1> QED BY <1>2, <1>4, <1>5, <1>6

(* A record that was inserted: it alone has a line.                        *)
LEMMA InsertedOps ==
  ASSUME NEW a \in Area, NEW n \in Recs
  PROVE  /\ ~Inserted(a, n).hot /\ ~Inserted(a, n).ins /\ Inserted(a, n).old = a.buf
         /\ Inserted(a, n).rec = n /\ Inserted(a, n).open = a.open
         /\ Inserted(a, n).shared = a.shared
         /\ \A r \in Inserted(a, n).aLocked : r = n \/ r \in a.aLocked
         /\ \A r \in Recs : Inserted(a, n).lines[r] # Absent => r = n
<1>1. Cold(a) \in Area
  BY AreaTypes
<1> DEFINE b == Cold(a)
           s == IF a.shared /\ Cardinality(b.aLocked) < MaxLocks THEN b.aLocked \cup {n}
                                                                ELSE b.aLocked
           l == OneLine(n, a.buf)
<1>2. /\ Inserted(a, n) = [b EXCEPT !.rec = n, !.lines = l, !.aLocked = s]
      /\ \A r \in s : r = n \/ r \in b.aLocked
  BY DEF Inserted
<1>3. \A r \in Recs : l[r] # Absent => r = n
  BY DEF OneLine, WithLine, NoLines
<1> HIDE DEF s, l
<1>4. LET d == [b EXCEPT !.rec = n, !.lines = l, !.aLocked = s]
      IN  /\ d.hot = b.hot /\ d.ins = b.ins /\ d.old = b.old /\ d.rec = n
          /\ d.open = b.open /\ d.shared = b.shared /\ d.aLocked = s /\ d.lines = l
  BY <1>1 DEF Area
<1> QED BY <1>2, <1>3, <1>4, AreaOps

(* Nothing is known of, or expected from, an area that is closed, or that  *)
(* was just opened.                                                        *)
LEMMA FixedOk ==
  ASSUME NEW c
  PROVE  /\ AreaOk(c, Closed)' /\ \A s \in OpenModes : AreaOk(c, Opened(s))'
<1>0. \A r \in Recs : NoLines[r] = Absent
  BY DEF NoLines
<1>1. /\ ~Closed.hot /\ ~Closed.ins /\ Closed.rec = Phantom /\ Closed.aLocked = {}
      /\ Closed.shared /\ Closed.lines = NoLines
  BY DEF Closed
<1>2. ASSUME NEW s \in OpenModes
      PROVE  /\ ~Opened(s).hot /\ ~Opened(s).ins /\ Opened(s).rec = Phantom
             /\ Opened(s).aLocked = {} /\ Opened(s).shared = s /\ Opened(s).lines = NoLines
  BY DEF Opened, Closed
<1> QED BY <1>0, <1>1, <1>2 DEF AreaOk, InsOk, RecOk, LockOk

(* No row that connection c sees goes away.                                *)
RowsStay(c) == \A r \in Recs : View(c, r) # Absent => View(c, r)' # Absent

(* The other areas of the connection.                                      *)
LEMMA AreasKept ==
  ASSUME Inv, XInv, NEW c \in Clients, NEW w \in Areas, Sure => RowsStay(c),
         wa'[c][w].rec = wa[c][w].rec, wa'[c][w].hot = wa[c][w].hot,
         wa'[c][w].ins = wa[c][w].ins, wa'[c][w].open = wa[c][w].open,
         wa'[c][w].shared = wa[c][w].shared, Single => LockOk(c, wa[c][w])',
         \A r \in Recs : wa'[c][w].lines[r] # Absent => wa[c][w].lines[r] # Absent
  PROVE  AreaOk(c, wa[c][w])'
<1>1. AreaOk(c, wa[c][w]) /\ wa[c][w].rec \in Recs \cup {Phantom}
  BY DEF XInv, Inv, TypeOK, Area
<1>2. Sure => RecOk(c, wa[c][w])'
  BY <1>1 DEF AreaOk, RecOk, RowsStay
<1> QED BY <1>1, <1>2 DEF AreaOk, InsOk

(* One area is replaced by a.                                              *)
LEMMA XSet ==
  ASSUME Inv, XInv, NEW c \in Clients, NEW w \in Areas, NEW a, Step(c), SetArea(c, w, a),
         TxOk(c)', AreaOk(c, a)', Sure => RowsStay(c)
  PROVE  XInv'
<1>1. /\ wa'[c][w] = a /\ \A x \in Areas \ {w} : wa'[c][x] = wa[c][x]
      /\ \A d \in Clients \ {c} : wa'[d] = wa[d]
  BY DEF SetArea, Inv, TypeOK
<1>2. AreaOk(c, wa[c][w])'
  BY <1>1 DEF AreaOk, InsOk, RecOk, LockOk
<1>3. ASSUME NEW x \in Areas \ {w} PROVE AreaOk(c, wa[c][x])'
  BY <1>1, <1>3, AreasKept DEF Single
<1> QED BY <1>1, <1>2, <1>3, XFrame

(* The areas stay as they are.                                             *)
LEMMA XSame ==
  ASSUME Inv, XInv, NEW c \in Clients, Step(c), UNCHANGED wa, TxOk(c)', Sure => RowsStay(c),
         Single => \A w \in Areas : LockOk(c, wa[c][w])'
  PROVE  XInv'
<1>1. \A w \in Areas : AreaOk(c, wa[c][w])'
  BY AreasKept
<1> QED BY <1>1, XFrame

(* The connection ends: all its areas are closed.                          *)
LEMMA XClosed ==
  ASSUME Inv, XInv, NEW c \in Clients, Step(c), TxOk(c)',
         wa' = [wa EXCEPT ![c] = [w \in Areas |-> Closed]]
  PROVE  XInv'
<1>1. /\ \A w \in Areas : wa'[c][w] = Closed
      /\ \A d \in Clients \ {c} : wa'[d] = wa[d]
  BY DEF Inv, TypeOK
<1>2. ASSUME NEW w \in Areas PROVE AreaOk(c, wa[c][w])'
  <2>1. LET a == wa'[c][w]
        IN  /\ ~a.hot /\ ~a.ins /\ a.rec = Phantom /\ a.aLocked = {} /\ a.shared
            /\ \A r \in Recs : a.lines[r] = Absent
    BY <1>1 DEF Closed, NoLines
  <2> QED BY <2>1 DEF AreaOk, InsOk, RecOk, LockOk
<1> QED BY <1>1, <1>2, XFrame

(* The database and the counts are left alone.                             *)
LEMMA QuietFacts ==
  ASSUME XInv, NEW c \in Clients, UNCHANGED << db, tx >>
  PROVE  /\ TxOk(c)' /\ RowsStay(c)
         /\ UNCHANGED << owner, failed, work >> /\ \A r \in Recs : View(c, r)' = View(c, r)
BY DEF XInv, TxOk, RowsStay, View, db, tx

-----------------------------------------------------------------------------
(* The actions                                                             *)

(* Open, REPLACE and the moves do not touch the database.                  *)
LEMMA EditKeeps ==
  ASSUME Inv, XInv, NEW c \in Clients, NEW w \in Areas,
         \/ \E s \in OpenModes : Open(c, w, s)
         \/ \E v \in Vals : PutValue(c, w, v)
         \/ \E r \in Recs : GoTo(c, w, r)
         \/ GoPhantom(c, w) \/ GoTop(c, w) \/ Skip(c, w)
  PROVE  XInv'
<1> USE TxAssumption
<1>0. Step(c)
  BY AreaStep
<1>1. AreaOk(c, wa[c][w]) /\ wa[c][w] \in Area
  BY DEF XInv, Inv, TypeOK
<1>2. CASE \E s \in OpenModes : Open(c, w, s)
  <2>1. PICK s \in OpenModes : Open(c, w, s)
    BY <1>2
  <2>2. SetArea(c, w, Opened(s)) /\ UNCHANGED << db, tx >>
    BY <2>1 DEF Open
  <2>3. TxOk(c)' /\ RowsStay(c)
    BY <2>2, QuietFacts
  <2> QED BY <1>0, <2>2, <2>3, FixedOk, XSet
<1>3. CASE \E v \in Vals : PutValue(c, w, v)
  <2>1. PICK v \in Vals : PutValue(c, w, v)
    BY <1>3
  <2>2. PICK a : a = [wa[c][w] EXCEPT !.buf = v, !.hot = TRUE]
    OBVIOUS
  <2>3. /\ SetArea(c, w, a) /\ UNCHANGED << db, tx >> /\ wa[c][w].open
        /\ \/ wa[c][w].ins
           \/ /\ wa[c][w].rec # Phantom
              /\ ~wa[c][w].shared \/ wa[c][w].rec \in wa[c][w].aLocked
    BY <2>1, <2>2, Zenon DEF PutValue
  <2>4. /\ a.hot /\ a.ins = wa[c][w].ins /\ a.rec = wa[c][w].rec /\ a.open = wa[c][w].open
        /\ a.shared = wa[c][w].shared /\ a.aLocked = wa[c][w].aLocked /\ a.old = wa[c][w].old
        /\ a.rec \in Recs \cup {Phantom} /\ a.aLocked \subseteq Recs /\ a.lines = wa[c][w].lines
    BY <1>1, <2>2 DEF Area
  <2>5. /\ TxOk(c)' /\ RowsStay(c)
        /\ UNCHANGED owner /\ \A r \in Recs : View(c, r)' = View(c, r)
    BY <2>3, QuietFacts
  <2>6. Sure => RecOk(c, a)'
    BY <1>1, <2>3, <2>4, <2>5 DEF AreaOk, RecOk
  <2>7. Single => LockOk(c, a)'
    BY <1>1, <2>3, <2>4, <2>5 DEF AreaOk, LockOk
  <2>8. AreaOk(c, a)'
    BY <1>1, <2>4, <2>6, <2>7 DEF AreaOk, InsOk
  <2> QED BY <1>0, <2>3, <2>5, <2>8, XSet
<1>4. CASE \/ \E r \in Recs : GoTo(c, w, r)
           \/ GoPhantom(c, w) \/ GoTop(c, w) \/ Skip(c, w)
  <2>0. PICK b : b = wa[c][w]
    OBVIOUS
  <2>1. PICK a : SetArea(c, w, a) /\ Moved(c, b, a) /\ b.open /\ ~b.hot /\ UNCHANGED << db, tx >>
    BY <1>4, <2>0, AnyMoves
  <2>2. /\ AreaOk(c, b) /\ b \in Area /\ b.rec \in Recs \cup {Phantom}
        /\ \A r \in Cached(b) : r \in Recs /\ b.lines[r] # Absent
    BY <1>1, <2>0 DEF Area, Cached
  <2>3. /\ ~a.hot /\ a.ins = b.ins /\ a.open /\ a.shared = b.shared /\ a.aLocked = b.aLocked
        /\ a.aLocked \subseteq Recs /\ a.rec \in Recs \cup {Phantom}
    BY <2>1 DEF Moved, Kept, Area
  <2>4. /\ TxOk(c)' /\ RowsStay(c)
        /\ UNCHANGED owner /\ \A s \in Recs : View(c, s)' = View(c, s)
    BY <2>1, QuietFacts
  <2>5. ASSUME Sure PROVE RecOk(c, a)'
    <3>1. RecOk(c, b)
      BY <2>2, <2>5 DEF AreaOk
    <3>2. a.rec # Phantom => View(c, a.rec) # Absent
      BY <2>1, <2>2, <3>1 DEF Moved, RecOk
    <3>3. \A s \in Recs : a.lines[s] # Absent => View(c, s) # Absent
      BY <2>1, <3>1 DEF Moved, RecOk
    <3> QED BY <2>3, <2>4, <3>2, <3>3 DEF RecOk
  <2>6. ASSUME Single PROVE LockOk(c, a)'
    <3>1. LockOk(c, b)
      BY <2>2, <2>6 DEF AreaOk
    <3>2. (~Returns /\ a.rec \in a.aLocked) => a.rec \in Recs /\ View(c, a.rec) = a.old
      <4> HAVE ~Returns /\ a.rec \in a.aLocked
      <4>1. a.rec \in Recs /\ a.rec # Phantom /\ a.rec \in b.aLocked
        BY <2>3
      <4>2. \/ a.rec = b.rec /\ a.old = b.old
            \/ a.old = View(c, a.rec)
        BY <2>1, <4>1 DEF Moved, MayShow
      <4> QED BY <3>1, <4>1, <4>2 DEF LockOk
    <3> QED BY <2>3, <2>4, <3>1, <3>2 DEF LockOk
  <2>7. NoNest => InsOk(a)
    BY <2>1, <2>2, <2>3 DEF AreaOk, InsOk
  <2>8. AreaOk(c, a)'
    BY <2>2, <2>3, <2>5, <2>6, <2>7 DEF AreaOk, InsOk
  <2> QED BY <1>0, <2>1, <2>4, <2>8, XSet
<1> QED BY <1>2, <1>3, <1>4

(* CommitIfYouCan, seen from its connection.                               *)
LEMMA CanCommitFacts ==
  ASSUME Inv, XInv, NEW c \in Clients, NEW a, CommitIfYouCan(c, a), UNCHANGED tx
  PROVE  /\ TxOk(c)' /\ (Sure => \A r \in Recs : View(c, r)' = View(c, r))
         /\ Sure => RowsStay(c)
         /\ a.aLocked # {} => UNCHANGED owner
<1>0. DbType /\ TxType
  BY Parts DEF Inv
<1>1. CASE lCanICommitNow(c, a) /\ Commit(c)
  <2>1. a.aLocked = {} /\ ~(nTransacCount[c] > 0)
    BY <1>0, <1>1 DEF lCanICommitNow, TxType
  <2>2. TxOk(c)'
    BY <1>0, <1>1, <2>1, CommitFacts DEF TxOk, tx
  <2>3. Sure => \A r \in Recs : View(c, r)' = View(c, r)
    BY <1>0, <1>1, CommitFacts DEF XInv, TxOk
  <2> QED BY <2>1, <2>2, <2>3 DEF RowsStay
<1>2. CASE UNCHANGED db
  BY <1>2, QuietFacts
<1> QED BY <1>1, <1>2, Zenon DEF CommitIfYouCan

(* dbUnlock(), dbCommit() and close                                        *)
LEMMA CommitKeeps ==
  ASSUME Inv, XInv, NEW c \in Clients, NEW w \in Areas,
         UnLock(c, w) \/ Flush(c, w) \/ Close(c, w)
  PROVE  XInv'
<1>0. Step(c)
  BY AreaStep
<1>1. AreaOk(c, wa[c][w]) /\ wa[c][w] \in Area
  BY DEF XInv, Inv, TypeOK
<1>2. CASE UnLock(c, w)
  <2>1. PICK a : a = [wa[c][w] EXCEPT !.aLocked = {}]
    OBVIOUS
  <2>2. CommitIfYouCan(c, a) /\ SetArea(c, w, a) /\ UNCHANGED tx /\ ~a.hot
    BY <1>2, <2>1, Zenon DEF UnLock
  <2>3. /\ a.aLocked = {} /\ a.rec = wa[c][w].rec /\ a.hot = wa[c][w].hot /\ a.ins = wa[c][w].ins
        /\ a.open = wa[c][w].open /\ a.shared = wa[c][w].shared
        /\ a.rec \in Recs \cup {Phantom} /\ a.lines = wa[c][w].lines
    BY <1>1, <2>1 DEF Area
  <2>4. /\ TxOk(c)' /\ (Sure => \A r \in Recs : View(c, r)' = View(c, r))
        /\ Sure => RowsStay(c)
    BY <2>2, CanCommitFacts
  <2>5. Sure => RecOk(c, a)'
    BY <1>1, <2>3, <2>4 DEF AreaOk, RecOk
  <2>6. Single => LockOk(c, a)'
    BY <2>2, <2>3 DEF LockOk
  <2>7. AreaOk(c, a)'
    BY <1>1, <2>3, <2>5, <2>6 DEF AreaOk, InsOk
  <2> QED BY <1>0, <2>2, <2>4, <2>7, XSet
<1>3. CASE Flush(c, w)
  <2>1. CommitIfYouCan(c, wa[c][w]) /\ UNCHANGED << wa, tx >> /\ ~wa[c][w].hot
    BY <1>3 DEF Flush
  <2>2. PICK a : a = wa[c][w]
    OBVIOUS
  <2>3. /\ TxOk(c)' /\ (Sure => \A r \in Recs : View(c, r)' = View(c, r))
        /\ Sure => RowsStay(c)
        /\ wa[c][w].aLocked # {} => UNCHANGED owner
    BY <2>1, <2>2, CanCommitFacts
  <2>4. ASSUME Single, NEW x \in Areas PROVE LockOk(c, wa[c][x])'
    <3>1. x = w /\ Sure
      BY <2>4 DEF Single
    <3>2. LockOk(c, wa[c][w]) /\ wa[c][w].aLocked \subseteq Recs
      BY <1>1, <2>4 DEF AreaOk, Area
    <3> QED BY <2>1, <2>3, <3>1, <3>2 DEF LockOk
  <2> QED BY <1>0, <2>1, <2>3, <2>4, XSame
<1>4. CASE Close(c, w)
  <2>1. CommitIfYouCan(c, wa[c][w]) /\ SetArea(c, w, Closed) /\ UNCHANGED tx
    BY <1>4 DEF Close
  <2>2. PICK a : a = wa[c][w]
    OBVIOUS
  <2>3. TxOk(c)' /\ (Sure => RowsStay(c))
    BY <2>1, <2>2, CanCommitFacts
  <2> QED BY <1>0, <2>1, <2>3, FixedOk, XSet
<1> QED BY <1>2, <1>3, <1>4

(* RLock() and dbRLock(): UpdateCache reads the row that was locked.       *)
LEMMA LockKeeps ==
  ASSUME Inv, XInv, NEW c \in Clients, NEW w \in Areas, NEW r \in Recs, NEW m \in BOOLEAN,
         Lock(c, w, r, m)
  PROVE  XInv'
<1> USE TxAssumption
<1>0. Step(c) /\ DbType
  BY AreaStep, Parts DEF Inv
<1>1. AreaOk(c, wa[c][w]) /\ wa[c][w] \in Area /\ TxOk(c)
  BY DEF XInv, Inv, TypeOK
<1>2. /\ wa[c][w].open /\ ~wa[c][w].hot /\ ~wa[c][w].ins /\ wa[c][w].rec # Phantom
      /\ UNCHANGED tx
  BY DEF Lock, Lockable
<1>3. CASE owner[r] \notin {Free, c}
  <2>1. Refused(c) /\ UNCHANGED wa
    BY <1>3, Zenon DEF Lock
  <2>2. /\ work' = work /\ owner' = owner /\ committed' = committed
        /\ Sure => failed'[c] = FALSE
    BY <1>0, <2>1 DEF Refused, Sure, DbType
  <2>3. TxOk(c)' /\ RowsStay(c) /\ \A s \in Recs : View(c, s)' = View(c, s)
    BY <1>1, <1>2, <2>2 DEF TxOk, RowsStay, View, tx
  <2>4. ASSUME Single, NEW x \in Areas PROVE LockOk(c, wa[c][x])'
    <3>0. wa[c][x] \in Area /\ AreaOk(c, wa[c][x])
      BY DEF XInv, Inv, TypeOK
    <3>1. LockOk(c, wa[c][x]) /\ wa[c][x].aLocked \subseteq Recs
      BY <2>4, <3>0 DEF AreaOk, Area
    <3> QED BY <2>1, <2>2, <2>3, <3>1 DEF LockOk
  <2> QED BY <1>0, <2>1, <2>3, <2>4, XSame
<1>4. CASE owner[r] \in {Free, c}
  <2> DEFINE b == Refreshed(wa[c][w], r, View(c, r))
  <2>1. /\ View(c, r) # Absent /\ Granted(c, r)
        /\ SetArea(c, w, [b EXCEPT !.aLocked = @ \cup {r}])
    BY <1>4, Zenon DEF Lock
  <2>2. PICK a : a = [b EXCEPT !.aLocked = @ \cup {r}]
    OBVIOUS
  <2>3. View(c, r) \in Vals
    BY <1>0, <2>1 DEF View, DbType
  <2>4. /\ b \in Area /\ b.rec = wa[c][w].rec /\ b.hot = wa[c][w].hot /\ b.ins = wa[c][w].ins
        /\ b.open = wa[c][w].open /\ b.shared = wa[c][w].shared
        /\ b.aLocked = wa[c][w].aLocked
        /\ b.old = IF wa[c][w].rec = r THEN View(c, r) ELSE wa[c][w].old
        /\ b.lines = wa[c][w].lines
    BY <1>1, <2>3 DEF Refreshed, Area
  <2> HIDE DEF b
  <2>5. /\ a.rec = wa[c][w].rec /\ a.hot = wa[c][w].hot /\ a.ins = wa[c][w].ins
        /\ a.open = wa[c][w].open /\ a.shared = wa[c][w].shared
        /\ a.aLocked = wa[c][w].aLocked \cup {r} /\ a.aLocked \subseteq Recs
        /\ a.old = IF wa[c][w].rec = r THEN View(c, r) ELSE wa[c][w].old
        /\ a.rec \in Recs \cup {Phantom} /\ a.lines = wa[c][w].lines
    BY <2>2, <2>4 DEF Area
  <2>6. /\ UNCHANGED << work, failed >> /\ \A s \in Recs : View(c, s)' = View(c, s)
        /\ owner'[r] = c /\ \A s \in Recs : owner[s] = c => owner'[s] = c
    BY <1>0, <1>4, <2>1, LockFacts
  <2>7. TxOk(c)' /\ RowsStay(c)
    BY <1>1, <1>2, <2>6 DEF TxOk, RowsStay, tx
  <2>8. Sure => RecOk(c, a)'
    BY <1>1, <2>5, <2>6 DEF AreaOk, RecOk
  <2>9. ASSUME Single PROVE LockOk(c, a)'
    <3>1. LockOk(c, wa[c][w])
      BY <1>1, <2>9 DEF AreaOk
    <3>2. \A s \in a.aLocked : owner'[s] = c
      BY <2>5, <2>6, <3>1 DEF LockOk
    <3>3. ASSUME ~Returns, a.rec \in a.aLocked PROVE View(c, a.rec)' = a.old
      <4>1. a.rec \in Recs /\ View(c, a.rec)' = View(c, a.rec)
        BY <2>5, <2>6, <3>3
      <4>2. View(c, a.rec) = a.old
        BY <2>5, <3>1, <3>3 DEF LockOk
      <4> QED BY <4>1, <4>2
    <3> QED BY <1>2, <2>5, <3>2, <3>3 DEF LockOk
  <2>10. AreaOk(c, a)'
    BY <1>1, <2>5, <2>8, <2>9 DEF AreaOk, InsOk
  <2>11. SetArea(c, w, a)
    BY <2>1, <2>2
  <2> QED BY <1>0, <2>7, <2>10, <2>11, XSet
<1> QED BY <1>3, <1>4

(* A statement fails: under Sure none does.                                *)
LEMMA FailKeeps ==
  ASSUME Inv, XInv, NEW c \in Clients, NEW w \in Areas, WriteFails(c, w) \/ GoToFails(c, w)
  PROVE  XInv'
<1>0. Step(c)
  BY AreaStep
<1>1. AreaOk(c, wa[c][w]) /\ wa[c][w] \in Area /\ TxOk(c)
  BY DEF XInv, Inv, TypeOK
<1>2. ~Sure
  <2>1. CASE GoToFails(c, w)
    BY <1>1, <2>1 DEF GoToFails, TxOk
  <2>2. CASE WriteFails(c, w)
    <3>1. /\ wa[c][w].hot
          /\ \/ DbErrors \/ failed[c]
             \/ ~wa[c][w].ins /\ View(c, wa[c][w].rec) = Absent /\ Rdbms # "POSTGR"
      BY <2>2 DEF WriteFails
    <3> QED BY <1>1, <3>1 DEF TxOk, AreaOk, RecOk, Sure
  <2> QED BY <2>1, <2>2
<1>3. TxOk(c)' /\ ~Single
  BY <1>2 DEF TxOk, Single
<1>4. CASE GoToFails(c, w)
  <2>1. UNCHANGED wa
    BY <1>4 DEF GoToFails
  <2> QED BY <1>0, <1>2, <1>3, <2>1, XSame
<1>5. CASE WriteFails(c, w)
  <2>1. PICK a : a = Cold(wa[c][w])
    OBVIOUS
  <2>2. SetArea(c, w, a)
    BY <1>5, <2>1, Zenon DEF WriteFails
  <2>3. ~a.ins /\ a.shared = wa[c][w].shared
    BY <1>1, <2>1, AreaOps
  <2>4. AreaOk(c, a)'
    BY <1>1, <1>2, <1>3, <2>3 DEF AreaOk, InsOk
  <2> QED BY <1>0, <1>2, <1>3, <2>2, <2>4, XSet
<1> QED BY <1>4, <1>5

(* The operations of a connection.                                         *)
LEMMA ConnectionKeeps ==
  ASSUME Inv, XInv, NEW c \in Clients,
         \/ BeginTransaction(c) \/ CommitTransaction(c) \/ EndTransaction(c)
         \/ RollBackTransaction(c) \/ EndConnection(c) \/ Crash(c)
  PROVE  XInv'
<1> USE TxAssumption
<1>0. Step(c) /\ DbType /\ TxType /\ TxOk(c)
  BY ConnectionStep, Parts DEF Inv, XInv
<1>1. nTransacCount[c] \in 0 .. MaxNest
  BY <1>0 DEF TxType
<1>z. ASSUME SetCount(c, 0), failed'[c] = FALSE PROVE TxOk(c)'
  <2>1. nTransacCount'[c] = 0
    BY <1>0, <1>z DEF SetCount, TxType
  <2> QED BY <1>z, <2>1 DEF TxOk
<1>2. CASE BeginTransaction(c) \/ CommitTransaction(c) \/ EndTransaction(c)
  <2>1. UNCHANGED wa
    BY <1>2 DEF BeginTransaction, CommitTransaction, EndTransaction
  <2>2. ~NoNest
    BY <1>1, <1>2 DEF BeginTransaction, CommitTransaction, EndTransaction, NoNest
  <2>3. Commit(c) \/ UNCHANGED db
    BY <1>2, Zenon DEF BeginTransaction, CommitTransaction, EndTransaction
  <2>4. ASSUME Sure PROVE RowsStay(c) /\ failed'[c] = FALSE
    <3>1. ~failed[c]
      BY <1>0, <2>4 DEF TxOk
    <3>2. CASE Commit(c)
      BY <1>0, <3>1, <3>2, CommitFacts DEF RowsStay
    <3>3. CASE UNCHANGED db
      <4>1. UNCHANGED << work, committed, failed >>
        BY <3>3 DEF db
      <4>2. failed'[c] = FALSE
        BY <1>0, <3>1, <4>1 DEF DbType
      <4> QED BY <4>1, <4>2 DEF RowsStay, View
    <3> QED BY <2>3, <3>2, <3>3
  <2>5. ASSUME Sure, nTransacCount'[c] > 0 PROVE wrote'[c] = work'[c]
    <3>1. CASE BeginTransaction(c) /\ nTransacCount[c] = 0
      <4>1. Commit(c) /\ SetCount(c, nTransacCount[c] + 1)
        BY <3>1 DEF BeginTransaction
      <4>2. wrote'[c] = NoWork
        BY <1>0, <3>1, <4>1 DEF SetCount, TxType
      <4> QED BY <1>0, <4>1, <4>2, CommitFacts
    <3>2. CASE ~(BeginTransaction(c) /\ nTransacCount[c] = 0)
      <4>1. PICK n \in Nat : SetCount(c, n) /\ nTransacCount'[c] = n
        BY <1>0, <1>1, <1>2 DEF BeginTransaction, CommitTransaction, EndTransaction, SetCount, TxType
      <4>2. nTransacCount[c] > 0
        BY <1>1, <1>2, <3>2 DEF CommitTransaction, EndTransaction, BeginTransaction
      <4>3. wrote' = wrote
        BY <1>1, <2>5, <4>1, <4>2 DEF SetCount
      <4>4. UNCHANGED db
        <5>1. CASE BeginTransaction(c)
          BY <3>2, <5>1 DEF BeginTransaction
        <5>2. CASE CommitTransaction(c)
          <6>1. nTransacCount[c] # 1
            BY <1>0, <2>5, <5>2 DEF CommitTransaction, SetCount, TxType
          <6> QED BY <5>2, <6>1 DEF CommitTransaction
        <5>3. CASE EndTransaction(c)
          BY <1>0, <2>5, <5>3 DEF EndTransaction, SetCount, TxType
        <5> QED BY <1>2, <5>1, <5>2, <5>3
      <4> QED BY <1>0, <2>5, <4>2, <4>3, <4>4 DEF TxOk, db
    <3> QED BY <3>1, <3>2
  <2>6. TxOk(c)'
    BY <2>4, <2>5 DEF TxOk
  <2> QED BY <1>0, <2>1, <2>2, <2>4, <2>6, XSame DEF Single
<1>3. CASE RollBackTransaction(c)
  <2>1. /\ nTransacCount[c] > 0 /\ SetCount(c, 0) /\ RollBack(c)
        /\ wa' = [wa EXCEPT ![c] = [w \in Areas |-> CleanUp(wa[c][w])]]
    BY <1>3, Zenon DEF RollBackTransaction
  <2>2. TxOk(c)'
    BY <1>0, <1>z, <2>1, RollBackFacts
  <2>3. /\ \A w \in Areas : wa'[c][w] = CleanUp(wa[c][w])
        /\ \A d \in Clients \ {c} : wa'[d] = wa[d]
    BY <2>1 DEF Inv, TypeOK
  <2>4. ASSUME NEW w \in Areas PROVE AreaOk(c, wa[c][w])'
    <3>1. AreaOk(c, wa[c][w]) /\ wa[c][w] \in Area
      BY DEF XInv, Inv, TypeOK
    <3>2. ~NoNest /\ ~Single
      BY <1>1, <2>1 DEF NoNest, Single
    <3>3. CASE wa[c][w].open
      <4>1. /\ wa'[c][w].rec = Phantom /\ ~wa'[c][w].hot /\ wa'[c][w].shared = wa[c][w].shared
            /\ \A r \in Recs : wa'[c][w].lines[r] = Absent
        BY <2>3, <3>1, <3>3, AreaOps DEF NoLines
      <4> QED BY <3>1, <3>2, <4>1 DEF AreaOk, RecOk
    <3>4. CASE ~wa[c][w].open
      <4>1. wa'[c][w] = wa[c][w]
        BY <2>3, <3>1, <3>4, AreaOps
      <4>2. Sure => RecOk(c, wa[c][w])'
        BY <3>1, <3>4, <4>1 DEF AreaOk, RecOk
      <4> QED BY <3>1, <3>2, <4>1, <4>2 DEF AreaOk
    <3> QED BY <3>3, <3>4
  <2> QED BY <1>0, <2>2, <2>3, <2>4, XFrame
<1>4. CASE EndConnection(c) \/ Crash(c)
  <2>1. /\ SetCount(c, 0) /\ (Commit(c) \/ RollBack(c))
        /\ wa' = [wa EXCEPT ![c] = [w \in Areas |-> Closed]]
    BY <1>4, Zenon DEF EndConnection, Crash
  <2>2. TxOk(c)'
    BY <1>0, <1>z, <2>1, RollBackFacts, CommitFacts
  <2> QED BY <1>0, <2>1, <2>2, XClosed
<1> QED BY <1>2, <1>3, <1>4

(* CheckCache: the other areas of the connection get new values only.      *)
LEMMA XSync ==
  ASSUME Inv, XInv, NEW c \in Clients, NEW w \in Areas, NEW r, NEW v \in Vals, NEW z,
         Step(c), Sync(c, w, r, v, z), TxOk(c)', AreaOk(c, z)', Sure => RowsStay(c)
  PROVE  XInv'
<1>1. /\ \A d \in Clients \ {c} : wa'[d] = wa[d]
      /\ \A x \in Areas : wa'[c][x] =
            IF x = w THEN z
            ELSE IF wa[c][x].open THEN Synced(wa[c][x], r, v)
            ELSE wa[c][x]
  BY DEF Sync, Inv, TypeOK
<1>2. AreaOk(c, wa[c][w])'
  BY <1>1 DEF AreaOk, InsOk, RecOk, LockOk
<1>3. ASSUME NEW x \in Areas \ {w} PROVE AreaOk(c, wa[c][x])'
  <2>1. wa[c][x] \in Area
    BY DEF Inv, TypeOK
  <2>2. wa'[c][x] = wa[c][x] \/ wa'[c][x] = Synced(wa[c][x], r, v)
    BY <1>1
  <2>3. /\ wa'[c][x].rec = wa[c][x].rec /\ wa'[c][x].hot = wa[c][x].hot
        /\ wa'[c][x].ins = wa[c][x].ins /\ wa'[c][x].open = wa[c][x].open
        /\ wa'[c][x].shared = wa[c][x].shared
        /\ wa'[c][x].lines = wa[c][x].lines \/ \A s \in Recs : wa'[c][x].lines[s] = Absent
    BY <2>1, <2>2, AreaOps DEF NoLines
  <2> QED BY <2>3, AreasKept DEF Single
<1> QED BY <1>1, <1>2, <1>3, XFrame

(* WriteBuffer, followed by nothing or by an append                        *)
LEMMA WriteKeeps ==
  ASSUME Inv, XInv, NEW c \in Clients, NEW w \in Areas, NEW append \in BOOLEAN,
         WriteBuffer(c, w, append)
  PROVE  XInv'
<1> USE TxAssumption
<1> DEFINE b == wa[c][w]
           a == IF append THEN [b EXCEPT !.aLocked = {}] ELSE b
           after(x) == IF append THEN Appending(x) ELSE x
<1>0. Step(c) /\ DbType /\ TxType /\ TxOk(c) /\ UNCHANGED nTransacCount
  BY WriteStep, Parts, Zenon DEF Inv, XInv, WriteBuffer
<1>1. /\ AreaOk(c, b) /\ b \in Area /\ b.buf \in Vals /\ b.rec \in Recs \cup {Phantom}
      /\ b.aLocked \subseteq Recs
  BY DEF XInv, Inv, TypeOK, Area
<1>2. /\ a \in Area /\ a.rec = b.rec /\ a.open = b.open /\ a.shared = b.shared
      /\ a.buf = b.buf /\ a.aLocked = IF append THEN {} ELSE b.aLocked
      /\ a.lines = b.lines
  BY <1>1 DEF Area
<1>3. ASSUME NEW x \in Area
      PROVE  /\ after(x).open = x.open /\ after(x).shared = x.shared
             /\ after(x).aLocked = x.aLocked /\ after(x).lines = x.lines
             /\ append => after(x).rec = Phantom /\ after(x).hot /\ after(x).ins
             /\ ~append => after(x) = x
  BY AreaOps
<1>4. /\ b.hot
      /\ \/ /\ ~b.ins /\ b.buf = b.old
            /\ Sync(c, w, b.rec, b.buf, after(Updated(a))) /\ UNCHANGED << db, wrote >>
         \/ /\ ~b.ins
            /\ \/ Modify(c, {b.rec}, b.buf)
               \/ Rdbms = "POSTGR" /\ Modify(c, {}, b.buf)
            /\ Sync(c, w, b.rec, b.buf, after(Updated(a)))
         \/ /\ b.ins
            /\ \E n \in Recs : Modify(c, {n}, b.buf) /\ Sync(c, w, n, b.buf, after(Inserted(a, n)))
  BY Zenon DEF WriteBuffer
<1>5. PICK bb \in Vals : bb = b.buf
  BY <1>1
<1>6. Sure => b.open /\ (b.ins \/ b.rec \in Recs)
  BY <1>1, <1>4 DEF AreaOk, RecOk
<1>m. ASSUME NEW S \in SUBSET Recs, Modify(c, S, bb)
      PROVE  /\ TxOk(c)' /\ RowsStay(c)
             /\ \A r \in Recs : View(c, r)' = IF r \in S THEN bb ELSE View(c, r)
             /\ nAutoCommit = 0 => \A r \in Recs : (r \in S \/ owner[r] = c) => owner'[r] = c
  <2>1. /\ failed'[c] = FALSE
        /\ \A r \in Recs : View(c, r)' = IF r \in S THEN bb ELSE View(c, r)
        /\ nAutoCommit = 0 => \A r \in Recs : (r \in S \/ owner[r] = c) => owner'[r] = c
        /\ (nTransacCount[c] > 0 /\ wrote[c] = work[c]) => wrote'[c] = work'[c]
    BY <1>0, <1>m, ModifyFacts
  <2>2. TxOk(c)'
    BY <1>0, <2>1 DEF TxOk
  <2>3. RowsStay(c)
    BY <1>1, <1>5, <2>1 DEF RowsStay
  <2> QED BY <2>1, <2>2, <2>3
<1>7. CASE /\ ~b.ins /\ Sync(c, w, b.rec, b.buf, after(Updated(a)))
           /\ \/ b.buf = b.old /\ UNCHANGED << db, wrote >>
              \/ Modify(c, {b.rec}, b.buf)
              \/ Rdbms = "POSTGR" /\ Modify(c, {}, b.buf)
  <2>1. PICK z : z = after(Updated(a))
    OBVIOUS
  <2>2. PICK r : r = b.rec
    OBVIOUS
  <2>3. Updated(a) \in Area
    BY <1>2, AreaTypes
  <2>4. /\ z.open = b.open /\ z.shared = b.shared
        /\ z.aLocked = IF append THEN {} ELSE b.aLocked
        /\ append => z.rec = Phantom /\ z.hot /\ z.ins
        /\ ~append => ~z.hot /\ ~z.ins /\ z.rec = r /\ z.old = bb
        /\ \A s \in Recs : z.lines[s] # Absent => b.lines[s] # Absent \/ s = r
    <3> HIDE DEF a, b, after
    <3>1. LET u == Updated(a)
          IN  /\ ~u.hot /\ ~u.ins /\ u.old = bb /\ u.rec = r
              /\ u.open = b.open /\ u.shared = b.shared
              /\ u.aLocked = IF append THEN {} ELSE b.aLocked
              /\ \A s \in Recs : u.lines[s] # Absent => b.lines[s] # Absent \/ s = r
      BY <1>2, <1>5, <2>2, UpdatedOps
    <3> QED BY <1>3, <2>1, <2>3, <3>1
  <2>5. ASSUME Sure
        PROVE  /\ TxOk(c)' /\ RowsStay(c) /\ r \in Recs
               /\ Single => /\ \A s \in Recs : owner[s] = c => owner'[s] = c
                            /\ (~Returns /\ r \in b.aLocked) => View(c, r)' = bb
    <3>1. r \in Recs /\ Rdbms # "POSTGR"
      BY <1>6, <1>7, <2>2, <2>5 DEF Sure
    <3>2. CASE b.buf = b.old /\ UNCHANGED << db, wrote >>
      <4>1. UNCHANGED << db, tx >>
        BY <1>0, <3>2 DEF tx
      <4>2. /\ TxOk(c)' /\ RowsStay(c) /\ UNCHANGED owner
            /\ \A s \in Recs : View(c, s)' = View(c, s)
        BY <4>1, QuietFacts
      <4>3. Single => ((~Returns /\ r \in b.aLocked) => View(c, r) = bb)
        BY <1>1, <1>5, <2>2, <3>2 DEF AreaOk, LockOk
      <4> QED BY <3>1, <4>2, <4>3
    <3>3. CASE Modify(c, {b.rec}, b.buf)
      <4>1. {r} \in SUBSET Recs /\ Modify(c, {r}, bb)
        BY <1>5, <2>2, <3>1, <3>3
      <4>2. /\ TxOk(c)' /\ RowsStay(c) /\ View(c, r)' = bb
            /\ nAutoCommit = 0 => \A s \in Recs : owner[s] = c => owner'[s] = c
        BY <1>m, <3>1, <4>1
      <4> QED BY <3>1, <4>2 DEF Single
    <3> QED BY <1>7, <3>1, <3>2, <3>3
  <2>6. TxOk(c)'
    BY <2>5 DEF TxOk
  <2>7. Sure => RecOk(c, z)'
    <3>1. Sure => /\ r # Phantom => View(c, r)' # Absent
                  /\ \A s \in Recs : b.lines[s] # Absent => View(c, s)' # Absent
                  /\ r \in Recs /\ r # Phantom
      BY <1>1, <2>2, <2>5 DEF AreaOk, RecOk, RowsStay
    <3> QED BY <1>6, <2>4, <3>1 DEF RecOk
  <2>8. Single => LockOk(c, z)'
    <3>1. Single => Sure /\ \A s \in b.aLocked : owner[s] = c
      BY <1>1 DEF Single, AreaOk, LockOk
    <3>2. Single => \A s \in b.aLocked : owner'[s] = c
      BY <1>1, <2>5, <3>1
    <3> QED BY <2>4, <2>5, <3>1, <3>2 DEF LockOk
  <2>9. AreaOk(c, z)'
    BY <1>1, <2>4, <2>7, <2>8 DEF AreaOk, InsOk
  <2>10. Sync(c, w, r, bb, z) /\ bb \in Vals
    BY <1>1, <1>5, <1>7, <2>1, <2>2
  <2> HIDE DEF a, b, after
  <2> QED BY <1>0, <2>5, <2>6, <2>9, <2>10, XSync
<1>8. CASE /\ b.ins
           /\ \E n \in Recs : Modify(c, {n}, b.buf) /\ Sync(c, w, n, b.buf, after(Inserted(a, n)))
  <2>1. PICK n \in Recs : Modify(c, {n}, b.buf) /\ Sync(c, w, n, b.buf, after(Inserted(a, n)))
    BY <1>8
  <2>2. PICK z : z = after(Inserted(a, n))
    OBVIOUS
  <2>3. Inserted(a, n) \in Area
    BY <1>2, AreaTypes
  <2>4. /\ z.open = b.open /\ z.shared = b.shared
        /\ \A s \in z.aLocked : s = n \/ s \in a.aLocked
        /\ \A s \in Recs : z.lines[s] # Absent => s = n
        /\ append => z.rec = Phantom /\ z.hot /\ z.ins
        /\ ~append => ~z.hot /\ ~z.ins /\ z.rec = n /\ z.old = bb
    <3> HIDE DEF a, b, after
    <3>1. LET i == Inserted(a, n)
          IN  /\ ~i.hot /\ ~i.ins /\ i.old = bb /\ i.rec = n /\ i.open = b.open
              /\ i.shared = b.shared /\ \A s \in i.aLocked : s = n \/ s \in a.aLocked
              /\ \A s \in Recs : i.lines[s] # Absent => s = n
      BY <1>2, <1>5, InsertedOps
    <3> QED BY <1>3, <2>2, <2>3, <3>1
  <2>5. /\ TxOk(c)' /\ RowsStay(c) /\ View(c, n)' = bb
        /\ nAutoCommit = 0 => \A s \in Recs : (s = n \/ owner[s] = c) => owner'[s] = c
    BY <1>5, <1>m, <2>1
  <2>6. Sure => RecOk(c, z)'
    BY <1>1, <1>5, <1>6, <2>4, <2>5 DEF RecOk
  <2>7. ASSUME Single PROVE LockOk(c, z)'
    <3>1. \A s \in b.aLocked : owner[s] = c
      BY <1>1, <2>7 DEF AreaOk, LockOk
    <3>2. \A s \in a.aLocked : owner[s] = c /\ s \in Recs
      BY <1>1, <1>2, <3>1
    <3>3. \A s \in z.aLocked : owner'[s] = c
      BY <2>4, <2>5, <2>7, <3>2 DEF Single
    <3>4. Phantom \notin z.aLocked
      BY <2>4, <3>2
    <3> QED BY <2>4, <2>5, <3>3, <3>4 DEF LockOk
  <2>8. AreaOk(c, z)'
    BY <1>1, <2>4, <2>6, <2>7 DEF AreaOk, InsOk
  <2>9. Sync(c, w, n, bb, z)
    BY <1>5, <2>1, <2>2
  <2> QED BY <1>0, <2>5, <2>8, <2>9, XSync
<1> QED BY <1>4, <1>7, <1>8

(* APPEND BLANK                                                            *)
LEMMA AppendKeeps ==
  ASSUME Inv, XInv, NEW c \in Clients, NEW w \in Areas, Append(c, w)
  PROVE  XInv'
<1>1. CASE WriteBuffer(c, w, TRUE)
  BY <1>1, WriteKeeps
<1>2. CASE /\ SetArea(c, w, Appending([wa[c][w] EXCEPT !.aLocked = {}]))
           /\ UNCHANGED << db, used, tx >> /\ wa[c][w].open
  <2>0. Step(c) /\ AreaOk(c, wa[c][w]) /\ wa[c][w] \in Area
    BY AreaStep DEF XInv, Inv, TypeOK
  <2>1. PICK b : b = [wa[c][w] EXCEPT !.aLocked = {}]
    OBVIOUS
  <2>2. PICK a : a = Appending(b)
    OBVIOUS
  <2>3. /\ b \in Area /\ b.aLocked = {} /\ b.open /\ b.shared = wa[c][w].shared
        /\ b.lines = wa[c][w].lines
    BY <1>2, <2>0, <2>1 DEF Area
  <2>4. /\ a.rec = Phantom /\ a.hot /\ a.ins /\ a.open /\ a.aLocked = {}
        /\ a.shared = wa[c][w].shared /\ a.lines = wa[c][w].lines
    BY <2>2, <2>3, AreaOps
  <2>5. /\ TxOk(c)' /\ RowsStay(c) /\ SetArea(c, w, a)
        /\ \A r \in Recs : View(c, r)' = View(c, r)
    BY <1>2, <2>1, <2>2, QuietFacts
  <2>6. AreaOk(c, a)'
    BY <2>0, <2>4, <2>5 DEF AreaOk, InsOk, RecOk, LockOk
  <2> QED BY <2>0, <2>5, <2>6, XSet
<1> QED BY <1>1, <1>2, Zenon DEF Append

(* Every step preserves the invariant.                                     *)
LEMMA XInvStep == ASSUME Inv, XInv, [Next]_vars PROVE XInv'
<1>1. CASE Next
  <2>1. PICK c \in Clients :
          \/ BeginTransaction(c) \/ CommitTransaction(c) \/ EndTransaction(c)
          \/ RollBackTransaction(c) \/ EndConnection(c) \/ Crash(c)
          \/ \E w \in Areas :
               \/ GoCold(c, w) \/ WriteFails(c, w) \/ GoToFails(c, w) \/ Append(c, w)
               \/ GoPhantom(c, w) \/ GoTop(c, w) \/ Skip(c, w)
               \/ UnLock(c, w) \/ Flush(c, w) \/ Close(c, w)
               \/ \E s \in OpenModes : Open(c, w, s)
               \/ \E v \in Vals : PutValue(c, w, v)
               \/ \E r \in Recs : GoTo(c, w, r) \/ \E m \in BOOLEAN : Lock(c, w, r, m)
    BY <1>1, Zenon DEF Next
  <2>2. ASSUME NEW w \in Areas, GoCold(c, w) PROVE XInv'
    BY <2>2, WriteKeeps DEF GoCold
  <2> QED BY <2>1, <2>2, ConnectionKeeps, FailKeeps, AppendKeeps, CommitKeeps, EditKeeps, LockKeeps
<1>2. CASE UNCHANGED vars
  <2> SUFFICES ASSUME NEW c \in Clients PROVE TxOk(c)' /\ \A w \in Areas : AreaOk(c, wa[c][w])'
    BY DEF XInv
  <2>1. UNCHANGED << db, tx, wa, owner >> /\ TxOk(c) /\ \A w \in Areas : AreaOk(c, wa[c][w])
    BY <1>2 DEF vars, db, tx, XInv
  <2>2. TxOk(c)' /\ \A r : View(c, r)' = View(c, r)
    BY <2>1 DEF TxOk, View, db, tx
  <2> QED BY <2>1, <2>2 DEF AreaOk, InsOk, RecOk, LockOk
<1> QED BY <1>1, <1>2

(* Initially all areas are closed and nothing is written.                  *)
LEMMA InitXInv == Init => XInv
<1> SUFFICES ASSUME Init, NEW c \in Clients
             PROVE  TxOk(c) /\ \A w \in Areas : AreaOk(c, wa[c][w])
  BY DEF XInv
<1>1. TxOk(c)
  BY DEF Init, TxOk
<1>2. ASSUME NEW w \in Areas
      PROVE  LET a == wa[c][w]
             IN  /\ ~a.hot /\ ~a.ins /\ a.rec = Phantom /\ a.aLocked = {} /\ a.shared
                 /\ \A r \in Recs : a.lines[r] = Absent
  BY DEF Init, Closed, NoLines
<1> QED BY <1>1, <1>2 DEF AreaOk, InsOk, RecOk, LockOk

(* Both invariants always hold.                                            *)
LEMMA XInvAlways == Spec => [](Inv /\ XInv)
<1>1. Init => Inv /\ XInv
  BY InvInit, InitXInv
<1>2. (Inv /\ XInv) /\ [Next]_vars => (Inv /\ XInv)'
  BY InvStep, XInvStep
<1> QED BY <1>1, <1>2, PTL DEF Spec

-----------------------------------------------------------------------------
(* The theorems                                                            *)

(* Without SR_BeginTransaction an area in insert mode is on the phantom    *)
(* record, with any areas, automatic commits and failing statements.       *)
THEOREM InsertsAtPhantom == ASSUME NoNest PROVE Spec => []InsertAtPhantom
<1>1. Inv /\ XInv => InsertAtPhantom
  BY DEF XInv, AreaOk, InsOk, InsertAtPhantom
<1> QED BY <1>1, XInvAlways, PTL

(* "Record should remain Locked": what aLocked lists is locked in the      *)
(* database, for a connection used as Single says.                         *)
THEOREM LockedRecords == ASSUME Single PROVE Spec => []RecordRemainsLocked
<1>1. Inv /\ XInv => RecordRemainsLocked
  BY DEF XInv, AreaOk, LockOk, RecordRemainsLocked
<1> QED BY <1>1, XInvAlways, PTL

(* No lost update, with any number of applications that open the table     *)
(* SHARED, lock before they change, and do not let the cache take them to  *)
(* a record they have locked already: what a buffer was changed from is    *)
(* what the row still is.  The last condition is met by an application     *)
(* that moves with dbGoTo only, which has no line to be answered from, and *)
(* by one that unlocks before it moves; without it TLC finds the lost      *)
(* update, since a lock refreshes the buffers but no line of the cache.    *)
THEOREM NoLostUpdate ==
  ASSUME Single, OpenModes \subseteq {TRUE}, ~Returns PROVE Spec => []UpToDate
<1>1. Inv /\ XInv => UpToDate
  BY DEF XInv, AreaOk, LockOk, UpToDate
<1> QED BY <1>1, XInvAlways, PTL

(* The outermost SR_CommitTransaction makes all that was written since     *)
(* SR_BeginTransaction durable, at any depth and with any areas, when a    *)
(* refused lock does not doom the transaction.                             *)
THEOREM DurableTransaction == ASSUME Sure PROVE Spec => WholeTransaction
<1> DEFINE Whole == \A c \in Clients : (CommitTransaction(c) /\ nTransacCount[c] = 1)
          => \A r \in Recs : wrote[c][r] # NoChange => committed'[r] = wrote[c][r]
<1>1. ASSUME Inv, XInv PROVE Whole
  <2> SUFFICES ASSUME NEW c \in Clients, CommitTransaction(c), nTransacCount[c] = 1,
                      NEW r \in Recs, wrote[c][r] # NoChange
               PROVE  committed'[r] = wrote[c][r]
    OBVIOUS
  <2>1. ~failed[c] /\ wrote[c] = work[c]
    BY <1>1 DEF XInv, TxOk
  <2>2. committed' = Merge(work[c])
    BY <2>1 DEF CommitTransaction, Commit
  <2> QED BY <2>1, <2>2 DEF Merge
<1>2. Inv /\ XInv => [Whole]_vars
  BY <1>1
<1> HIDE DEF Whole
<1>3. Spec => [][Whole]_vars
  BY <1>2, XInvAlways, PTL
<1> QED BY <1>3 DEF WholeTransaction, Whole
=============================================================================
