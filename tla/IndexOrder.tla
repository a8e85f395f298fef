----------------------------- MODULE IndexOrder -----------------------------
(***************************************************************************)
(* The WHERE clauses with which SQLRDD asks a database for the records at   *)
(* or after (WhereMajor), at or before (WhereMinor) the current one in the  *)
(* order of an index (source/sqlrdd2.prg).  An index key is the tuple of    *)
(* the values of the index columns; the last column is the record number,   *)
(* which makes keys unique.  A clause is a disjunction of comparisons       *)
(* column by column; AtOrAfter is the order it stands for, the one of       *)
(* ORDER BY col1, col2, ..., recno.  Values are integers: what a NULL       *)
(* column does to a comparison (ParseIndexColInfo) is left out.             *)
(***************************************************************************)
EXTENDS Integers

(***************************************************************************)
(* The comparisons of one OR part: the loop over i := 1 TO j.  Column j is  *)
(* compared strictly, the one before it for equality and the ones before    *)
(* that with >= (or <=), as in "A.c1 >= v1 AND A.c2 = v2 AND A.c3 > v3".    *)
(***************************************************************************)
MajorPart(v, x, j) ==
  /\ x[j] > v[j]
  /\ j > 1 => x[j - 1] = v[j - 1]
  /\ \A i \in 1 .. (j - 2) : x[i] >= v[i]

MinorPart(v, x, j) ==
  /\ x[j] < v[j]
  /\ j > 1 => x[j - 1] = v[j - 1]
  /\ \A i \in 1 .. (j - 2) : x[i] <= v[i]

(* Mutant: the loop over the parts starts one column late. *)
WhereMajorShort(n, v, x) ==
  \/ \A i \in 1 .. n : x[i] >= v[i]
  \/ \E j \in 2 .. (n - 1) : MajorPart(v, x, j)

(***************************************************************************)
(* The clause for a key of n columns: all columns >=, or one of the parts   *)
(* for the columns 1 .. n - 1.  v is the key in the buffer, x a row's key.  *)
(***************************************************************************)
WhereMajor(n, v, x) ==
  \/ \A i \in 1 .. n : x[i] >= v[i]
  \/ \E j \in 1 .. (n - 1) : MajorPart(v, x, j)

WhereMinor(n, v, x) ==
  \/ \A i \in 1 .. n : x[i] <= v[i]
  \/ \E j \in 1 .. (n - 1) : MinorPart(v, x, j)

-----------------------------------------------------------------------------
(* The order meant: lexicographic.                                          *)
LexLess(n, v, x) ==
  \E j \in 1 .. n : v[j] < x[j] /\ \A i \in 1 .. (j - 1) : x[i] = v[i]

AtOrAfter(n, v, x) ==
  LexLess(n, v, x) \/ \A i \in 1 .. n : x[i] = v[i]

AtOrBefore(n, v, x) ==
  LexLess(n, x, v) \/ \A i \in 1 .. n : x[i] = v[i]
=============================================================================
