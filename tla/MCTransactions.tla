--------------------------- MODULE MCTransactions ---------------------------
(* Instances of Transactions for TLC.                                      *)
EXTENDS Transactions, TLC

Symmetry == Permutations(Clients) \cup Permutations(Areas) \cup Permutations(OldRecs)
              \cup Permutations(Recs \ OldRecs)
=============================================================================
