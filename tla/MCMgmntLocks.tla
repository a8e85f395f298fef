---------------------------- MODULE MCMgmntLocks ----------------------------
(* Instances of MgmntLocks for TLC.                                        *)
EXTENDS MgmntLocks, TLC

CONSTANTS a, b

(* Two lists in opposite order, and one lock alone: the second lock of a   *)
(* list can be denied after the first, and undo loops meet.                *)
MCLockLists == { << a, b >>, << b, a >>, << b >> }

Symmetry == Permutations(Instances) \cup Permutations(Pids)

=============================================================================
