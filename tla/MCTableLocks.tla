---------------------------- MODULE MCTableLocks ----------------------------
(* Instances of TableLocks for TLC.                                        *)
EXTENDS TableLocks, TLC

MCLocks == {"FLOCK", "EXC", "SHARED"} \X Tables

MCLockLists ==
    UNION {{ << FLOCK(t), EXC(t), SHARED(t) >>, << EXC(t) >>, << FLOCK(t) >>,
             << SHARED(t) >>, << EXC(t), FLOCK(t) >> } : t \in Tables}

Symmetry == Permutations(Instances) \cup Permutations(Pids) \cup Permutations(Areas)
=============================================================================
