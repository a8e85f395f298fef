---------------------------- MODULE LockService -----------------------------
(***************************************************************************)
(* What SR_SetLocks and SR_ReleaseLocks promise to the callers (comment    *)
(* "SetLocks function steps", sqlrdd0.prg): a list of locks is granted as  *)
(* a whole, and only when nobody else holds any of them; a holder may give *)
(* locks back; the locks of a holder that died are free again.             *)
(***************************************************************************)
CONSTANTS Instances, Locks

VARIABLE holds        \* the locks each application instance owns

Init == holds = [i \in Instances |-> {}]

Free(S) == \A j \in Instances : holds[j] \cap S = {}

Grant(i, S) == /\ Free(S)
               /\ holds' = [holds EXCEPT ![i] = @ \cup S]

Release(i, S) == holds' = [holds EXCEPT ![i] = @ \ S]

Next == \E i \in Instances : \/ \E S \in SUBSET Locks : Grant(i, S) \/ Release(i, S)
                             \/ Release(i, holds[i])

Spec == Init /\ [][Next]_holds
=============================================================================
