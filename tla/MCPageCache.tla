---------------------------- MODULE MCPageCache -----------------------------
EXTENDS PageCache

MCKey == [r \in Records |-> <<(r * 3) % 4, r>>]
MCSteps == {-1, 1, 2}
=============================================================================
