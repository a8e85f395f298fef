------------------------------ MODULE MCSqlEx -------------------------------
(* A small table for the checks of SqlEx. *)
EXTENDS SqlEx

MCKeys == <<3, 1, 1>>
MCSteps == {-1, 1}
=============================================================================
