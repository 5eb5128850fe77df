--------------------------- MODULE MCAutomationRunner ---------------------------
(* Two steps; the second may jump back to the first, and the first to an   *)
(* id that does not exist.                                                 *)
EXTENDS AutomationRunner

MCTargets == [s \in Steps |-> IF s = 0 THEN {N} ELSE {0}]
=============================================================================
