---------------------------- MODULE MCStepExecutor ----------------------------
(* An automation with a step of every kind: a condition that jumps and one *)
(* that calls, a goto, a call and a loop; the function's body ends with a  *)
(* condition that may jump, which a block forbids, or with a call of the   *)
(* function itself.                                                        *)
EXTENDS StepExecutor

MCSteps == {"jump", "ask", "goto", "call", "loop", "read", "bad", "again"}
MCTop   == {"jump", "ask", "goto", "call", "loop"}
MCKind  == [s \in MCSteps |->
  CASE s \in {"jump", "ask", "bad"} -> "condition"
    [] s = "goto" -> "goto"
    [] s = "loop" -> "loop"
    [] s \in {"call", "again"} -> "call"
    [] OTHER -> "leaf"]
MCBlock == [s \in MCSteps |->
  CASE s \in {"call", "again"} -> <<"read", "again">>
    [] s = "ask" -> <<"read", "bad">>
    [] s = "loop" -> <<"bad">>
    [] OTHER -> <<>>]
MCOnFailure == [s \in MCSteps |->
  CASE s \in {"jump", "loop", "read"} -> "retry"
    [] s \in {"ask", "again"} -> "skip"
    [] OTHER -> "abort"]
MCValidated == {"goto", "jump"}
MCTimeable  == {"jump", "ask", "goto", "read", "bad"}
===============================================================================
