------------------------------ MODULE MCAiScope ------------------------------
(* A small instance of AiScope.                                            *)
EXTENDS AiScope

CONSTANTS e1, e2, m1, d1, d2

(* Steps that find, act and read; waits and downloads; aiscope steps.      *)
Interact(cands, ref) == [kind |-> "interact", cands |-> cands, ref |-> ref]
Scope(agent, check, forbids) ==
  [kind |-> "aiscope", agent |-> agent, check |-> check, fact |-> m1, forbids |-> forbids]

Cond(fact)  == [kind |-> "condition", fact |-> fact, out |-> "result"]
Tool(name)  == [kind |-> "tool", tool |-> name, out |-> "result"]
Items       == [kind |-> "items", pattern |-> e1]
Attribute   == [kind |-> "extract", target |-> "attribute", out |-> "result"]
Single1     == [kind |-> "single"]
Idle        == [kind |-> "idle"]
Click       == [kind |-> "download", cands |-> <<e1>>, trigger |-> "click"]
Unnamed     == [Click EXCEPT !.cands = <<>>]
Navigation  == [kind |-> "download", cands |-> <<>>, trigger |-> "navigation"]

MCScripts ==
  { <<Interact(<<e1, e2>>, None), Attribute, Interact(<<>>, "result")>>,
    <<Tool("wait"), Tool("vault"), Interact(<<e2>>, "result")>>,
    <<Cond(m1), Cond(None), Items, Single1>>,
    <<Idle, Idle>>, <<Click, Click>>, <<Unnamed, Navigation, Click, Idle>>,
    <<Scope(FALSE, "page", {})>>, <<Scope(TRUE, "none", {"done"})>>, <<Scope(FALSE, "none", {"tool_call"})>>,
    <<Scope(TRUE, "model", {})>> }

MCSteps == UNION {{r[n] : n \in DOMAIN r} : r \in MCScripts}
=============================================================================
