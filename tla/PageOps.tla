------------------------------- MODULE PageOps -------------------------------
(***************************************************************************)
(* What content/runner-content.ts does to the element that a command       *)
(* selects.  An element is what the handlers tell apart: its kind, whether *)
(* it can be acted on, whether it is checked and whether its value is the  *)
(* command's.  Messages, codes and the selector cascade are left out.      *)
(***************************************************************************)

\* "absent": the selector finds nothing; "other select" lacks the option.
Kinds == {"absent", "plain", "editable", "text", "checkbox", "radio", "select", "other select"}

Element == [kind : Kinds, state : {"hidden", "disabled", "usable"},
            checked : BOOLEAN, set : BOOLEAN]

PageOp == {"click", "type", "select", "check", "uncheck", "hover", "focus",
           "extract", "query", "scroll"}

Boxes == {"checkbox", "radio"}

\* What a click event does by itself to a box: the browser toggles a checkbox and
\* checks a radio button, for a dispatched event as for a click of the user.
Activated(el) ==
  [el EXCEPT !.checked = IF el.kind = "checkbox" THEN ~ @ ELSE @ \/ el.kind = "radio"]

\* The element on which the operation answers ok.  (handleExtract: of an element;
\* "query" is countMatching and anyMatch, which count from zero.)
Accepts(op, el) ==
  CASE op \in {"query", "scroll"} -> TRUE
    [] op \in {"hover", "focus", "extract"} -> el.kind # "absent"
    [] op = "click"   -> el.kind # "absent" /\ el.state = "usable"
    [] op = "type"    -> el.kind \in {"editable", "text"} \cup Boxes
    [] op = "select"  -> el.kind = "select"
    [] op = "check"   -> el.kind \in Boxes
    [] op = "uncheck" -> el.kind = "checkbox"

Performed(op, el) ==
  CASE ~ Accepts(op, el)          -> el
    [] op = "click"               -> Activated(el)
    [] op \in {"type", "select"}  -> [el EXCEPT !.set = TRUE]
    [] op = "check"               -> Activated([el EXCEPT !.checked = TRUE])
    [] op = "uncheck"             -> Activated([el EXCEPT !.checked = FALSE])
    [] OTHER                      -> el

==============================================================================
