------------------------------ MODULE PageSteps ------------------------------
(***************************************************************************)
(* The bodies of the steps that run no other step (execute... of           *)
(* tools/cli/src/runner/step-executor.ts): the element a step is about is  *)
(* looked for (browser/element-resolver.ts), by the language model in the  *)
(* end (llm/), the page is acted on or read, an external tool is asked     *)
(* (tools/), and what was found is kept in the variables of the run.       *)
(* Whatever a body awaits may fail; the body then fails.  What follows, a  *)
(* validation, a retry, the next step, is in StepExecutor, as is the       *)
(* timeout of a step, whose body runs on.                                  *)
(***************************************************************************)
EXTENDS PageCommands, Sequences

CONSTANTS
  Steps,      \* the steps: see StepShape
  Scripts,    \* the sequences of steps a run may execute
  Names,      \* the variables of the run
  Secret      \* the variable that holds the value of a secret input

(* Fields by kind: cands (the primary selector and the fallbacks) of an    *)
(* interaction or a download; ref (the variable typed, or None); fact (of  *)
(* a check; None when the model is asked); target (of an extraction);      *)
(* tool; pattern (of a loop's items, or None); out (the variable written). *)
Tools == {"wait", "long wait", "vault"}

StepShape(s) ==
  /\ s.kind \in {"interact", "download", "extract", "tool", "condition", "items", "single",
                 "idle", "aiscope"}
  /\ s.kind \in {"interact", "download"} => s.cands \in Seq(Elements)
  /\ s.kind = "interact"  => s.ref \in Names \cup {None}
  /\ s.kind = "download"  => s.trigger \in {"click", "navigation"}
  /\ s.kind = "condition" => s.fact \in Facts \cup {None} /\ s.out \in Names
  /\ s.kind = "extract"   => s.target \in {"page", "text", "attribute"} /\ s.out \in Names
  /\ s.kind = "tool"      => s.tool \in Tools /\ s.out \in Names
  /\ s.kind = "items"     => s.pattern \in Elements \cup {None}

ASSUME StepsAssumption ==
  /\ \A s \in Steps : StepShape(s)
  /\ Scripts \subseteq Seq(Steps)
  /\ Secret \in Names
  /\ None \notin {"secret", "text"}

(* A variable holds the secret, or something that was read or answered.    *)
Values == {"secret", "text"}

VARIABLES
  body,       \* the step in execution and where it is, or NoBody
  vars,       \* the variables of the run
  artifacts,  \* the downloads kept as artifacts
  tool,       \* the external tool at work and its answer, or NoTool
  last,       \* whether the step that ended last succeeded
  todo        \* the steps still to be executed

stepVars == <<body, vars, artifacts, tool, last, todo>>

NoBody == [step |-> None]
NoTool == [cmd |-> "none"]

Awaits == {"refuse", "probe", "capture", "ask", "validate", "act", "slot", "extract", "tool",
           "check", "count", "filter", "single", "scope"}

StepsTypeOK ==
  /\ body = NoBody \/ body \in
       [step : Steps, at : Awaits, k : Nat, sel : Elements \cup {None},
        list : SUBSET Elements, items : SUBSET Elements]
  /\ vars \in [Names -> Values \cup {None}]
  /\ artifacts \subseteq Downloads
  /\ tool = NoTool \/ tool \in [cmd : Tools \cup {"latest", "over"}, ok : BOOLEAN]
  /\ last \in BOOLEAN /\ todo \in Seq(Steps)

StepsInit ==
  /\ body = NoBody
  /\ vars = [n \in Names |-> IF n = Secret THEN "secret" ELSE None]
  /\ artifacts = {} /\ tool = NoTool
  /\ last = TRUE /\ todo \in Scripts

-----------------------------------------------------------------------------
In(at) == body # NoBody /\ body.at = at
Goto(at) == body' = [body EXCEPT !.at = at]

KeepContext == UNCHANGED <<vars, artifacts>>

Ended(ok) ==
  /\ body' = NoBody
  /\ last' = ok
  /\ UNCHANGED todo

(* The body throws, and nothing it was to keep is kept.                    *)
Throws == Ended(FALSE) /\ KeepContext

(* The body is done and keeps its result under the step's name for it.     *)
Yields ==
  /\ Ended(TRUE)
  /\ vars' = [vars EXCEPT ![body.step.out] = "text"]
  /\ UNCHANGED artifacts

(* A click that downloads must name its element.                           *)
FirstAwait(s) ==
  CASE s.kind = "interact" -> IF s.cands = <<>> THEN "capture" ELSE "probe"
    [] s.kind = "download" -> IF s.trigger = "navigation" THEN "slot"
                              ELSE IF s.cands = <<>> THEN "refuse" ELSE "probe"
    [] s.kind = "condition" -> IF s.fact = None THEN "capture" ELSE "check"
    [] s.kind = "items" -> IF s.pattern = None THEN "capture" ELSE "count"
    [] s.kind = "idle" -> "slot"
    [] OTHER -> s.kind

NewBody(s, at) ==
  [step |-> s, at |-> at, k |-> 1, sel |-> None, list |-> {}, items |-> {}]

(* The next step is taken, whatever became of the one before.              *)
Take == body = NoBody /\ todo # <<>> /\ todo' = Tail(todo)

(* A slot is taken at once by what waits in the extension.                 *)
TakeSlot(s, i) == IF s.kind = "idle" THEN StartIdle(i) ELSE StartDownload(i, s.trigger)

BeginStep ==
  /\ Take
  /\ LET s == todo[1]  at == FirstAwait(s) IN
       /\ s.kind # "aiscope"
       /\ \/ /\ at # "slot"
             /\ body' = NewBody(s, at) /\ UNCHANGED handlers
          \/ /\ at = "slot"
             /\ \E i \in Slots : TakeSlot(s, i) /\ body' = [NewBody(s, at) EXCEPT !.k = i]
       /\ tool' = IF s.kind = "tool" THEN [cmd |-> s.tool, ok |-> FALSE] ELSE tool
  /\ KeepContext /\ UNCHANGED <<last, page, requests, downloads>>

-----------------------------------------------------------------------------
(* ElementResolver.resolve: the selectors in order, then the model.        *)

Unset(ref) == ref # None /\ vars[ref] = None

(* The element is found; a typed variable must have a value by now.        *)
Found(sel) ==
  LET s == body.step IN
    \/ /\ s.kind = "interact" /\ Unset(s.ref)
       /\ Throws /\ UNCHANGED handlers
    \/ /\ s.kind = "interact" /\ ~Unset(s.ref)
       /\ body' = [body EXCEPT !.at = "act", !.sel = sel]
       /\ KeepContext /\ UNCHANGED <<last, todo, handlers>>
    \/ /\ s.kind = "download"
       /\ \E i \in Slots :
            /\ StartDownload(i, "click")
            /\ body' = [body EXCEPT !.at = "slot", !.k = i, !.sel = sel]
       /\ KeepContext /\ UNCHANGED <<last, todo>>

Refuse ==
  /\ In("refuse")
  /\ Throws
  /\ UNCHANGED <<tool, cmdVars>>

Probe ==
  /\ In("probe")
  /\ LET cands == body.step.cands  sel == cands[body.k] IN
       \E exists \in Exists(sel) :
         \/ exists /\ Found(sel)
         \/ /\ ~exists
            /\ body' = IF body.k < Len(cands) THEN [body EXCEPT !.k = @ + 1]
                                              ELSE [body EXCEPT !.at = "capture"]
            /\ KeepContext /\ UNCHANGED <<last, todo, handlers>>
  /\ UNCHANGED <<tool, page, requests, downloads>>

(* PageContextCapture.capture: three commands at once; a screenshot may be *)
(* missing.                                                                *)
Capture ==
  /\ In("capture")
  /\ \E ok \in Served : IF ok THEN Goto("ask") /\ KeepContext /\ UNCHANGED <<last, todo>>
                              ELSE Throws
  /\ UNCHANGED <<tool, cmdVars>>

(* The model names a selector, and an answer that is no JSON fails.        *)
Suggests(sel) ==
  /\ body.step.kind \in {"interact", "download"}
  /\ body' = [body EXCEPT !.at = "validate", !.sel = sel]
  /\ KeepContext /\ UNCHANGED <<last, todo>>

Lists(found) ==
  /\ body.step.kind = "items"
  /\ body' = [body EXCEPT !.at = "filter", !.list = found]
  /\ KeepContext /\ UNCHANGED <<last, todo>>

Judges == body.step.kind = "condition" /\ Yields

Ask ==
  /\ In("ask")
  /\ \/ \E sel \in Elements : Suggests(sel)
     \/ \E found \in SUBSET Elements : Lists(found)
     \/ Judges
     \/ Throws
  /\ UNCHANGED <<tool, cmdVars>>

Validate ==
  /\ In("validate")
  /\ \E exists \in Exists(body.sel) :
       \/ exists /\ Found(body.sel)
       \/ ~exists /\ Throws /\ UNCHANGED handlers
  /\ UNCHANGED <<tool, page, requests, downloads>>

Act ==
  /\ In("act")
  /\ \E ok \in Acted(body.sel) : Ended(ok) /\ KeepContext
  /\ UNCHANGED <<tool, cmdVars>>

-----------------------------------------------------------------------------
(* The handler answers, or the step or the command gives up on it.         *)
SlotAnswered ==
  /\ In("slot") /\ handlers[body.k] # Free
  /\ LET i == body.k  h == handlers[i] IN
       \/ /\ h.at = "over"
          /\ Ended(h.ok) /\ UNCHANGED vars
          /\ artifacts' = IF h.ok /\ h.op = "download" THEN artifacts \cup {h.id} ELSE artifacts
          /\ handlers' = [handlers EXCEPT ![i] = Free]
       \/ Throws /\ Loosen(i)
  /\ UNCHANGED <<tool, page, requests, downloads>>

(* navigate, and the waits for a selector, a navigation and a delay.       *)
Single ==
  /\ In("single")
  /\ \E ok \in Served : Ended(ok) /\ KeepContext
  /\ UNCHANGED <<tool, cmdVars>>

(* An attribute that is not there is no failure: the output is null and    *)
(* the variable stays as it was.                                           *)
Extract ==
  /\ In("extract")
  /\ \/ Yields
     \/ Throws
     \/ body.step.target = "attribute" /\ Ended(TRUE) /\ KeepContext
  /\ UNCHANGED <<tool, cmdVars>>

(* A condition with a check; the result is kept, its branch is             *)
(* StepExecutor's.                                                         *)
Check ==
  /\ In("check")
  /\ Yields \/ (CheckThrows(body.step.fact) /\ Throws)
  /\ UNCHANGED <<tool, cmdVars>>

(* discoverItems: the pattern's matches, or the model's selectors that     *)
(* match something.                                                        *)
Count ==
  /\ In("count")
  /\ \E n \in CountMatching(body.step.pattern) :
       IF n \notin {None, 0} THEN Ended(TRUE) ELSE Goto("capture") /\ UNCHANGED <<last, todo>>
  /\ KeepContext /\ UNCHANGED <<tool, cmdVars>>

Filter ==
  /\ In("filter")
  /\ IF body.list = {} THEN Ended(TRUE)
     ELSE \E sel \in body.list : \E exists \in Exists(sel) :
            /\ body' = [body EXCEPT !.list = @ \ {sel},
                                    !.items = IF exists THEN @ \cup {sel} ELSE @]
            /\ UNCHANGED <<last, todo>>
  /\ KeepContext /\ UNCHANGED <<tool, cmdVars>>

-----------------------------------------------------------------------------
(* The external tools.  smscli waits for a new message and, told that none *)
(* came, asks for the latest one there is.  The executor kills a process   *)
(* that is not done within a minute, which is what a wait takes unless     *)
(* told otherwise: a long wait is killed before it can say that none came. *)
ToolOver(ok) == tool' = [cmd |-> "over", ok |-> ok]

Wait ==
  /\ tool.cmd \in {"wait", "long wait"}
  /\ \/ \E ok \in BOOLEAN : ToolOver(ok)
     \/ tool.cmd = "wait" /\ tool' = [tool EXCEPT !.cmd = "latest"]

Latest == tool.cmd = "latest" /\ \E ok \in BOOLEAN : ToolOver(ok)

Vault == tool.cmd = "vault" /\ \E ok \in BOOLEAN : ToolOver(ok)

ToolStep ==
  /\ Wait \/ Latest \/ Vault
  /\ UNCHANGED <<body, vars, artifacts, last, todo, cmdVars>>

ToolAnswered ==
  /\ In("tool") /\ tool.cmd = "over"
  /\ IF tool.ok THEN Yields ELSE Throws
  /\ tool' = NoTool
  /\ UNCHANGED cmdVars

LeafAnswer ==
  Refuse \/ Probe \/ Capture \/ Ask \/ Validate \/ Act \/ SlotAnswered \/ Single \/ Extract
    \/ Check \/ Count \/ Filter \/ ToolAnswered

=============================================================================
