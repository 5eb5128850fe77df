------------------------------- MODULE AiScope -------------------------------
(***************************************************************************)
(* The aiscope step (executeAiScope of tools/cli/src/runner/               *)
(* step-executor.ts): the model looks at the page and picks an action,     *)
(* iteration after iteration, until the goal is reached or a budget is     *)
(* spent.  In agent mode it follows a plan of milestones, which it may     *)
(* replace.  With a success check the check decides; without one the       *)
(* model's "done" does.                                                    *)
(*                                                                         *)
(* The other steps of the run (PageSteps) come before and after, on the    *)
(* same page and with the same variables.                                  *)
(***************************************************************************)
EXTENDS PageSteps

CONSTANTS
  MaxIterations, MaxReplans,   \* of an aiscope step
  MaxMilestones,               \* of a plan: a bound
  ToolResult                   \* the variable the result of a tool is kept in

(* An aiscope step: agent or fast; check ("none", "page" with its fact, or *)
(* "model"); the actions it forbids.                                       *)
ASSUME ScopeAssumption ==
  /\ MaxIterations \in Nat \ {0} /\ MaxReplans \in Nat /\ MaxMilestones \in Nat \ {0}
  /\ ToolResult \in Names
  /\ \A s \in Steps : s.kind = "aiscope" =>
       /\ s.agent \in BOOLEAN /\ s.check \in {"none", "page", "model"}
       /\ s.check = "page" => s.fact \in Facts
       /\ s.forbids \subseteq {"done", "act", "type", "tool_call"}

Told == "[inputRef]"   \* what the history says of a value that was referred to

(* An answer of the model that matters: the action with what it lacks or   *)
(* has, and the flags of agent mode.  A replan sets the action aside.      *)
Choice ==
  [action : {"done", "unknown", "tool_call"}, sel : {None}, ref : {None}]
  \cup [action : {"act"}, sel : Elements \cup {None}, ref : {None}]
  \cup [action : {"type"}, sel : Elements, ref : Names]

Decision ==
  [choice : Choice, replan : {FALSE}, complete : BOOLEAN]
  \cup [choice : {c \in Choice : c.action = "act" /\ c.sel = None}, replan : {TRUE}, complete : {FALSE}]

Entry == [action : {"done", "act", "unknown", "type", "tool_call", "replan"},
          ok : BOOLEAN, value : Values \cup {None, Told}]

VARIABLES
  scope,    \* the loop of the aiscope step in execution, or NoScope
  late      \* its wall-clock budget is spent

scopeVars == <<scope, late>>
allVars   == <<cmdVars, stepVars, scopeVars>>

NoScope == [at |-> "none"]

ScopeTypeOK ==
  /\ late \in BOOLEAN
  /\ scope = NoScope \/ scope \in
       [at : {"plan", "head", "observe", "decide", "check", "both", "replan", "dispatch"},
        iteration : 0 .. MaxIterations, history : Seq(Entry), plan : 0 .. MaxMilestones,
        index : Nat, replans : 0 .. MaxReplans,
        attempted : SUBSET (1 .. MaxMilestones), choice : Choice \cup {None}]

TypeOK == CommandsTypeOK /\ StepsTypeOK /\ ScopeTypeOK

Init ==
  /\ CommandsInit /\ StepsInit
  /\ scope = NoScope /\ late = FALSE

-----------------------------------------------------------------------------
InScope(at) == scope.at = at
Step     == body.step
SelfTerminating == Step.check = "none"

ScopeEnds(ok) ==
  /\ scope' = NoScope /\ late' = FALSE
  /\ Ended(ok)

Stays == UNCHANGED <<body, last, todo, late>>

Outside == UNCHANGED <<artifacts, cmdVars>>

BeginScope ==
  /\ Take
  /\ LET s == todo[1] IN
       /\ s.kind = "aiscope"
       /\ body' = NewBody(s, "scope")
       /\ scope' = [at |-> IF s.agent THEN "plan" ELSE "head", iteration |-> 0, history |-> <<>>,
                    plan |-> 0, index |-> 0, replans |-> 0, attempted |-> {}, choice |-> None]
  /\ UNCHANGED <<late, last, vars, tool>> /\ Outside

(* The wall clock runs on.                                                 *)
BudgetSpent ==
  /\ scope # NoScope /\ ~late
  /\ late' = TRUE
  /\ UNCHANGED <<scope, stepVars, cmdVars>>

(* rebuildPlan, at the start: the page is captured and the planner asked;  *)
(* an empty plan fails the step.                                           *)
Plan ==
  /\ InScope("plan")
  /\ \/ /\ \E n \in 1 .. MaxMilestones : scope' = [scope EXCEPT !.at = "head", !.plan = n]
        /\ Stays
     \/ ScopeEnds(FALSE)
  /\ UNCHANGED <<vars, tool>> /\ Outside

(* The loop's head, where the budgets are looked at.                       *)
LoopHead ==
  /\ InScope("head")
  /\ IF late \/ scope.iteration = MaxIterations
       THEN ScopeEnds(FALSE)
       ELSE /\ scope' = [scope EXCEPT !.at = "observe", !.iteration = @ + 1]
            /\ Stays
  /\ UNCHANGED <<vars, tool>> /\ Outside

Observe ==
  /\ InScope("observe")
  /\ \E ok \in Served :
       IF ok THEN /\ scope' = [scope EXCEPT !.at = CASE Step.check = "none"  -> "decide"
                                                     [] Step.check = "page"  -> "check"
                                                     [] Step.check = "model" -> "both"]
                  /\ Stays
             ELSE ScopeEnds(FALSE)
  /\ UNCHANGED <<vars, tool>> /\ Outside

(* The check of the page first; the model is asked only if it says no.     *)
CheckFirst ==
  /\ InScope("check")
  /\ \/ \E b \in Checks(Step.fact) :
          IF b THEN ScopeEnds(TRUE) ELSE scope' = [scope EXCEPT !.at = "decide"] /\ Stays
     \/ CheckThrows(Step.fact) /\ ScopeEnds(FALSE)
  /\ UNCHANGED <<vars, tool>> /\ Outside

-----------------------------------------------------------------------------
(* The decision of an iteration, in the order the code takes it.           *)

(* Mutation: what failed is not told.                                      *)
Noted_success(s, entry) ==
  [s EXCEPT !.at = "head", !.history = IF entry.ok THEN Append(@, entry) ELSE @, !.choice = None]

(* The iteration is over with one entry in the history.                    *)
Noted(s, entry) == [s EXCEPT !.at = "head", !.history = Append(@, entry), !.choice = None]

Note(action, ok) == [action |-> action, ok |-> ok, value |-> None]

(* Mutation: a replan the cap forbids does not use up its iteration.       *)
IgnoreReplan_free ==
  /\ scope' = [scope EXCEPT !.at = "head", !.iteration = @ - 1]
  /\ Stays

IgnoreReplan ==
  /\ scope' = Noted(scope, Note("act", FALSE))
  /\ Stays

Replan ==
  IF scope.replans >= MaxReplans THEN IgnoreReplan
  ELSE /\ scope' = [scope EXCEPT !.at = "replan", !.replans = @ + 1]
       /\ Stays

NewPlan(s, n) == [s EXCEPT !.plan = n, !.index = 0, !.attempted = {}]

Replanned ==
  /\ InScope("replan")
  /\ \/ /\ \E n \in 1 .. MaxMilestones :
             scope' = Noted(NewPlan(scope, n), Note("replan", TRUE))
        /\ Stays
     \/ ScopeEnds(FALSE)
  /\ UNCHANGED <<vars, tool>> /\ Outside

(* advanceMilestone.                                                       *)
Advanced(s) ==
  [s EXCEPT !.index = @ + 1,
            !.attempted = IF s.index < s.plan THEN @ \cup {s.index + 1} ELSE @]

(* A plan that is through turns whatever action comes with it into done.   *)
PlanIsThrough(s, advances) == advances /\ s.index >= s.plan

Allowed(action) == action # "unknown" /\ action \notin Step.forbids

(* Mutation: done ends the step whatever its check says.                   *)
TakeDone_trusts(s) == ScopeEnds(TRUE)

TakeDone(s) ==
  IF SelfTerminating THEN ScopeEnds(TRUE)
  ELSE scope' = Noted(s, Note("done", TRUE)) /\ Stays

Dispatch(s, c) ==
  /\ scope' = [s EXCEPT !.at = "dispatch", !.choice = c]
  /\ Stays
  /\ IF c.action = "tool_call" THEN \E cmd \in Tools : tool' = [cmd |-> cmd, ok |-> FALSE]
                               ELSE UNCHANGED tool

Follow(d) ==
  IF Step.agent /\ d.replan THEN Replan /\ UNCHANGED tool
  ELSE LET advances == Step.agent /\ d.complete
           s      == IF advances THEN Advanced(scope) ELSE scope
           action == IF PlanIsThrough(s, advances) THEN "done" ELSE d.choice.action
       IN \/ /\ ~Allowed(action)
             /\ scope' = Noted(s, Note(action, FALSE)) /\ Stays /\ UNCHANGED tool
          \/ /\ Allowed(action) /\ action = "done"
             /\ TakeDone(s) /\ UNCHANGED tool
          \/ /\ Allowed(action) /\ action # "done"
             /\ Dispatch(s, d.choice)

Decide ==
  /\ InScope("decide")
  /\ \/ \E d \in Decision : Follow(d)
     \/ ScopeEnds(FALSE) /\ UNCHANGED tool
  /\ UNCHANGED <<vars, artifacts, cmdVars>>

(* A check by the model is asked along with the decision; both are         *)
(* awaited, and the check's answer or failure comes first.                 *)
DecideAndCheck ==
  /\ InScope("both")
  /\ \/ \E ok \in BOOLEAN : ScopeEnds(ok) /\ UNCHANGED tool
     \/ \E d \in Decision : Follow(d)
  /\ UNCHANGED <<vars, artifacts, cmdVars>>

-----------------------------------------------------------------------------

(* What the history tells of the value of an action that succeeded.        *)
ToldValue(c) == IF c.ref # None THEN Told ELSE None

(* An action that lacks its selector, or the variable it types, fails      *)
(* before anything is sent.                                                *)
Complete(c) == c.sel # None /\ ~Unset(c.ref)

Dispatched ==
  /\ InScope("dispatch") /\ scope.choice.action # "tool_call"
  /\ LET c == scope.choice IN
       \E ok \in IF Complete(c) THEN Acted(c.sel) ELSE {FALSE} :
         scope' = Noted(scope, [action |-> c.action, ok |-> ok,
                                value |-> IF ok THEN ToldValue(c) ELSE None])
  /\ Stays /\ UNCHANGED <<vars, tool>> /\ Outside

(* The result of a tool is kept in a variable the model may refer to.      *)
ToolDispatched ==
  /\ InScope("dispatch") /\ scope.choice.action = "tool_call" /\ tool.cmd = "over"
  /\ scope' = Noted(scope, Note("tool_call", tool.ok))
  /\ vars' = IF tool.ok THEN [vars EXCEPT ![ToolResult] = "text"] ELSE vars
  /\ tool' = NoTool
  /\ Stays /\ Outside

ScopeAnswer ==
  \/ Plan \/ LoopHead \/ Observe \/ CheckFirst \/ Decide \/ DecideAndCheck
  \/ Replanned \/ Dispatched \/ ToolDispatched

Answer == (LeafAnswer /\ UNCHANGED scopeVars) \/ ScopeAnswer

Next ==
  \/ (BeginStep /\ UNCHANGED scopeVars) \/ BeginScope
  \/ Answer
  \/ BudgetSpent
  \/ (ToolStep /\ UNCHANGED scopeVars)
  \/ (BrowserStep \/ \E i \in Slots : HandlerStep(i)) /\ UNCHANGED <<stepVars, scopeVars>>

(* Every command, model call and process has a time limit of its own, so   *)
(* what a body awaits is answered in the end; the worker's timers fire.    *)
Fairness == WF_allVars(Answer) /\ WF_stepVars(ToolStep) /\ CommandsFairness

Spec == Init /\ [][Next]_allVars /\ Fairness

-----------------------------------------------------------------------------
(* A download step keeps a download only when it is complete, whatever     *)
(* else is downloaded, by late handlers or by the user, at the same time.  *)
ArtifactsComplete == \A d \in artifacts : downloads[d] = "complete"

(* Every iteration leaves exactly one entry in the history, whichever of   *)
(* its eight ways it takes: the model is never told less than happened.    *)
HistoryTold == InScope("head") => Len(scope.history) = scope.iteration

(* What the planner hears of as attempted are the milestones before the    *)
(* pointer, of the plan in force.                                          *)
AttemptedArePassed ==
  scope # NoScope => scope.attempted = {m \in 1 .. scope.plan : m <= scope.index}

(* The value of a secret input reaches no entry of the history, which is   *)
(* sent to the model and logged.                                           *)
SecretsUntold ==
  scope # NoScope => \A n \in DOMAIN scope.history : scope.history[n].value # "secret"

(* The model cannot talk its way out of an aiscope step: with a check on   *)
(* the page the step succeeds only while the page bears the goal out, and  *)
(* without a check only if it may say "done".                              *)
EndsAsAsked ==
  [][(scope # NoScope /\ body' = NoBody /\ last') =>
       CASE Step.check = "page"  -> Step.fact \in page
         [] Step.check = "none"  -> "done" \notin Step.forbids
         [] Step.check = "model" -> InScope("both")]_allVars

(* Every step ends, however the page, the model, the tools and the         *)
(* browser behave.                                                         *)
StepsEnd == body # NoBody ~> body = NoBody

(* What these rest on.  While an iteration is under way its entry is due,  *)
(* a plan starts at its first milestone, and what is dispatched was        *)
(* chosen.                                                                 *)
ScopeInv ==
  scope # NoScope =>
    /\ Len(scope.history) = IF scope.at \in {"plan", "head"} THEN scope.iteration
                                                           ELSE scope.iteration - 1
    /\ scope.at = "plan" => scope.index = 0
    /\ scope.at = "dispatch" => scope.choice \in Choice

(* The loop runs within its step, and asks for what the step's check says. *)
LoopInv ==
  /\ scope # NoScope <=> In("scope")
  /\ scope # NoScope =>
       /\ Step.kind = "aiscope"
       /\ scope.at = "check" => Step.check = "page"
       /\ scope.at = "both"  => Step.check = "model"
       /\ scope.at = "decide" => Step.check # "model"

(* A body that looks for an element has a selector to try; one that waits  *)
(* for a handler has one.                                                  *)
BodyInv ==
  /\ In("probe") => body.step.cands \in Seq(Elements) /\ body.k \in 1 .. Len(body.step.cands)
  /\ In("slot")  => body.k \in Slots

IInv ==
  /\ TypeOK /\ HandlersTrue /\ ArtifactsComplete
  /\ ScopeInv /\ LoopInv /\ BodyInv /\ AttemptedArePassed /\ SecretsUntold
=============================================================================
