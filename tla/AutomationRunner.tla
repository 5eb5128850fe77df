--------------------------- MODULE AutomationRunner ---------------------------
(***************************************************************************)
(* The top-level run of an automation: AutomationRunner.executeRun, its    *)
(* instruction pointer over the steps, the checkpoint it records after     *)
(* each, and the handlers it attaches to the host's events                 *)
(* (tools/cli/src/runner/automation-runner.ts and checkpoint.ts).  The     *)
(* host is HostLink: a step of the link and the runner's handler of the    *)
(* event it emits are one step.  A step body is any number of commands and *)
(* writes to the context, which go on when a timeout has given it up;      *)
(* StepExecutor has its detail.                                            *)
(***************************************************************************)
EXTENDS Integers, FiniteSets

CONSTANTS
  N,              \* the automation has steps 0 .. N-1
  Cmds,           \* commandIds in flight at once
  Policies,       \* the failure policies a step may have
  Targets,        \* Targets[s]: where step s may jump, N standing for an unknown id
  MaxRetries,     \* step.maxRetries
  MaxExecutions,  \* MAX_STEP_EXECUTIONS
  MaxCmds,        \* commands of one step body: a bound
  NoCheckpoint

Steps == 0 .. N - 1

ASSUME RunnerAssumption ==
  /\ N \in Nat \ {0} /\ MaxRetries \in Nat /\ MaxExecutions \in Nat /\ MaxCmds \in Nat
  /\ Policies \subseteq {"retry", "skip", "abort"}
  /\ Targets \in [Steps -> SUBSET (0 .. N)]

VARIABLES
  link, inflight,        \* the host, see HostLink
  hostClosed,            \* close() was called on it
  owned,                 \* the runner started the host itself
  policy,                \* step.onFailure
  pc,                    \* where executeRun is
  i, remaining,          \* the instruction pointer, executionsRemaining
  attempts, sent,        \* of the step in execution: failed attempts, commands sent
  awaited,               \* the commands its body awaits
  strays,                \* steps a body of which was given up on and may go on
  ctx,                   \* what the context holds: writes and errors of steps
  cp,                    \* the checkpoint of this run
  resumePoint,           \* host.markResumePoint
  windowClosed, abort, reconnectPending,
  result

linkVars  == <<link, inflight>>
constVars == <<owned, policy>>
stepVars  == <<attempts, sent, awaited, strays>>
flags     == <<windowClosed, abort, reconnectPending>>
saved     == <<cp, resumePoint>>
vars == <<linkVars, hostClosed, constVars, pc, i, remaining, stepVars, ctx, saved, flags, result>>

Link == INSTANCE HostLink

Fact == Steps \X {"write", "error"}

TypeOK ==
  /\ Link!LinkTypeOK
  /\ hostClosed \in BOOLEAN /\ owned \in BOOLEAN
  /\ policy \in [Steps -> Policies]
  /\ pc \in {"connect", "clear", "open", "opening", "loop", "step", "backoff",
             "closeWindow", "closingWindow", "close", "done"}
  /\ i \in 0 .. N
  /\ remaining \in 0 .. MaxExecutions
  /\ attempts \in 0 .. MaxRetries /\ sent \in 0 .. MaxCmds
  /\ awaited \subseteq Cmds /\ strays \subseteq Steps
  /\ ctx \subseteq Fact
  /\ cp \in {NoCheckpoint} \cup [last : Steps, ctx : SUBSET Fact]
  /\ resumePoint \in 0 .. N
  /\ windowClosed \in BOOLEAN /\ abort \in BOOLEAN /\ reconnectPending \in BOOLEAN
  /\ result \in {"none", "threw", "success", "errors"}

(* A host the caller supplied is connected already.                        *)
Init ==
  /\ owned \in BOOLEAN
  /\ policy \in [Steps -> Policies]
  /\ link = IF owned THEN "idle" ELSE "connected"
  /\ inflight = {} /\ hostClosed = FALSE
  /\ pc = IF owned THEN "connect" ELSE "loop"
  /\ i = 0 /\ remaining = MaxExecutions
  /\ attempts = 0 /\ sent = 0 /\ awaited = {} /\ strays = {}
  /\ ctx = {} /\ cp = NoCheckpoint /\ resumePoint = 0
  /\ windowClosed = FALSE /\ abort = FALSE /\ reconnectPending = FALSE
  /\ result = "none"

-----------------------------------------------------------------------------
(* The host's events, and the handlers the run has on them from the first  *)
(* step to the teardown.                                                   *)

Listening == pc \in {"loop", "step", "backoff"}

LinkOnly == UNCHANGED <<constVars, pc, i, remaining, stepVars, saved, result>>

OnDisconnected ==
  IF link' = "reconnect_pending"
    THEN reconnectPending' = TRUE /\ UNCHANGED abort
    ELSE abort' = TRUE /\ UNCHANGED reconnectPending

(* 'disconnected' with reason 'replaced', when there was a connection.     *)
Attached ==
  /\ ~hostClosed /\ Link!Attach
  /\ IF Listening /\ link = "connected" THEN OnDisconnected ELSE UNCHANGED <<abort, reconnectPending>>
  /\ UNCHANGED <<windowClosed, ctx, hostClosed>> /\ LinkOnly

Detached ==
  /\ Link!Detach
  /\ IF Listening THEN OnDisconnected ELSE UNCHANGED <<abort, reconnectPending>>
  /\ UNCHANGED <<windowClosed, ctx, hostClosed>> /\ LinkOnly

(* restoreRunContext: variables, outputs and errors go back to the         *)
(* checkpoint, if there is one.                                            *)
OnResumed ==
  /\ reconnectPending' = FALSE
  /\ ctx' = IF cp # NoCheckpoint THEN cp.ctx ELSE ctx

Resumed ==
  /\ Link!Resume
  /\ IF Listening THEN OnResumed ELSE UNCHANGED <<reconnectPending, ctx>>
  /\ UNCHANGED <<windowClosed, abort, hostClosed>> /\ LinkOnly

(* Mutation: the run goes on, without its extension.                       *)
OnReconnectTimeout_on ==
  /\ reconnectPending' = FALSE
  /\ UNCHANGED abort

OnReconnectTimeout ==
  /\ reconnectPending' = FALSE
  /\ abort' = TRUE

Expired ==
  /\ Link!Expire
  /\ IF Listening THEN OnReconnectTimeout ELSE UNCHANGED <<reconnectPending, abort>>
  /\ UNCHANGED <<windowClosed, ctx, hostClosed>> /\ LinkOnly

(* windowClosed or tabClosed; only a run that opened its window listens.   *)
WindowClosed ==
  /\ link = "connected" /\ owned /\ Listening /\ ~windowClosed
  /\ windowClosed' = TRUE
  /\ UNCHANGED <<linkVars, hostClosed, ctx, abort, reconnectPending>> /\ LinkOnly

(* A response, or the timer of the command.                                *)
Settled(m) ==
  /\ Link!Settle(m)
  /\ UNCHANGED <<hostClosed, flags, ctx>> /\ LinkOnly

LinkStep == Attached \/ Detached \/ Resumed \/ Expired \/ \E m \in Cmds : Settled(m)

-----------------------------------------------------------------------------
(* Setup of a host of one's own: wait for the extension, clear history,    *)
(* open the run window.                                                    *)

NoAnswer   == awaited \cap inflight # {}
Ask(m)     == Link!Send(m) /\ awaited' = {m}
Unanswered == UNCHANGED <<linkVars, awaited>>

StepUnchanged == UNCHANGED <<constVars, i, remaining, attempts, sent, strays, ctx, saved, flags>>

Connected ==
  /\ pc = "connect" /\ link = "connected"
  /\ pc' = "clear"
  /\ StepUnchanged /\ Unanswered /\ UNCHANGED <<hostClosed, result>>

CloseHost == Link!Shutdown /\ hostClosed' = TRUE

Failed == pc' = "done" /\ result' = "threw" /\ UNCHANGED awaited /\ StepUnchanged

(* The launched Chrome's extension does not connect in time.               *)
LaunchTimeout ==
  /\ pc = "connect" /\ link # "connected"
  /\ CloseHost /\ Failed

(* profileMode 'unset': nobody catches the timeout of the manual wait.     *)
ManualTimeout ==
  /\ pc = "connect" /\ link # "connected"
  /\ Failed /\ UNCHANGED <<linkVars, hostClosed>>

(* clearHistory is optional, and its failure is not fatal.                 *)
ClearHistory ==
  /\ pc = "clear"
  /\ pc' = "open"
  /\ Unanswered \/ \E m \in Cmds : Ask(m)
  /\ StepUnchanged /\ UNCHANGED <<hostClosed, result>>

OpenWindow ==
  /\ pc = "open" /\ ~NoAnswer
  /\ pc' = "opening"
  /\ \E m \in Cmds : Ask(m)
  /\ StepUnchanged /\ UNCHANGED <<hostClosed, result>>

(* The continuation of the await runs before any other event.              *)
WindowOpened ==
  /\ pc = "opening"
  /\ \E m \in awaited : Link!Settle(m)
  /\ pc' = "loop"
  /\ StepUnchanged /\ UNCHANGED <<hostClosed, awaited, result>>

OpenFailed ==
  /\ ~NoAnswer
  /\ pc = "opening" \/ (pc = "open" /\ link # "connected")
  /\ CloseHost /\ Failed

Setup == Connected \/ LaunchTimeout \/ ManualTimeout \/ ClearHistory \/ OpenWindow
         \/ WindowOpened \/ OpenFailed

-----------------------------------------------------------------------------
(* The loop over the steps.                                                *)

(* The finally block: the listeners go; the window of an owned host is     *)
(* closed if so configured, then the host.                                 *)
Teardown(r) ==
  /\ result' = r
  /\ pc' \in IF owned THEN {"closeWindow", "close"} ELSE {"done"}

Outcome(facts) == IF \E s \in Steps : <<s, "error">> \in facts THEN "errors" ELSE "success"

MayStart == ~windowClosed /\ ~abort /\ ~reconnectPending

AbortRun ==
  /\ pc = "loop" /\ i < N
  /\ \/ windowClosed \/ abort
     \/ ~reconnectPending /\ remaining = 0
  /\ Teardown("threw")
  /\ UNCHANGED <<linkVars, hostClosed, constVars, i, remaining, stepVars, ctx, saved, flags>>

(* Mutation: the cap is compared and never counted down.                   *)
Count_not == remaining' = remaining

Count == remaining' = remaining - 1

StartStep ==
  /\ pc = "loop" /\ i < N /\ MayStart /\ remaining > 0
  /\ Count
  /\ pc' = "step"
  /\ attempts' = 0 /\ sent' = 0 /\ awaited' = {}
  /\ UNCHANGED <<linkVars, hostClosed, constVars, i, strays, ctx, saved, flags, result>>

FinishRun ==
  /\ pc = "loop" /\ i = N
  /\ cp' = NoCheckpoint
  /\ Teardown(Outcome(ctx))
  /\ UNCHANGED <<linkVars, hostClosed, constVars, i, remaining, stepVars, ctx, resumePoint, flags>>

BodySends ==
  /\ pc = "step" /\ ~NoAnswer /\ sent < MaxCmds
  /\ \E m \in Cmds : Ask(m)
  /\ sent' = sent + 1
  /\ UNCHANGED <<hostClosed, constVars, pc, i, remaining, attempts, strays, ctx, saved, flags,
                 result>>

BodyWrites ==
  /\ pc = "step" /\ ~NoAnswer
  /\ ctx' = ctx \cup {<<i, "write">>}
  /\ UNCHANGED <<linkVars, hostClosed, constVars, pc, i, remaining, stepVars, saved, flags, result>>

(* Mutation: the snapshot misses what the step did.                        *)
Checkpoint_early(next) ==
  /\ cp' = [last |-> i, ctx |-> ctx]
  /\ resumePoint' = next

Checkpoint(next) ==
  /\ cp' = [last |-> i, ctx |-> ctx']
  /\ resumePoint' = next

(* The step's timeout cannot cancel the body it gives up on.  The body goes *)
(* on beside the run: it sets variables and outputs and sends commands at   *)
(* any later time, or comes to its end unheard.                             *)
StrayWrites ==
  /\ pc # "done"
  /\ \E s \in strays : ctx' = ctx \cup {<<s, "write">>}
  /\ UNCHANGED <<linkVars, hostClosed, constVars, pc, i, remaining, stepVars, saved, flags, result>>

(* Ids are new and never short in the program: a stray takes none that the  *)
(* run awaits, and leaves it one.                                           *)
StraySends ==
  /\ pc # "done" /\ strays # {} /\ Cardinality(Cmds \ inflight) > 1
  /\ \E m \in Cmds \ awaited : Link!Send(m)
  /\ UNCHANGED <<hostClosed, constVars, pc, i, remaining, stepVars, ctx, saved, flags, result>>

Stray == StrayWrites \/ StraySends

(* A failure of the step leaves its body behind or not.                     *)
MayStray == strays' \in {strays, strays \cup {i}}

(* The step is over with 'continue' or a jump: its error goes into the      *)
(* context, then the checkpoint is taken.                                   *)
EndStep(facts) ==
  /\ ctx' = ctx \cup facts
  /\ \/ /\ i' \in {i + 1} \cup (Targets[i] \ {N})
        /\ Checkpoint(i')
        /\ pc' = "loop" /\ UNCHANGED result
     \/ /\ N \in Targets[i]
        /\ Teardown("threw") /\ UNCHANGED <<i, saved>>
  /\ UNCHANGED <<linkVars, hostClosed, constVars, remaining, attempts, sent, awaited, flags>>

BodySucceeds ==
  /\ pc = "step" /\ ~NoAnswer
  /\ EndStep({}) /\ UNCHANGED strays

(* A failure: of a command, of the validation, or the step's timeout while *)
(* the body still awaits a command.                                        *)
Retry ==
  /\ pc = "step" /\ policy[i] = "retry" /\ attempts < MaxRetries
  /\ attempts' = attempts + 1
  /\ pc' = "backoff" /\ MayStray
  /\ UNCHANGED <<linkVars, hostClosed, constVars, i, remaining, sent, awaited, ctx, saved, flags, result>>

BackoffOver ==
  /\ pc = "backoff"
  /\ pc' = "step" /\ sent' = 0 /\ awaited' = {}
  /\ UNCHANGED <<linkVars, hostClosed, constVars, i, remaining, attempts, strays, ctx, saved, flags,
                 result>>

SkipStep ==
  /\ pc = "step" /\ policy[i] = "skip"
  /\ EndStep({<<i, "error">>}) /\ MayStray

(* 'abort' breaks out of the loop; the checkpoint is cleared all the same. *)
AbortStep ==
  /\ pc = "step"
  /\ policy[i] = "abort" \/ (policy[i] = "retry" /\ attempts = MaxRetries)
  /\ ctx' = ctx \cup {<<i, "error">>}
  /\ cp' = NoCheckpoint
  /\ Teardown("errors") /\ MayStray
  /\ UNCHANGED <<linkVars, hostClosed, constVars, i, remaining, attempts, sent, awaited, resumePoint,
                 flags>>

BodyEnds == BodySucceeds \/ Retry \/ SkipStep \/ AbortStep

Loop == AbortRun \/ StartStep \/ FinishRun \/ BodySends \/ BodyWrites \/ BodyEnds \/ BackoffOver
        \/ Stray

-----------------------------------------------------------------------------
(* closeRunWindow swallows every error.                                    *)
CloseWindow ==
  /\ pc = "closeWindow"
  /\ \/ pc' = "closingWindow" /\ \E m \in Cmds : Ask(m)
     \/ pc' = "close" /\ link # "connected" /\ Unanswered
  /\ StepUnchanged /\ UNCHANGED <<hostClosed, result>>

WindowClosing ==
  /\ pc = "closingWindow" /\ ~NoAnswer
  /\ pc' = "close"
  /\ StepUnchanged /\ Unanswered /\ UNCHANGED <<hostClosed, result>>

CloseOwnHost ==
  /\ pc = "close"
  /\ CloseHost
  /\ pc' = "done"
  /\ StepUnchanged /\ UNCHANGED <<awaited, result>>

Finally == CloseWindow \/ WindowClosing \/ CloseOwnHost

Next == LinkStep \/ WindowClosed \/ Setup \/ Loop \/ Finally

(* The runner's own code runs, bodies end (each has a step timeout or a    *)
(* budget of its own), and the host's timers fire.  The loop that polls    *)
(* reconnectPending every 50 ms needs strong fairness: a connection may    *)
(* not drop and resume for ever between each two of its looks.             *)
Fairness ==
  /\ WF_vars(Expired) /\ \A m \in Cmds : WF_vars(Settled(m))
  /\ WF_vars(Setup) /\ WF_vars(Finally) /\ WF_vars(BackoffOver)
  /\ SF_vars(AbortRun \/ StartStep \/ FinishRun)
  /\ WF_vars(BodyEnds)

Spec == Init /\ [][Next]_vars /\ Fairness

-----------------------------------------------------------------------------
(* Properties.                                                             *)

(* While the run listens, its flags say what the link is: it waits exactly *)
(* while the reconnect window is open, and has been told of an aborted     *)
(* link.                                                                   *)
FlagsAgree ==
  Listening => /\ reconnectPending <=> link = "reconnect_pending"
               /\ link = "aborted" => abort

(* At a step boundary the context is the checkpoint and what bodies that a *)
(* timeout gave up on have written since: a reconnect that happens there   *)
(* takes out that, and nothing of a step that came to its end.             *)
BoundaryKeepsEnded ==
  pc = "loop" /\ cp # NoCheckpoint =>
    cp.ctx \subseteq ctx /\ ctx \ cp.ctx \subseteq strays \X {"write"}

(* The inductive invariant of the proofs: before the first step nothing    *)
(* is flagged and nothing saved, a step in execution exists, and only a    *)
(* connected host has commands in flight.                                  *)
SetupInv ==
  pc \in {"connect", "clear", "open", "opening"} =>
    ~abort /\ ~reconnectPending /\ cp = NoCheckpoint

IInv ==
  /\ TypeOK /\ FlagsAgree /\ BoundaryKeepsEnded /\ SetupInv
  /\ pc \in {"step", "backoff"} => i < N
  /\ inflight # {} => link = "connected"
  /\ Listening => link # "idle"

(* A step is started only while the extension is connected and has been    *)
(* since the first one, but for reconnects within the window: neither in   *)
(* the window nor after it, nor on a link that was aborted and attached    *)
(* anew.                                                                   *)
StepsStartConnected == [][pc = "loop" /\ pc' = "step" => link = "connected" /\ ~abort]_vars

(* Every run comes to its end, goto loops, lost extensions and a window    *)
(* that never answers included.                                            *)
RunEnds == <>(pc = "done")

=============================================================================
