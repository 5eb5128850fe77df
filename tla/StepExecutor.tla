----------------------------- MODULE StepExecutor -----------------------------
(***************************************************************************)
(* StepExecutor (tools/cli/src/runner/step-executor.ts): a step under its  *)
(* failure policy and its timeout, the blocks a step may run (the body of  *)
(* a function, the substeps of a loop), jumps, and the parameters and the  *)
(* call depth a function keeps in the shared context.                      *)
(*                                                                         *)
(* A step timeout cannot cancel the body it gives up on: the body runs on  *)
(* as a thread of its own, beside the run.  Thread 0 is the run.  Code     *)
(* runs to its next await without interruption: job is what the running    *)
(* thread does next, and the events that end an await wait for job to be   *)
(* Idle.                                                                   *)
(***************************************************************************)
EXTENDS Integers, Sequences, FiniteSets

CONSTANTS
  Steps, Top,     \* the steps of the automation, and its top-level ones
  Kind,           \* Kind[s]: "leaf", "goto", "condition", "call" or "loop"
  Block,          \* Block[s]: the steps of the function called, or the substeps
  OnFailure,      \* OnFailure[s]: "retry", "skip" or "abort"
  Validated,      \* steps with a validation
  Timeable,       \* steps that are not exempt from a timeout
  MaxRetries, MaxIterations, MaxCallDepth,
  MaxRuns,        \* top-level steps executed: a bound
  MaxStale,       \* timed-out bodies that run on: a bound
  None

ASSUME ExecutorAssumption ==
  /\ Top \subseteq Steps /\ Validated \subseteq Steps
  /\ Kind \in [Steps -> {"leaf", "goto", "condition", "call", "loop"}]
  /\ \A s \in Steps : Block[s] \in Seq(Steps) /\ (Kind[s] \in {"call", "loop"} => Block[s] # <<>>)
  /\ OnFailure \in [Steps -> {"retry", "skip", "abort"}]
  /\ Timeable \subseteq {s \in Steps : Kind[s] \notin {"call", "loop"}}
  /\ MaxCallDepth \in Nat \ {0} /\ MaxRetries \in Nat /\ MaxIterations \in Nat \ {0}
  /\ MaxRuns \in Nat /\ MaxStale \in Nat

Threads == 0 .. MaxStale

Frame == [step : Steps, phase : {"before", "block", "after", "backoff", "shot"},
          k : Nat, iter : 0 .. MaxIterations, tries : 0 .. MaxRetries,
          saved : Steps \cup {None}, loose : BOOLEAN]

Idle == [do |-> "idle"]

Job == {Idle}
       \cup [do : {"begin"}, th : Threads, step : Steps]
       \cup [do : {"attempt"}, th : Threads]
       \cup [do : {"end"}, th : Threads, ok : BOOLEAN]
       \cup [do : {"outcome"}, th : Threads, step : Steps,
             val : {"continue", "abort", "jump"}, by : Steps \cup {None}]

VARIABLES
  timed,        \* the steps that have a timeout: step.timeout = 0 is none
  stack,        \* of each thread, the executeWithPolicy calls it is in, innermost last
  job,
  pendingJump,  \* None, or the step that asked for the jump
  callDepth,
  param,        \* the parameter of the functions: the step whose call set it, or None
  status,       \* <step>_status, "none" before the first outcome
  errors,       \* the steps with an entry in context.errors
  runs, over    \* top-level steps executed; the run was aborted

vars == <<timed, stack, job, pendingJump, callDepth, param, status, errors, runs, over>>

TypeOK ==
  /\ timed \subseteq Timeable
  /\ stack \in [Threads -> Seq(Frame)]
  /\ job \in Job
  /\ pendingJump \in Steps \cup {None} /\ param \in Steps \cup {None}
  /\ callDepth \in 0 .. MaxCallDepth
  /\ status \in [Steps -> {"none", "success", "skipped", "failed"}]
  /\ errors \subseteq Steps
  /\ runs \in 0 .. MaxRuns /\ over \in BOOLEAN

Init ==
  /\ timed \in {{}, Timeable}
  /\ stack = [t \in Threads |-> <<>>]
  /\ job = Idle /\ pendingJump = None /\ callDepth = 0 /\ param = None
  /\ status = [s \in Steps |-> "none"] /\ errors = {}
  /\ runs = 0 /\ over = FALSE

-----------------------------------------------------------------------------
Inner(t)    == stack[t][Len(stack[t])]
Running(t) == stack[t] # <<>>
SetTop(t, f) == stack' = [stack EXCEPT ![t][Len(stack[t])] = f]
Pop(t)     == stack' = [stack EXCEPT ![t] = SubSeq(@, 1, Len(@) - 1)]
Doing(d)   == job # Idle /\ job.do = d
EndBody(t, ok) == job' = [do |-> "end", th |-> t, ok |-> ok]

Calls(s) == Kind[s] \in {"call", "condition"}

FnUnchanged  == UNCHANGED <<callDepth, param>>
CtxUnchanged == UNCHANGED <<timed, status, errors, runs, over>>

(* The runner's loop, which goes on to whichever step is next.             *)
Start(s) ==
  /\ job = Idle /\ ~Running(0) /\ ~over /\ runs < MaxRuns /\ s \in Top
  /\ runs' = runs + 1
  /\ job' = [do |-> "begin", th |-> 0, step |-> s]
  /\ UNCHANGED <<timed, stack, pendingJump, status, errors, over>> /\ FnUnchanged

(* executeWithPolicy is entered.                                           *)
Begin ==
  /\ Doing("begin")
  /\ pendingJump' = None
  /\ stack' = [stack EXCEPT ![job.th] = Append(@,
       [step |-> job.step, phase |-> "before", k |-> 0, iter |-> 0, tries |-> 0,
        saved |-> None, loose |-> FALSE])]
  /\ job' = [do |-> "attempt", th |-> job.th]
  /\ FnUnchanged /\ CtxUnchanged

(* The step's effect is done; validateStep is next.                        *)
Validate(t, f) ==
  /\ SetTop(t, [f EXCEPT !.phase = "after"])
  /\ IF f.step \in Validated THEN job' = Idle ELSE EndBody(t, TRUE)

RunBlock(t, f) ==
  /\ SetTop(t, f)
  /\ job' = [do |-> "begin", th |-> t, step |-> Block[f.step][f.k]]

DepthExceeded == callDepth >= MaxCallDepth

InvokeFunction(t, f) ==
  IF DepthExceeded
    THEN EndBody(t, FALSE) /\ UNCHANGED stack /\ FnUnchanged
    ELSE /\ callDepth' = callDepth + 1
         /\ param' = f.step
         /\ RunBlock(t, [f EXCEPT !.phase = "block", !.k = 1, !.saved = param])

(* An attempt begins: what the step does before its first await.           *)
Attempt ==
  /\ Doing("attempt")
  /\ LET t == job.th  f == Inner(job.th)  s == f.step
     IN \/ /\ Kind[s] = "goto"
           /\ pendingJump' = s /\ FnUnchanged
           /\ Validate(t, f)
        \/ /\ Kind[s] = "call" /\ UNCHANGED pendingJump
           /\ InvokeFunction(t, f)
        \/ /\ Kind[s] \in {"leaf", "condition", "loop"}
           /\ SetTop(t, [f EXCEPT !.phase = "before", !.iter = 0]) /\ job' = Idle
           /\ UNCHANGED pendingJump /\ FnUnchanged
  /\ CtxUnchanged

(* What the body awaits has come: a command, the LLM, a tool, an exit      *)
(* check.                                                                  *)
Answered(t) ==
  /\ job = Idle /\ Running(t) /\ Inner(t).phase = "before"
  /\ LET f == Inner(t)  s == f.step
     IN \/ /\ Kind[s] = "leaf" /\ Validate(t, f)
           /\ UNCHANGED pendingJump /\ FnUnchanged
        \/ /\ Kind[s] = "condition"                      \* neither branch taken
           /\ Validate(t, f)
           /\ UNCHANGED pendingJump /\ FnUnchanged
        \/ /\ Kind[s] = "condition" /\ Block[s] = <<>>   \* thenStep
           /\ pendingJump' = s /\ FnUnchanged
           /\ Validate(t, f)
        \/ /\ Kind[s] = "condition" /\ Block[s] # <<>>   \* thenCall
           /\ InvokeFunction(t, f) /\ UNCHANGED pendingJump
        \/ /\ Kind[s] = "loop"                           \* exitWhen does not hold
           /\ RunBlock(t, [f EXCEPT !.phase = "block", !.k = 1])
           /\ UNCHANGED pendingJump /\ FnUnchanged
        \/ /\ Kind[s] = "loop"                           \* it holds
           /\ Validate(t, f)
           /\ UNCHANGED pendingJump /\ FnUnchanged
  /\ CtxUnchanged

Failed(t) ==
  /\ job = Idle /\ Running(t) /\ Inner(t).phase \in {"before", "after"}
  /\ EndBody(t, FALSE)
  /\ UNCHANGED <<stack, pendingJump>> /\ FnUnchanged /\ CtxUnchanged

Valid(t) ==
  /\ job = Idle /\ Running(t) /\ Inner(t).phase = "after"
  /\ EndBody(t, TRUE)
  /\ UNCHANGED <<stack, pendingJump>> /\ FnUnchanged /\ CtxUnchanged

(* The step timeout of frame d fires.  Its body, and all it is in, runs on *)
(* as another thread; beyond MaxStale of these, one that awaits is         *)
(* forgotten, and one in a block is given time.                            *)
StepTimeout(t, d) ==
  /\ job = Idle /\ d \in DOMAIN stack[t]
  /\ LET f == stack[t][d]
         cut == [stack EXCEPT ![t] = Append(SubSeq(@, 1, d - 1), [f EXCEPT !.phase = "after"])]
         free == {z \in Threads \ {0} : stack[z] = <<>>}
     IN /\ f.step \in timed /\ ~f.loose /\ f.phase \in {"before", "block", "after"}
        /\ \/ /\ free = {} /\ f.phase # "block"
              /\ stack' = cut
           \/ \E z \in free :
                stack' = [cut EXCEPT ![z] = <<[f EXCEPT !.loose = TRUE]>>
                                            \o SubSeq(stack[t], d + 1, Len(stack[t]))]
  /\ EndBody(t, FALSE)
  /\ UNCHANGED pendingJump /\ FnUnchanged /\ CtxUnchanged

-----------------------------------------------------------------------------
Outcome(t, s, v, by) == job' = [do |-> "outcome", th |-> t, step |-> s, val |-> v, by |-> by]

(* 'continue', or the jump that is pending.                                *)
ContinueOrJump(t, s) ==
  /\ pendingJump' = None
  /\ Outcome(t, s, IF pendingJump = None THEN "continue" ELSE "jump", pendingJump)

BodyIgnored ==
  /\ Doing("end") /\ Inner(job.th).loose
  /\ Pop(job.th) /\ job' = Idle
  /\ UNCHANGED pendingJump /\ FnUnchanged /\ CtxUnchanged

Succeeds ==
  /\ Doing("end") /\ job.ok /\ ~Inner(job.th).loose
  /\ LET s == Inner(job.th).step
     IN status' = [status EXCEPT ![s] = "success"] /\ ContinueOrJump(job.th, s)
  /\ Pop(job.th)
  /\ UNCHANGED <<timed, errors, runs, over>> /\ FnUnchanged

Fails(f) == Doing("end") /\ ~job.ok /\ f = Inner(job.th) /\ ~f.loose

(* Mutation: the attempts are not counted.                                 *)
Retry_endless(f) ==
  /\ Fails(f) /\ OnFailure[f.step] = "retry"
  /\ SetTop(job.th, [f EXCEPT !.phase = "backoff"])
  /\ job' = Idle
  /\ UNCHANGED pendingJump /\ FnUnchanged /\ CtxUnchanged

Retry(f) ==
  /\ Fails(f) /\ OnFailure[f.step] = "retry" /\ f.tries < MaxRetries
  /\ SetTop(job.th, [f EXCEPT !.tries = @ + 1, !.phase = "backoff"])
  /\ job' = Idle
  /\ UNCHANGED pendingJump /\ FnUnchanged /\ CtxUnchanged

Skip(f) ==
  /\ Fails(f) /\ OnFailure[f.step] = "skip"
  /\ errors' = errors \cup {f.step}
  /\ status' = [status EXCEPT ![f.step] = "skipped"]
  /\ ContinueOrJump(job.th, f.step) /\ Pop(job.th)
  /\ UNCHANGED <<timed, runs, over>> /\ FnUnchanged

RecordFailure(t, s) ==
  /\ status' = [status EXCEPT ![s] = "failed"]
  /\ pendingJump' = None
  /\ Outcome(t, s, "abort", None) /\ Pop(t)

(* Abort, or the retries are used up; with screenshotOnFailure a           *)
(* screenshot is awaited first.                                            *)
Abort(f) ==
  /\ Fails(f)
  /\ OnFailure[f.step] = "abort" \/ (OnFailure[f.step] = "retry" /\ f.tries = MaxRetries)
  /\ errors' = errors \cup {f.step}
  /\ \/ SetTop(job.th, [f EXCEPT !.phase = "shot"]) /\ job' = Idle /\ UNCHANGED <<pendingJump, status>>
     \/ RecordFailure(job.th, f.step)
  /\ UNCHANGED <<timed, runs, over>> /\ FnUnchanged

ShotTaken(t) ==
  /\ job = Idle /\ Running(t) /\ Inner(t).phase = "shot"
  /\ RecordFailure(t, Inner(t).step)
  /\ UNCHANGED <<timed, errors, runs, over>> /\ FnUnchanged

BackoffOver(t) ==
  /\ job = Idle /\ Running(t) /\ Inner(t).phase = "backoff"
  /\ job' = [do |-> "attempt", th |-> t]
  /\ UNCHANGED <<stack, pendingJump>> /\ FnUnchanged /\ CtxUnchanged

-----------------------------------------------------------------------------
(* The outcome of a step of a block, in the step that runs the block.      *)

Returned(f) == Doing("outcome") /\ Running(job.th) /\ f = Inner(job.th)

NextOfBlock(f) ==
  /\ Returned(f) /\ job.val = "continue" /\ f.k < Len(Block[f.step])
  /\ RunBlock(job.th, [f EXCEPT !.k = @ + 1])
  /\ UNCHANGED pendingJump /\ FnUnchanged /\ CtxUnchanged

NextIteration(f) ==
  /\ Returned(f) /\ job.val = "continue" /\ f.k = Len(Block[f.step])
  /\ Kind[f.step] = "loop" /\ f.iter + 1 < MaxIterations
  /\ SetTop(job.th, [f EXCEPT !.phase = "before", !.iter = @ + 1])
  /\ job' = Idle
  /\ UNCHANGED pendingJump /\ FnUnchanged /\ CtxUnchanged

(* Mutation: restored only when the function ends well.                    *)
Restore_onSuccess(f) ==
  IF Calls(f.step) /\ job.val = "continue"
    THEN callDepth' = callDepth - 1 /\ param' = f.saved ELSE FnUnchanged

(* Mutation: the parameter is deleted rather than restored.                *)
Restore_deletes(f) ==
  IF Calls(f.step) THEN callDepth' = callDepth - 1 /\ param' = None ELSE FnUnchanged

(* The finally block of invokeFunction.                                    *)
Restore(f) ==
  IF Calls(f.step) THEN callDepth' = callDepth - 1 /\ param' = f.saved ELSE FnUnchanged

BlockDone(f) ==
  /\ Returned(f) /\ job.val = "continue" /\ f.k = Len(Block[f.step])
  /\ ~(Kind[f.step] = "loop" /\ f.iter + 1 < MaxIterations)
  /\ Restore(f) /\ Validate(job.th, f)
  /\ UNCHANGED pendingJump /\ CtxUnchanged

(* Mutation: a jump out of a block just ends the block.                    *)
BlockFails_notJump(f) ==
  /\ Returned(f) /\ job.val \in {"abort", "jump"}
  /\ Restore(f) /\ EndBody(job.th, job.val = "jump")
  /\ SetTop(job.th, [f EXCEPT !.phase = "after"])
  /\ pendingJump' = job.by /\ CtxUnchanged

(* An aborted step, or a jump, which may not leave a block.                *)
BlockFails(f) ==
  /\ Returned(f) /\ job.val \in {"abort", "jump"}
  /\ Restore(f) /\ EndBody(job.th, FALSE)
  /\ SetTop(job.th, [f EXCEPT !.phase = "after"])
  /\ UNCHANGED pendingJump /\ CtxUnchanged

(* The outcome of a top-level step, in the runner.                         *)
StepOver ==
  /\ Doing("outcome") /\ ~Running(job.th)
  /\ over' = (job.val = "abort")
  /\ job' = Idle
  /\ UNCHANGED <<timed, stack, pendingJump, status, errors, runs>> /\ FnUnchanged

Micro ==
  \/ Begin \/ Attempt \/ BodyIgnored \/ Succeeds \/ StepOver
  \/ job # Idle /\ Running(job.th)
     /\ LET f == Inner(job.th)
        IN Retry(f) \/ Skip(f) \/ Abort(f)
           \/ NextOfBlock(f) \/ NextIteration(f) \/ BlockDone(f) \/ BlockFails(f)

Event(t) ==
  \/ Answered(t) \/ Failed(t) \/ Valid(t) \/ ShotTaken(t) \/ BackoffOver(t)
  \/ \E d \in 1 .. Len(stack[t]) : StepTimeout(t, d)

Next == Micro \/ (\E s \in Steps : Start(s)) \/ \E t \in Threads : Event(t)

(* Commands have timers of their own, so what a step without a timeout     *)
(* awaits comes or fails.  Nothing says so of a step with one (a tool, an  *)
(* LLM): there the timeout must do.                                        *)
Untimed(t) == Running(t) /\ Inner(t).step \notin timed /\ (Answered(t) \/ Failed(t) \/ Valid(t))

Fairness ==
  /\ WF_vars(Micro)
  /\ WF_vars(Untimed(0)) /\ WF_vars(ShotTaken(0)) /\ WF_vars(BackoffOver(0))
  /\ WF_vars(\E d \in 1 .. Len(stack[0]) : StepTimeout(0, d))

Spec == Init /\ [][Next]_vars /\ Fairness

-----------------------------------------------------------------------------
(* Properties.                                                             *)

FunctionsOf(s) == {d \in DOMAIN s : Calls(s[d].step) /\ s[d].phase = "block"}
FunctionFrames(t) == FunctionsOf(stack[t])

(* The call depth counts the functions in execution, whichever way others  *)
(* were left and whichever body was given up on.                           *)
Functions(st) == UNION {{t} \X FunctionsOf(st[t]) : t \in Threads}
DepthCounts == callDepth = Cardinality(Functions(stack))

(* A step that has begun comes to its outcome, whatever its tools and      *)
(* pages do: "to surface a clear error instead of letting the run hang     *)
(* forever" (runWithStepTimeout).                                          *)
Settles == Running(0) ~> ~Running(0)

(* "a single jump request never bleeds into the next step's outcome"       *)
(* (pendingJump): a step's jump is one that this step asked for, so no     *)
(* jump leaves a block either.                                             *)
JumpIsOwn == Doing("outcome") /\ job.val = "jump" => job.by = job.step

(* The parameter is the one of the innermost function of the run, and is   *)
(* gone outside of every function (invokeFunction shadows and restores).   *)
ParamScoped ==
  LET ds == FunctionFrames(0)
  IN param = IF ds = {} THEN None
             ELSE stack[0][CHOOSE d \in ds : \A e \in ds : e <= d].step

(* Both hold as long as no step has a timeout.                             *)
UntimedJumpIsOwn   == timed = {} => JumpIsOwn
UntimedParamScoped == timed = {} => ParamScoped

(* What the properties rest on.  Of a thread's frames, one is in its block *)
(* exactly while frames of the block's step are above it, or are about to  *)
(* be, or were just now (busy); what was given up on is the first frame of *)
(* a thread beside the run (stale), and is neither tried again nor shown.  *)
Placed(s, busy, stale) ==
  \A d \in DOMAIN s : /\ s[d].phase = "block" <=> d < Len(s) \/ busy
                      /\ s[d].loose <=> d = 1 /\ stale
                      /\ s[d].loose => s[d].phase \in {"before", "block", "after"}
Busy(t) == (Doing("begin") \/ Doing("outcome")) /\ job.th = t

(* The code that runs has a frame to run for; the first and the last of a  *)
(* top-level step is the runner's.                                         *)
JobFits ==
  /\ Doing("attempt") \/ Doing("end") => Running(job.th)
  /\ Doing("begin") \/ Doing("outcome") => job.th = 0 \/ Running(job.th)

(* Without timeouts there is one thread.  The jump that is pending is the  *)
(* innermost step's.                                                       *)
OwnJump ==
  pendingJump # None => Running(0) /\ pendingJump = Inner(0).step /\ ~Doing("outcome")

(* v is the step of the innermost function below depth d.                  *)
InScope(s, d, v) ==
  LET below == {e \in FunctionsOf(s) : e < d}
  IN \/ below = {} /\ v = None
     \/ \E e \in below : v = s[e].step /\ \A o \in below : o <= e

(* A parameter v is the innermost function's, and what each function       *)
(* restores when it ends is the one before it.                             *)
Shadows(s, v) ==
  /\ InScope(s, Len(s) + 1, v)
  /\ \A d \in FunctionsOf(s) : InScope(s, d, s[d].saved)

Counted == IsFiniteSet(Functions(stack)) /\ DepthCounts

IInv ==
  /\ TypeOK /\ JobFits /\ Counted
  /\ \A t \in Threads : Placed(stack[t], Busy(t), t # 0)

Alone ==
  timed = {} => /\ \A t \in Threads \ {0} : stack[t] = <<>>
                /\ OwnJump /\ JumpIsOwn /\ Shadows(stack[0], param)
=============================================================================
