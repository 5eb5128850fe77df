---------------------------- MODULE Clients_proofs ----------------------------
(* What holds of the clients for every value of their constants: what a run  *)
(* of the CLI may rely on at every step boundary; what the editor of the web *)
(* application keeps of an edit and of the checks of it, and where a drag    *)
(* lands; what the requests of the web application's tabs do to the session  *)
(* and to saved documents.                                                   *)
EXTENDS AutomationRunner, Editor, WebClient,
        SequenceTheorems, WellFoundedInduction, TLAPS

-------------------------------------------------------------------------------
(* AutomationRunner: a run of the CLI, for any number of steps, policies,    *)
(* jump targets and caps.                                                    *)

LEMMA StepsIn == \A n \in 0 .. N : n < N => n \in Steps /\ n + 1 \in 0 .. N
BY RunnerAssumption DEF Steps

LEMMA EndStepInv ==
  ASSUME IInv, NEW facts \in SUBSET Fact, pc = "step", EndStep(facts), strays' \subseteq Steps
  PROVE  IInv'
<1> USE DEF IInv, TypeOK, FlagsAgree, BoundaryKeepsEnded, SetupInv, Listening,
            Link!LinkTypeOK, Link!HostState
<1>1. i \in Steps /\ i + 1 \in 0 .. N /\ Targets[i] \ {N} \subseteq 0 .. N
  BY StepsIn, RunnerAssumption DEF Steps
<1>2. UNCHANGED <<link, inflight, hostClosed, owned, policy, remaining, attempts, sent, awaited,
                  windowClosed, abort, reconnectPending>>
  BY DEF EndStep, linkVars, constVars, flags
<1>3. ctx' = ctx \cup facts /\ ctx' \subseteq Fact
  BY DEF EndStep
<1>4. CASE i' \in {i + 1} \cup (Targets[i] \ {N}) /\ Checkpoint(i') /\ pc' = "loop" /\ UNCHANGED result
  <2>1. i' \in 0 .. N /\ resumePoint' = i' /\ cp' = [last |-> i, ctx |-> ctx']
    BY <1>1, <1>4 DEF Checkpoint
  <2>2. cp' \in [last : Steps, ctx : SUBSET Fact] /\ cp'.ctx = ctx'
    BY <1>1, <1>3, <2>1
  <2> QED BY <1>2, <1>3, <1>4, <2>1, <2>2
<1>5. CASE Teardown("threw") /\ UNCHANGED <<i, saved>>
  BY <1>2, <1>3, <1>5 DEF Teardown, saved
<1> QED BY <1>4, <1>5 DEF EndStep

LEMMA Inductive == Spec => []IInv
<1> USE RunnerAssumption
    DEF TypeOK, FlagsAgree, BoundaryKeepsEnded, SetupInv, Listening,
        Link!LinkTypeOK, Link!HostState
<1>1. Init => IInv
  <2> SUFFICES ASSUME Init PROVE IInv
    OBVIOUS
  <2>1. TypeOK
    <3>1. i \in 0 .. N /\ remaining \in 0 .. MaxExecutions /\ attempts \in 0 .. MaxRetries
          /\ sent \in 0 .. MaxCmds /\ strays \subseteq Steps /\ resumePoint \in 0 .. N
      BY DEF Init
    <3>2. pc \in {"connect", "loop"} /\ link \in {"idle", "connected"}
      BY DEF Init
    <3> QED BY <3>1, <3>2 DEF Init
  <2>2. FlagsAgree /\ BoundaryKeepsEnded /\ SetupInv
    BY DEF Init
  <2>3. pc \notin {"step", "backoff"} /\ inflight = {} /\ (Listening => link # "idle")
    BY DEF Init
  <2> QED BY <2>1, <2>2, <2>3 DEF IInv
<1>2. IInv /\ [Next]_vars => IInv'
  <2> SUFFICES ASSUME IInv, [Next]_vars PROVE IInv'
    OBVIOUS
  <2> USE DEF IInv
  <2>1. CASE LinkStep
    <3> USE DEF LinkOnly, constVars, stepVars, saved, flags
    <3>1. CASE Attached
      <4>1. TypeOK'
        BY <3>1 DEF Attached, Link!Attach, OnDisconnected
      <4>2. FlagsAgree' /\ (Listening => link # "idle")' /\ (inflight # {} => link = "connected")'
        BY <3>1 DEF Attached, Link!Attach, OnDisconnected
      <4>3. (BoundaryKeepsEnded /\ SetupInv)'
        BY <3>1 DEF Attached, Link!Attach, OnDisconnected
      <4> QED BY <3>1, <4>1, <4>2, <4>3 DEF Attached
    <3>2. CASE Detached
      <4>1. TypeOK'
        BY <3>2 DEF Detached, Link!Detach, OnDisconnected
      <4>2. FlagsAgree' /\ (Listening => link # "idle")' /\ (inflight # {} => link = "connected")'
        BY <3>2 DEF Detached, Link!Detach, OnDisconnected
      <4>3. (BoundaryKeepsEnded /\ SetupInv)'
        BY <3>2 DEF Detached, Link!Detach, OnDisconnected
      <4> QED BY <3>2, <4>1, <4>2, <4>3 DEF Detached
    <3>3. CASE Resumed
      <4>1. TypeOK'
        <5>1. ctx' \subseteq Fact
          BY <3>3 DEF Resumed, OnResumed
        <5>2. reconnectPending' \in BOOLEAN
          BY <3>3 DEF Resumed, OnResumed
        <5> QED BY <3>3, <5>1, <5>2 DEF Resumed, Link!Resume
      <4>2. FlagsAgree' /\ (Listening => link # "idle")' /\ (inflight # {} => link = "connected")'
        BY <3>3 DEF Resumed, Link!Resume, OnResumed
      <4>3. (BoundaryKeepsEnded /\ SetupInv)'
        BY <3>3 DEF Resumed, Link!Resume, OnResumed
      <4> QED BY <3>3, <4>1, <4>2, <4>3 DEF Resumed
    <3>4. CASE Expired
      <4>1. TypeOK'
        BY <3>4 DEF Expired, Link!Expire, OnReconnectTimeout
      <4>2. FlagsAgree' /\ (Listening => link # "idle")' /\ (inflight # {} => link = "connected")'
        BY <3>4 DEF Expired, Link!Expire, OnReconnectTimeout
      <4>3. (BoundaryKeepsEnded /\ SetupInv)'
        BY <3>4 DEF Expired, Link!Expire, OnReconnectTimeout
      <4> QED BY <3>4, <4>1, <4>2, <4>3 DEF Expired
    <3>5. ASSUME NEW m \in Cmds, Settled(m) PROVE IInv'
      BY <3>5 DEF Settled, Link!Settle
    <3> QED BY <2>1, <3>1, <3>2, <3>3, <3>4, <3>5 DEF LinkStep
  <2>2. CASE WindowClosed
    BY <2>2 DEF WindowClosed, LinkOnly, constVars, stepVars, saved, flags, linkVars
  <2>3. CASE Setup
    <3> USE DEF StepUnchanged, Unanswered, constVars, saved, flags, linkVars
    <3>1. CASE Connected
      BY <3>1 DEF Connected
    <3>2. CASE LaunchTimeout \/ OpenFailed
      BY <3>2 DEF LaunchTimeout, OpenFailed, CloseHost, Failed, Link!Shutdown
    <3>3. CASE ManualTimeout
      BY <3>3 DEF ManualTimeout, Failed
    <3>4. CASE ClearHistory \/ OpenWindow
      BY <3>4 DEF ClearHistory, OpenWindow, Ask, Link!Send
    <3>5. CASE WindowOpened
      <4>1. link = "connected"
        BY <3>5 DEF WindowOpened, Link!Settle
      <4> QED BY <3>5, <4>1 DEF WindowOpened, Link!Settle
    <3> QED BY <2>3, <3>1, <3>2, <3>3, <3>4, <3>5 DEF Setup
  <2>4. CASE Loop
    <3> USE DEF constVars, stepVars, saved, flags, linkVars
    <3>1. CASE AbortRun
      BY <3>1 DEF AbortRun, Teardown
    <3>2. CASE StartStep
      BY <3>2 DEF StartStep, Count
    <3>3. CASE FinishRun
      BY <3>3 DEF FinishRun, Teardown, Outcome
    <3>4. CASE BodySends
      BY <3>4 DEF BodySends, Ask, Link!Send
    <3>5. CASE BodyWrites
      <4>1. <<i, "write">> \in Fact
        BY <3>5, StepsIn DEF BodyWrites, Fact
      <4> QED BY <3>5, <4>1 DEF BodyWrites
    <3>6. CASE BodySucceeds \/ SkipStep
      <4>1. {} \in SUBSET Fact /\ {<<i, "error">>} \in SUBSET Fact
        BY <3>6, StepsIn DEF BodySucceeds, SkipStep, Fact
      <4>2. strays' \subseteq Steps
        BY <3>6, StepsIn DEF BodySucceeds, SkipStep, MayStray
      <4> QED BY <3>6, <4>1, <4>2, EndStepInv DEF BodySucceeds, SkipStep
    <3>7. CASE Retry
      <4>1. strays' \subseteq Steps
        BY <3>7, StepsIn DEF Retry, MayStray
      <4> QED BY <3>7, <4>1 DEF Retry
    <3>8. CASE AbortStep
      <4>1. {<<i, "error">>} \in SUBSET Fact
        BY <3>8, StepsIn DEF AbortStep, Fact
      <4>2. strays' \subseteq Steps
        BY <3>8, StepsIn DEF AbortStep, MayStray
      <4> QED BY <3>8, <4>1, <4>2 DEF AbortStep, Teardown
    <3>9. CASE BackoffOver
      BY <3>9 DEF BackoffOver
    <3>10. CASE StrayWrites
      <4>1. PICK s \in strays : ctx' = ctx \cup {<<s, "write">>}
        BY <3>10 DEF StrayWrites
      <4>2. <<s, "write">> \in Fact /\ <<s, "write">> \in strays \X {"write"}
        BY DEF Fact
      <4>3. UNCHANGED <<link, inflight, hostClosed, owned, policy, pc, i, remaining, attempts, sent,
                        awaited, strays, cp, resumePoint, windowClosed, abort, reconnectPending,
                        result>>
        BY <3>10 DEF StrayWrites
      <4>4. TypeOK'
        BY <4>1, <4>2, <4>3
      <4>5. BoundaryKeepsEnded'
        BY <4>1, <4>2, <4>3
      <4> QED BY <4>3, <4>4, <4>5
    <3>11. CASE StraySends
      BY <3>11 DEF StraySends, Link!Send
    <3> QED BY <2>4, <3>1, <3>2, <3>3, <3>4, <3>5, <3>6, <3>7, <3>8, <3>9, <3>10, <3>11
            DEF Loop, BodyEnds, Stray
  <2>5. CASE Finally
    <3> USE DEF StepUnchanged, Unanswered, constVars, saved, flags, linkVars
    <3>1. CASE CloseWindow
      BY <3>1 DEF CloseWindow, Ask, Link!Send
    <3>2. CASE WindowClosing
      BY <3>2 DEF WindowClosing
    <3>3. CASE CloseOwnHost
      BY <3>3 DEF CloseOwnHost, CloseHost, Link!Shutdown
    <3> QED BY <2>5, <3>1, <3>2, <3>3 DEF Finally
  <2>6. CASE UNCHANGED vars
    BY <2>6 DEF vars, constVars, stepVars, saved, flags, linkVars
  <2> QED BY <2>1, <2>2, <2>3, <2>4, <2>5, <2>6 DEF Next
<1> QED BY <1>1, <1>2, PTL DEF Spec

(* The run's flags and the host's state never drift apart: the run waits     *)
(* exactly while the host's reconnect window is open.                        *)
THEOREM FlagsAlwaysAgree == Spec => []FlagsAgree
<1>1. IInv => FlagsAgree
  BY DEF IInv
<1> QED BY <1>1, Inductive, PTL

(* A reconnect at a step boundary takes out of the context only what bodies  *)
(* wrote that a timeout gave up on.                                          *)
THEOREM BoundaryKeepsWhatEnded == Spec => []BoundaryKeepsEnded
<1>1. IInv => BoundaryKeepsEnded
  BY DEF IInv
<1> QED BY <1>1, Inductive, PTL

(* No step is started in the reconnect window, nor on a link that was        *)
(* aborted, even when the extension has attached again since.                *)
THEOREM StartsConnected == Spec => StepsStartConnected
<1>1. IInv /\ [Next]_vars => [pc = "loop" /\ pc' = "step" => link = "connected" /\ ~abort]_vars
  <2> SUFFICES ASSUME IInv, Next, pc = "loop", pc' = "step"
               PROVE  link = "connected" /\ ~abort
    OBVIOUS
  <2> USE DEF linkVars, stepVars, constVars, saved, flags
  <2>1. StartStep
    BY DEF Next, LinkStep, Attached, Detached, Resumed, Expired, Settled, LinkOnly, WindowClosed,
       Setup, Connected, LaunchTimeout, ManualTimeout, ClearHistory, OpenWindow, WindowOpened,
       OpenFailed, Loop, AbortRun, FinishRun, Teardown, BodySends, BodyWrites, BodyEnds,
       BodySucceeds, Retry, SkipStep, EndStep, AbortStep, BackoffOver, Stray, StrayWrites, StraySends,
       Finally, CloseWindow, WindowClosing,
       CloseOwnHost
  <2>2. ~abort /\ ~reconnectPending
    BY <2>1 DEF StartStep, MayStart
  <2>3. link # "reconnect_pending" /\ link # "aborted" /\ link # "idle"
    BY <2>2 DEF IInv, FlagsAgree, Listening
  <2> QED BY <2>2, <2>3 DEF IInv, TypeOK, Link!LinkTypeOK, Link!HostState
<1> QED BY <1>1, Inductive, PTL DEF Spec, StepsStartConnected

-------------------------------------------------------------------------------
(* Editor: the editor of the web application, for any files, kinds and       *)
(* bounds. The types come first; then that an edit is kept until it is       *)
(* saved; last, that a drag lands where the outline says, which a least      *)
(* counterexample on the distance shows.                                     *)

(* The sequences the outline makes of a list. *)
LEMMA RemoveAtIsSeq ==
  ASSUME NEW S, NEW s \in Seq(S), NEW ix \in DOMAIN s
  PROVE  /\ RemoveAt(s, ix) \in Seq(S)
         /\ Len(RemoveAt(s, ix)) = Len(s) - 1
         /\ \A x \in 1..Len(s) - 1 : RemoveAt(s, ix)[x] = IF x < ix THEN s[x] ELSE s[x + 1]
<1> DEFINE a == SubSeq(s, 1, ix - 1)
           b == SubSeq(s, ix + 1, Len(s))
<1>1. ix \in 1..Len(s) /\ Len(s) \in Nat
  OBVIOUS
<1>2. a \in Seq(S) /\ Len(a) = ix - 1 /\ \A x \in 1..ix - 1 : a[x] = s[x]
  <2>1. \A x \in 1..ix - 1 : s[x] \in S
    BY <1>1
  <2> QED BY <1>1, <2>1, SubSeqProperties
<1>3. b \in Seq(S) /\ Len(b) = Len(s) - ix /\ \A x \in 1..Len(s) - ix : b[x] = s[x + ix]
  <2>1. \A x \in ix + 1..Len(s) : s[x] \in S
    BY <1>1
  <2>2. /\ b \in Seq(S) /\ Len(b) = IF ix + 1 <= Len(s) THEN Len(s) - (ix + 1) + 1 ELSE 0
        /\ \A x \in 1..Len(s) - (ix + 1) + 1 : b[x] = s[ix + 1 + x - 1]
    BY <1>1, <2>1, SubSeqProperties
  <2> QED BY <1>1, <2>2
<1>4. RemoveAt(s, ix) = a \o b
  BY DEF RemoveAt
<1> HIDE DEF a, b
<1>5. /\ a \o b \in Seq(S) /\ Len(a \o b) = Len(a) + Len(b)
      /\ \A x \in 1..Len(a) + Len(b) : (a \o b)[x] = IF x <= Len(a) THEN a[x] ELSE b[x - Len(a)]
  BY <1>2, <1>3, ConcatProperties
<1>6. \A x \in 1..Len(s) - 1 : (a \o b)[x] = IF x < ix THEN s[x] ELSE s[x + 1]
  <2> SUFFICES ASSUME NEW x \in 1..Len(s) - 1 PROVE (a \o b)[x] = IF x < ix THEN s[x] ELSE s[x + 1]
    OBVIOUS
  <2>1. CASE x < ix
    BY <1>1, <1>2, <1>3, <1>5, <2>1
  <2>2. CASE ~ x < ix
    <3>1. x \in 1..Len(a) + Len(b) /\ ~ x <= Len(a) /\ x - Len(a) \in 1..Len(s) - ix
      BY <1>1, <1>2, <1>3, <2>2
    <3>2. (a \o b)[x] = b[x - Len(a)]
      BY <1>5, <3>1
    <3>3. b[x - Len(a)] = s[(x - Len(a)) + ix]
      BY <1>3, <3>1
    <3>4. (x - Len(a)) + ix = x + 1
      BY <1>1, <1>2
    <3> QED BY <2>2, <3>2, <3>3, <3>4
  <2> QED BY <2>1, <2>2
<1>7. Len(a) + Len(b) = Len(s) - 1
  BY <1>1, <1>2, <1>3
<1> HIDE DEF a, b
<1>8. RemoveAt(s, ix) \in Seq(S) /\ Len(RemoveAt(s, ix)) = Len(s) - 1
  BY <1>4, <1>5, <1>7
<1>9. \A x \in 1..Len(s) - 1 : RemoveAt(s, ix)[x] = IF x < ix THEN s[x] ELSE s[x + 1]
  BY <1>4, <1>6, Zenon
<1> QED BY <1>8, <1>9

LEMMA InsertAtIsSeq ==
  ASSUME NEW S, NEW s \in Seq(S), NEW ix \in 1..Len(s) + 1, NEW e \in S
  PROVE  /\ InsertAt(s, ix, e) \in Seq(S)
         /\ Len(InsertAt(s, ix, e)) = Len(s) + 1
         /\ \A x \in 1..ix - 1 : InsertAt(s, ix, e)[x] = s[x]
         /\ InsertAt(s, ix, e)[ix] = e
         /\ \A x \in ix..Len(s) : InsertAt(s, ix, e)[x + 1] = s[x]
<1> DEFINE a == SubSeq(s, 1, ix - 1)
           b == SubSeq(s, ix, Len(s))
           c == <<e>>
<1>1. ix \in 1..Len(s) + 1 /\ Len(s) \in Nat
  OBVIOUS
<1>2. a \in Seq(S) /\ Len(a) = ix - 1 /\ \A x \in 1..ix - 1 : a[x] = s[x]
  <2>1. \A x \in 1..ix - 1 : s[x] \in S
    BY <1>1
  <2> QED BY <1>1, <2>1, SubSeqProperties
<1>3. b \in Seq(S) /\ Len(b) = Len(s) - ix + 1 /\ \A x \in 1..Len(s) - ix + 1 : b[x] = s[ix + x - 1]
  <2>1. \A x \in ix..Len(s) : s[x] \in S
    BY <1>1
  <2>2. /\ b \in Seq(S) /\ Len(b) = IF ix <= Len(s) THEN Len(s) - ix + 1 ELSE 0
        /\ \A x \in 1..Len(s) - ix + 1 : b[x] = s[ix + x - 1]
    BY <1>1, <2>1, SubSeqProperties
  <2> QED BY <1>1, <2>2
<1>4. InsertAt(s, ix, e) = (a \o c) \o b
  BY DEF InsertAt
<1>5. c \in Seq(S) /\ Len(c) = 1 /\ c[1] = e
  OBVIOUS
<1> HIDE DEF a, b, c
<1> DEFINE d == a \o c
<1>6. /\ d \in Seq(S) /\ Len(d) = ix
      /\ \A x \in 1..ix : d[x] = IF x < ix THEN s[x] ELSE e
  <2>1. /\ d \in Seq(S) /\ Len(d) = Len(a) + Len(c)
        /\ \A x \in 1..Len(a) + Len(c) : d[x] = IF x <= Len(a) THEN a[x] ELSE c[x - Len(a)]
    BY <1>2, <1>5, ConcatProperties
  <2> QED BY <1>1, <1>2, <1>5, <2>1
<1> HIDE DEF d
<1>7. /\ d \o b \in Seq(S) /\ Len(d \o b) = Len(d) + Len(b)
      /\ \A x \in 1..Len(d) + Len(b) : (d \o b)[x] = IF x <= Len(d) THEN d[x] ELSE b[x - Len(d)]
  BY <1>3, <1>6, ConcatProperties
<1>8. InsertAt(s, ix, e) = d \o b
  BY <1>4 DEF d
<1>9. \A x \in 1..Len(s) + 1 :
        (d \o b)[x] = IF x < ix THEN s[x] ELSE IF x = ix THEN e ELSE s[x - 1]
  <2> SUFFICES ASSUME NEW x \in 1..Len(s) + 1
               PROVE  (d \o b)[x] = IF x < ix THEN s[x] ELSE IF x = ix THEN e ELSE s[x - 1]
    OBVIOUS
  <2>1. CASE x <= ix
    BY <1>1, <1>3, <1>6, <1>7, <2>1
  <2>2. CASE ~ x <= ix
    <3>1. x - ix \in 1..Len(s) - ix + 1 /\ (d \o b)[x] = b[x - ix]
      BY <1>1, <1>3, <1>6, <1>7, <2>2
    <3>2. b[x - ix] = s[ix + (x - ix) - 1] /\ ix + (x - ix) - 1 = x - 1
      BY <1>1, <1>3, <3>1
    <3> QED BY <2>2, <3>1, <3>2
  <2> QED BY <2>1, <2>2
<1> QED BY <1>1, <1>3, <1>6, <1>7, <1>8, <1>9

LEMMA AppendIsSeq ==
  ASSUME NEW S, NEW s \in Seq(S), NEW e \in S
  PROVE  Append(s, e) \in Seq(S)
OBVIOUS

LEMMA ElementOf ==
  ASSUME NEW S, NEW s \in Seq(S), NEW ix \in DOMAIN s
  PROVE  s[ix] \in S
OBVIOUS

LEMMA ToEndIsSeq ==
  ASSUME NEW S, NEW s \in Seq(S), NEW ix \in DOMAIN s
  PROVE  ToEnd(s, ix) \in Seq(S)
<1>1. RemoveAt(s, ix) \in Seq(S) /\ s[ix] \in S
  BY RemoveAtIsSeq
<1> QED BY <1>1 DEF ToEnd

(* A step that rises or sinks one place at a time, over the steps in between.*)
Lifted(s, b, e) ==
  [x \in DOMAIN s |-> IF x = e THEN s[b]
                      ELSE IF b <= x /\ x < e THEN s[x + 1]
                      ELSE IF e < x /\ x <= b THEN s[x - 1] ELSE s[x]]
Cap(s, x) == IF x <= Len(s) THEN x ELSE Len(s)

LEMMA LiftedIsSeq ==
  ASSUME NEW S, NEW s \in Seq(S), NEW b \in 0..Len(s), NEW e \in 0..Len(s), b = 0 <=> e = 0
  PROVE  /\ Lifted(s, b, e) \in Seq(S)
         /\ Len(Lifted(s, b, e)) = Len(s) /\ DOMAIN Lifted(s, b, e) = DOMAIN s
<1>1. \A x \in 1..Len(s) : Lifted(s, b, e)[x] \in S
  <2> SUFFICES ASSUME NEW x \in 1..Len(s) PROVE Lifted(s, b, e)[x] \in S
    OBVIOUS
  <2>1. Len(s) \in Nat /\ DOMAIN s = 1..Len(s) /\ \A y \in 1..Len(s) : s[y] \in S
    OBVIOUS
  <2>2. CASE x = e
    BY <2>1, <2>2 DEF Lifted
  <2>3. CASE b <= x /\ x < e
    <3>1. x + 1 \in 1..Len(s) /\ Lifted(s, b, e)[x] = s[x + 1]
      BY <2>1, <2>3 DEF Lifted
    <3> QED BY <2>1, <3>1
  <2>4. CASE e < x /\ x <= b
    <3>1. x - 1 \in 1..Len(s) /\ Lifted(s, b, e)[x] = s[x - 1]
      BY <2>1, <2>4 DEF Lifted
    <3> QED BY <2>1, <3>1
  <2>5. CASE x # e /\ ~(b <= x /\ x < e) /\ ~(e < x /\ x <= b)
    BY <2>1, <2>5 DEF Lifted
  <2> QED BY <2>2, <2>3, <2>4, <2>5
<1>2. DOMAIN Lifted(s, b, e) = 1..Len(s) /\ Lifted(s, b, e) = [x \in 1..Len(s) |-> Lifted(s, b, e)[x]]
  BY DEF Lifted
<1> QED BY <1>1, <1>2

(* Lifting from ix to j is what taking the step out and putting it in does.  *)
LEMMA LiftedLands ==
  ASSUME NEW S, NEW s \in Seq(S), NEW ix \in DOMAIN s, NEW j \in DOMAIN s
  PROVE  Lifted(s, ix, j) = InsertAt(RemoveAt(s, ix), j, s[ix])
<1> DEFINE r == RemoveAt(s, ix)
           t == InsertAt(r, j, s[ix])
           u == Lifted(s, ix, j)
<1>1. ix \in 1..Len(s) /\ j \in 1..Len(s) /\ s[ix] \in S /\ Len(s) \in Nat
  OBVIOUS
<1>2. /\ r \in Seq(S) /\ Len(r) = Len(s) - 1
      /\ \A x \in 1..Len(s) - 1 : r[x] = IF x < ix THEN s[x] ELSE s[x + 1]
  BY RemoveAtIsSeq
<1> HIDE DEF r
<1>3. j \in 1..Len(r) + 1
  BY <1>1, <1>2
<1>4. /\ t \in Seq(S) /\ Len(t) = Len(r) + 1
      /\ \A x \in 1..j - 1 : t[x] = r[x]
      /\ t[j] = s[ix]
      /\ \A x \in j..Len(r) : t[x + 1] = r[x]
  <2>1. r \in Seq(S) /\ s[ix] \in S
    BY <1>1, <1>2
  <2>2. t \in Seq(S) /\ Len(t) = Len(r) + 1
    BY <1>3, <2>1, InsertAtIsSeq
  <2>3. \A x \in 1..j - 1 : t[x] = r[x]
    BY <1>3, <2>1, InsertAtIsSeq
  <2>4. t[j] = s[ix]
    BY <1>3, <2>1, InsertAtIsSeq
  <2>5. \A x \in j..Len(r) : t[x + 1] = r[x]
    BY <1>3, <2>1, InsertAtIsSeq
  <2> QED BY <2>2, <2>3, <2>4, <2>5
<1>5. u \in Seq(S) /\ Len(u) = Len(s)
  BY <1>1, LiftedIsSeq
<1>6. \A x \in 1..Len(s) :
        u[x] = IF x = j THEN s[ix] ELSE IF ix <= x /\ x < j THEN s[x + 1]
               ELSE IF j < x /\ x <= ix THEN s[x - 1] ELSE s[x]
  BY DEF Lifted
<1> HIDE DEF t, u
<1>7. \A x \in 1..Len(s) : u[x] = t[x]
  <2> SUFFICES ASSUME NEW x \in 1..Len(s) PROVE u[x] = t[x]
    OBVIOUS
  <2>1. CASE x = j
    BY <1>1, <1>2, <1>4, <1>6, <2>1
  <2>2. CASE x < j
    <3>1. x \in 1..Len(s) - 1 /\ t[x] = r[x]
      BY <1>1, <1>2, <1>4, <2>2
    <3> QED BY <1>1, <1>2, <1>6, <2>2, <3>1
  <2>3. CASE j < x
    <3>1. x - 1 \in 1..Len(s) - 1 /\ t[x] = r[x - 1] /\ x - 1 + 1 = x
      <4>1. x - 1 \in 1..Len(s) - 1 /\ x - 1 \in j..Len(r) /\ x - 1 + 1 = x
        BY <1>1, <1>2, <2>3
      <4> QED BY <1>4, <4>1
    <3>2. r[x - 1] = IF x - 1 < ix THEN s[x - 1] ELSE s[x]
      BY <1>2, <3>1
    <3> QED BY <1>1, <1>6, <2>3, <3>1, <3>2
  <2> QED BY <1>1, <2>1, <2>2, <2>3
<1>8. u = t
  BY <1>2, <1>4, <1>5, <1>7, SeqEqual
<1> QED BY <1>8 DEF t, u, r

(* One move takes a step that has come to e one place further.               *)
LEMMA LiftedMoves ==
  ASSUME NEW S, NEW s \in Seq(S), NEW b \in 1..Len(s), NEW e \in 1..Len(s), NEW f \in 1..Len(s),
         \/ f = e + 1 /\ b <= e
         \/ f = e - 1 /\ e <= b
  PROVE  Swapped(Lifted(s, b, e), e, f) = Lifted(s, b, f)
<1> DEFINE u == Lifted(s, b, e)
           v == Lifted(s, b, f)
           w == [u EXCEPT ![e] = u[f], ![f] = u[e]]
<1>1. Len(s) \in Nat /\ DOMAIN s = 1..Len(s)
  OBVIOUS
<1>2. u \in Seq(S) /\ v \in Seq(S) /\ Len(u) = Len(s) /\ Len(v) = Len(s)
  BY LiftedIsSeq
<1>3. \A x \in 1..Len(s) :
        u[x] = IF x = e THEN s[b] ELSE IF b <= x /\ x < e THEN s[x + 1]
               ELSE IF e < x /\ x <= b THEN s[x - 1] ELSE s[x]
  BY DEF Lifted
<1>4. \A x \in 1..Len(s) :
        v[x] = IF x = f THEN s[b] ELSE IF b <= x /\ x < f THEN s[x + 1]
               ELSE IF f < x /\ x <= b THEN s[x - 1] ELSE s[x]
  BY DEF Lifted
<1> HIDE DEF u, v
<1>5. DOMAIN u = 1..Len(s) /\ u[f] \in S /\ u[e] \in S
  BY <1>2
<1>6. w \in Seq(S) /\ Len(w) = Len(s)
  BY <1>2, <1>5
<1>7. \A x \in 1..Len(s) : w[x] = IF x = f THEN u[e] ELSE IF x = e THEN u[f] ELSE u[x]
  BY <1>2, <1>5
<1> HIDE DEF w
<1>8. \A x \in 1..Len(s) : w[x] = v[x]
  <2> SUFFICES ASSUME NEW x \in 1..Len(s) PROVE w[x] = v[x]
    OBVIOUS
  <2>1. CASE x = f
    BY <1>1, <1>3, <1>4, <1>7, <2>1
  <2>2. CASE x = e /\ x # f
    <3>1. w[x] = u[f]
      BY <1>7, <2>2
    <3>2. CASE f = e + 1 /\ b <= e
      BY <1>1, <1>3, <1>4, <2>2, <3>1, <3>2
    <3>3. CASE f = e - 1 /\ e <= b
      BY <1>1, <1>3, <1>4, <2>2, <3>1, <3>3
    <3> QED BY <3>2, <3>3
  <2>3. CASE x # e /\ x # f
    <3>1. w[x] = u[x]
      BY <1>7, <2>3
    <3>2. CASE f = e + 1 /\ b <= e
      BY <1>1, <1>3, <1>4, <2>3, <3>1, <3>2
    <3>3. CASE f = e - 1 /\ e <= b
      BY <1>1, <1>3, <1>4, <2>3, <3>1, <3>3
    <3> QED BY <3>2, <3>3
  <2> QED BY <2>1, <2>2, <2>3
<1>9. w = v
  BY <1>2, <1>6, <1>8, SeqEqual
<1> QED BY <1>9 DEF w, v, u, Swapped

LEMMA LiftedNowhere ==
  ASSUME NEW S, NEW s \in Seq(S), NEW b \in 0..Len(s)
  PROVE  Lifted(s, b, b) = s
<1>1. \A x \in DOMAIN s : Lifted(s, b, b)[x] = s[x]
  BY DEF Lifted
<1>2. s = [x \in DOMAIN s |-> s[x]]
  OBVIOUS
<1> QED BY <1>1, <1>2 DEF Lifted

LEMMA MoveOfOne ==
  ASSUME NEW S, NEW s \in Seq(S), NEW p \in Nat
  PROVE  /\ moveStepAtPath(s, <<p>>, "down") =
              IF {p, p + 1} \subseteq DOMAIN s THEN Swapped(s, p, p + 1) ELSE s
         /\ moveStepAtPath(s, <<p>>, "up") =
              IF {p, p - 1} \subseteq DOMAIN s THEN Swapped(s, p, p - 1) ELSE s
<1>1. Last(<<p>>) = p /\ Len(<<p>>) = 1
  BY DEF Last
<1>2. ListAt(s, <<p>>) = s /\ \A l : WithListAt(s, <<p>>, l) = l
  BY <1>1 DEF ListAt, WithListAt
<1>3. "up" # "down"
  OBVIOUS
<1> QED BY <1>1, <1>2, <1>3, Zenon DEF moveStepAtPath

(* The least number of which a property does not hold. *)
LEMMA LeastOf ==
  ASSUME NEW T, T \subseteq Nat, T # {}
  PROVE  \E x \in T : \A y \in T : ~ y < x
<1>1. \E x \in T : \A y \in T : ~ (<<y, x>> \in OpToRel(<, Nat))
  BY NatLessThanWellFounded, WFMin
<1>2. \A x, y \in T : y < x => <<y, x>> \in OpToRel(<, Nat)
  BY DEF OpToRel
<1> QED BY <1>1, <1>2

LEMMA CapIs ==
  ASSUME NEW S, NEW s \in Seq(S), NEW x \in Nat
  PROVE  /\ x <= Len(s) => Cap(s, x) = x
         /\ Len(s) <= x => Cap(s, x) = Len(s)
BY DEF Cap

(* The moves of a drag lift one step: the list after k of them.              *)
LEMMA DragLifts ==
  ASSUME NEW S, NEW s \in Seq(S), NEW from \in Nat \ {0}, NEW to \in Nat \ {0}
  PROVE  DragMoves(s, from, to) = Lifted(s, Cap(s, from), Cap(s, to))
<1> DEFINE far == IF from < to THEN to - from ELSE from - to
           pos(k) == IF from < to THEN from + k ELSE from - k
           dir == IF from < to THEN "down" ELSE "up"
           L(k) == Lifted(s, Cap(s, from), Cap(s, pos(k)))
           Run(run) == [k \in 0..far |->
                          IF k = 0 THEN s ELSE moveStepAtPath(run[k - 1], <<pos(k - 1)>>, dir)]
           R == CHOOSE run : run = Run(run)
           G == [k \in 0..far |-> L(k)]
<1>1. DragMoves(s, from, to) = R[far]
  BY DEF DragMoves
<1>2. far \in Nat /\ far \in 0..far /\ pos(far) = to /\ pos(0) = from
  OBVIOUS
<1>3. \A k \in 0..far : pos(k) \in Nat \ {0}
  OBVIOUS
<1>4. Len(s) \in Nat /\ DOMAIN s = 1..Len(s)
  OBVIOUS
<1>5. L(0) = s
  <2>1. Cap(s, from) \in 0..Len(s)
    BY <1>4 DEF Cap
  <2> QED BY <1>2, <2>1, LiftedNowhere
<1>6. \A k \in 1..far : moveStepAtPath(L(k - 1), <<pos(k - 1)>>, dir) = L(k)
  <2> SUFFICES ASSUME NEW k \in 1..far
               PROVE  moveStepAtPath(L(k - 1), <<pos(k - 1)>>, dir) = L(k)
    OBVIOUS
  <2> DEFINE p == pos(k - 1)
             q == pos(k)
             b == Cap(s, from)
             u == Lifted(s, b, Cap(s, p))
  <2>1. p \in Nat \ {0} /\ q \in Nat \ {0}
    BY <1>2, <1>3
  <2>2. b \in 0..Len(s) /\ Cap(s, p) \in 0..Len(s) /\ (b = 0 <=> Cap(s, p) = 0)
    BY <1>4, <2>1 DEF Cap
  <2>3. u \in Seq(S) /\ DOMAIN u = DOMAIN s
    BY <2>2, LiftedIsSeq
  <2>4. CASE from < to
    <3>1. dir = "down" /\ q = p + 1 /\ from <= p
      BY <1>2, <2>4
    <3>2. moveStepAtPath(u, <<p>>, "down") =
            IF {p, q} \subseteq DOMAIN s THEN Swapped(u, p, q) ELSE u
      BY <2>1, <2>3, <3>1, MoveOfOne
    <3>3. CASE q <= Len(s)
      <4>0. p <= Len(s) /\ from <= Len(s)
        BY <1>4, <2>1, <3>1, <3>3
      <4>1. b = from /\ Cap(s, p) = p /\ Cap(s, q) = q /\ {p, q} \subseteq DOMAIN s
            /\ b \in 1..Len(s)
        BY <1>4, <2>1, <3>3, <4>0, CapIs
      <4>2. Swapped(Lifted(s, b, p), p, q) = Lifted(s, b, q)
        BY <1>4, <2>1, <3>1, <3>3, <4>1, LiftedMoves
      <4> QED BY <3>1, <3>2, <4>1, <4>2
    <3>4. CASE ~ q <= Len(s)
      <4>1. Cap(s, p) = Len(s) /\ Cap(s, q) = Len(s) /\ q \notin DOMAIN s
        BY <1>4, <2>1, <3>1, <3>4 DEF Cap
      <4> QED BY <3>1, <3>2, <4>1
    <3> QED BY <3>3, <3>4
  <2>5. CASE ~ from < to
    <3>1. dir = "up" /\ q = p - 1 /\ p <= from
      BY <1>2, <2>5
    <3>2. moveStepAtPath(u, <<p>>, "up") =
            IF {p, q} \subseteq DOMAIN s THEN Swapped(u, p, q) ELSE u
      BY <2>1, <2>3, <3>1, MoveOfOne
    <3>3. CASE p <= Len(s)
      <4>1. Cap(s, p) = p /\ Cap(s, q) = q /\ {p, q} \subseteq DOMAIN s /\ b \in 1..Len(s) /\ p <= b
        BY <1>4, <2>1, <3>1, <3>3 DEF Cap
      <4>2. Swapped(Lifted(s, b, p), p, q) = Lifted(s, b, q)
        BY <1>4, <2>1, <3>1, <3>3, <4>1, LiftedMoves
      <4> QED BY <3>1, <3>2, <4>1, <4>2
    <3>4. CASE ~ p <= Len(s)
      <4>0. Len(s) <= p /\ Len(s) <= q /\ p \notin DOMAIN s
        BY <1>4, <2>1, <3>1, <3>4
      <4>1. Cap(s, p) = Len(s) /\ Cap(s, q) = Len(s) /\ p \notin DOMAIN s
        BY <1>4, <2>1, <4>0, CapIs
      <4> QED BY <3>1, <3>2, <4>1
    <3> QED BY <3>3, <3>4
  <2> QED BY <2>4, <2>5
<1> HIDE DEF far, pos, dir, L
<1>7. G = Run(G)
  <2>1. \A k \in 0..far :
          L(k) = IF k = 0 THEN s ELSE moveStepAtPath(G[k - 1], <<pos(k - 1)>>, dir)
    <3> SUFFICES ASSUME NEW k \in 0..far, k # 0
                 PROVE  L(k) = moveStepAtPath(G[k - 1], <<pos(k - 1)>>, dir)
      BY <1>5
    <3>1. k \in 1..far /\ k - 1 \in 0..far
      BY <1>2
    <3>2. G[k - 1] = L(k - 1)
      BY <3>1
    <3> QED BY <1>6, <3>1, <3>2
  <2> QED BY <2>1
<1>8. R = Run(R)
  BY <1>7
<1> HIDE DEF R, G
<1>9. \A k \in 0..far : R[k] = IF k = 0 THEN s ELSE moveStepAtPath(R[k - 1], <<pos(k - 1)>>, dir)
  BY <1>8
<1>10. \A k \in 0..far : R[k] = L(k)
  <2> DEFINE T == {k \in 0..far : R[k] # L(k)}
  <2> SUFFICES ASSUME T # {} PROVE FALSE
    OBVIOUS
  <2>1. T \subseteq Nat
    BY <1>2
  <2>2. PICK k \in T : \A y \in T : ~ y < k
    BY <2>1, LeastOf
  <2>3. k \in 0..far /\ R[k] # L(k)
    BY <2>2
  <2>4. k # 0
    BY <1>5, <1>9, <2>3
  <2>5. k \in 1..far /\ k - 1 \in 0..far /\ k - 1 < k
    BY <1>2, <2>3, <2>4
  <2>6. R[k - 1] = L(k - 1)
    BY <2>2, <2>5
  <2>7. R[k] = moveStepAtPath(L(k - 1), <<pos(k - 1)>>, dir)
    BY <1>9, <2>3, <2>4, <2>6
  <2> QED BY <1>6, <2>3, <2>5, <2>7
<1>11. R[far] = L(far)
  BY <1>2, <1>10
<1> QED BY <1>1, <1>2, <1>11 DEF L

LEMMA DragIsSeq ==
  ASSUME NEW S, NEW s \in Seq(S), NEW from \in Nat \ {0}, NEW to \in Nat \ {0}
  PROVE  DragMoves(s, from, to) \in Seq(S)
<1> DEFINE b == Cap(s, from)
           e == Cap(s, to)
<1>1. b \in 0..Len(s) /\ e \in 0..Len(s) /\ (b = 0 <=> e = 0)
  BY DEF Cap
<1> HIDE DEF b, e
<1>2. Lifted(s, b, e) \in Seq(S)
  BY <1>1, LiftedIsSeq
<1> QED BY <1>2, DragLifts DEF b, e

-------------------------------------------------------------------------------
(* What an automation is made of stays one: a document the schema's types    *)
(* allow, whatever its checks say of it.                                     *)

(* The steps a path of one index or of two leads to.                         *)
SubstepsAt(p) == IF Len(p) = 1 THEN Seq(Substep) ELSE {<<>>}
StepAt(p) == StepWith(SubstepsAt(p))
IsPath(p) == p \in Seq(Nat) /\ Len(p) \in {1, 2}

LEMMA SubstepIsStep == Substep \subseteq Step
<1>1. <<>> \in Seq(Substep)
  OBVIOUS
<1> QED BY <1>1 DEF Substep, Step, StepWith

LEMMA StepAtIs == ASSUME NEW p PROVE StepAt(p) = IF Len(p) = 1 THEN Step ELSE Substep
BY DEF StepAt, SubstepsAt, Step, Substep

LEMMA ListAtIsSeq ==
  ASSUME NEW steps \in Seq(Step), NEW p, IsPath(p)
  PROVE  ListAt(steps, p) \in Seq(StepAt(p))
<1>1. CASE Len(p) = 1
  BY <1>1, StepAtIs DEF ListAt
<1>2. CASE Len(p) # 1 /\ p[1] \in DOMAIN steps
  <2>1. steps[p[1]] \in Step
    BY <1>2
  <2>2. steps[p[1]].substeps \in Seq(Substep)
    BY <2>1 DEF Step, StepWith
  <2> QED BY <1>2, <2>2, StepAtIs DEF ListAt
<1>3. CASE Len(p) # 1 /\ p[1] \notin DOMAIN steps
  BY <1>3, StepAtIs DEF ListAt
<1> QED BY <1>1, <1>2, <1>3

LEMMA PathLeads ==
  ASSUME NEW steps \in Seq(Step), NEW p, IsPath(p), Resolves(steps, p)
  PROVE  /\ Last(p) \in DOMAIN ListAt(steps, p)
         /\ walkPath(steps, p) \in StepAt(p)
<1>1. Last(p) = p[Len(p)]
  BY DEF Last
<1>2. CASE Len(p) = 1
  BY <1>1, <1>2, StepAtIs DEF ListAt, Resolves, walkPath
<1>3. CASE Len(p) = 2
  <2>1. p[1] \in DOMAIN steps /\ p[2] \in DOMAIN steps[p[1]].substeps
    BY <1>3 DEF Resolves
  <2>2. steps[p[1]] \in Step
    BY <2>1
  <2>3. steps[p[1]].substeps \in Seq(Substep)
    BY <2>2 DEF Step, StepWith
  <2>4. steps[p[1]].substeps[p[2]] \in Substep
    BY <2>1, <2>3
  <2> QED BY <1>1, <1>3, <2>1, <2>4, StepAtIs DEF ListAt, walkPath
<1> QED BY <1>2, <1>3 DEF IsPath

LEMMA WithListAtIsSeq ==
  ASSUME NEW steps \in Seq(Step), NEW p, IsPath(p), NEW here \in Seq(StepAt(p))
  PROVE  WithListAt(steps, p, here) \in Seq(Step)
<1>1. CASE Len(p) = 1
  BY <1>1, StepAtIs DEF WithListAt
<1>2. CASE Len(p) # 1 /\ p[1] \in DOMAIN steps
  <2> DEFINE s == [steps[p[1]] EXCEPT !.substeps = here]
  <2>1. steps[p[1]] \in Step /\ here \in Seq(Substep)
    BY <1>2, StepAtIs
  <2>2. s \in Step
    BY <2>1 DEF Step, StepWith
  <2>3. WithListAt(steps, p, here) = [steps EXCEPT ![p[1]] = s]
    BY <1>2 DEF WithListAt
  <2> HIDE DEF s
  <2> QED BY <1>2, <2>2, <2>3
<1>3. CASE Len(p) # 1 /\ p[1] \notin DOMAIN steps
  BY <1>3 DEF WithListAt
<1> QED BY <1>1, <1>2, <1>3

LEMMA MapIsSeq ==
  ASSUME NEW steps \in Seq(Step), NEW p, IsPath(p), NEW new \in StepAt(p)
  PROVE  mapStepAtPath(steps, p, new) \in Seq(Step)
<1>1. CASE Resolves(steps, p)
  <2> DEFINE here == ListAt(steps, p)
  <2>1. here \in Seq(StepAt(p)) /\ Last(p) \in DOMAIN here
    BY <1>1, ListAtIsSeq, PathLeads
  <2> HIDE DEF here
  <2>2. [here EXCEPT ![Last(p)] = new] \in Seq(StepAt(p))
    BY <2>1
  <2>3. WithListAt(steps, p, [here EXCEPT ![Last(p)] = new]) \in Seq(Step)
    BY <2>2, WithListAtIsSeq
  <2> QED BY <1>1, <2>3 DEF mapStepAtPath, here
<1>2. CASE ~ Resolves(steps, p)
  BY <1>2 DEF mapStepAtPath
<1> QED BY <1>1, <1>2

LEMMA RemoveIsSeq ==
  ASSUME NEW steps \in Seq(Step), NEW p, IsPath(p)
  PROVE  removeStepAtPath(steps, p) \in Seq(Step)
<1>1. CASE Resolves(steps, p)
  <2> DEFINE here == ListAt(steps, p)
  <2>1. here \in Seq(StepAt(p)) /\ Last(p) \in DOMAIN here
    BY <1>1, ListAtIsSeq, PathLeads
  <2> HIDE DEF here
  <2>2. RemoveAt(here, Last(p)) \in Seq(StepAt(p))
    BY <2>1, RemoveAtIsSeq
  <2>3. WithListAt(steps, p, RemoveAt(here, Last(p))) \in Seq(Step)
    BY <2>2, WithListAtIsSeq
  <2> QED BY <1>1, <2>3 DEF removeStepAtPath, here
<1>2. CASE ~ Resolves(steps, p)
  BY <1>2 DEF removeStepAtPath
<1> QED BY <1>1, <1>2

LEMMA InsertIsSeq ==
  ASSUME NEW steps \in Seq(Step), NEW p, IsPath(p), Resolves(steps, p), NEW new \in StepAt(p)
  PROVE  insertAfter(steps, p, new) \in Seq(Step)
<1> DEFINE here == ListAt(steps, p)
           ix == Last(p) + 1
<1>1. here \in Seq(StepAt(p)) /\ Last(p) \in DOMAIN here
  BY ListAtIsSeq, PathLeads
<1>2. ix \in 1..Len(here) + 1
  BY <1>1
<1> HIDE DEF here, ix
<1>3. InsertAt(here, ix, new) \in Seq(StepAt(p))
  BY <1>1, <1>2, InsertAtIsSeq
<1>4. WithListAt(steps, p, InsertAt(here, ix, new)) \in Seq(Step)
  BY <1>3, WithListAtIsSeq
<1> QED BY <1>4 DEF insertAfter, here, ix

LEMMA ListsAreSeq ==
  ASSUME NEW a \in Automation, NEW l \in ListIds(a)
  PROVE  StepsOf(a, l) \in Seq(Step)
<1>1. CASE l = 0
  BY <1>1 DEF StepsOf, Automation
<1>2. CASE l # 0
  <2>1. a.functions \in Seq([name : FnNames, steps : Seq(Step)])
    BY DEF Automation
  <2>2. l \in DOMAIN a.functions
    BY <1>2, <2>1 DEF ListIds
  <2>3. a.functions[l] \in [name : FnNames, steps : Seq(Step)]
    BY <2>1, <2>2, ElementOf
  <2> QED BY <1>2, <2>3 DEF StepsOf
<1> QED BY <1>1, <1>2

LEMMA WithSteps ==
  ASSUME NEW a \in Automation, NEW steps \in Seq(Step)
  PROVE  [a EXCEPT !.steps = steps] \in Automation
BY DEF Automation

LEMMA WithFunctions ==
  ASSUME NEW a \in Automation, NEW fns \in Seq([name : FnNames, steps : Seq(Step)])
  PROVE  [a EXCEPT !.functions = fns] \in Automation
BY DEF Automation

LEMMA WithInputs ==
  ASSUME NEW a \in Automation, NEW ins \in Seq(Nat)
  PROVE  [a EXCEPT !.inputs = ins] \in Automation
BY DEF Automation

LEMMA WithListIsAutomation ==
  ASSUME NEW a \in Automation, NEW l \in ListIds(a), NEW steps \in Seq(Step)
  PROVE  WithList(a, l, steps) \in Automation
<1>1. CASE l = 0
  BY <1>1, WithSteps DEF WithList
<1>2. CASE l # 0
  <2> DEFINE F == [name : FnNames, steps : Seq(Step)]
             f == [a.functions[l] EXCEPT !.steps = steps]
             fns == [a.functions EXCEPT ![l] = f]
  <2>1. a.functions \in Seq(F)
    BY DEF Automation
  <2>2. l \in DOMAIN a.functions
    BY <1>2, <2>1 DEF ListIds
  <2>3. f \in F
    <3>1. a.functions[l] \in F
      BY <2>1, <2>2, ElementOf
    <3> QED BY <3>1
  <2>4. fns \in Seq(F)
    <3> HIDE DEF f, F
    <3> QED BY <2>1, <2>2, <2>3
  <2>5. WithList(a, l, steps) = [a EXCEPT !.functions = fns]
    BY <1>2 DEF WithList
  <2> HIDE DEF fns
  <2> QED BY <2>4, <2>5, WithFunctions
<1> QED BY <1>1, <1>2

LEMMA NewStepIs == ASSUME NEW id \in Nat PROVE StepOf("plain", id) \in Substep
BY DEF StepOf, Substep, StepWith, Kinds

(* Every edit reduces to an automation of that form.                         *)
Edited == /\ \E a \in Automation : Reduce(a)
          /\ NodeTyped' /\ nextId' \in Nat

LEMMA FormOfAutomation ==
  ASSUME EditorTypeOK, automation # Nothing
  PROVE  /\ automation \in Automation
         /\ automation.steps \in Seq(Step)
         /\ automation.inputs \in Seq(Nat)
         /\ automation.functions \in Seq([name : FnNames, steps : Seq(Step)])
BY DEF EditorTypeOK, Automation

LEMMA NodeStays == ASSUME EditorTypeOK, UNCHANGED selectedNodeId PROVE NodeTyped'
BY DEF EditorTypeOK, NodeTyped

LEMMA StillIs == ASSUME EditorTypeOK, Still PROVE NodeTyped' /\ nextId' \in Nat
BY NodeStays DEF Still, EditorTypeOK

LEMMA CountIs ==
  ASSUME EditorTypeOK, UNCHANGED selectedNodeId, nextId' = nextId + 1
  PROVE  NodeTyped' /\ nextId' \in Nat /\ nextId \in Nat
BY NodeStays DEF EditorTypeOK

LEMMA DocumentEdits ==
  ASSUME EditorTypeOK, automation # Nothing,
         \/ UPDATE_METADATA \/ UPDATE_INPUT \/ UPDATE_FUNCTION
         \/ AddInput \/ AddFunction \/ RemoveInput \/ RemoveFunction \/ DropInput \/ DropFunction
  PROVE  Edited
<1> DEFINE F == [name : FnNames, steps : Seq(Step)]
           ins == automation.inputs
           fns == automation.functions
<1>1. automation \in Automation /\ ins \in Seq(Nat) /\ fns \in Seq(F)
  BY FormOfAutomation
<1>2. nextId \in Nat
  BY DEF EditorTypeOK
<1>3. ASSUME NEW new \in Seq(Nat), Reduce([automation EXCEPT !.inputs = new]),
             NodeTyped' /\ nextId' \in Nat
      PROVE  Edited
  <2> DEFINE b == [automation EXCEPT !.inputs = new]
  <2>1. b \in Automation /\ Reduce(b)
    BY <1>1, <1>3, WithInputs
  <2> HIDE DEF b
  <2> QED BY <1>3, <2>1 DEF Edited
<1>4. ASSUME NEW new \in Seq(F), Reduce([automation EXCEPT !.functions = new]),
             NodeTyped' /\ nextId' \in Nat
      PROVE  Edited
  <2> DEFINE b == [automation EXCEPT !.functions = new]
  <2>1. b \in Automation /\ Reduce(b)
    BY <1>1, <1>4, WithFunctions
  <2> HIDE DEF b
  <2> QED BY <1>4, <2>1 DEF Edited
<1>5. CASE UPDATE_METADATA
  <2>1. PICK named \in BOOLEAN :
               Reduce([automation EXCEPT !.about = [rev |-> edits + 1, ok |-> named]])
    BY <1>5 DEF UPDATE_METADATA
  <2> DEFINE b == [automation EXCEPT !.about = [rev |-> edits + 1, ok |-> named]]
  <2>2. b \in Automation
    <3>1. edits + 1 \in Nat
      BY DEF EditorTypeOK
    <3> DEFINE about == [rev |-> edits + 1, ok |-> named]
    <3>2. about \in [rev : Nat, ok : BOOLEAN]
      BY <3>1
    <3> HIDE DEF about
    <3>3. [automation EXCEPT !.about = about] \in Automation
      BY <1>1, <3>2 DEF Automation
    <3> QED BY <3>3 DEF about
  <2>3. Reduce(b)
    BY <2>1
  <2> HIDE DEF b
  <2> QED BY <1>5, <2>2, <2>3, StillIs DEF Edited, UPDATE_METADATA
<1>6. CASE UPDATE_INPUT
  <2> DEFINE ix == selectedNodeId.index
             new == [ins EXCEPT ![ix] = nextId]
  <2>1. ix \in DOMAIN ins /\ Reduce([automation EXCEPT !.inputs[ix] = nextId])
    BY <1>6 DEF UPDATE_INPUT
  <2>2. Reduce([automation EXCEPT !.inputs = new])
    BY <2>1
  <2> HIDE DEF ix
  <2>3. new \in Seq(Nat)
    BY <1>1, <1>2, <2>1
  <2>4. NodeTyped' /\ nextId' \in Nat
    BY <1>6, CountIs DEF UPDATE_INPUT
  <2> HIDE DEF new
  <2> QED BY <1>3, <2>2, <2>3, <2>4
<1>7. CASE UPDATE_FUNCTION
  <2> DEFINE ix == selectedNodeId.index
  <2>1. PICK name \in FnNames : Reduce([automation EXCEPT !.functions[ix].name = name])
    BY <1>7 DEF UPDATE_FUNCTION
  <2>2. ix \in DOMAIN fns
    BY <1>7 DEF UPDATE_FUNCTION
  <2> DEFINE f == [fns[ix] EXCEPT !.name = name]
             new == [fns EXCEPT ![ix] = f]
  <2>3. Reduce([automation EXCEPT !.functions = new])
    BY <2>1
  <2> HIDE DEF ix
  <2>4. f \in F
    <3>1. fns[ix] \in F
      BY <1>1, <2>2, ElementOf
    <3> QED BY <3>1
  <2>5. new \in Seq(F)
    <3> HIDE DEF F, f
    <3> QED BY <1>1, <2>2, <2>4
  <2>6. NodeTyped' /\ nextId' \in Nat
    BY <1>7, StillIs DEF UPDATE_FUNCTION
  <2> HIDE DEF new
  <2> QED BY <1>4, <2>3, <2>5, <2>6
<1>8. CASE AddInput
  <2> DEFINE new == Append(ins, nextId)
  <2>1. Reduce([automation EXCEPT !.inputs = new])
    BY <1>8 DEF AddInput
  <2>2. new \in Seq(Nat)
    BY <1>1, <1>2, AppendIsSeq
  <2>3. NodeTyped' /\ nextId' \in Nat
    BY <1>8, CountIs DEF AddInput
  <2> HIDE DEF new
  <2> QED BY <1>3, <2>1, <2>2, <2>3
<1>9. CASE AddFunction
  <2> DEFINE f == [name |-> newFunction, steps |-> <<>>]
             new == Append(fns, f)
  <2>1. Reduce([automation EXCEPT !.functions = new])
    BY <1>9 DEF AddFunction
  <2>2. f \in F
    BY EditorAssumption
  <2>3. new \in Seq(F)
    <3> HIDE DEF F, f
    <3> QED BY <1>1, <2>2, AppendIsSeq
  <2>4. NodeTyped' /\ nextId' \in Nat
    BY <1>9, StillIs DEF AddFunction
  <2> HIDE DEF new
  <2> QED BY <1>4, <2>1, <2>3, <2>4
<1>10. CASE RemoveInput
  <2>1. PICK ix \in DOMAIN ins : Reduce([automation EXCEPT !.inputs = RemoveAt(@, ix)]) /\ Still
    BY <1>10 DEF RemoveInput
  <2> DEFINE new == RemoveAt(ins, ix)
  <2>2. Reduce([automation EXCEPT !.inputs = new])
    BY <2>1
  <2>3. new \in Seq(Nat)
    BY <1>1, RemoveAtIsSeq
  <2> HIDE DEF new
  <2> QED BY <1>3, <2>1, <2>2, <2>3, StillIs
<1>11. CASE RemoveFunction
  <2>1. PICK ix \in DOMAIN fns : Reduce([automation EXCEPT !.functions = RemoveAt(@, ix)]) /\ Still
    BY <1>11 DEF RemoveFunction
  <2> DEFINE new == RemoveAt(fns, ix)
  <2>2. Reduce([automation EXCEPT !.functions = new])
    BY <2>1
  <2>3. new \in Seq(F)
    <3> HIDE DEF F
    <3> QED BY <1>1, RemoveAtIsSeq
  <2> HIDE DEF new
  <2> QED BY <1>4, <2>1, <2>2, <2>3, StillIs
<1>12. CASE DropInput
  <2>1. PICK ix \in DOMAIN ins : Reduce([automation EXCEPT !.inputs = ToEnd(@, ix)]) /\ Still
    BY <1>12 DEF DropInput
  <2> DEFINE new == ToEnd(ins, ix)
  <2>2. Reduce([automation EXCEPT !.inputs = new])
    BY <2>1
  <2>3. new \in Seq(Nat)
    BY <1>1, ToEndIsSeq
  <2> HIDE DEF new
  <2> QED BY <1>3, <2>1, <2>2, <2>3, StillIs
<1>13. CASE DropFunction
  <2>1. PICK ix \in DOMAIN fns : Reduce([automation EXCEPT !.functions = ToEnd(@, ix)]) /\ Still
    BY <1>13 DEF DropFunction
  <2> DEFINE new == ToEnd(fns, ix)
  <2>2. Reduce([automation EXCEPT !.functions = new])
    BY <2>1
  <2>3. new \in Seq(F)
    <3> HIDE DEF F
    <3> QED BY <1>1, ToEndIsSeq
  <2> HIDE DEF new
  <2> QED BY <1>4, <2>1, <2>2, <2>3, StillIs
<1> QED BY <1>5, <1>6, <1>7, <1>8, <1>9, <1>10, <1>11, <1>12, <1>13

(* The forms of a step.                                                      *)
LEMMA StepFields ==
  ASSUME NEW sub, NEW s \in StepWith(sub)
  PROVE  /\ s.id \in Nat /\ s.kind \in Kinds /\ s.to \in Nat /\ s.fn \in FnNames \cup {""}
         /\ s.ok \in BOOLEAN /\ s.substeps \in sub
BY DEF StepWith

LEMMA RefersTo ==
  ASSUME NEW sub, NEW s \in StepWith(sub), NEW t \in Nat, NEW f \in FnNames \cup {""}
  PROVE  /\ [s EXCEPT !.to = t] \in StepWith(sub)
         /\ [s EXCEPT !.fn = f] \in StepWith(sub)
         /\ [s EXCEPT !.to = t, !.fn = f] \in StepWith(sub)
         /\ [s EXCEPT !.fn = f, !.to = t] \in StepWith(sub)
BY DEF StepWith

LEMMA HasText ==
  ASSUME NEW sub, NEW s \in StepWith(sub), NEW b \in BOOLEAN
  PROVE  [s EXCEPT !.ok = b] \in StepWith(sub)
BY DEF StepWith

LEMMA NewKindIs ==
  ASSUME NEW sub, NEW s \in StepWith(sub), NEW k \in Kinds
  PROVE  [StepOf(k, s.id) EXCEPT !.substeps = s.substeps] \in StepWith(sub)
<1> DEFINE ok == k # "aiscope"
           bare == [id |-> s.id, kind |-> k, to |-> 0, fn |-> "", ok |-> ok, substeps |-> <<>>]
<1>1. s.id \in Nat /\ s.substeps \in sub
  BY StepFields
<1>2. StepOf(k, s.id) = bare
  BY Zenon DEF StepOf
<1>3. ok \in BOOLEAN
  OBVIOUS
<1> HIDE DEF ok
<1>4. [bare EXCEPT !.substeps = s.substeps] \in StepWith(sub)
  BY <1>1, <1>3 DEF StepWith
<1> HIDE DEF bare
<1> QED BY <1>2, <1>4

LEMMA IdsAreNat == ASSUME NEW a \in Automation PROVE Ids(a) \subseteq Nat
<1> SUFFICES ASSUME NEW n \in AllNodes(a) PROVE n.id \in Nat
  BY DEF Ids
<1>1. PICK l \in ListIds(a) : n \in Nodes(StepsOf(a, l))
  BY DEF AllNodes
<1> DEFINE steps == StepsOf(a, l)
<1>2. steps \in Seq(Step)
  BY ListsAreSeq
<1> HIDE DEF steps
<1>3. n \in Nodes(steps)
  BY <1>1 DEF steps
<1>4. \A s \in ToSet(steps) : s \in Step
  BY <1>2 DEF ToSet
<1>5. CASE n \in ToSet(steps)
  BY <1>4, <1>5 DEF Step, StepWith
<1>6. CASE n \notin ToSet(steps)
  <2>1. PICK s \in ToSet(steps) : n \in ToSet(s.substeps)
    BY <1>3, <1>6 DEF Nodes
  <2>2. s.substeps \in Seq(Substep)
    BY <1>4 DEF Step, StepWith
  <2>3. n \in Substep
    BY <2>1, <2>2 DEF ToSet
  <2> QED BY <2>3 DEF Substep, StepWith
<1> QED BY <1>5, <1>6

LEMMA NamesAre == ASSUME NEW a \in Automation PROVE Names(a) \subseteq FnNames
<1> DEFINE F == [name : FnNames, steps : Seq(Step)]
<1>1. a.functions \in Seq(F)
  BY DEF Automation
<1>2. \A f \in ToSet(a.functions) : f \in F
  <2> HIDE DEF F
  <2> QED BY <1>1 DEF ToSet
<1> QED BY <1>2 DEF Names

LEMMA TopIdsAre == ASSUME NEW a \in Automation PROVE TopIds(a) \subseteq Nat
<1>1. a.steps \in Seq(Step)
  BY DEF Automation
<1>2. \A s \in ToSet(a.steps) : s \in Step
  BY <1>1 DEF ToSet
<1> QED BY <1>2 DEF TopIds, Step, StepWith

LEMMA SelectedIs ==
  ASSUME EditorTypeOK, Selected
  PROVE  /\ automation \in Automation
         /\ selectedNodeId.index \in ListIds(automation)
         /\ IsPath(selectedNodeId.path)
         /\ Resolves(StepsOf(automation, selectedNodeId.index), selectedNodeId.path)
         /\ SelectedStep \in StepAt(selectedNodeId.path)
<1>1. automation \in Automation /\ selectedNodeId.index \in ListIds(automation)
      /\ Resolves(StepsOf(automation, selectedNodeId.index), selectedNodeId.path)
  BY DEF EditorTypeOK, Selected
<1>2. IsPath(selectedNodeId.path)
  BY DEF EditorTypeOK, NodeTyped, NodeType, Selected, IsPath
<1>3. StepsOf(automation, selectedNodeId.index) \in Seq(Step)
  BY <1>1, ListsAreSeq
<1>4. SelectedStep \in StepAt(selectedNodeId.path)
  BY <1>1, <1>2, <1>3, PathLeads DEF SelectedStep
<1> QED BY <1>1, <1>2, <1>4

LEMMA FormEdits ==
  ASSUME EditorTypeOK, Selected, NEW choices, choices \subseteq StepAt(selectedNodeId.path),
         FormEdit(choices)
  PROVE  Edited
<1> DEFINE l == selectedNodeId.index
           p == selectedNodeId.path
           steps == StepsOf(automation, l)
<1>1. PICK new \in choices : Reduce(WithList(automation, l, mapStepAtPath(steps, p, new)))
  BY DEF FormEdit
<1>2. automation \in Automation /\ l \in ListIds(automation) /\ IsPath(p) /\ new \in StepAt(p)
  BY SelectedIs
<1>3. steps \in Seq(Step)
  BY <1>2, ListsAreSeq
<1>4. mapStepAtPath(steps, p, new) \in Seq(Step)
  BY <1>2, <1>3, MapIsSeq
<1>5. WithList(automation, l, mapStepAtPath(steps, p, new)) \in Automation
  BY <1>2, <1>4, WithListIsAutomation
<1>6. NodeTyped' /\ nextId' \in Nat
  BY StillIs DEF FormEdit
<1> QED BY <1>1, <1>5, <1>6 DEF Edited

LEMMA FormsEdit ==
  ASSUME EditorTypeOK,
         \/ handleTypeChange \/ GotoForm \/ CallForm \/ ConditionForm \/ AiScopeForm \/ LoopForm
         \/ FieldsForm
  PROVE  Edited
<1> DEFINE s == SelectedStep
           p == selectedNodeId.path
<1>1. Selected
  BY DEF handleTypeChange, GotoForm, CallForm, ConditionForm, AiScopeForm, LoopForm, FieldsForm, Shows
<1>2. automation \in Automation /\ s \in StepAt(p)
  BY <1>1, SelectedIs
<1>3. Ids(automation) \subseteq Nat /\ TopIds(automation) \subseteq Nat
      /\ Names(automation) \subseteq FnNames
  BY <1>2, IdsAreNat, TopIdsAre, NamesAre
<1> HIDE DEF s, p
<1>4. ASSUME NEW choices, choices \subseteq StepAt(p), FormEdit(choices) PROVE Edited
  BY <1>1, <1>4, FormEdits DEF p
<1>5. CASE handleTypeChange
  <2> DEFINE choices == {[StepOf(k, s.id) EXCEPT !.substeps = s.substeps] : k \in NewKinds \ {s.kind}}
  <2>1. FormEdit(choices)
    BY <1>5 DEF handleTypeChange, s
  <2>2. choices \subseteq StepAt(p)
    BY <1>2, NewKindIs, EditorAssumption DEF StepAt
  <2> HIDE DEF choices
  <2> QED BY <1>4, <2>1, <2>2
<1>6. CASE GotoForm
  <2> DEFINE choices == {[s EXCEPT !.to = t] : t \in {0} \cup Ids(automation)}
  <2>1. FormEdit(choices)
    BY <1>6 DEF GotoForm, s
  <2>2. \A t \in {0} \cup Ids(automation) : [s EXCEPT !.to = t] \in StepAt(p)
    BY <1>2, <1>3, RefersTo DEF StepAt
  <2>3. choices \subseteq StepAt(p)
    BY <2>2
  <2> HIDE DEF choices
  <2> QED BY <1>4, <2>1, <2>3
<1>7. CASE CallForm
  <2> DEFINE choices == {[s EXCEPT !.fn = f] : f \in Names(automation)}
  <2>1. FormEdit(choices)
    BY <1>7 DEF CallForm, s
  <2>2. \A f \in Names(automation) : [s EXCEPT !.fn = f] \in StepAt(p)
    BY <1>2, <1>3, RefersTo DEF StepAt
  <2>3. choices \subseteq StepAt(p)
    BY <2>2
  <2> HIDE DEF choices
  <2> QED BY <1>4, <2>1, <2>3
<1>8. CASE ConditionForm
  <2> DEFINE choices == Branches(s) \cup {[s EXCEPT !.ok = b] : b \in BOOLEAN}
  <2>1. FormEdit(choices)
    BY <1>8 DEF ConditionForm, s
  <2>2. choices \subseteq StepAt(p)
    <3>1. \A t \in Nat, f \in FnNames \cup {""} :
            [s EXCEPT !.to = t, !.fn = f] \in StepAt(p) /\ [s EXCEPT !.fn = f, !.to = t] \in StepAt(p)
      BY <1>2, RefersTo DEF StepAt
    <3>2. \A b \in BOOLEAN : [s EXCEPT !.ok = b] \in StepAt(p)
      BY <1>2, HasText DEF StepAt
    <3>3. Branches(s) \subseteq StepAt(p)
      <4>1. [s EXCEPT !.to = 0, !.fn = ""] \in StepAt(p)
        BY <3>1
      <4>2. \A t \in TopIds(automation) : [s EXCEPT !.to = t, !.fn = ""] \in StepAt(p)
        BY <1>3, <3>1
      <4>3. \A f \in Names(automation) : [s EXCEPT !.fn = f, !.to = 0] \in StepAt(p)
        BY <1>3, <3>1
      <4> QED BY <4>1, <4>2, <4>3 DEF Branches
    <3> QED BY <3>2, <3>3
  <2> HIDE DEF choices
  <2> QED BY <1>4, <2>1, <2>2
<1>9. CASE AiScopeForm
  <2> DEFINE choices == {[s EXCEPT !.ok = b] : b \in BOOLEAN}
  <2>1. FormEdit(choices)
    BY <1>9 DEF AiScopeForm, s
  <2>2. \A b \in BOOLEAN : [s EXCEPT !.ok = b] \in StepAt(p)
    BY <1>2, HasText DEF StepAt
  <2>3. choices \subseteq StepAt(p)
    BY <2>2
  <2> HIDE DEF choices
  <2> QED BY <1>4, <2>1, <2>3
<1>10. CASE LoopForm \/ FieldsForm
  <2> DEFINE b == ~ s.ok
             choices == {[s EXCEPT !.ok = b]}
  <2>1. FormEdit(choices)
    BY <1>10 DEF LoopForm, FieldsForm, s
  <2>2. b \in BOOLEAN
    OBVIOUS
  <2>3. choices \subseteq StepAt(p)
    <3> HIDE DEF b
    <3>1. [s EXCEPT !.ok = b] \in StepAt(p)
      BY <1>2, <2>2, HasText DEF StepAt
    <3> QED BY <3>1
  <2> HIDE DEF choices
  <2> QED BY <1>4, <2>1, <2>3
<1> QED BY <1>5, <1>6, <1>7, <1>8, <1>9, <1>10

(* The rows of the outline.                                                  *)
LEMMA PathsAre ==
  ASSUME NEW steps \in Seq(Step), NEW p \in Paths(steps)
  PROVE  IsPath(p) /\ Last(p) \in Nat \ {0}
<1>1. MaxSteps \in Nat
  BY EditorAssumption
<1>2. CASE \E ix \in DOMAIN steps : p = <<ix>>
  BY <1>2 DEF IsPath, Last
<1>3. CASE \E ix \in DOMAIN steps, j \in 1..MaxSteps : p = <<ix, j>>
  BY <1>1, <1>3 DEF IsPath, Last
<1> QED BY <1>2, <1>3 DEF Paths

LEMMA RowsAre ==
  ASSUME NEW a \in Automation, NEW r \in OutlineRows(a)
  PROVE  /\ r[1] \in ListIds(a) /\ IsPath(r[2]) /\ Last(r[2]) \in Nat \ {0}
         /\ Resolves(StepsOf(a, r[1]), r[2])
<1>1. PICK l \in ListIds(a) :
         r \in {<<l, p>> : p \in {q \in Paths(StepsOf(a, l)) :
                  /\ Resolves(StepsOf(a, l), q)
                  /\ Len(q) = 2 => StepsOf(a, l)[q[1]].kind = "loop"}}
  BY DEF OutlineRows
<1>2. PICK p \in Paths(StepsOf(a, l)) : Resolves(StepsOf(a, l), p) /\ r = <<l, p>>
  BY <1>1
<1>3. StepsOf(a, l) \in Seq(Step)
  BY ListsAreSeq
<1>4. IsPath(p) /\ Last(p) \in Nat \ {0}
  BY <1>2, <1>3, PathsAre
<1>5. r[1] = l /\ r[2] = p
  BY <1>2
<1> QED BY <1>2, <1>4, <1>5

LEMMA AppendSubstepIsSeq ==
  ASSUME NEW steps \in Seq(Step), NEW ix \in Nat, NEW new \in Substep
  PROVE  appendSubstep(steps, <<ix>>, new) \in Seq(Step)
<1> DEFINE p == <<ix>>
           s == [walkPath(steps, p) EXCEPT !.substeps = Append(@, new)]
<1>1. IsPath(p) /\ Len(p) = 1
  BY DEF IsPath
<1>2. appendSubstep(steps, p, new) = mapStepAtPath(steps, p, s)
  BY DEF appendSubstep
<1> HIDE DEF p
<1>3. CASE Resolves(steps, p)
  <2>1. walkPath(steps, p) \in Step
    BY <1>1, <1>3, PathLeads, StepAtIs
  <2>2. walkPath(steps, p).substeps \in Seq(Substep)
    BY <2>1 DEF Step, StepWith
  <2> DEFINE w == walkPath(steps, p)
             u == Append(w.substeps, new)
  <2>3. u \in Seq(Substep)
    BY <2>2, AppendIsSeq
  <2>4. s = [w EXCEPT !.substeps = u]
    OBVIOUS
  <2>5. w \in Step
    BY <2>1
  <2> HIDE DEF w, u
  <2>6. [w EXCEPT !.substeps = u] \in Step
    BY <2>3, <2>5 DEF Step, StepWith
  <2>7. s \in StepAt(p)
    BY <1>1, <2>4, <2>6, StepAtIs
  <2> HIDE DEF s
  <2> QED BY <1>1, <1>2, <2>7, MapIsSeq DEF p
<1>4. CASE ~ Resolves(steps, p)
  BY <1>2, <1>4 DEF mapStepAtPath, p
<1> QED BY <1>3, <1>4

LEMMA CopyIs ==
  ASSUME NEW p, NEW s \in StepAt(p), NEW n \in Nat
  PROVE  duplicateStep(s, n) \in StepAt(p) /\ Len(s.substeps) \in Nat
<1> DEFINE sub == SubstepsAt(p)
           old == s.substeps
           mapped == [j \in DOMAIN old |-> [old[j] EXCEPT !.id = n + j]]
           new == IF s.kind # "loop" THEN old ELSE mapped
<1>1. s \in StepWith(sub) /\ old \in sub
  BY StepFields DEF StepAt
<1>2. old \in Seq(Substep)
  <2>1. <<>> \in Seq(Substep)
    OBVIOUS
  <2>2. sub \subseteq Seq(Substep)
    BY <2>1 DEF SubstepsAt
  <2> HIDE DEF sub, old
  <2> QED BY <1>1, <2>2
<1>3. mapped \in sub
  <2>1. CASE sub = Seq(Substep)
    <3>1. \A j \in DOMAIN old : [old[j] EXCEPT !.id = n + j] \in Substep
      <4> TAKE j \in DOMAIN old
      <4>1. old[j] \in Substep
        BY <1>2, ElementOf
      <4>2. n + j \in Nat
        BY <1>2
      <4> HIDE DEF old
      <4> QED BY <4>1, <4>2 DEF Substep, StepWith
    <3>2. DOMAIN old = 1..Len(old) /\ Len(old) \in Nat
      BY <1>2
    <3> DEFINE e(j) == [old[j] EXCEPT !.id = n + j]
    <3>3. \A j \in 1..Len(old) : e(j) \in Substep
      BY <3>1, <3>2
    <3>4. mapped = [j \in 1..Len(old) |-> e(j)]
      BY <3>2
    <3> HIDE DEF e, mapped
    <3> QED BY <2>1, <3>2, <3>3, <3>4
  <2>2. CASE sub = {<<>>}
    <3>1. old = <<>>
      BY <1>1, <2>2
    <3>2. mapped = <<>>
      BY <3>1
    <3> QED BY <2>2, <3>2
  <2> QED BY <2>1, <2>2 DEF SubstepsAt
<1>4. new \in sub
  BY <1>1, <1>3
<1>5. duplicateStep(s, n) = [s EXCEPT !.id = n, !.substeps = new]
  BY DEF duplicateStep
<1> HIDE DEF new
<1>6. [s EXCEPT !.id = n, !.substeps = new] \in StepWith(sub)
  <2> HIDE DEF sub
  <2> QED BY <1>1, <1>4 DEF StepWith
<1> QED BY <1>2, <1>5, <1>6 DEF StepAt

LEMMA CopiesEdit ==
  ASSUME EditorTypeOK, NEW n,
         \A r \in n : r[1] \in ListIds(automation) /\ IsPath(r[2]),
         Copying(n)
  PROVE  Edited
<1>1. automation \in Automation /\ nextId \in Nat
  BY DEF Copying, EditorTypeOK
<1>2. PICK r \in n :
        LET steps == StepsOf(automation, r[1])
            source == walkPath(steps, r[2])
            p == [r[2] EXCEPT ![Len(r[2])] = @ + 1]
        IN  /\ Resolves(steps, r[2])
            /\ Reduce(WithList(automation, r[1],
                        insertAfter(steps, r[2], duplicateStep(source, nextId))))
            /\ selectedNodeId' = StepNode(r[1], p)
            /\ nextId' = nextId + 1 + Len(source.substeps)
  BY DEF Copying
<1> DEFINE l == r[1]
           q == r[2]
           steps == StepsOf(automation, l)
           source == walkPath(steps, q)
           copy == duplicateStep(source, nextId)
           p == [q EXCEPT ![Len(q)] = @ + 1]
<1>3. l \in ListIds(automation) /\ IsPath(q)
  OBVIOUS
<1>4. /\ Resolves(steps, q)
      /\ Reduce(WithList(automation, l, insertAfter(steps, q, copy)))
      /\ selectedNodeId' = StepNode(l, p)
      /\ nextId' = nextId + 1 + Len(source.substeps)
  BY <1>2
<1> HIDE DEF l, q
<1>5. steps \in Seq(Step)
  BY <1>1, <1>3, ListsAreSeq
<1> HIDE DEF steps
<1>6. source \in StepAt(q)
  BY <1>3, <1>4, <1>5, PathLeads
<1> HIDE DEF source
<1>7. copy \in StepAt(q) /\ Len(source.substeps) \in Nat
  BY <1>1, <1>6, CopyIs
<1> HIDE DEF copy
<1>8. insertAfter(steps, q, copy) \in Seq(Step)
  BY <1>3, <1>4, <1>5, <1>7, InsertIsSeq
<1>9. WithList(automation, l, insertAfter(steps, q, copy)) \in Automation
  BY <1>1, <1>3, <1>8, WithListIsAutomation
<1>10. p \in Seq(Nat) /\ Len(p) = Len(q) /\ l \in Nat
  <2>1. q \in Seq(Nat) /\ Len(q) \in 1..2
    BY <1>3 DEF IsPath
  <2> DEFINE k == Len(q)
             x == q[k] + 1
  <2>2. k \in DOMAIN q /\ x \in Nat
    <3>1. k \in DOMAIN q
      BY <2>1
    <3>2. q[k] \in Nat
      BY <2>1, <3>1, ElementOf
    <3> HIDE DEF k
    <3> QED BY <3>1, <3>2
  <2>3. p = [q EXCEPT ![k] = x]
    OBVIOUS
  <2>4. l \in Nat
    BY <1>3 DEF ListIds
  <2>5. q \in Seq(Nat)
    BY <2>1
  <2> HIDE DEF p, k, x
  <2>6. p \in Seq(Nat) /\ Len(p) = Len(q)
    BY <2>2, <2>3, <2>5
  <2> QED BY <2>4, <2>6
<1> HIDE DEF p
<1>11. NodeTyped'
  <2>1. selectedNodeId' = [kind |-> "step", index |-> l, path |-> p]
    BY <1>4 DEF StepNode
  <2>2. Len(p) \in {1, 2}
    BY <1>3, <1>10 DEF IsPath
  <2>3. selectedNodeId' \in NodeType /\ selectedNodeId'.path = p
    BY <1>10, <2>1 DEF NodeType
  <2> QED BY <2>2, <2>3 DEF NodeTyped
<1>12. nextId' \in Nat
  <2> DEFINE m == Len(source.substeps)
  <2>1. nextId' = nextId + 1 + m /\ m \in Nat
    BY <1>4, <1>7
  <2> HIDE DEF m
  <2> QED BY <1>1, <2>1
<1> QED BY <1>4, <1>9, <1>11, <1>12 DEF Edited

LEMMA StepsEdit ==
  ASSUME EditorTypeOK, automation # Nothing, NEW steps \in Seq(Step), NodeTyped' /\ nextId' \in Nat,
         Reduce([automation EXCEPT !.steps = steps])
  PROVE  Edited
<1> DEFINE b == [automation EXCEPT !.steps = steps]
<1>1. b \in Automation /\ Reduce(b)
  BY FormOfAutomation, WithSteps
<1> HIDE DEF b
<1> QED BY <1>1 DEF Edited

LEMMA OutlineEdits ==
  ASSUME EditorTypeOK, automation # Nothing,
         \/ AddStep \/ AddFunctionStep \/ AddSubstep \/ RemoveStep \/ DuplicateRow
         \/ DuplicateSelected \/ DropStep
  PROVE  Edited
<1>1. automation \in Automation /\ automation.steps \in Seq(Step) /\ nextId \in Nat
  BY FormOfAutomation DEF EditorTypeOK
<1>2. StepOf("plain", nextId) \in Substep /\ StepOf("plain", nextId) \in Step
  BY <1>1, NewStepIs, SubstepIsStep
<1>3. CASE AddStep
  <2> DEFINE new == Append(automation.steps, StepOf("plain", nextId))
  <2>1. Reduce([automation EXCEPT !.steps = new]) /\ NodeTyped' /\ nextId' \in Nat
    BY <1>3, CountIs DEF AddStep
  <2>2. new \in Seq(Step)
    BY <1>1, <1>2, AppendIsSeq
  <2> HIDE DEF new
  <2> QED BY <2>1, <2>2, StepsEdit
<1>4. CASE AddFunctionStep
  <2>1. PICK ix \in DOMAIN automation.functions :
          Reduce([automation EXCEPT !.functions[ix].steps = Append(@, StepOf("plain", nextId))])
    BY <1>4 DEF AddFunctionStep
  <2> DEFINE new == Append(StepsOf(automation, ix), StepOf("plain", nextId))
  <2>2. ix \in ListIds(automation) /\ ix # 0
    BY <1>1 DEF ListIds, Automation
  <2>3. new \in Seq(Step)
    BY <1>1, <1>2, <2>2, AppendIsSeq, ListsAreSeq
  <2>4. StepsOf(automation, ix) = automation.functions[ix].steps
    BY <2>2 DEF StepsOf
  <2>5. Reduce(WithList(automation, ix, new))
    BY <2>1, <2>2, <2>4 DEF WithList
  <2> HIDE DEF new
  <2>6. WithList(automation, ix, new) \in Automation
    BY <1>1, <2>2, <2>3, WithListIsAutomation
  <2>7. NodeTyped' /\ nextId' \in Nat
    BY <1>4, CountIs DEF AddFunctionStep
  <2> QED BY <2>5, <2>6, <2>7 DEF Edited
<1>5. CASE AddSubstep
  <2>1. PICK ix \in 1..MaxSteps :
          Reduce([automation EXCEPT !.steps = appendSubstep(@, <<ix>>, StepOf("plain", nextId))])
    BY <1>5 DEF AddSubstep
  <2> DEFINE new == appendSubstep(automation.steps, <<ix>>, StepOf("plain", nextId))
  <2>2. Reduce([automation EXCEPT !.steps = new]) /\ NodeTyped' /\ nextId' \in Nat
    BY <1>5, <2>1, CountIs DEF AddSubstep
  <2>3. new \in Seq(Step)
    BY <1>1, <1>2, AppendSubstepIsSeq
  <2> HIDE DEF new
  <2> QED BY <2>2, <2>3, StepsEdit
<1>6. CASE RemoveStep
  <2>1. PICK r \in OutlineRows(automation) :
          LET steps == StepsOf(automation, r[1])
              ix == Last(r[2])
          IN  Reduce(WithList(automation, r[1],
                    IF r[1] = 0 THEN removeStepAtPath(steps, r[2])
                    ELSE IF ix \in DOMAIN steps THEN RemoveAt(steps, ix) ELSE steps))
    BY <1>6 DEF RemoveStep
  <2> DEFINE l == r[1]
             p == r[2]
             ix == Last(p)
             steps == StepsOf(automation, l)
             new == IF l = 0 THEN removeStepAtPath(steps, p)
                    ELSE IF ix \in DOMAIN steps THEN RemoveAt(steps, ix) ELSE steps
  <2>2. l \in ListIds(automation) /\ IsPath(p)
    BY <1>1, RowsAre
  <2>3. Reduce(WithList(automation, l, new))
    BY <2>1
  <2> HIDE DEF l, p, ix
  <2>4. steps \in Seq(Step)
    BY <1>1, <2>2, ListsAreSeq
  <2> HIDE DEF steps
  <2>5. new \in Seq(Step)
    BY <2>2, <2>4, RemoveIsSeq, RemoveAtIsSeq
  <2> HIDE DEF new
  <2>6. WithList(automation, l, new) \in Automation
    BY <1>1, <2>2, <2>5, WithListIsAutomation
  <2> QED BY <1>6, <2>3, <2>6, StillIs DEF Edited, RemoveStep
<1>7. CASE DuplicateRow
  <2>1. \A r \in OutlineRows(automation) : r[1] \in ListIds(automation) /\ IsPath(r[2])
    BY <1>1, RowsAre
  <2> QED BY <1>7, <2>1, CopiesEdit DEF DuplicateRow
<1>8. CASE DuplicateSelected
  <2> DEFINE n == {<<selectedNodeId.index, selectedNodeId.path>>}
  <2>1. \A r \in n : r[1] \in ListIds(automation) /\ IsPath(r[2])
    BY <1>8, SelectedIs DEF DuplicateSelected
  <2>2. Copying(n)
    BY <1>8 DEF DuplicateSelected
  <2> HIDE DEF n
  <2> QED BY <2>1, <2>2, CopiesEdit
<1>9. CASE DropStep
  <2>1. PICK r, t \in OutlineRows(automation) : Drag(r[2], t[2]) /\ Still
    BY <1>9 DEF DropStep
  <2> DEFINE from == Last(r[2])
             to == Last(t[2])
             new == DragMoves(automation.steps, from, to)
  <2>2. Reduce([automation EXCEPT !.steps = new])
    BY <2>1 DEF Drag
  <2>3. from \in Nat \ {0} /\ to \in Nat \ {0}
    BY <1>1, RowsAre
  <2> HIDE DEF from, to
  <2>4. new \in Seq(Step)
    BY <1>1, <2>3, DragIsSeq
  <2> HIDE DEF new
  <2> QED BY <2>1, <2>2, <2>4, StillIs, StepsEdit
<1> QED BY <1>3, <1>4, <1>5, <1>6, <1>7, <1>8, <1>9

-------------------------------------------------------------------------------
EditorInv == EditorTypeOK /\ CleanIsKept

LEMMA NodesAre ==
  /\ NoNode \in NodeType /\ NoNode.kind = "none"
  /\ Metadata \in NodeType /\ Metadata.kind = "metadata"
  /\ \A ix \in Nat : InputNode(ix) \in NodeType /\ InputNode(ix).kind = "input"
  /\ \A ix \in Nat : FunctionNode(ix) \in NodeType /\ FunctionNode(ix).kind = "function"
<1>1. <<>> \in Seq(Nat)
  OBVIOUS
<1>2. NoNode \in NodeType /\ NoNode.kind = "none"
  BY <1>1 DEF NoNode, NodeType
<1>3. Metadata \in NodeType /\ Metadata.kind = "metadata"
  BY <1>1 DEF NoNode, NodeType, Metadata
<1>4. \A ix \in Nat : InputNode(ix) \in NodeType /\ InputNode(ix).kind = "input"
  BY <1>1 DEF NoNode, NodeType, InputNode
<1>5. \A ix \in Nat : FunctionNode(ix) \in NodeType /\ FunctionNode(ix).kind = "function"
  BY <1>1 DEF NoNode, NodeType, FunctionNode
<1> QED BY <1>2, <1>3, <1>4, <1>5

LEMMA SelectionIsNode ==
  ASSUME EditorTypeOK, SELECT_NODE
  PROVE  NodeTyped'
<1>1. automation \in Automation
  BY DEF EditorTypeOK, SELECT_NODE
<1>2. CASE selectedNodeId' = Metadata
  BY <1>2, NodesAre DEF NodeTyped
<1>3. CASE \E ix \in DOMAIN automation.inputs : selectedNodeId' = InputNode(ix)
  <2>1. automation.inputs \in Seq(Nat)
    BY <1>1 DEF Automation
  <2>2. PICK ix \in Nat : selectedNodeId' = InputNode(ix)
    BY <1>3, <2>1
  <2> QED BY <2>2, NodesAre DEF NodeTyped
<1>4. CASE \E ix \in DOMAIN automation.functions : selectedNodeId' = FunctionNode(ix)
  <2>1. DOMAIN automation.functions \subseteq Nat
    BY <1>1 DEF Automation
  <2>2. PICK ix \in Nat : selectedNodeId' = FunctionNode(ix)
    BY <1>4, <2>1
  <2> QED BY <2>2, NodesAre DEF NodeTyped
<1>5. CASE \E l \in ListIds(automation) : \E p \in Paths(StepsOf(automation, l)) :
             selectedNodeId' = StepNode(l, p)
  <2>0. PICK l \in ListIds(automation) :
          \E p \in Paths(StepsOf(automation, l)) : selectedNodeId' = StepNode(l, p)
    BY <1>5
  <2>1. PICK p \in Paths(StepsOf(automation, l)) : selectedNodeId' = StepNode(l, p)
    BY <2>0
  <2>2. StepsOf(automation, l) \in Seq(Step)
    BY <1>1, ListsAreSeq
  <2>3. IsPath(p) /\ l \in Nat
    BY <2>2, PathsAre DEF ListIds
  <2> QED BY <2>1, <2>3 DEF NodeTyped, NodeType, StepNode, IsPath
<1> QED BY <1>2, <1>3, <1>4, <1>5 DEF SELECT_NODE

LEMMA EditKeepsInv ==
  ASSUME EditorInv, Edit
  PROVE  EditorInv'
<1>1. EditorTypeOK /\ automation # Nothing
  BY DEF EditorInv, Edit
<1>2. Edited
  BY <1>1, DocumentEdits, FormsEdit, OutlineEdits DEF Edit
<1>3. PICK a \in Automation : Reduce(a)
  BY <1>2 DEF Edited
<1>4. /\ automation' = a /\ validation' = revalidate(a) /\ dirty' = TRUE /\ edits' = edits + 1
      /\ UNCHANGED <<uploadError, reading, saving, kept, overtaken, opens>>
      /\ edits + opens < MaxWork
  BY <1>3 DEF Reduce, ReduceTo
<1>5. EditorTypeOK'
  <2>1. validation' \in BOOLEAN
    BY <1>4 DEF revalidate
  <2>2. edits' \in Nat /\ opens' \in Nat /\ edits' + opens' <= MaxWork
    BY <1>1, <1>4, EditorAssumption DEF EditorTypeOK
  <2>3. NodeTyped' /\ nextId' \in Nat
    BY <1>2 DEF Edited
  <2>4. automation' \in Automation \cup {Nothing} /\ dirty' \in BOOLEAN
    BY <1>4
  <2>5. overtaken' \in BOOLEAN /\ reading' \in Files \cup {Nothing}
        /\ {uploadError', saving', kept'} \subseteq Automation \cup {Nothing}
    BY <1>1, <1>4 DEF EditorTypeOK
  <2> QED BY <2>1, <2>2, <2>3, <2>4, <2>5 DEF EditorTypeOK
<1>6. CleanIsKept'
  BY <1>4 DEF CleanIsKept
<1> QED BY <1>5, <1>6 DEF EditorInv

LEMMA LoadKeepsInv ==
  ASSUME EditorInv, NEW a \in Automation, LOAD(a),
         UNCHANGED <<saving, nextId>>, edits' \in Nat, opens' \in Nat, edits' + opens' <= MaxWork,
         uploadError' \in Automation \cup {Nothing}, reading' \in Files \cup {Nothing}
  PROVE  EditorInv'
<1>1. /\ automation' = a /\ selectedNodeId' = Metadata /\ validation' = revalidate(a)
      /\ dirty' = FALSE /\ kept' = a /\ overtaken' = FALSE
  BY DEF LOAD
<1>2. NodeTyped'
  BY <1>1, NodesAre DEF NodeTyped
<1>3. validation' \in BOOLEAN
  BY <1>1 DEF revalidate
<1>4. saving' \in Automation \cup {Nothing} /\ nextId' \in Nat
  BY DEF EditorInv, EditorTypeOK
<1>5. EditorTypeOK'
  BY <1>1, <1>2, <1>3, <1>4 DEF EditorTypeOK
<1>6. CleanIsKept'
  BY <1>1 DEF CleanIsKept
<1> QED BY <1>5, <1>6 DEF EditorInv

LEMMA FileStepKeepsInv ==
  ASSUME EditorInv, FileStep
  PROVE  EditorInv'
<1>1. EditorTypeOK /\ CleanIsKept
  BY DEF EditorInv
<1>2. newEmptyAutomation \in Automation
  BY DEF newEmptyAutomation, Automation
<1>3. ASSUME UNCHANGED <<automation, validation, dirty, kept, overtaken>> PROVE CleanIsKept'
  BY <1>1, <1>3 DEF CleanIsKept
<1>4. CASE handleNew
  <2>1. edits' \in Nat /\ opens' \in Nat /\ edits' + opens' <= MaxWork
    BY <1>1, <1>4, EditorAssumption DEF handleNew, EditorTypeOK
  <2>2. uploadError' \in Automation \cup {Nothing} /\ reading' \in Files \cup {Nothing}
    BY <1>1, <1>4 DEF handleNew, EditorTypeOK
  <2>3. LOAD(newEmptyAutomation) /\ UNCHANGED <<saving, nextId>>
    BY <1>4 DEF handleNew
  <2> HIDE DEF newEmptyAutomation
  <2> QED BY <1>2, <2>1, <2>2, <2>3, LoadKeepsInv
<1>5. CASE Upload
  <2>1. edits' \in Nat /\ opens' \in Nat /\ edits' + opens' <= MaxWork
    BY <1>1, <1>5, EditorAssumption DEF Upload, EditorTypeOK
  <2>2. reading' \in Files \cup {Nothing} /\ NodeTyped'
    BY <1>1, <1>5, NodeStays DEF Upload, state
  <2>3. EditorTypeOK'
    BY <1>1, <1>5, <2>1, <2>2 DEF Upload, EditorTypeOK, state
  <2> QED BY <1>3, <1>5, <2>3 DEF Upload, state, EditorInv
<1>6. CASE Read
  <2>1. reading \in Files /\ (reading # Text => reading \in Automation)
    BY <1>1, <1>6, EditorAssumption DEF Read, EditorTypeOK
  <2>2. /\ edits' \in Nat /\ opens' \in Nat /\ edits' + opens' <= MaxWork
        /\ reading' \in Files \cup {Nothing} /\ UNCHANGED <<saving, nextId>>
    BY <1>1, <1>6 DEF Read, EditorTypeOK
  <2>3. CASE reading # Text /\ Valid(reading)
    <3>1. LOAD(reading) /\ uploadError' = uploadError
      BY <1>6, <2>3 DEF Read
    <3>2. uploadError' \in Automation \cup {Nothing}
      BY <1>1, <3>1 DEF EditorTypeOK
    <3> QED BY <2>1, <2>2, <2>3, <3>1, <3>2, LoadKeepsInv
  <2>4. CASE ~ (reading # Text /\ Valid(reading))
    <3>1. /\ uploadError' = IF reading = Text THEN Nothing ELSE reading
          /\ UNCHANGED <<state, kept, overtaken>>
      BY <1>6, <2>4 DEF Read
    <3>2. uploadError' \in Automation \cup {Nothing} /\ NodeTyped'
      BY <1>1, <2>1, <3>1, NodeStays DEF state
    <3>3. EditorTypeOK'
      BY <1>1, <2>2, <3>1, <3>2 DEF EditorTypeOK, state
    <3> QED BY <1>3, <3>1, <3>3 DEF state, EditorInv
  <2> QED BY <2>3, <2>4
<1>7. CASE handleLoadAnyway
  <2>1. uploadError \in Automation
    BY <1>1, <1>7 DEF handleLoadAnyway, EditorTypeOK
  <2>2. /\ automation' = uploadError /\ selectedNodeId' = Metadata
        /\ validation' = revalidate(uploadError) /\ dirty' = TRUE
        /\ kept' = uploadError /\ overtaken' = FALSE /\ uploadError' = Nothing
        /\ UNCHANGED <<reading, saving, nextId, edits, opens>>
    BY <1>7 DEF handleLoadAnyway
  <2>3. NodeTyped'
    BY <2>2, NodesAre DEF NodeTyped
  <2>4. validation' \in BOOLEAN
    BY <2>2 DEF revalidate
  <2>5. EditorTypeOK'
    BY <1>1, <2>1, <2>2, <2>3, <2>4 DEF EditorTypeOK
  <2>6. CleanIsKept'
    BY <2>2 DEF CleanIsKept
  <2> QED BY <2>5, <2>6 DEF EditorInv
<1>8. CASE Dismiss \/ SaveCancelled \/ handleDownload
  <2>1. UNCHANGED <<state, reading, kept, overtaken, nextId, edits, opens>>
    BY <1>8 DEF Dismiss, SaveCancelled, handleDownload
  <2>2. {uploadError', saving'} \subseteq Automation \cup {Nothing}
    BY <1>1, <1>8 DEF Dismiss, SaveCancelled, handleDownload, EditorTypeOK
  <2>3. NodeTyped'
    BY <1>1, <2>1, NodeStays DEF state
  <2>4. EditorTypeOK'
    BY <1>1, <2>1, <2>2, <2>3 DEF EditorTypeOK, state
  <2> QED BY <1>3, <2>1, <2>4 DEF state, EditorInv
<1>9. CASE Saved
  <2>1. /\ saving' = Nothing /\ dirty' = FALSE /\ kept' = saving
        /\ overtaken' = (automation # saving)
        /\ UNCHANGED <<automation, selectedNodeId, validation, uploadError, reading, nextId, edits,
                       opens>>
    BY <1>9 DEF Saved
  <2>2. NodeTyped'
    BY <1>1, <2>1, NodeStays
  <2>3. EditorTypeOK'
    BY <1>1, <2>1, <2>2 DEF EditorTypeOK
  <2>4. CleanIsKept'
    BY <2>1 DEF CleanIsKept
  <2> QED BY <2>3, <2>4 DEF EditorInv
<1> QED BY <1>4, <1>5, <1>6, <1>7, <1>8, <1>9 DEF FileStep

LEMMA EditorInductive == EditorSpec => []EditorInv
<1>1. EditorInit => EditorInv
  <2> SUFFICES ASSUME EditorInit PROVE EditorInv
    OBVIOUS
  <2>1. NodeTyped
    BY NodesAre DEF EditorInit, NodeTyped
  <2>2. EditorTypeOK
    <3>1. edits = 0 /\ opens = 0 /\ nextId = 10 /\ MaxWork \in Nat
      BY EditorAssumption DEF EditorInit
    <3>2. edits \in Nat /\ opens \in Nat /\ nextId \in Nat /\ edits + opens <= MaxWork
      BY <3>1
    <3> QED BY <2>1, <3>2 DEF EditorInit, EditorTypeOK
  <2>3. CleanIsKept
    BY DEF EditorInit, CleanIsKept
  <2> QED BY <2>2, <2>3 DEF EditorInv
<1>2. EditorInv /\ [EditorNext]_editorVars => EditorInv'
  <2> SUFFICES ASSUME EditorInv, [EditorNext]_editorVars PROVE EditorInv'
    OBVIOUS
  <2>1. EditorTypeOK /\ CleanIsKept
    BY DEF EditorInv
  <2>2. ASSUME UNCHANGED <<automation, validation, dirty, uploadError, reading, saving, kept,
                           overtaken, nextId, edits, opens>>, NodeTyped'
        PROVE  EditorInv'
    <3>1. EditorTypeOK'
      BY <2>1, <2>2 DEF EditorTypeOK
    <3>2. CleanIsKept'
      BY <2>1, <2>2 DEF CleanIsKept
    <3> QED BY <3>1, <3>2 DEF EditorInv
  <2>3. CASE SELECT_NODE
    BY <2>1, <2>2, <2>3, SelectionIsNode DEF SELECT_NODE
  <2>4. CASE Edit
    BY <2>4, EditKeepsInv
  <2>5. CASE FileStep
    BY <2>5, FileStepKeepsInv
  <2>6. CASE UNCHANGED editorVars
    BY <2>1, <2>2, <2>6, NodeStays DEF editorVars, state
  <2> QED BY <2>3, <2>4, <2>5, <2>6 DEF EditorNext
<1> QED BY <1>1, <1>2, PTL DEF EditorSpec

(* Every edit, drag, copy and file leaves an automation of the schema's      *)
(* types, though the editor holds what the schema's checks refuse.           *)
THEOREM EditorTyped == EditorSpec => []EditorTypeOK
BY EditorInductive, PTL DEF EditorInv

(* What is not marked as unsaved is what a file or a factory gave or took    *)
(* last, unless it changed while its download was on its way.                *)
THEOREM CleanStaysKept == EditorSpec => []CleanIsKept
BY EditorInductive, PTL DEF EditorInv

(* A top-level step dropped on another takes its place, for lists of any     *)
(* length.                                                                   *)
THEOREM DragsLand == EditorSpec => DragLands
<1>1. EditorInv => Lands
  <2> SUFFICES ASSUME EditorInv, automation # Nothing,
                      NEW ix \in DOMAIN automation.steps, NEW j \in DOMAIN automation.steps,
                      Drag(<<ix>>, <<j>>)
               PROVE  automation'.steps =
                        InsertAt(RemoveAt(automation.steps, ix), j, automation.steps[ix])
    BY DEF Lands
  <2> DEFINE s == automation.steps
             t == DragMoves(s, ix, j)
  <2>1. automation \in Automation /\ s \in Seq(Step)
    BY FormOfAutomation DEF EditorInv
  <2>2. Last(<<ix>>) = ix /\ Last(<<j>>) = j
    BY DEF Last
  <2>3. automation' = [automation EXCEPT !.steps = t]
    BY <2>2 DEF Drag, Reduce, ReduceTo
  <2> HIDE DEF t
  <2>4. automation'.steps = t
    BY <2>1, <2>3 DEF Automation
  <2>5. ix \in Nat \ {0} /\ j \in Nat \ {0} /\ ix <= Len(s) /\ j <= Len(s)
    BY <2>1
  <2>6. t = Lifted(s, Cap(s, ix), Cap(s, j))
    BY <2>1, <2>5, DragLifts DEF t
  <2>7. Cap(s, ix) = ix /\ Cap(s, j) = j
    BY <2>1, <2>5, CapIs
  <2>8. Lifted(s, ix, j) = InsertAt(RemoveAt(s, ix), j, s[ix])
    BY <2>1, LiftedLands
  <2>9. t = InsertAt(RemoveAt(s, ix), j, s[ix])
    BY <2>6, <2>7, <2>8
  <2> QED BY <2>4, <2>9
<1> QED BY <1>1, EditorInductive, PTL DEF DragLands

-------------------------------------------------------------------------------
(* WebClient: the requests of any number of tabs against one session.  The   *)
(* parts of the invariant: the types; what the cookie and the tokens of the  *)
(* tabs are while the session lasts; what a save has read; what a list is an *)
(* answer to.                                                                *)

USE WebClientAssumption

Edits == {"add", "remove", "toggle", "verify", "decide"}

(* What a request has at each stage: the arguments its handler reads, what   *)
(* the server read before it writes, the answer a hook puts on show.         *)
Formed(x) ==
  /\ x.op = "save" => x.patch \in Patch
  /\ x.op \in Edits => x.row \in Rows
  /\ x.op = "toggle" => x.patch \in Row
  /\ x.op = "boot" => x.at \in {"wait", "back"}
  /\ x.at = "read" => \/ x.op = "save" /\ x.got \in Doc
                      \/ x.op \in Edits /\ x.got \in Row
  /\ x.at = "back" /\ x.status = "ok" =>
       /\ x.op \in {"load", "save"} => x.got \in Doc
       /\ x.op = "list" => x.got \in List /\ x.got.query = x.query
       /\ x.op = "toggle" => x.got \in Row

FormedCall == {x \in Call : Formed(x)}
CallInv == call \in [Tabs -> [Calls -> FormedCall \cup {None}]]
TypeInv == WebTypeOK /\ CallInv

(* The calls but one are as they were.                                       *)
Only(t, c) == \A u \in Tabs, d \in Calls : u # t \/ d # c => call'[u][d] = call[u][d]

LEMMA PutCall ==
  ASSUME CallInv, NEW t \in Tabs, NEW c \in Calls, NEW x \in FormedCall \cup {None}, Put(t, c, x)
  PROVE  CallInv' /\ call'[t][c] = x /\ Only(t, c)
BY DEF CallInv, Put, Only

LEMMA StepPuts ==
  ASSUME CallInv, NEW t \in Tabs, NEW c \in Calls, NEW where, StepTo(t, c, where)
  PROVE  Put(t, c, [call[t][c] EXCEPT !.at = where])
BY DEF CallInv, Put, StepTo

LEMMA AnswerPuts ==
  ASSUME CallInv, NEW t \in Tabs, NEW c \in Calls, NEW status, NEW got, Answer(t, c, status, got)
  PROVE  Put(t, c, [call[t][c] EXCEPT !.at = "back", !.status = status, !.got = got])
BY DEF CallInv, Put, Answer

LEMMA CallIsFormed ==
  ASSUME CallInv, NEW t \in Tabs, NEW c \in Calls, call[t][c] # None
  PROVE  call[t][c] \in Call /\ Formed(call[t][c])
BY DEF CallInv, FormedCall

(* A new call.                                                               *)
LEMMA NewIsCall ==
  ASSUME WebTypeOK, NEW t \in Tabs, NEW op \in Ops
  PROVE  /\ NewCall(t, op) \in Call
         /\ NewCall(t, op).op = op /\ NewCall(t, op).at = "out" /\ NewCall(t, op).jar = jar
         /\ NewCall(t, op).query = First
BY DEF WebTypeOK, NewCall, Call, Query, First, Ops

LEMMA StepIsCall ==
  ASSUME NEW x \in Call, NEW w \in {"out", "read", "back", "denied", "wait"}
  PROVE  [x EXCEPT !.at = w] \in Call /\ [x EXCEPT !.at = w].at = w
         /\ [x EXCEPT !.at = w].op = x.op
BY DEF Call

(* An answer keeps a request well formed if it is what its operation reads.  *)
LEMMA BackIsFormed ==
  ASSUME NEW x \in Call, Formed(x),
         NEW status \in {"ok", "conflict", "denied", "error"},
         NEW got \in Doc \cup List \cup Row \cup {None},
         status = "ok" => /\ x.op \in {"load", "save"} => got \in Doc
                          /\ x.op = "list" => got \in List /\ got.query = x.query
                          /\ x.op = "toggle" => got \in Row
  PROVE  [x EXCEPT !.at = "back", !.status = status, !.got = got] \in FormedCall
<1> DEFINE y == [x EXCEPT !.at = "back", !.status = status, !.got = got]
<1>1. y \in Call
  BY DEF Call
<1>2. /\ y.op = x.op /\ y.at = "back" /\ y.status = status /\ y.got = got /\ y.patch = x.patch
      /\ y.row = x.row /\ y.query = x.query /\ y.jar = x.jar
  BY DEF Call
<1>3. Formed(y)
  BY <1>2 DEF Formed, Edits
<1>4. QED
  BY <1>1, <1>2, <1>3 DEF FormedCall

(* So does a move to a stage at which nothing is read.                       *)
LEMMA MoveIsFormed ==
  ASSUME NEW x \in Call, Formed(x), NEW w \in {"out", "denied", "wait"}, x.op # "boot"
  PROVE  [x EXCEPT !.at = w] \in FormedCall
<1> DEFINE y == [x EXCEPT !.at = w]
<1>1. y \in Call
  BY DEF Call
<1>2. y.op = x.op /\ y.at = w /\ y.patch = x.patch /\ y.row = x.row /\ y.query = x.query
  BY DEF Call
<1>3. Formed(y)
  BY <1>2 DEF Formed, Edits
<1>4. QED
  BY <1>1, <1>2, <1>3 DEF FormedCall

LEMMA RefreshBack ==
  ASSUME NEW x \in Refresh
  PROVE  /\ [x EXCEPT !.at = "back"] \in Refresh
         /\ [x EXCEPT !.at = "back", !.ok = FALSE] \in Refresh
BY DEF Refresh

(* A request that is answered.                                               *)
Answered(t, c) ==
  /\ Only(t, c) /\ call'[t][c] # None /\ call'[t][c].at = "back"
  /\ call'[t][c].op = call[t][c].op /\ call'[t][c].query = call[t][c].query

LEMMA AnswerTypes ==
  ASSUME CallInv, NEW t \in Tabs, NEW c \in Calls, call[t][c] # None,
         NEW status \in {"ok", "conflict", "denied", "error"},
         NEW got \in Doc \cup List \cup Row \cup {None}, Answer(t, c, status, got),
         status = "ok" => /\ call[t][c].op \in {"load", "save"} => got \in Doc
                          /\ call[t][c].op = "list" =>
                               got \in List /\ got.query = call[t][c].query
                          /\ call[t][c].op = "toggle" => got \in Row
  PROVE  /\ CallInv' /\ Answered(t, c) /\ Only(t, c) /\ call'[t][c] # None
         /\ call'[t][c].op = call[t][c].op /\ call'[t][c].at = "back"
         /\ call'[t][c].status = status /\ call'[t][c].got = got
         /\ call'[t][c].jar = call[t][c].jar /\ call'[t][c].query = call[t][c].query
<1> DEFINE y == [call[t][c] EXCEPT !.at = "back", !.status = status, !.got = got]
<1>1. call[t][c] \in Call /\ Formed(call[t][c])
  BY CallIsFormed
<1>2. y \in FormedCall
  BY <1>1, BackIsFormed
<1>3. Put(t, c, y)
  BY AnswerPuts
<1>7. y.op = call[t][c].op /\ y.at = "back" /\ y.status = status
      /\ y.got = got /\ y.jar = call[t][c].jar /\ y.query = call[t][c].query
  BY <1>1 DEF Call
<1> HIDE DEF y
<1>4. CallInv' /\ Only(t, c) /\ call'[t][c] = y
  BY <1>2, <1>3, PutCall
<1>5. y # None
  BY <1>2 DEF FormedCall
<1>6. QED
  BY <1>4, <1>5, <1>7 DEF Answered

LEMMA StepTypes ==
  ASSUME CallInv, NEW t \in Tabs, NEW c \in Calls, call[t][c] # None, call[t][c].op # "boot",
         NEW w \in {"out", "denied", "wait"}, StepTo(t, c, w)
  PROVE  /\ CallInv' /\ Only(t, c) /\ call'[t][c] # None
         /\ call'[t][c].op = call[t][c].op /\ call'[t][c].at = w
         /\ call'[t][c].query = call[t][c].query
<1> DEFINE y == [call[t][c] EXCEPT !.at = w]
<1>1. call[t][c] \in Call /\ Formed(call[t][c])
  BY CallIsFormed
<1>2. y \in FormedCall
  BY <1>1, MoveIsFormed
<1>3. Put(t, c, y)
  BY StepPuts
<1>7. y.op = call[t][c].op /\ y.at = w /\ y.query = call[t][c].query
  BY <1>1 DEF Call
<1> HIDE DEF y
<1>4. CallInv' /\ Only(t, c) /\ call'[t][c] = y
  BY <1>2, <1>3, PutCall
<1>5. y # None
  BY <1>2 DEF FormedCall
<1>6. QED
  BY <1>4, <1>5, <1>7

(* CallInv gives what WebTypeOK says of the requests.                        *)
LEMMA CallInvTypes == CallInv => call \in [Tabs -> [Calls -> Call \cup {None}]]
BY DEF CallInv, FormedCall

LEMMA CallInvTypesNext == CallInv' => call' \in [Tabs -> [Calls -> Call \cup {None}]]
BY DEF CallInv, FormedCall

LEMMA AskRefreshTypes ==
  ASSUME WebTypeOK, NEW t \in Tabs, AskRefresh(t)
  PROVE  /\ refresh' \in [Tabs -> Refresh \cup {None}]
         /\ raced' \subseteq {"refresh", "logout", "save", "list", "search"}
<1>1. raced' \subseteq {"refresh", "logout", "save", "list", "search"}
  BY DEF WebTypeOK, AskRefresh, Meets
<1>2. [at |-> "out", gen |-> jar, new |-> 0, ok |-> FALSE] \in Refresh
  BY DEF WebTypeOK, Refresh
<1>3. refresh' \in [Tabs -> Refresh \cup {None}]
  <2>1. refresh' = refresh
        \/ refresh' = [refresh EXCEPT ![t] = [at |-> "out", gen |-> jar, new |-> 0, ok |-> FALSE]]
    BY DEF AskRefresh
  <2>2. QED
    BY <1>2, <2>1 DEF WebTypeOK
<1>4. QED
  BY <1>1, <1>3

LEMMA LeaveTypes ==
  ASSUME WebTypeOK, NEW t \in Tabs, Leave(t)
  PROVE  /\ user' \in [Tabs -> BOOLEAN] /\ token' \in [Tabs -> {"none", "fresh", "stale"}]
         /\ shown' \in [Tabs -> Doc \cup {None}] /\ list' \in [Tabs -> List \cup {None}]
         /\ card' \in [Tabs -> {"input", "review", "done"}]
BY DEF WebTypeOK, Leave

-----------------------------------------------------------------------------
(* Session of a tab.                                                         *)

LEMMA BootTypes ==
  ASSUME TypeInv, NEW t \in Tabs, NEW c \in Calls, Boot(t, c)
  PROVE  /\ TypeInv' /\ Only(t, c) /\ call'[t][c] # None
         /\ call'[t][c].op = "boot" /\ call'[t][c].at = "wait"
<1> DEFINE x == [NewCall(t, "boot") EXCEPT !.at = "wait"]
<1>1. NewCall(t, "boot") \in Call /\ NewCall(t, "boot").op = "boot"
  BY NewIsCall DEF TypeInv, Ops
<1>2. x \in Call /\ x.op = "boot" /\ x.at = "wait"
  BY <1>1 DEF Call
<1>3. x \in FormedCall
  BY <1>2 DEF FormedCall, Formed, Edits
<1>4. CallInv' /\ Only(t, c) /\ call'[t][c] = x /\ x # None
  BY <1>3, PutCall DEF Boot, TypeInv, FormedCall
<1>5. QED
  BY <1>2, <1>4, AskRefreshTypes, CallInvTypesNext DEF Boot, TypeInv, WebTypeOK, session, data

LEMMA NewMeIsFormed ==
  ASSUME WebTypeOK, NEW t \in Tabs, NEW op \in Ops \ (Edits \cup {"boot", "save"})
  PROVE  NewCall(t, op) \in FormedCall
BY DEF WebTypeOK, FormedCall, Formed, NewCall, Call, Query, First, Ops, Edits

LEMMA SignInTypes ==
  ASSUME TypeInv, NEW t \in Tabs, NEW c \in Calls, SignIn(t, c)
  PROVE  TypeInv'
<1> DEFINE x == [NewCall(t, "me") EXCEPT !.auth = "fresh", !.then = "callback"]
<1>1. NewCall(t, "me") \in Call /\ NewCall(t, "me").op = "me" /\ NewCall(t, "me").at = "out"
  BY NewIsCall DEF TypeInv, Ops
<1>2. x \in Call /\ x.op = "me" /\ x.at = "out"
  BY <1>1 DEF Call
<1>3. x \in FormedCall
  BY <1>2 DEF FormedCall, Formed, Edits
<1>4. CallInv'
  BY <1>3, PutCall DEF SignIn, TypeInv
<1>5. live' \subseteq 1..MaxGen /\ made' \in 1..MaxGen /\ jar' \in 0..MaxGen
  BY DEF SignIn, TypeInv, WebTypeOK
<1>6. /\ at' \in [Tabs -> {"new", "app", "callback"}]
      /\ token' \in [Tabs -> {"none", "fresh", "stale"}]
      /\ shown' \in [Tabs -> Doc \cup {None}] /\ list' \in [Tabs -> List \cup {None}]
  BY DEF SignIn, TypeInv, WebTypeOK
<1>7. QED
  BY <1>4, <1>5, <1>6, CallInvTypesNext DEF SignIn, TypeInv, WebTypeOK

LEMMA LogoutTypes ==
  ASSUME TypeInv, NEW t \in Tabs, NEW c \in Calls, Logout(t, c)
  PROVE  TypeInv'
<1>1. CallInv'
  BY NewMeIsFormed, PutCall DEF Logout, TypeInv, Ops, Edits
<1>2. QED
  BY <1>1, CallInvTypesNext DEF Logout, TypeInv, WebTypeOK, session, tab, data

LEMMA ServeRefreshTypes ==
  ASSUME TypeInv, NEW t \in Tabs, ServeRefresh(t)
  PROVE  TypeInv'
<1>1. refresh[t] \in Refresh
  BY DEF ServeRefresh, TypeInv, WebTypeOK
<1>2. refresh' \in [Tabs -> Refresh \cup {None}]
  <2>1. CASE refresh[t].gen \in live
    <3>1. [at |-> "back", gen |-> refresh[t].gen, new |-> made + 1, ok |-> TRUE] \in Refresh
      BY <1>1, <2>1 DEF ServeRefresh, TypeInv, WebTypeOK, Refresh
    <3>2. QED
      BY <2>1, <3>1 DEF ServeRefresh, TypeInv, WebTypeOK
  <2>2. CASE refresh[t].gen \notin live
    <3>1. refresh' = [refresh EXCEPT ![t] = [refresh[t] EXCEPT !.at = "back"]]
      BY <2>2 DEF ServeRefresh, TypeInv, WebTypeOK
    <3>2. QED
      BY <1>1, <3>1, RefreshBack DEF TypeInv, WebTypeOK
  <2>3. QED
    BY <2>1, <2>2
<1>3. live' \subseteq 1..MaxGen /\ made' \in 1..MaxGen
  BY DEF ServeRefresh, TypeInv, WebTypeOK
<1>4. QED
  BY <1>2, <1>3 DEF ServeRefresh, TypeInv, WebTypeOK, CallInv, data

LEMMA WokenIsFormed ==
  ASSUME TypeInv, jar' \in 0..MaxGen, NEW x \in FormedCall \cup {None}, NEW ok
  PROVE  Woken(x, ok) \in FormedCall \cup {None} /\ (x # None => Woken(x, ok) \in FormedCall)
<1>1. CASE x = None \/ x.at # "wait"
  BY <1>1 DEF Woken
<1>2. CASE x # None /\ x.at = "wait" /\ ~ok
  <2>1. x \in Call /\ Formed(x)
    BY <1>2 DEF FormedCall
  <2> DEFINE y == [x EXCEPT !.at = "back", !.status = "denied"]
  <2>2. y \in Call /\ y.at = "back" /\ y.status = "denied" /\ y.op = x.op /\ y.patch = x.patch
        /\ y.row = x.row
    BY <2>1 DEF Call
  <2>3. Formed(y)
    BY <2>1, <2>2 DEF Formed
  <2>4. QED
    BY <1>2, <2>2, <2>3 DEF FormedCall, Woken
<1>3. CASE x # None /\ x.at = "wait" /\ ok /\ x.op = "boot"
  <2>1. x \in Call /\ Formed(x)
    BY <1>3 DEF FormedCall
  <2> DEFINE y == [x EXCEPT !.op = "me", !.at = "out", !.auth = "fresh", !.then = "boot", !.jar = jar']
  <2> DEFINE z == [x EXCEPT !.op = "me", !.at = "out"]
  <2>5. z \in Call /\ z.op = "me" /\ z.at = "out"
    BY <2>1 DEF Call, Ops
  <2>6. y = [z EXCEPT !.auth = "fresh", !.then = "boot", !.jar = jar']
    BY <2>1 DEF Call
  <2> HIDE DEF z
  <2> DEFINE w == [z EXCEPT !.auth = "fresh", !.then = "boot"]
  <2>7. w \in Call /\ w.op = "me" /\ w.at = "out"
    BY <2>5 DEF Call
  <2>8. y = [w EXCEPT !.jar = jar']
    BY <2>5, <2>6 DEF Call
  <2> HIDE DEF w, y
  <2>2. y \in Call /\ y.at = "out" /\ y.op = "me"
    BY <2>7, <2>8 DEF Call
  <2>3. Formed(y)
    BY <2>2 DEF Formed, Edits
  <2>4. QED
    BY <1>3, <2>2, <2>3 DEF FormedCall, Woken, y
<1>4. CASE x # None /\ x.at = "wait" /\ ok /\ x.op # "boot"
  <2>1. x \in Call /\ Formed(x)
    BY <1>4 DEF FormedCall
  <2> DEFINE y == [x EXCEPT !.at = "out", !.auth = "fresh", !.retried = TRUE, !.jar = jar']
  <2>2. y \in Call /\ y.at = "out" /\ y.op = x.op /\ y.patch = x.patch /\ y.row = x.row
    BY <2>1 DEF Call
  <2>3. Formed(y)
    BY <1>4, <2>1, <2>2 DEF Formed, Edits
  <2>4. QED
    BY <1>4, <2>2, <2>3 DEF FormedCall, Woken
<1>5. QED
  BY <1>1, <1>2, <1>3, <1>4

LEMMA EndRefreshTypes ==
  ASSUME TypeInv, NEW t \in Tabs, EndRefresh(t)
  PROVE  TypeInv'
<1>1. refresh[t] \in Refresh
  BY DEF EndRefresh, TypeInv, WebTypeOK
<1>2. jar' \in 0..MaxGen
  BY <1>1 DEF EndRefresh, TypeInv, WebTypeOK, Refresh
<1>3. CallInv'
  BY <1>2, WokenIsFormed DEF EndRefresh, TypeInv, CallInv
<1>4. QED
  BY <1>2, <1>3, CallInvTypesNext DEF EndRefresh, TypeInv, WebTypeOK, data

LEMMA DeniedTypes ==
  ASSUME TypeInv, NEW t \in Tabs, NEW c \in Calls, Denied(t, c)
  PROVE  TypeInv'
<1>1. call[t][c] \in Call /\ Formed(call[t][c])
  BY CallIsFormed DEF Denied, TypeInv
<1>2. CASE call[t][c].retried
  <2>1. CallInv'
    BY <1>2, AnswerTypes DEF Denied, TypeInv
  <2>2. QED
    BY <1>2, <2>1, CallInvTypesNext DEF Denied, TypeInv, WebTypeOK, session, data
<1>3. CASE ~call[t][c].retried
  <2>1. CallInv'
    BY <1>1, <1>3, StepTypes DEF Denied, TypeInv, Formed
  <2>2. QED
    BY <1>3, <2>1, AskRefreshTypes, CallInvTypesNext DEF Denied, TypeInv, WebTypeOK, session, data
<1>4. QED
  BY <1>2, <1>3

LEMMA LapseTypes ==
  ASSUME TypeInv, NEW t \in Tabs, Lapse(t)
  PROVE  TypeInv'
<1>1. \A x \in FormedCall : [x EXCEPT !.auth = "stale"] \in FormedCall
  BY DEF FormedCall, Formed, Call
<1>2. CallInv'
  BY <1>1 DEF Lapse, TypeInv, CallInv
<1>3. QED
  BY <1>2, CallInvTypesNext DEF Lapse, TypeInv, WebTypeOK, session, data

-----------------------------------------------------------------------------
(* The server.                                                               *)

(* What a request is once the server has looked at it.                       *)
Served(t, c) ==
  LET x == call[t][c]
      y == call'[t][c]
  IN  /\ Only(t, c) /\ y # None /\ y.op = x.op /\ y.query = x.query
      /\ \/ y.at # "read"
         \/ x.auth = "fresh" /\ x.op # "logout" /\ (x.op = "save" => y.got = doc)
      /\ x.op = "logout" /\ x.auth = "fresh" => y.at = "back" /\ y.status = "ok"

LEMMA ServeTypes ==
  ASSUME TypeInv, NEW t \in Tabs, NEW c \in Calls, Serve(t, c)
  PROVE  TypeInv' /\ Served(t, c)
<1> DEFINE x == call[t][c]
<1>1. x \in Call /\ Formed(x)
  BY CallIsFormed DEF Serve, TypeInv
<1>2. CASE x.auth # "fresh"
  <2>1. CallInv' /\ Served(t, c)
    BY <1>1, <1>2, StepTypes DEF Serve, TypeInv, Formed, Served
  <2>2. QED
    BY <2>1, CallInvTypesNext DEF Serve, TypeInv, WebTypeOK, tab, data, Overlaps
<1>3. CASE x.auth = "fresh" /\ x.op \in {"me", "logout", "load", "list"}
  <2> DEFINE got == IF x.op = "load" THEN doc
                    ELSE IF x.op = "list" THEN [query |-> x.query, rows |-> rows] ELSE None
  <2>1. got \in Doc \cup List \cup {None} /\ (x.op = "load" => got \in Doc)
        /\ (x.op = "list" => got \in List /\ got.query = x.query)
    BY <1>1, <1>3 DEF TypeInv, WebTypeOK, List, Call
  <2>2. Answer(t, c, "ok", got)
    <3>1. CASE x.op \in {"me", "logout"}
      BY <1>3, <3>1 DEF Serve
    <3>2. CASE x.op = "load"
      BY <1>3, <3>2 DEF Serve
    <3>3. CASE x.op = "list"
      BY <1>3, <3>3 DEF Serve
    <3>4. QED
      BY <1>3, <3>1, <3>2, <3>3
  <2> HIDE DEF got
  <2>3. CallInv' /\ Served(t, c)
    BY <1>3, <2>1, <2>2, AnswerTypes DEF TypeInv, Serve, Served
  <2>4. QED
    BY <2>3, CallInvTypesNext DEF Serve, TypeInv, WebTypeOK, tab, data, Overlaps
<1>4. CASE x.auth = "fresh" /\ x.op \notin {"me", "logout", "load", "list"}
  <2> DEFINE got == IF x.op = "save" THEN doc ELSE [row |-> rows[x.row]]
             y == [x EXCEPT !.at = "read", !.got = got]
  <2>1. x.op = "save" \/ x.op \in Edits
    BY <1>1, <1>4 DEF Call, Ops, Edits, Formed, Serve
  <2>2. IF x.op = "save" THEN got \in Doc ELSE got \in Row
    BY <1>1, <1>4, <2>1 DEF TypeInv, WebTypeOK, Row, Formed, Edits
  <2>3. /\ y \in FormedCall /\ y.op = x.op /\ y.at = "read" /\ y.got = got
        /\ y.query = x.query
    <3>1. y \in Call
      BY <1>1, <2>2 DEF Call
    <3>2. y.op = x.op /\ y.at = "read" /\ y.got = got /\ y.patch = x.patch /\ y.row = x.row
          /\ y.query = x.query
      BY <1>1 DEF Call
    <3>3. Formed(y)
      BY <1>1, <2>1, <2>2, <3>2 DEF Formed, Edits
    <3>4. QED
      BY <3>1, <3>2, <3>3 DEF FormedCall
  <2>4. call' = [call EXCEPT ![t][c].at = "read", ![t][c].got = got]
    BY <1>4 DEF Serve
  <2>5. Put(t, c, y)
    BY <2>4 DEF Put, TypeInv, CallInv
  <2> HIDE DEF y
  <2>6. CallInv' /\ Only(t, c) /\ call'[t][c] = y /\ y # None
    BY <2>3, <2>5, PutCall DEF TypeInv, FormedCall
  <2>8. Served(t, c)
    BY <1>4, <2>3, <2>6 DEF Served
  <2>7. QED
    BY <2>6, <2>8, CallInvTypesNext DEF Serve, TypeInv, WebTypeOK, tab, data, Overlaps
<1>5. QED
  BY <1>2, <1>3, <1>4

LEMMA MergedIsDoc ==
  ASSUME WebTypeOK, NEW old \in Doc, NEW p \in Patch, doc.version < MaxVersion
  PROVE  Merged(old, p) \in Doc
<1>1. old.one \in 0..1 /\ old.group \subseteq Items /\ doc.version + 1 \in 1..MaxVersion
  BY DEF WebTypeOK, Doc
<1>2. p.one \in {0, 1, None} /\ p.group \in (SUBSET Items) \cup {None}
  BY DEF Patch
<1>3. (IF p.one = None THEN old.one ELSE p.one) \in 0..1
  BY <1>1, <1>2
<1>4. (IF p.group = None THEN old.group ELSE old.group \cup p.group) \in SUBSET Items
  <2>1. CASE p.group = None
    BY <1>1, <2>1
  <2>2. CASE p.group # None
    <3>1. p.group \in SUBSET Items
      BY <1>2, <2>2
    <3>2. QED
      BY <1>1, <2>2, <3>1
  <2>3. QED
    BY <2>1, <2>2
<1>5. QED
  BY <1>1, <1>3, <1>4 DEF Merged, Doc

LEMMA PatchSettingsTypes ==
  ASSUME TypeInv, NEW t \in Tabs, NEW c \in Calls, PatchSettings(t, c)
  PROVE  TypeInv' /\ Answered(t, c)
<1> DEFINE x == call[t][c]
<1>1. x \in Call /\ Formed(x)
  BY CallIsFormed DEF PatchSettings, TypeInv
<1>2. x.op = "save" /\ x.at = "read" /\ x.got \in Doc /\ x.patch \in Patch
  BY <1>1 DEF PatchSettings, Formed, Edits
<1>3. CASE x.seen # x.got.version
  <2>1. CallInv' /\ Answered(t, c)
    BY <1>3, AnswerTypes DEF PatchSettings, TypeInv
  <2>2. QED
    BY <1>3, <2>1, CallInvTypesNext DEF PatchSettings, TypeInv, WebTypeOK, session, tab
<1>4. CASE x.seen = x.got.version
  <2>1. doc' \in Doc /\ Answer(t, c, "ok", doc')
    BY <1>2, <1>4, MergedIsDoc DEF PatchSettings, TypeInv
  <2>2. CallInv' /\ Answered(t, c)
    BY <1>2, <2>1, AnswerTypes DEF PatchSettings, TypeInv
  <2>3. QED
    BY <2>1, <2>2, CallInvTypesNext DEF PatchSettings, TypeInv, WebTypeOK, session, tab
<1>5. QED
  BY <1>3, <1>4

LEMMA WriteRowTypes ==
  ASSUME TypeInv, NEW t \in Tabs, NEW c \in Calls, WriteRow(t, c)
  PROVE  TypeInv' /\ Answered(t, c)
<1> DEFINE x == call[t][c]
<1>1. x \in Call /\ Formed(x)
  BY CallIsFormed DEF WriteRow, TypeInv
<1>2. x.op \in Edits /\ x.at = "read" /\ x.row \in Rows
  BY <1>1 DEF WriteRow, Formed
<1>3. CASE \E new \in Status : rows' = [rows EXCEPT ![x.row] = new]
                              /\ Answer(t, c, "ok", [row |-> new])
  <2>1. PICK new \in Status : rows' = [rows EXCEPT ![x.row] = new]
                              /\ Answer(t, c, "ok", [row |-> new])
    BY <1>3
  <2>2. [row |-> new] \in Row
    BY DEF Row
  <2>3. CallInv' /\ Answered(t, c)
    BY <1>2, <2>1, <2>2, AnswerTypes DEF TypeInv, WriteRow, Edits
  <2>4. QED
    BY <2>1, <2>3, CallInvTypesNext DEF WriteRow, TypeInv, WebTypeOK, session, tab
<1>4. CASE Answer(t, c, "error", None) /\ UNCHANGED rows
  <2>1. CallInv' /\ Answered(t, c)
    BY <1>4, AnswerTypes DEF TypeInv, WriteRow
  <2>2. QED
    BY <1>4, <2>1, CallInvTypesNext DEF WriteRow, TypeInv, WebTypeOK, session, tab
<1>5. QED
  BY <1>3, <1>4 DEF WriteRow

LEMMA CleanupTokensTypes ==
  ASSUME TypeInv, NEW r \in Rows, CleanupTokens(r)
  PROVE  TypeInv'
BY DEF CleanupTokens, TypeInv, WebTypeOK, CallInv, Status, session, tab

LEMMA LostTypes ==
  ASSUME TypeInv, NEW t \in Tabs, NEW c \in Calls, Lost(t, c)
  PROVE  TypeInv' /\ Answered(t, c)
<1>1. CallInv' /\ Answered(t, c)
  BY AnswerTypes DEF Lost, TypeInv
<1>2. QED
  BY <1>1, CallInvTypesNext DEF Lost, TypeInv, WebTypeOK, session, tab, data

LEMMA LostRefreshTypes ==
  ASSUME TypeInv, NEW t \in Tabs, LostRefresh(t)
  PROVE  TypeInv'
<1>1. refresh' = [refresh EXCEPT ![t] = [refresh[t] EXCEPT !.at = "back", !.ok = FALSE]]
      /\ refresh[t] \in Refresh
  BY DEF LostRefresh, TypeInv, WebTypeOK
<1>2. refresh' \in [Tabs -> Refresh \cup {None}]
  BY <1>1, RefreshBack DEF TypeInv, WebTypeOK
<1>3. faults' \in 0..MaxFaults
  BY DEF LostRefresh, TypeInv, WebTypeOK
<1>4. QED
  BY <1>2, <1>3 DEF LostRefresh, TypeInv, WebTypeOK, CallInv, session, data

-----------------------------------------------------------------------------
(* Pages.                                                                    *)

LEMMA LoadSettingsTypes ==
  ASSUME TypeInv, NEW t \in Tabs, NEW c \in Calls, LoadSettings(t, c)
  PROVE  TypeInv'
<1>1. CallInv'
  BY NewMeIsFormed, PutCall DEF LoadSettings, TypeInv, Ops, Edits
<1>2. QED
  BY <1>1, CallInvTypesNext DEF LoadSettings, TypeInv, WebTypeOK, session, tab, data

LEMMA SaveTypes ==
  ASSUME TypeInv, NEW t \in Tabs, NEW c \in Calls, NEW one \in {0, 1, None},
         NEW group \in (SUBSET Items) \cup {None}, Save(t, c, one, group)
  PROVE  /\ TypeInv' /\ Only(t, c) /\ call'[t][c] # None
         /\ call'[t][c].op = "save" /\ call'[t][c].at = "out"
<1> DEFINE n == NewCall(t, "save")
           p == [one |-> one, group |-> group]
           x == [n EXCEPT !.patch = p, !.seen = shown[t].version]
<1>1. n \in Call /\ n.op = "save" /\ n.at = "out"
  BY NewIsCall DEF TypeInv, Ops
<1>2. p \in Patch /\ shown[t].version \in 0..MaxVersion
  BY DEF Patch, Save, TypeInv, WebTypeOK, Doc
<1>3. Put(t, c, x)
  BY DEF Save
<1> HIDE DEF n, p
<1>4. x \in Call /\ x.op = "save" /\ x.at = "out" /\ x.patch = p
  BY <1>1, <1>2 DEF Call
<1>5. x \in FormedCall
  BY <1>2, <1>4 DEF FormedCall, Formed, Edits
<1> HIDE DEF x
<1>6. CallInv' /\ Only(t, c) /\ call'[t][c] = x /\ x # None
  BY <1>3, <1>5, PutCall DEF TypeInv, FormedCall
<1>7. QED
  BY <1>4, <1>6, CallInvTypesNext DEF Save, TypeInv, WebTypeOK, session, tab, data

LEMMA BrowseTypes ==
  ASSUME TypeInv, NEW t \in Tabs, NEW c \in Calls, NEW q \in Query, Browse(t, c, q)
  PROVE  /\ TypeInv' /\ Only(t, c) /\ call'[t][c] # None
         /\ call'[t][c].op = "list" /\ call'[t][c].at = "out" /\ call'[t][c].query = q
<1> DEFINE n == NewCall(t, "list")
           x == [n EXCEPT !.query = q]
<1>1. n \in Call /\ n.op = "list" /\ n.at = "out"
  BY NewIsCall DEF TypeInv, Ops
<1>2. Put(t, c, x)
  BY DEF Browse
<1> HIDE DEF n
<1>3. x \in Call /\ x.op = "list" /\ x.at = "out" /\ x.query = q
  BY <1>1 DEF Call
<1>4. x \in FormedCall
  BY <1>3 DEF FormedCall, Formed, Edits
<1> HIDE DEF x
<1>5. CallInv' /\ Only(t, c) /\ call'[t][c] = x /\ x # None
  BY <1>2, <1>4, PutCall DEF TypeInv, FormedCall
<1>6. want' \in [Tabs -> Query] /\ raced' \subseteq {"refresh", "logout", "save", "list", "search"}
  BY DEF Browse, TypeInv, WebTypeOK, MixesList
<1>7. QED
  BY <1>3, <1>5, <1>6, CallInvTypesNext DEF Browse, TypeInv, WebTypeOK, session, tab

LEMMA EditTableTypes ==
  ASSUME TypeInv, NEW t \in Tabs, NEW c \in Calls, NEW op \in {"add", "remove"}, NEW r \in Rows,
         EditTable(t, c, op, r)
  PROVE  /\ TypeInv' /\ Only(t, c) /\ call'[t][c] # None
         /\ call'[t][c].op = op /\ call'[t][c].at = "out"
         /\ call'[t][c].query = [page |-> list[t].query.page, search |-> FALSE]
<1> DEFINE n == NewCall(t, op)
           q == [page |-> list[t].query.page, search |-> FALSE]
           x == [n EXCEPT !.row = r, !.query = q]
<1>1. n \in Call /\ n.op = op /\ n.at = "out"
  BY NewIsCall DEF TypeInv, Ops
<1>2. q \in Query
  BY DEF EditTable, TypeInv, WebTypeOK, List, Query
<1>3. Put(t, c, x)
  BY DEF EditTable
<1> HIDE DEF n, q
<1>4. x \in Call /\ x.op = op /\ x.at = "out" /\ x.row = r /\ x.query = q
  BY <1>1, <1>2 DEF Call
<1>5. x \in FormedCall
  BY <1>4 DEF FormedCall, Formed
<1> HIDE DEF x
<1>6. CallInv' /\ Only(t, c) /\ call'[t][c] = x /\ x # None
  BY <1>3, <1>5, PutCall DEF TypeInv, FormedCall
<1>7. raced' \subseteq {"refresh", "logout", "save", "list", "search"}
  BY DEF EditTable, TypeInv, WebTypeOK, MixesList
<1>8. QED
  BY <1>4, <1>6, <1>7, CallInvTypesNext DEF q, EditTable, TypeInv, WebTypeOK, session, tab, data

LEMMA ToggleActiveTypes ==
  ASSUME TypeInv, NEW t \in Tabs, NEW c \in Calls, NEW r \in Rows, ToggleActive(t, c, r)
  PROVE  /\ TypeInv' /\ Only(t, c) /\ call'[t][c] # None
         /\ call'[t][c].op = "toggle" /\ call'[t][c].at = "out"
<1> DEFINE n == NewCall(t, "toggle")
           p == [row |-> IF list[t].rows[r] = "live" THEN "revoked" ELSE "live"]
           x == [n EXCEPT !.row = r, !.patch = p]
<1>1. n \in Call /\ n.op = "toggle" /\ n.at = "out"
  BY NewIsCall DEF TypeInv, Ops
<1>2. p \in Row
  BY DEF Row, Status
<1>3. Put(t, c, x)
  BY DEF ToggleActive
<1> HIDE DEF n, p
<1>4. x \in Call /\ x.op = "toggle" /\ x.at = "out" /\ x.row = r /\ x.patch = p
  BY <1>1, <1>2 DEF Call
<1>5. x \in FormedCall
  BY <1>2, <1>4 DEF FormedCall, Formed
<1> HIDE DEF x
<1>6. CallInv' /\ Only(t, c) /\ call'[t][c] = x /\ x # None
  BY <1>3, <1>5, PutCall DEF TypeInv, FormedCall
<1>7. QED
  BY <1>4, <1>6, CallInvTypesNext DEF ToggleActive, TypeInv, WebTypeOK, session, tab, data

LEMMA CodeTypes ==
  ASSUME TypeInv, NEW t \in Tabs, NEW c \in Calls, NEW r \in Rows,
         VerifyCode(t, c, r) \/ DecideCode(t, c, r)
  PROVE  /\ TypeInv' /\ Only(t, c) /\ call'[t][c] # None
         /\ call'[t][c].op \in {"verify", "decide"} /\ call'[t][c].at = "out"
<1> PICK op \in {"verify", "decide"} : Put(t, c, [NewCall(t, op) EXCEPT !.row = r])
  BY DEF VerifyCode, DecideCode
<1> DEFINE n == NewCall(t, op)
           x == [n EXCEPT !.row = r]
<1>1. n \in Call /\ n.op = op /\ n.at = "out"
  BY NewIsCall DEF TypeInv, Ops
<1>2. Put(t, c, x)
  OBVIOUS
<1> HIDE DEF n
<1>3. x \in Call /\ x.op = op /\ x.at = "out" /\ x.row = r
  BY <1>1 DEF Call
<1>4. x \in FormedCall
  BY <1>3 DEF FormedCall, Formed
<1> HIDE DEF x
<1>5. CallInv' /\ Only(t, c) /\ call'[t][c] = x /\ x # None
  BY <1>2, <1>4, PutCall DEF TypeInv, FormedCall
<1>6. QED
  BY <1>3, <1>5, CallInvTypesNext DEF VerifyCode, DecideCode, TypeInv, WebTypeOK, session, tab, data

-----------------------------------------------------------------------------
(* Answers reach the hooks.                                                  *)

LEMMA EndTypes ==
  ASSUME TypeInv, NEW t \in Tabs, NEW c \in Calls, End(t, c)
  PROVE  CallInv' /\ call'[t][c] = None /\ Only(t, c)
BY PutCall DEF End, TypeInv

LEMMA EndMeTypes ==
  ASSUME TypeInv, NEW t \in Tabs, NEW c \in Calls, EndMe(t, c)
  PROVE  TypeInv'
<1>1. CallInv'
  BY EndTypes DEF EndMe
<1>2. /\ user' \in [Tabs -> BOOLEAN] /\ token' \in [Tabs -> {"none", "fresh", "stale"}]
      /\ shown' \in [Tabs -> Doc \cup {None}] /\ list' \in [Tabs -> List \cup {None}]
      /\ card' \in [Tabs -> {"input", "review", "done"}]
  <2>1. CASE call[t][c].status = "denied"
    BY <2>1, LeaveTypes DEF EndMe, TypeInv
  <2>2. CASE call[t][c].status = "ok"
    BY <2>2 DEF EndMe, TypeInv, WebTypeOK
  <2>3. CASE call[t][c].status \notin {"ok", "denied"}
    BY <2>3 DEF EndMe, TypeInv, WebTypeOK
  <2>4. QED
    BY <2>1, <2>2, <2>3
<1>3. loading' \in [Tabs -> BOOLEAN]
  BY DEF EndMe, TypeInv, WebTypeOK
<1>4. QED
  BY <1>1, <1>2, <1>3, CallInvTypesNext DEF EndMe, TypeInv, WebTypeOK, session

LEMMA EndCallbackTypes ==
  ASSUME TypeInv, NEW t \in Tabs, NEW c \in Calls, EndCallback(t, c)
  PROVE  /\ TypeInv' /\ Only(t, c)
         /\ \/ call'[t][c] # None /\ call'[t][c].op = "boot" /\ call'[t][c].at = "wait"
            \/ call'[t][c] = None
<1>1. CASE call[t][c].status = "ok"
  <2> DEFINE n == NewCall(t, "boot")
             x == [n EXCEPT !.at = "wait"]
  <2>1. n \in Call /\ n.op = "boot"
    BY NewIsCall DEF TypeInv, Ops
  <2>2. Put(t, c, x)
    BY <1>1 DEF EndCallback
  <2> HIDE DEF n
  <2>3. x \in Call /\ x.op = "boot" /\ x.at = "wait"
    BY <2>1 DEF Call
  <2>4. x \in FormedCall
    BY <2>3 DEF FormedCall, Formed, Edits
  <2>5. CallInv' /\ Only(t, c) /\ call'[t][c] = x /\ x # None
    BY <2>2, <2>4, PutCall DEF TypeInv, FormedCall
  <2>6. /\ user' \in [Tabs -> BOOLEAN] /\ at' \in [Tabs -> {"new", "app", "callback"}]
    BY <1>1 DEF EndCallback, TypeInv, WebTypeOK
  <2>7. QED
    BY <1>1, <2>3, <2>5, <2>6, AskRefreshTypes, CallInvTypesNext DEF EndCallback, TypeInv, WebTypeOK, session
<1>2. CASE call[t][c].status # "ok"
  <2>1. CallInv' /\ Only(t, c) /\ call'[t][c] = None
    BY <1>2, EndTypes DEF EndCallback
  <2>2. /\ loading' \in [Tabs -> BOOLEAN] /\ at' \in [Tabs -> {"new", "app", "callback"}]
    BY <1>2 DEF EndCallback, TypeInv, WebTypeOK
  <2>3. QED
    BY <1>2, <2>1, <2>2, LeaveTypes, CallInvTypesNext DEF EndCallback, TypeInv, WebTypeOK, session
<1>3. QED
  BY <1>1, <1>2

LEMMA EndBootTypes ==
  ASSUME TypeInv, NEW t \in Tabs, NEW c \in Calls, EndBoot(t, c)
  PROVE  TypeInv'
<1>1. CallInv'
  BY EndTypes DEF EndBoot
<1>2. QED
  BY <1>1, CallInvTypesNext DEF EndBoot, TypeInv, WebTypeOK, session, data

LEMMA EndLogoutTypes ==
  ASSUME TypeInv, NEW t \in Tabs, NEW c \in Calls, EndLogout(t, c)
  PROVE  TypeInv'
<1>1. CallInv'
  BY EndTypes DEF EndLogout
<1>2. jar' \in 0..MaxGen
  BY DEF EndLogout, TypeInv, WebTypeOK
<1>3. QED
  BY <1>1, <1>2, LeaveTypes, CallInvTypesNext DEF EndLogout, TypeInv, WebTypeOK

LEMMA ShowTypes ==
  ASSUME TypeInv, NEW t \in Tabs, NEW c \in Calls, Back(t, c, "load") \/ Back(t, c, "save"),
         Show(t, call[t][c])
  PROVE  shown' \in [Tabs -> Doc \cup {None}]
<1>1. Formed(call[t][c])
  BY CallIsFormed DEF TypeInv, Back
<1>2. call[t][c].status = "ok" => call[t][c].got \in Doc
  BY <1>1 DEF Formed, Back
<1>3. QED
  BY <1>2 DEF Show, TypeInv, WebTypeOK

LEMMA EndLoadTypes ==
  ASSUME TypeInv, NEW t \in Tabs, NEW c \in Calls, EndLoad(t, c)
  PROVE  TypeInv'
<1>1. CallInv'
  BY EndTypes DEF EndLoad
<1>2. shown' \in [Tabs -> Doc \cup {None}]
  BY ShowTypes DEF EndLoad
<1>3. QED
  BY <1>1, <1>2, CallInvTypesNext DEF EndLoad, TypeInv, WebTypeOK, session, tab

LEMMA EndSaveTypes ==
  ASSUME TypeInv, NEW t \in Tabs, NEW c \in Calls, EndSave(t, c)
  PROVE  TypeInv'
<1>1. CallInv'
  <2>1. Put(t, c, NewCall(t, "load")) \/ Put(t, c, NewCall(t, "me")) \/ End(t, c)
    BY DEF EndSave
  <2>2. QED
    BY <2>1, NewMeIsFormed, PutCall, EndTypes DEF TypeInv, Ops, Edits
<1>2. shown' \in [Tabs -> Doc \cup {None}]
  BY ShowTypes DEF EndSave
<1>3. QED
  BY <1>1, <1>2, CallInvTypesNext DEF EndSave, TypeInv, WebTypeOK, session, tab

LEMMA EndListTypes ==
  ASSUME TypeInv, NEW t \in Tabs, NEW c \in Calls, EndList(t, c)
  PROVE  TypeInv'
<1>1. CallInv'
  BY EndTypes DEF EndList
<1>2. Formed(call[t][c]) /\ call[t][c].at = "back" /\ call[t][c].op = "list"
  BY CallIsFormed DEF TypeInv, Back, EndList
<1>3. call[t][c].status = "ok" => call[t][c].got \in List
  BY <1>2 DEF Formed
<1>4. [query |-> IF list[t] = None THEN First ELSE list[t].query, rows |-> [r \in Rows |-> "none"]]
        \in List
  BY DEF TypeInv, WebTypeOK, List, Query, First, Status
<1>5. list' \in [Tabs -> List \cup {None}]
  BY <1>3, <1>4 DEF EndList, TypeInv, WebTypeOK
<1>6. raced' \subseteq {"refresh", "logout", "save", "list", "search"}
  BY DEF EndList, TypeInv, WebTypeOK
<1>7. QED
  BY <1>1, <1>5, <1>6, CallInvTypesNext DEF EndList, TypeInv, WebTypeOK, session, tab

LEMMA EndEditTypes ==
  ASSUME TypeInv, NEW t \in Tabs, NEW c \in Calls, EndEdit(t, c)
  PROVE  /\ TypeInv' /\ Only(t, c)
         /\ IF call[t][c].status = "ok"
            THEN /\ call'[t][c] # None /\ call'[t][c].op = "list" /\ call'[t][c].at = "out"
                 /\ call'[t][c].query = call[t][c].query
            ELSE call'[t][c] = None
<1>1. /\ CallInv' /\ Only(t, c)
      /\ IF call[t][c].status = "ok"
         THEN /\ call'[t][c] # None /\ call'[t][c].op = "list" /\ call'[t][c].at = "out"
              /\ call'[t][c].query = call[t][c].query
         ELSE call'[t][c] = None
  <2>1. CASE call[t][c].status = "ok"
    <3> DEFINE n == NewCall(t, "list")
               x == [n EXCEPT !.query = call[t][c].query]
    <3>1. n \in Call /\ n.op = "list" /\ n.at = "out"
      BY NewIsCall DEF TypeInv, Ops
    <3>2. Put(t, c, x)
      BY <2>1 DEF EndEdit
    <3>3. call[t][c].query \in Query
      BY CallIsFormed DEF TypeInv, EndEdit, Back, Call
    <3> HIDE DEF n
    <3>4. x \in Call /\ x.op = "list" /\ x.at = "out" /\ x.query = call[t][c].query
      BY <3>1, <3>3 DEF Call
    <3>5. x \in FormedCall
      BY <3>4 DEF FormedCall, Formed, Edits
    <3> HIDE DEF x
    <3>6. CallInv' /\ Only(t, c) /\ call'[t][c] = x /\ x # None
      BY <3>2, <3>5, PutCall DEF TypeInv, FormedCall
    <3>7. QED
      BY <2>1, <3>4, <3>6
  <2>2. CASE call[t][c].status # "ok"
    BY <2>2, EndTypes DEF EndEdit
  <2>3. QED
    BY <2>1, <2>2
<1>2. raced' \subseteq {"refresh", "logout", "save", "list", "search"}
  BY DEF EndEdit, TypeInv, WebTypeOK
<1>3. QED
  BY <1>1, <1>2, CallInvTypesNext DEF EndEdit, TypeInv, WebTypeOK, session, tab, data

LEMMA EndToggleTypes ==
  ASSUME TypeInv, NEW t \in Tabs, NEW c \in Calls, EndToggle(t, c)
  PROVE  TypeInv'
<1>1. CallInv'
  BY EndTypes DEF EndToggle
<1>2. Formed(call[t][c]) /\ call[t][c].at = "back" /\ call[t][c].op = "toggle"
  BY CallIsFormed DEF TypeInv, Back, EndToggle
<1>3. call[t][c].status = "ok" => call[t][c].got \in Row
  BY <1>2 DEF Formed
<1>4. list' \in [Tabs -> List \cup {None}]
  <2>1. CASE call[t][c].status # "ok" \/ list[t] = None
    BY <2>1 DEF EndToggle, TypeInv, WebTypeOK
  <2>2. CASE call[t][c].status = "ok" /\ list[t] # None
    <3>1. list[t] \in List /\ call[t][c].got.row \in Status
      BY <1>3, <2>2 DEF TypeInv, WebTypeOK, Row
    <3> DEFINE rs == [list[t].rows EXCEPT ![call[t][c].row] =
                        IF @ = "none" THEN @ ELSE call[t][c].got.row]
               l == [list[t] EXCEPT !.rows = rs]
    <3>2. list' = [list EXCEPT ![t] = l]
      BY <2>2 DEF EndToggle, TypeInv, WebTypeOK
    <3>3. rs \in [Rows -> Status]
      BY <3>1 DEF List
    <3> HIDE DEF rs
    <3>4. l \in List
      BY <3>1, <3>3 DEF List
    <3> HIDE DEF l
    <3>5. QED
      BY <3>2, <3>4 DEF TypeInv, WebTypeOK
  <2>3. QED
    BY <2>1, <2>2
<1>5. QED
  BY <1>1, <1>4, CallInvTypesNext DEF EndToggle, TypeInv, WebTypeOK, session, tab

LEMMA EndCodeTypes ==
  ASSUME TypeInv, NEW t \in Tabs, NEW c \in Calls, EndCode(t, c)
  PROVE  TypeInv'
<1>1. CallInv'
  BY EndTypes DEF EndCode
<1>2. card' \in [Tabs -> {"input", "review", "done"}]
  BY DEF EndCode, TypeInv, WebTypeOK
<1>3. QED
  BY <1>1, <1>2, CallInvTypesNext DEF EndCode, TypeInv, WebTypeOK, session, data

-----------------------------------------------------------------------------
(* The session, the saves and the lists.                                     *)

Held(u) == refresh[u] # None /\ refresh[u].at = "back" /\ refresh[u].ok
LeftWith(x) == x # None /\ x.op = "logout" /\ x.at = "back" /\ x.status = "ok"

(* While nothing was lost and no refresh met another or a logout: tokens on  *)
(* their way are of different rotations, one that waits for the server is    *)
(* accepted by it, and one that comes back is accepted and in no other       *)
(* hands.                                                                    *)
GensMade ==
  /\ live \subseteq 1..made /\ jar <= made
  /\ \A u \in Tabs : refresh[u] # None => refresh[u].gen <= made /\ refresh[u].new <= made
GensApart ==
  \A u, v \in Tabs : u # v /\ refresh[u] # None /\ refresh[v] # None
                     => refresh[u].gen # refresh[v].gen \/ refresh[u].gen = 0
OutIsLive ==
  \A u \in Tabs : refresh[u] # None /\ refresh[u].at = "out"
                  => ~refresh[u].ok /\ refresh[u].gen \in live \cup {0}
HeldIsLive ==
  \A u \in Tabs : Held(u) =>
    /\ refresh[u].new \in live /\ refresh[u].gen # 0 /\ refresh[u].new # jar
    /\ \A v \in Tabs : refresh[v] # None => refresh[v].gen # refresh[u].new
    /\ \A v \in Tabs : v # u /\ Held(v) => refresh[v].new # refresh[u].new
JarStands ==
  \/ jar \in live \cup {0}
  \/ \E u \in Tabs : Held(u) /\ refresh[u].gen = jar
  \/ \E u \in Tabs, d \in Calls : LeftWith(call[u][d])

SessionInv ==
  \/ faults > 0 \/ "refresh" \in raced \/ "logout" \in raced
  \/ GensMade /\ GensApart /\ OutIsLive /\ HeldIsLive /\ JarStands

(* While no two saves overlap, the one that has looked at the row saw what   *)
(* it still is.                                                              *)
Looked(x) == x # None /\ x.op = "save" /\ x.at = "read"
SaveInv ==
  \/ "save" \in raced
  \/ \A t \in Tabs, c \in Calls : Looked(call[t][c]) =>
       /\ call[t][c].got = doc
       /\ \A u \in Tabs, d \in Calls : Looked(call[u][d]) => u = t /\ d = c

(* While no two fetches overlap and none fails, the one on its way is for    *)
(* the page and the search on show, and so is the list unless one is on its  *)
(* way.                                                                      *)
Fetch == {"list", "add", "remove"}
Fetches(x) == x # None /\ x.op \in Fetch
Fits(t, q) == q.page = want[t].page /\ (q.search = want[t].search \/ "search" \in raced)
ListInv ==
  \/ "list" \in raced
  \/ \A t \in Tabs :
       /\ ~user[t] => list[t] = None
       /\ \A c, d \in Calls : Fetches(call[t][c]) /\ Fetches(call[t][d]) => c = d
       /\ \A c \in Calls : Fetches(call[t][c]) => Fits(t, call[t][c].query)
       /\ \/ list[t] = None
          \/ Fits(t, list[t].query)
          \/ \E c \in Calls : call[t][c] # None /\ call[t][c].op = "list"

(* What a step does to a request where the invariants do not mind: no answer *)
(* to a logout goes, no save has looked anew, no fetch begins, changes or    *)
(* ends.                                                                     *)
Kept(x, y) ==
  /\ LeftWith(x) => LeftWith(y)
  /\ Looked(y) => Looked(x) /\ y.got = x.got
  /\ Fetches(y) => Fetches(x) /\ y.query = x.query
  /\ x # None /\ x.op = "list" => y # None /\ y.op = "list"

AllKept == \A u \in Tabs, d \in Calls : Kept(call[u][d], call'[u][d])

LEMMA KeptSame == \A x : Kept(x, x)
BY DEF Kept

LEMMA OnlyKept ==
  ASSUME NEW t \in Tabs, NEW c \in Calls, Only(t, c), Kept(call[t][c], call'[t][c])
  PROVE  AllKept
BY KeptSame DEF AllKept, Only

(* A request that reads nothing of a list is kept until its answer is        *)
(* handled, and one that no list and no save is can begin and end.           *)
LEMMA KeptNew ==
  ASSUME NEW y, y # None, y.op \notin Fetch, y.at # "read"
  PROVE  Kept(None, y)
BY DEF Kept, LeftWith, Looked, Fetches, Fetch

LEMMA KeptOver ==
  ASSUME NEW x, x # None, x.op \notin Fetch \cup {"logout"}
  PROVE  /\ Kept(x, None)
         /\ \A y : y.op \notin Fetch /\ y.at # "read" => Kept(x, y)
BY DEF Kept, LeftWith, Looked, Fetches, Fetch

LEMMA KeptMoved ==
  ASSUME NEW x, NEW y, x # None, y # None, y.op = x.op, y.query = x.query, y.at # "read",
         x.at # "back"
  PROVE  Kept(x, y)
BY DEF Kept, LeftWith, Looked, Fetches

LEMMA SessionQuiet ==
  ASSUME SessionInv, UNCHANGED <<session, refresh>>, raced \subseteq raced',
         faults > 0 => faults' > 0, AllKept
  PROVE  SessionInv'
<1>1. CASE faults > 0 \/ "refresh" \in raced \/ "logout" \in raced
  BY <1>1 DEF SessionInv
<1>2. CASE GensMade /\ GensApart /\ OutIsLive /\ HeldIsLive /\ JarStands
  <2>1. GensMade' /\ GensApart' /\ OutIsLive'
    BY <1>2 DEF GensMade, GensApart, OutIsLive, session
  <2>2. HeldIsLive'
    BY <1>2 DEF HeldIsLive, Held, session
  <2>3. JarStands'
    BY <1>2 DEF JarStands, Held, session, AllKept, Kept
  <2>4. QED
    BY <2>1, <2>2, <2>3 DEF SessionInv
<1>3. QED
  BY <1>1, <1>2 DEF SessionInv

LEMMA SaveQuiet ==
  ASSUME SaveInv, doc' = doc, raced \subseteq raced', AllKept
  PROVE  SaveInv'
BY DEF SaveInv, AllKept, Kept

(* The list itself may be forgotten, or have a row of it changed.            *)
LEMMA ListQuiet ==
  ASSUME ListInv, want' = want, raced \subseteq raced', AllKept,
         \A u \in Tabs : ~user'[u] => list'[u] = None,
         \A u \in Tabs : \/ list'[u] = None
                         \/ list[u] # None /\ list'[u].query = list[u].query
  PROVE  ListInv'
<1>1. CASE "list" \in raced
  BY <1>1 DEF ListInv
<1>2. ASSUME "list" \notin raced, NEW t \in Tabs
      PROVE  /\ ~user'[t] => list'[t] = None
             /\ \A c, d \in Calls : Fetches(call'[t][c]) /\ Fetches(call'[t][d]) => c = d
             /\ \A c \in Calls : Fetches(call'[t][c]) => Fits(t, call[t][c].query)'
             /\ \/ list'[t] = None
                \/ Fits(t, list[t].query)'
                \/ \E c \in Calls : call'[t][c] # None /\ call'[t][c].op = "list"
  <2>0. \A q : Fits(t, q) => Fits(t, q)'
    BY DEF Fits
  <2>1. \A c \in Calls : Fetches(call'[t][c]) =>
          Fetches(call[t][c]) /\ call'[t][c].query = call[t][c].query
    BY DEF AllKept, Kept
  <2>2. \A c, d \in Calls : Fetches(call'[t][c]) /\ Fetches(call'[t][d]) => c = d
    BY <1>2, <2>1 DEF ListInv
  <2>3. ASSUME NEW c \in Calls, Fetches(call'[t][c])
        PROVE  Fits(t, call[t][c].query)'
    BY <1>2, <2>1, <2>3 DEF ListInv, Fits
  <2>4. \/ list'[t] = None
        \/ Fits(t, list[t].query)'
        \/ \E c \in Calls : call'[t][c] # None /\ call'[t][c].op = "list"
    <3>1. CASE Fits(t, list[t].query)
      BY <3>1 DEF Fits
    <3>2. CASE \E c \in Calls : call[t][c] # None /\ call[t][c].op = "list"
      BY <3>2 DEF AllKept, Kept
    <3>3. CASE list'[t] = None \/ list[t] = None
      BY <3>3
    <3>4. QED
      BY <1>2, <3>1, <3>2, <3>3 DEF ListInv
  <2>5. QED
    BY <2>2, <2>3, <2>4
<1>3. CASE "list" \notin raced
  BY <1>2, <1>3 DEF ListInv
<1>4. QED
  BY <1>1, <1>3

WebInv == TypeInv /\ SessionInv /\ SaveInv /\ ListInv

(* A step that keeps the requests and touches none of what the invariants    *)
(* are about.                                                                *)
LEMMA QuietStep ==
  ASSUME WebInv, TypeInv', AllKept,
         UNCHANGED <<session, refresh, doc, want>>, raced \subseteq raced', faults' = faults,
         \A u \in Tabs : ~user'[u] => list'[u] = None,
         \A u \in Tabs : \/ list'[u] = None
                         \/ list[u] # None /\ list'[u].query = list[u].query
  PROVE  WebInv'
BY SessionQuiet, SaveQuiet, ListQuiet DEF WebInv

(* What the user of a tab is and what its list is, when neither changes or   *)
(* both are gone.                                                            *)
LEMMA UserKept ==
  ASSUME WebInv, NEW t \in Tabs, UNCHANGED <<user, list>> \/ Leave(t)
  PROVE  \/ "list" \in raced
         \/ /\ \A u \in Tabs : ~user'[u] => list'[u] = None
            /\ \A u \in Tabs : \/ list'[u] = None
                               \/ list[u] # None /\ list'[u].query = list[u].query
<1>1. ASSUME NEW u \in Tabs
      PROVE  \/ user'[u] = user[u] /\ list'[u] = list[u]
             \/ ~user'[u] /\ list'[u] = None
  <2>1. user \in [Tabs -> BOOLEAN] /\ list \in [Tabs -> List \cup {None}]
    BY DEF WebInv, TypeInv, WebTypeOK
  <2>2. CASE UNCHANGED <<user, list>>
    BY <2>2
  <2>3. CASE user' = [user EXCEPT ![t] = FALSE] /\ list' = [list EXCEPT ![t] = None]
    <3>1. CASE u = t
      BY <2>1, <2>3, <3>1
    <3>2. CASE u # t
      BY <2>1, <2>3, <3>2
    <3>3. QED
      BY <3>1, <3>2
  <2>4. QED
    BY <2>2, <2>3 DEF Leave
<1>2. "list" \notin raced => \A u \in Tabs : ~user[u] => list[u] = None
  BY DEF WebInv, ListInv
<1>3. QED
  BY <1>1, <1>2

LEMMA ListFailed ==
  ASSUME ListInv, "list" \in raced, raced \subseteq raced'
  PROVE  ListInv'
BY DEF ListInv

LEMMA QuietTab ==
  ASSUME WebInv, TypeInv', NEW t \in Tabs, AllKept, UNCHANGED <<user, list>> \/ Leave(t),
         UNCHANGED <<session, refresh, doc, want>>, raced \subseteq raced', faults' = faults
  PROVE  WebInv'
<1>1. CASE "list" \in raced
  BY <1>1, ListFailed, SessionQuiet, SaveQuiet DEF WebInv
<1>2. CASE "list" \notin raced
  BY <1>2, QuietStep, UserKept
<1>3. QED
  BY <1>1, <1>2

(* A user acts: a request that is no fetch of a list is made.                *)
LEMMA ActKept ==
  ASSUME TypeInv, NEW t \in Tabs, NEW c \in Calls, call[t][c] = None,
         NEW y \in FormedCall, Put(t, c, y), y.op \notin Fetch, y.at # "read"
  PROVE  AllKept
<1>1. Only(t, c) /\ call'[t][c] = y /\ y # None
  BY PutCall DEF TypeInv, FormedCall
<1>2. QED
  BY <1>1, KeptNew, OnlyKept

LEMMA LogoutKeeps ==
  ASSUME WebInv, NEW t \in Tabs, NEW c \in Calls, Logout(t, c)
  PROVE  WebInv'
<1>1. NewCall(t, "logout") \in FormedCall
  BY NewMeIsFormed DEF WebInv, TypeInv, Ops, Edits
<1>2. NewCall(t, "logout").op = "logout" /\ NewCall(t, "logout").at = "out"
  BY DEF NewCall
<1>3. AllKept
  BY <1>1, <1>2, ActKept DEF WebInv, Logout, Asks, Fetch
<1>4. TypeInv'
  BY LogoutTypes DEF WebInv
<1>5. QED
  BY <1>3, <1>4, QuietTab DEF Logout, session, tab, data

LEMMA LoadSettingsKeeps ==
  ASSUME WebInv, NEW t \in Tabs, NEW c \in Calls, LoadSettings(t, c)
  PROVE  WebInv'
<1>1. NewCall(t, "load") \in FormedCall
  BY NewMeIsFormed DEF WebInv, TypeInv, Ops, Edits
<1>2. NewCall(t, "load").op = "load" /\ NewCall(t, "load").at = "out"
  BY DEF NewCall
<1>3. AllKept
  BY <1>1, <1>2, ActKept DEF WebInv, LoadSettings, Asks, Fetch
<1>4. TypeInv'
  BY LoadSettingsTypes DEF WebInv
<1>5. QED
  BY <1>3, <1>4, QuietTab DEF LoadSettings, session, tab, data

LEMMA SaveKeeps ==
  ASSUME WebInv, NEW t \in Tabs, NEW c \in Calls, NEW one \in {0, 1, None},
         NEW group \in (SUBSET Items) \cup {None}, Save(t, c, one, group)
  PROVE  WebInv'
<1>1. /\ TypeInv' /\ Only(t, c) /\ call'[t][c] # None
      /\ call'[t][c].op = "save" /\ call'[t][c].at = "out"
  BY SaveTypes DEF WebInv
<1>2. AllKept
  BY <1>1, KeptNew, OnlyKept DEF Save, Asks, Fetch
<1>3. QED
  BY <1>1, <1>2, QuietTab DEF Save, session, tab, data

LEMMA ToggleActiveKeeps ==
  ASSUME WebInv, NEW t \in Tabs, NEW c \in Calls, NEW r \in Rows, ToggleActive(t, c, r)
  PROVE  WebInv'
<1>1. /\ TypeInv' /\ Only(t, c) /\ call'[t][c] # None
      /\ call'[t][c].op = "toggle" /\ call'[t][c].at = "out"
  BY ToggleActiveTypes DEF WebInv
<1>2. AllKept
  BY <1>1, KeptNew, OnlyKept DEF ToggleActive, Asks, Fetch
<1>3. QED
  BY <1>1, <1>2, QuietTab DEF ToggleActive, session, tab, data

LEMMA CodeKeeps ==
  ASSUME WebInv, NEW t \in Tabs, NEW c \in Calls, NEW r \in Rows,
         VerifyCode(t, c, r) \/ DecideCode(t, c, r)
  PROVE  WebInv'
<1>1. /\ TypeInv' /\ Only(t, c) /\ call'[t][c] # None
      /\ call'[t][c].op \in {"verify", "decide"} /\ call'[t][c].at = "out"
  BY CodeTypes DEF WebInv
<1>2. AllKept
  BY <1>1, KeptNew, OnlyKept DEF VerifyCode, DecideCode, Asks, Fetch
<1>3. QED
  BY <1>1, <1>2, QuietTab DEF VerifyCode, DecideCode, session, tab, data

(* What two more steps do to the session.                                    *)
LEMMA AskKeeps ==
  ASSUME WebInv, TypeInv', NEW t \in Tabs, AskRefresh(t), UNCHANGED session,
         faults' = faults, AllKept
  PROVE  SessionInv'
<1>1. CASE faults > 0 \/ "refresh" \in raced \/ "logout" \in raced
  BY <1>1 DEF SessionInv, AskRefresh
<1>2. CASE refresh[t] # None
  BY <1>2, SessionQuiet DEF AskRefresh, WebInv
<1>3. CASE Meets(t) # {}
  BY <1>2, <1>3 DEF SessionInv, AskRefresh, Meets
<1>4. CASE /\ refresh[t] = None /\ Meets(t) = {}
           /\ GensMade /\ GensApart /\ OutIsLive /\ HeldIsLive /\ JarStands
  <2> DEFINE n == [at |-> "out", gen |-> jar, new |-> 0, ok |-> FALSE]
  <2>1. refresh' = [refresh EXCEPT ![t] = n] /\ refresh' \in [Tabs -> Refresh \cup {None}]
        /\ refresh \in [Tabs -> Refresh \cup {None}]
    BY <1>4 DEF AskRefresh, WebInv, TypeInv, WebTypeOK
  <2>2. refresh'[t] = n /\ \A u \in Tabs : u # t => refresh'[u] = refresh[u]
    BY <2>1
  <2>3. n # None /\ n.at = "out" /\ n.gen = jar /\ n.new = 0 /\ ~n.ok
    <3>1. n \in Refresh
      BY DEF WebInv, TypeInv, WebTypeOK, Refresh
    <3>2. QED
      BY <3>1
  <2> HIDE DEF n
  <2>4. \A u \in Tabs : u # t /\ refresh[u] # None => refresh[u].gen # jar \/ jar = 0
    BY <1>4 DEF Meets
  <2>5. ~\E u \in Tabs, d \in Calls : LeftWith(call[u][d])
    BY <1>4 DEF Meets, LeftWith, Under
  <2>6. jar \in live \cup {0}
    BY <1>4, <2>4, <2>5 DEF JarStands, HeldIsLive, Held
  <2>7. made \in Nat /\ jar \in Nat
    BY DEF WebInv, TypeInv, WebTypeOK
  <2>8. GensMade'
    BY <1>4, <2>2, <2>3, <2>7 DEF GensMade, session
  <2>9. GensApart'
    BY <1>4, <2>2, <2>3, <2>4 DEF GensApart, session
  <2>10. OutIsLive'
    BY <1>4, <2>2, <2>3, <2>6 DEF OutIsLive, session
  <2>11. \A u \in Tabs : Held(u)' => u # t /\ Held(u)
    BY <2>2, <2>3 DEF Held
  <2>12. HeldIsLive'
    BY <1>4, <2>2, <2>3, <2>11 DEF HeldIsLive, session
  <2>13. JarStands'
    BY <2>6 DEF JarStands, session
  <2>14. QED
    BY <2>8, <2>9, <2>10, <2>12, <2>13 DEF SessionInv
<1>5. QED
  BY <1>1, <1>2, <1>3, <1>4 DEF WebInv, SessionInv

LEMMA BootKeeps ==
  ASSUME WebInv, NEW t \in Tabs, NEW c \in Calls, Boot(t, c)
  PROVE  WebInv'
<1>1. /\ TypeInv' /\ Only(t, c) /\ call'[t][c] # None
      /\ call'[t][c].op = "boot" /\ call'[t][c].at = "wait"
  BY BootTypes DEF WebInv
<1>2. AllKept
  BY <1>1, KeptNew, OnlyKept DEF Boot, Fetch
<1>3. SessionInv'
  BY <1>1, <1>2, AskKeeps DEF Boot
<1>4. raced \subseteq raced'
  BY DEF Boot, AskRefresh
<1>5. SaveInv'
  BY <1>2, <1>4, SaveQuiet DEF Boot, WebInv, data
<1>6. ListInv'
  <2>1. UNCHANGED <<user, list>>
    BY DEF Boot, data
  <2>2. CASE "list" \in raced
    BY <2>2, <1>4, ListFailed DEF WebInv
  <2>3. CASE "list" \notin raced
    BY <2>1, <2>3, <1>2, <1>4, UserKept, ListQuiet DEF Boot, WebInv, data
  <2>4. QED
    BY <2>2, <2>3
<1>7. QED
  BY <1>1, <1>3, <1>5, <1>6 DEF WebInv

LEMMA SignInKeeps ==
  ASSUME WebInv, NEW t \in Tabs, NEW c \in Calls, SignIn(t, c)
  PROVE  WebInv'
<1>1. TypeInv'
  BY SignInTypes DEF WebInv
<1>2. call[t][c] = None
  BY CallIsFormed DEF WebInv, TypeInv, SignIn, Under, Call
<1>3. Only(t, c) /\ call'[t][c].op = "me" /\ call'[t][c].at = "out"
  BY DEF SignIn, WebInv, TypeInv, CallInv, Put, Only, NewCall
<1>4. AllKept
  BY <1>2, <1>3, OnlyKept DEF Kept, LeftWith, Looked, Fetches, Fetch
<1>5. SaveInv'
  BY <1>4, SaveQuiet DEF SignIn, WebInv
<1>6. ListInv'
  <2>1. ASSUME NEW u \in Tabs
        PROVE  list'[u] = list[u] \/ list'[u] = None
    BY DEF SignIn, WebInv, TypeInv, WebTypeOK
  <2>2. CASE "list" \in raced
    BY <2>2, ListFailed DEF SignIn, WebInv
  <2>3. CASE "list" \notin raced
    BY <2>1, <2>3, <1>4, ListQuiet DEF SignIn, WebInv, ListInv
  <2>4. QED
    BY <2>2, <2>3
<1>7. SessionInv'
  <2>1. CASE faults > 0 \/ "refresh" \in raced \/ "logout" \in raced
    BY <2>1 DEF SignIn, SessionInv
  <2>2. CASE GensMade /\ GensApart /\ OutIsLive /\ HeldIsLive /\ JarStands
    <3>0. made \in Nat /\ refresh' = refresh /\ made' = made + 1
          /\ live' = live \cup {made + 1} /\ jar' = made + 1
      BY DEF SignIn, WebInv, TypeInv, WebTypeOK
    <3>9. \A u \in Tabs : refresh[u] # None => refresh[u] \in Refresh
      BY DEF WebInv, TypeInv, WebTypeOK
    <3>1. GensMade'
      BY <2>2, <3>0, <3>9 DEF GensMade, Refresh
    <3>2. GensApart' /\ OutIsLive'
      BY <2>2, <3>0 DEF GensApart, OutIsLive
    <3>3. HeldIsLive'
      BY <2>2, <3>0, <3>9 DEF HeldIsLive, Held, GensMade, Refresh
    <3>4. JarStands'
      BY <3>0 DEF JarStands
    <3>5. QED
      BY <3>1, <3>2, <3>3, <3>4 DEF SessionInv
  <2>3. QED
    BY <2>1, <2>2 DEF WebInv, SessionInv
<1>8. QED
  BY <1>1, <1>5, <1>6, <1>7 DEF WebInv

LEMMA ServeRefreshKeeps ==
  ASSUME WebInv, NEW t \in Tabs, ServeRefresh(t)
  PROVE  WebInv'
<1>1. TypeInv'
  BY ServeRefreshTypes DEF WebInv
<1>2. AllKept
  BY KeptSame DEF ServeRefresh, AllKept
<1>3. SaveInv'
  BY <1>2, SaveQuiet DEF ServeRefresh, WebInv, data
<1>4. ListInv'
  <2>1. CASE "list" \in raced
    BY <2>1, ListFailed DEF ServeRefresh, WebInv
  <2>2. CASE "list" \notin raced
    BY <2>2, <1>2, UserKept, ListQuiet DEF ServeRefresh, WebInv, data
  <2>3. QED
    BY <2>1, <2>2
<1>5. SessionInv'
  <2>1. CASE faults > 0 \/ "refresh" \in raced \/ "logout" \in raced
    BY <2>1 DEF ServeRefresh, SessionInv
  <2>2. CASE GensMade /\ GensApart /\ OutIsLive /\ HeldIsLive /\ JarStands
    <3> DEFINE g == refresh[t].gen
    <3>1. /\ refresh \in [Tabs -> Refresh \cup {None}] /\ made \in Nat /\ jar \in Nat
          /\ live \subseteq Nat /\ 0 \notin live /\ jar' = jar
          /\ refresh[t] \in Refresh /\ refresh[t] # None /\ refresh[t].at = "out"
          /\ refresh' \in [Tabs -> Refresh \cup {None}]
      BY <1>1 DEF ServeRefresh, WebInv, TypeInv, WebTypeOK
    <3>2. ~refresh[t].ok /\ g \in live \cup {0}
      BY <2>2, <3>1 DEF OutIsLive
    <3>3. \A u \in Tabs : u # t => refresh'[u] = refresh[u]
      BY <3>1 DEF ServeRefresh
    <3>4. CASE g \in live
      <4>1. /\ made' = made + 1 /\ live' = (live \ {g}) \cup {made + 1}
            /\ refresh'[t] = [at |-> "back", gen |-> g, new |-> made + 1, ok |-> TRUE]
        BY <3>1, <3>4 DEF ServeRefresh
      <4>2. refresh'[t] # None /\ refresh'[t].at = "back" /\ refresh'[t].gen = g
            /\ refresh'[t].new = made + 1 /\ refresh'[t].ok
        <5>1. [at |-> "back", gen |-> g, new |-> made + 1, ok |-> TRUE] \in Refresh
          <6>1. made' \in 1..MaxGen
            BY <1>1 DEF TypeInv, WebTypeOK
          <6>2. made + 1 \in 0..MaxGen /\ g \in 0..MaxGen
            BY <3>1, <4>1, <6>1 DEF Refresh
          <6>3. QED
            BY <6>2 DEF Refresh
        <5> DEFINE r == [at |-> "back", gen |-> g, new |-> made + 1, ok |-> TRUE]
        <5>2. r # None /\ r.at = "back" /\ r.gen = g /\ r.new = made + 1 /\ r.ok
          BY <5>1
        <5>3. refresh'[t] = r
          BY <4>1
        <5> HIDE DEF r
        <5>4. QED
          BY <5>2, <5>3
      <4> HIDE DEF g
      <4>3. g # 0 /\ g <= made /\ g \in Nat
        BY <3>1, <3>4, <2>2 DEF GensMade
      <4>4. \A u \in Tabs : refresh[u] # None => refresh[u] \in Refresh
        BY <3>1
      <4>5. \A u \in Tabs : u # t /\ refresh[u] # None => refresh[u].gen # g
        BY <2>2, <3>1, <4>3 DEF GensApart, g
      <4>6. GensMade'
        BY <2>2, <3>1, <3>3, <4>1, <4>2, <4>3, <4>4 DEF GensMade, Refresh
      <4>7. GensApart'
        BY <2>2, <3>1, <3>3, <4>2, <4>5 DEF GensApart
      <4>8. OutIsLive'
        BY <2>2, <3>3, <4>1, <4>2, <4>5 DEF OutIsLive
      <4>9. HeldIsLive'
        <5>1. \A u \in Tabs : u # t => Held(u)' = Held(u)
          BY <3>3 DEF Held
        <5>2. \A u \in Tabs : u # t /\ Held(u) => refresh[u].new # g
          BY <2>2, <3>1 DEF HeldIsLive, g
        <5>3. \A u \in Tabs : refresh[u] # None => refresh[u].gen <= made /\ refresh[u].new <= made
              /\ refresh[u].gen \in Nat /\ refresh[u].new \in Nat
          BY <2>2, <4>4 DEF GensMade, Refresh
        <5>4. jar <= made
          BY <2>2 DEF GensMade
        <5>5. ASSUME NEW u \in Tabs, u # t, Held(u)
              PROVE  /\ refresh[u].new \in live' /\ refresh[u].gen # 0 /\ refresh[u].new # jar
                     /\ \A v \in Tabs : refresh'[v] # None => refresh'[v].gen # refresh[u].new
                     /\ \A v \in Tabs : v # u /\ Held(v)' => refresh'[v].new # refresh[u].new
          <6>1. refresh[u] # None
            BY <5>5 DEF Held
          <6>2. refresh[u].new \in live' /\ refresh[u].gen # 0 /\ refresh[u].new # jar
            BY <2>2, <5>5, <5>2, <4>1 DEF HeldIsLive
          <6>3. \A v \in Tabs : refresh'[v] # None => refresh'[v].gen # refresh[u].new
            BY <2>2, <5>5, <5>2, <3>3, <4>2 DEF HeldIsLive
          <6>4. \A v \in Tabs : v # u /\ Held(v)' => refresh'[v].new # refresh[u].new
            BY <2>2, <5>5, <5>1, <5>3, <6>1, <3>1, <3>3, <4>2 DEF HeldIsLive
          <6>5. QED
            BY <6>2, <6>3, <6>4
        <5>6. /\ made + 1 \in live' /\ g # 0 /\ made + 1 # jar
              /\ \A v \in Tabs : refresh'[v] # None => refresh'[v].gen # made + 1
              /\ \A v \in Tabs : v # t /\ Held(v)' => refresh'[v].new # made + 1
          BY <3>1, <3>3, <4>1, <4>2, <4>3, <5>3, <5>4 DEF Held
        <5>7. QED
          BY <3>1, <3>3, <4>2, <5>1, <5>5, <5>6 DEF HeldIsLive
      <4>10. JarStands'
        <5>1. CASE jar = g
          BY <5>1, <3>1, <4>2 DEF JarStands, Held
        <5>2. CASE jar # g /\ jar \in live \cup {0}
          BY <5>2, <3>1, <4>1 DEF JarStands
        <5>3. ASSUME NEW u \in Tabs, Held(u), refresh[u].gen = jar
              PROVE  JarStands'
          BY <5>3, <3>1, <3>2, <3>3 DEF JarStands, Held
        <5>4. CASE \E u \in Tabs, d \in Calls : LeftWith(call[u][d])
          BY <5>4 DEF JarStands, ServeRefresh
        <5>5. QED
          BY <2>2, <5>1, <5>2, <5>3, <5>4 DEF JarStands
      <4>11. QED
        BY <4>6, <4>7, <4>8, <4>9, <4>10 DEF SessionInv
    <3>5. CASE g = 0
      <4>1. made' = made /\ live' = live /\ refresh'[t] = [refresh[t] EXCEPT !.at = "back"]
        BY <3>1, <3>5 DEF ServeRefresh
      <4>2. refresh'[t] # None /\ refresh'[t].at = "back" /\ refresh'[t].gen = 0
            /\ refresh'[t].new = refresh[t].new /\ ~refresh'[t].ok
        <5>1. [refresh[t] EXCEPT !.at = "back"] \in Refresh
          BY <3>1, RefreshBack
        <5>2. QED
          <6> DEFINE r == [refresh[t] EXCEPT !.at = "back"]
          <6>1. r.at = "back" /\ r.gen = refresh[t].gen /\ r.new = refresh[t].new
                /\ ~r.ok
            BY <3>1, <3>2 DEF Refresh
          <6>2. r # None
            BY <5>1
          <6> HIDE DEF r
          <6>3. refresh'[t] = r
            BY <4>1 DEF r
          <6>4. QED
            BY <3>5, <6>1, <6>2, <6>3
      <4>8. \A u \in Tabs : refresh'[u] # None =>
               refresh[u] # None /\ refresh'[u].gen = refresh[u].gen
               /\ refresh'[u].new = refresh[u].new
        BY <3>1, <3>3, <3>5, <4>2
      <4>3. GensMade'
        BY <2>2, <3>1, <4>1, <4>8 DEF GensMade
      <4>4. GensApart'
        BY <2>2, <3>3, <4>2 DEF GensApart
      <4>5. OutIsLive'
        BY <2>2, <3>3, <4>1, <4>2 DEF OutIsLive
      <4>6. \A u \in Tabs : Held(u)' = Held(u)
        BY <3>1, <3>2, <3>3, <4>2 DEF Held
      <4>7. HeldIsLive'
        BY <2>2, <3>1, <4>1, <4>6, <4>8 DEF HeldIsLive, Held
      <4>9. JarStands'
        BY <2>2, <3>1, <4>1, <4>6, <4>8 DEF JarStands, Held, ServeRefresh
      <4>10. QED
        BY <4>3, <4>4, <4>5, <4>7, <4>9 DEF SessionInv
    <3>6. QED
      BY <3>2, <3>4, <3>5
  <2>3. QED
    BY <2>1, <2>2 DEF WebInv, SessionInv
<1>6. QED
  BY <1>1, <1>3, <1>4, <1>5 DEF WebInv

LEMMA EndRefreshKeeps ==
  ASSUME WebInv, NEW t \in Tabs, EndRefresh(t)
  PROVE  WebInv'
<1>1. TypeInv'
  BY EndRefreshTypes DEF WebInv
<1>2. AllKept
  <2>1. ASSUME NEW x \in FormedCall \cup {None}, NEW ok
        PROVE  Kept(x, Woken(x, ok))
    <3>1. CASE x = None \/ x.at # "wait"
      BY <3>1, KeptSame DEF Woken
    <3>2. CASE x # None /\ x.at = "wait"
      <4>1. x \in Call /\ x # None /\ x.at # "back" /\ x.at # "read"
        BY <3>2 DEF FormedCall
      <4>2. Woken(x, ok) # None
        BY <1>1, <3>2, WokenIsFormed DEF WebInv, TypeInv, WebTypeOK, FormedCall
      <4>3. Woken(x, ok).at # "read" /\ Woken(x, ok).query = x.query
        BY <3>2, <4>1 DEF Woken, Call
      <4>4. \/ Woken(x, ok).op = x.op
            \/ x.op = "boot" /\ Woken(x, ok).op = "me"
        <5>1. CASE ~ok
          BY <3>2, <4>1, <5>1 DEF Woken, Call
        <5>2. CASE ok /\ x.op = "boot"
          BY <3>2, <4>1, <5>2 DEF Woken, Call
        <5>3. CASE ok /\ x.op # "boot"
          BY <3>2, <4>1, <5>3 DEF Woken, Call
        <5>4. QED
          BY <5>1, <5>2, <5>3
      <4>5. QED
        BY <4>1, <4>2, <4>3, <4>4 DEF Kept, LeftWith, Looked, Fetches, Fetch
    <3>3. QED
      BY <3>1, <3>2
  <2>2. \A u \in Tabs, d \in Calls :
           call'[u][d] = call[u][d] \/ \E ok : call'[u][d] = Woken(call[u][d], ok)
    BY DEF EndRefresh, WebInv, TypeInv, CallInv
  <2>3. QED
    BY <2>1, <2>2, KeptSame DEF AllKept, WebInv, TypeInv, CallInv
<1>3. SaveInv'
  BY <1>2, SaveQuiet DEF EndRefresh, WebInv, data
<1>4. ListInv'
  <2>1. CASE "list" \in raced
    BY <2>1, ListFailed DEF EndRefresh, WebInv
  <2>2. CASE "list" \notin raced
    BY <2>2, <1>2, UserKept, ListQuiet DEF EndRefresh, WebInv, data
  <2>3. QED
    BY <2>1, <2>2
<1>5. SessionInv'
  <2>1. CASE faults > 0 \/ "refresh" \in raced \/ "logout" \in raced
    BY <2>1 DEF EndRefresh, SessionInv
  <2>2. CASE GensMade /\ GensApart /\ OutIsLive /\ HeldIsLive /\ JarStands
    <3>1. /\ refresh' = [refresh EXCEPT ![t] = None] /\ live' = live /\ made' = made
          /\ refresh \in [Tabs -> Refresh \cup {None}] /\ refresh[t] # None
          /\ refresh[t].at = "back"
      BY DEF EndRefresh, WebInv, TypeInv, WebTypeOK
    <3>2. refresh'[t] = None /\ \A u \in Tabs : u # t => refresh'[u] = refresh[u]
      BY <3>1
    <3>3. \A u \in Tabs : Held(u)' => Held(u) /\ u # t
      BY <3>2 DEF Held
    <3>4. GensApart' /\ OutIsLive'
      BY <2>2, <3>1, <3>2 DEF GensApart, OutIsLive
    <3>5. CASE refresh[t].ok
      <4>1. jar' = refresh[t].new /\ Held(t)
        BY <3>1, <3>5 DEF EndRefresh, Held
      <4>2. GensMade'
        BY <2>2, <3>1, <3>2, <4>1 DEF GensMade
      <4>3. HeldIsLive'
        BY <2>2, <3>1, <3>2, <3>3, <4>1 DEF HeldIsLive
      <4>4. JarStands'
        BY <2>2, <3>1, <4>1 DEF HeldIsLive, JarStands
      <4>5. QED
        BY <3>4, <4>2, <4>3, <4>4 DEF SessionInv
    <3>6. CASE ~refresh[t].ok
      <4>1. jar' = jar
        BY <3>6 DEF EndRefresh
      <4>2. GensMade'
        BY <2>2, <3>1, <3>2, <4>1 DEF GensMade
      <4>3. HeldIsLive'
        BY <2>2, <3>1, <3>2, <3>3, <4>1 DEF HeldIsLive
      <4>4. \A u \in Tabs : Held(u) => Held(u)' /\ refresh'[u] = refresh[u]
        BY <3>2, <3>6 DEF Held
      <4>5. JarStands'
        BY <2>2, <1>2, <3>1, <4>1, <4>4 DEF JarStands, AllKept, Kept
      <4>6. QED
        BY <3>4, <4>2, <4>3, <4>5 DEF SessionInv
    <3>7. QED
      BY <3>5, <3>6
  <2>3. QED
    BY <2>1, <2>2 DEF WebInv, SessionInv
<1>6. QED
  BY <1>1, <1>3, <1>4, <1>5 DEF WebInv

LEMMA DeniedKeeps ==
  ASSUME WebInv, NEW t \in Tabs, NEW c \in Calls, Denied(t, c)
  PROVE  WebInv'
<1>1. TypeInv'
  BY DeniedTypes DEF WebInv
<1>2. AllKept
  <2>1. Formed(call[t][c]) /\ call[t][c] # None /\ call[t][c].at = "denied" /\ CallInv
    BY CallIsFormed DEF Denied, WebInv, TypeInv
  <2>2. /\ Only(t, c) /\ call'[t][c] # None /\ call'[t][c].op = call[t][c].op
        /\ call'[t][c].query = call[t][c].query /\ call'[t][c].at # "read"
    <3>1. CASE call[t][c].retried
      BY <2>1, <3>1, AnswerTypes DEF Denied
    <3>2. CASE ~call[t][c].retried
      BY <2>1, <3>2, StepTypes DEF Denied, Formed
    <3>3. QED
      BY <3>1, <3>2
  <2>3. QED
    BY <2>1, <2>2, KeptMoved, OnlyKept
<1>3. raced \subseteq raced'
  BY DEF Denied, AskRefresh
<1>4. SessionInv'
  <2>1. CASE call[t][c].retried
    BY <2>1, <1>2, <1>3, SessionQuiet DEF Denied, WebInv
  <2>2. CASE ~call[t][c].retried
    BY <2>2, <1>1, <1>2, AskKeeps DEF Denied
  <2>3. QED
    BY <2>1, <2>2
<1>5. SaveInv'
  BY <1>2, <1>3, SaveQuiet DEF Denied, WebInv, data
<1>6. ListInv'
  <2>1. UNCHANGED <<user, list>>
    BY DEF Denied, data
  <2>2. CASE "list" \in raced
    BY <2>2, <1>3, ListFailed DEF WebInv
  <2>3. CASE "list" \notin raced
    BY <2>1, <2>3, <1>2, <1>3, UserKept, ListQuiet DEF Denied, WebInv, data
  <2>4. QED
    BY <2>2, <2>3
<1>7. QED
  BY <1>1, <1>4, <1>5, <1>6 DEF WebInv

LEMMA LapseKeeps ==
  ASSUME WebInv, NEW t \in Tabs, Lapse(t)
  PROVE  WebInv'
<1>1. TypeInv'
  BY LapseTypes DEF WebInv
<1>2. AllKept
  <2>1. \A x \in Call : Kept(x, [x EXCEPT !.auth = "stale"])
    <3>1. ASSUME NEW x \in Call
          PROVE  Kept(x, [x EXCEPT !.auth = "stale"])
      <4> DEFINE y == [x EXCEPT !.auth = "stale"]
      <4>1. y \in Call /\ y.op = x.op /\ y.at = x.at /\ y.status = x.status
            /\ y.query = x.query /\ y.got = x.got
        BY DEF Call
      <4> HIDE DEF y
      <4>2. Kept(x, y)
        BY <4>1 DEF Kept, LeftWith, Looked, Fetches
      <4>3. QED
        BY <4>2 DEF y
    <3>2. QED
      BY <3>1
  <2>2. \A u \in Tabs, d \in Calls :
           \/ call'[u][d] = call[u][d]
           \/ call[u][d] \in Call /\ call'[u][d] = [call[u][d] EXCEPT !.auth = "stale"]
    <3>1. ASSUME NEW u \in Tabs, NEW d \in Calls
          PROVE  \/ call'[u][d] = call[u][d]
                 \/ call[u][d] \in Call /\ call'[u][d] = [call[u][d] EXCEPT !.auth = "stale"]
      <4>1. call \in [Tabs -> [Calls -> Call \cup {None}]]
        BY CallInvTypes DEF WebInv, TypeInv
      <4>2. CASE u # t
        BY <4>1, <4>2 DEF Lapse
      <4>3. CASE u = t
        <5>1. call'[u][d] = IF call[t][d] # None /\ call[t][d].auth = "fresh"
                            THEN [call[t][d] EXCEPT !.auth = "stale"] ELSE call[t][d]
          BY <4>1, <4>3 DEF Lapse
        <5>2. QED
          BY <4>1, <4>3, <5>1
      <4>4. QED
        BY <4>2, <4>3
    <3>2. QED
      BY <3>1
  <2>3. ASSUME NEW u \in Tabs, NEW d \in Calls
        PROVE  Kept(call[u][d], call'[u][d])
    <3>1. CASE call'[u][d] = call[u][d]
      BY <3>1, KeptSame
    <3>2. CASE call[u][d] \in Call /\ call'[u][d] = [call[u][d] EXCEPT !.auth = "stale"]
      BY <3>2, <2>1
    <3>3. QED
      BY <2>2, <3>1, <3>2
  <2>4. QED
    BY <2>3 DEF AllKept
<1>3. QED
  BY <1>1, <1>2, QuietTab DEF Lapse, data
-----------------------------------------------------------------------------
LEMMA ServeKeeps ==
  ASSUME WebInv, NEW t \in Tabs, NEW c \in Calls, Serve(t, c)
  PROVE  WebInv'
<1> DEFINE x == call[t][c]
           y == call'[t][c]
<1>1. TypeInv' /\ x # None /\ x.at = "out" /\ raced' = raced \cup Overlaps(x)
  BY ServeTypes DEF WebInv, Serve
<1>2. /\ Only(t, c) /\ y # None /\ y.op = x.op /\ y.query = x.query
      /\ \/ y.at # "read"
         \/ x.auth = "fresh" /\ x.op # "logout" /\ (x.op = "save" => y.got = doc)
      /\ x.op = "logout" /\ x.auth = "fresh" => y.at = "back" /\ y.status = "ok"
  BY ServeTypes DEF WebInv, Served
<1>3. \A u \in Tabs, d \in Calls : u # t \/ d # c => call'[u][d] = call[u][d]
  BY <1>2 DEF Only
<1> HIDE DEF x, y
<1>4. SaveInv'
  <2>1. CASE "save" \in raced
    BY <1>1, <2>1 DEF SaveInv
  <2>2. CASE ~Looked(y)
    BY <1>1, <1>3, <2>2 DEF WebInv, SaveInv, Serve, data, y
  <2>3. CASE Looked(y) /\ "save" \notin raced
    <3>1. x.op = "save" /\ x.auth = "fresh" /\ y.got = doc
      BY <1>2, <2>3 DEF Looked
    <3>2. CASE \E u \in Tabs, d \in Calls : Looked(call[u][d])
      BY <1>1, <3>1, <3>2 DEF Overlaps, Looked, Under, SaveInv
    <3>3. CASE ~\E u \in Tabs, d \in Calls : Looked(call[u][d])
      <4>1. \A u \in Tabs, d \in Calls : Looked(call'[u][d]) => u = t /\ d = c
        BY <1>3, <3>3
      <4>2. doc' = doc
        BY DEF Serve, data
      <4>3. QED
        BY <3>1, <4>1, <4>2 DEF SaveInv, y
    <3>4. QED
      BY <3>2, <3>3
  <2>4. QED
    BY <2>1, <2>2, <2>3
<1>5. ListInv'
  <2>1. CASE "list" \in raced
    BY <1>1, <2>1 DEF ListInv
  <2>2. CASE "list" \notin raced
    <3>1. UNCHANGED <<want, list, user>>
      BY DEF Serve, data, tab
    <3>2. \A u \in Tabs, d \in Calls : Fetches(call'[u][d]) =>
             Fetches(call[u][d]) /\ call'[u][d].query = call[u][d].query
      BY <1>1, <1>2, <1>3 DEF Fetches, x, y
    <3>3. \A u \in Tabs, d \in Calls : call[u][d] # None /\ call[u][d].op = "list" =>
             call'[u][d] # None /\ call'[u][d].op = "list"
      BY <1>1, <1>2, <1>3 DEF x, y
    <3>4. \A q : \A u \in Tabs : Fits(u, q) => Fits(u, q)'
      BY <1>1, <3>1 DEF Fits
    <3>5. QED
      BY <2>2, <3>1, <3>2, <3>3, <3>4 DEF WebInv, ListInv, Fits
  <2>3. QED
    BY <2>1, <2>2
<1>6. SessionInv'
  <2>1. CASE faults > 0 \/ "refresh" \in raced \/ "logout" \in raced
    BY <1>1, <2>1 DEF SessionInv, Serve
  <2>2. UNCHANGED <<made, jar, refresh, faults>>
    BY DEF Serve, tab
  <2>3. CASE x.op = "logout" /\ x.auth = "fresh"
    <3>1. CASE \E u \in Tabs : refresh[u] # None
      BY <1>1, <2>3, <3>1 DEF Overlaps, SessionInv
    <3>2. CASE ~(\E u \in Tabs : refresh[u] # None) /\ GensMade
      <4>1. live' \subseteq live
        BY <2>3 DEF Serve, x
      <4>2. LeftWith(y)
        BY <1>2, <2>3 DEF LeftWith
      <4>3. GensMade' /\ GensApart' /\ OutIsLive' /\ HeldIsLive'
        BY <2>2, <3>2, <4>1 DEF GensMade, GensApart, OutIsLive, HeldIsLive, Held
      <4>4. JarStands'
        BY <4>2 DEF JarStands, y
      <4>5. QED
        BY <4>3, <4>4 DEF SessionInv
    <3>3. QED
      BY <2>1, <3>1, <3>2 DEF WebInv, SessionInv
  <2>4. CASE ~(x.op = "logout" /\ x.auth = "fresh")
    <3>1. live' = live
      BY <2>4 DEF Serve, x
    <3>2. CASE GensMade /\ GensApart /\ OutIsLive /\ HeldIsLive /\ JarStands
      <4>1. GensMade' /\ GensApart' /\ OutIsLive' /\ HeldIsLive'
        BY <2>2, <3>1, <3>2 DEF GensMade, GensApart, OutIsLive, HeldIsLive, Held
      <4>2. \A u \in Tabs, d \in Calls : LeftWith(call[u][d]) => LeftWith(call'[u][d])
        BY <1>1, <1>3 DEF LeftWith, x
      <4>3. JarStands'
        BY <2>2, <3>1, <3>2, <4>2 DEF JarStands, Held
      <4>4. QED
        BY <4>1, <4>3 DEF SessionInv
    <3>3. QED
      BY <2>1, <3>2 DEF WebInv, SessionInv
  <2>5. QED
    BY <2>3, <2>4
<1>7. QED
  BY <1>1, <1>4, <1>5, <1>6 DEF WebInv

(* An answer to what is no logout that was answered already.                 *)
LEMMA AnsweredKept ==
  ASSUME NEW t \in Tabs, NEW c \in Calls, Answered(t, c), call[t][c] # None,
         call[t][c].at # "back"
  PROVE  AllKept
BY KeptMoved, OnlyKept DEF Answered

LEMMA PatchSettingsKeeps ==
  ASSUME WebInv, NEW t \in Tabs, NEW c \in Calls, PatchSettings(t, c)
  PROVE  /\ WebInv'
         /\ doc' # doc => \/ "save" \in raced
                          \/ /\ call[t][c] # None /\ call[t][c].op = "save"
                             /\ call'[t][c] # call[t][c] /\ call[t][c].seen = doc.version
<1> DEFINE x == call[t][c]
           y == call'[t][c]
<1>1. TypeInv' /\ Answered(t, c) /\ x # None /\ x.at = "read" /\ x.op = "save"
  BY PatchSettingsTypes DEF WebInv, PatchSettings
<1>2. AllKept
  BY <1>1, AnsweredKept
<1>3. UNCHANGED <<session, refresh, user, list, want, faults, raced>>
  BY DEF PatchSettings, tab
<1>4. SessionInv'
  BY <1>2, <1>3, SessionQuiet DEF WebInv
<1>5. ListInv'
  <2>1. CASE "list" \in raced
    BY <1>3, <2>1, ListFailed DEF WebInv
  <2>2. CASE "list" \notin raced
    BY <1>2, <1>3, <2>2, UserKept, ListQuiet DEF WebInv
  <2>3. QED
    BY <2>1, <2>2
<1>6. SaveInv'
  <2>1. CASE "save" \in raced
    BY <1>3, <2>1 DEF SaveInv
  <2>2. CASE "save" \notin raced
    <3>1. \A u \in Tabs, d \in Calls : ~Looked(call'[u][d])
      <4>1. \A u \in Tabs, d \in Calls : Looked(call[u][d]) => u = t /\ d = c
        BY <1>1, <2>2 DEF WebInv, SaveInv, Looked
      <4>2. ~Looked(y)
        BY <1>1 DEF Answered, Looked
      <4>3. QED
        BY <1>1, <4>1, <4>2 DEF Answered, Only
    <3>2. QED
      BY <3>1 DEF SaveInv
  <2>3. QED
    BY <2>1, <2>2
<1>7. doc' # doc /\ "save" \notin raced => x.seen = doc.version /\ y # x
  <2>1. doc' # doc => x.seen = x.got.version
    BY DEF PatchSettings
  <2>2. "save" \notin raced => x.got = doc
    BY <1>1 DEF WebInv, SaveInv, Looked
  <2>3. y # x
    BY <1>1 DEF Answered
  <2>4. QED
    BY <2>1, <2>2, <2>3
<1>8. QED
  BY <1>1, <1>4, <1>5, <1>6, <1>7 DEF WebInv

LEMMA WriteRowKeeps ==
  ASSUME WebInv, NEW t \in Tabs, NEW c \in Calls, WriteRow(t, c)
  PROVE  WebInv'
<1>1. TypeInv' /\ Answered(t, c)
  BY WriteRowTypes DEF WebInv
<1>2. AllKept
  BY <1>1, AnsweredKept DEF WriteRow
<1>3. QED
  BY <1>1, <1>2, QuietTab DEF WriteRow, tab

LEMMA CleanupTokensKeeps ==
  ASSUME WebInv, NEW r \in Rows, CleanupTokens(r)
  PROVE  WebInv'
<1>1. TypeInv'
  BY CleanupTokensTypes DEF WebInv
<1>2. AllKept
  BY KeptSame DEF CleanupTokens, AllKept
<1>3. UNCHANGED <<session, refresh, user, list, want, doc, faults, raced>>
  BY DEF CleanupTokens, tab
<1>4. SessionInv' /\ SaveInv'
  BY <1>2, <1>3, SessionQuiet, SaveQuiet DEF WebInv
<1>5. ListInv'
  <2>1. \A q : \A u \in Tabs : Fits(u, q)' = Fits(u, q)
    BY <1>3 DEF Fits
  <2>2. QED
    BY <1>3, <2>1 DEF WebInv, ListInv, CleanupTokens, Fits
<1>6. QED
  BY <1>1, <1>4, <1>5 DEF WebInv

LEMMA LostKeeps ==
  ASSUME WebInv, NEW t \in Tabs, NEW c \in Calls, Lost(t, c)
  PROVE  WebInv'
<1> DEFINE y == call'[t][c]
<1>1. TypeInv' /\ Answered(t, c) /\ call[t][c] # None
  BY LostTypes DEF WebInv, Lost
<1>2. faults' > 0 /\ UNCHANGED <<doc, want, user, list, raced>>
  BY DEF Lost, WebInv, TypeInv, WebTypeOK, tab, data
<1>3. SessionInv'
  BY <1>2 DEF SessionInv
<1>4. \A u \in Tabs, d \in Calls : u # t \/ d # c => call'[u][d] = call[u][d]
  BY <1>1 DEF Answered, Only
<1>5. y # None /\ y.at = "back" /\ y.op = call[t][c].op /\ y.query = call[t][c].query
  BY <1>1 DEF Answered
<1> HIDE DEF y
<1>6. SaveInv'
  <2>1. \A u \in Tabs, d \in Calls : Looked(call'[u][d]) =>
           Looked(call[u][d]) /\ call'[u][d].got = call[u][d].got
    BY <1>4, <1>5 DEF Looked, y
  <2>2. QED
    BY <1>2, <2>1 DEF WebInv, SaveInv
<1>7. ListInv'
  <2>1. CASE "list" \in raced
    BY <1>2, <2>1 DEF ListInv
  <2>2. CASE "list" \notin raced
    <3>1. \A u \in Tabs, d \in Calls : Fetches(call'[u][d]) =>
             Fetches(call[u][d]) /\ call'[u][d].query = call[u][d].query
      BY <1>1, <1>4, <1>5 DEF Fetches, y
    <3>2. \A u \in Tabs, d \in Calls : call[u][d] # None /\ call[u][d].op = "list" =>
             call'[u][d] # None /\ call'[u][d].op = "list"
      BY <1>4, <1>5 DEF y
    <3>3. \A q : \A u \in Tabs : Fits(u, q) => Fits(u, q)'
      BY <1>2 DEF Fits
    <3>4. QED
      BY <2>2, <1>2, <3>1, <3>2, <3>3 DEF WebInv, ListInv, Fits
  <2>3. QED
    BY <2>1, <2>2
<1>8. QED
  BY <1>1, <1>3, <1>6, <1>7 DEF WebInv

LEMMA LostRefreshKeeps ==
  ASSUME WebInv, NEW t \in Tabs, LostRefresh(t)
  PROVE  WebInv'
<1>1. TypeInv'
  BY LostRefreshTypes DEF WebInv
<1>2. AllKept
  BY KeptSame DEF LostRefresh, AllKept
<1>3. faults' > 0 /\ UNCHANGED <<doc, want, user, list, raced>>
  BY DEF LostRefresh, WebInv, TypeInv, WebTypeOK, data
<1>4. SessionInv' /\ SaveInv'
  BY <1>2, <1>3, SaveQuiet DEF SessionInv, WebInv
<1>5. ListInv'
  <2>1. CASE "list" \in raced
    BY <1>3, <2>1 DEF ListInv
  <2>2. CASE "list" \notin raced
    BY <1>2, <1>3, <2>2, UserKept, ListQuiet DEF WebInv
  <2>3. QED
    BY <2>1, <2>2
<1>6. QED
  BY <1>1, <1>4, <1>5 DEF WebInv

-----------------------------------------------------------------------------
(* Pages that fetch a list.                                                  *)

LEMMA BrowseKeeps ==
  ASSUME WebInv, NEW t \in Tabs, NEW c \in Calls, NEW q \in Query, Browse(t, c, q)
  PROVE  WebInv'
<1> DEFINE y == call'[t][c]
<1>1. /\ TypeInv' /\ Only(t, c) /\ y # None /\ y.op = "list" /\ y.at = "out" /\ y.query = q
  BY BrowseTypes DEF WebInv
<1>2. /\ call[t][c] = None /\ raced' = raced \cup MixesList(t) /\ want' = [want EXCEPT ![t] = q]
      /\ UNCHANGED <<session, refresh, user, doc, list, faults>>
  BY DEF Browse, Asks, tab
<1>3. \A u \in Tabs, d \in Calls : u # t \/ d # c => call'[u][d] = call[u][d]
  BY <1>1 DEF Only
<1>4. want \in [Tabs -> Query]
  BY DEF WebInv, TypeInv, WebTypeOK
<1> HIDE DEF y
<1>5. SessionInv'
  <2>1. CASE faults > 0 \/ "refresh" \in raced \/ "logout" \in raced
    BY <1>2, <2>1 DEF SessionInv
  <2>2. CASE GensMade /\ GensApart /\ OutIsLive /\ HeldIsLive /\ JarStands
    <3>1. GensMade' /\ GensApart' /\ OutIsLive' /\ HeldIsLive'
      BY <1>2, <2>2 DEF GensMade, GensApart, OutIsLive, HeldIsLive, Held, session
    <3>2. \A u \in Tabs, d \in Calls : LeftWith(call[u][d]) => LeftWith(call'[u][d])
      BY <1>2, <1>3 DEF LeftWith
    <3>3. JarStands'
      BY <1>2, <2>2, <3>2 DEF JarStands, Held, session
    <3>4. QED
      BY <3>1, <3>3 DEF SessionInv
  <2>3. QED
    BY <2>1, <2>2 DEF WebInv, SessionInv
<1>6. SaveInv'
  <2>1. \A u \in Tabs, d \in Calls : Looked(call'[u][d]) =>
           Looked(call[u][d]) /\ call'[u][d].got = call[u][d].got
    BY <1>1, <1>3 DEF Looked, y
  <2>2. QED
    BY <1>2, <2>1 DEF WebInv, SaveInv
<1>7. ListInv'
  <2>1. CASE "list" \in raced'
    BY <2>1 DEF ListInv
  <2>2. CASE "list" \notin raced'
    <3>1. "list" \notin raced /\ \A d \in Calls : ~Fetches(call[t][d])
      BY <1>2, <2>2 DEF MixesList, Under, Fetches, Fetch
    <3>2. raced' = raced
      BY <1>2, <2>2 DEF MixesList
    <3>3. ASSUME NEW u \in Tabs
          PROVE  /\ ~user'[u] => list'[u] = None
                 /\ \A d, e \in Calls : Fetches(call'[u][d]) /\ Fetches(call'[u][e]) => d = e
                 /\ \A d \in Calls : Fetches(call'[u][d]) => Fits(u, call[u][d].query)'
                 /\ \/ list'[u] = None
                    \/ Fits(u, list[u].query)'
                    \/ \E d \in Calls : call'[u][d] # None /\ call'[u][d].op = "list"
      <4>1. CASE u # t
        <5>1. want'[u] = want[u] /\ \A d \in Calls : call'[u][d] = call[u][d]
          BY <1>2, <1>3, <1>4, <4>1
        <5>2. QED
          BY <1>2, <3>1, <3>2, <5>1 DEF WebInv, ListInv, Fits
      <4>2. CASE u = t
        <5>1. want'[u] = q
          BY <1>2, <1>4, <4>2
        <5>2. \A d \in Calls : Fetches(call'[t][d]) => d = c
          BY <1>3, <3>1
        <5>3. call'[t][c].query = q
          BY <1>1 DEF y
        <5>4. \A d \in Calls : Fetches(call'[u][d]) => Fits(u, call[u][d].query)'
          BY <4>2, <5>1, <5>2, <5>3 DEF Fits
        <5>5. call'[u][c] # None /\ call'[u][c].op = "list"
          BY <1>1, <4>2 DEF y
        <5>6. ~user'[u] => list'[u] = None
          BY <1>2, <3>1 DEF WebInv, ListInv
        <5>7. QED
          BY <4>2, <5>2, <5>4, <5>5, <5>6
      <4>3. QED
        BY <4>1, <4>2
    <3>4. QED
      BY <3>3 DEF ListInv
  <2>3. QED
    BY <2>1, <2>2
<1>8. QED
  BY <1>1, <1>5, <1>6, <1>7 DEF WebInv

LEMMA EditTableKeeps ==
  ASSUME WebInv, NEW t \in Tabs, NEW c \in Calls, NEW op \in {"add", "remove"}, NEW r \in Rows,
         EditTable(t, c, op, r)
  PROVE  WebInv'
<1> DEFINE y == call'[t][c]
<1>1. /\ TypeInv' /\ Only(t, c) /\ y # None /\ y.op = op /\ y.at = "out"
      /\ y.query = [page |-> list[t].query.page, search |-> FALSE]
  BY EditTableTypes DEF WebInv
<1>2. /\ call[t][c] = None /\ list[t] # None
      /\ raced' = raced \cup MixesList(t) \cup (IF want[t].search THEN {"search"} ELSE {})
      /\ UNCHANGED <<session, refresh, user, doc, list, want, faults>>
  BY DEF EditTable, Asks, tab, data
<1>3. \A u \in Tabs, d \in Calls : u # t \/ d # c => call'[u][d] = call[u][d]
  BY <1>1 DEF Only
<1>4. want[t].search \in BOOLEAN
  BY DEF WebInv, TypeInv, WebTypeOK, Query
<1>9. y.query.page = list[t].query.page /\ y.query.search = FALSE
  BY <1>1
<1> HIDE DEF y
<1>5. SessionInv'
  <2>1. CASE faults > 0 \/ "refresh" \in raced \/ "logout" \in raced
    BY <1>2, <2>1 DEF SessionInv
  <2>2. CASE GensMade /\ GensApart /\ OutIsLive /\ HeldIsLive /\ JarStands
    <3>1. GensMade' /\ GensApart' /\ OutIsLive' /\ HeldIsLive'
      BY <1>2, <2>2 DEF GensMade, GensApart, OutIsLive, HeldIsLive, Held, session
    <3>2. \A u \in Tabs, d \in Calls : LeftWith(call[u][d]) => LeftWith(call'[u][d])
      BY <1>2, <1>3 DEF LeftWith
    <3>3. JarStands'
      BY <1>2, <2>2, <3>2 DEF JarStands, Held, session
    <3>4. QED
      BY <3>1, <3>3 DEF SessionInv
  <2>3. QED
    BY <2>1, <2>2 DEF WebInv, SessionInv
<1>6. SaveInv'
  <2>1. \A u \in Tabs, d \in Calls : Looked(call'[u][d]) =>
           Looked(call[u][d]) /\ call'[u][d].got = call[u][d].got
    BY <1>1, <1>3 DEF Looked, y
  <2>2. QED
    BY <1>2, <2>1 DEF WebInv, SaveInv
<1>7. ListInv'
  <2>1. CASE "list" \in raced'
    BY <2>1 DEF ListInv
  <2>2. CASE "list" \notin raced'
    <3>1. "list" \notin raced /\ \A d \in Calls : ~Fetches(call[t][d])
      BY <1>2, <2>2 DEF MixesList, Under, Fetches, Fetch
    <3>2. \A p : \A u \in Tabs : Fits(u, p) => Fits(u, p)'
      BY <1>2 DEF Fits
    <3>3. Fits(t, list[t].query)
      <4>1. ~\E d \in Calls : call[t][d] # None /\ call[t][d].op = "list"
        BY <3>1 DEF Fetches, Fetch
      <4>2. \/ list[t] = None
            \/ Fits(t, list[t].query)
            \/ \E d \in Calls : call[t][d] # None /\ call[t][d].op = "list"
        BY <3>1, Zenon DEF WebInv, ListInv
      <4>3. QED
        BY <1>2, <4>1, <4>2
    <3>4. Fits(t, call[t][c].query)'
      <4>1. call'[t][c].query.page = want'[t].page
        BY <1>2, <1>9, <3>3 DEF Fits, y
      <4>2. CASE want[t].search = FALSE
        BY <1>2, <1>9, <4>1, <4>2 DEF Fits, y
      <4>3. CASE want[t].search = TRUE
        BY <1>2, <4>1, <4>3 DEF Fits
      <4>4. QED
        BY <1>4, <4>2, <4>3
    <3>5. ASSUME NEW u \in Tabs
          PROVE  /\ ~user'[u] => list'[u] = None
                 /\ \A d, e \in Calls : Fetches(call'[u][d]) /\ Fetches(call'[u][e]) => d = e
                 /\ \A d \in Calls : Fetches(call'[u][d]) => Fits(u, call[u][d].query)'
                 /\ \/ list'[u] = None
                    \/ Fits(u, list[u].query)'
                    \/ \E d \in Calls : call'[u][d] # None /\ call'[u][d].op = "list"
      <4>1. CASE u # t
        <5>1. \A d \in Calls : call'[u][d] = call[u][d]
          BY <1>3, <4>1
        <5>2. QED
          BY <1>2, <3>1, <3>2, <5>1 DEF WebInv, ListInv, Fits
      <4>2. CASE u = t
        <5>1. \A d \in Calls : Fetches(call'[t][d]) => d = c
          BY <1>3, <3>1
        <5>2. \A d \in Calls : Fetches(call'[u][d]) => Fits(u, call[u][d].query)'
          BY <4>2, <5>1, <3>4
        <5>3. Fits(u, list[u].query)'
          BY <1>2, <3>3, <4>2 DEF Fits
        <5>4. ~user'[u] => list'[u] = None
          BY <1>2, <3>1 DEF WebInv, ListInv
        <5>5. QED
          BY <4>2, <5>1, <5>2, <5>3, <5>4
      <4>3. QED
        BY <4>1, <4>2
    <3>6. QED
      BY <3>5 DEF ListInv
  <2>3. QED
    BY <2>1, <2>2
<1>8. QED
  BY <1>1, <1>5, <1>6, <1>7 DEF WebInv

-----------------------------------------------------------------------------
(* Answers that reach the hooks.                                             *)

LEMMA EndKept ==
  ASSUME WebInv, NEW t \in Tabs, NEW c \in Calls, End(t, c), call[t][c] # None,
         call[t][c].op \notin Fetch \cup {"logout"}
  PROVE  AllKept
BY EndTypes, KeptOver, OnlyKept DEF WebInv

LEMMA EndMeKeeps ==
  ASSUME WebInv, NEW t \in Tabs, NEW c \in Calls, EndMe(t, c)
  PROVE  WebInv'
<1>1. TypeInv'
  BY EndMeTypes DEF WebInv
<1>2. AllKept
  BY EndKept DEF EndMe, Back, Fetch
<1>3. SessionInv' /\ SaveInv'
  BY <1>2, SessionQuiet, SaveQuiet DEF EndMe, WebInv
<1>4. ListInv'
  <2>1. CASE "list" \in raced
    BY <2>1, ListFailed DEF EndMe, WebInv
  <2>2. CASE "list" \notin raced
    <3>1. ASSUME NEW u \in Tabs
          PROVE  /\ ~user'[u] => list'[u] = None
                 /\ \/ list'[u] = None
                    \/ list[u] # None /\ list'[u].query = list[u].query
      <4>1. CASE UNCHANGED <<user, list>> \/ Leave(t)
        BY <2>2, <4>1, UserKept
      <4>2. CASE user' = [user EXCEPT ![t] = TRUE] /\ list' = list
        BY <2>2, <4>2 DEF WebInv, TypeInv, WebTypeOK, ListInv
      <4>3. QED
        BY <4>1, <4>2 DEF EndMe
    <3>2. QED
      BY <1>2, <3>1, ListQuiet DEF EndMe, WebInv
  <2>3. QED
    BY <2>1, <2>2
<1>5. QED
  BY <1>1, <1>3, <1>4 DEF WebInv

LEMMA EndCallbackKeeps ==
  ASSUME WebInv, NEW t \in Tabs, NEW c \in Calls, EndCallback(t, c)
  PROVE  WebInv'
<1>1. /\ TypeInv' /\ Only(t, c)
      /\ \/ call'[t][c] # None /\ call'[t][c].op = "boot" /\ call'[t][c].at = "wait"
         \/ call'[t][c] = None
  BY EndCallbackTypes DEF WebInv
<1>2. AllKept
  BY <1>1, KeptOver, OnlyKept DEF EndCallback, Back, Fetch
<1>3. raced \subseteq raced'
  BY DEF EndCallback, AskRefresh
<1>4. SessionInv'
  <2>1. CASE call[t][c].status = "ok"
    BY <2>1, <1>1, <1>2, AskKeeps DEF EndCallback
  <2>2. CASE call[t][c].status # "ok"
    BY <2>2, <1>2, <1>3, SessionQuiet DEF EndCallback, WebInv
  <2>3. QED
    BY <2>1, <2>2
<1>5. SaveInv'
  BY <1>2, <1>3, SaveQuiet DEF EndCallback, WebInv
<1>6. ListInv'
  <2>1. CASE "list" \in raced
    BY <2>1, <1>3, ListFailed DEF EndCallback, WebInv
  <2>2. CASE "list" \notin raced
    <3>1. ASSUME NEW u \in Tabs
          PROVE  /\ ~user'[u] => list'[u] = None
                 /\ \/ list'[u] = None
                    \/ list[u] # None /\ list'[u].query = list[u].query
      <4>1. CASE Leave(t)
        BY <2>2, <4>1, UserKept
      <4>2. CASE user' = [user EXCEPT ![t] = TRUE] /\ list' = list
        BY <2>2, <4>2 DEF WebInv, TypeInv, WebTypeOK, ListInv
      <4>3. QED
        BY <4>1, <4>2 DEF EndCallback
    <3>2. QED
      BY <1>2, <1>3, <3>1, ListQuiet DEF EndCallback, WebInv
  <2>3. QED
    BY <2>1, <2>2
<1>7. QED
  BY <1>1, <1>4, <1>5, <1>6 DEF WebInv

LEMMA EndBootKeeps ==
  ASSUME WebInv, NEW t \in Tabs, NEW c \in Calls, EndBoot(t, c)
  PROVE  WebInv'
<1>1. TypeInv'
  BY EndBootTypes DEF WebInv
<1>2. AllKept
  BY EndKept DEF EndBoot, Back, Fetch
<1>3. QED
  BY <1>1, <1>2, QuietTab DEF EndBoot, data

LEMMA EndLogoutKeeps ==
  ASSUME WebInv, NEW t \in Tabs, NEW c \in Calls, EndLogout(t, c)
  PROVE  WebInv'
<1>1. TypeInv' /\ call'[t][c] = None /\ Only(t, c)
  BY EndLogoutTypes, EndTypes DEF WebInv, EndLogout
<1>2. /\ \A u \in Tabs, d \in Calls : u # t \/ d # c => call'[u][d] = call[u][d]
      /\ call[t][c] # None /\ call[t][c].op = "logout"
  BY <1>1 DEF Only, EndLogout, Back
<1>3. SaveInv'
  <2>1. \A u \in Tabs, d \in Calls : Looked(call'[u][d]) =>
           Looked(call[u][d]) /\ call'[u][d].got = call[u][d].got
    BY <1>1, <1>2 DEF Looked
  <2>2. QED
    BY <2>1 DEF WebInv, SaveInv, EndLogout
<1>4. ListInv'
  <2>1. CASE "list" \in raced
    BY <2>1 DEF ListInv, EndLogout
  <2>2. CASE "list" \notin raced
    <3>1. \A u \in Tabs, d \in Calls : Fetches(call'[u][d]) =>
             Fetches(call[u][d]) /\ call'[u][d].query = call[u][d].query
      BY <1>1, <1>2 DEF Fetches
    <3>2. \A u \in Tabs, d \in Calls : call[u][d] # None /\ call[u][d].op = "list" =>
             call'[u][d] # None /\ call'[u][d].op = "list"
      BY <1>2
    <3>3. \A q : \A u \in Tabs : Fits(u, q) => Fits(u, q)'
      BY DEF Fits, EndLogout
    <3>4. ASSUME NEW u \in Tabs
          PROVE  /\ ~user'[u] => list'[u] = None
                 /\ \/ list'[u] = None
                    \/ list[u] # None /\ list'[u].query = list[u].query
      BY <2>2, UserKept DEF EndLogout
    <3>5. ASSUME NEW u \in Tabs
          PROVE  /\ ~user'[u] => list'[u] = None
                 /\ \A d, e \in Calls : Fetches(call'[u][d]) /\ Fetches(call'[u][e]) => d = e
                 /\ \A d \in Calls : Fetches(call'[u][d]) => Fits(u, call[u][d].query)'
                 /\ \/ list'[u] = None
                    \/ Fits(u, list[u].query)'
                    \/ \E d \in Calls : call'[u][d] # None /\ call'[u][d].op = "list"
      <4>1. \A d, e \in Calls : Fetches(call'[u][d]) /\ Fetches(call'[u][e]) => d = e
        BY <2>2, <3>1 DEF WebInv, ListInv
      <4>2. \A d \in Calls : Fetches(call'[u][d]) => Fits(u, call[u][d].query)'
        BY <2>2, <3>1 DEF WebInv, ListInv, Fits, EndLogout
      <4>3. \/ list'[u] = None
            \/ Fits(u, list[u].query)'
            \/ \E d \in Calls : call'[u][d] # None /\ call'[u][d].op = "list"
        BY <2>2, <3>2, <3>4 DEF WebInv, ListInv, Fits, EndLogout
      <4>4. QED
        BY <3>4, <4>1, <4>2, <4>3
    <3>6. QED
      BY <3>5 DEF ListInv
  <2>3. QED
    BY <2>1, <2>2
<1>5. SessionInv'
  <2>1. CASE faults > 0 \/ "refresh" \in raced \/ "logout" \in raced
    BY <2>1 DEF SessionInv, EndLogout
  <2>2. CASE GensMade /\ GensApart /\ OutIsLive /\ HeldIsLive /\ JarStands
    <3>0. UNCHANGED <<live, made, refresh, faults, raced>>
      BY DEF EndLogout
    <3>1. GensApart' /\ OutIsLive'
      BY <2>2, <3>0 DEF GensApart, OutIsLive
    <3>2. CASE call[t][c].status = "ok"
      <4>1. jar' = 0 /\ live \subseteq 1..made /\ made \in Nat
        BY <2>2, <3>2 DEF EndLogout, GensMade, WebInv, TypeInv, WebTypeOK
      <4>2. GensMade' /\ HeldIsLive' /\ JarStands'
        BY <2>2, <3>0, <4>1 DEF GensMade, HeldIsLive, JarStands, Held
      <4>3. QED
        BY <3>1, <4>2 DEF SessionInv
    <3>3. CASE call[t][c].status # "ok"
      <4>1. jar' = jar
        BY <3>3 DEF EndLogout
      <4>2. GensMade' /\ HeldIsLive'
        BY <2>2, <3>0, <4>1 DEF GensMade, HeldIsLive, Held
      <4>3. \A u \in Tabs, d \in Calls : LeftWith(call[u][d]) => LeftWith(call'[u][d])
        BY <1>2, <3>3 DEF LeftWith
      <4>4. JarStands'
        BY <2>2, <3>0, <4>1, <4>3 DEF JarStands, Held
      <4>5. QED
        BY <3>1, <4>2, <4>4 DEF SessionInv
    <3>4. QED
      BY <3>2, <3>3
  <2>3. QED
    BY <2>1, <2>2 DEF WebInv, SessionInv
<1>6. QED
  BY <1>1, <1>3, <1>4, <1>5 DEF WebInv

LEMMA EndLoadKeeps ==
  ASSUME WebInv, NEW t \in Tabs, NEW c \in Calls, EndLoad(t, c)
  PROVE  WebInv'
<1>1. TypeInv'
  BY EndLoadTypes DEF WebInv
<1>2. AllKept
  BY EndKept DEF EndLoad, Back, Fetch
<1>3. QED
  BY <1>1, <1>2, QuietTab DEF EndLoad, tab

LEMMA EndSaveKeeps ==
  ASSUME WebInv, NEW t \in Tabs, NEW c \in Calls, EndSave(t, c)
  PROVE  WebInv'
<1>1. TypeInv'
  BY EndSaveTypes DEF WebInv
<1>2. AllKept
  <2>1. Put(t, c, NewCall(t, "load")) \/ Put(t, c, NewCall(t, "me")) \/ End(t, c)
    BY DEF EndSave
  <2>2. CASE End(t, c)
    BY <2>2, EndKept DEF EndSave, Back, Fetch
  <2>3. ASSUME NEW op \in {"load", "me"}, Put(t, c, NewCall(t, op))
        PROVE  AllKept
    <3>1. NewCall(t, op) \in FormedCall
      BY NewMeIsFormed DEF WebInv, TypeInv, Ops, Edits
    <3>2. Only(t, c) /\ call'[t][c] = NewCall(t, op)
      BY <2>3, <3>1, PutCall DEF WebInv, TypeInv
    <3>3. NewCall(t, op).op = op /\ NewCall(t, op).at = "out"
      BY DEF NewCall
    <3>4. QED
      BY <3>2, <3>3, KeptOver, OnlyKept DEF EndSave, Back, Fetch
  <2>4. QED
    BY <2>1, <2>2, <2>3
<1>3. QED
  BY <1>1, <1>2, QuietTab DEF EndSave, tab

LEMMA EndToggleKeeps ==
  ASSUME WebInv, NEW t \in Tabs, NEW c \in Calls, EndToggle(t, c)
  PROVE  WebInv'
<1>1. TypeInv'
  BY EndToggleTypes DEF WebInv
<1>2. AllKept
  BY EndKept DEF EndToggle, Back, Fetch
<1>3. SessionInv' /\ SaveInv'
  BY <1>2, SessionQuiet, SaveQuiet DEF EndToggle, WebInv, tab
<1>4. ListInv'
  <2>1. CASE "list" \in raced
    BY <2>1, ListFailed DEF EndToggle, WebInv
  <2>2. CASE "list" \notin raced
    <3>1. ASSUME NEW u \in Tabs
          PROVE  \/ list'[u] = list[u]
                 \/ list[u] # None /\ list'[u].query = list[u].query
      <4>1. CASE call[t][c].status # "ok" \/ list[t] = None
        BY <4>1 DEF EndToggle
      <4>2. CASE ~(call[t][c].status # "ok" \/ list[t] = None)
        <5>1. list \in [Tabs -> List \cup {None}] /\ list[t] \in List
          BY <4>2 DEF WebInv, TypeInv, WebTypeOK
        <5>2. PICK rs : list' = [list EXCEPT ![t] = [list[t] EXCEPT !.rows = rs]]
          BY <4>2, <5>1 DEF EndToggle
        <5>3. [list[t] EXCEPT !.rows = rs].query = list[t].query
          BY <5>1 DEF List
        <5>4. QED
          BY <4>2, <5>1, <5>2, <5>3
      <4>3. QED
        BY <4>1, <4>2
    <3>2. \A u \in Tabs : ~user[u] => list[u] = None
      BY <2>2 DEF WebInv, ListInv
    <3>3. ASSUME NEW u \in Tabs
          PROVE  /\ ~user'[u] => list'[u] = None
                 /\ \/ list'[u] = None
                    \/ list[u] # None /\ list'[u].query = list[u].query
      BY <3>1, <3>2 DEF EndToggle, tab
    <3>4. QED
      BY <1>2, <3>3, ListQuiet DEF EndToggle, WebInv
  <2>3. QED
    BY <2>1, <2>2
<1>5. QED
  BY <1>1, <1>3, <1>4 DEF WebInv

LEMMA EndCodeKeeps ==
  ASSUME WebInv, NEW t \in Tabs, NEW c \in Calls, EndCode(t, c)
  PROVE  WebInv'
<1>1. TypeInv'
  BY EndCodeTypes DEF WebInv
<1>2. AllKept
  BY EndKept DEF EndCode, Back, Fetch
<1>3. QED
  BY <1>1, <1>2, QuietTab DEF EndCode, data

(* The list that comes is the one that was asked for last.                   *)
LEMMA EndListKeeps ==
  ASSUME WebInv, NEW t \in Tabs, NEW c \in Calls, EndList(t, c)
  PROVE  WebInv'
<1> DEFINE x == call[t][c]
<1>1. TypeInv' /\ call'[t][c] = None /\ Only(t, c)
  BY EndListTypes, EndTypes DEF WebInv, EndList
<1>2. /\ \A u \in Tabs, d \in Calls : u # t \/ d # c => call'[u][d] = call[u][d]
      /\ x # None /\ x.op = "list" /\ Formed(x) /\ x.at = "back"
      /\ raced \subseteq raced'
  BY <1>1, CallIsFormed DEF Only, EndList, Back, WebInv, TypeInv
<1> HIDE DEF x
<1>3. SessionInv'
  <2>1. CASE faults > 0 \/ "refresh" \in raced \/ "logout" \in raced
    BY <1>2, <2>1 DEF SessionInv, EndList
  <2>2. CASE GensMade /\ GensApart /\ OutIsLive /\ HeldIsLive /\ JarStands
    <3>1. UNCHANGED <<session, refresh>>
      BY DEF EndList, tab
    <3>2. GensMade' /\ GensApart' /\ OutIsLive' /\ HeldIsLive'
      BY <2>2, <3>1 DEF GensMade, GensApart, OutIsLive, HeldIsLive, Held, session
    <3>3. \A u \in Tabs, d \in Calls : LeftWith(call[u][d]) => LeftWith(call'[u][d])
      BY <1>2 DEF LeftWith, x
    <3>4. JarStands'
      BY <2>2, <3>1, <3>3 DEF JarStands, Held, session
    <3>5. QED
      BY <3>2, <3>4 DEF SessionInv
  <2>3. QED
    BY <2>1, <2>2 DEF WebInv, SessionInv
<1>4. SaveInv'
  <2>1. \A u \in Tabs, d \in Calls : Looked(call'[u][d]) =>
           Looked(call[u][d]) /\ call'[u][d].got = call[u][d].got
    BY <1>1, <1>2 DEF Looked
  <2>2. doc' = doc
    BY DEF EndList
  <2>3. QED
    BY <1>2, <2>1, <2>2 DEF WebInv, SaveInv
<1>5. ListInv'
  <2>1. CASE "list" \in raced'
    BY <2>1 DEF ListInv
  <2>2. CASE "list" \notin raced'
    <3>1. x.status = "ok" /\ raced' = raced
      BY <2>2 DEF EndList, x
    <3>2. x.got.query = x.query
      BY <1>2, <3>1 DEF Formed
    <3>3. /\ want' = want /\ user' = user
          /\ list' = IF ~user[t] THEN list ELSE [list EXCEPT ![t] = x.got]
      BY <3>1 DEF EndList, tab, x
    <3>4. list \in [Tabs -> List \cup {None}]
      BY DEF WebInv, TypeInv, WebTypeOK
    <3>5. \A q : \A u \in Tabs : Fits(u, q) => Fits(u, q)'
      BY <1>2, <3>3 DEF Fits
    <3>6. "list" \notin raced
      BY <2>2, <3>1
    <3>7. Fits(t, x.query)
      BY <1>2, <3>6 DEF WebInv, ListInv, Fetches, Fetch, x
    <3>8. ASSUME NEW u \in Tabs
          PROVE  /\ ~user'[u] => list'[u] = None
                 /\ \A d, e \in Calls : Fetches(call'[u][d]) /\ Fetches(call'[u][e]) => d = e
                 /\ \A d \in Calls : Fetches(call'[u][d]) => Fits(u, call[u][d].query)'
                 /\ \/ list'[u] = None
                    \/ Fits(u, list[u].query)'
                    \/ \E d \in Calls : call'[u][d] # None /\ call'[u][d].op = "list"
      <4>0. \A d \in Calls : Fetches(call'[u][d]) => call'[u][d] = call[u][d]
        BY <1>1, <1>2 DEF Fetches
      <4>1. \A d, e \in Calls : Fetches(call'[u][d]) /\ Fetches(call'[u][e]) => d = e
        BY <3>6, <4>0 DEF WebInv, ListInv
      <4>2. \A d \in Calls : Fetches(call'[u][d]) => Fits(u, call[u][d].query)'
        BY <3>3, <3>1, <3>6, <4>0 DEF WebInv, ListInv, Fits
      <4>3. ~user'[u] => list'[u] = None
        BY <3>3, <3>4, <3>6 DEF WebInv, ListInv
      <4>4. \/ list'[u] = None
            \/ Fits(u, list[u].query)'
            \/ \E d \in Calls : call'[u][d] # None /\ call'[u][d].op = "list"
        <5>1. CASE u = t
          <6>1. CASE ~user[t]
            BY <4>3, <5>1, <6>1, <3>3
          <6>2. CASE user[t]
            <7>1. list'[u].query = x.query
              BY <3>2, <3>3, <3>4, <5>1, <6>2
            <7>2. QED
              BY <3>1, <3>3, <3>7, <5>1, <7>1 DEF Fits
          <6>3. QED
            BY <6>1, <6>2
        <5>2. CASE u # t
          <6>1. list'[u] = list[u] /\ \A d \in Calls : call'[u][d] = call[u][d]
            BY <1>2, <3>3, <3>4, <5>2
          <6>2. QED
            BY <3>1, <3>3, <3>6, <6>1 DEF WebInv, ListInv, Fits
        <5>3. QED
          BY <5>1, <5>2
      <4>5. QED
        BY <4>1, <4>2, <4>3, <4>4
    <3>9. QED
      BY <3>8 DEF ListInv
  <2>3. QED
    BY <2>1, <2>2
<1>6. QED
  BY <1>1, <1>3, <1>4, <1>5 DEF WebInv

LEMMA EndEditKeeps ==
  ASSUME WebInv, NEW t \in Tabs, NEW c \in Calls, EndEdit(t, c)
  PROVE  WebInv'
<1> DEFINE x == call[t][c]
           y == call'[t][c]
<1>1. /\ TypeInv' /\ Only(t, c)
      /\ IF x.status = "ok"
         THEN y # None /\ y.op = "list" /\ y.at = "out" /\ y.query = x.query
         ELSE y = None
  BY EndEditTypes DEF WebInv
<1>2. /\ \A u \in Tabs, d \in Calls : u # t \/ d # c => call'[u][d] = call[u][d]
      /\ x # None /\ x.op \in {"add", "remove"} /\ raced \subseteq raced'
      /\ UNCHANGED <<session, refresh, user, list, want, doc, faults>>
  BY <1>1 DEF Only, EndEdit, Back, tab, data
<1> HIDE DEF x, y
<1>3. SessionInv'
  <2>1. CASE faults > 0 \/ "refresh" \in raced \/ "logout" \in raced
    BY <1>2, <2>1 DEF SessionInv
  <2>2. CASE GensMade /\ GensApart /\ OutIsLive /\ HeldIsLive /\ JarStands
    <3>1. GensMade' /\ GensApart' /\ OutIsLive' /\ HeldIsLive'
      BY <1>2, <2>2 DEF GensMade, GensApart, OutIsLive, HeldIsLive, Held, session
    <3>2. \A u \in Tabs, d \in Calls : LeftWith(call[u][d]) => LeftWith(call'[u][d])
      BY <1>2 DEF LeftWith, x
    <3>3. JarStands'
      BY <1>2, <2>2, <3>2 DEF JarStands, Held, session
    <3>4. QED
      BY <3>1, <3>3 DEF SessionInv
  <2>3. QED
    BY <2>1, <2>2 DEF WebInv, SessionInv
<1>4. SaveInv'
  <2>1. \A u \in Tabs, d \in Calls : Looked(call'[u][d]) =>
           Looked(call[u][d]) /\ call'[u][d].got = call[u][d].got
    BY <1>1, <1>2 DEF Looked, y
  <2>2. QED
    BY <1>2, <2>1 DEF WebInv, SaveInv
<1>5. ListInv'
  <2>1. CASE "list" \in raced'
    BY <2>1 DEF ListInv
  <2>2. CASE "list" \notin raced'
    <3>1. "list" \notin raced /\ raced' = raced
      <4>1. raced' = raced \/ raced' = raced \cup {"list"}
        BY DEF EndEdit
      <4>2. QED
        BY <2>2, <4>1
    <3>2. \A u \in Tabs, d \in Calls : Fetches(call'[u][d]) =>
             Fetches(call[u][d]) /\ call'[u][d].query = call[u][d].query
      BY <1>1, <1>2 DEF Fetches, Fetch, x, y
    <3>3. Fetches(x) /\ x.op # "list"
      BY <1>2 DEF Fetches, Fetch
    <3>4. \A d \in Calls : ~(call[t][d] # None /\ call[t][d].op = "list")
      <4>1. ASSUME NEW d \in Calls, call[t][d] # None, call[t][d].op = "list"
            PROVE  FALSE
        <5>1. Fetches(call[t][d])
          BY <4>1 DEF Fetches, Fetch
        <5>2. d = c
          BY <3>1, <3>3, <5>1 DEF WebInv, ListInv, x
        <5>3. QED
          BY <3>3, <4>1, <5>2 DEF x
      <4>2. QED
        BY <4>1
    <3>5. ASSUME NEW u \in Tabs
          PROVE  /\ ~user'[u] => list'[u] = None
                 /\ \A d, e \in Calls : Fetches(call'[u][d]) /\ Fetches(call'[u][e]) => d = e
                 /\ \A d \in Calls : Fetches(call'[u][d]) => Fits(u, call[u][d].query)'
                 /\ \/ list'[u] = None
                    \/ Fits(u, list[u].query)'
                    \/ \E d \in Calls : call'[u][d] # None /\ call'[u][d].op = "list"
      <4>1. \A d, e \in Calls : Fetches(call'[u][d]) /\ Fetches(call'[u][e]) => d = e
        BY <3>1, <3>2 DEF WebInv, ListInv
      <4>2. \A d \in Calls : Fetches(call'[u][d]) => Fits(u, call[u][d].query)'
        BY <1>2, <3>1, <3>2 DEF WebInv, ListInv, Fits
      <4>3. \/ list[u] = None
            \/ Fits(u, list[u].query)
            \/ \E d \in Calls : call[u][d] # None /\ call[u][d].op = "list"
        BY <3>1, Zenon DEF WebInv, ListInv
      <4>4. CASE \E d \in Calls : call[u][d] # None /\ call[u][d].op = "list"
        <5>1. u # t
          BY <3>4, <4>4
        <5>2. QED
          BY <1>2, <3>1, <4>1, <4>2, <4>4, <5>1 DEF WebInv, ListInv
      <4>5. CASE list[u] = None \/ Fits(u, list[u].query)
        <5>1. list'[u] = None \/ Fits(u, list[u].query)'
          BY <1>2, <3>1, <4>5 DEF Fits
        <5>2. ~user'[u] => list'[u] = None
          BY <1>2, <3>1 DEF WebInv, ListInv
        <5>3. QED
          BY <4>1, <4>2, <5>1, <5>2
      <4>6. QED
        BY <4>3, <4>4, <4>5
    <3>6. QED
      BY <3>5 DEF ListInv
  <2>3. QED
    BY <2>1, <2>2
<1>6. QED
  BY <1>1, <1>3, <1>4, <1>5 DEF WebInv

-----------------------------------------------------------------------------
(* Together.                                                                 *)

LEMMA InitWeb == WebInit => WebInv
<1> SUFFICES ASSUME WebInit PROVE WebInv
  OBVIOUS
<1>1. CallInv
  BY DEF WebInit, CallInv
<1>2. First \in Query
  BY DEF Query, First
<1>3. doc \in Doc
  BY DEF WebInit, Doc
<1>4. rows \in [Rows -> Status]
  BY DEF WebInit, Status
<1>5. WebTypeOK
  BY <1>1, <1>2, <1>3, <1>4, CallInvTypes DEF WebInit, WebTypeOK
<1>6. \A t \in Tabs : refresh[t] = None /\ list[t] = None /\ \A c \in Calls : call[t][c] = None
  BY DEF WebInit
<1>7. GensMade /\ GensApart /\ OutIsLive /\ HeldIsLive /\ JarStands
  BY <1>6 DEF WebInit, GensMade, GensApart, OutIsLive, HeldIsLive, Held, JarStands
<1>8. SaveInv /\ ListInv
  BY <1>6 DEF SaveInv, ListInv, Looked, Fetches
<1>9. QED
  BY <1>1, <1>5, <1>7, <1>8 DEF WebInv, TypeInv, SessionInv

LEMMA StutterKeeps == WebInv /\ UNCHANGED webVars => WebInv'
<1> SUFFICES ASSUME WebInv, UNCHANGED webVars PROVE WebInv'
  OBVIOUS
<1>1. AllKept
  BY KeptSame DEF webVars, AllKept
<1>2. TypeInv'
  BY DEF WebInv, TypeInv, WebTypeOK, CallInv, webVars, session, tab, data
<1>3. SessionInv' /\ SaveInv'
  BY <1>1, SessionQuiet, SaveQuiet DEF WebInv, webVars, tab, data
<1>4. ListInv'
  <2>1. \A q : \A u \in Tabs : Fits(u, q)' = Fits(u, q)
    BY DEF Fits, webVars, data
  <2>2. QED
    BY <2>1 DEF WebInv, ListInv, webVars, tab, data, Fits
<1>5. QED
  BY <1>2, <1>3, <1>4 DEF WebInv

LEMMA FormsKeep ==
  ASSUME WebInv, NEW t \in Tabs, NEW c \in Calls, NEW o \in 0..1, NEW g \in SUBSET Items,
         \/ SaveInterface(t, c, o) \/ SaveTheme(t, c, o) \/ SaveJson(t, c, o, g)
         \/ SaveFlags(t, c, g) \/ SaveProfile(t, c, g)
  PROVE  WebInv' /\ doc' = doc
<1>1. \E one \in {0, 1, None}, group \in (SUBSET Items) \cup {None} : Save(t, c, one, group)
  <2>1. o \in {0, 1, None} /\ None \in {0, 1, None}
        /\ g \in (SUBSET Items) \cup {None} /\ None \in (SUBSET Items) \cup {None}
    OBVIOUS
  <2>2. CASE SaveInterface(t, c, o) \/ SaveTheme(t, c, o)
    BY <2>1, <2>2, Zenon DEF SaveInterface, SaveTheme
  <2>3. CASE SaveJson(t, c, o, g)
    BY <2>1, <2>3, Zenon DEF SaveJson
  <2>4. CASE SaveFlags(t, c, g) \/ SaveProfile(t, c, g)
    BY <2>1, <2>4, Zenon DEF SaveFlags, SaveProfile
  <2>5. QED
    BY <2>2, <2>3, <2>4
<1>2. QED
  BY <1>1, SaveKeeps DEF Save, data

LEMMA TablesKeep ==
  ASSUME WebInv, NEW t \in Tabs, NEW c \in Calls, NEW r \in Rows,
         \/ AddEmail(t, c, r) \/ RemoveEmail(t, c, r) \/ CreateToken(t, c, r)
         \/ RevokeToken(t, c, r) \/ ToggleActive(t, c, r)
         \/ VerifyCode(t, c, r) \/ DecideCode(t, c, r)
  PROVE  WebInv' /\ doc' = doc
<1>1. CASE \E op \in {"add", "remove"} : EditTable(t, c, op, r)
  BY <1>1, EditTableKeeps DEF EditTable, data
<1>2. CASE ToggleActive(t, c, r)
  BY <1>2, ToggleActiveKeeps DEF ToggleActive, data
<1>3. CASE VerifyCode(t, c, r) \/ DecideCode(t, c, r)
  BY <1>3, CodeKeeps DEF VerifyCode, DecideCode, data
<1>4. QED
  BY <1>1, <1>2, <1>3 DEF AddEmail, RemoveEmail, CreateToken, RevokeToken

LEMMA ActsKeep ==
  ASSUME WebInv, NEW t \in Tabs, NEW c \in Calls, Acts(t, c)
  PROVE  WebInv' /\ doc' = doc
<1>1. CASE Boot(t, c)
  BY <1>1, BootKeeps DEF Boot, data
<1>2. CASE SignIn(t, c)
  BY <1>2, SignInKeeps DEF SignIn
<1>3. CASE Logout(t, c)
  BY <1>3, LogoutKeeps DEF Logout, data
<1>4. CASE LoadSettings(t, c)
  BY <1>4, LoadSettingsKeeps DEF LoadSettings, data
<1>5. CASE \E o \in 0..1, g \in SUBSET Items :
             SaveInterface(t, c, o) \/ SaveTheme(t, c, o) \/ SaveJson(t, c, o, g)
  BY <1>5, FormsKeep
<1>6. CASE \E g \in SUBSET Items : SaveFlags(t, c, g) \/ SaveProfile(t, c, g)
  <2>1. 0 \in 0..1
    OBVIOUS
  <2>2. QED
    BY <1>6, <2>1, FormsKeep
<1>7. CASE \E q \in Query : Browse(t, c, q)
  BY <1>7, BrowseKeeps DEF Browse
<1>8. CASE \E r \in Rows :
             \/ AddEmail(t, c, r) \/ RemoveEmail(t, c, r) \/ CreateToken(t, c, r)
             \/ RevokeToken(t, c, r) \/ ToggleActive(t, c, r)
             \/ VerifyCode(t, c, r) \/ DecideCode(t, c, r)
  BY <1>8, TablesKeep
<1>9. QED
  BY <1>1, <1>2, <1>3, <1>4, <1>5, <1>6, <1>7, <1>8 DEF Acts

LEMMA HandlesKeep ==
  ASSUME WebInv, NEW t \in Tabs, NEW c \in Calls, Handle(t, c)
  PROVE  WebInv' /\ doc' = doc
<1>1. CASE Denied(t, c)
  BY <1>1, DeniedKeeps DEF Denied, data
<1>2. CASE EndMe(t, c)
  BY <1>2, EndMeKeeps DEF EndMe
<1>3. CASE EndCallback(t, c)
  BY <1>3, EndCallbackKeeps DEF EndCallback
<1>4. CASE EndBoot(t, c)
  BY <1>4, EndBootKeeps DEF EndBoot, data
<1>5. CASE EndLogout(t, c)
  BY <1>5, EndLogoutKeeps DEF EndLogout
<1>6. CASE EndLoad(t, c)
  BY <1>6, EndLoadKeeps DEF EndLoad
<1>7. CASE EndSave(t, c)
  BY <1>7, EndSaveKeeps DEF EndSave
<1>8. CASE EndList(t, c)
  BY <1>8, EndListKeeps DEF EndList
<1>9. CASE EndEdit(t, c)
  BY <1>9, EndEditKeeps DEF EndEdit, data
<1>10. CASE EndToggle(t, c)
  BY <1>10, EndToggleKeeps DEF EndToggle
<1>11. CASE EndCode(t, c)
  BY <1>11, EndCodeKeeps DEF EndCode, data
<1>12. QED
  BY <1>1, <1>2, <1>3, <1>4, <1>5, <1>6, <1>7, <1>8, <1>9, <1>10, <1>11 DEF Handle

(* A save that is written is one over the settings its page showed.          *)
OverSeen ==
  doc' # doc => \/ "save" \in raced
                \/ \E t \in Tabs : \E c \in Under(t, {"save"}) :
                     call'[t][c] # call[t][c] /\ call[t][c].seen = doc.version

LEMMA NextKeeps == WebInv /\ [WebNext]_webVars => WebInv' /\ OverSeen
<1> SUFFICES ASSUME WebInv, [WebNext]_webVars PROVE WebInv' /\ OverSeen
  OBVIOUS
<1>1. ASSUME NEW t \in Tabs, NEW c \in Calls, Acts(t, c) \/ Handle(t, c)
      PROVE  WebInv' /\ OverSeen
  BY <1>1, ActsKeep, HandlesKeep DEF OverSeen
<1>2. ASSUME NEW t \in Tabs, NEW c \in Calls, Serve(t, c)
      PROVE  WebInv' /\ OverSeen
  BY <1>2, ServeKeeps DEF Serve, data, OverSeen
<1>3. ASSUME NEW t \in Tabs, NEW c \in Calls, PatchSettings(t, c)
      PROVE  WebInv' /\ OverSeen
  BY <1>3, PatchSettingsKeeps DEF OverSeen, Under
<1>4. ASSUME NEW t \in Tabs, NEW c \in Calls, WriteRow(t, c) \/ Lost(t, c)
      PROVE  WebInv' /\ OverSeen
  BY <1>4, WriteRowKeeps, LostKeeps DEF WriteRow, Lost, data, OverSeen
<1>5. ASSUME NEW t \in Tabs, ServeRefresh(t) \/ EndRefresh(t) \/ LostRefresh(t) \/ Lapse(t)
      PROVE  WebInv' /\ OverSeen
  BY <1>5, ServeRefreshKeeps, EndRefreshKeeps, LostRefreshKeeps, LapseKeeps
     DEF ServeRefresh, EndRefresh, LostRefresh, Lapse, data, OverSeen
<1>6. ASSUME NEW r \in Rows, CleanupTokens(r)
      PROVE  WebInv' /\ OverSeen
  BY <1>6, CleanupTokensKeeps DEF CleanupTokens, OverSeen
<1>7. ASSUME UNCHANGED webVars
      PROVE  WebInv' /\ OverSeen
  BY <1>7, StutterKeeps DEF webVars, data, OverSeen
<1>8. QED
  BY <1>1, <1>2, <1>3, <1>4, <1>5, <1>6, <1>7 DEF WebNext, Serves

LEMMA WebHolds == WebSpec => []WebInv
<1>1. WebInv /\ [WebNext]_webVars => WebInv'
  BY NextKeeps
<1>2. QED
  BY InitWeb, <1>1, PTL DEF WebSpec

(* Every variable of the web application and of what it asks has its type:   *)
(* no request reaches a handler without what the handler reads.              *)
THEOREM WebTyped == WebSpec => []WebTypeOK
<1>1. WebInv => WebTypeOK
  BY DEF WebInv, TypeInv
<1>2. QED
  BY WebHolds, <1>1, PTL

(* For every number of tabs and of requests at once: however many of them    *)
(* are refused, the session survives, unless what ends it is one of the four *)
(* cases the property names.                                                 *)
THEOREM SessionSurvives == WebSpec => []KeepsSession
<1>1. WebInv => KeepsSession
  <2> SUFFICES ASSUME WebInv PROVE KeepsSession
    OBVIOUS
  <2>1. CASE faults > 0 \/ "refresh" \in raced \/ "logout" \in raced
    BY <2>1 DEF KeepsSession
  <2>2. CASE jar \in live \cup {0}
    BY <2>2 DEF KeepsSession
  <2>3. CASE HeldIsLive /\ \E u \in Tabs : Held(u) /\ refresh[u].gen = jar
    BY <2>3 DEF KeepsSession, HeldIsLive, Held
  <2>4. CASE \E u \in Tabs, d \in Calls : LeftWith(call[u][d])
    BY <2>4 DEF KeepsSession, LeftWith, Under
  <2>5. QED
    BY <2>1, <2>2, <2>3, <2>4 DEF WebInv, SessionInv, JarStands
<1>2. QED
  BY WebHolds, <1>1, PTL

(* No save of settings is written over a version its page did not show,      *)
(* unless another was between its look and its write.                        *)
THEOREM SavesAreOverSeen == WebSpec => SavesOverSeen
<1>1. WebInv /\ [WebNext]_webVars => [OverSeen]_webVars
  BY NextKeeps
<1>2. QED
  BY WebHolds, <1>1, PTL DEF WebSpec, SavesOverSeen, OverSeen

(* At rest a tab shows the page and the search it asked for last, unless two *)
(* fetches of its list overlapped or one failed: of fetchUsers and           *)
(* fetchAllowlist, which show whatever answer comes.                         *)
THEOREM ListsAreOfQueries == WebSpec => []ListIsOfQuery
<1>1. WebInv => ListIsOfQuery
  <2> SUFFICES ASSUME WebInv, NEW t \in Tabs, list[t] # None, Under(t, Ops) = {},
                      "list" \notin raced
               PROVE  /\ list[t].query.page = want[t].page
                      /\ list[t].query.search = want[t].search \/ "search" \in raced
    BY DEF ListIsOfQuery
  <2>1. ~\E c \in Calls : call[t][c] # None /\ call[t][c].op = "list"
    BY DEF Under, Ops
  <2>2. Fits(t, list[t].query)
    BY <2>1, Zenon DEF WebInv, ListInv
  <2>3. QED
    BY <2>2 DEF Fits
<1>2. QED
  BY WebHolds, <1>1, PTL
=============================================================================
