---------------------------- MODULE AiScope_proofs ----------------------------
(* What the steps keep for any page, any steps, any number of handlers and *)
(* any budgets: which downloads are kept, what the model is told, and how  *)
(* an aiscope step may end.                                                *)
EXTENDS AiScope, SequenceTheorems, TLAPS

USE CommandsAssumption

(***************************************************************************)
(* The handlers of the extension.                                          *)
(***************************************************************************)

(* What a handler may be when the downloads are dl.                        *)
Fits(h, dl) == h \in Handler \cup {Free} /\ Truthful(h, dl)

CmdInv == CommandsTypeOK /\ HandlersTrue

(* A download that is complete stays so.                                   *)
Kept == \A d \in Downloads : downloads[d] = "complete" => downloads'[d] = "complete"

LEMMA FreeIsNone == \A h \in Handler : h # Free
BY DEF Handler, IdleHandler, DownloadHandler, Free

LEMMA SettledFits ==
  ASSUME NEW h \in Handler, NEW dl, Truthful(h, dl), NEW ok \in BOOLEAN,
         ok => h.op = "idle" \/ h.searching
  PROVE  Fits(Settled(h, ok), dl)
<1>1. CASE h.loose
  BY <1>1 DEF Fits, Settled, Truthful, Free
<1>2. CASE ~h.loose /\ h \in IdleHandler
  BY <1>2 DEF Fits, Settled, Truthful, Free, Handler, IdleHandler
<1>3. CASE ~h.loose /\ h \in DownloadHandler
  <2> DEFINE g == [h EXCEPT !.at = "over", !.ok = ok]
  <2>1. g \in DownloadHandler /\ g.op = "download" /\ g.ok = ok /\ g.id = h.id
        /\ g.searching = h.searching /\ g.listening = h.listening
    BY <1>3 DEF DownloadHandler
  <2>2. Settled(h, ok) = g
    BY <1>3 DEF Settled
  <2>3. h # Free /\ h.op = "download"
    BY <1>3, FreeIsNone DEF DownloadHandler
  <2> QED BY <2>1, <2>2, <2>3 DEF Fits, Truthful, Handler
<1> QED BY <1>1, <1>2, <1>3 DEF Handler

LEMMA AllFit ==
  ASSUME page' \in SUBSET Facts, requests' \in 0 .. MaxRequests,
         downloads' \in [Downloads -> {"none", "progress", "complete", "interrupted"}],
         NEW f, handlers' = f, f = [i \in Slots |-> f[i]],
         \A i \in Slots : Fits(f[i], downloads')
  PROVE  CmdInv'
BY DEF CmdInv, CommandsTypeOK, HandlersTrue, Fits

LEMMA NowFit == ASSUME CmdInv, NEW i \in Slots PROVE Fits(handlers[i], downloads)
BY DEF CmdInv, CommandsTypeOK, HandlersTrue, Fits

LEMMA StillFit ==
  ASSUME CmdInv, Kept, NEW i \in Slots
  PROVE  Fits(handlers[i], downloads')
BY NowFit DEF Kept, Fits, Truthful

(* One handler changes, the downloads stay.                                *)
LEMMA OneChanges ==
  ASSUME CmdInv, NEW i \in Slots, NEW h, Fits(h, downloads),
         handlers' = [handlers EXCEPT ![i] = h],
         page' \in SUBSET Facts, requests' \in 0 .. MaxRequests, downloads' = downloads
  PROVE  CmdInv' /\ Kept
<1> DEFINE f == [handlers EXCEPT ![i] = h]
<1>1. f = [j \in Slots |-> f[j]]
  BY DEF CmdInv, CommandsTypeOK
<1>2. \A j \in Slots : Fits(f[j], downloads')
  BY NowFit DEF CmdInv, CommandsTypeOK
<1>3. downloads' \in [Downloads -> {"none", "progress", "complete", "interrupted"}]
  BY DEF CmdInv, CommandsTypeOK
<1>4. CmdInv'
  <2> HIDE DEF f
  <2> QED BY <1>1, <1>2, <1>3, AllFit DEF f
<1> QED BY <1>4 DEF Kept

LEMMA SettleOne ==
  ASSUME CmdInv, NEW i \in Slots, Working(i), NEW ok \in BOOLEAN, Settle(i, ok),
         ok => handlers[i].op = "idle" \/ handlers[i].searching,
         page' \in SUBSET Facts, requests' \in 0 .. MaxRequests, downloads' = downloads
  PROVE  CmdInv' /\ Kept
<1>1. handlers[i] \in Handler /\ Truthful(handlers[i], downloads)
  BY DEF CmdInv, CommandsTypeOK, HandlersTrue, Working
<1>2. Fits(Settled(handlers[i], ok), downloads)
  BY <1>1, SettledFits
<1> QED BY <1>2, OneChanges DEF Settle, CmdInv, CommandsTypeOK

(* The shape of a handler at work.                                         *)
LEMMA AtShape ==
  ASSUME CmdInv, NEW i \in Slots, NEW op, At(i, op)
  PROVE  /\ handlers[i] \in Handler /\ handlers[i].op = op
         /\ op = "idle" => handlers[i] \in IdleHandler
         /\ op = "download" => handlers[i] \in DownloadHandler
         /\ handlers[i].at # "over"
BY DEF CmdInv, CommandsTypeOK, At, Working, Handler, IdleHandler, DownloadHandler

(* A download changes; the handlers that have it hear of it.               *)
LEMMA ChangeKeeps ==
  ASSUME CmdInv, NEW d \in Downloads, downloads[d] = "progress",
         NEW state \in {"complete", "interrupted"}, Change(d, state),
         page' \in SUBSET Facts, requests' \in 0 .. MaxRequests
  PROVE  CmdInv' /\ Kept
<1> DEFINE f == [i \in Slots |->
      IF At(i, "download") THEN OnChanged(handlers[i], d, state) ELSE handlers[i]]
<1>1. /\ downloads' \in [Downloads -> {"none", "progress", "complete", "interrupted"}]
      /\ downloads' = [downloads EXCEPT ![d] = state] /\ Kept
  BY DEF CmdInv, CommandsTypeOK, Change, Kept
<1>2. ASSUME NEW i \in Slots PROVE Fits(f[i], downloads')
  <2> DEFINE h == handlers[i]
  <2>1. CASE At(i, "download") /\ h.id = d
    <3>1. h \in DownloadHandler /\ h \in Handler /\ h # Free /\ Fits(h, downloads) /\ h.op = "download"
      BY <2>1, AtShape, NowFit, FreeIsNone
    <3>2. ~h.ok /\ ~h.searching /\ ~h.listening
      BY <2>1, <3>1 DEF Fits, Truthful, DownloadHandler
    <3>3. CASE state = "complete"
      <4> DEFINE g == [h EXCEPT !.searching = TRUE]
      <4>1. g \in DownloadHandler /\ g.id = d /\ ~g.listening /\ f[i] = g
        BY <2>1, <3>1, <3>2, <3>3 DEF DownloadHandler, OnChanged, IsMine
      <4> QED BY <4>1, <3>3, <1>1 DEF Fits, Truthful, Handler, CmdInv, CommandsTypeOK
    <3>4. CASE state = "interrupted"
      <4>1. Truthful(h, downloads')
        BY <3>2 DEF Truthful
      <4>2. f[i] = Settled(h, FALSE)
        BY <2>1, <3>4 DEF OnChanged, IsMine
      <4> QED BY <3>1, <4>1, <4>2, SettledFits
    <3> QED BY <3>3, <3>4
  <2>2. CASE ~(At(i, "download") /\ h.id = d)
    BY <2>2, <1>1, StillFit DEF OnChanged, IsMine
  <2> QED BY <2>1, <2>2
<1>3. handlers' = f /\ f = [i \in Slots |-> f[i]]
  BY DEF Change
<1>4. CmdInv'
  <2> HIDE DEF f
  <2> QED BY <1>1, <1>2, <1>3, AllFit
<1> QED BY <1>1, <1>4

(* The handlers that wait for an idle network count a request.             *)
LEMMA CountKeeps ==
  ASSUME CmdInv, NEW f, handlers' = f, f = [i \in Slots |-> f[i]],
         \A i \in Slots : IF At(i, "idle") THEN f[i] \in IdleHandler ELSE f[i] = handlers[i],
         requests' \in 0 .. MaxRequests, UNCHANGED <<page, downloads>>
  PROVE  CmdInv' /\ Kept
<1>1. ASSUME NEW i \in Slots PROVE Fits(f[i], downloads')
  BY NowFit DEF Fits, Truthful, Handler, IdleHandler
<1>2. CmdInv'
  BY <1>1, AllFit DEF CmdInv, CommandsTypeOK
<1> QED BY <1>2 DEF Kept

LEMMA OnRequestKeeps ==
  ASSUME CmdInv, MayCount, Counted, requests' \in 0 .. MaxRequests,
         UNCHANGED <<page, downloads>>
  PROVE  CmdInv' /\ Kept
<1> DEFINE f == [i \in Slots |-> IF At(i, "idle") THEN OnRequest(handlers[i]) ELSE handlers[i]]
<1>1. ASSUME NEW i \in Slots, At(i, "idle") PROVE OnRequest(handlers[i]) \in IdleHandler
  <2>1. handlers[i] \in IdleHandler /\ handlers[i].inFlight < 2 * MaxRequests
    BY <1>1, AtShape DEF MayCount
  <2> DEFINE h == handlers[i]
             n == h.inFlight + 1
  <2>2. n \in 0 .. 2 * MaxRequests
    <3>1. h.inFlight \in 0 .. 2 * MaxRequests
      BY <2>1 DEF IdleHandler
    <3> HIDE DEF h
    <3> QED BY <2>1, <3>1 DEF h
  <2>3. OnRequest(h) = [h EXCEPT !.inFlight = n, !.armed = FALSE]
    BY DEF OnRequest
  <2> HIDE DEF n
  <2> QED BY <2>1, <2>2, <2>3 DEF IdleHandler
<1>2. \A i \in Slots : IF At(i, "idle") THEN f[i] \in IdleHandler ELSE f[i] = handlers[i]
  BY <1>1
<1>3. handlers' = f /\ f = [i \in Slots |-> f[i]]
  BY DEF Counted
<1> HIDE DEF f
<1> QED BY <1>2, <1>3, CountKeeps

LEMMA OnDoneKeeps ==
  ASSUME CmdInv, Discounted, requests' \in 0 .. MaxRequests, UNCHANGED <<page, downloads>>
  PROVE  CmdInv' /\ Kept
<1> DEFINE f == [i \in Slots |-> IF At(i, "idle") THEN OnDone(handlers[i]) ELSE handlers[i]]
<1>1. ASSUME NEW i \in Slots, At(i, "idle") PROVE OnDone(handlers[i]) \in IdleHandler
  <2>1. handlers[i] \in IdleHandler
    BY <1>1, AtShape
  <2> DEFINE h == handlers[i]
             n == IF h.inFlight = 0 THEN 0 ELSE h.inFlight - 1
             a == h.armed \/ n = 0
  <2>2. n \in 0 .. 2 * MaxRequests
    <3>1. h.inFlight \in 0 .. 2 * MaxRequests
      BY <2>1 DEF IdleHandler
    <3> HIDE DEF h
    <3> QED BY <3>1
  <2>3. OnDone(h) = [h EXCEPT !.inFlight = n, !.armed = a]
    BY DEF OnDone
  <2>4. a \in BOOLEAN
    OBVIOUS
  <2> HIDE DEF n, a
  <2> QED BY <2>1, <2>2, <2>3, <2>4 DEF IdleHandler
<1>2. \A i \in Slots : IF At(i, "idle") THEN f[i] \in IdleHandler ELSE f[i] = handlers[i]
  BY <1>1
<1>3. handlers' = f /\ f = [i \in Slots |-> f[i]]
  BY DEF Discounted
<1> HIDE DEF f
<1> QED BY <1>2, <1>3, CountKeeps

LEMMA HandlerStepKeeps ==
  ASSUME CmdInv, NEW i \in Slots, HandlerStep(i)
  PROVE  CmdInv' /\ Kept
<1> DEFINE h == handlers[i]
<1>0. page \in SUBSET Facts /\ requests \in 0 .. MaxRequests
  BY DEF CmdInv, CommandsTypeOK
<1>1. CASE IdleFires(i)
  BY <1>0, <1>1, SettleOne, AtShape DEF IdleFires, At
<1>2. CASE IdleTimesOut(i)
  BY <1>0, <1>2, SettleOne DEF IdleTimesOut, At
<1>3. CASE NotStarted(i)
  BY <1>0, <1>3, SettleOne DEF NotStarted, At
<1>4. CASE Searched(i)
  BY <1>0, <1>4, SettleOne DEF Searched, At
<1>5. CASE ClickReplied(i)
  <2>1. CASE handlers' = [handlers EXCEPT ![i].clicking = FALSE]
    <3> DEFINE g == [h EXCEPT !.clicking = FALSE]
    <3>1. h \in DownloadHandler
      BY <1>5, AtShape DEF ClickReplied
    <3>2. g \in DownloadHandler /\ g.ok = h.ok /\ g.searching = h.searching /\ g.id = h.id
          /\ g.op = h.op /\ g.listening = h.listening
      BY <3>1 DEF DownloadHandler
    <3>3. Fits(g, downloads)
      BY <3>1, <3>2, NowFit, FreeIsNone DEF Fits, Handler, Truthful
    <3>4. handlers' = [handlers EXCEPT ![i] = g]
      BY <2>1
    <3> QED BY <1>0, <1>5, <3>3, <3>4, OneChanges DEF ClickReplied
  <2>2. CASE Settle(i, FALSE)
    BY <1>0, <1>5, <2>2, SettleOne DEF ClickReplied, At
  <2> QED BY <1>5, <2>1, <2>2 DEF ClickReplied
<1>6. CASE DownloadTimesOut(i)
  <2>0. h \in DownloadHandler
    BY <1>6, AtShape DEF DownloadTimesOut
  <2>1. CASE h.id = None /\ Settle(i, FALSE) /\ UNCHANGED downloads
    BY <1>0, <1>6, <2>1, SettleOne DEF DownloadTimesOut, At
  <2>2. CASE h.id # None /\ downloads[h.id] = "progress" /\ Change(h.id, "interrupted")
    <3>1. h.id \in Downloads
      BY <2>0, <2>2 DEF DownloadHandler
    <3> QED BY <1>0, <1>6, <2>2, <3>1, ChangeKeeps DEF DownloadTimesOut
  <2>3. CASE handlers' = [handlers EXCEPT ![i].at = "cancelling"] /\ UNCHANGED downloads
    <3> DEFINE g == [h EXCEPT !.at = "cancelling"]
    <3>2. g \in DownloadHandler /\ g.ok = h.ok /\ g.searching = h.searching /\ g.id = h.id
          /\ g.op = h.op /\ g.listening = h.listening
      BY <2>0 DEF DownloadHandler
    <3>3. Fits(g, downloads)
      BY <2>0, <3>2, NowFit, FreeIsNone DEF Fits, Handler, Truthful
    <3>4. handlers' = [handlers EXCEPT ![i] = g]
      BY <2>3
    <3> QED BY <1>0, <1>6, <2>3, <3>3, <3>4, OneChanges DEF DownloadTimesOut
  <2> QED BY <1>6, <2>1, <2>2, <2>3 DEF DownloadTimesOut
<1>7. CASE Cancelled(i)
  BY <1>0, <1>7, SettleOne DEF Cancelled, At
<1> QED BY <1>1, <1>2, <1>3, <1>4, <1>5, <1>6, <1>7 DEF HandlerStep

LEMMA BrowserStepKeeps ==
  ASSUME CmdInv, BrowserStep
  PROVE  CmdInv' /\ Kept
<1>0. /\ page \in SUBSET Facts /\ requests \in 0 .. MaxRequests
      /\ downloads \in [Downloads -> {"none", "progress", "complete", "interrupted"}]
  BY DEF CmdInv, CommandsTypeOK
<1>1. CASE PageChanges
  BY <1>1 DEF PageChanges, CmdInv, CommandsTypeOK, HandlersTrue, Kept
<1>2. CASE RequestStarts
  <2>1. requests' \in 0 .. MaxRequests
    BY <1>0, <1>2 DEF RequestStarts
  <2> QED BY <1>2, <2>1, OnRequestKeeps DEF RequestStarts
<1>3. CASE RequestRedirected
  BY <1>0, <1>3, OnRequestKeeps DEF RequestRedirected
<1>4. CASE RequestEnds
  <2>1. requests' \in 0 .. MaxRequests
    BY <1>0, <1>4 DEF RequestEnds
  <2> QED BY <1>4, <2>1, OnDoneKeeps DEF RequestEnds
<1>5. ASSUME NEW d \in Downloads, DownloadCreated(d) PROVE CmdInv' /\ Kept
  <2> DEFINE f == [i \in Slots |->
         IF At(i, "download") /\ handlers[i].listening
           THEN [handlers[i] EXCEPT !.id = d, !.listening = FALSE] ELSE handlers[i]]
  <2>1. downloads' \in [Downloads -> {"none", "progress", "complete", "interrupted"}] /\ Kept
    BY <1>0, <1>5 DEF DownloadCreated, Kept
  <2>2. ASSUME NEW i \in Slots PROVE Fits(f[i], downloads')
    <3>1. CASE At(i, "download") /\ handlers[i].listening
      <4> DEFINE h == handlers[i]
                 g == [h EXCEPT !.id = d, !.listening = FALSE]
      <4>1. h \in DownloadHandler /\ h \in Handler /\ h # Free /\ Fits(h, downloads)
        BY <3>1, AtShape, NowFit, FreeIsNone
      <4>2. ~h.ok /\ ~h.searching
        BY <3>1, <4>1 DEF Fits, Truthful, DownloadHandler
      <4>3. g \in DownloadHandler /\ ~g.listening /\ ~g.ok /\ ~g.searching
        BY <4>1, <4>2 DEF DownloadHandler
      <4> QED BY <3>1, <4>3 DEF Fits, Truthful, Handler
    <3>2. CASE ~(At(i, "download") /\ handlers[i].listening)
      BY <3>2, <2>1, StillFit
    <3> QED BY <3>1, <3>2
  <2>3. handlers' = f /\ f = [i \in Slots |-> f[i]] /\ page' = page /\ requests' = requests
    BY <1>5 DEF DownloadCreated
  <2> HIDE DEF f
  <2> QED BY <1>0, <2>1, <2>2, <2>3, AllFit
<1>6. ASSUME NEW d \in Downloads, DownloadEnds(d) PROVE CmdInv' /\ Kept
  BY <1>0, <1>6, ChangeKeeps DEF DownloadEnds
<1> QED BY <1>1, <1>2, <1>3, <1>4, <1>5, <1>6 DEF BrowserStep

(* A handler is set up, given up, or its answer taken.                     *)
LEMMA StartIdleKeeps ==
  ASSUME CmdInv, NEW i \in Slots, StartIdle(i), UNCHANGED <<page, requests, downloads>>
  PROVE  CmdInv' /\ Kept
<1> DEFINE h == [op |-> "idle", at |-> "run", ok |-> FALSE, loose |-> FALSE,
                 inFlight |-> 0, armed |-> TRUE]
<1>1. Fits(h, downloads)
  BY DEF Fits, Truthful, Handler, IdleHandler
<1>2. handlers' = [handlers EXCEPT ![i] = h]
  BY DEF StartIdle
<1> HIDE DEF h
<1> QED BY <1>1, <1>2, OneChanges DEF CmdInv, CommandsTypeOK

LEMMA StartDownloadKeeps ==
  ASSUME CmdInv, NEW i \in Slots, NEW trigger, StartDownload(i, trigger),
         UNCHANGED <<page, requests, downloads>>
  PROVE  CmdInv' /\ Kept
<1> DEFINE h == [op |-> "download", at |-> IF trigger = "click" THEN "run" ELSE "over",
                 ok |-> FALSE, loose |-> FALSE, id |-> None,
                 listening |-> TRUE, clicking |-> TRUE, searching |-> FALSE]
<1>1. Fits(h, downloads)
  BY DEF Fits, Truthful, Handler, DownloadHandler
<1>2. handlers' = [handlers EXCEPT ![i] = h]
  BY DEF StartDownload
<1> HIDE DEF h
<1> QED BY <1>1, <1>2, OneChanges DEF CmdInv, CommandsTypeOK

LEMMA FreeKeeps ==
  ASSUME CmdInv, NEW i \in Slots, handlers' = [handlers EXCEPT ![i] = Free],
         UNCHANGED <<page, requests, downloads>>
  PROVE  CmdInv' /\ Kept
<1>1. Fits(Free, downloads)
  BY DEF Fits, Truthful
<1> QED BY <1>1, OneChanges DEF CmdInv, CommandsTypeOK

LEMMA LoosenKeeps ==
  ASSUME CmdInv, NEW i \in Slots, handlers[i] # Free, Loosen(i),
         UNCHANGED <<page, requests, downloads>>
  PROVE  CmdInv' /\ Kept
<1> DEFINE h == handlers[i]
           g == [h EXCEPT !.loose = TRUE]
<1>1. CASE h.at = "over"
  BY <1>1, FreeKeeps DEF Loosen
<1>2. CASE h.at # "over"
  <2>1. Fits(h, downloads) /\ h \in Handler
    BY NowFit DEF CmdInv, CommandsTypeOK
  <2>2. CASE h \in IdleHandler
    <3>1. g \in IdleHandler
      BY <2>2 DEF IdleHandler
    <3>2. Fits(g, downloads)
      BY <3>1 DEF Fits, Truthful, Handler, IdleHandler
    <3> QED BY <1>2, <3>2, OneChanges DEF Loosen, CmdInv, CommandsTypeOK
  <2>3. CASE h \in DownloadHandler
    <3>1. g \in DownloadHandler /\ g.op = h.op /\ g.ok = h.ok /\ g.searching = h.searching
          /\ g.listening = h.listening /\ g.id = h.id
      BY <2>3 DEF DownloadHandler
    <3>2. Fits(g, downloads)
      BY <2>1, <3>1, FreeIsNone DEF Fits, Truthful, Handler
    <3> QED BY <1>2, <3>2, OneChanges DEF Loosen, CmdInv, CommandsTypeOK
  <2> QED BY <2>1, <2>2, <2>3 DEF Handler
<1> QED BY <1>1, <1>2

(***************************************************************************)
(* The bodies of the steps.                                                *)
(***************************************************************************)
USE StepsAssumption

Body ==
  [step : Steps, at : Awaits, k : Nat, sel : Elements \cup {None},
   list : SUBSET Elements, items : SUBSET Elements]

(* What BodyInv says of a body b.                                          *)
Placed(b) ==
  /\ b \in Body
  /\ b.at = "probe" => b.step.cands \in Seq(Elements) /\ b.k \in 1 .. Len(b.step.cands)
  /\ b.at = "slot"  => b.k \in Slots

(* A body other than an aiscope's, or none.                                *)
Outer(b) == b = NoBody \/ (Placed(b) /\ b.at # "scope")

Context ==
  /\ vars \in [Names -> Values \cup {None}]
  /\ artifacts \subseteq Downloads
  /\ tool = NoTool \/ tool \in [cmd : Tools \cup {"latest", "over"}, ok : BOOLEAN]

LeafInv == CmdInv /\ StepsTypeOK /\ BodyInv /\ ArtifactsComplete

Good == LeafInv' /\ Outer(body')

LEMMA NoBodyIsNone == \A b \in Body : b # NoBody
<1> SUFFICES ASSUME NEW b \in Body, b = NoBody PROVE FALSE
  OBVIOUS
<1>1. DOMAIN b = {"step", "at", "k", "sel", "list", "items"}
  BY DEF Body
<1>2. DOMAIN NoBody = {"step"}
  BY DEF NoBody
<1> QED BY <1>1, <1>2

LEMMA NowPlaced == ASSUME LeafInv, body # NoBody PROVE Placed(body)
BY DEF LeafInv, StepsTypeOK, BodyInv, Placed, Body, In

(* The step moves on or ends.                                              *)
LEMMA Moves ==
  ASSUME LeafInv, NEW b, Outer(b), body' = b, last' \in BOOLEAN, todo' = todo,
         Context', CmdInv', Kept, artifacts' = artifacts
  PROVE  Good
<1>1. StepsTypeOK'
  BY DEF Outer, Placed, Context, LeafInv, StepsTypeOK, Body
<1>2. BodyInv'
  BY NoBodyIsNone DEF BodyInv, In, Outer, Placed
<1>3. ArtifactsComplete'
  BY DEF LeafInv, ArtifactsComplete, Kept, StepsTypeOK
<1> QED BY <1>1, <1>2, <1>3 DEF Good, LeafInv

LEMMA KeptContext ==
  ASSUME LeafInv, KeepContext, tool' = tool
  PROVE  Context'
BY DEF LeafInv, StepsTypeOK, KeepContext, Context

LEMMA KeptCmd ==
  ASSUME CmdInv, UNCHANGED cmdVars
  PROVE  CmdInv' /\ Kept
BY DEF cmdVars, CmdInv, CommandsTypeOK, HandlersTrue, Kept

LEMMA EndedGood ==
  ASSUME LeafInv, NEW ok \in BOOLEAN, Ended(ok), Context', artifacts' = artifacts,
         CmdInv', Kept
  PROVE  Good
BY Moves DEF Ended, Outer

LEMMA ThrowsGood ==
  ASSUME LeafInv, Throws, tool' = tool \/ tool' = NoTool, CmdInv', Kept
  PROVE  Good
<1>1. Context' /\ artifacts' = artifacts
  BY DEF Throws, KeepContext, LeafInv, StepsTypeOK, Context
<1> QED BY <1>1, EndedGood DEF Throws

LEMMA YieldsGood ==
  ASSUME LeafInv, Yields, tool' = tool \/ tool' = NoTool, CmdInv', Kept
  PROVE  Good
<1>1. Context' /\ artifacts' = artifacts
  BY DEF Yields, LeafInv, StepsTypeOK, Context, Values
<1> QED BY <1>1, EndedGood DEF Yields

LEMMA GotoGood ==
  ASSUME LeafInv, NEW b, Outer(b), body' = b, UNCHANGED <<last, todo, tool>>,
         KeepContext, CmdInv', Kept
  PROVE  Good
<1>1. Context' /\ artifacts' = artifacts /\ last' \in BOOLEAN
  BY KeptContext DEF KeepContext, LeafInv, StepsTypeOK
<1> QED BY <1>1, Moves

LEMMA BodyFields ==
  ASSUME LeafInv, NEW at, In(at)
  PROVE  /\ Placed(body) /\ body \in Body /\ body # NoBody /\ body.at = at
         /\ body.step \in Steps /\ StepShape(body.step)
         /\ todo \in Seq(Steps) /\ last \in BOOLEAN
BY NowPlaced DEF In, Placed, Body, LeafInv, StepsTypeOK

LEMMA FoundGood ==
  ASSUME LeafInv, NEW at, In(at), at # "scope", NEW sel \in Elements \cup {None}, Found(sel),
         UNCHANGED <<tool, page, requests, downloads>>
  PROVE  Good
<1>0. body \in Body /\ CmdInv
  BY BodyFields DEF LeafInv
<1>1. CASE Throws /\ UNCHANGED handlers
  BY <1>0, <1>1, ThrowsGood, KeptCmd DEF cmdVars
<1>2. CASE body' = [body EXCEPT !.at = "act", !.sel = sel] /\ KeepContext
           /\ UNCHANGED <<last, todo, handlers>>
  <2> DEFINE b == [body EXCEPT !.at = "act", !.sel = sel]
  <2>1. Outer(b)
    BY <1>0 DEF Outer, Placed, Body, Awaits
  <2> HIDE DEF b
  <2> QED BY <1>0, <1>2, <2>1, GotoGood, KeptCmd DEF cmdVars, b
<1>3. CASE \E i \in Slots : /\ StartDownload(i, "click")
                            /\ body' = [body EXCEPT !.at = "slot", !.k = i, !.sel = sel]
                            /\ KeepContext /\ UNCHANGED <<last, todo>>
  <2>1. PICK i \in Slots : /\ StartDownload(i, "click")
                           /\ body' = [body EXCEPT !.at = "slot", !.k = i, !.sel = sel]
    BY <1>3
  <2> DEFINE b == [body EXCEPT !.at = "slot", !.k = i, !.sel = sel]
  <2>2. Outer(b)
    BY <1>0 DEF Outer, Placed, Body, Awaits
  <2>3. CmdInv' /\ Kept
    BY <1>0, <2>1, StartDownloadKeeps
  <2> HIDE DEF b
  <2> QED BY <1>3, <2>1, <2>2, <2>3, GotoGood DEF b
<1> QED BY <1>1, <1>2, <1>3 DEF Found

LEMMA ProbeGood == ASSUME LeafInv, Probe PROVE Good
<1> DEFINE cands == body.step.cands
           sel == cands[body.k]
<1>0. /\ Placed(body) /\ body \in Body /\ body.at = "probe" /\ CmdInv
      /\ cands \in Seq(Elements) /\ body.k \in 1 .. Len(cands)
  BY BodyFields DEF Probe, Placed, LeafInv
<1>1. sel \in Elements
  BY <1>0, ElementOfSeq
<1>2. CASE Found(sel)
  BY <1>1, <1>2, FoundGood DEF Probe
<1>3. CASE /\ body' = IF body.k < Len(cands) THEN [body EXCEPT !.k = @ + 1]
                                             ELSE [body EXCEPT !.at = "capture"]
           /\ KeepContext /\ UNCHANGED <<last, todo, handlers>>
  <2>0. CmdInv' /\ Kept /\ tool' = tool
    BY <1>0, <1>3, KeptCmd DEF Probe, cmdVars
  <2>1. CASE body.k < Len(cands)
    <3> DEFINE n == body.k + 1
               b == [body EXCEPT !.k = n]
    <3>1. n \in 1 .. Len(cands) /\ n \in Nat
      BY <1>0, <2>1, LenProperties
    <3>2. b \in Body /\ b.step = body.step /\ b.at = "probe" /\ b.k = n
      <4> HIDE DEF n
      <4> QED BY <1>0, <3>1 DEF Body
    <3>3. Outer(b)
      BY <1>0, <3>1, <3>2 DEF Outer, Placed
    <3>4. body' = b
      BY <1>3, <2>1
    <3> QED BY <1>3, <2>0, <3>3, <3>4, GotoGood
  <2>2. CASE ~(body.k < Len(cands))
    <3> DEFINE b == [body EXCEPT !.at = "capture"]
    <3>1. Outer(b)
      BY <1>0 DEF Outer, Placed, Body, Awaits
    <3>2. body' = b
      BY <1>3, <2>2
    <3> QED BY <1>3, <2>0, <3>1, <3>2, GotoGood
  <2> QED BY <2>1, <2>2
<1> QED BY <1>2, <1>3 DEF Probe

LEMMA CaptureGood == ASSUME LeafInv, Capture PROVE Good
<1>0. body \in Body /\ CmdInv' /\ Kept /\ tool' = tool
  BY BodyFields, KeptCmd DEF Capture, LeafInv
<1> DEFINE b == [body EXCEPT !.at = "ask"]
<1>1. Outer(b)
  BY <1>0 DEF Outer, Placed, Body, Awaits
<1>2. CASE Goto("ask") /\ KeepContext /\ UNCHANGED <<last, todo>>
  BY <1>0, <1>1, <1>2, GotoGood DEF Goto
<1>3. CASE Throws
  BY <1>0, <1>3, ThrowsGood
<1> QED BY <1>2, <1>3 DEF Capture

LEMMA AskGood == ASSUME LeafInv, Ask PROVE Good
<1>0. body \in Body /\ CmdInv' /\ Kept /\ tool' = tool
  BY BodyFields, KeptCmd DEF Ask, LeafInv
<1>1. ASSUME NEW sel \in Elements, Suggests(sel) PROVE Good
  <2> DEFINE b == [body EXCEPT !.at = "validate", !.sel = sel]
  <2>1. Outer(b)
    BY <1>0 DEF Outer, Placed, Body, Awaits
  <2> HIDE DEF b
  <2> QED BY <1>0, <1>1, <2>1, GotoGood DEF Suggests, b
<1>2. ASSUME NEW found \in SUBSET Elements, Lists(found) PROVE Good
  <2> DEFINE b == [body EXCEPT !.at = "filter", !.list = found]
  <2>1. Outer(b)
    BY <1>0 DEF Outer, Placed, Body, Awaits
  <2> HIDE DEF b
  <2> QED BY <1>0, <1>2, <2>1, GotoGood DEF Lists, b
<1>3. CASE Judges
  BY <1>0, <1>3, YieldsGood DEF Judges
<1>4. CASE Throws
  BY <1>0, <1>4, ThrowsGood
<1> QED BY <1>1, <1>2, <1>3, <1>4 DEF Ask

LEMMA ValidateGood == ASSUME LeafInv, Validate PROVE Good
<1>1. In("validate") /\ body.sel \in Elements \cup {None} /\ CmdInv
  BY BodyFields DEF Validate, Body, LeafInv
<1>2. CASE Found(body.sel)
  BY <1>1, <1>2, FoundGood DEF Validate
<1>3. CASE Throws /\ UNCHANGED handlers
  BY <1>1, <1>3, ThrowsGood, KeptCmd DEF Validate, cmdVars
<1> QED BY <1>2, <1>3 DEF Validate

(* A body that only ends.                                                  *)
LEMMA EndsGood ==
  ASSUME LeafInv, NEW ok \in BOOLEAN, Ended(ok), KeepContext, UNCHANGED <<tool, cmdVars>>
  PROVE  Good
BY EndedGood, KeptContext, KeptCmd DEF LeafInv, KeepContext

LEMMA SlotAnsweredGood == ASSUME LeafInv, SlotAnswered PROVE Good
<1> DEFINE i == body.k
           h == handlers[i]
<1>0. CmdInv /\ i \in Slots /\ h \in Handler /\ h # Free /\ Fits(h, downloads)
      /\ h.ok \in BOOLEAN
  <2>1. CmdInv /\ i \in Slots /\ h # Free
    BY DEF SlotAnswered, LeafInv, BodyInv
  <2>2. Fits(h, downloads)
    BY <2>1, NowFit
  <2> QED BY <2>1, <2>2 DEF Fits, Handler, IdleHandler, DownloadHandler
<1>1. CASE /\ Ended(h.ok) /\ UNCHANGED vars
           /\ artifacts' = IF h.ok /\ h.op = "download" THEN artifacts \cup {h.id} ELSE artifacts
           /\ handlers' = [handlers EXCEPT ![i] = Free]
  <2>1. CmdInv' /\ Kept /\ downloads' = downloads /\ tool' = tool
    BY <1>0, <1>1, FreeKeeps DEF SlotAnswered
  <2>2. artifacts' \subseteq Downloads /\ ArtifactsComplete'
    BY <1>0, <1>1, <2>1 DEF LeafInv, StepsTypeOK, ArtifactsComplete, Fits, Truthful
  <2>3. body' = NoBody /\ last' \in BOOLEAN /\ todo' = todo
    BY <1>0, <1>1 DEF Ended
  <2>4. StepsTypeOK'
    BY <1>1, <2>1, <2>2, <2>3 DEF LeafInv, StepsTypeOK
  <2>5. BodyInv'
    BY <2>3 DEF BodyInv, In
  <2> QED BY <2>1, <2>2, <2>3, <2>4, <2>5 DEF Good, LeafInv, Outer
<1>2. CASE Throws /\ Loosen(i)
  <2>1. CmdInv' /\ Kept /\ tool' = tool
    BY <1>0, <1>2, LoosenKeeps DEF SlotAnswered
  <2> QED BY <1>2, <2>1, ThrowsGood
<1> QED BY <1>1, <1>2 DEF SlotAnswered

LEMMA CountGood == ASSUME LeafInv, Count PROVE Good
<1>0. body \in Body /\ CmdInv' /\ Kept /\ tool' = tool
  BY BodyFields, KeptCmd DEF Count, LeafInv
<1> DEFINE b == [body EXCEPT !.at = "capture"]
<1>1. Outer(b)
  BY <1>0 DEF Outer, Placed, Body, Awaits
<1>2. CASE Goto("capture") /\ UNCHANGED <<last, todo>>
  BY <1>0, <1>1, <1>2, GotoGood DEF Goto, Count
<1>3. CASE Ended(TRUE)
  BY <1>3, EndsGood DEF Count
<1> QED BY <1>2, <1>3 DEF Count

LEMMA FilterGood == ASSUME LeafInv, Filter PROVE Good
<1>0. body \in Body /\ body.at = "filter" /\ CmdInv' /\ Kept /\ tool' = tool
  BY BodyFields, KeptCmd DEF Filter, LeafInv
<1>1. CASE Ended(TRUE)
  BY <1>1, EndsGood DEF Filter
<1>2. ASSUME NEW sel \in body.list, NEW exists,
             body' = [body EXCEPT !.list = @ \ {sel},
                                  !.items = IF exists THEN @ \cup {sel} ELSE @],
             UNCHANGED <<last, todo>>
      PROVE  Good
  <2> DEFINE l == body.list \ {sel}
             m == IF exists THEN body.items \cup {sel} ELSE body.items
             b == [body EXCEPT !.list = l, !.items = m]
  <2>1. l \in SUBSET Elements /\ m \in SUBSET Elements
    BY <1>0 DEF Body
  <2>2. Outer(b)
    <3> HIDE DEF l, m
    <3> QED BY <1>0, <2>1 DEF Outer, Placed, Body
  <2>3. body' = b
    BY <1>2
  <2> QED BY <1>0, <1>2, <2>2, <2>3, GotoGood DEF Filter
<1> QED BY <1>1, <1>2 DEF Filter

LEMMA ToolAnsweredGood == ASSUME LeafInv, ToolAnswered PROVE Good
<1>0. CmdInv' /\ Kept /\ tool' = NoTool
  BY KeptCmd DEF ToolAnswered, LeafInv
<1> QED BY <1>0, ThrowsGood, YieldsGood DEF ToolAnswered

(* Whatever a body awaits is answered: no body of an aiscope appears.      *)
LEMMA LeafGood == ASSUME LeafInv, LeafAnswer PROVE Good /\ ~In("scope")
<1>1. CASE Refuse
  BY <1>1, ThrowsGood, KeptCmd DEF Refuse, In, LeafInv
<1>2. CASE Probe
  BY <1>2, ProbeGood DEF Probe, In
<1>3. CASE Capture
  BY <1>3, CaptureGood DEF Capture, In
<1>4. CASE Ask
  BY <1>4, AskGood DEF Ask, In
<1>5. CASE Validate
  BY <1>5, ValidateGood DEF Validate, In
<1>6. CASE Act
  BY <1>6, EndsGood DEF Act, Acted, In
<1>7. CASE SlotAnswered
  BY <1>7, SlotAnsweredGood DEF SlotAnswered, In
<1>8. CASE Single
  BY <1>8, EndsGood DEF Single, Served, In
<1>9. CASE Extract
  BY <1>9, EndsGood, YieldsGood, ThrowsGood, KeptCmd DEF Extract, In, LeafInv
<1>10. CASE Check
  BY <1>10, YieldsGood, ThrowsGood, KeptCmd DEF Check, In, LeafInv
<1>11. CASE Count
  BY <1>11, CountGood DEF Count, In
<1>12. CASE Filter
  BY <1>12, FilterGood DEF Filter, In
<1>13. CASE ToolAnswered
  BY <1>13, ToolAnsweredGood DEF ToolAnswered, In
<1> QED BY <1>1, <1>2, <1>3, <1>4, <1>5, <1>6, <1>7, <1>8, <1>9, <1>10, <1>11, <1>12, <1>13
        DEF LeafAnswer

LEMMA BeginStepGood == ASSUME LeafInv, BeginStep PROVE Good /\ body = NoBody
<1> DEFINE s == todo[1]
           at == FirstAwait(s)
<1>0. /\ todo \in Seq(Steps) /\ todo # <<>> /\ s \in Steps /\ StepShape(s) /\ s.kind # "aiscope"
      /\ Tail(todo) \in Seq(Steps) /\ body = NoBody /\ todo' = Tail(todo)
  <2>1. todo \in Seq(Steps) /\ todo # <<>> /\ body = NoBody /\ todo' = Tail(todo)
    BY DEF BeginStep, Take, LeafInv, StepsTypeOK
  <2>2. s \in Steps /\ Tail(todo) \in Seq(Steps)
    BY <2>1, EmptySeq, ElementOfSeq, LenProperties, HeadTailProperties
  <2> QED BY <2>1, <2>2 DEF BeginStep
<1>1. /\ at \in Awaits \ {"scope"}
      /\ at = "probe" => s.cands \in Seq(Elements) /\ 1 \in 1 .. Len(s.cands)
  <2>1. s.kind \in {"interact", "download"} => s.cands \in Seq(Elements)
    BY <1>0 DEF StepShape
  <2>2. s.cands \in Seq(Elements) /\ s.cands # <<>> => 1 \in 1 .. Len(s.cands)
    BY EmptySeq, LenProperties
  <2>3. at \in Awaits \ {"scope"}
    BY <1>0 DEF FirstAwait, Awaits, StepShape
  <2>4. at = "probe" => s.kind \in {"interact", "download"} /\ s.cands # <<>>
    BY <1>0 DEF FirstAwait, StepShape
  <2> QED BY <2>1, <2>2, <2>3, <2>4
<1>2. Context' /\ artifacts' = artifacts /\ last' \in BOOLEAN
  <2>1. s.kind = "tool" => s.tool \in Tools
    BY <1>0 DEF StepShape
  <2> QED BY <2>1 DEF BeginStep, KeepContext, LeafInv, StepsTypeOK, Context
<1> HIDE DEF at
<1>3. /\ CmdInv' /\ Kept
      /\ \E b : Outer(b) /\ body' = b
  <2>1. CASE at # "slot" /\ body' = NewBody(s, at) /\ UNCHANGED handlers
    <3>1. Outer(NewBody(s, at))
      BY <1>0, <1>1, <2>1 DEF Outer, Placed, Body, NewBody
    <3> QED BY <2>1, <3>1, KeptCmd DEF BeginStep, LeafInv, cmdVars
  <2>2. CASE /\ at = "slot"
             /\ \E i \in Slots : TakeSlot(s, i) /\ body' = [NewBody(s, at) EXCEPT !.k = i]
    <3>1. PICK i \in Slots : TakeSlot(s, i) /\ body' = [NewBody(s, at) EXCEPT !.k = i]
      BY <2>2
    <3>2. Outer([NewBody(s, at) EXCEPT !.k = i])
      BY <1>0, <1>1, <2>2 DEF Outer, Placed, Body, NewBody
    <3>3. CmdInv' /\ Kept
      BY <3>1, StartIdleKeeps, StartDownloadKeeps DEF TakeSlot, BeginStep, LeafInv
    <3> QED BY <3>1, <3>2, <3>3
  <2> QED BY <2>1, <2>2 DEF BeginStep, at
<1>4. PICK b : Outer(b) /\ body' = b
  BY <1>3
<1>5. StepsTypeOK'
  BY <1>0, <1>2, <1>4 DEF Outer, Placed, Context, StepsTypeOK, Body
<1>6. BodyInv'
  BY <1>4, NoBodyIsNone DEF BodyInv, In, Outer, Placed
<1>7. ArtifactsComplete'
  BY <1>2, <1>3 DEF LeafInv, ArtifactsComplete, Kept, StepsTypeOK
<1> QED BY <1>0, <1>3, <1>4, <1>5, <1>6, <1>7 DEF Good, LeafInv

LEMMA ToolStepGood == ASSUME LeafInv, ToolStep PROVE LeafInv'
<1>1. tool' = NoTool \/ tool' \in [cmd : Tools \cup {"latest", "over"}, ok : BOOLEAN]
  <2> DEFINE T == [cmd : Tools \cup {"latest", "over"}, ok : BOOLEAN]
  <2>1. tool \in T
    <3>1. tool.cmd # "none"
      BY DEF ToolStep, Wait, Latest, Vault
    <3>2. tool # NoTool
      BY <3>1 DEF NoTool
    <3> QED BY <3>2 DEF LeafInv, StepsTypeOK
  <2>2. ASSUME NEW ok \in BOOLEAN, ToolOver(ok) PROVE tool' \in T
    BY <2>2 DEF ToolOver
  <2>3. ASSUME tool' = [tool EXCEPT !.cmd = "latest"] PROVE tool' \in T
    BY <2>1, <2>3
  <2> QED BY <2>2, <2>3 DEF ToolStep, Wait, Latest, Vault
<1>2. CmdInv' /\ Kept
  BY KeptCmd DEF ToolStep, LeafInv
<1>3. StepsTypeOK' /\ BodyInv' /\ ArtifactsComplete'
  BY <1>1, <1>2
     DEF ToolStep, LeafInv, StepsTypeOK, BodyInv, ArtifactsComplete, Kept, In, cmdVars
<1> QED BY <1>2, <1>3 DEF LeafInv

(* The browser and the handlers go on while the steps stay where they are. *)
LEMMA CommandsGood ==
  ASSUME LeafInv, CmdInv', Kept, UNCHANGED stepVars
  PROVE  LeafInv'
BY DEF LeafInv, stepVars, StepsTypeOK, BodyInv, ArtifactsComplete, Kept, In

(***************************************************************************)
(* The loop of an aiscope step.                                            *)
(***************************************************************************)
USE ScopeAssumption

Loop ==
  [at : {"plan", "head", "observe", "decide", "check", "both", "replan", "dispatch"},
   iteration : 0 .. MaxIterations, history : Seq(Entry), plan : 0 .. MaxMilestones,
   index : Nat, replans : 0 .. MaxReplans,
   attempted : SUBSET (1 .. MaxMilestones), choice : Choice \cup {None}]

(* What AttemptedArePassed and SecretsUntold say of a loop s.              *)
Passed(s) == s.attempted = {m \in 1 .. s.plan : m <= s.index}
Untold(s) == \A n \in DOMAIN s.history : s.history[n].value # "secret"

(* An iteration of s is under way, or all of them are told.                *)
Due(s)    == s \in Loop /\ Len(s.history) = s.iteration - 1 /\ Passed(s) /\ Untold(s)
AtHead(s) == /\ s \in Loop /\ Len(s.history) = s.iteration /\ Passed(s) /\ Untold(s)
             /\ s.at \in {"plan", "head"} /\ (s.at = "plan" => s.index = 0)

Fit(s) ==
  /\ AtHead(s) \/ (Due(s) /\ s.at \notin {"plan", "head"})
  /\ s.at = "dispatch" => s.choice \in Choice
  /\ s.at = "check" => Step.check = "page"
  /\ s.at = "both"  => Step.check = "model"
  /\ s.at = "decide" => Step.check # "model"

ScopeAll == ScopeTypeOK /\ ScopeInv /\ LoopInv /\ AttemptedArePassed /\ SecretsUntold

LEMMA LoopIsNone == \A s \in Loop : s # NoScope
BY DEF Loop, NoScope

LEMMA NowFits ==
  ASSUME ScopeAll, scope # NoScope
  PROVE  Fit(scope) /\ scope \in Loop /\ Step.kind = "aiscope" /\ In("scope")
<1>1. scope \in Loop
  BY DEF ScopeAll, ScopeTypeOK, Loop
<1>2. Passed(scope) /\ Untold(scope)
  BY DEF ScopeAll, AttemptedArePassed, SecretsUntold, Passed, Untold
<1>3. CASE scope.at \in {"plan", "head"}
  <2>1. AtHead(scope)
    BY <1>1, <1>2, <1>3 DEF ScopeAll, ScopeInv, AtHead
  <2> QED BY <1>1, <1>3, <2>1 DEF ScopeAll, LoopInv, Fit
<1>4. CASE scope.at \notin {"plan", "head"}
  <2>1. Due(scope)
    BY <1>1, <1>2, <1>4 DEF ScopeAll, ScopeInv, Due
  <2>2. /\ Step.kind = "aiscope" /\ In("scope")
        /\ scope.at = "check" => Step.check = "page"
        /\ scope.at = "both"  => Step.check = "model"
        /\ scope.at = "decide" => Step.check # "model"
    BY DEF ScopeAll, LoopInv
  <2>3. scope.at = "dispatch" => scope.choice \in Choice
    BY DEF ScopeAll, ScopeInv
  <2> QED BY <1>1, <1>4, <2>1, <2>2, <2>3 DEF Fit
<1> QED BY <1>3, <1>4

LEMMA FitsAll ==
  ASSUME NEW s, Fit(s), scope' = s, body' = body, late' \in BOOLEAN, In("scope"),
         Step.kind = "aiscope"
  PROVE  ScopeAll'
<1>0. s \in Loop /\ s # NoScope
  BY LoopIsNone DEF Fit, Due, AtHead
<1>1. ScopeTypeOK'
  BY <1>0 DEF ScopeTypeOK, Loop
<1>2. ScopeInv'
  BY DEF ScopeInv, Fit, Due, AtHead
<1>3. LoopInv'
  BY <1>0 DEF LoopInv, Fit, In, Step
<1>4. AttemptedArePassed' /\ SecretsUntold'
  BY DEF AttemptedArePassed, SecretsUntold, Fit, Due, AtHead, Passed, Untold
<1> QED BY <1>1, <1>2, <1>3, <1>4 DEF ScopeAll

LEMMA NoneAll ==
  ASSUME scope' = NoScope, late' \in BOOLEAN, ~In("scope")'
  PROVE  ScopeAll'
BY DEF ScopeAll, ScopeTypeOK, ScopeInv, LoopInv, AttemptedArePassed, SecretsUntold, NoScope

(* The iteration ends with an entry in the history.                        *)
LEMMA NotedFits ==
  ASSUME NEW s, Due(s), NEW e \in Entry, e.value # "secret"
  PROVE  Fit(Noted(s, e))
<1> DEFINE h == Append(s.history, e)
           r == [s EXCEPT !.at = "head", !.history = h, !.choice = None]
<1>0. s \in Loop /\ s.history \in Seq(Entry) /\ s.iteration \in Nat
  BY DEF Due, Loop
<1>1. h \in Seq(Entry) /\ Len(h) = Len(s.history) + 1
  BY <1>0, AppendProperties
<1>2. Len(h) = s.iteration
  BY <1>0, <1>1, LenProperties DEF Due
<1>3. \A n \in DOMAIN h : h[n].value # "secret"
  BY <1>0, AppendProperties, LenProperties DEF Due, Untold
<1> HIDE DEF h
<1>4. /\ r \in Loop /\ r.at = "head" /\ r.history = h /\ r.iteration = s.iteration
      /\ r.plan = s.plan /\ r.index = s.index /\ r.attempted = s.attempted
  BY <1>0, <1>1 DEF Loop
<1>5. AtHead(r)
  BY <1>2, <1>3, <1>4 DEF AtHead, Due, Passed, Untold
<1>6. Noted(s, e) = r
  BY DEF Noted, h
<1> HIDE DEF r
<1>7. r.at # "dispatch" /\ r.at # "check" /\ r.at # "both" /\ r.at # "decide"
  BY <1>4
<1>8. Fit(r)
  BY <1>5, <1>7 DEF Fit
<1> QED BY <1>6, <1>8

LEMMA NoteIsEntry ==
  ASSUME NEW action \in {"done", "act", "unknown", "type", "tool_call", "replan"}, NEW ok \in BOOLEAN
  PROVE  Note(action, ok) \in Entry /\ Note(action, ok).value # "secret"
BY DEF Note, Entry

LEMMA AdvancedDue == ASSUME NEW s, Due(s) PROVE Due(Advanced(s)) /\ Advanced(s).at = s.at
<1> DEFINE n == s.index + 1
           a == IF s.index < s.plan THEN s.attempted \cup {n} ELSE s.attempted
           r == [s EXCEPT !.index = n, !.attempted = a]
<1>0. s \in Loop /\ s.index \in Nat /\ s.plan \in 0 .. MaxMilestones
  BY DEF Due, Loop
<1>1. a = {m \in 1 .. s.plan : m <= n}
  BY <1>0 DEF Due, Passed
<1>2. a \in SUBSET (1 .. MaxMilestones) /\ n \in Nat
  BY <1>0, <1>1
<1> HIDE DEF a, n
<1>3. /\ r \in Loop /\ r.at = s.at /\ r.history = s.history /\ r.iteration = s.iteration
      /\ r.plan = s.plan /\ r.index = n /\ r.attempted = a
  BY <1>0, <1>2 DEF Loop
<1>4. Due(r)
  BY <1>1, <1>3 DEF Due, Passed, Untold
<1>5. Advanced(s) = r
  BY DEF Advanced, a, n
<1> QED BY <1>3, <1>4, <1>5

AllInv == LeafInv /\ ScopeAll

(* What EndsAsAsked says of a step.                                        *)
Asked ==
  (scope # NoScope /\ body' = NoBody /\ last') =>
     CASE Step.check = "page"  -> Step.fact \in page
       [] Step.check = "none"  -> "done" \notin Step.forbids
       [] Step.check = "model" -> InScope("both")

LEMMA NotHere == ASSUME NEW at, InScope(at), at # "none" PROVE scope # NoScope
BY DEF InScope, NoScope

(* The loop goes on.                                                       *)
LEMMA GoesOn ==
  ASSUME AllInv, scope # NoScope, NEW s, Fit(s), scope' = s, Stays, Outside, Context'
  PROVE  AllInv' /\ Asked
<1>1. In("scope") /\ Step.kind = "aiscope"
  BY NowFits DEF AllInv
<1>2. body' = body /\ body # NoBody /\ late' \in BOOLEAN
  BY <1>1 DEF Stays, In, AllInv, ScopeAll, ScopeTypeOK
<1>3. ScopeAll'
  BY <1>1, <1>2, FitsAll
<1>4. CmdInv' /\ Kept
  BY KeptCmd DEF Outside, AllInv, LeafInv
<1>5. StepsTypeOK' /\ BodyInv' /\ ArtifactsComplete'
  BY <1>1, <1>2, <1>4 DEF Stays, Outside, Context, AllInv, LeafInv, StepsTypeOK, BodyInv,
     ArtifactsComplete, Kept, In
<1> QED BY <1>2, <1>3, <1>4, <1>5 DEF AllInv, LeafInv, Asked

(* The loop ends, and the step with it.                                    *)
LEMMA Closes ==
  ASSUME AllInv, NEW ok \in BOOLEAN, ScopeEnds(ok), Outside, Context'
  PROVE  AllInv' /\ last' = ok
<1>1. CmdInv' /\ Kept /\ artifacts' = artifacts
  BY KeptCmd DEF Outside, AllInv, LeafInv
<1>2. Good
  BY <1>1, EndedGood DEF AllInv, ScopeEnds
<1>3. ~In("scope")' /\ scope' = NoScope /\ late' \in BOOLEAN
  BY DEF ScopeEnds, Ended, In
<1> QED BY <1>2, <1>3, NoneAll DEF Good, AllInv, ScopeEnds, Ended

LEMMA Fails ==
  ASSUME AllInv, ScopeEnds(FALSE), Outside, Context'
  PROVE  AllInv' /\ Asked
BY Closes DEF Asked

LEMMA ScopeFields ==
  ASSUME AllInv, NEW at, InScope(at), at # "none"
  PROVE  /\ scope # NoScope /\ Fit(scope) /\ scope \in Loop /\ scope.at = at
         /\ Step \in Steps /\ Step.kind = "aiscope" /\ Context
         /\ at \notin {"plan", "head"} => Due(scope)
         /\ at \in {"plan", "head"} => AtHead(scope)
<1>1. scope # NoScope /\ scope.at = at
  BY NotHere DEF InScope
<1>2. Fit(scope) /\ scope \in Loop /\ Step.kind = "aiscope" /\ In("scope")
  BY <1>1, NowFits DEF AllInv
<1>3. Step \in Steps
  BY <1>2, BodyFields DEF AllInv, Step
<1> QED BY <1>1, <1>2, <1>3 DEF Fit, AtHead, AllInv, LeafInv, StepsTypeOK, Context

LEMMA SameContext == ASSUME AllInv, UNCHANGED <<vars, tool>>, Outside PROVE Context'
BY DEF AllInv, LeafInv, StepsTypeOK, Context, Outside

LEMMA PlanGood == ASSUME AllInv, Plan PROVE AllInv' /\ Asked
<1>0. Context' /\ Outside /\ scope # NoScope /\ AtHead(scope) /\ scope.at = "plan"
  BY SameContext, ScopeFields DEF Plan
<1>1. ASSUME NEW n \in 1 .. MaxMilestones, scope' = [scope EXCEPT !.at = "head", !.plan = n], Stays
      PROVE  AllInv' /\ Asked
  <2> DEFINE s == [scope EXCEPT !.at = "head", !.plan = n]
  <2>0. n \in 0 .. MaxMilestones /\ scope \in Loop /\ scope.index = 0
    BY <1>0 DEF AtHead
  <2>1. /\ s \in Loop /\ s.at = "head" /\ s.history = scope.history
        /\ s.iteration = scope.iteration /\ s.plan = n /\ s.index = 0 /\ s.attempted = scope.attempted
    BY <2>0 DEF Loop
  <2>2. s.attempted = {}
    BY <1>0, <2>1 DEF AtHead, Passed
  <2>3. Fit(s)
    <3> HIDE DEF s
    <3> QED BY <1>0, <2>1, <2>2 DEF AtHead, Passed, Untold, Fit
  <2> QED BY <1>0, <1>1, <2>3, GoesOn
<1>2. CASE ScopeEnds(FALSE)
  BY <1>0, <1>2, Fails
<1> QED BY <1>1, <1>2 DEF Plan

LEMMA LoopHeadGood == ASSUME AllInv, LoopHead PROVE AllInv' /\ Asked
<1>0. Context' /\ Outside /\ scope # NoScope /\ AtHead(scope) /\ scope.at = "head"
  BY SameContext, ScopeFields DEF LoopHead
<1>1. CASE ScopeEnds(FALSE)
  BY <1>0, <1>1, Fails
<1>2. CASE scope.iteration # MaxIterations
           /\ scope' = [scope EXCEPT !.at = "observe", !.iteration = @ + 1] /\ Stays
  <2> DEFINE n == scope.iteration + 1
             s == [scope EXCEPT !.at = "observe", !.iteration = n]
  <2>1. scope.iteration \in 0 .. MaxIterations
    BY <1>0 DEF AtHead, Loop
  <2>2. n \in 0 .. MaxIterations /\ n - 1 = scope.iteration
    BY <1>2, <2>1
  <2>3. scope' = s
    BY <1>2
  <2> HIDE DEF n
  <2>4. /\ s \in Loop /\ s.at = "observe" /\ s.history = scope.history /\ s.iteration = n
        /\ s.plan = scope.plan /\ s.index = scope.index /\ s.attempted = scope.attempted
    BY <1>0, <2>2 DEF AtHead, Loop
  <2>5. Fit(s)
    <3> HIDE DEF s
    <3> QED BY <1>0, <2>2, <2>4 DEF AtHead, Due, Passed, Untold, Fit
  <2> QED BY <1>0, <1>2, <2>3, <2>5, GoesOn
<1> QED BY <1>1, <1>2 DEF LoopHead

(* The iteration goes on elsewhere.                                        *)
LEMMA MovedDue ==
  ASSUME NEW s, Due(s), NEW at \in {"observe", "decide", "check", "both", "replan", "dispatch"}
  PROVE  Due([s EXCEPT !.at = at]) /\ [s EXCEPT !.at = at].at = at
<1> DEFINE r == [s EXCEPT !.at = at]
<1>1. /\ r \in Loop /\ r.at = at /\ r.history = s.history /\ r.iteration = s.iteration
      /\ r.plan = s.plan /\ r.index = s.index /\ r.attempted = s.attempted
  BY DEF Due, Loop
<1> HIDE DEF r
<1>2. Due(r) /\ r.at = at
  BY <1>1 DEF Due, Passed, Untold
<1> QED BY <1>2 DEF r

LEMMA ObserveGood == ASSUME AllInv, Observe PROVE AllInv' /\ Asked
<1>0. /\ Context' /\ Outside /\ scope # NoScope /\ Due(scope) /\ Step \in Steps
      /\ Step.kind = "aiscope"
  BY SameContext, ScopeFields DEF Observe
<1>1. CASE ScopeEnds(FALSE)
  BY <1>0, <1>1, Fails
<1> DEFINE at == CASE Step.check = "none"  -> "decide"
                   [] Step.check = "page"  -> "check"
                   [] Step.check = "model" -> "both"
<1>2. CASE scope' = [scope EXCEPT !.at = at] /\ Stays
  <2> DEFINE s == [scope EXCEPT !.at = at]
  <2>1. /\ at \in {"decide", "check", "both"}
        /\ at = "check" => Step.check = "page"
        /\ at = "both" => Step.check = "model"
        /\ at = "decide" => Step.check # "model"
    BY <1>0
  <2> HIDE DEF at
  <2>a. at \in {"observe", "decide", "check", "both", "replan", "dispatch"}
    BY <2>1
  <2>2. Due(s) /\ s.at = at
    BY <1>0, <2>a, MovedDue
  <2>3. Fit(s)
    <3> HIDE DEF s
    <3> QED BY <2>1, <2>2 DEF Fit
  <2> QED BY <1>0, <1>2, <2>3, GoesOn
<1> QED BY <1>1, <1>2 DEF Observe

LEMMA CheckFirstGood == ASSUME AllInv, CheckFirst PROVE AllInv' /\ Asked
<1>0. /\ Context' /\ Outside /\ scope # NoScope /\ Due(scope) /\ Step \in Steps
      /\ Step.kind = "aiscope" /\ Step.check = "page"
  BY SameContext, ScopeFields DEF CheckFirst, Fit
<1>1. CASE ScopeEnds(FALSE)
  BY <1>0, <1>1, Fails
<1>2. CASE TRUE \in Checks(Step.fact) /\ ScopeEnds(TRUE)
  <2>1. Step.fact \in page
    BY <1>2 DEF Checks
  <2>2. AllInv'
    BY <1>0, <1>2, Closes
  <2> QED BY <1>0, <2>1, <2>2 DEF Asked
<1>3. CASE scope' = [scope EXCEPT !.at = "decide"] /\ Stays
  <2> DEFINE s == [scope EXCEPT !.at = "decide"]
  <2>1. Due(s) /\ s.at = "decide"
    BY <1>0, MovedDue
  <2>2. Fit(s)
    <3> HIDE DEF s
    <3> QED BY <1>0, <2>1 DEF Fit
  <2> QED BY <1>0, <1>3, <2>2, GoesOn
<1>4. \A b \in Checks(Step.fact) : b \in BOOLEAN
  BY DEF Checks
<1>5. ASSUME NEW b \in Checks(Step.fact),
             IF b THEN ScopeEnds(TRUE) ELSE scope' = [scope EXCEPT !.at = "decide"] /\ Stays
      PROVE  AllInv' /\ Asked
  <2>1. CASE b = TRUE
    BY <1>2, <1>5, <2>1
  <2>2. CASE b = FALSE
    BY <1>3, <1>5, <2>2
  <2> QED BY <1>4, <1>5, <2>1, <2>2
<1> QED BY <1>1, <1>5 DEF CheckFirst

LEMMA NotedGood ==
  ASSUME AllInv, scope # NoScope, NEW s, Due(s), NEW e \in Entry, e.value # "secret",
         scope' = Noted(s, e), Stays, Outside, Context'
  PROVE  AllInv' /\ Asked
BY NotedFits, GoesOn

LEMMA ReplanGood ==
  ASSUME AllInv, scope # NoScope, Due(scope), Replan, Outside, Context'
  PROVE  AllInv' /\ Asked
<1>1. CASE IgnoreReplan
  BY <1>1, NoteIsEntry, NotedGood DEF IgnoreReplan
<1>2. CASE /\ ~(scope.replans >= MaxReplans)
           /\ scope' = [scope EXCEPT !.at = "replan", !.replans = @ + 1] /\ Stays
  <2> DEFINE n == scope.replans + 1
             s == [scope EXCEPT !.at = "replan", !.replans = n]
  <2>1. scope \in Loop /\ scope.replans \in 0 .. MaxReplans
    BY DEF Due, Loop
  <2>2. n \in 0 .. MaxReplans
    BY <1>2, <2>1
  <2>3. scope' = s
    BY <1>2
  <2> HIDE DEF n
  <2>4. /\ s \in Loop /\ s.at = "replan" /\ s.history = scope.history
        /\ s.iteration = scope.iteration
        /\ s.plan = scope.plan /\ s.index = scope.index /\ s.attempted = scope.attempted
    BY <2>1, <2>2 DEF Loop
  <2>5. Fit(s)
    <3> HIDE DEF s
    <3> QED BY <2>4 DEF Due, Passed, Untold, Fit
  <2> QED BY <1>2, <2>3, <2>5, GoesOn
<1> QED BY <1>1, <1>2 DEF Replan

LEMMA DispatchGood ==
  ASSUME AllInv, scope # NoScope, NEW s, Due(s), NEW c \in Choice, Dispatch(s, c),
         UNCHANGED vars, Outside
  PROVE  AllInv' /\ Asked
<1> DEFINE r == [s EXCEPT !.at = "dispatch", !.choice = c]
<1>1. /\ r \in Loop /\ r.at = "dispatch" /\ r.choice = c /\ r.history = s.history
      /\ r.iteration = s.iteration
      /\ r.plan = s.plan /\ r.index = s.index /\ r.attempted = s.attempted
  BY DEF Due, Loop
<1>2. Fit(r)
  <2> HIDE DEF r
  <2> QED BY <1>1 DEF Due, Passed, Untold, Fit
<1>3. Context'
  <2>1. Context
    BY DEF AllInv, LeafInv, StepsTypeOK, Context
  <2>2. tool' = tool \/ \E cmd \in Tools : tool' = [cmd |-> cmd, ok |-> FALSE]
    BY DEF Dispatch
  <2>3. tool' = NoTool \/ tool' \in [cmd : Tools \cup {"latest", "over"}, ok : BOOLEAN]
    <3>1. \A cmd \in Tools : [cmd |-> cmd, ok |-> FALSE]
                             \in [cmd : Tools \cup {"latest", "over"}, ok : BOOLEAN]
      OBVIOUS
    <3>2. CASE tool' = tool
      BY <2>1, <3>2 DEF Context
    <3>3. ASSUME NEW cmd \in Tools, tool' = [cmd |-> cmd, ok |-> FALSE]
          PROVE  tool' \in [cmd : Tools \cup {"latest", "over"}, ok : BOOLEAN]
      BY <3>1, <3>3
    <3> QED BY <2>2, <3>2, <3>3
  <2> QED BY <2>1, <2>3 DEF Context, Outside
<1> QED BY <1>2, <1>3, GoesOn DEF Dispatch

LEMMA FollowGood ==
  ASSUME AllInv, NEW at \in {"decide", "both"}, InScope(at), NEW d \in Decision, Follow(d),
         UNCHANGED vars, Outside
  PROVE  AllInv' /\ Asked
<1>0. /\ scope # NoScope /\ Due(scope) /\ scope \in Loop /\ Context
      /\ Step \in Steps /\ Step.kind = "aiscope" /\ d.choice \in Choice
  BY ScopeFields DEF Decision
<1> DEFINE advances == Step.agent /\ d.complete
           s        == IF advances THEN Advanced(scope) ELSE scope
           action   == IF PlanIsThrough(s, advances) THEN "done" ELSE d.choice.action
<1>1. Due(s)
  BY <1>0, AdvancedDue
<1>2. action \in {"done", "act", "unknown", "type", "tool_call", "replan"}
  BY <1>0 DEF Choice
<1>3. ASSUME UNCHANGED tool PROVE Context'
  BY <1>0, <1>3 DEF Context, Outside
<1> HIDE DEF s, action
<1>4. CASE Replan /\ UNCHANGED tool
  BY <1>0, <1>3, <1>4, ReplanGood
<1>5. CASE scope' = Noted(s, Note(action, FALSE)) /\ Stays /\ UNCHANGED tool
  BY <1>0, <1>1, <1>2, <1>3, <1>5, NoteIsEntry, NotedGood
<1>6. CASE Allowed(action) /\ action = "done" /\ TakeDone(s) /\ UNCHANGED tool
  <2>1. CASE SelfTerminating /\ ScopeEnds(TRUE)
    <3>1. AllInv'
      BY <1>3, <1>6, <2>1, Closes
    <3>2. Step.check = "none" /\ "done" \notin Step.forbids
      BY <1>6, <2>1 DEF SelfTerminating, Allowed
    <3> QED BY <3>1, <3>2 DEF Asked
  <2>2. CASE scope' = Noted(s, Note("done", TRUE)) /\ Stays
    BY <1>0, <1>1, <1>3, <1>6, <2>2, NoteIsEntry, NotedGood
  <2> QED BY <1>6, <2>1, <2>2 DEF TakeDone
<1>7. CASE Dispatch(s, d.choice)
  BY <1>0, <1>1, <1>7, DispatchGood
<1> QED BY <1>4, <1>5, <1>6, <1>7 DEF Follow, s, action

LEMMA DecideGood == ASSUME AllInv, Decide PROVE AllInv' /\ Asked
<1>0. InScope("decide") /\ UNCHANGED vars /\ Outside /\ Context
  BY ScopeFields DEF Decide, Outside
<1>1. CASE ScopeEnds(FALSE) /\ UNCHANGED tool
  BY <1>0, <1>1, Fails, SameContext
<1> QED BY <1>0, <1>1, FollowGood DEF Decide

LEMMA DecideAndCheckGood == ASSUME AllInv, DecideAndCheck PROVE AllInv' /\ Asked
<1>0. InScope("both") /\ UNCHANGED vars /\ Outside /\ Context
  BY ScopeFields DEF DecideAndCheck, Outside
<1>1. ASSUME NEW ok \in BOOLEAN, ScopeEnds(ok), UNCHANGED tool PROVE AllInv' /\ Asked
  <2>1. Step.check = "model"
    BY <1>0, ScopeFields DEF Fit
  <2>2. AllInv'
    BY <1>0, <1>1, Closes, SameContext
  <2> QED BY <1>0, <2>1, <2>2 DEF Asked
<1> QED BY <1>0, <1>1, FollowGood DEF DecideAndCheck

LEMMA ReplannedGood == ASSUME AllInv, Replanned PROVE AllInv' /\ Asked
<1>0. Context' /\ Outside /\ scope # NoScope /\ Due(scope) /\ scope \in Loop
  BY SameContext, ScopeFields DEF Replanned
<1>1. CASE ScopeEnds(FALSE)
  BY <1>0, <1>1, Fails
<1>2. ASSUME NEW n \in 1 .. MaxMilestones, scope' = Noted(NewPlan(scope, n), Note("replan", TRUE)),
             Stays
      PROVE  AllInv' /\ Asked
  <2> DEFINE s == [scope EXCEPT !.plan = n, !.index = 0, !.attempted = {}]
  <2>1. n \in 0 .. MaxMilestones /\ {} \in SUBSET (1 .. MaxMilestones) /\ 0 \in Nat
    OBVIOUS
  <2>2. /\ s \in Loop /\ s.history = scope.history /\ s.iteration = scope.iteration
        /\ s.plan = n /\ s.index = 0 /\ s.attempted = {}
    BY <1>0, <2>1 DEF Loop
  <2>3. Due(s)
    <3> HIDE DEF s
    <3> QED BY <1>0, <2>2 DEF Due, Passed, Untold
  <2>4. NewPlan(scope, n) = s
    BY DEF NewPlan
  <2> QED BY <1>0, <1>2, <2>3, <2>4, NoteIsEntry, NotedGood
<1> QED BY <1>1, <1>2 DEF Replanned

LEMMA DispatchedGood == ASSUME AllInv, Dispatched PROVE AllInv' /\ Asked
<1> DEFINE c == scope.choice
<1>0. /\ Context' /\ Outside /\ scope # NoScope /\ Due(scope) /\ c \in Choice
      /\ c.action # "tool_call"
  BY SameContext, ScopeFields DEF Dispatched, Fit
<1>1. ASSUME NEW ok \in BOOLEAN
      PROVE  LET e == [action |-> c.action, ok |-> ok, value |-> IF ok THEN ToldValue(c) ELSE None]
             IN  e \in Entry /\ e.value # "secret"
  <2>1. c.action \in {"done", "act", "unknown", "type", "tool_call", "replan"}
    BY <1>0 DEF Choice
  <2>2. ToldValue(c) \in {Told, None} /\ Told # "secret"
    BY DEF ToldValue, Told
  <2> QED BY <2>1, <2>2 DEF Entry
<1>2. PICK ok \in BOOLEAN :
        scope' = Noted(scope, [action |-> c.action, ok |-> ok,
                               value |-> IF ok THEN ToldValue(c) ELSE None])
  BY DEF Dispatched, Acted
<1> QED BY <1>0, <1>1, <1>2, NotedGood DEF Dispatched

LEMMA ToolDispatchedGood == ASSUME AllInv, ToolDispatched PROVE AllInv' /\ Asked
<1>0. scope # NoScope /\ Due(scope) /\ Outside /\ Context
  BY ScopeFields DEF ToolDispatched
<1>1. Context' /\ tool.ok \in BOOLEAN
  <2>1. tool # NoTool
    BY DEF ToolDispatched, NoTool
  <2> QED BY <1>0, <2>1 DEF ToolDispatched, Context, Outside, Values
<1> QED BY <1>0, <1>1, NoteIsEntry, NotedGood DEF ToolDispatched

LEMMA BeginScopeGood == ASSUME AllInv, BeginScope PROVE AllInv' /\ Asked
<1> DEFINE s == todo[1]
           b == NewBody(s, "scope")
           r == [at |-> IF s.agent THEN "plan" ELSE "head", iteration |-> 0, history |-> <<>>,
                 plan |-> 0, index |-> 0, replans |-> 0, attempted |-> {}, choice |-> None]
<1>0. /\ s \in Steps /\ s.kind = "aiscope" /\ Tail(todo) \in Seq(Steps) /\ todo' = Tail(todo)
      /\ body' = b /\ scope' = r /\ body = NoBody /\ last' \in BOOLEAN
  <2>1. todo \in Seq(Steps) /\ todo # <<>>
    BY DEF BeginScope, Take, AllInv, LeafInv, StepsTypeOK
  <2>2. s \in Steps /\ Tail(todo) \in Seq(Steps)
    BY <2>1, EmptySeq, ElementOfSeq, LenProperties, HeadTailProperties
  <2> QED BY <2>2 DEF BeginScope, Take, AllInv, LeafInv, StepsTypeOK
<1>1. b \in Body /\ b.at = "scope" /\ b.step = s /\ b # NoBody
  <2>1. b \in Body /\ b.at = "scope" /\ b.step = s
    BY <1>0 DEF NewBody, Body, Awaits
  <2> QED BY <2>1, NoBodyIsNone
<1>2. StepsTypeOK'
  BY <1>0, <1>1 DEF BeginScope, Outside, AllInv, LeafInv, StepsTypeOK, Body
<1>3. CmdInv' /\ Kept
  BY KeptCmd DEF BeginScope, Outside, AllInv, LeafInv
<1>4. BodyInv' /\ ArtifactsComplete'
  BY <1>0, <1>1, <1>3
     DEF BeginScope, Outside, AllInv, LeafInv, BodyInv, In, ArtifactsComplete, Kept, StepsTypeOK
<1>5. /\ r.at \in {"plan", "head"} /\ r.index = 0 /\ Len(r.history) = 0 /\ r.iteration = 0
      /\ r.attempted = {} /\ r.plan = 0 /\ r.history = <<>>
      /\ r \in Loop
  <2>1. <<>> \in Seq(Entry) /\ Len(<<>>) = 0
    BY EmptySeq
  <2> QED BY <1>0, <2>1 DEF Loop
<1> HIDE DEF r, b
<1>6. scope' # NoScope /\ In("scope")' /\ Step' = s /\ late' \in BOOLEAN
  BY <1>0, <1>1, <1>5, LoopIsNone DEF In, Step, BeginScope, AllInv, ScopeAll, ScopeTypeOK
<1>7. ScopeAll'
  <2>1. ScopeTypeOK' /\ ScopeInv' /\ LoopInv'
    BY <1>0, <1>5, <1>6 DEF ScopeTypeOK, ScopeInv, LoopInv, Loop
  <2>2. AttemptedArePassed' /\ SecretsUntold'
    BY <1>0, <1>5, <1>6 DEF AttemptedArePassed, SecretsUntold
  <2> QED BY <2>1, <2>2 DEF ScopeAll
<1>8. Asked
  BY <1>0, <1>1 DEF Asked
<1> QED BY <1>2, <1>3, <1>4, <1>7, <1>8 DEF AllInv, LeafInv

(* Every action of the loop.                                               *)
LEMMA ScopeAnswerGood == ASSUME AllInv, ScopeAnswer PROVE AllInv' /\ Asked
BY PlanGood, LoopHeadGood, ObserveGood, CheckFirstGood, DecideGood, DecideAndCheckGood,
   ReplannedGood, DispatchedGood, ToolDispatchedGood DEF ScopeAnswer

(* While another step is in execution the loop is not.                     *)
LEMMA OtherStep ==
  ASSUME ScopeAll, ~In("scope"), UNCHANGED scopeVars, Outer(body')
  PROVE  ScopeAll' /\ Asked
<1>1. scope = NoScope /\ late' \in BOOLEAN /\ scope' = NoScope
  BY DEF ScopeAll, LoopInv, ScopeTypeOK, scopeVars
<1>2. ~In("scope")'
  BY DEF Outer, In
<1> QED BY <1>1, <1>2, NoneAll DEF Asked

LEMMA SameScope ==
  ASSUME ScopeAll, scope' = scope, body' = body, late' \in BOOLEAN
  PROVE  ScopeAll' /\ Asked
<1>1. CASE scope = NoScope
  BY <1>1, NoneAll DEF ScopeAll, LoopInv, In, Asked
<1>2. CASE scope # NoScope
  BY <1>2, NowFits, FitsAll DEF In, Asked
<1> QED BY <1>1, <1>2

LEMMA NextGood == ASSUME AllInv, [Next]_allVars PROVE AllInv' /\ Asked
<1>1. CASE BeginStep /\ UNCHANGED scopeVars
  BY <1>1, BeginStepGood, OtherStep DEF AllInv, Good, In
<1>2. CASE BeginScope
  BY <1>2, BeginScopeGood
<1>3. CASE LeafAnswer /\ UNCHANGED scopeVars
  BY <1>3, LeafGood, OtherStep DEF AllInv, Good
<1>4. CASE ScopeAnswer
  BY <1>4, ScopeAnswerGood
<1>5. CASE BudgetSpent
  <2>1. scope' = scope /\ body' = body /\ late' \in BOOLEAN /\ UNCHANGED <<stepVars, cmdVars>>
    BY <1>5 DEF BudgetSpent, stepVars
  <2>2. LeafInv'
    BY <2>1, KeptCmd, CommandsGood DEF AllInv, LeafInv
  <2> QED BY <2>1, <2>2, SameScope DEF AllInv
<1>6. CASE ToolStep /\ UNCHANGED scopeVars
  <2>1. scope' = scope /\ body' = body /\ late' \in BOOLEAN
    BY <1>6 DEF ToolStep, scopeVars, AllInv, ScopeAll, ScopeTypeOK
  <2> QED BY <1>6, <2>1, SameScope, ToolStepGood DEF AllInv
<1>7. CASE (BrowserStep \/ \E i \in Slots : HandlerStep(i)) /\ UNCHANGED <<stepVars, scopeVars>>
  <2>1. scope' = scope /\ body' = body /\ late' \in BOOLEAN /\ UNCHANGED stepVars
    BY <1>7 DEF stepVars, scopeVars, AllInv, ScopeAll, ScopeTypeOK
  <2>2. CmdInv' /\ Kept
    BY <1>7, BrowserStepKeeps, HandlerStepKeeps DEF AllInv, LeafInv
  <2>3. LeafInv'
    BY <2>1, <2>2, CommandsGood DEF AllInv
  <2> QED BY <2>1, <2>3, SameScope DEF AllInv
<1>8. CASE UNCHANGED allVars
  <2>1. scope' = scope /\ body' = body /\ late' \in BOOLEAN /\ UNCHANGED <<stepVars, cmdVars>>
    BY <1>8 DEF allVars, stepVars, scopeVars, AllInv, ScopeAll, ScopeTypeOK
  <2>2. LeafInv'
    BY <2>1, KeptCmd, CommandsGood DEF AllInv, LeafInv
  <2> QED BY <2>1, <2>2, SameScope DEF AllInv
<1> QED BY <1>1, <1>2, <1>3, <1>4, <1>5, <1>6, <1>7, <1>8 DEF Next, Answer

LEMMA InitGood == Init => AllInv
<1> SUFFICES ASSUME Init PROVE AllInv
  OBVIOUS
<1> USE DEF Init
<1>1. CmdInv
  BY DEF CommandsInit, CmdInv, CommandsTypeOK, HandlersTrue, Truthful
<1>2. body = NoBody /\ scope = NoScope /\ late = FALSE
  BY DEF StepsInit
<1>3. StepsTypeOK /\ BodyInv /\ ArtifactsComplete
  BY <1>2 DEF StepsInit, StepsTypeOK, BodyInv, ArtifactsComplete, In, Values
<1>4. ScopeAll
  BY <1>2 DEF ScopeAll, ScopeTypeOK, ScopeInv, LoopInv, AttemptedArePassed, SecretsUntold, In
<1> QED BY <1>1, <1>3, <1>4 DEF AllInv, LeafInv

LEMMA AllIsIInv == AllInv <=> IInv
BY DEF AllInv, LeafInv, CmdInv, ScopeAll, IInv, TypeOK

(***************************************************************************)
(* The theorems.                                                           *)
(***************************************************************************)

(* The invariant all the others follow from.                               *)
THEOREM Inductive == Spec => []IInv
<1>1. Init => IInv
  BY InitGood, AllIsIInv
<1>2. IInv /\ [Next]_allVars => IInv'
  <2>1. AllInv' => IInv'
    BY DEF AllInv, LeafInv, CmdInv, ScopeAll, IInv, TypeOK
  <2> QED BY <2>1, NextGood, AllIsIInv
<1> QED BY <1>1, <1>2, PTL DEF Spec

(* Whatever downloads run beside it, of late handlers or of the user, a    *)
(* download step keeps only downloads that are complete.                   *)
THEOREM DownloadsComplete == Spec => []ArtifactsComplete
<1>1. IInv => ArtifactsComplete
  BY DEF IInv
<1> QED BY <1>1, Inductive, PTL

(* Every iteration of an aiscope step leaves exactly one entry in the      *)
(* history, for any budgets and any plans.                                 *)
THEOREM EveryIterationTold == Spec => []HistoryTold
<1>1. IInv => HistoryTold
  BY LoopIsNone DEF IInv, ScopeInv, HistoryTold, InScope, NoScope
<1> QED BY <1>1, Inductive, PTL

(* What a replan tells the planner it has tried are the milestones before  *)
(* the pointer, of the plan in force.                                      *)
THEOREM TriedArePassed == Spec => []AttemptedArePassed
<1>1. IInv => AttemptedArePassed
  BY DEF IInv
<1> QED BY <1>1, Inductive, PTL

(* No entry of the history carries the value of a secret input.            *)
THEOREM SecretsStay == Spec => []SecretsUntold
<1>1. IInv => SecretsUntold
  BY DEF IInv
<1> QED BY <1>1, Inductive, PTL

(* An aiscope step succeeds only as its success check, or its lack of one, *)
(* allows.                                                                 *)
THEOREM ScopeEndsAsAsked == Spec => EndsAsAsked
<1>1. IInv /\ [Next]_allVars => [Asked]_allVars
  BY NextGood, AllIsIInv
<1>2. [Asked]_allVars =>
        [(scope # NoScope /\ body' = NoBody /\ last') =>
           CASE Step.check = "page"  -> Step.fact \in page
             [] Step.check = "none"  -> "done" \notin Step.forbids
             [] Step.check = "model" -> InScope("both")]_allVars
  BY DEF Asked
<1> QED BY <1>1, <1>2, Inductive, PTL DEF Spec, EndsAsAsked
===============================================================================
