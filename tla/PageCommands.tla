---------------------------- MODULE PageCommands ----------------------------
(***************************************************************************)
(* What a step sees of the page: the commands of PageClient                *)
(* (tools/cli/src/browser/page-client.ts) and the answers the extension's  *)
(* handlers give them (tools/extension/src/background/runner-handlers).    *)
(*                                                                         *)
(* A page is the set of facts that hold of it: the selectors that match,   *)
(* the marks its URL, its title or its text bear.  It changes at any time. *)
(* Most commands are answered at once, from the page as it is then.  Two   *)
(* handlers take time and listen to the browser meanwhile: waiting for the *)
(* network to be idle, and a download.  Nothing stops a handler whose      *)
(* command nobody awaits any more.                                         *)
(***************************************************************************)
EXTENDS Integers, FiniteSets

CONSTANTS
  Elements,     \* selectors
  Marks,        \* what a URL, a title or a text may contain
  Downloads,    \* the downloads of Chrome, the user's included: a bound
  MaxRequests,  \* requests in flight: a bound
  Slots,        \* handlers at work at once: a bound
  None

ASSUME CommandsAssumption == Slots \subseteq Nat /\ MaxRequests \in Nat /\ None \notin Downloads

Facts == Elements \cup Marks

Free == [op |-> "free"]

IdleHandler ==
  [op : {"idle"}, at : {"run", "over"}, ok : BOOLEAN, loose : BOOLEAN,
   inFlight : 0 .. 2 * MaxRequests, armed : BOOLEAN]

DownloadHandler ==
  [op : {"download"}, at : {"run", "cancelling", "over"}, ok : BOOLEAN, loose : BOOLEAN,
   id : Downloads \cup {None}, listening : BOOLEAN, clicking : BOOLEAN, searching : BOOLEAN]

Handler == IdleHandler \cup DownloadHandler

VARIABLES
  page,       \* the facts that hold of the page
  requests,   \* the requests in flight, of all tabs
  downloads,  \* the state of each download
  handlers    \* of each slot, the handler at work in it, or Free

cmdVars == <<page, requests, downloads, handlers>>

CommandsTypeOK ==
  /\ page \subseteq Facts
  /\ requests \in 0 .. MaxRequests
  /\ downloads \in [Downloads -> {"none", "progress", "complete", "interrupted"}]
  /\ handlers \in [Slots -> Handler \cup {Free}]

CommandsInit ==
  /\ page \in SUBSET Facts
  /\ requests \in 0 .. MaxRequests
  /\ downloads = [d \in Downloads |-> "none"]
  /\ handlers = [i \in Slots |-> Free]

-----------------------------------------------------------------------------
(* The answers of the commands that take no time.  FALSE stands for every  *)
(* failure: the extension refuses, is gone, or does not answer in time.    *)

(* Interaction, text and attributes: the element must match.               *)
Acted(sel) == IF sel \in page THEN BOOLEAN ELSE {FALSE}

(* navigate, scroll, delay, getUrl, getTitle, getHtml, screenshot.         *)
Served == {TRUE, FALSE}

(* The extension's answers about what matches; None is a failure.          *)
AnyMatch(sel)      == IF sel \in page THEN {TRUE, None} ELSE {FALSE, None}
CountMatching(sel) == (IF sel \in page THEN {1, 2} ELSE {0}) \cup {None}

(* elementExists takes a failure for a no.                                 *)
Exists(sel) == {answer = TRUE : answer \in AnyMatch(sel)}

(* runDeterministicCheck: a check on an element never fails, a check on    *)
(* the URL or the text throws "failed".                                    *)
Checks(fact) ==
  IF fact \notin page THEN {FALSE}
  ELSE IF fact \in Elements THEN BOOLEAN ELSE {TRUE}

CheckThrows(fact) == fact \in Marks

-----------------------------------------------------------------------------
Working(i) == handlers[i] # Free /\ handlers[i].at # "over"
At(i, op)  == Working(i) /\ handlers[i].op = op

(* A handler that settles; nobody takes the answer of a loose one.         *)
Settled(h, ok) == IF h.loose THEN Free ELSE [h EXCEPT !.at = "over", !.ok = ok]

Settle(i, ok) == handlers' = [handlers EXCEPT ![i] = Settled(@, ok)]

(* The command's timeout, the step's, or a lost connection: the step goes  *)
(* on, the handler too.                                                    *)
Loosen(i) ==
  handlers' = [handlers EXCEPT ![i] = IF @.at = "over" THEN Free ELSE [@ EXCEPT !.loose = TRUE]]

PageChanges ==
  /\ page' \in SUBSET Facts
  /\ UNCHANGED <<requests, downloads, handlers>>

(* waitNetworkIdle: the counter starts at zero, whatever is in flight.     *)
StartIdle(i) ==
  /\ handlers[i] = Free
  /\ handlers' = [handlers EXCEPT ![i] =
       [op |-> "idle", at |-> "run", ok |-> FALSE, loose |-> FALSE,
        inFlight |-> 0, armed |-> TRUE]]

OnRequest(h) == [h EXCEPT !.inFlight = @ + 1, !.armed = FALSE]
Counted == handlers' = [i \in Slots |-> IF At(i, "idle") THEN OnRequest(handlers[i]) ELSE handlers[i]]

(* What no handler listens to happens unnoticed, and is left out.          *)
Heard(op) == \E i \in Slots : At(i, op)

(* A bound: the counters count twice the requests at most.                 *)
MayCount == \A i \in Slots : At(i, "idle") => handlers[i].inFlight < 2 * MaxRequests

OnDone(h) ==
  LET n == IF h.inFlight = 0 THEN 0 ELSE h.inFlight - 1
  IN  [h EXCEPT !.inFlight = n, !.armed = @ \/ n = 0]
Discounted == handlers' = [i \in Slots |-> IF At(i, "idle") THEN OnDone(handlers[i]) ELSE handlers[i]]

RequestStarts ==
  /\ requests < MaxRequests /\ Heard("idle") /\ MayCount
  /\ requests' = requests + 1
  /\ Counted
  /\ UNCHANGED <<page, downloads>>

RequestRedirected ==
  /\ requests > 0 /\ Heard("idle") /\ MayCount
  /\ Counted
  /\ UNCHANGED <<page, requests, downloads>>

RequestEnds ==
  /\ requests > 0 /\ Heard("idle")
  /\ requests' = requests - 1
  /\ Discounted
  /\ UNCHANGED <<page, downloads>>

(* Half a second without an event: the network is idle.                    *)
IdleFires(i) ==
  /\ At(i, "idle") /\ handlers[i].armed
  /\ Settle(i, TRUE)
  /\ UNCHANGED <<page, requests, downloads>>

IdleTimesOut(i) ==
  /\ At(i, "idle")
  /\ Settle(i, FALSE)
  /\ UNCHANGED <<page, requests, downloads>>

-----------------------------------------------------------------------------
(* download: the listeners are attached, then the click is sent.  The      *)
(* navigation trigger wants a URL, which PageClient is never given.        *)
StartDownload(i, trigger) ==
  /\ handlers[i] = Free
  /\ handlers' = [handlers EXCEPT ![i] =
       [op |-> "download", at |-> IF trigger = "click" THEN "run" ELSE "over",
        ok |-> FALSE, loose |-> FALSE, id |-> None,
        listening |-> TRUE, clicking |-> TRUE, searching |-> FALSE]]

(* Chrome starts a download: of the click, of a late one, or of the user.  *)
(* Every handler that has none yet takes it for its own.                   *)
DownloadCreated(d) ==
  /\ downloads[d] = "none" /\ Heard("download")
  /\ downloads' = [downloads EXCEPT ![d] = "progress"]
  /\ handlers' = [i \in Slots |->
       IF At(i, "download") /\ handlers[i].listening
         THEN [handlers[i] EXCEPT !.id = d, !.listening = FALSE] ELSE handlers[i]]
  /\ UNCHANGED <<page, requests>>

(* Five seconds without a download.                                        *)
NotStarted(i) ==
  /\ At(i, "download") /\ handlers[i].listening
  /\ Settle(i, FALSE)
  /\ UNCHANGED <<page, requests, downloads>>

(* Mutation: the change of any download counts.                            *)
IsMine_any(h, d) == h.id # None

IsMine(h, d) == h.id = d

OnChanged(h, d, state) ==
  IF ~IsMine(h, d) THEN h
  ELSE IF state = "complete" THEN [h EXCEPT !.searching = TRUE]
  ELSE Settled(h, FALSE)

Change(d, state) ==
  /\ downloads' = [downloads EXCEPT ![d] = state]
  /\ handlers' = [i \in Slots |->
       IF At(i, "download") THEN OnChanged(handlers[i], d, state) ELSE handlers[i]]

DownloadEnds(d) ==
  /\ downloads[d] = "progress" /\ Heard("download")
  /\ \E state \in {"complete", "interrupted"} : Change(d, state)
  /\ UNCHANGED <<page, requests>>

(* The search that names the file answers.                                 *)
Searched(i) ==
  /\ At(i, "download") /\ handlers[i].searching
  /\ Settle(i, TRUE)
  /\ UNCHANGED <<page, requests, downloads>>

(* The content script answers the click, or its page is gone with it.      *)
ClickReplied(i) ==
  /\ At(i, "download") /\ handlers[i].clicking
  /\ \/ handlers' = [handlers EXCEPT ![i].clicking = FALSE]
     \/ Settle(i, FALSE)
  /\ UNCHANGED <<page, requests, downloads>>

(* The timeout cancels the download, which tells every handler of it, and  *)
(* waits for the cancelling.                                               *)
DownloadTimesOut(i) ==
  /\ At(i, "download") /\ handlers[i].at = "run"
  /\ LET h == handlers[i] IN
       \/ /\ h.id = None
          /\ Settle(i, FALSE) /\ UNCHANGED downloads
       \/ /\ h.id # None /\ downloads[h.id] = "progress"
          /\ Change(h.id, "interrupted")
       \/ /\ h.id # None /\ downloads[h.id] # "progress"
          /\ handlers' = [handlers EXCEPT ![i].at = "cancelling"] /\ UNCHANGED downloads
  /\ UNCHANGED <<page, requests>>

Cancelled(i) ==
  /\ At(i, "download") /\ handlers[i].at = "cancelling"
  /\ Settle(i, FALSE)
  /\ UNCHANGED <<page, requests, downloads>>

HandlerStep(i) ==
  IdleFires(i) \/ IdleTimesOut(i) \/ NotStarted(i) \/ Searched(i) \/ ClickReplied(i)
    \/ DownloadTimesOut(i) \/ Cancelled(i)

BrowserStep ==
  \/ PageChanges \/ RequestStarts \/ RequestRedirected \/ RequestEnds
  \/ \E d \in Downloads : DownloadCreated(d) \/ DownloadEnds(d)

(* A handler of a download that answers ok, or looks for the file, has a   *)
(* download that is complete; one that listens has none.                   *)
Truthful(h, dl) ==
  h # Free /\ h.op = "download" =>
    /\ h.ok \/ h.searching => h.id \in Downloads /\ dl[h.id] = "complete"
    /\ h.listening => h.id = None

HandlersTrue == \A i \in Slots : Truthful(handlers[i], downloads)

(* The timers of the worker fire.                                          *)
CommandsFairness == \A i \in Slots : WF_cmdVars(HandlerStep(i))
=============================================================================
