------------------------------ MODULE RunWindow ------------------------------
(***************************************************************************)
(* The service worker of the extension executing the CLI's commands: the   *)
(* ids of the dedicated window (background/run-window.ts), the dispatch    *)
(* table (runner-handlers/dispatch.ts) and the handlers it calls, against  *)
(* a browser whose windows the user may close and a content script that    *)
(* may answer late.                                                        *)
(*                                                                         *)
(* A window is opened with one tab, so a window and its tab have one name. *)
(* The browser's answers and events reach the worker in one queue.  The    *)
(* ids live in the worker's memory: Chrome ends a worker that is idle.     *)
(***************************************************************************)
EXTENDS Naturals, Sequences, FiniteSets, PageOps

CONSTANTS
  Windows,       \* ids the browser gives to run windows
  User,          \* the tab the user works in
  Ops,           \* the commands that the CLI sends
  Elements,      \* the elements pages show to a selector
  MaxCommands,   \* commands sent, in serial mode and in the other: bounds
  MaxEvictions,  \* times the worker is ended: a bound
  None

Tabs     == Windows \cup {User}
WaitOp   == {"navigate", "wait"}     \* listen to webNavigation.onCompleted
Op       == {"open", "close", "appear"} \cup WaitOp \cup PageOp
Page     == {"blank", "site"}

ASSUME RunWindowAssumption ==
  /\ User \notin Windows /\ None \notin Tabs \cup Nat
  /\ Ops \subseteq Op
  /\ Elements # {} /\ Elements \subseteq Element
  /\ MaxCommands \in [BOOLEAN -> Nat] /\ MaxEvictions \in Nat

VARIABLES
  serial,     \* whether the CLI waits out every command
  win,        \* each window: unused, open, tabless, closed by the user, removed
  at,         \* the page that each tab shows
  loading,    \* the page that each tab loads
  el,         \* the element that each tab's page shows
  rw, rt,     \* currentRunWindowId, currentRunTabId
  queue,      \* what the browser has for the worker
  task,       \* the commands, in the order they were sent
  cli,        \* the window the CLI believes it has, the command it waits for
  told,       \* windowClosed and tabClosed events that the CLI was sent
  byUser,     \* what the user has closed
  forgotten,  \* ids that the worker dropped without an event
  acts,       \* operations that a page has performed: command and tab
  evictions

browser == <<win, at, loading, el>>
ids     == <<rw, rt>>
history == <<told, byUser, forgotten, acts>>
vars    == <<serial, browser, ids, queue, task, cli, history, evictions>>

Stage  == {"sent", "removing", "creating", "asking", "updating", "listening", "acting", "done"}
Result == {"ok", "refused", "retry"}     \* an error, not recoverable or recoverable
Task   == [op : Op, arg : Windows \cup {None}, stage : Stage, tab : Tabs \cup {None},
           result : Result \cup {None},
           out : BOOLEAN]          \* its request to the browser or the page is under way
Gone   == [ev : {"tab", "window"}, w : Windows]
Loaded == [ev : {"loaded"}, tab : Tabs]
Reply  == [ev : {"done"}, c : Nat, answer : Result, w : Windows \cup {None}]

Init ==
  /\ serial \in BOOLEAN
  /\ win = [w \in Windows |-> "unused"]
  /\ at = [t \in Tabs |-> IF t = User THEN "site" ELSE "blank"]
  /\ loading = [t \in Tabs |-> None]
  /\ \E e \in Elements : el = [t \in Tabs |-> e]
  /\ rw = None /\ rt = None
  /\ queue = <<>> /\ task = <<>>
  /\ cli = [win |-> None, waits |-> None]
  /\ told = {} /\ byUser = {} /\ forgotten = {} /\ acts = {}
  /\ evictions = 0

Exists(t)  == t \in {User} \cup {w \in Windows : win[w] = "open"}
Stands(w)  == win[w] \in {"open", "tabless"}
TabGone(w)    == [ev |-> "tab", w |-> w]
WindowGone(w) == [ev |-> "window", w |-> w]
Done(c, r, w) == [ev |-> "done", c |-> c, answer |-> r, w |-> w]
Answered(c) == task[c].stage = "done"

(* ----------------------------- the CLI --------------------------------- *)

\* sendCommand: one command at a time; a page operation goes to a window it was given.
Send(op) ==
  /\ cli.waits = None
  /\ Len(task) < MaxCommands[serial]
  /\ (op = "open") = (cli.win = None)
  /\ task' = Append(task, [op |-> op, arg |-> cli.win, stage |-> "sent", tab |-> None,
                           result |-> None, out |-> FALSE])
  /\ cli' = [cli EXCEPT !.waits = Len(task) + 1]
  /\ UNCHANGED <<serial, browser, ids, queue, history, evictions>>

\* The CLI's own timer, set for the same time, fires first.
GiveUp ==
  /\ ~ serial /\ cli.waits # None
  /\ cli' = [win |-> IF task[cli.waits].op = "close" THEN None ELSE cli.win, waits |-> None]
  /\ UNCHANGED <<serial, browser, ids, queue, task, history, evictions>>

\* A run ends and leaves its window open (closeWindowOnFinish is false).
LeaveWindow ==
  /\ cli.waits = None /\ cli.win # None
  /\ cli' = [cli EXCEPT !.win = None]
  /\ UNCHANGED <<serial, browser, ids, queue, task, history, evictions>>

(* ------------------------- the service worker -------------------------- *)

Goes(c, t) == task' = [task EXCEPT ![c] = t]

\* sendResponse: the CLI that still waits for c has its answer.
Answer(c, result, w) ==
  /\ Goes(c, [task[c] EXCEPT !.stage = "done", !.result = result])
  /\ cli' = IF cli.waits # c THEN cli
            ELSE [win |-> IF task[c].op = "open" /\ result = "ok" THEN w
                          ELSE IF task[c].op = "close" THEN None ELSE cli.win,
                  waits |-> None]

\* The command whose turn it is to be received.
Received(c) ==
  /\ task[c].stage = "sent"
  /\ \A d \in 1 .. c - 1 : task[d].stage # "sent"

(* Mutation: the ids go when chrome.windows.remove has answered. *)
DropIds_afterAwait(c) ==
  /\ Goes(c, [task[c] EXCEPT !.stage = "removing", !.tab = rw, !.out = TRUE])
  /\ UNCHANGED <<rw, rt, forgotten>>

\* closeRunWindow up to its await: the ids go before chrome.windows.remove is called.
DropIds(c) ==
  /\ rw' = None /\ rt' = None
  /\ forgotten' = forgotten \cup {rw}
  /\ Goes(c, [task[c] EXCEPT !.stage = "removing", !.tab = rw, !.out = TRUE])

(* Mutation: a window that is still open is not closed first. *)
ReceiveOpen_over(c) ==
  /\ task[c].op = "open" /\ Received(c)
  /\ Goes(c, [task[c] EXCEPT !.stage = "creating", !.out = TRUE])
  /\ UNCHANGED <<ids, forgotten>>
  /\ UNCHANGED <<serial, browser, queue, cli, told, byUser, acts, evictions>>

ReceiveOpen(c) ==
  /\ task[c].op = "open" /\ Received(c)
  /\ \/ rw # None /\ DropIds(c)
     \/ /\ rw = None
        /\ Goes(c, [task[c] EXCEPT !.stage = "creating", !.out = TRUE])
        /\ UNCHANGED <<ids, forgotten>>
  /\ UNCHANGED <<serial, browser, queue, cli, told, byUser, acts, evictions>>

ReceiveClose(c) ==
  /\ task[c].op = "close" /\ Received(c)
  /\ \/ rw # None /\ rw = task[c].arg /\ DropIds(c) /\ UNCHANGED cli
     \/ ~ (rw # None /\ rw = task[c].arg) /\ Answer(c, "ok", None) /\ UNCHANGED <<ids, forgotten>>
  /\ UNCHANGED <<serial, browser, queue, told, byUser, acts, evictions>>

\* A handler is called with a tab: it registers its listener, or writes to the page.
Handle(c, t) ==
  Goes(c, [task[c] EXCEPT
             !.tab = t,
             !.stage = CASE task[c].op = "navigate" -> "updating"
                         [] task[c].op = "wait"     -> "listening"
                         [] OTHER                   -> "acting",
             !.out = task[c].op # "wait"])

\* withActiveTab: the run tab, or else whatever tab is active.
WithActiveTab(c) ==
  /\ task[c].op \notin {"open", "close"} /\ Received(c)
  /\ \/ rt # None /\ Handle(c, rt)
     \/ rt = None /\ Goes(c, [task[c] EXCEPT !.stage = "asking"])
  /\ UNCHANGED <<serial, browser, ids, queue, cli, history, evictions>>

ActiveTab(c) ==
  /\ task[c].stage = "asking"
  /\ \/ \E t \in Tabs : Exists(t) /\ Handle(c, t) /\ UNCHANGED cli
     \/ Answer(c, "refused", None)      \* no active tab found
  /\ UNCHANGED <<serial, browser, ids, queue, history, evictions>>

Timed == {"updating", "listening", "acting"}

(* Mutation: a navigation is waited for without a timer. *)
Timeout_acting(c) ==
  /\ task[c].stage = "acting"
  /\ Answer(c, "retry", None)
  /\ UNCHANGED <<serial, browser, ids, queue, history, evictions>>

\* The timer of a handler; its listener goes, its message to the page does not.
Timeout(c) ==
  /\ task[c].stage \in Timed
  /\ Answer(c, "retry", None)
  /\ UNCHANGED <<serial, browser, ids, queue, history, evictions>>

(* ---------------- what the worker does with its queue ------------------ *)

(* Mutation: the window is given up with its tab. *)
OnTabRemoved_window(w) ==
  \/ /\ rt = w /\ rt' = None /\ rw' = None
     /\ told' = told \cup {TabGone(w)}
  \/ rt # w /\ UNCHANGED <<ids, told>>

\* chrome.tabs.onRemoved
OnTabRemoved(w) ==
  \/ /\ rt = w /\ rt' = None /\ rw' = rw
     /\ told' = told \cup {TabGone(w)}
  \/ rt # w /\ UNCHANGED <<ids, told>>

\* chrome.windows.onRemoved
OnWindowRemoved(w) ==
  \/ /\ rw = w /\ rw' = None /\ rt' = None
     /\ told' = told \cup {WindowGone(w)}
  \/ rw # w /\ UNCHANGED <<ids, told>>

BrowserEvent ==
  /\ queue # <<>> /\ Head(queue).ev \in {"tab", "window"}
  /\ queue' = Tail(queue)
  /\ \/ Head(queue).ev = "tab" /\ OnTabRemoved(Head(queue).w)
     \/ Head(queue).ev = "window" /\ OnWindowRemoved(Head(queue).w)
  /\ UNCHANGED <<serial, browser, task, cli, byUser, forgotten, acts, evictions>>

\* onCompleted: the handlers that listen to this tab answer: navigate whatever the page,
\* wait when its pattern fits the URL (match).
Heard(c, t, match) ==
  /\ task[c].tab = t
  /\ task[c].stage = "updating" \/ (task[c].stage = "listening" /\ c \in match)

NavigationCompleted ==
  /\ queue # <<>> /\ Head(queue).ev = "loaded"
  /\ queue' = Tail(queue)
  /\ \E match \in SUBSET DOMAIN task :
       LET t == Head(queue).tab IN
       /\ task' = [c \in DOMAIN task |->
                     IF Heard(c, t, match)
                     THEN [task[c] EXCEPT !.stage = "done", !.result = "ok"] ELSE task[c]]
       /\ cli' = IF cli.waits # None /\ Heard(cli.waits, t, match)
                 THEN [cli EXCEPT !.waits = None] ELSE cli
  /\ UNCHANGED <<serial, browser, ids, history, evictions>>

(* Mutation: the tab of the new window is not kept. *)
Opened_windowOnly(c, r) ==
  /\ task[c].stage = "creating"
  /\ \/ /\ r.answer = "ok"
        /\ rw' = r.w /\ rt' = None
        /\ forgotten' = forgotten \cup ({rw} \ {None})
        /\ Answer(c, "ok", r.w)
     \/ r.answer # "ok" /\ Answer(c, "refused", None) /\ UNCHANGED <<ids, forgotten>>

\* openRunWindow after chrome.windows.create, whose window is taken to have an id and a
\* tab: the browser answers with both, or refuses.
Opened(c, r) ==
  /\ task[c].stage = "creating"
  /\ \/ /\ r.answer = "ok"
        /\ rw' = r.w /\ rt' = r.w
        /\ forgotten' = forgotten \cup ({rw} \ {None})
        /\ Answer(c, "ok", r.w)
     \/ r.answer # "ok" /\ Answer(c, "refused", None) /\ UNCHANGED <<ids, forgotten>>

\* closeRunWindow after chrome.windows.remove
Closed(c) ==
  /\ task[c].stage = "removing"
  /\ \/ /\ task[c].op = "open"
        /\ Goes(c, [task[c] EXCEPT !.stage = "creating", !.out = TRUE])
        /\ UNCHANGED cli
     \/ task[c].op = "close" /\ Answer(c, "ok", None)
  /\ UNCHANGED <<ids, forgotten>>

\* What the page, or chrome.tabs.update, answers to a handler.
Replied(c, r) ==
  /\ task[c].stage \in Timed \cup {"done"}
  /\ \/ /\ task[c].stage \in Timed
        /\ Answer(c, r.answer, None)
     \/ task[c].stage = "done" /\ UNCHANGED <<task, cli>>
  /\ UNCHANGED <<ids, forgotten>>

AwaitOver ==
  /\ queue # <<>> /\ Head(queue).ev = "done"
  /\ queue' = Tail(queue)
  /\ LET r == Head(queue) IN Opened(r.c, r) \/ Closed(r.c) \/ Replied(r.c, r)
  /\ UNCHANGED <<serial, browser, told, byUser, acts, evictions>>

(* --------------------- the browser and its user ------------------------ *)

Replies(c, r) == Append(queue, Done(c, r, None))
Served(c) == Goes(c, [task[c] EXCEPT !.out = FALSE])

\* chrome.windows.remove: the events and the answer may come in either order.
RemoveWindow(c) ==
  /\ task[c].stage = "removing" /\ task[c].out
  /\ LET w    == task[c].tab
         gone == CASE win[w] = "open"    -> <<TabGone(w), WindowGone(w)>>
                   [] win[w] = "tabless" -> <<WindowGone(w)>>
                   [] OTHER              -> <<>>
     IN /\ win' = IF Stands(w) THEN [win EXCEPT ![w] = "removed"] ELSE win
        /\ \/ queue' = queue \o gone \o <<Done(c, "ok", None)>>
           \/ queue' = Replies(c, "ok") \o gone
  /\ Served(c)
  /\ UNCHANGED <<serial, at, loading, el, ids, cli, history, evictions>>

\* chrome.windows.create
CreateWindow(c) ==
  /\ task[c].stage = "creating" /\ task[c].out
  /\ \/ \E w \in Windows :
          /\ win[w] = "unused"
          /\ win' = [win EXCEPT ![w] = "open"]
          /\ loading' = [loading EXCEPT ![w] = "blank"]
          /\ queue' = Append(queue, Done(c, "ok", w))
     \/ queue' = Replies(c, "refused") /\ UNCHANGED <<win, loading>>
  /\ Served(c)
  /\ UNCHANGED <<serial, at, el, ids, cli, history, evictions>>

\* chrome.tabs.update, for a handler that waits or one that has timed out
UpdateTab(c) ==
  /\ task[c].op = "navigate" /\ task[c].out
  /\ \/ /\ Exists(task[c].tab)
        /\ loading' = [loading EXCEPT ![task[c].tab] = "site"]
        /\ Goes(c, [task[c] EXCEPT !.out = FALSE,
                              !.stage = IF @ = "updating" THEN "listening" ELSE @])
        /\ UNCHANGED queue
     \/ /\ ~ Exists(task[c].tab)
        /\ queue' = Replies(c, "refused")
        /\ Served(c)
        /\ UNCHANGED loading
  /\ UNCHANGED <<serial, win, at, el, ids, cli, history, evictions>>

\* A page is loaded: onCompleted of its main frame.
Load(t) ==
  /\ Exists(t) /\ loading[t] # None
  /\ at' = [at EXCEPT ![t] = loading[t]]
  /\ loading' = [loading EXCEPT ![t] = None]
  /\ \E e \in Elements : el' = [el EXCEPT ![t] = e]
  /\ queue' = Append(queue, [ev |-> "loaded", tab |-> t])
  /\ UNCHANGED <<serial, win, ids, task, cli, history, evictions>>

\* A content script listens in the tab: none is injected into about:blank.
Scripted(t) == Exists(t) /\ at[t] # "blank"

NoReceiver(c) ==
  /\ task[c].op \in PageOp \cup {"appear"} /\ task[c].out
  /\ ~ Scripted(task[c].tab)
  /\ queue' = Replies(c, IF task[c].op = "appear" THEN "refused" ELSE "retry")
  /\ Served(c)
  /\ UNCHANGED <<serial, browser, ids, cli, history, evictions>>

\* The content script performs the operation and replies; the page may then navigate.
Perform(c) ==
  LET t == task[c].tab IN
  /\ task[c].op \in PageOp /\ task[c].out
  /\ Scripted(t)
  /\ el' = [el EXCEPT ![t] = Performed(task[c].op, @)]
  /\ queue' = Replies(c, IF Accepts(task[c].op, el[t]) THEN "ok" ELSE "refused")
  /\ acts' = acts \cup (IF Accepts(task[c].op, el[t]) THEN {<<c, t>>} ELSE {})
  /\ \/ UNCHANGED loading
     \/ Accepts(task[c].op, el[t]) /\ loading' = [loading EXCEPT ![t] = "site"]
  /\ Served(c)
  /\ UNCHANGED <<serial, win, at, ids, cli, told, byUser, forgotten, evictions>>

\* waitForSelector in the page: the element is visible, or the page's timer or the
\* page itself ends the wait.
Appear(c) ==
  LET t == task[c].tab IN
  /\ task[c].op = "appear" /\ task[c].out
  /\ Scripted(t)
  /\ \/ /\ el[t].kind # "absent" /\ el[t].state # "hidden"
        /\ queue' = Replies(c, "ok")
     \/ queue' = Replies(c, "retry")
     \/ loading[t] # None /\ queue' = Replies(c, "refused")
  /\ Served(c)
  /\ UNCHANGED <<serial, browser, ids, cli, history, evictions>>

\* The user closes the run tab; the window stays when another tab was opened in it.
UserClosesTab(w) ==
  /\ win[w] = "open"
  /\ \/ /\ win' = [win EXCEPT ![w] = "tabless"]
        /\ queue' = Append(queue, TabGone(w))
        /\ byUser' = byUser \cup {TabGone(w)}
     \/ /\ win' = [win EXCEPT ![w] = "closed"]
        /\ queue' = queue \o <<TabGone(w), WindowGone(w)>>
        /\ byUser' = byUser \cup {TabGone(w), WindowGone(w)}
  /\ UNCHANGED <<serial, at, loading, el, ids, task, cli, told, forgotten, acts, evictions>>

UserClosesRest(w) ==
  /\ win[w] = "tabless"
  /\ win' = [win EXCEPT ![w] = "closed"]
  /\ queue' = Append(queue, WindowGone(w))
  /\ byUser' = byUser \cup {WindowGone(w)}
  /\ UNCHANGED <<serial, at, loading, el, ids, task, cli, told, forgotten, acts, evictions>>

\* Chrome ends a worker that has nothing under way; its memory is lost.
Evict ==
  /\ evictions < MaxEvictions
  /\ \A c \in DOMAIN task : task[c].stage \in {"sent", "done"}
  /\ evictions' = evictions + 1
  /\ rw' = None /\ rt' = None
  /\ forgotten' = forgotten \cup ({rw} \ {None})
  /\ UNCHANGED <<serial, browser, queue, task, cli, told, byUser, acts>>

(* ----------------------------------------------------------------------- *)

Worker(c) == ReceiveOpen(c) \/ ReceiveClose(c) \/ WithActiveTab(c) \/ ActiveTab(c)
Requests(c) == RemoveWindow(c) \/ CreateWindow(c) \/ UpdateTab(c)
Replying(c) == NoReceiver(c) \/ Perform(c) \/ Appear(c)
Queue == BrowserEvent \/ NavigationCompleted \/ AwaitOver

Next ==
  \/ \E op \in Ops : Send(op)
  \/ GiveUp \/ LeaveWindow
  \/ \E c \in DOMAIN task : Worker(c) \/ Timeout(c) \/ Requests(c) \/ Replying(c)
  \/ Queue
  \/ \E t \in Tabs : Load(t)
  \/ \E w \in Windows : UserClosesTab(w) \/ UserClosesRest(w)
  \/ Evict

Numbers == UNION {1 .. MaxCommands[s] : s \in BOOLEAN}

\* The worker's event loop and its timers run, and the browser serves what it is
\* asked; nothing is assumed of a page, of a load or of the CLI.
Fairness ==
  /\ WF_vars(Queue)
  /\ \A c \in Numbers :
       /\ WF_vars(c \in DOMAIN task /\ Worker(c))
       /\ WF_vars(c \in DOMAIN task /\ Timeout(c))
       /\ WF_vars(c \in DOMAIN task /\ Requests(c))

Spec == Init /\ [][Next]_vars /\ Fairness

(* ---------------------------- properties ------------------------------- *)

\* Every variable keeps its type.
TypeOK ==
  /\ win \in [Windows -> {"unused", "open", "tabless", "closed", "removed"}]
  /\ at \in [Tabs -> Page] /\ loading \in [Tabs -> Page \cup {None}]
  /\ el \in [Tabs -> Element]
  /\ rw \in Windows \cup {None} /\ rt \in Windows \cup {None}
  /\ queue \in Seq(Gone \cup Loaded \cup Reply)
  /\ task \in Seq(Task)
  /\ \A c \in DOMAIN task : task[c].stage = "removing" => task[c].tab \in Windows
  /\ cli \in [win : Windows \cup {None}, waits : Nat \cup {None}]
  /\ told \subseteq Gone /\ byUser \subseteq Gone
  /\ forgotten \subseteq Windows /\ acts \subseteq Nat \X Tabs
  /\ evictions \in 0 .. MaxEvictions

\* The tab that commands go to is the tab of the window that closeRunWindow would
\* close: the two module-local ids never part (run-window.ts).
IdsAgree == rt # None => rt = rw

\* The CLI aborts a run on windowClosed and tabClosed: none is sent for a window that a
\* command closed, although Chrome reports both closings with the same event.
OwnCloseSilent == told \subseteq byUser

\* Conversely every closing by the user of a window that the worker still tracks is
\* told, the tab's and then the window's.
UserCloseTold ==
  queue = <<>> => \A g \in byUser : g \in told \/ g.w \in forgotten

\* With one command at a time and a worker that lives, a run never leaves behind a
\* window that the next openWindow or closeWindow would not find.
NoOrphan ==
  serial /\ evictions = 0 /\ cli.waits = None =>
    \A w \in Windows : Stands(w) => w = rw

\* ... and as long as the user closes nothing, what a page performs is performed in the
\* window that the CLI was given, never by the fallback in the user's own tab.
ActsInWindow ==
  serial /\ evictions = 0 /\ byUser = {} => \A a \in acts : a[2] = task[a[1]].arg

\* Every command is answered, whatever page, user and browser do meanwhile.
CommandsAnswered == []<>(\A c \in DOMAIN task : Answered(c))

\* What OwnCloseSilent rests on.  An id is in one place: in the worker (rw), in an
\* answer on its way to it, or with a removal under way; only the last makes a window
\* "removed", and an event that the user did not cause is of a removed window.
Due(i)    == queue[i].ev = "done" /\ queue[i].w # None
InReply(w) == \E i \in DOMAIN queue : Due(i) /\ queue[i].w = w
Doomed(w)  == \E c \in DOMAIN task : task[c].stage = "removing" /\ task[c].out
                                       /\ task[c].tab = w
ReplyOnce == \A i, j \in DOMAIN queue :
               Due(i) /\ Due(j) /\ queue[i].w = queue[j].w => i = j
OnePlace  == \A w \in Windows :
               /\ rw = w => ~ InReply(w) /\ ~ Doomed(w) /\ win[w] \notin {"unused", "removed"}
               /\ InReply(w) => ~ Doomed(w) /\ win[w] \notin {"unused", "removed"}
               /\ Doomed(w) => win[w] # "unused"
EventsOwn == \A i \in DOMAIN queue :
               queue[i].ev \in {"tab", "window"} =>
                 queue[i] \in byUser \/ win[queue[i].w] = "removed"
IInv == TypeOK /\ IdsAgree /\ OwnCloseSilent /\ ReplyOnce /\ OnePlace /\ EventsOwn

\* What UserCloseTold rests on.  A request is made once a command has its tab; the answer
\* in the queue is of a request that was served, and one that brings a window finds
\* openRunWindow waiting.
Early == {"sent", "asking"}
AnswersFit ==
  /\ \A c \in DOMAIN task : task[c].out => task[c].stage \notin Early
  /\ \A i \in DOMAIN queue : queue[i].ev = "done" =>
       /\ queue[i].c \in DOMAIN task
       /\ ~ task[queue[i].c].out /\ task[queue[i].c].stage \notin Early
       /\ Due(i) => task[queue[i].c].stage = "creating" /\ queue[i].answer = "ok"

\* An event is of a window that has come to that.
EventsFit ==
  \A i \in DOMAIN queue :
    /\ queue[i].ev = "tab" => win[queue[i].w] \notin {"unused", "open"}
    /\ queue[i].ev = "window" => win[queue[i].w] \in {"closed", "removed"}

\* The answer that brings a window comes before the events of that window, and its tab's
\* closing before its own.
Follows(n, m) ==
  /\ n.ev = "done" /\ m.ev = "done" => n.c # m.c
  /\ n.ev \in {"tab", "window"} /\ m.ev = "done" => m.w # n.w
  /\ n.ev = "window" /\ m.ev = "tab" => n.w # m.w
InOrder == \A i, j \in DOMAIN queue : i < j => Follows(queue[i], queue[j])

\* The worker knows of a standing window, will know of it, or has dropped it.
Known(ev, w) == w \in forgotten \/ InReply(w) \/ w = (IF ev = "tab" THEN rt ELSE rw)
Tracked == \A w \in Windows : /\ win[w] = "open" => Known("tab", w)
                              /\ Stands(w) => Known("window", w)

\* A closing that is still to be told finds the worker with that id.
Untold == \A g \in byUser :
            \/ g \in told \/ g.w \in forgotten
            \/ Known(g.ev, g.w) /\ \E i \in DOMAIN queue : queue[i] = g

TellInv == AnswersFit /\ EventsFit /\ InOrder /\ Tracked /\ Untold

\* What NoOrphan and ActsInWindow rest on: a command goes through the stages of its handler.
StagesOf(op) ==
  {"sent", "done"} \cup
    CASE op = "open"  -> {"removing", "creating"}
      [] op = "close" -> {"removing"}
      [] OTHER        -> {"asking"} \cup Timed
StageFits == \A c \in DOMAIN task : task[c].stage \in StagesOf(task[c].op)

\* The CLI waits for the one command that is under way; while it opens or closes the
\* worker holds no id, so no id is overwritten.
OneAtATime ==
  /\ cli.waits \in DOMAIN task \cup {None}
  /\ serial => \A c \in DOMAIN task : task[c].stage # "done" =>
       /\ cli.waits = c
       /\ task[c].arg = cli.win
       /\ (task[c].op = "open") = (cli.win = None)
       /\ task[c].stage \in {"removing", "creating"} => rw = None
Located ==
  serial /\ evictions = 0 =>
    \A w \in Windows : Stands(w) => w = rw \/ InReply(w) \/ Doomed(w)

Undisturbed == serial /\ evictions = 0 /\ byUser = {}
Held == Undisturbed /\ cli.win # None =>
          rt = cli.win \/ (cli.waits # None /\ task[cli.waits].op = "close")
Aimed == Undisturbed => \A c \in DOMAIN task : task[c].op \notin {"open", "close"} =>
           task[c].stage # "asking" /\ task[c].tab \in {None, task[c].arg}
Acted == /\ \A a \in acts : a[1] \in DOMAIN task
         /\ ActsInWindow
HoldInv == StageFits /\ OneAtATime /\ Located /\ Held /\ Aimed /\ Acted

==============================================================================
