------------------------------ MODULE Recording ------------------------------
(***************************************************************************)
(* The recorder of the extension: the active session and the archive in    *)
(* chrome.storage.local (storage/session.storage.ts), the message handlers *)
(* of the service worker (background/service-worker.ts), and the content   *)
(* script of each tab (content/recorder.ts).                               *)
(*                                                                         *)
(* A handler is async: between a read of the storage and the write of what *)
(* it computed from it, any other handler may run.  A slot holds one       *)
(* handler that is under way: where it stands (at) and the copies it keeps *)
(* across its awaits.  Chrome may end the worker at any time; the handlers *)
(* under way then stop where they stand.                                   *)
(***************************************************************************)
EXTENDS Integers, Sequences, FiniteSets

CONSTANTS
  Ids, Tabs, Urls,
  MaxHandlers,    \* handlers that may overlap: a bound
  Files,          \* sessions exported to a zip, that may be imported
  MaxEvents,      \* events of a session: a bound
  MaxCommands,    \* messages from the side panel, for serial and not: bounds
  MaxEvictions,   \* times the worker is ended: a bound
  Updates,        \* which of "stop", "pause", "resume" some page sends
  None

Event == [kind : {"navigate", "act"}, tab : Tabs, url : Urls]

Session == [id : Ids, status : {"recording", "paused", "stopped"}, tab : Tabs \cup {None},
            events : Seq(Event), original : Seq(Event) \cup {None}]

NoRepeat(events) ==
  \A k \in 1 .. Len(events) - 1 :
    ~ /\ events[k].kind = "navigate" /\ events[k + 1].kind = "navigate"
      /\ events[k].url = events[k + 1].url

ASSUME RecordingAssumption ==
  /\ None \notin Session /\ None \notin Tabs /\ None \notin BOOLEAN
  /\ None \notin Seq(Event)
  /\ \A f \in Files : f \in Session /\ f.status = "stopped" /\ NoRepeat(f.events)
  /\ Updates \subseteq {"stop", "pause", "resume"}
  /\ MaxHandlers \in Nat \ {0}
  /\ MaxCommands \in [BOOLEAN -> Nat]
  /\ {MaxEvents, MaxEvictions} \subseteq Nat

Slots == 1 .. MaxHandlers

VARIABLES
  serial,     \* whether a handler ends before the next begins
  session,    \* portalflow:session
  archive,    \* portalflow:sessions-archive, its order left out
  task,       \* the handler in each slot
  attached,   \* active, of the content script of each tab
  typing,     \* whether it holds typed text not yet emitted
  changes,    \* the statuses it has yet to be told, repeats left out
  first,      \* what its first read found, until it is answered
  late,       \* history: it has heard of a change before that answer
  misled,     \* history: that answer was another, and it has heard nothing since
  sent,       \* RECORDED_EVENT messages on their way
  commands, evictions

worker  == <<task, evictions>>
store   == <<session, archive>>
content == <<attached, typing, first, late, misled, sent>>
vars == <<serial, session, archive, task, changes, content, commands, evictions>>

Idle == [at |-> "idle", cur |-> None, list |-> {}, target |-> None, arg |-> None]

Task == [at : {"idle", "append", "save", "read", "list", "stash", "clear", "pull", "remove", "drop"},
         cur : Session \cup {None}, list : SUBSET Session,
         target : Session \cup {None}, arg : Event \cup Ids \cup {None}]

TypeOK ==
  /\ serial \in BOOLEAN
  /\ session \in Session \cup {None} /\ archive \in SUBSET Session
  /\ task \in [Slots -> Task]
  /\ attached \in [Tabs -> BOOLEAN] /\ typing \in [Tabs -> BOOLEAN]
  /\ changes \in [Tabs -> Seq(BOOLEAN)] /\ first \in [Tabs -> BOOLEAN \cup {None}]
  /\ late \in [Tabs -> BOOLEAN] /\ misled \in [Tabs -> BOOLEAN]
  /\ sent \in SUBSET Event
  /\ commands \in 0 .. MaxCommands[serial] /\ evictions \in 0 .. MaxEvictions

Init ==
  /\ serial \in BOOLEAN
  /\ session = None /\ archive = {}
  /\ task = [t \in Slots |-> Idle]
  /\ attached = [tab \in Tabs |-> FALSE] /\ typing = [tab \in Tabs |-> FALSE]
  /\ changes = [tab \in Tabs |-> <<>>] /\ first = [tab \in Tabs |-> None]
  /\ late = [tab \in Tabs |-> FALSE] /\ misled = [tab \in Tabs |-> FALSE]
  /\ sent = {} /\ commands = 0 /\ evictions = 0

-----------------------------------------------------------------------------
Recorded(s) == s # None /\ s.status = "recording"

Worth(s) == s # None /\ s.events # <<>>

Without(list, i) == {s \in list : s.id # i}

Repeats(events, e) ==
  /\ e.kind = "navigate" /\ events # <<>>
  /\ events[Len(events)].kind = "navigate" /\ events[Len(events)].url = e.url

(* chrome.storage.onChanged tells every content script of the write.       *)
Told(queue, v) ==
  IF queue # <<>> /\ queue[Len(queue)] = v THEN queue ELSE Append(queue, v)

SaveSession(s) ==
  /\ session' = s
  /\ changes' = [tab \in Tabs |-> Told(changes[tab], Recorded(s))]

SaveArchive(list) == archive' = list

Quiet == \A t \in Slots : task[t] = Idle

(* A handler that begins takes the first free slot.                        *)
Free(t) ==
  /\ task[t] = Idle /\ \A o \in 1 .. t - 1 : task[o] # Idle
  /\ serial => Quiet
At(t, at) == task[t].at = at
Becomes(t, r) == task' = [task EXCEPT ![t] = r]
Ends(t) == Becomes(t, Idle)

Copies(t) == {task[t].cur, task[t].target} \cup task[t].list
Known == ({session} \cup archive \cup Files \cup UNION {Copies(t) : t \in Slots}) \ {None}

Command == commands < MaxCommands[serial] /\ commands' = commands + 1

PanelUnchanged == UNCHANGED <<serial, commands>> /\ UNCHANGED evictions

-----------------------------------------------------------------------------
(* startRecording: the new session takes the active slot, whatever is in   *)
(* it; a navigate event to the tab's page follows, unless the page is one  *)
(* of the browser's own.  The panel offers it without a session, or with a *)
(* stopped one; a panel that has yet to hear of the last change offers it  *)
(* on what it knows.                                                       *)
NewSession(i, tab) ==
  [id |-> i, status |-> "recording", tab |-> tab, events |-> <<>>, original |-> None]

Appending(e) == [Idle EXCEPT !.at = "append", !.arg = e]

StartRecording(t, i, tab) ==
  /\ Free(t) /\ Command
  /\ serial => \A s \in {session} \ {None} : s.status = "stopped"
  /\ \A s \in Known : s.id # i
  /\ SaveSession(NewSession(i, tab))
  /\ \/ Ends(t)
     \/ \E u \in Urls : Becomes(t, Appending([kind |-> "navigate", tab |-> tab, url |-> u]))
  /\ UNCHANGED <<serial, archive, evictions>> /\ UNCHANGED content

Stopped(s) ==
  [s EXCEPT !.status = "stopped",
            !.original = IF @ = None /\ s.events # <<>> THEN s.events ELSE @]

Paused(s) == IF s.status = "recording" THEN [s EXCEPT !.status = "paused"] ELSE s
Resumed(s) == IF s.status = "paused" THEN [s EXCEPT !.status = "recording"] ELSE s

Updated(s, u) ==
  CASE u = "stop" -> Stopped(s) [] u = "pause" -> Paused(s) [] u = "resume" -> Resumed(s)

(* updateSession, as stopRecording, pauseRecording and resumeRecording     *)
(* call it: what was read is written back, changed or not.                 *)
UpdateSession(t) ==
  /\ Free(t) /\ Command
  /\ session # None
  /\ \E u \in Updates :
       Becomes(t, [Idle EXCEPT !.at = "save", !.cur = Updated(session, u)])
  /\ UNCHANGED <<serial, session, archive, changes, evictions>> /\ UNCHANGED content

Save(t) ==
  /\ At(t, "save")
  /\ SaveSession(task[t].cur)
  /\ Ends(t)
  /\ UNCHANGED archive /\ PanelUnchanged /\ UNCHANGED content

(* RECORDED_EVENT and onCommitted both come to appendEvent; onCommitted    *)
(* first looks whether the recorded tab is the one that navigated.         *)
RecordedEvent(t, e) ==
  /\ Free(t) /\ e \in sent
  /\ Becomes(t, Appending(e))
  /\ sent' = sent \ {e}
  /\ UNCHANGED <<attached, typing, first, late, misled, changes>> /\ UNCHANGED store
  /\ PanelUnchanged

OnCommitted(t, tab, u) ==
  /\ Free(t)
  /\ Recorded(session) /\ session.tab = tab
  /\ Becomes(t, Appending([kind |-> "navigate", tab |-> tab, url |-> u]))
  /\ UNCHANGED changes /\ UNCHANGED store /\ PanelUnchanged /\ UNCHANGED content

AppendEvent(t) ==
  /\ At(t, "append")
  /\ LET e == task[t].arg
     IN IF /\ Recorded(session)
           /\ ~Repeats(session.events, e)
           /\ Len(session.events) < MaxEvents
        THEN Becomes(t, [Idle EXCEPT !.at = "save",
                           !.cur = [session EXCEPT !.events = Append(@, e)]])
        ELSE Ends(t)
  /\ UNCHANGED changes /\ UNCHANGED store /\ PanelUnchanged /\ UNCHANGED content

-----------------------------------------------------------------------------
(* archiveCurrentSession, which clearSession calls, and                    *)
(* restoreArchivedSession with the session it is to bring back (target).   *)
ClearSession(t) ==
  /\ Free(t) /\ Command
  /\ Becomes(t, [Idle EXCEPT !.at = "list", !.cur = session])
  /\ UNCHANGED <<serial, changes, evictions>> /\ UNCHANGED store /\ UNCHANGED content

(* The side panel lists the archive without the active session.            *)
Listed(i) == serial => \A s \in {session} \ {None} : s.id # i

RestoreArchivedSession(t, i) ==
  /\ Free(t) /\ Command /\ Listed(i)
  /\ \E s \in archive :
       s.id = i /\ Becomes(t, [Idle EXCEPT !.at = "read", !.target = s])
  /\ UNCHANGED <<serial, changes, evictions>> /\ UNCHANGED store /\ UNCHANGED content

ReadActive(t) ==
  /\ At(t, "read")
  /\ Becomes(t, [task[t] EXCEPT !.at = "list", !.cur = session])
  /\ UNCHANGED changes /\ UNCHANGED store /\ PanelUnchanged /\ UNCHANGED content

(* Mutation: the archived copy is built without the original.              *)
ArchivedCopy_bare(s) == [s EXCEPT !.status = "stopped", !.original = None]
ArchivedCopy(s) == [s EXCEPT !.status = "stopped"]

Archived(list, s) == Without(list, s.id) \cup {ArchivedCopy(s)}

(* Mutation: the active slot is cleared without keeping what is in it.     *)
ReadArchive_drop(t) ==
  /\ At(t, "list")
  /\ Becomes(t, [task[t] EXCEPT !.at = "clear", !.cur = None])
  /\ UNCHANGED changes /\ UNCHANGED store /\ PanelUnchanged /\ UNCHANGED content

ReadArchive(t) ==
  /\ At(t, "list")
  /\ LET cur == task[t].cur
     IN Becomes(t, IF Worth(cur)
                   THEN [task[t] EXCEPT !.at = "stash", !.cur = None,
                                        !.list = Archived(archive, cur)]
                   ELSE [task[t] EXCEPT !.at = "clear", !.cur = None])
  /\ UNCHANGED changes /\ UNCHANGED store /\ PanelUnchanged /\ UNCHANGED content

StashActive(t) ==
  /\ At(t, "stash")
  /\ SaveArchive(task[t].list)
  /\ Becomes(t, [task[t] EXCEPT !.at = "clear", !.list = {}])
  /\ UNCHANGED <<session, changes>> /\ PanelUnchanged /\ UNCHANGED content

ClearActive(t) ==
  /\ At(t, "clear")
  /\ SaveSession(None)
  /\ IF task[t].target = None THEN Ends(t) ELSE Becomes(t, [task[t] EXCEPT !.at = "pull"])
  /\ UNCHANGED archive /\ PanelUnchanged /\ UNCHANGED content

(* restoreArchivedSession: the target leaves the archive and is installed. *)
PullTarget(t) ==
  /\ At(t, "pull")
  /\ Becomes(t, [task[t] EXCEPT !.at = "remove",
                                !.list = Without(archive, task[t].target.id)])
  /\ UNCHANGED changes /\ UNCHANGED store /\ PanelUnchanged /\ UNCHANGED content

RemoveTarget(t) ==
  /\ At(t, "remove")
  /\ SaveArchive(task[t].list)
  /\ Becomes(t, [Idle EXCEPT !.at = "save", !.cur = task[t].target])
  /\ UNCHANGED <<session, changes>> /\ PanelUnchanged /\ UNCHANGED content

DeleteArchivedSession(t, i) ==
  /\ Free(t) /\ Command /\ Listed(i)
  /\ Becomes(t, [Idle EXCEPT !.at = "drop", !.list = Without(archive, i), !.arg = i])
  /\ UNCHANGED <<serial, changes, evictions>> /\ UNCHANGED store /\ UNCHANGED content

Drop(t) ==
  /\ At(t, "drop")
  /\ SaveArchive(task[t].list)
  /\ Ends(t)
  /\ UNCHANGED <<session, changes>> /\ PanelUnchanged /\ UNCHANGED content

(* The side panel writes an imported session itself, past the worker.      *)
ImportFile(f) ==
  /\ Command
  /\ serial => Quiet
  /\ SaveSession([f EXCEPT !.tab = None])
  /\ UNCHANGED <<serial, archive>> /\ UNCHANGED worker /\ UNCHANGED content

EndWorker ==
  /\ evictions < MaxEvictions /\ evictions' = evictions + 1
  /\ task' = [t \in Slots |-> Idle]
  /\ UNCHANGED <<serial, changes, commands>> /\ UNCHANGED store /\ UNCHANGED content

-----------------------------------------------------------------------------
(* The content script.  A message in flight is not sent a second time: a   *)
(* bound.                                                                  *)
Act(tab) == {[kind |-> "act", tab |-> tab, url |-> u] : u \in Urls}

ContentStep == UNCHANGED <<serial, commands>> /\ UNCHANGED worker /\ UNCHANGED store
Reading == <<first, late, misled>>

(* handleInput: the text waits for the pause in typing.                    *)
HandleInput(tab) ==
  /\ attached[tab]
  /\ typing' = [typing EXCEPT ![tab] = TRUE]
  /\ UNCHANGED <<attached, changes, sent, Reading>> /\ ContentStep

(* handleClick, handleChange and handleSubmit emit the typing before them. *)
HandleEvent(tab) ==
  /\ attached[tab]
  /\ typing' = [typing EXCEPT ![tab] = FALSE]
  /\ \E e \in Act(tab) : e \notin sent /\ sent' = sent \cup {e}
  /\ UNCHANGED <<attached, changes, Reading>> /\ ContentStep

FlushTyping(tab) ==
  /\ typing[tab]
  /\ typing' = [typing EXCEPT ![tab] = FALSE]
  /\ \E e \in Act(tab) : sent' = sent \cup {e}
  /\ UNCHANGED <<attached, changes, Reading>> /\ ContentStep

(* Mutation: the handlers stay on the page.                                *)
SyncFromSession_stay(tab, v) ==
  /\ attached' = [attached EXCEPT ![tab] = @ \/ v]
  /\ UNCHANGED <<typing, sent>>

(* syncFromSession: detach emits the text it still holds.                  *)
SyncFromSession(tab, v) ==
  /\ attached' = [attached EXCEPT ![tab] = v]
  /\ typing' = [typing EXCEPT ![tab] = @ /\ v]
  /\ \E e \in Act(tab) : sent' = IF typing[tab] /\ ~v THEN sent \cup {e} ELSE sent

OnChanged(tab) ==
  /\ changes[tab] # <<>>
  /\ changes' = [changes EXCEPT ![tab] = Tail(@)]
  /\ SyncFromSession(tab, Head(changes[tab]))
  /\ late' = [late EXCEPT ![tab] = first[tab] # None]
  /\ misled' = [misled EXCEPT ![tab] = FALSE]
  /\ UNCHANGED first /\ ContentStep

(* The storage may come to the read of a new script only now.              *)
ReadServed(tab) ==
  /\ first[tab] # None
  /\ first' = [first EXCEPT ![tab] = Recorded(session)]
  /\ UNCHANGED <<attached, typing, changes, late, misled, sent>> /\ ContentStep

(* Nothing orders the answer of the first read and the changes.            *)
FirstRead(tab) ==
  /\ first[tab] # None
  /\ SyncFromSession(tab, first[tab])
  /\ first' = [first EXCEPT ![tab] = None]
  /\ late' = [late EXCEPT ![tab] = FALSE]
  /\ misled' = [misled EXCEPT ![tab] = late[tab] /\ first[tab] # attached[tab]]
  /\ UNCHANGED changes /\ ContentStep

(* The page is left and another one loads: what the script had typed is    *)
(* emitted, and may die with the page; the new script reads the session.   *)
Reload(tab) ==
  /\ attached' = [attached EXCEPT ![tab] = FALSE]
  /\ typing' = [typing EXCEPT ![tab] = FALSE]
  /\ changes' = [changes EXCEPT ![tab] = <<>>]
  /\ first' = [first EXCEPT ![tab] = Recorded(session)]
  /\ late' = [late EXCEPT ![tab] = FALSE] /\ misled' = [misled EXCEPT ![tab] = FALSE]
  /\ \/ UNCHANGED sent
     \/ typing[tab] /\ \E e \in Act(tab) : sent' = sent \cup {e}
  /\ ContentStep

-----------------------------------------------------------------------------
Handle(t) ==
  \/ Save(t) \/ AppendEvent(t) \/ ReadActive(t) \/ ReadArchive(t)
  \/ StashActive(t) \/ ClearActive(t) \/ PullTarget(t) \/ RemoveTarget(t) \/ Drop(t)

Receive(t) ==
  \/ UpdateSession(t) \/ ClearSession(t)
  \/ \E i \in Ids, tab \in Tabs : StartRecording(t, i, tab)
  \/ \E i \in Ids : RestoreArchivedSession(t, i) \/ DeleteArchivedSession(t, i)
  \/ \E e \in sent : RecordedEvent(t, e)
  \/ \E tab \in Tabs, u \in Urls : OnCommitted(t, tab, u)

Content(tab) ==
  \/ HandleInput(tab) \/ HandleEvent(tab) \/ FlushTyping(tab)
  \/ OnChanged(tab) \/ ReadServed(tab) \/ FirstRead(tab) \/ Reload(tab)

Next ==
  \/ \E t \in Slots : Receive(t) \/ Handle(t)
  \/ \E f \in Files : ImportFile(f)
  \/ EndWorker
  \/ \E tab \in Tabs : Content(tab)

Spec == Init /\ [][Next]_vars

-----------------------------------------------------------------------------
OnceStopped(list) == \A a, b \in list : a.status = "stopped" /\ (a.id = b.id => a = b)

(* A session is in the archive once, and stopped: re-archiving replaces    *)
(* the older copy, also when handlers overlap.                             *)
ArchiveOnce == OnceStopped(archive)

(* A page the recorded tab goes to once is recorded once, although two     *)
(* handlers tell of it: no two navigate events to one URL in a row.        *)
NavigatesDiffer == \A s \in ({session} \cup archive) \ {None} : NoRepeat(s.events)

(* What the storage and the handlers under way hold, at every step: the    *)
(* invariant the proofs of the two above carry through.                    *)
SessionOK(s) == s \in Session /\ NoRepeat(s.events)
ListOK(list) == (\A s \in list : SessionOK(s)) /\ OnceStopped(list)

TaskOK(r) ==
  /\ r.cur # None => SessionOK(r.cur)
  /\ r.target # None => SessionOK(r.target)
  /\ ListOK(r.list)
  /\ r.at = "append" => r.arg \in Event
  /\ r.at = "save" => r.cur # None
  /\ r.at \in {"pull", "remove"} => r.target # None

IInv ==
  /\ TypeOK
  /\ session # None => SessionOK(session)
  /\ ListOK(archive)
  /\ \A t \in Slots : TaskOK(task[t])

Stored ==
  {s.id : s \in {x \in {session} \cup archive : Worth(x)}}
  \cup {task[t].cur.id : t \in {x \in Slots : At(x, "save") /\ Worth(task[x].cur)}}

(* What the user asks for may discard session i; so may the end of the     *)
(* worker, between the writes of restoreArchivedSession.                   *)
Discards(i) ==
  \/ \E t \in Slots : At(t, "drop") /\ task[t].arg = i
  \/ \E t \in Slots, j \in Ids, tab \in Tabs : StartRecording(t, j, tab)
  \/ \E f \in Files : ImportFile(f)
  \/ EndWorker /\ \E t \in Slots : At(t, "save") /\ task[t].cur.id = i

(* When handlers do not overlap, clearing, restoring and deleting lose no  *)
(* session with events but the one the user deletes, wherever the worker   *)
(* is ended, except inside the last write of a restore.                    *)
NothingLost == [][serial => \A i \in Stored : i \in Stored' \/ Discards(i)]_vars

Continues(s, n) ==
  /\ Len(n.events) >= Len(s.events) /\ SubSeq(n.events, 1, Len(s.events)) = s.events
  /\ s.original # None => n.original = s.original
  /\ s.status = "stopped" => n.status = "stopped" /\ n.events = s.events

(* When handlers do not overlap, what becomes of the active session, in    *)
(* its slot or in the archive, continues it: its events are kept, its      *)
(* original is the first one, and once stopped it changes no more.         *)
HistoryKept ==
  [][(serial /\ session # None /\ ~\E f \in Files : ImportFile(f)) =>
       \A n \in ({session'} \cup (archive' \ archive)) \ {None} :
          n.id = session.id => Continues(session, n)]_vars

(* What a handler that runs alone holds is what is stored: the copies it   *)
(* keeps across its awaits are still those of the storage, and the session *)
(* it is to bring back is in the archive until it takes it out.            *)
InTurn(r) ==
  /\ r.at = "save" =>
       session = None \/ (session.id = r.cur.id /\ Continues(session, r.cur))
  /\ r.at = "list" => r.cur = session
  /\ r.at = "stash" => Worth(session) /\ r.list = Archived(archive, session)
  /\ r.at = "clear" /\ Worth(session) => ArchivedCopy(session) \in archive
  /\ r.at \in {"pull", "remove"} => session = None
  /\ r.at = "remove" => r.list = Without(archive, r.target.id)
  /\ r.at = "drop" => r.list = Without(archive, r.arg)
  /\ r.at \in {"read", "list", "stash", "clear", "pull", "remove"} /\ r.target # None =>
       r.target \in archive
  /\ r.at \in {"read", "list", "stash"} /\ r.target # None /\ session # None =>
       session.id # r.target.id

(* The invariant behind NothingLost and HistoryKept: handlers that do not  *)
(* overlap, each of them in its turn.                                      *)
SerialInv ==
  serial => /\ \A t, o \in Slots : t = o \/ task[t] = Idle \/ task[o] = Idle
            /\ \A t \in Slots : InTurn(task[t])

(* A content script that has been told of everything is attached exactly   *)
(* while the session records, whatever was written while its page loaded   *)
(* and its first read was under way: but when that read is answered after  *)
(* a change, and until the next one.                                       *)
RecorderFollows ==
  \A tab \in Tabs :
    changes[tab] = <<>> /\ first[tab] = None /\ ~misled[tab] => attached[tab] = Recorded(session)
=============================================================================
