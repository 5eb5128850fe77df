--------------------------- MODULE Recording_proofs ---------------------------
(* What holds of the recorder's storage for any number of overlapping      *)
(* handlers, sessions, tabs and events: IInv, and from it TypeOK,          *)
(* ArchiveOnce and NavigatesDiffer; of handlers that do not overlap,       *)
(* SerialInv, and from it NothingLost and HistoryKept; and of the content  *)
(* scripts FollowInv, and from it RecorderFollows.                         *)
EXTENDS Recording, SequenceTheorems, TLAPS

USE RecordingAssumption

(* A handler may come to any point with nothing in its hands.              *)
LEMMA IdleOK == Idle \in Task /\ TaskOK(Idle)
BY DEF Idle, Task, TaskOK, ListOK, OnceStopped

(* The list a handler writes back without session i is still in order.     *)
LEMMA WithoutOK ==
  ASSUME NEW list, ListOK(list), NEW i
  PROVE  ListOK(Without(list, i))
BY DEF ListOK, OnceStopped, Without

(* Archiving replaces an older copy of the session: the list stays in      *)
(* order.                                                                  *)
LEMMA ArchivedOK ==
  ASSUME NEW list, ListOK(list), NEW s, SessionOK(s)
  PROVE  ListOK(Archived(list, s))
<1>1. SessionOK(ArchivedCopy(s)) /\ ArchivedCopy(s).status = "stopped"
      /\ ArchivedCopy(s).id = s.id
  BY DEF SessionOK, ArchivedCopy, Session
<1>2. QED
  BY <1>1 DEF ListOK, OnceStopped, Archived, Without

(* appendEvent extends a recording by an event that repeats nothing.       *)
LEMMA AppendOK ==
  ASSUME NEW s, SessionOK(s), NEW e \in Event, ~Repeats(s.events, e)
  PROVE  SessionOK([s EXCEPT !.events = Append(@, e)])
<1> DEFINE n == [s EXCEPT !.events = Append(@, e)]
<1>1. s.events \in Seq(Event)
  BY DEF SessionOK, Session
<1>2. n \in Session /\ n.events = Append(s.events, e)
  <2>1. Append(s.events, e) \in Seq(Event)
    BY <1>1
  <2>2. s \in Session
    BY DEF SessionOK
  <2>3. n = [s EXCEPT !.events = Append(s.events, e)]
    BY <2>2 DEF Session
  <2>4. QED
    BY <2>1, <2>2, <2>3 DEF Session
<1>3. NoRepeat(Append(s.events, e))
  <2>1. SUFFICES ASSUME NEW k \in 1 .. Len(s.events)
                 PROVE  LET ev == Append(s.events, e)
                        IN ~ /\ ev[k].kind = "navigate" /\ ev[k + 1].kind = "navigate"
                             /\ ev[k].url = ev[k + 1].url
    BY <1>1 DEF NoRepeat
  <2>a. Append(s.events, e)[k] = s.events[k]
    BY <1>1
  <2>2. CASE k = Len(s.events)
    <3>1. Append(s.events, e)[k + 1] = e
      BY <1>1, <2>2
    <3>2. s.events # <<>>
      BY <1>1, <2>2
    <3>3. QED
      BY <2>a, <2>2, <3>1, <3>2 DEF Repeats
  <2>3. CASE k # Len(s.events)
    <3>1. k \in 1 .. Len(s.events) - 1
      BY <1>1, <2>3
    <3>2. Append(s.events, e)[k + 1] = s.events[k + 1]
      BY <1>1, <3>1
    <3>3. QED
      BY <2>a, <3>1, <3>2 DEF SessionOK, NoRepeat
  <2>4. QED
    BY <2>2, <2>3
<1>4. QED
  BY <1>2, <1>3 DEF SessionOK

(* stop, pause and resume leave the events alone.                          *)
LEMMA UpdatedOK ==
  ASSUME NEW s, SessionOK(s), NEW u \in Updates
  PROVE  SessionOK(Updated(s, u))
<1>1. s.events \in Seq(Event) /\ s \in Session
  BY DEF SessionOK, Session
<1>2. SessionOK(Stopped(s))
  BY <1>1 DEF SessionOK, Stopped, Session
<1>3. SessionOK(Paused(s)) /\ SessionOK(Resumed(s))
  BY <1>1 DEF SessionOK, Paused, Resumed, Session
<1>4. QED
  BY <1>2, <1>3 DEF Updated

(* A write of the active slot keeps the queues of the content scripts.     *)
LEMMA SaveSessionOK ==
  ASSUME TypeOK, NEW s, SaveSession(s)
  PROVE  changes' \in [Tabs -> Seq(BOOLEAN)]
<1>1. ASSUME NEW q \in Seq(BOOLEAN) PROVE Told(q, Recorded(s)) \in Seq(BOOLEAN)
  <2>1. Recorded(s) \in BOOLEAN
    BY DEF Recorded
  <2>2. Append(q, Recorded(s)) \in Seq(BOOLEAN)
    BY <1>1, <2>1, AppendProperties, Zenon
  <2>3. QED
    BY <1>1, <2>2, Zenon DEF Told
<1>2. QED
  BY <1>1 DEF SaveSession, TypeOK

(* A step of one slot: the record it is given decides.                     *)
LEMMA BecomesOK ==
  ASSUME IInv, NEW t \in Slots, NEW r \in Task, TaskOK(r), Becomes(t, r)
  PROVE  task' \in [Slots -> Task] /\ \A o \in Slots : TaskOK(task'[o])
BY DEF IInv, TypeOK, Becomes

-----------------------------------------------------------------------------
LEMMA InitIInv == Init => IInv
<1> SUFFICES ASSUME Init PROVE IInv
  OBVIOUS
<1>1. TypeOK
  BY IdleOK DEF Init, TypeOK
<1>2. QED
  BY <1>1, IdleOK DEF Init, IInv, ListOK, OnceStopped

(* What a handler's step must show when it writes nothing to the storage.  *)
LEMMA QuietStepOK ==
  ASSUME IInv, NEW t \in Slots, NEW r \in Task, TaskOK(r), Becomes(t, r),
         UNCHANGED <<serial, session, archive, attached, typing, first, late, misled, changes>>,
         sent' \in SUBSET Event,
         commands' \in 0 .. MaxCommands[serial], evictions' = evictions
  PROVE  IInv'
<1>1. task' \in [Slots -> Task] /\ \A o \in Slots : TaskOK(task'[o])
  BY BecomesOK
<1>2. TypeOK'
  BY <1>1 DEF IInv, TypeOK
<1>3. QED
  BY <1>1, <1>2 DEF IInv

(* ... and when it writes the active session.                              *)
LEMMA SessionStepOK ==
  ASSUME IInv, NEW t \in Slots, NEW r \in Task, TaskOK(r), Becomes(t, r),
         NEW s, s = None \/ SessionOK(s), SaveSession(s),
         UNCHANGED <<serial, archive, attached, typing, first, late, misled, sent, evictions>>,
         commands' \in 0 .. MaxCommands[serial]
  PROVE  IInv'
<1>1. task' \in [Slots -> Task] /\ \A o \in Slots : TaskOK(task'[o])
  BY BecomesOK
<1>2. session' \in Session \cup {None} /\ (session' # None => SessionOK(session'))
  BY DEF SaveSession, SessionOK
<1>3. changes' \in [Tabs -> Seq(BOOLEAN)]
  BY SaveSessionOK DEF IInv
<1>4. TypeOK'
  BY <1>1, <1>2, <1>3 DEF IInv, TypeOK
<1>5. QED
  BY <1>1, <1>2, <1>4 DEF IInv

(* ... and when it writes the archive.                                     *)
LEMMA ArchiveStepOK ==
  ASSUME IInv, NEW t \in Slots, NEW r \in Task, TaskOK(r), Becomes(t, r),
         SaveArchive(task[t].list),
         UNCHANGED <<serial, session, attached, typing, first, late, misled, changes>>,
         UNCHANGED <<sent, commands, evictions>>
  PROVE  IInv'
<1>1. task' \in [Slots -> Task] /\ \A o \in Slots : TaskOK(task'[o])
  BY BecomesOK
<1>2. ListOK(archive')
  BY DEF IInv, TaskOK, SaveArchive
<1>3. TypeOK'
  BY <1>1, <1>2 DEF IInv, TypeOK, ListOK, SessionOK
<1>4. QED
  BY <1>1, <1>2, <1>3 DEF IInv

(* The messages a handler begins with.                                     *)
LEMMA ReceiveStep == IInv /\ (\E t \in Slots : Receive(t)) => IInv'
<1> SUFFICES ASSUME IInv, NEW t \in Slots, Receive(t) PROVE IInv'
  OBVIOUS
<1>a. ASSUME Command PROVE commands' \in 0 .. MaxCommands[serial]
  BY <1>a DEF Command, IInv, TypeOK
<1>b. commands \in 0 .. MaxCommands[serial] /\ sent \in SUBSET Event
  BY DEF IInv, TypeOK
<1>c. ASSUME NEW e \in Event PROVE Appending(e) \in Task /\ TaskOK(Appending(e))
  BY <1>c, IdleOK DEF Appending, Idle, Task, TaskOK
<1>1. CASE UpdateSession(t)
  <2>1. PICK u \in Updates : Becomes(t, [Idle EXCEPT !.at = "save", !.cur = Updated(session, u)])
    BY <1>1 DEF UpdateSession
  <2>2. SessionOK(Updated(session, u))
    BY <1>1, UpdatedOK DEF UpdateSession, IInv
  <2> DEFINE r == [Idle EXCEPT !.at = "save", !.cur = Updated(session, u)]
  <2>3. r \in Task /\ TaskOK(r)
    BY <2>2, IdleOK DEF Idle, Task, TaskOK, SessionOK
  <2>4. QED
    BY <1>1, <1>a, <1>b, <2>1, <2>3, QuietStepOK DEF UpdateSession, content
<1>2. CASE ClearSession(t)
  <2> DEFINE r == [Idle EXCEPT !.at = "list", !.cur = session]
  <2>1. r \in Task /\ TaskOK(r)
    BY IdleOK DEF Idle, Task, TaskOK, IInv, TypeOK
  <2>2. QED
    BY <1>2, <1>a, <1>b, <2>1, QuietStepOK DEF ClearSession, content, store
<1>3. ASSUME NEW i \in Ids, NEW tab \in Tabs, StartRecording(t, i, tab) PROVE IInv'
  <2>1. SessionOK(NewSession(i, tab))
    <3>1. <<>> \in Seq(Event) /\ Len(<<>>) = 0
      OBVIOUS
    <3>2. NewSession(i, tab) \in Session
      BY <3>1 DEF NewSession, Session
    <3>3. NoRepeat(NewSession(i, tab).events)
      BY <3>1 DEF NoRepeat, NewSession
    <3>4. QED
      BY <3>2, <3>3 DEF SessionOK
  <2>2. PICK r \in Task : TaskOK(r) /\ Becomes(t, r)
    <3>1. CASE Ends(t)
      BY <3>1, IdleOK DEF Ends
    <3>2. ASSUME NEW u \in Urls,
                 Becomes(t, Appending([kind |-> "navigate", tab |-> tab, url |-> u]))
          PROVE  \E r \in Task : TaskOK(r) /\ Becomes(t, r)
      <4>1. [kind |-> "navigate", tab |-> tab, url |-> u] \in Event
        BY DEF Event
      <4>2. QED
        BY <1>c, <3>2, <4>1
    <3>3. QED
      BY <1>3, <3>1, <3>2 DEF StartRecording
  <2>3. QED
    BY <1>3, <1>a, <2>1, <2>2, SessionStepOK DEF StartRecording, content
<1>4. ASSUME NEW i \in Ids, RestoreArchivedSession(t, i) PROVE IInv'
  <2>1. PICK s \in archive : Becomes(t, [Idle EXCEPT !.at = "read", !.target = s])
    BY <1>4 DEF RestoreArchivedSession
  <2> DEFINE r == [Idle EXCEPT !.at = "read", !.target = s]
  <2>2. r \in Task /\ TaskOK(r)
    BY <2>1, IdleOK DEF Idle, Task, TaskOK, IInv, ListOK, SessionOK
  <2>3. QED
    BY <1>4, <1>a, <1>b, <2>1, <2>2, QuietStepOK DEF RestoreArchivedSession, content, store
<1>5. ASSUME NEW i \in Ids, DeleteArchivedSession(t, i) PROVE IInv'
  <2> DEFINE r == [Idle EXCEPT !.at = "drop", !.list = Without(archive, i), !.arg = i]
  <2>1. ListOK(Without(archive, i))
    BY WithoutOK DEF IInv
  <2>2. r \in Task /\ TaskOK(r)
    BY <2>1, IdleOK DEF Idle, Task, TaskOK, ListOK, SessionOK
  <2>3. QED
    BY <1>5, <1>a, <1>b, <2>2, QuietStepOK DEF DeleteArchivedSession, content, store
<1>6. ASSUME NEW e \in sent, RecordedEvent(t, e) PROVE IInv'
  <2>1. Appending(e) \in Task /\ TaskOK(Appending(e))
    BY <1>b, <1>c
  <2>2. QED
    BY <1>6, <1>b, <2>1, QuietStepOK DEF RecordedEvent, store, PanelUnchanged
<1>7. ASSUME NEW tab \in Tabs, NEW u \in Urls, OnCommitted(t, tab, u) PROVE IInv'
  <2> DEFINE e == [kind |-> "navigate", tab |-> tab, url |-> u]
  <2>1. e \in Event
    BY DEF Event
  <2>2. Appending(e) \in Task /\ TaskOK(Appending(e))
    BY <2>1, <1>c
  <2>3. QED
    BY <1>7, <1>b, <2>2, QuietStepOK DEF OnCommitted, store, PanelUnchanged, content
<1>8. QED
  BY <1>1, <1>2, <1>3, <1>4, <1>5, <1>6, <1>7 DEF Receive

(* The steps of a handler under way.                                       *)
LEMMA HandleStep == IInv /\ (\E t \in Slots : Handle(t)) => IInv'
<1> SUFFICES ASSUME IInv, NEW t \in Slots, Handle(t) PROVE IInv'
  OBVIOUS
<1>a. task[t] \in Task /\ TaskOK(task[t])
  BY DEF IInv, TypeOK
<1>b. commands \in 0 .. MaxCommands[serial] /\ sent \in SUBSET Event
  BY DEF IInv, TypeOK
<1>1. CASE Save(t)
  BY <1>1, <1>a, <1>b, IdleOK, SessionStepOK
     DEF Save, At, Ends, PanelUnchanged, content, TaskOK
<1>2. CASE AppendEvent(t)
  <2> DEFINE e == task[t].arg
             r == [Idle EXCEPT !.at = "save", !.cur = [session EXCEPT !.events = Append(@, e)]]
  <2>1. CASE Ends(t)
    BY <1>2, <1>b, <2>1, IdleOK, QuietStepOK
       DEF AppendEvent, Ends, store, PanelUnchanged, content
  <2>2. CASE Recorded(session) /\ ~Repeats(session.events, e) /\ Becomes(t, r)
    <3>1. SessionOK([session EXCEPT !.events = Append(@, e)])
      BY <1>2, <1>a, <2>2, AppendOK DEF AppendEvent, At, TaskOK, Recorded, IInv
    <3>2. r \in Task /\ TaskOK(r)
      BY <3>1, IdleOK DEF Idle, Task, TaskOK, SessionOK
    <3>3. QED
      BY <1>2, <1>b, <2>2, <3>2, QuietStepOK
         DEF AppendEvent, store, PanelUnchanged, content
  <2>3. QED
    BY <1>2, <2>1, <2>2 DEF AppendEvent
<1>3. CASE ReadActive(t)
  <2> DEFINE r == [task[t] EXCEPT !.at = "list", !.cur = session]
  <2>1. r \in Task /\ TaskOK(r)
    BY <1>a DEF Task, TaskOK, IInv, TypeOK
  <2>2. QED
    BY <1>3, <1>b, <2>1, QuietStepOK DEF ReadActive, store, PanelUnchanged, content
<1>4. CASE ReadArchive(t)
  <2> DEFINE cur == task[t].cur
             r1 == [task[t] EXCEPT !.at = "stash", !.cur = None, !.list = Archived(archive, cur)]
             r2 == [task[t] EXCEPT !.at = "clear", !.cur = None]
  <2>1. CASE Worth(cur)
    <3>1. ListOK(Archived(archive, cur))
      BY <1>a, <2>1, ArchivedOK DEF Worth, TaskOK, IInv
    <3>2. r1 \in Task /\ TaskOK(r1)
      BY <1>a, <3>1 DEF Task, TaskOK, ListOK, SessionOK
    <3>3. QED
      BY <1>4, <1>b, <2>1, <3>2, QuietStepOK
         DEF ReadArchive, store, PanelUnchanged, content
  <2>2. CASE ~Worth(cur)
    <3>1. r2 \in Task /\ TaskOK(r2)
      BY <1>a DEF Task, TaskOK
    <3>2. QED
      BY <1>4, <1>b, <2>2, <3>1, QuietStepOK
         DEF ReadArchive, store, PanelUnchanged, content
  <2>3. QED
    BY <2>1, <2>2
<1>5. CASE StashActive(t)
  <2> DEFINE r == [task[t] EXCEPT !.at = "clear", !.list = {}]
  <2>1. r \in Task /\ TaskOK(r)
    BY <1>a DEF Task, TaskOK, ListOK, OnceStopped
  <2>2. QED
    BY <1>5, <2>1, ArchiveStepOK DEF StashActive, PanelUnchanged, content
<1>6. CASE ClearActive(t)
  <2> DEFINE r == [task[t] EXCEPT !.at = "pull"]
  <2>1. CASE Ends(t)
    BY <1>6, <1>b, <2>1, IdleOK, SessionStepOK DEF ClearActive, Ends, PanelUnchanged, content
  <2>2. CASE task[t].target # None /\ Becomes(t, r)
    <3>1. r \in Task /\ TaskOK(r)
      BY <1>a, <2>2 DEF Task, TaskOK
    <3>2. QED
      BY <1>6, <1>b, <2>2, <3>1, SessionStepOK DEF ClearActive, PanelUnchanged, content
  <2>3. QED
    BY <1>6, <2>1, <2>2 DEF ClearActive
<1>7. CASE PullTarget(t)
  <2> DEFINE l == Without(archive, task[t].target.id)
             r == [task[t] EXCEPT !.at = "remove", !.list = l]
  <2>1. ListOK(l)
    BY WithoutOK DEF IInv
  <2>2. r \in Task /\ TaskOK(r)
    BY <1>7, <1>a, <2>1 DEF PullTarget, At, Task, TaskOK, ListOK, SessionOK
  <2>3. QED
    BY <1>7, <1>b, <2>2, QuietStepOK DEF PullTarget, store, PanelUnchanged, content
<1>8. CASE RemoveTarget(t)
  <2> DEFINE r == [Idle EXCEPT !.at = "save", !.cur = task[t].target]
  <2>1. r \in Task /\ TaskOK(r)
    BY <1>8, <1>a, IdleOK DEF RemoveTarget, At, Idle, Task, TaskOK
  <2>2. QED
    BY <1>8, <2>1, ArchiveStepOK DEF RemoveTarget, PanelUnchanged, content
<1>9. CASE Drop(t)
  BY <1>9, IdleOK, ArchiveStepOK DEF Drop, Ends, PanelUnchanged, content
<1>10. QED
  BY <1>1, <1>2, <1>3, <1>4, <1>5, <1>6, <1>7, <1>8, <1>9 DEF Handle

(* The content scripts leave the storage and the handlers alone.           *)
LEMMA ContentStepOK == IInv /\ (\E tab \in Tabs : Content(tab)) => IInv'
<1> SUFFICES ASSUME IInv, NEW tab \in Tabs, Content(tab) PROVE IInv'
  OBVIOUS
<1>1. /\ attached' \in [Tabs -> BOOLEAN] /\ typing' \in [Tabs -> BOOLEAN]
      /\ changes' \in [Tabs -> Seq(BOOLEAN)] /\ first' \in [Tabs -> BOOLEAN \cup {None}]
      /\ late' \in [Tabs -> BOOLEAN] /\ misled' \in [Tabs -> BOOLEAN]
      /\ sent' \in SUBSET Event
  <2>a. Act(tab) \subseteq Event
    BY DEF Act, Event
  <2>b. /\ attached \in [Tabs -> BOOLEAN] /\ typing \in [Tabs -> BOOLEAN]
        /\ changes \in [Tabs -> Seq(BOOLEAN)] /\ first \in [Tabs -> BOOLEAN \cup {None}]
        /\ late \in [Tabs -> BOOLEAN] /\ misled \in [Tabs -> BOOLEAN]
        /\ sent \in SUBSET Event
    BY DEF IInv, TypeOK
  <2>c. ASSUME NEW S, NEW f \in [Tabs -> S], NEW x \in S
        PROVE  [f EXCEPT ![tab] = x] \in [Tabs -> S]
    OBVIOUS
  <2>d. ASSUME NEW v \in BOOLEAN, SyncFromSession(tab, v)
        PROVE  /\ attached' \in [Tabs -> BOOLEAN] /\ typing' \in [Tabs -> BOOLEAN]
               /\ sent' \in SUBSET Event
    <3>1. attached' \in [Tabs -> BOOLEAN]
      BY <2>b, <2>c, <2>d, Zenon DEF SyncFromSession
    <3>2. typing' \in [Tabs -> BOOLEAN]
      BY <2>b, <2>d DEF SyncFromSession
    <3>3. sent' \in SUBSET Event
      BY <2>a, <2>b, <2>d DEF SyncFromSession
    <3>4. QED
      BY <3>1, <3>2, <3>3
  <2>1. CASE HandleInput(tab) \/ HandleEvent(tab) \/ FlushTyping(tab)
    BY <2>a, <2>b, <2>1 DEF HandleInput, HandleEvent, FlushTyping, Reading
  <2>2. CASE OnChanged(tab)
    <3>1. changes[tab] \in Seq(BOOLEAN) /\ changes[tab] # <<>>
      BY <2>b, <2>2 DEF OnChanged
    <3>2. Tail(changes[tab]) \in Seq(BOOLEAN) /\ Head(changes[tab]) \in BOOLEAN
      BY <3>1, HeadTailProperties, Zenon
    <3>3. /\ attached' \in [Tabs -> BOOLEAN] /\ typing' \in [Tabs -> BOOLEAN]
          /\ sent' \in SUBSET Event
      <4>1. SyncFromSession(tab, Head(changes[tab]))
        BY <2>2 DEF OnChanged
      <4>2. QED
        BY <2>d, <3>2, <4>1
    <3>4. changes' \in [Tabs -> Seq(BOOLEAN)]
      <4>1. changes' = [changes EXCEPT ![tab] = Tail(@)]
        BY <2>2 DEF OnChanged
      <4>2. QED
        BY <2>b, <2>c, <3>2, <4>1
    <3>5. /\ first' \in [Tabs -> BOOLEAN \cup {None}]
          /\ late' \in [Tabs -> BOOLEAN] /\ misled' \in [Tabs -> BOOLEAN]
      BY <2>b, <2>2 DEF OnChanged
    <3>6. QED
      BY <3>3, <3>4, <3>5
  <2>3. CASE FirstRead(tab)
    <3>1. first[tab] \in BOOLEAN /\ SyncFromSession(tab, first[tab])
      BY <2>b, <2>3 DEF FirstRead
    <3>2. /\ first' \in [Tabs -> BOOLEAN \cup {None}] /\ late' \in [Tabs -> BOOLEAN]
          /\ changes' = changes
      BY <2>b, <2>3 DEF FirstRead
    <3>3. misled' \in [Tabs -> BOOLEAN]
      <4>1. misled' = [misled EXCEPT ![tab] = late[tab] /\ first[tab] # attached[tab]]
        BY <2>3 DEF FirstRead
      <4>2. QED
        BY <2>b, <4>1
    <3>4. QED
      BY <2>b, <2>d, <3>1, <3>2, <3>3
  <2>4. CASE Reload(tab)
    <3>1. Recorded(session) \in BOOLEAN /\ <<>> \in Seq(BOOLEAN)
      BY DEF Recorded
    <3>2. changes' \in [Tabs -> Seq(BOOLEAN)] /\ first' \in [Tabs -> BOOLEAN \cup {None}]
      BY <2>b, <2>4, <3>1 DEF Reload
    <3>3. QED
      BY <2>a, <2>b, <2>4, <3>2 DEF Reload
  <2>5. CASE ReadServed(tab)
    <3>1. Recorded(session) \in BOOLEAN
      BY DEF Recorded
    <3>2. QED
      BY <2>b, <2>5, <3>1 DEF ReadServed
  <2>6. QED
    BY <2>1, <2>2, <2>3, <2>4, <2>5 DEF Content
<1>2. UNCHANGED <<serial, commands, task, evictions, session, archive>>
  BY DEF Content, HandleInput, HandleEvent, FlushTyping, OnChanged, ReadServed,
         FirstRead, Reload, ContentStep, worker, store
<1>3. TypeOK'
  BY <1>1, <1>2 DEF IInv, TypeOK
<1>4. QED
  BY <1>2, <1>3 DEF IInv

(* An import installs a session that was exported, and the end of the      *)
(* worker leaves what is stored.                                           *)
LEMMA PanelStepOK == IInv /\ (EndWorker \/ \E f \in Files : ImportFile(f)) => IInv'
<1> SUFFICES ASSUME IInv, EndWorker \/ \E f \in Files : ImportFile(f) PROVE IInv'
  OBVIOUS
<1>1. ASSUME NEW f \in Files, ImportFile(f) PROVE IInv'
  <2> DEFINE s == [f EXCEPT !.tab = None]
  <2>1. SessionOK(s)
    BY DEF SessionOK, Session
  <2>2. SaveSession(s) /\ UNCHANGED <<serial, archive, task, evictions>>
        /\ UNCHANGED <<attached, typing, first, late, misled, sent>>
        /\ commands' \in 0 .. MaxCommands[serial]
    BY <1>1 DEF ImportFile, Command, worker, content, IInv, TypeOK
  <2>3. changes' \in [Tabs -> Seq(BOOLEAN)] /\ session' = s
    BY <2>2, SaveSessionOK DEF IInv, SaveSession
  <2>4. TypeOK'
    BY <2>1, <2>2, <2>3 DEF IInv, TypeOK, SessionOK
  <2>5. QED
    BY <2>1, <2>2, <2>3, <2>4 DEF IInv
<1>2. CASE EndWorker
  <2>1. task' \in [Slots -> Task] /\ \A t \in Slots : TaskOK(task'[t])
    BY <1>2, IdleOK DEF EndWorker
  <2>2. TypeOK'
    BY <1>2, <2>1 DEF EndWorker, IInv, TypeOK, store, content
  <2>3. QED
    BY <1>2, <2>1, <2>2 DEF EndWorker, IInv, store
<1>3. QED
  BY <1>1, <1>2

-----------------------------------------------------------------------------
(* IInv holds of every state the recorder reaches.                         *)
THEOREM RecordingInvariant == Spec => []IInv
<1>1. IInv /\ [Next]_vars => IInv'
  <2> SUFFICES ASSUME IInv, [Next]_vars PROVE IInv'
    OBVIOUS
  <2>1. CASE Next
    BY <2>1, ReceiveStep, HandleStep, ContentStepOK, PanelStepOK DEF Next
  <2>2. CASE UNCHANGED vars
    BY <2>2 DEF vars, content, IInv, TypeOK
  <2>3. QED
    BY <2>1, <2>2
<1>2. QED
  BY InitIInv, <1>1, PTL DEF Spec

(* Every variable keeps its type.                                          *)
THEOREM RecordingType == Spec => []TypeOK
<1>1. IInv => TypeOK
  BY DEF IInv
<1>2. QED
  BY RecordingInvariant, <1>1, PTL

(* No session is in the archive twice, and every archived one is stopped,  *)
(* whatever handlers overlap and wherever the worker ends.                 *)
THEOREM ArchiveHoldsOnce == Spec => []ArchiveOnce
<1>1. IInv => ArchiveOnce
  BY DEF IInv, ListOK, ArchiveOnce
<1>2. QED
  BY RecordingInvariant, <1>1, PTL

(* No recording has two navigations to one URL in a row, although          *)
(* startRecording, onCommitted and lost updates race to append them.       *)
THEOREM NavigatesOnce == Spec => []NavigatesDiffer
<1>1. IInv => NavigatesDiffer
  BY DEF IInv, ListOK, SessionOK, NavigatesDiffer
<1>2. QED
  BY RecordingInvariant, <1>1, PTL


-----------------------------------------------------------------------------
(* A session that keeps its events, its original and its end continues     *)
(* itself.                                                                 *)
LEMMA SameEventsContinue ==
  ASSUME NEW s, SessionOK(s), NEW n, n.events = s.events,
         s.original # None => n.original = s.original,
         s.status = "stopped" => n.status = "stopped"
  PROVE  Continues(s, n)
<1>1. s.events \in Seq(Event)
  BY DEF SessionOK, Session
<1>2. SubSeq(s.events, 1, Len(s.events)) = s.events /\ Len(s.events) \in Nat
  BY <1>1, SubSeqFull
<1>3. QED
  BY <1>2 DEF Continues

(* stop, pause and resume continue the session.                            *)
LEMMA UpdatedContinues ==
  ASSUME NEW s, SessionOK(s), NEW u \in Updates
  PROVE  Updated(s, u).id = s.id /\ Continues(s, Updated(s, u))
<1> DEFINE n == Updated(s, u)
<1>1. s \in Session
  BY DEF SessionOK
<1>2. /\ n.id = s.id /\ n.events = s.events
      /\ s.original # None => n.original = s.original
      /\ s.status = "stopped" => n.status = "stopped"
  BY <1>1 DEF Updated, Stopped, Paused, Resumed, Session
<1>3. QED
  BY <1>2, SameEventsContinue

(* So does the archived copy.                                              *)
LEMMA ArchivedContinues ==
  ASSUME NEW s, SessionOK(s)
  PROVE  /\ ArchivedCopy(s).id = s.id /\ ArchivedCopy(s).events = s.events
         /\ Continues(s, ArchivedCopy(s))
<1> DEFINE n == ArchivedCopy(s)
<1>1. /\ n.id = s.id /\ n.events = s.events /\ n.original = s.original /\ n.status = "stopped"
  BY DEF SessionOK, ArchivedCopy, Session
<1>2. QED
  BY <1>1, SameEventsContinue

(* So does a recording with an event more.                                 *)
LEMMA AppendedContinues ==
  ASSUME NEW s, SessionOK(s), Recorded(s), NEW e \in Event
  PROVE  /\ [s EXCEPT !.events = Append(@, e)].id = s.id
         /\ Continues(s, [s EXCEPT !.events = Append(@, e)])
<1> DEFINE n == [s EXCEPT !.events = Append(@, e)]
<1>1. s \in Session /\ s.events \in Seq(Event)
  BY DEF SessionOK, Session
<1>2. n.id = s.id /\ n.events = Append(s.events, e) /\ n.original = s.original
  BY <1>1 DEF Session
<1>3. Len(Append(s.events, e)) >= Len(s.events)
  BY <1>1
<1>4. SubSeq(Append(s.events, e), 1, Len(s.events)) = s.events
  BY <1>1
<1>5. s.status # "stopped"
  BY DEF Recorded
<1>6. QED
  BY <1>2, <1>3, <1>4, <1>5 DEF Continues

(* A handler that runs alone leaves the others with nothing in their       *)
(* hands: only its own turn is to be shown.                                *)
LEMMA TurnStepOK ==
  ASSUME IInv, SerialInv, serial, serial' = serial, NEW t \in Slots,
         task[t] # Idle \/ Quiet,
         \E r : Becomes(t, r), InTurn(task[t])'
  PROVE  SerialInv'
<1>1. \A o \in Slots : o # t => task[o] = Idle /\ task'[o] = Idle
  BY DEF SerialInv, Quiet, Becomes, IInv, TypeOK
<1>2. \A o \in Slots : o # t => InTurn(task[o])'
  BY <1>1 DEF InTurn, Idle
<1>3. QED
  BY <1>1, <1>2 DEF SerialInv
(* The messages a handler begins with, when no other is under way.         *)
LEMMA ReceiveInTurn ==
  ASSUME IInv, SerialInv, NEW t \in Slots, Receive(t), serial'
  PROVE  SerialInv'
<1>a. /\ task[t] = Idle /\ Quiet /\ serial /\ serial' = serial
      /\ \E r : Becomes(t, r)
  BY DEF Receive, UpdateSession, ClearSession, StartRecording, RestoreArchivedSession,
         DeleteArchivedSession, RecordedEvent, OnCommitted, Free, PanelUnchanged, Ends
<1>b. task \in [Slots -> Task]
  BY DEF IInv, TypeOK
<1> SUFFICES InTurn(task[t])'
  BY <1>a, TurnStepOK
<1>c. Idle.at = "idle" /\ Idle.target = None /\ \A e : Appending(e).at = "append"
  BY DEF Idle, Appending
<1>1. CASE UpdateSession(t)
  <2>1. PICK u \in Updates : Becomes(t, [Idle EXCEPT !.at = "save", !.cur = Updated(session, u)])
    BY <1>1 DEF UpdateSession
  <2>2. task'[t].at = "save" /\ task'[t].cur = Updated(session, u) /\ task'[t].target = None
    BY <1>b, <2>1 DEF Becomes, Idle
  <2>3. Updated(session, u).id = session.id /\ Continues(session, Updated(session, u))
    BY <1>1, UpdatedContinues DEF UpdateSession, IInv
  <2>4. session' = session
    BY <1>1 DEF UpdateSession
  <2>5. session'.id = task'[t].cur.id /\ Continues(session', task'[t].cur)
    BY <2>2, <2>3, <2>4
  <2>6. QED
    BY <2>2, <2>5 DEF InTurn
<1>2. CASE ClearSession(t)
  <2>1. /\ task'[t].at = "list" /\ task'[t].cur = session /\ task'[t].target = None
        /\ session' = session
    BY <1>2, <1>b DEF ClearSession, Becomes, Idle, store
  <2>2. QED
    BY <2>1 DEF InTurn
<1>3. ASSUME NEW i \in Ids, NEW tab \in Tabs, StartRecording(t, i, tab)
      PROVE  InTurn(task[t])'
  <2>1. task'[t].at \in {"idle", "append"}
    <3>1. CASE Ends(t)
      BY <3>1, <1>b, <1>c DEF Becomes, Ends
    <3>2. ASSUME NEW u \in Urls,
                 Becomes(t, Appending([kind |-> "navigate", tab |-> tab, url |-> u]))
          PROVE  task'[t].at = "append"
      BY <3>2, <1>b, <1>c DEF Becomes
    <3>3. QED
      BY <1>3, <3>1, <3>2 DEF StartRecording
  <2>2. QED
    BY <2>1 DEF InTurn
<1>4. ASSUME NEW i \in Ids, RestoreArchivedSession(t, i) PROVE InTurn(task[t])'
  <2>1. PICK s \in archive : s.id = i /\ Becomes(t, [Idle EXCEPT !.at = "read", !.target = s])
    BY <1>4 DEF RestoreArchivedSession
  <2>2. task'[t].at = "read" /\ task'[t].target = s
    BY <1>b, <2>1 DEF Becomes, Idle
  <2>3. session' = session /\ archive' = archive /\ (session # None => session.id # i)
    BY <1>4, <1>a DEF RestoreArchivedSession, store, Listed
  <2>4. QED
    BY <2>1, <2>2, <2>3 DEF InTurn
<1>5. ASSUME NEW i \in Ids, DeleteArchivedSession(t, i) PROVE InTurn(task[t])'
  <2>1. /\ task'[t].at = "drop" /\ task'[t].list = Without(archive, i) /\ task'[t].arg = i
        /\ archive' = archive
    BY <1>5, <1>b DEF DeleteArchivedSession, Becomes, Idle, store
  <2>2. QED
    BY <2>1 DEF InTurn, Without
<1>6. ASSUME NEW e \in sent, RecordedEvent(t, e) PROVE InTurn(task[t])'
  <2>1. task'[t].at = "append"
    BY <1>6, <1>b, <1>c DEF RecordedEvent, Becomes
  <2>2. QED
    BY <2>1 DEF InTurn
<1>7. ASSUME NEW tab \in Tabs, NEW u \in Urls, OnCommitted(t, tab, u) PROVE InTurn(task[t])'
  <2>1. task'[t].at = "append"
    BY <1>7, <1>b, <1>c DEF OnCommitted, Becomes
  <2>2. QED
    BY <2>1 DEF InTurn
<1>8. QED
  BY <1>1, <1>2, <1>3, <1>4, <1>5, <1>6, <1>7 DEF Receive

(* The steps of a handler that runs alone.                                 *)
LEMMA HandleInTurn ==
  ASSUME IInv, SerialInv, NEW t \in Slots, Handle(t), serial'
  PROVE  SerialInv'
<1>a. /\ task[t] # Idle /\ serial /\ serial' = serial
      /\ \E r : Becomes(t, r)
  <2>1. task[t].at # "idle" /\ serial' = serial
    BY DEF Handle, Save, AppendEvent, ReadActive, ReadArchive, StashActive, ClearActive,
           PullTarget, RemoveTarget, Drop, At, PanelUnchanged
  <2>2. \E r : Becomes(t, r)
    BY DEF Handle, Save, AppendEvent, ReadActive, ReadArchive, StashActive, ClearActive,
           PullTarget, RemoveTarget, Drop, Ends
  <2>3. Idle.at = "idle"
    BY DEF Idle
  <2>4. QED
    BY <2>1, <2>2, <2>3, Zenon
<1>b. task \in [Slots -> Task] /\ task[t] \in Task
  BY DEF IInv, TypeOK
<1> SUFFICES InTurn(task[t])'
  BY <1>a, TurnStepOK
<1>c. Idle.at = "idle" /\ Idle.target = None
  BY DEF Idle
<1>d. InTurn(task[t])
  BY <1>a DEF SerialInv
<1>1. CASE Save(t) \/ Drop(t)
  <2>1. task'[t].at = "idle"
    BY <1>1, <1>b, <1>c DEF Save, Drop, Ends, Becomes
  <2>2. QED
    BY <2>1 DEF InTurn
<1>2. CASE AppendEvent(t)
  <2> DEFINE e == task[t].arg
             n == [session EXCEPT !.events = Append(@, e)]
             r == [Idle EXCEPT !.at = "save", !.cur = n]
  <2>1. CASE Ends(t)
    <3>1. task'[t].at = "idle"
      BY <2>1, <1>b, <1>c DEF Ends, Becomes
    <3>2. QED
      BY <3>1 DEF InTurn
  <2>2. CASE Recorded(session) /\ Becomes(t, r)
    <3>1. e \in Event /\ SessionOK(session)
      BY <1>2, <2>2 DEF AppendEvent, At, TaskOK, IInv, Recorded
    <3>2. n.id = session.id /\ Continues(session, n)
      BY <2>2, <3>1, AppendedContinues
    <3>3. task'[t].at = "save" /\ task'[t].cur = n /\ task'[t].target = None
      BY <1>b, <2>2 DEF Becomes, Idle
    <3>4. session' = session
      BY <1>2 DEF AppendEvent, store
    <3>5. session'.id = task'[t].cur.id /\ Continues(session', task'[t].cur)
      BY <3>2, <3>3, <3>4
    <3>6. QED
      BY <3>3, <3>5 DEF InTurn
  <2>3. QED
    BY <1>2, <2>1, <2>2 DEF AppendEvent
<1>3. CASE ReadActive(t)
  <2>1. /\ task'[t].at = "list" /\ task'[t].cur = session /\ task'[t].target = task[t].target
        /\ task[t].at = "read" /\ session' = session /\ archive' = archive
    BY <1>3, <1>b DEF ReadActive, Becomes, Task, At, store
  <2>2. QED
    BY <1>d, <2>1 DEF InTurn
<1>4. CASE ReadArchive(t)
  <2>1. /\ task[t].at = "list" /\ task[t].cur = session
        /\ session' = session /\ archive' = archive
    BY <1>4, <1>d DEF ReadArchive, At, InTurn, store
  <2>2. CASE Worth(session)
    <3>1. Becomes(t, [task[t] EXCEPT !.at = "stash", !.cur = None,
                                     !.list = Archived(archive, session)])
      BY <1>4, <2>1, <2>2 DEF ReadArchive
    <3>2. /\ task'[t].at = "stash" /\ task'[t].list = Archived(archive, session)
          /\ task'[t].target = task[t].target
      BY <1>b, <3>1 DEF Becomes, Task
    <3>3. task'[t].list = Archived(archive, session)' /\ Worth(session)'
      BY <2>1, <2>2, <3>2
    <3>4. QED
      BY <1>d, <2>1, <3>2, <3>3 DEF InTurn
  <2>3. CASE ~Worth(session)
    <3>1. Becomes(t, [task[t] EXCEPT !.at = "clear", !.cur = None])
      BY <1>4, <2>1, <2>3 DEF ReadArchive
    <3>2. /\ task'[t].at = "clear" /\ task'[t].target = task[t].target
      BY <1>b, <3>1 DEF Becomes, Task
    <3>3. ~Worth(session)'
      BY <2>1, <2>3
    <3>4. QED
      BY <1>d, <2>1, <3>2, <3>3 DEF InTurn
  <2>4. QED
    BY <2>2, <2>3
<1>5. CASE StashActive(t)
  <2>1. /\ task[t].at = "stash" /\ task[t].list = Archived(archive, session) /\ Worth(session)
        /\ session' = session /\ archive' = Archived(archive, session)
        /\ task'[t].at = "clear" /\ task'[t].target = task[t].target
    BY <1>5, <1>b, <1>d DEF StashActive, At, InTurn, SaveArchive, Becomes, Task
  <2>2. ArchivedCopy(session') \in archive'
    BY <2>1 DEF Archived
  <2>3. task[t].target # None => task[t].target \in archive'
    BY <1>d, <2>1 DEF InTurn, Archived, Without, Worth
  <2>4. QED
    BY <2>1, <2>2, <2>3 DEF InTurn
<1>6. CASE ClearActive(t)
  <2>1. session' = None /\ archive' = archive /\ task[t].at = "clear"
    BY <1>6 DEF ClearActive, SaveSession, At
  <2>2. CASE task[t].target = None
    <3>1. task'[t].at = "idle"
      BY <1>6, <1>b, <1>c, <2>2 DEF ClearActive, Ends, Becomes
    <3>2. QED
      BY <3>1 DEF InTurn
  <2>3. CASE task[t].target # None
    <3>1. task'[t].at = "pull" /\ task'[t].target = task[t].target
      BY <1>6, <1>b, <2>3 DEF ClearActive, Becomes, Task
    <3>2. QED
      BY <1>d, <2>1, <3>1 DEF InTurn
  <2>4. QED
    BY <2>2, <2>3
<1>7. CASE PullTarget(t)
  <2>1. /\ task[t].at = "pull" /\ session' = session /\ archive' = archive
        /\ task'[t].at = "remove" /\ task'[t].target = task[t].target
        /\ task'[t].list = Without(archive, task[t].target.id)
    BY <1>7, <1>b DEF PullTarget, At, Becomes, Task, store
  <2>2. QED
    BY <1>d, <2>1 DEF InTurn, Without
<1>8. CASE RemoveTarget(t)
  <2>1. task[t].at = "remove" /\ session' = session /\ task'[t].at = "save"
    BY <1>8, <1>b, <1>c DEF RemoveTarget, At, Becomes, Idle
  <2>2. QED
    BY <1>d, <2>1 DEF InTurn
<1>9. QED
  BY <1>1, <1>2, <1>3, <1>4, <1>5, <1>6, <1>7, <1>8 DEF Handle

(* With no handler under way there is no turn to keep.                     *)
LEMMA SerialInvariant == Spec => []SerialInv
<1>1. Init => SerialInv
  <2>1. ASSUME Init, NEW t \in Slots PROVE InTurn(task[t])
    BY <2>1 DEF Init, InTurn, Idle
  <2>2. QED
    BY <2>1 DEF Init, SerialInv
<1>2. IInv /\ SerialInv /\ [Next]_vars => SerialInv'
  <2> SUFFICES ASSUME IInv, SerialInv, [Next]_vars, serial' PROVE SerialInv'
    BY DEF SerialInv
  <2>a. task \in [Slots -> Task]
    BY DEF IInv, TypeOK
  <2>b. ASSUME UNCHANGED <<serial, session, archive, task>> PROVE SerialInv'
    BY <2>b DEF SerialInv, InTurn, Archived, Without, Worth
  <2>c. ASSUME \A t \in Slots : task'[t] = Idle PROVE SerialInv'
    <3>1. ASSUME NEW t \in Slots PROVE InTurn(task[t])'
      BY <2>c DEF InTurn, Idle
    <3>2. QED
      BY <2>c, <3>1 DEF SerialInv
  <2>1. ASSUME NEW t \in Slots, Receive(t) \/ Handle(t) PROVE SerialInv'
    BY <2>1, ReceiveInTurn, HandleInTurn
  <2>2. ASSUME NEW f \in Files, ImportFile(f) PROVE SerialInv'
    BY <2>2, <2>c DEF ImportFile, worker, Quiet
  <2>3. CASE EndWorker
    BY <2>3, <2>c DEF EndWorker
  <2>4. ASSUME NEW tab \in Tabs, Content(tab) PROVE SerialInv'
    BY <2>4, <2>b DEF Content, HandleInput, HandleEvent, FlushTyping, OnChanged, ReadServed,
                      FirstRead, Reload, ContentStep, worker, store
  <2>5. CASE UNCHANGED vars
    BY <2>5, <2>b DEF vars
  <2>6. QED
    BY <2>1, <2>2, <2>3, <2>4, <2>5 DEF Next
<1>3. QED
  BY <1>1, <1>2, RecordingInvariant, PTL DEF Spec
-----------------------------------------------------------------------------
(* Where a session that is not lost is found.                              *)
LEMMA StoredIn ==
  ASSUME NEW i
  PROVE  /\ Worth(session) /\ session.id = i => i \in Stored
         /\ (\E s \in archive : Worth(s) /\ s.id = i) => i \in Stored
         /\ (\E t \in Slots : At(t, "save") /\ Worth(task[t].cur) /\ task[t].cur.id = i)
              => i \in Stored
         /\ i \in Stored => \/ Worth(session) /\ session.id = i
                            \/ \E s \in archive : Worth(s) /\ s.id = i
                            \/ \E t \in Slots : /\ At(t, "save") /\ Worth(task[t].cur)
                                                /\ task[t].cur.id = i
BY DEF Stored

(* A handler that runs alone takes a session out of a place only when it   *)
(* is in another one.                                                      *)
LEMMA HandleLosesNothing ==
  ASSUME IInv, SerialInv, serial, NEW t \in Slots, Handle(t), NEW i \in Stored
  PROVE  i \in Stored' \/ Discards(i)
<1>a. \A o \in Slots : At(o, "save") => o = t
  <2>1. task[t].at # "idle"
    BY DEF Handle, Save, AppendEvent, ReadActive, ReadArchive, StashActive, ClearActive,
           PullTarget, RemoveTarget, Drop, At
  <2>2. QED
    BY <2>1 DEF SerialInv, At, Idle
<1>b. InTurn(task[t]) /\ task[t] \in Task /\ task \in [Slots -> Task]
  BY DEF SerialInv, IInv, TypeOK
<1>c. /\ Worth(session') /\ session'.id = i => i \in Stored'
      /\ (\E s \in archive' : Worth(s) /\ s.id = i) => i \in Stored'
      /\ (\E o \in Slots : /\ task'[o].at = "save" /\ Worth(task'[o].cur)
                           /\ task'[o].cur.id = i) => i \in Stored'
  BY DEF Stored, At
<1>d. \/ Worth(session) /\ session.id = i
      \/ \E s \in archive : Worth(s) /\ s.id = i
      \/ At(t, "save") /\ Worth(task[t].cur) /\ task[t].cur.id = i
  BY <1>a, StoredIn
<1>1. CASE Save(t)
  <2>1. At(t, "save") /\ session' = task[t].cur /\ archive' = archive
    BY <1>1 DEF Save, SaveSession
  <2>2. Worth(session) => Worth(task[t].cur) /\ task[t].cur.id = session.id
    <3>1. SUFFICES ASSUME Worth(session)
                   PROVE  Worth(task[t].cur) /\ task[t].cur.id = session.id
      OBVIOUS
    <3>2. /\ task[t].cur # None /\ task[t].cur.id = session.id
          /\ Continues(session, task[t].cur)
      BY <1>b, <2>1, <3>1 DEF At, InTurn, Worth, IInv, TaskOK
    <3>3. session.events \in Seq(Event) /\ session.events # <<>>
          /\ task[t].cur.events \in Seq(Event)
      BY <3>1, <3>2 DEF Worth, IInv, TaskOK, SessionOK, Session
    <3>4. Len(session.events) # 0 /\ Len(session.events) \in Nat
      BY <3>3
    <3>5. Len(task[t].cur.events) >= Len(session.events)
      BY <3>2 DEF Continues
    <3>6. task[t].cur.events # <<>>
      BY <3>3, <3>4, <3>5
    <3>7. QED
      BY <3>2, <3>6 DEF Worth
  <2>3. QED
    BY <1>c, <1>d, <2>1, <2>2
<1>2. CASE AppendEvent(t) \/ ReadActive(t) \/ ReadArchive(t) \/ PullTarget(t)
  <2>1. ~At(t, "save") /\ session' = session /\ archive' = archive
    BY <1>2 DEF AppendEvent, ReadActive, ReadArchive, PullTarget, At, store
  <2>2. QED
    BY <1>c, <1>d, <2>1
<1>3. CASE StashActive(t)
  <2>1. /\ ~At(t, "save") /\ session' = session
        /\ archive' = Archived(archive, session) /\ Worth(session)
    BY <1>3, <1>b DEF StashActive, At, InTurn, SaveArchive
  <2>2. Worth(session) /\ session.id = i => i \in Stored'
    BY <1>c, <2>1
  <2>3. ASSUME NEW s \in archive, Worth(s), s.id = i PROVE i \in Stored'
    <3>1. CASE s.id = session.id
      BY <2>2, <2>3, <2>1, <3>1
    <3>2. CASE s.id # session.id
      BY <1>c, <2>1, <2>3, <3>2 DEF Archived, Without
    <3>3. QED
      BY <3>1, <3>2
  <2>4. QED
    BY <1>d, <2>1, <2>2, <2>3
<1>4. CASE ClearActive(t)
  <2>1. /\ At(t, "clear") /\ ~At(t, "save") /\ archive' = archive
        /\ Worth(session) => ArchivedCopy(session) \in archive
    BY <1>4, <1>b DEF ClearActive, At, InTurn
  <2>2. Worth(session) => Worth(ArchivedCopy(session)) /\ ArchivedCopy(session).id = session.id
    <3>1. Worth(session) => /\ ArchivedCopy(session).id = session.id
                            /\ ArchivedCopy(session).events = session.events
      BY ArchivedContinues DEF IInv, Worth
    <3>2. Worth(session) => ArchivedCopy(session) # None
      BY <2>1 DEF IInv, TypeOK
    <3>3. QED
      BY <3>1, <3>2 DEF Worth
  <2>3. QED
    BY <1>c, <1>d, <2>1, <2>2
<1>5. CASE RemoveTarget(t)
  <2>1. /\ ~At(t, "save") /\ session' = session /\ session = None
        /\ task[t].target # None /\ task[t].target \in archive
        /\ archive' = Without(archive, task[t].target.id)
    BY <1>5, <1>b DEF RemoveTarget, At, InTurn, SaveArchive, IInv, TaskOK
  <2>2. task'[t].at = "save" /\ task'[t].cur = task[t].target
    BY <1>5, <1>b DEF RemoveTarget, Becomes, Idle
  <2>3. ASSUME NEW s \in archive, Worth(s), s.id = i PROVE i \in Stored'
    <3>1. CASE s.id = task[t].target.id
      <4>1. s = task[t].target
        BY <2>1, <3>1 DEF IInv, ListOK, OnceStopped
      <4>2. QED
        BY <1>c, <2>2, <2>3, <4>1
    <3>2. CASE s.id # task[t].target.id
      BY <1>c, <2>1, <2>3, <3>2 DEF Without
    <3>3. QED
      BY <3>1, <3>2
  <2>4. QED
    BY <1>d, <2>1, <2>3 DEF Worth
<1>6. CASE Drop(t)
  <2>1. /\ At(t, "drop") /\ ~At(t, "save") /\ session' = session
        /\ archive' = Without(archive, task[t].arg)
    BY <1>6, <1>b DEF Drop, At, InTurn, SaveArchive
  <2>2. task[t].arg = i => Discards(i)
    BY <2>1 DEF Discards
  <2>3. QED
    BY <1>c, <1>d, <2>1, <2>2 DEF Without
<1>7. QED
  BY <1>1, <1>2, <1>3, <1>4, <1>5, <1>6 DEF Handle

(* When handlers do not overlap, clearing, restoring and deleting lose no  *)
(* session with events but the one the user deletes, for any number of     *)
(* sessions and events and wherever the worker is ended, except inside the *)
(* last write of a restore.                                                *)
THEOREM SessionsSurvive == Spec => NothingLost
<1>1. IInv /\ SerialInv /\ [Next]_vars
        => [serial => \A i \in Stored : i \in Stored' \/ Discards(i)]_vars
  <2> SUFFICES ASSUME IInv, SerialInv, Next, serial, NEW i \in Stored
               PROVE  i \in Stored' \/ Discards(i)
    OBVIOUS
  <2>a. ASSUME UNCHANGED <<session, archive>>,
               \A t \in Slots : At(t, "save") => task'[t] = task[t]
        PROVE  i \in Stored'
    BY <2>a DEF Stored, At
  <2>1. ASSUME NEW t \in Slots, Receive(t) PROVE i \in Stored' \/ Discards(i)
    <3>1. Free(t)
      BY <2>1 DEF Receive, UpdateSession, ClearSession, StartRecording, RestoreArchivedSession,
                  DeleteArchivedSession, RecordedEvent, OnCommitted
    <3>2. \A o \in Slots : ~At(o, "save")
      BY <3>1 DEF Free, Quiet, At, Idle
    <3>3. CASE \E j \in Ids, tab \in Tabs : StartRecording(t, j, tab)
      BY <3>3 DEF Discards
    <3>4. CASE ~\E j \in Ids, tab \in Tabs : StartRecording(t, j, tab)
      <4>1. UNCHANGED <<session, archive>>
        BY <2>1, <3>4 DEF Receive, UpdateSession, ClearSession, RestoreArchivedSession,
                          DeleteArchivedSession, RecordedEvent, OnCommitted, store
      <4>2. QED
        BY <2>a, <3>2, <4>1
    <3>5. QED
      BY <3>3, <3>4
  <2>2. ASSUME NEW t \in Slots, Handle(t) PROVE i \in Stored' \/ Discards(i)
    BY <2>2, HandleLosesNothing
  <2>3. CASE \E f \in Files : ImportFile(f)
    BY <2>3 DEF Discards
  <2>4. CASE EndWorker
    <3>1. UNCHANGED <<session, archive>>
      BY <2>4 DEF EndWorker, store
    <3>2. CASE \E t \in Slots : At(t, "save") /\ task[t].cur.id = i
      BY <2>4, <3>2 DEF Discards
    <3>3. CASE ~\E t \in Slots : At(t, "save") /\ task[t].cur.id = i
      BY <3>1, <3>3 DEF Stored
    <3>4. QED
      BY <3>2, <3>3
  <2>5. ASSUME NEW tab \in Tabs, Content(tab) PROVE i \in Stored'
    BY <2>5, <2>a DEF Content, HandleInput, HandleEvent, FlushTyping, OnChanged, ReadServed,
                      FirstRead, Reload, ContentStep, worker, store
  <2>6. QED
    BY <2>1, <2>2, <2>3, <2>4, <2>5 DEF Next
<1>2. QED
  BY <1>1, RecordingInvariant, SerialInvariant, PTL DEF Spec, NothingLost

-----------------------------------------------------------------------------
(* What becomes of the active session when handlers do not overlap         *)
(* continues it: its events, its original and its end are kept, for any    *)
(* number of events.                                                       *)
THEOREM SessionsContinue == Spec => HistoryKept
<1> DEFINE Kept == \A n \in ({session'} \cup (archive' \ archive)) \ {None} :
                     n.id = session.id => Continues(session, n)
<1>1. IInv /\ SerialInv /\ [Next]_vars
        => [(serial /\ session # None /\ ~\E f \in Files : ImportFile(f)) => Kept]_vars
  <2> SUFFICES ASSUME IInv, SerialInv, Next, serial, session # None,
                      ~\E f \in Files : ImportFile(f)
               PROVE  Kept
    OBVIOUS
  <2>a. SessionOK(session)
    BY DEF IInv
  <2>b. Continues(session, session)
    BY <2>a, SameEventsContinue
  <2>c. ASSUME session' = session \/ session' = None, archive' \subseteq archive PROVE Kept
    BY <2>b, <2>c
  <2>1. ASSUME NEW t \in Slots, Receive(t) PROVE Kept
    <3>1. CASE \E j \in Ids, tab \in Tabs : StartRecording(t, j, tab)
      <4>1. PICK j \in Ids, tab \in Tabs : StartRecording(t, j, tab)
        BY <3>1
      <4>2. session' = NewSession(j, tab) /\ archive' = archive /\ session.id # j
        BY <4>1 DEF StartRecording, SaveSession, Known
      <4>3. session'.id = j
        BY <4>2 DEF NewSession
      <4>4. QED
        BY <4>2, <4>3
    <3>2. CASE ~\E j \in Ids, tab \in Tabs : StartRecording(t, j, tab)
      <4>1. UNCHANGED <<session, archive>>
        BY <2>1, <3>2 DEF Receive, UpdateSession, ClearSession, RestoreArchivedSession,
                          DeleteArchivedSession, RecordedEvent, OnCommitted, store
      <4>2. QED
        BY <2>c, <4>1
    <3>3. QED
      BY <3>1, <3>2
  <2>2. ASSUME NEW t \in Slots, Handle(t) PROVE Kept
    <3>a. InTurn(task[t])
      BY DEF SerialInv
    <3>1. CASE Save(t)
      <4>1. session' = task[t].cur /\ archive' = archive /\ Continues(session, task[t].cur)
        BY <3>1, <3>a DEF Save, At, SaveSession, InTurn
      <4>2. QED
        BY <4>1
    <3>2. CASE AppendEvent(t) \/ ReadActive(t) \/ ReadArchive(t) \/ PullTarget(t)
      BY <2>c, <3>2 DEF AppendEvent, ReadActive, ReadArchive, PullTarget, store
    <3>3. CASE StashActive(t)
      <4>1. session' = session /\ archive' = Archived(archive, session)
        BY <3>3, <3>a DEF StashActive, At, SaveArchive, InTurn
      <4>2. Continues(session, ArchivedCopy(session))
        BY <2>a, ArchivedContinues
      <4>3. QED
        BY <2>b, <4>1, <4>2 DEF Archived, Without
    <3>4. CASE ClearActive(t)
      BY <2>c, <3>4 DEF ClearActive, SaveSession
    <3>5. CASE RemoveTarget(t) \/ Drop(t)
      <4>1. /\ session' = session
            /\ archive' = Without(archive, task[t].target.id)
                 \/ archive' = Without(archive, task[t].arg)
        BY <3>5, <3>a DEF RemoveTarget, Drop, At, SaveArchive, InTurn
      <4>2. QED
        BY <2>c, <4>1 DEF Without
    <3>6. QED
      BY <2>2, <3>1, <3>2, <3>3, <3>4, <3>5 DEF Handle
  <2>3. CASE EndWorker
    BY <2>c, <2>3 DEF EndWorker, store
  <2>4. ASSUME NEW tab \in Tabs, Content(tab) PROVE Kept
    BY <2>4, <2>c DEF Content, HandleInput, HandleEvent, FlushTyping, OnChanged, ReadServed,
                      FirstRead, Reload, ContentStep, store
  <2>5. QED
    BY <2>1, <2>2, <2>3, <2>4 DEF Next
<1>2. QED
  BY <1>1, RecordingInvariant, SerialInvariant, PTL DEF Spec, HistoryKept

-----------------------------------------------------------------------------
(* The invariant behind RecorderFollows: the last change a script is yet   *)
(* to hear of is how the session stands; with none left, so is what its    *)
(* first read found, when no change came before its answer; and so is the  *)
(* script itself, otherwise.                                               *)
Following(queue, f, l, m, a) ==
  /\ l => ~m
  /\ queue # <<>> => queue[Len(queue)] = Recorded(session)
  /\ queue = <<>> /\ f # None /\ ~l => f = Recorded(session)
  /\ queue = <<>> /\ (l \/ f = None) /\ ~m => a = Recorded(session)

FollowInv ==
  \A tab \in Tabs :
    Following(changes[tab], first[tab], late[tab], misled[tab], attached[tab])

(* A write of the session is the last change of every queue.               *)
LEMMA WriteFollowed ==
  ASSUME IInv, FollowInv, NEW s, SaveSession(s),
         UNCHANGED <<attached, first, late, misled>>
  PROVE  FollowInv'
<1> SUFFICES ASSUME NEW tab \in Tabs
             PROVE  Following(changes[tab], first[tab], late[tab], misled[tab], attached[tab])'
  BY DEF FollowInv
<1> DEFINE q == changes[tab]
           v == Recorded(s)
<1>1. session' = s /\ changes'[tab] = Told(q, v)
  BY DEF SaveSession
<1>2. q \in Seq(BOOLEAN) /\ v \in BOOLEAN
  BY DEF IInv, TypeOK, Recorded
<1>3. Told(q, v) # <<>> /\ Told(q, v)[Len(Told(q, v))] = v
  <2> HIDE DEF q, v
  <2>1. CASE q # <<>> /\ q[Len(q)] = v
    BY <2>1 DEF Told
  <2>2. CASE ~(q # <<>> /\ q[Len(q)] = v)
    <3>1. Told(q, v) = Append(q, v)
      BY <2>2, Zenon DEF Told
    <3>2. Len(Append(q, v)) = Len(q) + 1 /\ Append(q, v)[Len(q) + 1] = v
      BY <1>2
    <3>3. Len(q) + 1 # 0
      BY <1>2
    <3>4. QED
      BY <3>1, <3>2, <3>3
  <2>3. QED
    BY <2>1, <2>2
<1>4. Recorded(session)' = v
  BY <1>1
<1>5. late[tab] => ~misled[tab]
  BY DEF FollowInv, Following
<1>6. QED
  <2> HIDE DEF q, v
  <2>1. changes'[tab] # <<>> /\ changes'[tab][Len(changes'[tab])] = Recorded(session)'
    BY <1>1, <1>3, <1>4
  <2>2. QED
    BY <1>5, <2>1 DEF Following

(* A step of a script's own page, and of no other.                         *)
LEMMA ContentFollows ==
  ASSUME IInv, FollowInv, NEW tab \in Tabs, Content(tab)
  PROVE  FollowInv'
<1>a. /\ changes \in [Tabs -> Seq(BOOLEAN)] /\ attached \in [Tabs -> BOOLEAN]
      /\ first \in [Tabs -> BOOLEAN \cup {None}]
      /\ late \in [Tabs -> BOOLEAN] /\ misled \in [Tabs -> BOOLEAN]
  BY DEF IInv, TypeOK
<1>b. session' = session
  BY DEF Content, HandleInput, HandleEvent, FlushTyping, OnChanged, ReadServed,
         FirstRead, Reload, ContentStep, store
<1>c. \A o \in Tabs : Following(changes[o], first[o], late[o], misled[o], attached[o])
  BY DEF FollowInv
<1>d. Recorded(session)' = Recorded(session) /\ Recorded(session) \in BOOLEAN
  BY <1>b DEF Recorded
<1>e. ASSUME NEW o \in Tabs, UNCHANGED <<changes[o], first[o], late[o], misled[o], attached[o]>>
      PROVE  Following(changes[o], first[o], late[o], misled[o], attached[o])'
  BY <1>c, <1>d, <1>e DEF Following
<1>f. ASSUME NEW o \in Tabs, o # tab
      PROVE  UNCHANGED <<changes[o], first[o], late[o], misled[o], attached[o]>>
  BY <1>a, <1>f DEF Content, HandleInput, HandleEvent, FlushTyping, OnChanged, ReadServed,
                    FirstRead, Reload, SyncFromSession, Reading
<1>1. CASE HandleInput(tab) \/ HandleEvent(tab) \/ FlushTyping(tab)
  BY <1>1, <1>e DEF HandleInput, HandleEvent, FlushTyping, Reading, FollowInv
<1>2. CASE OnChanged(tab)
  <2> DEFINE q == changes[tab]
  <2>1. q \in Seq(BOOLEAN) /\ q # <<>>
    BY <1>2, <1>a DEF OnChanged
  <2>2. /\ changes'[tab] = Tail(q) /\ first'[tab] = first[tab]
        /\ late'[tab] = (first[tab] # None) /\ misled'[tab] = FALSE
        /\ attached'[tab] = Head(q)
    BY <1>2, <1>a DEF OnChanged, SyncFromSession
  <2>3. q[Len(q)] = Recorded(session)
    BY <1>c, <2>1 DEF Following
  <2>4. Tail(q) \in Seq(BOOLEAN) /\ Len(Tail(q)) = Len(q) - 1 /\ Len(q) \in Nat \ {0}
    <3> HIDE DEF q
    <3>1. Tail(q) \in Seq(BOOLEAN) /\ Len(Tail(q)) = Len(q) - 1
      BY <2>1, HeadTailProperties, Zenon
    <3>2. Len(q) \in Nat \ {0}
      BY <2>1
    <3>3. QED
      BY <3>1, <3>2
  <2>5. Following(changes[tab], first[tab], late[tab], misled[tab], attached[tab])'
    <3> HIDE DEF q
    <3>1. CASE Tail(q) = <<>>
      <4>1. Len(q) = 1
        <5>1. Len(Tail(q)) = 0
          BY <2>4, <3>1, EmptySeq, Zenon
        <5>2. ASSUME NEW m \in Nat \ {0}, 0 = m - 1 PROVE m = 1
          BY <5>2
        <5>3. QED
          BY <2>4, <5>1, <5>2, Zenon
      <4>2. Head(q) = Recorded(session)
        BY <2>1, <2>3, <4>1
      <4>3. QED
        BY <1>d, <2>2, <3>1, <4>2 DEF Following
    <3>2. CASE Tail(q) # <<>>
      <4>1. Len(Tail(q)) # 0
        BY <2>4, <3>2
      <4>2. Tail(q)[Len(Tail(q))] = q[Len(q)]
        BY <2>1, <2>4, <4>1
      <4>3. QED
        BY <1>d, <2>2, <2>3, <3>2, <4>2 DEF Following
    <3>3. QED
      BY <3>1, <3>2
  <2>6. QED
    BY <1>e, <1>f, <2>5 DEF FollowInv
<1>3. CASE FirstRead(tab)
  <2>1. /\ changes'[tab] = changes[tab] /\ first'[tab] = None /\ late'[tab] = FALSE
        /\ misled'[tab] = (late[tab] /\ first[tab] # attached[tab])
        /\ attached'[tab] = first[tab] /\ first[tab] # None
    BY <1>3, <1>a DEF FirstRead, SyncFromSession
  <2>2. Following(changes[tab], first[tab], late[tab], misled[tab], attached[tab])
    BY <1>c
  <2>3. late[tab] \in BOOLEAN
    BY <1>a
  <2>4. Following(changes[tab], first[tab], late[tab], misled[tab], attached[tab])'
    <3>1. CASE late[tab]
      BY <1>d, <2>1, <2>2, <3>1 DEF Following
    <3>2. CASE ~late[tab]
      BY <1>d, <2>1, <2>2, <3>2 DEF Following
    <3>3. QED
      BY <2>3, <3>1, <3>2
  <2>5. QED
    BY <1>e, <1>f, <2>4 DEF FollowInv
<1>4. CASE Reload(tab)
  <2>1. /\ changes'[tab] = <<>> /\ first'[tab] = Recorded(session)
        /\ late'[tab] = FALSE /\ misled'[tab] = FALSE
    BY <1>4, <1>a DEF Reload
  <2>2. first'[tab] # None
    <3>1. Recorded(session) # None
      BY <1>d
    <3>2. QED
      BY <2>1, <3>1
  <2>3. Following(changes[tab], first[tab], late[tab], misled[tab], attached[tab])'
    BY <1>d, <2>1, <2>2 DEF Following
  <2>4. QED
    BY <1>e, <1>f, <2>3 DEF FollowInv
<1>5. CASE ReadServed(tab)
  <2>1. /\ first'[tab] = Recorded(session)
        /\ UNCHANGED <<changes[tab], late[tab], misled[tab], attached[tab]>>
        /\ first[tab] # None
    BY <1>5, <1>a DEF ReadServed
  <2>2. first'[tab] # None
    BY <1>d, <2>1
  <2>3. Following(changes[tab], first[tab], late[tab], misled[tab], attached[tab])'
    BY <1>c, <1>d, <2>1, <2>2 DEF Following
  <2>4. QED
    BY <1>e, <1>f, <2>3 DEF FollowInv
<1>6. QED
  BY <1>1, <1>2, <1>3, <1>4, <1>5 DEF Content

(* A content script that has been told of everything records exactly while *)
(* the session does, for any number of tabs and of changes under way, and  *)
(* any handlers that overlap: but when its first read is answered after a  *)
(* change, and until the next one.                                         *)
THEOREM ScriptsFollow == Spec => []RecorderFollows
<1>1. Init => FollowInv
  BY DEF Init, FollowInv, Following, Recorded
<1>2. IInv /\ FollowInv /\ [Next]_vars => FollowInv'
  <2> SUFFICES ASSUME IInv, FollowInv, [Next]_vars PROVE FollowInv'
    OBVIOUS
  <2>a. ASSUME UNCHANGED <<session, changes, attached, first, late, misled>> PROVE FollowInv'
    BY <2>a DEF FollowInv, Following, Recorded
  <2>1. ASSUME NEW t \in Slots, Receive(t) PROVE FollowInv'
    <3>1. CASE \E i \in Ids, tab \in Tabs : StartRecording(t, i, tab)
      <4>1. PICK i \in Ids, tab \in Tabs : StartRecording(t, i, tab)
        BY <3>1
      <4>2. QED
        BY <4>1, WriteFollowed DEF StartRecording, content
    <3>2. CASE ~\E i \in Ids, tab \in Tabs : StartRecording(t, i, tab)
      BY <2>1, <2>a, <3>2 DEF Receive, UpdateSession, ClearSession, RestoreArchivedSession,
                              DeleteArchivedSession, RecordedEvent, OnCommitted, store, content
    <3>3. QED
      BY <3>1, <3>2
  <2>2. ASSUME NEW t \in Slots, Handle(t) PROVE FollowInv'
    <3>1. CASE Save(t) \/ ClearActive(t)
      BY <3>1, WriteFollowed DEF Save, ClearActive, content
    <3>2. CASE ~(Save(t) \/ ClearActive(t))
      BY <2>2, <2>a, <3>2 DEF Handle, AppendEvent, ReadActive, ReadArchive, StashActive, PullTarget,
                              RemoveTarget, Drop, store, content
    <3>3. QED
      BY <3>1, <3>2
  <2>3. ASSUME NEW f \in Files, ImportFile(f) PROVE FollowInv'
    BY <2>3, WriteFollowed DEF ImportFile, content
  <2>4. CASE EndWorker
    BY <2>4, <2>a DEF EndWorker, store, content
  <2>5. ASSUME NEW tab \in Tabs, Content(tab) PROVE FollowInv'
    BY <2>5, ContentFollows
  <2>6. CASE UNCHANGED vars
    BY <2>6, <2>a DEF vars, content
  <2>7. QED
    BY <2>1, <2>2, <2>3, <2>4, <2>5, <2>6 DEF Next
<1>3. FollowInv => RecorderFollows
  BY DEF FollowInv, Following, RecorderFollows
<1>4. QED
  BY <1>1, <1>2, <1>3, RecordingInvariant, PTL DEF Spec
===============================================================================
