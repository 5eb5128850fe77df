------------------------------ MODULE SidePanel ------------------------------
(* The side panel of the recorder: extension/src/sidepanel (App, the reducer   *)
(* of the automation with its versions and its chat, the AI assistant, the     *)
(* export and import of a session) over the converter of recorded events.      *)
(* The background page that records is in Recording; here it takes one step    *)
(* and its broadcast arrives with it, except that the answer to the start of   *)
(* a recording is older than the first event, as in the code.                  *)
(* React runs the effects of a render before the next event: an action is a    *)
(* handler with the effects of the renders it causes (Render).                 *)
EXTENDS Integers, SequencesExt

CONSTANTS Kinds,        \* kinds of recorded events
          Workloads,    \* what a behaviour may have: see Workload
          Answers,      \* steps a model may propose
          Words,        \* what a person or a model may write into a step
          Nothing,
          VERSION_CAP,
          MaxSessions,  \* bound on recordings started
          MaxEvents,    \* bound on events of a recording
          MaxSteps,     \* bound on steps
          MaxEdits,     \* bound on edits by hand and on calls of a model
          MaxAsks       \* calls of a model in flight at most

VARIABLES workload,   \* chosen once
          stored,     \* the session in chrome.storage.local
          archive,    \* the archived sessions
          session,    \* the panel's copy of the session
          editing,
          automation, \* the working copy
          versions, currentVersionId,
          chat,       \* the proposals in chatHistory
          armed,      \* commitTimer is running
          asks,       \* calls of a model that have not been answered
          waits,      \* what the panel has asked of the background page
          zip,        \* the last exported file
          edits

panel == <<session, editing, automation, versions, currentVersionId, armed>>
panelVars == <<workload, stored, archive, panel, chat, asks, waits, zip, edits>>

Workload == [ops : SUBSET {"archive", "reopen", "revert", "zip", "chat", "assist", "ask"},
             kinds : SUBSET Kinds, sessions : 1..MaxSessions, edits : 0..MaxEdits]

ASSUME SidePanelAssumption ==
  /\ Workloads \subseteq Workload
  /\ VERSION_CAP \in Nat \ {0, 1}
  /\ {MaxSessions, MaxEvents, MaxSteps, MaxEdits, MaxAsks} \subseteq Nat
  /\ Answers \subseteq UNION {[1..n -> Words] : n \in 0..MaxSteps}

Texts == Kinds \cup Words \cup {"wait", "tool", "password", "otp"}
Steps == UNION {[1..n -> Texts] : n \in 0..MaxSteps}
Events == UNION {[1..n -> Kinds] : n \in 0..MaxEvents}
(* about: the metadata and the inputs, which no step edits.                     *)
Automation == [about : 0..1, steps : Steps]
Authors == {"raw-recording", "user-edit", "ai-chat", "ai-improve-legacy"}
(* An identifier is new if neither the history nor the exported file has it.    *)
Ids == 1..VERSION_CAP + 2
Version == [id : Ids, author : Authors, automation : Automation]
Session == [id : 1..MaxSessions, status : {"recording", "stopped"}, events : Events,
            original : Automation \cup {Nothing}]
Proposal == [automation : Automation, status : {"pending", "approved", "rejected"}]
(* held: the component that asked is still on show.                             *)
Ask == [op : {"chat", "steps", "metadata", "step"}, index : 0..MaxSteps, held : BOOLEAN]
File == [session : Session, automation : Automation, head : Ids \cup {0}]

PanelInit ==
  /\ workload \in Workloads
  /\ stored = Nothing /\ archive = {} /\ session = Nothing
  /\ editing = FALSE /\ automation = Nothing
  /\ versions = <<>> /\ currentVersionId = 0
  /\ chat = <<>> /\ armed = FALSE /\ asks = {} /\ waits = "none" /\ zip = Nothing
  /\ edits = 0

(* The steps an event becomes: a wait follows a click that submits, the         *)
(* retrieval of a code comes before it is entered.                              *)
Converts(kind) ==
  CASE kind = "submitClick" -> <<kind, "wait">>
    [] kind = "otp" -> <<"tool", kind>>
    [] OTHER -> <<kind>>
eventsToAutomation(s) ==
  [about |-> 0, steps |-> FoldLeft(LAMBDA steps, kind : steps \o Converts(kind), <<>>, s.events)]

-------------------------------------------------------------------------------
(* The reducer.  A state of it is a record: the working copy, the versions and  *)
(* the head; new: the working copy is a new object.                             *)
State == [a |-> automation, vs |-> versions, head |-> currentVersionId, new |-> FALSE]
With(a) == [State EXCEPT !.a = a, !.new = TRUE]
SetSteps(steps) == With([automation EXCEPT !.steps = steps])

(* The list as it is kept: the oldest but the pinned one goes at the cap.       *)
Pruned(vs) == IF Len(vs) <= VERSION_CAP THEN vs
              ELSE <<vs[1]>> \o SubSeq(vs, Len(vs) - VERSION_CAP + 2, Len(vs))
newVersionId(st) ==
  CHOOSE id \in Ids : id # st.head /\ (zip = Nothing \/ id # zip.head)
                       /\ \A k \in DOMAIN st.vs : st.vs[k].id # id
Entry(st, author) == [id |-> newVersionId(st), author |-> author, automation |-> st.a]
(* Mutation: what was undone goes when something else is committed. *)
commitVersion_truncates(st, author) ==
  IF st.a = Nothing THEN st
  ELSE [st EXCEPT !.vs = Append(SelectSeq(@, LAMBDA v : v.id <= st.head), Entry(st, author)),
                  !.head = newVersionId(st)]
commitVersion(st, author) ==
  IF st.a = Nothing THEN st
  ELSE [st EXCEPT !.vs = Pruned(Append(@, Entry(st, author))), !.head = newVersionId(st)]
Checkout(k) == [State EXCEPT !.a = versions[k].automation, !.head = versions[k].id, !.new = TRUE]
Head0 == {k \in DOMAIN versions : versions[k].id = currentVersionId}

(* The effects of a render: the automation is derived from the session unless   *)
(* it is being edited, the history is seeded, the timer of the automatic commit *)
(* starts anew.  set: setSession was called.                                    *)
Derived(s, e, st, set) ==
  IF (set \/ e # editing) /\ ~e /\ s # Nothing
    THEN [st EXCEPT !.a = IF s.events = <<>> THEN Nothing ELSE eventsToAutomation(s), !.new = TRUE]
    ELSE st
Seeded(e, st) == IF st.a # Nothing /\ st.vs = <<>> /\ ~e THEN commitVersion(st, "raw-recording") ELSE st
(* Mutation: only a change of the history starts the timer anew. *)
Timer_onCommit(e, st) ==
  IF Len(st.vs) # Len(versions) THEN e /\ st.a # Nothing /\ st.vs # <<>> ELSE armed
(* Mutation: only the beginning of the editing does. *)
Timer_onFlip(e, st) == IF e # editing THEN e /\ st.a # Nothing /\ st.vs # <<>> ELSE armed
Timer(e, st) ==
  IF st.new \/ e # editing \/ Len(st.vs) # Len(versions)
    THEN e /\ st.a # Nothing /\ st.vs # <<>> ELSE armed
Render(s, e, st, set, as) ==
  LET last == Seeded(e, Derived(s, e, st, set)) IN
  /\ session' = s /\ editing' = e
  /\ automation' = last.a /\ versions' = last.vs /\ currentVersionId' = last.head
  /\ armed' = Timer(e, last)
  /\ asks' = IF last.a = Nothing THEN {[k EXCEPT !.held = FALSE] : k \in as} ELSE as
Reduce(st) == Render(session, editing, st, FALSE, asks)

-------------------------------------------------------------------------------
(* Recording, seen from the panel.                                              *)
background == <<stored, archive>>
Archived == IF stored # Nothing /\ stored.events # <<>> THEN archive \cup {stored} ELSE archive
NewId == 1 + Cardinality({s.id : s \in archive} \cup (IF stored = Nothing THEN {} ELSE {stored.id}))

(* The panel is closed, with all it has not stored, and opened again.           *)
Reopen ==
  /\ Render(stored, FALSE, [a |-> Nothing, vs |-> <<>>, head |-> 0, new |-> TRUE], TRUE, {})
  /\ chat' = <<>> /\ waits' = "none"
  /\ UNCHANGED <<background, zip, edits>>
Recording(s) == s # Nothing /\ s.status = "recording"
Start ==
  /\ waits = "none" /\ ~Recording(session)
  /\ waits' = "start"
  /\ Render(session, FALSE, State, FALSE, asks)
  /\ UNCHANGED <<background, chat, zip, edits>>
(* The new session is broadcast, then again with the page it starts at.         *)
Started(first) ==
  /\ waits = "start" /\ NewId <= workload.sessions /\ "navigate" \in Kinds
  /\ waits' = "answer"
  /\ stored' = [id |-> NewId, status |-> "recording", original |-> Nothing,
                events |-> IF first THEN <<"navigate">> ELSE <<>>]
  /\ Render(stored', editing, State, TRUE, asks)
  /\ UNCHANGED <<archive, chat, zip, edits>>
(* The answer has the session as it was made, before the first event.           *)
StartAnswered ==
  /\ waits = "answer"
  /\ waits' = "none"
  /\ stored # Nothing
  /\ Render([stored EXCEPT !.status = "recording", !.events = <<>>, !.original = Nothing],
            editing, State, TRUE, asks)
  /\ UNCHANGED <<background, chat, zip, edits>>
Recorded(kind) ==
  /\ Recording(stored) /\ Len(stored.events) < MaxEvents
  /\ stored' = [stored EXCEPT !.events = Append(@, kind)]
  /\ Render(stored', editing, State, TRUE, asks)
  /\ UNCHANGED <<archive, chat, waits, zip, edits>>
Stop ==
  /\ Recording(session) /\ stored # Nothing /\ waits # "answer"
  /\ stored' = [stored EXCEPT !.status = "stopped",
                !.original = IF @ = Nothing /\ stored.events # <<>> THEN eventsToAutomation(stored) ELSE @]
  /\ Render(stored', editing, State, TRUE, asks)
  /\ UNCHANGED <<archive, chat, waits, zip, edits>>
Clear ==
  /\ session # Nothing /\ waits # "answer"
  /\ stored' = Nothing /\ archive' = Archived
  /\ Render(Nothing, FALSE, With(Nothing), TRUE, asks)
  /\ UNCHANGED <<chat, waits, zip, edits>>
OpenArchived(s) ==
  /\ s \in archive /\ waits # "answer"
  /\ stored' = s /\ archive' = Archived \ {s}
  /\ Render(s, FALSE, With(Nothing), TRUE, asks)
  /\ UNCHANGED <<chat, waits, zip, edits>>
DeleteArchived(s) ==
  /\ s \in archive
  /\ archive' = archive \ {s}
  /\ UNCHANGED <<stored, panel, chat, asks, waits, zip, edits>>

-------------------------------------------------------------------------------
(* What a person does with the working copy.                                    *)
rest == <<background, chat, waits, zip>>
Edit(st) ==
  /\ edits < workload.edits
  /\ edits' = edits + 1
  /\ Render(session, TRUE, st, FALSE, asks)
  /\ UNCHANGED rest
UpdateMetadata == automation # Nothing /\ Edit(With([automation EXCEPT !.about = 1]))
Put(i, text) == [automation.steps EXCEPT ![i] = text]
UpdateStep(i, w) == Edit(SetSteps(Put(i, w)))
MoveStep(i, to) ==
  /\ to \in DOMAIN automation.steps
  /\ Edit(SetSteps(InsertAt(RemoveAt(automation.steps, i), to, automation.steps[i])))
RemoveStep(i) == Edit(SetSteps(RemoveAt(automation.steps, i)))
ConvertToVault(i) ==
  /\ automation.steps[i] = "type"
  /\ Edit(With([automation EXCEPT !.about = 1, !.steps = Put(i, "password")]))
InsertOtpBefore(i) ==
  /\ automation.steps[i] = "type" /\ Len(automation.steps) < MaxSteps
  /\ Edit(SetSteps(InsertAt(Put(i, "otp"), i, "tool")))
EditSteps ==
  /\ automation # Nothing
  /\ \E i \in DOMAIN automation.steps :
       \/ \E w \in Words : UpdateStep(i, w)
       \/ \E to \in {i - 1, i + 1} : MoveStep(i, to)
       \/ RemoveStep(i) \/ ConvertToVault(i) \/ InsertOtpBefore(i)

(* "Reset to recording" and "Revert to original"; either way the effect derives *)
(* the automation afterwards.                                                   *)
Rederive ==
  /\ editing /\ ~Recording(session)
  /\ Render(session, FALSE, IF session = Nothing THEN State ELSE With(eventsToAutomation(session)),
            FALSE, asks)
  /\ UNCHANGED <<rest, edits>>
RevertToOriginal ==
  /\ editing /\ session # Nothing /\ session.status = "stopped" /\ session.original # Nothing
  /\ Render(session, FALSE, With(session.original), FALSE, asks)
  /\ UNCHANGED <<rest, edits>>
Undo == /\ \E k \in Head0 \ {1} : Reduce(Checkout(k - 1))
        /\ UNCHANGED <<rest, edits>>
Redo == /\ \E k \in Head0 \ {Len(versions)} : Reduce(Checkout(k + 1))
        /\ UNCHANGED <<rest, edits>>
CheckoutVersion == /\ \E k \in DOMAIN versions : Reduce(Checkout(k))
                   /\ UNCHANGED <<rest, edits>>
(* The timer of the automatic commit fires; a longer history starts it anew.    *)
AutoCommit ==
  /\ armed
  /\ LET st == commitVersion(State, "user-edit") IN
     /\ versions' = st.vs /\ currentVersionId' = st.head
     /\ armed' = (editing /\ Len(st.vs) # Len(versions))
  /\ UNCHANGED <<session, editing, automation, asks, rest, edits>>

-------------------------------------------------------------------------------
(* The calls of a model.                                                        *)
Ask1(k) ==
  /\ automation # Nothing /\ Cardinality(asks) < MaxAsks /\ edits < workload.edits /\ k \notin asks
  /\ asks' = asks \cup {k} /\ edits' = edits + 1
  /\ UNCHANGED <<panel, rest>>
Q(op, i) == [op |-> op, index |-> i, held |-> TRUE]
SendChat == (\A k \in asks : k.op # "chat") /\ Ask1(Q("chat", 0))
Assist ==
  /\ automation # Nothing /\ automation.steps # <<>>
  /\ \A k \in asks : k.held => k.op \notin {"steps", "metadata"}
  /\ \E op \in {"steps", "metadata"} : Ask1(Q(op, 0))
AskStep ==
  /\ automation # Nothing
  /\ \E i \in DOMAIN automation.steps :
       automation.steps[i] \notin {"navigate", "wait", "tool"} /\ Ask1(Q("step", i))
Answered(k) == k \in asks /\ edits' = edits
Failed(k) == Answered(k) /\ asks' = asks \ {k} /\ UNCHANGED <<panel, rest>>
ChatReply(k, steps) ==
  /\ Answered(k) /\ k.op = "chat"
  /\ asks' = asks \ {k}
  /\ chat' = Append(chat, [automation |-> [about |-> 0, steps |-> steps], status |-> "pending"])
  /\ UNCHANGED <<panel, background, waits, zip>>
(* The answer is applied to what the working copy is by then, and committed.    *)
AssistReply(k, steps) ==
  /\ Answered(k) /\ k.op \in {"steps", "metadata"}
  /\ LET st == IF automation = Nothing THEN State
               ELSE IF k.op = "steps" THEN SetSteps(steps) ELSE With([automation EXCEPT !.about = 1]) IN
     Render(session, TRUE, commitVersion(st, "ai-improve-legacy"), FALSE, asks \ {k})
  /\ UNCHANGED rest
(* ... at the place the step had when the model was asked.                      *)
StepReply(k, w) ==
  /\ Answered(k) /\ k.op = "step"
  /\ LET st == IF automation = Nothing THEN State
               ELSE IF k.index \in DOMAIN automation.steps THEN SetSteps(Put(k.index, w))
               ELSE With(automation) IN
     Render(session, TRUE, st, FALSE, asks \ {k})
  /\ UNCHANGED rest
Reply(k) ==
  \/ Failed(k)
  \/ \E steps \in Answers : ChatReply(k, steps) \/ AssistReply(k, steps)
  \/ \E w \in Words : StepReply(k, w)
ApproveProposal(k) ==
  /\ automation # Nothing /\ chat[k].status = "pending"
  /\ chat' = [chat EXCEPT ![k].status = "approved"]
  /\ Reduce(commitVersion(With(chat[k].automation), "ai-chat"))
  /\ UNCHANGED <<background, waits, zip, edits>>
RejectProposal(k) ==
  /\ automation # Nothing /\ chat[k].status = "pending"
  /\ chat' = [chat EXCEPT ![k].status = "rejected"]
  /\ UNCHANGED <<panel, background, asks, waits, zip, edits>>
ClearChat ==
  /\ automation # Nothing /\ chat # <<>>
  /\ chat' = <<>>
  /\ UNCHANGED <<panel, background, asks, waits, zip, edits>>

-------------------------------------------------------------------------------
(* The file has the versions and the chat of the session, and no session has    *)
(* any: they stay in the panel.                                                 *)
Export ==
  /\ automation # Nothing /\ session # Nothing /\ zip = Nothing  \* bound: one file
  /\ zip' = [session |-> session, automation |-> automation, head |-> currentVersionId]
  /\ UNCHANGED <<panel, background, chat, asks, waits, edits>>
Import ==
  /\ zip # Nothing /\ waits # "answer"
  /\ stored' = [zip.session EXCEPT !.status = "stopped"]
  /\ Render(stored', FALSE, [a |-> zip.automation, vs |-> <<>>, head |-> zip.head, new |-> TRUE],
            TRUE, asks)
  /\ chat' = <<>>
  /\ UNCHANGED <<archive, waits, zip, edits>>

May(op) == op \in workload.ops
PanelNext ==
  /\ \/ Start \/ StartAnswered \/ Stop \/ Clear
     \/ \E first \in BOOLEAN : Started(first)
     \/ \E kind \in workload.kinds : Recorded(kind)
     \/ May("reopen") /\ Reopen
     \/ May("archive") /\ \E s \in archive : OpenArchived(s) \/ DeleteArchived(s)
     \/ UpdateMetadata \/ EditSteps
     \/ May("revert") /\ (Rederive \/ RevertToOriginal)
     \/ Undo \/ Redo \/ CheckoutVersion \/ AutoCommit
     \/ May("chat") /\ SendChat
     \/ May("assist") /\ Assist
     \/ May("ask") /\ AskStep
     \/ \E k \in asks : Reply(k)
     \/ \E k \in DOMAIN chat : ApproveProposal(k) \/ RejectProposal(k)
     \/ ClearChat
     \/ May("zip") /\ (Export \/ Import)
  /\ UNCHANGED workload

(* A timer fires.                                                               *)
PanelSpec == PanelInit /\ [][PanelNext]_panelVars /\ WF_panelVars(AutoCommit /\ UNCHANGED workload)

-------------------------------------------------------------------------------
PanelTypeOK ==
  /\ workload \in Workloads
  /\ stored \in Session \cup {Nothing} /\ session \in Session \cup {Nothing} /\ archive \subseteq Session
  /\ editing \in BOOLEAN /\ armed \in BOOLEAN /\ edits \in 0..MaxEdits
  /\ automation \in Automation \cup {Nothing}
  /\ versions \in Seq(Version) /\ Len(versions) <= VERSION_CAP
  /\ currentVersionId \in Ids \cup {0}
  /\ chat \in Seq(Proposal) /\ asks \subseteq Ask
  /\ waits \in {"none", "start", "answer"} /\ zip \in File \cup {Nothing}

Uncommitted == editing /\ automation # Nothing /\ versions # <<>>
               /\ \A k \in Head0 : versions[k].automation # automation
(* Whatever puts the working copy and the current version apart while the user  *)
(* edits (an edit, an answer that comes late, an undo), the timer runs that     *)
(* will commit it.                                                              *)
EditsHaveTimer == Uncommitted => armed

(* What was committed is not changed nor taken out of the history, except that  *)
(* at the cap the second entry goes; a history is replaced as a whole, and only *)
(* by one that has at most the recording in it.                                 *)
VersionsStand ==
  [][\/ Len(versions') <= 1 /\ versions = <<>>
     \/ /\ versions # <<>> /\ versions' # <<>>
        /\ versions'[1] = versions[1]
        /\ LET gone == {k \in DOMAIN versions : \A j \in DOMAIN versions' : versions'[j] # versions[k]}
           IN gone = {} \/ (gone = {2} /\ Len(versions) = VERSION_CAP)
     \/ Reopen \/ Import]_panelVars

(* An edit is committed in the end, unless the user leaves it for another       *)
(* version, for the recording or for another session.                           *)
EditsCommitted == Uncommitted ~> ~Uncommitted

(* App.tsx: an automatic commit follows a manual edit.  The code commits again  *)
(* every two seconds, as each commit makes the history longer.                  *)
CommitsSaveEdits ==
  [][(armed /\ edits' = edits /\ versions' # versions /\ Last(versions').author = "user-edit")
       => Uncommitted]_panelVars
=============================================================================
