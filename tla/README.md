# PortalFlow: specifications

TLA+ modules of the parts of PortalFlow whose behaviour depends on order, time and
failure, with their model-checking configurations and machine-checked proofs.

PortalFlow runs browser automations. The command line tool (`tools/cli`) hosts a WebSocket
server; a Chrome extension (`tools/extension`) connects to it from an offscreen document,
and its service worker executes the commands in a browser window of their own. The
extension also records what a user does and turns it into an automation, which its side panel
and its editor change. `apps/api` is a NestJS server with login, device authorization and
object storage on S3; `apps/web` is its React client. The two halves share no state.

## Contents

1. [Inventory](#inventory)
2. [Modules and how they correspond to the code](#modules-and-how-they-correspond-to-the-code)
3. [Runs: what is checked, and on what](#runs-what-is-checked-and-on-what)
4. [Fairness](#fairness)
5. [Proofs](#proofs)
6. [What the runs refute, and other differences](#what-the-runs-refute-and-other-differences)
7. [What is not modelled](#what-is-not-modelled)
8. [Plan](#plan)

Run `tlc -config MCExtensionHost.cfg MCExtensionHost` and likewise for the other
configurations; run `tlapm Extension_proofs.tla` and likewise for the other proofs.

## Inventory

`PROJECT.json` lists every component with its sources, and every hazard at its line. This
is the part of it that the specifications are about.

**Extension host** (`tools/cli/src/browser/extension-host.ts`). *State*: the lifecycle
(idle, connected, reconnect_pending, aborted), the active socket, the map of pending
commands with a timer each, the run id, the reconnect window and its timer. *Operations*:
sockets that open, say hello, answer, fail and close; `sendCommand`, `markResumePoint`,
`close`; timers. *Talks to*: the offscreen document over sockets, the runner by promises
and by the events `connected`, `disconnected`, `resumed`, `reconnectTimeout`. *Hard*: a
socket that replaces another with commands pending, answers that come after a timeout,
reconnects that race a timer, documents that outlive a host. *Correct when* every promise
settles once, the mid-step test is about the connection that closed, and no document is left
waiting.

**Offscreen runner** (`tools/extension/src/offscreen/runner.ts`). *State*: its socket, the
last run id, whether it has a session. It reconnects for ever and relays commands to the
worker and answers to the host.

**Automation runner** (`tools/cli/src/runner/automation-runner.ts`). *State*: the
instruction pointer, the executions left, the checkpoint, the host's resume point, three
flags set by the host's events. *Operations*: connect, open the window, the loop over steps
with their policies and jumps, the finally block. *Hard*: the events come while a step runs,
the flags are read between steps only. A body that a step's timeout gave up on goes on to write and to send. *Correct when* the flags
say what the link is, a resume takes out nothing that an ended step has found, no step starts
without a connection, and a run ends.

**Step executor** (`tools/cli/src/runner/step-executor.ts`). *State*: the pending jump, the
call depth, the variables of the run, and the stack of steps in execution. *Hard*: a step's
timeout cannot cancel its body, which goes on beside the run and shares all of this.
*Correct when* a step always settles, the depth counts the calls in execution, and jumps and
parameters stay with the step and the call they belong to.

**Recorder** (`tools/extension/src/background/service-worker.ts`,
`storage/session.storage.ts`, `content/recorder.ts`). *State*: the active session and the
archive in `chrome.storage.local`, and a listener in each page. *Operations*: start, stop,
pause, resume, clear, restore, delete, import; recorded events and navigations. *Hard*:
every handler is read - await - write, they overlap, and Chrome may end the worker between
any two of their steps. *Correct when* no recording is lost or duplicated, one navigation is
recorded once, and pages follow the session.

**Run window and command handlers** (`background/run-window.ts`,
`background/runner-handlers/*`, `content/runner-content.ts`). *State*: the ids of the window
and its tab in the worker's memory, listeners and timers of each command. *Hard*: the
browser reports a closing that the worker asked for and one by the user with the same event;
timers race answers; the user closes things at any time. *Correct when* the ids are those of
what exists, exactly the user's closings are told, no window is left behind, operations are
performed in the run window, and every command is answered.

**Storage objects** (`apps/api/src/storage`). *State*: a row for every object, and what S3
holds under its key. *Operations*: begin, complete and abort an upload, upload at once,
delete, change the metadata; processing after an upload; a daily cleanup. *Hard*: each is a
few calls, to S3 and to the database, without a transaction and without looking at the
object's status; any call may fail, performed or not, and the server may stop. *Correct
when* a row that says that its file is there is right, one handler processes an object,
a stored object is never cleaned up and an abandoned one is.

**Bodies of the steps** (`executeNavigate` to `executeDownload` of `step-executor.ts`,
`browser/element-resolver.ts`, `browser/page-client.ts`, `llm/`, `tools/`,
`background/runner-handlers/download.ts` and `wait.ts`). *State*: the variables and artifacts
of the run, listeners and timers of the extension's handlers, downloads and requests of the
browser. *Hard*: a handler goes on when nobody awaits its answer any more, its listeners hear
of every download and every tab, and it settles by whichever of three timers, two listeners
and a trigger comes first. *Correct when* a step keeps only what was found or completed, and
ends.

**aiscope steps** (`executeAiScope` of `step-executor.ts`). *State*: iterations, history,
plan, milestones, replans. *Hard*: eight ways through an iteration, each with its own entry,
counters and refusals, in two modes, with three kinds of check. *Correct when* the model hears
of each iteration once, the step succeeds only as its check allows, secrets stay out of the
history, and the step ends.

**Accounts** (`apps/api/src/auth`, `device-auth`, `users`, `allowlist`, `test-auth`).
*State*: users with their roles and identities, the allowlist, refresh
tokens, device codes, the map of polls. *Operations*: login, rotation, logout of one and of
all sessions, the device flow with its polls and decisions, administration, invitations,
cleanups. *Hard*: rotation, revocation, approval and claims are check-then-act over awaits;
a call may fail, or be performed and its answer lost; codes and tokens expire meanwhile.
*Correct when* a login has one token that is good, an honest client is not thrown out, a code
is exchanged once for each approval, and an administrator remains.

**Web client** (`apps/web/src/services`, `contexts`, `hooks`, `pages`). *State*: one cookie
for the browser; in every tab an access token, the refresh that its requests share, and copies
of settings, lists and profiles. *Hard*: requests refused at once, tabs that refresh with one
cookie, answers that overtake one another, saves over settings that have changed. *Correct
when* the session outlives all that, saves are made over what the page showed, and a list
belongs to the page and the search on show.

**Side panel** (`extension/src/sidepanel`, `extension/src/converter`). *State*: the copy of
the session, the automation being edited, its versions and the current one, proposals of the
chat, a timer that commits edits. *Hard*: the timer, late answers of a model, new events of
the recording, undo, checkout and another session all change the same copy. *Correct when*
edits come into the history, and the history stays.

**Editor** (`extension/src/editor`). *State*: the automation, the selected node, the issues,
a flag of unsaved changes, a file being read, a download under way. *Hard*: steps are found by
paths of positions, which every insertion, removal and drag moves; what is added needs an id
that is new in the whole document; a file's text and a download come after an await. *Correct
when* nothing unsaved is called saved, adding and copying loses no step and makes no issue, and
a dragged step lands where it was dropped.

**Everything else**: prompts, the terminal interface, layout, configuration, HTML transforms,
selectors of a page, infrastructure. These are functions on text, presentation, or input and
output; see `PROJECT.json`.

## Modules and how they correspond to the code

| Module | Models | Shape |
| --- | --- | --- |
| `HostLink` | what a runner may rely on about its connection | abstract specification, 2 variables |
| `ExtensionHost` | host, offscreen document and the connections between them | implements `HostLink` |
| `AutomationRunner` | the run of an automation | composed with `HostLink` |
| `StepExecutor` | one step after another, with what timeouts leave running | threads of step frames |
| `Recording` | worker, storage and content scripts of the recorder | handlers with the copies they hold |
| `PageOps` | what a page operation does to an element | operators only |
| `RunWindow` | the worker executing commands against browser and user | extends `PageOps` |
| `PageCommands` | the page, downloads and requests as commands see them | facts, and handlers in slots |
| `PageSteps` | the bodies of the steps that run no others | extends `PageCommands` |
| `AiScope` | the aiscope step among the other steps | extends `PageSteps` |
| `SidePanel` | the panel's automation, versions, chat and timer | handlers with the effects they cause |
| `Editor` | the editor's automation, issues, files and downloads | a reducer and its callers |
| `ObjectStore` | requests, processing and cleanup over rows and S3 | tasks that stop at each call |
| `Accounts` | users, tokens, device codes and the allowlist | tasks that stop at each call |
| `WebClient` | tabs of the web application and the server's answers | calls in flight of each tab |

`MC<Module>` gives constants for TLC, `<Module>_proofs` holds the theorems; those of the link
and of the side panel are in `Extension_proofs`, those of the runner, the editor and the web
client in `Clients_proofs`, and for that these modules have names of their own for `Init`,
`Next` and `Spec`. Operators in a
module that are called `X_y` with a comment "Mutation" are plausible mistakes in `X`; nothing
uses them but `PROJECT.json`, which names for every property one that breaks it.

**`ExtensionHost` and `HostLink`.** Handlers of Node and of the DOM run to completion, so
each is one action; what interleaves is the delivery of messages, closings and timers. A
connection has two queues, the state of the host's socket (`ready`), the handlers the host
has on it (`phase`) and whether the client's end is open (`alive`). `outcome[m]` is what
became of the promise of command m, `via[m]` the connection it was written to. A document
may be reloaded, may still hold the run id of an earlier host (`OldRun`), or speak another
protocol version (`Outdated`). Commands carry no content. `HostLink` has `link` and
`inflight` only; the refinement maps `state` and `pending` to them.

**`AutomationRunner`.** `i`, `remaining`, `cp`, `resumePoint` and the flags are the
variables of `executeRun`; `ctx` is what steps have written and which errors they left. The
link's step and the runner's handler of the event it emits are one action, as `emit` is
synchronous. A step body is any number of commands and writes. A failure may be the step's
timeout, which leaves the body behind (`strays`): it goes on to write and to send, in later
steps and between them, and a command of it that is under way makes a lost link a mid-step
one. Two simplifications: a
document that says hello after `close()` is not composed in, and an event may arrive at the
top of the loop between two tests that the code makes without an await, which adds
behaviours and takes none away.

**`StepExecutor`.** Code runs to its next await as a chain of actions (`job`); the events
that end an await wait until the chain is over. A frame is one `executeWithPolicy` call:
its attempts, the substep it is at, and the variable it has shadowed. A body that outlived
its timeout becomes another thread; `MaxStale` of them may exist. Leaves - navigate,
interact, extract, wait, tool call, download - either succeed or fail.

**`Recording`.** A task is a handler under way: where it stands and the copies it keeps over
its awaits. `serial` chooses once whether handlers overlap, because some properties are of
each kind. The archive is a set: its order is for display. Snapshots, metadata, versions and
chat are not kept; a session is worth archiving when it has events. A content script reads the
session once, at some time after its page has loaded (`first`), and hears of every change after that
(`changes`), in order, but nothing orders the answer of that read with them. Changes in a row to
the same status are one, as the second does nothing to a script. `late` and `misled` remember
that a change came before the answer, and that the answer then differed from it. A session that
was exported may be imported again.

**`RunWindow`.** A window opens with one tab and has its name. The browser's answers and
events reach the worker in one queue (`queue`). A command is a task with a stage; its timer
may fire while its request is under way (`out`), and the page may then perform what was
given up on. Whether a page that has loaded fits the pattern of a wait is a choice (`match`). A
window that Chrome creates is taken to have an id and a tab; `openRunWindow` throws when the
answer has none. `byUser`, `told`, `forgotten` and `acts` record what happened, for the
properties. The tab the user works in always exists. Disabled boxes, pictures and the
shortcuts of extract (url, title, html) are not modelled; downloads and `network_idle` are in
`PageCommands`.

**`PageCommands`.** A page is the set of facts that hold of it - selectors that match, marks
of its URL, title or text - and changes at any time. Most commands are answered from the page
as it is then. Waiting for an idle network and a download take time: each is a handler in a
slot, with its listeners (`listening`), its trigger (`clicking`), its last look
(`searching`), its timers, and the id of the download it took for its own. A handler is
`loose` when the CLI has given up on its command; nothing stops it then. Chrome's downloads
belong to anybody.

**`PageSteps`.** `body` is the leaf step under way: the candidates of the resolver's cascade
still to be tried, the question a model has been asked, the tool that runs, the slot whose
handler it waits for. `Answer` is what the awaited thing may be, failure included. Variables
hold the secret or something else. Policies, retries and timeouts are in `StepExecutor`: here
a step that fails is followed by the next, and a step's body is not overtaken by another.

**`AiScope`.** `scope` holds the counters, the plan, the history and the place within an
iteration; `Look`, `Observe`, `Decide`, `Dispatch` and the tool's end are the statements
between awaits. The model may answer anything its parser accepts, or nothing.

**`SidePanel`.** An action is a handler of React with the effects of the renders that it
causes (`Render`): the derivation of the automation from the session, the seeding of the first
version, and the start of the timer when what it depends on changes. The worker answers at
once, but for the answer to a start, which is older than the first event. `asks` are calls of
a model under way, each with what it had seen.

**`Editor`.** Actions have the names of the reducer's. The forms are what they dispatch
(`FormEdit`); the outline's drags are chains of moves of one place, as there. `Valid` is the
part of the schema that goes across a document: ids, functions, jumps, nesting. The instance
nests once. `ReduceTo` is what every case of the reducer returns - the new automation, its issues,
dirty - so that a case which forgot one of them is not expressed. `kept` and `overtaken` record what a file or a download last held. A file is an
`Automation`, as the schema's types have it, or `Text` that is none; whether it is valid is
another matter.

**`ObjectStore`.** One task per request, stopped before its next call: `Call` performs it,
or refuses it (no such row, no such upload), or lets it fail, performed or not. The request
that completes an upload becomes the processing of the object, as the event is emitted
there. `asked` remembers deletions, `used` the ids given out. S3 is taken by its
documentation: an upload that was completed or aborted is unknown afterwards
(`NoSuchUpload`), deleting a key that holds nothing succeeds. Left out: requests refused for
ownership, requests that only read, audit events, the transfer of parts, which goes past the
server, and rows of parts, but for the refusal of one without an object. A cleanup runs one
at a time, as it starts once a day.

**`Accounts`.** One task per request, stopped before its next call to the database; the guard
looks at the caller's row once. A user is an email address. A token keeps the login it
descends from (`line`), which only the properties look at; `held` is what each client would
send. A logout is of the user whose access token the tab has, with the cookie of the browser, which may
be another user's: then it revokes nothing and the cookie goes. `met` records kinds of requests
that have overlapped on one subject, `shares[l]` how many good tokens login l may have,
`credit[k]` the approvals of a code less its exchanges. A failed call is performed or not; a restart empties
`polled`. The transactions of the code - creating a user, replacing roles - are single steps.

**`WebClient`.** A tab has calls in flight, a page it is at, copies of what it has fetched; the
browser has one cookie. The server takes one step per request, as its own interleavings are in
`Accounts`; a request or an answer may be lost. `live` is the set of refresh tokens the server
accepts: a sign-in adds one and leaves those of other tabs alone, a logout takes its own, and a
token used twice takes them all. `raced` records which kinds of overlaps there
have been: two refreshes with one cookie, two saves, two fetches of a list.

`Accounts`, `WebClient` and `SidePanel` choose a *workload* once, in the initial state: the
set of operations, users, clients or events that a behaviour may have. The specification takes
any set of workloads; the instances list those that bring together what shares state.

## Runs: what is checked, and on what

| Run | Instance | States | Shows |
| --- | --- | --- | --- |
| `host` | 2 documents, 2 connections, 1 command | 55,340 | the host implements `HostLink` with its fairness; run ids agree, promises settle once, every hello is answered |
| `runner` | 2 steps, 2 commands, 4 executions | 1,702,396 | a reconnect between steps keeps what ended steps found; steps start connected; the run ends |
| `executor` | 8 steps of every kind, depth 3 | 319,893 | steps settle, the depth counts, jumps and parameters keep to their owners |
| `steps` | 10 scripts, 2 downloads, 3 iterations | 672,536 | what steps keep, what the model is told, when an aiscope step succeeds, and that steps end |
| `run_window` | 2 windows, 3 commands, 1 end of the worker | 1,194,396 | ids, events, windows and answers against a user who closes things |
| `recording` | 2 sessions, 1 tab, 2 handlers | 3,338,377 | archive and session under interrupted handlers; content scripts under overlapping ones |
| `panel` | 10 workloads, 3 versions, 2 edits | 379,519 | edits come to be committed, and the history stands |
| `editor` | 4 files, 3 steps a list, 3 edits | 272,006 | the saved flag, ids and issues, and drags over all that changes an automation |
| `objects` | 1 object, 3 requests, cleanup, 1 fault | 283,412 | rows and files agree, nothing stored is cleaned, nothing is left |
| `accounts` | 11 workloads, 2 clients, 2 requests at a time, 1 fault | 1,332,399 | one good token per login and share, exchanges by approvals, honest clients stay, an administrator remains |
| `web` | 10 workloads, 2 tabs, 2 calls each, 1 fault | 709,330 | session, saves and lists over overlapping and lost requests |
| `panel_commit` | as `panel` | | refutes a comment of the panel, see below |

**Bounds.** They are small because the hazards are pairwise: two documents replacing one
another, a command and its late answer, two handlers, a closing and its event.

* `host`: two documents, two connections and one command: enough for a replaced, a lost and a
  resumed link, with an answer late on either. No symmetry, as liveness is checked. What the
  proofs say is said of any number.
* `runner`: two steps of any policy, one with a jump back and one with a jump to an unknown
  id, a retry, two commands in flight, four executions: the cap is reached by a goto loop. A body
  given up on in the first step goes on beside the second and between them.
* `executor`: an automation with each kind of step, a function that calls itself up to the
  maximal depth of 3, a loop of 2, one retry, one body that outlived its timeout, three
  top-level steps.
* `steps`: two selectors and one mark; two downloads and two handlers at a time, so that a
  late handler meets the next step's and a download of the user meets both; one request in
  flight; three iterations, one replan and plans of two milestones, so that every budget runs
  out and a plan is replaced before and after a milestone. Each script is a run of up to four
  steps whose variables, handlers or downloads meet.
* `run_window`: two windows, three commands one at a time or two overlapping, one end of the
  worker: open, close and open again with the events of the first still to come.
* `recording`: two sessions, one tab and one URL, two events a session, one end of the
  worker; five commands in serial mode, three with two handlers at a time: start, stop and
  restore around a clear is the longest scenario a session id goes through. The changes a script
  has yet to hear of are not bounded.
* `panel`: a cap of three versions (100 in the code), so that pruning happens; two sessions,
  one event each, three steps, two edits by hand or by a model, one call of a model under way.
* `editor`: files with a loop and a jump into the list, with three steps to drag, with
  functions and a call, one the schema refuses, one that is no JSON; three edits or files.
* `objects`: one object and three requests at a time, with the cleanup and one fault
  anywhere; objects do not touch one another, and three tasks are the two that race and the
  one that interferes.
* `accounts`: two emails, two clients, one code, two requests at a time, three refresh tokens
  and one fault (a call that fails, an answer that is lost, a restart): each race is of two,
  and the third token is the one that a rotation makes of a rotated one. Requests and clients
  are symmetric, which is sound for these safety properties.
* `web`: two tabs or one, two calls each, one row, one flag, two pages, four refresh tokens,
  three versions of the settings, one lost request or answer: a refusal of two requests with
  one refresh, a save between another's look and write, an answer that overtakes another.

Deadlock is not checked: each of these systems may stop - a run is done, a user does nothing
more, ids are used up - and the bounds stop it as well. The leads-to properties say what must
not stop.

**What the properties say.** Each is commented in its module. The ones that carry most:
`LinkSpec` (the host is a `HostLink`, its liveness included), `SettledOnce` (no promise is
settled twice), `BoundaryKeepsEnded` (what a reconnect may take out, with bodies that were given
up on), `StepsStartConnected` (three flags of events against the link), `DepthCounts` (with bodies
that were given up on), `ArtifactsComplete` (with handlers that nobody awaits), `EndsAsAsked`
(the model cannot talk its way out of a step), `HistoryTold`, `NothingLost` and `HistoryKept`
(recordings over the end of the worker), `RecorderFollows` (scripts over reads and changes),
`OwnCloseSilent` and `UserCloseTold` (exactly the
user's closings end a run), `EditsHaveTimer` (whatever sets working copy and version apart
is committed by a timer that runs), `CleanIsKept` (what is called saved is in a file),
`RowsKeepDocument` (rows added and copied by paths leave a valid document valid),
`UploadedIsStored` and `StoredIsSpared` (rows and files), `OneLivePerLogin` and
`IssuedByApproval` (tokens over interleaved requests), `KeepsSession` (requests refused at
once do not end a session).

Some hold only under a condition, which is part of the property because the code guarantees
no more:

* `UntimedJumpIsOwn` and `UntimedParamScoped` as long as no step has a timeout;
* `NothingLost` and `HistoryKept` when handlers do not overlap;
* `RecorderFollows` for a script that has been told of everything, and not between a first read
  that is answered after a change and the next change;
* `NoOrphan` and `ActsInWindow` with one command at a time and a worker that is not ended, the
  second also as long as the user closes nothing;
* `NothingOrphaned` and `Processed` as long as no call fails; `NothingOrphaned` not of an object
  whose deletion was asked for;
* `HonestStays` as long as no client had two requests with its token under way and nothing
  failed; `IssuedByApproval` as long as no two polls of a code overlapped
  and nothing failed; `AdminRemains` as long as no two changes of users overlapped and no test
  login replaced roles;
* `KeepsSession` unless two tabs refreshed with one cookie at a time or an answer was lost;
  `SavesOverSeen` unless a save came between another's look and its write; `ListIsOfQuery`
  unless two fetches overlapped, one failed, or a table was edited in a search;
* `CleanIsKept` unless the automation changed while its download was under way.

`OneLivePerLogin` has no condition. A login starts with one share; a logout that finds its token
good takes the share, and a refresh whose `update()` revokes a row that another request had
already revoked since it was looked up (`auth.service.ts:451`) adds one, since each of the two
makes a token. Nothing else adds a good token, and nothing else leaves one after a logout: a
logout with another user's cookie revokes nothing (470-477), takes no share, and the tokens of
both users stay good.

The models have the other behaviours too, and what they do is described
[below](#what-the-runs-refute-and-other-differences).

## Fairness

Always weak, but for one, and only on what a program or a browser does by itself:

* `ExtensionHost`: delivery of messages and closings on open connections, timers, and the
  document's own reconnect timer. Not on closings, reloads, failures or commands. An
  extension need not answer: the command's timer does.
* `AutomationRunner`: settling of commands (by `HostLink`'s liveness, which `ExtensionHost`
  is shown to have), the end of the reconnect window, the run's own statements. The loop's
  test is strongly fair: the poll looks every 50 ms, and a link that is lost and resumed
  again and again does not hide every moment in which it is connected.
* `StepExecutor`: the run's code, its timers and leaves without a timeout, which end in tools
  with timeouts of their own. Nothing makes a leaf with a timeout end; that is the timeout's
  business.
* `RunWindow`: the queue is delivered, handlers go on, timers fire. Pages need not answer
  nor load.
* `AiScope`: what a body awaits is answered, one way or another, as every command, model call
  and process has a limit of its own; tools end; the timers and searches of the handlers of
  the extension come to their end. Downloads need not complete, pages need not change.
* `SidePanel`: the timer of the commit fires. Nothing else: models need not answer.
* `WebClient`: the server answers what reached it and the tab handles the answer. It is not
  needed by the properties of the run, which are safety properties.
* `ObjectStore`: calls are answered one way or the other, handlers go on, days pass and the
  cleanup is run. No request need be made.
* `Accounts`, `Recording` and `Editor` state none: what is checked of them is safety.

## Proofs

All theorems hold for every value of the constants that the assumptions of the module allow:
any number of documents, connections, commands, steps, iterations, downloads, sessions, tabs,
windows, objects, users, clients, codes or requests, and any automation, loops, functions and
nesting included. Theorems marked * state a property that a run checks.

| Module | Theorems | Argument |
| --- | --- | --- |
| `Extension_proofs`, of `ExtensionHost` | `TypeCorrect`, `NoPromiseLost`, `PendingIsOfActive`, `StatesAgree`, `OneOpenSocket`, `RunIdAgreed`*, `SettlesOnce`*, `ImplementsLink` | one lemma per handler for each part of `IInv`; `ImplementsLink`: every step is a step of `HostLink` or leaves its variables alone |
| `Clients_proofs`, of `AutomationRunner` | `FlagsAlwaysAgree`, `BoundaryKeepsWhatEnded`*, `StartsConnected`* | `IInv`, by the parts of `Next` |
| `Extension_proofs`, of `SidePanel` | `EditsTimed`*, `HeadStays`, `HistoryStands`* | `PanelInv`, by what a handler gives the render |
| `Clients_proofs`, of `Editor` | `EditorTyped`, `CleanStaysKept`*, `DragsLand`* | `EditorInv`; for the drag, that it lifts one step, by a least counterexample |
| `Clients_proofs`, of `WebClient` | `WebTyped`, `SessionSurvives`*, `SavesAreOverSeen`*, `ListsAreOfQueries`* | `WebInv`, by its four parts; one lemma per action for the types |
| `StepExecutor_proofs` | `ExecutorTyped`, `DepthIsCounted`*, `JumpsAreOwn`*, `ParametersAreScoped`* | `IInv` and `Alone`, with lemmas on frames replaced, pushed, popped and moved to another thread |
| `AiScope_proofs` | `Inductive`, `DownloadsComplete`*, `EveryIterationTold`*, `ScopeEndsAsAsked`*, `TriedArePassed`, `SecretsStay` | `IInv`, one lemma per action for the handlers, the loop and the body |
| `Recording_proofs` | `ArchiveHoldsOnce`, `NavigatesOnce`, `RecordingType`, `SessionsSurvive`*, `SessionsContinue`*, `ScriptsFollow`* | `IInv`, `SerialInv` and `FollowInv`, with lemmas on sequences without repeats and sets without duplicates |
| `RunWindow_proofs` | `OwnClosingsSilent`*, `IdsNeverPart`, `RunWindowInvariant`, `RunWindowOrder`, `UserClosingsTold`*, `NothingLeftBehind`*, `ActsStayInWindow`* | `IInv`, `TellInv`, `HoldInv`, with lemmas on what a step takes from and adds to the queue |
| `ObjectStore_proofs` | `UploadsAreStored`*, `OneHandler`, `StoredSpared`*, `NothingIsOrphaned`*, `ObjectStoreType` | `IInv`, one lemma per action |
| `Accounts_proofs` | `AccountsTyped`, `RotationMovesTheRight`*, `WaitingClientsStay`*, `ApprovalsAreSpentOnce`*, `AdministratorsRemain`* | `IInv`, by its parts; a lemma of its own for each step that moves the right to go on with a login |

**ExtensionHost.** `IInv` is the type with `LinkInv`, `RunInv` and `RunAgreed`. That only one
open socket has the handlers (`OnlyActiveOpen`) is not inductive without knowing which
handlers a connection has at which state (`ConnInv`); that a document knows the run id
(`RunAgreed`) needs that every session still under way carries the host's one (`RunInv`). Each
lemma is one handler.

**AutomationRunner.** Before the first step nothing is flagged or saved (`SetupInv`), which
is what makes the flags true when the loop begins; only a connected host has commands in
flight, so that which way a lost link goes is decided by the commands that are under way, those
of given up bodies included. `BoundaryKeepsEnded` is inductive with that: whatever writes beside
the run is a stray, and a checkpoint is taken of all that was written until then.

**AiScope.** A step keeps a download because a handler said ok, and the handler may have been
told by a listener, by its search or by an event between the two; so the invariant speaks of
handlers: one that answers ok, or that is on its last search, has a download that is complete,
and one that is still listening has answered nothing (`HandlersTrue`). An iteration under way
owes exactly one entry of the history, whichever way it leaves (`ScopeInv`). Success is
decided at the places a loop may stand (`LoopInv`): it asks only for what its step's check
says, a plan is in force only in agent mode, and the milestones that are passed lie before the
pointer. A body that probes the page has a selector to probe with (`BodyInv`), which is
why a download by click without one is refused before it starts. The history's values are
what was typed, and a value that was referred to is written down as the reference: that is
`SecretsUntold`.

**Recording.** A handler writes copies it read earlier, so the invariant must be of copies:
every session and archive that a task holds is itself free of repeats and duplicates
(`TaskOK`). With that, overlapping handlers may lose one another's work but not break
`ArchiveOnce` or `NavigatesDiffer`. That nothing is lost when they do not overlap
(`SerialInv`) is said of the one handler under way at each of its awaits (`InTurn`): the
session it is about to write continues the stored one, what it is about to put aside is in
the archive before the slot is cleared, and what it takes out of the archive is in the slot
only afterwards. The end of the worker between two of these is a step like any other, and
the one place where it loses something is the exception that `NothingLost` names. The content
scripts need nothing of that: the last change in a script's queue is how the session stands, and
when the queue is empty so is what its first read found, or the script itself (`FollowInv`).

**RunWindow.** `OwnCloseSilent` rests on `OnePlace`: the id of a window is in one place at a
time - the worker's variable, an answer to a creation on its way, or a removal under way. So
the events of a removal never find their id in the variable. That the closings of the user
are told (`UserCloseTold`) is a matter of order, and `TellInv` is about the queue: an answer
fits the command that waits for it, an event fits what its window has come to, the answer
that brings a window comes before that window's events and the closing of its tab before its
own (`InOrder`), so that the worker has the id, is about to have it or has dropped it
(`Tracked`), and a closing not yet told still finds it (`Untold`). `NoOrphan` and
`ActsInWindow` rest on `HoldInv`: commands come one at a time and in the stages of their
handlers, every standing window is in one of three places (`Located`), and a command that
acts has the tab of the window it was sent for (`Aimed`).

**ObjectStore.** The requests never look at the status again, so what orders them is S3: an
upload that is over is refused. The invariant says it in four parts: an upload that is begun
has no file and its row says so (`BegunIsPending`); the task that saw S3 complete it is alone,
until it has written the outcome (`FinishedByOne`); after an abort nothing is stored
(`AbortedIsOver`); the request that creates an object is alone with it (`CreatedAlone`,
`CreatedByIt`, `FreshIds`). `StoredSpared` is the action property from the same invariant,
and `NothingOrphaned` is inductive with it.

**StepExecutor.** A body that is given up on takes its frames, and those of all it is in, to
another thread, so the number of functions is counted over all threads: the step lemma for a
timeout (`CountMoved`) is a bijection between the functions before and after. For it a frame
must be in its block exactly while frames are above it (`Placed`), which says where the
`finally` of `invokeFunction` is still to come, and the code that runs must have a frame to
run for (`JobFits`). Without timeouts there is one thread (`Alone`); a jump that is pending
is the innermost step's (`OwnJump`), and what each function is to restore is the parameter
of the one before it (`Shadows`), from which the parameter in force is the innermost one's.

**Accounts.** The right to go on with a login is moved, never copied. It is carried by the
token a client holds or by the request that client sent with it, and by one of them only
(`OwnersInv`); what carries it is good, and the only good token of its login, except between
the two calls of an exchange or of a logout, when the login has none (`RightInv`). Both are under
the condition of `HonestStays`. That a login has no more good tokens than its shares is under none
(`SharesInv`): a good token, and a refresh between its revocation and its insertion, each take one
share, and whatever a request does to a row that is no longer good frees none. For device codes, a poll that may still exchange has an approval
to spend and no other poll beside it, and one that has exchanged marks the code before
another looks (`PollInv`). For administrators, a change that takes something away is made by
an administrator who is not its subject (`AdminInv`).

**SidePanel.** Everything goes through a render, so the lemma `RenderHolds` is about what a
handler gives it: the history as it is with a head that is in it (`Kept`), with one entry more
that is the head (`Longer`), or begun anew (`Blank`). `PanelInv` says that the history is
within its cap, that the current version is one of it (`HeadInHistory`) and that what is not
committed has its timer. The timer alone is not inductive: a commit that leaves an edit behind
is ruled out only if the entry it appends is the head, and that the pruning at the cap takes
the second entry and never the last or the first is the lemma `PrunedIs`.

**Editor.** `EditorInv` is the type with `CleanIsKept`. The type is most of the work,
since a path of one or of two indices leads to a list of steps or of substeps: each operation
on paths has a lemma that the list it makes is one of the same kind. A drag is a chain of moves
of one place, a recursive function of the distance. That it puts the step where it was dropped
(`DragLands`) is shown in two parts: after any number of moves the list is the one in which a
step was lifted from one place to the other (`DragLifts`), for otherwise there would be a
shortest drag for which it is not, and all but its last move refute that; and lifting is what
taking out and putting in do (`LiftedLands`). `MaxSteps` bounds what a behaviour adds, not the
files.

**WebClient.** `SessionInv` holds while no answer was lost and no refresh met another or a
logout. Then tokens under way are of different rotations (`GensApart`), one that goes to the
server is accepted by it (`OutIsLive`), one that comes back is accepted and in no other hands
(`HeldIsLive`), and the cookie is accepted, about to be replaced by a tab that holds its
successor, or of a session whose logout was answered (`JarStands`). However many requests of a
tab are refused they share the one refresh, so nothing is said of them. `SaveInv`: the save
that has looked at the version is alone and saw what the row still is. `ListInv`: a tab has
one fetch under way, for the page and the search on show, and so is its list unless one is
on its way. The attempt to prove `KeepsSession` found a mistake of the model, which took a
sign-in in one tab to invalidate the token of another (`createRefreshToken` only adds a row);
hence the set `live`.

Only model-checked: everything about liveness (`HelloAnswered`, the fairness in `LinkSpec`,
`RunEnds`, `Settles`, `StepsEnd`, `CommandsAnswered`, `EditsCommitted`,
`Processed`), which is out of the prover's reach, as are ENABLED and the induction over data
that the converter of a recording would need: it is a fold, so nothing is proved of the steps
it makes, and the side panel's theorems hold whatever they are. `RowsKeepDocument` is about ids
and jumps at any depth of a document, over operations that are written by depth; it is left to
the model checker. There is no theorem about `CommitsSaveEdits`, which is refuted. Every other property that a run checks is stated by a
theorem.

## What the runs refute, and other differences

Refuted by a run, with a trace (`findings` in `PROJECT.json` quotes the text):

* `panel_commit`: the effect that starts the timer of the automatic commit depends on the
  length of the history, which the commit makes longer, so that one edit is committed again
  every two seconds until the history is full and what was in it is pruned (`App.tsx:166`;
  the comment at 143-145 says one commit follows an edit).

Found while modelling and not made a run:

* Host: `close()` leaves a socket whose hello is still to come its handlers, and a hello
  then connects a closed host. All sessions of one host carry one run id
  (`extension-host.ts:258`), though the comment at line 250 calls it fresh.
* Runner: whether the run was aborted is looked at between steps only
  (`automation-runner.ts:678`), so that a run whose last step is running when its link is
  aborted ends in success (`tools/cli/README.md:882` says it fails); a reconnect restores
  the checkpoint also in the middle of a step that has no command in flight, and takes out
  what the step has set (line 641, though `tools/cli/README.md:877` goes on with the next
  step); the flag of a closed window is read between steps only; the resume step that is
  logged is the last completed plus one also after a jump, and `tools/cli/README.md:876` says
  that this is what is sent, but what is sent is the target of the jump (`markResumePoint`, line
  755); what a body that was given up on by its step's timeout writes after a checkpoint is in
  the context until a reconnect restores it, and gone then; a command of such a body that is under
  way when the link is lost between steps makes it a mid-step loss, and aborts the run;
  checkpoints are written after skipped steps too; a manual connection that times out leaves
  the runner's own host open (`automation-runner.ts:493`); `closeWindowOnFinish` defaults to
  true at line 792 and to false in `config.service.ts`.
* Steps: the counter of requests in flight counts those of all tabs, starts at zero with
  requests under way and counts a redirected one twice (`wait.ts`; the comment at 194 says
  it is per tab); a download by navigation always fails, as the page client sends no url
  (the comment at `step-executor.ts:1895` says otherwise); a download of the user, or of an
  earlier handler, may be taken for the step's own, and an earlier handler may cancel the
  retry's; when the answer to a click is lost the trigger is said to have failed while the
  download goes on; the wait for a text message falls back to the latest one, which may be
  old, but with the default wait of 60 s the process is killed first; `elementExists` never
  throws, so a resolver's candidate is never taken without a look; an attribute that is
  absent leaves the variable as it was; selectors of extract and values of validations are
  not resolved as templates; a picture is a data URL, so the capture's reading of it as a
  file fails and it is always left out.
* aiscope: the wall clock is looked at when an iteration starts; what the last iteration did
  is not checked again, so that a goal it reached is reported as missed; the error of a
  skipped step in its history is empty.
* Executor: a body that outlived its timeout may take, clear or set the pending jump of
  another step, and its parameter may be saved by a later call as the previous value and
  stay set for good (`step-executor.ts:1732`); a jump of a failed attempt survives into the
  retry.
* Recorder: an event appended while a recording is stopped writes the session back without
  its original; the typing flushed by a stop arrives after it and is dropped; starting
  overwrites a stopped session without archiving it; a restore that is interrupted between
  its last two writes loses the session (`session.storage.ts:116`); events of other tabs are
  recorded; overlapping handlers lose events; a content script whose first read is answered
  after a change stays attached to a stopped session, or detached from a recording one, until the
  next change (`recorder.ts:241`).
* Side panel: an exported zip holds no committed versions and no chat, though
  `ExportBar.tsx:79-82` says so; the history is lost when the panel closes; "Revert to
  original" is undone by the effect that derives the automation; the version of the raw
  recording is made at its first event and never again; an imported zip is shown as derived
  from its events; the answer to a start may be older than the first event and is put over
  it; answers of a model are applied to whatever automation, session and position is current
  when they come; an undo before the timer fires drops the edit it undoes for good; a
  proposal that is approved without editing is overwritten by the next event; renumbered ids
  leave the targets of jumps behind; "Record again" does not archive what it replaces.
* Editor: "+ Substep" in a function adds to the step of the main list at that position
  (`Outline.tsx:321-324`), and × on a substep in a function removes the function's step
  (287-295); dragging a substep moves steps of the main list; an input or a function that is
  dropped goes to the end (the comment at 189-190 says it is inserted); a loop that becomes
  another kind keeps its substeps unseen, and a copy of it shares their ids; an edit during
  a download is called saved; opening a file replaces unsaved work unasked; jumps inside
  loops and functions are not checked, though the schema's comment says they are; the path
  of an issue two levels deep in a function is wrong.
* Run window: `check` on a checkbox sets `checked`, then dispatches a click that toggles it
  back, and answers ok (`runner-content.ts:340`); a click that times out is answered as
  recoverable though it was, or will be, performed (`click.ts:58`); with the run tab closed,
  or the worker ended, commands go to the user's active tab; with the worker ended, closing
  answers ok and the window stays; the completion of an earlier page answers a navigate; a
  wait for a navigation that is already complete times out; a download by navigation is sent
  without a url, which its handler requires.
* Accounts: two refreshes of one token may both find it good, and two tokens are good then;
  of two polls of an approved code each may make tokens; a failure between the tokens and
  the mark leaves the code good; a rotation whose answer is lost ends in the revocation of
  all sessions at the next refresh, as the old token counts as stolen; two administrators
  may take the role from one another at a time; a logout with the cookie of another user ends
  neither session: the cookie goes and the tokens of both stay good until they expire
  (`auth.service.ts:470`).
* Web client: two tabs that refresh with one cookie at a time end the session of both;
  changing a user's roles sends `roles` where the API wants `roleNames`, and is always
  refused; a merge of settings keeps flags that were taken out and a name that was emptied;
  the list of allowed emails is fetched again without its search after an edit; of two
  overlapping fetches the later answer stays, whichever was asked for.
* Storage: deleting an object whose upload is not completed leaves the upload in S3
  (`objects.service.ts:478`; `objects.controller.ts:158` promises the storage's clean-up);
  metadata changes lose one another or the processing's keys; an upload whose completion or
  abort reached S3 and not the row is never removed, as every later abort is refused;
  `processing` is not taken up again after a restart; an upload whose row could not be
  created stays in S3; the status `uploading` is never written.

## What is not modelled

`PROJECT.json` has every component with its status and reason. Within the modelled ones: the
launch of Chrome and the preflight of a run; scrolling, pictures, the clearing of data and the
shortcuts of extract in the extension; the contents of messages, templates, selectors, prompts
and steps; the transforms of HTML; the exchange with Google and the text of tokens and
cookies; layout, the terminal and its configuration; infrastructure. Clocks are timers that
may fire at any time while they are set. `PageSteps` takes steps one after another: that a body
outlives its step's timeout is in `StepExecutor`, and the two are not composed, as the product
of their threads is out of TLC's reach on any instance with a download in it.

## Plan

What is left, in order of what it would add:

1. A `Session` module - one token is good, none after its end - that `Accounts` implements
   while requests of a client do not overlap, as `ExtensionHost` implements `HostLink`; the
   invariant it needs is `RightInv`.
2. Pure modules over bounded inputs: the selector cascade of the recorder, the resolution of
   templates, the transforms of HTML.
3. A small composition of `StepExecutor`'s stale bodies with the downloads of `PageCommands`.
