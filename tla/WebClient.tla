------------------------------ MODULE WebClient ------------------------------
(* The web application and what it asks of the API: apps/web/src (the API       *)
(* client with its one refresh at a time, the session of a tab, the hooks and   *)
(* pages of the settings, the users, the allowlist and the personal access      *)
(* tokens) and the settings, pat and allowlist services that answer.            *)
(* A browser has one cookie jar for all tabs; each tab has its own client, its  *)
(* own access token and its own copies of what the server holds.                *)
(* The steps of the rotation of a refresh token are in Accounts; here the       *)
(* server takes one step.                                                       *)
EXTENDS Integers, FiniteSets

CONSTANTS Tabs, Calls,   \* calls a tab has in flight at most
          Rows,          \* identifiers of the rows of the table on show
          Items,         \* flags of the features, or what a profile may have
          Pages,         \* pages of a list
          Workloads,     \* what a behaviour may have: see Workload
          None,
          MaxGen,        \* bound on refresh tokens made
          MaxVersion,    \* bound on versions of the settings
          MaxFaults      \* bound on lost requests and answers

VARIABLES workload,  \* chosen once
          live,      \* the refresh tokens the server accepts
          made,      \* refresh tokens made
          jar,       \* the refresh token in the cookie; 0: none
          token,     \* ApiService.accessToken of each tab
          refresh,   \* refreshPromise of each tab
          user,      \* AuthContext: is somebody signed in?
          loading,   \* AuthContext.isLoading
          at,        \* the route each tab is at
          card,      \* step of the page that activates a device
          call,      \* requests of each tab
          doc,       \* system_settings or user_settings: the row
          shown,     \* the settings each tab has
          rows,      \* personal_access_tokens, allowed_emails, users or device_codes
          want,      \* page and search each tab asks its list for
          list,      \* the list each tab has
          faults,
          raced      \* kinds of races and failures there have been

session == <<live, made, jar>>
tab == <<token, refresh, user, loading, at, card>>
data == <<doc, shown, rows, want, list>>
webVars == <<workload, session, tab, call, data, faults, raced>>

Ops == {"boot", "me", "logout", "load", "save", "list", "add", "remove", "toggle",
        "verify", "decide"}
Workload == [ops : SUBSET (Ops \cup {"signIn", "lapse", "fault", "cleanup"}), tabs : SUBSET Tabs,
             doc : {"system", "user"}, table : {"tokens", "allowlist", "users", "devices"}]
Query == [page : Pages, search : BOOLEAN]
First == [page |-> 1, search |-> FALSE]
Doc == [one : 0..1, group : SUBSET Items, version : 1..MaxVersion]
Status == {"none", "live", "revoked"}
Row == [row : Status]
List == [query : Query, rows : [Rows -> Status]]
Patch == [one : {0, 1, None}, group : (SUBSET Items) \cup {None}]

(* auth: the access token sent; retried: is it the second try?  then: what the   *)
(* caller awaits after it.  row, patch, seen: arguments; got: what the server    *)
(* read or answers.                                                              *)
Call == [op : Ops, at : {"out", "read", "back", "denied", "wait"},
         auth : {"none", "fresh", "stale"}, retried : BOOLEAN,
         then : {"none", "boot", "callback"}, jar : 0..MaxGen,
         row : Rows \cup {None}, patch : Patch \cup Row \cup {None}, seen : 0..MaxVersion,
         status : {"ok", "conflict", "denied", "error"}, query : Query,
         got : Doc \cup List \cup Row \cup {None}]

(* A refresh on its way: the token it was sent with, the one it made.            *)
Refresh == [at : {"out", "back"}, gen : 0..MaxGen, new : 0..MaxGen, ok : BOOLEAN]

ASSUME WebClientAssumption ==
  /\ 1 \in Pages /\ Pages \subseteq Nat
  /\ MaxGen \in Nat \ {0} /\ MaxVersion \in Nat \ {0} /\ MaxFaults \in Nat
  /\ Workloads \subseteq Workload
  /\ None \notin Call \cup List \cup Doc \cup Refresh

WebInit ==
  /\ workload \in Workloads
  /\ live = {1} /\ made = 1 /\ jar = 1
  /\ token = [t \in Tabs |-> "none"]
  /\ refresh = [t \in Tabs |-> None]
  /\ user = [t \in Tabs |-> FALSE]
  /\ loading = [t \in Tabs |-> TRUE]
  /\ at = [t \in Tabs |-> "new"]
  /\ card = [t \in Tabs |-> "input"]
  /\ call = [t \in Tabs |-> [c \in Calls |-> None]]
  /\ doc = [one |-> 0, group |-> Items, version |-> 1]
  /\ shown = [t \in Tabs |-> None]
  /\ rows = [r \in Rows |-> IF workload.table \in {"users", "devices"} THEN "live" ELSE "none"]
  /\ want = [t \in Tabs |-> First]
  /\ list = [t \in Tabs |-> None]
  /\ faults = 0
  /\ raced = {}

(*----------------------------- calls of a tab -----------------------------*)

Under(t, ops) == {c \in Calls : call[t][c] # None /\ call[t][c].op \in ops}

NewCall(t, op) ==
  [op |-> op, at |-> "out", auth |-> token[t], retried |-> FALSE, then |-> "none",
   jar |-> jar, row |-> None, patch |-> None, seen |-> 0, status |-> "ok",
   query |-> First, got |-> None]

Put(t, c, x) == call' = [call EXCEPT ![t][c] = x]
StepTo(t, c, where) == call' = [call EXCEPT ![t][c].at = where]
Answer(t, c, status, got) ==
  call' = [call EXCEPT ![t][c].at = "back", ![t][c].status = status, ![t][c].got = got]

(* A user acts on a page that is on show, which ProtectedRoute lets only who is  *)
(* signed in see.                                                                *)
Asks(t, c, op) ==
  /\ op \in workload.ops
  /\ at[t] = "app" /\ user[t] /\ ~loading[t]
  /\ call[t][c] = None

(*------------------------ session of a tab and routes ----------------------*)

(* What a refresh that starts now may meet: a refresh of another tab with the    *)
(* same cookie, or a logout that was answered and has not taken the cookie yet.  *)
Meets(t) ==
  {k \in {"refresh", "logout"} :
     IF k = "refresh"
     THEN jar # 0 /\ \E u \in Tabs \ {t} : refresh[u] # None /\ refresh[u].gen = jar
     ELSE \E u \in Tabs : \E c \in Under(u, {"logout"}) : call[u][c].at = "back"}

(* Mutation: whoever asks starts a refresh of its own. *)
AskRefresh_each(t) ==
  /\ refresh' = [refresh EXCEPT ![t] = [at |-> "out", gen |-> jar, new |-> 0, ok |-> FALSE]]
  /\ raced' = raced \cup Meets(t)

(* refreshToken(): who asks while one is on its way waits for that one. *)
AskRefresh(t) ==
  IF refresh[t] # None
  THEN UNCHANGED <<refresh, raced>>
  ELSE /\ refresh' = [refresh EXCEPT ![t] = [at |-> "out", gen |-> jar, new |-> 0, ok |-> FALSE]]
       /\ raced' = raced \cup Meets(t)

(* initAuth() as the provider mounts, or on leaving the callback page, which     *)
(* left it undone.                                                               *)
Boot(t, c) ==
  /\ t \in workload.tabs
  /\ at[t] = "new"
  /\ call[t][c] = None
  /\ at' = [at EXCEPT ![t] = "app"]
  /\ Put(t, c, [NewCall(t, "boot") EXCEPT !.at = "wait"])
  /\ AskRefresh(t)
  /\ UNCHANGED <<session, token, user, loading, data, faults, workload, card>>

(* LoginPage, login() and the provider, and back at the callback page of a new   *)
(* document: the server made a session and put an access token in the address.   *)
SignIn(t, c) ==
  /\ "signIn" \in workload.ops
  /\ at[t] = "app" /\ ~user[t] /\ ~loading[t]
  /\ made < MaxGen
  /\ refresh[t] = None
  /\ Under(t, Ops) = {}
  /\ made' = made + 1 /\ live' = live \cup {made + 1} /\ jar' = made + 1
  /\ at' = [at EXCEPT ![t] = "callback"]
  /\ token' = [token EXCEPT ![t] = "fresh"]
  /\ Put(t, c, [NewCall(t, "me") EXCEPT !.auth = "fresh", !.then = "callback"])
  /\ shown' = [shown EXCEPT ![t] = None]
  /\ list' = [list EXCEPT ![t] = None]
  /\ UNCHANGED <<refresh, user, loading, doc, rows, want, faults, raced, workload, card>>

Logout(t, c) ==
  /\ Asks(t, c, "logout")
  /\ Under(t, {"logout"}) = {}
  /\ Put(t, c, NewCall(t, "logout"))
  /\ UNCHANGED <<session, tab, data, faults, raced, workload>>

(* The server rotates the token it is sent, or revokes all when that was revoked. *)
ServeRefresh(t) ==
  /\ refresh[t] # None /\ refresh[t].at = "out"
  /\ LET g == refresh[t].gen
     IN  IF g \in live
         THEN /\ made < MaxGen
              /\ made' = made + 1 /\ live' = (live \ {g}) \cup {made + 1}
              /\ refresh' = [refresh EXCEPT ![t] = [at |-> "back", gen |-> g, new |-> made + 1,
                                                    ok |-> TRUE]]
         ELSE /\ live' = IF g = 0 THEN live ELSE {}
              /\ refresh' = [refresh EXCEPT ![t].at = "back"]
              /\ made' = made
  /\ UNCHANGED <<jar, token, user, loading, at, call, data, faults, raced, workload, card>>

(* What a caller gets when the refresh it waited for is over. *)
Woken(x, ok) ==
  IF x = None \/ x.at # "wait" THEN x
  ELSE IF ~ok THEN [x EXCEPT !.at = "back", !.status = "denied"]
  ELSE IF x.op = "boot" THEN [x EXCEPT !.op = "me", !.at = "out", !.auth = "fresh",
                                       !.then = "boot", !.jar = jar']
  ELSE [x EXCEPT !.at = "out", !.auth = "fresh", !.retried = TRUE, !.jar = jar']

EndRefresh(t) ==
  /\ refresh[t] # None /\ refresh[t].at = "back"
  /\ LET ok == refresh[t].ok
     IN  /\ jar' = IF ok THEN refresh[t].new ELSE jar
         /\ token' = [token EXCEPT ![t] = IF ok THEN "fresh" ELSE "none"]
         /\ call' = [call EXCEPT ![t] = [c \in Calls |-> Woken(call[t][c], ok)]]
  /\ refresh' = [refresh EXCEPT ![t] = None]
  /\ UNCHANGED <<live, made, user, loading, at, data, faults, raced, workload, card>>

(* request(): an answer 401 is tried again once, after a refresh. *)
Denied(t, c) ==
  /\ call[t][c] # None /\ call[t][c].at = "denied"
  /\ IF call[t][c].retried
     THEN Answer(t, c, "denied", None) /\ UNCHANGED <<refresh, raced>>
     ELSE StepTo(t, c, "wait") /\ AskRefresh(t)
  /\ UNCHANGED <<session, token, user, loading, at, data, faults, workload, card>>

(* Access tokens last for minutes. *)
Lapse(t) ==
  /\ "lapse" \in workload.ops
  /\ token[t] = "fresh"
  /\ token' = [token EXCEPT ![t] = "stale"]
  /\ call' = [call EXCEPT ![t] = [c \in Calls |->
       IF call[t][c] # None /\ call[t][c].auth = "fresh"
       THEN [call[t][c] EXCEPT !.auth = "stale"] ELSE call[t][c]]]
  /\ UNCHANGED <<session, refresh, user, loading, at, data, faults, raced, workload, card>>

(*------------------------------- the server -------------------------------*)

(* A logout revokes the token of the cookie; without one, all.                   *)
Revoked(x) == IF x.jar = 0 THEN live ELSE {x.jar}

(* What overlaps: a logout a refresh, a save another that has looked.            *)
Overlaps(x) ==
  {k \in {"logout", "save"} :
     /\ x.op = k /\ x.auth = "fresh"
     /\ IF k = "logout" THEN \E u \in Tabs : refresh[u] # None
        ELSE \E u \in Tabs : \E d \in Under(u, {"save"}) : call[u][d].at = "read"}

(* The guard looks at the access token; what only reads answers at once. *)
Serve(t, c) ==
  LET x == call[t][c]
  IN  /\ x # None /\ x.at = "out"
      /\ IF x.auth # "fresh" THEN StepTo(t, c, "denied")
         ELSE CASE x.op \in {"me", "logout"} -> Answer(t, c, "ok", None)
                [] x.op = "load" -> Answer(t, c, "ok", doc)
                [] x.op = "list" -> Answer(t, c, "ok", [query |-> x.query, rows |-> rows])
                [] OTHER -> call' = [call EXCEPT ![t][c].at = "read", ![t][c].got =
                                       IF x.op = "save" THEN doc ELSE [row |-> rows[x.row]]]
      /\ live' = IF x.op = "logout" /\ x.auth = "fresh" THEN live \ Revoked(x) ELSE live
      /\ raced' = raced \cup Overlaps(x)
  /\ UNCHANGED <<made, jar, tab, data, faults, workload>>

(* What a partial update leaves out stays as it was: flags, members of a profile. *)
Merged(old, p) ==
  [one     |-> IF p.one = None THEN old.one ELSE p.one,
   group   |-> IF p.group = None THEN old.group ELSE old.group \cup p.group,
   version |-> doc.version + 1]

(* Mutation: the version is not compared. *)
PatchSettings_unchecked(t, c) ==
  LET x == call[t][c]
  IN  /\ x # None /\ x.at = "read" /\ x.op = "save"
      /\ doc.version < MaxVersion
      /\ doc' = Merged(x.got, x.patch)
      /\ Answer(t, c, "ok", doc')
      /\ UNCHANGED <<session, tab, shown, rows, want, list, faults, raced, workload>>

PatchSettings(t, c) ==
  LET x == call[t][c]
  IN  /\ x # None /\ x.at = "read" /\ x.op = "save"
      /\ IF x.seen # x.got.version
         THEN Answer(t, c, "conflict", None) /\ UNCHANGED doc
         ELSE /\ doc.version < MaxVersion
              /\ doc' = Merged(x.got, x.patch)
              /\ Answer(t, c, "ok", doc')
  /\ UNCHANGED <<session, tab, shown, rows, want, list, faults, raced, workload>>

(* A token is made under a new name, and revoked once. *)
WriteToken(x, old, new) ==
  \/ x.op = "add" /\ old = "none" /\ new = "live"
  \/ x.op = "remove" /\ x.got.row = "live" /\ old # "none" /\ new = "revoked"

(* An address is there once; one that is gone cannot be removed. *)
WriteAddress(x, old, new) ==
  \/ x.op = "add" /\ x.got.row = "none" /\ old = "none" /\ new = "live"
  \/ x.op = "remove" /\ x.got.row = "live" /\ old = "live" /\ new = "none"

(* isActive becomes what was sent, whatever it was. *)
WriteActive(x, old, new) == x.op = "toggle" /\ new = x.patch.row

(* A code is looked at and decided on while it waits. *)
WriteCode(x, old, new) ==
  /\ x.op \in {"verify", "decide"}
  /\ x.got.row = "live"
  /\ new = IF x.op = "verify" THEN old ELSE "revoked"

Writes(x, old, new) ==
  CASE workload.table = "tokens" -> WriteToken(x, old, new)
    [] workload.table = "allowlist" -> WriteAddress(x, old, new)
    [] workload.table = "users" -> WriteActive(x, old, new)
    [] OTHER -> WriteCode(x, old, new)

WriteRow(t, c) ==
  LET x == call[t][c]
  IN  /\ x # None /\ x.at = "read" /\ x.op # "save"
      /\ \/ \E new \in Status :
              /\ Writes(x, rows[x.row], new)
              /\ rows' = [rows EXCEPT ![x.row] = new]
              /\ Answer(t, c, "ok", [row |-> new])
         \/ /\ \A new \in Status : ~Writes(x, rows[x.row], new)
            /\ Answer(t, c, "error", None) /\ UNCHANGED rows
  /\ UNCHANGED <<session, tab, doc, shown, want, list, faults, raced, workload>>

(* Every night the tokens that have expired or were revoked long ago are gone. *)
CleanupTokens(r) ==
  /\ "cleanup" \in workload.ops /\ workload.table = "tokens"
  /\ rows[r] # "none"
  /\ rows' = [rows EXCEPT ![r] = "none"]
  /\ UNCHANGED <<session, tab, call, doc, shown, want, list, faults, raced, workload>>

(* A request or its answer is lost, or the server fails. *)
Lost(t, c) ==
  /\ "fault" \in workload.ops /\ faults < MaxFaults
  /\ call[t][c] # None /\ call[t][c].at \in {"out", "read", "back"}
  /\ call[t][c].status # "error"
  /\ faults' = faults + 1
  /\ Answer(t, c, "error", None)
  /\ UNCHANGED <<session, tab, data, raced, workload>>

LostRefresh(t) ==
  /\ "fault" \in workload.ops /\ faults < MaxFaults
  /\ refresh[t] # None /\ (refresh[t].at = "out" \/ refresh[t].ok)
  /\ faults' = faults + 1
  /\ refresh' = [refresh EXCEPT ![t].at = "back", ![t].ok = FALSE]
  /\ UNCHANGED <<session, token, user, loading, at, call, data, raced, workload, card>>

(*--------------------------------- pages ----------------------------------*)

(* useSystemSettings and useUserSettings: on mounting. *)
LoadSettings(t, c) ==
  /\ Asks(t, c, "load")
  /\ Under(t, {"load", "save"}) = {}
  /\ Put(t, c, NewCall(t, "load"))
  /\ UNCHANGED <<session, tab, data, faults, raced, workload>>

(* updateSettings(), with If-Match; the forms are disabled while it saves. *)
Save(t, c, one, group) ==
  /\ Asks(t, c, "save")
  /\ Under(t, {"load", "save"}) = {}
  /\ shown[t] # None
  /\ Put(t, c, [NewCall(t, "save") EXCEPT !.patch = [one |-> one, group |-> group],
                                         !.seen = shown[t].version])
  /\ UNCHANGED <<session, tab, data, faults, raced, workload>>

(* The forms of the system: the flags, with some toggled, added or deleted, the  *)
(* one setting of the interface, and both as JSON.                               *)
SaveFlags(t, c, flags) ==
  workload.doc = "system" /\ Save(t, c, None, flags) /\ flags # shown[t].group
SaveInterface(t, c, o) ==
  workload.doc = "system" /\ Save(t, c, o, None) /\ o # shown[t].one
SaveJson(t, c, o, flags) ==
  /\ workload.doc = "system" /\ Save(t, c, o, flags)
  /\ o # shown[t].one \/ flags # shown[t].group

(* The forms of a user: the theme at a click, and the profile, of which an empty *)
(* name is not sent.                                                             *)
SaveTheme(t, c, o) ==
  workload.doc = "user" /\ Save(t, c, o, None) /\ o # shown[t].one
SaveProfile(t, c, profile) ==
  workload.doc = "user" /\ Save(t, c, None, profile) /\ profile # shown[t].group

MixesList(t) == IF Under(t, {"list", "add", "remove"}) # {} THEN {"list"} ELSE {}

(* UserList and AllowlistTable fetch as they mount and as page or search change. *)
Browse(t, c, q) ==
  /\ Asks(t, c, "list")
  /\ list[t] = None \/ q # want[t]
  /\ q.search # want[t].search => q.page = 1
  /\ want' = [want EXCEPT ![t] = q]
  /\ Put(t, c, [NewCall(t, "list") EXCEPT !.query = q])
  /\ raced' = raced \cup MixesList(t)
  /\ UNCHANGED <<session, tab, doc, shown, rows, list, faults, workload>>

(* Mutation: the list is fetched anew from its first page. *)
EditTable_first(t, c, op, r) ==
  /\ Asks(t, c, op)
  /\ list[t] # None
  /\ Put(t, c, [NewCall(t, op) EXCEPT !.row = r])
  /\ raced' = raced \cup MixesList(t) \cup (IF want[t].search THEN {"search"} ELSE {})
  /\ UNCHANGED <<session, tab, data, faults, workload>>

(* addEmail() and removeEmail(): the list is then fetched anew, at the page the  *)
(* hook has and with no search; the tokens have neither.                         *)
EditTable(t, c, op, r) ==
  /\ Asks(t, c, op)
  /\ list[t] # None
  /\ Put(t, c, [NewCall(t, op) EXCEPT !.row = r, !.query =
                   [page |-> list[t].query.page, search |-> FALSE]])
  /\ raced' = raced \cup MixesList(t) \cup (IF want[t].search THEN {"search"} ELSE {})
  /\ UNCHANGED <<session, tab, data, faults, workload>>

(* A dialog submits once at a time; the button of a row is there while the row   *)
(* is as it should be, and for a token while it is not being revoked.            *)
AddEmail(t, c, r) ==
  workload.table = "allowlist" /\ Under(t, {"add"}) = {} /\ EditTable(t, c, "add", r)
RemoveEmail(t, c, r) ==
  /\ workload.table = "allowlist" /\ EditTable(t, c, "remove", r)
  /\ list[t].rows[r] = "live"
CreateToken(t, c, r) ==
  /\ workload.table = "tokens" /\ Under(t, {"add"}) = {} /\ rows[r] = "none"
  /\ EditTable(t, c, "add", r)
RevokeToken(t, c, r) ==
  /\ workload.table = "tokens" /\ EditTable(t, c, "remove", r)
  /\ list[t].rows[r] = "live"
  /\ \A d \in Under(t, {"remove"}) : call[t][d].row # r

(* UserList: handleToggleActive(). *)
ToggleActive(t, c, r) ==
  /\ Asks(t, c, "toggle")
  /\ list[t] # None /\ list[t].rows[r] # "none"
  /\ Put(t, c, [NewCall(t, "toggle") EXCEPT !.row = r, !.patch =
                   [row |-> IF list[t].rows[r] = "live" THEN "revoked" ELSE "live"]])
  /\ UNCHANGED <<session, tab, data, faults, raced, workload>>

(* ActivateDevicePage: a code is verified, from the address without a click, and *)
(* then approved or denied, one at a time.                                       *)
VerifyCode(t, c, r) ==
  /\ Asks(t, c, "verify") /\ workload.table = "devices"
  /\ card[t] = "input"
  /\ Put(t, c, [NewCall(t, "verify") EXCEPT !.row = r])
  /\ UNCHANGED <<session, tab, data, faults, raced, workload>>

DecideCode(t, c, r) ==
  /\ Asks(t, c, "decide") /\ workload.table = "devices"
  /\ card[t] = "review" /\ Under(t, {"decide"}) = {}
  /\ Put(t, c, [NewCall(t, "decide") EXCEPT !.row = r])
  /\ UNCHANGED <<session, tab, data, faults, raced, workload>>

(*------------------------- answers reach the hooks ------------------------*)

Back(t, c, op) == call[t][c] # None /\ call[t][c].at = "back" /\ call[t][c].op = op
End(t, c) == Put(t, c, None)

(* Signed out, the pages are unmounted and what they hold is gone. *)
Leave(t) ==
  /\ user' = [user EXCEPT ![t] = FALSE]
  /\ token' = [token EXCEPT ![t] = "none"]
  /\ shown' = [shown EXCEPT ![t] = None]
  /\ list' = [list EXCEPT ![t] = None]
  /\ card' = [card EXCEPT ![t] = "input"]

(* fetchUser(), and after it the end of initAuth(). *)
EndMe(t, c) ==
  /\ Back(t, c, "me") /\ call[t][c].then # "callback"
  /\ CASE call[t][c].status = "denied" -> Leave(t)
       [] call[t][c].status = "ok" ->
            user' = [user EXCEPT ![t] = TRUE] /\ UNCHANGED <<token, shown, list, card>>
       [] OTHER -> UNCHANGED <<user, token, shown, list, card>>
  /\ loading' = [loading EXCEPT ![t] = @ /\ call[t][c].then # "boot"]
  /\ End(t, c)
  /\ UNCHANGED <<session, refresh, at, doc, rows, want, faults, raced, workload>>

(* The callback page goes on to the page asked for, where initAuth() is made up  *)
(* for, or shows an error that leads to the login page as a new document.        *)
EndCallback(t, c) ==
  /\ Back(t, c, "me") /\ call[t][c].then = "callback"
  /\ IF call[t][c].status = "ok"
     THEN /\ user' = [user EXCEPT ![t] = TRUE]
          /\ at' = [at EXCEPT ![t] = "app"]
          /\ Put(t, c, [NewCall(t, "boot") EXCEPT !.at = "wait"])
          /\ AskRefresh(t)
          /\ UNCHANGED <<token, loading, shown, list, card>>
     ELSE /\ Leave(t)
          /\ at' = [at EXCEPT ![t] = "new"]
          /\ loading' = [loading EXCEPT ![t] = TRUE]
          /\ End(t, c)
          /\ UNCHANGED <<refresh, raced>>
  /\ UNCHANGED <<session, doc, rows, want, faults, workload>>

EndBoot(t, c) ==
  /\ Back(t, c, "boot")
  /\ loading' = [loading EXCEPT ![t] = FALSE]
  /\ End(t, c)
  /\ UNCHANGED <<session, token, refresh, user, at, data, faults, raced, workload, card>>

(* logout() leaves whatever the server says; the answer takes the cookie away. *)
EndLogout(t, c) ==
  /\ Back(t, c, "logout")
  /\ jar' = IF call[t][c].status = "ok" THEN 0 ELSE jar
  /\ Leave(t)
  /\ End(t, c)
  /\ UNCHANGED <<live, made, refresh, loading, at, doc, rows, want, faults, raced, workload>>

(* setSettings() of a page that is gone does nothing. *)
Show(t, x) ==
  shown' = IF x.status = "ok" /\ user[t] THEN [shown EXCEPT ![t] = x.got] ELSE shown

EndLoad(t, c) ==
  /\ Back(t, c, "load")
  /\ Show(t, call[t][c])
  /\ End(t, c)
  /\ UNCHANGED <<session, tab, doc, rows, want, list, faults, raced, workload>>

(* A conflict fetches what there is; a profile that was saved fetches the user.  *)
EndSave(t, c) ==
  /\ Back(t, c, "save")
  /\ Show(t, call[t][c])
  /\ CASE call[t][c].status = "conflict" -> Put(t, c, NewCall(t, "load"))
       [] /\ call[t][c].status = "ok" /\ workload.doc = "user"
          /\ call[t][c].patch.group # None -> Put(t, c, NewCall(t, "me"))
       [] OTHER -> End(t, c)
  /\ UNCHANGED <<session, tab, doc, rows, want, list, faults, raced, workload>>

EndList(t, c) ==
  /\ Back(t, c, "list")
  /\ LET x == call[t][c]
     IN  /\ list' = IF ~user[t] THEN list
                    ELSE [list EXCEPT ![t] =
                            IF x.status = "ok" THEN x.got
                            ELSE [query |-> IF @ = None THEN First ELSE @.query,
                                  rows |-> [r \in Rows |-> "none"]]]
         /\ raced' = IF x.status = "ok" THEN raced ELSE raced \cup {"list"}
  /\ End(t, c)
  /\ UNCHANGED <<session, tab, doc, shown, rows, want, faults, workload>>

EndEdit(t, c) ==
  /\ Back(t, c, "add") \/ Back(t, c, "remove")
  /\ IF call[t][c].status = "ok"
     THEN /\ Put(t, c, [NewCall(t, "list") EXCEPT !.query = call[t][c].query])
          /\ raced' = raced \cup (IF Under(t, {"list"}) # {} THEN {"list"} ELSE {})
     ELSE End(t, c) /\ UNCHANGED raced
  /\ UNCHANGED <<session, tab, data, faults, workload>>

(* The row that changed is put in its place. *)
EndToggle(t, c) ==
  /\ Back(t, c, "toggle")
  /\ LET x == call[t][c]
     IN  list' = IF x.status # "ok" \/ list[t] = None THEN list
                 ELSE [list EXCEPT ![t].rows[x.row] = IF @ = "none" THEN @ ELSE x.got.row]
  /\ End(t, c)
  /\ UNCHANGED <<session, tab, doc, shown, rows, want, faults, raced, workload>>

EndCode(t, c) ==
  /\ Back(t, c, "verify") \/ Back(t, c, "decide")
  /\ card' = IF call[t][c].status # "ok" \/ ~user[t] THEN card
             ELSE [card EXCEPT ![t] = IF call[t][c].op = "verify" THEN "review" ELSE "done"]
  /\ End(t, c)
  /\ UNCHANGED <<session, token, refresh, user, loading, at, data, faults, raced, workload>>

Handle(t, c) ==
  \/ Denied(t, c) \/ EndMe(t, c) \/ EndCallback(t, c) \/ EndBoot(t, c)
  \/ EndLogout(t, c) \/ EndLoad(t, c) \/ EndSave(t, c) \/ EndList(t, c)
  \/ EndEdit(t, c) \/ EndToggle(t, c) \/ EndCode(t, c)
Serves(t, c) == Serve(t, c) \/ PatchSettings(t, c) \/ WriteRow(t, c)
Acts(t, c) ==
  \/ Boot(t, c) \/ SignIn(t, c) \/ Logout(t, c) \/ LoadSettings(t, c)
  \/ \E o \in 0..1, g \in SUBSET Items :
       SaveInterface(t, c, o) \/ SaveTheme(t, c, o) \/ SaveJson(t, c, o, g)
  \/ \E g \in SUBSET Items : SaveFlags(t, c, g) \/ SaveProfile(t, c, g)
  \/ \E q \in Query : Browse(t, c, q)
  \/ \E r \in Rows :
       \/ AddEmail(t, c, r) \/ RemoveEmail(t, c, r) \/ CreateToken(t, c, r)
       \/ RevokeToken(t, c, r) \/ ToggleActive(t, c, r)
       \/ VerifyCode(t, c, r) \/ DecideCode(t, c, r)

WebNext ==
  \/ \E t \in Tabs, c \in Calls : Acts(t, c) \/ Serves(t, c) \/ Handle(t, c) \/ Lost(t, c)
  \/ \E t \in Tabs : ServeRefresh(t) \/ EndRefresh(t) \/ LostRefresh(t) \/ Lapse(t)
  \/ \E r \in Rows : CleanupTokens(r)

(* A request that is not lost is answered, and a browser handles its answers. *)
WebFairness ==
  /\ \A t \in Tabs, c \in Calls : WF_webVars(Serves(t, c)) /\ WF_webVars(Handle(t, c))
  /\ \A t \in Tabs : WF_webVars(ServeRefresh(t)) /\ WF_webVars(EndRefresh(t))

WebSpec == WebInit /\ [][WebNext]_webVars /\ WebFairness

(*------------------------------- properties -------------------------------*)

WebTypeOK ==
  /\ workload \in Workloads
  /\ live \subseteq 1..MaxGen /\ made \in 1..MaxGen /\ jar \in 0..MaxGen
  /\ token \in [Tabs -> {"none", "fresh", "stale"}]
  /\ refresh \in [Tabs -> Refresh \cup {None}]
  /\ user \in [Tabs -> BOOLEAN] /\ loading \in [Tabs -> BOOLEAN]
  /\ at \in [Tabs -> {"new", "app", "callback"}]
  /\ card \in [Tabs -> {"input", "review", "done"}]
  /\ call \in [Tabs -> [Calls -> Call \cup {None}]]
  /\ doc \in Doc /\ shown \in [Tabs -> Doc \cup {None}]
  /\ rows \in [Rows -> Status]
  /\ want \in [Tabs -> Query] /\ list \in [Tabs -> List \cup {None}]
  /\ faults \in 0..MaxFaults /\ raced \subseteq {"refresh", "logout", "save", "list", "search"}

(* However many requests of a tab are refused at once, the session survives: the *)
(* token in the cookie is one the server accepts, or the answer that replaces it *)
(* is on its way.  What ends it is a logout, two tabs that refresh with one      *)
(* cookie at the same time, a logout that a refresh overlaps, or a lost answer.  *)
KeepsSession ==
  \/ jar \in live \cup {0}
  \/ \E t \in Tabs : refresh[t] # None /\ refresh[t].at = "back" /\ refresh[t].ok
                     /\ refresh[t].gen = jar /\ refresh[t].new \in live
  \/ \E t \in Tabs : Under(t, {"logout"}) # {}
  \/ faults > 0 \/ {"refresh", "logout"} \cap raced # {}

(* A save is made over the settings its page showed, unless another save was     *)
(* between its look at the version and its write.                                *)
SavesOverSeen ==
  [][doc' # doc => \/ "save" \in raced
                   \/ \E t \in Tabs : \E c \in Under(t, {"save"}) :
                        call'[t][c] # call[t][c] /\ call[t][c].seen = doc.version]_webVars

(* At rest, the list of a tab is the one of the page and the search it shows,    *)
(* unless two fetches overlapped, one failed, or a table was edited in a search. *)
ListIsOfQuery ==
  \A t \in Tabs :
    \/ list[t] = None \/ Under(t, Ops) # {} \/ "list" \in raced
    \/ /\ list[t].query.page = want[t].page
       /\ list[t].query.search = want[t].search \/ "search" \in raced

=============================================================================
