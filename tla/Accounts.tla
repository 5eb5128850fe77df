------------------------------ MODULE Accounts ------------------------------
(* Who may use the API server, and with which tokens: apps/api/src/auth,        *)
(* device-auth, users, allowlist, test-auth and the bootstrap of the first      *)
(* administrator.  Each request is a few awaited calls to the database, between *)
(* which the other requests run; the guards look at the caller's row once, as   *)
(* the request begins.  There are no transactions but the one that creates a    *)
(* user and the one that replaces roles, each a single step here.               *)
(* A user is its email address.  An access token is a signed statement that the *)
(* server keeps no record of: any user whose row exists may hold one.           *)
EXTENDS Integers, Sequences, FiniteSets

CONSTANTS Emails,
          InitialAdmin,   \* INITIAL_ADMIN_EMAIL
          Clients,        \* cookie jars and devices: what holds a refresh token
          Codes,          \* device codes
          Requests,       \* requests the server works on at a time
          Workloads,      \* what a behaviour may have: see Workload
          None,
          MaxTokens,      \* bound on refresh tokens ever created
          MaxFaults       \* bound on failed calls, lost answers and restarts

VARIABLES workload,   \* what the behaviour may have, chosen once
          account,    \* tables users, user_identities and user_roles
          allowed,    \* table allowed_emails
          tokens,     \* table refresh_tokens, with the rows deleted since
          codes,      \* table device_codes
          polled,     \* pollTimestamps: codes polled within the interval
          held,       \* the refresh token each client sends
          task,       \* where each request has got to
          faults,
          met,        \* kinds of requests that have overlapped on one subject
          shares,     \* good tokens each login is entitled to
          everywhere, \* users all whose tokens were revoked
          credit      \* approvals of a code, less the tokens it was exchanged for

db == <<account, allowed, tokens, codes, polled>>
history == <<met, shares, everywhere, credit>>
vars == <<workload, db, held, task, faults, history>>

Account == [active : BOOLEAN, admin : BOOLEAN, linked : BOOLEAN]
(* line: the login that the token descends from by rotation. *)
Token   == [user : Emails, line : 1..MaxTokens, state : {"live", "revoked", "gone"},
            lapsed : BOOLEAN]
Code    == [status : {"unused", "pending", "approved", "denied", "expired", "gone"},
            user : Emails \cup {None}, late : BOOLEAN]

Ops == {"login", "testLogin", "refresh", "logout", "logoutAll",
        "device", "poll", "approve", "deny", "revokeDevice",
        "activate", "deactivate", "promote", "demote", "invite", "uninvite"}
Events == {"lapse", "fault"}

(* The operations asked for and the events that come, the users who have signed  *)
(* up before, the clients, and the bound on refresh tokens.                      *)
Workload == [ops : SUBSET (Ops \cup Events), users : SUBSET Emails,
             clients : SUBSET Clients, tokens : 0..MaxTokens]

(* user: whom the request acts for or on; token: the one sent, then the one     *)
(* made; code: the device code; seen: the row of the user as it was read.       *)
Stages == {"allowlist", "identity", "byEmail", "link", "bootstrap", "create", "claimFind",
           "claim", "roles", "issue", "find", "rotate", "renew", "revoke", "revokeAll",
           "exchange", "mark", "answer", "clear", "decide", "write", "entry", "edit"}
Task == [op : Ops, at : Stages, client : Clients \cup {None}, user : Emails \cup {None},
         token : 0..MaxTokens, code : Codes \cup {None}, seen : Account]

ASSUME AccountsAssumption ==
  /\ InitialAdmin \in Emails
  /\ None \notin Emails \cup Clients \cup Codes \cup Account \cup Task
  /\ MaxTokens \in Nat /\ MaxFaults \in Nat
  /\ IsFiniteSet(Requests)
  /\ Workloads \subseteq Workload

Nobody == [active |-> FALSE, admin |-> FALSE, linked |-> FALSE]

Init ==
  /\ workload \in Workloads
  /\ account = [e \in Emails |-> IF e \in workload.users
                                 THEN [active |-> TRUE, linked |-> TRUE,
                                       admin |-> e = InitialAdmin]
                                 ELSE None]
  /\ allowed = [e \in Emails |-> IF e \in workload.users THEN "claimed" ELSE "no"]
  /\ tokens = <<>>
  /\ codes = [k \in Codes |-> [status |-> "unused", user |-> None, late |-> FALSE]]
  /\ polled = {}
  /\ held = [c \in Clients |-> 0]
  /\ task = [r \in Requests |-> None]
  /\ faults = 0
  /\ met = {}
  /\ shares = [l \in 1..MaxTokens |-> 1]
  /\ everywhere = {}
  /\ credit = [k \in Codes |-> 0]

(*--------------------------- requests and calls ---------------------------*)

Under(ops) == {r \in Requests : task[r] # None /\ task[r].op \in ops}
IsAdmin(e) == account[e] # None /\ account[e].active /\ account[e].admin
SignedIn(e) == account[e] # None /\ account[e].active

(* What arrives with it: from a client, for a user, a token or a code.          *)
NewTask(op, at, c, e, t, k) ==
  [op |-> op, at |-> at, client |-> c, user |-> e, token |-> t, code |-> k, seen |-> Nobody]

(* A request arrives; overlaps is the set of kinds it makes overlap. *)
Start(r, t, overlaps) ==
  /\ t.op \in workload.ops
  /\ task[r] = None
  /\ task' = [task EXCEPT ![r] = t]
  /\ met' = met \cup overlaps

At(r, at) == task[r] # None /\ task[r].at = at
Goto(r, at) == task' = [task EXCEPT ![r].at = at]
End(r) == task' = [task EXCEPT ![r] = None]

(* A call that throws, or an early return, ends the request with an error. *)
Refuse(r) == End(r) /\ UNCHANGED <<db, held, faults, history, workload>>

(* Between two calls. *)
Reading == UNCHANGED <<db, held, faults, history, workload>>
Writing == UNCHANGED <<held, faults, workload>>

AllRevoked(e) ==
  [t \in DOMAIN tokens |->
     IF tokens[t].user = e /\ tokens[t].state = "live"
     THEN [tokens[t] EXCEPT !.state = "revoked"] ELSE tokens[t]]

(* updateMany(): no error when no row matches. *)
Revoked(t, e) ==
  IF t \in DOMAIN tokens /\ tokens[t].user = e /\ tokens[t].state # "gone"
  THEN [tokens EXCEPT ![t].state = "revoked"] ELSE tokens

(* createRefreshToken(): of the line of token t, or of one of its own. *)
Issue(r, e, t) ==
  LET n == Len(tokens) + 1
  IN  /\ n <= workload.tokens
      /\ tokens' = Append(tokens, [user |-> e, state |-> "live", lapsed |-> FALSE,
                                   line |-> IF t = 0 THEN n ELSE tokens[t].line])
      /\ task' = [task EXCEPT ![r].token = n, ![r].at =
                    IF task[r].op = "poll" THEN "mark" ELSE "answer"]

(*------------------------------ Google login ------------------------------*)

Login(r, c, e) ==
  /\ Start(r, NewTask("login", "allowlist", c, e, 0, None),
           IF \E s \in Under({"uninvite", "testLogin"}) : task[s].user = e
           THEN {"invite"} ELSE {})
  /\ UNCHANGED <<db, held, faults, shares, everywhere, credit, workload>>

CheckAllowed(r) ==
  /\ At(r, "allowlist")
  /\ IF allowed[task[r].user] = "no" /\ task[r].user # InitialAdmin
     THEN Refuse(r) ELSE Goto(r, "identity") /\ Reading

Saw(r, at) ==
  task' = [task EXCEPT ![r].at = at, ![r].seen = account[task[r].user]]

FindIdentity(r) ==
  /\ At(r, "identity")
  /\ LET a == account[task[r].user]
     IN  IF a # None /\ a.linked THEN Saw(r, "issue") ELSE Goto(r, "byEmail")
  /\ Reading

FindByEmail(r) ==
  /\ At(r, "byEmail")
  /\ IF account[task[r].user] # None THEN Saw(r, "link") ELSE Goto(r, "bootstrap")
  /\ Reading

(* The identity of a Google account is unique: the second of two fails. *)
LinkIdentity(r) ==
  /\ At(r, "link")
  /\ IF account[task[r].user].linked THEN Refuse(r)
     ELSE /\ account' = [account EXCEPT ![task[r].user].linked = TRUE]
          /\ Goto(r, "issue")
          /\ Writing /\ UNCHANGED <<allowed, tokens, codes, polled, history>>

(* shouldGrantAdminRole(), before the transaction that creates the user. *)
Bootstrap(r) ==
  /\ At(r, "bootstrap")
  /\ task' = [task EXCEPT ![r].at = "create", ![r].seen =
                [active |-> TRUE, linked |-> TRUE,
                 admin |-> task[r].user = InitialAdmin /\ ~\E e \in Emails : IsAdmin(e)]]
  /\ Reading

(* Emails are unique: the second of two first logins fails. *)
CreateUser(r) ==
  /\ At(r, "create")
  /\ IF account[task[r].user] # None THEN Refuse(r)
     ELSE /\ account' = [account EXCEPT ![task[r].user] = task[r].seen]
          /\ Goto(r, IF task[r].op = "login" THEN "claimFind" ELSE "roles")
          /\ Writing /\ UNCHANGED <<allowed, tokens, codes, polled, history>>

FindClaim(r) ==
  /\ At(r, "claimFind")
  /\ Goto(r, IF allowed[task[r].user] = "open" THEN "claim" ELSE "issue")
  /\ Reading

Claim(r) ==
  /\ At(r, "claim")
  /\ IF allowed[task[r].user] = "no" THEN Refuse(r)
     ELSE /\ allowed' = [allowed EXCEPT ![task[r].user] = "claimed"]
          /\ Goto(r, "issue")
          /\ Writing /\ UNCHANGED <<account, tokens, codes, polled, history>>

(* The user as it was read must be active; a test login does not look.          *)
GrantLogin(r) ==
  /\ At(r, "issue") /\ task[r].op \in {"login", "testLogin"}
  /\ IF task[r].op = "login" /\ ~task[r].seen.active THEN Refuse(r)
     ELSE /\ Issue(r, task[r].user, 0)
          /\ Writing /\ UNCHANGED <<account, allowed, codes, polled, history>>

(* loginAsTestUser(), which development and test servers have. *)
TestLogin(r, c, e, admin) ==
  /\ Start(r, [NewTask("testLogin", IF account[e] = None THEN "create" ELSE "roles", c, e, 0, None)
                 EXCEPT !.seen = [active |-> TRUE, admin |-> admin, linked |-> FALSE]],
           {"invite", "admin"})
  /\ UNCHANGED <<db, held, faults, shares, everywhere, credit, workload>>

TestRoles(r) ==
  /\ At(r, "roles")
  /\ account' = [account EXCEPT ![task[r].user].admin = task[r].seen.admin]
  /\ Goto(r, "issue")
  /\ Writing /\ UNCHANGED <<allowed, tokens, codes, polled, history>>

(*------------------------------ refresh tokens ----------------------------*)

(* The cookie goes with the request as it is when the request is sent.          *)
Refresh(r, c) ==
  /\ held[c] # 0
  /\ Start(r, NewTask("refresh", "find", c, None, held[c], None),
           IF \E s \in Under({"refresh", "logout", "login", "poll"}) : task[s].client = c
           THEN {"client"} ELSE {})
  /\ UNCHANGED <<db, held, faults, shares, everywhere, credit, workload>>

FindToken(r) ==
  /\ At(r, "find") /\ task[r].op = "refresh"
  /\ LET t == tokens[task[r].token]
     IN  CASE t.state = "gone" -> Refuse(r)
           [] t.state = "revoked" ->
                task' = [task EXCEPT ![r].at = "revokeAll", ![r].user = t.user] /\ Reading
           [] t.state = "live" /\ (t.lapsed \/ ~account[t.user].active) -> Refuse(r)
           [] OTHER ->
                task' = [task EXCEPT ![r].at = "rotate", ![r].user = t.user] /\ Reading

(* Mutation: the token that was presented stays good after its rotation. *)
Rotate_keeps(r) == At(r, "rotate") /\ Goto(r, "renew") /\ Reading

(* The row may be gone, if the cleanup found it expired or revoked meanwhile.  It *)
(* may also have been revoked since it was found: update() looks at the id only. *)
Rotate(r) ==
  /\ At(r, "rotate")
  /\ LET t == tokens[task[r].token]
     IN  IF t.state = "gone" THEN Refuse(r)
         ELSE /\ tokens' = [tokens EXCEPT ![task[r].token].state = "revoked"]
              /\ shares' = [shares EXCEPT ![t.line] = IF t.state = "live" THEN @ ELSE @ + 1]
              /\ Goto(r, "renew")
              /\ Writing
              /\ UNCHANGED <<account, allowed, codes, polled, met, everywhere, credit>>

Renew(r) ==
  /\ At(r, "renew")
  /\ Issue(r, task[r].user, task[r].token)
  /\ Writing /\ UNCHANGED <<account, allowed, codes, polled, history>>

(* A token that was revoked is presented: all the tokens of its user go.        *)
RevokeAll(r) ==
  /\ At(r, "revokeAll")
  /\ tokens' = AllRevoked(task[r].user)
  /\ everywhere' = everywhere \cup {task[r].user}
  /\ IF task[r].op = "refresh" THEN End(r) ELSE Goto(r, "clear")
  /\ Writing /\ UNCHANGED <<account, allowed, codes, polled, met, shares, credit>>

(* logout() and logoutAll() of the user whose access token a tab holds, with the *)
(* cookie of its browser, which may be that of another user by now.              *)
Logout(r, c, e, op) ==
  /\ op \in {"logout", "logoutAll"}
  /\ SignedIn(e)
  /\ Start(r, NewTask(op, IF op = "logout" /\ held[c] # 0 THEN "revoke" ELSE "revokeAll",
                      c, e, held[c], None),
           IF \E s \in Under({"refresh", "logout", "login", "poll"}) : task[s].client = c
           THEN {"client"} ELSE {})
  /\ UNCHANGED <<db, held, faults, shares, everywhere, credit, workload>>

RevokeOne(r) ==
  /\ At(r, "revoke") /\ task[r].op = "logout"
  /\ tokens' = Revoked(task[r].token, task[r].user)
  /\ LET t == tokens[task[r].token]
     IN shares' = [shares EXCEPT ![t.line] =
                     IF t.state = "live" /\ t.user = task[r].user THEN @ - 1 ELSE @]
  /\ Goto(r, "clear")
  /\ Writing /\ UNCHANGED <<account, allowed, codes, polled, met, everywhere, credit>>

(* Mutation: the answer to a refresh leaves the cookie as it was. *)
Answer_sameCookie(r) ==
  /\ At(r, "answer") \/ At(r, "clear")
  /\ held' = [held EXCEPT ![task[r].client] =
                IF At(r, "clear") THEN 0
                ELSE IF task[r].op = "refresh" THEN @ ELSE task[r].token]
  /\ End(r)
  /\ UNCHANGED <<db, faults, history, workload>>

(* The answer sets the cookie of a browser, or reaches the device.              *)
Answer(r) ==
  /\ At(r, "answer") \/ At(r, "clear")
  /\ held' = [held EXCEPT ![task[r].client] =
                IF At(r, "clear") THEN 0 ELSE task[r].token]
  /\ End(r)
  /\ UNCHANGED <<db, faults, history, workload>>

(*------------------------------- device codes -----------------------------*)

GenerateCode(k) ==
  /\ "device" \in workload.ops
  /\ codes[k].status = "unused"
  /\ codes' = [codes EXCEPT ![k].status = "pending"]
  /\ UNCHANGED <<account, allowed, tokens, polled, held, task, faults, history, workload>>

(* Polls of one code within the interval are refused (slow_down) and not shown. *)
Poll(r, c, k) ==
  /\ codes[k].status # "unused"
  /\ k \notin polled
  /\ polled' = polled \cup {k}
  /\ Start(r, NewTask("poll", "find", c, None, 0, k),
           (IF \E s \in Under({"poll"}) : task[s].code = k THEN {"poll"} ELSE {}) \cup
           (IF \E s \in Under({"refresh", "logout", "login", "poll"}) : task[s].client = c
            THEN {"client"} ELSE {}))
  /\ UNCHANGED <<account, allowed, tokens, codes, held, faults, shares, everywhere, credit,
                 workload>>

FindPolled(r) ==
  /\ At(r, "find") /\ task[r].op = "poll"
  /\ LET k == codes[task[r].code]
     IN  CASE k.status = "gone" -> Refuse(r)
           [] k.status # "gone" /\ k.late -> Goto(r, "mark") /\ Reading
           [] k.status = "approved" /\ ~k.late ->
                task' = [task EXCEPT ![r].at = "exchange", ![r].user = k.user] /\ Reading
           [] OTHER -> Refuse(r)

(* The tokens of an approved device: its user need not be active any more.      *)
Exchange(r) ==
  /\ At(r, "exchange")
  /\ Issue(r, task[r].user, 0)
  /\ credit' = [credit EXCEPT ![task[r].code] = @ - 1]
  /\ Writing /\ UNCHANGED <<account, allowed, codes, polled, met, shares, everywhere>>

(* Mutation: the code that was exchanged stays approved. *)
MarkUsed_not(r) ==
  /\ At(r, "mark")
  /\ polled' = polled \ {task[r].code}
  /\ IF task[r].token = 0 THEN End(r) ELSE Goto(r, "answer")
  /\ Writing /\ UNCHANGED <<account, allowed, tokens, codes, history>>

(* The code becomes expired when it is late, or has been exchanged.             *)
MarkUsed(r) ==
  /\ At(r, "mark")
  /\ IF codes[task[r].code].status = "gone" THEN Refuse(r)
     ELSE /\ codes' = [codes EXCEPT ![task[r].code].status = "expired"]
          /\ IF task[r].token = 0
             THEN End(r) /\ UNCHANGED polled
             ELSE Goto(r, "answer") /\ polled' = polled \ {task[r].code}
          /\ Writing /\ UNCHANGED <<account, allowed, tokens, history>>

(* authorizeDevice() and revokeDeviceSession(). *)
Decide(r, e, k, op) ==
  /\ op \in {"approve", "deny", "revokeDevice"}
  /\ SignedIn(e)
  /\ codes[k].status # "unused"
  /\ Start(r, NewTask(op, "find", None, e, 0, k),
           IF \E s \in Under({"approve", "deny", "revokeDevice"}) : task[s].code = k
           THEN {"decide"} ELSE {})
  /\ UNCHANGED <<db, held, faults, shares, everywhere, credit, workload>>

(* An expired status is no obstacle, only an expired date is.                   *)
Decidable(k, op, e) ==
  IF op = "revokeDevice" THEN k.status # "gone" /\ k.user = e
  ELSE ~k.late /\ k.status \in {"pending", "expired"}

FindDecided(r) ==
  /\ At(r, "find") /\ task[r].op \in {"approve", "deny", "revokeDevice"}
  /\ IF Decidable(codes[task[r].code], task[r].op, task[r].user)
     THEN Goto(r, "decide") /\ Reading ELSE Refuse(r)

WriteDecision(r) ==
  /\ At(r, "decide")
  /\ LET k == task[r].code  op == task[r].op
     IN  IF codes[k].status = "gone" THEN Refuse(r)
         ELSE /\ codes' = [codes EXCEPT
                   ![k].status = IF op = "approve" THEN "approved" ELSE "denied",
                   ![k].user = CASE op = "approve" -> task[r].user
                                 [] op = "deny" -> None
                                 [] OTHER -> @]
              /\ credit' = [credit EXCEPT ![k] = IF op = "approve" THEN @ + 1 ELSE @]
              /\ End(r)
              /\ Writing /\ UNCHANGED <<account, allowed, tokens, polled, met, shares, everywhere>>

(*------------------------------ administration ----------------------------*)

(* Mutation: administrators may take away from themselves. *)
Administer_self(r, a, e, op) ==
  /\ op \in {"activate", "deactivate", "promote", "demote"}
  /\ IsAdmin(a)
  /\ account[e] # None
  /\ Start(r, NewTask(op, "write", None, e, 0, None),
           IF Under({"activate", "deactivate", "promote", "demote"}) # {}
           THEN {"admin"} ELSE {})
  /\ UNCHANGED <<db, held, faults, shares, everywhere, credit, workload>>

(* updateUser() and updateUserRoles() of e by the administrator a, who may not  *)
(* take away from itself.  RolesGuard has read a's row.                         *)
Administer(r, a, e, op) ==
  /\ op \in {"activate", "deactivate", "promote", "demote"}
  /\ IsAdmin(a)
  /\ account[e] # None
  /\ op \in {"deactivate", "demote"} => a # e
  /\ Start(r, NewTask(op, "write", None, e, 0, None),
           IF Under({"activate", "deactivate", "promote", "demote"}) # {}
           THEN {"admin"} ELSE {})
  /\ UNCHANGED <<db, held, faults, shares, everywhere, credit, workload>>

WriteUser(r) ==
  /\ At(r, "write")
  /\ LET op == task[r].op
     IN account' = [account EXCEPT
          ![task[r].user].active = CASE op = "activate" -> TRUE
                                     [] op = "deactivate" -> FALSE [] OTHER -> @,
          ![task[r].user].admin = CASE op = "promote" -> TRUE
                                    [] op = "demote" -> FALSE [] OTHER -> @]
  /\ End(r)
  /\ Writing /\ UNCHANGED <<allowed, tokens, codes, polled, history>>

(* addEmail() and removeEmail() by an administrator. *)
EditAllowlist(r, a, e, op) ==
  /\ op \in {"invite", "uninvite"}
  /\ IsAdmin(a)
  /\ Start(r, NewTask(op, "entry", None, e, 0, None),
           IF op = "uninvite" /\ \E s \in Under({"login", "testLogin"}) : task[s].user = e
           THEN {"invite"} ELSE {})
  /\ UNCHANGED <<db, held, faults, shares, everywhere, credit, workload>>

FindEntry(r) ==
  /\ At(r, "entry")
  /\ IF allowed[task[r].user] = (IF task[r].op = "invite" THEN "no" ELSE "open")
     THEN Goto(r, "edit") /\ Reading ELSE Refuse(r)

(* Of two that add one email, or remove one entry, the second fails.            *)
WriteEntry(r) ==
  /\ At(r, "edit")
  /\ LET e == task[r].user
     IN  IF (allowed[e] = "no") # (task[r].op = "invite") THEN Refuse(r)
         ELSE /\ allowed' = [allowed EXCEPT ![e] = IF @ = "no" THEN "open" ELSE "no"]
              /\ End(r)
              /\ Writing /\ UNCHANGED <<account, tokens, codes, polled, history>>

(*---------------------- time, scheduled tasks, faults ---------------------*)

TokenLapses(t) ==
  /\ "lapse" \in workload.ops
  /\ tokens[t].state # "gone" /\ ~tokens[t].lapsed
  /\ tokens' = [tokens EXCEPT ![t].lapsed = TRUE]
  /\ UNCHANGED <<account, allowed, codes, polled, held, task, faults, history, workload>>

CodeLapses(k) ==
  /\ "lapse" \in workload.ops
  /\ codes[k].status \notin {"unused", "gone"} /\ ~codes[k].late
  /\ codes' = [codes EXCEPT ![k].late = TRUE]
  /\ UNCHANGED <<account, allowed, tokens, polled, held, task, faults, history, workload>>

PollInterval(k) ==
  /\ k \in polled
  /\ polled' = polled \ {k}
  /\ UNCHANGED <<account, allowed, tokens, codes, held, task, faults, history, workload>>

(* TokenCleanupTask: expired and revoked tokens, every day.                     *)
CleanupTokens ==
  /\ \E t \in DOMAIN tokens : tokens[t].state = "revoked" \/
                              (tokens[t].state = "live" /\ tokens[t].lapsed)
  /\ tokens' = [t \in DOMAIN tokens |->
                  IF tokens[t].state = "revoked" \/ tokens[t].lapsed
                  THEN [tokens[t] EXCEPT !.state = "gone"] ELSE tokens[t]]
  /\ UNCHANGED <<account, allowed, codes, polled, held, task, faults, history, workload>>

(* DeviceCodeCleanupTask: late codes; used ones a day later, when they are late.*)
CleanupCodes ==
  /\ \E k \in Codes : codes[k].late /\ codes[k].status # "gone"
  /\ codes' = [k \in Codes |->
                 IF codes[k].late THEN [codes[k] EXCEPT !.status = "gone"] ELSE codes[k]]
  /\ UNCHANGED <<account, allowed, tokens, polled, held, task, faults, history, workload>>

(* A call that fails, or an answer that is lost. *)
Fail(r) ==
  /\ "fault" \in workload.ops
  /\ faults < MaxFaults
  /\ task[r] # None
  /\ faults' = faults + 1
  /\ End(r)
  /\ UNCHANGED <<db, held, history, workload>>

(* The process ends: its requests, and the times of polls, are forgotten.       *)
Restart ==
  /\ "fault" \in workload.ops
  /\ faults < MaxFaults
  /\ faults' = faults + 1
  /\ task' = [r \in Requests |-> None]
  /\ polled' = {}
  /\ UNCHANGED <<account, allowed, tokens, codes, held, history, workload>>

Continue(r) ==
  \/ CheckAllowed(r) \/ FindIdentity(r) \/ FindByEmail(r) \/ LinkIdentity(r)
  \/ Bootstrap(r) \/ CreateUser(r) \/ FindClaim(r) \/ Claim(r) \/ GrantLogin(r)
  \/ TestRoles(r)
  \/ FindToken(r) \/ Rotate(r) \/ Renew(r) \/ RevokeAll(r) \/ RevokeOne(r) \/ Answer(r)
  \/ FindPolled(r) \/ Exchange(r) \/ MarkUsed(r) \/ FindDecided(r) \/ WriteDecision(r)
  \/ WriteUser(r) \/ FindEntry(r) \/ WriteEntry(r)

Arrive(r) ==
  \/ \E c \in workload.clients :
       \/ Refresh(r, c)
       \/ \E e \in Emails :
            \/ Login(r, c, e)
            \/ \E admin \in BOOLEAN : TestLogin(r, c, e, admin)
            \/ \E op \in Ops : Logout(r, c, e, op)
       \/ \E k \in Codes : Poll(r, c, k)
  \/ \E e \in Emails, op \in Ops :
       \/ \E k \in Codes : Decide(r, e, k, op)
       \/ \E a \in Emails : Administer(r, a, e, op) \/ EditAllowlist(r, a, e, op)

Next ==
  \/ \E r \in Requests : Arrive(r) \/ Continue(r) \/ Fail(r)
  \/ \E k \in Codes : GenerateCode(k) \/ CodeLapses(k) \/ PollInterval(k)
  \/ \E t \in DOMAIN tokens : TokenLapses(t)
  \/ CleanupTokens \/ CleanupCodes \/ Restart

Spec == Init /\ [][Next]_vars

(*------------------------------- properties -------------------------------*)

TypeOK ==
  /\ workload \in Workloads
  /\ account \in [Emails -> Account \cup {None}]
  /\ allowed \in [Emails -> {"no", "open", "claimed"}]
  /\ tokens \in Seq(Token) /\ Len(tokens) <= MaxTokens
  /\ codes \in [Codes -> Code]
  /\ polled \subseteq Codes
  /\ held \in [Clients -> 0..Len(tokens)]
  /\ task \in [Requests -> Task \cup {None}]
  /\ \A r \in Requests : task[r] # None => task[r].token \in 0..Len(tokens)
  /\ faults \in 0..MaxFaults
  /\ shares \in [1..MaxTokens -> Int]
  /\ everywhere \subseteq Emails
  /\ credit \in [Codes -> Int]

Live(l) == {t \in DOMAIN tokens : tokens[t].line = l /\ tokens[t].state = "live"}

(* Whatever overlaps, fails or restarts, a login has no more good tokens than it *)
(* is entitled to: one; one more for each refresh that rotated a token which had *)
(* been taken since it was looked up, as overlapping refreshes of one client do; *)
(* and one fewer, so none as a rule, for each logout that found its own user's   *)
(* token good.  A logout with the cookie of another user, or after a refresh took *)
(* the token, ends nothing.  Rotation moves the right to go on: only a rotation  *)
(* that comes too late copies it.                                                *)
OneLivePerLogin == \A l \in 1..Len(tokens) : Cardinality(Live(l)) <= shares[l]

(* A client that has nothing under way, never lost an answer and never sent two  *)
(* requests at a time is not thrown out: the token it holds is the good one of   *)
(* its login until it expires, unless all tokens of its user were revoked.       *)
HonestStays ==
  "client" \notin met /\ faults = 0 =>
    \A c \in Clients :
      held[c] # 0 /\ (\A r \in Requests : task[r] # None => task[r].client # c) =>
        LET t == tokens[held[c]]
        IN t.state = "live" \/ t.lapsed \/ t.user \in everywhere

(* A code is exchanged for tokens once for every time it was approved, however   *)
(* polls, decisions and the cleanup interleave, as long as two polls of it did   *)
(* not overlap and no call failed between the tokens and the mark.               *)
IssuedByApproval ==
  "poll" \notin met /\ faults = 0 => \A k \in Codes : credit[k] >= 0

(* Of the users who could administer somebody remains, as long as no two changes *)
(* of users overlap and no test login replaces roles: an administrator takes     *)
(* away from others only.                                                        *)
AdminRemains ==
  [][(\E e \in Emails : IsAdmin(e)) /\ "admin" \notin met =>
       (\E e \in Emails : IsAdmin(e))']_vars

(*--------------------------- what these rest on ---------------------------*)

(* Where a request of each kind may stand, and what it has by then.             *)
Decisions == {"approve", "deny", "revokeDevice"}
Changes == {"activate", "deactivate", "promote", "demote"}

InStage(t) ==
  \/ /\ t.op = "login" /\ t.token = 0
     /\ t.at \in {"allowlist", "identity", "byEmail", "link", "bootstrap", "create",
                  "claimFind", "claim", "issue"}
  \/ t.op = "testLogin" /\ t.token = 0 /\ t.at \in {"create", "roles", "issue"}
  \/ t.op = "refresh" /\ t.token # 0 /\ t.at \in {"find", "rotate", "revokeAll", "renew"}
  \/ t.op = "logout" /\ t.token # 0 /\ t.at \in {"revoke", "clear"}
  \/ t.op = "logout" /\ t.token = 0 /\ t.at \in {"revokeAll", "clear"}
  \/ t.op = "logoutAll" /\ t.at \in {"revokeAll", "clear"}
  \/ t.op = "poll" /\ t.token = 0 /\ t.at \in {"find", "exchange"}
  \/ t.op = "poll" /\ t.at = "mark"
  \/ t.op \in {"login", "testLogin", "refresh", "poll"} /\ t.token # 0 /\ t.at = "answer"
  \/ t.op \in Decisions /\ t.token = 0 /\ t.at \in {"find", "decide"}
  \/ t.op \in Changes /\ t.token = 0 /\ t.at = "write"
  \/ t.op \in {"invite", "uninvite"} /\ t.token = 0 /\ t.at \in {"entry", "edit"}

Requested(t) ==
  /\ t.op \in {"login", "testLogin", "refresh", "logout", "logoutAll", "poll"} =>
       t.client \in Clients
  /\ t.op \in {"poll"} \cup Decisions => t.code \in Codes
  /\ t.op \in Ops \ {"refresh", "poll"} => t.user \in Emails
  /\ t.at \in {"rotate", "renew", "revokeAll", "exchange"} => t.user \in Emails
  /\ t.at \in {"link", "roles", "write"} => account[t.user] # None

StageInv == \A r \in Requests : task[r] # None => InStage(task[r]) /\ Requested(task[r])

LineInv == \A t \in DOMAIN tokens : tokens[t].line \in DOMAIN tokens

ApproverInv == \A k \in Codes : codes[k].status = "approved" => codes[k].user \in Emails

(* A request that carries the right to go on with a login.                      *)
Owns(r) == task[r] # None /\ task[r].op # "logoutAll" /\ task[r].token # 0
OwnLine(r) == tokens[task[r].token].line
HeldLine(c) == tokens[held[c]].line

Calm == "client" \notin met /\ faults = 0

(* One request or one client goes on with a login, or both when the client is   *)
(* the one that sent the request.                                               *)
OwnersInv ==
  Calm =>
    /\ \A r \in Requests : Owns(r) =>
         /\ \A s \in Requests \ {r} : Owns(s) => OwnLine(s) # OwnLine(r)
         /\ \A c \in Clients : held[c] # 0 /\ HeldLine(c) = OwnLine(r) =>
              task[r].op \in {"refresh", "logout"} /\ task[r].client = c
    /\ \A c, d \in Clients :
         c # d /\ held[c] # 0 /\ held[d] # 0 => HeldLine(c) # HeldLine(d)

Alone(t) == \A u \in DOMAIN tokens :
              tokens[u].line = tokens[t].line /\ tokens[u].state = "live" => u = t
Dead(l) == \A u \in DOMAIN tokens : tokens[u].line = l => tokens[u].state # "live"
Good(t) == tokens[t].state = "live" \/ tokens[t].lapsed \/ tokens[t].user \in everywhere

(* The answer to r will take the place of the token that c holds.               *)
Replaces(r, c) ==
  /\ Owns(r) /\ task[r].client = c /\ task[r].op \in {"refresh", "logout"}
  /\ task[r].at \in {"renew", "answer", "clear"}
  /\ OwnLine(r) = HeldLine(c)

(* What carries the right is good and the only good token of its login, but     *)
(* while it is exchanged, when the login has none, or has been given up.        *)
RightInv ==
  Calm =>
    /\ \A r \in Requests : Owns(r) =>
         /\ task[r].at = "renew" => Dead(OwnLine(r))
         /\ task[r].at \notin {"renew", "clear"} =>
              Alone(task[r].token) /\ Good(task[r].token)
    /\ \A c \in Clients : held[c] # 0 =>
         (Alone(held[c]) /\ Good(held[c])) \/ \E r \in Requests : Replaces(r, c)

(* A token is good, or a refresh is about to make one of it, for each share.     *)
Renewing(l) == {r \in Requests : /\ task[r] # None /\ task[r].op = "refresh"
                                 /\ task[r].at = "renew" /\ OwnLine(r) = l}

SharesInv ==
  \A l \in 1..MaxTokens :
    IF l \in DOMAIN tokens
    THEN Cardinality(Live(l)) + Cardinality(Renewing(l)) <= shares[l]
    ELSE shares[l] = 1

(* While a poll may still exchange a code there is an approval to spend; one that *)
(* has exchanged it will mark it before another poll looks.                      *)
Polls(r, k) == task[r] # None /\ task[r].op = "poll" /\ task[r].code = k
Spent(r) == task[r].at = "mark" /\ task[r].token # 0

PollInv ==
  "poll" \notin met /\ faults = 0 =>
    \A k \in Codes :
      /\ credit[k] >= 0
      /\ \A r \in Requests : Polls(r, k) =>
           /\ \A s \in Requests \ {r} : ~ Polls(s, k)
           /\ task[r].at = "exchange" => credit[k] >= 1
      /\ codes[k].status = "approved" =>
           credit[k] >= 1 \/ \E r \in Requests : Polls(r, k) /\ Spent(r)

(* One change of users at a time, and an administrator besides the user whom it *)
(* takes something away from.                                                   *)
AdminInv ==
  "admin" \notin met =>
    \A r \in Requests : task[r] # None =>
      /\ task[r].op # "testLogin"
      /\ task[r].op \in Changes => \A s \in Requests \ {r} :
           task[s] # None => task[s].op \notin Changes
      /\ task[r].op \in {"deactivate", "demote"} =>
           \E a \in Emails \ {task[r].user} : IsAdmin(a)

IInv ==
  /\ TypeOK /\ StageInv /\ LineInv /\ ApproverInv
  /\ OwnersInv /\ RightInv /\ SharesInv /\ PollInv /\ AdminInv

=============================================================================
