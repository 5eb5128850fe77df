-------------------------- MODULE Accounts_proofs --------------------------
(* The rules of tokens, codes and administrators, for any users, clients, codes, *)
(* requests and workloads.  Most steps leave the right to go on with a login     *)
(* where it is; a step that moves it has a lemma of its own.                     *)
EXTENDS Accounts, FiniteSetTheorems, TLAPS

LEMMA FirstAccounts ==
  Init => account \in [Emails -> Account \cup {None}]
<1>1. ASSUME NEW e \in Emails
      PROVE  [active |-> TRUE, linked |-> TRUE, admin |-> e = InitialAdmin] \in Account
  BY Zenon DEF Account
<1> DEFINE first == [e \in Emails |->
                       IF e \in workload.users
                       THEN [active |-> TRUE, linked |-> TRUE, admin |-> e = InitialAdmin]
                       ELSE None]
<1>2. first \in [Emails -> Account \cup {None}]
  BY <1>1, Zenon
<1>3. Init => account = first
  BY Zenon DEF Init
<1> HIDE DEF first
<1> QED BY <1>2, <1>3

LEMMA InitHolds == Init => IInv
<1> SUFFICES ASSUME Init PROVE IInv
  OBVIOUS
<1> USE AccountsAssumption DEF Init
<1>1. TypeOK
  <2>1. account \in [Emails -> Account \cup {None}]
    BY FirstAccounts
  <2>2. codes \in [Codes -> Code]
    BY DEF Code
  <2>3. /\ workload \in Workloads
        /\ allowed \in [Emails -> {"no", "open", "claimed"}]
        /\ tokens \in Seq(Token) /\ Len(tokens) = 0
        /\ polled = {} /\ everywhere = {} /\ faults = 0
    OBVIOUS
  <2>4. /\ held \in [Clients -> 0..0]
        /\ task \in [Requests -> Task \cup {None}]
        /\ \A r \in Requests : task[r] = None
        /\ credit \in [Codes -> Int] /\ shares \in [1..MaxTokens -> Int]
    OBVIOUS
  <2> HIDE DEF Init
  <2> QED BY <2>1, <2>2, <2>3, <2>4 DEF TypeOK
<1>2. StageInv /\ LineInv /\ ApproverInv
  BY DEF StageInv, LineInv, ApproverInv
<1>3. OwnersInv /\ RightInv
  BY DEF OwnersInv, RightInv, Owns
<1>4. PollInv /\ AdminInv
  BY DEF PollInv, AdminInv, Polls
<1>5. SharesInv
  BY DEF SharesInv
<1> QED BY <1>1, <1>2, <1>3, <1>4, <1>5 DEF IInv

(*------------------------- types, stages, requests ------------------------*)

(* A request that arrives. *)
LEMMA StartKeeps ==
  ASSUME TypeOK, StageInv, NEW r \in Requests, NEW t \in Task, NEW overlaps,
         Start(r, t, overlaps), InStage(t), Requested(t), t.token \in 0..Len(tokens),
         polled' \subseteq Codes,
         UNCHANGED <<workload, account, allowed, tokens, codes, held, faults, shares,
                     everywhere, credit>>
  PROVE  TypeOK' /\ StageInv'
<1> USE DEF TypeOK, Start
<1>1. /\ task' \in [Requests -> Task \cup {None}]
      /\ task'[r] = t /\ \A s \in Requests \ {r} : task'[s] = task[s]
  OBVIOUS
<1>2. TypeOK'
  BY <1>1
<1>3. StageInv'
  BY <1>1 DEF StageInv, Requested
<1> QED BY <1>2, <1>3

(* A request that goes on or ends: users stay. *)
LEMMA StageKeeps ==
  ASSUME TypeOK, StageInv, NEW r \in Requests, NEW t,
         task' = [task EXCEPT ![r] = t],
         t # None => InStage(t) /\ Requested(t)',
         \A e \in Emails : account[e] # None => account'[e] # None
  PROVE  StageInv'
<1> USE DEF TypeOK
<1>1. /\ task'[r] = t /\ \A s \in Requests \ {r} : task'[s] = task[s]
  OBVIOUS
<1>2. ASSUME NEW u \in Task, InStage(u), Requested(u)
      PROVE  Requested(u)'
  <2>1. u.at \in {"link", "roles", "write"} => u.user \in Emails
    BY <1>2 DEF InStage, Requested, Ops, Changes, Task
  <2> QED BY <1>2, <2>1 DEF Requested
<1> QED BY <1>1, <1>2 DEF StageInv

LEMMA RefuseTyped ==
  ASSUME TypeOK, StageInv, ApproverInv, NEW r \in Requests, Refuse(r)
  PROVE  TypeOK' /\ StageInv' /\ ApproverInv'
<1>1. task' = [task EXCEPT ![r] = None] /\ account' = account
  BY DEF Refuse, End, db
<1>2. TypeOK'
  BY <1>1 DEF TypeOK, Refuse, db, history
<1>3. StageInv'
  BY <1>1, StageKeeps
<1> QED BY <1>2, <1>3 DEF ApproverInv, Refuse, db

(* What is known of a request at work. *)
LEMMA AtWork ==
  ASSUME TypeOK, StageInv, NEW r \in Requests, task[r] # None
  PROVE  /\ task[r] \in Task /\ InStage(task[r]) /\ Requested(task[r])
         /\ task[r].token \in 0..Len(tokens)
         /\ task[r].user # None => task[r].user \in Emails
BY DEF TypeOK, StageInv, Task

(* The table of refresh tokens. *)
LEMMA Rows ==
  ASSUME TypeOK
  PROVE  /\ DOMAIN tokens = 1..Len(tokens) /\ Len(tokens) \in Nat
         /\ \A t \in DOMAIN tokens :
              /\ tokens[t] \in Token
              /\ tokens[t].user \in Emails /\ tokens[t].lapsed \in BOOLEAN
              /\ tokens[t].state \in {"live", "revoked", "gone"}
<1>1. DOMAIN tokens = 1..Len(tokens) /\ Len(tokens) \in Nat
  BY DEF TypeOK
<1>2. \A t \in 1..Len(tokens) : tokens[t] \in Token
  BY DEF TypeOK
<1> QED BY <1>1, <1>2 DEF Token

(* It goes on to another stage, having written nothing. *)
LEMMA MoveTyped ==
  ASSUME TypeOK, StageInv, ApproverInv, NEW r \in Requests, NEW t \in Task,
         task' = [task EXCEPT ![r] = t], Reading,
         InStage(t), Requested(t), t.token \in 0..Len(tokens)
  PROVE  TypeOK' /\ StageInv' /\ ApproverInv'
<1>1. TypeOK'
  BY DEF TypeOK, Reading, db, history
<1>2. account' = account
  BY DEF Reading, db
<1>3. StageInv'
  BY <1>2, StageKeeps DEF Requested
<1> QED BY <1>1, <1>3 DEF ApproverInv, Reading, db

(* It writes to the users, of whom none is ever deleted. *)
LEMMA AccountTyped ==
  ASSUME TypeOK, StageInv, ApproverInv, NEW r \in Requests, NEW t \in Task \cup {None},
         task' = [task EXCEPT ![r] = t],
         Writing, UNCHANGED <<allowed, tokens, codes, polled, history>>,
         NEW e \in Emails, NEW a \in Account, account' = [account EXCEPT ![e] = a],
         t # None => InStage(t) /\ Requested(t)' /\ t.token \in 0..Len(tokens)
  PROVE  TypeOK' /\ StageInv' /\ ApproverInv'
<1> USE AccountsAssumption
<1>1. TypeOK'
  BY DEF TypeOK, Writing, history
<1>2. \A f \in Emails : account[f] # None => account'[f] # None
  BY DEF TypeOK
<1>3. StageInv'
  BY <1>2, StageKeeps
<1> QED BY <1>1, <1>3 DEF ApproverInv, history

(* The request r at another stage, for a user and with what was read of it. *)
Moved(r, at, e, a) == [task[r] EXCEPT !.at = at, !.user = e, !.seen = a]

LEMMA MovedTyped ==
  ASSUME TypeOK, StageInv, ApproverInv, NEW r \in Requests, task[r] # None,
         NEW at \in Stages, NEW e \in Emails \cup {None}, NEW a \in Account,
         task' = [task EXCEPT ![r] = Moved(r, at, e, a)], Reading,
         InStage(Moved(r, at, e, a)), Requested(Moved(r, at, e, a))
  PROVE  TypeOK' /\ StageInv' /\ ApproverInv'
<1>1. Moved(r, at, e, a) \in Task /\ Moved(r, at, e, a).token \in 0..Len(tokens)
  BY AtWork DEF Moved, Task
<1> QED BY <1>1, MoveTyped

LEMMA ReadingTyped ==
  ASSUME TypeOK, StageInv, ApproverInv, NEW r \in Requests,
         CheckAllowed(r) \/ FindIdentity(r) \/ FindByEmail(r) \/ Bootstrap(r)
         \/ FindClaim(r) \/ FindToken(r) \/ FindPolled(r) \/ FindDecided(r) \/ FindEntry(r)
  PROVE  TypeOK' /\ StageInv' /\ ApproverInv'
<1>1. task[r] # None
  BY DEF CheckAllowed, FindIdentity, FindByEmail, Bootstrap, FindClaim, FindToken,
     FindPolled, FindDecided, FindEntry, At
<1>2. SUFFICES ASSUME ~Refuse(r)
               PROVE  /\ Reading
                      /\ \E at \in Stages, e \in Emails \cup {None}, a \in Account :
                           /\ task' = [task EXCEPT ![r] = Moved(r, at, e, a)]
                           /\ InStage(Moved(r, at, e, a)) /\ Requested(Moved(r, at, e, a))
  BY <1>1, RefuseTyped, MovedTyped
<1>3. /\ task[r] \in Task /\ InStage(task[r]) /\ Requested(task[r])
      /\ task[r].token \in 0..Len(tokens)
  BY <1>1, AtWork
<1> PICK e \in Emails \cup {None}, a \in Account : e = task[r].user /\ a = task[r].seen
  BY <1>3 DEF Task
<1>4. CASE CheckAllowed(r)
  <2>1. /\ Reading /\ task[r].at = "allowlist"
        /\ task' = [task EXCEPT ![r] = Moved(r, "identity", e, a)]
    BY <1>2, <1>3, <1>4 DEF CheckAllowed, At, Goto, Moved, Task
  <2>2. InStage(Moved(r, "identity", e, a)) /\ Requested(Moved(r, "identity", e, a))
    BY <2>1, <1>3 DEF Moved, Task, InStage, Requested, Decisions, Changes
  <2> QED BY <2>1, <2>2 DEF Stages
<1>5. CASE FindIdentity(r)
  <2>1. /\ task[r].at = "identity" /\ e \in Emails /\ account[e] \in Account \cup {None}
    BY <1>3, <1>5 DEF FindIdentity, At, InStage, Requested, Ops, Decisions, Changes, TypeOK
  <2>2. /\ Reading
        /\ \/ /\ account[e] # None
              /\ task' = [task EXCEPT ![r] = Moved(r, "issue", e, account[e])]
           \/ task' = [task EXCEPT ![r] = Moved(r, "byEmail", e, a)]
    BY <1>2, <1>3, <1>5, <2>1 DEF FindIdentity, Goto, Saw, Moved, Task
  <2>3. \A at \in {"issue", "byEmail"} : \A b \in Account :
           InStage(Moved(r, at, e, b)) /\ Requested(Moved(r, at, e, b))
    BY <2>1, <1>3 DEF Moved, Task, InStage, Requested, Decisions, Changes
  <2> QED BY <2>1, <2>2, <2>3 DEF Stages
<1>6. CASE FindByEmail(r)
  <2>1. /\ task[r].at = "byEmail" /\ e \in Emails /\ account[e] \in Account \cup {None}
    BY <1>3, <1>6 DEF FindByEmail, At, InStage, Requested, Ops, Decisions, Changes, TypeOK
  <2>2. /\ Reading
        /\ \/ /\ account[e] # None
              /\ task' = [task EXCEPT ![r] = Moved(r, "link", e, account[e])]
           \/ task' = [task EXCEPT ![r] = Moved(r, "bootstrap", e, a)]
    BY <1>2, <1>3, <1>6, <2>1 DEF FindByEmail, Goto, Saw, Moved, Task
  <2>3. \A at \in {"link", "bootstrap"} : \A b \in Account :
           /\ InStage(Moved(r, at, e, b))
           /\ (at = "link" => account[e] # None) => Requested(Moved(r, at, e, b))
    BY <2>1, <1>3 DEF Moved, Task, InStage, Requested, Decisions, Changes
  <2> QED BY <2>1, <2>2, <2>3 DEF Stages
<1>7. CASE Bootstrap(r)
  <2>1. /\ task[r].at = "bootstrap" /\ e \in Emails
    BY <1>3, <1>7 DEF Bootstrap, At, InStage, Requested, Ops, Decisions, Changes
  <2> DEFINE b == [active |-> TRUE, linked |-> TRUE,
                   admin |-> task[r].user = InitialAdmin /\ ~\E f \in Emails : IsAdmin(f)]
  <2>2. b \in Account
    BY Zenon DEF Account
  <2>4. Reading /\ task' = [task EXCEPT ![r].at = "create", ![r].seen = b]
    BY <1>7, Zenon DEF Bootstrap
  <2> HIDE DEF b
  <2>5. task' = [task EXCEPT ![r] = Moved(r, "create", e, b)]
    BY <1>3, <2>4 DEF Moved, Task
  <2>3. InStage(Moved(r, "create", e, b)) /\ Requested(Moved(r, "create", e, b))
    BY <2>1, <1>3 DEF Moved, Task, InStage, Requested, Decisions, Changes
  <2> QED BY <2>2, <2>3, <2>4, <2>5 DEF Stages
<1>8. CASE FindClaim(r)
  <2>1. task[r].at = "claimFind"
    BY <1>8 DEF FindClaim, At
  <2>2. /\ Reading
        /\ \/ task' = [task EXCEPT ![r] = Moved(r, "claim", e, a)]
           \/ task' = [task EXCEPT ![r] = Moved(r, "issue", e, a)]
    BY <1>3, <1>8, <2>1 DEF FindClaim, Goto, Moved, Task
  <2>3. \A at \in {"claim", "issue"} : InStage(Moved(r, at, e, a)) /\ Requested(Moved(r, at, e, a))
    BY <2>1, <1>3 DEF Moved, Task, InStage, Requested, Decisions, Changes
  <2> QED BY <2>1, <2>2, <2>3 DEF Stages
<1>9. CASE FindToken(r)
  <2>1. task[r].at = "find" /\ task[r].op = "refresh" /\ task[r].token \in DOMAIN tokens
    BY <1>3, <1>9, Rows DEF FindToken, At, InStage, Decisions, Changes
  <2> PICK u \in Emails : u = tokens[task[r].token].user
    BY <2>1, Rows
  <2>2. /\ Reading
        /\ \/ task' = [task EXCEPT ![r] = Moved(r, "revokeAll", u, a)]
           \/ task' = [task EXCEPT ![r] = Moved(r, "rotate", u, a)]
    <3>1. tokens[task[r].token].state \in {"live", "revoked", "gone"}
      BY <2>1, Rows
    <3> QED BY <1>2, <1>3, <1>9, <3>1 DEF FindToken, Moved, Task
  <2>3. \A at \in {"revokeAll", "rotate"} :
           InStage(Moved(r, at, u, a)) /\ Requested(Moved(r, at, u, a))
    BY <2>1, <1>3 DEF Moved, Task, InStage, Requested, Decisions, Changes
  <2> QED BY <2>2, <2>3 DEF Stages
<1>10. CASE FindPolled(r)
  <2>1. task[r].at = "find" /\ task[r].op = "poll" /\ task[r].code \in Codes
    BY <1>3, <1>10 DEF FindPolled, At, Requested
  <2> PICK u \in Emails \cup {None} : u = codes[task[r].code].user
    BY <2>1 DEF TypeOK, Code
  <2>2. /\ Reading
        /\ \/ task' = [task EXCEPT ![r] = Moved(r, "mark", e, a)]
           \/ u \in Emails /\ task' = [task EXCEPT ![r] = Moved(r, "exchange", u, a)]
    BY <1>2, <1>3, <1>10, <2>1 DEF FindPolled, Goto, Moved, Task, ApproverInv
  <2>3. /\ InStage(Moved(r, "mark", e, a)) /\ Requested(Moved(r, "mark", e, a))
        /\ InStage(Moved(r, "exchange", u, a))
        /\ u \in Emails => Requested(Moved(r, "exchange", u, a))
    BY <2>1, <1>3 DEF Moved, Task, InStage, Requested, Decisions, Changes
  <2> QED BY <2>2, <2>3 DEF Stages
<1>11. CASE FindDecided(r)
  <2>1. task[r].at = "find" /\ task[r].op \in Decisions
    BY <1>3, <1>11 DEF FindDecided, At, Decisions
  <2>2. Reading /\ task' = [task EXCEPT ![r] = Moved(r, "decide", e, a)]
    BY <1>2, <1>3, <1>11 DEF FindDecided, Goto, Moved, Task
  <2>3. InStage(Moved(r, "decide", e, a)) /\ Requested(Moved(r, "decide", e, a))
    BY <2>1, <1>3 DEF Moved, Task, InStage, Requested, Decisions, Changes
  <2> QED BY <2>2, <2>3 DEF Stages
<1>12. CASE FindEntry(r)
  <2>1. task[r].at = "entry"
    BY <1>12 DEF FindEntry, At
  <2>2. Reading /\ task' = [task EXCEPT ![r] = Moved(r, "edit", e, a)]
    BY <1>2, <1>3, <1>12 DEF FindEntry, Goto, Moved, Task
  <2>3. InStage(Moved(r, "edit", e, a)) /\ Requested(Moved(r, "edit", e, a))
    BY <2>1, <1>3 DEF Moved, Task, InStage, Requested, Decisions, Changes
  <2> QED BY <2>2, <2>3 DEF Stages
<1> QED BY <1>4, <1>5, <1>6, <1>7, <1>8, <1>9, <1>10, <1>11, <1>12

LEMMA UserWrittenTyped ==
  ASSUME TypeOK, StageInv, ApproverInv, NEW r \in Requests,
         LinkIdentity(r) \/ CreateUser(r) \/ TestRoles(r) \/ WriteUser(r)
  PROVE  TypeOK' /\ StageInv' /\ ApproverInv'
<1>1. task[r] # None
  BY DEF LinkIdentity, CreateUser, TestRoles, WriteUser, At
<1>2. /\ task[r] \in Task /\ InStage(task[r]) /\ Requested(task[r])
      /\ task[r].token \in 0..Len(tokens)
  BY <1>1, AtWork
<1>3. task[r].user \in Emails
  BY <1>2 DEF LinkIdentity, CreateUser, TestRoles, WriteUser, At, InStage, Requested, Ops,
     Decisions, Changes
<1>4. account[task[r].user] \in Account \cup {None}
  BY <1>3 DEF TypeOK
<1>5. SUFFICES ASSUME ~Refuse(r)
               PROVE  /\ Writing /\ UNCHANGED <<allowed, tokens, codes, polled, history>>
                      /\ \E a \in Account : account' = [account EXCEPT ![task[r].user] = a]
                      /\ \E t \in Task \cup {None} :
                           /\ task' = [task EXCEPT ![r] = t]
                           /\ t # None => /\ InStage(t) /\ Requested(t)'
                                          /\ t.token = task[r].token
  BY <1>2, <1>3, RefuseTyped, AccountTyped
<1> USE AccountsAssumption
<1>6. CASE LinkIdentity(r)
  <2>1. /\ task[r].at = "link" /\ account[task[r].user] \in Account
    BY <1>2, <1>4, <1>6 DEF LinkIdentity, At, Requested
  <2> PICK t \in Task : t = [task[r] EXCEPT !.at = "issue"]
    BY <1>2 DEF Task, Stages
  <2> PICK a \in Account : a = [account[task[r].user] EXCEPT !.linked = TRUE]
    BY <2>1 DEF Account
  <2>3. InStage(t) /\ Requested(t)'
    BY <1>2, <2>1 DEF Task, InStage, Requested, Decisions, Changes
  <2>4. /\ Writing /\ UNCHANGED <<allowed, tokens, codes, polled, history>>
        /\ account' = [account EXCEPT ![task[r].user] = a]
        /\ task' = [task EXCEPT ![r] = t] /\ t.token = task[r].token
    BY <1>2, <1>3, <1>5, <1>6, <2>1 DEF LinkIdentity, Goto, Task, TypeOK
  <2> QED BY <2>3, <2>4
<1>7. CASE CreateUser(r)
  <2>1. task[r].at = "create" /\ task[r].seen \in Account
    BY <1>2, <1>7 DEF CreateUser, At, Task
  <2> PICK t \in Task :
          t = [task[r] EXCEPT !.at = IF task[r].op = "login" THEN "claimFind" ELSE "roles"]
    BY <1>2 DEF Task, Stages
  <2>2. /\ Writing /\ UNCHANGED <<allowed, tokens, codes, polled, history>>
        /\ account' = [account EXCEPT ![task[r].user] = task[r].seen]
        /\ task' = [task EXCEPT ![r] = t]
    BY <1>2, <1>5, <1>7 DEF CreateUser, Goto, Task
  <2>3. account'[task[r].user] # None
    BY <1>3, <2>1, <2>2 DEF TypeOK
  <2>4. InStage(t) /\ Requested(t)' /\ t.token = task[r].token
    BY <1>2, <1>3, <2>1, <2>3 DEF Task, InStage, Requested, Decisions, Changes
  <2> QED BY <2>1, <2>2, <2>4
<1>8. CASE TestRoles(r)
  <2>1. task[r].at = "roles" /\ account[task[r].user] \in Account /\ task[r].seen \in Account
    BY <1>2, <1>4, <1>8 DEF TestRoles, At, Requested, Task
  <2> PICK t \in Task : t = [task[r] EXCEPT !.at = "issue"]
    BY <1>2 DEF Task, Stages
  <2> PICK a \in Account : a = [account[task[r].user] EXCEPT !.admin = task[r].seen.admin]
    BY <2>1 DEF Account
  <2>3. InStage(t) /\ Requested(t)'
    BY <1>2, <2>1 DEF Task, InStage, Requested, Decisions, Changes
  <2>4. /\ Writing /\ UNCHANGED <<allowed, tokens, codes, polled, history>>
        /\ account' = [account EXCEPT ![task[r].user] = a]
        /\ task' = [task EXCEPT ![r] = t] /\ t.token = task[r].token
    BY <1>2, <1>3, <1>8, <2>1 DEF TestRoles, Goto, Task, TypeOK
  <2> QED BY <2>3, <2>4
<1>9. CASE WriteUser(r)
  <2>1. task[r].at = "write" /\ account[task[r].user] \in Account
    BY <1>2, <1>4, <1>9 DEF WriteUser, At, Requested
  <2> PICK active \in BOOLEAN :
        active = (CASE task[r].op = "activate" -> TRUE
                    [] task[r].op = "deactivate" -> FALSE
                    [] OTHER -> account[task[r].user].active)
    BY <2>1 DEF Account
  <2> PICK admin \in BOOLEAN :
        admin = (CASE task[r].op = "promote" -> TRUE
                   [] task[r].op = "demote" -> FALSE
                   [] OTHER -> account[task[r].user].admin)
    BY <2>1 DEF Account
  <2> PICK a \in Account :
        a = [account[task[r].user] EXCEPT !.active = active, !.admin = admin]
    BY <2>1 DEF Account
  <2>2. /\ Writing /\ UNCHANGED <<allowed, tokens, codes, polled, history>>
        /\ task' = [task EXCEPT ![r] = None]
    BY <1>9 DEF WriteUser, End
  <2>3. account' = [account EXCEPT ![task[r].user] = a]
    BY <1>3, <1>9 DEF WriteUser, TypeOK
  <2> QED BY <2>2, <2>3
<1> QED BY <1>6, <1>7, <1>8, <1>9

LEMMA EntryWrittenTyped ==
  ASSUME TypeOK, StageInv, ApproverInv, NEW r \in Requests, Claim(r) \/ WriteEntry(r)
  PROVE  TypeOK' /\ StageInv' /\ ApproverInv'
<1>1. task[r] # None
  BY DEF Claim, WriteEntry, At
<1>2. /\ task[r] \in Task /\ InStage(task[r]) /\ Requested(task[r])
      /\ task[r].token \in 0..Len(tokens)
  BY <1>1, AtWork
<1>3. CASE Refuse(r)
  BY <1>3, RefuseTyped
<1>4. CASE ~Refuse(r)
  <2>1. /\ allowed' \in [Emails -> {"no", "open", "claimed"}]
        /\ Writing /\ UNCHANGED <<account, tokens, codes, polled, history>>
    BY <1>4 DEF Claim, WriteEntry, TypeOK
  <2> PICK t \in Task \cup {None} :
        /\ task' = [task EXCEPT ![r] = t]
        /\ t # None => t = [task[r] EXCEPT !.at = "issue"] /\ task[r].at = "claim"
    BY <1>2, <1>4 DEF Claim, WriteEntry, Goto, End, At, Task, Stages
  <2>2. t # None => InStage(t) /\ Requested(t) /\ t.token \in 0..Len(tokens)
    BY <1>2 DEF Task, InStage, Requested, Decisions, Changes
  <2>3. TypeOK'
    BY <2>1, <2>2 DEF TypeOK, Writing, history
  <2>4. StageInv'
    BY <2>1, <2>2, StageKeeps DEF Requested
  <2> QED BY <2>1, <2>3, <2>4 DEF ApproverInv
<1> QED BY <1>3, <1>4

(* The table of refresh tokens is written: rows are added and never taken out. *)
LEMMA TokensTyped ==
  ASSUME TypeOK, StageInv, ApproverInv, NEW r \in Requests, NEW t \in Task \cup {None},
         task' = [task EXCEPT ![r] = t],
         Writing, UNCHANGED <<account, allowed, codes, polled, met>>,
         tokens' \in Seq(Token), Len(tokens') <= MaxTokens, Len(tokens) <= Len(tokens'),
         t # None => InStage(t) /\ Requested(t) /\ t.token \in 0..Len(tokens'),
         shares' \in [1..MaxTokens -> Int], everywhere' \subseteq Emails,
         credit' \in [Codes -> Int]
  PROVE  TypeOK' /\ StageInv' /\ ApproverInv'
<1>1. Len(tokens) \in Nat /\ Len(tokens') \in Nat
  BY DEF TypeOK
<1>2. held' \in [Clients -> 0..Len(tokens')]
  BY <1>1 DEF TypeOK, Writing
<1>3. \A s \in Requests : task'[s] # None => task'[s].token \in 0..Len(tokens')
  BY <1>1 DEF TypeOK
<1>4. TypeOK'
  BY <1>2, <1>3 DEF TypeOK, Writing
<1>5. StageInv'
  BY StageKeeps DEF Requested
<1> QED BY <1>4, <1>5 DEF ApproverInv

(* The sequence of tokens with a row more. *)
LEMMA Appended ==
  ASSUME TypeOK, NEW row \in Token, tokens' = Append(tokens, row)
  PROVE  /\ tokens' \in Seq(Token) /\ Len(tokens') = Len(tokens) + 1
         /\ tokens'[Len(tokens) + 1] = row
         /\ \A t \in DOMAIN tokens : tokens'[t] = tokens[t]
BY DEF TypeOK

(* The sequence of tokens with rows changed. *)
LEMMA Changed ==
  ASSUME NEW S, NEW n \in Nat, NEW seq, seq = [i \in 1..n |-> seq[i]],
         \A i \in 1..n : seq[i] \in S
  PROVE  seq \in Seq(S) /\ Len(seq) = n
OBVIOUS

LEMMA IssueTyped ==
  ASSUME TypeOK, StageInv, ApproverInv, NEW r \in Requests,
         GrantLogin(r) \/ Exchange(r) \/ Renew(r)
  PROVE  TypeOK' /\ StageInv' /\ ApproverInv'
<1>1. task[r] # None
  BY DEF GrantLogin, Exchange, Renew, At
<1>2. /\ task[r] \in Task /\ InStage(task[r]) /\ Requested(task[r])
      /\ task[r].token \in 0..Len(tokens)
  BY <1>1, AtWork
<1>3. CASE Refuse(r)
  BY <1>3, RefuseTyped
<1>4. CASE ~Refuse(r)
  <2> DEFINE n == Len(tokens) + 1
  <2>1. /\ DOMAIN tokens = 1..Len(tokens) /\ Len(tokens) \in Nat
        /\ n <= workload.tokens /\ workload.tokens \in 0..MaxTokens
        /\ MaxTokens \in Nat
    BY <1>4, AccountsAssumption, Rows
    DEF TypeOK, Workload, GrantLogin, Exchange, Renew, Issue
  <2>2. task[r].op \in {"login", "testLogin", "poll", "refresh"} /\ task[r].user \in Emails
    BY <1>2 DEF GrantLogin, Exchange, Renew, InStage, Requested, At, Ops, Decisions, Changes
  <2> PICK l \in 1..MaxTokens :
        tokens' = Append(tokens, [user |-> task[r].user, state |-> "live",
                                  lapsed |-> FALSE, line |-> l])
    <3>1. task[r].token # 0 => tokens[task[r].token].line \in 1..MaxTokens
      BY <1>2, <2>1, Rows DEF Token
    <3>2. \/ Issue(r, task[r].user, 0)
          \/ Issue(r, task[r].user, task[r].token) /\ task[r].token # 0
      BY <1>2, <1>4 DEF GrantLogin, Exchange, Renew, InStage, At, Decisions, Changes
    <3>3. CASE Issue(r, task[r].user, 0)
      <4>1. tokens' = Append(tokens, [user |-> task[r].user, state |-> "live",
                                      lapsed |-> FALSE, line |-> n])
        BY <3>3 DEF Issue
      <4>2. n \in 1..MaxTokens
        BY <2>1
      <4> QED BY <4>1, <4>2
    <3>4. CASE Issue(r, task[r].user, task[r].token) /\ task[r].token # 0
      BY <2>1, <3>1, <3>4 DEF Issue
    <3> QED BY <3>2, <3>3, <3>4
  <2>3. [user |-> task[r].user, state |-> "live", lapsed |-> FALSE, line |-> l] \in Token
    BY <2>2 DEF Token
  <2>4. tokens' \in Seq(Token) /\ Len(tokens') = n
    BY <2>3, Appended
  <2> PICK t \in Task : t = [task[r] EXCEPT !.token = n,
                                !.at = IF task[r].op = "poll" THEN "mark" ELSE "answer"]
    <3>1. n \in 0..MaxTokens
      BY <2>1
    <3> HIDE DEF n
    <3> QED BY <1>2, <3>1 DEF Task, Stages
  <2>5. task' = [task EXCEPT ![r] = t]
    <3>1. task' = [task EXCEPT ![r].token = n,
                     ![r].at = IF task[r].op = "poll" THEN "mark" ELSE "answer"]
      BY <1>4 DEF GrantLogin, Exchange, Renew, Issue
    <3> QED BY <1>2, <3>1 DEF Task
  <2>6. InStage(t) /\ Requested(t) /\ t.token \in 0..n
    BY <1>2, <2>1, <2>2 DEF Task, InStage, Requested, Decisions, Changes
  <2>7. /\ Writing /\ UNCHANGED <<account, allowed, codes, polled, met, shares, everywhere>>
        /\ credit' \in [Codes -> Int]
    BY <1>2, <1>4 DEF GrantLogin, Exchange, Renew, TypeOK, history
  <2>8. /\ shares' \in [1..MaxTokens -> Int] /\ everywhere' \subseteq Emails
        /\ Len(tokens') <= MaxTokens /\ Len(tokens) <= Len(tokens')
        /\ t.token \in 0..Len(tokens')
    BY <2>1, <2>4, <2>6, <2>7 DEF TypeOK
  <2> HIDE DEF n
  <2> QED BY <2>4, <2>5, <2>6, <2>7, <2>8, TokensTyped
<1> QED BY <1>3, <1>4

(* What the writes to the table do to its rows. *)
SameLogins(new) ==
  /\ new \in Seq(Token) /\ Len(new) = Len(tokens) /\ DOMAIN new = DOMAIN tokens
  /\ \A t \in DOMAIN tokens : /\ new[t].user = tokens[t].user
                              /\ new[t].line = tokens[t].line
                              /\ tokens[t].lapsed => new[t].lapsed
                              /\ new[t].state = "live" => tokens[t].state = "live"

LEMMA AllRevokedRows ==
  ASSUME TypeOK, NEW e
  PROVE  /\ SameLogins(AllRevoked(e))
         /\ \A t \in DOMAIN tokens :
              \/ tokens[t].user = e /\ AllRevoked(e)[t].state # "live"
              \/ AllRevoked(e)[t] = tokens[t]
<1> DEFINE row(t) == IF tokens[t].user = e /\ tokens[t].state = "live"
                     THEN [tokens[t] EXCEPT !.state = "revoked"] ELSE tokens[t]
           n == Len(tokens)
<1>1. DOMAIN tokens = 1..n /\ n \in Nat /\ \A t \in 1..n : tokens[t] \in Token
  BY Rows
<1>2. AllRevoked(e) = [t \in 1..n |-> row(t)]
  BY <1>1 DEF AllRevoked
<1>3. \A t \in 1..n :
        /\ row(t) \in Token /\ row(t).user = tokens[t].user /\ row(t).line = tokens[t].line
        /\ row(t).lapsed = tokens[t].lapsed
        /\ row(t).state = "live" => tokens[t].state = "live"
        /\ row(t) = tokens[t] \/ (tokens[t].user = e /\ row(t).state # "live")
  BY <1>1 DEF Token
<1> HIDE DEF row, n
<1>4. AllRevoked(e) \in Seq(Token) /\ Len(AllRevoked(e)) = n
  BY <1>1, <1>2, <1>3, Changed
<1> QED BY <1>1, <1>2, <1>3, <1>4 DEF SameLogins, n

(* One row gets another state, and is not made good again. *)
LEMMA StateWrittenRows ==
  ASSUME TypeOK, NEW i \in DOMAIN tokens, NEW st \in {"revoked", "gone"}
  PROVE  SameLogins([tokens EXCEPT ![i].state = st])
<1> DEFINE new == [tokens EXCEPT ![i].state = st]
           n == Len(tokens)
<1>1. DOMAIN tokens = 1..n /\ n \in Nat /\ \A t \in 1..n : tokens[t] \in Token
  BY Rows
<1>2. new = [t \in 1..n |-> new[t]]
  BY <1>1 DEF TypeOK
<1>3. \A t \in 1..n :
        /\ new[t] \in Token /\ new[t].user = tokens[t].user /\ new[t].line = tokens[t].line
        /\ new[t].lapsed = tokens[t].lapsed
        /\ new[t].state = "live" => tokens[t].state = "live"
  BY <1>1 DEF Token
<1> HIDE DEF new, n
<1>4. new \in Seq(Token) /\ Len(new) = n
  BY <1>1, <1>2, <1>3, Changed
<1> QED BY <1>1, <1>2, <1>3, <1>4 DEF SameLogins, new, n

LEMMA RevokedRowsTyped ==
  ASSUME TypeOK, StageInv, ApproverInv, LineInv, NEW r \in Requests,
         Rotate(r) \/ RevokeAll(r) \/ RevokeOne(r)
  PROVE  TypeOK' /\ StageInv' /\ ApproverInv' /\ (~Refuse(r) => SameLogins(tokens'))
<1>1. task[r] # None
  BY DEF Rotate, RevokeAll, RevokeOne, At
<1>2. /\ task[r] \in Task /\ InStage(task[r]) /\ Requested(task[r])
      /\ task[r].token \in 0..Len(tokens)
  BY <1>1, AtWork
<1>3. CASE Refuse(r)
  BY <1>3, RefuseTyped
<1>5. ASSUME NEW t \in DOMAIN tokens
      PROVE  /\ shares[tokens[t].line] \in Int
             /\ \A n \in Int : shares' = [shares EXCEPT ![tokens[t].line] = n] =>
                  shares' \in [1..MaxTokens -> Int]
  <2>1. tokens[t].line \in 1..MaxTokens
    BY AccountsAssumption, Rows DEF LineInv, TypeOK
  <2> QED BY <1>5, <2>1 DEF TypeOK
<1>4. CASE ~Refuse(r)
  <2>1. /\ SameLogins(tokens') /\ Writing /\ UNCHANGED <<account, allowed, codes, polled, met>>
        /\ shares' \in [1..MaxTokens -> Int] /\ everywhere' \subseteq Emails /\ credit' = credit
    <3>1. CASE Rotate(r)
      <4>1. task[r].token \in DOMAIN tokens
        BY <1>2, <3>1, Rows DEF Rotate, At, InStage, Decisions, Changes
      <4>2. /\ tokens' = [tokens EXCEPT ![task[r].token].state = "revoked"]
            /\ Writing /\ UNCHANGED <<account, allowed, codes, polled, met, everywhere, credit>>
        BY <1>4, <3>1 DEF Rotate
      <4>3. SameLogins(tokens')
        BY <4>1, <4>2, StateWrittenRows
      <4>4. shares' \in [1..MaxTokens -> Int]
        <5> DEFINE m == tokens[task[r].token].line
                   n == IF tokens[task[r].token].state = "live" THEN shares[m] ELSE shares[m] + 1
        <5>1. shares' = [shares EXCEPT ![m] = n]
          BY <1>4, <3>1 DEF Rotate
        <5>2. n \in Int
          BY <1>5, <4>1
        <5> HIDE DEF n
        <5> QED BY <1>5, <4>1, <5>1, <5>2
      <4> QED BY <4>2, <4>3, <4>4 DEF SameLogins, TypeOK
    <3>2. CASE RevokeAll(r)
      <4>1. task[r].user \in Emails
        BY <1>2, <3>2 DEF RevokeAll, At, Requested
      <4> QED BY <3>2, <4>1, AllRevokedRows DEF RevokeAll, SameLogins, TypeOK
    <3>3. CASE RevokeOne(r)
      <4>1. task[r].token \in DOMAIN tokens /\ tokens[task[r].token].line \in 1..Len(tokens)
        BY <1>2, <3>3, Rows DEF RevokeOne, At, InStage, Decisions, Changes, LineInv
      <4>2. SameLogins(tokens)
        BY Rows DEF SameLogins, TypeOK
      <4>4. shares' \in [1..MaxTokens -> Int]
        <5> DEFINE t == tokens[task[r].token]
                   n == IF t.state = "live" /\ t.user = task[r].user
                        THEN shares[t.line] - 1 ELSE shares[t.line]
        <5>1. shares' = [shares EXCEPT ![t.line] = n]
          BY <3>3 DEF RevokeOne
        <5>2. n \in Int
          BY <1>5, <4>1
        <5> HIDE DEF n
        <5> QED BY <1>5, <4>1, <5>1, <5>2
      <4>5. SameLogins(tokens')
        BY <3>3, <4>1, <4>2, StateWrittenRows DEF RevokeOne, Revoked
      <4> QED BY <3>3, <4>4, <4>5 DEF RevokeOne, TypeOK
    <3> QED BY <3>1, <3>2, <3>3
  <2> PICK t \in Task \cup {None} :
        /\ task' = [task EXCEPT ![r] = t]
        /\ t # None => \/ /\ t = [task[r] EXCEPT !.at = "renew"]
                          /\ task[r].at = "rotate"
                       \/ /\ t = [task[r] EXCEPT !.at = "clear"]
                          /\ \/ task[r].at = "revokeAll" /\ task[r].op # "refresh"
                             \/ task[r].at = "revoke"
    BY <1>2, <1>4 DEF Rotate, RevokeAll, RevokeOne, Goto, End, At, Task, Stages
  <2>2. t # None => InStage(t) /\ Requested(t) /\ t.token \in 0..Len(tokens)
    BY <1>2 DEF Task, InStage, Requested, Decisions, Changes
  <2>3. /\ tokens' \in Seq(Token) /\ Len(tokens') = Len(tokens) /\ Len(tokens) \in Nat
        /\ Len(tokens') <= MaxTokens /\ credit' \in [Codes -> Int]
        /\ Len(tokens) <= Len(tokens')
        /\ t # None => t.token \in 0..Len(tokens')
    BY <2>1, <2>2 DEF SameLogins, TypeOK
  <2>4. TypeOK' /\ StageInv' /\ ApproverInv'
    BY <2>1, <2>2, <2>3, TokensTyped
  <2> QED BY <2>1, <2>4
<1> QED BY <1>3, <1>4

LEMMA AnswerTyped ==
  ASSUME TypeOK, StageInv, ApproverInv, NEW r \in Requests, Answer(r)
  PROVE  TypeOK' /\ StageInv' /\ ApproverInv'
<1>1. task[r] # None /\ task[r].token \in 0..Len(tokens)
  BY AtWork DEF Answer, At
<1>2. task' = [task EXCEPT ![r] = None] /\ account' = account
  BY DEF Answer, End, db
<1> PICK h \in 0..Len(tokens) : h = IF At(r, "clear") THEN 0 ELSE task[r].token
  BY <1>1, Rows
<1>3. held' \in [Clients -> 0..Len(tokens)] /\ Len(tokens') = Len(tokens)
  BY DEF Answer, TypeOK, db
<1>4. TypeOK'
  BY <1>2, <1>3 DEF Answer, TypeOK, db, history
<1>5. StageInv'
  BY <1>2, StageKeeps
<1> QED BY <1>4, <1>5 DEF ApproverInv, Answer, db

LEMMA CodeWrittenTyped ==
  ASSUME TypeOK, StageInv, ApproverInv, NEW r \in Requests, MarkUsed(r) \/ WriteDecision(r)
  PROVE  TypeOK' /\ StageInv' /\ ApproverInv'
<1>1. task[r] # None
  BY DEF MarkUsed, WriteDecision, At
<1>2. /\ task[r] \in Task /\ InStage(task[r]) /\ Requested(task[r])
      /\ task[r].token \in 0..Len(tokens)
  BY <1>1, AtWork
<1>3. task[r].code \in Codes
  BY <1>2 DEF MarkUsed, WriteDecision, At, InStage, Requested, Decisions, Changes
<1>4. CASE Refuse(r)
  BY <1>4, RefuseTyped
<1>5. CASE ~Refuse(r)
  <2>1. \A k \in Codes : codes[k] \in Code /\ codes[k].user \in Emails \cup {None}
    BY DEF TypeOK, Code
  <2>2. /\ Writing /\ UNCHANGED <<account, allowed, tokens, met, shares, everywhere>>
        /\ polled' \subseteq Codes /\ credit' \in [Codes -> Int]
    BY <1>3, <1>5 DEF MarkUsed, WriteDecision, TypeOK, history
  <2>3. \E c \in Code : /\ codes' = [codes EXCEPT ![task[r].code] = c]
                        /\ c.status = "approved" => c.user \in Emails
    <3>1. CASE MarkUsed(r)
      <4> PICK c \in Code : c = [codes[task[r].code] EXCEPT !.status = "expired"]
        BY <1>3, <2>1 DEF Code
      <4>1. codes' = [codes EXCEPT ![task[r].code] = c] /\ c.status # "approved"
        BY <1>3, <1>5, <2>1, <3>1 DEF MarkUsed, TypeOK, Code
      <4> QED BY <4>1
    <3>2. CASE WriteDecision(r)
      <4>1. task[r].user \in Emails /\ task[r].op \in Decisions
        BY <1>2, <3>2 DEF WriteDecision, At, InStage, Requested, Ops, Decisions, Changes
      <4> PICK st \in {"approved", "denied"}, u \in Emails \cup {None} :
            /\ st = IF task[r].op = "approve" THEN "approved" ELSE "denied"
            /\ u = (CASE task[r].op = "approve" -> task[r].user
                      [] task[r].op = "deny" -> None
                      [] OTHER -> codes[task[r].code].user)
            /\ st = "approved" => u \in Emails
        BY <1>3, <2>1, <4>1
      <4> PICK c \in Code : c = [codes[task[r].code] EXCEPT !.status = st, !.user = u]
        BY <1>3, <2>1 DEF Code
      <4>2. codes' = [codes EXCEPT ![task[r].code].status = st, ![task[r].code].user = u]
        BY <1>5, <3>2, <4>1 DEF WriteDecision, Decisions
      <4>3. codes' = [codes EXCEPT ![task[r].code] = c] /\ c.status = st /\ c.user = u
        BY <1>3, <2>1, <4>2 DEF TypeOK, Code
      <4> QED BY <4>3
    <3> QED BY <3>1, <3>2
  <2>4. codes' \in [Codes -> Code] /\ ApproverInv'
    BY <2>3 DEF TypeOK, ApproverInv
  <2> PICK t \in Task \cup {None} :
        /\ task' = [task EXCEPT ![r] = t]
        /\ t # None => /\ t = [task[r] EXCEPT !.at = "answer"]
                       /\ task[r].at = "mark" /\ task[r].token # 0
    BY <1>2, <1>5 DEF MarkUsed, WriteDecision, Goto, End, At, Task, Stages
  <2>5. t # None => InStage(t) /\ Requested(t) /\ t.token \in 0..Len(tokens)
    BY <1>2 DEF Task, InStage, Requested, Decisions, Changes
  <2>6. TypeOK'
    BY <2>2, <2>4, <2>5 DEF TypeOK, Writing
  <2>7. StageInv'
    BY <2>2, <2>5, StageKeeps DEF Requested
  <2> QED BY <2>4, <2>6, <2>7
<1> QED BY <1>4, <1>5

LEMMA Lapsed ==
  ASSUME TypeOK, NEW t \in DOMAIN tokens, TokenLapses(t)
  PROVE  SameLogins(tokens') /\ \A u \in DOMAIN tokens : tokens'[u].state = tokens[u].state
<1> DEFINE n == Len(tokens)
<1>1. DOMAIN tokens = 1..n /\ n \in Nat /\ \A u \in 1..n : tokens[u] \in Token
  BY Rows
<1>2. tokens' = [tokens EXCEPT ![t].lapsed = TRUE]
  BY DEF TokenLapses
<1>3. tokens' = [u \in 1..n |-> tokens'[u]]
  BY <1>1, <1>2 DEF TypeOK
<1>4. \A u \in 1..n :
        /\ tokens'[u] \in Token
        /\ tokens'[u].user = tokens[u].user /\ tokens'[u].line = tokens[u].line
        /\ tokens[u].lapsed => tokens'[u].lapsed
        /\ tokens'[u].state = tokens[u].state
  BY <1>1, <1>2 DEF Token
<1> HIDE DEF n
<1>5. tokens' \in Seq(Token) /\ Len(tokens') = n
  BY <1>1, <1>3, <1>4, Changed
<1> QED BY <1>1, <1>3, <1>4, <1>5 DEF SameLogins, n

LEMMA Cleaned ==
  ASSUME TypeOK, CleanupTokens
  PROVE  /\ SameLogins(tokens')
         /\ \A t \in DOMAIN tokens :
              tokens[t].state = "live" /\ ~tokens[t].lapsed => tokens'[t] = tokens[t]
<1> DEFINE row(t) == IF tokens[t].state = "revoked" \/ tokens[t].lapsed
                     THEN [tokens[t] EXCEPT !.state = "gone"] ELSE tokens[t]
           n == Len(tokens)
<1>1. DOMAIN tokens = 1..n /\ n \in Nat /\ \A t \in 1..n : tokens[t] \in Token
  BY Rows
<1>2. tokens' = [t \in 1..n |-> row(t)]
  BY <1>1 DEF CleanupTokens
<1>3. \A t \in 1..n :
        /\ row(t) \in Token /\ row(t).user = tokens[t].user /\ row(t).line = tokens[t].line
        /\ row(t).lapsed = tokens[t].lapsed
        /\ row(t).state = "live" => tokens[t].state = "live"
        /\ tokens[t].state = "live" /\ ~tokens[t].lapsed => row(t) = tokens[t]
  BY <1>1 DEF Token
<1> HIDE DEF row, n
<1>4. tokens' \in Seq(Token) /\ Len(tokens') = n
  BY <1>1, <1>2, <1>3, Changed
<1> QED BY <1>1, <1>2, <1>3, <1>4 DEF SameLogins, n

(* No request goes on: time passes, or old rows are deleted. *)
LEMMA TimeTyped ==
  ASSUME TypeOK, StageInv, ApproverInv,
         \/ \E k \in Codes : GenerateCode(k) \/ CodeLapses(k) \/ PollInterval(k)
         \/ \E t \in DOMAIN tokens : TokenLapses(t)
         \/ CleanupTokens \/ CleanupCodes
  PROVE  TypeOK' /\ StageInv' /\ ApproverInv'
<1>1. StageInv'
  BY DEF GenerateCode, CodeLapses, PollInterval, TokenLapses, CleanupTokens, CleanupCodes,
     StageInv, Requested
<1>2. CASE \E t \in DOMAIN tokens : TokenLapses(t)
  <2>1. /\ SameLogins(tokens')
        /\ UNCHANGED <<account, allowed, codes, polled, held, task, faults, history, workload>>
    BY <1>2, Lapsed DEF TokenLapses
  <2>2. TypeOK'
    BY <2>1 DEF SameLogins, TypeOK, history
  <2> QED BY <1>1, <2>1, <2>2 DEF ApproverInv
<1>3. CASE CleanupTokens
  <2>1. /\ SameLogins(tokens')
        /\ UNCHANGED <<account, allowed, codes, polled, held, task, faults, history, workload>>
    BY <1>3, Cleaned DEF CleanupTokens
  <2>2. TypeOK'
    BY <2>1 DEF SameLogins, TypeOK, history
  <2> QED BY <1>1, <2>1, <2>2 DEF ApproverInv
<1>4. ASSUME NEW k \in Codes, GenerateCode(k) \/ CodeLapses(k) \/ PollInterval(k)
      PROVE  TypeOK' /\ ApproverInv'
  <2>1. /\ codes' \in [Codes -> Code] /\ polled' \subseteq Codes /\ ApproverInv'
    <3>1. codes[k] \in Code
      BY DEF TypeOK
    <3>2. CASE PollInterval(k)
      BY <3>2 DEF PollInterval, TypeOK, ApproverInv
    <3>3. CASE GenerateCode(k)
      <4> PICK c \in Code : c = [codes[k] EXCEPT !.status = "pending"]
        BY <3>1 DEF Code
      <4>1. codes' = [codes EXCEPT ![k] = c] /\ c.status # "approved" /\ polled' = polled
        BY <3>1, <3>3 DEF GenerateCode, Code
      <4> QED BY <4>1 DEF TypeOK, ApproverInv
    <3>4. CASE CodeLapses(k)
      <4> PICK c \in Code : c = [codes[k] EXCEPT !.late = TRUE]
        BY <3>1 DEF Code
      <4>1. /\ codes' = [codes EXCEPT ![k] = c] /\ polled' = polled
            /\ c.status = codes[k].status /\ c.user = codes[k].user
        BY <3>1, <3>4 DEF CodeLapses, Code
      <4> QED BY <4>1 DEF TypeOK, ApproverInv
    <3> QED BY <1>4, <3>2, <3>3, <3>4
  <2>2. UNCHANGED <<account, allowed, tokens, held, task, faults, history, workload>>
    BY <1>4 DEF GenerateCode, CodeLapses, PollInterval
  <2> QED BY <2>1, <2>2 DEF TypeOK, history
<1>5. CASE CleanupCodes
  <2>1. \A k \in Codes : codes[k] \in Code
    BY DEF TypeOK
  <2>2. codes' \in [Codes -> Code] /\ ApproverInv'
    BY <1>5, <2>1 DEF CleanupCodes, Code, ApproverInv
  <2>3. TypeOK'
    BY <1>5, <2>2 DEF CleanupCodes, TypeOK, history
  <2> QED BY <1>1, <2>2, <2>3
<1> QED BY <1>1, <1>2, <1>3, <1>4, <1>5

LEMMA FaultTyped ==
  ASSUME TypeOK, StageInv, ApproverInv, Restart \/ \E r \in Requests : Fail(r)
  PROVE  TypeOK' /\ StageInv' /\ ApproverInv'
<1>1. faults' \in 0..MaxFaults
  BY AccountsAssumption DEF Restart, Fail, TypeOK
<1>2. CASE Restart
  BY <1>1, <1>2 DEF Restart, TypeOK, StageInv, ApproverInv, history
<1>3. ASSUME NEW r \in Requests, Fail(r)
      PROVE  TypeOK' /\ StageInv' /\ ApproverInv'
  <2>1. task' = [task EXCEPT ![r] = None] /\ account' = account
    BY <1>3 DEF Fail, End, db
  <2>2. TypeOK'
    BY <1>1, <1>3, <2>1 DEF Fail, TypeOK, db, history
  <2>3. StageInv'
    BY <2>1, StageKeeps
  <2> QED BY <1>3, <2>2, <2>3 DEF ApproverInv, Fail, db
<1> QED BY <1>2, <1>3

(* A request arrives. *)
LEMMA Arrives ==
  ASSUME TypeOK, StageInv, ApproverInv, NEW r \in Requests, NEW t, NEW overlaps,
         NEW op \in Ops, NEW at \in Stages, NEW c \in Clients \cup {None},
         NEW e \in Emails \cup {None}, NEW i \in 0..Len(tokens), NEW k \in Codes \cup {None},
         NEW a \in Account,
         t = [op |-> op, at |-> at, client |-> c, user |-> e, token |-> i, code |-> k,
              seen |-> a],
         Start(r, t, overlaps), InStage(t), Requested(t), polled' \subseteq Codes,
         UNCHANGED <<workload, account, allowed, tokens, codes, held, faults, shares,
                     everywhere, credit>>
  PROVE  TypeOK' /\ StageInv' /\ ApproverInv'
<1>1. i \in 0..MaxTokens
  BY AccountsAssumption, Rows DEF TypeOK
<1>2. t \in Task /\ t.token \in 0..Len(tokens)
  BY <1>1 DEF Task
<1> QED BY <1>2, StartKeeps DEF ApproverInv

LEMMA LoginTyped ==
  ASSUME TypeOK, StageInv, ApproverInv, NEW r \in Requests, NEW c \in Clients, NEW e \in Emails,
         Login(r, c, e)
  PROVE  TypeOK' /\ StageInv' /\ ApproverInv'
<1> PICK t : t = NewTask("login", "allowlist", c, e, 0, None)
  OBVIOUS
<1>1. InStage(t) /\ Requested(t)
  BY DEF Login, NewTask, InStage, Requested, Decisions, Changes, Ops
<1>2. /\ Nobody \in Account /\ 0 \in 0..Len(tokens)
      /\ "login" \in Ops /\ "allowlist" \in Stages
  BY Rows DEF Login, Nobody, Account, Ops, Stages
<1>3. /\ \E overlaps : Start(r, t, overlaps)
      /\ polled' \subseteq Codes
      /\ UNCHANGED <<workload, account, allowed, tokens, codes, held, faults, shares,
                     everywhere, credit>>
  BY DEF Login, db, TypeOK
<1> QED BY <1>1, <1>2, <1>3, Arrives DEF NewTask

LEMMA PollTyped ==
  ASSUME TypeOK, StageInv, ApproverInv, NEW r \in Requests, NEW c \in Clients, NEW k \in Codes,
         Poll(r, c, k)
  PROVE  TypeOK' /\ StageInv' /\ ApproverInv'
<1> PICK t : t = NewTask("poll", "find", c, None, 0, k)
  OBVIOUS
<1>1. InStage(t) /\ Requested(t)
  BY DEF Poll, NewTask, InStage, Requested, Decisions, Changes, Ops
<1>2. /\ Nobody \in Account /\ 0 \in 0..Len(tokens)
      /\ "poll" \in Ops /\ "find" \in Stages
  BY Rows DEF Poll, Nobody, Account, Ops, Stages
<1>3. /\ \E overlaps : Start(r, t, overlaps)
      /\ polled' \subseteq Codes
      /\ UNCHANGED <<workload, account, allowed, tokens, codes, held, faults, shares,
                     everywhere, credit>>
  BY DEF Poll, db, TypeOK
<1> QED BY <1>1, <1>2, <1>3, Arrives DEF NewTask

LEMMA DecideTyped ==
  ASSUME TypeOK, StageInv, ApproverInv, NEW r \in Requests,
         NEW e \in Emails, NEW k \in Codes, NEW op \in Ops, Decide(r, e, k, op)
  PROVE  TypeOK' /\ StageInv' /\ ApproverInv'
<1> PICK t : t = NewTask(op, "find", None, e, 0, k)
  OBVIOUS
<1>1. InStage(t) /\ Requested(t)
  BY DEF Decide, NewTask, InStage, Requested, Decisions, Changes, Ops
<1>2. /\ Nobody \in Account /\ 0 \in 0..Len(tokens)
      /\ op \in Ops /\ "find" \in Stages
  BY Rows DEF Decide, Nobody, Account, Ops, Stages
<1>3. /\ \E overlaps : Start(r, t, overlaps)
      /\ polled' \subseteq Codes
      /\ UNCHANGED <<workload, account, allowed, tokens, codes, held, faults, shares,
                     everywhere, credit>>
  BY DEF Decide, db, TypeOK
<1> QED BY <1>1, <1>2, <1>3, Arrives DEF NewTask

LEMMA AdministerTyped ==
  ASSUME TypeOK, StageInv, ApproverInv, NEW r \in Requests,
         NEW a \in Emails, NEW e \in Emails, NEW op \in Ops, Administer(r, a, e, op)
  PROVE  TypeOK' /\ StageInv' /\ ApproverInv'
<1> PICK t : t = NewTask(op, "write", None, e, 0, None)
  OBVIOUS
<1>1. InStage(t) /\ Requested(t)
  BY DEF Administer, NewTask, InStage, Requested, Decisions, Changes, Ops
<1>2. /\ Nobody \in Account /\ 0 \in 0..Len(tokens)
      /\ op \in Ops /\ "write" \in Stages
  BY Rows DEF Administer, Nobody, Account, Ops, Stages
<1>3. /\ \E overlaps : Start(r, t, overlaps)
      /\ polled' \subseteq Codes
      /\ UNCHANGED <<workload, account, allowed, tokens, codes, held, faults, shares,
                     everywhere, credit>>
  BY DEF Administer, db, TypeOK
<1> QED BY <1>1, <1>2, <1>3, Arrives DEF NewTask

LEMMA EditAllowlistTyped ==
  ASSUME TypeOK, StageInv, ApproverInv, NEW r \in Requests,
         NEW a \in Emails, NEW e \in Emails, NEW op \in Ops, EditAllowlist(r, a, e, op)
  PROVE  TypeOK' /\ StageInv' /\ ApproverInv'
<1> PICK t : t = NewTask(op, "entry", None, e, 0, None)
  OBVIOUS
<1>1. InStage(t) /\ Requested(t)
  BY DEF EditAllowlist, NewTask, InStage, Requested, Decisions, Changes, Ops
<1>2. /\ Nobody \in Account /\ 0 \in 0..Len(tokens)
      /\ op \in Ops /\ "entry" \in Stages
  BY Rows DEF EditAllowlist, Nobody, Account, Ops, Stages
<1>3. /\ \E overlaps : Start(r, t, overlaps)
      /\ polled' \subseteq Codes
      /\ UNCHANGED <<workload, account, allowed, tokens, codes, held, faults, shares,
                     everywhere, credit>>
  BY DEF EditAllowlist, db, TypeOK
<1> QED BY <1>1, <1>2, <1>3, Arrives DEF NewTask

LEMMA RefreshTyped ==
  ASSUME TypeOK, StageInv, ApproverInv, NEW r \in Requests, NEW c \in Clients,
         Refresh(r, c)
  PROVE  TypeOK' /\ StageInv' /\ ApproverInv'
<1> PICK i \in 0..Len(tokens) : i = held[c] /\ i # 0
  BY DEF TypeOK, Refresh
<1> PICK t : t = NewTask("refresh", "find", c, None, i, None)
  OBVIOUS
<1>1. InStage(t) /\ Requested(t)
  BY DEF Refresh, NewTask, InStage, Requested, Decisions, Changes, Ops
<1>2. /\ Nobody \in Account /\ 0 \in 0..Len(tokens)
      /\ "refresh" \in Ops /\ "find" \in Stages
  BY Rows DEF Refresh, Nobody, Account, Ops, Stages
<1>3. /\ \E overlaps : Start(r, t, overlaps)
      /\ polled' \subseteq Codes
      /\ UNCHANGED <<workload, account, allowed, tokens, codes, held, faults, shares,
                     everywhere, credit>>
  BY DEF Refresh, db, TypeOK
<1> QED BY <1>1, <1>2, <1>3, Arrives DEF NewTask

LEMMA LogoutTyped ==
  ASSUME TypeOK, StageInv, ApproverInv, NEW r \in Requests,
         NEW c \in Clients, NEW e \in Emails, NEW op \in Ops, Logout(r, c, e, op)
  PROVE  TypeOK' /\ StageInv' /\ ApproverInv'
<1> PICK i \in 0..Len(tokens) : i = held[c]
  BY DEF TypeOK
<1> PICK at \in {"revoke", "revokeAll"} :
        at = IF op = "logout" /\ held[c] # 0 THEN "revoke" ELSE "revokeAll"
  OBVIOUS
<1> PICK t : t = NewTask(op, at, c, e, i, None)
  OBVIOUS
<1>1. InStage(t) /\ Requested(t)
  BY DEF Logout, NewTask, InStage, Requested, Decisions, Changes, Ops
<1>2. /\ Nobody \in Account /\ 0 \in 0..Len(tokens)
      /\ op \in Ops /\ at \in Stages
  BY Rows DEF Logout, Nobody, Account, Ops, Stages
<1>3. /\ \E overlaps : Start(r, t, overlaps)
      /\ polled' \subseteq Codes
      /\ UNCHANGED <<workload, account, allowed, tokens, codes, held, faults, shares,
                     everywhere, credit>>
  BY DEF Logout, db, TypeOK
<1> QED BY <1>1, <1>2, <1>3, Arrives DEF NewTask

LEMMA TestLoginTyped ==
  ASSUME TypeOK, StageInv, ApproverInv, NEW r \in Requests,
         NEW c \in Clients, NEW e \in Emails, NEW admin \in BOOLEAN, TestLogin(r, c, e, admin)
  PROVE  TypeOK' /\ StageInv' /\ ApproverInv'
<1> PICK at \in {"create", "roles"} : at = IF account[e] = None THEN "create" ELSE "roles"
  OBVIOUS
<1>1. PICK seen \in Account : seen = [active |-> TRUE, admin |-> admin, linked |-> FALSE]
  BY DEF Account
<1> PICK t : t = [op |-> "testLogin", at |-> at, client |-> c, user |-> e, token |-> 0,
                  code |-> None, seen |-> seen]
  OBVIOUS
<1>2. [NewTask("testLogin", at, c, e, 0, None) EXCEPT !.seen = seen] = t
  BY DEF NewTask
<1>3. InStage(t) /\ Requested(t)
  BY DEF TestLogin, NewTask, InStage, Requested, Decisions, Changes, Ops
<1>4. /\ Nobody \in Account /\ 0 \in 0..Len(tokens)
      /\ "testLogin" \in Ops /\ at \in Stages
  BY Rows DEF TestLogin, Nobody, Account, Ops, Stages
<1>5. /\ \E overlaps : Start(r, t, overlaps)
      /\ polled' \subseteq Codes
      /\ UNCHANGED <<workload, account, allowed, tokens, codes, held, faults, shares,
                     everywhere, credit>>
  BY <1>1, <1>2 DEF TestLogin, db, TypeOK
<1> QED BY <1>3, <1>4, <1>5, Arrives

LEMMA TypesKept ==
  ASSUME TypeOK, StageInv, ApproverInv, LineInv, [Next]_vars
  PROVE  TypeOK' /\ StageInv' /\ ApproverInv'
<1>1. CASE UNCHANGED vars
  BY <1>1 DEF vars, db, history, TypeOK, StageInv, Requested, ApproverInv
<1>2. ASSUME NEW r \in Requests, Arrive(r)
      PROVE  TypeOK' /\ StageInv' /\ ApproverInv'
  <2>1. workload.clients \subseteq Clients
    BY AccountsAssumption DEF TypeOK, Workload
  <2> QED BY <1>2, <2>1, LoginTyped, TestLoginTyped, RefreshTyped, LogoutTyped, PollTyped,
             DecideTyped, AdministerTyped, EditAllowlistTyped DEF Arrive
<1>3. ASSUME NEW r \in Requests, Continue(r)
      PROVE  TypeOK' /\ StageInv' /\ ApproverInv'
  BY <1>3, ReadingTyped, UserWrittenTyped, EntryWrittenTyped, IssueTyped, RevokedRowsTyped,
     AnswerTyped, CodeWrittenTyped DEF Continue
<1>4. CASE Restart \/ \E r \in Requests : Fail(r)
  BY <1>4, FaultTyped
<1>5. CASE \/ \E k \in Codes : GenerateCode(k) \/ CodeLapses(k) \/ PollInterval(k)
           \/ \E t \in DOMAIN tokens : TokenLapses(t)
           \/ CleanupTokens \/ CleanupCodes
  BY <1>5, TimeTyped
<1> QED BY <1>1, <1>2, <1>3, <1>4, <1>5 DEF Next

(*----------------------- the right to go on with a login ------------------*)

(* A request that carries the right and will end with what its client holds. *)
Replacing(s) ==
  Owns(s) /\ task[s].op \in {"refresh", "logout"} /\ task[s].at \in {"renew", "answer", "clear"}

(* A step that leaves the right of request s where it is. *)
Keeps(s) ==
  \/ task'[s] = task[s]
  \/ ~Owns(s)' /\ ~Replacing(s)
  \/ /\ Owns(s) /\ Owns(s)'
     /\ task'[s].op = task[s].op /\ task'[s].client = task[s].client
     /\ task'[s].token = task[s].token
     /\ task'[s].at = "renew" <=> task[s].at = "renew"
     /\ task'[s].at = "clear" <=> task[s].at = "clear"
     /\ Replacing(s) <=> Replacing(s)'

Rights == OwnersInv /\ RightInv

(* Where everybody's right stays, it stays good; rows may be revoked that are    *)
(* not good, or of a user all of whose rows are.                                 *)
LEMMA RightsStay ==
  ASSUME TypeOK, TypeOK', LineInv, Rights,
         SameLogins(tokens'), \A t \in DOMAIN tokens : Good(t) => Good(t)',
         held' = held, Calm' => Calm,
         \A s \in Requests : Keeps(s)
  PROVE  Rights'
<1> SUFFICES ASSUME Calm' PROVE Rights'
  BY DEF Rights, OwnersInv, RightInv
<1>1. DOMAIN tokens = 1..Len(tokens) /\ Len(tokens) \in Nat
  BY Rows
<1>2. \A s \in Requests : Owns(s)' =>
         /\ Owns(s) /\ task[s].token \in DOMAIN tokens
         /\ task'[s].op = task[s].op /\ task'[s].client = task[s].client
         /\ task'[s].token = task[s].token /\ OwnLine(s)' = OwnLine(s)
         /\ task'[s].at = "renew" <=> task[s].at = "renew"
         /\ task'[s].at = "clear" <=> task[s].at = "clear"
  BY <1>1 DEF Keeps, Owns, OwnLine, SameLogins, TypeOK
<1>3. \A c \in Clients : held[c] # 0 => held[c] \in DOMAIN tokens /\ HeldLine(c)' = HeldLine(c)
  BY <1>1 DEF HeldLine, SameLogins, TypeOK
<1>4. \A t \in DOMAIN tokens : Alone(t) => Alone(t)'
  BY DEF Alone, SameLogins
<1>5. \A l : Dead(l) => Dead(l)'
  BY DEF Dead, SameLogins
<1>6. \A s \in Requests, c \in Clients : held[c] # 0 /\ Replaces(s, c) => Replaces(s, c)'
  <2> SUFFICES ASSUME NEW s \in Requests, NEW c \in Clients, held[c] # 0, Replaces(s, c)
               PROVE  Replaces(s, c)'
    OBVIOUS
  <2>1. Replacing(s)
    BY DEF Replaces, Replacing
  <2>2. Replacing(s)' /\ task'[s].client = task[s].client
    BY <2>1 DEF Keeps, Replacing, Owns
  <2> QED BY <1>2, <1>3, <2>2 DEF Replaces, Replacing
<1>7. OwnersInv'
  BY <1>2, <1>3 DEF Rights, OwnersInv
<1>8. RightInv'
  <2>1. \A s \in Requests : Owns(s)' =>
          /\ task'[s].at = "renew" => Dead(OwnLine(s))'
          /\ task'[s].at \notin {"renew", "clear"} =>
               Alone(task[s].token)' /\ Good(task[s].token)'
    BY <1>2, <1>4, <1>5 DEF Rights, RightInv
  <2> QED BY <2>1, <1>2, <1>3, <1>4, <1>6 DEF Rights, RightInv, SameLogins
<1> QED BY <1>7, <1>8 DEF Rights

(* A row is added and request r carries it: of a login of its own, or of the one *)
(* that the token it was sent belongs to.                                        *)
LEMMA Issued ==
  ASSUME TypeOK, StageInv, LineInv, NEW r \in Requests, NEW e, NEW t \in 0..Len(tokens),
         task[r] # None, Issue(r, e, t), NEW n \in Nat, n = Len(tokens) + 1
  PROVE  /\ Len(tokens') = n /\ tokens'[n].state = "live"
         /\ t = 0 => tokens'[n].line = n
         /\ t # 0 => tokens'[n].line = tokens[t].line
         /\ \A u \in DOMAIN tokens : tokens'[u] = tokens[u]
         /\ task'[r].token = n /\ task'[r].op = task[r].op
         /\ task'[r].client = task[r].client /\ task'[r] # None
         /\ task'[r].at = IF task[r].op = "poll" THEN "mark" ELSE "answer"
         /\ \A s \in Requests \ {r} : task'[s] = task[s]
<1> DEFINE row == [user |-> e, state |-> "live", lapsed |-> FALSE,
                   line |-> IF t = 0 THEN n ELSE tokens[t].line]
<1>1. tokens' = Append(tokens, row) /\ row.state = "live"
      /\ row.line = IF t = 0 THEN n ELSE tokens[t].line
  BY DEF Issue
<1>2. tokens \in Seq(Token)
  BY DEF TypeOK
<1>3. /\ Len(tokens') = n /\ tokens'[n] = row
      /\ \A u \in DOMAIN tokens : tokens'[u] = tokens[u]
  <2> HIDE DEF row
  <2> QED BY <1>1, <1>2
<1> HIDE DEF row
<1>8. PICK at \in Stages : at = IF task[r].op = "poll" THEN "mark" ELSE "answer"
  BY DEF Stages
<1>4. task[r] \in Task /\ task' = [task EXCEPT ![r].token = n, ![r].at = at]
  BY <1>8, AtWork DEF Issue
<1>5. /\ task'[r] = [task[r] EXCEPT !.token = n, !.at = at]
      /\ \A s \in Requests \ {r} : task'[s] = task[s]
  BY <1>4 DEF TypeOK
<1>6. /\ task'[r].token = n /\ task'[r].op = task[r].op /\ task'[r].client = task[r].client
      /\ task'[r].at = at
  BY <1>4, <1>5 DEF Task
<1>7. task'[r] # None
  <2>1. n \in 0..MaxTokens
    BY AccountsAssumption, Rows DEF Issue, TypeOK, Workload
  <2>2. PICK t2 \in Task : t2 = [task[r] EXCEPT !.token = n, !.at = at]
    BY <1>4, <1>8, <2>1 DEF Task
  <2> QED BY <1>5, <2>2, AccountsAssumption
<1> QED BY <1>1, <1>3, <1>5, <1>6, <1>7, <1>8

(* The first token of a login: its line belongs to nobody yet. *)
LEMMA RightsIssued ==
  ASSUME TypeOK, TypeOK', StageInv, LineInv, Rights, NEW r \in Requests, NEW e,
         task[r] # None, task[r].op \in {"login", "testLogin", "poll"}, task[r].token = 0,
         Issue(r, e, 0), UNCHANGED <<held, met, faults, everywhere>>
  PROVE  Rights'
<1> SUFFICES ASSUME Calm' PROVE Rights'
  BY DEF Rights, OwnersInv, RightInv
<1> PICK n \in Nat : n = Len(tokens) + 1
  BY Rows
<1>1. /\ DOMAIN tokens = 1..Len(tokens) /\ Len(tokens) \in Nat
      /\ DOMAIN tokens' = 1..Len(tokens') /\ Calm /\ 0 \in 0..Len(tokens)
  BY Rows DEF Calm, TypeOK
<1>2. /\ Len(tokens') = n /\ tokens'[n].state = "live" /\ tokens'[n].line = n
      /\ \A u \in DOMAIN tokens : tokens'[u] = tokens[u]
      /\ task'[r].token = n /\ task'[r].op = task[r].op
      /\ task'[r].client = task[r].client /\ task'[r] # None
      /\ task'[r].at \in {"mark", "answer"}
      /\ \A s \in Requests \ {r} : task'[s] = task[s]
  <2>1. n = Len(tokens) + 1 /\ Issue(r, e, 0)
    OBVIOUS
  <2>2. /\ Len(tokens') = n /\ tokens'[n].state = "live"
    BY <1>1, <2>1, Issued
  <2>5. tokens'[n].line = n
    <3>1. PICK row : /\ row = [user |-> e, state |-> "live", lapsed |-> FALSE, line |-> n]
                     /\ tokens' = Append(tokens, row)
      BY <2>1 DEF Issue
    <3>2. row.line = n /\ tokens \in Seq(Token)
      BY <3>1 DEF TypeOK
    <3> QED BY <1>1, <3>1, <3>2
  <2>3. \A u \in DOMAIN tokens : tokens'[u] = tokens[u]
    BY <1>1, <2>1, Issued
  <2>4. /\ task'[r].token = n /\ task'[r].op = task[r].op
        /\ task'[r].client = task[r].client /\ task'[r] # None
        /\ task'[r].at = IF task[r].op = "poll" THEN "mark" ELSE "answer"
        /\ \A s \in Requests \ {r} : task'[s] = task[s]
    BY <1>1, <2>1, Issued
  <2> QED BY <2>2, <2>3, <2>4, <2>5
<1>3. \A s \in Requests \ {r} : Owns(s)' =>
        /\ Owns(s) /\ task[s].token \in DOMAIN tokens
        /\ OwnLine(s)' = OwnLine(s) /\ OwnLine(s) # n
  BY <1>1, <1>2 DEF Owns, OwnLine, TypeOK, LineInv
<1>4. Owns(r)' /\ OwnLine(r)' = n
  BY <1>1, <1>2 DEF Owns, OwnLine
<1>5. \A c \in Clients : held[c] # 0 =>
        /\ held[c] \in DOMAIN tokens
        /\ HeldLine(c)' = HeldLine(c) /\ HeldLine(c) # n
  BY <1>1, <1>2 DEF HeldLine, TypeOK, LineInv
<1>6. \A t \in DOMAIN tokens : /\ Alone(t) => Alone(t)'
                               /\ Good(t) => Good(t)'
  BY <1>1, <1>2 DEF Alone, Good, LineInv
<1>7. Alone(n)' /\ Good(n)'
  BY <1>1, <1>2 DEF Alone, Good, LineInv
<1>8. \A l \in DOMAIN tokens : Dead(l) => Dead(l)'
  BY <1>1, <1>2 DEF Dead
<1>9. \A s \in Requests, c \in Clients :
        held[c] # 0 /\ Replaces(s, c) => s # r /\ Replaces(s, c)'
  BY <1>1, <1>2, <1>3, <1>5 DEF Replaces, Owns, OwnLine, TypeOK
<1>10. OwnersInv'
  BY <1>1, <1>2, <1>3, <1>4, <1>5 DEF Rights, OwnersInv
<1>11. RightInv'
  <2>1. \A s \in Requests \ {r} : Owns(s) => OwnLine(s) \in DOMAIN tokens
    BY <1>1 DEF Owns, OwnLine, LineInv, TypeOK
  <2>2. \A s \in Requests : Owns(s)' =>
          /\ task'[s].at = "renew" => Dead(OwnLine(s))'
          /\ task'[s].at \notin {"renew", "clear"} =>
               Alone(task[s].token)' /\ Good(task[s].token)'
    BY <1>1, <1>2, <1>3, <1>6, <1>7, <1>8, <2>1 DEF Rights, RightInv
  <2>3. \A c \in Clients : held[c] # 0 =>
          (Alone(held[c])' /\ Good(held[c])') \/ \E s \in Requests : Replaces(s, c)'
    BY <1>1, <1>5, <1>6, <1>9 DEF Rights, RightInv
  <2> QED BY <2>2, <2>3 DEF RightInv
<1> QED BY <1>10, <1>11 DEF Rights

(* The token that takes the place of the one exchanged: the login had none. *)
LEMMA RightsRenewed ==
  ASSUME TypeOK, TypeOK', StageInv, LineInv, Rights, NEW r \in Requests, Renew(r)
  PROVE  Rights'
<1> SUFFICES ASSUME Calm' PROVE Rights'
  BY DEF Rights, OwnersInv, RightInv
<1> PICK n \in Nat : n = Len(tokens) + 1
  BY Rows
<1>1. /\ task[r] # None /\ task[r].op = "refresh" /\ task[r].at = "renew"
      /\ Issue(r, task[r].user, task[r].token)
      /\ UNCHANGED <<held, met, faults, everywhere>>
      /\ task[r].token \in DOMAIN tokens /\ Owns(r)
  <2>1. task[r] # None /\ task[r].at = "renew"
    BY DEF Renew, At
  <2>2. task[r].op = "refresh" /\ task[r].token # 0 /\ task[r].token \in 0..Len(tokens)
    BY <2>1, AtWork DEF InStage, Decisions, Changes
  <2> QED BY <2>1, <2>2, Rows DEF Renew, Writing, history, Owns
<1>2. /\ DOMAIN tokens = 1..Len(tokens) /\ Len(tokens) \in Nat
      /\ DOMAIN tokens' = 1..Len(tokens') /\ Calm
      /\ task[r].token \in 0..Len(tokens) /\ task[r].token # 0
  BY <1>1, Rows DEF Calm, TypeOK, Owns
<1> PICK l \in DOMAIN tokens : l = OwnLine(r)
  BY <1>1 DEF LineInv, OwnLine
<1>3. /\ Len(tokens') = n /\ tokens'[n].state = "live"
      /\ \A u \in DOMAIN tokens : tokens'[u] = tokens[u]
      /\ task'[r].token = n /\ task'[r].op = "refresh"
      /\ task'[r].client = task[r].client /\ task'[r] # None /\ task'[r].at = "answer"
      /\ \A s \in Requests \ {r} : task'[s] = task[s]
  <2>1. /\ Len(tokens') = n /\ tokens'[n].state = "live"
        /\ \A u \in DOMAIN tokens : tokens'[u] = tokens[u]
    BY <1>1, <1>2, Issued
  <2>2. /\ task'[r].token = n /\ task'[r].op = task[r].op
        /\ task'[r].client = task[r].client /\ task'[r] # None
        /\ task'[r].at = IF task[r].op = "poll" THEN "mark" ELSE "answer"
        /\ \A s \in Requests \ {r} : task'[s] = task[s]
    BY <1>1, <1>2, Issued
  <2> QED BY <1>1, <2>1, <2>2
<1>4. tokens'[n].line = l
  <2>1. PICK row : /\ row = [user |-> task[r].user, state |-> "live", lapsed |-> FALSE,
                             line |-> tokens[task[r].token].line]
                   /\ tokens' = Append(tokens, row)
    BY <1>1, <1>2 DEF Issue
  <2>2. row.line = l /\ tokens \in Seq(Token)
    BY <2>1 DEF TypeOK, OwnLine
  <2> QED BY <1>2, <2>1, <2>2
<1>5. Dead(l)
  BY <1>1, <1>2 DEF Rights, RightInv
<1>6. \A s \in Requests \ {r} : Owns(s)' =>
        /\ Owns(s) /\ task[s].token \in DOMAIN tokens /\ OwnLine(s) \in DOMAIN tokens
        /\ OwnLine(s)' = OwnLine(s) /\ OwnLine(s) # l
  <2>1. ASSUME NEW s \in Requests \ {r}, Owns(s)'
        PROVE  Owns(s) /\ task'[s] = task[s] /\ task[s].token \in DOMAIN tokens
    BY <1>2, <1>3, <2>1 DEF Owns, TypeOK
  <2>2. ASSUME NEW s \in Requests \ {r}, Owns(s)'
        PROVE  OwnLine(s) # l
    BY <1>1, <1>2, <2>1, <2>2 DEF Rights, OwnersInv
  <2>3. ASSUME NEW s \in Requests \ {r}, Owns(s)'
        PROVE  OwnLine(s)' = OwnLine(s) /\ OwnLine(s) \in DOMAIN tokens
    BY <1>3, <2>1, <2>3 DEF OwnLine, LineInv
  <2> QED BY <2>1, <2>2, <2>3
<1>7. Owns(r)' /\ OwnLine(r)' = l
  BY <1>2, <1>3, <1>4 DEF Owns, OwnLine
<1>8. \A c \in Clients : held[c] # 0 =>
        /\ held[c] \in DOMAIN tokens /\ HeldLine(c)' = HeldLine(c)
        /\ HeldLine(c) = l => task[r].client = c
  BY <1>1, <1>2, <1>3 DEF HeldLine, TypeOK, LineInv, Rights, OwnersInv
<1>9. \A t \in DOMAIN tokens : /\ Alone(t) /\ tokens[t].line # l => Alone(t)'
                               /\ Good(t) => Good(t)'
                               /\ tokens[t].state = "live" => tokens[t].line # l
  BY <1>1, <1>2, <1>3, <1>4, <1>5 DEF Alone, Good, Dead
<1>10. Alone(n)' /\ Good(n)'
  BY <1>2, <1>3, <1>4, <1>5 DEF Alone, Good, Dead
<1>11. \A m \in DOMAIN tokens \ {l} : Dead(m) => Dead(m)'
  BY <1>2, <1>3, <1>4 DEF Dead
<1>12. \A s \in Requests, c \in Clients :
        held[c] # 0 /\ Replaces(s, c) => Replaces(s, c)'
  <2> SUFFICES ASSUME NEW s \in Requests, NEW c \in Clients, held[c] # 0, Replaces(s, c)
               PROVE  Replaces(s, c)'
    OBVIOUS
  <2>1. CASE s = r
    BY <1>1, <1>3, <1>7, <1>8, <2>1 DEF Replaces
  <2>2. CASE s # r
    <3>1. task'[s] = task[s] /\ Owns(s)'
      BY <1>3, <2>2 DEF Replaces, Owns
    <3>2. OwnLine(s)' = OwnLine(s) /\ HeldLine(c)' = HeldLine(c)
      BY <1>6, <1>8, <2>2, <3>1
    <3> QED BY <1>1, <3>1, <3>2 DEF Replaces
  <2> QED BY <2>1, <2>2
<1>13. \A c \in Clients : held[c] # 0 /\ HeldLine(c) = l => Replaces(r, c)'
  BY <1>1, <1>3, <1>7, <1>8 DEF Replaces
<1>14. OwnersInv'
  BY <1>1, <1>2, <1>3, <1>6, <1>7, <1>8 DEF Rights, OwnersInv
<1>15. RightInv'
  <2>1. \A s \in Requests \ {r} : Owns(s)' =>
          /\ task'[s].at = "renew" => Dead(OwnLine(s))'
          /\ task'[s].at \notin {"renew", "clear"} =>
               Alone(task[s].token)' /\ Good(task[s].token)'
    BY <1>2, <1>3, <1>6, <1>9, <1>11 DEF Rights, RightInv, OwnLine
  <2>2. \A c \in Clients : held[c] # 0 =>
          (Alone(held[c])' /\ Good(held[c])') \/ \E s \in Requests : Replaces(s, c)'
    BY <1>1, <1>2, <1>8, <1>9, <1>12, <1>13 DEF Rights, RightInv, HeldLine
  <2> QED BY <1>1, <1>3, <1>10, <2>1, <2>2 DEF RightInv
<1> QED BY <1>14, <1>15 DEF Rights

(* The right of request r is given up: the token is exchanged, and its login has *)
(* no good token, or the client has logged out and will forget the token.        *)
LEMMA RightsGivenUp ==
  ASSUME TypeOK, TypeOK', StageInv, LineInv, Rights, NEW r \in Requests, Owns(r),
         task[r].op \in {"refresh", "logout"}, task[r].at \notin {"renew", "clear"},
         SameLogins(tokens'),
         task'[r].at = "renew" => tokens'[task[r].token].state # "live",
         \A t \in DOMAIN tokens \ {task[r].token} : tokens'[t] = tokens[t],
         UNCHANGED <<held, met, faults, everywhere>>,
         \A s \in Requests \ {r} : task'[s] = task[s],
         Replacing(r)', task'[r].client = task[r].client, task'[r].token = task[r].token,
         task'[r].at \in {"renew", "clear"}
  PROVE  Rights'
<1> SUFFICES ASSUME Calm' PROVE Rights'
  BY DEF Rights, OwnersInv, RightInv
<1>1. /\ DOMAIN tokens = 1..Len(tokens) /\ Len(tokens) \in Nat
      /\ DOMAIN tokens' = DOMAIN tokens /\ Calm
      /\ task[r] # None /\ task[r].token \in DOMAIN tokens
  BY Rows DEF Calm, TypeOK, SameLogins, Owns
<1> PICK l \in DOMAIN tokens : l = OwnLine(r)
  BY <1>1 DEF LineInv, OwnLine
<1>2. Alone(task[r].token)
  BY <1>1 DEF Rights, RightInv
<1>3. Owns(r)' /\ OwnLine(r)' = l
  BY <1>1 DEF Replacing, OwnLine, SameLogins
<1>4. task'[r].at = "renew" => Dead(l)'
  BY <1>1, <1>2 DEF Alone, Dead, OwnLine, SameLogins
<1>5. \A s \in Requests \ {r} : Owns(s)' =>
        /\ Owns(s) /\ task[s].token \in DOMAIN tokens /\ OwnLine(s) \in DOMAIN tokens
        /\ OwnLine(s)' = OwnLine(s) /\ OwnLine(s) # l
  BY <1>1 DEF Owns, OwnLine, TypeOK, LineInv, Rights, OwnersInv, SameLogins
<1>6. \A c \in Clients : held[c] # 0 =>
        /\ held[c] \in DOMAIN tokens /\ HeldLine(c)' = HeldLine(c)
        /\ HeldLine(c) = l => task[r].client = c
  BY <1>1 DEF HeldLine, TypeOK, LineInv, Rights, OwnersInv, SameLogins
<1>7. \A t \in DOMAIN tokens : /\ Alone(t) => Alone(t)'
                               /\ Good(t) /\ tokens[t].line # l => Good(t)'
  BY <1>1 DEF Alone, Good, SameLogins, OwnLine
<1>8. \A m : Dead(m) => Dead(m)'
  BY <1>1 DEF Dead, SameLogins
<1>9. \A s \in Requests, c \in Clients :
        held[c] # 0 /\ Replaces(s, c) => Replaces(s, c)'
  <2> SUFFICES ASSUME NEW s \in Requests, NEW c \in Clients, held[c] # 0, Replaces(s, c)
               PROVE  Replaces(s, c)'
    OBVIOUS
  <2>1. CASE s = r
    BY <1>3, <1>6, <2>1 DEF Replaces, Replacing
  <2>2. CASE s # r
    <3>1. task'[s] = task[s] /\ Owns(s)'
      BY <2>2 DEF Replaces, Owns
    <3>2. OwnLine(s)' = OwnLine(s) /\ HeldLine(c)' = HeldLine(c)
      BY <1>5, <1>6, <2>2, <3>1
    <3> QED BY <3>1, <3>2 DEF Replaces
  <2> QED BY <2>1, <2>2
<1>10. \A c \in Clients : held[c] # 0 /\ HeldLine(c) = l => Replaces(r, c)'
  BY <1>3, <1>6 DEF Replaces, Replacing
<1>11. OwnersInv'
  BY <1>1, <1>3, <1>5, <1>6 DEF Rights, OwnersInv, Replacing
<1>12. RightInv'
  <2>1. \A s \in Requests \ {r} : Owns(s)' =>
          /\ task'[s].at = "renew" => Dead(OwnLine(s))'
          /\ task'[s].at \notin {"renew", "clear"} =>
               Alone(task[s].token)' /\ Good(task[s].token)'
    BY <1>1, <1>5, <1>7, <1>8 DEF Rights, RightInv, OwnLine
  <2>2. \A c \in Clients : held[c] # 0 =>
          (Alone(held[c])' /\ Good(held[c])') \/ \E s \in Requests : Replaces(s, c)'
    BY <1>1, <1>6, <1>7, <1>9, <1>10 DEF Rights, RightInv, HeldLine
  <2> QED BY <1>3, <1>4, <2>1, <2>2 DEF RightInv
<1> QED BY <1>11, <1>12 DEF Rights

(* The answer hands the right over to the client, or the client forgets its token. *)
LEMMA RightsAnswered ==
  ASSUME TypeOK, TypeOK', StageInv, LineInv, Rights, NEW r \in Requests, Answer(r)
  PROVE  Rights'
<1> SUFFICES ASSUME Calm' PROVE Rights'
  BY DEF Rights, OwnersInv, RightInv
<1>1. /\ task[r] # None /\ task[r].at \in {"answer", "clear"}
      /\ UNCHANGED <<tokens, met, faults, everywhere>> /\ Calm
      /\ task' = [task EXCEPT ![r] = None]
  BY DEF Answer, At, End, db, history, Calm
<1>2. /\ task[r] \in Task /\ InStage(task[r]) /\ Requested(task[r])
  BY <1>1, AtWork
<1> PICK c \in Clients : c = task[r].client
  BY <1>1, <1>2 DEF InStage, Requested, Decisions, Changes
<1> PICK h : h = IF task[r].at = "clear" THEN 0 ELSE task[r].token
  OBVIOUS
<1>3. /\ held'[c] = h /\ \A d \in Clients \ {c} : held'[d] = held[d]
  BY <1>1 DEF Answer, At, TypeOK
<1>4. h # 0 => Owns(r) /\ h = task[r].token /\ task[r].at = "answer"
  BY <1>1, <1>2 DEF InStage, Owns, Decisions, Changes
<1>5. /\ ~Owns(r)' /\ \A s \in Requests \ {r} : task'[s] = task[s] /\ (Owns(s)' <=> Owns(s))
      /\ \A s \in Requests : OwnLine(s)' = tokens[task'[s].token].line
  BY <1>1 DEF Owns, OwnLine, TypeOK
<1>6. /\ h # 0 => HeldLine(c)' = OwnLine(r)
      /\ \A d \in Clients \ {c} : HeldLine(d)' = HeldLine(d)
  BY <1>1, <1>3, <1>4 DEF HeldLine, OwnLine
<1>7. \A s \in Requests \ {r} : OwnLine(s)' = OwnLine(s)
  BY <1>5 DEF OwnLine
<1>8. h # 0 => \A d \in Clients \ {c} : held[d] # 0 => HeldLine(d) # OwnLine(r)
  BY <1>1, <1>4 DEF Rights, OwnersInv
<1>9. h # 0 => \A s \in Requests \ {r} : Owns(s) => OwnLine(s) # OwnLine(r)
  BY <1>1, <1>4 DEF Rights, OwnersInv
<1>10. \A s \in Requests, d \in Clients \ {c} : Replaces(s, d) => Replaces(s, d)'
  BY <1>5, <1>6, <1>7 DEF Replaces
<1>11. /\ \A l : Dead(l)' <=> Dead(l)
       /\ \A t : (Alone(t)' <=> Alone(t)) /\ (Good(t)' <=> Good(t))
  BY <1>1 DEF Dead, Alone, Good
<1>12. h # 0 => Alone(h) /\ Good(h)
  BY <1>1, <1>4 DEF Rights, RightInv
<1>13. OwnersInv'
  BY <1>1, <1>3, <1>5, <1>6, <1>7, <1>8, <1>9 DEF Rights, OwnersInv
<1>14. RightInv'
  <2>1. \A s \in Requests : Owns(s)' =>
          /\ task'[s].at = "renew" => Dead(OwnLine(s))'
          /\ task'[s].at \notin {"renew", "clear"} =>
               Alone(task[s].token)' /\ Good(task[s].token)'
    <3>1. \A s \in Requests \ {r} : Owns(s) =>
            /\ task[s].at = "renew" => Dead(OwnLine(s))
            /\ task[s].at \notin {"renew", "clear"} =>
                 Alone(task[s].token) /\ Good(task[s].token)
      BY <1>1 DEF Rights, RightInv
    <3> QED BY <1>1, <1>5, <1>7, <3>1 DEF Dead, Alone, Good
  <2>2. \A d \in Clients : held'[d] # 0 =>
          (Alone(held[d])' /\ Good(held[d])') \/ \E s \in Requests : Replaces(s, d)'
    <3>1. \A d \in Clients \ {c} : held[d] # 0 =>
            (Alone(held[d]) /\ Good(held[d])) \/ \E s \in Requests : Replaces(s, d)
      BY <1>1 DEF Rights, RightInv
    <3> QED BY <1>1, <1>3, <1>10, <1>12, <3>1 DEF Alone, Good
  <2> QED BY <2>1, <2>2 DEF RightInv
<1> QED BY <1>13, <1>14 DEF Rights

(* A request is sent with the token that its client holds and nobody else uses.  *)
LEMMA RightsTakenUp ==
  ASSUME TypeOK, TypeOK', StageInv, LineInv, Rights, NEW r \in Requests, NEW c \in Clients,
         held[c] # 0, task[r] = None, task'[r] # None, task'[r].token = held[c],
         task'[r].client = c, task'[r].op \in {"refresh", "logout"},
         task'[r].at \in {"find", "revoke"},
         \A s \in Requests \ {r} : task'[s] = task[s],
         UNCHANGED <<tokens, held, everywhere>>, Calm' => Calm,
         Calm' => \A s \in Requests : task[s] # None /\ task[s].client = c =>
                    task[s].op \notin {"refresh", "logout", "login", "poll"}
  PROVE  Rights'
<1> SUFFICES ASSUME Calm' PROVE Rights'
  BY DEF Rights, OwnersInv, RightInv
<1>1. Calm /\ Owns(r)' /\ OwnLine(r)' = HeldLine(c) /\ ~Owns(r)
  BY DEF Owns, OwnLine, HeldLine
<1>2. \A s \in Requests \ {r} : (Owns(s)' <=> Owns(s)) /\ OwnLine(s)' = OwnLine(s)
  BY DEF Owns, OwnLine
<1>3. \A d \in Clients : HeldLine(d)' = HeldLine(d)
  BY DEF HeldLine
<1>4. \A s \in Requests : Owns(s) => OwnLine(s) # HeldLine(c)
  <2>1. \A s \in Requests : Owns(s) /\ OwnLine(s) = HeldLine(c) =>
          task[s].op \in {"refresh", "logout"} /\ task[s].client = c
    BY <1>1 DEF Rights, OwnersInv
  <2> QED BY <2>1 DEF Owns
<1>5. \A s \in Requests : ~Replaces(s, c)
  BY <1>4 DEF Replaces
<1>6. \A s \in Requests, d \in Clients : Replaces(s, d) => Replaces(s, d)'
  BY <1>1, <1>2, <1>3 DEF Replaces
<1>7. Alone(held[c]) /\ Good(held[c])
  BY <1>1, <1>5 DEF Rights, RightInv
<1>8. \A d \in Clients \ {c} : held[d] # 0 => HeldLine(d) # HeldLine(c)
  BY <1>1 DEF Rights, OwnersInv
<1>9. OwnersInv'
  <2>1. \A s \in Requests : Owns(s)' =>
          \A q \in Requests \ {s} : Owns(q)' => OwnLine(q)' # OwnLine(s)'
    BY <1>1, <1>2, <1>4 DEF Rights, OwnersInv
  <2>2. \A s \in Requests : Owns(s)' =>
          \A d \in Clients : held[d] # 0 /\ HeldLine(d)' = OwnLine(s)' =>
              task'[s].op \in {"refresh", "logout"} /\ task'[s].client = d
    BY <1>1, <1>2, <1>3, <1>4, <1>8 DEF Rights, OwnersInv
  <2>3. \A d, f \in Clients :
          d # f /\ held[d] # 0 /\ held[f] # 0 => HeldLine(d)' # HeldLine(f)'
    BY <1>1, <1>3 DEF Rights, OwnersInv
  <2> QED BY <2>1, <2>2, <2>3 DEF OwnersInv
<1>10. RightInv'
  <2>1. \A s \in Requests : Owns(s)' =>
          /\ task'[s].at = "renew" => Dead(OwnLine(s))'
          /\ task'[s].at \notin {"renew", "clear"} =>
               Alone(task[s].token)' /\ Good(task[s].token)'
    <3>1. \A s \in Requests \ {r} : Owns(s) =>
            /\ task[s].at = "renew" => Dead(OwnLine(s))
            /\ task[s].at \notin {"renew", "clear"} =>
                 Alone(task[s].token) /\ Good(task[s].token)
      BY <1>1 DEF Rights, RightInv
    <3> QED BY <1>2, <1>7, <3>1 DEF Dead, Alone, Good
  <2>2. \A d \in Clients : held[d] # 0 =>
          (Alone(held[d])' /\ Good(held[d])') \/ \E s \in Requests : Replaces(s, d)'
    BY <1>1, <1>6 DEF Rights, RightInv, Alone, Good
  <2> QED BY <2>1, <2>2 DEF RightInv
<1> QED BY <1>9, <1>10 DEF Rights

(* Only request r goes on, and neither before nor after will it end with what    *)
(* its client holds.                                                             *)
LEMMA RightsOfOne ==
  ASSUME TypeOK, TypeOK', LineInv, Rights, NEW r \in Requests,
         SameLogins(tokens'), \A t \in DOMAIN tokens : Good(t) => Good(t)',
         held' = held, Calm' => Calm,
         \A s \in Requests \ {r} : task'[s] = task[s],
         ~Replacing(r), ~Replacing(r)',
         \/ ~Owns(r)'
         \/ /\ task[r] # None
            /\ task[r].at \notin {"renew", "clear"} /\ task'[r].at \notin {"renew", "clear"}
            /\ task'[r].op = task[r].op /\ task'[r].client = task[r].client
            /\ task'[r].token = task[r].token
  PROVE  Rights'
<1>1. Keeps(r)
  BY DEF Keeps, Owns
<1>2. \A s \in Requests : Keeps(s)
  BY <1>1 DEF Keeps
<1> QED BY <1>2, RightsStay

LEMMA TokensStay ==
  ASSUME TypeOK, tokens' = tokens, everywhere \subseteq everywhere'
  PROVE  SameLogins(tokens') /\ \A t \in DOMAIN tokens : Good(t) => Good(t)'
<1>1. SameLogins(tokens)
  BY DEF SameLogins, TypeOK
<1> QED BY <1>1 DEF Good

LEMMA RightsRead ==
  ASSUME TypeOK, TypeOK', StageInv, LineInv, Rights, NEW r \in Requests,
         \/ CheckAllowed(r) \/ FindIdentity(r) \/ FindByEmail(r) \/ LinkIdentity(r)
         \/ Bootstrap(r) \/ CreateUser(r) \/ FindClaim(r) \/ Claim(r) \/ TestRoles(r)
         \/ FindToken(r) \/ FindPolled(r) \/ MarkUsed(r) \/ FindDecided(r)
         \/ WriteDecision(r) \/ WriteUser(r) \/ FindEntry(r) \/ WriteEntry(r)
         \/ Refuse(r) /\ task[r] # None /\ ~Replacing(r)
  PROVE  Rights'
<1> USE DEF At
<1>1. task[r] # None
  BY DEF CheckAllowed, FindIdentity, FindByEmail, LinkIdentity, Bootstrap, CreateUser,
     FindClaim, Claim, TestRoles, FindToken, FindPolled, MarkUsed, FindDecided,
     WriteDecision, WriteUser, FindEntry, WriteEntry
<1>2. task[r] \in Task /\ InStage(task[r])
  BY <1>1, AtWork
<1>3. /\ UNCHANGED <<tokens, held, everywhere, met, faults>>
      /\ \A s \in Requests \ {r} : task'[s] = task[s]
  BY DEF CheckAllowed, FindIdentity, FindByEmail, LinkIdentity, Bootstrap, CreateUser,
     FindClaim, Claim, TestRoles, FindToken, FindPolled, MarkUsed, FindDecided,
     WriteDecision, WriteUser, FindEntry, WriteEntry, Refuse, Reading, Writing, Saw, End,
     Goto, db, history, TypeOK
<1>4. /\ ~Replacing(r)
      /\ task'[r] # None => task[r].at \notin {"renew", "clear", "answer"}
  BY <1>2 DEF CheckAllowed, FindIdentity, FindByEmail, LinkIdentity, Bootstrap, CreateUser,
     FindClaim, Claim, TestRoles, FindToken, FindPolled, MarkUsed, FindDecided,
     WriteDecision, WriteUser, FindEntry, WriteEntry, Refuse, End, TypeOK,
     Replacing, InStage, Decisions, Changes
<1>5. task'[r] # None =>
        /\ task'[r].op = task[r].op /\ task'[r].client = task[r].client
        /\ task'[r].token = task[r].token /\ task'[r].at \notin {"renew", "clear"}
        /\ task'[r].at # "answer" \/ task[r].op = "poll"
  <2>1. CASE CheckAllowed(r) \/ FindIdentity(r) \/ FindByEmail(r) \/ LinkIdentity(r)
    BY <1>2, <2>1 DEF CheckAllowed, FindIdentity, FindByEmail, LinkIdentity,
       Refuse, Saw, End, Goto, TypeOK, Task
  <2>2. CASE Bootstrap(r)
    BY <1>2, <2>2 DEF Bootstrap, TypeOK, Task
  <2>3. CASE CreateUser(r) \/ FindClaim(r) \/ Claim(r) \/ TestRoles(r)
    BY <1>2, <2>3 DEF CreateUser, FindClaim, Claim, TestRoles, Refuse, End, Goto, TypeOK, Task
  <2>4. CASE FindToken(r) \/ FindPolled(r) \/ MarkUsed(r) \/ FindDecided(r)
    BY <1>2, <2>4 DEF FindToken, FindPolled, MarkUsed, FindDecided, Refuse, End, Goto,
       TypeOK, Task, InStage, Decisions, Changes
  <2>5. CASE WriteDecision(r) \/ WriteUser(r) \/ WriteEntry(r) \/ Refuse(r)
    <3>1. task' = [task EXCEPT ![r] = None]
      BY <2>5 DEF WriteDecision, WriteUser, WriteEntry, Refuse, End
    <3> QED BY <3>1 DEF TypeOK
  <2>6. CASE FindEntry(r)
    BY <1>2, <2>6 DEF FindEntry, Refuse, End, Goto, TypeOK, Task
  <2> QED BY <2>1, <2>2, <2>3, <2>4, <2>5, <2>6
<1>6. ~Replacing(r)'
  BY <1>5 DEF Replacing, Owns
<1>7. SameLogins(tokens') /\ \A t \in DOMAIN tokens : Good(t) => Good(t)'
  BY <1>3, TokensStay
<1> QED BY <1>1, <1>3, <1>4, <1>5, <1>6, <1>7, RightsOfOne DEF Calm, Owns

(* All tokens of a user are revoked. *)
LEMMA RightsRevoked ==
  ASSUME TypeOK, TypeOK', StageInv, LineInv, Rights, NEW r \in Requests, RevokeAll(r)
  PROVE  Rights'
<1>1. task[r] # None /\ task[r].at = "revokeAll"
  BY DEF RevokeAll, At
<1>2. task[r] \in Task /\ InStage(task[r]) /\ task[r].user \in Emails
  BY <1>1, AtWork DEF Requested
<1>3. /\ UNCHANGED <<held, met, faults>> /\ tokens' = AllRevoked(task[r].user)
      /\ everywhere' = everywhere \cup {task[r].user}
  BY DEF RevokeAll, Writing
<1>4. SameLogins(tokens') /\ \A t \in DOMAIN tokens : Good(t) => Good(t)'
  <2>1. /\ SameLogins(tokens')
        /\ \A t \in DOMAIN tokens :
             tokens[t].user = task[r].user \/ tokens'[t] = tokens[t]
    BY <1>3, AllRevokedRows
  <2> QED BY <1>3, <2>1 DEF Good, SameLogins
<1>5. task' = IF task[r].op = "refresh" THEN [task EXCEPT ![r] = None]
              ELSE [task EXCEPT ![r].at = "clear"]
  BY DEF RevokeAll, End, Goto
<1>6. \A s \in Requests \ {r} : task'[s] = task[s]
  BY <1>5 DEF TypeOK
<1>7. ~Owns(r)'
  BY <1>1, <1>2, <1>5 DEF Owns, TypeOK, Task, InStage, Decisions, Changes
<1>8. ~Replacing(r) /\ ~Replacing(r)'
  BY <1>1, <1>7 DEF Replacing
<1> QED BY <1>3, <1>4, <1>6, <1>7, <1>8, RightsOfOne DEF Calm

(* The token that was presented is exchanged, or the client logs out of it. *)
LEMMA RightsExchanged ==
  ASSUME TypeOK, TypeOK', StageInv, ApproverInv, LineInv, Rights, NEW r \in Requests,
         Rotate(r) \/ RevokeOne(r)
  PROVE  Rights'
<1>1. task[r] # None /\ task[r].at \in {"rotate", "revoke"}
  BY DEF Rotate, RevokeOne, At
<1>2. /\ task[r] \in Task /\ InStage(task[r])
      /\ task[r].op = IF task[r].at = "rotate" THEN "refresh" ELSE "logout"
  BY <1>1, AtWork DEF InStage, Decisions, Changes
<1>3. Owns(r) /\ task[r].token \in DOMAIN tokens
  BY <1>1, <1>2, AtWork, Rows DEF Owns, InStage, Decisions, Changes
<1>4. CASE Refuse(r)
  BY <1>1, <1>4, RightsRead DEF Replacing
<1>5. CASE ~Refuse(r)
  <2>1. SameLogins(tokens')
    BY <1>5, RevokedRowsTyped
  <2>2. /\ \/ tokens' = [tokens EXCEPT ![task[r].token].state = "revoked"]
           \/ tokens' = tokens /\ task[r].at = "revoke"
        /\ UNCHANGED <<held, met, faults, everywhere>>
        /\ task' = [task EXCEPT ![r].at = IF task[r].at = "rotate" THEN "renew" ELSE "clear"]
    <3>1. CASE Rotate(r)
      BY <1>5, <3>1 DEF Rotate, At, Goto, Writing
    <3>2. CASE RevokeOne(r)
      BY <1>3, <3>2 DEF RevokeOne, Revoked, At, Goto, Writing
    <3> QED BY <3>1, <3>2
  <2>3. /\ task[r].at = "rotate" => tokens'[task[r].token].state # "live"
        /\ \A t \in DOMAIN tokens \ {task[r].token} : tokens'[t] = tokens[t]
    <3>1. tokens[task[r].token] \in Token
      BY <1>3, Rows
    <3> QED BY <1>3, <2>2, <3>1 DEF TypeOK, Token
  <2>4. /\ \A s \in Requests \ {r} : task'[s] = task[s]
        /\ task'[r] = [task[r] EXCEPT !.at = IF task[r].at = "rotate" THEN "renew" ELSE "clear"]
    BY <2>2 DEF TypeOK
  <2>5. task'[r] # None
    <3>1. [task[r] EXCEPT !.at = IF task[r].at = "rotate" THEN "renew" ELSE "clear"] \in Task
      BY <1>2 DEF Task, Stages
    <3> QED BY <2>4, <3>1, AccountsAssumption
  <2>6. /\ task'[r].client = task[r].client /\ task'[r].token = task[r].token
        /\ task'[r].op = task[r].op
        /\ task'[r].at = IF task[r].at = "rotate" THEN "renew" ELSE "clear"
    BY <1>2, <2>4 DEF Task
  <2>7. Replacing(r)'
    BY <1>1, <1>2, <1>3, <2>5, <2>6 DEF Replacing, Owns
  <2>8. task[r].op \in {"refresh", "logout"} /\ task[r].at \notin {"renew", "clear"}
    BY <1>1, <1>2
  <2>9. /\ task'[r].at \in {"renew", "clear"}
        /\ task'[r].at = "renew" => tokens'[task[r].token].state # "live"
    BY <1>1, <2>3, <2>6
  <2>10. UNCHANGED <<held, met, faults, everywhere>>
    BY <2>2
  <2>11. /\ task'[r].client = task[r].client /\ task'[r].token = task[r].token
    BY <2>6
  <2> QED BY <1>3, <2>1, <2>3, <2>4, <2>7, <2>8, <2>9, <2>10, <2>11, RightsGivenUp
<1> QED BY <1>4, <1>5

LEMMA RightsGranted ==
  ASSUME TypeOK, TypeOK', StageInv, LineInv, Rights, NEW r \in Requests,
         GrantLogin(r) \/ Exchange(r)
  PROVE  Rights'
<1>1. task[r] # None
  BY DEF GrantLogin, Exchange, At
<1>2. task[r] \in Task /\ InStage(task[r])
  BY <1>1, AtWork
<1>3. CASE Refuse(r)
  BY <1>1, <1>2, <1>3, RightsRead DEF GrantLogin, Exchange, At, Replacing
<1>4. CASE ~Refuse(r)
  <2>1. /\ task[r].op \in {"login", "testLogin", "poll"} /\ task[r].token = 0
    BY <1>2 DEF GrantLogin, Exchange, At, InStage, Decisions, Changes
  <2>2. /\ Issue(r, task[r].user, 0)
        /\ UNCHANGED <<held, met, faults, everywhere>>
    BY <1>4 DEF GrantLogin, Exchange, Writing, history
  <2> QED BY <1>1, <2>1, <2>2, RightsIssued
<1> QED BY <1>3, <1>4

LEMMA RightsArrived ==
  ASSUME TypeOK, TypeOK', StageInv, LineInv, Rights, NEW r \in Requests, Arrive(r)
  PROVE  Rights'
<1>1. ASSUME NEW t, NEW overlaps, Start(r, t, overlaps),
             t.token = 0 \/ t.op = "logoutAll",
             UNCHANGED <<tokens, held, faults, everywhere>>
      PROVE  Rights'
  <2>1. /\ task[r] = None /\ task'[r] = t /\ met \subseteq met'
        /\ \A s \in Requests \ {r} : task'[s] = task[s]
    BY <1>1 DEF Start, TypeOK
  <2>2. ~Owns(r) /\ ~Owns(r)' /\ ~Replacing(r) /\ ~Replacing(r)'
    BY <1>1, <2>1 DEF Owns, Replacing
  <2>3. SameLogins(tokens') /\ \A u \in DOMAIN tokens : Good(u) => Good(u)'
    BY <1>1, TokensStay
  <2> QED BY <1>1, <2>1, <2>2, <2>3, RightsOfOne DEF Calm
<1>2. ASSUME NEW c \in Clients, held[c] # 0, NEW t \in Task, NEW overlaps,
             Start(r, t, overlaps),
             t.op \in {"refresh", "logout"}, t.at \in {"find", "revoke"}, t.client = c,
             t.token = held[c],
             overlaps = IF \E s \in Under({"refresh", "logout", "login", "poll"}) :
                             task[s].client = c THEN {"client"} ELSE {},
             UNCHANGED <<tokens, held, faults, everywhere>>
      PROVE  Rights'
  <2>1. /\ task[r] = None /\ task'[r] = t /\ met' = met \cup overlaps
        /\ \A s \in Requests \ {r} : task'[s] = task[s]
    BY <1>2 DEF Start, TypeOK
  <2>2. Calm' => \A s \in Requests : task[s] # None /\ task[s].client = c =>
                    task[s].op \notin {"refresh", "logout", "login", "poll"}
    BY <1>2, <2>1 DEF Under, Calm
  <2>3. Calm' => Calm
    BY <1>2, <2>1 DEF Calm
  <2>4. /\ task[r] = None /\ task'[r] # None /\ task'[r].token = held[c]
        /\ task'[r].client = c /\ task'[r].op \in {"refresh", "logout"}
        /\ task'[r].at \in {"find", "revoke"}
        /\ \A s \in Requests \ {r} : task'[s] = task[s]
    BY <1>2, <2>1, AccountsAssumption
  <2> QED BY <1>2, <2>2, <2>3, <2>4, RightsTakenUp
<1>3. ASSUME NEW c \in Clients, NEW at \in Stages, NEW e \in Emails \cup {None},
             NEW op \in Ops
      PROVE  NewTask(op, at, c, e, held[c], None) \in Task
  <2>1. held[c] \in 0..MaxTokens
    BY AccountsAssumption, Rows DEF TypeOK
  <2> QED BY <1>3, <2>1 DEF NewTask, Task, Nobody, Account
<1>4. workload.clients \subseteq Clients
  BY AccountsAssumption DEF TypeOK, Workload
<1>5. ASSUME NEW c \in Clients, Refresh(r, c)
      PROVE  Rights'
  <2>1. PICK t \in Task : t = NewTask("refresh", "find", c, None, held[c], None)
    BY <1>3 DEF Stages, Ops
  <2>2. /\ t.op = "refresh" /\ t.at = "find" /\ t.client = c /\ t.token = held[c]
    BY <2>1 DEF NewTask
  <2> HIDE <2>1
  <2>3. \E overlaps :
          /\ Start(r, t, overlaps)
          /\ overlaps = IF \E s \in Under({"refresh", "logout", "login", "poll"}) :
                             task[s].client = c THEN {"client"} ELSE {}
    BY <1>5, <2>1 DEF Refresh
  <2>4. held[c] # 0 /\ UNCHANGED <<tokens, held, faults, everywhere>>
    BY <1>5 DEF Refresh, db
  <2> QED BY <1>2, <2>2, <2>3, <2>4
<1>6. ASSUME NEW c \in Clients, NEW e \in Emails, NEW op \in Ops, Logout(r, c, e, op)
      PROVE  Rights'
  <2>1. PICK at \in {"revoke", "revokeAll"} :
          at = IF op = "logout" /\ held[c] # 0 THEN "revoke" ELSE "revokeAll"
    OBVIOUS
  <2>2. PICK t \in Task : t = NewTask(op, at, c, e, held[c], None)
    BY <1>3 DEF Stages
  <2>3. /\ t.op = op /\ t.at = at /\ t.client = c /\ t.token = held[c]
    BY <2>2 DEF NewTask
  <2>4. \E overlaps :
          /\ Start(r, t, overlaps)
          /\ overlaps = IF \E s \in Under({"refresh", "logout", "login", "poll"}) :
                             task[s].client = c THEN {"client"} ELSE {}
    BY <1>6, <2>1, <2>2 DEF Logout
  <2>5. op \in {"logout", "logoutAll"} /\ UNCHANGED <<tokens, held, faults, everywhere>>
    BY <1>6 DEF Logout, db
  <2>6. CASE op = "logout" /\ held[c] # 0
    BY <1>2, <2>1, <2>3, <2>4, <2>5, <2>6
  <2>7. CASE ~(op = "logout" /\ held[c] # 0)
    BY <1>1, <2>3, <2>4, <2>5, <2>7
  <2> QED BY <2>6, <2>7
<1>7. ASSUME NEW c \in Clients, NEW e \in Emails, NEW admin \in BOOLEAN,
             Login(r, c, e) \/ TestLogin(r, c, e, admin)
      PROVE  Rights'
  <2>1. \E t, overlaps : Start(r, t, overlaps) /\ t.token = 0
    BY <1>7 DEF Login, TestLogin, NewTask
  <2>2. UNCHANGED <<tokens, held, faults, everywhere>>
    BY <1>7 DEF Login, TestLogin, db
  <2> QED BY <1>1, <2>1, <2>2
<1>8. ASSUME NEW k \in Codes, \/ \E c \in Clients : Poll(r, c, k)
                              \/ \E e \in Emails, op \in Ops : Decide(r, e, k, op)
      PROVE  Rights'
  <2>1. \E t, overlaps : Start(r, t, overlaps) /\ t.token = 0
    <3>1. ASSUME NEW c \in Clients, Poll(r, c, k)
          PROVE  \E overlaps : Start(r, NewTask("poll", "find", c, None, 0, k), overlaps)
      BY <3>1 DEF Poll
    <3>2. ASSUME NEW e \in Emails, NEW op \in Ops, Decide(r, e, k, op)
          PROVE  \E overlaps : Start(r, NewTask(op, "find", None, e, 0, k), overlaps)
      BY <3>2 DEF Decide
    <3>3. \A op, c, e : NewTask(op, "find", c, e, 0, k).token = 0
      BY DEF NewTask
    <3> QED BY <1>8, <3>1, <3>2, <3>3
  <2>2. UNCHANGED <<tokens, held, faults, everywhere>>
    BY <1>8 DEF Poll, Decide, db
  <2> QED BY <1>1, <2>1, <2>2
<1>9. ASSUME NEW a \in Emails, NEW e \in Emails, NEW op \in Ops,
             Administer(r, a, e, op) \/ EditAllowlist(r, a, e, op)
      PROVE  Rights'
  <2>1. \E t, overlaps : Start(r, t, overlaps) /\ t.token = 0
    BY <1>9 DEF Administer, EditAllowlist, NewTask
  <2>2. UNCHANGED <<tokens, held, faults, everywhere>>
    BY <1>9 DEF Administer, EditAllowlist, db
  <2> QED BY <1>1, <2>1, <2>2
<1> QED BY <1>4, <1>5, <1>6, <1>7, <1>8, <1>9 DEF Arrive

(* No step gives the right to go on with a login to two. *)
LEMMA RightsKept ==
  ASSUME TypeOK, TypeOK', StageInv, ApproverInv, LineInv, Rights, [Next]_vars
  PROVE  Rights'
<1>1. CASE UNCHANGED vars
  BY <1>1 DEF vars, db, history, Rights, OwnersInv, RightInv, Calm, Owns, OwnLine,
     HeldLine, Alone, Dead, Good, Replaces
<1>2. ASSUME NEW r \in Requests, Arrive(r)
      PROVE  Rights'
  BY <1>2, RightsArrived
<1>3. ASSUME NEW r \in Requests, Continue(r)
      PROVE  Rights'
  BY <1>3, RightsRead, RightsExchanged, RightsGranted, RightsRenewed, RightsRevoked,
     RightsAnswered DEF Continue
<1>4. CASE Restart \/ \E r \in Requests : Fail(r)
  <2>1. ~Calm'
    BY <1>4 DEF Restart, Fail, Calm, TypeOK
  <2> QED BY <2>1 DEF Rights, OwnersInv, RightInv
<1>5. ASSUME UNCHANGED <<held, task, everywhere, met, faults>>,
             SameLogins(tokens'), \A t \in DOMAIN tokens : Good(t) => Good(t)'
      PROVE  Rights'
  <2>1. \A s \in Requests : Keeps(s)
    BY <1>5 DEF Keeps
  <2> QED BY <1>5, <2>1, RightsStay DEF Calm
<1>6. CASE \/ \E k \in Codes : GenerateCode(k) \/ CodeLapses(k) \/ PollInterval(k)
           \/ CleanupCodes
  <2>1. UNCHANGED <<tokens, held, task, everywhere, met, faults>>
    BY <1>6 DEF GenerateCode, CodeLapses, PollInterval, CleanupCodes, history
  <2> QED BY <1>5, <2>1, TokensStay
<1>7. CASE \E t \in DOMAIN tokens : TokenLapses(t)
  <2>1. /\ SameLogins(tokens') /\ \A u \in DOMAIN tokens : tokens'[u].state = tokens[u].state
        /\ UNCHANGED <<held, task, everywhere, met, faults>>
    BY <1>7, Lapsed DEF TokenLapses, history
  <2> QED BY <1>5, <2>1 DEF Good, SameLogins
<1>8. CASE CleanupTokens
  <2>1. /\ SameLogins(tokens')
        /\ \A t \in DOMAIN tokens :
             tokens[t].state = "live" /\ ~tokens[t].lapsed => tokens'[t] = tokens[t]
        /\ UNCHANGED <<held, task, everywhere, met, faults>>
    BY <1>8, Cleaned DEF CleanupTokens, history
  <2> QED BY <1>5, <2>1 DEF Good, SameLogins
<1> QED BY <1>1, <1>2, <1>3, <1>4, <1>6, <1>7, <1>8 DEF Next

(*--------------------- what a request is about stays ----------------------*)

(* The request of a step, and what it keeps when it goes on. *)
LEMMA GoesOn ==
  ASSUME TypeOK, StageInv, NEW r \in Requests, Continue(r)
  PROVE  /\ task[r] \in Task /\ task[r] # None /\ InStage(task[r]) /\ Requested(task[r])
         /\ \A s \in Requests \ {r} : task'[s] = task[s]
         /\ UNCHANGED <<met, faults>>
         /\ task'[r] # None =>
              /\ task'[r].op = task[r].op /\ task'[r].code = task[r].code
              /\ task[r].op \notin {"login", "testLogin", "refresh", "poll"} =>
                   task'[r].user = task[r].user /\ task'[r].token = task[r].token
<1>1. task[r] # None
  BY DEF Continue, CheckAllowed, FindIdentity, FindByEmail, LinkIdentity, Bootstrap,
     CreateUser, FindClaim, Claim, GrantLogin, TestRoles, FindToken, Rotate, Renew, RevokeAll,
     RevokeOne, Answer, FindPolled, Exchange, MarkUsed, FindDecided, WriteDecision,
     WriteUser, FindEntry, WriteEntry, At
<1>2. task[r] \in Task /\ InStage(task[r]) /\ Requested(task[r])
  BY <1>1, AtWork
<1>3. \/ Refuse(r)
      \/ GrantLogin(r) /\ ~Refuse(r)
      \/ Exchange(r)
      \/ Renew(r)
      \/ CheckAllowed(r) \/ FindIdentity(r) \/ FindByEmail(r) \/ LinkIdentity(r)
         \/ Bootstrap(r) \/ CreateUser(r) \/ FindClaim(r) \/ Claim(r) \/ TestRoles(r)
      \/ FindToken(r) \/ FindPolled(r) \/ FindDecided(r) \/ FindEntry(r)
      \/ Rotate(r) \/ RevokeAll(r) \/ RevokeOne(r) \/ MarkUsed(r)
      \/ Answer(r) \/ WriteUser(r) \/ WriteDecision(r) \/ WriteEntry(r)
  BY DEF Continue
<1>4. CASE Refuse(r)
  BY <1>1, <1>2, <1>4 DEF Refuse, End, TypeOK, history
<1>5. CASE (GrantLogin(r) /\ ~Refuse(r)) \/ Exchange(r) \/ Renew(r)
  <2>1. task[r].op \in {"login", "testLogin", "poll", "refresh"}
    BY <1>2, <1>5 DEF GrantLogin, Exchange, Renew, At, InStage, Decisions, Changes
  <2>2. \E t \in 0..Len(tokens) : Issue(r, task[r].user, t)
    BY <1>5, AtWork, Rows DEF GrantLogin, Exchange, Renew, At
  <2>3. /\ task'[r].op = task[r].op /\ task'[r].code = task[r].code
        /\ \A s \in Requests \ {r} : task'[s] = task[s]
    BY <1>2, <2>2 DEF Issue, TypeOK, Task
  <2> QED BY <1>1, <1>2, <1>5, <2>1, <2>3 DEF GrantLogin, Exchange, Renew, Writing, history
<1>6. CASE CheckAllowed(r) \/ FindIdentity(r) \/ FindByEmail(r) \/ LinkIdentity(r)
           \/ Bootstrap(r) \/ CreateUser(r) \/ FindClaim(r) \/ Claim(r) \/ TestRoles(r)
  <2>1. task' = [task EXCEPT ![r] = None] \/ \E at \in Stages : \E a :
          \/ task' = [task EXCEPT ![r].at = at]
          \/ task' = [task EXCEPT ![r].at = at, ![r].seen = a]
    BY <1>6 DEF CheckAllowed, FindIdentity, FindByEmail, LinkIdentity, Bootstrap,
       CreateUser, FindClaim, Claim, TestRoles, Refuse, End, Goto, Saw, Stages
  <2>2. UNCHANGED <<met, faults>>
    BY <1>6 DEF CheckAllowed, FindIdentity, FindByEmail, LinkIdentity, Bootstrap,
       CreateUser, FindClaim, Claim, TestRoles, Refuse, Reading, Writing, history
  <2>3. ASSUME NEW at \in Stages, NEW a,
               \/ task' = [task EXCEPT ![r].at = at]
               \/ task' = [task EXCEPT ![r].at = at, ![r].seen = a]
        PROVE  /\ task'[r].op = task[r].op /\ task'[r].code = task[r].code
               /\ task'[r].user = task[r].user /\ task'[r].token = task[r].token
               /\ \A s \in Requests \ {r} : task'[s] = task[s]
    <3>1. CASE task' = [task EXCEPT ![r].at = at]
      BY <1>2, <3>1 DEF TypeOK, Task
    <3>2. CASE task' = [task EXCEPT ![r].at = at, ![r].seen = a]
      BY <1>2, <3>2 DEF TypeOK, Task
    <3> QED BY <2>3, <3>1, <3>2
  <2>4. CASE task' = [task EXCEPT ![r] = None]
    BY <1>1, <1>2, <2>2, <2>4 DEF TypeOK
  <2> QED BY <1>1, <1>2, <2>1, <2>2, <2>3, <2>4
<1>7. CASE FindToken(r) \/ FindPolled(r) \/ FindDecided(r) \/ FindEntry(r)
           \/ Rotate(r) \/ RevokeAll(r) \/ RevokeOne(r) \/ MarkUsed(r)
  <2>1. \/ task' = [task EXCEPT ![r] = None]
        \/ \E at \in Stages : task' = [task EXCEPT ![r].at = at]
        \/ /\ task[r].op \in {"refresh", "poll"}
           /\ \E at \in Stages : \E e : task' = [task EXCEPT ![r].at = at, ![r].user = e]
    BY <1>7 DEF FindToken, FindPolled, FindDecided, FindEntry, Rotate, RevokeAll,
       RevokeOne, MarkUsed, Refuse, End, Goto, Stages
  <2>2. UNCHANGED <<met, faults>>
    BY <1>7 DEF FindToken, FindPolled, FindDecided, FindEntry, Rotate, RevokeAll,
       RevokeOne, MarkUsed, Refuse, Reading, Writing, history
  <2> QED BY <1>1, <1>2, <2>1, <2>2 DEF TypeOK, Task
<1>8. CASE Answer(r) \/ WriteUser(r) \/ WriteDecision(r) \/ WriteEntry(r)
  <2>1. task' = [task EXCEPT ![r] = None]
    BY <1>8 DEF Answer, WriteUser, WriteDecision, WriteEntry, Refuse, End
  <2>2. UNCHANGED <<met, faults>>
    BY <1>8 DEF Answer, WriteUser, WriteDecision, WriteEntry, Refuse, Writing, history
  <2> QED BY <1>1, <1>2, <2>1, <2>2 DEF TypeOK
<1> QED BY <1>3, <1>4, <1>5, <1>6, <1>7, <1>8

(* What arrives. *)
LEMMA ArrivesNew ==
  ASSUME TypeOK, NEW r \in Requests, Arrive(r)
  PROVE  \E t, overlaps : /\ Start(r, t, overlaps) /\ task'[r] = t
                          /\ \A s \in Requests \ {r} : task'[s] = task[s]
                          /\ met \subseteq met' /\ UNCHANGED <<account, tokens, codes, credit, faults>>
<1>1. ASSUME NEW t, NEW overlaps, Start(r, t, overlaps)
      PROVE  /\ task'[r] = t /\ met \subseteq met'
             /\ \A s \in Requests \ {r} : task'[s] = task[s]
  BY <1>1 DEF Start, TypeOK
<1>2. \E t, overlaps : Start(r, t, overlaps)
  BY DEF Arrive, Login, TestLogin, Refresh, Logout, Poll, Decide, Administer, EditAllowlist
<1>3. UNCHANGED <<account, tokens, codes, credit, faults>>
  BY DEF Arrive, Login, TestLogin, Refresh, Logout, Poll, Decide, Administer, EditAllowlist, db
<1> QED BY <1>1, <1>2, <1>3

LEMMA ArrivesAs ==
  ASSUME TypeOK, NEW r \in Requests, Arrive(r)
  PROVE  \/ task'[r].op \in Ops \ ({"logout", "poll", "testLogin"} \cup Changes)
         \/ \E c \in Clients, e \in Emails : Logout(r, c, e, "logout")
         \/ \E c \in Clients, e \in Emails, admin \in BOOLEAN : TestLogin(r, c, e, admin)
         \/ \E c \in Clients, k \in Codes :
              Poll(r, c, k) /\ task'[r].op = "poll" /\ task'[r].code = k /\ task'[r].at = "find"
         \/ \E a \in Emails, e \in Emails, op \in Changes :
              Administer(r, a, e, op) /\ task'[r].op = op /\ task'[r].user = e
<1> USE DEF Start, NewTask, TypeOK
<1>1. workload.clients \subseteq Clients
  BY AccountsAssumption DEF Workload
<1>2. ASSUME NEW c, Refresh(r, c)
      PROVE  task'[r].op = "refresh"
  BY <1>2 DEF Refresh
<1>3. ASSUME NEW c, NEW e, Login(r, c, e)
      PROVE  task'[r].op = "login"
  BY <1>3 DEF Login
<1>4. ASSUME NEW c, NEW e, NEW op, Logout(r, c, e, op)
      PROVE  task'[r].op = op /\ op \in {"logout", "logoutAll"}
  BY <1>4 DEF Logout
<1>5. ASSUME NEW e, NEW k, NEW op, Decide(r, e, k, op)
      PROVE  task'[r].op \in Decisions
  BY <1>5 DEF Decide, Decisions
<1>6. ASSUME NEW a, NEW e, NEW op, EditAllowlist(r, a, e, op)
      PROVE  task'[r].op \in {"invite", "uninvite"}
  BY <1>6 DEF EditAllowlist
<1>7. ASSUME NEW a, NEW e, NEW op, Administer(r, a, e, op)
      PROVE  task'[r].op = op /\ op \in Changes /\ task'[r].user = e
  BY <1>7 DEF Administer, Changes
<1>8. ASSUME NEW c, NEW k, Poll(r, c, k)
      PROVE  task'[r].op = "poll" /\ task'[r].code = k /\ task'[r].at = "find"
  BY <1>8 DEF Poll
<1>9. \A op \in {"refresh", "login", "logoutAll", "invite", "uninvite"} \cup Decisions :
        op \in Ops \ ({"logout", "poll", "testLogin"} \cup Changes)
  BY DEF Ops, Changes, Decisions
<1> HIDE DEF Start, NewTask, TypeOK
<1>10. ASSUME NEW c, NEW e, NEW op, Logout(r, c, e, op)
       PROVE  task'[r].op = "logoutAll" \/ Logout(r, c, e, "logout")
  BY <1>4, <1>10
<1>11. \/ \E c \in Clients : \/ Refresh(r, c)
                             \/ \E e \in Emails : \/ Login(r, c, e)
                                                  \/ \E admin \in BOOLEAN : TestLogin(r, c, e, admin)
                                                  \/ \E op \in Ops : Logout(r, c, e, op)
                             \/ \E k \in Codes : Poll(r, c, k)
       \/ \E e \in Emails, op \in Ops : \/ \E k \in Codes : Decide(r, e, k, op)
                                        \/ \E a \in Emails : EditAllowlist(r, a, e, op)
       \/ \E a \in Emails, e \in Emails, op \in Ops : Administer(r, a, e, op)
  BY <1>1 DEF Arrive
<1>12. ASSUME NEW c \in Clients, \/ Refresh(r, c)
                                 \/ \E e \in Emails : Login(r, c, e)
                                 \/ \E e \in Emails, op \in Ops :
                                      Logout(r, c, e, op) /\ ~Logout(r, c, e, "logout")
       PROVE  task'[r].op \in {"refresh", "login", "logoutAll"}
  BY <1>2, <1>3, <1>10, <1>12
<1> QED BY <1>5, <1>6, <1>7, <1>8, <1>9, <1>11, <1>12

(* A step leaves the logins of the rows as they are, or adds a row. *)
LEMMA TableSteps ==
  ASSUME TypeOK, StageInv, ApproverInv, LineInv, [Next]_vars
  PROVE  \/ SameLogins(tokens')
         \/ \E r \in Requests : /\ task[r] # None
                                /\ \E e : \E t \in 0..Len(tokens) : Issue(r, e, t)
<1>1. CASE tokens' = tokens
  BY <1>1, TokensStay DEF SameLogins, TypeOK
<1>2. ASSUME NEW r \in Requests, GrantLogin(r) \/ Exchange(r) \/ Renew(r), tokens' # tokens
      PROVE  /\ task[r] # None
             /\ \E e : \E t \in 0..Len(tokens) : Issue(r, e, t)
  <2>1. task[r] # None /\ task[r].token \in 0..Len(tokens) /\ 0 \in 0..Len(tokens)
    BY <1>2, AtWork, Rows DEF GrantLogin, Exchange, Renew, At
  <2> QED BY <1>2, <2>1 DEF GrantLogin, Exchange, Renew, Refuse, db
<1>3. ASSUME NEW r \in Requests, Continue(r), tokens' # tokens,
             ~(GrantLogin(r) \/ Exchange(r) \/ Renew(r))
      PROVE  SameLogins(tokens')
  <2>1. Rotate(r) \/ RevokeAll(r) \/ RevokeOne(r)
    BY <1>3 DEF Continue, CheckAllowed, FindIdentity, FindByEmail, LinkIdentity, Bootstrap,
       CreateUser, FindClaim, Claim, TestRoles, FindToken, Answer, FindPolled, MarkUsed,
       FindDecided, WriteDecision, WriteUser, FindEntry, WriteEntry, Refuse, Reading, db
  <2>2. ~Refuse(r)
    BY <1>3 DEF Refuse, db
  <2> QED BY <2>1, <2>2, RevokedRowsTyped
<1>4. CASE CleanupTokens \/ \E t \in DOMAIN tokens : TokenLapses(t)
  BY <1>4, Cleaned, Lapsed
<1>5. ASSUME NEW r \in Requests, Arrive(r)
      PROVE  tokens' = tokens
  BY <1>5, ArrivesNew
<1>6. CASE \/ UNCHANGED vars \/ Restart \/ CleanupCodes \/ \E r \in Requests : Fail(r)
           \/ \E k \in Codes : GenerateCode(k) \/ CodeLapses(k) \/ PollInterval(k)
  BY <1>1, <1>6 DEF vars, db, Restart, CleanupCodes, Fail, GenerateCode, CodeLapses, PollInterval
<1> QED BY <1>1, <1>2, <1>3, <1>4, <1>5, <1>6 DEF Next

LEMMA LinesKept ==
  ASSUME TypeOK, TypeOK', StageInv, ApproverInv, LineInv, [Next]_vars
  PROVE  /\ LineInv' /\ DOMAIN tokens \subseteq DOMAIN tokens'
         /\ \A t \in DOMAIN tokens : tokens'[t].user = tokens[t].user
<1>1. CASE SameLogins(tokens')
  BY <1>1 DEF SameLogins, LineInv
<1>2. ASSUME NEW r \in Requests, task[r] # None, NEW e, NEW t \in 0..Len(tokens),
             Issue(r, e, t)
      PROVE  /\ LineInv' /\ DOMAIN tokens \subseteq DOMAIN tokens'
             /\ \A u \in DOMAIN tokens : tokens'[u].user = tokens[u].user
  <2>1. PICK n \in Nat : n = Len(tokens) + 1
    BY Rows
  <2>2. /\ Len(tokens') = n /\ DOMAIN tokens' = 1..n
        /\ DOMAIN tokens = 1..Len(tokens) /\ Len(tokens) \in Nat
    BY <1>2, <2>1, Issued, Rows DEF TypeOK
  <2>3. \A u \in DOMAIN tokens : tokens'[u] = tokens[u]
    BY <1>2, <2>1, Issued
  <2>4. tokens'[n].line = n \/ (t # 0 /\ tokens'[n].line = tokens[t].line)
    BY <1>2, <2>1, Issued
  <2> QED BY <2>1, <2>2, <2>3, <2>4 DEF LineInv
<1> QED BY <1>1, <1>2, TableSteps

(*---------------------------- shares of a login ---------------------------*)

(* What is counted is finite. *)
Countable ==
  \A l : /\ IsFiniteSet(Live(l)) /\ Cardinality(Live(l)) \in Nat
         /\ IsFiniteSet(Renewing(l)) /\ Cardinality(Renewing(l)) \in Nat

LEMMA Counted == TypeOK => Countable
<1> SUFFICES ASSUME TypeOK PROVE Countable
  OBVIOUS
<1>1. IsFiniteSet(DOMAIN tokens)
  BY Rows, FS_Interval
<1>2. IsFiniteSet(Requests)
  BY AccountsAssumption
<1>3. \A l : Live(l) \subseteq DOMAIN tokens /\ Renewing(l) \subseteq Requests
  BY DEF Live, Renewing
<1>4. \A l : IsFiniteSet(Live(l)) /\ IsFiniteSet(Renewing(l))
  BY <1>1, <1>2, <1>3, FS_Subset
<1> QED BY <1>4, FS_CardinalityType DEF Countable

LEMMA CountedNext == TypeOK' => Countable'
BY Counted, PTL

(* What counts are after an element is added, taken out or neither. *)
LEMMA Fewer ==
  ASSUME NEW S, IsFiniteSet(S), NEW T, T \subseteq S
  PROVE  Cardinality(T) <= Cardinality(S)
BY FS_Subset

LEMMA OneMore ==
  ASSUME NEW S, IsFiniteSet(S), NEW x, NEW T, T \subseteq S \cup {x}
  PROVE  Cardinality(T) <= Cardinality(S) + 1
<1>3. Cardinality(S) \in Nat
  BY FS_CardinalityType
<1>1. IsFiniteSet(S \cup {x}) /\ Cardinality(S \cup {x}) <= Cardinality(S) + 1
  BY <1>3, FS_AddElement
<1>2. IsFiniteSet(T) /\ Cardinality(T) <= Cardinality(S \cup {x})
  BY <1>1, FS_Subset
<1>4. Cardinality(T) \in Nat /\ Cardinality(S \cup {x}) \in Nat
  BY <1>1, <1>2, FS_CardinalityType
<1> QED BY <1>1, <1>2, <1>3, <1>4

LEMMA OneFewer ==
  ASSUME NEW S, IsFiniteSet(S), NEW x \in S, NEW T, T \subseteq S \ {x}
  PROVE  Cardinality(T) <= Cardinality(S) - 1
<1>1. IsFiniteSet(S \ {x}) /\ Cardinality(S \ {x}) = Cardinality(S) - 1
  BY FS_RemoveElement
<1>2. Cardinality(T) <= Cardinality(S \ {x})
  BY <1>1, FS_Subset
<1> QED BY <1>1, <1>2

(* A refresh about to make a token was about to before. *)
Renews(s) == task[s] # None /\ task[s].op = "refresh" /\ task[s].at = "renew"
NoRenewal(s) ==
  Renews(s)' => Renews(s) /\ task'[s].token = task[s].token

(* Rows only lose, and no request starts to renew. *)
LEMMA SharesStay ==
  ASSUME TypeOK, TypeOK', StageInv, LineInv, SharesInv, SameLogins(tokens'), shares' = shares,
         \A s \in Requests : NoRenewal(s)
  PROVE  SharesInv'
<1>1. DOMAIN tokens' = DOMAIN tokens
  BY DEF SameLogins, TypeOK
<1>2. ASSUME NEW l
      PROVE  Live(l)' \subseteq Live(l) /\ Renewing(l)' \subseteq Renewing(l)
  <2>1. Live(l)' \subseteq Live(l)
    BY <1>1 DEF Live, SameLogins
  <2>2. \A s \in Requests : Renews(s) => task[s].token \in DOMAIN tokens
    BY AtWork, Rows DEF Renews, InStage, Decisions, Changes
  <2>3. Renewing(l)' \subseteq Renewing(l)
    BY <2>2 DEF Renewing, Renews, NoRenewal, OwnLine, SameLogins
  <2> QED BY <2>1, <2>3
<1>3. ASSUME NEW l \in 1..MaxTokens, l \in DOMAIN tokens
      PROVE  Cardinality(Live(l)') + Cardinality(Renewing(l)') <= shares[l]
  <2>1. Cardinality(Live(l)') <= Cardinality(Live(l))
    BY <1>2, Counted, Fewer DEF Countable
  <2>2. Cardinality(Renewing(l)') <= Cardinality(Renewing(l))
    BY <1>2, Counted, Fewer DEF Countable
  <2>3. Cardinality(Live(l)) + Cardinality(Renewing(l)) <= shares[l] /\ shares[l] \in Int
    BY <1>3 DEF SharesInv, TypeOK
  <2>4. /\ Cardinality(Live(l)) \in Nat /\ Cardinality(Renewing(l)) \in Nat
        /\ Cardinality(Live(l)') \in Nat /\ Cardinality(Renewing(l)') \in Nat
    BY Counted, CountedNext DEF Countable
  <2> QED BY <2>1, <2>2, <2>3, <2>4
<1> QED BY <1>1, <1>3 DEF SharesInv

(* A login whose counts are known in both states. *)
LEMMA SharesOf ==
  ASSUME TypeOK, TypeOK', SharesInv, NEW l \in 1..MaxTokens, l \in DOMAIN tokens
  PROVE  /\ Cardinality(Live(l)) + Cardinality(Renewing(l)) <= shares[l]
         /\ shares[l] \in Int /\ shares'[l] \in Int
         /\ Cardinality(Live(l)) \in Nat /\ Cardinality(Renewing(l)) \in Nat
         /\ Cardinality(Live(l)') \in Nat /\ Cardinality(Renewing(l)') \in Nat
         /\ IsFiniteSet(Live(l)) /\ IsFiniteSet(Renewing(l))
BY Counted, CountedNext DEF Countable, SharesInv, TypeOK

(* The token that is exchanged: good still, or taken since it was found. *)
LEMMA SharesRotated ==
  ASSUME TypeOK, TypeOK', StageInv, ApproverInv, LineInv, SharesInv, NEW r \in Requests,
         Rotate(r), ~Refuse(r)
  PROVE  SharesInv'
<1>1. /\ task[r] # None /\ task[r].at = "rotate" /\ task[r] \in Task
      /\ task[r].op = "refresh" /\ task[r].token \in DOMAIN tokens
  BY AtWork, Rows DEF Rotate, At, InStage, Decisions, Changes
<1> PICK t \in DOMAIN tokens : t = task[r].token
  BY <1>1
<1> PICK m \in DOMAIN tokens : m = tokens[t].line
  BY DEF LineInv
<1>2. /\ tokens' = [tokens EXCEPT ![t].state = "revoked"]
      /\ shares' = [shares EXCEPT ![m] = IF tokens[t].state = "live" THEN @ ELSE @ + 1]
      /\ task' = [task EXCEPT ![r].at = "renew"]
  BY DEF Rotate, Goto
<1>3. SameLogins(tokens')
  BY RevokedRowsTyped
<1>4. DOMAIN tokens' = DOMAIN tokens /\ DOMAIN tokens \subseteq 1..MaxTokens
  BY <1>3, Rows, AccountsAssumption DEF SameLogins, TypeOK
<1>5. tokens'[t].state = "revoked"
  <2>1. tokens[t] \in Token
    BY Rows
  <2> QED BY <1>2, <2>1 DEF TypeOK, Token
<1>6. /\ \A s \in Requests \ {r} : task'[s] = task[s]
      /\ task'[r].token = t
  BY <1>1, <1>2 DEF TypeOK, Task
<1>7. \A s \in Requests : Renews(s) => task[s].token \in DOMAIN tokens
  BY AtWork, Rows DEF Renews, InStage, Decisions, Changes
<1>8. \A l : Renewing(l)' \subseteq Renewing(l) \cup {r}
  BY <1>6, <1>7, <1>3 DEF Renewing, Renews, OwnLine, SameLogins
<1>9. \A l : l # m => Renewing(l)' \subseteq Renewing(l)
  <2>1. OwnLine(r)' = m
    BY <1>3, <1>6 DEF OwnLine, SameLogins
  <2> QED BY <1>8, <2>1 DEF Renewing
<1>10. \A l : Live(l)' \subseteq Live(l) \ {t}
  BY <1>3, <1>4, <1>5 DEF Live, SameLogins
<1>11. ASSUME NEW l \in DOMAIN tokens, l # m
       PROVE  Cardinality(Live(l)') + Cardinality(Renewing(l)') <= shares'[l]
  <2>1. shares'[l] = shares[l] /\ l \in 1..MaxTokens
    BY <1>2, <1>4, <1>11 DEF TypeOK
  <2>2. /\ Cardinality(Live(l)') <= Cardinality(Live(l))
        /\ Cardinality(Renewing(l)') <= Cardinality(Renewing(l))
    BY <1>9, <1>10, <1>11, <2>1, SharesOf, Fewer
  <2> QED BY <2>1, <2>2, SharesOf
<1>12. Cardinality(Live(m)') + Cardinality(Renewing(m)') <= shares'[m]
  <2>1. m \in 1..MaxTokens
    BY <1>4
  <2>2. Cardinality(Renewing(m)') <= Cardinality(Renewing(m)) + 1
    BY <1>8, <2>1, SharesOf, OneMore
  <2>3. CASE tokens[t].state = "live"
    <3>1. t \in Live(m)
      BY <2>3 DEF Live
    <3>2. Cardinality(Live(m)') <= Cardinality(Live(m)) - 1
      BY <1>10, <2>1, <3>1, SharesOf, OneFewer
    <3>3. shares'[m] = shares[m]
      BY <1>2, <2>1, <2>3 DEF TypeOK
    <3> QED BY <2>1, <2>2, <3>2, <3>3, SharesOf
  <2>4. CASE tokens[t].state # "live"
    <3>1. Cardinality(Live(m)') <= Cardinality(Live(m))
      BY <1>10, <2>1, SharesOf, Fewer
    <3>2. shares'[m] = shares[m] + 1
      BY <1>2, <2>1, <2>4 DEF TypeOK
    <3> QED BY <2>1, <2>2, <3>1, <3>2, SharesOf
  <2> QED BY <2>3, <2>4
<1>13. \A l \in 1..MaxTokens \ DOMAIN tokens : shares'[l] = 1
  BY <1>2, <1>4 DEF SharesInv, TypeOK
<1> QED BY <1>4, <1>11, <1>12, <1>13 DEF SharesInv

(* A logout that finds its own token good takes a share with it. *)
LEMMA SharesLeft ==
  ASSUME TypeOK, TypeOK', StageInv, ApproverInv, LineInv, SharesInv, NEW r \in Requests,
         RevokeOne(r)
  PROVE  SharesInv'
<1>1. /\ task[r] # None /\ task[r].at = "revoke" /\ task[r] \in Task
      /\ task[r].op = "logout" /\ task[r].token \in DOMAIN tokens
  BY AtWork, Rows DEF RevokeOne, At, InStage, Decisions, Changes
<1> PICK t \in DOMAIN tokens : t = task[r].token
  BY <1>1
<1> PICK m \in DOMAIN tokens : m = tokens[t].line
  BY DEF LineInv
<1> DEFINE ends == tokens[t].state = "live" /\ tokens[t].user = task[r].user
<1>2. /\ shares' = [shares EXCEPT ![m] = IF ends THEN @ - 1 ELSE @]
      /\ task' = [task EXCEPT ![r].at = "clear"]
      /\ ends => tokens' = [tokens EXCEPT ![t].state = "revoked"]
  BY DEF RevokeOne, Revoked, Goto
<1>3. SameLogins(tokens')
  <2>1. [task[r] EXCEPT !.at = "clear"] \in Task
    BY <1>1 DEF Task, Stages
  <2>2. task'[r] # None
    BY <1>2, <2>1, AccountsAssumption DEF TypeOK
  <2>3. ~Refuse(r)
    BY <2>2 DEF Refuse, End, TypeOK
  <2> QED BY <2>3, RevokedRowsTyped
<1>4. DOMAIN tokens' = DOMAIN tokens /\ DOMAIN tokens \subseteq 1..MaxTokens
  BY <1>3, Rows, AccountsAssumption DEF SameLogins, TypeOK
<1>5. \A s \in Requests : NoRenewal(s)
  BY <1>1, <1>2 DEF NoRenewal, Renews, TypeOK, Task
<1>6. CASE ~ends
  <2>1. shares' = shares
    BY <1>2, <1>6 DEF TypeOK
  <2> QED BY <1>3, <1>5, <2>1, SharesStay
<1>7. CASE ends
  <2>1. tokens'[t].state = "revoked"
    <3>1. tokens[t] \in Token
      BY Rows
    <3> QED BY <1>2, <1>7, <3>1 DEF TypeOK, Token
  <2>2. \A l : Live(l)' \subseteq Live(l) \ {t}
    BY <1>3, <1>4, <2>1 DEF Live, SameLogins
  <2>3. \A s \in Requests : Renews(s) => task[s].token \in DOMAIN tokens
    BY AtWork, Rows DEF Renews, InStage, Decisions, Changes
  <2>4. \A l : Renewing(l)' \subseteq Renewing(l)
    BY <1>3, <1>5, <2>3 DEF Renewing, Renews, NoRenewal, OwnLine, SameLogins
  <2>5. ASSUME NEW l \in DOMAIN tokens
        PROVE  Cardinality(Live(l)') + Cardinality(Renewing(l)') <= shares'[l]
    <3>1. l \in 1..MaxTokens /\ shares'[l] = IF l = m THEN shares[l] - 1 ELSE shares[l]
      BY <1>2, <1>4, <1>7 DEF TypeOK
    <3>2. Cardinality(Renewing(l)') <= Cardinality(Renewing(l))
      BY <2>4, <3>1, SharesOf, Fewer
    <3>3. CASE l = m
      <4>1. t \in Live(l)
        BY <1>7, <3>3 DEF Live
      <4>2. Cardinality(Live(l)') <= Cardinality(Live(l)) - 1
        BY <2>2, <3>1, <4>1, SharesOf, OneFewer
      <4> QED BY <3>1, <3>2, <3>3, <4>2, SharesOf
    <3>4. CASE l # m
      <4>1. Cardinality(Live(l)') <= Cardinality(Live(l))
        BY <2>2, <3>1, SharesOf, Fewer
      <4> QED BY <3>1, <3>2, <3>4, <4>1, SharesOf
    <3> QED BY <3>3, <3>4
  <2>6. \A l \in 1..MaxTokens \ DOMAIN tokens : shares'[l] = 1
    BY <1>2, <1>4 DEF SharesInv, TypeOK
  <2> QED BY <1>4, <2>5, <2>6 DEF SharesInv
<1> QED BY <1>6, <1>7

(* A token is made: the first of a login, or the one a refresh has made room for. *)
LEMMA SharesIssued ==
  ASSUME TypeOK, TypeOK', StageInv, LineInv, SharesInv, NEW r \in Requests, task[r] # None,
         NEW e, NEW t \in 0..Len(tokens), Issue(r, e, t), shares' = shares,
         t # 0 => Renews(r) /\ t = task[r].token
  PROVE  SharesInv'
<1> PICK n \in Nat : n = Len(tokens) + 1
  BY Rows
<1>1. /\ DOMAIN tokens = 1..Len(tokens) /\ DOMAIN tokens' = 1..n /\ Len(tokens) \in Nat
      /\ n \in 1..MaxTokens /\ DOMAIN tokens \subseteq 1..MaxTokens /\ n \notin DOMAIN tokens
  <2>1. Len(tokens') = n
    BY Issued
  <2> QED BY <2>1, Rows, AccountsAssumption DEF TypeOK
<1>2. \A u \in DOMAIN tokens : tokens'[u] = tokens[u]
  BY Issued
<1>3. /\ task'[r].at # "renew"
      /\ \A s \in Requests \ {r} : task'[s] = task[s]
  BY Issued
<1>4. \A s \in Requests : Renews(s) => task[s].token \in DOMAIN tokens
  BY AtWork, Rows DEF Renews, InStage, Decisions, Changes
<1>5. \A l : Renewing(l)' \subseteq Renewing(l) \ {r}
  BY <1>2, <1>3, <1>4 DEF Renewing, Renews, OwnLine
<1>6. \A l \in 1..MaxTokens : shares'[l] = shares[l]
  OBVIOUS
<1>7. ASSUME NEW l \in DOMAIN tokens, t = 0 \/ l # tokens[t].line
      PROVE  Cardinality(Live(l)') + Cardinality(Renewing(l)') <= shares'[l]
  <2>1. tokens'[n].line # l
    BY <1>1, <1>7, Issued
  <2>2. Live(l)' \subseteq Live(l) /\ Renewing(l)' \subseteq Renewing(l)
    BY <1>1, <1>2, <1>5, <2>1 DEF Live
  <2>3. l \in 1..MaxTokens
    BY <1>1
  <2>4. /\ Cardinality(Live(l)') <= Cardinality(Live(l))
        /\ Cardinality(Renewing(l)') <= Cardinality(Renewing(l))
    BY <2>2, <2>3, SharesOf, Fewer
  <2> QED BY <2>3, <2>4, SharesOf
<1>8. CASE t = 0
  <2>1. tokens'[n].line = n
    BY <1>8, Issued
  <2>2. Live(n)' \subseteq {n} /\ Renewing(n)' = {}
    <3>1. Live(n)' \subseteq {n}
      BY <1>1, <1>2 DEF Live, LineInv
    <3>2. Renewing(n) = {}
      BY <1>1, <1>4 DEF Renewing, Renews, OwnLine, LineInv
    <3> QED BY <1>5, <3>1, <3>2
  <2>3. /\ Cardinality(Live(n)') <= 1 /\ Cardinality(Renewing(n)') = 0
    <3>1. IsFiniteSet({n}) /\ Cardinality({n}) = 1
      BY FS_Singleton
    <3>2. Cardinality(Live(n)') <= Cardinality({n})
      BY <2>2, <3>1, Fewer
    <3> QED BY <2>2, <3>1, <3>2, FS_EmptySet
  <2>4. shares'[n] = 1
    BY <1>1 DEF SharesInv
  <2>5. Cardinality(Live(n)') + Cardinality(Renewing(n)') <= shares'[n]
    <3>1. Cardinality(Live(n)') \in Nat
      BY CountedNext DEF Countable
    <3> QED BY <2>3, <2>4, <3>1
  <2>6. \A l \in 1..MaxTokens : l \notin DOMAIN tokens' => shares'[l] = 1
    BY <1>1 DEF SharesInv
  <2> QED BY <1>1, <1>7, <1>8, <2>5, <2>6 DEF SharesInv
<1>9. CASE t # 0
  <2> PICK m \in DOMAIN tokens : m = tokens[t].line
    BY <1>1, <1>9 DEF LineInv
  <2>1. tokens'[n].line = m
    BY <1>9, Issued
  <2>2. r \in Renewing(m)
    BY <1>9 DEF Renewing, Renews, OwnLine
  <2>3. m \in 1..MaxTokens /\ m # n
    BY <1>1
  <2>4. Live(m)' \subseteq Live(m) \cup {n}
    BY <1>1, <1>2 DEF Live
  <2>5. /\ Cardinality(Live(m)') <= Cardinality(Live(m)) + 1
        /\ Cardinality(Renewing(m)') <= Cardinality(Renewing(m)) - 1
    BY <1>5, <2>2, <2>3, <2>4, SharesOf, OneMore, OneFewer
  <2>6. Cardinality(Live(m)') + Cardinality(Renewing(m)') <= shares'[m]
    BY <2>3, <2>5, SharesOf
  <2>7. \A l : Live(l)' \subseteq Live(l) \cup {n}
    BY <1>1, <1>2 DEF Live
  <2>8. Cardinality(Live(n)') + Cardinality(Renewing(n)') <= shares'[n]
    <3>1. Live(n)' = {} /\ Renewing(n)' = {}
      <4>1. Live(n)' = {}
        BY <1>1, <1>2, <2>1, <2>3 DEF Live, LineInv
      <4>2. Renewing(n) = {}
        BY <1>1, <1>4 DEF Renewing, Renews, OwnLine, LineInv
      <4> QED BY <1>5, <4>1, <4>2
    <3>2. shares'[n] = 1
      BY <1>1 DEF SharesInv
    <3>3. Cardinality(Live(n)') = 0 /\ Cardinality(Renewing(n)') = 0
      BY <3>1, FS_EmptySet
    <3> QED BY <3>2, <3>3
  <2>9. \A l \in 1..MaxTokens : l \notin DOMAIN tokens' => shares'[l] = 1
    BY <1>1 DEF SharesInv
  <2> QED BY <1>1, <1>7, <2>6, <2>8, <2>9 DEF SharesInv
<1> QED BY <1>8, <1>9

(* No step gives a login more good tokens than its shares. *)
LEMMA SharesKept ==
  ASSUME TypeOK, TypeOK', StageInv, ApproverInv, LineInv, SharesInv, [Next]_vars
  PROVE  SharesInv'
<1>1. ASSUME NEW r \in Requests, Continue(r),
             ~(GrantLogin(r) \/ Exchange(r) \/ Renew(r) \/ Rotate(r) \/ RevokeOne(r))
             \/ Refuse(r)
      PROVE  SharesInv'
  <2>1. SameLogins(tokens') /\ shares' = shares
    <3>1. CASE RevokeAll(r) /\ ~Refuse(r)
      BY <3>1, RevokedRowsTyped DEF RevokeAll
    <3>2. CASE ~RevokeAll(r) \/ Refuse(r)
      <4>1. tokens' = tokens /\ shares' = shares
        BY <1>1, <3>2 DEF Continue, CheckAllowed, FindIdentity, FindByEmail, LinkIdentity,
           Bootstrap, CreateUser, FindClaim, Claim, TestRoles, FindToken, Answer, FindPolled,
           MarkUsed, FindDecided, WriteDecision, WriteUser, FindEntry, WriteEntry, Refuse,
           Reading, db, history
      <4>2. SameLogins(tokens)
        BY DEF SameLogins, TypeOK
      <4> QED BY <4>1, <4>2
    <3> QED BY <3>1, <3>2
  <2>2. /\ task[r] # None /\ task[r] \in Task /\ InStage(task[r])
        /\ \A s \in Requests \ {r} : task'[s] = task[s]
    BY <1>1, GoesOn
  <2>3. ~Renews(r)'
    <3>1. CASE Refuse(r)
      BY <3>1 DEF Refuse, End, Renews, TypeOK
    <3>2. CASE ~Refuse(r)
      <4>1. \/ task' = [task EXCEPT ![r] = None]
            \/ \E at \in Stages \ {"renew"} : \E a, e :
                 \/ task' = [task EXCEPT ![r].at = at]
                 \/ task' = [task EXCEPT ![r].at = at, ![r].seen = a]
                 \/ task' = [task EXCEPT ![r].at = at, ![r].user = e]
        BY <1>1, <3>2 DEF Continue, CheckAllowed, FindIdentity, FindByEmail, LinkIdentity,
           Bootstrap, CreateUser, FindClaim, Claim, TestRoles, FindToken, Answer, FindPolled,
           MarkUsed, FindDecided, WriteDecision, WriteUser, FindEntry, WriteEntry, RevokeAll,
           End, Goto, Saw, Stages, Refuse
      <4>2. ASSUME NEW at \in Stages \ {"renew"}, NEW a, NEW e,
                   \/ task' = [task EXCEPT ![r].at = at]
                   \/ task' = [task EXCEPT ![r].at = at, ![r].seen = a]
                   \/ task' = [task EXCEPT ![r].at = at, ![r].user = e]
            PROVE  task'[r].at = at
        BY <2>2, <4>2 DEF TypeOK, Task
      <4>3. CASE task' = [task EXCEPT ![r] = None]
        BY <4>3 DEF Renews, TypeOK
      <4> QED BY <4>1, <4>2, <4>3 DEF Renews
    <3> QED BY <3>1, <3>2
  <2>4. \A s \in Requests : NoRenewal(s)
    BY <2>2, <2>3 DEF NoRenewal, Renews
  <2> QED BY <2>1, <2>4, SharesStay
<1>2. ASSUME NEW r \in Requests, GrantLogin(r) \/ Exchange(r) \/ Renew(r), ~Refuse(r)
      PROVE  SharesInv'
  <2>1. /\ task[r] # None /\ task[r].token \in 0..Len(tokens) /\ 0 \in 0..Len(tokens)
        /\ InStage(task[r])
    BY <1>2, AtWork, Rows DEF GrantLogin, Exchange, Renew, At
  <2>2. shares' = shares
    BY <1>2 DEF GrantLogin, Exchange, Renew, history
  <2>3. \E t \in 0..Len(tokens) :
          /\ Issue(r, task[r].user, t)
          /\ t # 0 => Renews(r) /\ t = task[r].token
    BY <1>2, <2>1 DEF GrantLogin, Exchange, Renew, Renews, At, InStage, Decisions, Changes
  <2> QED BY <2>1, <2>2, <2>3, SharesIssued
<1>3. ASSUME NEW r \in Requests, Arrive(r)
      PROVE  SharesInv'
  <2>1. /\ tokens' = tokens /\ shares' = shares
        /\ \A s \in Requests \ {r} : task'[s] = task[s]
    <3>1. shares' = shares
      BY <1>3 DEF Arrive, Login, TestLogin, Refresh, Logout, Poll, Decide, Administer,
         EditAllowlist
    <3> QED BY <1>3, <3>1, ArrivesNew
  <2>2. ~Renews(r)'
    <3>1. ASSUME NEW t, NEW overlaps, Start(r, t, overlaps), t.at # "renew"
          PROVE  ~Renews(r)'
      BY <3>1 DEF Start, Renews, TypeOK
    <3>2. \A op, at, c, e, t, k : /\ NewTask(op, at, c, e, t, k).at = at
                                 /\ \A see : [NewTask(op, at, c, e, t, k)
                                                 EXCEPT !.seen = see].at = at
      BY DEF NewTask
    <3>3. ASSUME NEW c, NEW e, NEW op, Refresh(r, c) \/ Login(r, c, e) \/ Logout(r, c, e, op)
          PROVE  ~Renews(r)'
      BY <3>1, <3>2, <3>3 DEF Refresh, Login, Logout
    <3>4. ASSUME NEW c, NEW e, NEW admin, TestLogin(r, c, e, admin)
          PROVE  ~Renews(r)'
      <4>1. PICK at \in {"create", "roles"} :
              at = IF account[e] = None THEN "create" ELSE "roles"
        OBVIOUS
      <4>2. PICK t : t = [NewTask("testLogin", at, c, e, 0, None)
                            EXCEPT !.seen = [active |-> TRUE, admin |-> admin, linked |-> FALSE]]
        OBVIOUS
      <4>3. Start(r, t, {"invite", "admin"})
        BY <3>4, <4>1, <4>2 DEF TestLogin
      <4>4. t.at # "renew"
        BY <3>2, <4>1, <4>2
      <4> QED BY <3>1, <4>3, <4>4
    <3>5. ASSUME NEW c, NEW k, NEW e, NEW op, Poll(r, c, k) \/ Decide(r, e, k, op)
          PROVE  ~Renews(r)'
      BY <3>1, <3>2, <3>5 DEF Poll, Decide
    <3>6. ASSUME NEW a, NEW e, NEW op, Administer(r, a, e, op) \/ EditAllowlist(r, a, e, op)
          PROVE  ~Renews(r)'
      BY <3>1, <3>2, <3>6 DEF Administer, EditAllowlist
    <3> QED BY <1>3, <3>3, <3>4, <3>5, <3>6 DEF Arrive
  <2>3. \A s \in Requests : NoRenewal(s)
    BY <2>1, <2>2 DEF NoRenewal, Renews
  <2> QED BY <2>1, <2>3, SharesStay, TokensStay DEF SameLogins, TypeOK
<1>4. ASSUME SameLogins(tokens'), shares' = shares,
             \A s \in Requests : task'[s] = task[s] \/ task'[s] = None
      PROVE  SharesInv'
  <2>1. \A s \in Requests : NoRenewal(s)
    BY <1>4 DEF NoRenewal, Renews
  <2> QED BY <1>4, <2>1, SharesStay
<1>5. CASE CleanupTokens \/ \E t \in DOMAIN tokens : TokenLapses(t)
  <2>1. task' = task /\ shares' = shares
    BY <1>5 DEF CleanupTokens, TokenLapses, history
  <2> QED BY <1>4, <1>5, <2>1, Cleaned, Lapsed
<1>6. CASE \/ UNCHANGED vars \/ Restart \/ CleanupCodes \/ \E r \in Requests : Fail(r)
           \/ \E k \in Codes : GenerateCode(k) \/ CodeLapses(k) \/ PollInterval(k)
  <2>1. /\ tokens' = tokens /\ shares' = shares
        /\ \A s \in Requests : task'[s] = task[s] \/ task'[s] = None
    BY <1>6 DEF vars, db, history, Restart, CleanupCodes, Fail, End, GenerateCode, CodeLapses,
       PollInterval, TypeOK
  <2>2. SameLogins(tokens')
    <3>1. SameLogins(tokens)
      BY DEF SameLogins, TypeOK
    <3> QED BY <2>1, <3>1
  <2> QED BY <1>4, <2>1, <2>2
<1> QED BY <1>1, <1>2, <1>3, <1>5, <1>6, SharesRotated, SharesLeft DEF Next

(*------------------------------ administrators ----------------------------*)

(* Nobody stops to be an administrator but by a change of users.                *)
LEMMA AdminsStay ==
  ASSUME TypeOK, StageInv, [Next]_vars, NEW e \in Emails, IsAdmin(e),
         \A r \in Requests : ~WriteUser(r) /\ ~TestRoles(r)
  PROVE  IsAdmin(e)'
<1>1. CASE account' = account
  BY <1>1 DEF IsAdmin
<1>2. ASSUME NEW r \in Requests, LinkIdentity(r) \/ CreateUser(r), account' # account
      PROVE  IsAdmin(e)'
  <2>1. account[e] \in Account /\ account[e] # None
    BY DEF IsAdmin, TypeOK
  <2>2. CASE LinkIdentity(r)
    <3>1. account' = [account EXCEPT ![task[r].user].linked = TRUE]
      BY <1>2, <2>2 DEF LinkIdentity, Refuse, db
    <3>2. \A a \in Account : /\ [a EXCEPT !.linked = TRUE] \in Account
                             /\ [a EXCEPT !.linked = TRUE].active = a.active
                             /\ [a EXCEPT !.linked = TRUE].admin = a.admin
      BY DEF Account
    <3>3. account'[e] \in {account[e], [account[e] EXCEPT !.linked = TRUE]}
      BY <3>1 DEF TypeOK
    <3>4. account'[e] \in Account /\ account'[e].active = account[e].active
          /\ account'[e].admin = account[e].admin
      BY <2>1, <3>2, <3>3
    <3> QED BY <3>4, AccountsAssumption, Zenon DEF IsAdmin
  <2>3. CASE CreateUser(r)
    BY <1>2, <2>1, <2>3 DEF CreateUser, Refuse, db, IsAdmin, TypeOK
  <2> QED BY <1>2, <2>2, <2>3
<1>3. ASSUME NEW r \in Requests, Continue(r), ~(LinkIdentity(r) \/ CreateUser(r))
      PROVE  account' = account
  BY <1>3 DEF Continue, CheckAllowed, FindIdentity, FindByEmail, Bootstrap, FindClaim, Claim,
     GrantLogin, FindToken, Rotate, Renew, RevokeAll, RevokeOne, Answer, FindPolled, Exchange,
     MarkUsed, FindDecided, WriteDecision, FindEntry, WriteEntry, Refuse, Reading, db
<1>4. ASSUME NEW r \in Requests, Arrive(r)
      PROVE  account' = account
  BY <1>4, ArrivesNew
<1>5. CASE ~\E r \in Requests : Arrive(r) \/ Continue(r)
  BY <1>1, <1>5 DEF Next, Restart, Fail, CleanupCodes, CleanupTokens, TokenLapses,
     GenerateCode, CodeLapses, PollInterval, vars, db
<1> QED BY <1>1, <1>2, <1>3, <1>4, <1>5

(* Each step is of one request, or ends requests and leaves the others alone.    *)
LEMMA EachStep ==
  ASSUME TypeOK, StageInv, [Next]_vars
  PROVE  /\ met \subseteq met' /\ (faults' = 0 => faults = 0)
         /\ \/ \E r \in Requests : Arrive(r)
            \/ \E r \in Requests : Continue(r)
            \/ /\ \A s \in Requests : task'[s] = task[s] \/ task'[s] = None
               /\ UNCHANGED account
               /\ faults' = 0 => UNCHANGED <<task, credit>>
<1>1. ASSUME NEW r \in Requests, Arrive(r)
      PROVE  met \subseteq met' /\ faults' = faults
  BY <1>1, ArrivesNew
<1>2. ASSUME NEW r \in Requests, Continue(r)
      PROVE  met \subseteq met' /\ faults' = faults
  BY <1>2, GoesOn
<1>3. CASE ~\E r \in Requests : Arrive(r) \/ Continue(r)
  <2>1. CASE Restart \/ \E r \in Requests : Fail(r)
    <3>1. faults' # 0 /\ met' = met /\ account' = account
      BY <2>1 DEF Restart, Fail, TypeOK, db, history
    <3>2. \A s \in Requests : task'[s] = task[s] \/ task'[s] = None
      BY <2>1 DEF Restart, Fail, End, TypeOK
    <3> QED BY <3>1, <3>2
  <2>2. CASE ~(Restart \/ \E r \in Requests : Fail(r))
    <3>1. UNCHANGED <<task, met, faults, account, credit>>
      BY <1>3, <2>2 DEF Next, CleanupCodes, CleanupTokens, TokenLapses, GenerateCode,
         CodeLapses, PollInterval, vars, db, history
    <3> QED BY <3>1
  <2> QED BY <2>1, <2>2
<1> QED BY <1>1, <1>2, <1>3

LEMMA AdminsKept ==
  ASSUME TypeOK, TypeOK', StageInv, AdminInv, [Next]_vars
  PROVE  AdminInv'
<1> SUFFICES ASSUME "admin" \notin met' PROVE AdminInv'
  BY DEF AdminInv
<1>1. "admin" \notin met
  BY EachStep
<1>2. ASSUME NEW r \in Requests, TestRoles(r)
      PROVE  FALSE
  BY <1>1, <1>2, AtWork DEF TestRoles, At, InStage, AdminInv, Decisions, Changes
<1>3. ASSUME NEW r \in Requests, WriteUser(r)
      PROVE  AdminInv'
  <2>1. task[r] # None /\ task[r].op \in Changes
    BY <1>3, AtWork DEF WriteUser, At, InStage, Decisions
  <2>2. task'[r] = None /\ \A s \in Requests \ {r} : task'[s] = task[s]
    BY <1>3 DEF WriteUser, End, TypeOK
  <2> QED BY <1>1, <2>1, <2>2 DEF AdminInv, Changes
<1>4. CASE ~\E r \in Requests : WriteUser(r)
  <2>1. \A e \in Emails : IsAdmin(e) => IsAdmin(e)'
    BY <1>2, <1>4, AdminsStay
  <2>2. ASSUME NEW r \in Requests, Continue(r)
        PROVE  AdminInv'
    <3>1. /\ task[r] # None /\ \A s \in Requests \ {r} : task'[s] = task[s]
          /\ task'[r] # None =>
               /\ task'[r].op = task[r].op
               /\ task[r].op \in Changes => task'[r].user = task[r].user
      BY <2>2, GoesOn DEF Changes
    <3> QED BY <1>1, <2>1, <3>1 DEF AdminInv, Changes
  <2>3. ASSUME NEW r \in Requests, Arrive(r)
        PROVE  AdminInv'
    <3>1. /\ task[r] = None /\ \A s \in Requests \ {r} : task'[s] = task[s]
      BY <2>3, ArrivesNew DEF Start
    <3>2. task'[r].op # "testLogin"
      <4>1. \A c \in Clients, e \in Emails, admin \in BOOLEAN :
              ~TestLogin(r, c, e, admin)
        BY DEF TestLogin, Start
      <4>2. \A c \in Clients, e \in Emails : Logout(r, c, e, "logout") => task'[r].op = "logout"
        BY DEF Logout, Start, NewTask, TypeOK
      <4> QED BY <2>3, <4>1, <4>2, ArrivesAs DEF Changes
    <3>3. task'[r].op \in Changes =>
            /\ \A s \in Requests : task[s] # None => task[s].op \notin Changes
            /\ task'[r].op \in {"deactivate", "demote"} =>
                 \E a \in Emails \ {task'[r].user} : IsAdmin(a)
      <4>1. ASSUME NEW a \in Emails, NEW e \in Emails, NEW op \in Changes,
                   Administer(r, a, e, op)
            PROVE  /\ \A s \in Requests : task[s] # None => task[s].op \notin Changes
                   /\ op \in {"deactivate", "demote"} => a # e /\ IsAdmin(a)
        BY <4>1 DEF Administer, Start, Under, Changes
      <4>2. \A c \in Clients, e \in Emails : Logout(r, c, e, "logout") => task'[r].op = "logout"
        BY DEF Logout, Start, NewTask, TypeOK
      <4>3. \A c \in Clients, e \in Emails, admin \in BOOLEAN :
              ~TestLogin(r, c, e, admin)
        BY DEF TestLogin, Start
      <4> QED BY <2>3, <4>1, <4>2, <4>3, ArrivesAs DEF Changes
    <3>4. ASSUME NEW q \in Requests, task'[q] # None
          PROVE  /\ task'[q].op # "testLogin"
                 /\ task'[q].op \in Changes => \A s \in Requests \ {q} :
                      task'[s] # None => task'[s].op \notin Changes
                 /\ task'[q].op \in {"deactivate", "demote"} =>
                      \E a \in Emails \ {task'[q].user} : IsAdmin(a)'
      <4>1. CASE q = r
        BY <2>1, <3>1, <3>2, <3>3, <4>1 DEF Changes
      <4>2. CASE q # r
        BY <1>1, <2>1, <3>1, <3>3, <3>4, <4>2 DEF AdminInv
      <4> QED BY <4>1, <4>2
    <3> QED BY <3>4 DEF AdminInv
  <2>4. CASE \A s \in Requests : task'[s] = task[s] \/ task'[s] = None
    BY <1>1, <2>1, <2>4 DEF AdminInv
  <2> QED BY <2>2, <2>3, <2>4, EachStep
<1> QED BY <1>3, <1>4

(* A change of users that takes away leaves the administrator besides its user.  *)
LEMMA SomebodyStays ==
  ASSUME TypeOK, StageInv, AdminInv, [Next]_vars, "admin" \notin met,
         NEW e \in Emails, IsAdmin(e)
  PROVE  \E a \in Emails : IsAdmin(a)'
<1>1. ASSUME NEW r \in Requests, TestRoles(r)
      PROVE  FALSE
  BY <1>1, AtWork DEF TestRoles, At, InStage, AdminInv, Decisions, Changes
<1>2. ASSUME NEW r \in Requests, WriteUser(r)
      PROVE  \E a \in Emails : IsAdmin(a)'
  <2>1. /\ task[r] # None /\ task[r].op \in Changes /\ task[r].user \in Emails
        /\ account[task[r].user] # None
    BY <1>2, AtWork DEF WriteUser, At, InStage, Requested, Decisions, Changes, Ops
  <2>2. \A a \in Emails \ {task[r].user} : account'[a] = account[a]
    BY <1>2 DEF WriteUser, TypeOK
  <2>3. CASE task[r].op \in {"deactivate", "demote"}
    BY <2>1, <2>2, <2>3 DEF AdminInv, IsAdmin
  <2>4. CASE e # task[r].user
    BY <2>2, <2>4 DEF IsAdmin
  <2>5. CASE task[r].op \in {"activate", "promote"} /\ e = task[r].user
    <3>1. account[e] \in Account /\ account[e] # None
      BY DEF IsAdmin, TypeOK
    <3>2. PICK a \in Account :
            a = IF task[r].op = "activate" THEN [account[e] EXCEPT !.active = TRUE]
                                           ELSE [account[e] EXCEPT !.admin = TRUE]
      BY <3>1 DEF Account
    <3>3. account'[e] = a
      <4> PICK f \in Account : f = account[e]
        BY <3>1
      <4>1. /\ [f EXCEPT !.active = TRUE, !.admin = f.admin] = [f EXCEPT !.active = TRUE]
            /\ [f EXCEPT !.active = f.active, !.admin = TRUE] = [f EXCEPT !.admin = TRUE]
        BY DEF Account
      <4> QED BY <1>2, <2>5, <3>2, <4>1 DEF WriteUser, TypeOK
    <3>4. a.active = (account[e].active \/ task[r].op = "activate")
          /\ a.admin = (account[e].admin \/ task[r].op = "promote")
      BY <2>5, <3>1, <3>2 DEF Account
    <3>5. account[e].active /\ account[e].admin
      BY DEF IsAdmin
    <3> QED BY <3>3, <3>4, <3>5, AccountsAssumption DEF IsAdmin
  <2> QED BY <2>1, <2>3, <2>4, <2>5 DEF Changes
<1>3. CASE ~\E r \in Requests : WriteUser(r)
  BY <1>1, <1>3, AdminsStay
<1> QED BY <1>2, <1>3

(*------------------------------- device codes -----------------------------*)

(* What PollInv says of one code. *)
CodeInv(k) ==
  /\ credit[k] >= 0
  /\ \A r \in Requests : Polls(r, k) =>
       /\ \A s \in Requests \ {r} : ~ Polls(s, k)
       /\ task[r].at = "exchange" => credit[k] >= 1
  /\ codes[k].status = "approved" =>
       credit[k] >= 1 \/ \E r \in Requests : Polls(r, k) /\ Spent(r)

(* A code that nothing is decided about, and whose polls do not come to exchange it. *)
LEMMA CodeStays ==
  ASSUME NEW k \in Codes, CodeInv(k), credit'[k] = credit[k],
         codes'[k].status = "approved" => codes[k].status = "approved",
         \A s \in Requests : Polls(s, k)' =>
           Polls(s, k) /\ (task'[s].at = "exchange" => task[s].at = "exchange"),
         \A s \in Requests : Polls(s, k) /\ Spent(s) /\ codes'[k].status = "approved" =>
           Polls(s, k)' /\ Spent(s)'
  PROVE  CodeInv(k)'
BY DEF CodeInv

LEMMA PolledCodes ==
  ASSUME TypeOK, StageInv, NEW r \in Requests, NEW k \in Codes, CodeInv(k),
         FindPolled(r) \/ MarkUsed(r)
  PROVE  CodeInv(k)'
<1>1. /\ task[r] \in Task /\ task[r] # None /\ InStage(task[r]) /\ Requested(task[r])
      /\ \A s \in Requests \ {r} : task'[s] = task[s]
      /\ task'[r] # None => task'[r].op = task[r].op /\ task'[r].code = task[r].code
  BY GoesOn DEF Continue
<1>2. /\ task[r].op = "poll" /\ task[r].code \in Codes
  BY <1>1 DEF FindPolled, MarkUsed, At, InStage, Requested, Decisions, Changes
<1>3. /\ \A s \in Requests \ {r} : (Polls(s, k)' <=> Polls(s, k)) /\ (Spent(s)' <=> Spent(s))
      /\ Polls(r, k) <=> task[r].code = k
      /\ Polls(r, k)' => task[r].code = k
      /\ credit' = credit
  BY <1>1, <1>2 DEF Polls, Spent, FindPolled, MarkUsed, Refuse, Reading, history
<1>4. CASE FindPolled(r)
  <2>1. codes' = codes /\ task[r].at = "find" /\ ~Spent(r)
    BY <1>4 DEF FindPolled, At, Spent, Refuse, Reading, db
  <2>2. task'[r] # None =>
          \/ task'[r].at = "mark"
          \/ task'[r].at = "exchange" /\ codes[task[r].code].status = "approved"
    BY <1>1, <1>4 DEF FindPolled, Refuse, End, Goto, TypeOK, Task
  <2>3. CASE task'[r] # None /\ task'[r].at = "exchange" /\ task[r].code = k
    <3>1. \A s \in Requests \ {r} : ~Polls(s, k)
      BY <1>3, <2>3 DEF CodeInv
    <3>2. credit[k] >= 1
      BY <2>1, <2>2, <2>3, <3>1 DEF CodeInv
    <3> QED BY <1>3, <3>1, <3>2 DEF CodeInv
  <2>4. CASE ~(task'[r] # None /\ task'[r].at = "exchange" /\ task[r].code = k)
    <3>1. \A s \in Requests : Polls(s, k)' =>
             Polls(s, k) /\ (task'[s].at = "exchange" => task[s].at = "exchange")
      BY <1>1, <1>3, <2>4 DEF Polls
    <3>2. \A s \in Requests : Polls(s, k) /\ Spent(s) => Polls(s, k)' /\ Spent(s)'
      BY <1>3, <2>1
    <3> QED BY <1>3, <2>1, <3>1, <3>2, CodeStays
  <2> QED BY <2>3, <2>4
<1>5. CASE MarkUsed(r)
  <2>1. /\ codes'[k].status = "approved" => codes[k].status = "approved" /\ task[r].code # k
    <3>1. codes[task[r].code] \in Code /\ codes \in [Codes -> Code]
      BY <1>2 DEF TypeOK
    <3> QED BY <1>2, <1>5, <3>1 DEF MarkUsed, Refuse, db, Code
  <2>2. task'[r] # None => task'[r].at = "answer"
    BY <1>1, <1>5 DEF MarkUsed, Refuse, End, Goto, TypeOK, Task
  <2>3. \A s \in Requests : Polls(s, k)' =>
           Polls(s, k) /\ (task'[s].at = "exchange" => task[s].at = "exchange")
    BY <1>1, <1>3, <2>2 DEF Polls
  <2>4. \A s \in Requests : Polls(s, k) /\ Spent(s) /\ codes'[k].status = "approved" =>
           Polls(s, k)' /\ Spent(s)'
    BY <1>3, <2>1
  <2> QED BY <1>3, <2>1, <2>3, <2>4, CodeStays
<1> QED BY <1>4, <1>5

LEMMA ExchangedCodes ==
  ASSUME TypeOK, StageInv, LineInv, NEW r \in Requests, NEW k \in Codes, CodeInv(k),
         Exchange(r)
  PROVE  CodeInv(k)'
<1>1. /\ task[r] \in Task /\ task[r] # None /\ InStage(task[r]) /\ Requested(task[r])
      /\ \A s \in Requests \ {r} : task'[s] = task[s]
      /\ task'[r] # None => task'[r].op = task[r].op /\ task'[r].code = task[r].code
  BY GoesOn DEF Continue
<1>2. /\ task[r].op = "poll" /\ task[r].code \in Codes /\ task[r].at = "exchange"
  BY <1>1 DEF Exchange, At, InStage, Requested, Decisions, Changes
<1>3. /\ task'[r] # None /\ task'[r].at = "mark" /\ task'[r].token # 0 /\ ~Spent(r)
  <2>1. PICK n \in Nat : n = Len(tokens) + 1
    BY Rows
  <2>2. Issue(r, task[r].user, 0) /\ 0 \in 0..Len(tokens)
    BY Rows DEF Exchange
  <2>3. /\ task'[r] # None /\ task'[r].token = n
        /\ task'[r].at = IF task[r].op = "poll" THEN "mark" ELSE "answer"
    BY <1>1, <2>1, <2>2, Issued
  <2> QED BY <1>2, <2>1, <2>3, Rows DEF Spent
<1>4. /\ \A s \in Requests \ {r} : (Polls(s, k)' <=> Polls(s, k)) /\ (Spent(s)' <=> Spent(s))
      /\ Polls(r, k) <=> task[r].code = k
      /\ Polls(r, k)' <=> task[r].code = k
      /\ codes' = codes /\ Spent(r)'
  BY <1>1, <1>2, <1>3 DEF Polls, Spent, Exchange
<1>5. credit' = [credit EXCEPT ![task[r].code] = credit[task[r].code] - 1]
      /\ credit \in [Codes -> Int]
  BY DEF Exchange, TypeOK
<1>6. CASE task[r].code = k
  <2>1. credit'[k] = credit[k] - 1 /\ credit[k] \in Int
    BY <1>5, <1>6
  <2>2. credit[k] >= 1 /\ \A s \in Requests \ {r} : ~Polls(s, k)
    BY <1>2, <1>4, <1>6 DEF CodeInv
  <2> QED BY <1>3, <1>4, <1>6, <2>1, <2>2 DEF CodeInv
<1>7. CASE task[r].code # k
  <2>1. credit'[k] = credit[k]
    BY <1>2, <1>5, <1>7
  <2>2. \A s \in Requests : Polls(s, k)' =>
           Polls(s, k) /\ (task'[s].at = "exchange" => task[s].at = "exchange")
    BY <1>1, <1>4, <1>7
  <2>3. \A s \in Requests : Polls(s, k) /\ Spent(s) => Polls(s, k)' /\ Spent(s)'
    BY <1>4, <1>7
  <2> QED BY <1>4, <2>1, <2>2, <2>3, CodeStays
<1> QED BY <1>6, <1>7

LEMMA DecidedCodes ==
  ASSUME TypeOK, StageInv, NEW r \in Requests, NEW k \in Codes, CodeInv(k), WriteDecision(r)
  PROVE  CodeInv(k)'
<1>1. /\ task[r] \in Task /\ task[r] # None /\ InStage(task[r]) /\ Requested(task[r])
      /\ \A s \in Requests \ {r} : task'[s] = task[s]
  BY GoesOn DEF Continue
<1>2. /\ task[r].op \in Decisions /\ task[r].code \in Codes /\ task'[r] = None
  BY <1>1 DEF WriteDecision, At, InStage, Requested, Decisions, Changes, Refuse, End, TypeOK
<1>3. \A s \in Requests : (Polls(s, k)' <=> Polls(s, k)) /\ (Polls(s, k) => task'[s] = task[s])
  BY <1>1, <1>2 DEF Polls, Decisions
<1>4. credit \in [Codes -> Int] /\ codes \in [Codes -> Code]
  BY DEF TypeOK
<1>5. CASE Refuse(r) \/ task[r].code # k \/ task[r].op # "approve"
  <2>1. credit'[k] = credit[k]
    BY <1>2, <1>4, <1>5 DEF WriteDecision, Refuse, history
  <2>2. codes'[k].status = "approved" => codes[k].status = "approved"
    <3>1. CASE Refuse(r)
      BY <3>1 DEF Refuse, db
    <3>2. CASE ~Refuse(r)
      <4>1. PICK st, u : codes' = [codes EXCEPT ![task[r].code].status = st,
                                                ![task[r].code].user = u]
                         /\ (task[r].op # "approve" => st = "denied")
        BY <1>2, <3>2 DEF WriteDecision, Decisions
      <4>2. codes[k] \in Code
        BY <1>4
      <4>3. CASE task[r].code = k
        <5>1. codes'[k].status = st
          BY <1>4, <4>1, <4>2, <4>3 DEF Code
        <5> QED BY <1>5, <3>2, <4>1, <4>3, <5>1
      <4>4. CASE task[r].code # k
        BY <1>2, <1>4, <4>1, <4>4
      <4> QED BY <4>3, <4>4
    <3> QED BY <3>1, <3>2
  <2> QED BY <1>3, <2>1, <2>2, CodeStays DEF Spent
<1>6. CASE ~Refuse(r) /\ task[r].code = k /\ task[r].op = "approve"
  <2>1. credit'[k] = credit[k] + 1 /\ credit[k] \in Int
    BY <1>2, <1>4, <1>6 DEF WriteDecision
  <2> QED BY <1>3, <2>1 DEF CodeInv
<1> QED BY <1>5, <1>6

(* Steps that are about no code. *)
LEMMA OtherCodes ==
  ASSUME TypeOK, StageInv, NEW r \in Requests, NEW k \in Codes, CodeInv(k), Continue(r),
         ~(FindPolled(r) \/ MarkUsed(r) \/ Exchange(r) \/ WriteDecision(r))
  PROVE  CodeInv(k)'
<1>1. /\ task[r] \in Task /\ task[r] # None /\ InStage(task[r])
      /\ \A s \in Requests \ {r} : task'[s] = task[s]
      /\ task'[r] # None => task'[r].op = task[r].op /\ task'[r].code = task[r].code
  BY GoesOn
<1>2. UNCHANGED <<codes, credit>>
  BY DEF Continue, CheckAllowed, FindIdentity, FindByEmail, LinkIdentity, Bootstrap,
     CreateUser, FindClaim, Claim, GrantLogin, TestRoles, FindToken, Rotate, Renew, RevokeAll,
     RevokeOne, Answer, FindDecided, WriteUser, FindEntry, WriteEntry, Refuse, Reading, db,
     history
<1>3. task[r].op = "poll" => Answer(r)
  BY <1>1 DEF Continue, CheckAllowed, FindIdentity, FindByEmail, LinkIdentity, Bootstrap,
     CreateUser, FindClaim, Claim, GrantLogin, TestRoles, FindToken, Rotate, Renew, RevokeAll,
     RevokeOne, Answer, FindDecided, WriteUser, FindEntry, WriteEntry, At, InStage,
     Decisions, Changes
<1>4. Answer(r) => task'[r] = None /\ ~Spent(r)
  BY DEF Answer, At, End, Spent, TypeOK
<1>5. ~Polls(r, k)' /\ (Polls(r, k) => ~Spent(r))
  BY <1>1, <1>3, <1>4 DEF Polls
<1>6. \A s \in Requests \ {r} : (Polls(s, k)' <=> Polls(s, k)) /\ (Spent(s)' <=> Spent(s))
  BY <1>1 DEF Polls, Spent
<1> QED BY <1>1, <1>2, <1>5, <1>6, CodeStays

LEMMA PollsKept ==
  ASSUME TypeOK, TypeOK', StageInv, LineInv, PollInv, [Next]_vars
  PROVE  PollInv'
<1> SUFFICES ASSUME "poll" \notin met', faults' = 0, NEW k \in Codes
             PROVE  CodeInv(k)'
  BY DEF PollInv, CodeInv
<1>1. "poll" \notin met /\ faults = 0
  BY EachStep
<1>2. CodeInv(k)
  BY <1>1 DEF PollInv, CodeInv
<1>3. ASSUME NEW r \in Requests, Continue(r)
      PROVE  CodeInv(k)'
  BY <1>2, <1>3, PolledCodes, ExchangedCodes, DecidedCodes, OtherCodes
<1>4. ASSUME NEW r \in Requests, Arrive(r)
      PROVE  CodeInv(k)'
  <2>1. /\ task[r] = None /\ UNCHANGED <<codes, credit>>
        /\ \A s \in Requests \ {r} : task'[s] = task[s]
    BY <1>4, ArrivesNew DEF Start
  <2>2. \A s \in Requests \ {r} : (Polls(s, k)' <=> Polls(s, k)) /\ (Spent(s)' <=> Spent(s))
    BY <2>1 DEF Polls, Spent
  <2>3. CASE ~Polls(r, k)'
    BY <1>2, <2>1, <2>2, <2>3, CodeStays DEF Polls
  <2>4. CASE Polls(r, k)'
    <3>1. \A c \in Clients, e \in Emails, admin \in BOOLEAN :
            TestLogin(r, c, e, admin) => task'[r].op = "testLogin"
      BY DEF TestLogin, Start, NewTask, TypeOK
    <3>2. \A c \in Clients, e \in Emails : Logout(r, c, e, "logout") => task'[r].op = "logout"
      BY DEF Logout, Start, NewTask, TypeOK
    <3>3. PICK c \in Clients : Poll(r, c, k) /\ task'[r].at = "find"
      BY <1>4, <2>4, <3>1, <3>2, ArrivesAs DEF Polls, Changes
    <3>4. \A s \in Requests : ~Polls(s, k)
      BY <3>3 DEF Poll, Start, Under, Polls
    <3> QED BY <1>2, <2>1, <2>2, <3>3, <3>4 DEF CodeInv
  <2> QED BY <2>3, <2>4
<1>5. CASE ~\E r \in Requests : Arrive(r) \/ Continue(r)
  <2>1. UNCHANGED <<task, credit>>
    BY <1>5, EachStep
  <2>2. codes'[k].status = "approved" => codes[k].status = "approved"
    <3>1. codes \in [Codes -> Code] /\ codes[k] \in Code
      BY DEF TypeOK
    <3>2. ASSUME NEW j \in Codes, GenerateCode(j) \/ CodeLapses(j) \/ PollInterval(j)
          PROVE  codes'[k].status = "approved" => codes[k].status = "approved"
      BY <3>1, <3>2 DEF GenerateCode, CodeLapses, PollInterval, Code
    <3>3. CASE CleanupCodes
      BY <3>1, <3>3 DEF CleanupCodes, Code
    <3>4. CASE \/ UNCHANGED vars \/ Restart \/ CleanupTokens
               \/ \E r \in Requests : Fail(r)
               \/ \E t \in DOMAIN tokens : TokenLapses(t)
      BY <3>4 DEF vars, db, Restart, CleanupTokens, Fail, TokenLapses
    <3> QED BY <1>5, <3>2, <3>3, <3>4 DEF Next
  <2> QED BY <1>2, <2>1, <2>2, CodeStays DEF Polls, Spent
<1> QED BY <1>3, <1>4, <1>5

(*--------------------------------- theorems -------------------------------*)

LEMMA StepHolds == IInv /\ [Next]_vars => IInv'
<1> SUFFICES ASSUME IInv, [Next]_vars PROVE IInv'
  OBVIOUS
<1>1. /\ TypeOK /\ StageInv /\ LineInv /\ ApproverInv /\ PollInv /\ AdminInv
      /\ Rights /\ SharesInv
  BY DEF IInv, Rights
<1>2. TypeOK' /\ StageInv' /\ ApproverInv'
  BY <1>1, TypesKept
<1>3. LineInv'
  BY <1>1, <1>2, LinesKept
<1>4. SharesInv'
  BY <1>1, <1>2, SharesKept
<1>5. Rights'
  BY <1>1, <1>2, RightsKept
<1>6. PollInv'
  BY <1>1, <1>2, PollsKept
<1>7. AdminInv'
  BY <1>1, <1>2, AdminsKept
<1> QED BY <1>2, <1>3, <1>4, <1>5, <1>6, <1>7 DEF IInv, Rights

LEMMA InvHolds == Spec => []IInv
<1> QED BY InitHolds, StepHolds, PTL DEF Spec

(* The tables, the cookies, and what every request knows at its stage, have     *)
(* their types: however the calls of requests interleave and whatever fails.    *)
THEOREM AccountsTyped == Spec => []TypeOK
<1>1. IInv => TypeOK
  BY DEF IInv
<1> QED BY <1>1, InvHolds, PTL

(* refreshToken() revokes the row before it makes the next one, so a login has  *)
(* one good refresh token, and none after a logout that found it good; each      *)
(* update() of a row that another request has taken since it was read allows one *)
(* more.  No request, fault, restart or cleanup is excluded.                     *)
THEOREM RotationMovesTheRight == Spec => []OneLivePerLogin
<1>1. ASSUME IInv, NEW l \in 1..Len(tokens)
      PROVE  Cardinality(Live(l)) <= shares[l]
  <2>1. l \in 1..MaxTokens /\ l \in DOMAIN tokens
    BY <1>1, AccountsAssumption, Rows DEF IInv, TypeOK
  <2>2. Cardinality(Live(l)) + Cardinality(Renewing(l)) <= shares[l]
    BY <1>1, <2>1 DEF IInv, SharesInv
  <2>3. /\ Cardinality(Live(l)) \in Nat /\ Cardinality(Renewing(l)) \in Nat
        /\ shares[l] \in Int
    BY <1>1, <2>1, Counted DEF Countable, IInv, TypeOK
  <2> QED BY <2>2, <2>3
<1>2. IInv => OneLivePerLogin
  BY <1>1 DEF OneLivePerLogin
<1> QED BY <1>2, InvHolds, PTL

(* A client that waits for its answers and loses none is not thrown out by the  *)
(* reuse detection of refreshToken(): what it holds is good until it expires.   *)
THEOREM WaitingClientsStay == Spec => []HonestStays
<1>1. ASSUME IInv, Calm, NEW c \in Clients, held[c] # 0,
             \A r \in Requests : task[r] # None => task[r].client # c
      PROVE  Good(held[c])
  <2>1. \A r \in Requests : ~Replaces(r, c)
    BY <1>1 DEF Replaces, Owns
  <2> QED BY <1>1, <2>1 DEF IInv, RightInv
<1>2. IInv => HonestStays
  BY <1>1 DEF HonestStays, Calm, Good
<1> QED BY <1>2, InvHolds, PTL

(* pollForToken() makes tokens of a device code once for each approval, whatever *)
(* decisions, cleanups and polls of other codes come between its calls.          *)
THEOREM ApprovalsAreSpentOnce == Spec => []IssuedByApproval
<1>1. IInv => IssuedByApproval
  BY DEF IInv, PollInv, IssuedByApproval
<1> QED BY <1>1, InvHolds, PTL

(* updateUser() and updateUserRoles() leave somebody who can undo what they did. *)
THEOREM AdministratorsRemain == Spec => AdminRemains
<1>1. IInv /\ [Next]_vars =>
        [(\E e \in Emails : IsAdmin(e)) /\ "admin" \notin met =>
           (\E e \in Emails : IsAdmin(e))']_vars
  BY SomebodyStays DEF IInv
<1> QED BY <1>1, InvHolds, PTL DEF Spec, AdminRemains
=============================================================================
