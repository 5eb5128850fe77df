--------------------------- MODULE RunWindow_proofs ---------------------------
(* What holds of the run window's ids for any number of windows, commands  *)
(* and ends of the worker: IInv, and from it TypeOK, IdsAgree and          *)
(* OwnCloseSilent; then TellInv, and from it UserCloseTold; then HoldInv,  *)
(* and from it NoOrphan and ActsInWindow.                                  *)
EXTENDS RunWindow, SequenceTheorems, TLAPS

USE RunWindowAssumption

Msg == Gone \cup Loaded \cup Reply

(* ReplyOnce, InReply, Doomed and EventsOwn of any queue and any tasks.    *)
DueOf(q)   == {i \in DOMAIN q : q[i].ev = "done" /\ q[i].w # None}
ReplyOf(q) == {q[i].w : i \in DueOf(q)}
Once(q)    == \A i, j \in DueOf(q) : q[i].w = q[j].w => i = j
Own(g, b, wn) == g.ev \in {"tab", "window"} => g \in b \/ wn[g.w] = "removed"
OwnOf(q, b, wn) == \A i \in DOMAIN q : Own(q[i], b, wn)
Removing(t) == t.stage = "removing" /\ t.out
DoomOf(tk) == {tk[c].tab : c \in {d \in DOMAIN tk : Removing(tk[d])}}

(* An answer that brings no window, or one that no other answer brings.    *)
LEMMA AppendQ ==
  ASSUME NEW q \in Seq(Msg), NEW m \in Msg, NEW b, NEW wn,
         Once(q), OwnOf(q, b, wn), Own(m, b, wn),
         m.ev = "done" => m.w \notin ReplyOf(q)
  PROVE  /\ Append(q, m) \in Seq(Msg)
         /\ Once(Append(q, m))
         /\ OwnOf(Append(q, m), b, wn)
         /\ ReplyOf(Append(q, m)) =
              ReplyOf(q) \cup (IF m.ev = "done" /\ m.w # None THEN {m.w} ELSE {})
<1> DEFINE r == Append(q, m)
           n == Len(q) + 1
<1>1. /\ r \in Seq(Msg) /\ Len(r) = n /\ DOMAIN r = 1 .. n
      /\ r[n] = m /\ \A i \in 1 .. Len(q) : r[i] = q[i]
  BY AppendProperties, LenProperties
<1>2. DOMAIN q = 1 .. Len(q) /\ Len(q) \in Nat
  BY LenProperties
<1> HIDE DEF r
<1>3. DueOf(r) = DueOf(q) \cup (IF m.ev = "done" /\ m.w # None THEN {n} ELSE {})
  BY <1>1, <1>2 DEF DueOf
<1>4. \A i \in DueOf(q) : i \in 1 .. Len(q) /\ r[i] = q[i] /\ i # n
  BY <1>1, <1>2 DEF DueOf
<1>5. ReplyOf(r) = ReplyOf(q) \cup (IF m.ev = "done" /\ m.w # None THEN {m.w} ELSE {})
  BY <1>1, <1>3, <1>4 DEF ReplyOf
<1>6. Once(r)
  BY <1>1, <1>3, <1>4 DEF Once, ReplyOf
<1>7. OwnOf(r, b, wn)
  BY <1>1, <1>2 DEF OwnOf
<1>8. QED
  BY <1>1, <1>5, <1>6, <1>7 DEF r

(* Events of the browser bring no id to the worker.                        *)
LEMMA ConcatQ ==
  ASSUME NEW q \in Seq(Msg), NEW e \in Seq(Gone), NEW b, NEW wn,
         Once(q), OwnOf(q, b, wn), OwnOf(e, b, wn)
  PROVE  /\ q \o e \in Seq(Msg)
         /\ Once(q \o e)
         /\ OwnOf(q \o e, b, wn)
         /\ ReplyOf(q \o e) = ReplyOf(q)
<1> DEFINE r == q \o e
<1>0. e \in Seq(Msg)
  BY SeqMonotonic DEF Msg
<1>1. /\ r \in Seq(Msg) /\ DOMAIN r = 1 .. Len(q) + Len(e)
      /\ \A i \in 1 .. Len(q) + Len(e) : r[i] = IF i <= Len(q) THEN q[i] ELSE e[i - Len(q)]
  BY <1>0, ConcatProperties, LenProperties
<1>2. DOMAIN q = 1 .. Len(q) /\ Len(q) \in Nat /\ DOMAIN e = 1 .. Len(e) /\ Len(e) \in Nat
  BY LenProperties
<1> HIDE DEF r
<1>3. \A i \in DOMAIN r : \/ i \in DOMAIN q /\ r[i] = q[i]
                          \/ \E j \in DOMAIN e : r[i] = e[j]
  <2>1. TAKE i \in DOMAIN r
  <2>2. CASE i <= Len(q)
    BY <1>1, <1>2, <2>2
  <2>3. CASE i > Len(q)
    <3>1. i - Len(q) \in DOMAIN e /\ r[i] = e[i - Len(q)]
      BY <1>1, <1>2, <2>3
    <3>2. QED
      BY <3>1
  <2>4. QED
    BY <1>1, <1>2, <2>2, <2>3
<1>4. \A i \in DOMAIN q : i \in DOMAIN r /\ r[i] = q[i]
  BY <1>1, <1>2
<1>5. \A i \in DOMAIN e : e[i].ev # "done"
  <2>1. e \in [1 .. Len(e) -> Gone]
    BY LenProperties
  <2>2. QED
    BY <2>1, <1>2 DEF Gone
<1>6. DueOf(r) = DueOf(q)
  BY <1>3, <1>4, <1>5 DEF DueOf
<1>7. \A i \in DueOf(q) : r[i] = q[i]
  BY <1>4 DEF DueOf
<1>8. ReplyOf(r) = ReplyOf(q) /\ Once(r)
  BY <1>6, <1>7 DEF ReplyOf, Once
<1>9. OwnOf(r, b, wn)
  BY <1>3 DEF OwnOf
<1>10. QED
  BY <1>1, <1>8, <1>9 DEF r

(* What the worker takes from its queue is not in it any more.             *)
LEMMA TailQ ==
  ASSUME NEW q \in Seq(Msg), q # <<>>, NEW b, NEW wn,
         Once(q), OwnOf(q, b, wn)
  PROVE  /\ Tail(q) \in Seq(Msg) /\ Head(q) \in Msg
         /\ Once(Tail(q))
         /\ OwnOf(Tail(q), b, wn)
         /\ Own(Head(q), b, wn)
         /\ ReplyOf(Tail(q)) \subseteq ReplyOf(q)
         /\ Head(q).ev = "done" /\ Head(q).w # None =>
              Head(q).w \in ReplyOf(q) /\ Head(q).w \notin ReplyOf(Tail(q))
<1> DEFINE r == Tail(q)
<1>1. /\ r \in Seq(Msg) /\ Head(q) \in Msg /\ Len(r) = Len(q) - 1
      /\ \A i \in 1 .. Len(r) : r[i] = q[i + 1]
  BY HeadTailProperties
<1>2. /\ DOMAIN q = 1 .. Len(q) /\ Len(q) \in Nat \ {0} /\ DOMAIN r = 1 .. Len(r)
      /\ Head(q) = q[1]
  BY <1>1, LenProperties, EmptySeq
<1> HIDE DEF r
<1>3. \A i \in DOMAIN r : i + 1 \in DOMAIN q /\ r[i] = q[i + 1] /\ i \in Nat /\ i + 1 # 1
  BY <1>1, <1>2
<1>4. \A i \in DueOf(r) : i + 1 \in DueOf(q) /\ r[i] = q[i + 1] /\ i \in Nat /\ i + 1 # 1
  BY <1>3 DEF DueOf
<1>5. Once(r)
  BY <1>4 DEF Once
<1>6. ReplyOf(r) \subseteq ReplyOf(q)
  BY <1>4 DEF ReplyOf
<1>7. OwnOf(r, b, wn)
  BY <1>3 DEF OwnOf
<1>8. 1 \in DOMAIN q
  BY <1>2
<1>9. Own(Head(q), b, wn)
  BY <1>2, <1>8 DEF OwnOf
<1>10. ASSUME Head(q).ev = "done", Head(q).w # None
       PROVE  Head(q).w \in ReplyOf(q) /\ Head(q).w \notin ReplyOf(r)
  <2>1. 1 \in DueOf(q)
    BY <1>2, <1>8, <1>10 DEF DueOf
  <2>2. QED
    BY <2>1, <1>2, <1>4 DEF ReplyOf, Once
<1>11. QED
  BY <1>1, <1>5, <1>6, <1>7, <1>9, <1>10 DEF r

TaskOK == /\ task \in Seq(Task)
          /\ \A c \in DOMAIN task : task[c].stage = "removing" => task[c].tab \in Windows

(* A command that goes on leaves the others as they are.                   *)
LEMMA GoesOK ==
  ASSUME TaskOK, NEW c, NEW t, Goes(c, t),
         c \in DOMAIN task => t \in Task /\ (t.stage = "removing" => t.tab \in Windows)
  PROVE  /\ TaskOK'
         /\ DOMAIN task' = DOMAIN task
         /\ DoomOf(task') \subseteq DoomOf(task) \cup (IF Removing(t) THEN {t.tab} ELSE {})
         /\ c \in DOMAIN task /\ ~ Removing(t) =>
              DoomOf(task') \subseteq {task[d].tab : d \in {d \in DOMAIN task \ {c} : Removing(task[d])}}
<1>1. DOMAIN task' = DOMAIN task
      /\ \A d \in DOMAIN task : task'[d] = IF d = c THEN t ELSE task[d]
  BY DEF Goes
<1>2. TaskOK'
  <2>1. CASE c \in DOMAIN task
    <3>1. task' \in Seq(Task)
      BY <2>1, ExceptSeq, LenProperties DEF Goes, TaskOK
    <3>2. QED
      BY <3>1, <2>1, <1>1 DEF TaskOK
  <2>2. CASE c \notin DOMAIN task
    <3>1. task' = task
      BY <2>2, LenProperties DEF Goes, TaskOK
    <3>2. QED
      BY <3>1 DEF TaskOK
  <2>3. QED
    BY <2>1, <2>2
<1>3. QED
  BY <1>1, <1>2 DEF DoomOf

(* A command's operation keeps the kind of the element.                    *)
LEMMA PerformedOK == ASSUME NEW op, NEW e \in Element PROVE Performed(op, e) \in Element
BY DEF Performed, Activated, Element

LEMMA InitType == Init => TypeOK
<1> SUFFICES ASSUME Init PROVE TypeOK
  OBVIOUS
<1>1. <<>> \in Seq(Task) /\ <<>> \in Seq(Msg) /\ DOMAIN <<>> = {}
  BY EmptySeq
<1>2. el \in [Tabs -> Element]
  BY DEF Init
<1>3. QED
  BY <1>1, <1>2 DEF Init, TypeOK, Msg, Tabs, Page

(* An answer keeps the types of the commands and of the CLI's belief.      *)
LEMMA AnswerOK ==
  ASSUME TypeOK, NEW c \in Nat, NEW r \in Result, NEW w \in Windows \cup {None},
         Answer(c, r, w)
  PROVE  /\ TaskOK' /\ DoomOf(task') \subseteq DoomOf(task)
         /\ cli' \in [win : Windows \cup {None}, waits : Nat \cup {None}]
<1> DEFINE t == [task[c] EXCEPT !.stage = "done", !.result = r]
<1>1. c \in DOMAIN task => t \in Task /\ t.stage = "done"
  <2>1. SUFFICES ASSUME c \in DOMAIN task PROVE t \in Task /\ t.stage = "done"
    OBVIOUS
  <2>2. task[c] \in Task
    BY <2>1, LenProperties DEF TypeOK
  <2>3. QED
    BY <2>2 DEF Task, Stage
<1>2. TaskOK /\ Goes(c, t)
  BY DEF TypeOK, TaskOK, Answer
<1>3. TaskOK' /\ (c \in DOMAIN task => DoomOf(task') \subseteq DoomOf(task))
  BY <1>1, <1>2, GoesOK DEF Removing
<1>4. c \notin DOMAIN task => task' = task
  BY <1>2, LenProperties DEF Goes, TaskOK
<1>5. cli' \in [win : Windows \cup {None}, waits : Nat \cup {None}]
  BY DEF Answer, TypeOK
<1>6. QED
  BY <1>3, <1>4, <1>5

Places(q, tk, wn, r) ==
  \A w \in Windows :
    /\ r = w => w \notin ReplyOf(q) /\ w \notin DoomOf(tk) /\ wn[w] \notin {"unused", "removed"}
    /\ w \in ReplyOf(q) => w \notin DoomOf(tk) /\ wn[w] \notin {"unused", "removed"}
    /\ w \in DoomOf(tk) => wn[w] # "unused"

Inv == /\ TypeOK /\ IdsAgree /\ OwnCloseSilent
       /\ Once(queue) /\ OwnOf(queue, byUser, win) /\ Places(queue, task, win, rw)

LEMMA InvIsIInv == Inv <=> IInv
<1>1. \A i : i \in DOMAIN queue /\ Due(i) <=> i \in DueOf(queue)
  BY DEF Due, DueOf
<1>2. Once(queue) <=> ReplyOnce
  BY <1>1 DEF Once, ReplyOnce
<1>3. \A w : InReply(w) <=> w \in ReplyOf(queue)
  BY <1>1 DEF InReply, ReplyOf
<1>4. \A w : Doomed(w) <=> w \in DoomOf(task)
  BY DEF Doomed, DoomOf, Removing
<1>5. Places(queue, task, win, rw) <=> OnePlace
  BY <1>3, <1>4 DEF Places, OnePlace
<1>6. OwnOf(queue, byUser, win) <=> EventsOwn
  BY DEF OwnOf, Own, EventsOwn
<1>7. QED
  BY <1>2, <1>5, <1>6 DEF Inv, IInv

(* A step that brings no new id anywhere.                                  *)
LEMMA KeepOK ==
  ASSUME Inv, TypeOK',
         rw' \in {rw, None}, rt' \in {rt, None}, rw' = None => rt' = None,
         told' \subseteq byUser',
         Once(queue'), OwnOf(queue', byUser', win'), ReplyOf(queue') \subseteq ReplyOf(queue),
         DoomOf(task') \subseteq DoomOf(task),
         \A w \in Windows : /\ win'[w] = "unused" => win[w] = "unused"
                            /\ win'[w] = "removed" => win[w] = "removed" \/ w \in DoomOf(task)
  PROVE  Inv'
<1>1. IdsAgree'
  BY DEF Inv, IdsAgree
<1>2. Places(queue', task', win', rw')
  BY DEF Inv, Places, Tabs
<1>3. QED
  BY <1>1, <1>2 DEF Inv, OwnCloseSilent

(* ... and leaves the queue, the windows and the ids alone.                *)
LEMMA QuietOK ==
  ASSUME Inv, TypeOK', DoomOf(task') \subseteq DoomOf(task),
         UNCHANGED <<queue, win, rw, rt, told, byUser>>
  PROVE  Inv'
<1>1. IdsAgree'
  BY DEF Inv, IdsAgree
<1>2. OwnOf(queue', byUser', win') /\ Once(queue') /\ Places(queue', task', win', rw')
  BY DEF Inv, Places
<1>3. QED
  BY <1>1, <1>2 DEF Inv, OwnCloseSilent

LEMMA InitInv == Init => Inv
<1> SUFFICES ASSUME Init PROVE Inv
  OBVIOUS
<1>1. DOMAIN queue = {} /\ DOMAIN task = {} /\ TypeOK
  BY InitType, EmptySeq DEF Init
<1>2. ReplyOf(queue) = {} /\ DoomOf(task) = {} /\ Once(queue) /\ OwnOf(queue, byUser, win)
  BY <1>1 DEF ReplyOf, DoomOf, DueOf, Once, OwnOf
<1>3. Places(queue, task, win, rw)
  BY <1>2 DEF Places, Init
<1>4. QED
  BY <1>1, <1>2, <1>3 DEF Inv, Init, IdsAgree, OwnCloseSilent

LEMMA CliStep ==
  ASSUME Inv, (\E op \in Ops : Send(op)) \/ GiveUp \/ LeaveWindow
  PROVE  Inv'
<1> USE DEF browser, ids, history
<1>1. ASSUME NEW op \in Ops, Send(op) PROVE Inv'
  <2> DEFINE t == [op |-> op, arg |-> cli.win, stage |-> "sent", tab |-> None,
                   result |-> None, out |-> FALSE]
  <2>1. t \in Task
    BY DEF Task, Stage, Inv, TypeOK
  <2>2. /\ task' = Append(task, t) /\ task \in Seq(Task) /\ t.stage = "sent"
        /\ Len(task) \in Nat /\ DOMAIN task = 1 .. Len(task)
    BY <1>1, LenProperties DEF Send, Inv, TypeOK
  <2> HIDE DEF t
  <2>3. /\ task' \in Seq(Task) /\ DOMAIN task' = 1 .. Len(task) + 1
        /\ \A c \in 1 .. Len(task) : task'[c] = task[c]
        /\ task'[Len(task) + 1] = t
    BY <2>1, <2>2, AppendProperties, LenProperties
  <2>4. \A c \in DOMAIN task' : \/ c \in DOMAIN task /\ task'[c] = task[c]
                                \/ task'[c].stage = "sent"
    BY <2>2, <2>3
  <2>5. DoomOf(task') \subseteq DoomOf(task)
    BY <2>4 DEF DoomOf, Removing
  <2>6. TypeOK'
    BY <2>2, <2>3, <2>4, <1>1 DEF Inv, TypeOK, Send
  <2>7. QED
    BY <2>5, <2>6, <1>1, QuietOK DEF Send
<1>2. CASE GiveUp
  <2>1. TypeOK'
    BY <1>2 DEF GiveUp, Inv, TypeOK
  <2>2. QED
    BY <2>1, <1>2, QuietOK DEF GiveUp
<1>3. CASE LeaveWindow
  <2>1. TypeOK'
    BY <1>3 DEF LeaveWindow, Inv, TypeOK
  <2>2. QED
    BY <2>1, <1>3, QuietOK DEF LeaveWindow
<1>4. QED
  BY <1>1, <1>2, <1>3

(* DropIds moves the worker's id to the removal that is under way.         *)
LEMMA DropStep ==
  ASSUME Inv, NEW c \in DOMAIN task, DropIds(c), rw # None, TypeOK',
         UNCHANGED <<queue, win, told, byUser>>
  PROVE  Inv'
<1> DEFINE t == [task[c] EXCEPT !.stage = "removing", !.tab = rw, !.out = TRUE]
<1>1. /\ Goes(c, t) /\ TaskOK /\ rw \in Windows
      /\ rw' = None /\ rt' = None
  BY DEF DropIds, Inv, TypeOK, TaskOK
<1>2. t \in Task /\ t.tab = rw
  <2>1. task[c] \in Task
    BY LenProperties DEF Inv, TypeOK
  <2>2. QED
    BY <2>1, <1>1 DEF Task, Stage, Tabs
<1>3. DoomOf(task') \subseteq DoomOf(task) \cup {rw}
  <2> HIDE DEF t
  <2>1. TaskOK /\ Goes(c, t) /\ t \in Task /\ t.tab \in Windows
    BY <1>1, <1>2
  <2>2. DoomOf(task') \subseteq DoomOf(task) \cup (IF Removing(t) THEN {t.tab} ELSE {})
    BY <2>1, GoesOK
  <2>3. QED
    BY <1>2, <2>2
<1>4. Places(queue', task', win', rw')
  BY <1>1, <1>3 DEF Inv, Places, Tabs
<1>5. OwnOf(queue', byUser', win') /\ Once(queue') /\ OwnCloseSilent' /\ IdsAgree'
  BY <1>1 DEF Inv, OwnCloseSilent, IdsAgree
<1>6. QED
  BY <1>4, <1>5 DEF Inv

LEMMA DropType ==
  ASSUME TypeOK, NEW c \in DOMAIN task, DropIds(c), rw # None,
         UNCHANGED <<serial, browser, queue, cli, told, byUser, acts, evictions>>
  PROVE  TypeOK'
<1> DEFINE t == [task[c] EXCEPT !.stage = "removing", !.tab = rw, !.out = TRUE]
<1>1. /\ Goes(c, t) /\ TaskOK /\ rw \in Windows
      /\ rw' = None /\ rt' = None /\ forgotten' = forgotten \cup {rw}
  BY DEF DropIds, TypeOK, TaskOK
<1>2. t \in Task /\ t.tab = rw
  <2>1. task[c] \in Task
    BY LenProperties DEF TypeOK
  <2>2. QED
    BY <2>1, <1>1 DEF Task, Stage, Tabs
<1>3. TaskOK'
  BY <1>1, <1>2, GoesOK
<1>4. QED
  BY <1>1, <1>3 DEF TypeOK, TaskOK, browser

(* The handlers up to their first await.                                   *)
LEMMA WorkerStep ==
  ASSUME Inv, NEW c \in DOMAIN task, Worker(c) \/ Timeout(c)
  PROVE  Inv'
<1> USE DEF browser, ids, history
<1>0. /\ TypeOK /\ TaskOK /\ task[c] \in Task /\ c \in Nat
  BY LenProperties DEF Inv, TypeOK, TaskOK
<1>1. ASSUME DropIds(c), rw # None,
             UNCHANGED <<serial, browser, queue, cli, told, byUser, acts, evictions>>
      PROVE  Inv'
  BY <1>0, <1>1, DropStep, DropType
<1>2. ASSUME NEW r \in Result, Answer(c, r, None),
             UNCHANGED <<serial, browser, ids, queue, history, evictions>>
      PROVE  Inv'
  <2>1. TaskOK' /\ DoomOf(task') \subseteq DoomOf(task)
        /\ cli' \in [win : Windows \cup {None}, waits : Nat \cup {None}]
    BY <1>0, <1>2, AnswerOK
  <2>2. TypeOK'
    BY <2>1, <1>0, <1>2 DEF TypeOK, TaskOK
  <2>3. QED
    BY <2>1, <2>2, <1>2, QuietOK
<1>3. ASSUME NEW t \in Task, Goes(c, t), t.stage # "removing",
             UNCHANGED <<serial, browser, ids, queue, cli, history, evictions>>
      PROVE  Inv'
  <2>1. TaskOK' /\ DoomOf(task') \subseteq DoomOf(task)
    BY <1>0, <1>3, GoesOK DEF Removing
  <2>2. TypeOK'
    BY <2>1, <1>0, <1>3 DEF TypeOK, TaskOK
  <2>3. QED
    BY <2>1, <2>2, <1>3, QuietOK
<1>4. CASE ReceiveOpen(c)
  <2>1. CASE rw # None /\ DropIds(c)
    BY <1>1, <1>4, <2>1 DEF ReceiveOpen
  <2>2. CASE /\ Goes(c, [task[c] EXCEPT !.stage = "creating", !.out = TRUE])
             /\ UNCHANGED <<ids, forgotten>>
    <3> DEFINE t == [task[c] EXCEPT !.stage = "creating", !.out = TRUE]
    <3>1. t \in Task /\ t.stage # "removing"
      BY <1>0 DEF Task, Stage
    <3>2. UNCHANGED <<serial, browser, ids, queue, cli, history, evictions>>
      BY <1>4, <2>2 DEF ReceiveOpen
    <3>3. QED
      BY <3>1, <3>2, <2>2, <1>3
  <2>3. QED
    BY <2>1, <2>2, <1>4 DEF ReceiveOpen
<1>5. CASE ReceiveClose(c)
  BY <1>5, <1>1, <1>2 DEF ReceiveClose, Result
<1>6. ASSUME NEW t \in Tabs, Handle(c, t),
             UNCHANGED <<serial, browser, ids, queue, cli, history, evictions>>
      PROVE  Inv'
  <2> DEFINE s == CASE task[c].op = "navigate" -> "updating"
                    [] task[c].op = "wait"     -> "listening"
                    [] OTHER                   -> "acting"
             n == [task[c] EXCEPT !.tab = t, !.stage = s, !.out = task[c].op # "wait"]
  <2>1. s \in Stage /\ s # "removing"
    BY DEF Stage
  <2>2. n \in Task /\ n.stage # "removing"
    <3> HIDE DEF s
    <3>1. QED
      BY <1>0, <2>1 DEF Task
  <2>3. Goes(c, n)
    BY <1>6 DEF Handle
  <2>4. QED
    BY <2>2, <2>3, <1>3, <1>6
<1>7. CASE WithActiveTab(c)
  <2> DEFINE n == [task[c] EXCEPT !.stage = "asking"]
  <2>1. n \in Task /\ n.stage # "removing"
    BY <1>0 DEF Task, Stage
  <2>2. rt # None => rt \in Tabs
    BY DEF Inv, TypeOK, Tabs
  <2>3. QED
    BY <2>1, <2>2, <1>3, <1>6, <1>7 DEF WithActiveTab
<1>8. CASE ActiveTab(c)
  BY <1>8, <1>6, <1>2 DEF ActiveTab, Result
<1>9. CASE Timeout(c)
  BY <1>9, <1>2 DEF Timeout, Result
<1>10. QED
  BY <1>4, <1>5, <1>7, <1>8, <1>9 DEF Worker

(* What the worker does with what it takes from its queue.                 *)
LEMMA QueueStep ==
  ASSUME Inv, Queue
  PROVE  Inv'
<1> USE DEF browser, ids, history
<1> DEFINE m == Head(queue)
<1>0. /\ TypeOK /\ TaskOK /\ Once(queue) /\ OwnOf(queue, byUser, win)
      /\ queue \in Seq(Msg)
  BY DEF Inv, TypeOK, TaskOK, Msg
<1>1. queue # <<>> /\ queue' = Tail(queue) /\ win' = win /\ byUser' = byUser
  BY DEF Queue, BrowserEvent, NavigationCompleted, AwaitOver
<1>2. /\ queue' \in Seq(Msg) /\ m \in Msg
      /\ Once(queue') /\ OwnOf(queue', byUser', win')
      /\ Own(m, byUser, win)
      /\ ReplyOf(queue') \subseteq ReplyOf(queue)
      /\ m.ev = "done" /\ m.w # None => m.w \in ReplyOf(queue) /\ m.w \notin ReplyOf(queue')
  BY <1>0, <1>1, TailQ
<1> HIDE DEF m
<1>3. CASE BrowserEvent
  <2>1. /\ m.ev \in {"tab", "window"} /\ UNCHANGED <<serial, browser, task, cli, byUser, forgotten, acts, evictions>>
        /\ \/ m.ev = "tab" /\ OnTabRemoved(m.w)
           \/ m.ev = "window" /\ OnWindowRemoved(m.w)
    BY <1>3 DEF BrowserEvent, m
  <2>2. m \in Gone
    BY <2>1, <1>2 DEF Msg, Loaded, Reply
  <2>3. m = [ev |-> m.ev, w |-> m.w] /\ m.w \in Windows
    BY <2>2 DEF Gone
  <2>4. /\ rw' \in {rw, None} /\ rt' \in {rt, None} /\ (rw' = None => rt' = None)
        /\ told' \subseteq told \cup {m}
        /\ told' # told => rw = m.w
    BY <2>1, <2>3, <1>0 DEF OnTabRemoved, OnWindowRemoved, TabGone, WindowGone, Inv, IdsAgree, TypeOK, Tabs
  <2>5. rw = m.w => m \in byUser
    BY <1>2, <2>1, <2>3 DEF Own, Inv, Places
  <2>6. told' \subseteq byUser'
    BY <2>1, <2>4, <2>5 DEF Inv, OwnCloseSilent
  <2>7. TypeOK'
    BY <1>0, <1>2, <2>1, <2>2, <2>4 DEF TypeOK, Msg
  <2>8. QED
    BY <2>1, <2>4, <2>6, <2>7, <1>1, <1>2, KeepOK
<1>4. CASE NavigationCompleted
  <2> DEFINE t == m.tab
  <2>1. PICK match \in SUBSET DOMAIN task :
        /\ task' = [c \in DOMAIN task |->
                     IF Heard(c, t, match)
                     THEN [task[c] EXCEPT !.stage = "done", !.result = "ok"] ELSE task[c]]
        /\ cli' = (IF cli.waits # None /\ Heard(cli.waits, t, match) THEN [cli EXCEPT !.waits = None]
                   ELSE cli)
        /\ UNCHANGED <<serial, browser, ids, history, evictions>>
    BY <1>4 DEF NavigationCompleted, m
  <2>2. DOMAIN task = 1 .. Len(task) /\ Len(task) \in Nat
        /\ \A c \in DOMAIN task : task[c] \in Task
    BY <1>0, LenProperties DEF TypeOK
  <2> HIDE DEF t
  <2>3. \A c \in DOMAIN task : /\ task'[c] \in Task
                               /\ task'[c] = task[c] \/ task'[c].stage = "done"
    <3>1. TAKE c \in DOMAIN task
    <3>2. [task[c] EXCEPT !.stage = "done", !.result = "ok"] \in Task
      BY <2>2 DEF Task, Stage, Result
    <3>3. task[c] \in Task /\ [task[c] EXCEPT !.stage = "done", !.result = "ok"].stage = "done"
      BY <2>2 DEF Task
    <3>4. QED
      BY <3>2, <3>3, <2>1
  <2>4. DOMAIN task' = DOMAIN task
    BY <2>1
  <2>5. task' \in Seq(Task)
    <3>1. task' \in [1 .. Len(task) -> Task]
      BY <2>1, <2>2, <2>3
    <3>2. QED
      BY <3>1, <2>2, SeqDef
  <2>6. DoomOf(task') \subseteq DoomOf(task)
    BY <2>3, <2>4 DEF DoomOf, Removing
  <2>7. TaskOK'
    BY <1>0, <2>3, <2>4, <2>5 DEF TaskOK
  <2>8. TypeOK'
    BY <1>0, <1>2, <2>1, <2>7 DEF TypeOK, TaskOK, Msg
  <2>9. QED
    BY <2>1, <2>6, <2>8, <1>1, <1>2, KeepOK DEF Inv, IdsAgree, OwnCloseSilent
<1>5. CASE AwaitOver
  <2> DEFINE c == m.c
  <2>1. /\ m.ev = "done" /\ (Opened(c, m) \/ Closed(c) \/ Replied(c, m))
        /\ UNCHANGED <<serial, browser, told, byUser, acts, evictions>>
    BY <1>5 DEF AwaitOver, m
  <2>2. m \in Reply
    BY <2>1, <1>2 DEF Msg, Loaded, Gone
  <2>3. c \in Nat /\ m.answer \in Result /\ m.w \in Windows \cup {None}
    BY <2>2 DEF Reply
  <2> HIDE DEF c
  <2>4. ASSUME NEW r \in Result, NEW w \in Windows \cup {None}, Answer(c, r, w),
               UNCHANGED <<ids, forgotten>>
        PROVE  Inv'
    <3>1. TaskOK' /\ DoomOf(task') \subseteq DoomOf(task)
          /\ cli' \in [win : Windows \cup {None}, waits : Nat \cup {None}]
      BY <1>0, <2>3, <2>4, AnswerOK
    <3>2. TypeOK'
      BY <3>1, <1>0, <1>2, <2>1, <2>4 DEF TypeOK, TaskOK, Msg
    <3>3. QED
      BY <3>1, <3>2, <2>1, <2>4, <1>1, <1>2, KeepOK DEF Inv, IdsAgree, OwnCloseSilent
  <2>5. CASE Opened(c, m)
    <3>1. CASE /\ rw' = m.w /\ rt' = m.w
               /\ forgotten' = forgotten \cup ({rw} \ {None})
               /\ Answer(c, "ok", m.w)
      <4>1. TaskOK' /\ DoomOf(task') \subseteq DoomOf(task)
            /\ cli' \in [win : Windows \cup {None}, waits : Nat \cup {None}]
        BY <1>0, <2>3, <3>1, AnswerOK DEF Result
      <4>2. TypeOK'
        BY <4>1, <1>0, <1>2, <2>1, <2>3, <3>1 DEF TypeOK, TaskOK, Msg
      <4>3. Places(queue', task', win', rw')
        BY <4>1, <1>1, <1>2, <2>1, <2>3, <3>1 DEF Inv, Places, Tabs
      <4>4. IdsAgree' /\ OwnCloseSilent'
        BY <3>1, <2>1 DEF IdsAgree, OwnCloseSilent, Inv
      <4>5. QED
        BY <4>2, <4>3, <4>4, <1>2 DEF Inv
    <3>2. QED
      BY <3>1, <2>4, <2>5, <2>3 DEF Opened, Result
  <2>6. CASE Closed(c)
    <3>1. ASSUME Goes(c, [task[c] EXCEPT !.stage = "creating", !.out = TRUE]), UNCHANGED cli,
                 UNCHANGED <<ids, forgotten>>
          PROVE  Inv'
      <4> DEFINE t == [task[c] EXCEPT !.stage = "creating", !.out = TRUE]
      <4>1. c \in DOMAIN task => t \in Task /\ t.stage = "creating"
        <5>1. SUFFICES ASSUME c \in DOMAIN task PROVE t \in Task /\ t.stage = "creating"
          OBVIOUS
        <5>2. task[c] \in Task
          BY <5>1, <1>0, LenProperties DEF TypeOK
        <5>3. QED
          BY <5>2 DEF Task, Stage
      <4>2. c \notin DOMAIN task => task' = task
        BY <1>0, <3>1, LenProperties DEF Goes, TaskOK
      <4>3. TaskOK' /\ DoomOf(task') \subseteq DoomOf(task)
        BY <4>1, <4>2, <1>0, <3>1, GoesOK DEF Removing
      <4>4. TypeOK'
        BY <4>3, <1>0, <1>2, <2>1, <3>1 DEF TypeOK, TaskOK, Msg
      <4>5. QED
        BY <4>3, <4>4, <2>1, <3>1, <1>1, <1>2, KeepOK DEF Inv, IdsAgree, OwnCloseSilent
    <3>2. QED
      BY <3>1, <2>4, <2>6 DEF Closed, Result
  <2>7. CASE Replied(c, m)
    <3>1. ASSUME UNCHANGED <<task, cli>>, UNCHANGED <<ids, forgotten>> PROVE Inv'
      <4>1. TypeOK'
        BY <1>0, <1>2, <2>1, <3>1 DEF TypeOK, Msg
      <4>2. DoomOf(task') \subseteq DoomOf(task)
        BY <3>1
      <4>3. QED
        BY <4>1, <4>2, <2>1, <3>1, <1>1, <1>2, KeepOK DEF Inv, IdsAgree, OwnCloseSilent
    <3>2. QED
      BY <3>1, <2>3, <2>4, <2>7 DEF Replied
  <2>8. QED
    BY <2>1, <2>5, <2>6, <2>7
<1>6. QED
  BY <1>3, <1>4, <1>5 DEF Queue

(* A command whose request was served.                                     *)
LEMMA ServedOK ==
  ASSUME TypeOK, NEW c \in DOMAIN task, NEW s \in Stage, s # "removing" \/ s = task[c].stage,
         Goes(c, [task[c] EXCEPT !.out = FALSE, !.stage = s])
  PROVE  TaskOK' /\ DoomOf(task') \subseteq DoomOf(task)
<1> DEFINE t == [task[c] EXCEPT !.out = FALSE, !.stage = s]
<1>1. task[c] \in Task /\ TaskOK
  BY LenProperties DEF TypeOK, TaskOK
<1>2. t \in Task /\ t.stage = s /\ t.tab = task[c].tab /\ ~ t.out
  BY <1>1 DEF Task
<1>3. t.stage = "removing" => t.tab \in Windows
  BY <1>1, <1>2 DEF TaskOK
<1>4. QED
  BY <1>1, <1>2, <1>3, GoesOK DEF Removing

LEMMA ServedPlain ==
  ASSUME TypeOK, NEW c \in DOMAIN task, Served(c)
  PROVE  TaskOK' /\ DoomOf(task') \subseteq DoomOf(task)
<1>1. task[c] \in Task
  BY LenProperties DEF TypeOK
<1>2. task[c].stage \in Stage
        /\ [task[c] EXCEPT !.out = FALSE]
             = [task[c] EXCEPT !.out = FALSE, !.stage = task[c].stage]
  BY <1>1 DEF Task
<1>3. QED
  BY <1>2, ServedOK DEF Served

(* An answer that brings no window.                                        *)
LEMMA RepliesOK ==
  ASSUME Inv, NEW c \in DOMAIN task, NEW r \in Result
  PROVE  /\ Replies(c, r) \in Seq(Msg)
         /\ Once(Replies(c, r)) /\ OwnOf(Replies(c, r), byUser, win)
         /\ ReplyOf(Replies(c, r)) = ReplyOf(queue)
<1> DEFINE m == [ev |-> "done", c |-> c, answer |-> r, w |-> None]
<1>1. m \in Msg /\ queue \in Seq(Msg)
  BY LenProperties DEF Msg, Reply, Inv, TypeOK
<1>2. /\ Once(queue) /\ OwnOf(queue, byUser, win) /\ Own(m, byUser, win)
      /\ m.w = None /\ m.w \notin ReplyOf(queue)
  BY DEF Inv, Own, ReplyOf, DueOf
<1> HIDE DEF m
<1>3. QED
  BY <1>1, <1>2, AppendQ DEF Replies, Done, m

(* What only adds such an answer.                                          *)
LEMMA ReplyStep ==
  ASSUME Inv, NEW c \in DOMAIN task, NEW r \in Result,
         queue' = Replies(c, r) \/ queue' = queue,
         TaskOK', DoomOf(task') \subseteq DoomOf(task),
         el' \in [Tabs -> Element], loading' \in [Tabs -> Page \cup {None}],
         acts' \subseteq Nat \X Tabs,
         UNCHANGED <<serial, win, at, ids, cli, told, byUser, forgotten, evictions>>
  PROVE  Inv'
<1>1. /\ queue' \in Seq(Msg) /\ Once(queue') /\ OwnOf(queue', byUser', win')
      /\ ReplyOf(queue') = ReplyOf(queue)
  BY RepliesOK DEF Inv, TypeOK, Msg
<1>2. TypeOK'
  BY <1>1 DEF Inv, TypeOK, TaskOK, ids, Msg
<1>3. QED
  BY <1>1, <1>2, KeepOK DEF ids, Inv, IdsAgree, OwnCloseSilent

LEMMA RemoveStep ==
  ASSUME Inv, NEW c \in DOMAIN task, RemoveWindow(c)
  PROVE  Inv'
<1> USE DEF ids, history
<1> DEFINE w == task[c].tab
           gone == CASE win[w] = "open"    -> <<TabGone(w), WindowGone(w)>>
                     [] win[w] = "tabless" -> <<WindowGone(w)>>
                     [] OTHER              -> <<>>
           wn == IF Stands(w) THEN [win EXCEPT ![w] = "removed"] ELSE win
<1>0. /\ TypeOK /\ TaskOK /\ task[c].stage = "removing" /\ task[c].out
      /\ w \in Windows /\ w \in DoomOf(task)
      /\ queue \in Seq(Msg) /\ Once(queue) /\ OwnOf(queue, byUser, win)
  BY DEF RemoveWindow, Inv, TypeOK, TaskOK, DoomOf, Removing, Msg
<1>1. TaskOK' /\ DoomOf(task') \subseteq DoomOf(task)
  BY <1>0, ServedPlain DEF RemoveWindow
<1>2. /\ win' = wn
      /\ \/ queue' = queue \o gone \o <<Done(c, "ok", None)>>
         \/ queue' = Replies(c, "ok") \o gone
      /\ UNCHANGED <<serial, at, loading, el, ids, cli, history, evictions>>
  BY DEF RemoveWindow
<1>3. gone \in Seq(Gone) /\ OwnOf(gone, byUser, wn)
  <2>1. TabGone(w) \in Gone /\ WindowGone(w) \in Gone
    BY <1>0 DEF TabGone, WindowGone, Gone
  <2>2. CASE ~ Stands(w)
    <3>1. gone = <<>>
      BY <2>2 DEF Stands
    <3>2. QED
      BY <3>1, EmptySeq DEF OwnOf
  <2>3. CASE Stands(w)
    <3>1. wn[w] = "removed"
      BY <2>3, <1>0 DEF TypeOK
    <3>2. gone = <<WindowGone(w)>> \/ gone = <<TabGone(w), WindowGone(w)>>
      BY <2>3 DEF Stands
    <3>3. Own(TabGone(w), byUser, wn) /\ Own(WindowGone(w), byUser, wn)
      BY <3>1 DEF Own, TabGone, WindowGone
    <3> HIDE DEF gone, wn
    <3>4. CASE gone = <<WindowGone(w)>>
      <4>1. gone \in Seq(Gone) /\ DOMAIN gone = {1} /\ gone[1] = WindowGone(w)
        BY <2>1, <3>4
      <4>2. QED
        BY <4>1, <3>3 DEF OwnOf
    <3>5. CASE gone = <<TabGone(w), WindowGone(w)>>
      <4>1. gone \in Seq(Gone) /\ DOMAIN gone = 1 .. 2
            /\ gone[1] = TabGone(w) /\ gone[2] = WindowGone(w)
        BY <2>1, <3>5
      <4>2. QED
        BY <4>1, <3>3 DEF OwnOf
    <3>6. QED
      BY <3>2, <3>4, <3>5
  <2>4. QED
    BY <2>2, <2>3
<1>4. /\ \A v \in Windows : /\ wn[v] = "unused" => win[v] = "unused"
                            /\ wn[v] = "removed" => win[v] = "removed" \/ v = w
                            /\ win[v] = "removed" => wn[v] = "removed"
      /\ wn \in [Windows -> {"unused", "open", "tabless", "closed", "removed"}]
  BY <1>0 DEF TypeOK
<1> HIDE DEF gone, wn
<1>5. \A q \in Seq(Msg) : OwnOf(q, byUser, win) => OwnOf(q, byUser, wn)
  <2>1. SUFFICES ASSUME NEW q \in Seq(Msg), OwnOf(q, byUser, win), NEW i \in DOMAIN q
                 PROVE  Own(q[i], byUser, wn)
    BY DEF OwnOf
  <2>2. q[i] \in Msg
    BY LenProperties
  <2>3. q[i].ev \in {"tab", "window"} => q[i].w \in Windows
    BY <2>2 DEF Msg, Gone, Loaded, Reply
  <2>4. Own(q[i], byUser, win)
    BY <2>1 DEF OwnOf
  <2>5. QED
    BY <2>3, <2>4, <1>4 DEF Own
<1>6. /\ queue' \in Seq(Msg) /\ Once(queue') /\ OwnOf(queue', byUser', win')
      /\ ReplyOf(queue') = ReplyOf(queue)
  <2>0. OwnOf(queue, byUser, wn)
    BY <1>0, <1>5
  <2>1. CASE queue' = queue \o gone \o <<Done(c, "ok", None)>>
    <3> DEFINE q == queue \o gone
               m == Done(c, "ok", None)
    <3>1. q \in Seq(Msg) /\ Once(q) /\ OwnOf(q, byUser, wn) /\ ReplyOf(q) = ReplyOf(queue)
      BY <2>0, <1>0, <1>3, ConcatQ
    <3>2. m \in Msg /\ m.ev = "done" /\ m.w = None
      BY LenProperties, <1>0 DEF Done, Msg, Reply, Result, TaskOK
    <3>3. Own(m, byUser, wn) /\ None \notin ReplyOf(q)
      BY <3>2 DEF Own, ReplyOf, DueOf
    <3>4. queue' = Append(q, m)
      <4> HIDE DEF q, m
      <4>1. q \o <<m>> = Append(q, m)
        BY <3>1, <3>2, AppendIsConcat
      <4>2. QED
        BY <4>1, <2>1 DEF q, m
    <3> HIDE DEF q, m
    <3>5. QED
      BY <3>1, <3>2, <3>3, <3>4, <1>2, AppendQ
  <2>2. CASE queue' = Replies(c, "ok") \o gone
    <3> DEFINE q == Replies(c, "ok")
    <3>1. /\ q \in Seq(Msg) /\ Once(q) /\ OwnOf(q, byUser, win)
          /\ ReplyOf(q) = ReplyOf(queue)
      BY RepliesOK DEF Result
    <3>2. OwnOf(q, byUser, wn)
      BY <3>1, <1>5
    <3> HIDE DEF q
    <3>3. queue' = q \o gone
      BY <2>2 DEF q
    <3>4. QED
      BY <3>1, <3>2, <3>3, <1>2, <1>3, ConcatQ
  <2>3. QED
    BY <1>2, <2>1, <2>2
<1>7. TypeOK'
  BY <1>0, <1>1, <1>2, <1>4, <1>6 DEF TypeOK, TaskOK, Msg
<1>8. QED
  BY <1>0, <1>1, <1>2, <1>4, <1>6, <1>7, KeepOK DEF Inv, IdsAgree, OwnCloseSilent

(* What is caused stays caused.                                            *)
LEMMA OwnMore ==
  ASSUME NEW q \in Seq(Msg), NEW b, NEW b2, NEW wn, NEW wn2, OwnOf(q, b, wn),
         b \subseteq b2,
         \A v \in Windows : wn[v] = "removed" => wn2[v] = "removed"
  PROVE  OwnOf(q, b2, wn2)
<1>1. SUFFICES ASSUME NEW i \in DOMAIN q PROVE Own(q[i], b2, wn2)
  BY DEF OwnOf
<1>2. q[i] \in Msg
  BY LenProperties
<1>3. q[i].ev \in {"tab", "window"} => q[i].w \in Windows
  BY <1>2 DEF Msg, Gone, Loaded, Reply
<1>4. Own(q[i], b, wn)
  BY DEF OwnOf
<1>5. QED
  BY <1>3, <1>4 DEF Own

LEMMA CreateStep ==
  ASSUME Inv, NEW c \in DOMAIN task, CreateWindow(c)
  PROVE  Inv'
<1> USE DEF ids, history
<1>0. /\ TypeOK /\ queue \in Seq(Msg) /\ Once(queue) /\ OwnOf(queue, byUser, win)
      /\ Served(c) /\ UNCHANGED <<serial, at, el, ids, cli, history, evictions>>
  BY DEF Inv, TypeOK, Msg, CreateWindow
<1>1. TaskOK' /\ DoomOf(task') \subseteq DoomOf(task)
  BY <1>0, ServedPlain
<1>2. CASE queue' = Replies(c, "refused") /\ UNCHANGED <<win, loading>>
  BY <1>0, <1>1, <1>2, ReplyStep DEF Result, Inv, TypeOK
<1>3. ASSUME NEW w \in Windows, win[w] = "unused",
             win' = [win EXCEPT ![w] = "open"],
             loading' = [loading EXCEPT ![w] = "blank"],
             queue' = Append(queue, Done(c, "ok", w))
      PROVE  Inv'
  <2> DEFINE m == Done(c, "ok", w)
  <2>1. m \in Msg /\ m.w = w /\ m.ev = "done"
    BY LenProperties, <1>0 DEF Done, Msg, Reply, Result, TypeOK
  <2>2. w \notin ReplyOf(queue) /\ w \notin DoomOf(task) /\ rw # w /\ w # None
    BY <1>3 DEF Inv, Places, Tabs
  <2>3. /\ \A v \in Windows : win'[v] = IF v = w THEN "open" ELSE win[v]
        /\ win' \in [Windows -> {"unused", "open", "tabless", "closed", "removed"}]
        /\ loading' \in [Tabs -> Page \cup {None}]
    BY <1>0, <1>3 DEF TypeOK, Page
  <2>4. OwnOf(queue, byUser', win')
    BY <2>3, <1>0, <1>3, OwnMore
  <2>5. Own(m, byUser', win')
    BY <2>1 DEF Own
  <2>6. queue' = Append(queue, m)
    BY <1>3
  <2> HIDE DEF m
  <2>7. /\ queue' \in Seq(Msg) /\ Once(queue') /\ OwnOf(queue', byUser', win')
        /\ ReplyOf(queue') = ReplyOf(queue) \cup {w}
    BY <2>1, <2>2, <2>4, <2>5, <2>6, <1>0, AppendQ
  <2>8. Places(queue', task', win', rw')
    BY <2>2, <2>3, <2>7, <1>0, <1>1 DEF Inv, Places
  <2>9. TypeOK'
    BY <2>3, <2>7, <1>0, <1>1 DEF TypeOK, TaskOK, Msg
  <2>10. QED
    BY <2>7, <2>8, <2>9, <1>0 DEF Inv, IdsAgree, OwnCloseSilent
<1>4. QED
  BY <1>2, <1>3 DEF CreateWindow

(* The browser's and the page's answers to a handler.                      *)
LEMMA PageStep ==
  ASSUME Inv, NEW c \in DOMAIN task, UpdateTab(c) \/ Replying(c)
  PROVE  Inv'
<1> USE DEF ids, history, browser
<1>0. /\ TypeOK /\ at \in [Tabs -> Page] /\ loading \in [Tabs -> Page \cup {None}]
      /\ el \in [Tabs -> Element] /\ acts \subseteq Nat \X Tabs
      /\ task[c] \in Task /\ c \in Nat
  BY LenProperties DEF Inv, TypeOK
<1>1. ASSUME Served(c) PROVE TaskOK' /\ DoomOf(task') \subseteq DoomOf(task)
  BY <1>0, <1>1, ServedPlain
<1>2. CASE UpdateTab(c)
  <2>1. CASE /\ loading' = [loading EXCEPT ![task[c].tab] = "site"]
             /\ Goes(c, [task[c] EXCEPT !.out = FALSE,
                              !.stage = IF @ = "updating" THEN "listening" ELSE @])
             /\ UNCHANGED queue
    <3> DEFINE s == IF task[c].stage = "updating" THEN "listening" ELSE task[c].stage
    <3>1. s \in Stage /\ (s # "removing" \/ s = task[c].stage)
      BY <1>0 DEF Task, Stage
    <3>2. Goes(c, [task[c] EXCEPT !.out = FALSE, !.stage = s])
      BY <2>1, <1>0 DEF Task
    <3> HIDE DEF s
    <3>3. TaskOK' /\ DoomOf(task') \subseteq DoomOf(task)
      BY <3>1, <3>2, <1>0, ServedOK
    <3>4. loading' \in [Tabs -> Page \cup {None}]
      BY <2>1, <1>0 DEF Page
    <3>5. QED
      BY <3>3, <3>4, <2>1, <1>0, <1>2, ReplyStep DEF UpdateTab, Result
  <2>2. CASE queue' = Replies(c, "refused") /\ Served(c) /\ UNCHANGED loading
    BY <2>2, <1>0, <1>1, <1>2, ReplyStep DEF UpdateTab, Result
  <2>3. QED
    BY <1>2, <2>1, <2>2 DEF UpdateTab
<1>3. CASE NoReceiver(c)
  BY <1>0, <1>1, <1>3, ReplyStep DEF NoReceiver, Result
<1>4. CASE Perform(c)
  <2> DEFINE t == task[c].tab
  <2>1. t \in Tabs
    BY <1>4 DEF Perform, Scripted, Exists, Tabs
  <2>2. el' = [el EXCEPT ![t] = Performed(task[c].op, el[t])]
    BY <1>4 DEF Perform
  <2>3. el' \in [Tabs -> Element]
    BY <2>1, <2>2, <1>0, PerformedOK
  <2>4. acts' \subseteq Nat \X Tabs
    BY <2>1, <1>0, <1>4 DEF Perform
  <2>5. loading' \in [Tabs -> Page \cup {None}]
    BY <2>1, <1>0, <1>4 DEF Perform, Page
  <2>6. \E r \in Result : queue' = Replies(c, r)
    BY <1>4 DEF Perform, Result
  <2>7. Served(c) /\ UNCHANGED <<serial, win, at, ids, cli, told, byUser, forgotten, evictions>>
    BY <1>4 DEF Perform
  <2>8. QED
    BY <2>3, <2>4, <2>5, <2>6, <2>7, <1>1, ReplyStep
<1>5. CASE Appear(c)
  <2>1. \E r \in Result : queue' = Replies(c, r)
    BY <1>5 DEF Appear, Result
  <2>2. Served(c) /\ UNCHANGED <<serial, browser, ids, cli, history, evictions>>
    BY <1>5 DEF Appear
  <2>3. QED
    BY <2>1, <2>2, <1>0, <1>1, ReplyStep
<1>6. QED
  BY <1>2, <1>3, <1>4, <1>5 DEF Replying

(* The browser by itself, its user, and the end of an idle worker.         *)
LEMMA BrowserStep ==
  ASSUME Inv, \/ \E t \in Tabs : Load(t)
              \/ \E w \in Windows : UserClosesTab(w) \/ UserClosesRest(w)
              \/ Evict
  PROVE  Inv'
<1> USE DEF ids, history, browser
<1>0. /\ TypeOK /\ queue \in Seq(Msg) /\ Once(queue) /\ OwnOf(queue, byUser, win)
      /\ win \in [Windows -> {"unused", "open", "tabless", "closed", "removed"}]
  BY DEF Inv, TypeOK, Msg
<1>1. ASSUME NEW t \in Tabs, Load(t) PROVE Inv'
  <2> DEFINE m == [ev |-> "loaded", tab |-> t]
  <2>1. /\ queue' = Append(queue, m)
        /\ UNCHANGED <<serial, win, ids, task, cli, history, evictions>>
    BY <1>1 DEF Load
  <2>2. m \in Msg /\ m.ev = "loaded" /\ Own(m, byUser, win)
    BY DEF Msg, Loaded, Own
  <2> HIDE DEF m
  <2>3. /\ queue' \in Seq(Msg) /\ Once(queue') /\ OwnOf(queue', byUser', win')
        /\ ReplyOf(queue') = ReplyOf(queue)
    BY <2>1, <2>2, <1>0, AppendQ
  <2>4. /\ at' \in [Tabs -> Page] /\ loading' \in [Tabs -> Page \cup {None}]
        /\ el' \in [Tabs -> Element]
    BY <1>0, <1>1 DEF Load, TypeOK
  <2>5. TypeOK'
    BY <2>1, <2>3, <2>4, <1>0 DEF TypeOK, Msg
  <2>6. DoomOf(task') \subseteq DoomOf(task)
    BY <2>1
  <2>7. QED
    BY <2>1, <2>3, <2>5, <2>6, KeepOK DEF Inv, IdsAgree, OwnCloseSilent
<1>2. ASSUME NEW w \in Windows, NEW e \in Seq(Gone),
             win[w] \in {"open", "tabless"},
             NEW s \in {"tabless", "closed"}, win' = [win EXCEPT ![w] = s],
             queue' = queue \o e,
             byUser \subseteq byUser', \A i \in DOMAIN e : e[i] \in byUser',
             byUser' \subseteq Gone,
             UNCHANGED <<serial, at, loading, el, ids, task, cli, told, forgotten, acts, evictions>>
      PROVE  Inv'
  <2>1. \A v \in Windows : win'[v] = IF v = w THEN s ELSE win[v]
    BY <1>0, <1>2
  <2>2. OwnOf(queue, byUser', win')
    BY <2>1, <1>0, <1>2, OwnMore
  <2>3. OwnOf(e, byUser', win')
    BY <1>2 DEF OwnOf, Own
  <2>4. /\ queue' \in Seq(Msg) /\ Once(queue') /\ OwnOf(queue', byUser', win')
        /\ ReplyOf(queue') = ReplyOf(queue)
    BY <2>2, <2>3, <1>0, <1>2, ConcatQ
  <2>5. TypeOK'
    BY <2>4, <1>0, <1>2 DEF TypeOK, Msg
  <2>6. DoomOf(task') \subseteq DoomOf(task) /\ told' \subseteq byUser'
    BY <1>2 DEF Inv, OwnCloseSilent
  <2>7. QED
    BY <2>1, <2>4, <2>5, <2>6, <1>2, KeepOK DEF Inv, IdsAgree
<1>3. ASSUME NEW w \in Windows, UserClosesTab(w) PROVE Inv'
  <2> DEFINE a == TabGone(w)
             b == WindowGone(w)
  <2>1. a \in Gone /\ b \in Gone
    BY DEF TabGone, WindowGone, Gone
  <2>2. /\ win[w] = "open"
        /\ UNCHANGED <<serial, at, loading, el, ids, task, cli, told, forgotten, acts, evictions>>
    BY <1>3 DEF UserClosesTab
  <2>3. byUser \subseteq Gone
    BY <1>0 DEF TypeOK
  <2>4. CASE /\ win' = [win EXCEPT ![w] = "tabless"]
             /\ queue' = Append(queue, a)
             /\ byUser' = byUser \cup {a}
    <3> HIDE DEF a
    <3>1. <<a>> \in Seq(Gone) /\ DOMAIN <<a>> = {1} /\ <<a>>[1] = a
      BY <2>1
    <3>2. queue' = queue \o <<a>>
      BY <2>1, <2>4, <1>0, AppendIsConcat DEF Msg
    <3> DEFINE e == <<a>>
    <3> HIDE DEF e
    <3>3. e \in Seq(Gone) /\ queue' = queue \o e /\ \A i \in DOMAIN e : e[i] \in byUser'
      BY <3>1, <3>2, <2>4 DEF e
    <3>4. QED
      BY <3>3, <2>1, <2>2, <2>3, <2>4, <1>2
  <2>5. CASE /\ win' = [win EXCEPT ![w] = "closed"]
             /\ queue' = queue \o <<a, b>>
             /\ byUser' = byUser \cup {a, b}
    <3> HIDE DEF a, b
    <3>1. <<a, b>> \in Seq(Gone) /\ DOMAIN <<a, b>> = 1 .. 2
          /\ <<a, b>>[1] = a /\ <<a, b>>[2] = b
      BY <2>1
    <3> DEFINE e == <<a, b>>
    <3>2. \A i \in DOMAIN e : e[i] \in byUser'
      BY <3>1, <2>5
    <3> HIDE DEF e
    <3>3. e \in Seq(Gone) /\ queue' = queue \o e
      BY <3>1, <2>5 DEF e
    <3>4. QED
      BY <3>2, <3>3, <2>1, <2>2, <2>3, <2>5, <1>2
  <2>6. QED
    BY <1>3, <2>4, <2>5 DEF UserClosesTab
<1>4. ASSUME NEW w \in Windows, UserClosesRest(w) PROVE Inv'
  <2> DEFINE b == WindowGone(w)
  <2>1. b \in Gone /\ byUser \subseteq Gone
    BY <1>0 DEF WindowGone, Gone, TypeOK
  <2>2. /\ win[w] = "tabless" /\ win' = [win EXCEPT ![w] = "closed"]
        /\ queue' = Append(queue, b) /\ byUser' = byUser \cup {b}
        /\ UNCHANGED <<serial, at, loading, el, ids, task, cli, told, forgotten, acts, evictions>>
    BY <1>4 DEF UserClosesRest
  <2> HIDE DEF b
  <2>3. <<b>> \in Seq(Gone) /\ DOMAIN <<b>> = {1} /\ <<b>>[1] = b
    BY <2>1
  <2>4. queue' = queue \o <<b>>
    BY <2>1, <2>2, <1>0, AppendIsConcat DEF Msg
  <2> DEFINE e == <<b>>
  <2> HIDE DEF e
  <2>5. e \in Seq(Gone) /\ queue' = queue \o e /\ \A i \in DOMAIN e : e[i] \in byUser'
    BY <2>2, <2>3, <2>4 DEF e
  <2>6. QED
    BY <2>1, <2>2, <2>5, <1>2
<1>5. CASE Evict
  <2>1. /\ rw' = None /\ rt' = None
        /\ UNCHANGED <<serial, browser, queue, task, cli, told, byUser, acts>>
    BY <1>5 DEF Evict
  <2>2. TypeOK'
    BY <1>0, <1>5 DEF Evict, TypeOK
  <2>3. DoomOf(task') \subseteq DoomOf(task)
    BY <2>1
  <2>4. QED
    BY <2>1, <2>2, <2>3, <1>0, KeepOK DEF Inv, OwnCloseSilent
<1>6. QED
  BY <1>1, <1>3, <1>4, <1>5

LEMMA NextInv == Inv /\ [Next]_vars => Inv'
<1> SUFFICES ASSUME Inv, [Next]_vars PROVE Inv'
  OBVIOUS
<1>1. CASE (\E op \in Ops : Send(op)) \/ GiveUp \/ LeaveWindow
  BY <1>1, CliStep
<1>2. ASSUME NEW c \in DOMAIN task, Worker(c) \/ Timeout(c) \/ Requests(c) \/ Replying(c)
      PROVE  Inv'
  BY <1>2, WorkerStep, RemoveStep, CreateStep, PageStep DEF Requests
<1>3. CASE Queue
  BY <1>3, QueueStep
<1>4. CASE \/ \E t \in Tabs : Load(t)
           \/ \E w \in Windows : UserClosesTab(w) \/ UserClosesRest(w)
           \/ Evict
  BY <1>4, BrowserStep
<1>5. CASE UNCHANGED vars
  <2>1. TypeOK'
    BY <1>5 DEF vars, browser, ids, history, Inv, TypeOK
  <2>2. DoomOf(task') \subseteq DoomOf(task)
    BY <1>5 DEF vars
  <2>3. QED
    BY <2>1, <2>2, <1>5, QuietOK DEF vars, browser, ids, history
<1>6. QED
  BY <1>1, <1>2, <1>3, <1>4, <1>5 DEF Next

(* IInv holds of every run: an id is in one place only -- the worker, an   *)
(* answer on its way to it, or a removal -- and every event in the queue   *)
(* is the user's doing or of a window that a command removed.              *)
THEOREM RunWindowInvariant == Spec => []IInv
<1>1. Init => Inv
  BY InitInv
<1>2. Inv /\ [Next]_vars => Inv'
  BY NextInv
<1>3. Inv => IInv
  BY InvIsIInv
<1>4. QED
  BY <1>1, <1>2, <1>3, PTL DEF Spec

(* Every variable keeps its type.                                          *)
THEOREM RunWindowType == Spec => []TypeOK
<1>1. IInv => TypeOK
  BY DEF IInv
<1>2. QED
  BY <1>1, RunWindowInvariant, PTL

(* The tab that commands go to is the tab of the window that the worker    *)
(* would close (run-window.ts): the two ids never part.                    *)
THEOREM IdsNeverPart == Spec => []IdsAgree
<1>1. IInv => IdsAgree
  BY DEF IInv
<1>2. QED
  BY <1>1, RunWindowInvariant, PTL

(* No windowClosed or tabClosed is sent for a window that a command closed, *)
(* for any number of windows, commands and ends of the worker.             *)
THEOREM OwnClosingsSilent == Spec => []OwnCloseSilent
<1>1. IInv => OwnCloseSilent
  BY DEF IInv
<1>2. QED
  BY <1>1, RunWindowInvariant, PTL

(* ------------------- closings that the user makes ---------------------- *)

(* TellInv of any queue, commands, windows and ids.                        *)
InQ(q) == {q[i] : i \in DOMAIN q}
Ordered(q) == \A i, j \in DOMAIN q : i < j => Follows(q[i], q[j])
AnswerFits(m, tk) ==
  m.ev = "done" =>
    /\ m.c \in DOMAIN tk
    /\ ~ tk[m.c].out /\ tk[m.c].stage \notin Early
    /\ m.w # None => tk[m.c].stage = "creating" /\ m.answer = "ok"
EventFits(m, wn) == /\ m.ev = "tab" => wn[m.w] \notin {"unused", "open"}
                    /\ m.ev = "window" => wn[m.w] \in {"closed", "removed"}
AnswersOf(Q, tk) == /\ \A c \in DOMAIN tk : tk[c].out => tk[c].stage \notin Early
                    /\ \A m \in Q : AnswerFits(m, tk)
EventsOf(Q, wn)  == \A m \in Q : EventFits(m, wn)
KnownBy(R, f, h, w) == w \in f \/ w \in R \/ w = h
TrackedBy(R, f, wn, t, r) ==
  \A w \in Windows : /\ wn[w] = "open" => KnownBy(R, f, t, w)
                     /\ wn[w] \in {"open", "tabless"} => KnownBy(R, f, r, w)
UntoldOf(Q, R, b, tl, f, t, r) ==
  \A g \in b : \/ g \in tl \/ g.w \in f
               \/ g \in Q /\ KnownBy(R, f, IF g.ev = "tab" THEN t ELSE r, g.w)

Tell == /\ AnswersOf(InQ(queue), task) /\ EventsOf(InQ(queue), win)
        /\ Ordered(queue)
        /\ TrackedBy(ReplyOf(queue), forgotten, win, rt, rw)
        /\ UntoldOf(InQ(queue), ReplyOf(queue), byUser, told, forgotten, rt, rw)

LEMMA RepliedOf == \A w : InReply(w) <=> w \in ReplyOf(queue)
BY DEF Due, DueOf, InReply, ReplyOf

LEMMA TellIsTellInv == Tell <=> TellInv
<1>1. AnswersOf(InQ(queue), task) <=> AnswersFit
  BY DEF AnswersOf, InQ, AnswerFits, AnswersFit, Due
<1>2. EventsOf(InQ(queue), win) <=> EventsFit
  BY DEF EventsOf, InQ, EventFits, EventsFit
<1>3. Ordered(queue) <=> InOrder
  BY DEF Ordered, InOrder
<1>4. TrackedBy(ReplyOf(queue), forgotten, win, rt, rw) <=> Tracked
  BY RepliedOf DEF TrackedBy, KnownBy, Tracked, Known, Stands
<1>5. UntoldOf(InQ(queue), ReplyOf(queue), byUser, told, forgotten, rt, rw) <=> Untold
  BY RepliedOf DEF UntoldOf, KnownBy, Untold, Known, InQ
<1>6. QED
  BY <1>1, <1>2, <1>3, <1>4, <1>5 DEF Tell, TellInv

(* What an answer or an event is made of.                                  *)
LEMMA MsgIs ==
  ASSUME NEW m \in Msg
  PROVE  /\ m.ev \in {"tab", "window", "loaded", "done"}
         /\ m.ev = "done" => m \in Reply
         /\ m.ev \in {"tab", "window"} => m \in Gone /\ m = [ev |-> m.ev, w |-> m.w]
         /\ m \in Gone => m.ev \in {"tab", "window"} /\ m.w \in Windows
         /\ m \in Reply => m.w \in Windows \cup {None} /\ m.c \in Nat
BY DEF Msg, Gone, Loaded, Reply

LEMMA InMsg == ASSUME NEW q \in Seq(Msg) PROVE InQ(q) \subseteq Msg
BY LenProperties DEF InQ

LEMMA ReplyIn ==
  ASSUME NEW q \in Seq(Msg)
  PROVE  \A w : w \in ReplyOf(q) <=> \E m \in InQ(q) : m.ev = "done" /\ m.w = w /\ w # None
BY DEF ReplyOf, DueOf, InQ

(* A queue that is added to, and one that is read.                         *)
LEMMA AppendO ==
  ASSUME NEW q \in Seq(Msg), NEW m \in Msg, Ordered(q), \A n \in InQ(q) : Follows(n, m)
  PROVE  InQ(Append(q, m)) = InQ(q) \cup {m} /\ Ordered(Append(q, m))
<1> DEFINE r == Append(q, m)
           k == Len(q) + 1
<1>1. DOMAIN r = 1 .. k /\ r[k] = m /\ \A i \in 1 .. Len(q) : r[i] = q[i]
  BY AppendProperties, LenProperties
<1>2. DOMAIN q = 1 .. Len(q) /\ Len(q) \in Nat
  BY LenProperties
<1> HIDE DEF r
<1>3. \A i \in DOMAIN r : (i \in DOMAIN q /\ r[i] = q[i]) \/ (i = k /\ r[i] = m)
  BY <1>1, <1>2
<1>4. \A i \in DOMAIN q : i \in DOMAIN r /\ r[i] = q[i]
  BY <1>1, <1>2
<1>5. k \in DOMAIN r /\ r[k] = m
  BY <1>1, <1>2
<1>6. InQ(r) = InQ(q) \cup {m}
  BY <1>3, <1>4, <1>5 DEF InQ
<1>7. Ordered(r)
  <2>1. SUFFICES ASSUME NEW i \in DOMAIN r, NEW j \in DOMAIN r, i < j
                 PROVE  Follows(r[i], r[j])
    BY DEF Ordered
  <2>2. i \in DOMAIN q /\ r[i] = q[i]
    BY <2>1, <1>1, <1>2
  <2>3. q[i] \in InQ(q)
    BY <2>2 DEF InQ
  <2>4. CASE j = k
    BY <2>2, <2>3, <2>4, <1>5
  <2>5. CASE j \in DOMAIN q
    BY <2>1, <2>2, <2>5, <1>4 DEF Ordered
  <2>6. QED
    BY <2>4, <2>5, <1>3
<1>8. QED
  BY <1>6, <1>7 DEF r

LEMMA TailO ==
  ASSUME NEW q \in Seq(Msg), q # <<>>, Ordered(q)
  PROVE  /\ InQ(q) = InQ(Tail(q)) \cup {Head(q)} /\ Ordered(Tail(q))
         /\ \A n \in InQ(Tail(q)) : Follows(Head(q), n)
<1> DEFINE r == Tail(q)
<1>1. Len(r) = Len(q) - 1 /\ r \in Seq(Msg) /\ \A i \in 1 .. Len(r) : r[i] = q[i + 1]
  BY HeadTailProperties
<1>2. /\ DOMAIN q = 1 .. Len(q) /\ Len(q) \in Nat \ {0} /\ DOMAIN r = 1 .. Len(r)
      /\ Head(q) = q[1]
  BY <1>1, LenProperties, EmptySeq
<1> HIDE DEF r
<1>3. \A i \in DOMAIN r : i + 1 \in DOMAIN q /\ r[i] = q[i + 1] /\ 1 < i + 1
  BY <1>1, <1>2
<1>4. \A i \in DOMAIN q : i = 1 \/ (i - 1 \in DOMAIN r /\ q[i] = r[i - 1])
  BY <1>1, <1>2
<1>5. 1 \in DOMAIN q
  BY <1>2
<1>6. InQ(q) = InQ(r) \cup {Head(q)}
  BY <1>2, <1>3, <1>4, <1>5 DEF InQ
<1>7. Ordered(r)
  <2>1. SUFFICES ASSUME NEW i \in DOMAIN r, NEW j \in DOMAIN r, i < j
                 PROVE  Follows(r[i], r[j])
    BY DEF Ordered
  <2>2. i + 1 < j + 1 /\ i + 1 \in DOMAIN q /\ j + 1 \in DOMAIN q
        /\ r[i] = q[i + 1] /\ r[j] = q[j + 1]
    BY <2>1, <1>2, <1>3
  <2>3. QED
    BY <2>2 DEF Ordered
<1>8. \A n \in InQ(r) : Follows(Head(q), n)
  BY <1>2, <1>3, <1>5 DEF InQ, Ordered
<1>9. QED
  BY <1>6, <1>7, <1>8 DEF r

LEMMA ConcatO ==
  ASSUME NEW q \in Seq(Msg), NEW e \in Seq(Msg), Ordered(q), Ordered(e),
         \A n \in InQ(q), m \in InQ(e) : Follows(n, m)
  PROVE  /\ q \o e \in Seq(Msg) /\ Ordered(q \o e)
         /\ InQ(q \o e) = InQ(q) \cup InQ(e)
<1> DEFINE r == q \o e
<1>1. /\ r \in Seq(Msg) /\ DOMAIN r = 1 .. Len(q) + Len(e)
      /\ \A i \in 1 .. Len(q) + Len(e) : r[i] = IF i <= Len(q) THEN q[i] ELSE e[i - Len(q)]
  BY ConcatProperties, LenProperties
<1>2. DOMAIN q = 1 .. Len(q) /\ Len(q) \in Nat /\ DOMAIN e = 1 .. Len(e) /\ Len(e) \in Nat
  BY LenProperties
<1> HIDE DEF r
<1>3. \A i \in DOMAIN r : \/ i \in DOMAIN q /\ r[i] = q[i]
                          \/ i \notin DOMAIN q /\ i - Len(q) \in DOMAIN e /\ r[i] = e[i - Len(q)]
  BY <1>1, <1>2
<1>4. \A i \in DOMAIN q : i \in DOMAIN r /\ r[i] = q[i]
  BY <1>1, <1>2
<1>5. ASSUME NEW i \in DOMAIN e PROVE i + Len(q) \in DOMAIN r /\ r[i + Len(q)] = e[i]
  <2>1. /\ i + Len(q) \in 1 .. Len(q) + Len(e) /\ ~ i + Len(q) <= Len(q)
        /\ i + Len(q) - Len(q) = i
    BY <1>2
  <2>2. r[i + Len(q)] = e[i + Len(q) - Len(q)]
    BY <1>1, <2>1
  <2>3. QED
    BY <1>1, <2>1, <2>2
<1>6. InQ(r) = InQ(q) \cup InQ(e)
  BY <1>3, <1>4, <1>5 DEF InQ
<1>7. Ordered(r)
  <2>1. SUFFICES ASSUME NEW i \in DOMAIN r, NEW j \in DOMAIN r, i < j
                 PROVE  Follows(r[i], r[j])
    BY DEF Ordered
  <2>2. CASE i \in DOMAIN q /\ j \in DOMAIN q
    BY <2>1, <2>2, <1>4 DEF Ordered
  <2>3. CASE i \in DOMAIN q /\ j \notin DOMAIN q
    <3>1. r[i] \in InQ(q) /\ r[j] \in InQ(e)
      BY <2>1, <2>3, <1>3 DEF InQ
    <3>2. QED
      BY <3>1
  <2>4. CASE i \notin DOMAIN q
    <3>1. j \notin DOMAIN q /\ i - Len(q) < j - Len(q)
      BY <2>1, <2>4, <1>1, <1>2
    <3>2. QED
      BY <2>1, <2>4, <3>1, <1>3 DEF Ordered
  <2>5. QED
    BY <2>2, <2>3, <2>4
<1>8. QED
  BY <1>1, <1>6, <1>7 DEF r

LEMMA OneO ==
  ASSUME NEW m \in Msg
  PROVE  <<m>> \in Seq(Msg) /\ InQ(<<m>>) = {m} /\ Ordered(<<m>>)
<1>1. <<m>> \in Seq(Msg) /\ DOMAIN <<m>> = {1} /\ <<m>>[1] = m
  OBVIOUS
<1>2. QED
  BY <1>1 DEF InQ, Ordered

LEMMA TwoO ==
  ASSUME NEW m \in Msg, NEW n \in Msg, Follows(m, n)
  PROVE  <<m, n>> \in Seq(Msg) /\ InQ(<<m, n>>) = {m, n} /\ Ordered(<<m, n>>)
<1>1. <<m, n>> \in Seq(Msg) /\ DOMAIN <<m, n>> = {1, 2}
      /\ <<m, n>>[1] = m /\ <<m, n>>[2] = n
  OBVIOUS
<1>2. QED
  BY <1>1 DEF InQ, Ordered

(* A command that goes on leaves the answers on their way as they fit, if  *)
(* none is for it, or if it leaves neither its request nor its wait.       *)
LEMMA AnswersGo ==
  ASSUME TypeOK, NEW c \in DOMAIN task, NEW t \in Task, Goes(c, t),
         NEW Q, Q \subseteq InQ(queue), AnswersOf(InQ(queue), task),
         t.out => t.stage \notin Early,
         \/ task[c].out \/ task[c].stage \in Early
         \/ \A m \in Q : m.ev = "done" => m.c # c
         \/ /\ t.out = task[c].out /\ t.stage \notin Early
            /\ task[c].stage = "creating" => t.stage = "creating"
  PROVE  AnswersOf(Q, task')
<1>3. DOMAIN task' = DOMAIN task
      /\ \A d \in DOMAIN task : task'[d] = IF d = c THEN t ELSE task[d]
  BY DEF Goes
<1>0. \A d \in DOMAIN task' : task'[d].out => task'[d].stage \notin Early
  BY <1>3 DEF AnswersOf
<1>1. SUFFICES ASSUME NEW m \in Q, m.ev = "done" PROVE AnswerFits(m, task')
  BY <1>0 DEF AnswersOf, AnswerFits
<1>2. AnswerFits(m, task)
  BY DEF AnswersOf
<1>4. CASE m.c # c
  BY <1>1, <1>2, <1>3, <1>4 DEF AnswerFits
<1>5. CASE m.c = c
  <2>1. ~ task[c].out /\ task[c].stage \notin Early
    BY <1>1, <1>2, <1>5 DEF AnswerFits
  <2>2. t.out = task[c].out /\ t.stage \notin Early
        /\ (task[c].stage = "creating" => t.stage = "creating")
    BY <2>1, <1>1, <1>5
  <2>3. QED
    BY <2>1, <2>2, <1>1, <1>2, <1>3, <1>5 DEF AnswerFits
<1>6. QED
  BY <1>4, <1>5

(* No answer is on its way to a command whose request has not been served. *)
LEMMA NoAnswer ==
  ASSUME NEW c, NEW Q, AnswersOf(Q, task), task[c].out \/ task[c].stage \in Early
  PROVE  \A m \in Q : m.ev = "done" => m.c # c
BY DEF AnswersOf, AnswerFits

(* A step that changes what waits in the queue by answers and loads only.  *)
LEMMA TellQuiet ==
  ASSUME Tell, queue \in Seq(Msg), queue' \in Seq(Msg), byUser \subseteq Gone,
         UNCHANGED <<win, rw, rt, told, byUser, forgotten>>,
         AnswersOf(InQ(queue'), task'), Ordered(queue'),
         \A m \in InQ(queue) : m \in InQ(queue') \/ (m.ev \in {"loaded", "done"} /\
                                                      ~ (m.ev = "done" /\ m.w \in Windows)),
         \A m \in InQ(queue') : m \in InQ(queue) \/ m.ev \in {"loaded", "done"}
  PROVE  Tell'
<1>1. EventsOf(InQ(queue'), win')
  BY DEF EventsOf, EventFits, Tell
<1>2. \A g \in Gone : g \in InQ(queue) => g \in InQ(queue')
  BY DEF Gone
<1>3. \A w \in Windows : w \in ReplyOf(queue) => w \in ReplyOf(queue')
  BY ReplyIn
<1>4. TrackedBy(ReplyOf(queue'), forgotten', win', rt', rw')
  BY <1>3 DEF TrackedBy, KnownBy, Tell
<1>5. UntoldOf(InQ(queue'), ReplyOf(queue'), byUser', told', forgotten', rt', rw')
  <2>1. SUFFICES ASSUME NEW g \in byUser, g \notin told, g.w \notin forgotten
                 PROVE  /\ g \in InQ(queue')
                        /\ KnownBy(ReplyOf(queue'), forgotten', IF g.ev = "tab" THEN rt' ELSE rw', g.w)
    BY DEF UntoldOf
  <2>2. /\ g \in InQ(queue) /\ g \in Gone /\ g.w \in Windows
        /\ KnownBy(ReplyOf(queue), forgotten, IF g.ev = "tab" THEN rt ELSE rw, g.w)
    BY <2>1 DEF Tell, UntoldOf, Gone
  <2>3. QED
    BY <2>2, <1>2, <1>3 DEF KnownBy
<1>6. QED
  BY <1>1, <1>4, <1>5 DEF Tell

(* ... or not at all.                                                      *)
LEMMA TellStays ==
  ASSUME Tell, UNCHANGED <<queue, win, rw, rt, told, byUser, forgotten>>,
         AnswersOf(InQ(queue), task')
  PROVE  Tell'
BY DEF Tell

(* The worker drops the ids that it has.                                   *)
LEMMA TellDropped ==
  ASSUME Tell, IdsAgree, UNCHANGED <<queue, win, told, byUser>>,
         byUser \subseteq Gone, None \notin Windows,
         rw' = None, rt' = None, forgotten' = forgotten \cup ({rw} \ {None}),
         AnswersOf(InQ(queue), task')
  PROVE  Tell'
<1>1. \A R : \A w \in Windows : \A h \in {rt, rw} :
        KnownBy(R, forgotten, h, w) => KnownBy(R, forgotten', None, w)
  BY DEF KnownBy, IdsAgree
<1>2. TrackedBy(ReplyOf(queue'), forgotten', win', rt', rw')
  BY <1>1 DEF TrackedBy, Tell
<1>3. UntoldOf(InQ(queue'), ReplyOf(queue'), byUser', told', forgotten', rt', rw')
  <2>1. \A g \in byUser : g.w \in Windows
    BY DEF Gone
  <2>2. QED
    BY <2>1, <1>1 DEF UntoldOf, Tell
<1>4. QED
  BY <1>2, <1>3 DEF Tell

(* An answer that the browser gives to a command, its request served.      *)
LEMMA TellReplied ==
  ASSUME Inv, Inv', Tell, NEW c \in DOMAIN task, NEW r \in Result, task[c].out, Served(c),
         queue' = Replies(c, r),
         UNCHANGED <<win, rw, rt, told, byUser, forgotten>>
  PROVE  Tell'
<1> DEFINE m == [ev |-> "done", c |-> c, answer |-> r, w |-> None]
           t == [task[c] EXCEPT !.out = FALSE]
<1>1. /\ m \in Msg /\ queue \in Seq(Msg) /\ queue' \in Seq(Msg) /\ byUser \subseteq Gone
      /\ TypeOK /\ task[c] \in Task
      /\ m.ev = "done" /\ m.c = c /\ m.w = None
  BY LenProperties DEF Inv, TypeOK, Msg, Reply
<1>2. queue' = Append(queue, m)
  BY DEF Replies, Done
<1>3. /\ t \in Task /\ ~ t.out /\ t.stage = task[c].stage /\ Goes(c, t)
  BY <1>1 DEF Served, Task
<1>4. task'[c] = t /\ DOMAIN task' = DOMAIN task
  BY <1>3 DEF Goes
<1> HIDE DEF m, t
<1>5. AnswersOf(InQ(queue), task) /\ Ordered(queue) /\ InQ(queue) \subseteq Msg
  BY <1>1, InMsg DEF Tell
<1>6. AnswersOf(InQ(queue), task')
  BY <1>1, <1>3, <1>5, AnswersGo
<1>7. AnswerFits(m, task')
  BY <1>1, <1>3, <1>4, <1>5 DEF AnswerFits, AnswersOf
<1>8. \A n \in InQ(queue) : Follows(n, m)
  <2>1. \A n \in InQ(queue) : n.ev = "done" => n.c # c
    BY <1>5, NoAnswer
  <2>2. \A n \in InQ(queue) : n.ev \in {"tab", "window"} => n.w \in Windows
    BY <1>5, MsgIs
  <2>3. None \notin Windows
    BY DEF Tabs
  <2>4. QED
    BY <2>1, <2>2, <2>3, <1>1 DEF Follows
<1>9. InQ(queue') = InQ(queue) \cup {m} /\ Ordered(queue')
  BY <1>1, <1>2, <1>5, <1>8, AppendO
<1>10. AnswersOf(InQ(queue'), task')
  BY <1>6, <1>7, <1>9 DEF AnswersOf
<1>11. QED
  BY <1>1, <1>9, <1>10, TellQuiet

LEMMA TellCli ==
  ASSUME Inv, Tell, (\E op \in Ops : Send(op)) \/ GiveUp \/ LeaveWindow
  PROVE  Tell'
<1> USE DEF browser, ids, history
<1>1. ASSUME NEW op \in Ops, Send(op) PROVE Tell'
  <2> DEFINE t == [op |-> op, arg |-> cli.win, stage |-> "sent", tab |-> None,
                   result |-> None, out |-> FALSE]
  <2>1. /\ task' = Append(task, t) /\ task \in Seq(Task)
        /\ Len(task) \in Nat /\ DOMAIN task = 1 .. Len(task)
        /\ t \in Task /\ ~ t.out
    BY <1>1, LenProperties DEF Send, Inv, TypeOK, Task, Stage
  <2> HIDE DEF t
  <2>2. /\ DOMAIN task \subseteq DOMAIN task'
        /\ \A c \in DOMAIN task : task'[c] = task[c]
        /\ \A c \in DOMAIN task' : c \in DOMAIN task \/ ~ task'[c].out
    BY <2>1, AppendProperties, LenProperties
  <2>3. AnswersOf(InQ(queue), task')
    BY <2>2 DEF AnswersOf, AnswerFits, Tell
  <2>4. QED
    BY <2>3, <1>1, TellStays DEF Send
<1>2. CASE GiveUp
  BY <1>2, TellStays DEF GiveUp, Tell
<1>3. CASE LeaveWindow
  BY <1>3, TellStays DEF LeaveWindow, Tell
<1>4. QED
  BY <1>1, <1>2, <1>3

LEMMA TellWorker ==
  ASSUME Inv, Tell, NEW c \in DOMAIN task, Worker(c) \/ Timeout(c)
  PROVE  Tell'
<1> USE DEF browser, ids, history
<1>0. /\ TypeOK /\ task[c] \in Task /\ IdsAgree /\ byUser \subseteq Gone
      /\ AnswersOf(InQ(queue), task)
      /\ rw \in Windows \cup {None} /\ rt \in Windows \cup {None}
      /\ None \notin Windows
  BY LenProperties DEF Inv, TypeOK, Tell, Tabs
<1>1. ASSUME DropIds(c), rw # None, task[c].stage \in Early,
             UNCHANGED <<queue, win, told, byUser>>
      PROVE  Tell'
  <2> DEFINE t == [task[c] EXCEPT !.stage = "removing", !.tab = rw, !.out = TRUE]
  <2>1. t \in Task /\ t.stage \notin Early
    BY <1>0, <1>1 DEF Task, Stage, Tabs, Early
  <2>2. Goes(c, t) /\ rw' = None /\ rt' = None /\ forgotten' = forgotten \cup ({rw} \ {None})
    BY <1>1 DEF DropIds
  <2> HIDE DEF t
  <2>3. AnswersOf(InQ(queue), task')
    BY <2>1, <2>2, <1>0, <1>1, AnswersGo
  <2>4. QED
    BY <2>2, <2>3, <1>0, <1>1, TellDropped
<1>2. ASSUME NEW t \in Task, Goes(c, t),
             UNCHANGED <<browser, ids, queue, told, byUser, forgotten>>,
             t.out => t.stage \notin Early,
             \/ task[c].stage \in Early
             \/ t.out = task[c].out /\ t.stage = "done" /\ task[c].stage # "creating"
      PROVE  Tell'
  <2>1. AnswersOf(InQ(queue), task')
    BY <1>2, <1>0, AnswersGo DEF Early
  <2>2. QED
    BY <2>1, <1>2, TellStays
<1>3. ASSUME NEW r \in Result, Answer(c, r, None),
             UNCHANGED <<browser, ids, queue, told, byUser, forgotten>>,
             task[c].stage # "creating"
      PROVE  Tell'
  <2> DEFINE t == [task[c] EXCEPT !.stage = "done", !.result = r]
  <2>1. t \in Task /\ t.out = task[c].out /\ t.stage = "done" /\ t.stage \notin Early
    BY <1>0 DEF Task, Stage, Early
  <2>2. Goes(c, t)
    BY <1>3 DEF Answer
  <2> HIDE DEF t
  <2>3. QED
    BY <2>1, <2>2, <1>2, <1>3
<1>4. CASE ReceiveOpen(c)
  <2>1. task[c].stage = "sent" /\ task[c].stage \in Early
    BY <1>4 DEF ReceiveOpen, Received, Early
  <2>2. CASE Goes(c, [task[c] EXCEPT !.stage = "creating", !.out = TRUE])
             /\ UNCHANGED <<ids, forgotten>>
    <3> DEFINE t == [task[c] EXCEPT !.stage = "creating", !.out = TRUE]
    <3>1. t \in Task /\ t.stage \notin Early
      BY <1>0 DEF Task, Stage, Early
    <3>2. Goes(c, t) /\ UNCHANGED <<browser, ids, queue, told, byUser, forgotten>>
      BY <1>4, <2>2 DEF ReceiveOpen
    <3> HIDE DEF t
    <3>3. QED
      BY <2>1, <3>1, <3>2, <1>2
  <2>3. QED
    BY <2>1, <2>2, <1>1, <1>4 DEF ReceiveOpen
<1>5. CASE ReceiveClose(c)
  <2>1. task[c].stage = "sent" /\ task[c].stage \in Early
    BY <1>5 DEF ReceiveClose, Received, Early
  <2>2. QED
    BY <2>1, <1>1, <1>3, <1>5 DEF ReceiveClose, Result
<1>6. ASSUME NEW t \in Tabs, Handle(c, t), task[c].stage \in Early,
             UNCHANGED <<browser, ids, queue, told, byUser, forgotten>>
      PROVE  Tell'
  <2> DEFINE s == CASE task[c].op = "navigate" -> "updating"
                    [] task[c].op = "wait"     -> "listening"
                    [] OTHER                   -> "acting"
             n == [task[c] EXCEPT !.tab = t, !.stage = s, !.out = task[c].op # "wait"]
  <2>1. s \in Stage /\ s \notin Early
    BY DEF Stage, Early
  <2>2. n \in Task /\ n.stage \notin Early
    <3> HIDE DEF s
    <3>1. QED
      BY <1>0, <2>1 DEF Task
  <2>3. Goes(c, n)
    BY <1>6 DEF Handle
  <2> HIDE DEF n
  <2>4. QED
    BY <2>2, <2>3, <1>2, <1>6
<1>7. CASE WithActiveTab(c)
  <2> DEFINE n == [task[c] EXCEPT !.stage = "asking"]
  <2>1. n \in Task /\ n.out = task[c].out
    BY <1>0 DEF Task, Stage
  <2>2. /\ task[c].stage = "sent" /\ task[c].stage \in Early /\ ~ task[c].out
        /\ UNCHANGED <<browser, ids, queue, told, byUser, forgotten>>
    BY <1>7, <1>0 DEF WithActiveTab, Received, Early, AnswersOf
  <2>3. Goes(c, n) \/ (rt # None /\ Handle(c, rt))
    BY <1>7 DEF WithActiveTab
  <2> HIDE DEF n
  <2>4. rt # None => rt \in Tabs
    BY <1>0 DEF Tabs
  <2>5. QED
    BY <2>1, <2>2, <2>3, <2>4, <1>2, <1>6
<1>8. CASE ActiveTab(c)
  <2>1. task[c].stage = "asking" /\ task[c].stage \in Early
    BY <1>8 DEF ActiveTab, Early
  <2>2. QED
    BY <2>1, <1>8, <1>6, <1>3 DEF ActiveTab, Result
<1>9. CASE Timeout(c)
  BY <1>9, <1>3 DEF Timeout, Timed, Result
<1>10. QED
  BY <1>4, <1>5, <1>7, <1>8, <1>9 DEF Worker

LEMMA TellPage ==
  ASSUME Inv, Inv', Tell, NEW c \in DOMAIN task, UpdateTab(c) \/ Replying(c)
  PROVE  Tell'
<1> USE DEF ids, history, browser
<1>0. /\ TypeOK /\ task[c] \in Task /\ AnswersOf(InQ(queue), task)
  BY LenProperties DEF Inv, TypeOK, Tell
<1>1. ASSUME NEW r \in Result, queue' = Replies(c, r), task[c].out, Served(c),
             UNCHANGED <<win, rw, rt, told, byUser, forgotten>>
      PROVE  Tell'
  BY <1>1, TellReplied
<1>2. CASE UpdateTab(c)
  <2>1. CASE /\ Goes(c, [task[c] EXCEPT !.out = FALSE,
                              !.stage = IF @ = "updating" THEN "listening" ELSE @])
             /\ UNCHANGED queue
    <3> DEFINE s == IF task[c].stage = "updating" THEN "listening" ELSE task[c].stage
               t == [task[c] EXCEPT !.out = FALSE, !.stage = s]
    <3>1. t \in Task /\ ~ t.out
      BY <1>0 DEF Task, Stage
    <3>2. Goes(c, t)
      BY <2>1, <1>0 DEF Task
    <3> HIDE DEF t
    <3>3. AnswersOf(InQ(queue), task')
      BY <3>1, <3>2, <1>0, <1>2, AnswersGo DEF UpdateTab
    <3>4. QED
      BY <3>3, <2>1, <1>2, TellStays DEF UpdateTab
  <2>2. CASE queue' = Replies(c, "refused") /\ Served(c)
    BY <2>2, <1>1, <1>2 DEF UpdateTab, Result
  <2>3. QED
    BY <1>2, <2>1, <2>2 DEF UpdateTab
<1>3. CASE NoReceiver(c)
  <2>1. \E r \in Result : queue' = Replies(c, r)
    BY <1>3 DEF NoReceiver, Result
  <2>2. QED
    BY <2>1, <1>1, <1>3 DEF NoReceiver
<1>4. CASE Perform(c)
  <2>1. \E r \in Result : queue' = Replies(c, r)
    BY <1>4 DEF Perform, Result
  <2>2. task[c].out /\ Served(c) /\ UNCHANGED <<win, rw, rt, told, byUser, forgotten>>
    BY <1>4 DEF Perform
  <2>3. QED
    BY <2>1, <2>2, <1>1
<1>5. CASE Appear(c)
  <2>1. \E r \in Result : queue' = Replies(c, r)
    BY <1>5 DEF Appear, Result
  <2>2. task[c].out /\ Served(c) /\ UNCHANGED <<win, rw, rt, told, byUser, forgotten>>
    BY <1>5 DEF Appear
  <2>3. QED
    BY <2>1, <2>2, <1>1
<1>6. QED
  BY <1>2, <1>3, <1>4, <1>5 DEF Replying

(* The browser's and the user's own steps.                                 *)
LEMMA TellBrowser ==
  ASSUME Inv, Inv', Tell,
         \/ \E t \in Tabs : Load(t)
         \/ \E w \in Windows : UserClosesTab(w) \/ UserClosesRest(w)
         \/ Evict
  PROVE  Tell'
<1> USE DEF ids, history, browser
<1>0. /\ TypeOK /\ queue \in Seq(Msg) /\ queue' \in Seq(Msg) /\ InQ(queue) \subseteq Msg
      /\ win \in [Windows -> {"unused", "open", "tabless", "closed", "removed"}]
      /\ byUser \subseteq Gone /\ IdsAgree /\ None \notin Windows
      /\ AnswersOf(InQ(queue), task) /\ EventsOf(InQ(queue), win) /\ Ordered(queue)
  BY InMsg DEF Inv, TypeOK, Msg, Tell, Tabs
<1>1. ASSUME NEW t \in Tabs, Load(t) PROVE Tell'
  <2> DEFINE m == [ev |-> "loaded", tab |-> t]
  <2>1. m \in Msg /\ m.ev = "loaded"
    BY DEF Msg, Loaded
  <2>2. queue' = Append(queue, m)
        /\ UNCHANGED <<win, rw, rt, told, byUser, forgotten, task>>
    BY <1>1 DEF Load
  <2> HIDE DEF m
  <2>3. \A n \in InQ(queue) : Follows(n, m)
    BY <2>1 DEF Follows
  <2>4. InQ(queue') = InQ(queue) \cup {m} /\ Ordered(queue')
    BY <2>1, <2>2, <2>3, <1>0, AppendO
  <2>5. AnswersOf(InQ(queue'), task')
    BY <2>1, <2>2, <2>4, <1>0 DEF AnswersOf, AnswerFits
  <2>6. QED
    BY <2>1, <2>2, <2>4, <2>5, <1>0, TellQuiet
<1>2. ASSUME NEW w \in Windows, NEW s \in {"tabless", "closed"}, NEW e \in Seq(Msg),
             win' = [win EXCEPT ![w] = s], win[w] \in {"open", "tabless"},
             queue' = queue \o e, byUser' = byUser \cup InQ(e), Ordered(e),
             \A g \in InQ(e) : /\ g \in Gone /\ g.w = w
                               /\ g.ev = "tab" => win[w] = "open"
                               /\ g.ev = "window" => s = "closed",
             UNCHANGED <<ids, task, told, forgotten>>
      PROVE  Tell'
  <2>0. /\ \A v \in Windows : win'[v] = IF v = w THEN s ELSE win[v]
        /\ InQ(e) \subseteq Gone
    BY <1>0, <1>2
  <2>1. \A n \in InQ(queue) : n.ev \in {"tab", "window"} =>
          n.w \in Windows /\ EventFits(n, win)
    BY <1>0, MsgIs DEF EventsOf
  <2>2. \A n \in InQ(queue), m \in InQ(e) : Follows(n, m)
    <3>1. TAKE n \in InQ(queue), m \in InQ(e)
    <3>2. m.ev \in {"tab", "window"} /\ m.w = w
      BY <1>2 DEF Gone
    <3>3. QED
      BY <3>2, <2>1, <1>2 DEF Follows, EventFits
  <2>3. Ordered(queue') /\ InQ(queue') = InQ(queue) \cup InQ(e)
    BY <2>2, <1>0, <1>2, ConcatO
  <2>4. AnswersOf(InQ(queue'), task')
    BY <2>0, <2>3, <1>0, <1>2 DEF AnswersOf, AnswerFits, Gone
  <2>5. EventsOf(InQ(queue'), win')
    <3>1. ASSUME NEW n \in InQ(queue) PROVE EventFits(n, win')
      BY <3>1, <2>0, <2>1, <1>2 DEF EventFits
    <3>2. ASSUME NEW n \in InQ(e) PROVE EventFits(n, win')
      BY <3>2, <2>0, <1>2 DEF EventFits
    <3>3. QED
      BY <3>1, <3>2, <2>3 DEF EventsOf
  <2>6. ReplyOf(queue') = ReplyOf(queue)
    <3>1. \A v : v \in ReplyOf(queue') <=> v \in ReplyOf(queue)
      BY <2>0, <2>3, <1>0, ReplyIn DEF Gone
    <3>2. QED
      BY <3>1
  <2>7. TrackedBy(ReplyOf(queue'), forgotten', win', rt', rw')
    BY <2>0, <2>6, <1>2 DEF TrackedBy, Tell, KnownBy
  <2>8. UntoldOf(InQ(queue'), ReplyOf(queue'), byUser', told', forgotten', rt', rw')
    <3>1. ASSUME NEW g \in byUser
          PROVE  \/ g \in told \/ g.w \in forgotten
                 \/ /\ g \in InQ(queue)
                    /\ KnownBy(ReplyOf(queue), forgotten, IF g.ev = "tab" THEN rt ELSE rw, g.w)
      BY <3>1 DEF Tell, UntoldOf
    <3>2. ASSUME NEW g \in InQ(e)
          PROVE  KnownBy(ReplyOf(queue), forgotten, IF g.ev = "tab" THEN rt ELSE rw, g.w)
      BY <3>2, <1>2 DEF Tell, TrackedBy, Gone
    <3>3. QED
      BY <3>1, <3>2, <2>3, <2>6, <1>2 DEF UntoldOf
  <2>9. QED
    BY <2>3, <2>4, <2>5, <2>7, <2>8 DEF Tell
<1>3. ASSUME NEW w \in Windows, UserClosesTab(w) PROVE Tell'
  <2> DEFINE a == TabGone(w)
             b == WindowGone(w)
  <2>1. /\ a \in Gone /\ b \in Gone /\ a.w = w /\ b.w = w /\ a.ev = "tab" /\ b.ev = "window"
        /\ a \in Msg /\ b \in Msg
    BY DEF TabGone, WindowGone, Gone, Msg
  <2>2. win[w] = "open" /\ UNCHANGED <<ids, task, told, forgotten>>
    BY <1>3 DEF UserClosesTab
  <2>3. CASE /\ win' = [win EXCEPT ![w] = "tabless"]
             /\ queue' = Append(queue, a)
             /\ byUser' = byUser \cup {a}
    <3> HIDE DEF a, b
    <3> DEFINE e == <<a>>
    <3>1. e \in Seq(Msg) /\ InQ(e) = {a} /\ Ordered(e)
      BY <2>1, OneO
    <3>2. queue' = queue \o e
      BY <2>1, <2>3, <1>0, AppendIsConcat
    <3> HIDE DEF e
    <3>3. QED
      BY <3>1, <3>2, <2>1, <2>2, <2>3, <1>2
  <2>4. CASE /\ win' = [win EXCEPT ![w] = "closed"]
             /\ queue' = queue \o <<a, b>>
             /\ byUser' = byUser \cup {a, b}
    <3> HIDE DEF a, b
    <3> DEFINE e == <<a, b>>
    <3>1. Follows(a, b)
      BY <2>1 DEF Follows
    <3>2. e \in Seq(Msg) /\ InQ(e) = {a, b} /\ Ordered(e)
      BY <2>1, <3>1, TwoO
    <3>3. queue' = queue \o e
      BY <2>4
    <3> HIDE DEF e
    <3>4. QED
      BY <3>2, <3>3, <2>1, <2>2, <2>4, <1>2
  <2>5. QED
    BY <1>3, <2>3, <2>4 DEF UserClosesTab
<1>4. ASSUME NEW w \in Windows, UserClosesRest(w) PROVE Tell'
  <2> DEFINE b == WindowGone(w)
             e == <<b>>
  <2>1. b \in Gone /\ b.w = w /\ b.ev = "window" /\ b \in Msg
    BY DEF WindowGone, Gone, Msg
  <2>2. /\ win[w] = "tabless" /\ win' = [win EXCEPT ![w] = "closed"]
        /\ queue' = Append(queue, b) /\ byUser' = byUser \cup {b}
        /\ UNCHANGED <<ids, task, told, forgotten>>
    BY <1>4 DEF UserClosesRest
  <2> HIDE DEF b
  <2>3. e \in Seq(Msg) /\ InQ(e) = {b} /\ Ordered(e)
    BY <2>1, OneO
  <2>4. queue' = queue \o e
    BY <2>1, <2>2, <1>0, AppendIsConcat
  <2> HIDE DEF e
  <2>5. QED
    BY <2>1, <2>2, <2>3, <2>4, <1>2
<1>5. CASE Evict
  <2>1. AnswersOf(InQ(queue), task')
    BY <1>0, <1>5 DEF Evict
  <2>2. QED
    BY <2>1, <1>0, <1>5, TellDropped DEF Evict
<1>6. QED
  BY <1>1, <1>3, <1>4, <1>5

LEMMA TellCreate ==
  ASSUME Inv, Inv', Tell, NEW c \in DOMAIN task, CreateWindow(c)
  PROVE  Tell'
<1> USE DEF ids, history
<1>0. /\ TypeOK /\ queue \in Seq(Msg) /\ queue' \in Seq(Msg) /\ InQ(queue) \subseteq Msg
      /\ win \in [Windows -> {"unused", "open", "tabless", "closed", "removed"}]
      /\ byUser \subseteq Gone /\ None \notin Windows /\ task[c] \in Task
      /\ AnswersOf(InQ(queue), task) /\ EventsOf(InQ(queue), win) /\ Ordered(queue)
  <2>1. task[c] \in Task
    BY LenProperties DEF Inv, TypeOK
  <2>2. QED
    BY <2>1, InMsg DEF Inv, TypeOK, Msg, Tell, Tabs
<1>1. /\ task[c].stage = "creating" /\ task[c].out /\ Served(c)
      /\ UNCHANGED <<ids, history, byUser>>
  BY DEF CreateWindow
<1>2. CASE queue' = Replies(c, "refused") /\ UNCHANGED win
  BY <1>1, <1>2, TellReplied DEF Result
<1>3. ASSUME NEW w \in Windows, win[w] = "unused", win' = [win EXCEPT ![w] = "open"],
             queue' = Append(queue, Done(c, "ok", w))
      PROVE  Tell'
  <2> DEFINE m == Done(c, "ok", w)
             t == [task[c] EXCEPT !.out = FALSE]
  <2>1. /\ m \in Msg /\ m.ev = "done" /\ m.c = c /\ m.w = w /\ m.answer = "ok"
        /\ queue' = Append(queue, m)
    BY <1>0, <1>3, LenProperties DEF Done, Msg, Reply, Result, TypeOK
  <2>2. /\ t \in Task /\ ~ t.out /\ t.stage = "creating" /\ Goes(c, t)
        /\ t.stage \notin Early
    BY <1>0, <1>1 DEF Served, Task, Early
  <2>3. task'[c] = t /\ DOMAIN task' = DOMAIN task
    BY <2>2 DEF Goes
  <2>4. \A v \in Windows : win'[v] = IF v = w THEN "open" ELSE win[v]
    BY <1>0, <1>3
  <2> HIDE DEF m, t
  <2>5. AnswersOf(InQ(queue), task')
    BY <2>2, <1>0, <1>1, AnswersGo
  <2>6. \A n \in InQ(queue) : n.ev \in {"tab", "window"} =>
          n.w \in Windows /\ n.w # w /\ EventFits(n, win)
    BY <1>0, <1>3, MsgIs DEF EventsOf, EventFits
  <2>7. \A n \in InQ(queue) : n.ev = "done" => n.c # c
    BY <1>0, <1>1, NoAnswer
  <2>8. \A n \in InQ(queue) : Follows(n, m)
    BY <2>1, <2>6, <2>7 DEF Follows
  <2>9. InQ(queue') = InQ(queue) \cup {m} /\ Ordered(queue')
    BY <2>1, <2>8, <1>0, AppendO
  <2>10. AnswersOf(InQ(queue'), task')
    BY <2>1, <2>2, <2>3, <2>5, <2>9 DEF AnswersOf, AnswerFits
  <2>11. EventsOf(InQ(queue'), win')
    BY <2>1, <2>4, <2>6, <2>9 DEF EventsOf, EventFits
  <2>12. w \in ReplyOf(queue') /\ ReplyOf(queue) \subseteq ReplyOf(queue')
    <3>1. \A v : v \in ReplyOf(queue) <=>
                  \E n \in InQ(queue) : n.ev = "done" /\ n.w = v /\ v # None
      BY <1>0, ReplyIn
    <3>2. \A v : v \in ReplyOf(queue') <=>
                  \E n \in InQ(queue') : n.ev = "done" /\ n.w = v /\ v # None
      BY <1>0, ReplyIn
    <3>3. QED
      BY <3>1, <3>2, <2>1, <2>9, <1>0
  <2>13. TrackedBy(ReplyOf(queue'), forgotten', win', rt', rw')
    BY <2>4, <2>12, <1>1 DEF TrackedBy, KnownBy, Tell
  <2>14. UntoldOf(InQ(queue'), ReplyOf(queue'), byUser', told', forgotten', rt', rw')
    BY <2>9, <2>12, <1>1 DEF UntoldOf, KnownBy, Tell
  <2>15. QED
    BY <2>9, <2>10, <2>11, <2>13, <2>14 DEF Tell
<1>4. QED
  BY <1>2, <1>3 DEF CreateWindow

LEMMA TellRemove ==
  ASSUME Inv, Inv', Tell, NEW c \in DOMAIN task, RemoveWindow(c)
  PROVE  Tell'
<1> USE DEF ids, history
<1> DEFINE w == task[c].tab
           a == TabGone(w)
           b == WindowGone(w)
           m == Done(c, "ok", None)
           gone == CASE win[w] = "open"    -> <<a, b>>
                     [] win[w] = "tabless" -> <<b>>
                     [] OTHER              -> <<>>
           t == [task[c] EXCEPT !.out = FALSE]
<1>0. /\ TypeOK /\ queue \in Seq(Msg) /\ queue' \in Seq(Msg) /\ InQ(queue) \subseteq Msg
      /\ win \in [Windows -> {"unused", "open", "tabless", "closed", "removed"}]
      /\ byUser \subseteq Gone /\ None \notin Windows /\ task[c] \in Task
      /\ AnswersOf(InQ(queue), task) /\ EventsOf(InQ(queue), win) /\ Ordered(queue)
  <2>1. task[c] \in Task
    BY LenProperties DEF Inv, TypeOK
  <2>2. QED
    BY <2>1, InMsg DEF Inv, TypeOK, Msg, Tell, Tabs
<1>1. /\ task[c].stage = "removing" /\ task[c].out /\ Served(c) /\ w \in Windows
      /\ UNCHANGED <<ids, history>>
      /\ win' = IF Stands(w) THEN [win EXCEPT ![w] = "removed"] ELSE win
      /\ \/ queue' = queue \o gone \o <<m>>
         \/ queue' = Append(queue, m) \o gone
  BY <1>0 DEF RemoveWindow, Replies, TypeOK
<1>2. /\ a \in Gone /\ b \in Gone /\ a.w = w /\ b.w = w /\ a.ev = "tab" /\ b.ev = "window"
      /\ a \in Msg /\ b \in Msg
  BY <1>1 DEF TabGone, WindowGone, Gone, Msg
<1>3. m \in Msg /\ m.ev = "done" /\ m.c = c /\ m.w = None
  BY <1>0, LenProperties DEF Done, Msg, Reply, Result, TypeOK
<1>4. /\ t \in Task /\ ~ t.out /\ t.stage = "removing" /\ Goes(c, t)
      /\ t.stage \notin Early
  BY <1>0, <1>1 DEF Served, Task, Early
<1>5. task'[c] = t /\ DOMAIN task' = DOMAIN task
  BY <1>4 DEF Goes
<1> HIDE DEF a, b, m, t
<1>6. /\ gone \in Seq(Msg) /\ Ordered(gone) /\ InQ(gone) \subseteq {a, b}
      /\ a \in InQ(gone) => win[w] = "open"
      /\ InQ(gone) # {} => Stands(w)
  <2>1. CASE win[w] = "open"
    <3>1. gone = <<a, b>> /\ Stands(w)
      BY <2>1 DEF Stands
    <3>2. Follows(a, b)
      BY <1>2 DEF Follows
    <3> HIDE DEF gone
    <3>3. QED
      BY <3>1, <3>2, <2>1, <1>2, TwoO
  <2>2. CASE win[w] = "tabless"
    <3>1. gone = <<b>> /\ Stands(w)
      BY <2>2 DEF Stands
    <3>2. a # b
      BY <1>2
    <3> HIDE DEF gone
    <3>3. QED
      BY <3>1, <3>2, <2>2, <1>2, OneO
  <2>3. CASE win[w] \notin {"open", "tabless"}
    <3>1. gone = <<>>
      BY <2>3
    <3> HIDE DEF gone
    <3>2. gone \in Seq(Msg) /\ DOMAIN gone = {}
      BY <3>1, EmptySeq
    <3>3. QED
      BY <3>2 DEF InQ, Ordered
  <2>4. QED
    BY <2>1, <2>2, <2>3
<1> HIDE DEF gone
<1> DEFINE e == gone
           wn == win'
<1>7. \A v \in Windows : /\ v # w => win'[v] = win[v]
                         /\ Stands(w) => win'[w] = "removed"
                         /\ ~ Stands(w) => win'[w] = win[w]
  BY <1>0, <1>1
<1>8. \A n \in InQ(queue) : n.ev \in {"tab", "window"} => n.w \in Windows /\ EventFits(n, win)
  BY <1>0, MsgIs DEF EventsOf
<1>9. \A n \in InQ(queue), g \in InQ(gone) : Follows(n, g)
  <2>1. TAKE n \in InQ(queue), g \in InQ(gone)
  <2>2. g = b \/ (g = a /\ win[w] = "open")
    BY <1>6
  <2>3. QED
    BY <2>2, <1>2, <1>8 DEF Follows, EventFits
<1>10. \A n \in InQ(queue) \cup InQ(gone) : Follows(n, m)
  <2>1. \A n \in InQ(queue) : n.ev = "done" => n.c # c
    BY <1>0, <1>1, NoAnswer
  <2>2. QED
    BY <2>1, <1>0, <1>1, <1>2, <1>3, <1>6, <1>8 DEF Follows
<1>11. \A g \in InQ(gone) : Follows(m, g)
  BY <1>2, <1>3, <1>6 DEF Follows
<1>12. Ordered(queue') /\ InQ(queue') = InQ(queue) \cup InQ(gone) \cup {m}
  <2>1. <<m>> \in Seq(Msg) /\ InQ(<<m>>) = {m} /\ Ordered(<<m>>)
    BY <1>3, OneO
  <2>2. CASE queue' = queue \o gone \o <<m>>
    <3> DEFINE q == queue \o gone
    <3>1. q \in Seq(Msg) /\ Ordered(q) /\ InQ(q) = InQ(queue) \cup InQ(gone)
      BY <1>0, <1>6, <1>9, ConcatO
    <3> HIDE DEF q
    <3>2. \A n \in InQ(q), g \in InQ(<<m>>) : Follows(n, g)
      BY <3>1, <2>1, <1>10
    <3>3. Ordered(q \o <<m>>) /\ InQ(q \o <<m>>) = InQ(q) \cup InQ(<<m>>)
      BY <3>1, <3>2, <2>1, ConcatO
    <3>4. queue' = q \o <<m>>
      BY <2>2 DEF q
    <3>5. QED
      BY <3>1, <3>3, <3>4, <2>1
  <2>3. CASE queue' = Append(queue, m) \o gone
    <3> DEFINE q == Append(queue, m)
    <3>1. q \in Seq(Msg)
      BY <1>0, <1>3, AppendProperties
    <3>2. Ordered(q) /\ InQ(q) = InQ(queue) \cup {m}
      BY <1>0, <1>3, <1>10, AppendO
    <3> HIDE DEF q
    <3>3. \A n \in InQ(q), g \in InQ(gone) : Follows(n, g)
      BY <3>2, <1>9, <1>11
    <3>4. Ordered(q \o gone) /\ InQ(q \o gone) = InQ(q) \cup InQ(gone)
      BY <3>1, <3>2, <3>3, <1>6, ConcatO
    <3>5. queue' = q \o gone
      BY <2>3 DEF q
    <3>6. QED
      BY <3>2, <3>4, <3>5
  <2>4. QED
    BY <1>1, <2>2, <2>3
<1>13. AnswersOf(InQ(queue'), task')
  <2>1. AnswersOf(InQ(queue), task')
    BY <1>0, <1>1, <1>4, AnswersGo
  <2>2. AnswerFits(m, task')
    BY <1>3, <1>4, <1>5 DEF AnswerFits
  <2>3. \A g \in InQ(gone) : AnswerFits(g, task')
    BY <1>2, <1>6 DEF AnswerFits
  <2>4. QED
    BY <2>1, <2>2, <2>3, <1>12 DEF AnswersOf
<1>14. EventsOf(InQ(queue'), win')
  <2>1. \A n \in InQ(queue) : EventFits(n, win')
    <3>1. TAKE n \in InQ(queue)
    <3>2. CASE n.ev \in {"tab", "window"}
      BY <3>2, <1>7, <1>8, <1>1 DEF EventFits, Stands
    <3>3. QED
      BY <3>2 DEF EventFits
  <2>2. \A g \in InQ(gone) : EventFits(g, win')
    BY <1>1, <1>2, <1>6, <1>7 DEF EventFits
  <2>3. EventFits(m, win')
    BY <1>3 DEF EventFits
  <2>4. QED
    BY <2>1, <2>2, <2>3, <1>12 DEF EventsOf
<1>15. ReplyOf(queue') = ReplyOf(queue)
  <2>1. \A v : v \in ReplyOf(queue) <=>
                \E n \in InQ(queue) : n.ev = "done" /\ n.w = v /\ v # None
    BY <1>0, ReplyIn
  <2>2. \A v : v \in ReplyOf(queue') <=>
                \E n \in InQ(queue') : n.ev = "done" /\ n.w = v /\ v # None
    BY <1>0, ReplyIn
  <2>3. \A n \in InQ(queue') \ InQ(queue) : n.ev = "done" => n.w = None
    BY <1>2, <1>3, <1>6, <1>12
  <2>4. \A v : v \in ReplyOf(queue') <=> v \in ReplyOf(queue)
    BY <2>1, <2>2, <2>3, <1>12
  <2>5. QED
    BY <2>4
<1>16. TrackedBy(ReplyOf(queue'), forgotten', win', rt', rw')
  BY <1>1, <1>7, <1>15 DEF TrackedBy, Tell
<1>17. UntoldOf(InQ(queue'), ReplyOf(queue'), byUser', told', forgotten', rt', rw')
  BY <1>1, <1>12, <1>15 DEF UntoldOf, Tell
<1>18. QED
  BY <1>12, <1>13, <1>14, <1>16, <1>17 DEF Tell

(* What the worker does with what it takes from its queue.                 *)
LEMMA TellQueue ==
  ASSUME Inv, Inv', Tell, Queue
  PROVE  Tell'
<1> USE DEF browser, ids, history
<1> DEFINE m == Head(queue)
           Q == InQ(queue')
           R == ReplyOf(queue')
<1>0. /\ TypeOK /\ queue \in Seq(Msg) /\ queue' \in Seq(Msg) /\ InQ(queue) \subseteq Msg
      /\ byUser \subseteq Gone /\ None \notin Windows /\ IdsAgree
      /\ AnswersOf(InQ(queue), task) /\ EventsOf(InQ(queue), win) /\ Ordered(queue)
      /\ rw \in Windows \cup {None} /\ rt \in Windows \cup {None}
  BY InMsg DEF Inv, TypeOK, Msg, Tell, Tabs
<1>1. queue # <<>> /\ queue' = Tail(queue) /\ win' = win /\ byUser' = byUser
  BY DEF Queue, BrowserEvent, NavigationCompleted, AwaitOver
<1>2. /\ InQ(queue) = Q \cup {m} /\ Ordered(queue')
      /\ \A n \in Q : Follows(m, n)
  BY <1>0, <1>1, TailO
<1>3. /\ \A v : v \in ReplyOf(queue) <=>
              \E n \in InQ(queue) : n.ev = "done" /\ n.w = v /\ v # None
      /\ \A v : v \in R <=> \E n \in Q : n.ev = "done" /\ n.w = v /\ v # None
  BY <1>0, ReplyIn
<1> HIDE DEF m, Q, R
<1>4. /\ m \in Msg /\ AnswerFits(m, task) /\ EventFits(m, win)
      /\ EventsOf(Q, win') /\ AnswersOf(Q, task)
      /\ \A v : v \in ReplyOf(queue) => v \in R \/ (m.ev = "done" /\ m.w = v /\ v # None)
      /\ R \subseteq ReplyOf(queue)
  BY <1>0, <1>1, <1>2, <1>3 DEF AnswersOf, EventsOf
<1>5. \A g \in byUser :
        \/ g \in told \/ g.w \in forgotten
        \/ /\ g = m \/ g \in Q
           /\ KnownBy(ReplyOf(queue), forgotten, IF g.ev = "tab" THEN rt ELSE rw, g.w)
  BY <1>2 DEF Tell, UntoldOf
<1>6. \A g \in byUser : g.ev \in {"tab", "window"} /\ g.w \in Windows
        /\ g = [ev |-> g.ev, w |-> g.w]
  BY <1>0 DEF Gone
<1>7. ASSUME m.ev # "done" \/ m.w = None, m.ev \in {"done", "loaded"}, AnswersOf(Q, task'),
             UNCHANGED <<rw, rt, told, forgotten>>
      PROVE  Tell'
  <2>1. \A g \in byUser : g # m
    BY <1>6, <1>7
  <2>2. R = ReplyOf(queue)
    BY <1>4, <1>7
  <2>3. TrackedBy(R, forgotten', win', rt', rw')
    BY <2>2, <1>1, <1>7 DEF Tell, TrackedBy
  <2>4. UntoldOf(Q, R, byUser', told', forgotten', rt', rw')
    BY <2>1, <2>2, <1>1, <1>5, <1>7 DEF UntoldOf
  <2>5. QED
    BY <2>3, <2>4, <1>2, <1>4, <1>7 DEF Tell, Q, R
<1>8. CASE BrowserEvent
  <2>1. /\ m.ev \in {"tab", "window"} /\ UNCHANGED <<task, forgotten>>
        /\ \/ m.ev = "tab" /\ OnTabRemoved(m.w)
           \/ m.ev = "window" /\ OnWindowRemoved(m.w)
    BY <1>8 DEF BrowserEvent, m
  <2>2. m \in Gone /\ m.w \in Windows /\ m = [ev |-> m.ev, w |-> m.w] /\ R = ReplyOf(queue)
    BY <2>1, <1>4, MsgIs
  <2>3. m.w \notin R
    BY <2>1, <2>2, <1>2, <1>3 DEF Follows
  <2>4. \A g \in byUser : g = m <=> g.ev = m.ev /\ g.w = m.w
    BY <2>2, <1>6
  <2>5. CASE rt = m.w /\ m.ev = "tab"
    <3>1. rt' = None /\ rw' = rw /\ told' = told \cup {m}
      BY <2>1, <2>2, <2>5, <1>0 DEF OnTabRemoved, TabGone
    <3>2. win[m.w] # "open"
      BY <2>5, <1>4 DEF EventFits
    <3>3. TrackedBy(R, forgotten', win', rt', rw')
      BY <3>1, <3>2, <2>1, <2>2, <2>5, <1>1 DEF Tell, TrackedBy, KnownBy
    <3>4. UntoldOf(Q, R, byUser', told', forgotten', rt', rw')
      BY <3>1, <2>1, <2>2, <2>4, <2>5, <1>1, <1>5, <1>6 DEF UntoldOf, KnownBy
    <3>5. QED
      BY <3>3, <3>4, <2>1, <1>2, <1>4 DEF Tell, Q, R
  <2>6. CASE rw = m.w /\ m.ev = "window"
    <3>1. rt' = None /\ rw' = None /\ told' = told \cup {m}
      BY <2>1, <2>2, <2>6 DEF OnWindowRemoved, WindowGone
    <3>2. win[m.w] \notin {"open", "tabless"}
      BY <2>6, <1>4 DEF EventFits
    <3>3. TrackedBy(R, forgotten', win', rt', rw')
      BY <3>1, <3>2, <2>1, <2>2, <2>6, <1>0, <1>1 DEF Tell, TrackedBy, KnownBy, IdsAgree
    <3>4. \A g \in byUser : g \in Q => ~ (g.ev = "tab" /\ g.w = m.w)
      BY <2>6, <1>2 DEF Follows
    <3>5. UntoldOf(Q, R, byUser', told', forgotten', rt', rw')
      <4>1. \A g \in byUser : \/ g \in told' \/ g.w \in forgotten'
                              \/ g \in Q /\ g.w # m.w /\ g.w # None /\
                                 KnownBy(R, forgotten, IF g.ev = "tab" THEN rt ELSE rw, g.w)
        BY <3>1, <3>4, <2>1, <2>2, <2>4, <2>6, <1>0, <1>5, <1>6
      <4>2. \A g \in byUser : \/ g \in told' \/ g.w \in forgotten'
                              \/ g \in Q /\ g.w \in R
        BY <4>1, <3>1, <2>1, <2>6, <1>0 DEF KnownBy, IdsAgree
      <4>3. QED
        BY <4>2, <1>1 DEF UntoldOf, KnownBy
    <3>6. QED
      BY <3>3, <3>5, <2>1, <1>2, <1>4 DEF Tell, Q, R
  <2>7. CASE UNCHANGED <<rw, rt, told>> /\ (IF m.ev = "tab" THEN rt ELSE rw) # m.w
    <3>1. TrackedBy(R, forgotten', win', rt', rw')
      BY <2>1, <2>2, <2>7, <1>1 DEF Tell, TrackedBy
    <3>2. UntoldOf(Q, R, byUser', told', forgotten', rt', rw')
      BY <2>1, <2>2, <2>3, <2>4, <2>7, <1>1, <1>5 DEF UntoldOf, KnownBy
    <3>3. QED
      BY <3>1, <3>2, <2>1, <1>2, <1>4 DEF Tell, Q, R
  <2>8. QED
    BY <2>1, <2>5, <2>6, <2>7 DEF OnTabRemoved, OnWindowRemoved
<1>9. CASE NavigationCompleted
  <2> DEFINE t == m.tab
  <2>1. PICK match \in SUBSET DOMAIN task :
        /\ task' = [c \in DOMAIN task |->
                     IF Heard(c, t, match)
                     THEN [task[c] EXCEPT !.stage = "done", !.result = "ok"] ELSE task[c]]
        /\ m.ev = "loaded" /\ UNCHANGED <<rw, rt, told, forgotten>>
    BY <1>9 DEF NavigationCompleted, m
  <2> HIDE DEF t
  <2>2. DOMAIN task' = DOMAIN task
    BY <2>1
  <2>3. \A c \in DOMAIN task :
          \/ task'[c] = task[c]
          \/ /\ task[c].stage \in {"updating", "listening"}
             /\ task'[c].stage = "done" /\ task'[c].out = task[c].out
    <3>1. TAKE c \in DOMAIN task
    <3>2. task[c] \in Task
      BY <1>0, LenProperties DEF TypeOK
    <3>3. /\ [task[c] EXCEPT !.stage = "done", !.result = "ok"].stage = "done"
          /\ [task[c] EXCEPT !.stage = "done", !.result = "ok"].out = task[c].out
      BY <3>2 DEF Task
    <3>4. QED
      BY <3>3, <2>1 DEF Heard
  <2>4. AnswersOf(Q, task')
    <3>1. \A c \in DOMAIN task' : task'[c].out => task'[c].stage \notin Early
      BY <2>2, <2>3, <1>4 DEF AnswersOf, Early
    <3>2. \A n \in Q : AnswerFits(n, task')
      BY <2>2, <2>3, <1>4 DEF AnswersOf, AnswerFits, Early
    <3>3. QED
      BY <3>1, <3>2 DEF AnswersOf
  <2>5. QED
    BY <2>1, <2>4, <1>7
<1>10. CASE AwaitOver
  <2> DEFINE c == m.c
  <2>1. /\ m.ev = "done" /\ (Opened(c, m) \/ Closed(c) \/ Replied(c, m))
        /\ told' = told
    BY <1>10 DEF AwaitOver, m
  <2>2. /\ c \in DOMAIN task /\ m.answer \in Result /\ m.w \in Windows \cup {None}
        /\ task[c] \in Task /\ ~ task[c].out
        /\ m.w # None => task[c].stage = "creating" /\ m.answer = "ok"
    <3>1. c \in DOMAIN task /\ task[c] \in Task
      BY <2>1, <1>0, <1>4, LenProperties DEF AnswerFits, TypeOK
    <3>2. QED
      BY <3>1, <2>1, <1>4, MsgIs DEF AnswerFits, Reply
  <2>3. \A n \in Q : n.ev = "done" => n.c # c
    BY <2>1, <1>2 DEF Follows
  <2> HIDE DEF c
  <2>4. ASSUME NEW t \in Task, Goes(c, t), t.stage \notin Early
        PROVE  AnswersOf(Q, task')
    BY <2>2, <2>3, <2>4, <1>0, <1>2, AnswersGo
  <2>5. ASSUME NEW r \in Result, NEW w, Answer(c, r, w)
        PROVE  AnswersOf(Q, task')
    <3> DEFINE t == [task[c] EXCEPT !.stage = "done", !.result = r]
    <3>1. t \in Task /\ t.stage \notin Early
      BY <2>2 DEF Task, Stage, Early
    <3>2. Goes(c, t)
      BY <2>5 DEF Answer
    <3> HIDE DEF t
    <3>3. QED
      BY <3>1, <3>2, <2>4
  <2>6. CASE Opened(c, m)
    <3>1. CASE /\ rw' = m.w /\ rt' = m.w
               /\ forgotten' = forgotten \cup ({rw} \ {None})
               /\ Answer(c, "ok", m.w)
      <4>1. AnswersOf(Q, task')
        BY <3>1, <2>5 DEF Result
      <4>2. \A w \in Windows : \A h \in {rt, rw} :
              KnownBy(ReplyOf(queue), forgotten, h, w) => KnownBy(R, forgotten', m.w, w)
        BY <3>1, <1>0, <1>4 DEF KnownBy, IdsAgree
      <4>3. TrackedBy(R, forgotten', win', rt', rw')
        BY <4>2, <3>1, <1>1 DEF TrackedBy, Tell
      <4>4. \A g \in byUser : g # m
        BY <2>1, <1>6
      <4>5. UntoldOf(Q, R, byUser', told', forgotten', rt', rw')
        BY <4>2, <4>4, <3>1, <2>1, <1>1, <1>5, <1>6 DEF UntoldOf
      <4>6. QED
        BY <4>1, <4>3, <4>5, <1>2, <1>4 DEF Tell, Q, R
    <3>2. CASE m.answer # "ok" /\ Answer(c, "refused", None) /\ UNCHANGED <<ids, forgotten>>
      <4>1. AnswersOf(Q, task') /\ m.w = None
        BY <3>2, <2>2, <2>5 DEF Result
      <4>2. QED
        BY <4>1, <3>2, <2>1, <1>7
    <3>3. QED
      BY <3>1, <3>2, <2>6 DEF Opened
  <2>7. CASE Closed(c)
    <3>1. m.w = None
      BY <2>2, <2>7 DEF Closed
    <3>2. CASE Goes(c, [task[c] EXCEPT !.stage = "creating", !.out = TRUE])
      <4> DEFINE t == [task[c] EXCEPT !.stage = "creating", !.out = TRUE]
      <4>1. t \in Task /\ t.stage \notin Early
        BY <2>2 DEF Task, Stage, Early
      <4>2. Goes(c, t)
        BY <3>2
      <4> HIDE DEF t
      <4>3. AnswersOf(Q, task')
        BY <4>1, <4>2, <2>4
      <4>4. QED
        BY <4>3, <3>1, <2>1, <2>7, <1>7 DEF Closed
    <3>3. CASE Answer(c, "ok", None)
      <4>1. AnswersOf(Q, task')
        BY <3>3, <2>5 DEF Result
      <4>2. QED
        BY <4>1, <3>1, <2>1, <2>7, <1>7 DEF Closed
    <3>4. QED
      BY <3>2, <3>3, <2>7 DEF Closed
  <2>8. CASE Replied(c, m)
    <3>1. m.w = None
      BY <2>2, <2>8 DEF Replied, Timed
    <3>2. AnswersOf(Q, task')
      BY <2>2, <2>5, <2>8, <1>4 DEF Replied
    <3>3. QED
      BY <3>1, <3>2, <2>1, <2>8, <1>7 DEF Replied
  <2>9. QED
    BY <2>1, <2>6, <2>7, <2>8
<1>11. QED
  BY <1>8, <1>9, <1>10 DEF Queue

LEMMA TellInit == Init => Tell
<1> SUFFICES ASSUME Init PROVE Tell
  OBVIOUS
<1>1. DOMAIN queue = {} /\ DOMAIN task = {}
  BY EmptySeq DEF Init
<1>2. InQ(queue) = {} /\ byUser = {} /\ \A w \in Windows : win[w] = "unused"
  BY <1>1 DEF InQ, Init
<1>3. QED
  BY <1>1, <1>2 DEF Tell, AnswersOf, EventsOf, Ordered, TrackedBy, UntoldOf

LEMMA TellNext == Inv /\ Inv' /\ Tell /\ [Next]_vars => Tell'
<1> SUFFICES ASSUME Inv, Inv', Tell, [Next]_vars PROVE Tell'
  OBVIOUS
<1>1. CASE (\E op \in Ops : Send(op)) \/ GiveUp \/ LeaveWindow
  BY <1>1, TellCli
<1>2. ASSUME NEW c \in DOMAIN task, Worker(c) \/ Timeout(c) \/ Requests(c) \/ Replying(c)
      PROVE  Tell'
  BY <1>2, TellWorker, TellRemove, TellCreate, TellPage DEF Requests
<1>3. CASE Queue
  BY <1>3, TellQueue
<1>4. CASE \/ \E t \in Tabs : Load(t)
           \/ \E w \in Windows : UserClosesTab(w) \/ UserClosesRest(w)
           \/ Evict
  BY <1>4, TellBrowser
<1>5. CASE UNCHANGED vars
  BY <1>5, TellStays DEF vars, browser, ids, history, Tell
<1>6. QED
  BY <1>1, <1>2, <1>3, <1>4, <1>5 DEF Next

(* ---------------------- what a run leaves behind ----------------------- *)

(* HoldInv, its parts that the queue and the browser do not disturb, and   *)
(* Located of what is on its way.                                          *)
HoldPart == StageFits /\ OneAtATime /\ Held /\ Aimed /\ Acted
HasPlace == serial /\ evictions = 0 =>
              \A w \in Windows : win[w] \in {"open", "tabless"} =>
                w = rw \/ w \in ReplyOf(queue) \/ w \in DoomOf(task)
Hold == HoldPart /\ HasPlace

LEMMA HoldIsHoldInv == Hold <=> HoldInv
<1>1. \A w : Doomed(w) <=> w \in DoomOf(task)
  BY DEF Doomed, DoomOf, Removing
<1>2. HasPlace <=> Located
  BY <1>1, RepliedOf DEF HasPlace, Located, Stands
<1>3. QED
  BY <1>2 DEF Hold, HoldPart, HoldInv

LEMMA StagesAre ==
  /\ StagesOf("open") = {"sent", "done", "removing", "creating"}
  /\ StagesOf("close") = {"sent", "done", "removing"}
  /\ \A op : op \notin {"open", "close"} =>
       StagesOf(op) = {"sent", "done", "asking", "updating", "listening", "acting"}
BY DEF StagesOf, Timed

LEMMA TasksAre == ASSUME TypeOK, NEW c \in DOMAIN task PROVE task[c] \in Task /\ c \in Nat
BY LenProperties DEF TypeOK

(* A command that goes on, without an answer to the CLI.                   *)
LEMMA HoldGoes ==
  ASSUME Inv, HoldPart, NEW c \in DOMAIN task, NEW t \in Task, Goes(c, t),
         t.op = task[c].op, t.arg = task[c].arg, t.stage \in StagesOf(t.op),
         task[c].stage = "done" => t.stage = "done",
         UNCHANGED <<serial, cli, byUser, evictions>>,
         \/ rw' = rw /\ rt' = rt
         \/ rw' = None /\ t.op \in {"open", "close"} /\ task[c].stage # "done",
         t.stage \in {"removing", "creating"} =>
           rw' = None \/ task[c].stage \in {"removing", "creating"},
         Undisturbed /\ t.op \notin {"open", "close"} =>
           t.stage # "asking" /\ t.tab \in {None, t.arg},
         \A a \in acts' \ acts : a[1] = c /\ (Undisturbed => a[2] = task[c].arg)
  PROVE  HoldPart'
<1>1. DOMAIN task' = DOMAIN task
      /\ \A d \in DOMAIN task : task'[d] = IF d = c THEN t ELSE task[d]
  BY DEF Goes
<1>2. \A d \in DOMAIN task : task'[d].op = task[d].op /\ task'[d].arg = task[d].arg
  BY <1>1
<1>3. StageFits'
  BY <1>1 DEF StageFits, HoldPart
<1>4. OneAtATime'
  <2>1. SUFFICES ASSUME serial, NEW d \in DOMAIN task, task'[d].stage # "done"
                 PROVE  /\ cli.waits = d /\ task'[d].arg = cli.win
                        /\ (task'[d].op = "open") = (cli.win = None)
                        /\ task'[d].stage \in {"removing", "creating"} => rw' = None
    BY <1>1 DEF OneAtATime, HoldPart
  <2>2. task[d].stage # "done"
    BY <2>1, <1>1
  <2>3. /\ cli.waits = d /\ task[d].arg = cli.win
        /\ (task[d].op = "open") = (cli.win = None)
        /\ task[d].stage \in {"removing", "creating"} => rw = None
    BY <2>1, <2>2 DEF HoldPart, OneAtATime
  <2>4. QED
    BY <2>3, <1>1, <1>2
<1>5. Undisturbed' <=> Undisturbed
  BY DEF Undisturbed
<1>6. Held'
  <2>1. SUFFICES ASSUME Undisturbed, cli.win # None
                 PROVE  rt' = cli.win \/ (cli.waits # None /\ task'[cli.waits].op = "close")
    BY <1>5 DEF Held
  <2>2. rt = cli.win \/ (cli.waits # None /\ task[cli.waits].op = "close")
    BY <2>1 DEF HoldPart, Held
  <2>3. CASE rt' # rt
    <3>1. task[c].stage # "done" /\ t.op \in {"open", "close"}
      BY <2>3
    <3>2. cli.waits = c /\ t.op = "close" /\ c # None
      BY <3>1, <2>1, TasksAre DEF HoldPart, OneAtATime, Undisturbed, Inv, Tabs
    <3>3. QED
      BY <3>2, <1>2
  <2>4. CASE rt' = rt /\ cli.waits # None /\ task[cli.waits].op = "close"
    <3>1. task'[cli.waits].op = task[cli.waits].op
      BY <2>4, <1>2 DEF HoldPart, OneAtATime
    <3>2. QED
      BY <3>1, <2>4
  <2>5. QED
    BY <2>2, <2>3, <2>4
<1>7. Aimed'
  BY <1>1, <1>2, <1>5 DEF Aimed, HoldPart
<1>8. Acted'
  <2>1. ASSUME NEW a \in acts'
        PROVE  a[1] \in DOMAIN task' /\ (Undisturbed => a[2] = task'[a[1]].arg)
    <3>1. CASE a \in acts
      BY <3>1, <1>1, <1>2 DEF HoldPart, Acted, ActsInWindow, Undisturbed
    <3>2. CASE a \notin acts
      BY <2>1, <3>2, <1>1, <1>2
    <3>3. QED
      BY <3>1, <3>2
  <2>2. QED
    BY <2>1, <1>5 DEF Acted, ActsInWindow, Undisturbed
<1>9. QED
  BY <1>3, <1>4, <1>6, <1>7, <1>8 DEF HoldPart

(* The CLI is answered: of the commands that it waits for, none is left.   *)
LEMMA HoldAnswer ==
  ASSUME Inv, HoldPart, NEW c \in DOMAIN task, NEW r \in Result, NEW w, Answer(c, r, w),
         task[c].stage # "done",
         UNCHANGED <<serial, byUser, evictions, acts>>,
         \/ rw' = rw /\ rt' = rt /\ w = None
         \/ task[c].op = "open" /\ r = "ok" /\ rt' = w
  PROVE  HoldPart'
<1> DEFINE t == [task[c] EXCEPT !.stage = "done", !.result = r]
<1>0. task[c] \in Task /\ c \in Nat /\ TypeOK /\ c # None
  BY TasksAre DEF Inv, Tabs
<1>1. t \in Task /\ t.op = task[c].op /\ t.arg = task[c].arg /\ t.stage = "done"
      /\ t.tab = task[c].tab
  BY <1>0 DEF Task, Stage
<1>2. Goes(c, t)
  BY DEF Answer
<1> HIDE DEF t
<1>3. DOMAIN task' = DOMAIN task
      /\ \A d \in DOMAIN task : task'[d] = IF d = c THEN t ELSE task[d]
  BY <1>2 DEF Goes
<1>4. \A d \in DOMAIN task : /\ task'[d].op = task[d].op /\ task'[d].arg = task[d].arg
                             /\ task'[d].tab = task[d].tab
                             /\ task'[d].stage \in {task[d].stage, "done"}
  BY <1>1, <1>3
<1>5. StageFits'
  BY <1>3, <1>4, StagesAre DEF StageFits, HoldPart, StagesOf
<1>6. serial => cli.waits = c /\ task[c].arg = cli.win /\ (task[c].op = "open") = (cli.win = None)
  BY DEF HoldPart, OneAtATime
<1>7. serial => \A d \in DOMAIN task : task'[d].stage = "done"
  <2>1. SUFFICES ASSUME serial, NEW d \in DOMAIN task, d # c PROVE task[d].stage = "done"
    BY <1>1, <1>3
  <2>2. task[d].stage # "done" => cli.waits = d
    BY <2>1 DEF HoldPart, OneAtATime
  <2>3. QED
    BY <2>1, <2>2, <1>6
<1>8. cli' = IF cli.waits # c THEN cli
             ELSE [win |-> IF task[c].op = "open" /\ r = "ok" THEN w
                           ELSE IF task[c].op = "close" THEN None ELSE cli.win,
                   waits |-> None]
  BY DEF Answer
<1>9. OneAtATime'
  <2>1. cli'.waits \in {cli.waits, None}
    BY <1>8
  <2>2. QED
    BY <2>1, <1>3, <1>7 DEF OneAtATime, HoldPart
<1>10. Undisturbed' <=> Undisturbed
  BY DEF Undisturbed
<1>11. Held'
  <2>1. SUFFICES ASSUME Undisturbed, cli'.win # None PROVE rt' = cli'.win
    BY <1>10 DEF Held
  <2>2. cli.waits = c
    BY <2>1, <1>6 DEF Undisturbed
  <2>3. CASE task[c].op = "open" /\ r = "ok"
    <3>1. cli'.win = w
      BY <2>2, <2>3, <1>8
    <3>2. rt' = w
      BY <2>1, <2>3, <3>1
    <3>3. QED
      BY <3>1, <3>2
  <2>4. CASE ~ (task[c].op = "open" /\ r = "ok")
    <3>1. cli'.win = cli.win /\ task[c].op # "close"
      BY <2>1, <2>2, <2>4, <1>8
    <3>2. rt = cli.win
      BY <3>1, <2>1, <2>2 DEF HoldPart, Held
    <3>3. QED
      BY <3>1, <3>2, <2>4
  <2>5. QED
    BY <2>3, <2>4
<1>12. Aimed'
  BY <1>3, <1>4, <1>10 DEF Aimed, HoldPart
<1>13. Acted'
  BY <1>3, <1>4, <1>10 DEF HoldPart, Acted, ActsInWindow, Undisturbed
<1>14. QED
  BY <1>5, <1>9, <1>11, <1>12, <1>13 DEF HoldPart

LEMMA DoomGoes ==
  ASSUME NEW c \in DOMAIN task, NEW t, Goes(c, t)
  PROVE  /\ DoomOf(task) \subseteq
              DoomOf(task') \cup (IF Removing(task[c]) THEN {task[c].tab} ELSE {})
         /\ Removing(t) => t.tab \in DoomOf(task')
<1>1. DOMAIN task' = DOMAIN task
      /\ \A d \in DOMAIN task : task'[d] = IF d = c THEN t ELSE task[d]
  BY DEF Goes
<1>2. QED
  BY <1>1 DEF DoomOf

LEMMA PlaceStays ==
  ASSUME HasPlace, UNCHANGED <<serial, evictions>>,
         \A w \in Windows : win'[w] \in {"open", "tabless"} =>
           /\ win[w] \in {"open", "tabless"}
           /\ w = rw \/ w \in ReplyOf(queue) \/ w \in DoomOf(task) =>
                w = rw' \/ w \in ReplyOf(queue') \/ w \in DoomOf(task')
  PROVE  HasPlace'
BY DEF HasPlace

LEMMA HoldCli ==
  ASSUME Inv, Hold, (\E op \in Ops : Send(op)) \/ GiveUp \/ LeaveWindow
  PROVE  Hold'
<1> USE DEF browser, ids, history
<1>0. TypeOK /\ None \notin Nat /\ None \notin Windows
  BY DEF Inv, Tabs
<1>1. ASSUME NEW op \in Ops, Send(op) PROVE Hold'
  <2> DEFINE t == [op |-> op, arg |-> cli.win, stage |-> "sent", tab |-> None,
                   result |-> None, out |-> FALSE]
             n == Len(task) + 1
  <2>1. /\ task' = Append(task, t) /\ task \in Seq(Task)
        /\ Len(task) \in Nat /\ DOMAIN task = 1 .. Len(task) /\ n \in Nat
        /\ t \in Task /\ t.stage = "sent" /\ t.op = op /\ t.arg = cli.win /\ t.tab = None
    BY <1>1, LenProperties DEF Send, Inv, TypeOK, Task, Stage
  <2>2. /\ cli.waits = None /\ cli' = [cli EXCEPT !.waits = n]
        /\ (op = "open") = (cli.win = None)
        /\ UNCHANGED <<serial, browser, ids, queue, history, evictions>>
    BY <1>1 DEF Send
  <2>3. cli'.waits = n /\ cli'.win = cli.win
    BY <2>2, <1>0 DEF TypeOK
  <2> HIDE DEF t
  <2>4. /\ DOMAIN task' = 1 .. n /\ task'[n] = t
        /\ \A c \in 1 .. Len(task) : task'[c] = task[c]
    BY <2>1, AppendProperties, LenProperties
  <2>5. /\ \A c \in DOMAIN task' : c \in DOMAIN task \/ c = n
        /\ \A c \in DOMAIN task : c \in DOMAIN task' /\ task'[c] = task[c]
        /\ n \in DOMAIN task' /\ n # None
    BY <2>1, <2>4, <1>0
  <2> HIDE DEF n
  <2>6. serial => \A c \in DOMAIN task : task[c].stage = "done"
    BY <2>1, <2>2, <1>0 DEF Hold, HoldPart, OneAtATime
  <2>7. StageFits'
    BY <2>1, <2>4, <2>5, StagesAre DEF StageFits, Hold, HoldPart, StagesOf
  <2>8. OneAtATime'
    <3>1. SUFFICES ASSUME serial, NEW d \in DOMAIN task', task'[d].stage # "done"
                   PROVE  /\ cli'.waits = d /\ task'[d].arg = cli'.win
                          /\ (task'[d].op = "open") = (cli'.win = None)
                          /\ task'[d].stage \in {"removing", "creating"} => rw' = None
      BY <2>2, <2>3, <2>5 DEF OneAtATime
    <3>2. d = n
      BY <3>1, <2>5, <2>6
    <3>3. QED
      BY <3>2, <2>1, <2>2, <2>3, <2>4
  <2>9. Held'
    BY <2>2, <2>3, <2>5 DEF Held, Hold, HoldPart, Undisturbed
  <2>10. Aimed'
    BY <2>1, <2>2, <2>4, <2>5 DEF Aimed, Hold, HoldPart, Undisturbed
  <2>11. Acted'
    BY <2>2, <2>5 DEF Acted, ActsInWindow, Hold, HoldPart
  <2>12. DoomOf(task) \subseteq DoomOf(task')
    BY <2>5 DEF DoomOf
  <2>13. HasPlace'
    BY <2>2, <2>12, PlaceStays DEF Hold
  <2>14. QED
    BY <2>7, <2>8, <2>9, <2>10, <2>11, <2>13 DEF Hold, HoldPart
<1>2. CASE GiveUp
  <2>1. ~ serial /\ cli'.waits = None /\ UNCHANGED <<serial, browser, ids, queue, task, history, evictions>>
    BY <1>2 DEF GiveUp
  <2>2. QED
    BY <2>1 DEF Hold, HoldPart, HasPlace, StageFits, OneAtATime, Held, Aimed, Acted,
                ActsInWindow, Undisturbed
<1>3. CASE LeaveWindow
  <2>1. /\ cli.waits = None /\ cli'.waits = None /\ cli'.win = None
        /\ UNCHANGED <<serial, browser, ids, queue, task, history, evictions>>
    BY <1>3, <1>0 DEF LeaveWindow, TypeOK
  <2>2. serial => \A c \in DOMAIN task : task[c].stage = "done"
    BY <2>1, <1>0, TasksAre DEF Hold, HoldPart, OneAtATime
  <2>3. StageFits' /\ Aimed' /\ Acted' /\ HasPlace'
    BY <2>1 DEF Hold, HoldPart, HasPlace, StageFits, Aimed, Acted, ActsInWindow, Undisturbed
  <2>4. OneAtATime' /\ Held'
    BY <2>1, <2>2 DEF OneAtATime, Held
  <2>5. QED
    BY <2>3, <2>4 DEF Hold, HoldPart
<1>4. QED
  BY <1>1, <1>2, <1>3

LEMMA HoldWorker ==
  ASSUME Inv, Tell, Hold, NEW c \in DOMAIN task, Worker(c) \/ Timeout(c)
  PROVE  Hold'
<1> USE DEF browser, ids, history
<1>0. /\ TypeOK /\ task[c] \in Task /\ HoldPart /\ HasPlace /\ None \notin Windows /\ None \notin Tabs
      /\ rw \in Windows \cup {None} /\ rt \in Windows \cup {None}
      /\ task[c].stage \in StagesOf(task[c].op)
  BY TasksAre DEF Inv, TypeOK, Hold, HoldPart, StageFits, Tabs
<1>1. ASSUME NEW t \in Task, Goes(c, t), ~ Removing(task[c]),
             UNCHANGED <<serial, browser, queue, evictions>>,
             rw' = rw \/ (Removing(t) /\ t.tab = rw)
      PROVE  HasPlace'
  <2>1. DoomOf(task) \subseteq DoomOf(task') /\ (Removing(t) => t.tab \in DoomOf(task'))
    BY <1>1, DoomGoes
  <2>2. QED
    BY <2>1, <1>0, <1>1, PlaceStays
<1>2. ASSUME DropIds(c), rw # None, task[c].stage = "sent", task[c].op \in {"open", "close"},
             UNCHANGED <<serial, browser, queue, cli, told, byUser, acts, evictions>>
      PROVE  Hold'
  <2> DEFINE t == [task[c] EXCEPT !.stage = "removing", !.tab = rw, !.out = TRUE]
  <2>1. /\ t \in Task /\ t.op = task[c].op /\ t.arg = task[c].arg /\ t.stage = "removing"
        /\ t.tab = rw /\ Removing(t)
    BY <1>0, <1>2 DEF Task, Stage, Tabs, Removing
  <2>2. Goes(c, t) /\ rw' = None /\ rt' = None
    BY <1>2 DEF DropIds
  <2> HIDE DEF t
  <2>3. ~ Removing(task[c]) /\ t.stage \in StagesOf(t.op)
    BY <1>2, <2>1, StagesAre DEF Removing
  <2>4. HasPlace'
    BY <2>1, <2>2, <2>3, <1>1, <1>2
  <2>5. HoldPart'
    BY <2>1, <2>2, <2>3, <1>0, <1>2, HoldGoes
  <2>6. QED
    BY <2>4, <2>5 DEF Hold
<1>3. ASSUME NEW r \in Result, Answer(c, r, None), task[c].stage # "done",
             ~ Removing(task[c]),
             UNCHANGED <<serial, browser, ids, queue, told, byUser, acts, evictions>>
      PROVE  Hold'
  <2> DEFINE t == [task[c] EXCEPT !.stage = "done", !.result = r]
  <2>1. t \in Task
    BY <1>0 DEF Task, Stage
  <2>2. Goes(c, t)
    BY <1>3 DEF Answer
  <2> HIDE DEF t
  <2>3. HasPlace'
    BY <2>1, <2>2, <1>1, <1>3
  <2>4. HoldPart'
    BY <1>0, <1>3, HoldAnswer
  <2>5. QED
    BY <2>3, <2>4 DEF Hold
<1>4. ASSUME NEW t \in Task, Goes(c, t), t.op = task[c].op, t.arg = task[c].arg,
             t.stage \in StagesOf(t.op), task[c].stage \in {"sent", "asking"},
             t.stage # "removing", t.stage = "creating" => rw = None,
             Undisturbed /\ t.op \notin {"open", "close"} =>
               t.stage # "asking" /\ t.tab \in {None, t.arg},
             UNCHANGED <<serial, browser, ids, queue, cli, told, byUser, acts, evictions>>
      PROVE  Hold'
  <2>1. ~ Removing(task[c])
    BY <1>4 DEF Removing
  <2>2. HasPlace'
    BY <2>1, <1>1, <1>4
  <2>3. HoldPart'
    BY <1>0, <1>4, HoldGoes
  <2>4. QED
    BY <2>2, <2>3 DEF Hold
<1>5. CASE ReceiveOpen(c)
  <2>1. /\ task[c].stage = "sent" /\ task[c].op = "open"
        /\ UNCHANGED <<serial, browser, queue, cli, told, byUser, acts, evictions>>
    BY <1>5 DEF ReceiveOpen, Received
  <2>2. CASE /\ Goes(c, [task[c] EXCEPT !.stage = "creating", !.out = TRUE])
             /\ rw = None /\ UNCHANGED ids
    <3> DEFINE t == [task[c] EXCEPT !.stage = "creating", !.out = TRUE]
    <3>1. t \in Task /\ t.op = task[c].op /\ t.arg = task[c].arg /\ t.stage = "creating"
      BY <1>0 DEF Task, Stage
    <3>2. Goes(c, t)
      BY <2>2
    <3> HIDE DEF t
    <3>3. QED
      BY <3>1, <3>2, <2>1, <2>2, <1>4, StagesAre
  <2>3. QED
    BY <2>1, <2>2, <1>2, <1>5 DEF ReceiveOpen
<1>6. CASE ReceiveClose(c)
  <2>1. /\ task[c].stage = "sent" /\ task[c].op = "close" /\ ~ Removing(task[c])
        /\ UNCHANGED <<serial, browser, queue, told, byUser, acts, evictions>>
    BY <1>6 DEF ReceiveClose, Received, Removing
  <2>2. QED
    BY <2>1, <1>2, <1>3, <1>6 DEF ReceiveClose, Result
\* Undisturbed, the tab of the CLI's own window is there: no other is asked for.
<1>7. Undisturbed /\ task[c].op \notin {"open", "close"} /\ task[c].stage = "sent" =>
        rt = task[c].arg /\ rt # None
  BY <1>0 DEF HoldPart, OneAtATime, Held, Undisturbed
<1>8. ASSUME NEW t \in Tabs, Handle(c, t), task[c].stage \in {"sent", "asking"},
             task[c].op \notin {"open", "close"}, Undisturbed => t = task[c].arg,
             UNCHANGED <<serial, browser, ids, queue, cli, history, evictions>>
      PROVE  Hold'
  <2> DEFINE s == CASE task[c].op = "navigate" -> "updating"
                    [] task[c].op = "wait"     -> "listening"
                    [] OTHER                   -> "acting"
             n == [task[c] EXCEPT !.tab = t, !.stage = s, !.out = task[c].op # "wait"]
  <2>1. s \in Stage /\ s \in {"updating", "listening", "acting"}
    BY DEF Stage
  <2>2. n \in Task /\ n.op = task[c].op /\ n.arg = task[c].arg /\ n.stage = s /\ n.tab = t
    <3> HIDE DEF s
    <3>1. QED
      BY <1>0, <2>1 DEF Task
  <2>3. Goes(c, n)
    BY <1>8 DEF Handle
  <2> HIDE DEF n, s
  <2>4. n.stage \in StagesOf(n.op) /\ n.stage \notin {"removing", "creating", "asking"}
    BY <2>1, <2>2, <1>8, StagesAre
  <2>5. QED
    BY <2>2, <2>3, <2>4, <1>4, <1>8
<1>9. CASE WithActiveTab(c)
  <2> DEFINE n == [task[c] EXCEPT !.stage = "asking"]
  <2>1. n \in Task /\ n.op = task[c].op /\ n.arg = task[c].arg /\ n.stage = "asking"
    BY <1>0 DEF Task, Stage
  <2>2. /\ task[c].stage = "sent" /\ task[c].op \notin {"open", "close"}
        /\ UNCHANGED <<serial, browser, ids, queue, cli, history, evictions>>
    BY <1>9 DEF WithActiveTab, Received
  <2>3. (rt = None /\ Goes(c, n)) \/ (rt # None /\ Handle(c, rt))
    BY <1>9 DEF WithActiveTab
  <2> HIDE DEF n
  <2>4. rt # None => rt \in Tabs
    BY <1>0 DEF Tabs
  <2>5. CASE rt # None /\ Handle(c, rt)
    BY <2>2, <2>4, <2>5, <1>7, <1>8
  <2>6. CASE rt = None /\ Goes(c, n)
    <3>1. n.stage \in StagesOf(n.op)
      BY <2>1, <2>2, StagesAre
    <3>2. ~ Undisturbed
      BY <2>2, <2>6, <1>7
    <3>3. QED
      BY <3>1, <3>2, <2>1, <2>2, <2>6, <1>4
  <2>7. QED
    BY <2>3, <2>5, <2>6
<1>10. CASE ActiveTab(c)
  <2>1. /\ task[c].stage = "asking" /\ ~ Removing(task[c])
        /\ UNCHANGED <<serial, browser, ids, queue, history, evictions>>
    BY <1>10 DEF ActiveTab, Removing
  <2>2. task[c].op \notin {"open", "close"}
    BY <2>1, <1>0, StagesAre
  <2>3. ~ Undisturbed
    BY <2>1, <2>2, <1>0 DEF HoldPart, Aimed
  <2>4. QED
    BY <2>1, <2>2, <2>3, <1>3, <1>8, <1>10 DEF ActiveTab, Result
<1>11. CASE Timeout(c)
  <2>1. ~ Removing(task[c]) /\ task[c].stage # "done"
    BY <1>11 DEF Timeout, Timed, Removing
  <2>2. QED
    BY <2>1, <1>3, <1>11 DEF Timeout, Result
<1>12. QED
  BY <1>5, <1>6, <1>9, <1>10, <1>11 DEF Worker

(* A served request of a command: its tab and its stage stay.              *)
LEMMA HoldServed ==
  ASSUME Inv, Hold, NEW c \in DOMAIN task, NEW s \in Stage,
         Goes(c, [task[c] EXCEPT !.out = FALSE, !.stage = s]),
         s = task[c].stage \/ (task[c].stage = "updating" /\ s = "listening"),
         UNCHANGED <<serial, cli, ids, byUser, evictions>>,
         \A a \in acts' \ acts : a[1] = c /\ (Undisturbed => a[2] = task[c].arg)
  PROVE  HoldPart'
<1> DEFINE t == [task[c] EXCEPT !.out = FALSE, !.stage = s]
<1>1. TypeOK /\ HoldPart /\ task[c] \in Task
  BY TasksAre DEF Inv, Hold
<1>2. /\ t \in Task /\ t.op = task[c].op /\ t.arg = task[c].arg /\ t.stage = s
      /\ t.tab = task[c].tab
  BY <1>1 DEF Task
<1> HIDE DEF t
<1>3. t.stage \in StagesOf(t.op)
  <2>1. task[c].stage \in StagesOf(task[c].op)
    BY <1>1 DEF HoldPart, StageFits
  <2>2. QED
    BY <2>1, <1>2, StagesAre
<1>4. Undisturbed /\ t.op \notin {"open", "close"} =>
        t.stage # "asking" /\ t.tab \in {None, t.arg}
  BY <1>1, <1>2 DEF HoldPart, Aimed
<1>5. Goes(c, t) /\ rw' = rw /\ rt' = rt
  BY DEF t, ids
<1>6. QED
  BY <1>1, <1>2, <1>3, <1>4, <1>5, HoldGoes

LEMMA HoldServedPlain ==
  ASSUME Inv, Hold, NEW c \in DOMAIN task, Served(c),
         UNCHANGED <<serial, cli, ids, byUser, evictions>>,
         \A a \in acts' \ acts : a[1] = c /\ (Undisturbed => a[2] = task[c].arg)
  PROVE  HoldPart'
<1>1. task[c] \in Task
  BY TasksAre DEF Inv
<1>2. task[c].stage \in Stage
        /\ [task[c] EXCEPT !.out = FALSE]
             = [task[c] EXCEPT !.out = FALSE, !.stage = task[c].stage]
  BY <1>1 DEF Task
<1>3. QED
  BY <1>2, HoldServed DEF Served

(* What is added to a queue takes no answer from it.                       *)
LEMMA GrowsO ==
  ASSUME NEW q \in Seq(Msg), NEW e \in Seq(Msg)
  PROVE  q \o e \in Seq(Msg) /\ ReplyOf(q) \subseteq ReplyOf(q \o e)
<1>1. /\ q \o e \in Seq(Msg) /\ DOMAIN (q \o e) = 1 .. Len(q) + Len(e)
      /\ \A i \in 1 .. Len(q) + Len(e) :
           (q \o e)[i] = IF i <= Len(q) THEN q[i] ELSE e[i - Len(q)]
  BY ConcatProperties, LenProperties
<1>2. DOMAIN q = 1 .. Len(q) /\ Len(q) \in Nat /\ Len(e) \in Nat
  BY LenProperties
<1>3. \A i \in DOMAIN q : i \in DOMAIN (q \o e) /\ (q \o e)[i] = q[i]
  BY <1>1, <1>2
<1>4. QED
  BY <1>1, <1>3 DEF ReplyOf, DueOf

(* What the browser does to the windows keeps a place for each.            *)
LEMMA HoldRemove ==
  ASSUME Inv, Inv', Hold, NEW c \in DOMAIN task, RemoveWindow(c)
  PROVE  Hold'
<1> USE DEF ids, history
<1> DEFINE t == [task[c] EXCEPT !.out = FALSE]
<1>0. /\ Served(c) /\ UNCHANGED <<serial, ids, cli, history, evictions>>
      /\ win' = IF Stands(task[c].tab) THEN [win EXCEPT ![task[c].tab] = "removed"] ELSE win
  BY DEF RemoveWindow
<1>1. HoldPart'
  BY <1>0, HoldServedPlain
<1>2. DoomOf(task) \subseteq DoomOf(task') \cup {task[c].tab}
  BY <1>0, DoomGoes DEF Served
<1>3. ReplyOf(queue) \subseteq ReplyOf(queue')
  <2> DEFINE a == TabGone(task[c].tab)
             b == WindowGone(task[c].tab)
             m == Done(c, "ok", None)
             gone == CASE win[task[c].tab] = "open"    -> <<a, b>>
                       [] win[task[c].tab] = "tabless" -> <<b>>
                       [] OTHER                        -> <<>>
  <2>1. queue \in Seq(Msg) /\ task[c].tab \in Windows /\ a \in Msg /\ b \in Msg
    BY DEF Inv, TypeOK, Msg, RemoveWindow, TabGone, WindowGone, Gone
  <2>2. m \in Msg
    BY TasksAre DEF Inv, Msg, Done, Reply, Result
  <2>3. \/ queue' = queue \o gone \o <<m>>
        \/ queue' = Append(queue, m) \o gone
    BY DEF RemoveWindow, Replies
  <2>4. gone \in Seq(Msg)
    <3> HIDE DEF a, b
    <3>1. <<a, b>> \in Seq(Msg) /\ <<b>> \in Seq(Msg) /\ <<>> \in Seq(Msg)
      BY <2>1, EmptySeq
    <3>2. QED
      BY <3>1
  <2> HIDE DEF gone, m
  <2>5. <<m>> \in Seq(Msg) /\ Append(queue, m) = queue \o <<m>>
    BY <2>1, <2>2, AppendIsConcat
  <2>6. /\ ReplyOf(queue) \subseteq ReplyOf(queue \o gone) /\ queue \o gone \in Seq(Msg)
        /\ ReplyOf(queue) \subseteq ReplyOf(queue \o <<m>>) /\ queue \o <<m>> \in Seq(Msg)
    BY <2>1, <2>4, <2>5, GrowsO
  <2>7. /\ ReplyOf(queue \o gone) \subseteq ReplyOf(queue \o gone \o <<m>>)
        /\ ReplyOf(queue \o <<m>>) \subseteq ReplyOf(queue \o <<m>> \o gone)
    BY <2>4, <2>5, <2>6, GrowsO
  <2>8. QED
    BY <2>3, <2>5, <2>6, <2>7
<1>4. \A v \in Windows : win'[v] \in {"open", "tabless"} =>
        win[v] \in {"open", "tabless"} /\ v # task[c].tab
  BY <1>0 DEF Stands, Inv, TypeOK
<1>5. HasPlace'
  BY <1>0, <1>2, <1>3, <1>4, PlaceStays DEF Hold
<1>6. QED
  BY <1>1, <1>5 DEF Hold

LEMMA HoldCreate ==
  ASSUME Inv, Inv', Hold, NEW c \in DOMAIN task, CreateWindow(c)
  PROVE  Hold'
<1> USE DEF ids, history
<1>0. /\ Served(c) /\ UNCHANGED <<serial, ids, cli, history, evictions>>
      /\ task[c].stage = "creating"
  BY DEF CreateWindow
<1>1. HoldPart'
  BY <1>0, HoldServedPlain
<1>2. DoomOf(task) \subseteq DoomOf(task')
  BY <1>0, DoomGoes DEF Served, Removing
<1>3. queue \in Seq(Msg) /\ Inv
  BY DEF Inv, TypeOK, Msg
<1>4. CASE queue' = Replies(c, "refused") /\ UNCHANGED win
  <2>1. ReplyOf(queue') = ReplyOf(queue)
    BY <1>4, RepliesOK DEF Result
  <2>2. HasPlace'
    BY <2>1, <1>0, <1>2, <1>4, PlaceStays DEF Hold
  <2>3. QED
    BY <2>2, <1>1 DEF Hold
<1>5. ASSUME NEW w \in Windows, win[w] = "unused", win' = [win EXCEPT ![w] = "open"],
             queue' = Append(queue, Done(c, "ok", w))
      PROVE  Hold'
  <2> DEFINE m == Done(c, "ok", w)
  <2>1. m \in Msg /\ m.w = w /\ m.ev = "done" /\ w # None
    BY TasksAre DEF Inv, Done, Msg, Reply, Result, Tabs
  <2>2. w \notin ReplyOf(queue) /\ Once(queue) /\ OwnOf(queue, byUser, win) /\ Own(m, byUser, win)
    BY <2>1, <1>5 DEF Inv, Places, Own
  <2>3. queue' = Append(queue, m)
    BY <1>5
  <2> HIDE DEF m
  <2>4. ReplyOf(queue') = ReplyOf(queue) \cup {w}
    BY <2>1, <2>2, <2>3, <1>3, AppendQ
  <2>5. \A v \in Windows : win'[v] = IF v = w THEN "open" ELSE win[v]
    BY <1>5 DEF Inv, TypeOK
  <2>6. HasPlace'
    BY <2>4, <2>5, <1>0, <1>2 DEF HasPlace, Hold
  <2>7. QED
    BY <2>6, <1>1 DEF Hold
<1>6. QED
  BY <1>4, <1>5 DEF CreateWindow

LEMMA HoldPage ==
  ASSUME Inv, Hold, NEW c \in DOMAIN task, UpdateTab(c) \/ Replying(c)
  PROVE  Hold'
<1> USE DEF ids, history, browser
<1>0. TypeOK /\ task[c] \in Task /\ task[c].stage \in StagesOf(task[c].op) /\ None \notin Tabs
  BY TasksAre DEF Inv, Hold, HoldPart, StageFits
<1>1. task[c].op \notin {"open", "close"} /\ task[c].stage # "removing"
  <2>1. task[c].op \notin {"open", "close"}
    BY DEF UpdateTab, Replying, NoReceiver, Perform, Appear, PageOp
  <2>2. QED
    BY <2>1, <1>0, StagesAre
\* A step that only takes the request away and may answer it.
<1>2. ASSUME NEW t, Goes(c, t), HoldPart', queue' = queue \/ \E r \in Result : queue' = Replies(c, r),
             UNCHANGED <<serial, win, ids, evictions>>
      PROVE  Hold'
  <2>1. DoomOf(task) \subseteq DoomOf(task')
    BY <1>1, <1>2, DoomGoes DEF Removing
  <2>2. ReplyOf(queue') = ReplyOf(queue)
    BY <1>2, RepliesOK
  <2>3. HasPlace'
    BY <2>1, <2>2, <1>2, PlaceStays DEF Hold
  <2>4. QED
    BY <2>3, <1>2 DEF Hold
<1>3. ASSUME Served(c), \E r \in Result : queue' = Replies(c, r),
             UNCHANGED <<serial, win, ids, cli, byUser, evictions>>,
             \A a \in acts' \ acts : a[1] = c /\ (Undisturbed => a[2] = task[c].arg)
      PROVE  Hold'
  <2>1. HoldPart'
    BY <1>3, HoldServedPlain
  <2>2. QED
    BY <2>1, <1>2, <1>3 DEF Served
<1>4. CASE UpdateTab(c)
  <2>1. CASE /\ Goes(c, [task[c] EXCEPT !.out = FALSE,
                              !.stage = IF @ = "updating" THEN "listening" ELSE @])
             /\ UNCHANGED queue
    <3> DEFINE s == IF task[c].stage = "updating" THEN "listening" ELSE task[c].stage
    <3>1. s \in Stage /\ (s = task[c].stage \/ (task[c].stage = "updating" /\ s = "listening"))
      BY <1>0 DEF Task, Stage
    <3>2. Goes(c, [task[c] EXCEPT !.out = FALSE, !.stage = s])
      BY <2>1, <1>0 DEF Task
    <3> HIDE DEF s
    <3>3. UNCHANGED <<serial, win, ids, cli, byUser, acts, evictions>>
      BY <1>4 DEF UpdateTab
    <3>4. HoldPart'
      BY <3>1, <3>2, <3>3, HoldServed
    <3>5. QED
      BY <3>2, <3>3, <3>4, <2>1, <1>2
  <2>2. CASE queue' = Replies(c, "refused") /\ Served(c)
    BY <2>2, <1>3, <1>4 DEF UpdateTab, Result
  <2>3. QED
    BY <1>4, <2>1, <2>2 DEF UpdateTab
<1>5. CASE NoReceiver(c)
  <2>1. \E r \in Result : queue' = Replies(c, r)
    BY <1>5 DEF NoReceiver, Result
  <2>2. QED
    BY <2>1, <1>3, <1>5 DEF NoReceiver
<1>6. CASE Perform(c)
  <2>1. \E r \in Result : queue' = Replies(c, r)
    BY <1>6 DEF Perform, Result
  <2>2. Served(c) /\ UNCHANGED <<serial, win, ids, cli, byUser, evictions>>
        /\ acts' \ acts \subseteq {<<c, task[c].tab>>}
    BY <1>6 DEF Perform
  <2>3. Undisturbed => task[c].tab = task[c].arg
    <3>1. task[c].tab \in Tabs
      BY <1>6 DEF Perform, Scripted, Exists, Tabs
    <3>2. QED
      BY <3>1, <1>0, <1>1 DEF Hold, HoldPart, Aimed
  <2>4. QED
    BY <2>1, <2>2, <2>3, <1>3
<1>7. CASE Appear(c)
  <2>1. \E r \in Result : queue' = Replies(c, r)
    BY <1>7 DEF Appear, Result
  <2>2. QED
    BY <2>1, <1>3, <1>7 DEF Appear
<1>8. QED
  BY <1>4, <1>5, <1>6, <1>7 DEF Replying

LEMMA HoldQueue ==
  ASSUME Inv, Inv', Tell, Hold, Queue
  PROVE  Hold'
<1> USE DEF browser, ids, history
<1> DEFINE m == Head(queue)
           R == ReplyOf(queue')
<1>0. /\ TypeOK /\ HoldPart /\ HasPlace /\ None \notin Windows /\ IdsAgree
      /\ rw \in Windows \cup {None} /\ rt \in Windows \cup {None}
      /\ queue \in Seq(Msg) /\ queue' \in Seq(Msg) /\ Ordered(queue)
  BY DEF Inv, TypeOK, Hold, Tell, Tabs, Msg
<1>1. queue # <<>> /\ queue' = Tail(queue) /\ win' = win /\ byUser' = byUser
      /\ UNCHANGED <<serial, acts, evictions>>
  BY DEF Queue, BrowserEvent, NavigationCompleted, AwaitOver
<1>2. m \in InQ(queue)
  BY <1>0, <1>1, TailO
<1>3. /\ m \in Msg /\ AnswerFits(m, task) /\ EventFits(m, win)
      /\ Own(m, byUser, win)
      /\ \A v \in Windows : v \in ReplyOf(queue) => v \in R \/ (m.ev = "done" /\ m.w = v)
  <2>1. m \in Msg /\ AnswerFits(m, task) /\ EventFits(m, win)
    BY <1>0, <1>2, InMsg DEF Tell, AnswersOf, EventsOf
  <2>2. Own(m, byUser, win)
    BY <1>0, <1>1, TailQ DEF Inv
  <2>3. \A v : v \in ReplyOf(queue) <=>
                \E n \in InQ(queue) : n.ev = "done" /\ n.w = v /\ v # None
    BY <1>0, ReplyIn
  <2>4. \A v : v \in R <=> \E n \in InQ(queue') : n.ev = "done" /\ n.w = v /\ v # None
    BY <1>0, ReplyIn
  <2>5. InQ(queue) = InQ(queue') \cup {m}
    BY <1>0, <1>1, TailO
  <2>6. QED
    BY <2>1, <2>2, <2>3, <2>4, <2>5
<1> HIDE DEF m, R
<1>4. ASSUME HoldPart', m.ev # "done" \/ m.w = None,
             DoomOf(task) \subseteq DoomOf(task'), rw' = rw
      PROVE  Hold'
  <2>1. \A v \in Windows : v \in ReplyOf(queue) => v \in R
    BY <1>0, <1>3, <1>4
  <2>2. HasPlace'
    BY <2>1, <1>0, <1>1, <1>4, PlaceStays DEF R
  <2>3. QED
    BY <2>2, <1>4 DEF Hold
<1>5. CASE BrowserEvent
  <2>1. /\ m.ev \in {"tab", "window"} /\ UNCHANGED <<task, cli>>
        /\ \/ m.ev = "tab" /\ OnTabRemoved(m.w)
           \/ m.ev = "window" /\ OnWindowRemoved(m.w)
    BY <1>5 DEF BrowserEvent, m
  <2>2. m \in Gone /\ m.w \in Windows
    BY <2>1, <1>3, MsgIs
  <2>3. rw' \in {rw, None} /\ (rw' # rw \/ rt' # rt => rw = m.w)
        /\ (rw' # rw => m.ev = "window")
    BY <2>1, <2>2, <1>0 DEF OnTabRemoved, OnWindowRemoved, IdsAgree
  <2>4. Undisturbed => rw # m.w
    BY <2>1, <2>2, <1>3 DEF Undisturbed, Own, Inv, Places
  <2>5. StageFits' /\ OneAtATime' /\ Aimed' /\ Acted'
    BY <2>1, <2>3, <1>0, <1>1 DEF HoldPart, StageFits, OneAtATime, Aimed, Acted, ActsInWindow,
                                   Undisturbed
  <2>6. Held'
    BY <2>1, <2>3, <2>4, <1>0, <1>1 DEF HoldPart, Held, Undisturbed
  <2>7. \A w \in Windows : w = rw /\ win[w] \in {"open", "tabless"} => w = rw'
    BY <2>3, <1>3 DEF EventFits
  <2>8. \A v \in Windows : v \in ReplyOf(queue) => v \in R
    BY <2>1, <1>3
  <2>9. HasPlace'
    BY <2>1, <2>7, <2>8, <1>0, <1>1, PlaceStays DEF R
  <2>10. QED
    BY <2>5, <2>6, <2>9 DEF Hold, HoldPart
<1>6. CASE NavigationCompleted
  <2> DEFINE t == m.tab
  <2>1. PICK match \in SUBSET DOMAIN task :
        /\ task' = [c \in DOMAIN task |->
                     IF Heard(c, t, match)
                     THEN [task[c] EXCEPT !.stage = "done", !.result = "ok"] ELSE task[c]]
        /\ cli' = (IF cli.waits # None /\ Heard(cli.waits, t, match) THEN [cli EXCEPT !.waits = None]
                   ELSE cli)
        /\ m.ev = "loaded" /\ UNCHANGED <<rw, rt>>
    BY <1>6 DEF NavigationCompleted, m
  <2> HIDE DEF t
  <2>2. DOMAIN task' = DOMAIN task
    BY <2>1
  <2>3. \A c \in DOMAIN task :
          /\ task'[c].op = task[c].op /\ task'[c].arg = task[c].arg /\ task'[c].tab = task[c].tab
          /\ Heard(c, t, match) => task'[c].stage = "done"
          /\ ~ Heard(c, t, match) => task'[c] = task[c]
    <3>1. TAKE c \in DOMAIN task
    <3>2. task[c] \in Task
      BY <1>0, TasksAre
    <3>3. QED
      BY <3>2, <2>1 DEF Task
  <2>4. cli'.win = cli.win /\ cli'.waits \in {cli.waits, None}
        /\ (cli.waits # None /\ ~ Heard(cli.waits, t, match) => cli'.waits = cli.waits)
    BY <2>1, <1>0 DEF TypeOK
  <2>5. StageFits'
    BY <2>2, <2>3, <1>0 DEF HoldPart, StageFits, StagesOf
  <2>6. OneAtATime'
    <3>1. SUFFICES ASSUME serial, NEW d \in DOMAIN task, task'[d].stage # "done"
                   PROVE  /\ cli'.waits = d /\ task'[d].arg = cli'.win
                          /\ (task'[d].op = "open") = (cli'.win = None)
                          /\ task'[d].stage \in {"removing", "creating"} => rw' = None
      BY <2>2, <2>4, <1>0, <1>1 DEF OneAtATime, HoldPart
    <3>2. ~ Heard(d, t, match) /\ task'[d] = task[d]
      BY <3>1, <2>3
    <3>3. /\ cli.waits = d /\ task[d].arg = cli.win
          /\ (task[d].op = "open") = (cli.win = None)
          /\ task[d].stage \in {"removing", "creating"} => rw = None
      BY <3>1, <3>2, <1>0 DEF HoldPart, OneAtATime
    <3>4. d # None
      BY <1>0, TasksAre DEF Tabs
    <3>5. QED
      BY <3>2, <3>3, <3>4, <2>1, <2>4
  <2>7. Held'
    <3>1. SUFFICES ASSUME Undisturbed, cli.win # None
                   PROVE  rt = cli.win \/ (cli'.waits # None /\ task'[cli'.waits].op = "close")
      BY <2>1, <2>4, <1>1 DEF Held, Undisturbed
    <3>2. rt = cli.win \/ (cli.waits # None /\ task[cli.waits].op = "close")
      BY <3>1, <1>0 DEF HoldPart, Held
    <3>3. CASE cli.waits # None /\ task[cli.waits].op = "close"
      <4>1. cli.waits \in DOMAIN task
        BY <3>3, <1>0 DEF HoldPart, OneAtATime
      <4>2. ~ Heard(cli.waits, t, match)
        BY <4>1, <3>3, <1>0, StagesAre DEF HoldPart, StageFits, Heard
      <4>3. QED
        BY <4>1, <4>2, <3>3, <2>3, <2>4
    <3>4. QED
      BY <3>2, <3>3
  <2>8. Aimed'
    <3>1. SUFFICES ASSUME Undisturbed, NEW d \in DOMAIN task, task[d].op \notin {"open", "close"}
                   PROVE  task'[d].stage # "asking" /\ task'[d].tab \in {None, task'[d].arg}
      BY <2>2, <2>3, <1>1 DEF Aimed, Undisturbed
    <3>2. task[d].stage # "asking" /\ task[d].tab \in {None, task[d].arg}
      BY <3>1, <1>0 DEF HoldPart, Aimed
    <3>3. QED
      BY <3>2, <2>3
  <2>9. Acted'
    BY <2>2, <2>3, <1>0, <1>1 DEF HoldPart, Acted, ActsInWindow
  <2>10. DoomOf(task) \subseteq DoomOf(task')
    BY <2>2, <2>3 DEF DoomOf, Removing, Heard
  <2>11. HoldPart'
    BY <2>5, <2>6, <2>7, <2>8, <2>9 DEF HoldPart
  <2>12. QED
    BY <2>1, <2>10, <2>11, <1>4
<1>7. CASE AwaitOver
  <2> DEFINE c == m.c
  <2>1. /\ m.ev = "done" /\ (Opened(c, m) \/ Closed(c) \/ Replied(c, m))
    BY <1>7 DEF AwaitOver, m
  <2>2. /\ c \in DOMAIN task /\ m.answer \in Result /\ m.w \in Windows \cup {None}
        /\ task[c] \in Task /\ ~ task[c].out /\ ~ Removing(task[c])
        /\ m.w # None => task[c].stage = "creating" /\ m.answer = "ok"
        /\ task[c].stage \in StagesOf(task[c].op)
    <3>1. c \in DOMAIN task /\ task[c] \in Task /\ ~ task[c].out
      BY <2>1, <1>0, <1>3, TasksAre DEF AnswerFits
    <3>2. QED
      BY <3>1, <2>1, <1>0, <1>3, MsgIs DEF AnswerFits, Reply, Removing, HoldPart, StageFits
  <2> HIDE DEF c
  <2>3. ASSUME NEW t, Goes(c, t) PROVE DoomOf(task) \subseteq DoomOf(task')
    BY <2>2, <2>3, DoomGoes
  <2>4. ASSUME NEW r \in Result, Answer(c, r, None), task[c].stage # "done", m.w = None,
               UNCHANGED <<rw, rt>>
        PROVE  Hold'
    <3>1. HoldPart'
      BY <2>2, <2>4, <1>0, <1>1, HoldAnswer
    <3>2. DoomOf(task) \subseteq DoomOf(task')
      BY <2>3, <2>4 DEF Answer
    <3>3. QED
      BY <3>1, <3>2, <2>4, <1>4
  <2>5. CASE Opened(c, m)
    <3>1. task[c].stage = "creating" /\ task[c].op = "open"
      BY <2>2, <2>5, StagesAre DEF Opened
    <3>2. CASE /\ m.answer = "ok" /\ rw' = m.w /\ rt' = m.w /\ Answer(c, "ok", m.w)
      <4>1. HoldPart'
        BY <3>1, <3>2, <2>2, <1>0, <1>1, HoldAnswer DEF Result
      <4>2. DoomOf(task) \subseteq DoomOf(task')
        BY <2>3, <3>2 DEF Answer
      <4>3. serial => rw = None
        BY <3>1, <2>2, <1>0 DEF HoldPart, OneAtATime
      <4>4. HasPlace'
        BY <4>2, <4>3, <3>2, <1>0, <1>1, <1>3 DEF HasPlace, R
      <4>5. QED
        BY <4>1, <4>4 DEF Hold
    <3>3. CASE m.answer # "ok" /\ Answer(c, "refused", None) /\ UNCHANGED <<rw, rt>>
      BY <3>1, <3>3, <2>2, <2>4 DEF Result
    <3>4. QED
      BY <3>2, <3>3, <2>5 DEF Opened
  <2>6. CASE Closed(c)
    <3>1. m.w = None /\ task[c].stage = "removing" /\ UNCHANGED <<rw, rt>>
      BY <2>2, <2>6 DEF Closed
    <3>2. CASE /\ task[c].op = "open" /\ UNCHANGED cli
               /\ Goes(c, [task[c] EXCEPT !.stage = "creating", !.out = TRUE])
      <4> DEFINE t == [task[c] EXCEPT !.stage = "creating", !.out = TRUE]
      <4>1. t \in Task /\ t.op = task[c].op /\ t.arg = task[c].arg /\ t.stage = "creating"
        BY <2>2 DEF Task, Stage
      <4>2. Goes(c, t)
        BY <3>2
      <4> HIDE DEF t
      <4>3. t.stage \in StagesOf(t.op)
        BY <4>1, <3>2, StagesAre
      <4>4. HoldPart'
        BY <4>1, <4>2, <4>3, <3>1, <3>2, <2>2, <1>0, <1>1, HoldGoes
      <4>5. DoomOf(task) \subseteq DoomOf(task')
        BY <2>3, <4>2
      <4>6. QED
        BY <4>4, <4>5, <3>1, <1>4
    <3>3. CASE Answer(c, "ok", None)
      BY <3>1, <3>3, <2>4 DEF Result
    <3>4. QED
      BY <3>2, <3>3, <2>6 DEF Closed
  <2>7. CASE Replied(c, m)
    <3>1. m.w = None /\ UNCHANGED <<rw, rt>>
      BY <2>2, <2>7 DEF Replied, Timed
    <3>2. CASE task[c].stage \in Timed /\ Answer(c, m.answer, None)
      BY <3>1, <3>2, <2>2, <2>4 DEF Timed
    <3>3. CASE UNCHANGED <<task, cli>>
      <4>1. HoldPart'
        BY <3>1, <3>3, <1>0, <1>1 DEF HoldPart, StageFits, OneAtATime, Held, Aimed, Acted,
                                       ActsInWindow, Undisturbed
      <4>2. QED
        BY <4>1, <3>1, <3>3, <1>4
    <3>4. QED
      BY <3>2, <3>3, <2>7 DEF Replied
  <2>8. QED
    BY <2>1, <2>5, <2>6, <2>7
<1>8. QED
  BY <1>5, <1>6, <1>7 DEF Queue

LEMMA HoldBrowser ==
  ASSUME Inv, Inv', Hold,
         \/ \E t \in Tabs : Load(t)
         \/ \E w \in Windows : UserClosesTab(w) \/ UserClosesRest(w)
         \/ Evict
  PROVE  Hold'
<1> USE DEF browser, ids, history
<1>0. /\ TypeOK /\ HoldPart /\ HasPlace /\ queue \in Seq(Msg) /\ queue' \in Seq(Msg)
      /\ evictions \in Nat /\ evictions' \in Nat
  BY DEF Inv, TypeOK, Hold, Msg
<1>1. UNCHANGED <<serial, task, cli, acts>>
  BY DEF Load, UserClosesTab, UserClosesRest, Evict
<1>2. ASSUME UNCHANGED <<ids, evictions>>, byUser \subseteq byUser',
             ReplyOf(queue) \subseteq ReplyOf(queue'),
             \A w \in Windows : win'[w] \in {"open", "tabless"} => win[w] \in {"open", "tabless"}
      PROVE  Hold'
  <2>1. Undisturbed' => Undisturbed
    BY <1>1, <1>2 DEF Undisturbed
  <2>2. HoldPart'
    BY <2>1, <1>0, <1>1, <1>2 DEF HoldPart, StageFits, OneAtATime, Held, Aimed, Acted,
                                   ActsInWindow, Undisturbed
  <2>3. DoomOf(task') = DoomOf(task)
    BY <1>1
  <2>4. HasPlace'
    BY <2>3, <1>0, <1>1, <1>2, PlaceStays
  <2>5. QED
    BY <2>2, <2>4 DEF Hold
<1>3. ASSUME NEW w \in Windows, UserClosesTab(w) \/ UserClosesRest(w) PROVE Hold'
  <2> DEFINE a == TabGone(w)
             b == WindowGone(w)
  <2>1. a \in Msg /\ b \in Msg
    BY DEF TabGone, WindowGone, Gone, Msg
  <2> HIDE DEF a, b
  <2>2. \A e \in {<<a>>, <<b>>, <<a, b>>} : e \in Seq(Msg)
    <3>1. <<a>> \in Seq(Msg) /\ <<b>> \in Seq(Msg) /\ <<a, b>> \in Seq(Msg)
      BY <2>1
    <3>2. QED
      BY <3>1
  <2>3. Append(queue, a) = queue \o <<a>> /\ Append(queue, b) = queue \o <<b>>
    BY <2>1, <1>0, AppendIsConcat
  <2>4. queue' \in {Append(queue, a), Append(queue, b), queue \o <<a, b>>}
    BY <1>3 DEF UserClosesTab, UserClosesRest, a, b
  <2>5. ReplyOf(queue) \subseteq ReplyOf(queue')
    <3>1. PICK e \in {<<a>>, <<b>>, <<a, b>>} : queue' = queue \o e
      BY <2>3, <2>4
    <3>2. e \in Seq(Msg)
      BY <2>2, <3>1
    <3>3. QED
      BY <3>1, <3>2, <1>0, GrowsO
  <2>6. win' = [win EXCEPT ![w] = win'[w]] /\ win[w] \in {"open", "tabless"}
        /\ UNCHANGED <<ids, evictions>> /\ byUser \subseteq byUser'
    BY <1>3 DEF UserClosesTab, UserClosesRest, Inv, TypeOK
  <2>7. QED
    BY <2>5, <2>6, <1>2 DEF Inv, TypeOK
<1>4. ASSUME NEW t \in Tabs, Load(t) PROVE Hold'
  <2> DEFINE m == [ev |-> "loaded", tab |-> t]
  <2>1. m \in Msg /\ queue' = Append(queue, m)
        /\ UNCHANGED <<win, ids, byUser, evictions>>
    BY <1>4 DEF Load, Msg, Loaded
  <2> HIDE DEF m
  <2>2. <<m>> \in Seq(Msg) /\ queue' = queue \o <<m>>
    BY <2>1, <1>0, AppendIsConcat
  <2>3. ReplyOf(queue) \subseteq ReplyOf(queue')
    BY <2>2, <1>0, GrowsO
  <2>4. QED
    BY <2>1, <2>3, <1>2
<1>5. CASE Evict
  <2>1. evictions' # 0 /\ rw' = None /\ byUser' = byUser
    BY <1>0, <1>5 DEF Evict
  <2>2. QED
    BY <2>1, <1>0, <1>1 DEF Hold, HoldPart, HasPlace, StageFits, OneAtATime, Held, Aimed,
                             Acted, ActsInWindow, Undisturbed
<1>6. QED
  BY <1>3, <1>4, <1>5

LEMMA HoldInit == Init => Hold
<1> SUFFICES ASSUME Init PROVE Hold
  OBVIOUS
<1>1. DOMAIN task = {}
  BY EmptySeq DEF Init
<1>2. cli.win = None /\ cli.waits = None /\ acts = {} /\ \A w \in Windows : win[w] = "unused"
  BY DEF Init
<1>3. QED
  BY <1>1, <1>2 DEF Hold, HoldPart, HasPlace, StageFits, OneAtATime, Held, Aimed, Acted,
                    ActsInWindow

LEMMA HoldNext == Inv /\ Inv' /\ Tell /\ Hold /\ [Next]_vars => Hold'
<1> SUFFICES ASSUME Inv, Inv', Tell, Hold, [Next]_vars PROVE Hold'
  OBVIOUS
<1>1. CASE (\E op \in Ops : Send(op)) \/ GiveUp \/ LeaveWindow
  BY <1>1, HoldCli
<1>2. ASSUME NEW c \in DOMAIN task, Worker(c) \/ Timeout(c) \/ Requests(c) \/ Replying(c)
      PROVE  Hold'
  BY <1>2, HoldWorker, HoldRemove, HoldCreate, HoldPage DEF Requests
<1>3. CASE Queue
  BY <1>3, HoldQueue
<1>4. CASE \/ \E t \in Tabs : Load(t)
           \/ \E w \in Windows : UserClosesTab(w) \/ UserClosesRest(w)
           \/ Evict
  BY <1>4, HoldBrowser
<1>5. CASE UNCHANGED vars
  BY <1>5 DEF vars, browser, ids, history, Hold, HoldPart, HasPlace, StageFits, OneAtATime,
              Held, Aimed, Acted, ActsInWindow, Undisturbed
<1>6. QED
  BY <1>1, <1>2, <1>3, <1>4, <1>5 DEF Next

LEMMA AllHold == Spec => [](Inv /\ Tell /\ Hold)
<1>1. Init => Inv /\ Tell /\ Hold
  BY InitInv, TellInit, HoldInit
<1>2. Inv /\ Tell /\ Hold /\ [Next]_vars => (Inv /\ Tell /\ Hold)'
  BY NextInv, TellNext, HoldNext
<1>3. QED
  BY <1>1, <1>2, PTL DEF Spec

(* TellInv and HoldInv hold of every run: answers, events and ids find one *)
(* another in order, and a serial CLI's window has one place.              *)
THEOREM RunWindowOrder == Spec => [](TellInv /\ HoldInv)
<1>1. Inv /\ Tell /\ Hold => TellInv /\ HoldInv
  BY TellIsTellInv, HoldIsHoldInv
<1>2. QED
  BY <1>1, AllHold, PTL

(* Every closing by the user of a window that the worker has not dropped   *)
(* is told once its events are read (run-window.ts), in whatever order     *)
(* events, answers and commands come.                                      *)
THEOREM UserClosingsTold == Spec => []UserCloseTold
<1>1. Tell => UserCloseTold
  <2> SUFFICES ASSUME Tell, queue = <<>>, NEW g \in byUser
               PROVE  g \in told \/ g.w \in forgotten
    BY DEF UserCloseTold
  <2>1. DOMAIN queue = {}
    BY EmptySeq
  <2>2. InQ(queue) = {}
    BY <2>1 DEF InQ
  <2>3. QED
    BY <2>2 DEF Tell, UntoldOf
<1>2. QED
  BY <1>1, AllHold, PTL

(* A run whose CLI waits out every command, of a worker that is not ended, *)
(* leaves no window behind that the next openWindow or closeWindow would   *)
(* not find (openRunWindow, closeRunWindow).                               *)
THEOREM NothingLeftBehind == Spec => []NoOrphan
<1>1. Inv /\ Tell /\ Hold => NoOrphan
  <2> SUFFICES ASSUME Inv, Tell, Hold, serial, evictions = 0, cli.waits = None,
                      NEW w \in Windows, Stands(w)
               PROVE  w = rw
    BY DEF NoOrphan
  <2>1. \A c \in DOMAIN task : task[c].stage = "done"
    BY TasksAre DEF Hold, HoldPart, OneAtATime, Inv, Tabs
  <2>2. w \notin DoomOf(task)
    BY <2>1 DEF DoomOf, Removing
  <2>3. w \notin ReplyOf(queue)
    <3>1. \A v : v \in ReplyOf(queue) <=>
                  \E n \in InQ(queue) : n.ev = "done" /\ n.w = v /\ v # None
      BY ReplyIn DEF Inv, TypeOK, Msg
    <3>2. QED
      BY <3>1, <2>1 DEF Tell, AnswersOf, AnswerFits
  <2>4. QED
    BY <2>2, <2>3 DEF Hold, HasPlace, Stands
<1>2. QED
  BY <1>1, AllHold, PTL

(* As long as the user closes nothing, what a page performs for such a run *)
(* is performed in the window that the CLI was given: withActiveTab never  *)
(* falls back to the tab that the user works in.                           *)
THEOREM ActsStayInWindow == Spec => []ActsInWindow
<1>1. Hold => ActsInWindow
  BY DEF Hold, HoldPart, Acted
<1>2. QED
  BY <1>1, AllHold, PTL

==============================================================================
