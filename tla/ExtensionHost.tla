---------------------------- MODULE ExtensionHost ----------------------------
(***************************************************************************)
(* The WebSocket link between the CLI and the browser extension:           *)
(* ExtensionHost (tools/cli/src/browser/extension-host.ts) on one side,    *)
(* the offscreen document (tools/extension/src/offscreen/runner.ts) on the *)
(* other, and the connections between them.  A Node or DOM event handler   *)
(* runs to completion, so each is one action; what interleaves is the      *)
(* delivery of messages, close events and timers.                          *)
(***************************************************************************)
EXTENDS Naturals, Sequences

CONSTANTS
  Clients,   \* offscreen documents
  Outdated,  \* those whose hello is not accepted (protocol version mismatch)
  Conns,     \* connections ever opened: a bound on reconnects
  Cmds,      \* commandIds ever sent
  RunIds,    \* run ids the host may draw
  OldRun,    \* the run id a document may still hold from an earlier host
  None       \* null

ASSUME ConstantsAssumption ==
  /\ Outdated \subseteq Clients
  /\ None \notin RunIds \cup Conns
  /\ OldRun \notin RunIds \cup {None}

VARIABLES
  (* the host *)
  state, active, pending, activeRunId, window, closed,
  outcome,    \* what the promise of each command came to
  via,        \* the connection each command was written to
  (* the connections *)
  ready,      \* the host socket's readyState
  phase,      \* which handlers the host has on it: none, the hello one, all, none again
  alive,      \* whether the client's end is open
  up, down,   \* messages under way to the host and to the client
  (* the clients *)
  sock, prev, sess,
  exec        \* commands the extension is executing, by the socket they came on

hostVars   == <<state, active, pending, activeRunId, window, closed, outcome, via>>
netVars    == <<ready, phase, alive, up, down>>
clientVars == <<sock, prev, sess, exec>>
vars       == <<hostVars, netVars, clientVars>>

HostState == {"idle", "connected", "reconnect_pending", "aborted"}
Settled   == {"ok", "error", "timeout", "rejected", "refused"}
UpMsg     == [kind : {"hello"}, run : RunIds \cup {OldRun, None}, valid : BOOLEAN]
             \cup [kind : {"response"}, cmd : Cmds, ok : BOOLEAN]
DownMsg   == [kind : {"session"}, run : RunIds] \cup [kind : {"command"}, cmd : Cmds]
             \cup [kind : {"close"}]

TypeOK ==
  /\ state \in HostState
  /\ active \in Conns \cup {None}
  /\ pending \subseteq Cmds
  /\ activeRunId \in RunIds \cup {None}
  /\ window \in RunIds \cup {None}
  /\ closed \in BOOLEAN
  /\ outcome \in [Cmds -> Settled \cup {"unsent", "inflight"}]
  /\ via \in [Cmds -> Conns \cup {None}]
  /\ ready \in [Conns -> {"NONE", "OPEN", "CLOSING", "CLOSED"}]
  /\ phase \in [Conns -> {"none", "hello", "wired", "deaf"}]
  /\ alive \in [Conns -> BOOLEAN]
  /\ up \in [Conns -> Seq(UpMsg)]
  /\ down \in [Conns -> Seq(DownMsg)]
  /\ sock \in [Clients -> Conns \cup {None}]
  /\ prev \in [Clients -> RunIds \cup {OldRun, None}]
  /\ sess \in [Clients -> BOOLEAN]
  /\ exec \in [Conns -> SUBSET Cmds]

Init ==
  /\ state = "idle" /\ active = None /\ pending = {} /\ window = None /\ closed = FALSE
  /\ activeRunId \in RunIds \cup {None}
  /\ outcome = [m \in Cmds |-> "unsent"]
  /\ via = [m \in Cmds |-> None]
  /\ ready = [c \in Conns |-> "NONE"]
  /\ phase = [c \in Conns |-> "none"]
  /\ alive = [c \in Conns |-> FALSE]
  /\ up = [c \in Conns |-> <<>>]
  /\ down = [c \in Conns |-> <<>>]
  /\ sock = [k \in Clients |-> None]
  /\ prev \in [Clients -> {OldRun, None}]
  /\ sess = [k \in Clients |-> FALSE]
  /\ exec = [c \in Conns |-> {}]

-----------------------------------------------------------------------------
(* The host: a hello arrives on a connection that is waiting for one.      *)

HelloOn(c) ==
  /\ phase[c] = "hello" /\ ready[c] = "OPEN"
  /\ up[c] # <<>> /\ Head(up[c]).kind = "hello"

(* ws.close: a socket already closing stays as it is.                      *)
Closing(S) == [c \in Conns |-> IF c \in S /\ ready[c] = "OPEN" THEN "CLOSING" ELSE ready[c]]

CloseFrames(S) ==
  [c \in Conns |-> IF c \in S /\ ready[c] = "OPEN"
                     THEN Append(down[c], [kind |-> "close"]) ELSE down[c]]

(* Every unsettled command is rejected, its timer cleared.                 *)
RejectAllPending ==
  /\ outcome' = [m \in Cmds |-> IF m \in pending THEN "rejected" ELSE outcome[m]]
  /\ pending' = {}

(* A hello of the wrong version, or with the wrong run id while a run      *)
(* waits to be resumed: the connection is closed and never listened to     *)
(* again.                                                                  *)
RejectHello(c) ==
  /\ HelloOn(c)
  /\ \/ ~Head(up[c]).valid
     \/ state = "reconnect_pending" /\ Head(up[c]).run # window
  /\ phase' = [phase EXCEPT ![c] = "deaf"]
  /\ ready' = Closing({c})
  /\ down' = CloseFrames({c})
  /\ up' = [up EXCEPT ![c] = Tail(@)]
  /\ UNCHANGED <<hostVars, alive, clientVars>>

SessionTo(c, run) == Append(down[c], [kind |-> "session", run |-> run])

AcceptReconnect(c) ==
  /\ HelloOn(c) /\ Head(up[c]).valid
  /\ state = "reconnect_pending" /\ Head(up[c]).run = window
  /\ window' = None
  /\ active' = c
  /\ state' = "connected"
  /\ phase' = [phase EXCEPT ![c] = "wired"]
  /\ down' = [down EXCEPT ![c] = SessionTo(c, window)]
  /\ up' = [up EXCEPT ![c] = Tail(@)]
  /\ UNCHANGED <<pending, activeRunId, closed, outcome, via, ready, alive, clientVars>>

RejectReplaced == IF active # None THEN RejectAllPending ELSE UNCHANGED <<pending, outcome>>

(* Mutation: no way out of aborted.                                        *)
StartsSession_unlessAborted == state \in {"idle", "connected"}

StartsSession == state # "reconnect_pending"

SessionRun(c) == IF activeRunId # None THEN {activeRunId} ELSE RunIds

(* A hello in any other state starts a session, replacing the connection   *)
(* there is, if any.                                                       *)
AcceptFresh(c) ==
  /\ HelloOn(c) /\ Head(up[c]).valid
  /\ StartsSession
  /\ RejectReplaced
  /\ active' = c
  /\ state' = "connected"
  /\ activeRunId' \in SessionRun(c)
  /\ phase' = [phase EXCEPT ![c] = "wired"]
  /\ ready' = Closing({active})
  /\ down' = [CloseFrames({active}) EXCEPT ![c] = SessionTo(c, activeRunId')]
  /\ up' = [up EXCEPT ![c] = Tail(@)]
  /\ UNCHANGED <<window, closed, via, alive, clientVars>>

-----------------------------------------------------------------------------
(* The host: responses, commands, timers.                                  *)

(* Mutation: a response to a command that was given up settles it again.   *)
SettleBy_late(msg) ==
  /\ pending' = pending \ {msg.cmd}
  /\ outcome' = [outcome EXCEPT ![msg.cmd] = IF msg.ok THEN "ok" ELSE "error"]

(* A response settles the command it names, if that one is still pending,  *)
(* whichever connection it comes on.                                       *)
SettleBy(msg) ==
  IF msg.cmd \in pending
    THEN /\ pending' = pending \ {msg.cmd}
         /\ outcome' = [outcome EXCEPT ![msg.cmd] = IF msg.ok THEN "ok" ELSE "error"]
    ELSE UNCHANGED <<pending, outcome>>

Response(c) ==
  /\ phase[c] = "wired" /\ ready[c] \in {"OPEN", "CLOSING"}
  /\ up[c] # <<>> /\ Head(up[c]).kind = "response"
  /\ SettleBy(Head(up[c]))
  /\ up' = [up EXCEPT ![c] = Tail(@)]
  /\ UNCHANGED <<state, active, activeRunId, window, closed, via,
                 ready, phase, alive, down, clientVars>>

IsConnected == active # None /\ ready[active] = "OPEN"

RefuseCommand(m) ==
  /\ outcome[m] = "unsent"
  /\ state \in {"aborted", "reconnect_pending"} \/ ~IsConnected
  /\ outcome' = [outcome EXCEPT ![m] = "refused"]
  /\ UNCHANGED <<state, active, pending, activeRunId, window, closed, via, netVars, clientVars>>

SendCommand(m) ==
  /\ outcome[m] = "unsent"
  /\ state \notin {"aborted", "reconnect_pending"} /\ IsConnected
  /\ pending' = pending \cup {m}
  /\ outcome' = [outcome EXCEPT ![m] = "inflight"]
  /\ via' = [via EXCEPT ![m] = active]
  /\ down' = [down EXCEPT ![active] = Append(@, [kind |-> "command", cmd |-> m])]
  /\ UNCHANGED <<state, active, activeRunId, window, closed,
                 ready, phase, alive, up, clientVars>>

(* The write callback of ws.send reports that the peer is gone.            *)
SendError(m) ==
  /\ m \in pending /\ ~alive[via[m]]
  /\ pending' = pending \ {m}
  /\ outcome' = [outcome EXCEPT ![m] = "rejected"]
  /\ UNCHANGED <<state, active, activeRunId, window, closed, via, netVars, clientVars>>

CommandTimeout(m) ==
  /\ m \in pending
  /\ pending' = pending \ {m}
  /\ outcome' = [outcome EXCEPT ![m] = "timeout"]
  /\ UNCHANGED <<state, active, activeRunId, window, closed, via, netVars, clientVars>>

(* Mutation: an expired run is forgotten instead of aborted.               *)
ReconnectTimeout_toIdle ==
  /\ window # None /\ state = "reconnect_pending"
  /\ window' = None
  /\ state' = "idle"
  /\ UNCHANGED <<active, pending, activeRunId, closed, outcome, via, netVars, clientVars>>

ReconnectTimeout ==
  /\ window # None /\ state = "reconnect_pending"
  /\ window' = None
  /\ state' = "aborted"
  /\ UNCHANGED <<active, pending, activeRunId, closed, outcome, via, netVars, clientVars>>

-----------------------------------------------------------------------------
(* The host: a connection closes, the host is closed.                      *)

(* The peer's close frame, or the end of the stream, behind everything it  *)
(* sent: the socket is closing, its close event not yet emitted.           *)
ReceiveClose(c) ==
  /\ ready[c] = "OPEN" /\ ~alive[c] /\ up[c] = <<>>
  /\ ready' = [ready EXCEPT ![c] = "CLOSING"]
  /\ UNCHANGED <<hostVars, phase, alive, up, down, clientVars>>

(* The close event, at the end of the closing handshake or 30 s after it   *)
(* began, when the socket is destroyed under the client.                   *)
SocketGone(c) ==
  /\ ready[c] = "CLOSING"
  /\ ready' = [ready EXCEPT ![c] = "CLOSED"]
  /\ alive' = [alive EXCEPT ![c] = FALSE]
  /\ up' = [up EXCEPT ![c] = <<>>]
  /\ down' = [down EXCEPT ![c] = <<>>]
  /\ sock' = [k \in Clients |-> IF sock[k] = c THEN None ELSE sock[k]]
  /\ sess' = [k \in Clients |-> sess[k] /\ sock[k] # c]
  /\ UNCHANGED <<phase, prev, exec, activeRunId, closed, via>>

MidStepDisconnect(c) ==
  /\ SocketGone(c)
  /\ active = c /\ state = "connected" /\ pending # {}
  /\ active' = None
  /\ RejectAllPending
  /\ state' = "aborted"
  /\ UNCHANGED window

BetweenStepDisconnect(c) ==
  /\ SocketGone(c)
  /\ active = c /\ state = "connected" /\ pending = {}
  /\ active' = None
  /\ window' = activeRunId
  /\ state' = "reconnect_pending"
  /\ UNCHANGED <<pending, outcome>>

(* A connection that was refused, replaced, or given up by close().        *)
OtherDisconnect(c) ==
  /\ SocketGone(c)
  /\ ~(active = c /\ state = "connected")
  /\ active' = IF active = c THEN None ELSE active
  /\ UNCHANGED <<state, pending, window, outcome>>

(* ExtensionHost.close: only the active connection is closed; a connection *)
(* whose hello is still to come keeps its handler.                         *)
Close ==
  /\ ~closed
  /\ closed' = TRUE
  /\ window' = None
  /\ active' = None
  /\ ready' = Closing({active})
  /\ down' = CloseFrames({active})
  /\ RejectAllPending
  /\ state' = "aborted"
  /\ UNCHANGED <<activeRunId, via, phase, alive, up, clientVars>>

-----------------------------------------------------------------------------
(* The offscreen document.                                                 *)

(* connect and its open handler: the hello is the first thing sent.        *)
Connect(k) ==
  /\ sock[k] = None /\ ~closed
  /\ \E c \in Conns :
       /\ ready[c] = "NONE"
       /\ sock' = [sock EXCEPT ![k] = c]
       /\ ready' = [ready EXCEPT ![c] = "OPEN"]
       /\ phase' = [phase EXCEPT ![c] = "hello"]
       /\ alive' = [alive EXCEPT ![c] = TRUE]
       /\ up' = [up EXCEPT ![c] =
                   <<[kind |-> "hello", run |-> prev[k], valid |-> k \notin Outdated]>>]
  /\ UNCHANGED <<hostVars, down, prev, sess, exec>>

Incoming(k, kind) == sock[k] # None /\ down[sock[k]] # <<>> /\ Head(down[sock[k]]).kind = kind
Consumed(k)       == [down EXCEPT ![sock[k]] = Tail(@)]

(* Mutation: the document keeps the first run id it ever learnt.           *)
ReceiveSession_keepsRun(k) ==
  /\ Incoming(k, "session") /\ ~sess[k]
  /\ sess' = [sess EXCEPT ![k] = TRUE]
  /\ prev' = IF prev[k] = None THEN [prev EXCEPT ![k] = Head(down[sock[k]]).run] ELSE prev
  /\ down' = Consumed(k)
  /\ UNCHANGED <<hostVars, ready, phase, alive, up, sock, exec>>

(* The first message is the session; its run id goes into the next hello.  *)
ReceiveSession(k) ==
  /\ Incoming(k, "session") /\ ~sess[k]
  /\ sess' = [sess EXCEPT ![k] = TRUE]
  /\ prev' = [prev EXCEPT ![k] = Head(down[sock[k]]).run]
  /\ down' = Consumed(k)
  /\ UNCHANGED <<hostVars, ready, phase, alive, up, sock, exec>>

ReceiveCommand(k) ==
  /\ Incoming(k, "command") /\ sess[k]
  /\ exec' = [exec EXCEPT ![sock[k]] = @ \cup {Head(down[sock[k]]).cmd}]
  /\ down' = Consumed(k)
  /\ UNCHANGED <<hostVars, ready, phase, alive, up, sock, prev, sess>>

(* The socket of k closes on its side: a reconnect is scheduled.           *)
Disconnected(k) ==
  /\ alive' = [alive EXCEPT ![sock[k]] = FALSE]
  /\ down' = [down EXCEPT ![sock[k]] = <<>>]
  /\ sock' = [sock EXCEPT ![k] = None]
  /\ sess' = [sess EXCEPT ![k] = FALSE]
  /\ UNCHANGED <<hostVars, ready, phase, exec>>

ReceiveCloseFrame(k) ==
  /\ Incoming(k, "close")
  /\ Disconnected(k)
  /\ UNCHANGED <<up, prev>>

(* The connection breaks, perhaps with messages to the host still on it.   *)
NetDrop(k) ==
  /\ sock[k] # None
  /\ Disconnected(k)
  /\ up' \in {up, [up EXCEPT ![sock[k]] = <<>>]}
  /\ UNCHANGED prev

(* beforeunload: the document goes, and its run id with it.  A document    *)
(* bootstrapped later starts over.                                         *)
Unload(k) ==
  /\ sock[k] # None
  /\ Disconnected(k)
  /\ prev' = [prev EXCEPT ![k] = None]
  /\ UNCHANGED up

(* The service worker answers, and the document writes the answer to the   *)
(* socket the command came on (to nobody, when that is gone).              *)
Respond(c, m, ok) ==
  /\ m \in exec[c]
  /\ exec' = [exec EXCEPT ![c] = @ \ {m}]
  /\ up' = IF alive[c]
             THEN [up EXCEPT ![c] = Append(@, [kind |-> "response", cmd |-> m, ok |-> ok])]
             ELSE up
  /\ UNCHANGED <<hostVars, ready, phase, alive, down, sock, prev, sess>>

(* chrome.runtime.lastError: the worker was evicted before it answered,    *)
(* and no response is ever sent.                                           *)
NoResponse(c, m) ==
  /\ m \in exec[c]
  /\ exec' = [exec EXCEPT ![c] = @ \ {m}]
  /\ UNCHANGED <<hostVars, netVars, sock, prev, sess>>

-----------------------------------------------------------------------------
HostMessage(c) == RejectHello(c) \/ AcceptReconnect(c) \/ AcceptFresh(c) \/ Response(c)
HostSocket(c)  == ReceiveClose(c) \/ MidStepDisconnect(c) \/ BetweenStepDisconnect(c)
                  \/ OtherDisconnect(c)
Receive(k)     == ReceiveSession(k) \/ ReceiveCommand(k) \/ ReceiveCloseFrame(k)

Next ==
  \/ \E c \in Conns : HostMessage(c) \/ HostSocket(c)
  \/ \E m \in Cmds : RefuseCommand(m) \/ SendCommand(m) \/ SendError(m) \/ CommandTimeout(m)
  \/ ReconnectTimeout
  \/ Close
  \/ \E k \in Clients : Connect(k) \/ Receive(k) \/ NetDrop(k) \/ Unload(k)
  \/ \E c \in Conns, m \in Cmds : NoResponse(c, m) \/ \E ok \in BOOLEAN : Respond(c, m, ok)

(* Both event loops deliver what has arrived and fire their timers; the    *)
(* client reconnects from its own.  Nothing is assumed of the service      *)
(* worker, of drops, or of the runner's calls.                             *)
Fairness ==
  /\ \A c \in Conns : WF_vars(HostMessage(c)) /\ WF_vars(HostSocket(c))
  /\ \A m \in Cmds : WF_vars(CommandTimeout(m))
  /\ WF_vars(ReconnectTimeout)
  /\ \A k \in Clients : WF_vars(Connect(k)) /\ WF_vars(Receive(k))

Spec == Init /\ [][Next]_vars /\ Fairness

-----------------------------------------------------------------------------
(* Properties.                                                             *)

(* No promise is ever lost: a sendCommand whose promise has not settled is *)
(* in the pending map, where its timer, a response or a disconnect settles *)
(* it, and the map holds nothing else.                                     *)
PendingIffUnsettled == \A m \in Cmds : m \in pending <=> outcome[m] = "inflight"

(* What is pending was written to the connection that is active now.  The  *)
(* close handler decides by pending.size whether a disconnect is mid-step: *)
(* a leftover of an earlier connection would abort a run that could be     *)
(* resumed.                                                                *)
PendingOnActive == \A m \in pending : state = "connected" /\ via[m] = active /\ active # None

(* The reconnect window is open exactly in reconnect_pending, for the run  *)
(* of this host, and there is an active connection exactly in connected.   *)
StateAgrees ==
  /\ window # None <=> state = "reconnect_pending"
  /\ window \in {None, activeRunId}
  /\ active # None <=> state = "connected"

(* However connections are replaced, only one open socket has the host's   *)
(* message handlers: the active one.                                       *)
OnlyActiveOpen == \A c \in Conns : phase[c] = "wired" /\ ready[c] = "OPEN" => active = c

(* A document that has its session knows the run id the host will demand   *)
(* of it when it reconnects.                                               *)
RunAgreed == \A k \in Clients : sess[k] => prev[k] = activeRunId

(* The inductive invariant of the proofs.  A connection has handlers once  *)
(* it is open, the active one all of them; every session under way to a    *)
(* document carries the one run id of this host.                           *)
ConnInv ==
  /\ \A c \in Conns : phase[c] = "none" <=> ready[c] = "NONE"
  /\ active # None => phase[active] = "wired" /\ ready[active] \in {"OPEN", "CLOSING"}

RunInv ==
  /\ state \in {"connected", "reconnect_pending"} => activeRunId # None
  /\ \A c \in Conns : \A i \in DOMAIN down[c] :
       down[c][i].kind = "session" => down[c][i].run = activeRunId
  /\ \A k \in Clients : sess[k] => activeRunId # None

LinkInv == PendingIffUnsettled /\ PendingOnActive /\ StateAgrees /\ OnlyActiveOpen /\ ConnInv

IInv == TypeOK /\ LinkInv /\ RunInv /\ RunAgreed

(* A promise settles once: late responses, timers and rejections do not    *)
(* touch a command that is already settled.                                *)
SettledOnce == [][\A m \in Cmds : outcome[m] \in Settled => outcome'[m] = outcome[m]]_vars

(* A document that said hello gets its session or loses the connection; it *)
(* is never left waiting, not even by a host that aborted or closed.       *)
HelloAnswered ==
  \A k \in Clients, c \in Conns :
    (sock[k] = c /\ ~sess[k]) ~> (sess[k] \/ sock[k] # c)

(* The host is the link of HostLink: its lifecycle, its abort and resume   *)
(* rules, and that every command and every reconnect window comes to an    *)
(* end.                                                                    *)
Link == INSTANCE HostLink WITH link <- state, inflight <- pending
LinkSpec == Link!Spec
=============================================================================
