--------------------------- MODULE Extension_proofs ---------------------------
(* What holds of the extension for every value of the constants: of its link *)
(* to the CLI, and of the versions its side panel keeps.                     *)
EXTENDS ExtensionHost, SidePanel, SequenceTheorems, TLAPS

-------------------------------------------------------------------------------
(* ExtensionHost: the runner link, for any documents, connections and        *)
(* commands.                                                                 *)

LEMMA HeadTailOf ==
  ASSUME NEW S, NEW s \in Seq(S), s # <<>>
  PROVE  Head(s) \in S /\ Tail(s) \in Seq(S)
OBVIOUS

LEMMA AppendTo ==
  ASSUME NEW S, NEW s \in Seq(S), NEW e \in S
  PROVE  Append(s, e) \in Seq(S)
OBVIOUS

LEMMA UpMsgCases ==
  ASSUME NEW m \in UpMsg
  PROVE  /\ m.kind = "hello" => m.run \in RunIds \cup {OldRun, None} /\ m.valid \in BOOLEAN
         /\ m.kind = "response" => m.cmd \in Cmds /\ m.ok \in BOOLEAN
BY DEF UpMsg

LEMMA DownMsgCases ==
  ASSUME NEW m \in DownMsg
  PROVE  /\ m.kind = "session" => m.run \in RunIds
         /\ m.kind = "command" => m.cmd \in Cmds
BY DEF DownMsg

LEMMA ClosingType ==
  ASSUME TypeOK, NEW S
  PROVE  /\ Closing(S) \in [Conns -> {"NONE", "OPEN", "CLOSING", "CLOSED"}]
         /\ CloseFrames(S) \in [Conns -> Seq(DownMsg)]
<1>1. Closing(S) \in [Conns -> {"NONE", "OPEN", "CLOSING", "CLOSED"}]
  BY DEF TypeOK, Closing
<1>2. [kind |-> "close"] \in DownMsg
  BY DEF DownMsg
<1>3. \A c \in Conns : Append(down[c], [kind |-> "close"]) \in Seq(DownMsg)
  BY <1>2, AppendTo DEF TypeOK
<1> QED BY <1>1, <1>3 DEF TypeOK, CloseFrames

LEMMA SessionToType ==
  ASSUME TypeOK, NEW c \in Conns, NEW r \in RunIds
  PROVE  /\ SessionTo(c, r) \in Seq(DownMsg)
         /\ Append(down[c], [kind |-> "session", run |-> r]) \in Seq(DownMsg)
<1>1. [kind |-> "session", run |-> r] \in DownMsg
  BY DEF DownMsg
<1> QED BY <1>1, AppendTo DEF SessionTo, TypeOK

LEMMA CommandToType ==
  ASSUME TypeOK, NEW c \in Conns, NEW m \in Cmds
  PROVE  Append(down[c], [kind |-> "command", cmd |-> m]) \in Seq(DownMsg)
<1>1. [kind |-> "command", cmd |-> m] \in DownMsg
  BY DEF DownMsg
<1> QED BY <1>1, AppendTo DEF TypeOK

LEMMA HeadOfUp ==
  ASSUME TypeOK, NEW c \in Conns, up[c] # <<>>
  PROVE  Head(up[c]) \in UpMsg /\ Tail(up[c]) \in Seq(UpMsg)
BY HeadTailOf DEF TypeOK

LEMMA HeadOfDown ==
  ASSUME TypeOK, NEW c \in Conns, down[c] # <<>>
  PROVE  Head(down[c]) \in DownMsg /\ Tail(down[c]) \in Seq(DownMsg)
BY HeadTailOf DEF TypeOK

LEMMA HelloUpType ==
  ASSUME TypeOK, NEW k \in Clients
  PROVE  <<[kind |-> "hello", run |-> prev[k], valid |-> k \notin Outdated]>> \in Seq(UpMsg)
<1>1. [kind |-> "hello", run |-> prev[k], valid |-> k \notin Outdated] \in UpMsg
  BY DEF UpMsg, TypeOK
<1> QED BY <1>1

LEMMA SettledType == Settled \subseteq Settled \cup {"unsent", "inflight"}
OBVIOUS

LEMMA DisconnectedType ==
  ASSUME TypeOK, NEW k \in Clients, Disconnected(k), sock[k] # None,
         up' \in [Conns -> Seq(UpMsg)], prev' \in [Clients -> RunIds \cup {OldRun, None}]
  PROVE  TypeOK'
<1>1. sock[k] \in Conns /\ <<>> \in Seq(DownMsg)
  BY DEF TypeOK
<1>2. alive' \in [Conns -> BOOLEAN] /\ down' \in [Conns -> Seq(DownMsg)]
  BY <1>1 DEF Disconnected, TypeOK
<1>3. sock' \in [Clients -> Conns \cup {None}] /\ sess' \in [Clients -> BOOLEAN]
  BY DEF Disconnected, TypeOK
<1> QED BY <1>2, <1>3 DEF Disconnected, TypeOK, hostVars

LEMMA SocketGoneType ==
  ASSUME TypeOK, NEW c \in Conns, SocketGone(c)
  PROVE  /\ ready' \in [Conns -> {"NONE", "OPEN", "CLOSING", "CLOSED"}]
         /\ alive' \in [Conns -> BOOLEAN]
         /\ up' \in [Conns -> Seq(UpMsg)] /\ down' \in [Conns -> Seq(DownMsg)]
         /\ sock' \in [Clients -> Conns \cup {None}]
         /\ sess' \in [Clients -> BOOLEAN]
<1>1. sess' = [k \in Clients |-> sess[k] /\ sock[k] # c]
  BY DEF SocketGone
<1>2. \A k \in Clients : (sess[k] /\ sock[k] # c) \in BOOLEAN
  OBVIOUS
<1>3. sess' \in [Clients -> BOOLEAN]
  BY <1>1, <1>2
<1> QED BY <1>3 DEF SocketGone, TypeOK

LEMMA RejectAllType ==
  ASSUME TypeOK, RejectAllPending
  PROVE  pending' \subseteq Cmds /\ outcome' \in [Cmds -> Settled \cup {"unsent", "inflight"}]
BY DEF RejectAllPending, TypeOK, Settled

LEMMA TypeStep == IInv /\ [Next]_vars => TypeOK'
<1> SUFFICES ASSUME IInv, [Next]_vars PROVE TypeOK'
  OBVIOUS
<1>t. TypeOK
  BY DEF IInv
<1>1. ASSUME NEW c \in Conns, RejectHello(c) PROVE TypeOK'
  <2>1. Tail(up[c]) \in Seq(UpMsg)
    BY <1>t, <1>1, HeadOfUp DEF RejectHello, HelloOn
  <2> QED BY <1>t, <1>1, <2>1, ClosingType DEF RejectHello, TypeOK, hostVars, clientVars
<1>2. ASSUME NEW c \in Conns, AcceptReconnect(c) PROVE TypeOK'
  <2>1. Tail(up[c]) \in Seq(UpMsg)
    BY <1>t, <1>2, HeadOfUp DEF AcceptReconnect, HelloOn
  <2>2. window \in RunIds
    BY <1>t, <1>2 DEF AcceptReconnect, IInv, LinkInv, StateAgrees, TypeOK
  <2>3. SessionTo(c, window) \in Seq(DownMsg)
    BY <1>t, <2>2, SessionToType
  <2> QED BY <1>t, <1>2, <2>1, <2>3, ConstantsAssumption
      DEF AcceptReconnect, TypeOK, clientVars, HostState
<1>3. ASSUME NEW c \in Conns, AcceptFresh(c) PROVE TypeOK'
  <2>1. Tail(up[c]) \in Seq(UpMsg)
    BY <1>t, <1>3, HeadOfUp DEF SessionRun, AcceptFresh, HelloOn
  <2>2. activeRunId' \in RunIds
    BY <1>t, <1>3 DEF SessionRun, AcceptFresh, TypeOK
  <2>3. SessionTo(c, activeRunId') \in Seq(DownMsg)
    BY <1>t, <2>2, SessionToType
  <2>4. pending' \subseteq Cmds /\ outcome' \in [Cmds -> Settled \cup {"unsent", "inflight"}]
    BY <1>t, <1>3, RejectAllType DEF SessionRun, AcceptFresh, RejectReplaced, TypeOK
  <2>5. down' \in [Conns -> Seq(DownMsg)]
    BY <1>t, <1>3, <2>3, ClosingType DEF SessionRun, AcceptFresh
  <2>6. ready' \in [Conns -> {"NONE", "OPEN", "CLOSING", "CLOSED"}]
    BY <1>t, <1>3, ClosingType DEF SessionRun, AcceptFresh
  <2> QED BY <1>t, <1>3, <2>1, <2>2, <2>4, <2>5, <2>6
      DEF SessionRun, AcceptFresh, TypeOK, clientVars, HostState
<1>4. ASSUME NEW c \in Conns, Response(c) PROVE TypeOK'
  <2>1. Tail(up[c]) \in Seq(UpMsg)
    BY <1>t, <1>4, HeadOfUp DEF Response
  <2>2. pending' \subseteq Cmds /\ outcome' \in [Cmds -> Settled \cup {"unsent", "inflight"}]
    BY <1>t, <1>4 DEF Response, SettleBy, TypeOK, Settled
  <2> QED BY <1>t, <1>4, <2>1, <2>2 DEF Response, TypeOK, clientVars
<1>5. ASSUME NEW m \in Cmds, RefuseCommand(m) PROVE TypeOK'
  BY <1>t, <1>5 DEF RefuseCommand, TypeOK, Settled, netVars, clientVars
<1>6. ASSUME NEW m \in Cmds, SendCommand(m) PROVE TypeOK'
  <2>1. active \in Conns
    BY <1>t, <1>6 DEF SendCommand, IsConnected, TypeOK
  <2>2. down' \in [Conns -> Seq(DownMsg)]
    BY <1>t, <1>6, <2>1, CommandToType DEF SendCommand, TypeOK
  <2> QED BY <1>t, <1>6, <2>1, <2>2 DEF SendCommand, TypeOK, clientVars
<1>7. ASSUME NEW m \in Cmds, SendError(m) \/ CommandTimeout(m) PROVE TypeOK'
  BY <1>t, <1>7 DEF SendError, CommandTimeout, TypeOK, Settled, netVars, clientVars
<1>8. CASE ReconnectTimeout
  BY <1>t, <1>8 DEF ReconnectTimeout, TypeOK, HostState, netVars, clientVars
<1>9. ASSUME NEW c \in Conns, ReceiveClose(c) PROVE TypeOK'
  BY <1>t, <1>9 DEF ReceiveClose, TypeOK, hostVars, clientVars
<1>10. ASSUME NEW c \in Conns, MidStepDisconnect(c) PROVE TypeOK'
  <2>1. pending' \subseteq Cmds /\ outcome' \in [Cmds -> Settled \cup {"unsent", "inflight"}]
    BY <1>t, <1>10, RejectAllType DEF MidStepDisconnect
  <2>2. SocketGone(c)
    BY <1>10 DEF MidStepDisconnect
  <2> QED BY <1>t, <1>10, <2>1, SocketGoneType, <2>2
      DEF MidStepDisconnect, SocketGone, TypeOK, HostState
<1>11. ASSUME NEW c \in Conns, BetweenStepDisconnect(c) PROVE TypeOK'
  <2>1. SocketGone(c)
    BY <1>11 DEF BetweenStepDisconnect
  <2> QED BY <1>t, <1>11, <2>1, SocketGoneType
      DEF BetweenStepDisconnect, SocketGone, TypeOK, HostState
<1>12. ASSUME NEW c \in Conns, OtherDisconnect(c) PROVE TypeOK'
  <2>1. SocketGone(c)
    BY <1>12 DEF OtherDisconnect
  <2> QED BY <1>t, <1>12, <2>1, SocketGoneType DEF OtherDisconnect, SocketGone, TypeOK
<1>13. CASE Close
  <2>1. pending' \subseteq Cmds /\ outcome' \in [Cmds -> Settled \cup {"unsent", "inflight"}]
    BY <1>t, <1>13, RejectAllType DEF Close
  <2> QED BY <1>t, <1>13, <2>1, ClosingType DEF Close, TypeOK, HostState, clientVars
<1>14. ASSUME NEW k \in Clients, Connect(k) PROVE TypeOK'
  BY <1>t, <1>14, HelloUpType DEF Connect, TypeOK, hostVars
<1>15. ASSUME NEW k \in Clients, ReceiveSession(k) \/ ReceiveCommand(k) PROVE TypeOK'
  <2>1. sock[k] \in Conns /\ down[sock[k]] # <<>>
    BY <1>t, <1>15 DEF ReceiveSession, ReceiveCommand, Incoming, TypeOK
  <2>2. Consumed(k) \in [Conns -> Seq(DownMsg)]
    BY <1>t, <2>1, HeadOfDown DEF Consumed, TypeOK
  <2>3. CASE ReceiveSession(k)
    <3>1. Head(down[sock[k]]).run \in RunIds
      BY <1>t, <2>1, <2>3, HeadOfDown, DownMsgCases DEF ReceiveSession, Incoming
    <3> QED BY <1>t, <2>1, <2>2, <2>3, <3>1 DEF ReceiveSession, TypeOK, hostVars
  <2>4. CASE ReceiveCommand(k)
    <3>1. Head(down[sock[k]]).cmd \in Cmds
      BY <1>t, <2>1, <2>4, HeadOfDown, DownMsgCases DEF ReceiveCommand, Incoming
    <3> QED BY <1>t, <2>1, <2>2, <2>4, <3>1 DEF ReceiveCommand, TypeOK, hostVars
  <2> QED BY <1>15, <2>3, <2>4
<1>16. ASSUME NEW k \in Clients, ReceiveCloseFrame(k) \/ NetDrop(k) \/ Unload(k) PROVE TypeOK'
  <2>1. Disconnected(k) /\ sock[k] # None
    BY <1>16 DEF ReceiveCloseFrame, NetDrop, Unload, Incoming
  <2>2. sock[k] \in Conns /\ <<>> \in Seq(UpMsg)
    BY <1>t, <2>1 DEF TypeOK
  <2>3. up' \in [Conns -> Seq(UpMsg)]
    BY <1>t, <1>16, <2>2 DEF ReceiveCloseFrame, NetDrop, Unload, TypeOK
  <2>4. prev' \in [Clients -> RunIds \cup {OldRun, None}]
    BY <1>t, <1>16 DEF ReceiveCloseFrame, NetDrop, Unload, TypeOK
  <2> QED BY <1>t, <2>1, <2>3, <2>4, DisconnectedType
<1>17. ASSUME NEW c \in Conns, NEW m \in Cmds, NEW ok \in BOOLEAN, Respond(c, m, ok) PROVE TypeOK'
  <2>1. [kind |-> "response", cmd |-> m, ok |-> ok] \in UpMsg
    BY DEF UpMsg
  <2>2. Append(up[c], [kind |-> "response", cmd |-> m, ok |-> ok]) \in Seq(UpMsg)
    BY <1>t, <2>1, AppendTo DEF TypeOK
  <2> QED BY <1>t, <1>17, <2>2 DEF Respond, TypeOK, hostVars
<1>18. ASSUME NEW c \in Conns, NEW m \in Cmds, NoResponse(c, m) PROVE TypeOK'
  BY <1>t, <1>18 DEF NoResponse, TypeOK, hostVars, netVars
<1>19. CASE UNCHANGED vars
  BY <1>t, <1>19 DEF TypeOK, vars, hostVars, netVars, clientVars
<1> QED
  BY <1>1, <1>2, <1>3, <1>4, <1>5, <1>6, <1>7, <1>8, <1>9, <1>10, <1>11, <1>12, <1>13, <1>14,
     <1>15, <1>16, <1>17, <1>18, <1>19
  DEF Next, HostMessage, HostSocket, Receive

-----------------------------------------------------------------------------
(* Pending commands, connections and the lifecycle state agree.              *)

LEMMA LinkStep == IInv /\ [Next]_vars => LinkInv'
<1> SUFFICES ASSUME IInv, [Next]_vars PROVE LinkInv'
  OBVIOUS
<1> USE DEF LinkInv, PendingIffUnsettled, PendingOnActive, StateAgrees, OnlyActiveOpen, ConnInv
<1>t. TypeOK /\ LinkInv
  BY DEF IInv
<1>r. state \in {"connected", "reconnect_pending"} => activeRunId # None
  BY DEF IInv, RunInv
<1>1. ASSUME NEW c \in Conns, RejectHello(c) PROVE LinkInv'
  BY <1>t, <1>1 DEF RejectHello, HelloOn, Closing, TypeOK, hostVars, clientVars
<1>2. ASSUME NEW c \in Conns, AcceptReconnect(c) PROVE LinkInv'
  BY <1>t, <1>2, ConstantsAssumption DEF AcceptReconnect, HelloOn, TypeOK, clientVars
<1>3. ASSUME NEW c \in Conns, AcceptFresh(c) PROVE LinkInv'
  <2>0. pending' = {}
    BY <1>t, <1>3 DEF SessionRun, AcceptFresh, RejectReplaced, RejectAllPending
  <2>1. PendingIffUnsettled'
    BY <1>t, <1>3 DEF SessionRun, AcceptFresh, RejectReplaced, RejectAllPending, TypeOK, Settled
  <2>2. StateAgrees'
    BY <1>t, <1>3, ConstantsAssumption DEF SessionRun, AcceptFresh, StartsSession, TypeOK
  <2>3. OnlyActiveOpen' /\ ConnInv'
    BY <1>t, <1>3 DEF SessionRun, AcceptFresh, HelloOn, Closing, TypeOK
  <2>4. PendingOnActive'
    BY <2>0
  <2> QED BY <2>1, <2>2, <2>3, <2>4
<1>4. ASSUME NEW c \in Conns, Response(c) PROVE LinkInv'
  <2>1. PICK msg \in UpMsg : msg.cmd \in Cmds /\ SettleBy(msg)
    BY <1>t, <1>4, HeadOfUp, UpMsgCases DEF Response
  <2>2. PendingIffUnsettled' /\ pending' \subseteq pending
    BY <1>t, <2>1 DEF SettleBy, TypeOK
  <2> QED BY <1>t, <1>4, <2>2 DEF Response, TypeOK, clientVars
<1>5. ASSUME NEW m \in Cmds, RefuseCommand(m) PROVE LinkInv'
  BY <1>t, <1>5 DEF RefuseCommand, TypeOK, netVars, clientVars
<1>6. ASSUME NEW m \in Cmds, SendCommand(m) PROVE LinkInv'
  BY <1>t, <1>6 DEF SendCommand, IsConnected, TypeOK, clientVars
<1>7. ASSUME NEW m \in Cmds, SendError(m) \/ CommandTimeout(m) PROVE LinkInv'
  BY <1>t, <1>7 DEF SendError, CommandTimeout, TypeOK, netVars, clientVars
<1>8. CASE ReconnectTimeout
  BY <1>t, <1>8 DEF ReconnectTimeout, TypeOK, netVars, clientVars
<1>9. ASSUME NEW c \in Conns, ReceiveClose(c) PROVE LinkInv'
  BY <1>t, <1>9 DEF ReceiveClose, TypeOK, hostVars, clientVars
<1>10. ASSUME NEW c \in Conns, MidStepDisconnect(c) PROVE LinkInv'
  <2>1. pending' = {} /\ PendingIffUnsettled'
    BY <1>t, <1>10 DEF MidStepDisconnect, SocketGone, RejectAllPending, TypeOK
  <2> QED BY <1>t, <1>10, <2>1 DEF MidStepDisconnect, SocketGone, TypeOK
<1>11. ASSUME NEW c \in Conns, BetweenStepDisconnect(c) PROVE LinkInv'
  BY <1>t, <1>r, <1>11 DEF BetweenStepDisconnect, SocketGone, TypeOK
<1>12. ASSUME NEW c \in Conns, OtherDisconnect(c) PROVE LinkInv'
  BY <1>t, <1>12 DEF OtherDisconnect, SocketGone, TypeOK
<1>13. CASE Close
  <2>1. pending' = {} /\ PendingIffUnsettled'
    BY <1>t, <1>13 DEF Close, RejectAllPending, TypeOK
  <2>2. OnlyActiveOpen' /\ ConnInv'
    BY <1>t, <1>13 DEF Close, Closing, TypeOK, clientVars
  <2> QED BY <1>t, <1>13, <2>1, <2>2 DEF Close
<1>14. ASSUME NEW k \in Clients, Connect(k) PROVE LinkInv'
  BY <1>t, <1>14 DEF Connect, TypeOK, hostVars
<1>15. ASSUME NEW k \in Clients, Receive(k) PROVE LinkInv'
  BY <1>t, <1>15 DEF Receive, ReceiveSession, ReceiveCommand, ReceiveCloseFrame, Disconnected,
     TypeOK, hostVars
<1>16. ASSUME NEW k \in Clients, NetDrop(k) \/ Unload(k) PROVE LinkInv'
  BY <1>t, <1>16 DEF NetDrop, Unload, Disconnected, TypeOK, hostVars
<1>17. ASSUME NEW c \in Conns, NEW m \in Cmds, NEW ok \in BOOLEAN, Respond(c, m, ok) PROVE LinkInv'
  BY <1>t, <1>17 DEF Respond, TypeOK, hostVars
<1>18. ASSUME NEW c \in Conns, NEW m \in Cmds, NoResponse(c, m) PROVE LinkInv'
  BY <1>t, <1>18 DEF NoResponse, TypeOK, hostVars, netVars
<1>19. CASE UNCHANGED vars
  BY <1>t, <1>19 DEF TypeOK, vars, hostVars, netVars, clientVars
<1> QED
  BY <1>1, <1>2, <1>3, <1>4, <1>5, <1>6, <1>7, <1>8, <1>9, <1>10, <1>11, <1>12, <1>13, <1>14,
     <1>15, <1>16, <1>17, <1>18, <1>19
  DEF Next, HostMessage, HostSocket

-----------------------------------------------------------------------------
(* Every session carries the run id of the host.                             *)

LEMMA TailOf ==
  ASSUME NEW S, NEW s \in Seq(S), s # <<>>, NEW i \in DOMAIN Tail(s)
  PROVE  i + 1 \in DOMAIN s /\ Tail(s)[i] = s[i + 1]
OBVIOUS

LEMMA AppendOf ==
  ASSUME NEW S, NEW s \in Seq(S), NEW e, NEW i \in DOMAIN Append(s, e)
  PROVE  (i \in DOMAIN s /\ Append(s, e)[i] = s[i]) \/ Append(s, e)[i] = e
OBVIOUS

Sessions(q, run) == \A i \in DOMAIN q : q[i].kind = "session" => q[i].run = run

LEMMA SessionsTail ==
  ASSUME NEW q \in Seq(DownMsg), NEW run, Sessions(q, run), q # <<>>
  PROVE  Sessions(Tail(q), run) /\ (Head(q).kind = "session" => Head(q).run = run)
<1>1. Sessions(Tail(q), run)
  BY TailOf DEF Sessions
<1>2. 1 \in DOMAIN q /\ Head(q) = q[1]
  OBVIOUS
<1> QED BY <1>1, <1>2 DEF Sessions

LEMMA SessionsAppend ==
  ASSUME NEW q \in Seq(DownMsg), NEW run, NEW e, Sessions(q, run),
         e.kind = "session" => e.run = run
  PROVE  Sessions(Append(q, e), run)
BY AppendOf DEF Sessions

LEMMA SessionsEmpty == \A run : Sessions(<<>>, run)
BY DEF Sessions

LEMMA CloseFramesSessions ==
  ASSUME TypeOK, NEW S, NEW c \in Conns, NEW run, Sessions(down[c], run)
  PROVE  Sessions(CloseFrames(S)[c], run)
<1>1. [kind |-> "close"].kind # "session"
  OBVIOUS
<1>2. Sessions(Append(down[c], [kind |-> "close"]), run)
  BY <1>1, SessionsAppend DEF TypeOK
<1> QED BY <1>2 DEF CloseFrames

LEMMA RunStep == IInv /\ [Next]_vars => RunInv' /\ RunAgreed'
<1> SUFFICES ASSUME IInv, [Next]_vars PROVE RunInv' /\ RunAgreed'
  OBVIOUS
<1> DEFINE RI == RunInv' /\ RunAgreed'
<1> USE DEF RunAgreed
<1>t. TypeOK /\ LinkInv /\ RunInv /\ RunAgreed
  BY DEF IInv
<1>s. \A c \in Conns : Sessions(down[c], activeRunId)
  BY <1>t DEF RunInv, Sessions
<1>1. ASSUME NEW c \in Conns, RejectHello(c) PROVE RI
  BY <1>t, <1>s, <1>1, CloseFramesSessions
  DEF RejectHello, RunInv, Sessions, hostVars, clientVars
<1>2. ASSUME NEW c \in Conns, AcceptReconnect(c) PROVE RI
  <2>1. window = activeRunId /\ window # None
    BY <1>t, <1>2 DEF AcceptReconnect, LinkInv, StateAgrees
  <2>2. Sessions(SessionTo(c, window), activeRunId)
    BY <1>t, <1>s, <2>1, SessionsAppend DEF SessionTo, TypeOK
  <2> QED BY <1>t, <1>s, <1>2, <2>1, <2>2 DEF AcceptReconnect, RunInv, Sessions, TypeOK, clientVars
<1>3. ASSUME NEW c \in Conns, AcceptFresh(c) PROVE RI
  <2>1. activeRunId' \in RunIds
    BY <1>t, <1>3 DEF SessionRun, AcceptFresh, TypeOK
  <2>2. ASSUME NEW d \in Conns PROVE Sessions(down[d], activeRunId')
    <3>1. CASE activeRunId # None
      BY <1>s, <1>3, <3>1 DEF SessionRun, AcceptFresh
    <3>2. CASE activeRunId = None
      <4>1. \A i \in DOMAIN down[d] : down[d][i] \in DownMsg
        BY <1>t DEF TypeOK
      <4> QED BY <1>s, <3>2, <4>1, DownMsgCases, ConstantsAssumption DEF Sessions
    <3> QED BY <3>1, <3>2
  <2>3. Sessions(SessionTo(c, activeRunId'), activeRunId')
    BY <1>t, <2>2, SessionsAppend DEF SessionTo, TypeOK
  <2>4. \A d \in Conns : Sessions(CloseFrames({active})[d], activeRunId')
    BY <1>t, <2>2, CloseFramesSessions
  <2>5. \A d \in Conns : Sessions(down'[d], activeRunId')
    BY <1>t, <1>3, <2>3, <2>4, ClosingType DEF SessionRun, AcceptFresh
  <2>6. activeRunId # None => activeRunId' = activeRunId
    BY <1>3 DEF SessionRun, AcceptFresh
  <2> QED BY <1>t, <1>3, <2>1, <2>5, <2>6, ConstantsAssumption
      DEF SessionRun, AcceptFresh, RunInv, Sessions, clientVars
<1>4. ASSUME NEW c \in Conns, Response(c) PROVE RI
  BY <1>t, <1>4 DEF Response, RunInv, clientVars
<1>5. ASSUME NEW m \in Cmds, RefuseCommand(m) \/ SendError(m) \/ CommandTimeout(m) PROVE RI
  BY <1>t, <1>5 DEF RefuseCommand, SendError, CommandTimeout, RunInv, netVars, clientVars
<1>6. ASSUME NEW m \in Cmds, SendCommand(m) PROVE RI
  <2>1. active \in Conns
    BY <1>t, <1>6 DEF SendCommand, IsConnected, TypeOK
  <2>2. Sessions(Append(down[active], [kind |-> "command", cmd |-> m]), activeRunId)
    BY <1>t, <1>s, <2>1, SessionsAppend DEF TypeOK
  <2> QED BY <1>t, <1>s, <1>6, <2>1, <2>2 DEF SendCommand, RunInv, Sessions, TypeOK, clientVars
<1>7. CASE ReconnectTimeout
  BY <1>t, <1>7 DEF ReconnectTimeout, RunInv, netVars, clientVars
<1>8. ASSUME NEW c \in Conns, ReceiveClose(c) PROVE RI
  BY <1>t, <1>8 DEF ReceiveClose, RunInv, hostVars, clientVars
<1>9. ASSUME NEW c \in Conns,
             MidStepDisconnect(c) \/ BetweenStepDisconnect(c) \/ OtherDisconnect(c)
      PROVE  RI
  <2>1. SocketGone(c)
    BY <1>9 DEF MidStepDisconnect, BetweenStepDisconnect, OtherDisconnect
  <2>2. \A d \in Conns : Sessions(down'[d], activeRunId)
    BY <1>t, <1>s, <2>1, SessionsEmpty DEF SocketGone, TypeOK
  <2>3. \A k \in Clients : sess'[k] => sess[k]
    BY <2>1 DEF SocketGone
  <2>4. state' \in {"connected", "reconnect_pending"} => state \in {"connected", "reconnect_pending"}
    BY <1>9 DEF MidStepDisconnect, BetweenStepDisconnect, OtherDisconnect
  <2> QED BY <1>t, <2>1, <2>2, <2>3, <2>4 DEF SocketGone, RunInv, Sessions
<1>10. CASE Close
  BY <1>t, <1>s, <1>10, CloseFramesSessions DEF Close, RunInv, Sessions, clientVars
<1>11. ASSUME NEW k \in Clients, Connect(k) PROVE RI
  BY <1>t, <1>11 DEF Connect, RunInv, hostVars
<1>12. ASSUME NEW k \in Clients, ReceiveSession(k) \/ ReceiveCommand(k) PROVE RI
  <2>1. sock[k] \in Conns /\ down[sock[k]] # <<>> /\ down[sock[k]] \in Seq(DownMsg)
    BY <1>t, <1>12 DEF ReceiveSession, ReceiveCommand, Incoming, TypeOK
  <2>2. Sessions(Tail(down[sock[k]]), activeRunId)
    BY <1>s, <2>1, SessionsTail
  <2>3. \A d \in Conns : Sessions(down'[d], activeRunId)
    BY <1>t, <1>s, <1>12, <2>1, <2>2 DEF ReceiveSession, ReceiveCommand, Consumed, TypeOK
  <2>4. CASE ReceiveSession(k)
    <3>1. Head(down[sock[k]]).run = activeRunId
      BY <1>s, <2>1, <2>4, SessionsTail DEF ReceiveSession, Incoming
    <3>2. Head(down[sock[k]]).run \in RunIds
      BY <1>t, <2>1, <2>4, HeadOfDown, DownMsgCases DEF ReceiveSession, Incoming
    <3> QED BY <1>t, <2>3, <2>4, <3>1, <3>2, ConstantsAssumption
        DEF ReceiveSession, RunInv, Sessions, TypeOK, hostVars
  <2>5. CASE ReceiveCommand(k)
    BY <1>t, <2>3, <2>5 DEF ReceiveCommand, RunInv, Sessions, hostVars
  <2> QED BY <1>12, <2>4, <2>5
<1>13. ASSUME NEW k \in Clients, ReceiveCloseFrame(k) \/ NetDrop(k) \/ Unload(k) PROVE RI
  <2>1. Disconnected(k) /\ sock[k] # None
    BY <1>13 DEF ReceiveCloseFrame, NetDrop, Unload, Incoming
  <2>2. sock[k] \in Conns
    BY <1>t, <2>1 DEF TypeOK
  <2>3. \A d \in Conns : Sessions(down'[d], activeRunId)
    BY <1>t, <1>s, <2>1, <2>2, SessionsEmpty DEF Disconnected, TypeOK
  <2>4. \A j \in Clients : sess'[j] => sess[j] /\ j # k
    BY <1>t, <2>1 DEF Disconnected, TypeOK
  <2>5. \A j \in Clients : j # k => prev'[j] = prev[j]
    BY <1>t, <1>13 DEF ReceiveCloseFrame, NetDrop, Unload, TypeOK
  <2> QED BY <1>t, <2>1, <2>3, <2>4, <2>5 DEF Disconnected, RunInv, Sessions, hostVars
<1>14. ASSUME NEW c \in Conns, NEW m \in Cmds, NEW ok \in BOOLEAN, Respond(c, m, ok) PROVE RI
  BY <1>t, <1>14 DEF Respond, RunInv, hostVars
<1>15. ASSUME NEW c \in Conns, NEW m \in Cmds, NoResponse(c, m) PROVE RI
  BY <1>t, <1>15 DEF NoResponse, RunInv, hostVars, netVars
<1>16. CASE UNCHANGED vars
  BY <1>t, <1>16 DEF RunInv, vars, hostVars, netVars, clientVars
<1> QED
  BY <1>1, <1>2, <1>3, <1>4, <1>5, <1>6, <1>7, <1>8, <1>9, <1>10, <1>11, <1>12, <1>13, <1>14,
     <1>15, <1>16
  DEF Next, HostMessage, HostSocket, Receive

-----------------------------------------------------------------------------
LEMMA Inductive == Spec => []IInv
<1>1. Init => IInv
  <2> SUFFICES ASSUME Init PROVE IInv
    OBVIOUS
  <2>1. TypeOK
    <3>1. up \in [Conns -> Seq(UpMsg)] /\ down \in [Conns -> Seq(DownMsg)]
      <4>1. <<>> \in Seq(UpMsg) /\ <<>> \in Seq(DownMsg)
        OBVIOUS
      <4> QED BY <4>1 DEF Init
    <3>2. prev \in [Clients -> RunIds \cup {OldRun, None}]
      BY DEF Init
    <3> QED BY <3>1, <3>2 DEF Init, TypeOK, HostState, Settled
  <2>2. LinkInv
    BY ConstantsAssumption
    DEF Init, LinkInv, PendingIffUnsettled, PendingOnActive, StateAgrees, OnlyActiveOpen, ConnInv
  <2>3. RunInv /\ RunAgreed
    BY DEF Init, RunInv, RunAgreed
  <2> QED BY <2>1, <2>2, <2>3 DEF IInv
<1>2. IInv /\ [Next]_vars => IInv'
  BY TypeStep, LinkStep, RunStep DEF IInv
<1> QED BY <1>1, <1>2, PTL DEF Spec

(* Every variable keeps its type.                                            *)
THEOREM TypeCorrect == Spec => []TypeOK
<1>1. IInv => TypeOK
  BY DEF IInv
<1> QED BY <1>1, Inductive, PTL

(* No promise of sendCommand is lost: it is unsettled exactly while the      *)
(* pending map holds it.                                                     *)
THEOREM NoPromiseLost == Spec => []PendingIffUnsettled
<1>1. IInv => PendingIffUnsettled
  BY DEF IInv, LinkInv
<1> QED BY <1>1, Inductive, PTL

(* What is pending belongs to the connection that is active now, so the      *)
(* close handler's mid-step test is about that connection.                   *)
THEOREM PendingIsOfActive == Spec => []PendingOnActive
<1>1. IInv => PendingOnActive
  BY DEF IInv, LinkInv
<1> QED BY <1>1, Inductive, PTL

(* The reconnect window is open exactly in reconnect_pending, and there is   *)
(* an active connection exactly in connected.                                *)
THEOREM StatesAgree == Spec => []StateAgrees
<1>1. IInv => StateAgrees
  BY DEF IInv, LinkInv
<1> QED BY <1>1, Inductive, PTL

(* However connections replace one another, at most one open socket can      *)
(* settle commands and raise events: the active one.                         *)
THEOREM OneOpenSocket == Spec => []OnlyActiveOpen
<1>1. IInv => OnlyActiveOpen
  BY DEF IInv, LinkInv
<1> QED BY <1>1, Inductive, PTL

(* A document with a session knows the run id it needs to reconnect.         *)
THEOREM RunIdAgreed == Spec => []RunAgreed
<1>1. IInv => RunAgreed
  BY DEF IInv
<1> QED BY <1>1, Inductive, PTL

(* A promise settles once, whatever comes late.                              *)
THEOREM SettlesOnce == Spec => SettledOnce
<1>1. IInv /\ [Next]_vars => [\A m \in Cmds : outcome[m] \in Settled => outcome'[m] = outcome[m]]_vars
  <2> SUFFICES ASSUME IInv, Next, NEW m \in Cmds, outcome[m] \in Settled
               PROVE  outcome'[m] = outcome[m]
    OBVIOUS
  <2>1. m \notin pending /\ outcome[m] # "unsent" /\ TypeOK
    BY DEF IInv, LinkInv, PendingIffUnsettled, Settled
  <2>2. CASE \E c \in Conns : HostMessage(c) \/ HostSocket(c)
    BY <2>1, <2>2 DEF HostMessage, HostSocket, RejectHello, AcceptReconnect, AcceptFresh,
       RejectReplaced, Response, SettleBy, ReceiveClose, MidStepDisconnect, BetweenStepDisconnect,
       OtherDisconnect, SocketGone, RejectAllPending, TypeOK, hostVars
  <2>3. CASE \E n \in Cmds : RefuseCommand(n) \/ SendCommand(n) \/ SendError(n) \/ CommandTimeout(n)
    BY <2>1, <2>3 DEF RefuseCommand, SendCommand, SendError, CommandTimeout, TypeOK
  <2>4. CASE ReconnectTimeout \/ Close
    BY <2>1, <2>4 DEF ReconnectTimeout, Close, RejectAllPending, TypeOK
  <2>5. CASE \E k \in Clients : Connect(k) \/ Receive(k) \/ NetDrop(k) \/ Unload(k)
    BY <2>5 DEF Connect, Receive, ReceiveSession, ReceiveCommand, ReceiveCloseFrame, NetDrop,
       Unload, Disconnected, hostVars
  <2>6. CASE \E c \in Conns, n \in Cmds :
               NoResponse(c, n) \/ \E ok \in BOOLEAN : Respond(c, n, ok)
    BY <2>6 DEF NoResponse, Respond, hostVars
  <2> QED BY <2>2, <2>3, <2>4, <2>5, <2>6 DEF Next
<1> QED BY <1>1, Inductive, PTL DEF Spec, SettledOnce

-----------------------------------------------------------------------------
(* The host implements the steps of HostLink: every step of the sockets,     *)
(* the timers and the documents is one of its steps or leaves it alone.      *)
(* (That HostLink's fairness is implemented too is left to TLC.)             *)
THEOREM ImplementsLink == Spec => Link!Init /\ [][Link!Next]_<<state, pending>>
<1> USE DEF Link!Next, Link!Attach, Link!Detach, Link!Resume, Link!Expire, Link!Shutdown,
            Link!Send, Link!Settle
<1>1. Init => Link!Init
  BY DEF Init, Link!Init
<1>2. IInv /\ [Next]_vars => [Link!Next]_<<state, pending>>
  <2> SUFFICES ASSUME IInv, [Next]_vars, ~UNCHANGED <<state, pending>>
               PROVE  Link!Next
    OBVIOUS
  <2>t. TypeOK /\ PendingIffUnsettled /\ PendingOnActive /\ StateAgrees
    BY DEF IInv, LinkInv
  <2>1. ASSUME NEW c \in Conns, HostMessage(c) PROVE Link!Next
    <3>1. CASE RejectHello(c)
      BY <3>1 DEF RejectHello, hostVars
    <3>2. CASE AcceptReconnect(c)
      BY <3>2 DEF AcceptReconnect
    <3>3. CASE AcceptFresh(c)
      <4>1. pending' = {}
        BY <2>t, <3>3 DEF SessionRun, AcceptFresh, RejectReplaced, RejectAllPending, PendingOnActive
      <4> QED BY <3>3, <4>1 DEF SessionRun, AcceptFresh, StartsSession
    <3>4. CASE Response(c)
      <4>1. PICK msg \in UpMsg : msg.cmd \in Cmds /\ SettleBy(msg)
        BY <2>t, <3>4, HeadOfUp, UpMsgCases DEF Response
      <4>2. state' = state
        BY <3>4 DEF Response
      <4> QED BY <4>1, <4>2 DEF SettleBy
    <3> QED BY <2>1, <3>1, <3>2, <3>3, <3>4 DEF HostMessage
  <2>2. ASSUME NEW c \in Conns, HostSocket(c) PROVE Link!Next
    BY <2>2 DEF HostSocket, ReceiveClose, MidStepDisconnect, BetweenStepDisconnect,
       OtherDisconnect, SocketGone, RejectAllPending, hostVars
  <2>3. ASSUME NEW m \in Cmds,
               RefuseCommand(m) \/ SendCommand(m) \/ SendError(m) \/ CommandTimeout(m)
        PROVE  Link!Next
    <3>1. CASE SendCommand(m)
      <4>1. state = "connected" /\ m \notin pending
        BY <2>t, <3>1 DEF SendCommand, IsConnected, StateAgrees, PendingIffUnsettled
      <4> QED BY <3>1, <4>1 DEF SendCommand
    <3>2. CASE RefuseCommand(m) \/ SendError(m) \/ CommandTimeout(m)
      BY <3>2 DEF RefuseCommand, SendError, CommandTimeout
    <3> QED BY <2>3, <3>1, <3>2
  <2>4. CASE ReconnectTimeout \/ Close
    BY <2>4 DEF ReconnectTimeout, Close, RejectAllPending
  <2>5. CASE \E k \in Clients : Connect(k) \/ Receive(k) \/ NetDrop(k) \/ Unload(k)
    BY <2>5 DEF Connect, Receive, ReceiveSession, ReceiveCommand, ReceiveCloseFrame, NetDrop,
       Unload, Disconnected, hostVars
  <2>6. CASE \E c \in Conns, m \in Cmds :
               NoResponse(c, m) \/ \E ok \in BOOLEAN : Respond(c, m, ok)
    BY <2>6 DEF NoResponse, Respond, hostVars
  <2> QED BY <2>1, <2>2, <2>3, <2>4, <2>5, <2>6 DEF Next, vars, hostVars
<1> QED BY <1>1, <1>2, Inductive, PTL DEF Spec

-------------------------------------------------------------------------------
(* SidePanel: the working copy, its versions and the timer of the automatic  *)
(* commit.                                                                   *)

-------------------------------------------------------------------------------
(* The history of the side panel, of any length and any cap of two or more.  *)
IsHistory(vs) == vs \in Seq(ToSet(vs)) /\ Len(vs) <= VERSION_CAP

LEMMA SeqOfIts == ASSUME NEW S, NEW s \in Seq(S) PROVE s \in Seq(ToSet(s))
BY DEF ToSet

(* t: s with e at its end, kept within the cap.                              *)
Grown(t, s, e, S) ==
  /\ t \in Seq(S) /\ Len(t) \in 1..VERSION_CAP /\ t[Len(t)] = e
  /\ Len(s) < VERSION_CAP => t = Append(s, e)
  /\ Len(s) = VERSION_CAP =>
       /\ Len(t) = VERSION_CAP /\ t[1] = s[1]
       /\ \A k \in 2..Len(s) - 1 : t[k] = s[k + 1]

LEMMA PrunedIs ==
  ASSUME NEW S, NEW s \in Seq(S), NEW e \in S, Len(s) <= VERSION_CAP
  PROVE  Grown(Pruned(Append(s, e)), s, e, S)
<1> DEFINE u == Append(s, e)
           n == Len(s)
           t == Pruned(u)
<1>1. /\ VERSION_CAP \in Nat /\ VERSION_CAP >= 2 /\ n \in Nat
      /\ u \in Seq(S) /\ Len(u) = n + 1 /\ u[n + 1] = e
      /\ \A k \in 1..n : u[k] = s[k]
  BY SidePanelAssumption
<1> HIDE DEF u
<1>0. t = Pruned(u)
  OBVIOUS
<1> HIDE DEF t
<1>2. ASSUME n < VERSION_CAP PROVE Grown(t, s, e, S)
  <2>1. t = u
    BY <1>1, <1>2, <1>0 DEF Pruned
  <2>2. t \in Seq(S) /\ Len(t) \in 1..VERSION_CAP /\ t[Len(t)] = e
    BY <1>1, <1>2, <2>1
  <2>3. t = Append(s, e)
    BY <2>1 DEF u
  <2> QED BY <1>1, <1>2, <2>2, <2>3 DEF Grown
<1>3. ASSUME n = VERSION_CAP PROVE Grown(t, s, e, S)
  <2> DEFINE a == <<u[1]>>
             b == SubSeq(u, 3, n + 1)
  <2>1. Len(u) - VERSION_CAP + 2 = 3 /\ ~ Len(u) <= VERSION_CAP
    BY <1>1, <1>3
  <2>2. t = a \o b
    BY <1>1, <1>0, <2>1 DEF Pruned
  <2>3. \A k \in 3..n + 1 : u[k] \in S
    BY <1>1, <1>3
  <2>4. /\ b \in Seq(S) /\ Len(b) = IF 3 <= n + 1 THEN n + 1 - 3 + 1 ELSE 0
        /\ \A k \in 1..n + 1 - 3 + 1 : b[k] = u[3 + k - 1]
    BY <1>1, <2>3, SubSeqProperties
  <2>5. Len(b) = n - 1 /\ \A k \in 1..n - 1 : b[k] = u[k + 2]
    BY <1>1, <1>3, <2>4
  <2>6. a \in Seq(S) /\ Len(a) = 1 /\ a[1] = u[1]
    BY <1>1, <1>3
  <2> HIDE DEF a, b
  <2>7. /\ t \in Seq(S) /\ Len(t) = Len(a) + Len(b)
        /\ \A k \in 1..Len(a) + Len(b) : t[k] = IF k <= Len(a) THEN a[k] ELSE b[k - Len(a)]
    <3>1. /\ a \o b \in Seq(S) /\ Len(a \o b) = Len(a) + Len(b)
          /\ \A k \in 1..Len(a) + Len(b) :
               (a \o b)[k] = IF k <= Len(a) THEN a[k] ELSE b[k - Len(a)]
      BY <2>4, <2>6, ConcatProperties
    <3> QED BY <2>2, <3>1, Zenon
  <2>8. Len(t) = n /\ t[1] = u[1] /\ \A k \in 2..n : t[k] = u[k + 1]
    <3>1. Len(t) = n /\ t[1] = u[1]
      BY <1>1, <1>3, <2>5, <2>6, <2>7
    <3>2. ASSUME NEW k \in 2..n PROVE t[k] = u[k + 1]
      <4>1. k \in 1..Len(a) + Len(b) /\ ~ k <= Len(a) /\ k - 1 \in 1..n - 1 /\ k - 1 + 2 = k + 1
        BY <1>1, <2>5, <2>6
      <4>2. t[k] = b[k - 1]
        BY <2>6, <2>7, <4>1
      <4>3. b[k - 1] = u[k - 1 + 2]
        BY <2>5, <4>1
      <4> QED BY <4>1, <4>2, <4>3
    <3> QED BY <3>1, <3>2
  <2>9. t[Len(t)] = e /\ t[1] = s[1]
    BY <1>1, <1>3, <2>8
  <2>10. ASSUME NEW k \in 2..n - 1 PROVE t[k] = s[k + 1]
    <3>1. k \in 2..n /\ k + 1 \in 1..n
      BY <1>1
    <3> QED BY <1>1, <2>8, <3>1
  <2>11. t \in Seq(S) /\ Len(t) \in 1..VERSION_CAP /\ Len(t) = n
    BY <1>1, <1>3, <2>7, <2>8
  <2>12. ~ n < VERSION_CAP
    BY <1>1, <1>3
  <2> HIDE DEF n
  <2>13. \A k \in 2..n - 1 : t[k] = s[k + 1]
    BY <2>10
  <2>14. n = Len(s)
    BY DEF n
  <2> QED BY <1>3, <2>9, <2>11, <2>12, <2>13, <2>14 DEF Grown
<1> QED BY <1>1, <1>2, <1>3 DEF u, t

(* What a step makes of the history: it is the same, begins, or has one more *)
(* entry, for which at the cap the second one goes.                          *)
Stands(vs) ==
  \/ Len(vs) <= 1 /\ versions = <<>>
  \/ /\ versions # <<>> /\ vs # <<>>
     /\ vs[1] = versions[1]
     /\ LET gone == {k \in DOMAIN versions : \A j \in DOMAIN vs : vs[j] # versions[k]}
        IN gone = {} \/ (gone = {2} /\ Len(versions) = VERSION_CAP)

LEMMA SameStands == ASSUME IsHistory(versions) PROVE Stands(versions)
<1>1. CASE versions = <<>>
  BY <1>1 DEF Stands
<1>2. CASE versions # <<>>
  <2>1. {k \in DOMAIN versions : \A j \in DOMAIN versions : versions[j] # versions[k]} = {}
    OBVIOUS
  <2> QED BY <1>2, <2>1, Zenon DEF Stands
<1> QED BY <1>1, <1>2

LEMMA GrownStands ==
  ASSUME IsHistory(versions), NEW e, NEW vs, vs = Pruned(Append(versions, e))
  PROVE  /\ IsHistory(vs) /\ Stands(vs) /\ vs # <<>>
         /\ Len(vs) \in DOMAIN vs /\ vs[Len(vs)] = e
<1> DEFINE S == ToSet(versions) \cup {e}
           n == Len(versions)
<1>1. versions \in Seq(S) /\ e \in S /\ n <= VERSION_CAP
  BY SeqMonotonic DEF IsHistory
<1> HIDE DEF S
<1>2. /\ vs \in Seq(S) /\ Len(vs) \in 1..VERSION_CAP /\ vs[Len(vs)] = e
      /\ n < VERSION_CAP => vs = Append(versions, e)
      /\ n = VERSION_CAP => Len(vs) = VERSION_CAP /\ vs[1] = versions[1]
  <2>1. Grown(vs, versions, e, S)
    BY <1>1, PrunedIs
  <2> QED BY <2>1 DEF Grown
<1>6. ASSUME n = VERSION_CAP, NEW k \in 2..n - 1 PROVE vs[k] = versions[k + 1]
  <2>1. Grown(vs, versions, e, S)
    BY <1>1, PrunedIs
  <2> QED BY <1>6, <2>1 DEF Grown
<1>3. n \in Nat /\ VERSION_CAP \in Nat /\ VERSION_CAP >= 2 /\ DOMAIN versions = 1..n
  BY <1>1, SidePanelAssumption
<1>4. IsHistory(vs) /\ vs # <<>> /\ Len(vs) \in DOMAIN vs
  <2>0. vs \in Seq(S) /\ Len(vs) \in 1..VERSION_CAP
    BY <1>2
  <2>1. vs \in Seq(ToSet(vs))
    BY <2>0, SeqOfIts
  <2>2. Len(vs) <= VERSION_CAP /\ Len(vs) \in DOMAIN vs /\ vs # <<>>
    BY <1>3, <2>0
  <2> QED BY <2>1, <2>2 DEF IsHistory
<1>5. Stands(vs)
  <2> DEFINE gone == {k \in DOMAIN versions : \A j \in DOMAIN vs : vs[j] # versions[k]}
  <2>1. CASE n < VERSION_CAP
    <3>0. vs = Append(versions, e)
      BY <1>2, <2>1
    <3>1. Len(vs) = n + 1 /\ \A k \in 1..n : vs[k] = versions[k] /\ k \in DOMAIN vs
      BY <1>1, <3>0
    <3>2. gone = {}
      BY <1>3, <3>1
    <3>3. CASE n = 0
      BY <1>1, <1>3, <3>1, <3>3 DEF Stands
    <3>4. CASE n # 0
      <4>1. versions # <<>> /\ vs[1] = versions[1]
        BY <1>3, <3>1, <3>4
      <4> QED BY <1>4, <3>2, <4>1, Zenon DEF Stands
    <3> QED BY <3>3, <3>4
  <2>2. CASE n = VERSION_CAP
    <3>1. /\ Len(vs) = n /\ vs[1] = versions[1] /\ DOMAIN vs = 1..n
          /\ \A k \in 2..n - 1 : vs[k] = versions[k + 1]
      BY <1>2, <1>6, <1>3, <2>2
    <3>2. \A k \in 1..n : k # 2 => \E j \in 1..n : vs[j] = versions[k]
      <4> SUFFICES ASSUME NEW k \in 1..n, k # 2 PROVE \E j \in 1..n : vs[j] = versions[k]
        OBVIOUS
      <4>1. CASE k = 1
        BY <1>3, <3>1, <4>1
      <4>2. CASE k # 1
        <5>1. k - 1 \in 2..n - 1 /\ k - 1 \in 1..n /\ k - 1 + 1 = k
          BY <1>3, <4>2
        <5>2. vs[k - 1] = versions[k - 1 + 1]
          BY <3>1, <5>1
        <5> QED BY <5>1, <5>2
      <4> QED BY <4>1, <4>2
    <3>3. gone \subseteq {2}
      BY <1>3, <3>1, <3>2
    <3>4. gone = {} \/ gone = {2}
      BY <3>3
    <3>5. versions # <<>>
      BY <1>3, <2>2
    <3> QED BY <1>4, <2>2, <3>1, <3>4, <3>5, Zenon DEF Stands
  <2>3. n < VERSION_CAP \/ n = VERSION_CAP
    <3>1. n \in Nat /\ VERSION_CAP \in Nat /\ n <= VERSION_CAP
      BY <1>1, <1>3
    <3> HIDE DEF n
    <3> QED BY <3>1
  <2> QED BY <2>1, <2>2, <2>3
<1> QED BY <1>2, <1>4, <1>5

(* The current version is in the history: pruning never takes it out.        *)
HeadIsIn(vs, head) == vs # <<>> => \E k \in DOMAIN vs : vs[k].id = head
HeadInHistory == HeadIsIn(versions, currentVersionId)
PanelInv == IsHistory(versions) /\ HeadInHistory /\ EditsHaveTimer

(* What a handler gives the render: the history as it is, with an entry more *)
(* or begun anew; and what the render makes of it.                           *)
IsState(st) == st = [a |-> st.a, vs |-> st.vs, head |-> st.head, new |-> st.new]
Kept(st) == /\ IsState(st) /\ st.vs = versions /\ HeadIsIn(versions, st.head)
            /\ st.new = TRUE \/ (st.a = automation /\ st.head = currentVersionId)
Longer(st) == /\ IsState(st) /\ st.new = TRUE
              /\ \E e : st.vs = Pruned(Append(versions, e)) /\ e.id = st.head
Blank(st) == IsState(st) /\ st.new = TRUE /\ st.vs = <<>>
Final(st) == /\ IsHistory(st.vs) /\ HeadIsIn(st.vs, st.head)
             /\ \/ st.new = TRUE \/ Len(st.vs) # Len(versions)
                \/ st.a = automation /\ st.vs = versions /\ st.head = currentVersionId

LEMMA StateIs ==
  ASSUME NEW va, NEW vv, NEW vh, NEW vn, NEW st \in [a : {va}, vs : {vv}, head : {vh}, new : {vn}]
  PROVE  st = [a |-> va, vs |-> vv, head |-> vh, new |-> vn]
OBVIOUS

LEMMA WithNew ==
  ASSUME NEW st, IsState(st), NEW x
  PROVE  [st EXCEPT !.a = x, !.new = TRUE] = [a |-> x, vs |-> st.vs, head |-> st.head, new |-> TRUE]
<1> DEFINE va == st.a
           vv == st.vs
           vh == st.head
           vn == st.new
           r == [st EXCEPT !.a = x, !.new = TRUE]
<1>1. st = [a |-> va, vs |-> vv, head |-> vh, new |-> vn]
  BY DEF IsState
<1>2. r \in [a : {x}, vs : {vv}, head : {vh}, new : {TRUE}]
  <2> HIDE DEF va, vv, vh, vn
  <2> QED BY <1>1
<1> HIDE DEF r
<1>3. r = [a |-> x, vs |-> vv, head |-> vh, new |-> TRUE]
  BY <1>2, StateIs
<1> QED BY <1>3 DEF r

LEMMA WithHistory ==
  ASSUME NEW st, IsState(st), NEW x, NEW y
  PROVE  [st EXCEPT !.vs = x, !.head = y] = [a |-> st.a, vs |-> x, head |-> y, new |-> st.new]
<1> DEFINE va == st.a
           vv == st.vs
           vh == st.head
           vn == st.new
           r == [st EXCEPT !.vs = x, !.head = y]
<1>1. st = [a |-> va, vs |-> vv, head |-> vh, new |-> vn]
  BY DEF IsState
<1>2. r \in [a : {va}, vs : {x}, head : {y}, new : {vn}]
  <2> HIDE DEF va, vv, vh, vn
  <2> QED BY <1>1
<1> HIDE DEF r
<1>3. r = [a |-> va, vs |-> x, head |-> y, new |-> vn]
  BY <1>2, StateIs
<1> QED BY <1>3 DEF r

LEMMA DerivedKeeps ==
  ASSUME NEW s, NEW e, NEW st, NEW set
  PROVE  LET d == Derived(s, e, st, set) IN
         /\ Kept(st) => Kept(d)
         /\ Longer(st) => Longer(d)
         /\ Blank(st) => Blank(d)
<1> SUFFICES ASSUME IsState(st)
             PROVE  LET d == Derived(s, e, st, set) IN
                    /\ Kept(st) => Kept(d)
                    /\ Longer(st) => Longer(d)
                    /\ Blank(st) => Blank(d)
  BY Zenon DEF Kept, Longer, Blank
<1> DEFINE x == IF s.events = <<>> THEN Nothing ELSE eventsToAutomation(s)
           d == [st EXCEPT !.a = x, !.new = TRUE]
<1>1. Derived(s, e, st, set) = d \/ Derived(s, e, st, set) = st
  BY DEF Derived
<1> HIDE DEF x
<1>2. d = [a |-> x, vs |-> st.vs, head |-> st.head, new |-> TRUE]
  BY WithNew, Zenon
<1> HIDE DEF d
<1>3. d.vs = st.vs /\ d.head = st.head /\ d.new = TRUE /\ IsState(d)
  BY <1>2 DEF IsState
<1>4. (Kept(st) => Kept(d)) /\ (Longer(st) => Longer(d)) /\ (Blank(st) => Blank(d))
  BY <1>3 DEF Kept, Longer, Blank
<1> QED BY <1>1, <1>4

LEMMA CommitIs ==
  ASSUME NEW st, IsState(st), NEW author, st.a # Nothing
  PROVE  LET c == commitVersion(st, author) IN
         /\ IsState(c) /\ c.a = st.a /\ c.new = st.new
         /\ c.vs = Pruned(Append(st.vs, Entry(st, author)))
         /\ c.head = newVersionId(st)
         /\ Entry(st, author).id = c.head /\ Entry(st, author).automation = st.a
<1> DEFINE E == Entry(st, author)
           u == Pruned(Append(st.vs, E))
           i == newVersionId(st)
           c == [st EXCEPT !.vs = u, !.head = i]
<1>1. commitVersion(st, author) = c
  BY DEF commitVersion
<1>2. E.id = i /\ E.automation = st.a
  BY DEF Entry
<1> HIDE DEF E, u, i
<1>3. c = [a |-> st.a, vs |-> u, head |-> i, new |-> st.new]
  BY WithHistory, Zenon
<1>4. IsState(c) /\ c.a = st.a /\ c.new = st.new /\ c.vs = u /\ c.head = i
  BY <1>3 DEF IsState
<1> HIDE DEF c
<1>5. u = Pruned(Append(st.vs, Entry(st, author))) /\ i = newVersionId(st) /\ E = Entry(st, author)
  BY DEF u, i, E
<1> QED BY <1>1, <1>2, <1>4, <1>5

LEMMA SeededIs ==
  ASSUME PanelInv, NEW e, NEW d, Kept(d) \/ Longer(d) \/ Blank(d)
  PROVE  /\ Final(Seeded(e, d))
         /\ ~ Blank(d) => Stands(Seeded(e, d).vs)
<1> DEFINE last == Seeded(e, d)
           E == Entry(d, "raw-recording")
<1>1. IsHistory(versions)
  BY DEF PanelInv
<1>2. IsState(d)
  BY DEF Kept, Longer, Blank
<1>3. CASE d.a # Nothing /\ d.vs = <<>> /\ ~ e
  <2>1. last = commitVersion(d, "raw-recording")
    BY <1>3 DEF Seeded
  <2>2. /\ last.new = d.new /\ last.vs = Pruned(Append(<<>>, E)) /\ E.id = last.head
    BY <1>2, <1>3, <2>1, CommitIs
  <2> HIDE DEF last, E
  <2>3. CASE Kept(d)
    <3>1. versions = <<>>
      BY <1>3, <2>3 DEF Kept
    <3>2. /\ IsHistory(last.vs) /\ Stands(last.vs) /\ last.vs # <<>>
          /\ Len(last.vs) \in DOMAIN last.vs /\ last.vs[Len(last.vs)] = E
      BY <1>1, <2>2, <3>1, GrownStands
    <3>3. HeadIsIn(last.vs, last.head)
      BY <2>2, <3>2 DEF HeadIsIn
    <3>4. Len(last.vs) # Len(versions)
      BY <3>1, <3>2 DEF IsHistory
    <3> QED BY <3>2, <3>3, <3>4 DEF Final, last
  <2>4. CASE Longer(d)
    <3>1. PICK x : d.vs = Pruned(Append(versions, x))
      BY <2>4 DEF Longer
    <3>2. d.vs # <<>>
      BY <1>1, <3>1, GrownStands
    <3> QED BY <1>3, <3>2
  <2>5. CASE Blank(d)
    <3> DEFINE t == Pruned(Append(<<>>, E))
    <3>1. <<>> \in Seq({E}) /\ E \in {E} /\ Len(<<>>) <= VERSION_CAP /\ Len(<<>>) = 0
      BY SidePanelAssumption
    <3>2. Grown(t, <<>>, E, {E})
      BY <3>1, PrunedIs
    <3>3. t \in Seq({E}) /\ Len(t) \in 1..VERSION_CAP /\ t[Len(t)] = E
      BY <3>2 DEF Grown
    <3> HIDE DEF t
    <3>4. Len(t) \in DOMAIN t /\ Len(t) <= VERSION_CAP /\ t \in Seq(ToSet(t))
      BY <3>3, SeqOfIts, SidePanelAssumption
    <3>5. last.vs = t /\ last.new = TRUE
      BY <2>2, <2>5 DEF Blank, t
    <3>6. IsHistory(last.vs) /\ HeadIsIn(last.vs, last.head)
      BY <2>2, <3>3, <3>4, <3>5 DEF IsHistory, HeadIsIn
    <3> QED BY <2>5, <3>5, <3>6 DEF Final, last
  <2> QED BY <2>3, <2>4, <2>5
<1>4. CASE ~ (d.a # Nothing /\ d.vs = <<>> /\ ~ e)
  <2>1. last = d
    BY <1>4 DEF Seeded
  <2> HIDE DEF last
  <2>2. CASE Kept(d)
    <3>1. Final(d)
      BY <1>1, <2>2 DEF Kept, Final
    <3>2. Stands(d.vs)
      BY <1>1, <2>2, SameStands DEF Kept
    <3> QED BY <2>1, <3>1, <3>2 DEF last
  <2>3. CASE Longer(d)
    <3>1. PICK x : d.vs = Pruned(Append(versions, x)) /\ x.id = d.head
      BY <2>3 DEF Longer
    <3>2. IsHistory(d.vs) /\ Stands(d.vs) /\ Len(d.vs) \in DOMAIN d.vs /\ d.vs[Len(d.vs)] = x
      BY <1>1, <3>1, GrownStands
    <3>3. HeadIsIn(d.vs, d.head)
      BY <3>1, <3>2 DEF HeadIsIn
    <3>4. Final(d)
      BY <2>3, <3>2, <3>3 DEF Final, Longer
    <3> QED BY <2>1, <3>2, <3>4 DEF last
  <2>4. CASE Blank(d)
    <3>1. IsHistory(<<>>)
      <4>1. <<>> \in Seq(ToSet(<<>>)) /\ Len(<<>>) = 0
        OBVIOUS
      <4> QED BY <4>1, SidePanelAssumption DEF IsHistory
    <3>2. Final(d)
      BY <2>4, <3>1 DEF Final, Blank, HeadIsIn
    <3> QED BY <2>1, <2>4, <3>2 DEF last
  <2> QED BY <2>2, <2>3, <2>4
<1> QED BY <1>3, <1>4

LEMMA RenderHolds ==
  ASSUME PanelInv, NEW s, NEW e, NEW st, NEW set, NEW as, Render(s, e, st, set, as),
         Kept(st) \/ Longer(st) \/ Blank(st)
  PROVE  /\ PanelInv'
         /\ Kept(st) \/ Longer(st) => Stands(versions')
<1> DEFINE d == Derived(s, e, st, set)
           last == Seeded(e, d)
<1>1. Kept(d) \/ Longer(d) \/ Blank(d)
  BY DerivedKeeps
<1>2. Kept(st) \/ Longer(st) => Stands(last.vs)
  <2>1. ASSUME Kept(st) \/ Longer(st) PROVE Stands(last.vs)
    <3>1. Kept(d) \/ Longer(d)
      BY <2>1, DerivedKeeps
    <3>2. CASE Blank(d)
      <4>1. d.vs = <<>>
        BY <3>2 DEF Blank
      <4>2. CASE Longer(d)
        <5>1. PICK x : d.vs = Pruned(Append(versions, x))
          BY <4>2 DEF Longer
        <5> QED BY <4>1, <5>1, GrownStands DEF PanelInv
      <4>3. CASE Kept(d)
        <5>1. versions = <<>>
          BY <4>1, <4>3 DEF Kept
        <5>2. CASE last = d
          BY <4>1, <5>1, <5>2 DEF Stands
        <5>3. CASE last # d
          <6>1. last = commitVersion(d, "raw-recording") /\ d.a # Nothing
            BY <5>3 DEF Seeded
          <6>2. last.vs = Pruned(Append(versions, Entry(d, "raw-recording")))
            BY <4>1, <4>3, <5>1, <6>1, CommitIs DEF Kept
          <6> QED BY <6>2, GrownStands DEF PanelInv
        <5> QED BY <5>2, <5>3
      <4> QED BY <3>1, <4>2, <4>3
    <3>3. CASE ~ Blank(d)
      <4> HIDE DEF d
      <4> QED BY <1>1, <3>3, SeededIs
    <3> QED BY <3>2, <3>3
  <2> QED BY <2>1
<1>3. Final(last)
  <2> HIDE DEF d
  <2> QED BY <1>1, SeededIs
<1>4. /\ editing' = e /\ automation' = last.a /\ versions' = last.vs
      /\ currentVersionId' = last.head /\ armed' = Timer(e, last)
  BY DEF Render
<1> HIDE DEF last, d
<1>5. IsHistory(versions)' /\ HeadInHistory'
  BY <1>3, <1>4 DEF Final, IsHistory, HeadInHistory, HeadIsIn
<1>6. EditsHaveTimer'
  <2> SUFFICES ASSUME Uncommitted' PROVE armed'
    BY DEF EditsHaveTimer
  <2>1. e /\ last.a # Nothing /\ last.vs # <<>>
    BY <1>4 DEF Uncommitted
  <2>2. CASE last.new \/ e # editing \/ Len(last.vs) # Len(versions)
    BY <1>4, <2>1, <2>2, Zenon DEF Timer
  <2>3. CASE ~ (last.new \/ e # editing \/ Len(last.vs) # Len(versions))
    <3>1. last.a = automation /\ last.vs = versions /\ last.head = currentVersionId /\ e = editing
      BY <1>3, <2>3 DEF Final
    <3>2. armed' = armed
      BY <1>4, <2>3, Zenon DEF Timer
    <3>3. Uncommitted
      BY <1>4, <3>1 DEF Uncommitted, Head0
    <3>4. armed
      BY <3>3 DEF PanelInv, EditsHaveTimer
    <3> QED BY <3>2, <3>4, Zenon
  <2> QED BY <2>2, <2>3
<1>7. PanelInv'
  BY <1>5, <1>6 DEF PanelInv
<1> QED BY <1>2, <1>4, <1>7

-------------------------------------------------------------------------------
(* What the handlers give the render.                                        *)
LEMMA StateKept == ASSUME PanelInv PROVE Kept(State)
BY DEF PanelInv, HeadInHistory, Kept, IsState, State

LEMMA WithIs ==
  ASSUME NEW x
  PROVE  With(x) = [a |-> x, vs |-> versions, head |-> currentVersionId, new |-> TRUE]
<1>1. IsState(State) /\ State.vs = versions /\ State.head = currentVersionId
  BY DEF IsState, State
<1>2. With(x) = [a |-> x, vs |-> State.vs, head |-> State.head, new |-> TRUE]
  BY <1>1, WithNew, Zenon DEF With
<1> QED BY <1>1, <1>2

LEMMA WithKept ==
  ASSUME PanelInv, NEW x
  PROVE  Kept(With(x)) /\ With(x).new = TRUE
<1> DEFINE w == With(x)
<1>1. w = [a |-> x, vs |-> versions, head |-> currentVersionId, new |-> TRUE]
  BY WithIs
<1> HIDE DEF w
<1>2. /\ w.a = x /\ w.vs = versions /\ w.head = currentVersionId /\ w.new = TRUE
      /\ IsState(w)
  BY <1>1 DEF IsState
<1>3. HeadIsIn(versions, w.head)
  BY <1>2 DEF PanelInv, HeadInHistory
<1>4. Kept(w) /\ w.new = TRUE
  BY <1>2, <1>3 DEF Kept
<1> QED BY <1>4 DEF w

LEMMA CheckoutKept ==
  ASSUME PanelInv, NEW k \in DOMAIN versions
  PROVE  Kept(Checkout(k))
<1> DEFINE va == versions[k].automation
           vh == versions[k].id
           vv == versions
           c == Checkout(k)
<1>1. c \in [a : {va}, vs : {vv}, head : {vh}, new : {TRUE}]
  <2>1. State = [a |-> automation, vs |-> vv, head |-> currentVersionId, new |-> FALSE]
    BY DEF State
  <2>2. c = [State EXCEPT !.a = va, !.head = vh, !.new = TRUE]
    BY DEF Checkout
  <2> HIDE DEF va, vh, vv, c
  <2> QED BY <2>1, <2>2
<1> HIDE DEF c
<1>2. c = [a |-> va, vs |-> vv, head |-> vh, new |-> TRUE]
  BY <1>1, StateIs
<1>3. c.vs = versions /\ c.head = versions[k].id /\ c.new = TRUE /\ IsState(c)
  BY <1>2 DEF IsState
<1>4. HeadIsIn(versions, c.head)
  BY <1>3 DEF HeadIsIn
<1>5. Kept(c)
  BY <1>3, <1>4 DEF Kept
<1> QED BY <1>5 DEF c

LEMMA CommitsKeep ==
  ASSUME NEW st, Kept(st), st.new = TRUE \/ st.a = Nothing, NEW author
  PROVE  Kept(commitVersion(st, author)) \/ Longer(commitVersion(st, author))
<1>1. CASE st.a = Nothing
  BY <1>1 DEF commitVersion
<1>2. CASE st.a # Nothing
  <2> DEFINE c == commitVersion(st, author)
             E == Entry(st, author)
  <2>1. /\ IsState(c) /\ c.new = st.new /\ c.vs = Pruned(Append(st.vs, E)) /\ E.id = c.head
    BY <1>2, CommitIs DEF Kept
  <2> HIDE DEF c, E
  <2>2. Longer(c)
    BY <1>2, <2>1 DEF Longer, Kept
  <2> QED BY <2>2 DEF c
<1> QED BY <1>1, <1>2

LEMMA BlankIs ==
  ASSUME NEW x, NEW h
  PROVE  Blank([a |-> x, vs |-> <<>>, head |-> h, new |-> TRUE])
BY DEF Blank, IsState

LEMMA EditHolds ==
  ASSUME PanelInv, NEW st, Kept(st), Edit(st)
  PROVE  PanelInv' /\ Stands(versions')
<1>1. Render(session, TRUE, st, FALSE, asks)
  BY DEF Edit
<1>2. PanelInv' /\ Stands(versions')
  BY <1>1, RenderHolds
<1> QED BY <1>2

-------------------------------------------------------------------------------

LEMMA EditsHold ==
  ASSUME PanelInv, UpdateMetadata \/ EditSteps
  PROVE  PanelInv' /\ Stands(versions')
<1>1. ASSUME NEW x, Edit(With(x)) PROVE PanelInv' /\ Stands(versions')
  <2>1. Kept(With(x))
    BY WithKept
  <2> QED BY <1>1, <2>1, EditHolds
<1>2. ASSUME NEW x, Edit(SetSteps(x)) PROVE PanelInv' /\ Stands(versions')
  BY <1>1, <1>2, Zenon DEF SetSteps
<1>3. CASE UpdateMetadata
  BY <1>1, <1>3, Zenon DEF UpdateMetadata
<1>4. CASE EditSteps
  <2>1. PICK i \in DOMAIN automation.steps :
          \/ \E w \in Words : UpdateStep(i, w)
          \/ \E to \in {i - 1, i + 1} : MoveStep(i, to)
          \/ RemoveStep(i) \/ ConvertToVault(i) \/ InsertOtpBefore(i)
    BY <1>4, Zenon DEF EditSteps
  <2>2. ASSUME NEW w \in Words, UpdateStep(i, w) PROVE PanelInv' /\ Stands(versions')
    BY <1>2, <2>2, Zenon DEF UpdateStep
  <2>3. ASSUME NEW to, MoveStep(i, to) PROVE PanelInv' /\ Stands(versions')
    BY <1>2, <2>3, Zenon DEF MoveStep
  <2>4. CASE RemoveStep(i)
    BY <1>2, <2>4, Zenon DEF RemoveStep
  <2>5. CASE ConvertToVault(i)
    BY <1>1, <2>5, Zenon DEF ConvertToVault
  <2>6. CASE InsertOtpBefore(i)
    BY <1>2, <2>6, Zenon DEF InsertOtpBefore
  <2> QED BY <2>1, <2>2, <2>3, <2>4, <2>5, <2>6, Zenon
<1> QED BY <1>3, <1>4

LEMMA SessionsHold ==
  ASSUME PanelInv,
         \/ Start \/ StartAnswered \/ Stop \/ Clear
         \/ \E first \in BOOLEAN : Started(first)
         \/ \E kind \in workload.kinds : Recorded(kind)
         \/ \E s \in archive : OpenArchived(s)
  PROVE  PanelInv' /\ Stands(versions')
<1>1. ASSUME NEW s, NEW e, NEW set, NEW as, Render(s, e, State, set, as)
      PROVE  PanelInv' /\ Stands(versions')
  BY <1>1, StateKept, RenderHolds
<1>2. ASSUME NEW s, NEW e, NEW set, NEW as, Render(s, e, With(Nothing), set, as)
      PROVE  PanelInv' /\ Stands(versions')
  <2>1. Kept(With(Nothing))
    BY WithKept
  <2> QED BY <1>2, <2>1, RenderHolds
<1>3. CASE Start
  BY <1>1, <1>3, Zenon DEF Start
<1>4. CASE StartAnswered
  BY <1>1, <1>4, Zenon DEF StartAnswered
<1>5. CASE Stop
  BY <1>1, <1>5, Zenon DEF Stop
<1>6. CASE Clear
  BY <1>2, <1>6, Zenon DEF Clear
<1>7. ASSUME NEW first \in BOOLEAN, Started(first) PROVE PanelInv' /\ Stands(versions')
  BY <1>1, <1>7, Zenon DEF Started
<1>8. ASSUME NEW kind \in workload.kinds, Recorded(kind) PROVE PanelInv' /\ Stands(versions')
  BY <1>1, <1>8, Zenon DEF Recorded
<1>9. ASSUME NEW s \in archive, OpenArchived(s) PROVE PanelInv' /\ Stands(versions')
  BY <1>2, <1>9, Zenon DEF OpenArchived
<1> QED BY <1>3, <1>4, <1>5, <1>6, <1>7, <1>8, <1>9, Zenon

LEMMA VersionsHold ==
  ASSUME PanelInv, Rederive \/ RevertToOriginal \/ Undo \/ Redo \/ CheckoutVersion
  PROVE  PanelInv' /\ Stands(versions')
<1>1. ASSUME NEW k \in DOMAIN versions, Reduce(Checkout(k))
      PROVE  PanelInv' /\ Stands(versions')
  <2>1. Kept(Checkout(k))
    BY CheckoutKept
  <2>2. Render(session, editing, Checkout(k), FALSE, asks)
    BY <1>1 DEF Reduce
  <2> QED BY <2>1, <2>2, RenderHolds
<1>2. \A k \in Head0 : k \in DOMAIN versions
  BY DEF Head0
<1>3. DOMAIN versions = 1..Len(versions) /\ Len(versions) \in Nat
  BY DEF PanelInv, IsHistory
<1>4. CASE Rederive
  <2>1. Kept(State) /\ Kept(With(eventsToAutomation(session)))
    BY StateKept, WithKept
  <2>2. \/ Render(session, FALSE, State, FALSE, asks)
        \/ Render(session, FALSE, With(eventsToAutomation(session)), FALSE, asks)
    BY <1>4, Zenon DEF Rederive
  <2> QED BY <2>1, <2>2, RenderHolds
<1>5. CASE RevertToOriginal
  <2>1. Kept(With(session.original))
    BY WithKept
  <2>2. Render(session, FALSE, With(session.original), FALSE, asks)
    BY <1>5 DEF RevertToOriginal
  <2> QED BY <2>1, <2>2, RenderHolds
<1>6. CASE Undo
  <2>1. PICK k \in Head0 \ {1} : Reduce(Checkout(k - 1))
    BY <1>6 DEF Undo
  <2>2. k - 1 \in DOMAIN versions
    BY <1>2, <1>3
  <2> QED BY <1>1, <2>1, <2>2
<1>7. CASE Redo
  <2>1. PICK k \in Head0 \ {Len(versions)} : Reduce(Checkout(k + 1))
    BY <1>7 DEF Redo
  <2>2. k + 1 \in DOMAIN versions
    BY <1>2, <1>3
  <2> QED BY <1>1, <2>1, <2>2
<1>8. CASE CheckoutVersion
  BY <1>1, <1>8 DEF CheckoutVersion
<1> QED BY <1>4, <1>5, <1>6, <1>7, <1>8

LEMMA AnswersHold ==
  ASSUME PanelInv, NEW k,
         \/ \E steps \in Answers : AssistReply(k, steps)
         \/ \E w \in Words : StepReply(k, w)
         \/ ApproveProposal(k)
  PROVE  PanelInv' /\ Stands(versions')
<1>1. ASSUME NEW steps \in Answers, AssistReply(k, steps) PROVE PanelInv' /\ Stands(versions')
  <2> DEFINE st == IF automation = Nothing THEN State
                   ELSE IF k.op = "steps" THEN SetSteps(steps)
                   ELSE With([automation EXCEPT !.about = 1])
             c == commitVersion(st, "ai-improve-legacy")
  <2>1. Render(session, TRUE, c, FALSE, asks \ {k})
    BY <1>1, Zenon DEF AssistReply
  <2>2. Kept(st) /\ (st.new = TRUE \/ st.a = Nothing)
    <3>1. CASE automation = Nothing
      BY <3>1, StateKept DEF State
    <3>2. CASE automation # Nothing
      <4>1. \E x : st = With(x)
        BY <3>2, Zenon DEF SetSteps
      <4> HIDE DEF st
      <4> QED BY <4>1, WithKept
    <3> QED BY <3>1, <3>2
  <2> HIDE DEF st
  <2>3. Kept(c) \/ Longer(c)
    BY <2>2, CommitsKeep
  <2> HIDE DEF c
  <2> QED BY <2>1, <2>3, RenderHolds
<1>2. ASSUME NEW w \in Words, StepReply(k, w) PROVE PanelInv' /\ Stands(versions')
  <2> DEFINE st == IF automation = Nothing THEN State
                   ELSE IF k.index \in DOMAIN automation.steps THEN SetSteps(Put(k.index, w))
                   ELSE With(automation)
  <2>1. Render(session, TRUE, st, FALSE, asks \ {k})
    BY <1>2, Zenon DEF StepReply
  <2>2. st = State \/ \E x : st = With(x)
    BY Zenon DEF SetSteps
  <2> HIDE DEF st
  <2>3. Kept(st)
    BY <2>2, StateKept, WithKept
  <2> QED BY <2>1, <2>3, RenderHolds
<1>3. CASE ApproveProposal(k)
  <2> DEFINE st == With(chat[k].automation)
             c == commitVersion(st, "ai-chat")
  <2>1. Render(session, editing, c, FALSE, asks)
    BY <1>3, Zenon DEF ApproveProposal, Reduce
  <2>2. Kept(st) /\ st.new = TRUE
    BY WithKept
  <2> HIDE DEF st
  <2>3. Kept(c) \/ Longer(c)
    BY <2>2, CommitsKeep
  <2> HIDE DEF c
  <2> QED BY <2>1, <2>3, RenderHolds
<1> QED BY <1>1, <1>2, <1>3

LEMMA AutoCommitHolds ==
  ASSUME PanelInv, AutoCommit
  PROVE  PanelInv' /\ Stands(versions')
<1> DEFINE c == commitVersion(State, "user-edit")
           E == Entry(State, "user-edit")
<1>1. /\ versions' = c.vs /\ currentVersionId' = c.head /\ automation' = automation
      /\ editing' = editing
  BY DEF AutoCommit
<1>2. IsState(State) /\ State.a = automation /\ State.vs = versions /\ State.head = currentVersionId
  BY DEF IsState, State
<1>3. IsHistory(versions) /\ HeadInHistory
  BY DEF PanelInv
<1>4. CASE automation = Nothing
  <2>1. c.vs = versions /\ c.head = currentVersionId
    BY <1>2, <1>4 DEF commitVersion
  <2>2. versions' = versions /\ currentVersionId' = currentVersionId
    BY <1>1, <2>1
  <2>3. IsHistory(versions)' /\ HeadInHistory'
    BY <1>3, <2>2 DEF IsHistory, HeadInHistory, HeadIsIn
  <2>4. ~ Uncommitted'
    BY <1>1, <1>4 DEF Uncommitted
  <2>5. Stands(versions')
    BY <1>3, <2>2, SameStands
  <2> QED BY <2>3, <2>4, <2>5 DEF PanelInv, EditsHaveTimer
<1>5. CASE automation # Nothing
  <2>1. c.vs = Pruned(Append(versions, E)) /\ E.id = c.head /\ E.automation = automation
    BY <1>2, <1>5, CommitIs
  <2> HIDE DEF c, E
  <2>2. /\ IsHistory(c.vs) /\ Stands(c.vs) /\ Len(c.vs) \in DOMAIN c.vs /\ c.vs[Len(c.vs)] = E
    BY <1>3, <2>1, GrownStands
  <2>3. IsHistory(versions)' /\ Stands(versions')
    BY <1>1, <2>2 DEF IsHistory
  <2>4. HeadInHistory'
    BY <1>1, <2>1, <2>2 DEF HeadInHistory, HeadIsIn
  <2>5. ~ Uncommitted'
    BY <1>1, <2>1, <2>2 DEF Uncommitted, Head0
  <2> QED BY <2>3, <2>4, <2>5 DEF PanelInv, EditsHaveTimer
<1> QED BY <1>4, <1>5

LEMMA SameHolds ==
  ASSUME PanelInv, UNCHANGED panel
  PROVE  PanelInv' /\ Stands(versions')
<1>1. PanelInv'
  BY DEF panel, PanelInv, IsHistory, HeadInHistory, HeadIsIn, EditsHaveTimer, Uncommitted, Head0
<1>2. Stands(versions')
  BY SameStands DEF panel, PanelInv
<1> QED BY <1>1, <1>2

LEMMA OthersKeepPanel ==
  ASSUME NEW k,
         \/ \E s \in archive : DeleteArchived(s)
         \/ SendChat \/ Assist \/ AskStep \/ Failed(k)
         \/ \E steps \in Answers : ChatReply(k, steps)
         \/ RejectProposal(k) \/ ClearChat \/ Export
  PROVE  UNCHANGED panel
BY Zenon DEF DeleteArchived, SendChat, Assist, AskStep, Ask1, Failed, ChatReply,
             RejectProposal, ClearChat, Export

LEMMA NewPanelHolds ==
  ASSUME PanelInv, Reopen \/ Import
  PROVE  PanelInv'
<1>1. ASSUME NEW s, NEW x, NEW h, NEW as,
             Render(s, FALSE, [a |-> x, vs |-> <<>>, head |-> h, new |-> TRUE], TRUE, as)
      PROVE  PanelInv'
  <2>1. Blank([a |-> x, vs |-> <<>>, head |-> h, new |-> TRUE])
    BY BlankIs
  <2> QED BY <1>1, <2>1, RenderHolds
<1> QED BY <1>1, Zenon DEF Reopen, Import

(* Every step keeps the invariant, and the history stands but where the      *)
(* panel is opened again or a file imported.                                 *)
LEMMA PanelSteps ==
  ASSUME PanelInv, [PanelNext]_panelVars
  PROVE  PanelInv' /\ (Stands(versions') \/ Reopen \/ Import)
<1>1. CASE UNCHANGED panelVars
  BY <1>1, SameHolds DEF panelVars
<1>2. CASE PanelNext
  <2>1. CASE \/ Start \/ StartAnswered \/ Stop \/ Clear
             \/ \E first \in BOOLEAN : Started(first)
             \/ \E kind \in workload.kinds : Recorded(kind)
             \/ \E s \in archive : OpenArchived(s)
    BY <2>1, SessionsHold
  <2>2. CASE UpdateMetadata \/ EditSteps
    BY <2>2, EditsHold
  <2>3. CASE Rederive \/ RevertToOriginal \/ Undo \/ Redo \/ CheckoutVersion
    BY <2>3, VersionsHold
  <2>4. CASE AutoCommit
    BY <2>4, AutoCommitHolds
  <2>5. CASE Reopen \/ Import
    BY <2>5, NewPanelHolds
  <2>6. ASSUME NEW k,
               \/ \E steps \in Answers : AssistReply(k, steps)
               \/ \E w \in Words : StepReply(k, w)
               \/ ApproveProposal(k)
        PROVE  PanelInv' /\ Stands(versions')
    BY <2>6, AnswersHold
  <2>7. ASSUME NEW k,
               \/ \E s \in archive : DeleteArchived(s)
               \/ SendChat \/ Assist \/ AskStep \/ Failed(k)
               \/ \E steps \in Answers : ChatReply(k, steps)
               \/ RejectProposal(k) \/ ClearChat \/ Export
        PROVE  PanelInv' /\ Stands(versions')
    BY <2>7, OthersKeepPanel, SameHolds, Zenon
  <2> QED BY <1>2, <2>1, <2>2, <2>3, <2>4, <2>5, <2>6, <2>7, Zenon DEF PanelNext, Reply
<1> QED BY <1>1, <1>2

LEMMA PanelStarts == ASSUME PanelInit PROVE PanelInv
<1>1. IsHistory(<<>>)
  <2>1. <<>> \in Seq(ToSet(<<>>)) /\ Len(<<>>) = 0
    OBVIOUS
  <2> QED BY <2>1, SidePanelAssumption DEF IsHistory
<1> QED BY <1>1 DEF PanelInit, PanelInv, HeadInHistory, HeadIsIn, EditsHaveTimer, Uncommitted

LEMMA PanelHolds == PanelSpec => []PanelInv
<1>1. PanelInit => PanelInv
  BY PanelStarts
<1>2. PanelInv /\ [PanelNext]_panelVars => PanelInv'
  BY PanelSteps
<1> QED BY <1>1, <1>2, PTL DEF PanelSpec

(* Whenever an edit is not committed the timer that will commit it runs, for *)
(* histories of any length, caps and answers: of the reducer and the effects *)
(* of sidepanel/App.tsx.                                                     *)
THEOREM EditsTimed == PanelSpec => []EditsHaveTimer
<1>1. PanelInv => EditsHaveTimer
  BY DEF PanelInv
<1> QED BY <1>1, PanelHolds, PTL

(* The current version is one of the history whenever there is a history, so *)
(* undo and redo find where they are: pruning never takes the head out.      *)
THEOREM HeadStays == PanelSpec => []HeadInHistory
<1>1. PanelInv => HeadInHistory
  BY DEF PanelInv
<1> QED BY <1>1, PanelHolds, PTL

(* What was committed stays in the history and in place, but for the second  *)
(* entry at the cap and for a panel opened again or a file imported.         *)
THEOREM HistoryStands == PanelSpec => VersionsStand
<1>1. PanelInv /\ [PanelNext]_panelVars
        => [\/ Len(versions') <= 1 /\ versions = <<>>
            \/ /\ versions # <<>> /\ versions' # <<>>
               /\ versions'[1] = versions[1]
               /\ LET gone == {k \in DOMAIN versions : \A j \in DOMAIN versions' : versions'[j] # versions[k]}
                  IN gone = {} \/ (gone = {2} /\ Len(versions) = VERSION_CAP)
            \/ Reopen \/ Import]_panelVars
  BY PanelSteps, Zenon DEF Stands
<1> QED BY <1>1, PanelHolds, PTL DEF PanelSpec, VersionsStand
===============================================================================
