------------------------------ MODULE HostLink ------------------------------
(***************************************************************************)
(* What the runner may rely on about its connection to the browser         *)
(* extension: the four-state lifecycle documented at the top of            *)
(* extension-host.ts, and the commands in flight on it.  Sockets, hellos   *)
(* and timers are not visible here; ExtensionHost implements this module,  *)
(* and AutomationRunner is composed with it.                               *)
(***************************************************************************)
CONSTANT Cmds

VARIABLES
  link,      \* the lifecycle state of the host
  inflight   \* commands sent and not yet settled

linkVars == <<link, inflight>>

HostState == {"idle", "connected", "reconnect_pending", "aborted"}

LinkTypeOK ==
  /\ link \in HostState
  /\ inflight \subseteq Cmds

Init ==
  /\ link = "idle"
  /\ inflight = {}

(* A client says hello outside the reconnect window: it becomes the        *)
(* connection, and whatever a replaced connection had in flight is         *)
(* rejected.                                                               *)
Attach ==
  /\ link # "reconnect_pending"
  /\ link' = "connected"
  /\ inflight' = {}

(* The connection closes: between commands the run may be resumed, with a  *)
(* command in flight it is aborted.                                        *)
Detach ==
  /\ link = "connected"
  /\ link' = IF inflight = {} THEN "reconnect_pending" ELSE "aborted"
  /\ inflight' = {}

Resume ==
  /\ link = "reconnect_pending"
  /\ link' = "connected"
  /\ UNCHANGED inflight

Expire ==
  /\ link = "reconnect_pending"
  /\ link' = "aborted"
  /\ UNCHANGED inflight

Shutdown ==
  /\ link' = "aborted"
  /\ inflight' = {}

Send(m) ==
  /\ link = "connected"
  /\ m \notin inflight
  /\ inflight' = inflight \cup {m}
  /\ UNCHANGED link

Settle(m) ==
  /\ m \in inflight
  /\ inflight' = inflight \ {m}
  /\ UNCHANGED link

Next ==
  \/ Attach \/ Detach \/ Resume \/ Expire \/ Shutdown
  \/ \E m \in Cmds : Send(m) \/ Settle(m)

(* Every command settles (it has a timer) and the reconnect window closes  *)
(* (it has one too).                                                       *)
Fairness ==
  /\ WF_linkVars(Expire)
  /\ \A m \in Cmds : WF_linkVars(Settle(m))

Spec == Init /\ [][Next]_linkVars /\ Fairness
=============================================================================
