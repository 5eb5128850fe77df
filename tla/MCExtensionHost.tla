--------------------------- MODULE MCExtensionHost ---------------------------
(* Two documents that replace one another, reconnect, reload, lose their   *)
(* socket or answer late, on two connections, with one command.            *)
EXTENDS ExtensionHost
=============================================================================
