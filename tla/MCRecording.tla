----------------------------- MODULE MCRecording -----------------------------
(* Two sessions, and a zip of one the browser may no longer have.          *)
EXTENDS Recording

MCFiles == {[id |-> i, status |-> "stopped", tab |-> None,
             events |-> <<e>>, original |-> <<e>>] :
               i \in {CHOOSE i \in Ids : TRUE},
               e \in {CHOOSE e \in Event : e.kind = "act"}}

MCMaxCommands == [s \in BOOLEAN |-> IF s THEN 5 ELSE 3]
===============================================================================
