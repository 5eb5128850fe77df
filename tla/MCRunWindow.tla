----------------------------- MODULE MCRunWindow -----------------------------
(* RunWindow on two windows. *)
EXTENDS RunWindow

Box(k, c)  == [kind |-> k, state |-> "usable", checked |-> c, set |-> FALSE]
MCElements == {Box("plain", FALSE)}
MCCommands == [s \in BOOLEAN |-> IF s THEN 3 ELSE 2]

==============================================================================
