--------------------------- MODULE MCObjectStore ---------------------------
(* One object, three requests at a time and the cleanup, one fault.  Objects   *)
(* share nothing but the loop of the cleanup.                                  *)
EXTENDS ObjectStore
=============================================================================
