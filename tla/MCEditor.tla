------------------------------ MODULE MCEditor ------------------------------
(* Files that bring together a loop and a jump into the list, three steps to    *)
(* drag, functions with a body, and what the schema refuses.                    *)
EXTENDS Editor
A(inputs, steps, functions) ==
  [about |-> [rev |-> 0, ok |-> TRUE], inputs |-> inputs, steps |-> steps, functions |-> functions]
S(kind, id) == [StepOf(kind, id) EXCEPT !.ok = TRUE]
Loop(id, substeps) == [S("loop", id) EXCEPT !.substeps = substeps]
Body(name, steps) == [name |-> name, steps |-> steps]
MCFiles ==
  {A(<<1, 2>>, <<Loop(1, <<S("plain", 2)>>), [S("goto", 3) EXCEPT !.to = 1]>>, <<>>),
   A(<<>>, <<S("plain", 1), S("plain", 2), S("plain", 3)>>, <<>>),
   A(<<>>, <<[S("condition", 1) EXCEPT !.fn = "f"]>>,
     <<Body("f", <<Loop(2, <<S("plain", 3)>>)>>), Body("newFunction", <<S("aiscope", 4)>>)>>),
   A(<<>>, <<[S("call", 1) EXCEPT !.fn = "f"]>>, <<>>),
   Text}
=============================================================================
