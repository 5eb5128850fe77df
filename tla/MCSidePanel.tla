---------------------------- MODULE MCSidePanel ----------------------------
(* Workloads that bring together what changes the working copy and the history. *)
EXTENDS SidePanel
MCAnswers == {<<w>> : w \in Words}
W(ops, kinds, n, e) == [ops |-> ops, kinds |-> kinds, sessions |-> n, edits |-> e]
MCWorkloads ==
  {W({"revert"}, {"type", "submitClick"}, 1, 2), W({}, {"otp"}, 1, 1),
   W({"reopen"}, {"navigate"}, 1, 2), W({"zip"}, {"navigate"}, 1, 1),
   W({"archive"}, {"navigate"}, 2, 1), W({"chat", "revert"}, {"navigate"}, 1, 2),
   W({"assist"}, {"navigate"}, 2, 1), W({"chat", "zip"}, {"navigate"}, 1, 1),
   W({"ask"}, {"type"}, 1, 2), W({"chat", "assist"}, {"navigate"}, 1, 2)}
=============================================================================
