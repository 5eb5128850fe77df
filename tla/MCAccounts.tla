----------------------------- MODULE MCAccounts -----------------------------
(* Workloads that bring together the operations that touch the same rows.      *)
EXTENDS Accounts, TLC
CONSTANTS ann, bob, c1, c2
W(ops, users, clients, n) ==
  [ops |-> ops, users |-> users, clients |-> clients, tokens |-> n]
MCWorkloads ==
  {W({"login", "refresh", "logout"}, {ann}, {c1, c2}, 3),
   W({"login", "refresh", "logout"}, {ann, bob}, {c1}, 2),
   W({"login", "refresh", "logoutAll"}, {ann}, {c1, c2}, 3),
   W({"login", "refresh", "logout", "lapse"}, {ann}, {c1}, 2),
   W({"login", "refresh", "fault"}, {ann}, {c1}, 2),
   W({"device", "poll", "approve", "deny", "lapse"}, {ann}, {c1}, 2),
   W({"device", "poll", "approve", "revokeDevice", "refresh"}, {ann}, {c1}, 2),
   W({"device", "poll", "approve", "deactivate", "fault"}, {ann, bob}, {c1}, 2),
   W({"activate", "deactivate", "promote", "demote", "login"}, {ann, bob}, {c1}, 1),
   W({"login", "invite", "uninvite"}, {}, {c1}, 2),
   W({"login", "testLogin", "invite"}, {}, {c1}, 2)}
Symmetry == Permutations(Clients) \cup Permutations(Requests)
=============================================================================
