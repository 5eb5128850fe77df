---------------------------- MODULE MCWebClient ----------------------------
(* Workloads that bring together what shares the session, the settings or a    *)
(* list; one of the tabs may be all there is.                                  *)
EXTENDS WebClient
CONSTANTS t1, t2
W(ops, tabs, d, table) == [ops |-> ops, tabs |-> tabs, doc |-> d, table |-> table]
MCWorkloads ==
  {W({"load", "list", "lapse"}, {t1}, "system", "tokens"),
   W({"load", "lapse", "fault"}, {t1}, "system", "tokens"),
   W({"load", "lapse", "signIn", "logout"}, {t1}, "system", "tokens"),
   W({"load", "lapse"}, {t1, t2}, "system", "tokens"),
   W({"signIn", "logout"}, {t1, t2}, "system", "tokens"),
   W({"load", "save"}, {t1, t2}, "system", "tokens"),
   W({"load", "save", "fault"}, {t1}, "user", "tokens"),
   W({"list", "add", "remove", "cleanup"}, {t1}, "user", "tokens"),
   W({"verify", "decide"}, {t1, t2}, "user", "devices"),
   W({"list", "add", "remove", "fault"}, {t1}, "user", "allowlist"),
   W({"list", "toggle"}, {t1}, "system", "users")}
=============================================================================
