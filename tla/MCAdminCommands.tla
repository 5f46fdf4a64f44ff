--------------------------- MODULE MCAdminCommands ---------------------------
(***************************************************************************)
(* TLC instances of AdminCommands: rival commands for each kind of row.    *)
(***************************************************************************)
EXTENDS AdminCommands, TLC

Command(op, key, on, expected, fields, related) ==
  [op |-> op, key |-> key, on |-> on, expected |-> expected, fields |-> fields,
   related |-> related, policy |-> None, days |-> 0]

Retain(key, on, expected, days) ==
  [Command("retain", key, on, expected, "P", {}) EXCEPT !.policy = "P", !.days = days]

\* Two patches of one service, one of them under two bodies, and its creation
\* by two clients.
Catalogue ==
  {Command("update", "k1", "web", 1, None, {"api"}),
   Command("update", "k1", "web", 1, "off", None),
   Command("update", "k2", "web", 2, None, {"db"}),
   Command("update", "k3", "web", 1, "off", None),
   Command("create", "k4", "login", 0, "on", {"api"}),
   Command("create", "k5", "login", 0, "off", {})}

\* Assignments of a diagnostic policy and of one retention policy to two
\* services, with the same and with another content.
Assignments ==
  {Command("assign", "k1", "rules", 0, "A", {}),
   Command("assign", "k2", "rules", 0, "B", {}),
   Retain("k3", "web days", 0, 30), Retain("k4", "api days", 0, 30),
   Retain("k5", "web days", 1, 60)}

Everything == Catalogue \cup Assignments

Interchangeable == Permutations(Attempts)
=============================================================================
