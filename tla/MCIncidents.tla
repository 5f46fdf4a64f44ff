------------------------------ MODULE MCIncidents ------------------------------
(***************************************************************************)
(* TLC instance of Incidents.                                              *)
(***************************************************************************)
EXTENDS Incidents, TLC

CONSTANTS a, b, c, s, t, month, week

MCServiceOf == (a :> s) @@ (b :> t) @@ (c :> s)
MCRetentionOf == (a :> {month}) @@ (b :> {week})
MCDays == (month :> 1) @@ (week :> 1)
MCBatch == (month :> 1) @@ (week :> 1)

Command(state, issues, components) ==
  [state |-> state, issues |-> issues, components |-> components]

\* A creation, and patches that move the state, replace the links, or both.
MCCommands ==
  {Command(None, {a}, {c}), Command(None, {b}, None), Command("identified", {}, {}),
   Command("resolved", None, None)}
=============================================================================
