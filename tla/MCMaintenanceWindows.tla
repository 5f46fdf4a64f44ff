-------------------------- MODULE MCMaintenanceWindows --------------------------
(***************************************************************************)
(* TLC instance of MaintenanceWindows.                                     *)
(***************************************************************************)
EXTENDS MaintenanceWindows, TLC

CONSTANTS s, c

MCOwner == (s :> s) @@ (c :> s)

Body(op, starts, ends, targets) ==
  [op |-> op, starts |-> starts, ends |-> ends, targets |-> targets]

\* A window on the service, edits of its interval and its targets, a
\* cancellation, and two overrides of one target.
MCCommands ==
  {Body("create", 1, 2, {s}), Body("update", None, 3, {c}), Body("update", 2, 3, None),
   Body("cancel", None, None, None),
   Body("override", None, 1, {c}), Body("override", None, 3, {c})}
=============================================================================
