--------------------------- MODULE MonitorLedger ---------------------------
(***************************************************************************)
(* What the scheduler promises about ONE monitor, with no leases, owners,  *)
(* invocations or clocks in sight.  The monitor has a current run (its     *)
(* next_run_at); a run is completed exactly once, in one atomic step that  *)
(* folds the run's observations into the checkpoint windows as they are at *)
(* that instant, and a run whose evaluation calls for a diagnostic is only *)
(* completed after that diagnostic was recorded.  MonitorRun implements    *)
(* this specification.                                                     *)
(***************************************************************************)
EXTENDS Naturals

CONSTANTS
  Locations,   \* probe locations an operator can configure
  MaxRuns      \* bound on the number of runs (the code has none)

Runs == 1 .. MaxRuns

VARIABLES
  enabled,     \* monitors.enabled
  locations,   \* enabled rows of monitor_locations
  run,         \* ordinal of monitors.next_run_at
  window,      \* per location, the runs counted by its checkpoint window
  recorded,    \* runs whose health diagnostic is durable
  outcome      \* history: what each completed run's evaluation called for

ledger == <<enabled, locations, run, window, recorded, outcome>>

NoWindows == [l \in Locations |-> {}]

Init ==
  /\ enabled = TRUE
  /\ locations \in (SUBSET Locations) \ {{}}
  /\ run = 1
  /\ window = NoWindows
  /\ recorded = {}
  /\ outcome = [r \in Runs |-> "open"]

\* Replacing the locations forgets every checkpoint.
Configure ==
  /\ enabled' \in BOOLEAN
  /\ locations' \in (SUBSET Locations) \ {{}}
  /\ window' = NoWindows
  /\ UNCHANGED <<run, recorded, outcome>>

\* The diagnostic of the current run becomes durable, at most once per run.
Record ==
  /\ enabled /\ run \in Runs \ recorded
  /\ recorded' = recorded \cup {run}
  /\ UNCHANGED <<enabled, locations, run, window, outcome>>

\* What one window may become when the current run is folded into it.
Folds(l) == {window[l] \cup {run}, {run}}

Complete ==
  /\ enabled /\ run \in Runs
  /\ run' = run + 1
  /\ \E observed \in SUBSET locations :
       /\ window' \in [Locations -> SUBSET Runs]
       /\ \A l \in Locations :
            IF l \in observed THEN window'[l] \in Folds(l)
                              ELSE window'[l] = window[l]
  /\ \E verdict \in {"quiet", "diagnose"} :
       /\ verdict = "diagnose" => run \in recorded
       /\ outcome' = [outcome EXCEPT ![run] = verdict]
  /\ UNCHANGED <<enabled, locations, recorded>>

Next == Configure \/ Record \/ Complete

Spec == Init /\ [][Next]_ledger
=============================================================================
