----------------------------- MODULE MonitorRun -----------------------------
(***************************************************************************)
(* One monitor row in D1 and the Cron invocations that compete to execute  *)
(* its due runs (status-backend/src/scheduling: runtime, store, monitor).  *)
(*                                                                         *)
(* Every invocation is a chain of awaits: a scan for due rows, an atomic   *)
(* claim, regional probes, a read of the checkpoints, an optional          *)
(* diagnostic batch and the commit batch.  Between any two of them other   *)
(* invocations, an operator's updateMonitor and the clock may step.  A D1  *)
(* batch is atomic; the assertion at its head (lease_guard) aborts it.     *)
(*                                                                         *)
(* Abstractions.                                                           *)
(*  - monitors.revision is only ever compared for equality with a value    *)
(*    the comparing invocation read, so the model keeps the set `current'  *)
(*    of invocations whose value still is the row's: every revision + 1    *)
(*    empties it, a claim leaves only the claimant in it.                  *)
(*  - lease_expires_at and the invocation deadline are countdowns.         *)
(*  - A checkpoint window is the set of runs it counts (window_samples is  *)
(*    its cardinality).                                                    *)
(*  - Which verdict the samples earn is not decided here: any verdict the  *)
(*    observations permit may be chosen.                                   *)
(***************************************************************************)
EXTENDS Naturals

CONSTANTS
  Invocations,  \* Cron invocations that may be alive at once
  Locations,    \* probe locations an operator can configure
  Nobody,       \* NULL lease_owner
  Lease,        \* SCHEDULER_LEASE_MS, in clock steps
  Deadline,     \* SCHEDULER_INVOCATION_DEADLINE_MS, in clock steps
  MaxRuns,      \* bound: runs that come due
  MaxFaults,    \* bound: lost invocations and failed calls
  MaxEdits      \* bound: operator updates

\* limits() refuses a lease shorter than the deadline plus five seconds.
ASSUME LeaseAssumption ==
  /\ Deadline \in Nat /\ Lease \in Nat /\ Lease > Deadline
ASSUME NobodyAssumption == Nobody \notin Invocations
ASSUME BoundAssumption ==
  MaxRuns \in Nat \ {0} /\ MaxFaults \in Nat /\ MaxEdits \in Nat

Runs == 1 .. MaxRuns

VARIABLES
  \* the row in monitors, its locations and checkpoints
  enabled, locations, run, due, owner, leaseLeft, current, window,
  \* diagnostics keyed by the run's event id; what completed runs called for
  recorded, outcome,
  \* per invocation
  pc, budget, myRun, mine, seen, plan,
  \* bounds
  faults, edits

row       == <<enabled, locations, run, due, owner, leaseLeft, current, window>>
evidence  == <<recorded, outcome>>
local     == <<pc, budget, myRun, mine, seen, plan>>
vars      == <<row, evidence, local, faults, edits>>

NoWindows == [l \in Locations |-> {}]

\* Alive and between its claim and the end of its run.
Working == {"claimed", "located", "probed", "evaluated", "guarded",
            "diagnosing", "diagnosed", "committing"}
\* Alive: the deadline timer still bounds it.
Live == Working \cup {"scanned", "settling", "failed"}
\* Gone, with a batch it sent still on its way to D1.
Late == {"lateDiagnostic", "lateCommit"}

-----------------------------------------------------------------------------
Init ==
  /\ enabled = TRUE
  /\ locations \in (SUBSET Locations) \ {{}}
  /\ run = 1 /\ due = FALSE
  /\ owner = Nobody /\ leaseLeft = 0
  /\ current = {}
  /\ window = NoWindows
  /\ recorded = {}
  /\ outcome = [r \in Runs |-> "open"]
  /\ pc = [i \in Invocations |-> "idle"]
  /\ budget = [i \in Invocations |-> 0]
  /\ myRun = [i \in Invocations |-> 1]
  /\ mine = [i \in Invocations |-> "quiet"]
  /\ seen = [i \in Invocations |-> {}]
  /\ plan = [i \in Invocations |-> NoWindows]
  /\ faults = 0 /\ edits = 0

\* next_run_at <= now becomes true.
ComeDue ==
  /\ ~due /\ run \in Runs
  /\ due' = TRUE
  /\ UNCHANGED <<enabled, locations, run, owner, leaseLeft, current, window,
                 evidence, local, faults, edits>>

\* Mutants: an expiry test one step early; expired leases never reclaimed.
LeaseFreeEarly == owner = Nobody \/ leaseLeft <= 1
LeaseFreeNever == owner = Nobody

LeaseFree == owner = Nobody \/ leaseLeft = 0

\* The candidate scan of store.due: a snapshot of the row and its revision.
\* A fresh random owner starts every invocation: a slot whose owner is still
\* named by the row cannot stand for a new one.
Scan(i) ==
  /\ pc[i] = "idle" /\ owner # i
  /\ enabled /\ due /\ LeaseFree
  /\ pc' = [pc EXCEPT ![i] = "scanned"]
  /\ budget' = [budget EXCEPT ![i] = Deadline]
  /\ myRun' = [myRun EXCEPT ![i] = run]
  /\ current' = current \cup {i}
  /\ UNCHANGED <<enabled, locations, run, due, owner, leaseLeft, window,
                 evidence, mine, seen, plan, faults, edits>>

\* Everything an ended invocation held in memory is gone.
Forget(i) ==
  /\ budget' = [budget EXCEPT ![i] = 0]
  /\ myRun' = [myRun EXCEPT ![i] = 1]
  /\ mine' = [mine EXCEPT ![i] = "quiet"]
  /\ seen' = [seen EXCEPT ![i] = {}]
  /\ plan' = [plan EXCEPT ![i] = NoWindows]

Claimable(i) == i \in current /\ enabled /\ due /\ LeaseFree

\* One UPDATE ... WHERE revision = ? ... RETURNING revision.
Claim(i) ==
  /\ pc[i] = "scanned" /\ Claimable(i)
  /\ pc' = [pc EXCEPT ![i] = "claimed"]
  /\ owner' = i /\ leaseLeft' = Lease
  /\ current' = {i}
  /\ UNCHANGED <<enabled, locations, run, due, window, evidence,
                 budget, myRun, mine, seen, plan, faults, edits>>

\* The row changed since the scan, or another invocation holds it: skipped.
ClaimMissed(i) ==
  /\ pc[i] = "scanned" /\ ~Claimable(i)
  /\ pc' = [pc EXCEPT ![i] = "idle"]
  /\ current' = current \ {i}
  /\ Forget(i)
  /\ UNCHANGED <<enabled, locations, run, due, owner, leaseLeft, window,
                 evidence, faults, edits>>

\* A read of its own, after the claim.
ReadLocations(i) ==
  /\ pc[i] = "claimed"
  /\ pc' = [pc EXCEPT ![i] = "located"]
  /\ seen' = [seen EXCEPT ![i] = locations]
  /\ UNCHANGED <<row, evidence, budget, myRun, mine, plan, faults, edits>>

\* A region that times out, fails or answers with a stale, foreign or
\* misplaced observation leaves no observation at all.
Probe(i) ==
  /\ pc[i] = "located"
  /\ pc' = [pc EXCEPT ![i] = "probed"]
  /\ \E answered \in SUBSET seen[i] : seen' = [seen EXCEPT ![i] = answered]
  /\ UNCHANGED <<row, evidence, budget, myRun, mine, plan, faults, edits>>

\* read_checkpoints, then evaluate_batch on what was read.  A window restarts
\* when the executor, the colo or the policy changed or its span is over.
Evaluate(i) ==
  /\ pc[i] = "probed"
  /\ pc' = [pc EXCEPT ![i] = "evaluated"]
  /\ \E restarted \in SUBSET seen[i] :
       plan' = [plan EXCEPT ![i] =
         [l \in Locations |->
            IF l \in restarted THEN {myRun[i]}
            ELSE IF l \in seen[i] THEN window[l] \cup {myRun[i]}
            ELSE {}]]
  /\ \E verdict \in IF seen[i] = {} THEN {"quiet"} ELSE {"quiet", "diagnose"} :
       mine' = [mine EXCEPT ![i] = verdict]
  /\ UNCHANGED <<row, evidence, budget, myRun, seen, faults, edits>>

Unexpired(i) == owner = i /\ leaseLeft > 0

\* owns_lease: refused with monitor_lease_lost.
CheckLease(i) ==
  /\ pc[i] = "evaluated" /\ mine[i] = "diagnose"
  /\ pc' = [pc EXCEPT ![i] = IF Unexpired(i) THEN "guarded" ELSE "failed"]
  /\ UNCHANGED <<row, evidence, budget, myRun, mine, seen, plan, faults, edits>>

\* The event id names the run and the digest covers observed_at, so the event
\* of another attempt of the same run never has this attempt's digest.
KnownEvent(i) == myRun[i] \in recorded

\* Deduplication read of the diagnostic pipeline: idempotency_conflict.
LookUpEvent(i) ==
  /\ pc[i] = "guarded"
  /\ pc' = [pc EXCEPT ![i] = IF KnownEvent(i) THEN "failed" ELSE "diagnosing"]
  /\ UNCHANGED <<row, evidence, budget, myRun, mine, seen, plan, faults, edits>>

\* Mutant: a fence that trusts the owner and the run, not the revision.
FenceWithoutRevision(i) == owner = i /\ run = myRun[i] /\ enabled

\* lease_guard, evaluated by D1 inside the batch.  Its clock was sampled when
\* the batch was built, by Unexpired; everything else is read here.
Fence(i) == owner = i /\ i \in current /\ run = myRun[i] /\ enabled

\* The diagnostic batch reaches D1.
RecordDiagnostic(i) ==
  recorded' = IF Fence(i) THEN recorded \cup {myRun[i]} ELSE recorded

LandDiagnostic(i) ==
  /\ pc[i] = "diagnosing"
  /\ RecordDiagnostic(i)
  /\ pc' = [pc EXCEPT ![i] = IF Fence(i) THEN "diagnosed" ELSE "failed"]
  /\ UNCHANGED <<row, outcome, budget, myRun, mine, seen, plan, faults, edits>>

Committable(i) == pc[i] = "diagnosed" \/ (pc[i] = "evaluated" /\ mine[i] = "quiet")

SendCommit(i) ==
  /\ Committable(i)
  /\ pc' = [pc EXCEPT ![i] = IF Unexpired(i) THEN "committing" ELSE "failed"]
  /\ UNCHANGED <<row, evidence, budget, myRun, mine, seen, plan, faults, edits>>

\* Mutant: the commit batch without its guard.
CompleteRunUnfenced(i) ==
  /\ window' = [l \in Locations |->
                  IF l \in seen[i] THEN plan[i][l] ELSE window[l]]
  /\ run' = run + 1 /\ due' = FALSE
  /\ owner' = Nobody /\ leaseLeft' = 0
  /\ current' = {}
  /\ outcome' = [outcome EXCEPT ![myRun[i]] = mine[i]]
  /\ UNCHANGED <<enabled, locations>>

\* commit_evaluation: guard, checkpoint upserts, COMPLETE_MONITOR_SQL and the
\* run's status.reevaluation_requested row (there as soon as outcome is not
\* "open").
CompleteRun(i) ==
  IF Fence(i)
  THEN /\ window' = [l \in Locations |->
                       IF l \in seen[i] THEN plan[i][l] ELSE window[l]]
       /\ run' = run + 1 /\ due' = FALSE
       /\ owner' = Nobody /\ leaseLeft' = 0
       /\ current' = {}
       /\ outcome' = [outcome EXCEPT ![myRun[i]] = mine[i]]
       /\ UNCHANGED <<enabled, locations>>
  ELSE UNCHANGED <<row, outcome>>

LandCommit(i) ==
  /\ pc[i] = "committing"
  /\ CompleteRun(i)
  /\ pc' = [pc EXCEPT ![i] = IF Fence(i) THEN "settling" ELSE "failed"]
  /\ UNCHANGED <<recorded, budget, myRun, mine, seen, plan, faults, edits>>

\* probe_lifecycle::apply and reevaluate_with_source touch no monitor row.
Settle(i) ==
  /\ pc[i] = "settling"
  /\ pc' = [pc EXCEPT ![i] = "idle"]
  /\ Forget(i)
  /\ UNCHANGED <<row, evidence, faults, edits>>

\* Mutant: a release that does not name its owner.
ReleaseAnyOwner(i) ==
  /\ pc[i] = "failed"
  /\ pc' = [pc EXCEPT ![i] = "idle"]
  /\ owner' = Nobody /\ leaseLeft' = 0 /\ current' = {}
  /\ Forget(i)
  /\ UNCHANGED <<enabled, locations, run, due, window, evidence, faults, edits>>

\* tick() releases the lease of a failed or never started monitor; the UPDATE
\* matches only a row that still names this owner.
Release(i) ==
  /\ pc[i] = "failed"
  /\ pc' = [pc EXCEPT ![i] = "idle"]
  /\ IF owner = i
     THEN owner' = Nobody /\ leaseLeft' = 0 /\ current' = {}
     ELSE UNCHANGED <<owner, leaseLeft>> /\ current' = current \ {i}
  /\ Forget(i)
  /\ UNCHANGED <<enabled, locations, run, due, window, evidence, faults, edits>>

-----------------------------------------------------------------------------
\* An awaited call fails (or its answer is lost after it took effect).
CallFails(i) ==
  /\ faults < MaxFaults /\ faults' = faults + 1
  /\ pc[i] \in Working \cup {"settling"}
  /\ pc' = [pc EXCEPT ![i] = "failed"]
  /\ UNCHANGED <<row, evidence, budget, myRun, mine, seen, plan, edits>>

\* The deadline drops the future, or the isolate dies; a batch already sent
\* is not recalled.
Cancel(i) ==
  /\ faults < MaxFaults /\ faults' = faults + 1
  /\ pc[i] \in Live
  /\ CASE pc[i] = "diagnosing" ->
            /\ pc' = [pc EXCEPT ![i] = "lateDiagnostic"]
            /\ UNCHANGED <<current, budget, myRun, mine, seen, plan>>
       [] pc[i] = "committing" ->
            /\ pc' = [pc EXCEPT ![i] = "lateCommit"]
            /\ UNCHANGED <<current, budget, myRun, mine, seen, plan>>
       [] OTHER ->
            /\ pc' = [pc EXCEPT ![i] = "idle"]
            /\ current' = current \ {i}
            /\ Forget(i)
  /\ UNCHANGED <<enabled, locations, run, due, owner, leaseLeft, window,
                 evidence, edits>>

Gone(i) == pc' = [pc EXCEPT ![i] = "idle"] /\ Forget(i)

\* A batch of a cancelled invocation arrives: the same guard decides.
LateDiagnostic(i) ==
  /\ pc[i] = "lateDiagnostic" /\ Gone(i)
  /\ RecordDiagnostic(i)
  /\ current' = current \ {i}
  /\ UNCHANGED <<enabled, locations, run, due, owner, leaseLeft, window,
                 outcome, faults, edits>>

LateCommit(i) ==
  /\ pc[i] = "lateCommit" /\ Gone(i)
  /\ CompleteRun(i)
  /\ UNCHANGED <<recorded, faults, edits>>

\* ... or never arrives.
LateLost(i) ==
  /\ pc[i] \in Late /\ Gone(i)
  /\ current' = current \ {i}
  /\ UNCHANGED <<enabled, locations, run, due, owner, leaseLeft, window,
                 evidence, faults, edits>>

\* updateMonitor: any patch bumps the revision and re-inserts the locations,
\* whose deletion cascades to the checkpoints; the lease is left in place.
UpdateMonitor ==
  /\ edits < MaxEdits /\ edits' = edits + 1
  /\ enabled' \in BOOLEAN
  /\ locations' \in (SUBSET Locations) \ {{}}
  /\ window' = NoWindows
  /\ current' = {}
  /\ UNCHANGED <<run, due, owner, leaseLeft, evidence, local, faults>>

\* The clock.  A live invocation is cancelled before its deadline passes.
Tick ==
  /\ \A i \in Invocations : pc[i] \in Live => budget[i] > 0
  /\ leaseLeft > 0 \/ \E i \in Invocations : budget[i] > 0
  /\ leaseLeft' = IF leaseLeft > 0 THEN leaseLeft - 1 ELSE 0
  /\ budget' = [i \in Invocations |-> IF budget[i] > 0 THEN budget[i] - 1 ELSE 0]
  /\ UNCHANGED <<enabled, locations, run, due, owner, current, window,
                 evidence, pc, myRun, mine, seen, plan, faults, edits>>

-----------------------------------------------------------------------------
\* The steps an invocation takes on its own account.
Advance(i) ==
  \/ Claim(i) \/ ClaimMissed(i) \/ ReadLocations(i) \/ Probe(i) \/ Evaluate(i)
  \/ CheckLease(i) \/ LookUpEvent(i) \/ LandDiagnostic(i)
  \/ SendCommit(i) \/ LandCommit(i) \/ Settle(i) \/ Release(i)

Deliver(i) == LateDiagnostic(i) \/ LateCommit(i) \/ LateLost(i)

Next ==
  \/ ComeDue \/ UpdateMonitor \/ Tick
  \/ \E i \in Invocations :
       Scan(i) \/ Advance(i) \/ Deliver(i) \/ CallFails(i) \/ Cancel(i)

\* Cron keeps firing, every await answers or is cancelled, time passes.
Fairness ==
  /\ WF_vars(ComeDue) /\ WF_vars(Tick)
  /\ WF_vars(\E i \in Invocations : Scan(i))
  /\ \A i \in Invocations : WF_vars(Advance(i)) /\ WF_vars(Deliver(i))

Spec == Init /\ [][Next]_vars

FairSpec == Spec /\ Fairness

-----------------------------------------------------------------------------
\* Type correctness of every variable.
TypeOK ==
  /\ enabled \in BOOLEAN /\ due \in BOOLEAN
  /\ locations \in SUBSET Locations
  /\ run \in 1 .. MaxRuns + 1
  /\ owner \in Invocations \cup {Nobody}
  /\ leaseLeft \in 0 .. Lease
  /\ current \in SUBSET Invocations
  /\ window \in [Locations -> SUBSET Runs]
  /\ recorded \in SUBSET Runs
  /\ outcome \in [Runs -> {"open", "quiet", "diagnose"}]
  /\ pc \in [Invocations -> Live \cup Late \cup {"idle"}]
  /\ budget \in [Invocations -> 0 .. Deadline]
  /\ myRun \in [Invocations -> Runs]
  /\ mine \in [Invocations -> {"quiet", "diagnose"}]
  /\ seen \in [Invocations -> SUBSET Locations]
  /\ plan \in [Invocations -> [Locations -> SUBSET Runs]]
  /\ faults \in 0 .. MaxFaults /\ edits \in 0 .. MaxEdits

\* Only runs within the bound come due.
DueInRange == due => run \in Runs

\* An invocation at work holds the lease, and the lease outlives it.
Holder ==
  \A i \in Invocations :
    pc[i] \in Working => owner = i /\ leaseLeft > budget[i]

\* As long as the revision is the one an invocation claimed, what it read is
\* what the row still says, and its plan folds the windows still stored.
Planned == {"evaluated", "guarded", "diagnosing", "diagnosed", "committing"}
SnapshotOf(i) ==
  /\ pc[i] # "idle" => myRun[i] = run /\ enabled
  /\ pc[i] \in {"located", "probed"} \cup Planned \cup Late
       => seen[i] \subseteq locations
  /\ pc[i] \in Planned \cup Late
       => \A l \in seen[i] : plan[i][l] \in {window[l] \cup {run}, {run}}

Snapshot == \A i \in current : SnapshotOf(i)

\* A commit that calls for a diagnostic is sent after the diagnostic landed.
DiagnosticFirst ==
  \A i \in Invocations :
    \/ pc[i] = "diagnosed"
    \/ pc[i] \in {"committing", "lateCommit"} /\ mine[i] = "diagnose"
    => myRun[i] \in recorded

\* The inductive invariant.
Inv == TypeOK /\ DueInRange /\ Holder /\ Snapshot /\ DiagnosticFirst

\* A monitor is probed by one live invocation at a time, whatever was lost,
\* cancelled or edited before: leases outlive the invocation that took them.
OneWorker ==
  \A i, j \in Invocations : pc[i] \in Working /\ pc[j] \in Working => i = j

\* An unexpired lease ends by its holder's own release or commit only, never
\* by another invocation's failure path.
OnlyHolderEndsLease ==
  [][\A i \in Invocations :
       owner = i /\ leaseLeft > 0 /\ owner' # i
         => pc[i] \in {"failed", "committing", "lateCommit"} /\ pc'[i] # pc[i]]_vars

\* Every completed run is folded, atomically and once, into the checkpoints
\* that are current when it lands, and never before its diagnostic: no lost
\* update between the checkpoint read and the commit, no resurrection of
\* windows an edit deleted.
Ledger ==
  INSTANCE MonitorLedger WITH enabled <- enabled, locations <- locations, run <- run,
    window <- window, recorded <- recorded, outcome <- outcome
ImplementsLedger == Ledger!Spec

\* A due run of an enabled monitor is eventually completed, or at least its
\* diagnostic is durable, despite lost invocations and edits.
RunSettles ==
  \A r \in Runs : run = r /\ due ~> run > r \/ r \in recorded \/ ~enabled

\* "failed persistence retains retryability instead of inventing success"
\* (runtime.rs:48): a due run of an enabled monitor eventually completes.
RunCompletes ==
  \A r \in Runs : run = r /\ due ~> run > r \/ ~enabled
=============================================================================
