----------------------------- MODULE IssueLedger -----------------------------
(***************************************************************************)
(* The life of the Issues of ONE fingerprint, as the diagnostic pipeline   *)
(* promises it: every event identity takes effect at most once, in one     *)
(* atomic step that evaluates the payload against the current Issue.       *)
(*                                                                         *)
(* The operators are the pure functions of status-domain (diagnostic.rs,   *)
(* recovery.rs, lifecycle.rs).  An Issue carries two history components    *)
(* the code does not store: the faults it counted and the recoveries that  *)
(* were credited since its causal head was last moved.                     *)
(***************************************************************************)
EXTENDS Naturals, Sequences, FiniteSets

CONSTANTS
  Events,          \* event identities
  Payloads,        \* [event, signal, at, cause]: the bodies a producer may send
  None,            \* no payload recorded, no unresolved Issue
  MinOccurrences,  \* policy: occurrences required to confirm into active
  RecoveryMin      \* policy: consecutive recoveries required to resolve

\* DiagnosticEvaluationPolicy::validate.
ASSUME PolicyAssumption ==
  MinOccurrences \in Nat \ {0} /\ RecoveryMin \in Nat \ {0, 1}
ASSUME PayloadAssumption ==
  /\ None \notin Payloads
  /\ \A p \in Payloads : p.event \in Events /\ p.at \in Nat

VARIABLES
  dedup,   \* diagnostic_event_dedup: event identity -> payload that took effect
  issues   \* the Issues of the fingerprint, oldest first

ledger == <<dedup, issues>>

\* The unresolved Issue, if there is one: only the youngest can be.
Current(list) ==
  IF list # <<>> /\ list[Len(list)].state # "resolved" THEN list[Len(list)] ELSE None

-----------------------------------------------------------------------------
(* Faults: evaluate_diagnostic and decide_state. *)

\* A batch may raise the revision by more than one; it is only compared.
FirstFault(p) ==
  [state |-> IF MinOccurrences = 1 THEN "active" ELSE "observed",
   count |-> 1, recoveries |-> 0, lastFault |-> p.event, lastSeen |-> p.at,
   revision |-> 1, faults |-> {p}, credits |-> {}]

\* Mutant: late faults are treated like any other.
NeverOutOfOrder(issue, p) == FALSE

OutOfOrder(issue, p) == p.at < issue.lastSeen

\* A late fault is counted and changes nothing else.
LateFault(issue, p) ==
  [issue EXCEPT !.count = @ + 1, !.revision = @ + 1, !.faults = @ \cup {p}]

Confirmed(issue) == issue.count + 1 >= MinOccurrences

StateAfterFault(issue) ==
  CASE issue.state = "suppressed" -> "suppressed"
    [] issue.state \in {"active", "recovering"} -> "active"
    [] issue.state = "observed" -> IF Confirmed(issue) THEN "active" ELSE "observed"

NextFault(issue, p) ==
  [issue EXCEPT !.state = StateAfterFault(issue), !.count = @ + 1,
                !.recoveries = 0, !.lastFault = p.event, !.lastSeen = p.at,
                !.revision = @ + 1, !.faults = @ \cup {p}, !.credits = {}]

AfterFault(issue, p) ==
  IF OutOfOrder(issue, p) THEN LateFault(issue, p) ELSE NextFault(issue, p)

-----------------------------------------------------------------------------
(* Recoveries: evaluate_diagnostic_recovery. *)

\* Mutant: a recovery of any counted fault is good enough.
AnyCause(issue, p) == \E f \in issue.faults : f.event = p.cause

Causal(issue, p) == p.cause = issue.lastFault

Recovered(issue) ==
  CASE issue.state = "active" -> "recovering"
    [] issue.state = "recovering" ->
         IF issue.recoveries + 1 < RecoveryMin THEN "recovering" ELSE "resolved"
    [] issue.state \in {"observed", "suppressed"} -> "resolved"

\* A stale recovery writes an audit row and leaves the Issue alone.
AfterRecovery(issue, p) ==
  IF Causal(issue, p)
  THEN [issue EXCEPT !.state = Recovered(issue), !.recoveries = @ + 1,
                     !.revision = @ + 1, !.credits = @ \cup {p}]
  ELSE issue

-----------------------------------------------------------------------------
\* What a fault writes: evaluated against `seen', the unresolved Issue its
\* consumer read, or opening one (seen = None).
FaultWrites(list, seen, p) ==
  IF seen = None THEN Append(list, FirstFault(p))
                 ELSE [list EXCEPT ![Len(list)] = AfterFault(seen, p)]

\* What a recovery writes: one that matches no Issue leaves an audit row only.
RecoveryWrites(list, seen, p) ==
  IF seen = None THEN list ELSE [list EXCEPT ![Len(list)] = AfterRecovery(seen, p)]

Effect(list, seen, p) ==
  IF p.signal = "fault" THEN FaultWrites(list, seen, p) ELSE RecoveryWrites(list, seen, p)

Revise(list, new) == [list EXCEPT ![Len(list)] = new]

\* Operators and the scheduler also move the unresolved Issue: suppressIssue,
\* acknowledgeIssue, expire_suppression and a probe's recovery, each under the
\* same revision check.
Suppressed(issue) == [issue EXCEPT !.state = "suppressed", !.revision = @ + 1]
Acknowledged(issue) == [issue EXCEPT !.revision = @ + 1]
SuppressionExpired(issue) == [issue EXCEPT !.state = "active", !.revision = @ + 1]
ProbeRecovered(issue, next) ==
  [issue EXCEPT !.state = next, !.recoveries = @ + 1, !.revision = @ + 1]

\* recovery_state: only an active or recovering Issue; whether the checkpoint
\* is operational again is the environment's choice.
ProbeOutcomes(issue) ==
  CASE issue.state = "active" -> {"recovering"}
    [] issue.state = "recovering" ->
         IF issue.recoveries + 1 >= RecoveryMin THEN {"recovering", "resolved"}
                                                ELSE {"recovering"}
    [] OTHER -> {}

Interventions(issue) ==
  {Acknowledged(issue)}
  \cup (IF issue.state = "active" THEN {Suppressed(issue)} ELSE {})
  \cup (IF issue.state = "suppressed" THEN {SuppressionExpired(issue)} ELSE {})
  \cup {ProbeRecovered(issue, next) : next \in ProbeOutcomes(issue)}

-----------------------------------------------------------------------------
Init == dedup = [e \in Events |-> None] /\ issues = <<>>

Apply(p) ==
  /\ dedup[p.event] = None
  /\ dedup' = [dedup EXCEPT ![p.event] = p]
  /\ issues' = Effect(issues, Current(issues), p)

Intervene ==
  /\ Current(issues) # None
  /\ \E new \in Interventions(Current(issues)) : issues' = Revise(issues, new)
  /\ UNCHANGED dedup

Next == (\E p \in Payloads : Apply(p)) \/ Intervene

Spec == Init /\ [][Next]_ledger
=============================================================================
