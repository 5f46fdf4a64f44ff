---------------------------- MODULE Reevaluation ----------------------------
(***************************************************************************)
(* The status planner (scheduling/reevaluate.rs) and everybody who runs it *)
(* at once: scheduler invocations finishing a probe, dispatchers working   *)
(* off status.reevaluation_requested rows, and mutations (a diagnostic, an *)
(* operator's command) that carry their own plan.                          *)
(*                                                                         *)
(* A planner reads all inputs and all stored statuses in one D1 batch,     *)
(* evaluates its target in memory, and later writes in one D1 batch headed *)
(* by the generation guard.  A changed row asks for its dependents to be   *)
(* evaluated again by inserting outbox rows.                               *)
(*                                                                         *)
(* Abstractions.                                                           *)
(*  - evaluation_generation is only compared for equality with the value a *)
(*    planner read, so `current' is the set of planners whose value still  *)
(*    is the stored one; every write to an input table empties it.         *)
(*  - A target has one critical monitor with a quorum of one; an issue is  *)
(*    the strongest active or recovering one of a service.                 *)
(*  - An operator override and a maintenance window are both a `window',   *)
(*    and do not overlap on one target.  A component shares the maintenance *)
(*    of the service that owns it.                                         *)
(*  - A work item whose evaluation fails becomes pending again; that it is *)
(*    given up after eight attempts is in module Outbox.                   *)
(***************************************************************************)
EXTENDS StatusRanks

CONSTANTS
  Services, Components,
  Dependencies,  \* records [source, target, impact]: the enabled edges
  Supporting,    \* pairs <<component, service>> of role 'supporting'
  Owner,         \* the service of every component
  Planners,      \* concurrent executions of the planner
  Impacts,       \* statuses an issue may stand for
  Windows,       \* statuses a window may impose
  Period,        \* how long a probe's or a diagnostic's proof lasts
  MaxTime,       \* bound: the clock
  MaxChanges,    \* bound: mutations and failing probes
  MaxProbes,     \* bound: probe runs
  MaxFaults      \* bound: lost or timed out planners

ASSUME CatalogAssumption ==
  /\ IsFiniteSet(Services) /\ IsFiniteSet(Components)
  /\ Services \cup Components # {}
  /\ Services \cap Components = {}
  /\ \A d \in Dependencies : d.source \in Services /\ d.target \in Services
                             /\ d.source # d.target /\ d.impact \in 1 .. 3
  /\ Supporting \subseteq Components \X Services
  /\ Owner \in [Components -> Services]
ASSUME ReevaluationBoundAssumption ==
  /\ Impacts \subseteq Failures /\ Windows \subseteq Statuses
  /\ Period \in Nat \ {0} /\ {MaxTime, MaxChanges, MaxProbes, MaxFaults} \subseteq Nat

Targets == Services \cup Components

VARIABLES
  now,
  \* inputs
  issue, window, proof,
  \* current_statuses, and the pending requests of the outbox per target
  row, work,
  \* planners
  pc, kind, target, change, draft, current,
  \* bounds
  changes, probes, faults

inputs  == <<issue, window, proof>>
planner == <<pc, kind, target, change, draft>>
vars    == <<now, inputs, row, work, planner, current, changes, probes, faults>>

NoWindow == [status |-> "none", until |-> 0]
NoChange == [what |-> "none"]

-----------------------------------------------------------------------------
(* Evaluation of one target from inputs `in' and stored rows `rows'.       *)

Facts == [issue |-> issue, window |-> window, proof |-> proof]

\* Half-open: a window that ends now no longer holds.
Holds(w) == w.until > now

\* The windows that hold for a target: its own, and its owner's maintenance.
WindowsOf(t, in) ==
  {w \in {in.window[t]} : Holds(w)} \cup
  {w \in {in.window[Owner[c]] : c \in Components \cap {t}} :
     Holds(w) /\ w.status = "maintenance"}

\* aggregate_status: override, maintenance, which covers an issue, issue,
\* critical monitor.
Direct(t, in) ==
  LET windows == {w.status : w \in WindowsOf(t, in)}
      healthy == in.proof[t].until > now /\ in.proof[t].healthy
  IN  IF windows # {} /\ windows # {"maintenance"}
      THEN CHOOSE status \in windows \ {"maintenance"} : TRUE
      ELSE IF windows # {} THEN "maintenance"
      ELSE IF in.issue[t] # "none" THEN in.issue[t]
      ELSE IF healthy THEN "operational" ELSE "unknown"

\* fresh_status: expired green proof is unknown, a fault does not disappear.
FreshStatus(status, until) ==
  IF status \in Failures \/ until > now THEN status ELSE "unknown"

\* Mutant: the previous row counts even if it has expired.
OwnDeadlineSticky(t, in, rows, extra) ==
  Min({in.proof[t].until, rows[t].until} \cup extra)

\* The deadlines of a target's own evidence: expired proofs do not count, the
\* previous row only while it has not expired, but supporting services always.
OwnDeadline(t, in, rows, extra) ==
  LET deadlines ==
        {u \in {in.proof[t].until, rows[t].until} : u > now}
        \cup {w.until : w \in WindowsOf(t, in)}
        \cup {rows[s].until : s \in {x \in Services : <<t, x>> \in Supporting}}
        \cup extra
  IN  IF deadlines = {} THEN now ELSE Min(deadlines)

\* Width of the widest path from one service to another (0: not reachable).
Width ==
  LET width[n \in 0 .. Cardinality(Services)] ==
        [s \in Services |-> [t \in Services |->
           IF n = 0 THEN IF t = s THEN 3 ELSE 0
           ELSE Max({width[n-1][s][t]} \cup
                    {Smaller(width[n-1][s][d.source], d.impact) :
                       d \in {e \in Dependencies : e.target = t}})]]
  IN  width[Cardinality(Services)]

Below == [s \in Services |-> {t \in Services \ {s} : Width[s][t] > 0}]

\* What compute_dependency_risk answers (module DependencyRisk).
ServiceRisk(s, rows) ==
  LET risks == {RiskThrough(FreshStatus(rows[t].direct, rows[t].until), Width[s][t]) :
                  t \in Below[s]}
      risk == StrongestRisk(risks)
  IN  IF risk = "operational" THEN "none" ELSE risk

\* service_risk also lowers the deadline to the earliest one stored by any
\* reachable service, expired or not.
ServiceDeadline(s, own, rows) ==
  Min({own} \cup {rows[t].until : t \in Below[s]})

\* support_risk
SupportRisk(c, rows) ==
  LET status(s) == FreshStatus(rows[s].effective, rows[s].until)
      risk(s) == IF status(s) = "maintenance" THEN "degraded"
                 ELSE IF status(s) = "operational" THEN "none" ELSE status(s)
      risks == {"none"} \cup {risk(s) : s \in {x \in Services : <<c, x>> \in Supporting}}
  IN  CHOOSE r \in risks : \A q \in risks : Severity(q) <= Severity(r)

Evaluate(t, in, rows, extra) ==
  LET direct == Direct(t, in)
      own == OwnDeadline(t, in, rows, extra)
      risk == IF t \in Services THEN ServiceRisk(t, rows) ELSE SupportRisk(t, rows)
  IN  [direct |-> direct,
       risk |-> risk,
       effective |-> IF Severity(risk) > Severity(direct) THEN risk ELSE direct,
       until |-> IF t \in Services THEN ServiceDeadline(t, own, rows) ELSE own]

-----------------------------------------------------------------------------
Init ==
  /\ now = 0
  /\ issue = [t \in Targets |-> "none"]
  /\ window = [t \in Targets |-> NoWindow]
  /\ proof = [t \in Targets |-> [healthy |-> TRUE, until |-> Period]]
  /\ row = [t \in Targets |-> [direct |-> "operational", risk |-> "none",
                               effective |-> "operational", until |-> Period]]
  /\ work = [t \in Targets |-> 0]
  /\ pc = [p \in Planners |-> "idle"]
  /\ kind = [p \in Planners |-> "work"]
  /\ target = [p \in Planners |-> CHOOSE t \in Targets : TRUE]
  /\ change = [p \in Planners |-> NoChange]
  /\ draft = [p \in Planners |-> <<>>]
  /\ current = {}
  /\ changes = 0 /\ probes = 0 /\ faults = 0

Start(p, step, k, t) ==
  /\ pc[p] = "idle"
  /\ pc' = [pc EXCEPT ![p] = step]
  /\ kind' = [kind EXCEPT ![p] = k]
  /\ target' = [target EXCEPT ![p] = t]

\* The commit of a probe run: a fresh checkpoint and a work item of its own,
\* whose owner goes on to evaluate the target.
Probe(p, t) ==
  /\ proof[t].until < now + Period
  /\ probes < MaxProbes /\ probes' = probes + 1
  /\ Start(p, "reading", "probe", t)
  /\ \E healthy \in BOOLEAN :
       /\ proof' = [proof EXCEPT ![t] = [healthy |-> healthy, until |-> now + Period]]
       /\ changes' = IF healthy THEN changes ELSE changes + 1
       /\ changes' <= MaxChanges
  /\ work' = [work EXCEPT ![t] = @ + 1]
  /\ current' = {}
  /\ UNCHANGED <<now, issue, window, row, change, draft, faults>>

\* A dispatcher takes a pending status.reevaluation_requested row.
TakeWork(p, t) ==
  /\ work[t] > 0
  /\ Start(p, "reading", "work", t)
  /\ work' = [work EXCEPT ![t] = @ - 1]
  /\ UNCHANGED <<now, inputs, row, change, draft, current, changes, probes, faults>>

Forget(p) ==
  /\ pc' = [pc EXCEPT ![p] = "idle"]
  /\ kind' = [kind EXCEPT ![p] = "work"]
  /\ target' = [target EXCEPT ![p] = CHOOSE t \in Targets : TRUE]
  /\ change' = [change EXCEPT ![p] = NoChange]
  /\ draft' = [draft EXCEPT ![p] = <<>>]
  /\ current' = current \ {p}

\* plan_reevaluation_with_overlay without an overlay.
Plan(p) ==
  /\ pc[p] = "reading"
  /\ pc' = [pc EXCEPT ![p] = "planned"]
  /\ draft' = [draft EXCEPT ![p] =
                 [t \in {target[p]} |-> Evaluate(t, Facts, row, {})]]
  /\ current' = current \cup {p}
  /\ UNCHANGED <<now, inputs, row, work, kind, target, change, changes, probes, faults>>

Overlaid(ch) ==
  CASE ch.what = "issue"  -> [Facts EXCEPT !.issue[ch.on] = ch.issue]
    [] ch.what = "window" -> [Facts EXCEPT !.window[ch.on] = ch.window]

\* The rows of `old' with those of `new' in their place.
Over(new, old) ==
  [t \in DOMAIN new \cup DOMAIN old |-> IF t \in DOMAIN new THEN new[t] ELSE old[t]]

SupportedBy(t) == {c \in Components : <<c, t>> \in Supporting}
OwnedBy(t) == {c \in Components : Owner[c] = t}

\* The targets a command has evaluated with its own: the components of a
\* service, the owner of a component.
Related(t) ==
  IF t \in Services THEN SupportedBy(t) \cup OwnedBy(t) ELSE {Owner[t]}

\* plan_admin: services first, then the components, planned from the new row
\* of the service (there is one) rather than from the stored one.
DraftAll(ch, targets, extra) ==
  LET draftOf(subset, rows) == [t \in subset |-> Evaluate(t, Overlaid(ch), rows, extra)]
      ofServices == draftOf(targets \cap Services, row)
      ofComponents == draftOf(targets \ Services, Over(ofServices, row))
  IN  Over(ofServices, ofComponents)

\* A mutation reads its snapshot and plans; each of its targets is read in a
\* batch of its own, but a change between two of them fails the guard of one.
Mutate(p, ch, targets, extra) ==
  /\ changes < MaxChanges /\ changes' = changes + 1
  /\ Start(p, "planned", "mutation", ch.on)
  /\ change' = [change EXCEPT ![p] = ch]
  /\ draft' = [draft EXCEPT ![p] = DraftAll(ch, targets, extra)]
  /\ current' = current \cup {p}
  /\ UNCHANGED <<now, inputs, row, work, probes, faults>>

\* The diagnostic consumer: an issue opens, changes or is resolved; its
\* evidence is fresh for one period.  Only the service itself is planned.
Diagnose(p, s) ==
  \E status \in (Impacts \cup {"none"}) \ {issue[s]} :
    Mutate(p, [what |-> "issue", on |-> s, issue |-> status], {s}, {now + Period})

\* suppressIssue hides an issue; setStatusOverride and maintenance commands
\* open a window, which one that still holds forbids.
Command(p, t) ==
  \/ /\ issue[t] # "none"
     /\ Mutate(p, [what |-> "issue", on |-> t, issue |-> "none"],
               {t} \cup Related(t), {})
  \/ /\ ~Holds(window[t])
     /\ \E status \in Windows :
          Mutate(p, [what |-> "window", on |-> t,
                     window |-> [status |-> status, until |-> now + 1]],
                 {t} \cup Related(t), {})

-----------------------------------------------------------------------------
\* Targets whose evaluation read t: reverse dependents and components.
Dependents(t) ==
  {d.source : d \in {e \in Dependencies : e.target = t}} \cup SupportedBy(t)

\* Mutant: fan out on every evaluation.
AlwaysChanged(t, new) == TRUE

\* direct, effective or freshness changed (the planner's snapshot of the row
\* is the stored row whenever the guard lets it land).
FanoutChanged(t, new) ==
  \/ row[t].direct # new.direct
  \/ row[t].effective # new.effective
  \/ row[t].until # new.until

Requests(new, x) ==
  Cardinality({t \in DOMAIN new : FanoutChanged(t, new[t]) /\ x \in Dependents(t)})

\* Mutant: the batch without its guard.
AnyGeneration(p) == TRUE

\* The guard at the head of the batch.
SameGeneration(p) == p \in current

\* The batch: guard, mutation, rows, fan-out.
Write(p) ==
  /\ row' = Over(draft[p], row)
  /\ LET in == IF change[p] = NoChange THEN Facts ELSE Overlaid(change[p])
     IN  issue' = in.issue /\ window' = in.window /\ proof' = in.proof
  /\ work' = [x \in Targets |-> work[x] + Requests(draft[p], x)]

\* Mutant: a failed evaluation counts as delivered.
Dropped(p) == work' = work

\* A failed work item becomes pending again; a probe leaves the item of its
\* run behind; a command is answered with a conflict.
Returned(p) ==
  work' = IF kind[p] = "work" THEN [work EXCEPT ![target[p]] = @ + 1] ELSE work

Land(p) ==
  /\ pc[p] \in {"planned", "late"} /\ SameGeneration(p)
  /\ Write(p)
  /\ pc' = [pc EXCEPT ![p] = "idle"]
  /\ kind' = [kind EXCEPT ![p] = "work"]
  /\ target' = [target EXCEPT ![p] = CHOOSE t \in Targets : TRUE]
  /\ change' = [change EXCEPT ![p] = NoChange]
  /\ draft' = [draft EXCEPT ![p] = <<>>]
  /\ current' = {}
  /\ UNCHANGED <<now, changes, probes, faults>>

Conflict(p) ==
  /\ pc[p] = "planned" /\ ~SameGeneration(p)
  /\ Returned(p)
  /\ Forget(p)
  /\ UNCHANGED <<now, inputs, row, changes, probes, faults>>

\* The isolate dies or the call times out: the work item's lease runs out or
\* it is marked as failed, and a batch already sent may still arrive.
Lose(p) ==
  /\ faults < MaxFaults /\ faults' = faults + 1
  /\ pc[p] \in {"reading", "planned"}
  /\ Returned(p)
  /\ IF pc[p] = "planned"
     THEN pc' = [pc EXCEPT ![p] = "late"]
          /\ UNCHANGED <<kind, target, change, draft, current>>
     ELSE Forget(p)
  /\ UNCHANGED <<now, inputs, row, changes, probes>>

Vanish(p) ==
  /\ pc[p] = "late"
  /\ Forget(p)
  /\ UNCHANGED <<now, inputs, row, work, changes, probes, faults>>

\* enqueue_expired: an ended window asks for its target once, an ended
\* maintenance also for the components of the service.  (It is completed, which
\* changes an input table; an override just lapses.)
Expire(t) ==
  /\ window[t] # NoWindow /\ ~Holds(window[t])
  /\ window' = [window EXCEPT ![t] = NoWindow]
  /\ IF window[t].status = "maintenance"
     THEN /\ work' = [x \in Targets |-> IF x \in {t} \cup OwnedBy(t)
                                       THEN work[x] + 1 ELSE work[x]]
          /\ current' = {}
     ELSE work' = [work EXCEPT ![t] = @ + 1] /\ UNCHANGED current
  /\ UNCHANGED <<now, issue, proof, row, planner, changes, probes, faults>>

Tick ==
  /\ now < MaxTime /\ now' = now + 1
  /\ UNCHANGED <<inputs, row, work, planner, current, changes, probes, faults>>

-----------------------------------------------------------------------------
Advance(p) == Plan(p) \/ Land(p) \/ Conflict(p) \/ Vanish(p)

Next ==
  \/ Tick
  \/ \E t \in Targets : Expire(t)
  \/ \E p \in Planners :
       \/ Advance(p) \/ Lose(p)
       \/ \E t \in Targets : Probe(p, t) \/ TakeWork(p, t) \/ Command(p, t)
       \/ \E s \in Services : Diagnose(p, s)

Spec == Init /\ [][Next]_vars

\* Every due monitor is probed again, every request is taken up, every planner
\* comes to an end and expiry is scanned for: what Cron's recurring ticks do.
Fairness ==
  /\ WF_vars(Tick)
  /\ \A t \in Targets :
       /\ WF_vars(Expire(t))
       /\ SF_vars(\E p \in Planners : Probe(p, t))
       /\ SF_vars(\E p \in Planners : TakeWork(p, t))
  /\ \A p \in Planners : WF_vars(Advance(p))

FairSpec == Spec /\ Fairness

-----------------------------------------------------------------------------
\* Types of every variable.
RowOK(r) ==
  /\ r.direct \in Statuses /\ r.effective \in Statuses
  /\ r.risk \in (Statuses \ {"operational", "maintenance"}) \cup {"none"}
  /\ r.until \in Nat

TypeOK ==
  /\ now \in 0 .. MaxTime
  /\ issue \in [Targets -> Impacts \cup {"none"}]
  /\ \A t \in Targets : window[t].status \in Windows \cup {"none"}
                        /\ window[t].until \in Nat
  /\ \A t \in Targets : proof[t].healthy \in BOOLEAN /\ proof[t].until \in Nat
  /\ \A t \in Targets : RowOK(row[t]) /\ work[t] \in Nat
  /\ pc \in [Planners -> {"idle", "reading", "planned", "late"}]
  /\ kind \in [Planners -> {"work", "probe", "mutation"}]
  /\ target \in [Planners -> Targets]
  /\ \A p \in Planners :
       /\ DOMAIN draft[p] \subseteq Targets
       /\ \A t \in DOMAIN draft[p] : RowOK(draft[p][t])
  /\ current \in SUBSET Planners
  /\ changes \in 0 .. MaxChanges /\ probes \in 0 .. MaxProbes /\ faults \in 0 .. MaxFaults

\* A status is only ever written as what the inputs and the other rows, as
\* they are at that very moment, amount to, or with a deadline that is over:
\* no probe result, override, issue or dependency that changed between the
\* planner's read and its write is lost.
WritesWhatHolds ==
  [][\A t \in Targets :
       row'[t] # row[t] /\ row'[t].until > now =>
         LET true == Evaluate(t, Facts', row', {}) IN
         /\ row'[t].direct = true.direct
         /\ row'[t].risk = true.risk
         /\ row'[t].effective = true.effective]_vars

\* Nothing is being evaluated or waits to be.
AtRest ==
  /\ \A t \in Targets : work[t] = 0 /\ (window[t] = NoWindow \/ Holds(window[t]))
  /\ \A p \in Planners : pc[p] = "idle"

\* The services below s whose changes ask for s.
Heard(s) == {t \in Below[s] : s \in Dependents(t)}

\* At rest, a row that has not expired gives its target's own inputs their due
\* and hides no failure of a service whose changes ask for it; if all that it
\* reads ask for it, it is what a full evaluation would give.  No request was
\* lost, dropped or forgotten by the fan-out.
RestIsConsistent ==
  /\ TypeOK
  /\ AtRest => \A t \in Targets :
       row[t].until > now =>
         LET true == Evaluate(t, Facts, row, {}) IN
         /\ row[t].direct = true.direct
         /\ t \in Services => \A s \in Heard(t) :
              Severity(RiskThrough(FreshStatus(row[s].direct, row[s].until), Width[t][s]))
                <= Severity(row[t].effective)
         /\ t \in Components \/ Heard(t) = Below[t] =>
              row[t].risk = true.risk /\ row[t].effective = true.effective

\* "independent invocations converge through the outbox" (scheduling/README.md:17):
\* at rest, a row that has not expired is what a full evaluation would give.
\* This does not hold: a row is computed from all services below it, and only
\* those directly below ask for it, if their own row changes.
ConvergesThroughOutbox ==
  AtRest => \A t \in Targets :
    row[t].until > now => row[t].effective = Evaluate(t, Facts, row, {}).effective

\* Changes settle, whatever the dependency graph: no endless fan-out.
Converges == <>[]AtRest

\* Services that neither are nor depend on a part of a dependency cycle.
Acyclic ==
  {s \in Services : \A t \in Below[s] \cup {s} : \A u \in Below[t] : t \notin Below[u]}

\* Services that keep being probed end up with a status that has not expired,
\* unless a dependency cycle is in their way.
StaysFresh == <>[](\A s \in Acyclic : row[s].until > now)

\* "Cycle-safe graph risk and earliest reachable proof deadline"
\* (scheduling/reevaluate.rs:454): with every reachable proof renewed, the
\* earliest of them is in the future.  This does not hold: each part of a cycle
\* takes over the deadline the others had, and none lets go of it.
CyclesStayFresh == <>[](\A t \in Services : row[t].until > now)
=============================================================================
