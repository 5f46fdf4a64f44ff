-------------------------- MODULE MaintenanceWindows --------------------------
(***************************************************************************)
(* Maintenance windows and status overrides over time (status-backend/src/ *)
(* admin/mutations/lifecycle.rs, enqueue_expired of scheduling/store.rs,   *)
(* delivery in scheduling/runtime.rs).                                     *)
(*                                                                         *)
(* What the status of a target must show depends on the clock, but it is   *)
(* only computed when somebody asks: an operator command evaluates in its  *)
(* own batch, as of the time it was planned; a tick finds windows that     *)
(* started or ended and overrides that expired, and puts one piece of work *)
(* per target in the outbox; a delivery evaluates one target.  All of them *)
(* plan from a snapshot and write under the evaluation generation.         *)
(*                                                                         *)
(* The status is reduced to the windows and overrides it was computed      *)
(* from; Reevaluation models the rest of it, Outbox leases and dead work.  *)
(* Suppressions expire by the same statements and are left out.  The clock *)
(* of a delivery and its snapshot are those of one instant (the code reads *)
(* the clock right before); only its batch comes later.                    *)
(***************************************************************************)
EXTENDS Naturals, FiniteSets

CONSTANTS
  NWindows, NOverrides,  \* windows come first in the order of a tick
  Targets, Owner,        \* Owner[c] is the service of component c, Owner[s] = s
  Commands,              \* see CommandAssumption
  NRequests,             \* operator commands, numbered in the order they are made
  SourceLimit,           \* sources one tick enqueues
  None,
  PromptCommands,        \* whether no time passes between plan and batch of a command
  MaxTime                \* bound of the clock

Windows == 1 .. NWindows
Overrides == NWindows + 1 .. NWindows + NOverrides
Sources == Windows \cup Overrides
Requests == 1 .. NRequests
Times == 0 .. MaxTime

ASSUME TargetAssumption == Owner \in [Targets -> Targets] /\ \A t \in Targets : Owner[Owner[t]] = Owner[t]
ASSUME LimitAssumption ==
  /\ NWindows \in Nat /\ NOverrides \in Nat /\ None \notin Nat \cup Targets
  /\ SourceLimit \in Nat \ {0} /\ MaxTime \in Nat /\ PromptCommands \in BOOLEAN

\* A body names the start, end and targets of a window, None where a patch
\* leaves them out; an override names its target and expiry.
ASSUME CommandAssumption ==
  \A c \in Commands :
    /\ c.op \in {"create", "update", "cancel", "override"}
    /\ c.starts \in Times \cup {None} /\ c.ends \in Times \cup {None}
    /\ c.targets \in {None} \cup ((SUBSET Targets) \ {{}})
    /\ c.op = "create" => None \notin {c.starts, c.ends} /\ c.targets # None
    /\ c.op = "override" => c.ends # None /\ \E t \in Targets : c.targets = {t}

VARIABLES
  windows,     \* maintenance_windows and maintenance_targets
  overrides,   \* status_overrides
  outbox,      \* every work item: event, source, its revision, target
  pending,     \* the items that are not delivered
  shown,       \* current_statuses: per target the sources it was computed from
  generation,  \* evaluation_generation
  requests,    \* operator commands
  tick,        \* enqueue_expired
  work,        \* the delivery of one item
  clock

vars == <<windows, overrides, outbox, pending, shown, generation, requests, tick, work, clock>>

NoWindow == [state |-> "none", starts |-> 0, ends |-> 0, targets |-> {}, revision |-> 0]
NoOverride == [state |-> "none", target |-> None, expires |-> 0]
Idle == [at |-> "idle"]
NoTick == [at |-> "idle", generation |-> 0, now |-> 0, rows |-> {}]
NoWork == [item |-> None, generation |-> 0, draft |-> {}]

Init ==
  /\ windows = [w \in Windows |-> NoWindow]
  /\ overrides = [o \in Overrides |-> NoOverride]
  /\ outbox = {} /\ pending = {}
  /\ shown = [t \in Targets |-> {}]
  /\ generation = 0 /\ clock = 0
  /\ requests = [r \in Requests |-> Idle]
  /\ tick = NoTick /\ work = NoWork

-----------------------------------------------------------------------------
(* Evaluation. *)

Covers(targets, t) == t \in targets \/ Owner[t] \in targets

\* Maintenance holds by the stored state and the half-open interval.
WindowHolds(w, t, now) ==
  w.state = "active" /\ w.starts <= now /\ now < w.ends /\ Covers(w.targets, t)

\* A component does not inherit the override of its service.
OverrideHolds(o, t, now) == o.state = "live" /\ o.target = t /\ now < o.expires

\* What the status of a target is computed from.
Signals(ws, os, t, now) ==
  {w \in Windows : WindowHolds(ws[w], t, now)} \cup
  {o \in Overrides : OverrideHolds(os[o], t, now)}

\* The half-open interval decides the state, a cancellation takes precedence.
StateAt(starts, ends, now) ==
  IF ends <= now THEN "completed" ELSE IF starts <= now THEN "active" ELSE "scheduled"

\* What a window must show as time passes, whoever has noticed it.
InForce(t) ==
  {w \in Windows : /\ windows[w].state \in {"scheduled", "active"}
                   /\ WindowHolds([windows[w] EXCEPT !.state = "active"], t, clock)} \cup
  {o \in Overrides : OverrideHolds(overrides[o], t, clock)}

-----------------------------------------------------------------------------
(* Operator commands. *)

Free(r) == requests[r] = Idle /\ \A q \in 1 .. r - 1 : requests[q] # Idle

Kept(patch, old) == IF patch = None THEN old ELSE patch

Done(r) == requests' = [requests EXCEPT ![r] = [at |-> "done"]]

\* A body for a new window or override takes an identity nobody uses.
Unused(x) == \A r \in Requests :
  requests[r].at \in {"planned", "evaluated"} => requests[r].on # x

LiveOn(t) == {o \in Overrides : overrides[o].state = "live" /\ overrides[o].target = t}

\* Old and new targets are evaluated again ...
Affected(old, new) == old \cup new

\* ... with the components of a service and the service of a component.
Expanded(targets) == {t \in Targets : \E u \in targets : Owner[t] = Owner[u]}

\* createMaintenanceWindow, updateMaintenanceWindow: the row and its targets
\* are read, the new row is computed, with its state from the clock.
PlanWindow(r, w, c) ==
  LET old == windows[w]
      starts == Kept(c.starts, old.starts)
      ends == Kept(c.ends, old.ends)
      state == IF c.op = "cancel" THEN "cancelled" ELSE StateAt(starts, ends, clock)
      row == [state |-> state, starts |-> starts, ends |-> ends,
              targets |-> Kept(c.targets, old.targets), revision |-> old.revision + 1]
  IN /\ Free(r) /\ starts < ends
     /\ \/ c.op = "create" /\ old = NoWindow /\ Unused(w)
        \/ c.op \in {"update", "cancel"} /\ old.state \in {"scheduled", "active"}
     /\ requests' = [requests EXCEPT ![r] =
          [at |-> "planned", op |-> c.op, on |-> w, row |-> row, now |-> clock,
           replaces |-> None, evaluate |-> Expanded(Affected(old.targets, row.targets))]]
     /\ UNCHANGED <<windows, overrides, outbox, pending, shown, generation, tick, work, clock>>

\* An unexpired override is never revoked implicitly.
MayReplace(t) == \A p \in LiveOn(t) : overrides[p].expires <= clock

\* createStatusOverride.
PlanOverride(r, o, c) ==
  LET t == CHOOSE t \in Targets : c.targets = {t}
  IN /\ Free(r) /\ c.op = "override" /\ clock < c.ends
     /\ overrides[o] = NoOverride /\ Unused(o)
     /\ MayReplace(t)
     /\ requests' = [requests EXCEPT ![r] =
          [at |-> "planned", op |-> c.op, on |-> o, now |-> clock,
           row |-> [state |-> "live", target |-> t, expires |-> c.ends],
           replaces |-> IF LiveOn(t) = {} THEN None ELSE CHOOSE p \in LiveOn(t) : TRUE,
           evaluate |-> Expanded({t})]]
     /\ UNCHANGED <<windows, overrides, outbox, pending, shown, generation, tick, work, clock>>

\* The rows as they will be once the command has been applied.
WindowsAfter(q) == IF q.op = "override" THEN windows ELSE [windows EXCEPT ![q.on] = q.row]

OverridesAfter(q) ==
  IF q.op # "override" THEN overrides
  ELSE [o \in Overrides |-> CASE o = q.on -> q.row
                              [] o = q.replaces -> [overrides[o] EXCEPT !.state = "revoked"]
                              [] OTHER -> overrides[o]]

\* The evaluations of all targets are planned from snapshots of one generation,
\* with the command overlaid, as of the time of its plan.
Evaluate(r) ==
  LET q == requests[r]
      draft == [t \in q.evaluate |-> Signals(WindowsAfter(q), OverridesAfter(q), t, q.now)]
  IN /\ q.at = "planned"
     /\ requests' = [requests EXCEPT ![r] =
          [at |-> "evaluated", op |-> q.op, on |-> q.on, row |-> q.row, replaces |-> q.replaces,
           generation |-> generation, draft |-> draft]]
     /\ UNCHANGED <<windows, overrides, outbox, pending, shown, generation, tick, work, clock>>

GenerationHolds(g) == generation = g

\* UPDATE ... WHERE revision = the one that was read; a new identity is unused.
WindowGuard(q) == windows[q.on].revision = q.row.revision - 1

\* The expired override is revoked if it is still there; otherwise the unique
\* index admits the new one only if no other is unrevoked.
OverrideGuard(q) == LiveOn(q.row.target) = IF q.replaces = None THEN {} ELSE {q.replaces}

\* The batch: the guard of the generation, the command, the evaluations.
Commit(r) ==
  LET q == requests[r]
      guard == IF q.op = "override" THEN OverrideGuard(q) ELSE WindowGuard(q)
  IN /\ q.at = "evaluated"
     /\ IF GenerationHolds(q.generation) /\ guard
        THEN /\ windows' = WindowsAfter(q) /\ overrides' = OverridesAfter(q)
             /\ shown' = [t \in Targets |-> IF t \in DOMAIN q.draft THEN q.draft[t] ELSE shown[t]]
             /\ generation' = generation + 1
        ELSE UNCHANGED <<windows, overrides, shown, generation>>
     /\ Done(r)
     /\ UNCHANGED <<outbox, pending, tick, work, clock>>

-----------------------------------------------------------------------------
(* The scheduler: enqueue_expired. *)

Event(event, source, revision, target) ==
  [event |-> event, source |-> source, revision |-> revision, target |-> target]

\* Mutant: only the targets a window names, not the components of a service.
NamedTargets(targets) == targets

\* A window on a service concerns its components too.
ExpandedTargets(targets) == {t \in Targets : Covers(targets, t)}

\* What time has brought about and no work item tells yet.
Temporal(now) ==
  LET started == {w \in Windows : windows[w].state = "scheduled" /\
                                  windows[w].starts <= now /\ now < windows[w].ends}
      ended == {w \in Windows : windows[w].state \in {"scheduled", "active"} /\
                                windows[w].ends <= now}
      expired == {o \in Overrides : overrides[o].state = "live" /\ overrides[o].expires <= now}
      tell(event, w) == {Event(event, w, windows[w].revision, t) :
                           t \in ExpandedTargets(windows[w].targets)}
  IN (UNION {tell("maintenance.started", w) : w \in started}) \cup
     (UNION {tell("maintenance.expired", w) : w \in ended}) \cup
     {Event("override.expired", o, 1, overrides[o].target) : o \in expired}

\* Mutant: an event is announced once for each source, not for each revision.
UnannouncedEver(now) ==
  {e \in Temporal(now) : ~\E f \in outbox : [f EXCEPT !.revision = e.revision] = e}

Unannounced(now) == Temporal(now) \ outbox

\* All rows of the first sources.
Selected(rows) ==
  LET sources == {e.source : e \in rows}
  IN {e \in rows : Cardinality({s \in sources : s < e.source}) < SourceLimit}

TickBegin ==
  /\ tick.at = "idle" /\ Unannounced(clock) # {}
  /\ tick' = [NoTick EXCEPT !.at = "generation", !.generation = generation, !.now = clock]
  /\ UNCHANGED <<windows, overrides, outbox, pending, shown, generation, requests, work, clock>>

TickScan ==
  /\ tick.at = "generation"
  /\ tick' = IF Unannounced(tick.now) = {} THEN NoTick
             ELSE [tick EXCEPT !.at = "scanned", !.rows = Selected(Unannounced(tick.now))]
  /\ UNCHANGED <<windows, overrides, outbox, pending, shown, generation, requests, work, clock>>

Completes(w) ==
  /\ \E e \in tick.rows : e.source = w /\ e.event = "maintenance.expired"
  /\ windows[w].state \in {"scheduled", "active"} /\ windows[w].ends <= tick.now

Activates(w) ==
  /\ \E e \in tick.rows : e.source = w /\ e.event = "maintenance.started"
  /\ windows[w].state = "scheduled" /\ windows[w].starts <= tick.now /\ tick.now < windows[w].ends

\* One batch: the states of the windows and the work for all their targets.
TickWrite ==
  /\ tick.at = "scanned"
  /\ IF GenerationHolds(tick.generation)
     THEN LET move(w, state) == [windows[w] EXCEPT !.state = state, !.revision = @ + 1]
          IN /\ windows' = [w \in Windows |-> IF Completes(w) THEN move(w, "completed")
                                              ELSE IF Activates(w) THEN move(w, "active")
                                              ELSE windows[w]]
             /\ outbox' = outbox \cup tick.rows
             /\ pending' = pending \cup (tick.rows \ outbox)
             /\ generation' = IF \E w \in Windows : Completes(w) \/ Activates(w)
                              THEN generation + 1 ELSE generation
     ELSE UNCHANGED <<windows, outbox, pending, generation>>
  /\ tick' = NoTick
  /\ UNCHANGED <<overrides, shown, requests, work, clock>>

\* The invocation ends before its batch.
TickLost ==
  /\ tick.at # "idle" /\ tick' = NoTick
  /\ UNCHANGED <<windows, overrides, outbox, pending, shown, generation, requests, work, clock>>

-----------------------------------------------------------------------------
(* The outbox: one evaluation per item, repeated until its batch succeeds. *)

Deliver(e) ==
  /\ work = NoWork /\ e \in pending
  /\ work' = [item |-> e, generation |-> generation,
              draft |-> Signals(windows, overrides, e.target, clock)]
  /\ UNCHANGED <<windows, overrides, outbox, pending, shown, generation, requests, tick, clock>>

\* A failed item stays; it is claimed again.
PendingAfter(held) == IF held THEN pending \ {work.item} ELSE pending

Delivered ==
  LET held == GenerationHolds(work.generation)
  IN /\ work # NoWork
     /\ shown' = IF held THEN [shown EXCEPT ![work.item.target] = work.draft] ELSE shown
     /\ generation' = IF held THEN generation + 1 ELSE generation
     /\ pending' = PendingAfter(held) /\ work' = NoWork
     /\ UNCHANGED <<windows, overrides, outbox, requests, tick, clock>>

Pass ==
  /\ clock < MaxTime /\ clock' = clock + 1
  /\ PromptCommands => \A r \in Requests : requests[r].at \in {"idle", "done"}
  /\ UNCHANGED <<windows, overrides, outbox, pending, shown, generation, requests, tick, work>>

-----------------------------------------------------------------------------
Next ==
  \/ \E r \in Requests :
       \/ \E c \in Commands : \/ \E w \in Windows : c.op # "override" /\ PlanWindow(r, w, c)
                              \/ \E o \in Overrides : PlanOverride(r, o, c)
       \/ Evaluate(r) \/ Commit(r)
  \/ TickBegin \/ TickScan \/ TickWrite \/ TickLost
  \/ \E e \in pending : Deliver(e)
  \/ Delivered \/ Pass

\* Cron starts ticks again and again, and not all of them are cut off before
\* their batch; claimed work is delivered or claimed again.  Nothing makes
\* operators ask, and no fairness is assumed of their commands.
Fairness ==
  /\ WF_vars(TickBegin) /\ SF_vars(TickScan) /\ SF_vars(TickWrite)
  /\ WF_vars(\E e \in pending : Deliver(e)) /\ WF_vars(Delivered)

WindowSpec == Init /\ [][Next]_vars /\ Fairness

-----------------------------------------------------------------------------
(* Properties. *)

Items == [event : {"maintenance.started", "maintenance.expired", "override.expired"},
          source : Sources, revision : Nat, target : Targets]

TypeOK ==
  /\ windows \in [Windows -> [state : {"none", "scheduled", "active", "completed", "cancelled"},
                              starts : Times, ends : Times, targets : SUBSET Targets, revision : Nat]]
  /\ overrides \in [Overrides -> [state : {"none", "live", "revoked"},
                                  target : Targets \cup {None}, expires : Times]]
  /\ outbox \subseteq Items /\ pending \subseteq outbox /\ tick.rows \subseteq Items
  /\ shown \in [Targets -> SUBSET Sources]
  /\ clock \in Times /\ generation \in Nat
  /\ \A r \in Requests : requests[r].at \in {"idle", "planned", "evaluated", "done"}

\* Once no work is pending and a tick would find nothing, every target shows
\* exactly the windows and overrides in force: no command, tick or delivery
\* that planned at an earlier time or from older rows leaves a status behind
\* that nobody will correct.
RestIsCurrent ==
  /\ TypeOK
  /\ pending = {} /\ Unannounced(clock) = {} /\ tick.at = "idle" =>
       \A t \in Targets : shown[t] = InForce(t)

\* A target with a maintenance window in effect shows it, once no work is left.
\* This holds with PromptCommands only.
\* Commands evaluate as of the time they were planned, from rows read later: one
\* planned just before the window began, and evaluated after others noticed that
\* it had begun, takes it away again, and nothing is left to correct it.
MaintenanceShown ==
  pending = {} /\ Unannounced(clock) = {} /\ tick.at = "idle" =>
    \A t \in Targets : InForce(t) \cap Windows \subseteq shown[t]

\* Ticks and deliveries catch up with the clock, although commands invalidate
\* their snapshots and the limit takes few sources at a time: from some time on
\* every target shows what is in force.
CatchesUp == <>[](\A t \in Targets : shown[t] = InForce(t))
=============================================================================
