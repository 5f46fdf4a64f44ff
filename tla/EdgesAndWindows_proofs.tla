---------------------- MODULE EdgesAndWindows_proofs ----------------------
(***************************************************************************)
(* Theorems about MaintenanceWindows, for any windows, overrides, targets  *)
(* and commands, any number of requests, every limit and every bound, and  *)
(* about eight of the parts that Edges puts side by side: MachineKeys,     *)
(* AdminSessions, Notifications, TelemetryExport, Submission,              *)
(* MonitorEvaluation, DependencyRisk and PublicStatus.  The ninth,         *)
(* PublicPages, is the subject of IncidentsAndPages_proofs.  Of another    *)
(* part, PublicStatus alone uses a fact: how risks are ranked.             *)
(***************************************************************************)
EXTENDS Edges, MaintenanceWindows, SequenceTheorems, FiniteSetTheorems,
        WellFoundedInduction, TLAPS

-----------------------------------------------------------------------------
(***************************************************************************)
(* MaintenanceWindows.                                                     *)
(***************************************************************************)

-----------------------------------------------------------------------------
(***************************************************************************)
(* Types of the rows that commands and deliveries hold on to.              *)
(***************************************************************************)
WindowRows == [state : {"none", "scheduled", "active", "completed", "cancelled"},
               starts : Times, ends : Times, targets : SUBSET Targets, revision : Nat]
LiveRows == [state : {"live"}, target : Targets, expires : Times]
OverrideRows == [state : {"none", "live", "revoked"},
                 target : Targets \cup {None}, expires : Times]

Open(q) == q.at \in {"planned", "evaluated"}
OfWindow(q) == q.op # "override"

\* What a command evaluates in its batch.
Scope(q) == IF q.at = "planned" THEN q.evaluate ELSE DOMAIN q.draft

RequestTyped(q) == Open(q) =>
  /\ IF OfWindow(q) THEN q.on \in Windows /\ q.row \in WindowRows
                    ELSE q.on \in Overrides /\ q.row \in LiveRows
  /\ Scope(q) \subseteq Targets
  /\ q.at = "evaluated" => q.generation \in Nat /\ \A t \in Scope(q) : q.draft[t] \subseteq Sources

Typed ==
  /\ TypeOK
  /\ \A o \in Overrides : overrides[o].state = "live" => overrides[o].target \in Targets
  /\ DOMAIN requests = Requests /\ \A r \in Requests : RequestTyped(requests[r])
  /\ work # NoWork =>
       work.item \in outbox /\ work.generation \in Nat /\ work.draft \subseteq Sources

LEMMA SourcesApart ==
  Windows \cap Overrides = {} /\ Windows \subseteq Sources /\ Overrides \subseteq Sources
BY LimitAssumption DEF Windows, Overrides, Sources

LEMMA SignalsAreSources ==
  ASSUME NEW ws, NEW os, NEW t, NEW when PROVE Signals(ws, os, t, when) \subseteq Sources
BY DEF Signals, Sources

LEMMA RowTypes ==
  TypeOK => /\ \A w \in Windows : windows[w] \in WindowRows
            /\ \A o \in Overrides : overrides[o] \in OverrideRows
            /\ clock \in Nat /\ outbox \subseteq Items /\ pending \subseteq outbox
            /\ tick.rows \subseteq Items /\ generation \in Nat
BY LimitAssumption DEF TypeOK, WindowRows, OverrideRows, Times

LEMMA WindowTyped ==
  ASSUME NEW w \in WindowRows
  PROVE  /\ w.starts \in Times /\ w.ends \in Times
         /\ w.targets \in SUBSET Targets /\ w.revision \in Nat
         /\ w.state \in {"none", "scheduled", "active", "completed", "cancelled"}
         /\ w.starts \in Nat /\ w.ends \in Nat
BY LimitAssumption DEF WindowRows, Times

LEMMA OverrideTyped ==
  ASSUME NEW o \in OverrideRows
  PROVE  /\ o.state \in {"none", "live", "revoked"} /\ o.expires \in Times /\ o.expires \in Nat
         /\ o.target \in Targets \cup {None}
BY LimitAssumption DEF OverrideRows, Times

\* What a tick may find.
Starting(w, when) ==
  windows[w].state = "scheduled" /\ windows[w].starts <= when /\ when < windows[w].ends
Ended(w, when) == windows[w].state \in {"scheduled", "active"} /\ windows[w].ends <= when
Expired(o, when) == overrides[o].state = "live" /\ overrides[o].expires <= when

Started(w, t) == Event("maintenance.started", w, windows[w].revision, t)
Ending(w, t) == Event("maintenance.expired", w, windows[w].revision, t)
Expiry(o) == Event("override.expired", o, 1, overrides[o].target)

Found(e, when) ==
  \/ \E w \in Windows : Starting(w, when) /\
       \E t \in ExpandedTargets(windows[w].targets) : e = Started(w, t)
  \/ \E w \in Windows : Ended(w, when) /\
       \E t \in ExpandedTargets(windows[w].targets) : e = Ending(w, t)
  \/ \E o \in Overrides : Expired(o, when) /\ e = Expiry(o)

LEMMA InTemporal == \A when, e : e \in Temporal(when) <=> Found(e, when)
<1> SUFFICES ASSUME NEW when, NEW e PROVE e \in Temporal(when) <=> Found(e, when)
  OBVIOUS
<1> DEFINE A == UNION {{Started(w, t) : t \in ExpandedTargets(windows[w].targets)} :
                        w \in {v \in Windows : Starting(v, when)}}
           B == UNION {{Ending(w, t) : t \in ExpandedTargets(windows[w].targets)} :
                        w \in {v \in Windows : Ended(v, when)}}
           C == {Expiry(o) : o \in {p \in Overrides : Expired(p, when)}}
<1>1. Temporal(when) = A \cup B \cup C
  BY DEF Temporal, Started, Ending, Expiry, Starting, Ended, Expired
<1>2. e \in A <=> \E w \in Windows : Starting(w, when) /\
                    \E t \in ExpandedTargets(windows[w].targets) : e = Started(w, t)
  BY DEF Starting, Started
<1>3. e \in B <=> \E w \in Windows : Ended(w, when) /\
                    \E t \in ExpandedTargets(windows[w].targets) : e = Ending(w, t)
  BY DEF Ended, Ending
<1>4. e \in C <=> \E o \in Overrides : Expired(o, when) /\ e = Expiry(o)
  BY DEF Expired, Expiry
<1> QED BY <1>1, <1>2, <1>3, <1>4 DEF Found

LEMMA InTemporalAfter == (\A when, e : e \in Temporal(when) <=> Found(e, when))'
BY InTemporal, PTL

LEMMA TemporalIsTyped ==
  ASSUME Typed, NEW when PROVE Temporal(when) \subseteq Items
<1>1. \A w \in Windows : windows[w].revision \in Nat
  BY RowTypes, WindowTyped DEF Typed
<1>2. ASSUME NEW w \in Windows, NEW t \in ExpandedTargets(windows[w].targets)
      PROVE  Started(w, t) \in Items /\ Ending(w, t) \in Items
  BY <1>1, SourcesApart DEF Items, Event, Started, Ending, ExpandedTargets
<1>3. ASSUME NEW o \in Overrides, overrides[o].state = "live" PROVE Expiry(o) \in Items
  BY <1>3, SourcesApart DEF Items, Event, Expiry, Typed
<1> QED BY <1>2, <1>3, InTemporal DEF Found, Expired

LEMMA SelectedIsTyped ==
  ASSUME Typed, NEW when PROVE Selected(Unannounced(when)) \subseteq Items
BY TemporalIsTyped DEF Selected, Unannounced

-----------------------------------------------------------------------------
(***************************************************************************)
(* Type correctness.                                                       *)
(***************************************************************************)
LEMMA InitTyped == Init => Typed
<1> SUFFICES ASSUME Init PROVE Typed
  OBVIOUS
<1>1. 0 \in Times /\ 0 \in Nat
  BY LimitAssumption DEF Times
<1>2. windows \in [Windows -> WindowRows] /\ overrides \in [Overrides -> OverrideRows]
  BY <1>1 DEF Init, NoWindow, NoOverride, WindowRows, OverrideRows
<1>3. TypeOK
  BY <1>1, <1>2 DEF Init, TypeOK, WindowRows, OverrideRows, NoTick, Idle
<1> QED BY <1>3 DEF Init, Typed, RequestTyped, Open, Idle, NoOverride, NoWork

\* A step that leaves a request alone leaves it typed.
LEMMA RequestsTyped ==
  ASSUME Typed, NEW r \in Requests, NEW q, RequestTyped(q), requests' = [requests EXCEPT ![r] = q]
  PROVE  DOMAIN requests' = Requests /\ (\A x \in Requests : RequestTyped(requests'[x]))
BY DEF Typed

LEMMA PlanWindowTyped ==
  ASSUME Typed, NEW r \in Requests, NEW c \in Commands, NEW w \in Windows,
         PlanWindow(r, w, c)
  PROVE  Typed'
<1> DEFINE old == windows[w]
           starts == Kept(c.starts, old.starts)
           ends == Kept(c.ends, old.ends)
           state == IF c.op = "cancel" THEN "cancelled" ELSE StateAt(starts, ends, clock)
           entry == [state |-> state, starts |-> starts, ends |-> ends,
                   targets |-> Kept(c.targets, old.targets), revision |-> old.revision + 1]
           plan == [at |-> "planned", op |-> c.op, on |-> w, row |-> entry, now |-> clock,
                    replaces |-> None, evaluate |-> Expanded(Affected(old.targets, entry.targets))]
<1>1. /\ requests' = [requests EXCEPT ![r] = plan]
      /\ c.op \in {"create", "update", "cancel"}
      /\ UNCHANGED <<windows, overrides, outbox, pending, shown, generation, tick, work, clock>>
  BY DEF PlanWindow
<1>2. old \in WindowRows
  BY RowTypes DEF Typed
<1>3. starts \in Times /\ ends \in Times /\ entry.targets \in SUBSET Targets
  BY <1>2, WindowTyped, CommandAssumption DEF Kept
<1>4. state \in {"none", "scheduled", "active", "completed", "cancelled"}
  BY DEF StateAt
<1>5. old.revision + 1 \in Nat
  BY <1>2, WindowTyped
<1>6. entry \in WindowRows
  BY <1>3, <1>4, <1>5 DEF WindowRows
<1> HIDE DEF entry
<1>7. RequestTyped(plan)
  BY <1>1, <1>6 DEF RequestTyped, Open, OfWindow, Scope, Expanded
<1>8. TypeOK'
  <2>1. plan.at = "planned"
    OBVIOUS
  <2> HIDE DEF plan
  <2> QED BY <1>1, <2>1 DEF Typed, TypeOK
<1> HIDE DEF plan
<1>9. DOMAIN requests' = Requests /\ (\A x \in Requests : RequestTyped(requests'[x]))
  BY <1>1, <1>7, RequestsTyped
<1> QED BY <1>1, <1>8, <1>9 DEF Typed, NoWork

LEMMA PlanOverrideTyped ==
  ASSUME Typed, NEW r \in Requests, NEW c \in Commands, NEW o \in Overrides,
         PlanOverride(r, o, c)
  PROVE  Typed'
<1> DEFINE t == CHOOSE t \in Targets : c.targets = {t}
           entry == [state |-> "live", target |-> t, expires |-> c.ends]
           plan == [at |-> "planned", op |-> c.op, on |-> o, now |-> clock, row |-> entry,
                    replaces |-> IF LiveOn(t) = {} THEN None ELSE CHOOSE p \in LiveOn(t) : TRUE,
                    evaluate |-> Expanded({t})]
<1>1. /\ requests' = [requests EXCEPT ![r] = plan]
      /\ c.op = "override"
      /\ UNCHANGED <<windows, overrides, outbox, pending, shown, generation, tick, work, clock>>
  BY DEF PlanOverride
<1>2. t \in Targets /\ c.ends \in Times
  BY <1>1, CommandAssumption
<1>3. entry \in LiveRows
  BY <1>2 DEF LiveRows
<1> HIDE DEF entry
<1>4. RequestTyped(plan)
  BY <1>1, <1>3 DEF RequestTyped, Open, OfWindow, Scope, Expanded
<1>5. TypeOK'
  <2>1. plan.at = "planned"
    OBVIOUS
  <2> HIDE DEF plan
  <2> QED BY <1>1, <2>1 DEF Typed, TypeOK
<1> HIDE DEF plan
<1>6. DOMAIN requests' = Requests /\ (\A x \in Requests : RequestTyped(requests'[x]))
  BY <1>1, <1>4, RequestsTyped
<1> QED BY <1>1, <1>5, <1>6 DEF Typed, NoWork

LEMMA EvaluateTyped ==
  ASSUME Typed, NEW r \in Requests, Evaluate(r) PROVE Typed'
<1> DEFINE q == requests[r]
           draft == [t \in q.evaluate |-> Signals(WindowsAfter(q), OverridesAfter(q), t, q.now)]
           next == [at |-> "evaluated", op |-> q.op, on |-> q.on, row |-> q.row,
                    replaces |-> q.replaces, generation |-> generation, draft |-> draft]
<1>1. /\ requests' = [requests EXCEPT ![r] = next] /\ q.at = "planned"
      /\ UNCHANGED <<windows, overrides, outbox, pending, shown, generation, tick, work, clock>>
  BY DEF Evaluate
<1>2. RequestTyped(q) /\ generation \in Nat
  BY RowTypes DEF Typed
<1>3. /\ next.at = "evaluated" /\ next.op = q.op /\ next.on = q.on /\ next.row = q.row
      /\ next.generation = generation /\ next.draft = draft
  OBVIOUS
<1>4. DOMAIN draft = q.evaluate /\ (\A t \in DOMAIN draft : draft[t] \subseteq Sources)
  BY SignalsAreSources
<1> HIDE DEF draft, next
<1>5. RequestTyped(next)
  BY <1>1, <1>2, <1>3, <1>4 DEF RequestTyped, Open, OfWindow, Scope
<1>6. TypeOK'
  BY <1>1, <1>3 DEF Typed, TypeOK
<1>7. DOMAIN requests' = Requests /\ (\A x \in Requests : RequestTyped(requests'[x]))
  BY <1>1, <1>5, RequestsTyped
<1> QED BY <1>1, <1>6, <1>7 DEF Typed, NoWork

LEMMA CommitTyped ==
  ASSUME Typed, NEW r \in Requests, Commit(r) PROVE Typed'
<1> DEFINE q == requests[r]
<1>1. q.at = "evaluated" /\ RequestTyped(q)
  BY DEF Commit, Typed
<1>2. Done(r) /\ UNCHANGED <<outbox, pending, tick, work, clock>>
  BY DEF Commit
<1>3. DOMAIN requests' = Requests /\ (\A x \in Requests : RequestTyped(requests'[x]))
  <2>1. RequestTyped([at |-> "done"])
    BY DEF RequestTyped, Open
  <2> QED BY <1>2, <2>1, RequestsTyped DEF Done
<1>4. \A x \in Requests : requests'[x].at \in {"idle", "planned", "evaluated", "done"}
  BY <1>2 DEF Done, Typed, TypeOK
<1>5. CASE UNCHANGED <<windows, overrides, shown, generation>>
  BY <1>2, <1>3, <1>4, <1>5 DEF Typed, TypeOK, NoWork
<1>6. CASE /\ windows' = WindowsAfter(q) /\ overrides' = OverridesAfter(q)
           /\ shown' = [t \in Targets |-> IF t \in DOMAIN q.draft THEN q.draft[t] ELSE shown[t]]
           /\ generation' = generation + 1
  <2>1. windows' \in [Windows -> WindowRows]
    BY <1>1, <1>6 DEF WindowsAfter, RequestTyped, Open, OfWindow, Typed, TypeOK, WindowRows
  <2>2. ASSUME NEW o \in Overrides
        PROVE  /\ overrides'[o] \in OverrideRows
               /\ overrides'[o].state = "live" => overrides'[o].target \in Targets
    <3>1. overrides[o] \in OverrideRows /\ (overrides[o].state = "live" => overrides[o].target \in Targets)
      BY RowTypes DEF Typed
    <3>2. CASE overrides'[o] = overrides[o]
      BY <3>1, <3>2
    <3>3. CASE overrides'[o] = q.row /\ ~OfWindow(q)
      <4>1. q.row \in LiveRows
        BY <1>1, <3>3 DEF RequestTyped, Open
      <4> QED BY <3>3, <4>1 DEF LiveRows, OverrideRows
    <3>4. CASE overrides'[o] = [overrides[o] EXCEPT !.state = "revoked"]
      BY <3>1, <3>4 DEF OverrideRows
    <3> QED BY <1>6, <3>2, <3>3, <3>4 DEF OverridesAfter, OfWindow
  <2>3. overrides' \in [Overrides -> OverrideRows]
    <3>1. \/ overrides' = overrides
          \/ overrides' = [o \in Overrides |-> CASE o = q.on -> q.row
                              [] o = q.replaces -> [overrides[o] EXCEPT !.state = "revoked"]
                              [] OTHER -> overrides[o]]
      BY <1>6 DEF OverridesAfter
    <3>2. overrides = [o \in Overrides |-> overrides[o]]
      BY DEF Typed, TypeOK
    <3>3. overrides' = [o \in Overrides |-> overrides'[o]]
      BY <3>1, <3>2
    <3> QED BY <2>2, <3>3
  <2>4. shown' \in [Targets -> SUBSET Sources]
    BY <1>1, <1>6 DEF RequestTyped, Open, Scope, Typed, TypeOK
  <2>5. TypeOK'
    BY <1>2, <1>4, <1>6, <2>1, <2>3, <2>4 DEF Typed, TypeOK, WindowRows, OverrideRows
  <2> QED BY <1>2, <1>3, <2>2, <2>5 DEF Typed, NoWork
<1> QED BY <1>5, <1>6 DEF Commit

LEMMA TickWriteTyped ==
  ASSUME Typed, TickWrite PROVE Typed'
<1>1. tick' = NoTick /\ UNCHANGED <<overrides, shown, requests, work, clock>>
  BY DEF TickWrite
<1>2. CASE UNCHANGED <<windows, outbox, pending, generation>>
  BY <1>1, <1>2 DEF Typed, TypeOK, NoWork, NoTick
<1>3. CASE GenerationHolds(tick.generation)
  <2> DEFINE move(w, state) == [windows[w] EXCEPT !.state = state, !.revision = @ + 1]
  <2>1. /\ windows' = [w \in Windows |-> IF Completes(w) THEN move(w, "completed")
                                         ELSE IF Activates(w) THEN move(w, "active")
                                         ELSE windows[w]]
        /\ outbox' = outbox \cup tick.rows /\ pending' = pending \cup (tick.rows \ outbox)
        /\ generation' \in {generation, generation + 1}
    BY <1>3 DEF TickWrite
  <2>2. ASSUME NEW w \in Windows, NEW state \in {"completed", "active"}
        PROVE  move(w, state) \in WindowRows
    <3>1. windows[w] \in WindowRows /\ windows[w].revision + 1 \in Nat
      BY RowTypes, WindowTyped DEF Typed
    <3> QED BY <3>1 DEF WindowRows
  <2>3. windows' \in [Windows -> WindowRows]
    <3>1. \A w \in Windows : windows[w] \in WindowRows
      BY RowTypes DEF Typed
    <3> HIDE DEF move
    <3> QED BY <2>1, <2>2, <3>1
  <2>4. outbox' \subseteq Items /\ pending' \subseteq outbox' /\ generation' \in Nat
    <3>1. /\ outbox' = outbox \cup tick.rows /\ pending' = pending \cup (tick.rows \ outbox)
          /\ generation' \in {generation, generation + 1}
      BY <2>1
    <3> QED BY <3>1, RowTypes DEF Typed
  <2>5. TypeOK'
    BY <1>1, <2>3, <2>4 DEF Typed, TypeOK, WindowRows, NoTick
  <2> QED BY <1>1, <2>1, <2>5 DEF Typed, NoWork
<1> QED BY <1>2, <1>3 DEF TickWrite

LEMMA TypesKept == Typed /\ [Next]_vars => Typed'
<1> SUFFICES ASSUME Typed, [Next]_vars PROVE Typed'
  OBVIOUS
<1>1. ASSUME NEW r \in Requests, NEW c \in Commands, NEW w \in Windows, PlanWindow(r, w, c)
      PROVE Typed'
  BY <1>1, PlanWindowTyped
<1>2. ASSUME NEW r \in Requests, NEW c \in Commands, NEW o \in Overrides, PlanOverride(r, o, c)
      PROVE Typed'
  BY <1>2, PlanOverrideTyped
<1>3. ASSUME NEW r \in Requests, Evaluate(r) PROVE Typed'
  BY <1>3, EvaluateTyped
<1>4. ASSUME NEW r \in Requests, Commit(r) PROVE Typed'
  BY <1>4, CommitTyped
<1>5. CASE TickBegin
  BY <1>5 DEF TickBegin, Typed, TypeOK, NoTick, NoWork
<1>6. CASE TickScan
  <2>1. tick' = NoTick \/ tick' = [tick EXCEPT !.at = "scanned", !.rows = Selected(Unannounced(tick.now))]
    BY <1>6 DEF TickScan
  <2>2. tick'.rows \subseteq Items
    <3>1. CASE tick' = NoTick
      BY <3>1 DEF NoTick
    <3>2. CASE tick' = [tick EXCEPT !.at = "scanned", !.rows = Selected(Unannounced(tick.now))]
      <4>1. tick'.rows \in {Selected(Unannounced(tick.now)), tick.rows}
        BY <3>2
      <4> QED BY <4>1, SelectedIsTyped, RowTypes DEF Typed
    <3> QED BY <2>1, <3>1, <3>2
  <2>3. UNCHANGED <<windows, overrides, outbox, pending, shown, generation, requests, work, clock>>
    BY <1>6 DEF TickScan
  <2> QED BY <2>2, <2>3 DEF Typed, TypeOK, NoWork
<1>7. CASE TickWrite
  BY <1>7, TickWriteTyped
<1>8. CASE TickLost
  BY <1>8 DEF TickLost, Typed, TypeOK, NoTick, NoWork
<1>9. ASSUME NEW e \in pending, Deliver(e) PROVE Typed'
  <2>1. /\ work'.item \in outbox /\ work'.generation \in Nat /\ work'.draft \subseteq Sources
        /\ UNCHANGED <<windows, overrides, outbox, pending, shown, generation, requests, tick, clock>>
    BY <1>9, SignalsAreSources DEF Deliver, Typed, TypeOK
  <2> QED BY <2>1 DEF Typed, TypeOK
<1>10. CASE Delivered
  <2>1. /\ work # NoWork /\ work' = NoWork
        /\ shown' \in {shown, [shown EXCEPT ![work.item.target] = work.draft]}
        /\ generation' \in {generation, generation + 1} /\ pending' \subseteq pending
        /\ UNCHANGED <<windows, overrides, outbox, requests, tick, clock>>
    BY <1>10 DEF Delivered, PendingAfter
  <2>2. shown' \in [Targets -> SUBSET Sources] /\ generation' \in Nat /\ pending' \subseteq outbox
    BY <2>1 DEF Typed, TypeOK
  <2> QED BY <2>1, <2>2 DEF Typed, TypeOK
<1>11. CASE Pass
  <2>1. /\ clock' \in Times
        /\ UNCHANGED <<windows, overrides, outbox, pending, shown, generation, requests, tick, work>>
    BY <1>11, LimitAssumption DEF Pass, Typed, TypeOK, Times
  <2> QED BY <2>1 DEF Typed, TypeOK, NoWork
<1>12. CASE UNCHANGED vars
  BY <1>12 DEF vars, Typed, TypeOK, NoWork
<1> QED BY <1>1, <1>2, <1>3, <1>4, <1>5, <1>6, <1>7, <1>8, <1>9, <1>10, <1>11, <1>12 DEF Next

\* Rows, work items, snapshots and statuses have their types, whatever the order
\* of commands, ticks and deliveries.
THEOREM TypeCorrect == WindowSpec => []TypeOK
<1>1. Typed => TypeOK
  BY DEF Typed
<1> QED BY <1>1, InitTyped, TypesKept, PTL DEF WindowSpec

-----------------------------------------------------------------------------
(***************************************************************************)
(* The inductive invariant.                                                *)
(***************************************************************************)

\* A tick that may still write has found what there is to find.
TickHolds == tick.at # "idle" =>
  /\ tick.at \in {"generation", "scanned"}
  /\ tick.now \in Nat /\ tick.now <= clock
  /\ tick.generation \in Nat /\ tick.generation <= generation
  /\ tick.at = "scanned" /\ tick.generation = generation =>
       tick.rows = Selected(Unannounced(tick.now))

\* A window has moved on from every revision that was announced; an override
\* was announced after it expired.
Announced == \A e \in outbox :
  /\ e.event # "override.expired" =>
       e.source \in Windows /\ e.revision < windows[e.source].revision
  /\ e.event = "override.expired" =>
       /\ e.source \in Overrides /\ overrides[e.source].state # "none"
       /\ overrides[e.source].expires <= clock

Begun == \A w \in Windows : windows[w].state = "active" => windows[w].starts <= clock

\* A time that commands may be evaluated as of.
Recent(n) == n \in Nat /\ n <= clock /\ (PromptCommands => n = clock)

\* A command evaluates every target that its old or its new row concerns, and,
\* if its batch is going to hold, from the rows as they will be.
CommandHolds(q) == Open(q) =>
  /\ OfWindow(q) =>
       /\ q.row.revision <= windows[q.on].revision + 1
       /\ WindowGuard(q) => Scope(q) = Expanded(Affected(windows[q.on].targets, q.row.targets))
       /\ q.row.state = "active" => q.row.starts <= clock
  /\ ~OfWindow(q) => overrides[q.on] = NoOverride /\ Scope(q) = Expanded({q.row.target})
  /\ q.at = "planned" => Recent(q.now)
  /\ q.at = "evaluated" =>
       /\ q.generation <= generation
       /\ q.generation = generation => \E n \in Nat : Recent(n) /\ \A t \in Scope(q) :
            q.draft[t] = Signals(WindowsAfter(q), OverridesAfter(q), t, n)

NewIdentities == \A q, r \in Requests :
  /\ q # r /\ Open(requests[q]) /\ Open(requests[r])
  /\ ~OfWindow(requests[q]) /\ ~OfWindow(requests[r])
  => requests[q].on # requests[r].on

CommandsHold == NewIdentities /\ \A r \in Requests : CommandHolds(requests[r])

\* The next tick finds something about the target.
Owed(t) == \E e \in Unannounced(clock) : e.target = t

\* These sources are in force for the target, or some item or tick is going to
\* have the target evaluated again.
Current(t, sources, items) ==
  sources = InForce(t) \/ (\E e \in items : e.target = t) \/ Owed(t)

\* These are the sources by the rows of the present, as of some time past, or
\* some item is going to have the target evaluated again.
Aged(t, sources, items) ==
  \/ \E n \in Nat : n <= clock /\ sources = Signals(windows, overrides, t, n)
  \/ \E e \in items : e.target = t

Holds(t, sources, items) ==
  Aged(t, sources, items) /\ (PromptCommands => Current(t, sources, items))

ShownHolds == \A t \in Targets : Holds(t, shown[t], pending)

WorkHolds == work # NoWork =>
  /\ work.generation <= generation
  /\ work.generation = generation =>
       Holds(work.item.target, work.draft, pending \ {work.item})

IInv == /\ Typed /\ TickHolds /\ Announced /\ Begun /\ CommandsHold
        /\ ShownHolds /\ WorkHolds

-----------------------------------------------------------------------------
(***************************************************************************)
(* What a tick finds, and when it has found it.                            *)
(***************************************************************************)
LEMMA StartIsFound ==
  ASSUME Typed, Announced, NEW when, NEW w \in Windows, NEW t \in Targets,
         Starting(w, when), Covers(windows[w].targets, t)
  PROVE  Started(w, t) \in Unannounced(when) /\ Started(w, t).target = t /\ Started(w, t).source = w
<1>1. Started(w, t) \in Temporal(when)
  BY InTemporal DEF Found, ExpandedTargets
<1>2. windows[w].revision \in Nat
  BY RowTypes, WindowTyped DEF Typed
<1>3. Started(w, t) \notin outbox
  BY <1>2 DEF Announced, Started, Event
<1> QED BY <1>1, <1>3 DEF Unannounced, Started, Event

LEMMA EndIsFound ==
  ASSUME Typed, Announced, NEW when, NEW w \in Windows, NEW t \in Targets,
         Ended(w, when), Covers(windows[w].targets, t)
  PROVE  Ending(w, t) \in Unannounced(when) /\ Ending(w, t).target = t /\ Ending(w, t).source = w
<1>1. Ending(w, t) \in Temporal(when)
  BY InTemporal DEF Found, ExpandedTargets
<1>2. windows[w].revision \in Nat
  BY RowTypes, WindowTyped DEF Typed
<1>3. Ending(w, t) \notin outbox
  BY <1>2 DEF Announced, Ending, Event
<1> QED BY <1>1, <1>3 DEF Unannounced, Ending, Event

\* Whatever is found about a target is about a window that covers it or an
\* override of it.
LEMMA FoundAbout ==
  ASSUME NEW when, NEW e \in Unannounced(when), NEW t, e.target = t
  PROVE  /\ e \notin outbox
         /\ \/ \E w \in Windows : Starting(w, when) /\ Covers(windows[w].targets, t) /\ e = Started(w, t)
            \/ \E w \in Windows : Ended(w, when) /\ Covers(windows[w].targets, t) /\ e = Ending(w, t)
            \/ \E o \in Overrides : Expired(o, when) /\ overrides[o].target = t /\ e = Expiry(o)
<1>1. e \in Temporal(when) /\ e \notin outbox
  BY DEF Unannounced
<1>2. CASE \E w \in Windows : Starting(w, when) /\
             \E u \in ExpandedTargets(windows[w].targets) : e = Started(w, u)
  BY <1>1, <1>2 DEF Started, Event, ExpandedTargets
<1>3. CASE \E w \in Windows : Ended(w, when) /\
             \E u \in ExpandedTargets(windows[w].targets) : e = Ending(w, u)
  BY <1>1, <1>3 DEF Ending, Event, ExpandedTargets
<1>4. CASE \E o \in Overrides : Expired(o, when) /\ e = Expiry(o)
  BY <1>1, <1>4 DEF Expiry, Event
<1> QED BY <1>1, <1>2, <1>3, <1>4, InTemporal DEF Found

\* A tick takes all there is about a source.
LEMMA SelectedTogether ==
  ASSUME NEW rows, NEW e \in Selected(rows), NEW f \in rows, f.source = e.source
  PROVE  f \in Selected(rows)
BY DEF Selected

\* The windows in force, by their rows.
Bears(w, t, when) ==
  /\ windows[w].state \in {"scheduled", "active"}
  /\ windows[w].starts <= when /\ when < windows[w].ends /\ Covers(windows[w].targets, t)

LEMMA InForceIs ==
  TypeOK => \A t : InForce(t) =
    {w \in Windows : Bears(w, t, clock)} \cup {o \in Overrides : OverrideHolds(overrides[o], t, clock)}
<1> SUFFICES ASSUME TypeOK, NEW t
             PROVE  InForce(t) = {w \in Windows : Bears(w, t, clock)} \cup
                                 {o \in Overrides : OverrideHolds(overrides[o], t, clock)}
  OBVIOUS
<1>1. ASSUME NEW w \in Windows
      PROVE  /\ [windows[w] EXCEPT !.state = "active"].state = "active"
             /\ [windows[w] EXCEPT !.state = "active"].starts = windows[w].starts
             /\ [windows[w] EXCEPT !.state = "active"].ends = windows[w].ends
             /\ [windows[w] EXCEPT !.state = "active"].targets = windows[w].targets
  BY DEF TypeOK
<1>2. ASSUME NEW w \in Windows
      PROVE  (/\ windows[w].state \in {"scheduled", "active"}
              /\ WindowHolds([windows[w] EXCEPT !.state = "active"], t, clock)) <=> Bears(w, t, clock)
  BY <1>1 DEF WindowHolds, Bears
<1> QED BY <1>2 DEF InForce

\* What is computed from the rows of the present is current.
LEMMA FreshIsCurrent ==
  Typed /\ Announced => \A t \in Targets : Current(t, Signals(windows, overrides, t, clock), {})
<1> SUFFICES ASSUME Typed, Announced, NEW t \in Targets, ~Owed(t)
             PROVE  Signals(windows, overrides, t, clock) = InForce(t)
  BY DEF Current
<1>1. ASSUME NEW w \in Windows
      PROVE  WindowHolds(windows[w], t, clock) <=> Bears(w, t, clock)
  <2>1. ~(Starting(w, clock) /\ Covers(windows[w].targets, t))
    BY StartIsFound DEF Owed
  <2> QED BY <2>1 DEF WindowHolds, Bears, Starting
<1>2. InForce(t) = {w \in Windows : Bears(w, t, clock)} \cup
                   {o \in Overrides : OverrideHolds(overrides[o], t, clock)}
  BY InForceIs DEF Typed
<1> QED BY <1>1, <1>2 DEF Signals

LEMMA FreshHolds ==
  Typed /\ Announced => \A t \in Targets : \A n :
    Recent(n) => Holds(t, Signals(windows, overrides, t, n), {})
BY FreshIsCurrent DEF Recent, Holds, Aged

LEMMA FreshHoldsAfter ==
  Typed' /\ Announced' => \A t \in Targets : \A n :
    Recent(n)' => Holds(t, Signals(windows, overrides, t, n), {})'
<1>1. (Typed /\ Announced => \A t \in Targets : \A n :
         Recent(n) => Holds(t, Signals(windows, overrides, t, n), {}))'
  BY FreshHolds, PTL
<1> QED BY <1>1

-----------------------------------------------------------------------------
(***************************************************************************)
(* What is current stays current.                                          *)
(***************************************************************************)
LEMMA InForceAfter ==
  TypeOK' => \A t : InForce(t)' =
    {w \in Windows : Bears(w, t, clock)'} \cup {o \in Overrides : OverrideHolds(overrides'[o], t, clock')}
<1>1. (TypeOK => \A t : InForce(t) =
         {w \in Windows : Bears(w, t, clock)} \cup
         {o \in Overrides : OverrideHolds(overrides[o], t, clock)})'
  BY InForceIs, PTL
<1> QED BY <1>1 DEF OverrideHolds

LEMMA NothingMoves ==
  ASSUME UNCHANGED <<windows, overrides, outbox, clock>>
  PROVE  /\ \A t, sources, items : Holds(t, sources, items)' <=> Holds(t, sources, items)
         /\ \A when : Unannounced(when)' = Unannounced(when)
<1>1. \A when : Unannounced(when)' = Unannounced(when)
  BY DEF Unannounced, Temporal, ExpandedTargets
<1>2. Unannounced(clock)' = Unannounced(clock)
  BY DEF Unannounced, Temporal, ExpandedTargets
<1>3. \A t : InForce(t)' = InForce(t)
  BY DEF InForce
<1>4. \A t, sources, items : Aged(t, sources, items)' <=> Aged(t, sources, items)
  BY DEF Aged
<1>5. \A t, sources, items : Current(t, sources, items)' <=> Current(t, sources, items)
  BY <1>2, <1>3 DEF Owed, Current
<1> QED BY <1>1, <1>4, <1>5 DEF Holds

\* Sources of a target depend on the windows that cover it and its overrides.
LEMMA SignalsStay ==
  ASSUME NEW t,
         \A w \in Windows : Covers(windows[w].targets, t) \/ Covers(windows'[w].targets, t)
                               => windows'[w] = windows[w],
         \A o \in Overrides : overrides[o].target = t \/ overrides'[o].target = t
                               => overrides'[o] = overrides[o]
  PROVE  \A n : Signals(windows', overrides', t, n) = Signals(windows, overrides, t, n)
<1>1. ASSUME NEW n, NEW w \in Windows
      PROVE  WindowHolds(windows'[w], t, n) <=> WindowHolds(windows[w], t, n)
  BY DEF WindowHolds
<1>2. ASSUME NEW n, NEW o \in Overrides
      PROVE  OverrideHolds(overrides'[o], t, n) <=> OverrideHolds(overrides[o], t, n)
  BY DEF OverrideHolds
<1> QED BY <1>1, <1>2 DEF Signals

LEMMA OwedAfter ==
  ASSUME NEW t, NEW when, when = clock', NEW e, e \in Unannounced(when)', e.target = t
  PROVE  Owed(t)'
<1>1. e \in Unannounced(clock)'
  BY DEF Unannounced, Temporal, ExpandedTargets
<1> QED BY <1>1 DEF Owed

\* As time passes: what starts, ends or expires was not announced before.
LEMMA PassCurrent ==
  ASSUME Typed, Announced, Begun, Pass, NEW t \in Targets, NEW sources, NEW items,
         Current(t, sources, items), Typed'
  PROVE  Current(t, sources, items)'
<1> SUFFICES ASSUME ~Owed(t)', ~\E e \in items : e.target = t
             PROVE  sources = InForce(t)'
  BY DEF Current
<1>0. PICK when : when = clock'
  OBVIOUS
<1>1. when = clock + 1 /\ clock \in Nat /\ UNCHANGED <<windows, overrides, outbox>>
  BY <1>0, RowTypes DEF Pass, Typed
<1>2. Unannounced(when)' = Unannounced(when)
  BY <1>1 DEF Unannounced, Temporal, ExpandedTargets
<1>3. ~\E e \in Unannounced(when) : e.target = t
  BY <1>0, <1>2, OwedAfter
<1>4. ASSUME NEW w \in Windows, Covers(windows[w].targets, t)
      PROVE  ~Starting(w, when) /\ ~Ended(w, when)
  BY <1>3, <1>4, StartIsFound, EndIsFound
<1>5. ASSUME NEW o \in Overrides, overrides[o].target = t, Expired(o, when), Expiry(o) \notin outbox
      PROVE  FALSE
  <2>1. Expiry(o) \in Temporal(when) /\ Expiry(o).target = t
    BY <1>5, InTemporal DEF Found, Expiry, Event
  <2> QED BY <1>3, <1>5, <2>1 DEF Unannounced
<1>6. ~Owed(t)
  <2> SUFFICES ASSUME NEW e \in Unannounced(clock), e.target = t PROVE FALSE
    BY DEF Owed
  <2>1. ASSUME NEW w \in Windows, Starting(w, clock) \/ Ended(w, clock), Covers(windows[w].targets, t)
        PROVE  FALSE
    <3>1. windows[w].starts \in Nat /\ windows[w].ends \in Nat
      BY RowTypes, WindowTyped DEF Typed
    <3>2. Starting(w, when) \/ Ended(w, when)
      BY <1>1, <2>1, <3>1 DEF Starting, Ended
    <3> QED BY <1>4, <2>1, <3>2
  <2>2. ASSUME NEW o \in Overrides, Expired(o, clock), overrides[o].target = t, e = Expiry(o)
        PROVE  FALSE
    <3>1. Expired(o, when)
      <4>1. overrides[o].expires \in Nat
        BY RowTypes, OverrideTyped DEF Typed
      <4> QED BY <1>1, <2>2, <4>1 DEF Expired
    <3> QED BY <1>5, <2>2, <3>1 DEF Unannounced
  <2> QED BY <2>1, <2>2, FoundAbout
<1>7. sources = InForce(t)
  BY <1>6 DEF Current
<1>8. ASSUME NEW w \in Windows PROVE Bears(w, t, clock)' <=> Bears(w, t, clock)
  <2>1. windows[w].starts \in Nat /\ windows[w].ends \in Nat
    BY RowTypes, WindowTyped DEF Typed
  <2>2. CASE Covers(windows[w].targets, t)
    <3>1. ~Starting(w, when) /\ ~Ended(w, when)
      BY <1>4, <2>2
    <3>2. windows[w].state = "active" => windows[w].starts <= clock
      BY DEF Begun
    <3> QED BY <1>0, <1>1, <2>1, <3>1, <3>2 DEF Bears, Starting, Ended
  <2> QED BY <1>1, <2>2 DEF Bears, Covers
<1>9. ASSUME NEW o \in Overrides
      PROVE  OverrideHolds(overrides'[o], t, clock') <=> OverrideHolds(overrides[o], t, clock)
  <2>1. overrides[o].expires \in Nat
    BY RowTypes, OverrideTyped DEF Typed
  <2>2. CASE overrides[o].state = "live" /\ overrides[o].target = t
    <3>1. ~(clock < overrides[o].expires /\ overrides[o].expires <= when)
      <4> SUFFICES ASSUME clock < overrides[o].expires, overrides[o].expires <= when PROVE FALSE
        OBVIOUS
      <4>1. Expired(o, when)
        BY <2>2 DEF Expired
      <4>2. Expiry(o) \in outbox
        BY <1>5, <2>2, <4>1
      <4>3. overrides[o].expires <= clock
        BY <4>2 DEF Announced, Expiry, Event
      <4> QED BY <1>1, <2>1, <4>3
    <3> QED BY <1>0, <1>1, <2>1, <2>2, <3>1 DEF OverrideHolds
  <2> QED BY <1>1, <2>2 DEF OverrideHolds
<1> QED BY <1>7, <1>8, <1>9, InForceIs, InForceAfter DEF Typed

\* What is found about a target is found again if the windows that cover the
\* target and its overrides do not change.
LEMMA StaysFound ==
  ASSUME NEW when, NEW e \in Unannounced(when), NEW t \in Targets, e.target = t,
         \A w \in Windows : Covers(windows[w].targets, t) => windows'[w] = windows[w],
         \A o \in Overrides : overrides[o].target = t => overrides'[o] = overrides[o]
  PROVE  e \in Temporal(when)'
<1>1. ASSUME NEW w \in Windows, Covers(windows[w].targets, t), Starting(w, when), e = Started(w, t)
      PROVE  Found(e, when)'
  <2>1. windows'[w] = windows[w]
    BY <1>1
  <2>2. Starting(w, when)' /\ e = Started(w, t)'
    BY <1>1, <2>1 DEF Starting, Started
  <2>3. t \in ExpandedTargets(windows'[w].targets)
    BY <1>1, <2>1 DEF ExpandedTargets
  <2> QED BY <2>2, <2>3 DEF Found, ExpandedTargets
<1>2. ASSUME NEW w \in Windows, Covers(windows[w].targets, t), Ended(w, when), e = Ending(w, t)
      PROVE  Found(e, when)'
  <2>1. windows'[w] = windows[w]
    BY <1>2
  <2>2. Ended(w, when)' /\ e = Ending(w, t)'
    BY <1>2, <2>1 DEF Ended, Ending
  <2>3. t \in ExpandedTargets(windows'[w].targets)
    BY <1>2, <2>1 DEF ExpandedTargets
  <2> QED BY <2>2, <2>3 DEF Found, ExpandedTargets
<1>3. ASSUME NEW o \in Overrides, overrides[o].target = t, Expired(o, when), e = Expiry(o)
      PROVE  Found(e, when)'
  <2>1. overrides'[o] = overrides[o]
    BY <1>3
  <2>2. Expired(o, when)' /\ e = Expiry(o)'
    BY <1>3, <2>1 DEF Expired, Expiry
  <2> QED BY <2>2 DEF Found
<1>4. Found(e, when)'
  BY <1>1, <1>2, <1>3, FoundAbout
<1> QED BY <1>4, InTemporalAfter

\* A tick puts the work for all targets of the windows it moves in the outbox,
\* and leaves what it did not take to the next one.
LEMMA TickRows ==
  ASSUME Typed, TickHolds, TickWrite, GenerationHolds(tick.generation)
  PROVE  /\ tick.now \in Nat /\ tick.now <= clock
         /\ tick.rows = Selected(Unannounced(tick.now))
         /\ tick.rows \subseteq Unannounced(tick.now) /\ tick.rows \cap outbox = {}
         /\ outbox' = outbox \cup tick.rows /\ pending' = pending \cup (tick.rows \ outbox)
         /\ tick' = NoTick /\ UNCHANGED <<overrides, shown, requests, work, clock>>
<1>1. tick.at = "scanned" /\ tick.generation = generation
  BY DEF TickWrite, GenerationHolds
<1>2. tick.now \in Nat /\ tick.now <= clock /\ tick.rows = Selected(Unannounced(tick.now))
  BY <1>1 DEF TickHolds
<1>3. tick.rows \subseteq Unannounced(tick.now) /\ tick.rows \cap outbox = {}
  BY <1>2 DEF Selected, Unannounced
<1>4. /\ outbox' = outbox \cup tick.rows /\ pending' = pending \cup (tick.rows \ outbox)
      /\ tick' = NoTick /\ UNCHANGED <<overrides, shown, requests, work, clock>>
  BY DEF TickWrite
<1> QED BY <1>2, <1>3, <1>4

Moves(w) == Completes(w) \/ Activates(w)

LEMMA TickMoves ==
  ASSUME Typed, TickHolds, TickWrite, GenerationHolds(tick.generation), NEW w \in Windows
  PROVE  /\ ~Moves(w) => windows'[w] = windows[w]
         /\ Moves(w) => /\ windows'[w].starts = windows[w].starts
                        /\ windows'[w].ends = windows[w].ends
                        /\ windows'[w].targets = windows[w].targets
                        /\ windows'[w].revision = windows[w].revision + 1
                        /\ Completes(w) => windows'[w].state = "completed"
                        /\ ~Completes(w) => windows'[w].state = "active"
                        /\ generation' = generation + 1
                        /\ Starting(w, tick.now) \/ Ended(w, tick.now)
                        /\ \E e \in tick.rows : e.source = w
<1> DEFINE move(state) == [windows[w] EXCEPT !.state = state, !.revision = @ + 1]
<1>1. /\ windows'[w] = IF Completes(w) THEN move("completed")
                       ELSE IF Activates(w) THEN move("active") ELSE windows[w]
      /\ Moves(w) => generation' = generation + 1
  BY DEF TickWrite, Moves
<1>2. ASSUME NEW state
      PROVE  /\ move(state).starts = windows[w].starts /\ move(state).ends = windows[w].ends
             /\ move(state).targets = windows[w].targets /\ move(state).state = state
             /\ move(state).revision = windows[w].revision + 1
  BY DEF Typed, TypeOK
<1> HIDE DEF move
<1>3. Moves(w) => /\ Starting(w, tick.now) \/ Ended(w, tick.now)
                  /\ \E e \in tick.rows : e.source = w
  BY DEF Moves, Completes, Activates, Starting, Ended
<1> QED BY <1>1, <1>2, <1>3 DEF Moves

LEMMA TickSpares ==
  ASSUME Typed, TickHolds, Announced, TickWrite, GenerationHolds(tick.generation),
         NEW t \in Targets, ~\E e \in tick.rows : e.target = t
  PROVE  \A w \in Windows : /\ windows'[w].targets = windows[w].targets
                            /\ Covers(windows[w].targets, t) => windows'[w] = windows[w]
<1> DEFINE n == tick.now
           rows == tick.rows
<1>1. rows = Selected(Unannounced(n))
  BY TickRows
<1>2. ASSUME NEW w \in Windows, Covers(windows[w].targets, t) PROVE ~Moves(w)
  <2> SUFFICES ASSUME Moves(w) PROVE FALSE
    OBVIOUS
  <2>1. PICK e \in rows : e.source = w
    BY TickMoves
  <2>2. Starting(w, n) \/ Ended(w, n)
    BY TickMoves
  <2>3. CASE Starting(w, n)
    <3>1. /\ Started(w, t) \in Unannounced(n) /\ Started(w, t).target = t /\ Started(w, t).source = w
      BY <1>2, <2>3, StartIsFound
    <3>2. Started(w, t) \in rows
      BY <1>1, <2>1, <3>1, SelectedTogether
    <3> QED BY <3>1, <3>2
  <2>4. CASE Ended(w, n)
    <3>1. /\ Ending(w, t) \in Unannounced(n) /\ Ending(w, t).target = t /\ Ending(w, t).source = w
      BY <1>2, <2>4, EndIsFound
    <3>2. Ending(w, t) \in rows
      BY <1>1, <2>1, <3>1, SelectedTogether
    <3> QED BY <3>1, <3>2
  <2> QED BY <2>2, <2>3, <2>4
<1> QED BY <1>2, TickMoves

LEMMA TickHoldsOn ==
  ASSUME Typed, TickHolds, Announced, TickWrite, GenerationHolds(tick.generation), Typed',
         NEW t \in Targets, NEW sources, NEW items, NEW rows, rows = tick.rows,
         Holds(t, sources, items)
  PROVE  Holds(t, sources, items \cup rows)'
<1> SUFFICES ASSUME ~\E e \in items : e.target = t, ~\E e \in rows : e.target = t
             PROVE  Holds(t, sources, items \cup rows)'
  BY DEF Holds, Aged, Current
<1>1. outbox' = outbox \cup rows /\ UNCHANGED <<overrides, clock>>
  BY TickRows
<1>2. \A w \in Windows : /\ windows'[w].targets = windows[w].targets
                         /\ Covers(windows[w].targets, t) => windows'[w] = windows[w]
  BY TickSpares
<1>3. \A n : Signals(windows', overrides', t, n) = Signals(windows, overrides, t, n)
  BY <1>1, <1>2, SignalsStay
<1>4. Aged(t, sources, items \cup rows)'
  BY <1>1, <1>3 DEF Holds, Aged
<1>5. ASSUME PromptCommands, sources = InForce(t) PROVE Current(t, sources, items \cup rows)'
  <2>1. \A w \in Windows : Bears(w, t, clock)' <=> Bears(w, t, clock)
    BY <1>1, <1>2 DEF Bears, Covers
  <2>2. InForce(t)' = InForce(t)
    BY <1>1, <2>1, InForceIs, InForceAfter DEF Typed
  <2> QED BY <1>5, <2>2 DEF Current
<1>6. ASSUME PromptCommands, Owed(t) PROVE Current(t, sources, items \cup rows)'
  <2>1. PICK e \in Unannounced(clock) : e.target = t
    BY <1>6 DEF Owed
  <2>2. PICK when : when = clock'
    OBVIOUS
  <2>3. e \notin outbox'
    BY <1>1, <2>1, FoundAbout
  <2>4. e \in Temporal(when)'
    <3>1. when = clock
      BY <1>1, <2>2
    <3> QED BY <1>1, <1>2, <2>1, <3>1, StaysFound
  <2> QED BY <2>1, <2>2, <2>3, <2>4, OwedAfter DEF Unannounced, Current
<1> QED BY <1>4, <1>5, <1>6 DEF Holds, Current

\* A batch that holds.
Succeeds(q) ==
  /\ q.at = "evaluated" /\ q.generation = generation
  /\ OfWindow(q) => WindowGuard(q)
  /\ ~OfWindow(q) => OverrideGuard(q)

LEMMA Committed ==
  ASSUME Typed, NEW r \in Requests, Commit(r), NEW q, q = requests[r]
  PROVE  /\ q.at = "evaluated" /\ RequestTyped(q)
         /\ requests' = [requests EXCEPT ![r] = [at |-> "done"]]
         /\ UNCHANGED <<outbox, pending, tick, work, clock>>
         /\ ~Succeeds(q) => UNCHANGED <<windows, overrides, shown, generation>>
         /\ Succeeds(q) =>
              /\ windows' = WindowsAfter(q) /\ overrides' = OverridesAfter(q)
              /\ shown' = [t \in Targets |-> IF t \in Scope(q) THEN q.draft[t] ELSE shown[t]]
              /\ generation' = generation + 1
BY DEF Commit, Typed, Done, Succeeds, GenerationHolds, OfWindow, Scope

\* What the batch of a window changes: one row, by a revision.
LEMMA WindowCommitted ==
  ASSUME Typed, NEW q, RequestTyped(q), Succeeds(q), OfWindow(q), CommandHolds(q),
         windows' = WindowsAfter(q), overrides' = OverridesAfter(q)
  PROVE  /\ overrides' = overrides /\ q.on \in Windows /\ windows'[q.on] = q.row
         /\ \A w \in Windows \ {q.on} : windows'[w] = windows[w]
         /\ q.row.revision = windows[q.on].revision + 1
         /\ windows[q.on].revision \in Nat
         /\ Scope(q) = Expanded(Affected(windows[q.on].targets, q.row.targets))
         /\ q.row.state = "active" => q.row.starts <= clock
<1>1. q.on \in Windows /\ q.row \in WindowRows
  BY DEF RequestTyped, Open, Succeeds
<1>2. windows[q.on].revision \in Nat /\ q.row.revision \in Nat
  BY <1>1, RowTypes, WindowTyped DEF Typed
<1>3. q.row.revision = windows[q.on].revision + 1
  BY <1>2 DEF Succeeds, WindowGuard
<1>4. /\ overrides' = overrides /\ windows'[q.on] = q.row
      /\ \A w \in Windows \ {q.on} : windows'[w] = windows[w]
  BY <1>1 DEF WindowsAfter, OverridesAfter, OfWindow, Typed, TypeOK
<1>5. /\ Scope(q) = Expanded(Affected(windows[q.on].targets, q.row.targets))
      /\ q.row.state = "active" => q.row.starts <= clock
  BY DEF CommandHolds, Succeeds, Open
<1> QED BY <1>1, <1>2, <1>3, <1>4, <1>5

\* What the batch of an override changes: the new row, and the one it replaces,
\* which was live on the same target.
LEMMA OverrideCommitted ==
  ASSUME Typed, NEW q, RequestTyped(q), Succeeds(q), ~OfWindow(q), CommandHolds(q),
         windows' = WindowsAfter(q), overrides' = OverridesAfter(q)
  PROVE  /\ windows' = windows /\ q.on \in Overrides
         /\ overrides[q.on] = NoOverride /\ overrides'[q.on] = q.row
         /\ q.row.state = "live" /\ q.row.target \in Targets
         /\ Scope(q) = Expanded({q.row.target})
         /\ \A o \in Overrides \ {q.on} :
              \/ overrides'[o] = overrides[o]
              \/ /\ overrides[o].state = "live" /\ overrides[o].target = q.row.target
                 /\ overrides'[o] = [overrides[o] EXCEPT !.state = "revoked"]
<1>1. q.on \in Overrides /\ q.row \in LiveRows
  BY DEF RequestTyped, Open, Succeeds
<1>2. overrides[q.on] = NoOverride /\ Scope(q) = Expanded({q.row.target})
  BY DEF CommandHolds, Succeeds, Open
<1>3. q.row.state = "live" /\ q.row.target \in Targets
  BY <1>1 DEF LiveRows
<1>4. LiveOn(q.row.target) = IF q.replaces = None THEN {} ELSE {q.replaces}
  BY DEF Succeeds, OverrideGuard
<1>5. ASSUME NEW o \in Overrides, o = q.replaces
      PROVE  o # q.on /\ overrides[o].state = "live" /\ overrides[o].target = q.row.target
  <2>1. o # None
    BY LimitAssumption DEF Overrides
  <2>2. o \in LiveOn(q.row.target)
    BY <1>4, <1>5, <2>1
  <2> QED BY <1>2, <2>2 DEF LiveOn, NoOverride
<1>6. /\ windows' = windows
      /\ overrides' = [o \in Overrides |-> CASE o = q.on -> q.row
                              [] o = q.replaces -> [overrides[o] EXCEPT !.state = "revoked"]
                              [] OTHER -> overrides[o]]
  BY DEF WindowsAfter, OverridesAfter, OfWindow
<1>7. overrides'[q.on] = q.row
  BY <1>1, <1>5, <1>6
<1>8. ASSUME NEW o \in Overrides \ {q.on}
      PROVE  \/ overrides'[o] = overrides[o]
             \/ /\ overrides[o].state = "live" /\ overrides[o].target = q.row.target
                /\ overrides'[o] = [overrides[o] EXCEPT !.state = "revoked"]
  BY <1>5, <1>6
<1> QED BY <1>1, <1>2, <1>3, <1>6, <1>7, <1>8

LEMMA CoveredIsExpanded ==
  ASSUME NEW targets, NEW t \in Targets, Covers(targets, t) PROVE t \in Expanded(targets)
BY TargetAssumption DEF Covers, Expanded

\* Of a target that a batch does not evaluate it changes nothing.
LEMMA Unconcerned ==
  ASSUME Typed, NEW q, RequestTyped(q), Succeeds(q), CommandHolds(q),
         windows' = WindowsAfter(q), overrides' = OverridesAfter(q),
         NEW t \in Targets, t \notin Scope(q)
  PROVE  /\ \A w \in Windows : Covers(windows[w].targets, t) \/ Covers(windows'[w].targets, t)
                                 => windows'[w] = windows[w]
         /\ \A o \in Overrides : overrides[o].target = t \/ overrides'[o].target = t
                                 => overrides'[o] = overrides[o]
<1>1. CASE OfWindow(q)
  <2>1. /\ overrides' = overrides /\ windows'[q.on] = q.row
        /\ \A w \in Windows \ {q.on} : windows'[w] = windows[w]
        /\ Scope(q) = Expanded(Affected(windows[q.on].targets, q.row.targets))
    BY <1>1, WindowCommitted
  <2>2. ~Covers(windows[q.on].targets, t) /\ ~Covers(q.row.targets, t)
    <3>1. ~Covers(Affected(windows[q.on].targets, q.row.targets), t)
      BY <2>1, CoveredIsExpanded
    <3> QED BY <3>1 DEF Covers, Affected
  <2> QED BY <2>1, <2>2
<1>2. CASE ~OfWindow(q)
  <2>1. /\ windows' = windows /\ overrides[q.on] = NoOverride /\ overrides'[q.on] = q.row
        /\ Scope(q) = Expanded({q.row.target})
        /\ \A o \in Overrides \ {q.on} :
              \/ overrides'[o] = overrides[o]
              \/ /\ overrides[o].state = "live" /\ overrides[o].target = q.row.target
                 /\ overrides'[o] = [overrides[o] EXCEPT !.state = "revoked"]
    BY <1>2, OverrideCommitted
  <2>2. q.row.target # t
    <3>1. ~Covers({q.row.target}, t)
      BY <2>1, CoveredIsExpanded
    <3> QED BY <3>1 DEF Covers
  <2>3. overrides[q.on].target # t
    BY <2>1, LimitAssumption DEF NoOverride
  <2>4. ASSUME NEW o \in Overrides, overrides[o].target = t \/ overrides'[o].target = t
        PROVE  overrides'[o] = overrides[o]
    <3>1. o # q.on
      BY <2>1, <2>2, <2>3, <2>4
    <3>2. overrides[o] \in OverrideRows
      BY RowTypes DEF Typed
    <3>3. [overrides[o] EXCEPT !.state = "revoked"].target = overrides[o].target
      BY <3>2 DEF OverrideRows
    <3> QED BY <2>1, <2>2, <2>4, <3>1, <3>3
  <2> QED BY <2>1, <2>4
<1> QED BY <1>1, <1>2

LEMMA CommitHolds ==
  ASSUME Typed, Typed', NEW q, RequestTyped(q), Succeeds(q), CommandHolds(q),
         windows' = WindowsAfter(q), overrides' = OverridesAfter(q),
         UNCHANGED <<outbox, clock>>,
         NEW t \in Targets, t \notin Scope(q), NEW sources, NEW items, Holds(t, sources, items)
  PROVE  Holds(t, sources, items)'
<1>1. \A w \in Windows : Covers(windows[w].targets, t) \/ Covers(windows'[w].targets, t)
                           => windows'[w] = windows[w]
  BY Unconcerned
<1>2. \A o \in Overrides : overrides[o].target = t \/ overrides'[o].target = t
                             => overrides'[o] = overrides[o]
  BY Unconcerned
<1>3. Aged(t, sources, items)'
  <2>1. \A n : Signals(windows', overrides', t, n) = Signals(windows, overrides, t, n)
    BY <1>1, <1>2, SignalsStay
  <2> QED BY <2>1 DEF Holds, Aged
<1>4. ASSUME PromptCommands, sources = InForce(t) PROVE Current(t, sources, items)'
  <2>1. ASSUME NEW w \in Windows PROVE Bears(w, t, clock)' <=> Bears(w, t, clock)
    BY <1>1 DEF Bears, Covers
  <2>2. \A o \in Overrides :
          OverrideHolds(overrides'[o], t, clock') <=> OverrideHolds(overrides[o], t, clock)
    BY <1>2 DEF OverrideHolds
  <2>3. InForce(t)' = InForce(t)
    BY <2>1, <2>2, InForceIs, InForceAfter DEF Typed
  <2> QED BY <1>4, <2>3 DEF Current
<1>5. ASSUME PromptCommands, Owed(t) PROVE Current(t, sources, items)'
  <2>1. PICK e \in Unannounced(clock) : e.target = t
    BY <1>5 DEF Owed
  <2>2. PICK when : when = clock'
    OBVIOUS
  <2>3. e \notin outbox'
    BY <2>1, FoundAbout
  <2>4. e \in Temporal(when)'
    BY <1>1, <1>2, <2>1, <2>2, StaysFound
  <2> QED BY <2>1, <2>2, <2>3, <2>4, OwedAfter DEF Unannounced, Current
<1> QED BY <1>3, <1>4, <1>5 DEF Holds, Current

-----------------------------------------------------------------------------
(***************************************************************************)
(* Every step keeps the invariant.                                         *)
(***************************************************************************)
LEMMA InitHolds == Init => IInv
<1> SUFFICES ASSUME Init PROVE IInv
  OBVIOUS
<1>1. Typed
  BY InitTyped
<1>2. TickHolds /\ Announced /\ Begun /\ CommandsHold /\ WorkHolds
  BY DEF Init, NoTick, TickHolds, Announced, NoWindow, Begun, Idle, CommandsHold,
         NewIdentities, CommandHolds, Open, NoWork, WorkHolds
<1>3. ASSUME NEW t \in Targets PROVE shown[t] = Signals(windows, overrides, t, clock)
  BY DEF Init, Signals, WindowHolds, OverrideHolds, NoWindow, NoOverride
<1>4. ShownHolds
  <2>1. Recent(clock)
    BY LimitAssumption DEF Init, Recent
  <2> QED BY <1>1, <1>2, <1>3, <2>1, FreshHolds DEF ShownHolds, Holds, Aged, Current
<1> QED BY <1>1, <1>2, <1>4 DEF IInv

\* A command that is not committed is not disturbed by a step that changes
\* neither rows nor generation.
LEMMA CommandStays ==
  ASSUME UNCHANGED <<windows, overrides, generation, clock>>, NEW q, CommandHolds(q)
  PROVE  CommandHolds(q)'
<1>1. WindowsAfter(q)' = WindowsAfter(q) /\ OverridesAfter(q)' = OverridesAfter(q)
  BY DEF WindowsAfter, OverridesAfter
<1>2. WindowGuard(q)' <=> WindowGuard(q)
  BY DEF WindowGuard
<1>3. \A n : Recent(n)' <=> Recent(n)
  BY DEF Recent
<1> QED BY <1>1, <1>2, <1>3 DEF CommandHolds

LEMMA CommandsStay ==
  ASSUME CommandsHold, UNCHANGED <<windows, overrides, generation, clock, requests>>
  PROVE  CommandsHold'
<1>1. ASSUME NEW r \in Requests PROVE CommandHolds(requests[r])'
  <2>1. PICK q : q = requests[r]
    OBVIOUS
  <2>2. CommandHolds(q)'
    BY <2>1, CommandStays DEF CommandsHold
  <2> QED BY <2>1, <2>2
<1> QED BY <1>1 DEF CommandsHold, NewIdentities

\* A step on the requests alone.
LEMMA RequestKeeps ==
  ASSUME IInv, Typed',
         UNCHANGED <<windows, overrides, outbox, pending, shown, generation, tick, work, clock>>,
         NEW r \in Requests, NEW q, requests' = [requests EXCEPT ![r] = q], CommandHolds(q),
         ~OfWindow(q) => \A x \in Requests \ {r} :
           Open(requests[x]) /\ ~OfWindow(requests[x]) => requests[x].on # q.on
  PROVE  IInv'
<1>1. DOMAIN requests = Requests
  BY DEF IInv, Typed
<1>2. \A x \in Requests : requests'[x] = IF x = r THEN q ELSE requests[x]
  BY <1>1
<1>3. ASSUME NEW x \in Requests PROVE CommandHolds(requests[x])'
  <2>1. PICK p : p = requests'[x]
    OBVIOUS
  <2>2. CommandHolds(p)
    BY <1>2, <2>1 DEF IInv, CommandsHold
  <2>3. CommandHolds(p)'
    BY <2>2, CommandStays
  <2> QED BY <2>1, <2>3
<1>4. NewIdentities'
  BY <1>2 DEF NewIdentities, IInv, CommandsHold
<1>5. TickHolds' /\ Announced' /\ Begun'
  BY NothingMoves DEF IInv, TickHolds, Announced, Begun, Selected
<1>6. ShownHolds' /\ WorkHolds'
  BY NothingMoves DEF IInv, ShownHolds, WorkHolds, NoWork
<1> QED BY <1>3, <1>4, <1>5, <1>6 DEF IInv, CommandsHold

LEMMA PlanWindowKeeps ==
  ASSUME IInv, Typed', NEW r \in Requests, NEW c \in Commands, NEW w \in Windows,
         PlanWindow(r, w, c)
  PROVE  IInv'
<1> DEFINE old == windows[w]
           starts == Kept(c.starts, old.starts)
           ends == Kept(c.ends, old.ends)
           state == IF c.op = "cancel" THEN "cancelled" ELSE StateAt(starts, ends, clock)
           entry == [state |-> state, starts |-> starts, ends |-> ends,
                   targets |-> Kept(c.targets, old.targets), revision |-> old.revision + 1]
           plan == [at |-> "planned", op |-> c.op, on |-> w, row |-> entry, now |-> clock,
                    replaces |-> None, evaluate |-> Expanded(Affected(old.targets, entry.targets))]
<1>1. /\ requests' = [requests EXCEPT ![r] = plan]
      /\ UNCHANGED <<windows, overrides, outbox, pending, shown, generation, tick, work, clock>>
      /\ c.op \in {"create", "update", "cancel"}
  BY DEF PlanWindow
<1>2. old.revision \in Nat
  BY RowTypes, WindowTyped DEF IInv, Typed
<1>3. entry.revision = old.revision + 1 /\ (entry.state = "active" => entry.starts <= clock)
  BY DEF StateAt
<1>4. /\ plan.at = "planned" /\ plan.op = c.op /\ plan.on = w /\ plan.row = entry
      /\ plan.now = clock /\ plan.evaluate = Expanded(Affected(old.targets, entry.targets))
  OBVIOUS
<1>0. Recent(clock)
  BY RowTypes DEF Recent, IInv, Typed
<1> HIDE DEF entry, plan
<1>5. OfWindow(plan) /\ CommandHolds(plan)
  BY <1>0, <1>1, <1>2, <1>3, <1>4 DEF CommandHolds, OfWindow, Scope, WindowGuard
<1> QED BY <1>1, <1>5, RequestKeeps

LEMMA PlanOverrideKeeps ==
  ASSUME IInv, Typed', NEW r \in Requests, NEW c \in Commands, NEW o \in Overrides,
         PlanOverride(r, o, c)
  PROVE  IInv'
<1> DEFINE t == CHOOSE t \in Targets : c.targets = {t}
           entry == [state |-> "live", target |-> t, expires |-> c.ends]
           plan == [at |-> "planned", op |-> c.op, on |-> o, now |-> clock, row |-> entry,
                    replaces |-> IF LiveOn(t) = {} THEN None ELSE CHOOSE p \in LiveOn(t) : TRUE,
                    evaluate |-> Expanded({t})]
<1>1. /\ requests' = [requests EXCEPT ![r] = plan]
      /\ UNCHANGED <<windows, overrides, outbox, pending, shown, generation, tick, work, clock>>
      /\ c.op = "override" /\ overrides[o] = NoOverride /\ Unused(o)
  BY DEF PlanOverride
<1>2. /\ plan.at = "planned" /\ plan.op = "override" /\ plan.on = o /\ plan.row.target = t
      /\ plan.now = clock /\ plan.evaluate = Expanded({t})
  BY <1>1
<1>0. Recent(clock)
  BY RowTypes DEF Recent, IInv, Typed
<1> HIDE DEF t, entry, plan
<1>3. ~OfWindow(plan) /\ CommandHolds(plan)
  BY <1>0, <1>1, <1>2 DEF CommandHolds, OfWindow, Scope
<1>4. \A x \in Requests : Open(requests[x]) => requests[x].on # o
  BY <1>1 DEF Unused, Open
<1> QED BY <1>1, <1>2, <1>3, <1>4, RequestKeeps

LEMMA EvaluateKeeps ==
  ASSUME IInv, Typed', NEW r \in Requests, Evaluate(r) PROVE IInv'
<1> DEFINE q == requests[r]
           draft == [t \in q.evaluate |-> Signals(WindowsAfter(q), OverridesAfter(q), t, q.now)]
           next == [at |-> "evaluated", op |-> q.op, on |-> q.on, row |-> q.row,
                    replaces |-> q.replaces, generation |-> generation, draft |-> draft]
<1>1. /\ requests' = [requests EXCEPT ![r] = next] /\ q.at = "planned"
      /\ UNCHANGED <<windows, overrides, outbox, pending, shown, generation, tick, work, clock>>
  BY DEF Evaluate
<1>2. CommandHolds(q) /\ generation \in Nat
  BY RowTypes DEF IInv, CommandsHold, Typed
<1>3. /\ next.at = "evaluated" /\ next.op = q.op /\ next.on = q.on /\ next.row = q.row
      /\ next.replaces = q.replaces /\ next.generation = generation /\ next.draft = draft
  OBVIOUS
<1>4. Recent(q.now) /\ q.now \in Nat
  BY <1>1, <1>2 DEF CommandHolds, Open, Recent
<1>5. /\ DOMAIN draft = q.evaluate
      /\ \A t \in q.evaluate : draft[t] = Signals(WindowsAfter(q), OverridesAfter(q), t, q.now)
  OBVIOUS
<1> HIDE DEF draft, next
<1>6. WindowsAfter(next) = WindowsAfter(q) /\ OverridesAfter(next) = OverridesAfter(q)
  BY <1>3 DEF WindowsAfter, OverridesAfter
<1>7. next.generation = generation => \E n \in Nat : Recent(n) /\ \A t \in Scope(next) :
        next.draft[t] = Signals(WindowsAfter(next), OverridesAfter(next), t, n)
  BY <1>3, <1>4, <1>5, <1>6 DEF Scope
<1>9. CommandHolds(next)
  BY <1>1, <1>2, <1>3, <1>5, <1>6, <1>7 DEF CommandHolds, OfWindow, Scope, Open, WindowGuard
<1>8. ~OfWindow(next) => \A x \in Requests \ {r} :
        Open(requests[x]) /\ ~OfWindow(requests[x]) => requests[x].on # next.on
  BY <1>1, <1>3 DEF IInv, CommandsHold, NewIdentities, OfWindow, Open
<1> QED BY <1>1, <1>8, <1>9, RequestKeeps

\* A command that has not been committed survives the batch of another, which
\* invalidates its evaluation.
LEMMA OtherCommand ==
  ASSUME IInv, NEW q, RequestTyped(q), Succeeds(q), CommandHolds(q),
         windows' = WindowsAfter(q), overrides' = OverridesAfter(q),
         generation' = generation + 1, clock' = clock,
         NEW p, RequestTyped(p), CommandHolds(p),
         Open(p) /\ ~OfWindow(p) /\ ~OfWindow(q) => p.on # q.on
  PROVE  CommandHolds(p)'
<1> SUFFICES ASSUME Open(p) PROVE CommandHolds(p)'
  BY DEF CommandHolds
<1>1. p.at = "evaluated" => p.generation \in Nat /\ generation \in Nat /\ p.generation <= generation
  BY RowTypes DEF CommandHolds, IInv, Typed, RequestTyped
<1>2. p.at = "evaluated" => p.generation <= generation' /\ p.generation # generation'
  BY <1>1
<1>3. ASSUME OfWindow(p)
      PROVE  /\ p.row.revision <= windows'[p.on].revision + 1
             /\ WindowGuard(p)' => Scope(p) = Expanded(Affected(windows'[p.on].targets, p.row.targets))
             /\ p.row.state = "active" => p.row.starts <= clock
  <2>1. p.on \in Windows /\ p.row.revision \in Nat /\ windows[p.on].revision \in Nat
    BY <1>3, RowTypes, WindowTyped DEF RequestTyped, IInv, Typed
  <2>2. /\ p.row.revision <= windows[p.on].revision + 1
        /\ WindowGuard(p) => Scope(p) = Expanded(Affected(windows[p.on].targets, p.row.targets))
        /\ p.row.state = "active" => p.row.starts <= clock
    BY <1>3 DEF CommandHolds
  <2>3. CASE windows'[p.on] = windows[p.on]
    BY <2>2, <2>3 DEF WindowGuard
  <2>4. CASE windows'[p.on].revision = windows[p.on].revision + 1
    BY <2>1, <2>2, <2>4 DEF WindowGuard
  <2> QED BY <2>1, <2>3, <2>4, WindowCommitted, OverrideCommitted DEF IInv
<1>4. ASSUME ~OfWindow(p)
      PROVE  overrides'[p.on] = NoOverride /\ Scope(p) = Expanded({p.row.target})
  <2>1. p.on \in Overrides /\ overrides[p.on] = NoOverride /\ Scope(p) = Expanded({p.row.target})
    BY <1>4 DEF CommandHolds, RequestTyped
  <2>2. overrides[p.on].state # "live"
    BY <2>1 DEF NoOverride
  <2>3. CASE OfWindow(q)
    BY <2>1, <2>3, WindowCommitted DEF IInv
  <2>4. CASE ~OfWindow(q)
    <3>1. \A o \in Overrides \ {q.on} : overrides'[o] = overrides[o] \/ overrides[o].state = "live"
      BY <2>4, OverrideCommitted DEF IInv
    <3> QED BY <1>4, <2>1, <2>2, <2>4, <3>1
  <2> QED BY <2>3, <2>4
<1>5. \A n : Recent(n)' <=> Recent(n)
  BY DEF Recent
<1> QED BY <1>2, <1>3, <1>4, <1>5 DEF CommandHolds

LEMMA CommitKeeps ==
  ASSUME IInv, Typed', NEW r \in Requests, Commit(r) PROVE IInv'
<1>0. PICK q : q = requests[r]
  OBVIOUS
<1>1. /\ q.at = "evaluated" /\ RequestTyped(q) /\ CommandHolds(q) /\ Open(q)
      /\ requests' = [requests EXCEPT ![r] = [at |-> "done"]]
      /\ UNCHANGED <<outbox, pending, tick, work, clock>>
  BY <1>0, Committed DEF IInv, CommandsHold, Open
<1>2. \A x \in Requests : /\ requests'[x] = IF x = r THEN [at |-> "done"] ELSE requests[x]
                          /\ RequestTyped(requests[x])
  BY <1>1 DEF IInv, Typed
<1>3. ~Open([at |-> "done"])
  BY DEF Open
<1>4. CASE ~Succeeds(q)
  <2>1. UNCHANGED <<windows, overrides, shown, generation>>
    BY <1>0, <1>4, Committed DEF IInv
  <2>2. CommandHolds([at |-> "done"])
    BY <1>3 DEF CommandHolds
  <2>3. \A x \in Requests : ~(Open([at |-> "done"]))
    BY <1>3
  <2>4. ASSUME NEW x \in Requests PROVE CommandHolds(requests[x])'
    <3>1. PICK p : p = requests'[x]
      OBVIOUS
    <3>2. CommandHolds(p)
      BY <1>2, <2>2, <3>1 DEF IInv, CommandsHold
    <3>3. CommandHolds(p)'
      BY <1>1, <2>1, <3>2, CommandStays
    <3> QED BY <3>1, <3>3
  <2>5. NewIdentities'
    BY <1>2, <1>3 DEF NewIdentities, IInv, CommandsHold
  <2>6. TickHolds' /\ Announced' /\ Begun'
    BY <1>1, <2>1, NothingMoves DEF IInv, TickHolds, Announced, Begun, Selected
  <2>7. ShownHolds' /\ WorkHolds'
    BY <1>1, <2>1, NothingMoves DEF IInv, ShownHolds, WorkHolds, NoWork
  <2> QED BY <2>4, <2>5, <2>6, <2>7 DEF IInv, CommandsHold
<1>5. CASE Succeeds(q)
  <2>1. /\ windows' = WindowsAfter(q) /\ overrides' = OverridesAfter(q)
        /\ shown' = [t \in Targets |-> IF t \in Scope(q) THEN q.draft[t] ELSE shown[t]]
        /\ generation' = generation + 1 /\ generation \in Nat
    BY <1>0, <1>5, Committed, RowTypes DEF IInv, Typed
  <2>2. ASSUME NEW x \in Requests PROVE CommandHolds(requests[x])'
    <3>1. PICK p : p = requests'[x]
      OBVIOUS
    <3>2. CASE x = r
      BY <1>2, <1>3, <3>2 DEF CommandHolds
    <3>3. CASE x # r
      <4>1. p = requests[x] /\ RequestTyped(p) /\ CommandHolds(p)
        BY <1>2, <3>1, <3>3 DEF IInv, CommandsHold
      <4>2. Open(p) /\ ~OfWindow(p) /\ ~OfWindow(q) => p.on # q.on
        BY <1>0, <1>1, <3>3, <4>1 DEF IInv, CommandsHold, NewIdentities
      <4>3. CommandHolds(p)'
        BY <1>1, <1>5, <2>1, <4>1, <4>2, OtherCommand
      <4> QED BY <3>1, <4>3
    <3> QED BY <3>2, <3>3
  <2>3. NewIdentities'
    BY <1>2, <1>3 DEF NewIdentities, IInv, CommandsHold
  <2>4. TickHolds'
    BY <1>1, <2>1 DEF IInv, TickHolds
  <2>5. Announced'
    <3> SUFFICES ASSUME NEW e \in outbox
                 PROVE  /\ e.event # "override.expired" =>
                             e.source \in Windows /\ e.revision < windows'[e.source].revision
                        /\ e.event = "override.expired" =>
                             /\ e.source \in Overrides /\ overrides'[e.source].state # "none"
                             /\ overrides'[e.source].expires <= clock
      BY <1>1 DEF Announced
    <3>1. CASE e.event # "override.expired"
      <4>1. /\ e.source \in Windows /\ e.revision < windows[e.source].revision
            /\ e.revision \in Nat /\ windows[e.source].revision \in Nat
        BY <3>1, RowTypes, WindowTyped DEF IInv, Announced, Typed, Items
      <4>2. windows'[e.source].revision \in {windows[e.source].revision, windows[e.source].revision + 1}
        BY <1>1, <1>5, <2>1, <4>1, WindowCommitted, OverrideCommitted DEF IInv
      <4> QED BY <3>1, <4>1, <4>2
    <3>2. CASE e.event = "override.expired"
      <4>1. /\ e.source \in Overrides /\ overrides[e.source].state # "none"
            /\ overrides[e.source].expires <= clock
        BY <3>2 DEF IInv, Announced
      <4>2. overrides[e.source] \in OverrideRows
        BY <4>1, RowTypes DEF IInv, Typed
      <4>3. \/ overrides'[e.source] = overrides[e.source]
            \/ overrides'[e.source] = [overrides[e.source] EXCEPT !.state = "revoked"]
        <5>1. CASE OfWindow(q)
          BY <1>1, <1>5, <2>1, <5>1, WindowCommitted DEF IInv
        <5>2. CASE ~OfWindow(q)
          <6>1. overrides[q.on] = NoOverride
            BY <1>1, <1>5, <2>1, <5>2, OverrideCommitted DEF IInv
          <6>2. e.source # q.on
            BY <4>1, <6>1 DEF NoOverride
          <6>3. \A o \in Overrides \ {q.on} :
                   \/ overrides'[o] = overrides[o]
                   \/ overrides'[o] = [overrides[o] EXCEPT !.state = "revoked"]
            BY <1>1, <1>5, <2>1, <5>2, OverrideCommitted DEF IInv
          <6> QED BY <4>1, <6>2, <6>3
        <5> QED BY <5>1, <5>2
      <4> QED BY <3>2, <4>1, <4>2, <4>3 DEF OverrideRows
    <3> QED BY <3>1, <3>2
  <2>6. Begun'
    BY <1>1, <1>5, <2>1, WindowCommitted, OverrideCommitted DEF IInv, Begun
  <2>7. ShownHolds'
    <3> SUFFICES ASSUME NEW t \in Targets PROVE Holds(t, shown[t], pending)'
      BY DEF ShownHolds
    <3>1. CASE t \in Scope(q)
      <4>1. PICK n : Recent(n) /\ q.draft[t] = Signals(WindowsAfter(q), OverridesAfter(q), t, n)
        BY <1>1, <1>5, <3>1 DEF CommandHolds, Succeeds
      <4>2. shown'[t] = Signals(windows', overrides', t, n)
        BY <1>1, <2>1, <3>1, <4>1
      <4>3. Recent(n)'
        BY <1>1, <4>1 DEF Recent
      <4>4. Holds(t, Signals(windows, overrides, t, n), {})'
        BY <2>5, <4>3, FreshHoldsAfter
      <4> QED BY <4>2, <4>4 DEF Holds, Aged, Current
    <3>2. CASE t \notin Scope(q)
      <4>1. PICK sources, items : sources = shown[t] /\ items = pending
        OBVIOUS
      <4>2. Holds(t, sources, items)
        BY <4>1 DEF IInv, ShownHolds
      <4>3. Holds(t, sources, items)'
        BY <1>1, <1>5, <2>1, <3>2, <4>2, CommitHolds DEF IInv
      <4>4. shown'[t] = sources /\ pending' = items
        BY <1>1, <2>1, <3>2, <4>1
      <4> QED BY <4>3, <4>4 DEF Holds, Aged, Current
    <3> QED BY <3>1, <3>2
  <2>8. WorkHolds'
    BY <1>1, <2>1 DEF IInv, WorkHolds, Typed, NoWork
  <2> QED BY <2>2, <2>3, <2>4, <2>5, <2>6, <2>7, <2>8 DEF IInv, CommandsHold
<1> QED BY <1>4, <1>5

LEMMA TickWriteKeeps ==
  ASSUME IInv, Typed', TickWrite PROVE IInv'
<1>1. tick' = NoTick /\ UNCHANGED <<overrides, shown, requests, work, clock>>
  BY DEF TickWrite
<1>2. TickHolds'
  BY <1>1 DEF TickHolds, NoTick
<1>3. CASE ~GenerationHolds(tick.generation)
  <2>1. UNCHANGED <<windows, outbox, pending, generation>>
    BY <1>3 DEF TickWrite
  <2>2. Announced' /\ Begun' /\ CommandsHold'
    BY <1>1, <2>1, CommandsStay DEF IInv, Announced, Begun
  <2>3. ShownHolds' /\ WorkHolds'
    BY <1>1, <2>1, NothingMoves DEF IInv, ShownHolds, WorkHolds, NoWork
  <2> QED BY <1>2, <2>2, <2>3 DEF IInv
<1>4. CASE GenerationHolds(tick.generation)
  <2>1. PICK rows, n : rows = tick.rows /\ n = tick.now
    OBVIOUS
  <2>2. /\ n \in Nat /\ n <= clock /\ clock \in Nat /\ rows \subseteq Unannounced(n)
        /\ rows \cap outbox = {} /\ outbox' = outbox \cup rows /\ pending' = pending \cup rows
    BY <1>4, <2>1, TickRows, RowTypes DEF IInv, Typed
  <2>3. ASSUME NEW w \in Windows
        PROVE  /\ windows'[w] = windows[w] \/
                    (windows'[w].revision = windows[w].revision + 1 /\ generation' = generation + 1)
               /\ windows'[w].targets = windows[w].targets
               /\ windows[w].revision \in Nat
    BY <1>4, TickMoves, RowTypes, WindowTyped DEF IInv, Typed
  <2>4. generation' \in {generation, generation + 1} /\ generation \in Nat
    BY <1>4, RowTypes DEF TickWrite, IInv, Typed
  <2>5. generation' = generation => windows' = windows
    <3>1. windows = [w \in Windows |-> windows[w]] /\ windows' = [w \in Windows |-> windows'[w]]
      BY DEF IInv, Typed, TypeOK
    <3> QED BY <2>3, <2>4, <3>1
  <2>6. Announced'
    <3>1. ASSUME NEW e \in outbox
          PROVE  e.event # "override.expired" =>
                   e.source \in Windows /\ e.revision < windows'[e.source].revision
      <4> SUFFICES ASSUME e.event # "override.expired"
                   PROVE  e.source \in Windows /\ e.revision < windows'[e.source].revision
        OBVIOUS
      <4>1. e.source \in Windows /\ e.revision < windows[e.source].revision /\ e.revision \in Nat
        BY RowTypes DEF IInv, Announced, Typed, Items
      <4> QED BY <2>3, <4>1
    <3>2. ASSUME NEW e \in rows
          PROVE  /\ e.event # "override.expired" =>
                      e.source \in Windows /\ e.revision < windows'[e.source].revision
                 /\ e.event = "override.expired" =>
                      /\ e.source \in Overrides /\ overrides[e.source].state # "none"
                      /\ overrides[e.source].expires <= clock
      <4>1. e \in Unannounced(n)
        BY <2>2
      <4>2. ASSUME NEW w \in Windows, Starting(w, n) /\ e = Started(w, e.target)
            PROVE  /\ e.event # "override.expired" /\ e.source = w
                   /\ e.revision < windows'[w].revision
        <5>1. e.event = "maintenance.started" /\ e.source = w /\ e.revision = windows[w].revision
          BY <4>2 DEF Started, Event
        <5>2. Activates(w)
          BY <2>1, <4>2, <5>1 DEF Activates, Starting
        <5>3. windows'[w].revision = windows[w].revision + 1
          BY <1>4, <5>2, TickMoves DEF Moves, IInv
        <5> QED BY <2>3, <5>1, <5>3
      <4>3. ASSUME NEW w \in Windows, Ended(w, n) /\ e = Ending(w, e.target)
            PROVE  /\ e.event # "override.expired" /\ e.source = w
                   /\ e.revision < windows'[w].revision
        <5>1. e.event = "maintenance.expired" /\ e.source = w /\ e.revision = windows[w].revision
          BY <4>3 DEF Ending, Event
        <5>2. Completes(w)
          BY <2>1, <4>3, <5>1 DEF Completes, Ended
        <5>3. windows'[w].revision = windows[w].revision + 1
          BY <1>4, <5>2, TickMoves DEF Moves, IInv
        <5> QED BY <2>3, <5>1, <5>3
      <4>4. ASSUME NEW o \in Overrides, Expired(o, n) /\ e = Expiry(o)
            PROVE  /\ e.event = "override.expired" /\ e.source = o
                   /\ overrides[o].state # "none" /\ overrides[o].expires <= clock
        <5>1. overrides[o].expires \in Nat
          BY RowTypes, OverrideTyped DEF IInv, Typed
        <5> QED BY <2>2, <4>4, <5>1 DEF Expiry, Event, Expired
      <4>5. \/ \E w \in Windows : Starting(w, n) /\ e = Started(w, e.target)
            \/ \E w \in Windows : Ended(w, n) /\ e = Ending(w, e.target)
            \/ \E o \in Overrides : Expired(o, n) /\ e = Expiry(o)
        BY <4>1, FoundAbout
      <4> QED BY <4>2, <4>3, <4>4, <4>5
    <3> QED BY <1>1, <2>2, <3>1, <3>2 DEF Announced, IInv
  <2>7. Begun'
    <3> SUFFICES ASSUME NEW w \in Windows, windows'[w].state = "active"
                 PROVE  windows'[w].starts <= clock
      BY <1>1 DEF Begun
    <3>1. CASE Moves(w)
      <4>1. ~Completes(w) /\ windows'[w].starts = windows[w].starts
        BY <1>4, <3>1, TickMoves DEF IInv
      <4>2. windows[w].starts <= n
        BY <2>1, <3>1, <4>1 DEF Moves, Activates
      <4>3. windows[w].starts \in Nat
        BY RowTypes, WindowTyped DEF IInv, Typed
      <4> QED BY <2>2, <4>1, <4>2, <4>3
    <3>2. CASE ~Moves(w)
      BY <1>4, <3>2, TickMoves DEF IInv, Begun
    <3> QED BY <3>1, <3>2
  <2>8. CommandsHold'
    <3>1. CASE generation' = generation
      BY <1>1, <2>5, <3>1, CommandsStay DEF IInv
    <3>2. CASE generation' = generation + 1
      <4>1. ASSUME NEW x \in Requests PROVE CommandHolds(requests[x])'
        <5>1. PICK p : p = requests[x] /\ CommandHolds(p) /\ RequestTyped(p)
          BY DEF IInv, CommandsHold, Typed
        <5>2. CommandHolds(p)'
          <6> SUFFICES ASSUME Open(p) PROVE CommandHolds(p)'
            BY DEF CommandHolds
          <6>1. p.at = "evaluated" => p.generation <= generation' /\ p.generation # generation'
            BY <2>4, <3>2, <5>1 DEF CommandHolds, RequestTyped
          <6>2. ASSUME OfWindow(p)
                PROVE  /\ p.row.revision <= windows'[p.on].revision + 1
                       /\ WindowGuard(p)' =>
                            Scope(p) = Expanded(Affected(windows'[p.on].targets, p.row.targets))
            <7>1. p.on \in Windows /\ p.row.revision \in Nat
              BY <5>1, <6>2, WindowTyped DEF RequestTyped
            <7>2. /\ p.row.revision <= windows[p.on].revision + 1
                  /\ WindowGuard(p) => Scope(p) = Expanded(Affected(windows[p.on].targets, p.row.targets))
              BY <5>1, <6>2 DEF CommandHolds
            <7>3. CASE windows'[p.on] = windows[p.on]
              BY <7>2, <7>3 DEF WindowGuard
            <7>4. CASE windows'[p.on].revision = windows[p.on].revision + 1
              BY <2>3, <7>1, <7>2, <7>4 DEF WindowGuard
            <7> QED BY <2>3, <7>1, <7>3, <7>4
          <6>3. \A m : Recent(m)' <=> Recent(m)
            BY <1>1 DEF Recent
          <6> QED BY <1>1, <5>1, <6>1, <6>2, <6>3 DEF CommandHolds
        <5> QED BY <1>1, <5>1, <5>2
      <4> QED BY <1>1, <4>1 DEF IInv, CommandsHold, NewIdentities
    <3> QED BY <2>4, <3>1, <3>2
  <2>9. ShownHolds'
    <3> SUFFICES ASSUME NEW t \in Targets PROVE Holds(t, shown[t], pending)'
      BY DEF ShownHolds
    <3>1. PICK sources, items : sources = shown[t] /\ items = pending
      OBVIOUS
    <3>2. Holds(t, sources, items)
      BY <3>1 DEF IInv, ShownHolds
    <3>3. Holds(t, sources, items \cup rows)'
      BY <1>4, <2>1, <3>2, TickHoldsOn DEF IInv
    <3> QED BY <1>1, <2>2, <3>1, <3>3 DEF Holds, Aged, Current
  <2>10. WorkHolds'
    <3> SUFFICES ASSUME work # NoWork
                 PROVE  /\ work.generation <= generation'
                        /\ work.generation = generation' =>
                             Holds(work.item.target, work.draft, pending \ {work.item})'
      BY <1>1 DEF WorkHolds, NoWork
    <3>1. work.generation \in Nat /\ work.generation <= generation /\ work.item \in outbox
      BY DEF IInv, Typed, WorkHolds
    <3>2. CASE generation' = generation + 1
      BY <2>4, <3>1, <3>2
    <3>3. CASE generation' = generation /\ work.generation = generation
      <4>1. PICK t, sources, items : /\ t = work.item.target /\ sources = work.draft
                                     /\ items = pending \ {work.item}
        OBVIOUS
      <4>2. Holds(t, sources, items) /\ t \in Targets
        BY <3>1, <3>3, <4>1, RowTypes DEF IInv, WorkHolds, Typed, Items
      <4>3. Holds(t, sources, items \cup rows)'
        BY <1>4, <2>1, <4>2, TickHoldsOn DEF IInv
      <4>4. items \cup rows = pending' \ {work.item}
        BY <2>2, <3>1, <4>1
      <4> QED BY <1>1, <3>1, <3>3, <4>1, <4>3, <4>4 DEF Holds, Aged, Current
    <3> QED BY <2>4, <3>1, <3>2, <3>3
  <2> QED BY <1>2, <2>6, <2>7, <2>8, <2>9, <2>10 DEF IInv
<1> QED BY <1>3, <1>4

LEMMA DeliverKeeps ==
  ASSUME IInv, Typed', NEW e \in pending, Deliver(e) PROVE IInv'
<1>1. /\ work' = [item |-> e, generation |-> generation,
                  draft |-> Signals(windows, overrides, e.target, clock)]
      /\ UNCHANGED <<windows, overrides, outbox, pending, shown, generation, requests, tick, clock>>
  BY DEF Deliver
<1>2. TickHolds' /\ Announced' /\ Begun' /\ CommandsHold'
  BY <1>1, NothingMoves, CommandsStay DEF IInv, TickHolds, Announced, Begun, Selected
<1>3. ShownHolds'
  BY <1>1, NothingMoves DEF IInv, ShownHolds
<1>4. WorkHolds'
  <2>1. e \in Items /\ generation \in Nat
    BY RowTypes DEF IInv, Typed
  <2>2. PICK t, draft : t = e.target /\ draft = Signals(windows, overrides, t, clock)
    OBVIOUS
  <2>3. Recent(clock)
    BY RowTypes DEF Recent, IInv, Typed
  <2>4. Holds(t, draft, {})
    BY <2>1, <2>2, <2>3, FreshHolds DEF IInv, Items
  <2>6. Holds(t, draft, {})'
    BY <1>1, <2>4, NothingMoves
  <2>7. Holds(t, draft, pending \ {e})'
    BY <2>6 DEF Holds, Aged, Current
  <2>5. work'.item = e /\ work'.draft = draft /\ work'.generation = generation'
    BY <1>1, <2>2
  <2> QED BY <1>1, <2>1, <2>2, <2>5, <2>7 DEF WorkHolds, Holds, Aged, Current
<1> QED BY <1>2, <1>3, <1>4 DEF IInv

LEMMA DeliveredKeeps ==
  ASSUME IInv, Typed', Delivered PROVE IInv'
<1>1. /\ work # NoWork /\ work' = NoWork
      /\ UNCHANGED <<windows, overrides, outbox, requests, tick, clock>>
      /\ work.generation \in Nat /\ generation \in Nat /\ work.item \in Items
  BY RowTypes DEF Delivered, IInv, Typed
<1>2. WorkHolds'
  BY <1>1 DEF WorkHolds, NoWork
<1>3. Announced' /\ Begun'
  BY <1>1 DEF IInv, Announced, Begun
<1>4. CASE ~GenerationHolds(work.generation)
  <2>1. UNCHANGED <<shown, generation, pending>>
    BY <1>4 DEF Delivered, PendingAfter
  <2>2. TickHolds' /\ CommandsHold'
    BY <1>1, <2>1, NothingMoves, CommandsStay DEF IInv, TickHolds, Selected
  <2>3. ShownHolds'
    BY <1>1, <2>1, NothingMoves DEF IInv, ShownHolds
  <2> QED BY <1>2, <1>3, <2>2, <2>3 DEF IInv
<1>5. CASE GenerationHolds(work.generation)
  <2>1. /\ shown' = [shown EXCEPT ![work.item.target] = work.draft]
        /\ generation' = generation + 1 /\ pending' = pending \ {work.item}
    BY <1>5 DEF Delivered, PendingAfter
  <2>2. TickHolds'
    BY <1>1, <2>1 DEF IInv, TickHolds
  <2>3. CommandsHold'
    <3>1. ASSUME NEW x \in Requests PROVE CommandHolds(requests[x])'
      <4>1. PICK p : p = requests[x] /\ CommandHolds(p) /\ RequestTyped(p)
        BY DEF IInv, CommandsHold, Typed
      <4>2. Open(p) /\ p.at = "evaluated" => p.generation <= generation' /\ p.generation # generation'
        BY <1>1, <2>1, <4>1 DEF CommandHolds, RequestTyped
      <4>3. \A m : Recent(m)' <=> Recent(m)
        BY <1>1 DEF Recent
      <4>5. CommandHolds(p)'
        BY <1>1, <4>1, <4>2, <4>3 DEF CommandHolds, WindowGuard
      <4> QED BY <1>1, <4>1, <4>5
    <3> QED BY <1>1, <3>1 DEF IInv, CommandsHold, NewIdentities
  <2>4. ShownHolds'
    <3> SUFFICES ASSUME NEW t \in Targets PROVE Holds(t, shown[t], pending)'
      BY DEF ShownHolds
    <3>1. shown \in [Targets -> SUBSET Sources]
      BY DEF IInv, Typed, TypeOK
    <3>2. CASE t = work.item.target
      <4>1. shown'[t] = work.draft
        BY <2>1, <3>1, <3>2
      <4>2. Holds(t, work.draft, pending \ {work.item})
        BY <1>1, <1>5, <3>2 DEF IInv, WorkHolds, GenerationHolds
      <4> QED BY <1>1, <2>1, <4>1, <4>2, NothingMoves DEF Holds, Aged, Current
    <3>3. CASE t # work.item.target
      <4>1. shown'[t] = shown[t]
        BY <2>1, <3>1, <3>3
      <4>2. Holds(t, shown[t], pending)
        BY DEF IInv, ShownHolds
      <4> QED BY <1>1, <2>1, <3>3, <4>1, <4>2, NothingMoves DEF Holds, Aged, Current
    <3> QED BY <3>2, <3>3
  <2> QED BY <1>2, <1>3, <2>2, <2>3, <2>4 DEF IInv
<1> QED BY <1>4, <1>5

\* Time passes; if commands are prompt, none is under way.
LEMMA PassKeeps ==
  ASSUME IInv, Typed', Pass PROVE IInv'
<1>1. /\ clock' = clock + 1 /\ clock \in Nat
      /\ UNCHANGED <<windows, overrides, outbox, pending, shown, generation, requests, tick, work>>
      /\ PromptCommands => \A r \in Requests : ~Open(requests[r])
  BY RowTypes DEF Pass, IInv, Typed, Open
<1>2. CommandsHold'
  <2>1. ASSUME NEW r \in Requests PROVE CommandHolds(requests[r])'
    <3>1. PICK q : q = requests[r] /\ CommandHolds(q) /\ RequestTyped(q)
      BY DEF IInv, CommandsHold, Typed
    <3>2. CASE ~Open(q)
      BY <1>1, <3>1, <3>2 DEF CommandHolds
    <3>3. CASE Open(q)
      <4>1. \A n : Recent(n) => Recent(n)'
        BY <1>1, <3>1, <3>3 DEF Recent
      <4>2. WindowsAfter(q)' = WindowsAfter(q) /\ OverridesAfter(q)' = OverridesAfter(q)
        BY <1>1 DEF WindowsAfter, OverridesAfter
      <4>3. WindowGuard(q)' <=> WindowGuard(q)
        BY <1>1 DEF WindowGuard
      <4>4. OfWindow(q) => q.row.starts \in Nat
        BY <3>1, <3>3, WindowTyped DEF RequestTyped
      <4>5. OfWindow(q) /\ q.row.state = "active" => q.row.starts <= clock'
        BY <1>1, <3>1, <3>3, <4>4 DEF CommandHolds
      <4>6. CommandHolds(q)'
        BY <1>1, <3>1, <3>3, <4>1, <4>2, <4>3, <4>5 DEF CommandHolds
      <4> QED BY <1>1, <3>1, <4>6
    <3> QED BY <3>2, <3>3
  <2> QED BY <1>1, <2>1 DEF IInv, CommandsHold, NewIdentities
<1>3. TickHolds'
  <2>1. \A when : Unannounced(when)' = Unannounced(when)
    BY <1>1 DEF Unannounced, Temporal, ExpandedTargets
  <2> QED BY <1>1, <2>1 DEF IInv, TickHolds, Selected
<1>4. Announced'
  <2>1. \A o \in Overrides : overrides[o].expires \in Nat
    BY RowTypes, OverrideTyped DEF IInv, Typed
  <2> QED BY <1>1, <2>1 DEF IInv, Announced
<1>5. Begun'
  <2>1. \A w \in Windows : windows[w].starts \in Nat
    BY RowTypes, WindowTyped DEF IInv, Typed
  <2> QED BY <1>1, <2>1 DEF IInv, Begun
<1>6. ASSUME NEW t \in Targets, NEW sources, NEW items, Holds(t, sources, items)
      PROVE  Holds(t, sources, items)'
  <2>1. Aged(t, sources, items)'
    <3>1. \A n \in Nat : n <= clock => n <= clock'
      BY <1>1
    <3> QED BY <1>1, <1>6, <3>1 DEF Holds, Aged
  <2> QED BY <1>6, <2>1, PassCurrent DEF IInv, Holds
<1>7. ShownHolds'
  <2> SUFFICES ASSUME NEW t \in Targets PROVE Holds(t, shown[t], pending)'
    BY DEF ShownHolds
  <2>1. PICK sources, items : sources = shown[t] /\ items = pending
    OBVIOUS
  <2>2. Holds(t, sources, items)'
    BY <1>6, <2>1 DEF IInv, ShownHolds
  <2> QED BY <1>1, <2>1, <2>2 DEF Holds, Aged, Current
<1>8. WorkHolds'
  <2> SUFFICES ASSUME work # NoWork, work.generation = generation
               PROVE  Holds(work.item.target, work.draft, pending \ {work.item})'
    BY <1>1 DEF IInv, WorkHolds, NoWork
  <2>1. PICK t, sources, items : /\ t = work.item.target /\ sources = work.draft
                                 /\ items = pending \ {work.item}
    OBVIOUS
  <2>2. Holds(t, sources, items) /\ t \in Targets
    BY <2>1, RowTypes DEF IInv, WorkHolds, Typed, Items
  <2>3. Holds(t, sources, items)'
    BY <1>6, <2>2
  <2> QED BY <1>1, <2>1, <2>3 DEF Holds, Aged, Current
<1> QED BY <1>2, <1>3, <1>4, <1>5, <1>7, <1>8 DEF IInv

LEMMA StepKeeps ==
  IInv /\ [Next]_vars => IInv'
<1> SUFFICES ASSUME IInv, [Next]_vars PROVE IInv'
  OBVIOUS
<1>1. Typed'
  BY TypesKept DEF IInv
<1>2. ASSUME NEW r \in Requests, NEW c \in Commands, NEW w \in Windows, PlanWindow(r, w, c)
      PROVE IInv'
  BY <1>1, <1>2, PlanWindowKeeps
<1>3. ASSUME NEW r \in Requests, NEW c \in Commands, NEW o \in Overrides, PlanOverride(r, o, c)
      PROVE IInv'
  BY <1>1, <1>3, PlanOverrideKeeps
<1>4. ASSUME NEW r \in Requests, Evaluate(r) PROVE IInv'
  BY <1>1, <1>4, EvaluateKeeps
<1>5. ASSUME NEW r \in Requests, Commit(r) PROVE IInv'
  BY <1>1, <1>5, CommitKeeps
<1>6. ASSUME UNCHANGED <<windows, overrides, outbox, pending, shown, generation, requests, work, clock>>,
             TickHolds'
      PROVE IInv'
  <2>1. Announced' /\ Begun' /\ CommandsHold'
    BY <1>6, CommandsStay DEF IInv, Announced, Begun
  <2>2. ShownHolds' /\ WorkHolds'
    BY <1>6, NothingMoves DEF IInv, ShownHolds, WorkHolds, NoWork
  <2> QED BY <1>1, <1>6, <2>1, <2>2 DEF IInv
<1>7. CASE TickBegin
  <2>1. TickHolds'
    BY <1>7, RowTypes DEF TickBegin, TickHolds, NoTick, IInv, Typed
  <2> QED BY <1>6, <1>7, <2>1 DEF TickBegin
<1>8. CASE TickScan
  <2>1. /\ UNCHANGED <<windows, overrides, outbox, pending, shown, generation, requests, work, clock>>
        /\ tick.at = "generation"
        /\ tick' = NoTick \/ tick' = [tick EXCEPT !.at = "scanned", !.rows = Selected(Unannounced(tick.now))]
    BY <1>8 DEF TickScan
  <2>2. CASE tick' = NoTick
    BY <1>6, <2>1, <2>2 DEF TickHolds, NoTick
  <2>3. CASE tick' = [tick EXCEPT !.at = "scanned", !.rows = Selected(Unannounced(tick.now))]
    <3>1. tick'.now = tick.now /\ tick'.generation = tick.generation
      BY <2>3
    <3>2. tick'.at = "scanned" /\ tick'.rows = Selected(Unannounced(tick.now))
      BY <2>3
    <3>3. TickHolds'
      BY <2>1, <3>1, <3>2, NothingMoves DEF IInv, TickHolds, Selected
    <3> QED BY <1>6, <2>1, <3>3
  <2> QED BY <2>1, <2>2, <2>3
<1>9. CASE TickWrite
  BY <1>1, <1>9, TickWriteKeeps
<1>10. CASE TickLost
  BY <1>6, <1>10 DEF TickLost, TickHolds, NoTick
<1>11. ASSUME NEW e \in pending, Deliver(e) PROVE IInv'
  BY <1>1, <1>11, DeliverKeeps
<1>12. CASE Delivered
  BY <1>1, <1>12, DeliveredKeeps
<1>13. CASE Pass
  BY <1>1, <1>13, PassKeeps
<1>14. CASE UNCHANGED vars
  BY <1>6, <1>14, NothingMoves DEF vars, IInv, TickHolds, Selected
<1> QED BY <1>2, <1>3, <1>4, <1>5, <1>7, <1>8, <1>9, <1>10, <1>11, <1>12, <1>13, <1>14 DEF Next

-----------------------------------------------------------------------------
\* The inductive invariant holds in every reachable state.
THEOREM InvariantHolds == WindowSpec => []IInv
BY InitHolds, StepKeeps, PTL DEF WindowSpec

\* Whatever the order of commands, ticks, deliveries and the clock: a target
\* without pending work shows what the rows of the present say as of some time
\* past.  No batch leaves anything behind from rows that another batch changed.
RowsAreShown ==
  pending = {} => \A t \in Targets :
    \E n \in Nat : n <= clock /\ shown[t] = Signals(windows, overrides, t, n)

THEOREM NoRowForgotten == WindowSpec => []RowsAreShown
<1>1. IInv => RowsAreShown
  BY DEF IInv, ShownHolds, Holds, Aged, RowsAreShown
<1> QED BY <1>1, InvariantHolds, PTL

\* If no time passes between the plan and the batch of a command: once no
\* delivery or tick has anything left to do, every target shows exactly the
\* windows and overrides that are in force.  Without the assumption this fails
\* (see MaintenanceShown).
THEOREM NothingLeftBehind == ASSUME PromptCommands PROVE WindowSpec => []RestIsCurrent
<1>1. IInv => RestIsCurrent
  BY DEF IInv, Typed, ShownHolds, Holds, Current, Owed, RestIsCurrent
<1> QED BY <1>1, InvariantHolds, PTL

-----------------------------------------------------------------------------
(***************************************************************************)
(* Numbers and sequences of numbers.                                       *)
(***************************************************************************)

LEMMA LeastOf ==
  ASSUME NEW S \in SUBSET Nat, S # {}
  PROVE  \E x \in S : \A y \in S : x <= y
<1> DEFINE R == {ss \in Nat \X Nat : ss[1] < ss[2]}
<1>1. IsWellFoundedOn(R, Nat)
  BY NatLessThanWellFounded DEF OpToRel
<1> HIDE DEF R
<1>2. PICK x \in S : \A y \in S : <<y, x>> \notin R
  BY <1>1, WFMin
<1>3. \A y \in S : <<y, x>> \notin R => x <= y
  <2> SUFFICES ASSUME NEW y \in S, ~(x <= y) PROVE <<y, x>> \in R
    OBVIOUS
  <2>1. x \in Nat /\ y \in Nat /\ y < x
    OBVIOUS
  <2> QED BY <2>1 DEF R
<1> QED BY <1>2, <1>3

LEMMA InductionTo ==
  ASSUME NEW m \in Nat, NEW S, 0 \in S, \A n \in 0 .. m - 1 : n \in S => n + 1 \in S
  PROVE  0 .. m \subseteq S
<1> SUFFICES ASSUME (0 .. m) \ S # {} PROVE FALSE
  OBVIOUS
<1>1. PICK n \in (0 .. m) \ S : \A k \in (0 .. m) \ S : n <= k
  <2>1. (0 .. m) \ S \in SUBSET Nat
    OBVIOUS
  <2> QED BY <2>1, LeastOf
<1>2. n # 0 /\ n - 1 \in 0 .. m - 1 /\ n - 1 \in 0 .. m /\ (n - 1) + 1 = n /\ ~(n <= n - 1)
  BY SMT
<1>3. n - 1 \in S
  BY <1>1, <1>2
<1> QED BY <1>1, <1>2, <1>3

Members(s) == {s[i] : i \in 1 .. Len(s)}

Rising(s) == \A i, j \in 1 .. Len(s) : i < j => s[i] < s[j]

LEMMA MembersOfConcat ==
  ASSUME NEW S, NEW a \in Seq(S), NEW b \in Seq(S)
  PROVE  Members(a \o b) = Members(a) \cup Members(b)
<1>1. ASSUME NEW i \in 1 .. Len(a \o b) PROVE (a \o b)[i] \in Members(a) \cup Members(b)
  <2>1. CASE i <= Len(a)
    <3>1. (a \o b)[i] = a[i] /\ i \in 1 .. Len(a)
      BY <2>1
    <3> QED BY <3>1 DEF Members
  <2>2. CASE ~(i <= Len(a))
    <3>1. (a \o b)[i] = b[i - Len(a)] /\ i - Len(a) \in 1 .. Len(b)
      BY <2>2
    <3> QED BY <3>1 DEF Members
  <2> QED BY <2>1, <2>2
<1>2. ASSUME NEW i \in 1 .. Len(a) PROVE a[i] \in Members(a \o b)
  <2>1. (a \o b)[i] = a[i] /\ i \in 1 .. Len(a \o b)
    OBVIOUS
  <2> QED BY <2>1 DEF Members
<1>3. ASSUME NEW i \in 1 .. Len(b) PROVE b[i] \in Members(a \o b)
  <2>1. (a \o b)[i + Len(a)] = b[i] /\ i + Len(a) \in 1 .. Len(a \o b)
    OBVIOUS
  <2> QED BY <2>1 DEF Members
<1> QED BY <1>1, <1>2, <1>3 DEF Members

LEMMA RisingConcat ==
  ASSUME NEW a \in Seq(Nat), NEW b \in Seq(Nat)
  PROVE  Rising(a \o b) <=> /\ Rising(a) /\ Rising(b)
                            /\ \A x \in Members(a), y \in Members(b) : x < y
<1>1. ASSUME Rising(a \o b) PROVE Rising(a)
  BY <1>1 DEF Rising
<1>2. ASSUME Rising(a \o b), NEW i \in 1 .. Len(b), NEW j \in 1 .. Len(b), i < j
      PROVE  b[i] < b[j]
  <2>1. (a \o b)[i + Len(a)] = b[i] /\ i + Len(a) \in 1 .. Len(a \o b)
    OBVIOUS
  <2>2. (a \o b)[j + Len(a)] = b[j] /\ j + Len(a) \in 1 .. Len(a \o b)
    OBVIOUS
  <2>3. i + Len(a) < j + Len(a)
    BY <1>2
  <2> QED BY <1>2, <2>1, <2>2, <2>3 DEF Rising
<1>3. ASSUME Rising(a \o b), NEW i \in 1 .. Len(a), NEW j \in 1 .. Len(b)
      PROVE  a[i] < b[j]
  <2>1. (a \o b)[i] = a[i] /\ i \in 1 .. Len(a \o b)
    OBVIOUS
  <2>2. (a \o b)[j + Len(a)] = b[j] /\ j + Len(a) \in 1 .. Len(a \o b)
    OBVIOUS
  <2>3. i < j + Len(a)
    OBVIOUS
  <2> QED BY <1>3, <2>1, <2>2, <2>3 DEF Rising
<1>4. ASSUME Rising(a), Rising(b), \A x \in Members(a), y \in Members(b) : x < y,
             NEW i \in 1 .. Len(a \o b), NEW j \in 1 .. Len(a \o b), i < j
      PROVE  (a \o b)[i] < (a \o b)[j]
  <2>1. CASE j <= Len(a)
    <3>1. /\ (a \o b)[i] = a[i] /\ (a \o b)[j] = a[j]
          /\ i \in 1 .. Len(a) /\ j \in 1 .. Len(a)
      BY <1>4, <2>1
    <3> QED BY <1>4, <3>1 DEF Rising
  <2>2. CASE ~(i <= Len(a))
    <3>1. /\ (a \o b)[i] = b[i - Len(a)] /\ (a \o b)[j] = b[j - Len(a)]
          /\ i - Len(a) \in 1 .. Len(b) /\ j - Len(a) \in 1 .. Len(b) /\ i - Len(a) < j - Len(a)
      BY <1>4, <2>2
    <3> QED BY <1>4, <3>1 DEF Rising
  <2>3. CASE i <= Len(a) /\ ~(j <= Len(a))
    <3>1. /\ (a \o b)[i] = a[i] /\ (a \o b)[j] = b[j - Len(a)]
          /\ i \in 1 .. Len(a) /\ j - Len(a) \in 1 .. Len(b)
      BY <2>3
    <3> QED BY <1>4, <3>1 DEF Members
  <2> QED BY <2>1, <2>2, <2>3
<1> QED BY <1>1, <1>2, <1>3, <1>4 DEF Rising, Members

\* A rising sequence without one of its elements.
LEMMA RisingWithout ==
  ASSUME NEW q \in Seq(Nat), NEW i \in 1 .. Len(q), Rising(q)
  PROVE  LET s == SubSeq(q, 1, i - 1) \o SubSeq(q, i + 1, Len(q))
         IN  /\ s \in Seq(Nat) /\ Len(s) = Len(q) - 1 /\ Rising(s)
             /\ Members(s) = Members(q) \ {q[i]}
<1> DEFINE a == SubSeq(q, 1, i - 1)
           b == SubSeq(q, i + 1, Len(q))
<1>1. /\ a \in Seq(Nat) /\ Len(a) = i - 1 /\ \A k \in 1 .. i - 1 : a[k] = q[k]
  <2>1. \A k \in 1 .. i - 1 : q[k] \in Nat
    OBVIOUS
  <2>2. /\ a \in Seq(Nat) /\ Len(a) = IF 1 <= i - 1 THEN (i - 1) - 1 + 1 ELSE 0
        /\ \A k \in 1 .. (i - 1) - 1 + 1 : a[k] = q[1 + k - 1]
    BY <2>1, SubSeqProperties
  <2> QED BY <2>2
<1>2. /\ b \in Seq(Nat) /\ Len(b) = Len(q) - i /\ \A k \in 1 .. Len(q) - i : b[k] = q[i + k]
  <2>1. \A k \in i + 1 .. Len(q) : q[k] \in Nat
    OBVIOUS
  <2>2. /\ b \in Seq(Nat) /\ Len(b) = IF i + 1 <= Len(q) THEN Len(q) - (i + 1) + 1 ELSE 0
        /\ \A k \in 1 .. Len(q) - (i + 1) + 1 : b[k] = q[(i + 1) + k - 1]
    BY <2>1, SubSeqProperties
  <2>3. \A k \in 1 .. Len(q) - i : k \in 1 .. Len(q) - (i + 1) + 1 /\ (i + 1) + k - 1 = i + k
    OBVIOUS
  <2> QED BY <2>2, <2>3
<1> HIDE DEF a, b
<1>3. Rising(a) /\ Rising(b)
  <2>1. ASSUME NEW j \in 1 .. Len(a), NEW k \in 1 .. Len(a), j < k PROVE a[j] < a[k]
    <3>1. /\ j \in 1 .. i - 1 /\ k \in 1 .. i - 1 /\ j \in 1 .. Len(q) /\ k \in 1 .. Len(q)
      BY <1>1, <2>1, SMTT(60)
    <3> QED BY <1>1, <2>1, <3>1 DEF Rising
  <2>2. ASSUME NEW j \in 1 .. Len(b), NEW k \in 1 .. Len(b), j < k PROVE b[j] < b[k]
    <3>1. /\ j \in 1 .. Len(q) - i /\ k \in 1 .. Len(q) - i
          /\ i + j \in 1 .. Len(q) /\ i + k \in 1 .. Len(q) /\ i + j < i + k
      BY <1>2, <2>2, SMTT(60)
    <3>2. b[j] = q[i + j] /\ b[k] = q[i + k]
      BY <1>2, <3>1
    <3> QED BY <3>1, <3>2 DEF Rising
  <2> QED BY <2>1, <2>2 DEF Rising
<1>4. ASSUME NEW x, x \in Members(a) PROVE \E k \in 1 .. i - 1 : x = q[k]
  BY <1>1, <1>4 DEF Members
<1>5. ASSUME NEW x, x \in Members(b) PROVE \E k \in i + 1 .. Len(q) : x = q[k]
  <2>1. PICK k \in 1 .. Len(q) - i : x = q[i + k]
    BY <1>2, <1>5 DEF Members
  <2>2. i + k \in i + 1 .. Len(q)
    OBVIOUS
  <2> QED BY <2>1, <2>2
<1>6. \A x \in Members(a), y \in Members(b) : x < y
  BY <1>4, <1>5 DEF Rising
<1>7. ASSUME NEW k \in 1 .. i - 1 PROVE q[k] \in Members(a) /\ q[k] # q[i]
  <2>1. k \in 1 .. Len(a) /\ a[k] = q[k]
    BY <1>1
  <2>2. k \in 1 .. Len(q) /\ k < i /\ q[k] \in Nat /\ q[i] \in Nat
    OBVIOUS
  <2>3. q[k] < q[i]
    BY <2>2 DEF Rising
  <2> QED BY <2>1, <2>2, <2>3 DEF Members
<1>8. ASSUME NEW k \in i + 1 .. Len(q) PROVE q[k] \in Members(b) /\ q[k] # q[i]
  <2>1. k - i \in 1 .. Len(q) - i /\ i + (k - i) = k
    OBVIOUS
  <2>2. b[k - i] = q[k]
    BY <1>2, <2>1
  <2> QED BY <1>2, <2>1, <2>2 DEF Members, Rising
<1>9. Members(a) \cup Members(b) = Members(q) \ {q[i]}
  <2>1. ASSUME NEW x \in Members(q), x # q[i] PROVE x \in Members(a) \cup Members(b)
    <3>1. PICK k \in 1 .. Len(q) : x = q[k]
      BY DEF Members
    <3>2. k \in 1 .. i - 1 \/ k \in i + 1 .. Len(q)
      BY <2>1, <3>1
    <3> QED BY <1>7, <1>8, <3>1, <3>2
  <2>2. ASSUME NEW x, x \in Members(a) \cup Members(b) PROVE x \in Members(q) /\ x # q[i]
    <3>1. PICK k \in 1 .. Len(q) : x = q[k] /\ (k \in 1 .. i - 1 \/ k \in i + 1 .. Len(q))
      BY <1>4, <1>5, <2>2
    <3> QED BY <1>7, <1>8, <3>1 DEF Members
  <2> QED BY <2>1, <2>2
<1>10. a \o b \in Seq(Nat) /\ Len(a \o b) = Len(q) - 1
  <2>1. a \o b \in Seq(Nat) /\ Len(a \o b) = Len(a) + Len(b)
    BY <1>1, <1>2, ConcatProperties
  <2> QED BY <1>1, <1>2, <2>1
<1>11. Rising(a \o b) /\ Members(a \o b) = Members(q) \ {q[i]}
  BY <1>1, <1>2, <1>3, <1>6, <1>9, RisingConcat, MembersOfConcat
<1> QED BY <1>10, <1>11 DEF a, b

LEMMA ConcatAssoc == \A a, b, c \in Seq(Nat) : (a \o b) \o c = a \o (b \o c)
<1> SUFFICES ASSUME NEW a \in Seq(Nat), NEW b \in Seq(Nat), NEW c \in Seq(Nat)
             PROVE  (a \o b) \o c = a \o (b \o c)
  OBVIOUS
<1> QED BY ConcatAssociative

LEMMA AppendOne ==
  ASSUME NEW s \in Seq(Nat), NEW e \in Nat
  PROVE  /\ Append(s, e) = s \o <<e>> /\ Append(s, e) \in Seq(Nat) /\ Len(Append(s, e)) = Len(s) + 1
         /\ Members(Append(s, e)) = Members(s) \cup {e}
         /\ (Rising(s) /\ \A x \in Members(s) : x < e) => Rising(Append(s, e))
<1>1. /\ Append(s, e) = s \o <<e>> /\ <<e>> \in Seq(Nat) /\ Append(s, e) \in Seq(Nat)
      /\ Len(Append(s, e)) = Len(s) + 1
  BY AppendIsConcat, AppendProperties
<1>2. PICK t \in Seq(Nat) : t = <<e>>
  BY <1>1
<1>3. Members(t) = {e} /\ Rising(t)
  BY <1>2 DEF Members, Rising
<1>4. Members(s \o t) = Members(s) \cup Members(t)
  BY MembersOfConcat
<1>5. (Rising(s) /\ \A x \in Members(s) : x < e) => Rising(s \o t)
  BY <1>3, RisingConcat
<1> QED BY <1>1, <1>2, <1>3, <1>4, <1>5

-----------------------------------------------------------------------------
(***************************************************************************)
(* MachineKeys.                                                            *)
(***************************************************************************)

Token == [key : SigningKeys, kid : BOOLEAN, iat : Nat]

KeyCalls == [at : {"free", "fetch", "body"}, token : Token \cup {Absent}, since : Nat,
             body : (SUBSET SigningKeys) \cup {Absent}]

TrustTypes ==
  /\ time \in 0 .. LastInstant /\ published \subseteq SigningKeys /\ changed \in Nat
  /\ publishing \in [SigningKeys -> (Nat \X Nat) \cup {Absent}]
  /\ \A k \in published : publishing[k] \in Nat \X Nat /\ publishing[k][2] = time
  /\ call \in [Callers -> KeyCalls]

\* What is known of a set of keys that the issuer published at a time no
\* earlier than this.
Fetched(keys, at) ==
  /\ keys \subseteq SigningKeys
  /\ \A k \in keys : publishing[k] \in Nat \X Nat /\ publishing[k][2] >= at
  /\ \A k \in published \ keys : publishing[k][1] >= at
  /\ keys # published => changed >= at

DownloadHolds(c) ==
  /\ call[c].at # "free" => /\ time <= call[c].since + Deadline /\ call[c].since <= time
                            /\ call[c].token \in Token
  /\ call[c].at = "body" => Fetched(call[c].body, call[c].since)

DownloadsHold == \A c \in Callers : DownloadHolds(c)

\* The cache holds what was fetched at most one download before its stamp.
CacheHolds == keyCache # Absent =>
  /\ keyCache.at \in Nat /\ keyCache.at <= time
  /\ \E at \in Nat : /\ at <= keyCache.at /\ keyCache.at <= at + Deadline
                     /\ Fetched(keyCache.keys, at)

RulingHolds ==
  /\ ruling.verdict \in {"none", "accepted", "expired", "refused"}
  /\ MachineTrust!KeysFollowIssuer

TrustInv == TrustTypes /\ DownloadsHold /\ CacheHolds /\ RulingHolds

LEMMA TrustInvSays ==
  TrustInv => MachineTrust!KTypeOK /\ MachineTrust!KeysFollowIssuer
<1> SUFFICES ASSUME TrustInv PROVE MachineTrust!KTypeOK
  BY DEF TrustInv, RulingHolds
<1>1. keyCache # Absent => keyCache.at <= time /\ keyCache.keys \subseteq SigningKeys
  BY DEF TrustInv, CacheHolds, Fetched
<1>2. \A c \in Callers :
        /\ call[c].at \in {"free", "fetch", "body"}
        /\ call[c].at # "free" => time <= call[c].since + Deadline
  BY DEF TrustInv, TrustTypes, KeyCalls, DownloadsHold, DownloadHolds
<1> QED BY <1>1, <1>2 DEF TrustInv, TrustTypes, RulingHolds, MachineTrust!KTypeOK

LEMMA TrustInit == EdgesInit => TrustInv
<1> SUFFICES ASSUME MachineTrust!KInit PROVE TrustInv
  BY DEF EdgesInit
<1>1. TrustTypes
  BY TrustAssumption DEF MachineTrust!KInit, TrustTypes, KeyCalls, MachineTrust!Free
<1>2. DownloadsHold /\ CacheHolds /\ RulingHolds
  BY DEF MachineTrust!KInit, DownloadsHold, DownloadHolds, CacheHolds, RulingHolds,
         MachineTrust!Free, MachineTrust!NoRuling, MachineTrust!KeysFollowIssuer
<1> QED BY <1>1, <1>2 DEF TrustInv

NoRulingNow == ruling' = MachineTrust!NoRuling

LEMMA NoRulingHolds == NoRulingNow => RulingHolds'
BY DEF NoRulingNow, RulingHolds, MachineTrust!NoRuling, MachineTrust!KeysFollowIssuer

\* What was known of the keys stays known, whatever the issuer does.
LEMMA FetchedStays ==
  ASSUME TrustInv, MachineTrust!Rotate \/ MachineTrust!Advance,
         NEW keys, NEW at \in Nat, at <= time, Fetched(keys, at)
  PROVE  Fetched(keys, at)'
<1> USE DEF TrustInv, TrustTypes, Fetched
<1>1. CASE MachineTrust!Advance
  <2>1. /\ published' = published /\ changed' = changed /\ time' = time + 1
        /\ publishing' = [k \in SigningKeys |->
             IF k \in published THEN <<publishing[k][1], time'>> ELSE publishing[k]]
    BY <1>1 DEF MachineTrust!Advance
  <2>2. ASSUME NEW k \in SigningKeys, publishing[k] \in Nat \X Nat
        PROVE  /\ publishing'[k] \in Nat \X Nat /\ publishing'[k][1] = publishing[k][1]
               /\ publishing'[k][2] >= publishing[k][2]
    BY <2>1, <2>2
  <2> QED BY <2>1, <2>2
<1>2. CASE MachineTrust!Rotate
  <2>1. PICK next \in (SUBSET SigningKeys) \ {{}, published} :
          /\ published' = next /\ changed' = time
          /\ \A k \in next \ published : publishing[k] = Absent
          /\ publishing' = [k \in SigningKeys |->
               IF k \in next \ published THEN <<time, time>> ELSE publishing[k]]
    BY <1>2 DEF MachineTrust!Rotate
  <2>2. ASSUME NEW k \in keys PROVE publishing'[k] \in Nat \X Nat /\ publishing'[k][2] >= at
    BY <2>1
  <2>3. ASSUME NEW k \in published' \ keys PROVE publishing'[k][1] >= at
    BY <2>1
  <2> QED BY <2>1, <2>2, <2>3
<1> QED BY <1>1, <1>2

LEMMA IssuerKeeps ==
  TrustInv /\ (MachineTrust!Rotate \/ MachineTrust!Advance) => TrustInv'
<1> SUFFICES ASSUME TrustInv, MachineTrust!Rotate \/ MachineTrust!Advance PROVE TrustInv'
  OBVIOUS
<1>1. /\ NoRulingNow /\ UNCHANGED <<keyCache, call>> /\ time' >= time
      /\ time' = time \/ time' = time + 1
  BY DEF MachineTrust!Rotate, MachineTrust!Advance, NoRulingNow, TrustInv, TrustTypes
<1>2. TrustTypes'
  BY TrustAssumption DEF TrustInv, TrustTypes, MachineTrust!Rotate, MachineTrust!Advance
<1>3. ASSUME NEW c \in Callers PROVE DownloadHolds(c)'
  <2>1. call[c].since \in Nat /\ call[c].at \in {"free", "fetch", "body"} /\ time \in Nat
    BY DEF TrustInv, TrustTypes, KeyCalls
  <2>2. call[c].at # "free" => time' <= call[c].since + Deadline /\ call[c].since <= time
    BY <1>1, <2>1, TrustAssumption
       DEF TrustInv, DownloadsHold, DownloadHolds, MachineTrust!Rotate, MachineTrust!Advance
  <2>3. CASE call[c].at = "body"
    <3>1. PICK keys : keys = call[c].body
      OBVIOUS
    <3>2. PICK at \in Nat : at = call[c].since
      BY <2>1
    <3>3. at <= time /\ Fetched(keys, at)
      BY <2>2, <2>3, <3>1, <3>2 DEF TrustInv, DownloadsHold, DownloadHolds
    <3>4. Fetched(keys, at)'
      BY <3>3, FetchedStays
    <3>5. Fetched(call[c].body, call[c].since)'
      BY <1>1, <3>1, <3>2, <3>4 DEF Fetched
    <3> QED BY <1>1, <2>1, <2>2, <2>3, <3>5 DEF TrustInv, DownloadsHold, DownloadHolds, TrustTypes
  <2> QED BY <1>1, <2>1, <2>2, <2>3 DEF TrustInv, DownloadsHold, DownloadHolds, TrustTypes
<1>4. CacheHolds'
  <2> SUFFICES ASSUME keyCache # Absent PROVE CacheHolds'
    BY <1>1 DEF CacheHolds
  <2>1. PICK at \in Nat : /\ at <= keyCache.at /\ keyCache.at <= at + Deadline
                          /\ Fetched(keyCache.keys, at)
    BY DEF TrustInv, CacheHolds
  <2>2. keyCache.at \in Nat /\ keyCache.at <= time /\ time \in Nat
    BY DEF TrustInv, CacheHolds, TrustTypes
  <2>3. PICK keys : keys = keyCache.keys
    OBVIOUS
  <2>4. at <= time
    BY <2>1, <2>2
  <2>5. Fetched(keys, at)'
    BY <2>1, <2>3, <2>4, FetchedStays
  <2>6. Fetched(keyCache.keys, at)'
    BY <1>1, <2>3, <2>5 DEF Fetched
  <2>7. keyCache'.at <= time'
    BY <1>1, <2>2
  <2> QED BY <1>1, <2>1, <2>2, <2>6, <2>7 DEF CacheHolds
<1> QED BY <1>1, <1>2, <1>3, <1>4, NoRulingHolds DEF TrustInv, DownloadsHold

\* A ruling on keys fetched recently enough is the one the issuer would make.
LEMMA Decided ==
  ASSUME TrustInv, NEW keys, NEW at \in Nat, NEW t \in Token, Fetched(keys, at),
         time < at + Deadline + Ttl,
         MachineTrust!Finds(keys, t) \/ time < at + Deadline + Reload,
         MachineTrust!Decide(keys, t), UNCHANGED <<time, published, publishing, changed>>
  PROVE  RulingHolds'
<1>1. /\ ruling'.key = t.key /\ ruling'.kid = t.kid
      /\ ruling'.verdict = IF MachineTrust!Selected(keys, t) # {t.key} THEN "refused"
                           ELSE IF MachineTrust!Current(t) THEN "accepted" ELSE "expired"
  BY DEF MachineTrust!Decide
<1>2. time \in Nat /\ Deadline \in Nat /\ Ttl \in Nat /\ Reload \in Nat /\ changed \in Nat
  BY TrustAssumption DEF TrustInv, TrustTypes
<1>3. t.key \in SigningKeys /\ t.kid \in BOOLEAN
  BY DEF Token
<1>4. ruling'.verdict \in {"none", "accepted", "expired", "refused"}
  BY <1>1
<1>5. ASSUME ruling'.verdict = "accepted" PROVE time < publishing[t.key][2] + Ttl + Deadline
  <2>1. t.key \in keys
    BY <1>1, <1>5 DEF MachineTrust!Selected
  <2>2. publishing[t.key] \in Nat \X Nat /\ publishing[t.key][2] >= at
    BY <2>1 DEF Fetched
  <2>3. publishing[t.key][2] \in Nat
    BY <2>2
  <2> QED BY <1>2, <2>2, <2>3
<1>6. ASSUME ruling'.verdict = "refused", t.kid, t.key \in published
      PROVE  time < publishing[t.key][1] + Reload + Deadline
  <2>1. t.key \notin keys
    BY <1>1, <1>6 DEF MachineTrust!Selected
  <2>2. MachineTrust!Selected(keys, t) = {}
    BY <1>6, <2>1 DEF MachineTrust!Selected
  <2>3. ~MachineTrust!Finds(keys, t)
    BY <2>2 DEF MachineTrust!Finds
  <2>4. publishing[t.key][1] >= at
    BY <1>6, <2>1 DEF Fetched
  <2>5. publishing[t.key][1] \in Nat
    BY <1>6 DEF TrustInv, TrustTypes
  <2> QED BY <1>2, <2>3, <2>4, <2>5
<1>7. ASSUME ruling'.verdict = "refused", ~t.kid, published = {t.key}
      PROVE  time < changed + Ttl + Deadline
  <2>1. MachineTrust!Selected(keys, t) = keys
    BY <1>7 DEF MachineTrust!Selected
  <2>2. keys # published
    BY <1>1, <1>7, <2>1
  <2>3. changed >= at
    BY <2>2 DEF Fetched
  <2> QED BY <1>2, <2>3
<1>8. /\ ruling'.verdict = "accepted" => time' < publishing'[ruling'.key][2] + Ttl + Deadline
      /\ ruling'.verdict = "refused" /\ ruling'.kid /\ ruling'.key \in published' =>
           time' < publishing'[ruling'.key][1] + Reload + Deadline
      /\ ruling'.verdict = "refused" /\ ~ruling'.kid /\ published' = {ruling'.key} =>
           time' < changed' + Ttl + Deadline
  BY <1>1, <1>5, <1>6, <1>7
<1> QED BY <1>4, <1>8 DEF RulingHolds, MachineTrust!KeysFollowIssuer

LEMMA TokensAreTyped == ASSUME TrustInv, NEW t \in MachineTrust!Presentable PROVE t \in Token
<1>1. PICK k \in SigningKeys, b \in BOOLEAN, i \in {1, 2} :
        publishing[k] # Absent /\ t = [key |-> k, kid |-> b, iat |-> publishing[k][i]]
  BY DEF MachineTrust!Presentable
<1>2. publishing[k] \in Nat \X Nat
  BY <1>1 DEF TrustInv, TrustTypes
<1>3. publishing[k][1] \in Nat /\ publishing[k][2] \in Nat
  BY <1>2
<1>4. publishing[k][i] \in Nat
  BY <1>3
<1> QED BY <1>1, <1>4 DEF Token

\* What a step of a request leaves as it is when it touches only its own call
\* and perhaps the cache.
LEMMA CallKeeps ==
  ASSUME TrustInv, NEW c \in Callers, NEW next \in KeyCalls,
         call' = [call EXCEPT ![c] = next],
         UNCHANGED <<time, published, publishing, changed>>,
         next.at # "free" => /\ time <= next.since + Deadline /\ next.since <= time
                             /\ next.token \in Token,
         next.at = "body" => Fetched(next.body, next.since)
  PROVE  TrustTypes' /\ DownloadsHold'
<1>1. TrustTypes'
  BY DEF TrustInv, TrustTypes
<1>2. ASSUME NEW d \in Callers PROVE DownloadHolds(d)'
  <2>1. CASE d = c
    <3>1. call'[d] = next
      BY <2>1 DEF TrustInv, TrustTypes
    <3> QED BY <3>1 DEF DownloadHolds, Fetched
  <2>2. CASE d # c
    <3>1. call'[d] = call[d] /\ DownloadHolds(d)
      BY <2>2 DEF TrustInv, TrustTypes, DownloadsHold
    <3> QED BY <3>1 DEF DownloadHolds, Fetched
  <2> QED BY <2>1, <2>2
<1> QED BY <1>1, <1>2 DEF DownloadsHold

LEMMA CacheKept ==
  ASSUME TrustInv, UNCHANGED <<time, published, publishing, changed, keyCache>> PROVE CacheHolds'
BY DEF TrustInv, CacheHolds, Fetched

LEMMA FreeIsACall == MachineTrust!Free \in KeyCalls /\ MachineTrust!Free.at = "free"
BY DEF MachineTrust!Free, KeyCalls

LEMMA ArriveKeeps ==
  ASSUME TrustInv, NEW c \in Callers, MachineTrust!Arrive(c) PROVE TrustInv'
<1>1. PICK t \in MachineTrust!Presentable :
        \/ /\ MachineTrust!Believed
           /\ MachineTrust!Finds(keyCache.keys, t) \/ time - keyCache.at < Reload
           /\ MachineTrust!Decide(keyCache.keys, t)
           /\ UNCHANGED call
        \/ /\ call' = [call EXCEPT ![c] =
                         [at |-> "fetch", token |-> t, since |-> time, body |-> Absent]]
           /\ NoRulingNow
  BY DEF MachineTrust!Arrive, NoRulingNow
<1>2. t \in Token
  BY TokensAreTyped
<1>3. UNCHANGED <<time, published, publishing, changed, keyCache>>
  BY DEF MachineTrust!Arrive, MachineTrust!issuer
<1>4. CacheHolds'
  BY <1>3, CacheKept
<1>5. CASE /\ MachineTrust!Believed
           /\ MachineTrust!Finds(keyCache.keys, t) \/ time - keyCache.at < Reload
           /\ MachineTrust!Decide(keyCache.keys, t)
           /\ UNCHANGED call
  <2>1. TrustTypes' /\ DownloadsHold'
    BY <1>3, <1>5 DEF TrustInv, TrustTypes, DownloadsHold, DownloadHolds, Fetched
  <2>2. PICK at \in Nat : /\ at <= keyCache.at /\ keyCache.at <= at + Deadline
                          /\ Fetched(keyCache.keys, at)
    BY <1>5 DEF TrustInv, CacheHolds, MachineTrust!Believed
  <2>3. /\ time \in Nat /\ keyCache.at \in Nat /\ Deadline \in Nat /\ Ttl \in Nat /\ Reload \in Nat
        /\ time - keyCache.at < Ttl
    BY <1>5, TrustAssumption DEF TrustInv, TrustTypes, CacheHolds, MachineTrust!Believed
  <2>4. time < at + Deadline + Ttl
    BY <2>2, <2>3
  <2>5. time - keyCache.at < Reload => time < at + Deadline + Reload
    BY <2>2, <2>3
  <2>6. RulingHolds'
    BY <1>2, <1>3, <1>5, <2>2, <2>4, <2>5, Decided
  <2> QED BY <1>4, <2>1, <2>6 DEF TrustInv
<1>6. CASE /\ call' = [call EXCEPT ![c] =
                         [at |-> "fetch", token |-> t, since |-> time, body |-> Absent]]
           /\ NoRulingNow
  <2>1. PICK next : next = [at |-> "fetch", token |-> t, since |-> time, body |-> Absent]
    OBVIOUS
  <2>2. time \in Nat /\ Deadline \in Nat /\ time <= time + Deadline /\ time <= time
    BY TrustAssumption DEF TrustInv, TrustTypes
  <2>3. next \in KeyCalls /\ next.at = "fetch" /\ next.since = time /\ next.token = t
    BY <1>2, <2>1, <2>2 DEF KeyCalls
  <2>4. call' = [call EXCEPT ![c] = next]
    BY <1>6, <2>1
  <2>5. next.at # "body"
    BY <2>3
  <2>6. TrustTypes' /\ DownloadsHold'
    BY <1>2, <1>3, <2>2, <2>3, <2>4, <2>5, CallKeeps
  <2> QED BY <1>4, <1>6, <2>6, NoRulingHolds DEF TrustInv
<1> QED BY <1>1, <1>5, <1>6

LEMMA AnswerKeeps ==
  ASSUME TrustInv, NEW c \in Callers, MachineTrust!Answer(c) PROVE TrustInv'
<1>1. /\ call[c].at = "fetch" /\ NoRulingNow
      /\ call' = [call EXCEPT ![c] = [call[c] EXCEPT !.at = "body", !.body = published]]
      /\ UNCHANGED <<time, published, publishing, changed, keyCache>>
  BY DEF MachineTrust!Answer, NoRulingNow, MachineTrust!issuer, TrustInv, TrustTypes
<1>2. PICK next : next = [call[c] EXCEPT !.at = "body", !.body = published]
  OBVIOUS
<1>3. /\ next \in KeyCalls /\ next.body = published /\ next.since = call[c].since
      /\ next.token = call[c].token
  BY <1>2 DEF TrustInv, TrustTypes, KeyCalls
<1>4. /\ time <= call[c].since + Deadline /\ call[c].since <= time /\ call[c].token \in Token
      /\ call[c].since \in Nat /\ time \in Nat
  BY <1>1 DEF TrustInv, TrustTypes, KeyCalls, DownloadsHold, DownloadHolds
<1>5. Fetched(published, call[c].since)
  <2>1. ASSUME NEW k \in published
        PROVE  publishing[k] \in Nat \X Nat /\ publishing[k][2] >= call[c].since
    BY <1>4 DEF TrustInv, TrustTypes
  <2> QED BY <2>1 DEF Fetched, TrustInv, TrustTypes
<1>6. Fetched(next.body, next.since)
  BY <1>3, <1>5
<1>7. call' = [call EXCEPT ![c] = next]
  BY <1>1, <1>2
<1>8. time <= next.since + Deadline /\ next.since <= time /\ next.token \in Token
  BY <1>3, <1>4
<1>9. TrustTypes' /\ DownloadsHold'
  BY <1>1, <1>3, <1>6, <1>7, <1>8, CallKeeps
<1> QED BY <1>1, <1>9, CacheKept, NoRulingHolds DEF TrustInv

LEMMA DownloadFailsKeeps ==
  ASSUME TrustInv, NEW c \in Callers, MachineTrust!DownloadFails(c) PROVE TrustInv'
<1>1. /\ NoRulingNow /\ call' = [call EXCEPT ![c] = MachineTrust!Free]
      /\ UNCHANGED <<time, published, publishing, changed, keyCache>>
  BY DEF MachineTrust!DownloadFails, NoRulingNow, MachineTrust!issuer
<1>2. TrustTypes' /\ DownloadsHold'
  BY <1>1, FreeIsACall, CallKeeps
<1> QED BY <1>1, <1>2, CacheKept, NoRulingHolds DEF TrustInv

LEMMA DownloadedKeeps ==
  ASSUME TrustInv, NEW c \in Callers, MachineTrust!Downloaded(c) PROVE TrustInv'
<1>1. /\ call[c].at = "body" /\ call' = [call EXCEPT ![c] = MachineTrust!Free]
      /\ keyCache' = [keys |-> call[c].body, at |-> time]
      /\ MachineTrust!Decide(call[c].body, call[c].token)
      /\ UNCHANGED <<time, published, publishing, changed>>
  BY DEF MachineTrust!Downloaded, MachineTrust!issuer
<1>2. TrustTypes' /\ DownloadsHold'
  BY <1>1, FreeIsACall, CallKeeps
<1>3. /\ time <= call[c].since + Deadline /\ call[c].since <= time /\ call[c].token \in Token
      /\ Fetched(call[c].body, call[c].since) /\ call[c].since \in Nat /\ time \in Nat
  BY <1>1 DEF TrustInv, TrustTypes, KeyCalls, DownloadsHold, DownloadHolds
<1>4. CacheHolds'
  <2>2. keyCache'.keys = call[c].body /\ keyCache'.at = time /\ time' = time
    BY <1>1
  <2>3. PICK at \in Nat : at = call[c].since
    BY <1>3
  <2>4. Fetched(keyCache.keys, at)'
    BY <1>1, <1>3, <2>2, <2>3 DEF Fetched
  <2> QED BY <1>3, <2>2, <2>3, <2>4 DEF CacheHolds
<1>5. RulingHolds'
  <2>1. PICK keys, t, at : keys = call[c].body /\ t = call[c].token /\ at = call[c].since
    OBVIOUS
  <2>2. t \in Token /\ at \in Nat /\ Fetched(keys, at) /\ MachineTrust!Decide(keys, t)
    BY <1>1, <1>3, <2>1
  <2>3. time < at + Deadline + Ttl /\ time < at + Deadline + Reload
    BY <1>3, <2>1, TrustAssumption
  <2> QED BY <1>1, <2>2, <2>3, Decided
<1> QED BY <1>2, <1>4, <1>5 DEF TrustInv

LEMMA TrustStep == TrustInv /\ [EdgesNext]_edges => TrustInv'
<1> SUFFICES ASSUME TrustInv, [EdgesNext]_edges PROVE TrustInv'
  OBVIOUS
<1>1. MachineTrust!KNext \/ UNCHANGED trust
  BY DEF EdgesNext, edges
<1>2. CASE UNCHANGED trust
  <2>1. TrustTypes' /\ DownloadsHold'
    BY <1>2 DEF trust, TrustInv, TrustTypes, DownloadsHold, DownloadHolds, Fetched
  <2>2. RulingHolds'
    BY <1>2 DEF trust, TrustInv, RulingHolds, MachineTrust!KeysFollowIssuer
  <2> QED BY <1>2, <2>1, <2>2, CacheKept DEF trust, TrustInv
<1> QED
  BY <1>1, <1>2, IssuerKeeps, ArriveKeeps, AnswerKeeps, DownloadedKeeps, DownloadFailsKeeps
     DEF MachineTrust!KNext

\* No token is believed for a key withdrawn longer than the cache lives, and
\* none refused for one published longer than that.
THEOREM KeysHold == EdgesSpec => []KeysFollowIssuer
<1>1. TrustInv => KeysFollowIssuer
  BY TrustInvSays DEF KeysFollowIssuer
<1> QED BY <1>1, TrustInit, TrustStep, PTL DEF EdgesSpec

-----------------------------------------------------------------------------
(***************************************************************************)
(* AdminSessions.                                                          *)
(***************************************************************************)

Calls == [at : {"resting", "budget", "verify", "logout", "session", "command"},
          env : Nat, now : Nat, password : Nat, token : Nat, late : BOOLEAN]

LoginTypes ==
  /\ hour \in Nat /\ secret \in 0 .. Records
  /\ issued \in Seq([record : Nat, expires : Nat])
  /\ sessions \subseteq 1 .. Len(issued) /\ closed \subseteq 1 .. Len(issued)
  /\ sessions \cap closed = {}
  /\ budget \in [start : Nat, attempts : 0 .. BudgetLimit] /\ budget.start <= hour
  /\ attempts \in Seq(Nat)
  /\ doing \in [Browsers -> Calls]

\* What a call holds on to since its begin.
CallHolds(b) ==
  /\ doing[b].env <= secret /\ doing[b].now <= hour
  /\ doing[b].at # "resting" => hour <= doing[b].now + Patience
  /\ doing[b].at \in {"logout", "session", "command"} => doing[b].token \in 1 .. Len(issued)
  /\ doing[b].late => doing[b].token \in closed
  /\ doing[b].at = "command" =>
       /\ ~doing[b].late
       /\ issued[doing[b].token].expires > doing[b].now
       /\ issued[doing[b].token].record = doing[b].env

CallsHold == \A b \in Browsers : CallHolds(b)

\* All but the first k attempts are of the present budget, which ended with the
\* begin of the last; those before are older than its start, and those of the
\* budgets before the last one older by a window.  Older means: but for the
\* time a call may be late.
CountedFrom(k) ==
  /\ Len(attempts) - k <= budget.attempts
  /\ \A i \in 1 .. Len(attempts) : attempts[i] < budget.start + BudgetWindow + Patience
  /\ \A i \in 1 .. k : attempts[i] < budget.start + Patience
  /\ \A i \in 1 .. k - BudgetLimit : attempts[i] + BudgetWindow < budget.start + Patience

Counted == \E k \in 0 .. Len(attempts) : CountedFrom(k)

LoginInv == LoginTypes /\ CallsHold /\ Counted /\ Login!GuessingIsBounded

loginTable == <<secret, sessions, issued, closed>>

LEMMA LoginInvSays ==
  LoginInv => Login!ATypeOK /\ Login!CommandsAreAuthorised /\ Login!GuessingIsBounded
BY DEF LoginInv, LoginTypes, CallsHold, CallHolds, Login!ATypeOK, Login!CommandsAreAuthorised, Calls

LEMMA LoginInit == EdgesInit => LoginInv
<1> SUFFICES ASSUME Login!AInit PROVE LoginInv
  BY DEF EdgesInit
<1>1. /\ <<>> \in Seq([record : Nat, expires : Nat]) /\ <<>> \in Seq(Nat) /\ Len(<<>>) = 0
  OBVIOUS
<1>2. LoginTypes
  BY <1>1, LoginAssumption DEF Login!AInit, LoginTypes, Calls, Login!Resting
<1>3. CallsHold
  BY <1>1, LoginAssumption DEF Login!AInit, CallsHold, CallHolds, Login!Resting
<1>4. 0 \in 0 .. Len(attempts) /\ CountedFrom(0)
  BY <1>1, LoginAssumption DEF Login!AInit, CountedFrom
<1>5. Login!GuessingIsBounded
  BY <1>1, LoginAssumption DEF Login!AInit, Login!GuessingIsBounded
<1> QED BY <1>2, <1>3, <1>4, <1>5 DEF LoginInv, Counted

\* The attempts are counted against the budget only.
LEMMA CountKept ==
  LoginInv /\ UNCHANGED <<budget, attempts>> => Counted' /\ Login!GuessingIsBounded'
BY DEF LoginInv, Counted, CountedFrom, Login!GuessingIsBounded

LEMMA HourKeeps == LoginInv /\ Login!HourPasses => LoginInv'
<1> SUFFICES ASSUME LoginInv, Login!HourPasses PROVE LoginInv'
  OBVIOUS
<1> USE DEF LoginInv, Login!HourPasses
<1>1. LoginTypes'
  BY LoginAssumption DEF LoginTypes
<1>2. ASSUME NEW b \in Browsers PROVE CallHolds(b)'
  <2>1. CallHolds(b) /\ UNCHANGED <<secret, issued, closed, doing>>
    BY DEF CallsHold
  <2>2. doing[b].now \in Nat /\ hour \in Nat /\ hour' = hour + 1 /\ Patience \in Nat
    BY LoginAssumption DEF LoginTypes, Calls
  <2>3. doing[b].now <= hour' /\ (doing[b].at # "resting" => hour' <= doing[b].now + Patience)
    <3>1. doing[b].at # "resting" => hour - doing[b].now < Patience
      OBVIOUS
    <3> QED BY <2>1, <2>2, <3>1 DEF CallHolds
  <2> HIDE DEF LoginInv, Login!HourPasses
  <2> QED BY <2>1, <2>3 DEF CallHolds
<1> QED BY <1>1, <1>2, CountKept DEF CallsHold

LEMMA RotateKeeps == LoginInv /\ Login!RotateRecord => LoginInv'
<1> SUFFICES ASSUME LoginInv, Login!RotateRecord PROVE LoginInv'
  OBVIOUS
<1> USE DEF LoginInv, Login!RotateRecord
<1>1. LoginTypes'
  BY LoginAssumption DEF LoginTypes
<1>2. ASSUME NEW b \in Browsers PROVE CallHolds(b)'
  <2>1. CallHolds(b) /\ UNCHANGED <<hour, issued, closed, doing>>
    BY DEF CallsHold
  <2>2. doing[b].env \in Nat /\ secret \in Nat /\ secret' = secret + 1
    BY LoginAssumption DEF LoginTypes, Calls
  <2>3. doing[b].env <= secret'
    BY <2>1, <2>2 DEF CallHolds
  <2> HIDE DEF LoginInv, Login!RotateRecord
  <2> QED BY <2>1, <2>3 DEF CallHolds
<1> QED BY <1>1, <1>2, CountKept DEF CallsHold

LEMMA BeginKeeps ==
  ASSUME LoginInv, NEW b \in Browsers, NEW at \in {"budget", "logout", "session"},
         NEW password \in Nat, NEW token \in Nat, Login!Begin(b, at, password, token),
         at # "budget" => token \in 1 .. Len(issued)
  PROVE  LoginInv'
<1> USE DEF LoginInv
<1>1. PICK late \in BOOLEAN : late = (token \in closed)
  <2>1. (token \in closed) \in BOOLEAN
    OBVIOUS
  <2> QED BY <2>1, Zenon
<1> DEFINE new == [at |-> at, env |-> secret, now |-> hour, password |-> password,
                   token |-> token, late |-> late]
<1>2. /\ doing' = [doing EXCEPT ![b] = new]
      /\ late => token \in closed
      /\ UNCHANGED <<hour, loginTable, budget, attempts>>
  BY <1>1 DEF Login!Begin, loginTable
<1>3. new \in Calls
  BY LoginAssumption DEF LoginTypes, Calls
<1>4. /\ new.env = secret /\ new.now = hour /\ new.at = at /\ new.token = token /\ new.late = late
  OBVIOUS
<1> HIDE DEF new
<1>5. LoginTypes'
  BY <1>2, <1>3 DEF LoginTypes, loginTable
<1>6. ASSUME NEW c \in Browsers PROVE CallHolds(c)'
  <2>1. CASE c = b
    <3>1. doing'[c] = new
      BY <1>2, <2>1 DEF LoginTypes
    <3>2. secret \in Nat /\ hour \in Nat /\ Patience \in Nat
      BY LoginAssumption DEF LoginTypes
    <3>3. /\ new.env <= secret /\ new.now <= hour /\ hour <= new.now + Patience
          /\ new.at # "budget" => new.token \in 1 .. Len(issued)
          /\ new.late => new.token \in closed
          /\ new.at # "command"
      BY <1>2, <1>4, <3>2
    <3>4. hour' = hour /\ secret' = secret /\ issued' = issued /\ closed' = closed
      BY <1>2 DEF loginTable
    <3> QED BY <3>1, <3>3, <3>4 DEF CallHolds
  <2>2. CASE c # b
    <3>1. doing'[c] = doing[c]
      BY <1>2, <2>2 DEF LoginTypes
    <3> QED BY <1>2, <3>1 DEF CallsHold, CallHolds, loginTable
  <2> QED BY <2>1, <2>2
<1> QED BY <1>2, <1>5, <1>6, CountKept DEF CallsHold

LEMMA BudgetKeeps == ASSUME LoginInv, NEW b \in Browsers, Login!Budget(b) PROVE LoginInv'
<1> USE DEF LoginInv
<1> DEFINE n == doing[b].now
           over == budget.start + BudgetWindow <= n
<1>1. /\ n \in Nat /\ n <= hour /\ hour <= n + Patience /\ hour \in Nat
      /\ budget.start \in Nat /\ budget.attempts \in 0 .. BudgetLimit /\ budget.start <= hour
      /\ budget = [start |-> budget.start, attempts |-> budget.attempts]
      /\ attempts \in Seq(Nat) /\ Len(attempts) \in Nat
      /\ \A i \in 1 .. Len(attempts) : attempts[i] \in Nat
  BY DEF LoginTypes, CallsHold, CallHolds, Calls, Login!Budget
<1>2. CASE budget' = budget
  <2>1. doing' = [doing EXCEPT ![b] = Login!Resting] /\ UNCHANGED <<hour, loginTable, budget, attempts>>
    BY <1>2 DEF Login!Budget, loginTable
  <2>2. LoginTypes'
    BY <2>1 DEF LoginTypes, Calls, Login!Resting, loginTable
  <2>3. ASSUME NEW c \in Browsers PROVE CallHolds(c)'
    BY <2>1, LoginAssumption DEF CallsHold, CallHolds, LoginTypes, Calls, Login!Resting, loginTable
  <2> QED BY <2>1, <2>2, <2>3, CountKept DEF CallsHold
<1>3. CASE budget' # budget
  <2>1. /\ doing' = [doing EXCEPT ![b].at = "verify"] /\ attempts' = Append(attempts, hour)
        /\ UNCHANGED <<hour, loginTable>> /\ budget' = Login!Budgeted(b)
    BY <1>3 DEF Login!Budget, loginTable
  <2>2. /\ budget' = [start |-> budget'.start, attempts |-> budget'.attempts]
        /\ budget'.attempts \in 1 .. BudgetLimit
        /\ \/ over /\ budget'.start = n /\ budget'.attempts = 1
           \/ ~over /\ budget'.start = budget.start /\ budget'.attempts = budget.attempts + 1
    <3>1. CASE over
      BY <1>1, <2>1, <3>1, LoginAssumption DEF Login!Budgeted
    <3>2. CASE ~over
      <4>1. budget.attempts < BudgetLimit /\ budget' = [budget EXCEPT !.attempts = budget.attempts + 1]
        BY <1>3, <2>1, <3>2 DEF Login!Budgeted
      <4> QED BY <1>1, <3>2, <4>1, LoginAssumption
    <3> QED BY <3>1, <3>2
  <2>3. LoginTypes'
    <3>1. budget' \in [start : Nat, attempts : 0 .. BudgetLimit] /\ budget'.start <= hour
      <4>1. budget'.start \in Nat /\ budget'.start <= hour /\ budget'.attempts \in 0 .. BudgetLimit
        BY <1>1, <2>2, LoginAssumption
      <4> QED BY <2>2, <4>1
    <3>2. doing' \in [Browsers -> Calls]
      BY <2>1 DEF LoginTypes, Calls
    <3>3. attempts' \in Seq(Nat)
      BY <1>1, <2>1
    <3> QED BY <2>1, <3>1, <3>2, <3>3 DEF LoginTypes, loginTable
  <2>4. ASSUME NEW c \in Browsers PROVE CallHolds(c)'
    BY <2>1, LoginAssumption DEF CallsHold, CallHolds, LoginTypes, Calls, loginTable, Login!Budget
  <2> DEFINE m == Len(attempts)
  <2>5. /\ m \in Nat /\ Len(attempts') = m + 1 /\ attempts'[m + 1] = hour
        /\ \A i \in 1 .. m : attempts'[i] = attempts[i]
    BY <1>1, <2>1
  <2>6. PICK k \in 0 .. m : CountedFrom(k)
    BY DEF Counted
  <2>7. \E j \in 0 .. m :
          /\ m + 1 - j <= budget'.attempts
          /\ \A i \in 1 .. m : attempts[i] < budget'.start + BudgetWindow + Patience
          /\ hour < budget'.start + BudgetWindow + Patience
          /\ \A i \in 1 .. j : attempts[i] < budget'.start + Patience
          /\ \A i \in 1 .. j - BudgetLimit : attempts[i] + BudgetWindow < budget'.start + Patience
    <3> HIDE DEF n
    <3>1. CASE ~over
      <4>1. WITNESS k \in 0 .. m
      <4> QED BY <1>1, <2>2, <2>6, <3>1, LoginAssumption, SMTT(60) DEF CountedFrom
    <3>2. CASE over
      <4>1. /\ budget'.start = n /\ budget'.attempts = 1 /\ budget.start + BudgetWindow <= n
        BY <2>2, <3>2
      <4>2. m \in 0 .. m /\ m + 1 - m <= budget'.attempts
        BY <1>1, <4>1
      <4>3. ASSUME NEW i \in 1 .. m PROVE attempts[i] < budget'.start + Patience
        BY <1>1, <2>6, <4>1, LoginAssumption, SMTT(60) DEF CountedFrom
      <4>4. ASSUME NEW i \in 1 .. m - BudgetLimit PROVE attempts[i] + BudgetWindow < budget'.start + Patience
        <5>1. i \in 1 .. k /\ attempts[i] \in Nat
          BY <1>1, <2>6, LoginAssumption, SMTT(60) DEF CountedFrom
        <5>2. attempts[i] < budget.start + Patience
          BY <2>6, <5>1 DEF CountedFrom
        <5>3. budget.start \in Nat /\ n \in Nat
          BY <1>1
        <5> QED BY <4>1, <5>1, <5>2, <5>3, LoginAssumption
      <4>5. \A i \in 1 .. m : attempts[i] < budget'.start + BudgetWindow + Patience
        BY <1>1, <4>1, <4>3, LoginAssumption, SMTT(60)
      <4>6. hour < budget'.start + BudgetWindow + Patience
        BY <1>1, <4>1, LoginAssumption
      <4> QED BY <4>2, <4>3, <4>4, <4>5, <4>6
    <3> QED BY <3>1, <3>2
  <2>8. PICK j \in 0 .. m :
          /\ m + 1 - j <= budget'.attempts
          /\ \A i \in 1 .. m : attempts[i] < budget'.start + BudgetWindow + Patience
          /\ hour < budget'.start + BudgetWindow + Patience
          /\ \A i \in 1 .. j : attempts[i] < budget'.start + Patience
          /\ \A i \in 1 .. j - BudgetLimit : attempts[i] + BudgetWindow < budget'.start + Patience
    BY <2>7
  <2> HIDE DEF m
  <2>9. Counted'
    <3>1. \A i \in 1 .. m + 1 : i \in 1 .. m \/ i = m + 1
      BY <1>1 DEF m
    <3>2. j \in 0 .. m + 1 /\ j \in Nat /\ m \in Nat
      BY <1>1 DEF m
    <3>3. ASSUME NEW i \in 1 .. m + 1 PROVE attempts'[i] < budget'.start + BudgetWindow + Patience
      BY <2>5, <2>8, <3>1
    <3>4. ASSUME NEW i \in 1 .. j PROVE i \in 1 .. m /\ attempts'[i] = attempts[i]
      BY <2>5, <3>2
    <3>5. ASSUME NEW i \in 1 .. j - BudgetLimit PROVE i \in 1 .. j
      BY <3>2, LoginAssumption
    <3>6. CountedFrom(j)'
      BY <2>5, <2>8, <3>3, <3>4, <3>5 DEF CountedFrom
    <3> QED BY <2>5, <3>2, <3>6 DEF Counted
  <2> DEFINE twice == 2 * BudgetLimit
  <2>10. Login!GuessingIsBounded'
    <3>0. twice \in Nat /\ twice = BudgetLimit + BudgetLimit
      BY LoginAssumption
    <3> SUFFICES ASSUME NEW i \in 1 .. m + 1 - twice
                 PROVE  attempts'[i + twice] > attempts'[i] + BudgetWindow - Patience
      <4>1. 1 .. Len(attempts') - twice = 1 .. m + 1 - twice
        BY <2>5, <3>0
      <4> QED BY <4>1 DEF Login!GuessingIsBounded
    <3> HIDE DEF twice
    <3>1. i \in 1 .. m /\ attempts[i] \in Nat /\ attempts'[i] = attempts[i]
      <4>1. i \in 1 .. m
        BY <2>5, <3>0, LoginAssumption
      <4> QED BY <1>1, <2>5, <4>1 DEF m
    <3>2. CASE i + twice = m + 1
      <4>1. i \in 1 .. j - BudgetLimit
        BY <2>2, <2>5, <2>8, <3>0, <3>1, <3>2, LoginAssumption, SMTT(60)
      <4>2. budget'.start <= hour /\ budget'.start \in Nat
        BY <1>1, <2>2
      <4>3. attempts[i] + BudgetWindow < budget'.start + Patience
        BY <2>8, <4>1
      <4>4. attempts'[i + twice] = hour
        BY <2>5, <3>2
      <4>5. hour \in Nat
        BY <1>1
      <4> QED BY <3>1, <4>2, <4>3, <4>4, <4>5, LoginAssumption
    <3>3. CASE i + twice # m + 1
      <4>1. i \in 1 .. m - twice /\ i + twice \in 1 .. m
        BY <2>5, <3>0, <3>1, <3>3, LoginAssumption
      <4> QED BY <2>5, <3>1, <4>1 DEF Login!GuessingIsBounded, m, twice
    <3> QED BY <3>2, <3>3
  <2> QED BY <2>3, <2>4, <2>9, <2>10 DEF CallsHold
<1> QED BY <1>2, <1>3

LEMMA IssueKeeps == ASSUME LoginInv, NEW b \in Browsers, Login!Issue(b) PROVE LoginInv'
<1> USE DEF LoginInv
<1>1. /\ doing' = [doing EXCEPT ![b] = Login!Resting]
      /\ UNCHANGED <<hour, secret, closed, budget, attempts>>
  BY DEF Login!Issue
<1>2. /\ issued' \in Seq([record : Nat, expires : Nat]) /\ Len(issued) <= Len(issued')
      /\ Len(issued) \in Nat /\ Len(issued') \in Nat
      /\ \A t \in 1 .. Len(issued) : issued'[t] = issued[t]
      /\ sessions' \subseteq sessions \cup {Len(issued')} /\ sessions' \subseteq 1 .. Len(issued')
      /\ sessions' \cap closed = {}
  <2>1. CASE doing[b].password = doing[b].env
    <3> DEFINE new == [record |-> doing[b].env, expires |-> hour + Lifetime]
    <3>1. new \in [record : Nat, expires : Nat]
      BY LoginAssumption DEF LoginTypes, Calls
    <3>2. issued' = Append(issued, new) /\ sessions' \subseteq sessions \cup {Len(issued')}
      BY <2>1 DEF Login!Issue
    <3> HIDE DEF new
    <3>3. /\ issued' \in Seq([record : Nat, expires : Nat]) /\ Len(issued') = Len(issued) + 1
          /\ Len(issued) \in Nat /\ \A t \in 1 .. Len(issued) : issued'[t] = issued[t]
      BY <3>1, <3>2 DEF LoginTypes
    <3>4. sessions' \subseteq 1 .. Len(issued') /\ sessions' \cap closed = {}
      <4>1. 1 .. Len(issued) \subseteq 1 .. Len(issued') /\ Len(issued') \in 1 .. Len(issued')
            /\ Len(issued') \notin 1 .. Len(issued)
        BY <3>3
      <4> QED BY <3>2, <4>1 DEF LoginTypes
    <3> QED BY <3>2, <3>3, <3>4
  <2>2. CASE doing[b].password # doing[b].env
    <3>1. UNCHANGED <<issued, sessions>>
      BY <2>2 DEF Login!Issue
    <3> QED BY <3>1 DEF LoginTypes
  <2> QED BY <2>1, <2>2
<1>3. LoginTypes'
  <2>1. closed' \subseteq 1 .. Len(issued')
    BY <1>1, <1>2 DEF LoginTypes
  <2>2. doing' \in [Browsers -> Calls]
    BY <1>1 DEF LoginTypes, Calls, Login!Resting
  <2> QED BY <1>1, <1>2, <2>1, <2>2 DEF LoginTypes
<1>4. ASSUME NEW c \in Browsers PROVE CallHolds(c)'
  <2>1. CASE c = b
    BY <1>1, <2>1, LoginAssumption DEF CallHolds, LoginTypes, Login!Resting
  <2>2. CASE c # b
    <3>1. doing'[c] = doing[c] /\ CallHolds(c)
      BY <1>1, <2>2 DEF LoginTypes, CallsHold
    <3>2. doing[c].token \in 1 .. Len(issued) =>
            doing[c].token \in 1 .. Len(issued') /\ issued'[doing[c].token] = issued[doing[c].token]
      BY <1>2
    <3> QED BY <1>1, <3>1, <3>2 DEF CallHolds
  <2> QED BY <2>1, <2>2
<1> QED BY <1>1, <1>3, <1>4, CountKept DEF CallsHold

LEMMA LogoutKeeps == ASSUME LoginInv, NEW b \in Browsers, Login!Logout(b) PROVE LoginInv'
<1> USE DEF LoginInv, Login!Logout
<1>1. LoginTypes'
  BY DEF LoginTypes, CallsHold, CallHolds, Calls, Login!Resting
<1>2. ASSUME NEW c \in Browsers PROVE CallHolds(c)'
  BY LoginAssumption DEF CallsHold, CallHolds, LoginTypes, Calls, Login!Resting
<1> QED BY <1>1, <1>2, CountKept DEF CallsHold

LEMMA SessionKeeps == ASSUME LoginInv, NEW b \in Browsers, Login!Session(b) PROVE LoginInv'
<1> USE DEF LoginInv
<1>1. /\ doing' = [doing EXCEPT ![b] = IF Login!Live(b) THEN [@ EXCEPT !.at = "command"] ELSE Login!Resting]
      /\ UNCHANGED <<hour, loginTable, budget, attempts>> /\ doing[b].at = "session"
  BY DEF Login!Session, loginTable
<1>2. LoginTypes'
  BY <1>1, ZenonT(60) DEF LoginTypes, Calls, Login!Resting, loginTable
<1>3. ASSUME NEW c \in Browsers PROVE CallHolds(c)'
  <2>1. CASE c = b /\ Login!Live(b)
    <3>1. doing'[b] = [doing[b] EXCEPT !.at = "command"]
      BY <1>1, <2>1 DEF LoginTypes
    <3>2. CallHolds(b) /\ ~doing[b].late
      BY <2>1 DEF LoginTypes, CallsHold, CallHolds, Login!Live
    <3> QED BY <1>1, <2>1, <3>1, <3>2 DEF CallHolds, LoginTypes, Calls, Login!Live, loginTable
  <2>2. CASE c = b /\ ~Login!Live(b)
    BY <1>1, <2>2, LoginAssumption DEF CallHolds, LoginTypes, Login!Resting, loginTable
  <2>3. CASE c # b
    BY <1>1, <2>3 DEF CallsHold, CallHolds, LoginTypes, loginTable
  <2> QED BY <2>1, <2>2, <2>3
<1> QED BY <1>1, <1>2, <1>3, CountKept DEF CallsHold

LEMMA CommandKeeps == ASSUME LoginInv, NEW b \in Browsers, Login!Command(b) PROVE LoginInv'
<1> USE DEF LoginInv, Login!Command
<1>1. LoginTypes'
  BY DEF LoginTypes, Calls, Login!Resting
<1>2. ASSUME NEW c \in Browsers PROVE CallHolds(c)'
  BY LoginAssumption DEF CallsHold, CallHolds, LoginTypes, Login!Resting
<1> QED BY <1>1, <1>2, CountKept DEF CallsHold

LEMMA LoginStep == LoginInv /\ [EdgesNext]_edges => LoginInv'
<1> SUFFICES ASSUME LoginInv, [EdgesNext]_edges PROVE LoginInv'
  OBVIOUS
<1>1. Login!ANext \/ UNCHANGED login
  BY DEF EdgesNext, edges
<1>2. CASE UNCHANGED login
  <2>1. LoginTypes' /\ CallsHold'
    BY <1>2 DEF login, LoginInv, LoginTypes, CallsHold, CallHolds
  <2> QED BY <1>2, <2>1, CountKept DEF login, LoginInv
<1>3. ASSUME NEW b \in Browsers,
             Login!BeginLogin(b) \/ Login!BeginLogout(b) \/ Login!BeginCommand(b)
      PROVE  LoginInv'
  <2>1. 0 .. secret \subseteq Nat /\ DOMAIN issued = 1 .. Len(issued) /\ 1 .. Len(issued) \subseteq Nat
    BY DEF LoginInv, LoginTypes
  <2>2. CASE Login!BeginLogin(b)
    BY <2>1, <2>2, BeginKeeps DEF Login!BeginLogin
  <2>3. CASE Login!BeginLogout(b)
    BY <2>1, <2>3, BeginKeeps DEF Login!BeginLogout
  <2>4. CASE Login!BeginCommand(b)
    BY <2>1, <2>4, BeginKeeps DEF Login!BeginCommand
  <2> QED BY <1>3, <2>2, <2>3, <2>4
<1> QED
  BY <1>1, <1>2, <1>3, HourKeeps, RotateKeeps, BudgetKeeps, IssueKeeps, LogoutKeeps, SessionKeeps, CommandKeeps
     DEF Login!ANext

\* No command without a live session of the record in force, and no more
\* guesses than two budgets in little less than a window.
THEOREM LoginHolds == EdgesSpec => []LoginIsGuarded
<1>1. LoginInv => LoginIsGuarded
  BY LoginInvSays DEF LoginIsGuarded
<1> QED BY <1>1, LoginInit, LoginStep, PTL DEF EdgesSpec

-----------------------------------------------------------------------------
(***************************************************************************)
(* Notifications.                                                          *)
(***************************************************************************)

Places == {"queue", "batch", "acked", "dead"}

\* The letters of the batch are those not settled yet, each of them once; and
\* every row that is no longer pending has a letter, for good.
LettersHeld ==
  /\ mode \in {"on", "off", "broken"} /\ unmarked \subseteq Rows /\ received \subseteq Rows
  /\ sent \in Seq(Rows) /\ place \in Seq(Places) /\ tries \in Seq(Nat)
  /\ Len(place) = Len(sent) /\ Len(tries) = Len(sent)
  /\ toDeliver \in Seq(1 .. Len(sent)) /\ Mail!IsInjective(toDeliver)
  /\ answered \subseteq 1 .. Len(sent)
  /\ {l \in 1 .. Len(sent) : place[l] = "batch"} = Mail!Range(toDeliver)
RowsHaveLetters == \A r \in Rows \ unmarked : \E l \in 1 .. Len(sent) : sent[l] = r
LettersSettled == \A l \in 1 .. Len(sent) :
  /\ place[l] = "acked" => sent[l] \in received
  /\ place[l] = "dead" => tries[l] >= MaxDeliveries

MailInv == LettersHeld /\ RowsHaveLetters /\ LettersSettled

LEMMA MailInvSays == MailInv => Mail!NTypeOK /\ Mail!NoNotificationLost
<1> SUFFICES ASSUME MailInv PROVE Mail!NTypeOK /\ Mail!NoNotificationLost
  OBVIOUS
<1> USE DEF MailInv, LettersHeld, RowsHaveLetters, LettersSettled
<1>1. DOMAIN sent = 1 .. Len(sent) /\ \A l \in DOMAIN sent : place[l] \in Places
  OBVIOUS
<1>2. Mail!NTypeOK
  BY <1>1 DEF Mail!NTypeOK, Places
<1>3. ASSUME NEW r \in Rows \ unmarked
      PROVE  \/ r \in received
             \/ \E l \in DOMAIN sent : sent[l] = r /\ place[l] \in {"queue", "batch", "dead"}
  <2>1. PICK l \in 1 .. Len(sent) : sent[l] = r
    OBVIOUS
  <2> QED BY <1>1, <2>1 DEF Places
<1> QED BY <1>1, <1>2, <1>3 DEF Mail!NoNotificationLost

\* Taking the first letter from a batch takes it from the set of its letters.
LEMMA TailOfBatch ==
  ASSUME NEW S, NEW s \in Seq(S), s # <<>>, Mail!IsInjective(s)
  PROVE  /\ Tail(s) \in Seq(S) /\ Mail!IsInjective(Tail(s)) /\ Head(s) \in S
         /\ Mail!Range(Tail(s)) = Mail!Range(s) \ {Head(s)}
         /\ Mail!Range(s) \subseteq S /\ Head(s) \in Mail!Range(s)
<1>1. /\ Tail(s) \in Seq(S) /\ Head(s) = s[1] /\ Head(s) \in S /\ Len(s) \in Nat \ {0}
      /\ Len(Tail(s)) = Len(s) - 1 /\ DOMAIN s = 1 .. Len(s)
      /\ DOMAIN Tail(s) = 1 .. Len(s) - 1
      /\ \A i \in 1 .. Len(s) - 1 : Tail(s)[i] = s[i + 1]
  OBVIOUS
<1>2. Mail!IsInjective(Tail(s))
  <2> SUFFICES ASSUME NEW a \in DOMAIN Tail(s), NEW b \in DOMAIN Tail(s), Tail(s)[a] = Tail(s)[b]
               PROVE  a = b
    BY DEF Mail!IsInjective
  <2> QED BY <1>1 DEF Mail!IsInjective
<1>3. ASSUME NEW x PROVE x \in Mail!Range(Tail(s)) <=> x \in Mail!Range(s) \ {Head(s)}
  <2>1. ASSUME x \in Mail!Range(Tail(s)) PROVE x \in Mail!Range(s) \ {Head(s)}
    <3>1. PICK i \in 1 .. Len(s) - 1 : x = s[i + 1]
      BY <1>1, <2>1 DEF Mail!Range
    <3>2. i + 1 \in DOMAIN s /\ 1 \in DOMAIN s /\ i + 1 # 1
      BY <1>1
    <3> QED BY <1>1, <3>1, <3>2 DEF Mail!Range, Mail!IsInjective
  <2>2. ASSUME x \in Mail!Range(s) \ {Head(s)} PROVE x \in Mail!Range(Tail(s))
    <3>1. PICK i \in 1 .. Len(s) : x = s[i]
      BY <1>1, <2>2 DEF Mail!Range
    <3>2. i - 1 \in 1 .. Len(s) - 1 /\ s[(i - 1) + 1] = s[i]
      BY <1>1, <2>2, <3>1
    <3> QED BY <1>1, <3>1, <3>2 DEF Mail!Range
  <2> QED BY <2>1, <2>2
<1>4. Mail!Range(Tail(s)) = Mail!Range(s) \ {Head(s)}
  BY <1>3
<1>5. Mail!Range(s) \subseteq S /\ Head(s) \in Mail!Range(s)
  BY <1>1 DEF Mail!Range
<1> QED BY <1>1, <1>2, <1>4, <1>5

LEMMA MailInit == EdgesInit => MailInv
<1> SUFFICES ASSUME Mail!NInit PROVE MailInv
  BY DEF EdgesInit
<1>1. /\ <<>> \in Seq(Rows) /\ <<>> \in Seq(Places) /\ <<>> \in Seq(Nat)
      /\ <<>> \in Seq(1 .. 0) /\ Len(<<>>) = 0 /\ DOMAIN <<>> = {}
  OBVIOUS
<1> QED
  BY <1>1 DEF Mail!NInit, MailInv, LettersHeld, RowsHaveLetters, LettersSettled, Mail!Range, Mail!IsInjective

\* What a letter's settlement does, wherever it goes.
LEMMA SettledKeeps ==
  ASSUME MailInv, toDeliver # <<>>,
         NEW where \in Places \ {"batch"}, Mail!Settled(Head(toDeliver), where),
         UNCHANGED <<mode, unmarked, sent, tries, seen, switches>>,
         received \subseteq received', received' \subseteq Rows,
         where = "acked" => sent[Head(toDeliver)] \in received',
         where = "dead" => tries[Head(toDeliver)] >= MaxDeliveries
  PROVE  MailInv'
<1> DEFINE l == Head(toDeliver)
<1> USE DEF MailInv, LettersHeld, RowsHaveLetters, LettersSettled
<1>1. /\ Tail(toDeliver) \in Seq(1 .. Len(sent)) /\ Mail!IsInjective(Tail(toDeliver))
      /\ l \in 1 .. Len(sent) /\ Mail!Range(Tail(toDeliver)) = Mail!Range(toDeliver) \ {l}
  BY TailOfBatch
<1> HIDE DEF l
<1>2. /\ place' = [place EXCEPT ![l] = where] /\ toDeliver' = Tail(toDeliver)
      /\ answered' \in {answered, answered \cup {l}}
  BY DEF Mail!Settled, l
<1>3. /\ place' \in Seq(Places) /\ Len(place') = Len(place)
      /\ \A k \in 1 .. Len(sent) : place'[k] = IF k = l THEN where ELSE place[k]
  BY <1>1, <1>2, ExceptSeq
<1>4. {k \in 1 .. Len(sent) : place'[k] = "batch"} = {k \in 1 .. Len(sent) : place[k] = "batch"} \ {l}
  BY <1>1, <1>3
<1>5. LettersHeld'
  BY <1>1, <1>2, <1>3, <1>4
<1>6. LettersSettled'
  BY <1>3 DEF l
<1> QED BY <1>5, <1>6

LEMMA LetterKeeps == MailInv /\ Mail!Deliver => MailInv'
<1> SUFFICES ASSUME MailInv, Mail!Deliver PROVE MailInv'
  OBVIOUS
<1> DEFINE l == Head(toDeliver)
<1>1. toDeliver # <<>> /\ UNCHANGED <<mode, unmarked, sent, tries, seen, switches>>
  BY DEF Mail!Deliver
<1>2. l \in 1 .. Len(sent) /\ sent[l] \in Rows
  BY <1>1, TailOfBatch DEF MailInv, LettersHeld
<1>3. CASE Mail!Settled(l, "acked") /\ received' = received \cup {sent[l]}
  <2>1. "acked" \in Places \ {"batch"} /\ received' \subseteq Rows
    BY <1>2, <1>3 DEF Places, MailInv, LettersHeld
  <2> QED BY <1>1, <1>3, <2>1, SettledKeeps
<1>4. CASE Mail!Failed(l) /\ received' \in {received, received \cup {sent[l]}}
  <2>1. received \subseteq received' /\ received' \subseteq Rows
    BY <1>2, <1>4 DEF MailInv, LettersHeld
  <2>2. \/ Mail!Settled(l, "dead") /\ tries[l] >= MaxDeliveries
        \/ Mail!Settled(l, "queue")
    BY <1>4 DEF Mail!Failed
  <2>3. {"dead", "queue"} \subseteq Places \ {"batch"}
    BY DEF Places
  <2>4. CASE Mail!Settled(l, "dead") /\ tries[l] >= MaxDeliveries
    BY <1>1, <2>1, <2>3, <2>4, SettledKeeps
  <2>5. CASE Mail!Settled(l, "queue")
    BY <1>1, <2>1, <2>3, <2>5, SettledKeeps
  <2> QED BY <2>2, <2>4, <2>5
<1> QED BY <1>3, <1>4 DEF Mail!Deliver

LEMMA PublishLetterKeeps == MailInv /\ Mail!PublishLetter => MailInv'
<1> SUFFICES ASSUME MailInv, Mail!PublishLetter PROVE MailInv'
  OBVIOUS
<1> USE DEF MailInv, LettersHeld
<1>1. PICK r \in unmarked :
        /\ sent' = Append(sent, r) /\ place' = Append(place, "queue") /\ tries' = Append(tries, 0)
        /\ unmarked' \in {unmarked, unmarked \ {r}}
        /\ UNCHANGED <<mode, toDeliver, answered, seen, received, switches>>
  BY DEF Mail!PublishLetter, Mail!batchVars
<1> DEFINE n == Len(sent)
<1>2. /\ n \in Nat /\ r \in Rows /\ Len(sent') = n + 1 /\ 1 .. n \subseteq 1 .. n + 1
      /\ sent' \in Seq(Rows) /\ sent'[n + 1] = r /\ \A l \in 1 .. n : sent'[l] = sent[l]
  BY <1>1
<1>3. /\ place' \in Seq(Places) /\ Len(place') = n + 1 /\ place'[n + 1] = "queue"
      /\ \A l \in 1 .. n : place'[l] = place[l]
  BY <1>1 DEF Places
<1>4. /\ tries' \in Seq(Nat) /\ Len(tries') = n + 1 /\ \A l \in 1 .. n : tries'[l] = tries[l]
  BY <1>1
<1>5. toDeliver' \in Seq(1 .. n + 1)
  BY <1>1, <1>2, SeqMonotonic
<1>6. {l \in 1 .. n + 1 : place'[l] = "batch"} = {l \in 1 .. n : place[l] = "batch"}
  BY <1>2, <1>3
<1>7. LettersHeld'
  BY <1>1, <1>2, <1>3, <1>4, <1>5, <1>6
<1>8. RowsHaveLetters'
  <2> SUFFICES ASSUME NEW q \in Rows \ unmarked' PROVE \E l \in 1 .. n + 1 : sent'[l] = q
    BY <1>2 DEF RowsHaveLetters
  <2>1. CASE q = r
    <3>1. n + 1 \in 1 .. n + 1 /\ sent'[n + 1] = q
      BY <1>2, <2>1
    <3> QED BY <3>1
  <2>2. CASE q # r
    <3>1. PICK l \in 1 .. n : sent[l] = q
      BY <1>1, <2>2 DEF RowsHaveLetters
    <3> QED BY <1>2, <3>1
  <2> QED BY <2>1, <2>2
<1>9. LettersSettled'
  <2> SUFFICES ASSUME NEW l \in 1 .. n + 1
               PROVE  /\ place'[l] = "acked" => sent'[l] \in received'
                      /\ place'[l] = "dead" => tries'[l] >= MaxDeliveries
    BY <1>2 DEF LettersSettled
  <2>1. l = n + 1 \/ l \in 1 .. n
    BY <1>2
  <2> QED BY <1>1, <1>2, <1>3, <1>4, <2>1 DEF LettersSettled
<1> QED BY <1>7, <1>8, <1>9

LEMMA TakeBatchKeeps == MailInv /\ Mail!TakeBatch => MailInv'
<1> SUFFICES ASSUME MailInv, Mail!TakeBatch PROVE MailInv'
  OBVIOUS
<1> USE DEF MailInv, LettersHeld
<1> DEFINE n == Len(sent)
           Queued == Mail!Queued
<1>0. PICK m \in 1 .. LetterBatch :
        \E s \in [1 .. m -> Queued] :
          /\ toDeliver = <<>> /\ Mail!IsInjective(s)
          /\ toDeliver' = s /\ answered' = {}
          /\ place' = [l \in DOMAIN place |-> IF l \in Mail!Range(s) THEN "batch" ELSE place[l]]
          /\ tries' = [l \in DOMAIN tries |-> IF l \in Mail!Range(s) THEN tries[l] + 1 ELSE tries[l]]
          /\ UNCHANGED <<mode, unmarked, sent, received, switches>>
  BY DEF Mail!TakeBatch
<1>1. PICK s \in [1 .. m -> Queued] :
      /\ toDeliver = <<>> /\ Mail!IsInjective(s)
      /\ toDeliver' = s /\ answered' = {}
      /\ place' = [l \in DOMAIN place |-> IF l \in Mail!Range(s) THEN "batch" ELSE place[l]]
      /\ tries' = [l \in DOMAIN tries |-> IF l \in Mail!Range(s) THEN tries[l] + 1 ELSE tries[l]]
      /\ UNCHANGED <<mode, unmarked, sent, received, switches>>
  BY <1>0
<1>2. n \in Nat /\ DOMAIN sent = 1 .. n /\ DOMAIN place = 1 .. n /\ DOMAIN tries = 1 .. n
  OBVIOUS
<1>3. Mail!Range(toDeliver) = {} /\ \A l \in 1 .. n : place[l] # "batch"
  <2>1. Mail!Range(toDeliver) = {}
    BY <1>1 DEF Mail!Range
  <2> QED BY <2>1
<1>4. s \in Seq(Queued) /\ Mail!Range(s) \subseteq Queued
  <2>1. s \in Seq(Queued) /\ DOMAIN s = 1 .. m /\ \A i \in 1 .. m : s[i] \in Queued
    BY <1>1, SeqDef
  <2> QED BY <2>1 DEF Mail!Range
<1>5. s \in Seq(1 .. n) /\ Mail!Range(s) \subseteq 1 .. n
  <2>1. Queued \subseteq 1 .. n
    BY <1>2 DEF Mail!Queued
  <2> QED BY <1>4, <2>1, SeqMonotonic
<1>6. /\ place' \in Seq(Places) /\ Len(place') = n
      /\ \A l \in 1 .. n : place'[l] = IF l \in Mail!Range(s) THEN "batch" ELSE place[l]
  <2>1. \A l \in 1 .. n : place[l] \in Places
    BY <1>2
  <2>2. place' \in [1 .. n -> Places]
    BY <1>1, <1>2, <2>1 DEF Places
  <2> QED BY <1>1, <1>2, <2>2
<1>7. /\ tries' \in Seq(Nat) /\ Len(tries') = n
      /\ \A l \in 1 .. n : tries'[l] >= tries[l]
  <2>1. \A l \in 1 .. n : tries[l] \in Nat
    BY <1>2
  <2>2. tries' \in [1 .. n -> Nat]
    BY <1>1, <1>2, <2>1
  <2> QED BY <1>1, <1>2, <2>1, <2>2
<1>8. {l \in 1 .. n : place'[l] = "batch"} = Mail!Range(s)
  BY <1>3, <1>5, <1>6
<1>9. LettersHeld'
  BY <1>1, <1>5, <1>6, <1>7, <1>8
<1>10. LettersSettled'
  <2> SUFFICES ASSUME NEW l \in 1 .. n
               PROVE  /\ place'[l] = "acked" => sent[l] \in received
                      /\ place'[l] = "dead" => tries'[l] >= MaxDeliveries
    BY <1>1 DEF LettersSettled
  <2>1. tries[l] \in Nat /\ tries'[l] \in Nat
    BY <1>2, <1>6, <1>7
  <2>2. place'[l] # "batch" => place'[l] = place[l]
    BY <1>6
  <2>3. /\ place[l] = "acked" => sent[l] \in received
        /\ place[l] = "dead" => tries[l] >= MaxDeliveries
    BY DEF LettersSettled
  <2>4. tries[l] >= MaxDeliveries => tries'[l] >= MaxDeliveries
    BY <1>7, <2>1, MailAssumption
  <2> QED BY <2>2, <2>3, <2>4
<1>11. RowsHaveLetters'
  BY <1>1 DEF RowsHaveLetters
<1> QED BY <1>9, <1>10, <1>11

LEMMA DiesKeeps == MailInv /\ Mail!Dies => MailInv'
<1> SUFFICES ASSUME MailInv, Mail!Dies PROVE MailInv'
  OBVIOUS
<1> USE DEF MailInv, LettersHeld
<1>1. PICK lost \in SUBSET answered :
        place' = [l \in DOMAIN place |->
                    IF l \in lost \cup Mail!Range(toDeliver) THEN "queue" ELSE place[l]]
  BY DEF Mail!Dies
<1>2. /\ toDeliver' = <<>> /\ answered' = {}
      /\ UNCHANGED <<mode, unmarked, sent, tries, received, switches>>
  BY DEF Mail!Dies
<1> DEFINE n == Len(sent)
<1>3. n \in Nat /\ DOMAIN place = 1 .. n /\ \A l \in 1 .. n : place[l] \in Places
  OBVIOUS
<1>4. /\ place' \in Seq(Places) /\ Len(place') = n
      /\ \A l \in 1 .. n : place'[l] = "queue" \/ (place'[l] = place[l] /\ l \notin Mail!Range(toDeliver))
  <2>1. place' \in [1 .. n -> Places]
    BY <1>1, <1>3 DEF Places
  <2> QED BY <1>1, <1>3, <2>1
<1>5. {l \in 1 .. n : place'[l] = "batch"} = {}
  BY <1>4
<1>6. toDeliver' \in Seq(1 .. n) /\ Mail!IsInjective(toDeliver') /\ Mail!Range(toDeliver') = {}
  BY <1>2 DEF Mail!IsInjective, Mail!Range
<1>7. LettersHeld'
  BY <1>2, <1>4, <1>5, <1>6
<1>8. LettersSettled'
  BY <1>2, <1>4 DEF LettersSettled
<1> QED BY <1>2, <1>7, <1>8 DEF RowsHaveLetters

LEMMA MailStep == MailInv /\ [EdgesNext]_edges => MailInv'
<1> SUFFICES ASSUME MailInv, [EdgesNext]_edges PROVE MailInv'
  OBVIOUS
<1>1. Mail!NNext \/ UNCHANGED mail
  BY DEF EdgesNext, edges
<1>2. CASE \/ UNCHANGED mail
           \/ Mail!Configure
           \/ Mail!EndBatch
  <2> USE DEF MailInv, LettersHeld, RowsHaveLetters, LettersSettled, Mail!batchVars, Mail!IsInjective, Mail!Range
  <2>1. CASE UNCHANGED mail
    BY <2>1 DEF mail
  <2>2. CASE Mail!Configure
    BY <2>2 DEF Mail!Configure
  <2>3. CASE Mail!EndBatch
    BY <2>3 DEF Mail!EndBatch
  <2> QED BY <1>2, <2>1, <2>2, <2>3
<1> QED
  BY <1>1, <1>2, LetterKeeps, PublishLetterKeeps, TakeBatchKeeps, DiesKeeps DEF Mail!NNext

\* Whatever fails, a notification is delivered, waiting or answered for.
THEOREM NotificationsHold == EdgesSpec => []NoNotificationLost
<1>1. MailInv => NoNotificationLost
  BY MailInvSays DEF NoNotificationLost
<1> QED BY <1>1, MailInit, MailStep, PTL DEF EdgesSpec

-----------------------------------------------------------------------------
(***************************************************************************)
(* TelemetryExport.                                                        *)
(***************************************************************************)

ExporterTypes ==
  /\ kind \in [1 .. Offers -> Exporter!Kinds] /\ enqueued \in 0 .. Offers /\ pausing \in BOOLEAN
  /\ waiting \in Seq(Nat) /\ inflight \in Seq(Nat) /\ exported \in Seq(Nat)

Accounted ==
  1 .. enqueued = Members(Exporter!Kept) \cup {d[1] : d \in displaced} \cup {t[1] : t \in turnedAway}

Reasons ==
  /\ \A d \in displaced : kind[d[1]].priority < kind[d[2]].priority
  /\ \A t \in turnedAway : Exporter!Lower(t[2], t[1]) = {}

\* The bytes of a set of records.
Weight(of, M) == Cardinality(UNION {{r} \X (1 .. of[r].bytes) : r \in M})

Budget ==
  /\ Len(waiting) + Len(inflight) <= RecordCapacity
  /\ Weight(kind, Members(waiting)) + Weight(kind, Members(inflight)) <= ByteLimit

ExporterInv == ExporterTypes /\ Rising(Exporter!Kept) /\ Accounted /\ Reasons /\ Budget

LEMMA WeighsIt == ASSUME NEW s \in Seq(Nat) PROVE Exporter!Bytes(s) = Weight(kind, Members(s))
<1>1. Exporter!Range(s) = Members(s)
  BY DEF Exporter!Range, Members
<1>2. ASSUME NEW S PROVE Exporter!Cardinality(S) = Cardinality(S)
  BY DEF Exporter!Cardinality, Cardinality
<1> QED BY <1>1, <1>2 DEF Exporter!Bytes, Exporter!Octets, Weight

LEMMA Weights ==
  ASSUME ExporterTypes, NEW M \in SUBSET (1 .. Offers), NEW N \in SUBSET (1 .. Offers)
  PROVE  /\ Weight(kind, M) \in Nat
         /\ Weight(kind, M \cup N) <= Weight(kind, M) + Weight(kind, N)
         /\ M \cap N = {} => Weight(kind, M \cup N) = Weight(kind, M) + Weight(kind, N)
         /\ M \subseteq N => Weight(kind, M) <= Weight(kind, N)
<1> DEFINE Octets(K) == UNION {{r} \X (1 .. kind[r].bytes) : r \in K}
<1>1. ASSUME NEW K \in SUBSET (1 .. Offers) PROVE IsFiniteSet(Octets(K))
  <2>1. \A r \in K : kind[r].bytes \in {1, 2}
    BY DEF ExporterTypes, Exporter!Kinds
  <2>2. Octets(K) \subseteq (1 .. Offers) \X (1 .. 2)
    BY <2>1
  <2>3. IsFiniteSet(1 .. Offers) /\ IsFiniteSet(1 .. 2)
    <3>1. 1 \in Int /\ 2 \in Int /\ Offers \in Int
      BY ExporterAssumption
    <3> QED BY <3>1, FS_Interval
  <2>4. IsFiniteSet((1 .. Offers) \X (1 .. 2))
    BY <2>3, FS_Product
  <2> QED BY <2>2, <2>4, FS_Subset
<1>2. Octets(M \cup N) = Octets(M) \cup Octets(N)
  OBVIOUS
<1>3. M \cap N = {} => Octets(M) \cap Octets(N) = {}
  OBVIOUS
<1>4. M \subseteq N => Octets(M) \subseteq Octets(N)
  OBVIOUS
<1>5. /\ Weight(kind, M) = Cardinality(Octets(M)) /\ Weight(kind, N) = Cardinality(Octets(N))
      /\ Weight(kind, M \cup N) = Cardinality(Octets(M \cup N))
  BY DEF Weight
<1> HIDE DEF Octets
<1>6. IsFiniteSet(Octets(M)) /\ IsFiniteSet(Octets(N))
  BY <1>1
<1>7. /\ Cardinality(Octets(M)) \in Nat /\ Cardinality(Octets(N)) \in Nat
      /\ Cardinality(Octets(M) \cap Octets(N)) \in Nat
  BY <1>6, FS_CardinalityType, FS_Intersection
<1>8. Cardinality(Octets(M) \cup Octets(N)) =
        Cardinality(Octets(M)) + Cardinality(Octets(N)) - Cardinality(Octets(M) \cap Octets(N))
  BY <1>6, FS_Union
<1>9. M \cap N = {} => Cardinality(Octets(M) \cap Octets(N)) = 0
  BY <1>3, FS_EmptySet
<1>10. M \subseteq N => Cardinality(Octets(M)) <= Cardinality(Octets(N))
  BY <1>4, <1>6, FS_Subset
<1>11. Weight(kind, M \cup N) = Weight(kind, M) + Weight(kind, N) - Cardinality(Octets(M) \cap Octets(N))
  BY <1>2, <1>5, <1>8
<1> QED BY <1>5, <1>7, <1>9, <1>10, <1>11

LEMMA WeightOfOne ==
  ASSUME ExporterTypes, NEW r \in 1 .. Offers PROVE Weight(kind, {r}) = kind[r].bytes
<1>1. kind[r].bytes \in {1, 2}
  BY DEF ExporterTypes, Exporter!Kinds
<1>2. PICK b \in {1, 2} : b = kind[r].bytes
  BY <1>1
<1>3. UNION {{s} \X (1 .. kind[s].bytes) : s \in {r}} = {r} \X (1 .. b)
  BY <1>2
<1>4. IsFiniteSet({r}) /\ Cardinality({r}) = 1
  BY FS_Singleton
<1>5. IsFiniteSet(1 .. b) /\ Cardinality(1 .. b) = b
  <2>1. /\ IsFiniteSet(1 .. b)
        /\ Cardinality(1 .. b) = IF 1 > b THEN 0 ELSE b - 1 + 1
    BY FS_Interval
  <2> QED BY <2>1
<1>6. Cardinality({r} \X (1 .. b)) = b
  <2>1. Cardinality({r} \X (1 .. b)) = Cardinality({r}) * Cardinality(1 .. b)
    BY <1>4, <1>5, FS_Product
  <2>2. 1 * b = b
    OBVIOUS
  <2> QED BY <1>4, <1>5, <2>1, <2>2
<1> QED BY <1>2, <1>3, <1>6 DEF Weight

LEMMA ExporterInvSays ==
  ExporterInv => Exporter!TTypeOK /\ Exporter!ExportIsFaithful
<1> SUFFICES ASSUME ExporterInv PROVE Exporter!TTypeOK /\ Exporter!ExportIsFaithful
  OBVIOUS
<1>1. Exporter!TTypeOK
  BY WeighsIt DEF ExporterInv, ExporterTypes, Budget, Exporter!TTypeOK
<1>2. Exporter!Kept \in Seq(Nat)
  BY DEF ExporterInv, ExporterTypes, Exporter!Kept
<1>3. Exporter!Range(Exporter!Kept) = Members(Exporter!Kept)
  BY <1>2 DEF Exporter!Range, Members
<1>4. DOMAIN Exporter!Kept = 1 .. Len(Exporter!Kept)
  BY <1>2
<1> QED
  BY <1>1, <1>3, <1>4 DEF ExporterInv, Accounted, Reasons, Rising, Exporter!ExportIsFaithful

LEMMA ExporterInit == EdgesInit => ExporterInv
<1> SUFFICES ASSUME Exporter!TInit PROVE ExporterInv
  BY DEF EdgesInit
<1>1. ExporterTypes
  <2>1. 0 \in 0 .. Offers
    BY ExporterAssumption
  <2>2. <<>> \in Seq(Nat)
    OBVIOUS
  <2> QED BY <2>1, <2>2 DEF Exporter!TInit, ExporterTypes
<1>2. Exporter!Kept = <<>> /\ Members(<<>>) = {} /\ Len(<<>>) = 0
  BY DEF Exporter!TInit, Exporter!Kept, Members
<1>3. Weight(kind, {}) = 0
  <2>1. UNION {{r} \X (1 .. kind[r].bytes) : r \in {}} = {}
    OBVIOUS
  <2> QED BY <2>1, FS_EmptySet DEF Weight
<1>4. Budget
  <2>1. waiting = <<>> /\ inflight = <<>> /\ 0 + 0 <= RecordCapacity /\ 0 + 0 <= ByteLimit
    BY ExporterAssumption DEF Exporter!TInit
  <2> QED BY <1>2, <1>3, <2>1 DEF Budget
<1>5. Accounted
  BY <1>2 DEF Exporter!TInit, Accounted
<1>6. Rising(Exporter!Kept) /\ Reasons
  BY <1>2 DEF Exporter!TInit, Rising, Reasons
<1> QED BY <1>1, <1>4, <1>5, <1>6 DEF ExporterInv

\* The records that are held were offered.
LEMMA HeldWereOffered ==
  ASSUME ExporterInv
  PROVE  /\ Members(Exporter!Kept) = Members(exported \o inflight) \cup Members(waiting)
         /\ Members(exported \o inflight) = Members(exported) \cup Members(inflight)
         /\ Members(Exporter!Kept) \subseteq 1 .. enqueued
         /\ Members(waiting) \subseteq 1 .. Offers /\ Members(inflight) \subseteq 1 .. Offers
         /\ Rising(waiting)
<1>1. exported \o inflight \in Seq(Nat) /\ waiting \in Seq(Nat)
  BY DEF ExporterInv, ExporterTypes
<1>2. /\ Members(Exporter!Kept) = Members(exported \o inflight) \cup Members(waiting)
      /\ Members(exported \o inflight) = Members(exported) \cup Members(inflight)
  <2>1. Members(exported \o inflight) = Members(exported) \cup Members(inflight)
    BY MembersOfConcat DEF ExporterInv, ExporterTypes
  <2>2. PICK s \in Seq(Nat) : s = exported \o inflight
    BY <1>1
  <2>3. Members(s \o waiting) = Members(s) \cup Members(waiting)
    BY <1>1, MembersOfConcat
  <2> QED BY <2>1, <2>2, <2>3 DEF Exporter!Kept
<1>3. Members(Exporter!Kept) \subseteq 1 .. enqueued
  BY DEF ExporterInv, Accounted
<1>4. 1 .. enqueued \subseteq 1 .. Offers
  BY ExporterAssumption DEF ExporterInv, ExporterTypes
<1>5. Rising(waiting)
  BY <1>1, RisingConcat DEF Exporter!Kept, ExporterInv
<1> QED BY <1>2, <1>3, <1>4, <1>5

\* What no flush changes.
LEMMA FlushKeeps ==
  ASSUME ExporterInv, UNCHANGED <<kind, enqueued, displaced, turnedAway>>,
         waiting' \in Seq(Nat), inflight' \in Seq(Nat), exported' \in Seq(Nat), pausing' \in BOOLEAN,
         Exporter!Kept' = Exporter!Kept, Budget'
  PROVE  ExporterInv'
<1>1. ExporterTypes' /\ Accounted' /\ Rising(Exporter!Kept)'
  BY DEF ExporterInv, ExporterTypes, Accounted, Rising
<1>2. Reasons'
  BY DEF ExporterInv, Reasons, Exporter!Lower
<1> QED BY <1>1, <1>2 DEF ExporterInv

LEMMA BeginFlushKeeps == ExporterInv /\ Exporter!BeginFlush => ExporterInv'
<1> SUFFICES ASSUME ExporterInv, Exporter!BeginFlush PROVE ExporterInv'
  OBVIOUS
<1> DEFINE n == IF Len(waiting) < BatchSize THEN Len(waiting) ELSE BatchSize
<1>1. /\ inflight = <<>> /\ inflight' = SubSeq(waiting, 1, n)
      /\ waiting' = SubSeq(waiting, n + 1, Len(waiting))
      /\ UNCHANGED <<kind, enqueued, exported, displaced, turnedAway, pausing>>
  BY DEF Exporter!BeginFlush
<1>2. waiting \in Seq(Nat) /\ exported \in Seq(Nat) /\ Len(waiting) \in Nat /\ pausing \in BOOLEAN
  BY DEF ExporterInv, ExporterTypes
<1>3. n \in 0 .. Len(waiting)
  BY <1>2, ExporterAssumption
<1> HIDE DEF n
<1>4. /\ inflight' \in Seq(Nat) /\ Len(inflight') = n
      /\ waiting' \in Seq(Nat) /\ Len(waiting') = Len(waiting) - n
  BY <1>1, <1>2, <1>3
<1>5. inflight' \o waiting' = waiting
  <2>1. SubSeq(waiting, 1, n) \o SubSeq(waiting, n + 1, Len(waiting)) = SubSeq(waiting, 1, Len(waiting))
    <3>1. 1 \in 1 .. Len(waiting) + 1 /\ n \in 1 - 1 .. Len(waiting) /\ Len(waiting) \in n .. Len(waiting)
      BY <1>2, <1>3
    <3> QED BY <1>2, <3>1, ConcatAdjacentSubSeq
  <2> QED BY <1>1, <1>2, <2>1, SubSeqFull
<1>6. Exporter!Kept' = Exporter!Kept
  <2>1. exported \o <<>> = exported
    BY <1>2, ConcatEmptySeq
  <2>2. (exported \o inflight') \o waiting' = exported \o (inflight' \o waiting')
    BY <1>2, <1>4, ConcatAssoc, Zenon
  <2> QED BY <1>1, <1>5, <2>1, <2>2 DEF Exporter!Kept
<1>7. Budget'
  <2>1. Rising(inflight' \o waiting')
    BY <1>5, HeldWereOffered
  <2>2. /\ Members(waiting) = Members(inflight') \cup Members(waiting')
        /\ \A x \in Members(inflight'), y \in Members(waiting') : x < y
    <3>1. PICK a \in Seq(Nat), b \in Seq(Nat) : a = inflight' /\ b = waiting'
      BY <1>4
    <3>2. Rising(a \o b) /\ a \o b = waiting
      BY <1>5, <2>1, <3>1
    <3>3. Members(a \o b) = Members(a) \cup Members(b) /\ \A x \in Members(a), y \in Members(b) : x < y
      BY <3>2, RisingConcat, MembersOfConcat, ZenonT(60)
    <3> QED BY <3>1, <3>2, <3>3
  <2>3. Members(waiting) \subseteq 1 .. Offers
    BY HeldWereOffered
  <2>4. Members(inflight') \cap Members(waiting') = {}
    BY <2>2, <2>3
  <2>5. /\ Weight(kind, Members(waiting)) = Weight(kind, Members(inflight')) + Weight(kind, Members(waiting'))
        /\ Weight(kind, Members(inflight')) \in Nat /\ Weight(kind, Members(waiting')) \in Nat
        /\ Weight(kind, Members(inflight)) \in Nat
    BY <2>2, <2>3, <2>4, Weights, HeldWereOffered DEF ExporterInv
  <2>6. Weight(kind, Members(waiting')) + Weight(kind, Members(inflight')) <= ByteLimit
    BY <2>5, ExporterAssumption DEF ExporterInv, Budget
  <2>7. kind' = kind
    BY <1>1
  <2>8. Len(waiting') + Len(inflight') <= RecordCapacity
    BY <1>2, <1>3, <1>4, ExporterAssumption DEF ExporterInv, Budget, ExporterTypes
  <2> QED BY <2>6, <2>7, <2>8 DEF Budget
<1> QED BY <1>1, <1>2, <1>4, <1>6, <1>7, FlushKeeps

LEMMA FlushSucceedsKeeps == ExporterInv /\ Exporter!FlushSucceeds => ExporterInv'
<1> SUFFICES ASSUME ExporterInv, Exporter!FlushSucceeds PROVE ExporterInv'
  OBVIOUS
<1>1. /\ exported' = exported \o inflight /\ inflight' = <<>> /\ pausing' = FALSE
      /\ UNCHANGED <<kind, enqueued, waiting, displaced, turnedAway>>
  BY DEF Exporter!FlushSucceeds
<1>2. waiting \in Seq(Nat) /\ exported \in Seq(Nat) /\ inflight \in Seq(Nat)
  BY DEF ExporterInv, ExporterTypes
<1>3. exported' \in Seq(Nat) /\ exported' \o <<>> = exported'
  BY <1>1, <1>2, ConcatProperties, ConcatEmptySeq
<1>4. Exporter!Kept' = Exporter!Kept
  BY <1>1, <1>3 DEF Exporter!Kept
<1>5. Budget'
  <2>1. Members(<<>>) = {} /\ Len(<<>>) = 0
    BY DEF Members
  <2>2. /\ Weight(kind, Members(waiting)) \in Nat /\ Weight(kind, Members(inflight)) \in Nat
        /\ Weight(kind, {}) <= Weight(kind, Members(inflight)) /\ Weight(kind, {}) \in Nat
    BY HeldWereOffered, Weights DEF ExporterInv
  <2>3. Weight(kind, Members(waiting)) + Weight(kind, {}) <= ByteLimit
    BY <2>2, ExporterAssumption DEF ExporterInv, Budget
  <2>4. kind' = kind /\ Members(waiting') = Members(waiting) /\ Members(inflight') = {}
    BY <1>1, <2>1
  <2>5. Len(waiting') + Len(inflight') <= RecordCapacity
    BY <1>1, <1>2, <2>1, ExporterAssumption DEF ExporterInv, Budget
  <2> QED BY <2>3, <2>4, <2>5 DEF Budget
<1>6. <<>> \in Seq(Nat)
  OBVIOUS
<1> QED BY <1>1, <1>2, <1>3, <1>4, <1>5, <1>6, FlushKeeps

LEMMA FlushFailsKeeps == ExporterInv /\ Exporter!FlushFails => ExporterInv'
<1> SUFFICES ASSUME ExporterInv, Exporter!FlushFails PROVE ExporterInv'
  OBVIOUS
<1>1. /\ waiting' = inflight \o waiting /\ inflight' = <<>> /\ pausing' = TRUE
      /\ UNCHANGED <<kind, enqueued, exported, displaced, turnedAway>>
  BY DEF Exporter!FlushFails, Exporter!Requeued
<1>2. waiting \in Seq(Nat) /\ exported \in Seq(Nat) /\ inflight \in Seq(Nat) /\ <<>> \in Seq(Nat)
  BY DEF ExporterInv, ExporterTypes
<1>3. waiting' \in Seq(Nat) /\ Len(waiting') = Len(inflight) + Len(waiting)
  BY <1>1, <1>2, ConcatProperties
<1>4. Exporter!Kept' = Exporter!Kept
  <2>1. exported \o <<>> = exported
    BY <1>2, ConcatEmptySeq
  <2>2. (exported \o inflight) \o waiting = exported \o (inflight \o waiting)
    BY <1>2, ConcatAssoc, Zenon
  <2> QED BY <1>1, <2>1, <2>2 DEF Exporter!Kept
<1>5. Budget'
  <2>1. Members(<<>>) = {} /\ Len(<<>>) = 0
    BY DEF Members
  <2>2. Members(waiting') = Members(inflight) \cup Members(waiting)
    BY <1>1, <1>2, MembersOfConcat
  <2>3. /\ Weight(kind, Members(waiting)) \in Nat /\ Weight(kind, Members(inflight)) \in Nat
        /\ Weight(kind, Members(waiting')) <= Weight(kind, Members(inflight)) + Weight(kind, Members(waiting))
    BY <2>2, HeldWereOffered, Weights DEF ExporterInv
  <2>4. Weight(kind, {}) = 0
    <3>1. UNION {{r} \X (1 .. kind[r].bytes) : r \in {}} = {}
      OBVIOUS
    <3> QED BY <3>1, FS_EmptySet DEF Weight
  <2>5. Weight(kind, Members(waiting')) \in Nat
    BY <2>2, HeldWereOffered, Weights DEF ExporterInv
  <2>6. Weight(kind, Members(waiting')) + Weight(kind, {}) <= ByteLimit
    BY <2>3, <2>4, <2>5, ExporterAssumption DEF ExporterInv, Budget
  <2>7. kind' = kind /\ Members(inflight') = {}
    BY <1>1, <2>1
  <2>8. Len(waiting') + Len(inflight') <= RecordCapacity
    BY <1>1, <1>2, <1>3, <2>1, ExporterAssumption DEF ExporterInv, Budget
  <2> QED BY <2>6, <2>7, <2>8 DEF Budget
<1> QED BY <1>1, <1>2, <1>3, <1>4, <1>5, FlushKeeps

WithoutVictim(q, r) == Exporter!Without(q, Exporter!Victim(q, r))

\* The queue after every number of evictions.
After(r) == CHOOSE f : f = [k \in 0 .. Len(waiting) |->
              IF k = 0 THEN waiting ELSE WithoutVictim(f[k - 1], r)]

LEMMA EvictedIs == ASSUME NEW r, NEW n PROVE Exporter!Evicted(r, n) = After(r)[n]
BY DEF Exporter!Evicted, After, WithoutVictim

LEMMA AfterIs ==
  ASSUME NEW r, Len(waiting) \in Nat
  PROVE  /\ After(r)[0] = waiting
         /\ \A k \in 0 .. Len(waiting) - 1 : After(r)[k + 1] = WithoutVictim(After(r)[k], r)
<1> DEFINE m == Len(waiting)
           Chain(f, n) == f = [k \in 0 .. n |-> IF k = 0 THEN waiting ELSE WithoutVictim(f[k - 1], r)]
           S == {n \in 0 .. m : \E f : Chain(f, n)}
<1>1. 0 \in S
  <2>1. [k \in 0 .. 0 |-> waiting] =
          [k \in 0 .. 0 |-> IF k = 0 THEN waiting ELSE WithoutVictim([l \in 0 .. 0 |-> waiting][k - 1], r)]
    OBVIOUS
  <2>2. Chain([k \in 0 .. 0 |-> waiting], 0)
    BY <2>1
  <2>3. 0 \in 0 .. m
    OBVIOUS
  <2> QED BY <2>2, <2>3
<1>2. ASSUME NEW n \in 0 .. m - 1, n \in S PROVE n + 1 \in S
  <2>1. PICK f : Chain(f, n)
    BY <1>2
  <2>2. PICK g : g = [k \in 0 .. n + 1 |-> IF k <= n THEN f[k] ELSE WithoutVictim(f[n], r)]
    OBVIOUS
  <2>3. ASSUME NEW k \in 0 .. n + 1
        PROVE  g[k] = IF k = 0 THEN waiting ELSE WithoutVictim(g[k - 1], r)
    <3>1. CASE k = 0
      <4>1. k <= n /\ k \in 0 .. n
        BY <3>1
      <4> QED BY <2>1, <2>2, <3>1, <4>1
    <3>2. CASE k # 0 /\ k <= n
      <4>1. k \in 0 .. n /\ k - 1 \in 0 .. n + 1 /\ k - 1 <= n
        BY <3>2
      <4>2. g[k] = f[k] /\ g[k - 1] = f[k - 1]
        BY <2>2, <3>2, <4>1
      <4>3. f[k] = WithoutVictim(f[k - 1], r)
        BY <2>1, <3>2, <4>1
      <4> QED BY <3>2, <4>2, <4>3
    <3>3. CASE k = n + 1
      <4>1. k # 0 /\ ~(k <= n) /\ k - 1 = n /\ n <= n /\ n \in 0 .. n + 1
        BY <3>3
      <4>2. g[k] = WithoutVictim(f[n], r) /\ g[n] = f[n]
        BY <2>2, <4>1
      <4> QED BY <4>1, <4>2
    <3> QED BY <3>1, <3>2, <3>3
  <2>4. DOMAIN g = 0 .. n + 1 /\ g = [k \in 0 .. n + 1 |-> g[k]]
    BY <2>2
  <2>5. Chain(g, n + 1)
    BY <2>3, <2>4
  <2>6. n + 1 \in 0 .. m
    OBVIOUS
  <2> QED BY <2>5, <2>6
<1> HIDE DEF S
<1>3. 0 .. m \subseteq S
  BY <1>1, <1>2, InductionTo
<1>4. m \in S
  BY <1>3
<1>5. \E f : Chain(f, m)
  BY <1>4 DEF S
<1>6. Chain(After(r), m)
  BY <1>5 DEF After
<1>7. After(r)[0] = waiting
  BY <1>6
<1>8. ASSUME NEW k \in 0 .. m - 1 PROVE After(r)[k + 1] = WithoutVictim(After(r)[k], r)
  <2>1. k + 1 \in 0 .. m /\ k + 1 # 0 /\ (k + 1) - 1 = k
    OBVIOUS
  <2> QED BY <1>6, <2>1
<1> QED BY <1>7, <1>8

LEMMA VictimIsLower ==
  ASSUME ExporterTypes, NEW q \in Seq(Nat), Members(q) \subseteq 1 .. Offers,
         NEW r, Exporter!Lower(q, r) # {}
  PROVE  /\ Exporter!Victim(q, r) \in 1 .. Len(q)
         /\ kind[q[Exporter!Victim(q, r)]].priority < kind[r].priority
<1> DEFINE L == Exporter!Lower(q, r)
           P == {kind[q[i]].priority : i \in L}
<1>1. L \subseteq 1 .. Len(q) /\ \A i \in L : kind[q[i]].priority < kind[r].priority
  BY DEF Exporter!Lower
<1>2. \A i \in L : kind[q[i]].priority \in Nat
  <2>1. ASSUME NEW i \in L PROVE kind[q[i]].priority \in Nat
    <3>1. q[i] \in Members(q)
      BY <1>1 DEF Members
    <3>2. q[i] \in 1 .. Offers
      BY <3>1
    <3>3. kind[q[i]] \in Exporter!Kinds
      BY <3>2 DEF ExporterTypes
    <3> QED BY <3>3 DEF Exporter!Kinds
  <2> QED BY <2>1
<1> HIDE DEF L
<1>3. PICK p \in P : \A o \in P : p <= o
  <2>1. P \in SUBSET Nat /\ P # {}
    BY <1>2 DEF L
  <2> HIDE DEF P
  <2> QED BY <2>1, LeastOf
<1> DEFINE Lowest == {i \in L : kind[q[i]].priority = p}
<1>4. PICK i \in Lowest : \A j \in Lowest : i <= j
  <2>1. \E i \in L : kind[q[i]].priority = p
    BY <1>3
  <2>2. Lowest \in SUBSET Nat /\ Lowest # {}
    <3>1. 1 .. Len(q) \subseteq Nat
      OBVIOUS
    <3>2. L \subseteq Nat
      BY <1>1, <3>1
    <3>3. Lowest \subseteq Nat
      BY <3>2
    <3> QED BY <2>1, <3>3
  <2> HIDE DEF Lowest
  <2> QED BY <2>2, LeastOf
<1>5. i \in L
  BY <1>4
<1>6. ASSUME NEW j \in L
      PROVE  \/ kind[q[i]].priority < kind[q[j]].priority
             \/ kind[q[i]].priority = kind[q[j]].priority /\ i <= j
  <2>1. kind[q[i]].priority = p /\ p <= kind[q[j]].priority
    BY <1>3, <1>4
  <2>2. kind[q[j]].priority = p => i <= j
    BY <1>4
  <2> QED BY <1>2, <1>5, <2>1, <2>2
<1>7. Exporter!Victim(q, r) \in L
  BY <1>5, <1>6 DEF Exporter!Victim, L
<1> QED BY <1>1, <1>7

\* What is left of the queue after n evictions in favour of r.
Remains(q, n, r) ==
  /\ q \in Seq(Nat) /\ Len(q) = Len(waiting) - n /\ Rising(q)
  /\ Members(q) \subseteq Members(waiting)
  /\ \A x \in Members(waiting) \ Members(q) : kind[x].priority < kind[r].priority

LEMMA EvictionRemains ==
  ASSUME ExporterInv, NEW r, NEW n \in Nat, NEW q, Remains(q, n, r), Exporter!Lower(q, r) # {}
  PROVE  Remains(WithoutVictim(q, r), n + 1, r)
<1>1. q \in Seq(Nat) /\ Rising(q) /\ Members(q) \subseteq Members(waiting)
  BY DEF Remains
<1>2. Members(waiting) \subseteq 1 .. Offers
  BY HeldWereOffered
<1>3. PICK i : i = Exporter!Victim(q, r)
  OBVIOUS
<1>4. i \in 1 .. Len(q) /\ kind[q[i]].priority < kind[r].priority
  BY <1>1, <1>2, <1>3, VictimIsLower DEF ExporterInv
<1>5. PICK s : s = SubSeq(q, 1, i - 1) \o SubSeq(q, i + 1, Len(q))
  OBVIOUS
<1>6. /\ s \in Seq(Nat) /\ Len(s) = Len(q) - 1 /\ Rising(s)
      /\ Members(s) = Members(q) \ {q[i]}
  BY <1>1, <1>4, <1>5, RisingWithout
<1>7. WithoutVictim(q, r) = s
  BY <1>3, <1>5 DEF WithoutVictim, Exporter!Without
<1>8. Len(s) = Len(waiting) - (n + 1)
  <2>1. Len(q) = Len(waiting) - n /\ Len(waiting) \in Nat
    BY DEF Remains, ExporterInv, ExporterTypes
  <2> QED BY <1>6, <2>1
<1>9. \A x \in Members(waiting) \ Members(s) : kind[x].priority < kind[r].priority
  BY <1>4, <1>6 DEF Remains
<1> QED BY <1>1, <1>6, <1>7, <1>8, <1>9 DEF Remains

\* While the loop of enqueue goes on there is a victim, so it ends before the
\* queue is empty.
LEMMA QueueRemains ==
  ASSUME ExporterInv, NEW r, NEW m \in 0 .. Len(waiting), \A k \in 0 .. m - 1 : ~Exporter!Enough(r, k)
  PROVE  Remains(After(r)[m], m, r)
<1> DEFINE S == {n \in 0 .. m : Remains(After(r)[n], n, r)}
<1>1. Len(waiting) \in Nat /\ waiting \in Seq(Nat) /\ Rising(waiting)
  BY HeldWereOffered DEF ExporterInv, ExporterTypes
<1>2. 0 \in S
  <2>1. Remains(waiting, 0, r)
    BY <1>1 DEF Remains
  <2>2. 0 \in 0 .. m
    OBVIOUS
  <2> QED BY <1>1, <2>1, <2>2, AfterIs
<1>3. ASSUME NEW n \in 0 .. m - 1, n \in S PROVE n + 1 \in S
  <2>1. Remains(After(r)[n], n, r)
    BY <1>3
  <2>2. Exporter!Lower(After(r)[n], r) # {}
    BY EvictedIs DEF Exporter!Enough
  <2>3. n \in Nat /\ n \in 0 .. Len(waiting) - 1 /\ n + 1 \in 0 .. m
    BY <1>1
  <2>4. Remains(WithoutVictim(After(r)[n], r), n + 1, r)
    BY <2>1, <2>2, <2>3, EvictionRemains
  <2>5. After(r)[n + 1] = WithoutVictim(After(r)[n], r)
    BY <1>1, <2>3, AfterIs
  <2> QED BY <2>3, <2>4, <2>5
<1> HIDE DEF S
<1>4. m \in Nat
  BY <1>1
<1>5. 0 .. m \subseteq S
  BY <1>2, <1>3, <1>4, InductionTo
<1>6. m \in S
  BY <1>4, <1>5
<1> QED BY <1>6 DEF S

LEMMA EvictionsEnd ==
  ASSUME ExporterInv, NEW r
  PROVE  LET n == Exporter!Evictions(r)
             q == Exporter!Evicted(r, n)
         IN  /\ n \in 0 .. Len(waiting) /\ Remains(q, n, r)
             /\ Exporter!Full(q, r) => Exporter!Lower(q, r) = {}
<1> DEFINE S == {k \in 0 .. Len(waiting) : Exporter!Enough(r, k)}
<1>1. Len(waiting) \in Nat /\ Len(waiting) \in 0 .. Len(waiting)
  BY DEF ExporterInv, ExporterTypes
<1>2. S # {}
  <2> SUFFICES ASSUME S = {} PROVE FALSE
    OBVIOUS
  <2>1. \A k \in 0 .. Len(waiting) - 1 : k \in 0 .. Len(waiting)
    BY <1>1
  <2>2. Remains(After(r)[Len(waiting)], Len(waiting), r)
    BY <1>1, <2>1, QueueRemains
  <2>3. PICK q : q = After(r)[Len(waiting)]
    OBVIOUS
  <2>4. q \in Seq(Nat) /\ Len(q) = 0
    BY <1>1, <2>2, <2>3 DEF Remains
  <2>5. Exporter!Lower(q, r) = {}
    BY <2>4 DEF Exporter!Lower
  <2> QED BY <1>1, <2>3, <2>5, EvictedIs DEF Exporter!Enough
<1>3. PICK n \in S : \A k \in S : n <= k
  <2>1. S \in SUBSET Nat
    BY <1>1
  <2> HIDE DEF S
  <2> QED BY <1>2, <2>1, LeastOf
<1>4. ASSUME NEW k \in 0 .. n - 1 PROVE ~Exporter!Enough(r, k)
  <2>1. k \in 0 .. Len(waiting) /\ ~(n <= k)
    BY <1>1, <1>3
  <2> QED BY <1>3, <2>1
<1>5. PICK e : e = Exporter!Evictions(r)
  OBVIOUS
<1>6. /\ e \in 0 .. Len(waiting) /\ Exporter!Enough(r, e)
      /\ \A k \in 0 .. e - 1 : ~Exporter!Enough(r, k)
  BY <1>3, <1>4, <1>5 DEF Exporter!Evictions
<1>7. Remains(After(r)[e], e, r)
  BY <1>6, QueueRemains
<1>8. Exporter!Evicted(r, e) = After(r)[e]
  BY EvictedIs
<1>9. Exporter!Full(Exporter!Evicted(r, e), r) => Exporter!Lower(Exporter!Evicted(r, e), r) = {}
  BY <1>6 DEF Exporter!Enough
<1> QED BY <1>5, <1>6, <1>7, <1>8, <1>9

LEMMA EnqueueKeeps == ExporterInv /\ Exporter!Enqueue => ExporterInv'
<1> SUFFICES ASSUME ExporterInv, Exporter!Enqueue PROVE ExporterInv'
  OBVIOUS
<1>1. PICK r, q : r = enqueued + 1 /\ q = Exporter!Evicted(r, Exporter!Evictions(r))
  OBVIOUS
<1>2. /\ enqueued < Offers /\ enqueued' = r
      /\ displaced' = displaced \cup {<<v, r>> : v \in Exporter!Range(waiting) \ Exporter!Range(q)}
      /\ IF Exporter!Full(q, r)
         THEN waiting' = q /\ turnedAway' = turnedAway \cup {<<r, q>>}
         ELSE waiting' = Append(q, r) /\ turnedAway' = turnedAway
      /\ UNCHANGED <<kind, inflight, exported, pausing, failures>>
  BY <1>1 DEF Exporter!Enqueue
<1>3. /\ waiting \in Seq(Nat) /\ inflight \in Seq(Nat) /\ exported \in Seq(Nat)
      /\ kind \in [1 .. Offers -> Exporter!Kinds] /\ pausing \in BOOLEAN
      /\ enqueued \in Nat /\ Offers \in Nat /\ Len(waiting) \in Nat
  BY ExporterAssumption DEF ExporterInv, ExporterTypes
<1>4. r \in 1 .. Offers /\ r \in Nat /\ 1 .. r = (1 .. enqueued) \cup {r} /\ \A x \in 1 .. enqueued : x < r
  BY <1>1, <1>2, <1>3
<1>5. \E n \in 0 .. Len(waiting) : Remains(q, n, r)
  BY <1>1, EvictionsEnd
<1>6. /\ q \in Seq(Nat) /\ Rising(q) /\ Members(q) \subseteq Members(waiting)
      /\ \A x \in Members(waiting) \ Members(q) : kind[x].priority < kind[r].priority
      /\ Len(q) \in Nat /\ Len(q) <= Len(waiting)
  BY <1>3, <1>5 DEF Remains
<1>7. Exporter!Full(q, r) => Exporter!Lower(q, r) = {}
  BY <1>1, EvictionsEnd
<1>8. Exporter!Range(waiting) = Members(waiting) /\ Exporter!Range(q) = Members(q)
  BY <1>3, <1>6 DEF Exporter!Range, Members
<1>9. PICK P \in Seq(Nat) : P = exported \o inflight
  BY <1>3, ConcatProperties
<1>10. /\ Exporter!Kept = P \o waiting /\ Members(P \o waiting) = Members(P) \cup Members(waiting)
       /\ Rising(P) /\ \A x \in Members(P), y \in Members(waiting) : x < y
       /\ Members(P) \subseteq 1 .. enqueued /\ Members(waiting) \subseteq 1 .. enqueued
  <2>1. Exporter!Kept = P \o waiting
    BY <1>9 DEF Exporter!Kept
  <2>2. Rising(P \o waiting)
    BY <2>1 DEF ExporterInv
  <2> QED BY <1>3, <2>1, <2>2, MembersOfConcat, RisingConcat, HeldWereOffered
<1>11. Rising(P \o q) /\ Members(P \o q) = Members(P) \cup Members(q) /\ P \o q \in Seq(Nat)
  BY <1>6, <1>10, MembersOfConcat, RisingConcat
<1>12. Members(waiting) \subseteq 1 .. Offers /\ Members(q) \subseteq 1 .. Offers
       /\ Members(inflight) \subseteq 1 .. Offers
  BY <1>6, HeldWereOffered
<1>13. Reasons'
  <2>1. \A d \in displaced' : kind[d[1]].priority < kind[d[2]].priority
    BY <1>2, <1>6, <1>8 DEF ExporterInv, Reasons
  <2>2. ASSUME NEW t \in turnedAway' PROVE Exporter!Lower(t[2], t[1]) = {}
    <3>1. CASE t \in turnedAway
      BY <3>1 DEF ExporterInv, Reasons
    <3>2. CASE t \notin turnedAway
      <4>1. t = <<r, q>> /\ Exporter!Full(q, r)
        BY <1>2, <3>2
      <4>2. t[1] = r /\ t[2] = q
        BY <4>1
      <4> QED BY <1>7, <4>1, <4>2
    <3> QED BY <3>1, <3>2
  <2> QED BY <1>2, <2>1, <2>2 DEF Reasons, Exporter!Lower
<1>14. {d[1] : d \in displaced'} = {d[1] : d \in displaced} \cup (Members(waiting) \ Members(q))
  <2>1. displaced' = displaced \cup {<<v, r>> : v \in Members(waiting) \ Members(q)}
    BY <1>2, <1>8
  <2>2. ASSUME NEW v \in Members(waiting) \ Members(q) PROVE v \in {d[1] : d \in displaced'}
    <3>1. <<v, r>> \in displaced' /\ <<v, r>>[1] = v
      BY <2>1
    <3> QED BY <3>1
  <2>3. ASSUME NEW d \in displaced', d \notin displaced PROVE d[1] \in Members(waiting) \ Members(q)
    BY <2>1, <2>3
  <2> QED BY <2>1, <2>2, <2>3
<1>15. /\ Weight(kind, Members(q)) \in Nat /\ Weight(kind, Members(inflight)) \in Nat
       /\ Weight(kind, Members(waiting)) \in Nat
       /\ Weight(kind, Members(q)) <= Weight(kind, Members(waiting))
  BY <1>6, <1>12, Weights DEF ExporterInv
<1>16. CASE Exporter!Full(q, r)
  <2>1. waiting' = q /\ turnedAway' = turnedAway \cup {<<r, q>>}
    BY <1>2, <1>16
  <2>2. Exporter!Kept' = P \o q
    BY <1>2, <1>9, <2>1 DEF Exporter!Kept
  <2>3. {t[1] : t \in turnedAway'} = {t[1] : t \in turnedAway} \cup {r}
    <3>1. <<r, q>> \in turnedAway' /\ <<r, q>>[1] = r
      BY <2>1
    <3>2. \A t \in turnedAway' : t \in turnedAway \/ t[1] = r
      BY <2>1
    <3> QED BY <2>1, <3>1, <3>2
  <2>4. Accounted'
    <3>1. 1 .. enqueued' = Members(P \o q) \cup {d[1] : d \in displaced'} \cup {t[1] : t \in turnedAway'}
      BY <1>2, <1>4, <1>6, <1>10, <1>11, <1>14, <2>3 DEF ExporterInv, Accounted
    <3> QED BY <2>2, <3>1 DEF Accounted
  <2>5. Budget'
    <3>1. Len(q) + Len(inflight) <= RecordCapacity
      BY <1>3, <1>6, ExporterAssumption DEF ExporterInv, Budget
    <3>2. Weight(kind, Members(q)) + Weight(kind, Members(inflight)) <= ByteLimit
      BY <1>15, ExporterAssumption DEF ExporterInv, Budget
    <3> QED BY <1>2, <2>1, <3>1, <3>2 DEF Budget
  <2>6. ExporterTypes'
    BY <1>2, <1>3, <1>4, <1>6, <2>1 DEF ExporterTypes
  <2> QED BY <1>11, <1>13, <2>2, <2>4, <2>5, <2>6 DEF ExporterInv
<1>17. CASE ~Exporter!Full(q, r)
  <2>1. waiting' = Append(q, r) /\ turnedAway' = turnedAway
    BY <1>2, <1>17
  <2>2. Append(q, r) = q \o <<r>> /\ <<r>> \in Seq(Nat) /\ Append(q, r) \in Seq(Nat)
        /\ Len(Append(q, r)) = Len(q) + 1
    BY <1>4, <1>6, AppendIsConcat, AppendProperties
  <2>3. Members(<<r>>) = {r} /\ Rising(<<r>>)
    BY <1>4 DEF Members, Rising
  <2>4. Exporter!Kept' = (P \o q) \o <<r>>
    <3>1. P \o (q \o <<r>>) = (P \o q) \o <<r>>
      BY <1>6, <2>2, ConcatAssoc, Zenon
    <3> QED BY <1>2, <1>9, <2>1, <2>2, <3>1 DEF Exporter!Kept
  <2>5. Members((P \o q) \o <<r>>) = Members(P) \cup Members(q) \cup {r}
    <3>1. PICK u \in Seq(Nat), one \in Seq(Nat) : u = P \o q /\ one = <<r>>
      BY <1>11, <2>2
    <3>2. Members(u \o one) = Members(u) \cup Members(one)
      BY MembersOfConcat, Zenon
    <3> QED BY <1>11, <2>3, <3>1, <3>2
  <2>6. Rising((P \o q) \o <<r>>)
    <3>1. \A x \in Members(P \o q), y \in Members(<<r>>) : x < y
      BY <1>4, <1>6, <1>10, <1>11, <2>3
    <3> QED BY <1>11, <2>2, <2>3, <3>1, RisingConcat
  <2>7. Accounted'
    <3>1. 1 .. enqueued' = Members(P) \cup Members(q) \cup {r}
             \cup {d[1] : d \in displaced'} \cup {t[1] : t \in turnedAway'}
      BY <1>2, <1>4, <1>6, <1>10, <1>14, <2>1 DEF ExporterInv, Accounted
    <3> QED BY <2>4, <2>5, <3>1 DEF Accounted
  <2>8. Budget'
    <3>1. /\ ~(Len(q) + Len(inflight) >= RecordCapacity)
          /\ ~(Weight(kind, Members(q)) + Weight(kind, Members(inflight)) + kind[r].bytes > ByteLimit)
      BY <1>3, <1>6, <1>17, WeighsIt DEF Exporter!Full
    <3>2. Members(Append(q, r)) = Members(q) \cup {r}
      <4>1. PICK u \in Seq(Nat), one \in Seq(Nat) : u = q /\ one = <<r>>
        BY <1>6, <2>2
      <4>2. Members(u \o one) = Members(u) \cup Members(one)
        BY MembersOfConcat, Zenon
      <4> QED BY <2>2, <2>3, <4>1, <4>2
    <3>3. /\ Weight(kind, Members(q) \cup {r}) <= Weight(kind, Members(q)) + kind[r].bytes
          /\ Weight(kind, Members(q) \cup {r}) \in Nat
      <4>1. {r} \in SUBSET (1 .. Offers) /\ Members(q) \cup {r} \in SUBSET (1 .. Offers)
        BY <1>4, <1>12
      <4>2. Weight(kind, {r}) = kind[r].bytes
        BY <1>4, WeightOfOne DEF ExporterInv
      <4> QED BY <1>12, <4>1, <4>2, Weights DEF ExporterInv
    <3>4. kind[r].bytes \in Nat
      BY <1>3, <1>4 DEF Exporter!Kinds
    <3>5. Weight(kind, Members(q) \cup {r}) + Weight(kind, Members(inflight)) <= ByteLimit
      BY <1>15, <3>1, <3>3, <3>4, ExporterAssumption
    <3>6. (Len(q) + 1) + Len(inflight) <= RecordCapacity
      BY <1>3, <1>6, <3>1, ExporterAssumption
    <3> QED BY <1>2, <2>1, <2>2, <3>2, <3>5, <3>6 DEF Budget
  <2>9. ExporterTypes'
    BY <1>2, <1>3, <1>4, <2>1, <2>2 DEF ExporterTypes
  <2> QED BY <1>13, <2>4, <2>6, <2>7, <2>8, <2>9 DEF ExporterInv
<1> QED BY <1>16, <1>17

LEMMA ExporterStep == ExporterInv /\ [EdgesNext]_edges => ExporterInv'
<1> SUFFICES ASSUME ExporterInv, [EdgesNext]_edges PROVE ExporterInv'
  OBVIOUS
<1>1. Exporter!TNext \/ UNCHANGED exporter
  BY DEF EdgesNext, edges
<1>2. CASE UNCHANGED exporter \/ Exporter!PauseEnds
  <2>1. UNCHANGED <<kind, enqueued, displaced, turnedAway, waiting, inflight, exported>>
    BY <1>2 DEF exporter, Exporter!PauseEnds
  <2>2. pausing' \in BOOLEAN
    BY <1>2 DEF exporter, Exporter!PauseEnds, ExporterInv, ExporterTypes
  <2>3. Exporter!Kept' = Exporter!Kept /\ Budget'
    BY <2>1 DEF Exporter!Kept, ExporterInv, Budget
  <2> QED BY <2>1, <2>2, <2>3, FlushKeeps DEF ExporterInv, ExporterTypes
<1> QED
  BY <1>1, <1>2, EnqueueKeeps, BeginFlushKeeps, FlushSucceedsKeeps, FlushFailsKeeps DEF Exporter!TNext

\* Every record is exported in order, held, or dropped for a reason, and the
\* budget holds.
THEOREM ExportHolds == EdgesSpec => []ExportIsFaithful
<1>1. ExporterInv => ExportIsFaithful
  BY ExporterInvSays DEF ExportIsFaithful
<1> QED BY <1>1, ExporterInit, ExporterStep, PTL DEF EdgesSpec

-----------------------------------------------------------------------------
(***************************************************************************)
(* Submission.                                                             *)
(***************************************************************************)

Arrived(e) == \E i \in 1 .. Len(inbox) : inbox[i] = e

\* Everything published before e that the server may take has arrived.
Cleared(e) == \A x \in (1 .. e - 1) \ (refused \cup invalid) : Arrived(x)

ClientTypes ==
  /\ offered \in 0 .. NEvents /\ refused \subseteq 1 .. offered /\ stray \subseteq 1 .. offered
  /\ settled \in [Client!Events -> {"open", "published", "rejected"}]
  /\ unsent \in Seq(Nat) /\ Len(unsent) <= Capacity
  /\ inbox \in Seq(Nat) /\ Members(inbox) \subseteq 1 .. offered
  /\ backingOff \in BOOLEAN

\* Where the shared future stands.
FlushHolds ==
  /\ flush \in {"none", "unpolled", "ready", "waiting"}
  /\ reply \in {"none", "sent", "accepted", "rejected", "failed"}
  /\ flush = "waiting" <=> reply # "none"
  /\ attempt \in 0 .. MaxAttempts /\ left \in 0 .. Len(unsent)
  /\ flush \in {"ready", "waiting"} => left > 0 /\ attempt < MaxAttempts

\* An event leaves the queue only when it is settled.
QueueHolds ==
  /\ Rising(unsent) /\ Members(unsent) \subseteq 1 .. offered
  /\ \A e \in 1 .. offered : e \in refused \/ e \in Members(unsent) \/ settled[e] # "open"

SettledHolds == \A e \in Client!Events :
  /\ settled[e] = "published" => Arrived(e)
  /\ settled[e] = "rejected" => e \in invalid

ReplyHolds ==
  /\ reply = "accepted" => Arrived(Head(unsent))
  /\ reply = "rejected" => Head(unsent) \in invalid

\* A request nobody waits for any more comes too late to overtake anything.
StraysHold == \A e \in stray : Cleared(e)

ArrivalsHold == \A i \in 1 .. Len(inbox) :
  \A x \in (1 .. inbox[i] - 1) \ (refused \cup invalid) : \E j \in 1 .. i - 1 : inbox[j] = x

ClientInv ==
  ClientTypes /\ FlushHolds /\ QueueHolds /\ SettledHolds /\ ReplyHolds /\ StraysHold /\ ArrivalsHold

LEMMA ClientInvSays == ClientInv => Client!STypeOK /\ Client!DeliversInOrder
<1> SUFFICES ASSUME ClientInv PROVE Client!STypeOK /\ Client!DeliversInOrder
  OBVIOUS
<1>1. Client!STypeOK
  <2>1. 1 .. offered \subseteq Client!Events
    BY ClientAssumption DEF ClientInv, ClientTypes, Client!Events
  <2> QED BY <2>1 DEF ClientInv, ClientTypes, FlushHolds, Client!STypeOK
<1>2. inbox \in Seq(Nat) /\ DOMAIN inbox = 1 .. Len(inbox)
  BY DEF ClientInv, ClientTypes
<1>3. \A e : e \in Client!Range(inbox) <=> Arrived(e)
  BY DEF Client!Range, Arrived
<1>4. ASSUME NEW e, Arrived(e)
      PROVE  /\ Client!FirstArrival(e) \in 1 .. Len(inbox) /\ inbox[Client!FirstArrival(e)] = e
             /\ \A j \in 1 .. Client!FirstArrival(e) - 1 : inbox[j] # e
  <2> DEFINE S == {i \in 1 .. Len(inbox) : inbox[i] = e}
  <2>1. PICK i \in S : \A j \in S : i <= j
    <3>1. S # {}
      BY <1>4 DEF Arrived
    <3>2. 1 .. Len(inbox) \subseteq Nat
      BY <1>2
    <3>3. S \in SUBSET Nat
      BY <3>2
    <3> HIDE DEF S
    <3> QED BY <3>1, <3>3, LeastOf
  <2>2. ASSUME NEW j \in 1 .. i - 1 PROVE inbox[j] # e
    <3>1. j \in 1 .. Len(inbox) /\ ~(i <= j)
      BY <1>2, <2>1
    <3> QED BY <2>1, <3>1
  <2> QED BY <1>2, <2>1, <2>2 DEF Client!FirstArrival
<1>5. ASSUME NEW f \in Client!Range(inbox), NEW e \in (1 .. f - 1) \ (refused \cup invalid)
      PROVE  e \in Client!Range(inbox) /\ Client!FirstArrival(e) < Client!FirstArrival(f)
  <2>1. Arrived(f)
    BY <1>2, <1>5 DEF Client!Range, Arrived
  <2>2. PICK i : i = Client!FirstArrival(f)
    OBVIOUS
  <2>3. i \in 1 .. Len(inbox) /\ inbox[i] = f
    BY <1>4, <2>1, <2>2
  <2>4. PICK j \in 1 .. i - 1 : inbox[j] = e
    BY <1>5, <2>3 DEF ClientInv, ArrivalsHold
  <2>5. j \in 1 .. Len(inbox) /\ j < i
    BY <1>2, <2>3
  <2>6. Arrived(e)
    BY <2>4, <2>5 DEF Arrived
  <2>7. PICK k : k = Client!FirstArrival(e)
    OBVIOUS
  <2>8. k \in 1 .. Len(inbox) /\ \A l \in 1 .. k - 1 : inbox[l] # e
    BY <1>4, <2>6, <2>7
  <2>9. j \notin 1 .. k - 1
    BY <2>4, <2>8
  <2>10. k <= j
    BY <1>2, <2>5, <2>8, <2>9
  <2>11. k < i
    BY <1>2, <2>3, <2>5, <2>8, <2>10
  <2> QED BY <1>3, <2>2, <2>6, <2>7, <2>11
<1> QED BY <1>1, <1>3, <1>5 DEF ClientInv, SettledHolds, Client!DeliversInOrder

LEMMA ClientInit == EdgesInit => ClientInv
<1> SUFFICES ASSUME Client!SInit PROVE ClientInv
  BY DEF EdgesInit
<1>1. /\ offered = 0 /\ unsent = <<>> /\ refused = {} /\ stray = {} /\ inbox = <<>> /\ left = 0
      /\ settled = [e \in Client!Events |-> "open"] /\ flush = "none" /\ reply = "none"
      /\ attempt = 0 /\ backingOff = FALSE
  BY DEF Client!SInit
<1>2. Members(<<>>) = {} /\ Len(<<>>) = 0 /\ <<>> \in Seq(Nat)
  BY DEF Members
<1>3. ClientTypes
  <2>1. 0 \in 0 .. NEvents /\ 0 <= Capacity
    BY ClientAssumption
  <2> QED BY <1>1, <1>2, <2>1 DEF ClientTypes
<1>4. FlushHolds
  <2>1. 0 \in 0 .. MaxAttempts /\ 0 \in 0 .. 0
    BY ClientAssumption
  <2> QED BY <1>1, <1>2, <2>1 DEF FlushHolds
<1>5. QueueHolds /\ SettledHolds /\ ReplyHolds /\ StraysHold /\ ArrivalsHold
  BY <1>1, <1>2 DEF QueueHolds, SettledHolds, ReplyHolds, StraysHold, ArrivalsHold, Rising
<1> QED BY <1>3, <1>4, <1>5 DEF ClientInv

\* The head of the queue has nothing before it that is not settled.
LEMMA HeadIsCleared ==
  ASSUME ClientInv, unsent # <<>>
  PROVE  /\ Head(unsent) \in 1 .. offered /\ Head(unsent) \in Client!Events /\ Head(unsent) \in Members(unsent)
         /\ Cleared(Head(unsent))
<1>1. unsent \in Seq(Nat) /\ Len(unsent) \in Nat /\ Len(unsent) > 0 /\ Head(unsent) = unsent[1]
  BY DEF ClientInv, ClientTypes
<1>2. PICK h : h = unsent[1]
  OBVIOUS
<1>3. 1 \in 1 .. Len(unsent)
  BY <1>1
<1>4. h \in Members(unsent)
  BY <1>2, <1>3 DEF Members
<1>5. h \in 1 .. offered /\ h \in Client!Events
  BY <1>4, ClientAssumption DEF ClientInv, QueueHolds, ClientTypes, Client!Events
<1>6. ASSUME NEW x \in (1 .. h - 1) \ (refused \cup invalid) PROVE Arrived(x)
  <2>1. x \in 1 .. offered /\ x < h /\ x \in Client!Events
    BY <1>5, ClientAssumption DEF ClientInv, ClientTypes, Client!Events
  <2>2. x \notin Members(unsent)
    <3> SUFFICES ASSUME NEW i \in 1 .. Len(unsent), x = unsent[i] PROVE FALSE
      BY DEF Members
    <3>1. i = 1 \/ 1 < i
      BY <1>1
    <3>2. 1 < i => h < unsent[i]
      BY <1>2, <1>3 DEF ClientInv, QueueHolds, Rising
    <3> QED BY <1>2, <1>5, <2>1, <3>1, <3>2
  <2>3. settled[x] # "open"
    BY <2>1, <2>2 DEF ClientInv, QueueHolds
  <2>4. settled[x] \in {"open", "published", "rejected"}
    BY <2>1 DEF ClientInv, ClientTypes
  <2> QED BY <2>1, <2>3, <2>4 DEF ClientInv, SettledHolds
<1> QED BY <1>1, <1>2, <1>4, <1>5, <1>6 DEF Cleared

\* What arrives, and what is refused, changes nothing about what had arrived.
LEMMA ArrivalsStay ==
  ASSUME ClientInv, inbox' = inbox \/ \E e \in 1 .. offered : inbox' = Append(inbox, e) /\ Cleared(e),
         refused \subseteq refused', invalid' = invalid, offered' \in Nat, offered <= offered'
  PROVE  /\ inbox' \in Seq(Nat) /\ Members(inbox)' \subseteq 1 .. offered'
         /\ \A x : Arrived(x) => Arrived(x)'
         /\ \A x : Cleared(x) => Cleared(x)'
         /\ ArrivalsHold'
<1>1. inbox \in Seq(Nat) /\ Members(inbox) \subseteq 1 .. offered /\ offered \in Nat
  BY ClientAssumption DEF ClientInv, ClientTypes
<1>2. 1 .. offered \subseteq 1 .. offered' /\ 1 .. offered \subseteq Nat
  BY <1>1
<1>3. CASE inbox' = inbox
  <2>1. \A x : Arrived(x) => Arrived(x)'
    BY <1>3 DEF Arrived
  <2>2. \A x : Cleared(x) => Cleared(x)'
    BY <2>1 DEF Cleared
  <2>3. ArrivalsHold'
    BY <1>3 DEF ClientInv, ArrivalsHold
  <2>4. Members(inbox)' = Members(inbox)
    BY <1>3
  <2> QED BY <1>1, <1>2, <1>3, <2>1, <2>2, <2>3, <2>4
<1>4. ASSUME NEW e \in 1 .. offered, inbox' = Append(inbox, e), Cleared(e)
      PROVE  /\ inbox' \in Seq(Nat) /\ Members(inbox)' \subseteq 1 .. offered'
             /\ \A x : Arrived(x) => Arrived(x)'
             /\ \A x : Cleared(x) => Cleared(x)'
             /\ ArrivalsHold'
  <2>1. e \in Nat
    BY <1>2
  <2>2. /\ inbox' \in Seq(Nat) /\ Len(inbox') = Len(inbox) + 1 /\ inbox'[Len(inbox) + 1] = e
        /\ \A i \in 1 .. Len(inbox) : inbox'[i] = inbox[i]
    BY <1>1, <1>4, <2>1, AppendProperties
  <2>3. Len(inbox) \in Nat
    BY <1>1
  <2>4. ASSUME NEW i \in 1 .. Len(inbox') PROVE i \in 1 .. Len(inbox) \/ (i = Len(inbox) + 1 /\ inbox'[i] = e)
    BY <2>2, <2>3
  <2>5. Members(inbox)' \subseteq 1 .. offered'
    <3>1. ASSUME NEW i \in 1 .. Len(inbox') PROVE inbox'[i] \in 1 .. offered
      <4>1. CASE i \in 1 .. Len(inbox)
        BY <1>1, <2>2, <4>1 DEF Members
      <4> QED BY <2>4, <4>1
    <3> QED BY <1>2, <3>1 DEF Members
  <2>6. ASSUME NEW x, Arrived(x) PROVE Arrived(x)'
    <3>1. PICK i \in 1 .. Len(inbox) : inbox[i] = x
      BY <2>6 DEF Arrived
    <3>2. i \in 1 .. Len(inbox') /\ inbox'[i] = x
      BY <2>2, <2>3, <3>1
    <3> QED BY <3>2 DEF Arrived
  <2>7. \A x : Cleared(x) => Cleared(x)'
    BY <2>6 DEF Cleared
  <2>8. ASSUME NEW i \in 1 .. Len(inbox'), NEW x \in (1 .. inbox'[i] - 1) \ (refused' \cup invalid')
        PROVE  \E j \in 1 .. i - 1 : inbox'[j] = x
    <3>1. CASE i \in 1 .. Len(inbox)
      <4>1. inbox'[i] = inbox[i]
        BY <2>2, <3>1
      <4>2. PICK j \in 1 .. i - 1 : inbox[j] = x
        BY <2>8, <3>1, <4>1 DEF ClientInv, ArrivalsHold
      <4>3. j \in 1 .. Len(inbox)
        BY <2>3, <3>1
      <4> QED BY <2>2, <4>2, <4>3
    <3>2. CASE i = Len(inbox) + 1 /\ inbox'[i] = e
      <4>1. PICK j \in 1 .. Len(inbox) : inbox[j] = x
        BY <1>4, <2>8, <3>2 DEF Cleared, Arrived
      <4>2. j \in 1 .. i - 1
        BY <2>3, <3>2
      <4> QED BY <2>2, <4>1, <4>2
    <3> QED BY <2>4, <3>1, <3>2
  <2>9. ArrivalsHold'
    BY <2>8 DEF ArrivalsHold
  <2> QED BY <2>2, <2>5, <2>6, <2>7, <2>9
<1> QED BY <1>3, <1>4

\* The step of a part that leaves the queue, its events and the server alone.
LEMMA QuietKeeps ==
  ASSUME ClientInv, UNCHANGED <<offered, invalid, unsent, refused, settled, inbox>>,
         FlushHolds', ReplyHolds', StraysHold', stray' \subseteq 1 .. offered, backingOff' \in BOOLEAN
  PROVE  ClientInv'
<1>1. ClientTypes'
  BY DEF ClientInv, ClientTypes
<1>2. QueueHolds'
  BY DEF ClientInv, QueueHolds
<1>3. SettledHolds' /\ ArrivalsHold'
  BY DEF ClientInv, SettledHolds, ArrivalsHold, Arrived
<1> QED BY <1>1, <1>2, <1>3 DEF ClientInv

LEMMA StraysStay ==
  ASSUME ClientInv, UNCHANGED <<refused, invalid, inbox, stray>> PROVE StraysHold'
BY DEF ClientInv, StraysHold, Cleared, Arrived

LEMMA PublishKeeps == ClientInv /\ Client!Publish => ClientInv'
<1> SUFFICES ASSUME ClientInv, Client!Publish PROVE ClientInv'
  OBVIOUS
<1>1. /\ offered < NEvents /\ offered' = offered + 1
      /\ IF Len(unsent) >= Capacity
         THEN refused' = refused \cup {offered'} /\ unsent' = unsent
         ELSE unsent' = Append(unsent, offered') /\ refused' = refused
      /\ UNCHANGED <<invalid, settled, flush, left, attempt, reply, backingOff, stray, inbox, mishaps>>
  BY DEF Client!Publish, Client!round
<1>2. /\ offered \in Nat /\ offered' \in Nat /\ offered <= offered' /\ offered' \in 0 .. NEvents
      /\ unsent \in Seq(Nat) /\ Len(unsent) \in Nat /\ Rising(unsent)
      /\ Members(unsent) \subseteq 1 .. offered /\ stray \subseteq 1 .. offered /\ refused \subseteq 1 .. offered
      /\ 1 .. offered' = (1 .. offered) \cup {offered'} /\ offered' \in 1 .. offered'
      /\ Capacity \in Nat
  <2>1. /\ unsent \in Seq(Nat) /\ Rising(unsent) /\ Members(unsent) \subseteq 1 .. offered
        /\ stray \subseteq 1 .. offered /\ refused \subseteq 1 .. offered /\ offered \in 0 .. NEvents
    BY DEF ClientInv, ClientTypes, QueueHolds
  <2>2. /\ offered \in Nat /\ offered' \in Nat /\ offered <= offered' /\ offered' \in 0 .. NEvents
        /\ 1 .. offered' = (1 .. offered) \cup {offered'} /\ offered' \in 1 .. offered' /\ Capacity \in Nat
    BY <1>1, <2>1, ClientAssumption
  <2>3. Len(unsent) \in Nat
    BY <2>1
  <2> QED BY <2>1, <2>2, <2>3
<1>3. PICK e \in Nat : e = offered'
  BY <1>2
<1>4. /\ unsent' \in Seq(Nat) /\ Len(unsent') <= Capacity /\ Len(unsent) <= Len(unsent')
      /\ Rising(unsent') /\ Members(unsent) \subseteq Members(unsent')
      /\ Members(unsent') \subseteq (1 .. offered')
      /\ unsent # <<>> => Head(unsent') = Head(unsent)
      /\ e \in refused' \/ e \in Members(unsent')
      /\ refused \subseteq refused' /\ refused' \subseteq 1 .. offered'
  <2>1. CASE Len(unsent) >= Capacity
    <3>1. unsent' = unsent /\ refused' = refused \cup {offered'}
      BY <1>1, <2>1
    <3>2. Len(unsent) <= Capacity
      BY DEF ClientInv, ClientTypes
    <3>3. /\ Members(unsent') = Members(unsent) /\ Members(unsent') \subseteq 1 .. offered'
          /\ refused' \subseteq 1 .. offered' /\ e \in refused' /\ refused \subseteq refused'
      BY <1>2, <1>3, <3>1
    <3> QED BY <1>2, <3>1, <3>2, <3>3
  <2>2. CASE ~(Len(unsent) >= Capacity)
    <3>1. unsent' = Append(unsent, e) /\ refused' = refused
      BY <1>1, <1>3, <2>2
    <3>2. /\ Append(unsent, e) \in Seq(Nat) /\ Len(Append(unsent, e)) = Len(unsent) + 1
          /\ Members(Append(unsent, e)) = Members(unsent) \cup {e}
          /\ (\A x \in Members(unsent) : x < e) => Rising(Append(unsent, e))
      BY <1>2, AppendOne
    <3>3. \A x \in Members(unsent) : x < e
      BY <1>1, <1>2, <1>3
    <3>7. unsent # <<>> => Head(Append(unsent, e)) = Head(unsent)
      BY <1>2, HeadTailAppend
    <3>8. Len(unsent) + 1 <= Capacity
      BY <1>2, <2>2
    <3> QED BY <1>2, <1>3, <3>1, <3>2, <3>3, <3>7, <3>8
  <2> QED BY <2>1, <2>2
<1>5. /\ inbox' \in Seq(Nat) /\ Members(inbox)' \subseteq 1 .. offered'
      /\ \A x : Arrived(x) => Arrived(x)'
      /\ \A x : Cleared(x) => Cleared(x)'
      /\ ArrivalsHold'
  BY <1>1, <1>2, <1>4, ArrivalsStay
<1>6. ClientTypes'
  BY <1>1, <1>2, <1>4, <1>5 DEF ClientInv, ClientTypes
<1>7. FlushHolds'
  <2>1. Len(unsent') \in Nat /\ left \in 0 .. Len(unsent')
    BY <1>2, <1>4 DEF ClientInv, FlushHolds
  <2> QED BY <1>1, <2>1 DEF ClientInv, FlushHolds
<1>8. QueueHolds'
  <2>1. \A x \in 1 .. offered' : x \in refused' \/ x \in Members(unsent') \/ settled'[x] # "open"
    BY <1>1, <1>2, <1>3, <1>4 DEF ClientInv, QueueHolds
  <2> QED BY <1>4, <2>1 DEF QueueHolds
<1>9. SettledHolds'
  BY <1>1, <1>5 DEF ClientInv, SettledHolds
<1>10. ReplyHolds'
  <2>1. reply # "none" => unsent # <<>>
    BY <1>2 DEF ClientInv, FlushHolds
  <2>2. CASE reply = "none"
    BY <1>1, <2>2 DEF ReplyHolds
  <2>3. CASE reply # "none"
    <3>1. Head(unsent') = Head(unsent)
      BY <1>4, <2>1, <2>3
    <3>2. ReplyHolds
      BY DEF ClientInv
    <3> QED BY <1>1, <1>5, <3>1, <3>2 DEF ReplyHolds
  <2> QED BY <2>2, <2>3
<1>11. StraysHold'
  BY <1>1, <1>5 DEF ClientInv, StraysHold
<1> QED BY <1>5, <1>6, <1>7, <1>8, <1>9, <1>10, <1>11 DEF ClientInv

LEMMA PollKeeps == ClientInv /\ (Client!Flush \/ Client!Poll \/ Client!Send) => ClientInv'
<1> SUFFICES ASSUME ClientInv, Client!Flush \/ Client!Poll \/ Client!Send PROVE ClientInv'
  OBVIOUS
<1>1. /\ UNCHANGED <<offered, invalid, unsent, refused, settled, backingOff, stray, inbox>>
      /\ reply' \in {"none", "sent"}
  BY DEF Client!Flush, Client!Poll, Client!Send, ClientInv, FlushHolds
<1>2. Len(unsent) \in Nat /\ MaxAttempts \in Nat \ {0} /\ (unsent # <<>> => Len(unsent) > 0)
  BY ClientAssumption DEF ClientInv, ClientTypes
<1>3. FlushHolds'
  BY <1>1, <1>2 DEF ClientInv, FlushHolds, Client!Flush, Client!Poll, Client!Send
<1>4. ReplyHolds' /\ StraysHold'
  BY <1>1, StraysStay DEF ReplyHolds
<1> QED BY <1>1, <1>3, <1>4, QuietKeeps DEF ClientInv, ClientTypes

LEMMA ServeKeeps == ClientInv /\ Client!Serve => ClientInv'
<1> SUFFICES ASSUME ClientInv, Client!Serve PROVE ClientInv'
  OBVIOUS
<1>1. PICK e : e = Head(unsent)
  OBVIOUS
<1>2. /\ reply = "sent" /\ UNCHANGED <<offered, invalid, unsent, refused, settled, flush, left, attempt, backingOff, stray>>
      /\ \/ inbox' = Append(inbox, e) /\ reply' = "accepted"
         \/ e \in invalid /\ reply' = "rejected" /\ inbox' = inbox
         \/ reply' = "failed" /\ inbox' = inbox
  BY <1>1 DEF Client!Serve, Client!Valid
<1>3. unsent # <<>>
  BY <1>2 DEF ClientInv, FlushHolds, ClientTypes
<1>4. e \in 1 .. offered /\ Cleared(e)
  BY <1>1, <1>3, HeadIsCleared
<1>5. offered \in Nat
  BY DEF ClientInv, ClientTypes
<1>6. /\ inbox' \in Seq(Nat) /\ Members(inbox)' \subseteq 1 .. offered'
      /\ \A x : Arrived(x) => Arrived(x)'
      /\ \A x : Cleared(x) => Cleared(x)'
      /\ ArrivalsHold'
  BY <1>2, <1>4, <1>5, ArrivalsStay
<1>7. reply' = "accepted" => Arrived(e)'
  <2> SUFFICES ASSUME inbox' = Append(inbox, e) PROVE Arrived(e)'
    BY <1>2
  <2>1. e \in Nat /\ inbox \in Seq(Nat) /\ Len(inbox) \in Nat
    BY <1>4, <1>5 DEF ClientInv, ClientTypes
  <2>2. inbox'[Len(inbox) + 1] = e /\ Len(inbox) + 1 \in 1 .. Len(inbox')
    BY <2>1, AppendProperties
  <2> QED BY <2>2 DEF Arrived
<1>8. ClientTypes' /\ FlushHolds' /\ QueueHolds'
  <2>1. ClientTypes'
    BY <1>2, <1>6 DEF ClientInv, ClientTypes
  <2>2. FlushHolds'
    BY <1>2 DEF ClientInv, FlushHolds
  <2>3. QueueHolds'
    BY <1>2 DEF ClientInv, QueueHolds
  <2> QED BY <2>1, <2>2, <2>3
<1>9. SettledHolds' /\ StraysHold'
  BY <1>2, <1>6 DEF ClientInv, SettledHolds, StraysHold
<1>10. ReplyHolds'
  BY <1>1, <1>2, <1>7 DEF ReplyHolds
<1> QED BY <1>6, <1>8, <1>9, <1>10 DEF ClientInv

\* The head of the queue is settled for what it came to.
LEMMA SettleKeeps ==
  ASSUME ClientInv, reply # "none", NEW how \in {"published", "rejected"}, Client!Settle(how),
         how = "published" => Arrived(Head(unsent)), how = "rejected" => Head(unsent) \in invalid,
         reply' = "none", backingOff' \in BOOLEAN, UNCHANGED <<offered, invalid, refused, stray, inbox>>
  PROVE  ClientInv'
<1>1. PICK e : e = Head(unsent)
  OBVIOUS
<1>2. /\ settled' = [settled EXCEPT ![e] = how] /\ unsent' = Tail(unsent)
      /\ left' = left - 1 /\ attempt' = 0 /\ flush' = IF left > 1 THEN "ready" ELSE "none"
  BY <1>1 DEF Client!Settle
<1>3. /\ unsent \in Seq(Nat) /\ Len(unsent) \in Nat /\ left \in 1 .. Len(unsent) /\ unsent # <<>>
      /\ MaxAttempts \in Nat \ {0} /\ Capacity \in Nat
  BY ClientAssumption DEF ClientInv, ClientTypes, FlushHolds
<1>4. e \in 1 .. offered /\ e \in Client!Events
  BY <1>1, <1>3, HeadIsCleared
<1>5. /\ unsent' \in Seq(Nat) /\ Len(unsent') = Len(unsent) - 1
      /\ Rising(unsent') /\ Members(unsent') = Members(unsent) \ {e}
  <2>1. 1 \in 1 .. Len(unsent) /\ e = unsent[1]
    BY <1>1, <1>3
  <2>2. PICK s : s = SubSeq(unsent, 1, 1 - 1) \o SubSeq(unsent, 1 + 1, Len(unsent))
    OBVIOUS
  <2>3. /\ s \in Seq(Nat) /\ Len(s) = Len(unsent) - 1 /\ Rising(s)
        /\ Members(s) = Members(unsent) \ {e}
    BY <1>3, <2>1, <2>2, RisingWithout DEF ClientInv, QueueHolds
  <2>4. s = Tail(unsent)
    BY <1>3, <2>2
  <2> QED BY <1>2, <2>3, <2>4
<1>6. ClientTypes'
  <2>1. settled' \in [Client!Events -> {"open", "published", "rejected"}]
    BY <1>2, <1>4 DEF ClientInv, ClientTypes
  <2>2. Len(unsent') <= Capacity
    BY <1>3, <1>5 DEF ClientInv, ClientTypes
  <2> QED BY <1>5, <2>1, <2>2 DEF ClientInv, ClientTypes
<1>7. FlushHolds'
  BY <1>2, <1>3, <1>5 DEF FlushHolds
<1>8. QueueHolds'
  <2>1. \A x \in 1 .. offered : x \in refused \/ x \in Members(unsent') \/ settled'[x] # "open"
    <3> TAKE x \in 1 .. offered
    <3>1. x \in Client!Events
      BY ClientAssumption DEF ClientInv, ClientTypes, Client!Events
    <3>2. x = e => settled'[x] = how
      BY <1>2, <1>4 DEF ClientInv, ClientTypes
    <3>3. x # e => settled'[x] = settled[x]
      BY <1>2, <3>1 DEF ClientInv, ClientTypes
    <3> QED BY <1>5, <3>2, <3>3 DEF ClientInv, QueueHolds
  <2> QED BY <1>5, <2>1 DEF ClientInv, QueueHolds
<1>9. SettledHolds'
  <2> SUFFICES ASSUME NEW x \in Client!Events
               PROVE  /\ settled'[x] = "published" => Arrived(x)
                      /\ settled'[x] = "rejected" => x \in invalid
    BY DEF SettledHolds, Arrived
  <2>1. x = e => settled'[x] = how
    BY <1>2, <1>4 DEF ClientInv, ClientTypes
  <2>2. x # e => settled'[x] = settled[x]
    BY <1>2 DEF ClientInv, ClientTypes
  <2> QED BY <1>1, <2>1, <2>2 DEF ClientInv, SettledHolds
<1>10. ReplyHolds' /\ StraysHold' /\ ArrivalsHold'
  <2>1. StraysHold' /\ ReplyHolds'
    BY StraysStay DEF ReplyHolds
  <2>2. ArrivalsHold'
    BY DEF ClientInv, ArrivalsHold
  <2> QED BY <2>1, <2>2
<1> QED BY <1>6, <1>7, <1>8, <1>9, <1>10 DEF ClientInv

LEMMA RetryHolds ==
  ASSUME ClientInv, flush = "waiting", Client!Retry, reply' = "none" PROVE FlushHolds'
<1>1. /\ attempt' = attempt + 1 /\ UNCHANGED <<unsent, settled>>
      /\ IF attempt' < MaxAttempts THEN flush' = "ready" /\ left' = left
         ELSE flush' = "none" /\ left' = 0
  BY DEF Client!Retry
<1>2. attempt \in Nat /\ attempt < MaxAttempts /\ MaxAttempts \in Nat /\ left \in 0 .. Len(unsent) /\ left > 0
  BY ClientAssumption DEF ClientInv, FlushHolds
<1>3. 0 \in 0 .. Len(unsent)
  BY DEF ClientInv, ClientTypes
<1> QED BY <1>1, <1>2, <1>3 DEF FlushHolds

LEMMA RetryTypes ==
  ASSUME ClientInv, Client!Retry PROVE backingOff' \in BOOLEAN /\ UNCHANGED <<unsent, settled>>
BY DEF ClientInv, ClientTypes, Client!Retry

LEMMA ReceiveKeeps == ClientInv /\ Client!Receive => ClientInv'
<1> SUFFICES ASSUME ClientInv, Client!Receive PROVE ClientInv'
  OBVIOUS
<1>1. /\ flush = "waiting" /\ reply \in {"accepted", "rejected", "failed"} /\ reply' = "none"
      /\ UNCHANGED <<offered, invalid, refused, stray, inbox>>
  BY DEF Client!Receive
<1>2. CASE reply = "accepted" /\ Client!Settle("published") /\ backingOff' = FALSE
  BY <1>1, <1>2, SettleKeeps DEF ClientInv, ReplyHolds
<1>3. CASE reply = "rejected" /\ Client!Settle("rejected") /\ UNCHANGED backingOff
  <2>1. backingOff' \in BOOLEAN /\ Head(unsent) \in invalid
    BY <1>3 DEF ClientInv, ClientTypes, ReplyHolds
  <2> QED BY <1>1, <1>3, <2>1, SettleKeeps
<1>4. CASE Client!Retry
  <2>1. FlushHolds' /\ StraysHold' /\ ReplyHolds'
    BY <1>1, <1>4, RetryHolds, StraysStay DEF ReplyHolds
  <2> QED BY <1>1, <1>4, <2>1, RetryTypes, QuietKeeps DEF ClientInv, ClientTypes
<1> QED BY <1>2, <1>3, <1>4 DEF Client!Receive

LEMMA AbandonHolds ==
  ASSUME ClientInv, flush = "waiting", Client!Abandon, UNCHANGED <<refused, invalid, inbox>>
  PROVE  StraysHold' /\ stray' \subseteq 1 .. offered
<1>1. unsent # <<>>
  BY DEF ClientInv, ClientTypes, FlushHolds
<1>2. \A x : Cleared(x)' <=> Cleared(x)
  BY DEF Cleared, Arrived
<1>3. stray' \subseteq stray \cup {Head(unsent)}
  BY DEF Client!Abandon
<1> QED BY <1>1, <1>2, <1>3, HeadIsCleared DEF ClientInv, ClientTypes, StraysHold

LEMMA TimeoutKeeps == ClientInv /\ (Client!Timeout \/ Client!CancelFlush) => ClientInv'
<1> SUFFICES ASSUME ClientInv, Client!Timeout \/ Client!CancelFlush PROVE ClientInv'
  OBVIOUS
<1>1. CASE Client!Timeout
  <2>1. /\ flush = "waiting" /\ reply' = "none" /\ Client!Abandon /\ Client!Retry
        /\ UNCHANGED <<offered, invalid, refused, inbox>>
    BY <1>1 DEF Client!Timeout
  <2>2. FlushHolds' /\ StraysHold' /\ ReplyHolds' /\ stray' \subseteq 1 .. offered
    BY <2>1, RetryHolds, AbandonHolds DEF ReplyHolds
  <2> QED BY <2>1, <2>2, RetryTypes, QuietKeeps
<1>2. CASE Client!CancelFlush
  <2>1. /\ flush' = "none" /\ left' = 0 /\ attempt' = 0 /\ reply' = "none"
        /\ UNCHANGED <<offered, invalid, unsent, refused, settled, backingOff, inbox>>
        /\ IF flush = "waiting" THEN Client!Abandon ELSE stray' = stray
    BY <1>2 DEF Client!CancelFlush
  <2>2. 0 \in 0 .. Len(unsent) /\ 0 \in 0 .. MaxAttempts
    BY ClientAssumption DEF ClientInv, ClientTypes
  <2>3. FlushHolds' /\ ReplyHolds'
    BY <2>1, <2>2 DEF FlushHolds, ReplyHolds
  <2>4. StraysHold' /\ stray' \subseteq 1 .. offered
    BY <2>1, AbandonHolds, StraysStay DEF ClientInv, ClientTypes
  <2> QED BY <2>1, <2>3, <2>4, QuietKeeps DEF ClientInv, ClientTypes
<1> QED BY <1>1, <1>2

LEMMA StrayLandsKeeps == ClientInv /\ Client!StrayLands => ClientInv'
<1> SUFFICES ASSUME ClientInv, Client!StrayLands PROVE ClientInv'
  OBVIOUS
<1>1. PICK e \in stray : /\ stray' = stray \ {e}
                         /\ inbox' = inbox \/ inbox' = Append(inbox, e)
  BY DEF Client!StrayLands
<1>2. UNCHANGED <<offered, invalid, unsent, refused, settled, flush, left, attempt, reply, backingOff>>
  BY DEF Client!StrayLands
<1>3. e \in 1 .. offered /\ Cleared(e) /\ offered \in Nat
  BY DEF ClientInv, ClientTypes, StraysHold
<1>4. /\ inbox' \in Seq(Nat) /\ Members(inbox)' \subseteq 1 .. offered'
      /\ \A x : Arrived(x) => Arrived(x)'
      /\ \A x : Cleared(x) => Cleared(x)'
      /\ ArrivalsHold'
  BY <1>1, <1>2, <1>3, ArrivalsStay
<1>5. ClientTypes'
  BY <1>1, <1>2, <1>4 DEF ClientInv, ClientTypes
<1>6. FlushHolds' /\ QueueHolds'
  <2>1. FlushHolds'
    BY <1>2 DEF ClientInv, FlushHolds
  <2>2. QueueHolds'
    BY <1>2 DEF ClientInv, QueueHolds
  <2> QED BY <2>1, <2>2
<1>7. SettledHolds' /\ StraysHold'
  BY <1>1, <1>2, <1>4 DEF ClientInv, SettledHolds, StraysHold
<1>8. ReplyHolds'
  BY <1>2, <1>4 DEF ClientInv, ReplyHolds
<1> QED BY <1>4, <1>5, <1>6, <1>7, <1>8 DEF ClientInv

LEMMA ClientStep == ClientInv /\ [EdgesNext]_edges => ClientInv'
<1> SUFFICES ASSUME ClientInv, [EdgesNext]_edges PROVE ClientInv'
  OBVIOUS
<1>1. Client!SNext \/ UNCHANGED client
  BY DEF EdgesNext, edges
<1>2. CASE UNCHANGED client \/ Client!BackoffEnds
  <2>1. UNCHANGED <<offered, invalid, unsent, refused, settled, flush, left, attempt, reply, stray, inbox>>
    BY <1>2 DEF client, Client!BackoffEnds
  <2>2. backingOff' \in BOOLEAN
    BY <1>2 DEF client, Client!BackoffEnds, ClientInv, ClientTypes
  <2>3. FlushHolds'
    BY <2>1 DEF ClientInv, FlushHolds
  <2>4. ReplyHolds' /\ StraysHold'
    BY <2>1, StraysStay DEF ClientInv, ReplyHolds, Arrived
  <2> QED BY <2>1, <2>2, <2>3, <2>4, QuietKeeps DEF ClientInv, ClientTypes
<1> QED
  BY <1>1, <1>2, PublishKeeps, PollKeeps, ServeKeeps, ReceiveKeeps, TimeoutKeeps, StrayLandsKeeps
     DEF Client!SNext

\* What the client lets go of is on the server or refused for good, and events
\* first arrive in the order they were published.
THEOREM DeliveryHolds == EdgesSpec => []DeliversInOrder
<1>1. ClientInv => DeliversInOrder
  BY ClientInvSays DEF DeliversInOrder
<1> QED BY <1>1, ClientInit, ClientStep, PTL DEF EdgesSpec

-----------------------------------------------------------------------------
(***************************************************************************)
(* MonitorEvaluation.                                                      *)
(***************************************************************************)

\* What a set of samples says of a data centre, and of a verdict.
SeenIn(samples, c, at) == {x \in samples : x.colo = c /\ x.at <= at /\ x.at + Window >= at}

EarnedBy(samples, q, at) == Cardinality(
  {c \in UNION {Colos[s] : s \in Sites} :
     /\ Cardinality(SeenIn(samples, c, at)) >= MinSamples
     /\ \E x \in SeenIn(samples, c, at) : x.at + Stale >= at}) >= q

LEMMA EarnedIs == \A at : Evaluation!Earned(at) <=> EarnedBy(taken, quorum, at)
<1>1. ASSUME NEW S PROVE Evaluation!Cardinality(S) = Cardinality(S)
  BY DEF Evaluation!Cardinality, Cardinality
<1>2. ASSUME NEW c, NEW at PROVE Evaluation!Seen(c, at) = SeenIn(taken, c, at)
  BY DEF Evaluation!Seen, SeenIn
<1> QED BY <1>1, <1>2 DEF Evaluation!Earned, EarnedBy, Evaluation!Holds

LEMMA GreatestOf ==
  ASSUME NEW S \in SUBSET Nat, S # {}, NEW m \in Nat, \A x \in S : x <= m
  PROVE  Evaluation!Max(S) \in S /\ \A x \in S : x <= Evaluation!Max(S)
<1> DEFINE U == {n \in Nat : \A x \in S : x <= n}
<1>1. PICK u \in U : \A n \in U : u <= n
  BY LeastOf
<1>2. u \in S
  <2> SUFFICES ASSUME u \notin S PROVE FALSE
    OBVIOUS
  <2>1. \A x \in S : x <= u - 1
    BY <1>1
  <2>2. u - 1 \in Nat
    <3>1. PICK x \in S : x <= u /\ x # u /\ x \in Nat
      BY <1>1
    <3> QED BY <3>1
  <2> QED BY <1>1, <2>1, <2>2
<1>3. \E g \in S : \A x \in S : g >= x
  BY <1>1, <1>2
<1>4. Evaluation!Max(S) \in S /\ \A x \in S : Evaluation!Max(S) >= x
  BY <1>3 DEF Evaluation!Max
<1> QED BY <1>4

LEMMA LeastIs ==
  ASSUME NEW S \in SUBSET Nat, S # {}
  PROVE  Evaluation!Min(S) \in S /\ \A x \in S : Evaluation!Min(S) <= x
BY LeastOf DEF Evaluation!Min

LEMMA NextRunFollows ==
  ASSUME NEW prior \in Nat, NEW at \in Nat
  PROVE  LET next == Evaluation!NextRun(prior, at)
         IN  /\ next \in Nat /\ next > at /\ next > prior
             /\ at >= prior => next <= at + Interval
             /\ (\E n \in Nat : prior = n * Interval) => \E n \in Nat : next = n * Interval
<1> DEFINE past == IF at > prior THEN at - prior ELSE 0
           steps == past \div Interval
<1>1. past \in Nat /\ Interval \in Nat /\ Interval > 0
  BY EvaluationAssumption
<1>2. /\ steps \in Nat /\ steps * Interval \in Nat
      /\ steps * Interval <= past /\ past < steps * Interval + Interval
  <2> HIDE DEF past
  <2> QED BY <1>1
<1>3. (steps + 1) * Interval = steps * Interval + Interval
  <2> HIDE DEF steps
  <2> QED BY <1>1, <1>2
<1>4. Evaluation!NextRun(prior, at) = prior + (steps * Interval + Interval)
  BY <1>3 DEF Evaluation!NextRun
<1>5. ASSUME NEW n \in Nat, prior = n * Interval
      PROVE  prior + (steps * Interval + Interval) = (n + (steps + 1)) * Interval
  <2> HIDE DEF steps
  <2> QED BY <1>1, <1>2, <1>5
<1>6. \A n \in Nat : n + (steps + 1) \in Nat
  BY <1>2
<1> HIDE DEF steps
<1>7. PICK p \in Nat : p = steps * Interval
  BY <1>2
<1>8. /\ Evaluation!NextRun(prior, at) = prior + (p + Interval)
      /\ p <= past /\ past < p + Interval
  BY <1>2, <1>4, <1>7
<1>9. /\ prior + (p + Interval) \in Nat /\ prior + (p + Interval) > at
      /\ prior + (p + Interval) > prior
      /\ at >= prior => prior + (p + Interval) <= at + Interval
  BY <1>1, <1>8
<1>10. (\E n \in Nat : prior = n * Interval) =>
          \E n \in Nat : prior + (p + Interval) = n * Interval
  BY <1>5, <1>6, <1>7
<1> QED BY <1>8, <1>9, <1>10

-----------------------------------------------------------------------------
States == {"unknown", "healthy", "failing"}

\* The samples a window counts were taken, the last of them at its end.
Counts(samples, s, w) ==
  {x \in samples : x.site = s /\ x.colo = w.colo /\ w.started <= x.at /\ x.at <= w.last}

WindowCounts(samples, s, w) ==
  /\ w.colo \in Colos[s] /\ w.started \in Nat /\ w.last \in Nat /\ w.started <= w.last
  /\ w.samples \in Nat \ {0} /\ w.bad \in Nat /\ w.bad <= w.samples
  /\ w.samples <= Cardinality(Counts(samples, s, w))
  /\ [site |-> s, at |-> w.last, colo |-> w.colo] \in samples

SamplesHold(samples) ==
  /\ IsFiniteSet(samples)
  /\ \A x \in samples : x.site \in Sites /\ x.colo \in Colos[x.site] /\ x.at \in Nat

\* Earlier than any answer of the next run.
Over(at, next) == at \in Nat /\ \E b \in Cron : b < next /\ at <= b

VerdictHolds(samples, q, v) ==
  /\ v.state \in States /\ v.at \in Nat /\ v.until \in Nat
  /\ v.at <= v.until /\ v.until <= v.at + Stale
  /\ v.state # "unknown" => EarnedBy(samples, q, v.at)

LEMMA FiniteCounts ==
  ASSUME NEW samples, IsFiniteSet(samples), NEW S \in SUBSET samples
  PROVE  IsFiniteSet(S) /\ Cardinality(S) \in Nat
BY FS_Subset, FS_CardinalityType

\* More samples only add.
LEMMA WindowLasts ==
  ASSUME NEW samples, NEW more, IsFiniteSet(more), samples \subseteq more, NEW s, NEW w,
         WindowCounts(samples, s, w)
  PROVE  WindowCounts(more, s, w)
<1>1. /\ Counts(samples, s, w) \subseteq Counts(more, s, w) /\ Counts(more, s, w) \subseteq more
  BY DEF Counts
<1>2. IsFiniteSet(Counts(more, s, w)) /\ Cardinality(Counts(more, s, w)) \in Nat
  BY <1>1, FiniteCounts
<1>3. /\ Cardinality(Counts(samples, s, w)) <= Cardinality(Counts(more, s, w))
      /\ Cardinality(Counts(samples, s, w)) \in Nat
  BY <1>1, <1>2, FS_Subset, FS_CardinalityType
<1> QED BY <1>2, <1>3 DEF WindowCounts

\* The data centres that have earned a verdict are those of samples.
LEMMA FiniteColos ==
  ASSUME NEW samples, IsFiniteSet(samples), NEW C,
         \A c \in C : \E x \in samples : x.colo = c
  PROVE  IsFiniteSet(C)
<1> DEFINE T == {x \in samples : x.colo \in C}
           f == [x \in T |-> x.colo]
<1>1. IsFiniteSet(T)
  BY FS_Subset
<1>2. f \in Surjection(T, C)
  BY DEF Surjection
<1> QED BY <1>1, <1>2, FS_Surjection

LEMMA EarnedLasts ==
  ASSUME NEW samples, NEW more, IsFiniteSet(more), samples \subseteq more,
         NEW q \in Nat, NEW at, EarnedBy(samples, q, at)
  PROVE  EarnedBy(more, q, at)
<1> DEFINE Good(of) == {c \in UNION {Colos[s] : s \in Sites} :
                          /\ Cardinality(SeenIn(of, c, at)) >= MinSamples
                          /\ \E x \in SeenIn(of, c, at) : x.at + Stale >= at}
<1>1. ASSUME NEW c \in Good(samples) PROVE c \in Good(more)
  <2>1. SeenIn(samples, c, at) \subseteq SeenIn(more, c, at) /\ SeenIn(more, c, at) \subseteq more
    BY DEF SeenIn
  <2>2. IsFiniteSet(SeenIn(more, c, at)) /\ Cardinality(SeenIn(more, c, at)) \in Nat
    BY <2>1, FiniteCounts
  <2>3. /\ Cardinality(SeenIn(samples, c, at)) <= Cardinality(SeenIn(more, c, at))
        /\ Cardinality(SeenIn(samples, c, at)) \in Nat
    BY <2>1, <2>2, FS_Subset, FS_CardinalityType
  <2>4. Cardinality(SeenIn(more, c, at)) >= MinSamples
    BY <2>2, <2>3, EvaluationAssumption
  <2> QED BY <2>1, <2>4
<1>2. IsFiniteSet(Good(more))
  <2>1. \A c \in Good(more) : \E x \in more : x.colo = c
    BY DEF SeenIn
  <2> HIDE DEF Good
  <2> QED BY <2>1, FiniteColos
<1>3. Cardinality(Good(samples)) >= q
  BY DEF EarnedBy
<1> HIDE DEF Good
<1>4. Good(samples) \subseteq Good(more)
  BY <1>1
<1>5. /\ Cardinality(Good(samples)) <= Cardinality(Good(more))
      /\ Cardinality(Good(samples)) \in Nat /\ Cardinality(Good(more)) \in Nat
  BY <1>2, <1>4, FS_Subset, FS_CardinalityType
<1>6. Cardinality(Good(more)) >= q
  BY <1>3, <1>5
<1> QED BY <1>6 DEF EarnedBy, Good

\* Distinct data centres, each sampled often and lately enough, earn a verdict.
LEMMA VotesEarn ==
  ASSUME NEW samples, SamplesHold(samples), NEW at \in Nat, NEW q \in Nat,
         NEW votes, NEW E \in SUBSET Sites,
         \A s \in E : /\ WindowCounts(samples, s, votes[s])
                      /\ votes[s].last <= at /\ at - votes[s].last <= Stale
                      /\ at - votes[s].started <= Window /\ votes[s].samples >= MinSamples,
         \A s, t \in E : votes[s].colo = votes[t].colo => s = t,
         Cardinality(E) >= q
  PROVE  EarnedBy(samples, q, at)
<1> DEFINE Good == {c \in UNION {Colos[s] : s \in Sites} :
                      /\ Cardinality(SeenIn(samples, c, at)) >= MinSamples
                      /\ \E x \in SeenIn(samples, c, at) : x.at + Stale >= at}
<1>1. ASSUME NEW s \in E PROVE votes[s].colo \in Good
  <2> DEFINE w == votes[s]
             S == SeenIn(samples, w.colo, at)
             last == [site |-> s, at |-> w.last, colo |-> w.colo]
  <2>1. /\ w.colo \in Colos[s] /\ w.started \in Nat /\ w.last \in Nat /\ w.samples \in Nat
        /\ w.samples <= Cardinality(Counts(samples, s, w)) /\ last \in samples
        /\ w.last <= at /\ at - w.last <= Stale /\ at - w.started <= Window
        /\ w.samples >= MinSamples /\ w.started <= w.last
    BY DEF WindowCounts
  <2>2. /\ Window \in Nat /\ Stale \in Nat /\ MinSamples \in Nat
    BY EvaluationAssumption
  <2>3. Counts(samples, s, w) \subseteq S /\ S \subseteq samples
    <3>1. ASSUME NEW x \in Counts(samples, s, w) PROVE x \in S
      <4>1. x \in samples /\ x.colo = w.colo /\ w.started <= x.at /\ x.at <= w.last /\ x.at \in Nat
        BY DEF Counts, SamplesHold
      <4>2. x.at <= at /\ x.at + Window >= at
        BY <2>1, <2>2, <4>1
      <4> QED BY <4>1, <4>2 DEF SeenIn
    <3> QED BY <3>1 DEF SeenIn
  <2>4. IsFiniteSet(S) /\ Cardinality(S) \in Nat
    BY <2>3, FiniteCounts DEF SamplesHold
  <2>5. Cardinality(Counts(samples, s, w)) <= Cardinality(S) /\ Cardinality(Counts(samples, s, w)) \in Nat
    BY <2>3, <2>4, FS_Subset, FS_CardinalityType
  <2>6. Cardinality(S) >= MinSamples
    BY <2>1, <2>2, <2>4, <2>5
  <2>7. last \in S /\ last.at + Stale >= at
    <3>1. last.at = w.last /\ last.colo = w.colo
      OBVIOUS
    <3>2. last.at <= at /\ last.at + Window >= at /\ last.at + Stale >= at
      BY <2>1, <2>2, <3>1
    <3> QED BY <2>1, <3>1, <3>2 DEF SeenIn
  <2>8. w.colo \in UNION {Colos[t] : t \in Sites}
    BY <2>1
  <2> QED BY <2>6, <2>7, <2>8
<1>2. IsFiniteSet(Good)
  <2>1. \A c \in Good : \E x \in samples : x.colo = c
    BY DEF SeenIn
  <2> HIDE DEF Good
  <2> QED BY <2>1, FiniteColos DEF SamplesHold
<1>3. Cardinality(E) <= Cardinality(Good)
  <2> HIDE DEF Good
  <2> DEFINE f == [s \in E |-> votes[s].colo]
  <2>1. f \in Injection(E, Good)
    <3>1. f \in [E -> Good]
      BY <1>1
    <3>2. \A a, b \in E : f[a] = f[b] => a = b
      OBVIOUS
    <3> HIDE DEF f
    <3> QED BY <3>1, <3>2 DEF Injection, IsInjective
  <2> QED BY <1>2, <2>1, FS_Injection
<1>4. Cardinality(E) \in Nat /\ Cardinality(Good) \in Nat
  <2>1. IsFiniteSet(E)
    BY EvaluationAssumption, FS_Subset
  <2> QED BY <1>2, <2>1, FS_CardinalityType
<1> HIDE DEF Good
<1>5. Cardinality(Good) >= q
  BY <1>3, <1>4
<1> QED BY <1>5 DEF EarnedBy, Good

-----------------------------------------------------------------------------
EvalTypes ==
  /\ now \in 0 .. Horizon /\ quorum \in Quorums /\ edits \in 0 .. MaxEdits
  /\ due \in Nat /\ (\E n \in Nat : due = n * Interval) /\ due <= now + Interval

RowsHold ==
  /\ DOMAIN row \subseteq Sites
  /\ \A s \in DOMAIN row :
       /\ WindowCounts(taken, s, row[s].window)
       /\ row[s].verdict \in verdicts /\ row[s].window.last <= row[s].verdict.at

VerdictsHold ==
  /\ \A v \in verdicts :
       /\ VerdictHolds(taken, quorum, v) /\ Over(v.at, due)
       /\ v.at <= now /\ v.at <= verdict.at
  /\ \A u, v \in verdicts : u.at = v.at => u = v

LatestHolds ==
  \/ verdicts = {} /\ verdict = Evaluation!NoVerdict /\ DOMAIN row = {}
  \/ verdict \in verdicts /\ \E s \in DOMAIN row : row[s].verdict = verdict

\* Every sample and every verdict is of a run that is over, and a row counts
\* samples that were taken, up to the verdict written with it.
EvalInv ==
  /\ EvalTypes
  /\ SamplesHold(taken) /\ \A x \in taken : Over(x.at, due)
  /\ VerdictsHold /\ RowsHold /\ LatestHolds


LEMMA EvalInit == EdgesInit => EvalInv
<1> SUFFICES ASSUME EdgesInit PROVE EvalInv
  OBVIOUS
<1>1. /\ now = 0 /\ due = 0 /\ edits = 0 /\ quorum \in Quorums
      /\ row = [s \in {} |-> 0] /\ taken = {} /\ verdicts = {} /\ verdict = Evaluation!NoVerdict
  BY DEF EdgesInit, Evaluation!EInit, Evaluation!NoRows
<1>2. EvalTypes
  <2>1. 0 \in Nat /\ 0 = 0 * Interval
    BY EvaluationAssumption
  <2> QED BY <1>1, <2>1, EvaluationAssumption DEF EvalTypes
<1>3. DOMAIN row = {}
  BY <1>1
<1>4. SamplesHold(taken)
  BY <1>1, FS_EmptySet DEF SamplesHold
<1> QED BY <1>1, <1>2, <1>3, <1>4 DEF EvalInv, VerdictsHold, RowsHold, LatestHolds

\* An answer is of the run that is due, and so later than all before it.
LEMMA AnswersFollow ==
  ASSUME EvalInv, now \in Cron, now >= due, NEW s \in Sites, NEW o \in Evaluation!Answers(s)
  PROVE  /\ o.at \in Nat /\ o.at <= now /\ o.colo \in Colos[s]
         /\ \A t : Over(t, due) => t < o.at
<1>1. PICK l \in Lag[s], c \in Colos[s], b \in BOOLEAN :
        l <= now /\ o = [at |-> now - l, colo |-> c, bad |-> b]
  BY DEF Evaluation!Answers
<1>2. now \in Nat /\ due \in Nat /\ l \in Nat
  BY EvaluationAssumption DEF EvalInv, EvalTypes
<1>3. o.at = now - l /\ o.colo = c
  BY <1>1
<1>4. ASSUME NEW t, Over(t, due) PROVE t < o.at
  <2>1. PICK i \in Cron : i < due /\ t <= i /\ t \in Nat
    BY <1>4 DEF Over
  <2>2. i \in Nat /\ i < now
    BY <1>2, <2>1, EvaluationAssumption
  <2>3. i + l < now
    BY <2>2, EvaluationAssumption
  <2> QED BY <1>2, <1>3, <2>1, <2>2, <2>3
<1> QED BY <1>1, <1>2, <1>3, <1>4

\* The window an answer is folded into counts that answer and what it counted.
LEMMA FoldHolds ==
  ASSUME RowsHold, SamplesHold(taken), NEW more, IsFiniteSet(more), taken \subseteq more, NEW s \in Sites, NEW o,
         o.at \in Nat, o.colo \in Colos[s],
         [site |-> s, at |-> o.at, colo |-> o.colo] \in more,
         s \in DOMAIN row => row[s].window.last < o.at
  PROVE  WindowCounts(more, s, Evaluation!Fold(s, o)) /\ Evaluation!Fold(s, o).last = o.at
<1> DEFINE x == [site |-> s, at |-> o.at, colo |-> o.colo]
           w == row[s].window
           f == Evaluation!Fold(s, o)
           bad == IF o.bad THEN 1 ELSE 0
<1>1. bad \in {0, 1}
  OBVIOUS
<1>2. x.site = s /\ x.at = o.at /\ x.colo = o.colo
  OBVIOUS
<1>3. /\ f.colo = o.colo /\ f.last = o.at
      /\ f.started = (IF Evaluation!Restarts(s, o) THEN o.at ELSE w.started)
      /\ f.samples = (IF Evaluation!Restarts(s, o) THEN 0 ELSE w.samples) + 1
      /\ f.bad = (IF Evaluation!Restarts(s, o) THEN 0 ELSE w.bad) + bad
  BY DEF Evaluation!Fold
<1> HIDE DEF f, bad
<1>4. Counts(more, s, f) \subseteq more
  BY DEF Counts
<1>5. IsFiniteSet(Counts(more, s, f)) /\ Cardinality(Counts(more, s, f)) \in Nat
  BY <1>4, FiniteCounts
<1>6. ASSUME Evaluation!Restarts(s, o) PROVE WindowCounts(more, s, f)
  <2>1. f.started = o.at /\ f.samples = 1 /\ f.bad = bad
    BY <1>1, <1>3, <1>6
  <2>2. x \in Counts(more, s, f)
    BY <1>2, <1>3, <2>1 DEF Counts
  <2>3. Cardinality(Counts(more, s, f)) # 0
    BY <1>5, <2>2, FS_EmptySet
  <2> QED BY <1>1, <1>3, <1>5, <2>1, <2>3 DEF WindowCounts
<1>7. ASSUME ~Evaluation!Restarts(s, o) PROVE WindowCounts(more, s, f)
  <2>1. s \in DOMAIN row /\ w.colo = o.colo
    BY <1>7 DEF Evaluation!Restarts
  <2>2. f.started = w.started /\ f.samples = w.samples + 1 /\ f.bad = w.bad + bad
    BY <1>3, <1>7
  <2>3. /\ WindowCounts(taken, s, w) /\ w.last < o.at
        /\ w.started \in Nat /\ w.last \in Nat /\ w.started <= w.last
        /\ w.samples \in Nat \ {0} /\ w.bad \in Nat /\ w.bad <= w.samples
        /\ w.samples <= Cardinality(Counts(taken, s, w))
    BY <2>1 DEF RowsHold, WindowCounts
  <2> DEFINE old == Counts(taken, s, w)
  <2>4. old \cup {x} \subseteq Counts(more, s, f)
    <3>1. ASSUME NEW y \in old PROVE y \in Counts(more, s, f)
      BY <1>3, <2>1, <2>2, <2>3, EvaluationAssumption DEF Counts, SamplesHold
    <3>2. x \in Counts(more, s, f)
      BY <1>2, <1>3, <2>2, <2>3 DEF Counts
    <3> QED BY <3>1, <3>2
  <2>5. x \notin old
    BY <1>2, <2>3 DEF Counts
  <2>6. IsFiniteSet(old)
    BY FS_Subset DEF Counts
  <2> HIDE DEF old
  <2>7. Cardinality(old \cup {x}) = Cardinality(old) + 1 /\ Cardinality(old) \in Nat
    BY <2>5, <2>6, FS_AddElement, FS_CardinalityType
  <2>8. Cardinality(old \cup {x}) <= Cardinality(Counts(more, s, f))
    BY <1>5, <2>4, FS_Subset
  <2>9. w.samples <= Cardinality(old)
    BY <2>3 DEF old
  <2>10. w.samples + 1 <= Cardinality(Counts(more, s, f))
    BY <1>5, <2>3, <2>7, <2>8, <2>9
  <2> HIDE DEF w
  <2> QED BY <1>1, <1>3, <1>5, <2>1, <2>2, <2>3, <2>10 DEF WindowCounts
<1> QED BY <1>3, <1>6, <1>7 DEF f

-----------------------------------------------------------------------------
\* Windows that may vote at instant at, one of every data centre.
VotesHold(samples, votes, at) ==
  /\ DOMAIN votes \subseteq Sites
  /\ \A s \in DOMAIN votes : /\ WindowCounts(samples, s, votes[s])
                             /\ votes[s].last <= at /\ at - votes[s].last <= Stale
  /\ \A s, t \in DOMAIN votes : votes[s].colo = votes[t].colo => s = t

LEMMA VotersHold ==
  ASSUME NEW samples, NEW at \in Nat, NEW folded,
         DOMAIN folded \subseteq Sites, DOMAIN row \subseteq Sites,
         \A s \in DOMAIN folded : WindowCounts(samples, s, folded[s]),
         \A s \in DOMAIN row : WindowCounts(samples, s, row[s].window)
  PROVE  VotesHold(samples, Evaluation!Voters(folded, at), at)
<1> DEFINE heard == DOMAIN folded
           silent   == DOMAIN row \ heard
           W == [s \in heard \cup silent |->
                   IF s \in heard THEN folded[s] ELSE row[s].window]
           Usable == {s \in heard \cup silent : W[s].last <= at /\ at - W[s].last <= Stale}
           Before(s, t) == \/ s \in heard /\ t \in silent
                           \/ (s \in heard <=> t \in heard) /\ s < t
           E == {t \in Usable : \A u \in Usable : W[u].colo = W[t].colo => ~Before(u, t)}
           votes == Evaluation!Voters(folded, at)
<1>1. votes = [s \in E |-> W[s]]
  BY DEF Evaluation!Voters
<1>2. \A s \in heard \cup silent : WindowCounts(samples, s, W[s])
  OBVIOUS
<1>3. heard \cup silent \subseteq Sites
  OBVIOUS
<1>4. E \subseteq Usable /\ Usable \subseteq heard \cup silent
  OBVIOUS
<1>5. \A s \in Usable : W[s].last <= at /\ at - W[s].last <= Stale
  OBVIOUS
<1>6. ASSUME NEW s \in E, NEW t \in E, W[s].colo = W[t].colo PROVE s = t
  <2>1. ~Before(s, t) /\ ~Before(t, s)
    BY <1>4, <1>6
  <2>2. s \in Nat /\ t \in Nat
    BY <1>3, <1>4, EvaluationAssumption
  <2>3. (s \in heard \/ s \in silent) /\ (t \in heard \/ t \in silent)
    BY <1>4
  <2>4. s \in heard <=> t \in heard
    BY <2>1, <2>3
  <2>5. ~(s < t) /\ ~(t < s)
    BY <2>1, <2>4
  <2> QED BY <2>2, <2>5
<1> HIDE DEF votes, E, W, Usable
<1>7. DOMAIN votes = E /\ \A s \in E : votes[s] = W[s]
  BY <1>1
<1>8. VotesHold(samples, votes, at)
  BY <1>2, <1>3, <1>4, <1>5, <1>6, <1>7 DEF VotesHold
<1> QED BY <1>8 DEF votes

LEMMA EvaluateHolds ==
  ASSUME NEW samples, SamplesHold(samples), NEW at \in Nat, NEW votes,
         VotesHold(samples, votes, at), quorum \in Nat, NEW previous \in States,
         Evaluation!Evaluate(votes, previous, at).until # 0
  PROVE  /\ VerdictHolds(samples, quorum, Evaluation!Evaluate(votes, previous, at))
         /\ Evaluation!Evaluate(votes, previous, at).at = at
<1> DEFINE Fresh == {s \in DOMAIN votes : at - votes[s].started <= Window}
           Eligible == {s \in Fresh : votes[s].samples >= MinSamples}
           v == Evaluation!Evaluate(votes, previous, at)
           ends == {votes[s].last + Stale : s \in Fresh}
<1>1. ASSUME NEW S PROVE Evaluation!Cardinality(S) = Cardinality(S)
  BY DEF Evaluation!Cardinality, Cardinality
<1>2. /\ v.at = at /\ v.state \in States
      /\ v.state # "unknown" => Cardinality(Eligible) >= quorum
      /\ v.until = (IF Fresh = {} THEN 0 ELSE Evaluation!Min(ends))
  BY <1>1 DEF Evaluation!Evaluate, Evaluation!Holds, States
<1>3. ASSUME v.state # "unknown" PROVE EarnedBy(samples, quorum, at)
  <2>1. Cardinality(Eligible) >= quorum
    BY <1>2, <1>3
  <2>2. Eligible \in SUBSET Sites
    BY DEF VotesHold
  <2>3. \A s \in Eligible : /\ WindowCounts(samples, s, votes[s])
                            /\ votes[s].last <= at /\ at - votes[s].last <= Stale
                            /\ at - votes[s].started <= Window /\ votes[s].samples >= MinSamples
    BY DEF VotesHold
  <2>4. \A s, t \in Eligible : votes[s].colo = votes[t].colo => s = t
    BY DEF VotesHold
  <2> HIDE DEF Eligible
  <2> QED BY <2>1, <2>2, <2>3, <2>4, VotesEarn
<1>4. Fresh # {} /\ v.until = Evaluation!Min(ends)
  BY <1>2
<1>5. \A s \in Fresh : votes[s].last \in Nat /\ votes[s].last <= at /\ at - votes[s].last <= Stale
  BY DEF VotesHold, WindowCounts
<1>6. Stale \in Nat
  BY EvaluationAssumption
<1>7. ends \in SUBSET Nat /\ ends # {}
  <2> HIDE DEF Fresh
  <2> QED BY <1>4, <1>5, <1>6
<1>8. Evaluation!Min(ends) \in ends
  <2> HIDE DEF ends
  <2> QED BY <1>7, LeastIs
<1>9. PICK s \in Fresh : v.until = votes[s].last + Stale
  BY <1>4, <1>8
<1>10. v.until \in Nat /\ at <= v.until /\ v.until <= at + Stale
  <2> HIDE DEF v, Fresh
  <2> QED BY <1>5, <1>6, <1>9
<1> HIDE DEF v
<1>11. VerdictHolds(samples, quorum, v)
  BY <1>2, <1>3, <1>10 DEF VerdictHolds
<1> QED BY <1>2, <1>11 DEF v

LEMMA EvalInvSays == EvalInv => Evaluation!ETypeOK /\ Evaluation!SignalIsEarned
<1> SUFFICES ASSUME EvalInv PROVE Evaluation!ETypeOK /\ Evaluation!SignalIsEarned
  OBVIOUS
<1> USE DEF EvalInv
<1>1. Evaluation!ETypeOK
  <2>1. \E n \in 0 .. due : due = n * Interval
    <3>1. PICK n \in Nat : due = n * Interval
      BY DEF EvalTypes
    <3>2. Interval \in Nat /\ Interval >= 1
      BY EvaluationAssumption
    <3>3. n <= n * Interval
      BY <3>2
    <3>4. due \in Nat /\ n <= due
      BY <3>1, <3>3 DEF EvalTypes
    <3> QED BY <3>1, <3>4
  <2>2. ASSUME NEW s \in DOMAIN row
        PROVE  /\ row[s].window.colo \in Colos[s] /\ row[s].window.samples > 0
               /\ row[s].window.bad <= row[s].window.samples
               /\ row[s].window.started <= row[s].window.last
               /\ row[s].window.last <= row[s].verdict.at
               /\ row[s].verdict.state \in {"unknown", "healthy", "failing"}
               /\ row[s].verdict.at <= row[s].verdict.until /\ row[s].verdict.at <= now
    <3>1. WindowCounts(taken, s, row[s].window) /\ row[s].verdict \in verdicts
      BY DEF RowsHold
    <3>2. VerdictHolds(taken, quorum, row[s].verdict) /\ row[s].verdict.at <= now
      BY <3>1 DEF VerdictsHold
    <3>3. row[s].window.last <= row[s].verdict.at
      BY DEF RowsHold
    <3>4. row[s].window.samples > 0
      BY <3>1 DEF WindowCounts
    <3> QED BY <3>1, <3>2, <3>3, <3>4 DEF WindowCounts, VerdictHolds, States
  <2>3. /\ now \in 0 .. Horizon /\ quorum \in Quorums /\ edits \in 0 .. MaxEdits
        /\ due <= now + Interval /\ DOMAIN row \subseteq Sites
    BY DEF EvalTypes, RowsHold
  <2> QED BY <2>1, <2>2, <2>3 DEF Evaluation!ETypeOK
<1>2. ASSUME Evaluation!Signal # "unknown"
      PROVE  \E v \in verdicts :
               /\ v.state = Evaluation!Signal /\ now < v.at + Stale /\ Evaluation!Earned(v.at)
               /\ v = verdict \/ verdict.until <= now
  <2> DEFINE C == Evaluation!Counted
             ats == {row[s].verdict.at : s \in C}
             newest == Evaluation!Max(ats)
             colos == {row[s].window.colo : s \in C}
             states == {row[s].verdict.state : s \in {t \in C : row[t].verdict.at = newest}}
  <2>1. /\ C = {s \in DOMAIN row : row[s].verdict.until > now}
        /\ Cardinality(colos) >= quorum /\ "unknown" \notin states
        /\ Evaluation!Signal = IF "failing" \in states THEN "failing" ELSE "healthy"
    <3>1. Evaluation!Cardinality(colos) = Cardinality(colos)
      BY DEF Evaluation!Cardinality, Cardinality
    <3> QED BY <1>2, <3>1 DEF Evaluation!Signal, Evaluation!Counted, Evaluation!Holds
  <2>2. quorum \in Nat /\ quorum > 0
    BY EvaluationAssumption DEF EvalTypes
  <2>3. C # {}
    <3> SUFFICES ASSUME C = {} PROVE FALSE
      OBVIOUS
    <3>1. colos = {}
      OBVIOUS
    <3> HIDE DEF colos
    <3> QED BY <2>1, <2>2, <3>1, FS_EmptySet
  <2> HIDE DEF C
  <2>4. \A s \in C : /\ s \in DOMAIN row /\ row[s].verdict \in verdicts
                     /\ VerdictHolds(taken, quorum, row[s].verdict)
                     /\ row[s].verdict.at \in Nat /\ row[s].verdict.at <= now
                     /\ row[s].verdict.until > now
    BY <2>1 DEF RowsHold, VerdictsHold, VerdictHolds
  <2>5. ats \in SUBSET Nat /\ ats # {} /\ now \in Nat /\ \A x \in ats : x <= now
    BY <2>3, <2>4, EvaluationAssumption DEF EvalTypes
  <2>6. newest \in ats /\ \A x \in ats : x <= newest
    <3> HIDE DEF ats
    <3> QED BY <2>5, GreatestOf
  <2> HIDE DEF newest
  <2>7. PICK s \in C : row[s].verdict.at = newest /\ row[s].verdict.state = Evaluation!Signal
    <3>1. CASE "failing" \in states
      BY <2>1, <3>1
    <3>2. CASE "failing" \notin states
      <4>1. PICK s \in C : row[s].verdict.at = newest
        BY <2>6
      <4>2. row[s].verdict.state \in states
        BY <4>1
      <4>3. row[s].verdict.state \in States
        BY <2>4 DEF VerdictHolds
      <4> HIDE DEF states
      <4> QED BY <2>1, <3>2, <4>1, <4>2, <4>3 DEF States
    <3> QED BY <3>1, <3>2
  <2> DEFINE v == row[s].verdict
  <2>8. /\ v \in verdicts /\ VerdictHolds(taken, quorum, v) /\ v.until > now
        /\ v.state = Evaluation!Signal /\ v.at = newest
    BY <2>4, <2>7
  <2>9. now < v.at + Stale
    <3>1. v.until <= v.at + Stale /\ v.until \in Nat /\ v.at \in Nat /\ Stale \in Nat /\ now \in Nat
      BY <2>5, <2>8, EvaluationAssumption DEF VerdictHolds
    <3> HIDE DEF v
    <3> QED BY <2>8, <3>1
  <2>10. Evaluation!Earned(v.at)
    BY <1>2, <2>8, EarnedIs DEF VerdictHolds
  <2>11. v = verdict \/ verdict.until <= now
    <3> SUFFICES ASSUME ~(verdict.until <= now) PROVE v = verdict
      OBVIOUS
    <3>1. verdict \in verdicts
      BY <2>8 DEF LatestHolds
    <3>2. PICK t \in DOMAIN row : row[t].verdict = verdict
      BY <2>8 DEF LatestHolds
    <3>3. verdict.until \in Nat /\ verdict.at \in Nat /\ verdict.until > now
      BY <2>5, <3>1 DEF VerdictsHold, VerdictHolds
    <3>4. t \in C
      BY <2>1, <3>2, <3>3
    <3>5. verdict.at <= v.at
      BY <2>6, <2>8, <3>2, <3>4
    <3>6. v.at <= verdict.at /\ v.at \in Nat
      BY <2>8 DEF VerdictsHold, VerdictHolds
    <3>7. v.at = verdict.at
      BY <3>3, <3>5, <3>6
    <3> QED BY <2>8, <3>1, <3>7 DEF VerdictsHold
  <2> QED BY <2>8, <2>9, <2>10, <2>11
<1> QED BY <1>1, <1>2 DEF Evaluation!SignalIsEarned

-----------------------------------------------------------------------------
\* What stands after a run's commit, for the verdict d it decided.
LEMMA VerdictKeeps ==
  ASSUME EvalInv, now \in Cron, now >= due, due' = Evaluation!NextRun(due, now),
         UNCHANGED <<now, quorum, edits>>,
         NEW heard \in SUBSET Sites, heard # {},
         NEW obs \in [heard -> UNION {Evaluation!Answers(s) : s \in heard}],
         \A s \in heard : obs[s] \in Evaluation!Answers(s),
         verdict' = Evaluation!Decided(obs), verdict'.until # 0,
         verdicts' = verdicts \cup {verdict'},
         row' = [s \in DOMAIN row \cup heard |->
                   IF s \in heard
                   THEN [window |-> Evaluation!Fold(s, obs[s]), verdict |-> verdict']
                   ELSE row[s]],
         taken' = taken \cup {[site |-> s, at |-> obs[s].at,
                               colo |-> obs[s].colo] : s \in heard}
  PROVE  EvalInv'
<1> DEFINE ats == {obs[s].at : s \in heard}
           at == Evaluation!Max(ats)
           folded == [s \in heard |-> Evaluation!Fold(s, obs[s])]
           new == {[site |-> s, at |-> obs[s].at, colo |-> obs[s].colo] : s \in heard}
           votes == Evaluation!Voters(folded, at)
           first == Evaluation!Min(heard)
           previous == IF first \in DOMAIN row THEN row[first].verdict.state ELSE "unknown"
<1>1. /\ EvalTypes /\ SamplesHold(taken) /\ VerdictsHold /\ RowsHold /\ LatestHolds
      /\ \A x \in taken : Over(x.at, due)
  BY DEF EvalInv
<1>2. \A s \in heard : /\ obs[s].at \in Nat /\ obs[s].at <= now /\ obs[s].colo \in Colos[s]
                          /\ \A t : Over(t, due) => t < obs[s].at
  BY AnswersFollow
<1>3. now \in Nat /\ due \in Nat /\ quorum \in Nat
  BY <1>1, EvaluationAssumption DEF EvalTypes
<1>4. at \in ats /\ at \in Nat /\ at <= now /\ \A s \in heard : obs[s].at <= at
  <2>1. ats \in SUBSET Nat /\ ats # {} /\ \A x \in ats : x <= now
    BY <1>2
  <2> HIDE DEF ats
  <2>2. at \in ats /\ \A x \in ats : x <= at
    BY <1>3, <2>1, GreatestOf
  <2>3. at \in Nat /\ at <= now
    BY <2>1, <2>2
  <2> HIDE DEF at
  <2> QED BY <2>2, <2>3 DEF ats
<1>5. \A t : Over(t, due) => t < at
  <2> HIDE DEF at
  <2>1. PICK s \in heard : at = obs[s].at
    BY <1>4
  <2> QED BY <1>2, <2>1
<1>6. /\ SamplesHold(taken') /\ taken \subseteq taken'
      /\ \A s \in heard : [site |-> s, at |-> obs[s].at, colo |-> obs[s].colo] \in taken'
  <2>1. IsFiniteSet(heard)
    BY EvaluationAssumption, FS_Subset
  <2>2. IsFiniteSet(new)
    <3> DEFINE f == [s \in heard |-> [site |-> s, at |-> obs[s].at, colo |-> obs[s].colo]]
    <3>1. f \in Surjection(heard, new)
      BY DEF Surjection
    <3> HIDE DEF f, new
    <3> QED BY <2>1, <3>1, FS_Surjection
  <2>3. IsFiniteSet(taken \cup new)
    <3> HIDE DEF new
    <3> QED BY <1>1, <2>2, FS_Union DEF SamplesHold
  <2>4. \A x \in new : x.site \in Sites /\ x.colo \in Colos[x.site] /\ x.at \in Nat
    BY <1>2
  <2>5. taken' = taken \cup new
    OBVIOUS
  <2>6. \A s \in heard : [site |-> s, at |-> obs[s].at, colo |-> obs[s].colo] \in new
    OBVIOUS
  <2> HIDE DEF new
  <2> QED BY <1>1, <2>3, <2>4, <2>5, <2>6 DEF SamplesHold
<1>7. /\ due' \in Nat /\ due' > now /\ due' <= now + Interval
      /\ \E n \in Nat : due' = n * Interval
  <2>1. \E n \in Nat : due = n * Interval
    BY <1>1 DEF EvalTypes
  <2> QED BY <1>3, <2>1, NextRunFollows
<1>8. \A t : Over(t, due) \/ (t \in Nat /\ t <= now) => Over(t, due')
  <2>1. ASSUME NEW t, Over(t, due) PROVE Over(t, due')
    <3>1. PICK b \in Cron : b < due /\ t <= b /\ t \in Nat
      BY <2>1 DEF Over
    <3>2. b \in Nat /\ b < due'
      BY <1>3, <1>7, <3>1, EvaluationAssumption
    <3> QED BY <3>1, <3>2 DEF Over
  <2>2. ASSUME NEW t \in Nat, t <= now PROVE Over(t, due')
    BY <1>7, <2>2 DEF Over
  <2> QED BY <2>1, <2>2
<1>9. \A s \in heard : /\ WindowCounts(taken', s, folded[s])
                          /\ folded[s].last = obs[s].at
  <2> SUFFICES ASSUME NEW s \in heard
               PROVE  /\ WindowCounts(taken', s, Evaluation!Fold(s, obs[s]))
                      /\ Evaluation!Fold(s, obs[s]).last = obs[s].at
    OBVIOUS
  <2>1. s \in DOMAIN row => row[s].window.last < obs[s].at
    <3> SUFFICES ASSUME s \in DOMAIN row PROVE row[s].window.last < obs[s].at
      OBVIOUS
    <3>1. [site |-> s, at |-> row[s].window.last, colo |-> row[s].window.colo] \in taken
      BY <1>1 DEF RowsHold, WindowCounts
    <3>2. Over(row[s].window.last, due)
      BY <1>1, <3>1
    <3> QED BY <1>2, <3>2
  <2>2. /\ obs[s].at \in Nat /\ obs[s].colo \in Colos[s] /\ s \in Sites
        /\ [site |-> s, at |-> obs[s].at, colo |-> obs[s].colo] \in taken'
        /\ IsFiniteSet(taken') /\ taken \subseteq taken'
    BY <1>2, <1>6 DEF SamplesHold
  <2>3. PICK o : o = obs[s]
    OBVIOUS
  <2>4. PICK more : more = taken'
    OBVIOUS
  <2>5. WindowCounts(more, s, Evaluation!Fold(s, o)) /\ Evaluation!Fold(s, o).last = o.at
    BY <1>1, <2>1, <2>2, <2>3, <2>4, FoldHolds
  <2> QED BY <2>3, <2>4, <2>5
<1>10. \A s \in DOMAIN row : /\ s \in Sites /\ WindowCounts(taken', s, row[s].window)
                             /\ row[s].verdict \in verdicts
                             /\ row[s].window.last <= row[s].verdict.at
  <2>1. IsFiniteSet(taken')
    BY <1>6 DEF SamplesHold
  <2> QED BY <1>1, <1>6, <2>1, WindowLasts DEF RowsHold
<1>11. VerdictHolds(taken', quorum, verdict') /\ verdict'.at = at
  <2>1. VotesHold(taken', votes, at)
    <3>1. /\ DOMAIN folded \subseteq Sites /\ DOMAIN row \subseteq Sites
          /\ \A s \in DOMAIN folded : WindowCounts(taken', s, folded[s])
          /\ \A s \in DOMAIN row : WindowCounts(taken', s, row[s].window)
      BY <1>9, <1>10
    <3> HIDE DEF folded, at
    <3> QED BY <1>4, <3>1, VotersHold
  <2>2. previous \in States
    <3>1. first \in DOMAIN row => row[first].verdict.state \in States
      <4> HIDE DEF first
      <4> QED BY <1>1, <1>10 DEF VerdictsHold, VerdictHolds
    <3> QED BY <3>1 DEF States
  <2>3. verdict' = Evaluation!Evaluate(votes, previous, at)
    <3>1. DOMAIN obs = heard
      OBVIOUS
    <3> QED BY <3>1 DEF Evaluation!Decided
  <2> HIDE DEF votes, previous, at
  <2> QED BY <1>3, <1>4, <1>6, <2>1, <2>2, <2>3, EvaluateHolds
<1> HIDE DEF at, folded, votes, previous, first, new, ats
<1>12. \A v \in verdicts : /\ VerdictHolds(taken', quorum, v) /\ v.at < at /\ v.at <= now
                           /\ v.at \in Nat
  <2> SUFFICES ASSUME NEW v \in verdicts
               PROVE  VerdictHolds(taken', quorum, v) /\ v.at < at /\ v.at <= now /\ v.at \in Nat
    OBVIOUS
  <2>1. VerdictHolds(taken, quorum, v) /\ Over(v.at, due) /\ v.at <= now
    BY <1>1 DEF VerdictsHold
  <2>2. v.state # "unknown" => EarnedBy(taken', quorum, v.at)
    BY <1>3, <1>6, <2>1, EarnedLasts DEF VerdictHolds, SamplesHold
  <2> QED BY <1>5, <2>1, <2>2 DEF VerdictHolds
<1>13. EvalTypes'
  BY <1>1, <1>3, <1>7 DEF EvalTypes
<1>14. \A x \in taken' : Over(x.at, due')
  BY <1>1, <1>2, <1>8
<1>15. VerdictsHold'
  <2>1. \A v \in verdicts' : /\ VerdictHolds(taken', quorum, v) /\ Over(v.at, due')
                             /\ v.at <= now /\ v.at <= verdict'.at
    BY <1>1, <1>4, <1>8, <1>11, <1>12 DEF VerdictsHold
  <2>2. \A u, v \in verdicts' : u.at = v.at => u = v
    <3> SUFFICES ASSUME NEW u \in verdicts', NEW v \in verdicts', u.at = v.at PROVE u = v
      OBVIOUS
    <3>1. CASE u \in verdicts /\ v \in verdicts
      BY <1>1, <3>1 DEF VerdictsHold
    <3>2. CASE u \in verdicts /\ v = verdict'
      <4>1. u.at < at /\ u.at \in Nat
        BY <1>12, <3>2
      <4>2. v.at = at
        BY <1>11, <3>2
      <4> QED BY <1>4, <4>1, <4>2
    <3>3. CASE u = verdict' /\ v \in verdicts
      <4>1. v.at < at /\ v.at \in Nat
        BY <1>12, <3>3
      <4>2. u.at = at
        BY <1>11, <3>3
      <4> QED BY <1>4, <4>1, <4>2
    <3>4. CASE u = verdict' /\ v = verdict'
      BY <3>4
    <3> QED BY <3>1, <3>2, <3>3, <3>4
  <2> QED BY <2>1, <2>2 DEF VerdictsHold, VerdictHolds, EarnedBy, SeenIn, Over
<1>16. RowsHold' /\ LatestHolds'
  <2>1. /\ DOMAIN row' = DOMAIN row \cup heard
        /\ \A s \in heard : row'[s].window = folded[s] /\ row'[s].verdict = verdict'
        /\ \A s \in DOMAIN row \ heard : row'[s] = row[s]
    BY DEF folded
  <2>2. \A s \in DOMAIN row' : /\ s \in Sites /\ WindowCounts(taken', s, row'[s].window)
                               /\ row'[s].verdict \in verdicts'
                               /\ row'[s].window.last <= row'[s].verdict.at
    <3>1. ASSUME NEW s \in heard
          PROVE  /\ s \in Sites /\ WindowCounts(taken', s, row'[s].window)
                 /\ row'[s].verdict \in verdicts'
                 /\ row'[s].window.last <= row'[s].verdict.at
      <4>1. row'[s].window = folded[s] /\ row'[s].verdict = verdict'
        BY <2>1
      <4>2. WindowCounts(taken', s, row'[s].window) /\ row'[s].window.last = obs[s].at
        BY <1>9, <4>1
      <4> QED BY <1>4, <1>11, <4>1, <4>2
    <3>2. ASSUME NEW s \in DOMAIN row \ heard
          PROVE  /\ s \in Sites /\ WindowCounts(taken', s, row'[s].window)
                 /\ row'[s].verdict \in verdicts'
                 /\ row'[s].window.last <= row'[s].verdict.at
      <4>1. row'[s] = row[s]
        BY <2>1
      <4> QED BY <1>10, <4>1
    <3> QED BY <2>1, <3>1, <3>2
  <2>3. verdict' \in verdicts' /\ \E s \in DOMAIN row' : row'[s].verdict = verdict'
    BY <2>1
  <2> QED BY <2>2, <2>3 DEF RowsHold, LatestHolds, WindowCounts, Counts
<1> QED BY <1>6, <1>13, <1>14, <1>15, <1>16 DEF EvalInv, SamplesHold, Over

LEMMA EvaluationStepKeeps == EvalInv /\ Evaluation!ENext => EvalInv'
<1> SUFFICES ASSUME EvalInv, Evaluation!ENext PROVE EvalInv'
  OBVIOUS
<1>1. /\ EvalTypes /\ SamplesHold(taken) /\ VerdictsHold /\ RowsHold /\ LatestHolds
      /\ \A x \in taken : Over(x.at, due)
  BY DEF EvalInv
<1>2. now \in Nat /\ due \in Nat /\ Interval \in Nat
  BY <1>1, EvaluationAssumption DEF EvalTypes
<1>3. CASE Evaluation!Run
  <2>1. /\ now \in Cron /\ now >= due /\ due' = Evaluation!NextRun(due, now)
        /\ UNCHANGED <<now, quorum, edits>>
    BY <1>3 DEF Evaluation!Run
  <2>2. CASE UNCHANGED <<row, taken, verdict, verdicts>>
    <3>1. /\ due' \in Nat /\ due' > now /\ due' <= now + Interval
          /\ \E n \in Nat : due' = n * Interval
      BY <1>1, <1>2, <2>1, NextRunFollows DEF EvalTypes
    <3>2. ASSUME NEW t, Over(t, due) PROVE Over(t, due')
      <4>1. PICK b \in Cron : b < due /\ t <= b /\ t \in Nat
        BY <3>2 DEF Over
      <4>2. b \in Nat /\ b < due'
        BY <1>2, <2>1, <3>1, <4>1, EvaluationAssumption
      <4> QED BY <4>1, <4>2 DEF Over
    <3>3. EvalTypes'
      BY <1>1, <1>2, <2>1, <3>1 DEF EvalTypes
    <3>4. VerdictsHold' /\ \A x \in taken' : Over(x.at, due')
      BY <1>1, <2>1, <2>2, <3>2 DEF VerdictsHold, VerdictHolds, EarnedBy, SeenIn, Over
    <3>5. SamplesHold(taken') /\ RowsHold' /\ LatestHolds'
      BY <1>1, <2>2 DEF RowsHold, LatestHolds, WindowCounts, Counts
    <3> QED BY <3>3, <3>4, <3>5 DEF EvalInv, SamplesHold, Over
  <2>3. CASE ~UNCHANGED <<row, taken, verdict, verdicts>>
    <3>1. PICK heard \in SUBSET Sites :
            \E obs \in [heard -> UNION {Evaluation!Answers(s) : s \in heard}] :
              /\ heard # {} /\ \A s \in heard : obs[s] \in Evaluation!Answers(s)
              /\ verdict' = Evaluation!Decided(obs) /\ verdict'.until # 0
              /\ verdicts' = verdicts \cup {verdict'}
              /\ row' = [s \in DOMAIN row \cup heard |->
                           IF s \in heard
                           THEN [window |-> Evaluation!Fold(s, obs[s]), verdict |-> verdict']
                           ELSE row[s]]
              /\ taken' = taken \cup {[site |-> s, at |-> obs[s].at,
                                       colo |-> obs[s].colo] : s \in heard}
      BY <1>3, <2>3 DEF Evaluation!Run
    <3> QED BY <2>1, <3>1, VerdictKeeps
  <2> QED BY <2>2, <2>3
<1>4. CASE Evaluation!Edit
  <2>1. /\ edits < MaxEdits /\ edits' = edits + 1 /\ quorum' \in Quorums
        /\ row' = [s \in {} |-> 0] /\ taken' = {} /\ verdicts' = {}
        /\ verdict' = Evaluation!NoVerdict /\ UNCHANGED <<now, due>>
    BY <1>4 DEF Evaluation!Edit, Evaluation!NoRows
  <2>2. EvalTypes'
    BY <1>1, <2>1, EvaluationAssumption DEF EvalTypes
  <2>3. DOMAIN row' = {}
    BY <2>1
  <2>4. SamplesHold(taken')
    BY <2>1, FS_EmptySet DEF SamplesHold
  <2>5. LatestHolds'
    <3>1. Evaluation!NoVerdict' = Evaluation!NoVerdict
      BY DEF Evaluation!NoVerdict
    <3> QED BY <2>1, <2>3, <3>1 DEF LatestHolds
  <2> QED BY <2>1, <2>2, <2>3, <2>4, <2>5 DEF EvalInv, VerdictsHold, RowsHold, SamplesHold
<1>5. CASE Evaluation!Tick
  <2>1. /\ now < Horizon /\ now' = now + 1
        /\ UNCHANGED <<due, quorum, row, taken, verdict, verdicts, edits>>
    BY <1>5 DEF Evaluation!Tick
  <2>2. EvalTypes'
    BY <1>1, <1>2, <2>1, EvaluationAssumption DEF EvalTypes
  <2>3. ASSUME NEW v \in verdicts PROVE v.at <= now'
    <3>1. v.at \in Nat /\ v.at <= now
      BY <1>1 DEF VerdictsHold, VerdictHolds
    <3> QED BY <1>2, <2>1, <3>1
  <2>4. VerdictsHold'
    BY <1>1, <2>1, <2>3 DEF VerdictsHold, VerdictHolds, EarnedBy, SeenIn, Over
  <2>5. RowsHold' /\ LatestHolds' /\ SamplesHold(taken')
    BY <1>1, <2>1 DEF RowsHold, LatestHolds, WindowCounts, Counts
  <2> QED BY <1>1, <2>1, <2>2, <2>4, <2>5 DEF EvalInv, SamplesHold, Over
<1> QED BY <1>3, <1>4, <1>5 DEF Evaluation!ENext

LEMMA EvalStep == EvalInv /\ [EdgesNext]_edges => EvalInv'
<1> SUFFICES ASSUME EvalInv, [EdgesNext]_edges PROVE EvalInv'
  OBVIOUS
<1>1. Evaluation!ENext \/ UNCHANGED evaluation
  BY DEF EdgesNext, edges
<1>2. CASE UNCHANGED evaluation
  BY <1>2, ZenonT(60) DEF evaluation, EvalInv, EvalTypes, SamplesHold, VerdictsHold, VerdictHolds, RowsHold,
              LatestHolds, WindowCounts, Counts, EarnedBy, SeenIn, Over, Evaluation!NoVerdict
<1> QED BY <1>1, <1>2, EvaluationStepKeeps

\* Whatever rows are read together, a signal other than unknown is the verdict
\* of one run, earned by a quorum, no older than the staleness limit, and of
\* the last run unless its proof has ended.
THEOREM SignalsHold == EdgesSpec => []SignalIsEarned
<1>1. EvalInv => SignalIsEarned
  BY EvalInvSays DEF SignalIsEarned
<1> QED BY <1>1, EvalInit, EvalStep, PTL DEF EdgesSpec

-----------------------------------------------------------------------------
(***************************************************************************)
(* Widest walks, in any graph with impacts on its edges.                   *)
(***************************************************************************)

Top(S) == CHOOSE x \in S : \A y \in S : x >= y
Lesser(x, y) == IF x <= y THEN x ELSE y

Net(g) ==
  /\ IsFiniteSet(g.services) /\ g.source \in g.services
  /\ \A k \in DOMAIN g.edges : {g.edges[k].source, g.edges[k].target} \subseteq g.services
  /\ g.impact \in [DOMAIN g.edges -> 0 .. 3]

Arcs(g) == {k \in DOMAIN g.edges : g.impact[k] > 0}
CapsOn(g) == [g.services -> 0 .. 3]

\* The caps that walks leaving by an edge of capability root reach at least.
ClosedOn(g, root, v) == \A k \in Arcs(g) :
  /\ g.edges[k].source = g.source /\ g.edges[k].capability = root
       => v[g.edges[k].target] >= g.impact[k]
  /\ g.edges[k].source # g.source =>
       v[g.edges[k].target] >= Lesser(v[g.edges[k].source], g.impact[k])

FirstWidths(g, root) ==
  [t \in g.services |-> Top({0} \cup {g.impact[k] : k \in {j \in Arcs(g) :
     /\ g.edges[j].source = g.source /\ g.edges[j].target = t /\ g.edges[j].capability = root}})]

WiderBy(g, w) ==
  [t \in g.services |-> Top({w[t]} \cup
     {Lesser(w[g.edges[k].source], g.impact[k]) :
        k \in {j \in Arcs(g) : g.edges[j].source # g.source /\ g.edges[j].target = t}})]

WidthsTo(g, w, root, bound) ==
  w = [n \in 1 .. bound |-> IF n = 1 THEN FirstWidths(g, root) ELSE WiderBy(g, w[n - 1])]

LEMMA NetTypes ==
  ASSUME NEW g, Net(g), NEW k \in Arcs(g)
  PROVE  /\ k \in DOMAIN g.edges /\ g.impact[k] \in 1 .. 3
         /\ g.edges[k].source \in g.services /\ g.edges[k].target \in g.services
BY DEF Net, Arcs

LEMMA GreatestRank ==
  ASSUME NEW S \in SUBSET (0 .. 3), S # {}
  PROVE  /\ Top(S) \in S /\ \A x \in S : x <= Top(S)
         /\ \A c \in 0 .. 3 : Top(S) >= c <=> \E x \in S : x >= c
<1>1. \A x \in S : x = 0 \/ x = 1 \/ x = 2 \/ x = 3
  OBVIOUS
<1>2. \E top \in S : \A x \in S : top >= x
  <2>1. CASE 3 \in S
    BY <1>1, <2>1
  <2>2. CASE 3 \notin S /\ 2 \in S
    BY <1>1, <2>2
  <2>3. CASE 3 \notin S /\ 2 \notin S /\ 1 \in S
    BY <1>1, <2>3
  <2>4. CASE 3 \notin S /\ 2 \notin S /\ 1 \notin S
    <3>1. \A x \in S : x = 0
      BY <1>1, <2>4
    <3>2. PICK zero \in S : zero = 0
      BY <3>1
    <3>3. zero >= 0
      BY <3>2
    <3> QED BY <3>1, <3>2, <3>3
  <2> QED BY <2>1, <2>2, <2>3, <2>4
<1>3. Top(S) \in S /\ \A x \in S : Top(S) >= x
  BY <1>2 DEF Top
<1> DEFINE top == Top(S)
<1>4. top \in 0 .. 3 /\ \A x \in S : x \in 0 .. 3 /\ top >= x
  BY <1>3
<1> HIDE DEF top
<1>5. \A c \in 0 .. 3 : top >= c <=> \E x \in S : x >= c
  <2> SUFFICES ASSUME NEW c \in 0 .. 3 PROVE top >= c <=> \E x \in S : x >= c
    OBVIOUS
  <2>1. ASSUME NEW x \in S, x >= c PROVE top >= c
    BY <1>4, <2>1
  <2>2. top \in S
    BY <1>3 DEF top
  <2> QED BY <2>1, <2>2
<1> QED BY <1>3, <1>4, <1>5 DEF top

LEMMA FirstWidthsHold ==
  ASSUME NEW g, Net(g), NEW root
  PROVE  /\ FirstWidths(g, root) \in CapsOn(g)
         /\ \A t \in g.services, c \in 1 .. 3 : FirstWidths(g, root)[t] >= c <=>
              \E k \in Arcs(g) : /\ g.edges[k].source = g.source /\ g.edges[k].target = t
                                        /\ g.edges[k].capability = root /\ g.impact[k] >= c
<1>1. ASSUME NEW t \in g.services
      PROVE  /\ FirstWidths(g, root)[t] \in 0 .. 3
             /\ \A c \in 1 .. 3 : FirstWidths(g, root)[t] >= c <=>
                  \E k \in Arcs(g) : /\ g.edges[k].source = g.source /\ g.edges[k].target = t
                                            /\ g.edges[k].capability = root /\ g.impact[k] >= c
  <2> DEFINE K == {j \in Arcs(g) : /\ g.edges[j].source = g.source /\ g.edges[j].target = t
                                          /\ g.edges[j].capability = root}
             S == {0} \cup {g.impact[k] : k \in K}
  <2>1. S \in SUBSET (0 .. 3) /\ S # {}
    BY DEF Arcs, Net
  <2>2. FirstWidths(g, root)[t] = Top(S)
    BY DEF FirstWidths
  <2>3. Top(S) \in S /\ \A c \in 0 .. 3 : Top(S) >= c <=> \E x \in S : x >= c
    <3> HIDE DEF S
    <3> QED BY <2>1, GreatestRank
  <2>4. ASSUME NEW c \in 1 .. 3 PROVE (\E x \in S : x >= c) <=> \E k \in K : g.impact[k] >= c
    <3>1. ~(0 >= c)
      OBVIOUS
    <3> HIDE DEF K
    <3> QED BY <3>1
  <2>5. Top(S) \in 0 .. 3
    <3> HIDE DEF S
    <3> QED BY <2>1, <2>3
  <2>6. \A c \in 1 .. 3 : Top(S) >= c <=> \E k \in K : g.impact[k] >= c
    <3> HIDE DEF S
    <3> QED BY <2>3, <2>4
  <2> HIDE DEF S
  <2> QED BY <2>2, <2>5, <2>6
<1>2. FirstWidths(g, root) \in CapsOn(g)
  <2>1. FirstWidths(g, root) = [t \in g.services |-> FirstWidths(g, root)[t]]
    BY DEF FirstWidths
  <2> QED BY <1>1, <2>1 DEF CapsOn
<1> QED BY <1>1, <1>2

LEMMA WiderByHolds ==
  ASSUME NEW g, Net(g), NEW w \in CapsOn(g)
  PROVE  /\ WiderBy(g, w) \in CapsOn(g)
         /\ \A t \in g.services, c \in 1 .. 3 : WiderBy(g, w)[t] >= c <=>
              \/ w[t] >= c
              \/ \E k \in Arcs(g) : /\ g.edges[k].source # g.source /\ g.edges[k].target = t
                                           /\ w[g.edges[k].source] >= c /\ g.impact[k] >= c
<1>1. ASSUME NEW t \in g.services
      PROVE  /\ WiderBy(g, w)[t] \in 0 .. 3
             /\ \A c \in 1 .. 3 : WiderBy(g, w)[t] >= c <=>
                  \/ w[t] >= c
                  \/ \E k \in Arcs(g) : /\ g.edges[k].source # g.source /\ g.edges[k].target = t
                                               /\ w[g.edges[k].source] >= c /\ g.impact[k] >= c
  <2> DEFINE K == {j \in Arcs(g) : g.edges[j].source # g.source /\ g.edges[j].target = t}
             through(k) == Lesser(w[g.edges[k].source], g.impact[k])
             S == {w[t]} \cup {through(k) : k \in K}
  <2>1. ASSUME NEW k \in K
        PROVE  /\ w[g.edges[k].source] \in 0 .. 3 /\ g.impact[k] \in 0 .. 3 /\ through(k) \in 0 .. 3
               /\ \A c \in 1 .. 3 : through(k) >= c <=> w[g.edges[k].source] >= c /\ g.impact[k] >= c
    <3>1. w[g.edges[k].source] \in 0 .. 3 /\ g.impact[k] \in 0 .. 3
      BY NetTypes DEF Arcs, Net, CapsOn
    <3> QED BY <3>1 DEF Lesser
  <2>2. w[t] \in 0 .. 3
    BY DEF CapsOn
  <2>3. WiderBy(g, w)[t] = Top(S)
    BY DEF WiderBy
  <2> HIDE DEF through
  <2>4. S \in SUBSET (0 .. 3) /\ S # {}
    BY <2>1, <2>2
  <2>5. Top(S) \in S /\ \A c \in 0 .. 3 : Top(S) >= c <=> \E x \in S : x >= c
    <3> HIDE DEF S
    <3> QED BY <2>4, GreatestRank
  <2>6. \A c : (\E x \in S : x >= c) <=> w[t] >= c \/ \E k \in K : through(k) >= c
    OBVIOUS
  <2> HIDE DEF S
  <2>7. \A c \in 1 .. 3 : Top(S) >= c <=> w[t] >= c \/ \E k \in K : through(k) >= c
    BY <2>5, <2>6
  <2> QED BY <2>1, <2>3, <2>4, <2>5, <2>7
<1>2. WiderBy(g, w) \in CapsOn(g)
  <2>1. WiderBy(g, w) = [t \in g.services |-> WiderBy(g, w)[t]]
    BY DEF WiderBy
  <2> QED BY <1>1, <2>1 DEF CapsOn
<1> QED BY <1>1, <1>2

LEMMA WidthsExist ==
  ASSUME NEW g, NEW root, NEW bound \in Nat
  PROVE  \E w : WidthsTo(g, w, root, bound)
<1> DEFINE S == {n \in Nat : \E w : WidthsTo(g, w, root, n)}
<1>1. 0 \in S
  <2>1. WidthsTo(g, [n \in 1 .. 0 |-> 0], root, 0)
    BY DEF WidthsTo
  <2> QED BY <2>1
<1>2. ASSUME NEW n \in 0 .. bound - 1, n \in S PROVE n + 1 \in S
  <2>1. n \in Nat
    OBVIOUS
  <2>2. PICK w : WidthsTo(g, w, root, n)
    BY <1>2
  <2> DEFINE next == IF n = 0 THEN FirstWidths(g, root) ELSE WiderBy(g, w[n])
             longer == [i \in 1 .. n + 1 |-> IF i = n + 1 THEN next ELSE w[i]]
  <2>3. ASSUME NEW i \in 1 .. n + 1
        PROVE  longer[i] = IF i = 1 THEN FirstWidths(g, root) ELSE WiderBy(g, longer[i - 1])
    <3>1. CASE i = n + 1
      <4>1. i = 1 <=> n = 0
        BY <2>1, <3>1
      <4>2. i # 1 => longer[i - 1] = w[n]
        BY <2>1, <3>1
      <4>3. longer[i] = next
        BY <3>1
      <4> QED BY <4>1, <4>2, <4>3
    <3>2. CASE i # n + 1
      <4>1. i \in 1 .. n /\ longer[i] = w[i] /\ (i # 1 => longer[i - 1] = w[i - 1])
        BY <2>1, <3>2
      <4> QED BY <2>2, <4>1 DEF WidthsTo
    <3> QED BY <3>1, <3>2
  <2>4. WidthsTo(g, longer, root, n + 1)
    BY <2>3 DEF WidthsTo
  <2> QED BY <2>1, <2>4
<1> HIDE DEF S
<1>3. bound \in S
  BY <1>1, <1>2, InductionTo
<1> QED BY <1>3 DEF S

-----------------------------------------------------------------------------
\* g.services reached by caps of c at least.
Reached(g, v, c) == {t \in g.services : v[t] >= c}

\* No walk that is longer by an edge reaches another.
Settles(g, v, c) == \A k \in Arcs(g) :
  g.edges[k].source # g.source /\ g.impact[k] >= c /\ g.edges[k].source \in Reached(g, v, c)
    => g.edges[k].target \in Reached(g, v, c)

LEMMA ReachedFinite ==
  ASSUME NEW g, Net(g), NEW v, NEW c
  PROVE  /\ IsFiniteSet(Reached(g, v, c)) /\ Cardinality(Reached(g, v, c)) \in Nat
         /\ Cardinality(Reached(g, v, c)) <= Cardinality(g.services)
         /\ Cardinality(Reached(g, v, c)) = Cardinality(g.services) => Reached(g, v, c) = g.services
BY FS_Subset, FS_CardinalityType DEF Net, Reached

\* A width that has not settled grows.
LEMMA WiderReaches ==
  ASSUME NEW g, Net(g), NEW w \in CapsOn(g), NEW c \in 1 .. 3
  PROVE  /\ Reached(g, w, c) \subseteq Reached(g, WiderBy(g, w), c)
         /\ Settles(g, w, c) => /\ Reached(g, WiderBy(g, w), c) = Reached(g, w, c)
                                  /\ Settles(g, WiderBy(g, w), c)
         /\ ~Settles(g, w, c) =>
              Cardinality(Reached(g, WiderBy(g, w), c)) >= Cardinality(Reached(g, w, c)) + 1
<1> DEFINE x == WiderBy(g, w)
<1>1. \A t \in g.services : x[t] >= c <=>
        \/ w[t] >= c
        \/ \E k \in Arcs(g) : /\ g.edges[k].source # g.source /\ g.edges[k].target = t
                                     /\ w[g.edges[k].source] >= c /\ g.impact[k] >= c
  BY WiderByHolds
<1>2. \A k \in Arcs(g) : g.edges[k].source \in g.services /\ g.edges[k].target \in g.services
  BY NetTypes DEF Arcs
<1> HIDE DEF x
<1>3. Reached(g, w, c) \subseteq Reached(g, x, c)
  BY <1>1 DEF Reached
<1>4. ASSUME Settles(g, w, c) PROVE Reached(g, x, c) = Reached(g, w, c) /\ Settles(g, x, c)
  <2>1. Reached(g, x, c) = Reached(g, w, c)
    BY <1>1, <1>2, <1>4 DEF Settles, Reached
  <2> QED BY <1>4, <2>1 DEF Settles
<1>5. ASSUME ~Settles(g, w, c)
      PROVE  Cardinality(Reached(g, x, c)) >= Cardinality(Reached(g, w, c)) + 1
  <2>1. PICK k \in Arcs(g) :
          /\ g.edges[k].source # g.source /\ g.impact[k] >= c /\ g.edges[k].source \in Reached(g, w, c)
          /\ g.edges[k].target \notin Reached(g, w, c)
    BY <1>5 DEF Settles
  <2>2. g.edges[k].target \in Reached(g, x, c)
    BY <1>1, <1>2, <2>1 DEF Reached
  <2>3. IsFiniteSet(Reached(g, w, c)) /\ IsFiniteSet(Reached(g, x, c))
    BY ReachedFinite
  <2>4. Cardinality(Reached(g, w, c) \cup {g.edges[k].target}) = Cardinality(Reached(g, w, c)) + 1
    BY <2>1, <2>3, FS_AddElement
  <2>5. Cardinality(Reached(g, w, c) \cup {g.edges[k].target}) <= Cardinality(Reached(g, x, c))
    BY <1>3, <2>2, <2>3, FS_Subset
  <2>6. Cardinality(Reached(g, x, c)) \in Nat /\ Cardinality(Reached(g, w, c)) \in Nat
    BY ReachedFinite
  <2> QED BY <2>4, <2>5, <2>6
<1> QED BY <1>3, <1>4, <1>5 DEF x

\* As many steps as there are services are enough, and the caps they reach are
\* the least that are closed under the edges.
LEMMA WidthsAreLeast ==
  ASSUME NEW g, Net(g), NEW root, NEW w, WidthsTo(g, w, root, Cardinality(g.services)),
         NEW last, last = w[Cardinality(g.services)]
  PROVE  /\ last \in CapsOn(g) /\ ClosedOn(g, root, last)
         /\ \A v \in CapsOn(g) : ClosedOn(g, root, v) =>
              \A t \in g.services : last[t] <= v[t]
<1> DEFINE N == Cardinality(g.services)
<1>1. WidthsTo(g, w, root, N) /\ last = w[N]
  OBVIOUS
<1>2. N \in Nat /\ N >= 1
  <2>1. N \in Nat /\ IsFiniteSet({g.source}) /\ Cardinality({g.source}) = 1 /\ {g.source} \subseteq g.services
    BY FS_CardinalityType, FS_Singleton DEF Net
  <2>2. Cardinality({g.source}) <= N
    BY <2>1, FS_Subset DEF Net
  <2> HIDE DEF N
  <2> QED BY <2>1, <2>2
<1> HIDE DEF N
<1>3. /\ w[1] = FirstWidths(g, root)
      /\ \A n \in 1 .. N - 1 : w[n + 1] = WiderBy(g, w[n])
  <2>1. ASSUME NEW n \in 1 .. N - 1 PROVE w[n + 1] = WiderBy(g, w[n])
    <3>1. n + 1 \in 1 .. N /\ n + 1 # 1 /\ (n + 1) - 1 = n
      BY <1>2
    <3> QED BY <1>1, <3>1 DEF WidthsTo
  <2>2. w[1] = FirstWidths(g, root)
    <3>1. 1 \in 1 .. N
      BY <1>2
    <3> QED BY <1>1, <3>1 DEF WidthsTo
  <2> QED BY <2>1, <2>2
<1>4. \A n \in 1 .. N : w[n] \in CapsOn(g)
  <2> DEFINE S == {n \in Nat : n + 1 <= N => w[n + 1] \in CapsOn(g)}
  <2>1. 0 \in S
    BY <1>3, FirstWidthsHold
  <2>2. ASSUME NEW n \in 0 .. N - 1, n \in S PROVE n + 1 \in S
    <3>1. n + 1 \in Nat /\ ((n + 1) + 1 <= N => n + 1 \in 1 .. N - 1 /\ n + 1 <= N)
      BY <1>2
    <3> QED BY <1>3, <2>2, <3>1, WiderByHolds
  <2> HIDE DEF S
  <2>3. 0 .. N \subseteq S
    BY <1>2, <2>1, <2>2, InductionTo
  <2>4. ASSUME NEW n \in 1 .. N PROVE w[n] \in CapsOn(g)
    <3>1. n - 1 \in 0 .. N /\ (n - 1) + 1 = n
      BY <1>2
    <3>2. n - 1 \in S /\ n <= N
      BY <2>3, <3>1
    <3> QED BY <3>1, <3>2 DEF S
  <2> QED BY <2>4
<1>5. \A c \in 1 .. 3 : Settles(g, w[N], c)
  <2> SUFFICES ASSUME NEW c \in 1 .. 3 PROVE Settles(g, w[N], c)
    OBVIOUS
  <2> DEFINE S == {n \in Nat : n + 1 <= N =>
                     \/ Settles(g, w[n + 1], c)
                     \/ Cardinality(Reached(g, w[n + 1], c)) >= n + 1}
  <2>1. 0 \in S
    <3> SUFFICES ASSUME Reached(g, w[1], c) # {} PROVE Cardinality(Reached(g, w[1], c)) >= 1
      BY DEF Settles
    <3>1. Cardinality(Reached(g, w[1], c)) # 0
      BY ReachedFinite, FS_EmptySet
    <3>2. Cardinality(Reached(g, w[1], c)) \in Nat
      BY ReachedFinite
    <3> QED BY <3>1, <3>2
  <2>2. ASSUME NEW n \in 0 .. N - 1, n \in S PROVE n + 1 \in S
    <3> SUFFICES ASSUME (n + 1) + 1 <= N
                 PROVE  \/ Settles(g, w[(n + 1) + 1], c)
                        \/ Cardinality(Reached(g, w[(n + 1) + 1], c)) >= (n + 1) + 1
      BY <1>2
    <3>1. n + 1 \in 1 .. N - 1 /\ n + 1 \in 1 .. N /\ n + 1 <= N /\ n \in Nat
      BY <1>2
    <3>2. w[(n + 1) + 1] = WiderBy(g, w[n + 1]) /\ w[n + 1] \in CapsOn(g)
      BY <1>3, <1>4, <3>1
    <3>3. PICK u : u = w[n + 1]
      OBVIOUS
    <3>4. CASE Settles(g, u, c)
      BY <3>2, <3>3, <3>4, WiderReaches
    <3>5. CASE ~Settles(g, u, c)
      <4>1. Cardinality(Reached(g, WiderBy(g, u), c)) >= Cardinality(Reached(g, u, c)) + 1
        BY <3>2, <3>3, <3>5, WiderReaches
      <4>2. Cardinality(Reached(g, u, c)) >= n + 1
        BY <2>2, <3>1, <3>3, <3>5
      <4>3. Cardinality(Reached(g, WiderBy(g, u), c)) \in Nat /\ Cardinality(Reached(g, u, c)) \in Nat
        BY ReachedFinite
      <4>4. Cardinality(Reached(g, WiderBy(g, u), c)) >= (n + 1) + 1
        BY <3>1, <4>1, <4>2, <4>3
      <4> QED BY <3>2, <3>3, <4>4
    <3> QED BY <3>4, <3>5
  <2> HIDE DEF S
  <2>3. 0 .. N \subseteq S
    BY <1>2, <2>1, <2>2, InductionTo
  <2>4. N - 1 \in 0 .. N /\ (N - 1) + 1 = N
    BY <1>2
  <2>5. Settles(g, w[N], c) \/ Cardinality(Reached(g, w[N], c)) >= N
    BY <1>2, <2>3, <2>4 DEF S
  <2>6. ASSUME Cardinality(Reached(g, w[N], c)) >= N PROVE Settles(g, w[N], c)
    <3>1. Cardinality(Reached(g, w[N], c)) = N
      BY <1>2, <2>6, ReachedFinite DEF N
    <3>2. Reached(g, w[N], c) = g.services
      BY <3>1, ReachedFinite DEF N
    <3> QED BY <3>2, NetTypes DEF Settles, Arcs
  <2> QED BY <2>5, <2>6
<1>6. \A t \in g.services : FirstWidths(g, root)[t] <= w[N][t]
  <2> DEFINE S == {n \in Nat : n + 1 <= N =>
                     \A t \in g.services : FirstWidths(g, root)[t] <= w[n + 1][t]}
  <2>1. 0 \in S
    BY <1>3, FirstWidthsHold DEF CapsOn
  <2>2. ASSUME NEW n \in 0 .. N - 1, n \in S PROVE n + 1 \in S
    <3> SUFFICES ASSUME (n + 1) + 1 <= N, NEW t \in g.services
                 PROVE  FirstWidths(g, root)[t] <= w[(n + 1) + 1][t]
      BY <1>2
    <3>1. n + 1 \in 1 .. N - 1 /\ n + 1 \in 1 .. N /\ n + 1 <= N /\ n \in Nat
          /\ (n + 1) + 1 \in 1 .. N
      BY <1>2
    <3>2. w[(n + 1) + 1] = WiderBy(g, w[n + 1]) /\ w[n + 1] \in CapsOn(g)
      BY <1>3, <1>4, <3>1
    <3>3. PICK u \in CapsOn(g) : u = w[n + 1]
      BY <3>2
    <3>4. \A c \in 1 .. 3 : u[t] >= c => WiderBy(g, u)[t] >= c
      BY WiderByHolds
    <3>5. u[t] \in 0 .. 3 /\ WiderBy(g, u)[t] \in 0 .. 3 /\ FirstWidths(g, root)[t] \in 0 .. 3
      BY WiderByHolds, FirstWidthsHold DEF CapsOn
    <3>6. FirstWidths(g, root)[t] <= u[t]
      BY <2>2, <3>1, <3>3
    <3>7. u[t] <= WiderBy(g, u)[t]
      BY <3>4, <3>5
    <3>8. FirstWidths(g, root)[t] <= WiderBy(g, u)[t]
      BY <3>5, <3>6, <3>7
    <3> QED BY <3>2, <3>3, <3>8
  <2> HIDE DEF S
  <2>3. 0 .. N \subseteq S
    BY <1>2, <2>1, <2>2, InductionTo
  <2>4. N - 1 \in 0 .. N /\ (N - 1) + 1 = N /\ N <= N
    BY <1>2
  <2> QED BY <2>3, <2>4 DEF S
<1>7. ASSUME NEW v \in CapsOn(g), ClosedOn(g, root, v), NEW t \in g.services PROVE w[N][t] <= v[t]
  <2> DEFINE S == {n \in Nat : n + 1 <= N => \A s \in g.services : w[n + 1][s] <= v[s]}
  <2>1. \A k \in Arcs(g) : g.edges[k].target \in g.services /\ g.edges[k].source \in g.services
                                  /\ g.impact[k] \in 0 .. 3
    BY NetTypes DEF Arcs, Net
  <2>2. ASSUME NEW x \in CapsOn(g), NEW s \in g.services, \A c \in 1 .. 3 : x[s] >= c => v[s] >= c
        PROVE  x[s] <= v[s]
    <3>1. x[s] \in 0 .. 3 /\ v[s] \in 0 .. 3
      BY DEF CapsOn
    <3> QED BY <2>2, <3>1
  <2>3. 0 \in S
    <3> SUFFICES ASSUME NEW s \in g.services PROVE FirstWidths(g, root)[s] <= v[s]
      BY <1>3
    <3>1. ASSUME NEW c \in 1 .. 3, FirstWidths(g, root)[s] >= c PROVE v[s] >= c
      <4>1. PICK k \in Arcs(g) : /\ g.edges[k].source = g.source /\ g.edges[k].target = s
                                        /\ g.edges[k].capability = root /\ g.impact[k] >= c
        BY <3>1, FirstWidthsHold
      <4>2. v[s] >= g.impact[k] /\ v[s] \in 0 .. 3 /\ g.impact[k] \in 0 .. 3
        BY <1>7, <2>1, <4>1 DEF ClosedOn, CapsOn
      <4> QED BY <4>1, <4>2
    <3> QED BY <2>2, <3>1, FirstWidthsHold
  <2>4. ASSUME NEW n \in 0 .. N - 1, n \in S PROVE n + 1 \in S
    <3> SUFFICES ASSUME (n + 1) + 1 <= N, NEW s \in g.services PROVE w[(n + 1) + 1][s] <= v[s]
      BY <1>2
    <3>1. n + 1 \in 1 .. N - 1 /\ n + 1 \in 1 .. N /\ n + 1 <= N /\ n \in Nat
      BY <1>2
    <3>2. w[(n + 1) + 1] = WiderBy(g, w[n + 1]) /\ w[n + 1] \in CapsOn(g)
      BY <1>3, <1>4, <3>1
    <3>3. PICK u \in CapsOn(g) : u = w[n + 1]
      BY <3>2
    <3>4. \A r \in g.services : u[r] <= v[r] /\ u[r] \in 0 .. 3 /\ v[r] \in 0 .. 3
      BY <2>4, <3>1, <3>3 DEF CapsOn
    <3>5. ASSUME NEW c \in 1 .. 3, WiderBy(g, u)[s] >= c PROVE v[s] >= c
      <4>1. CASE u[s] >= c
        BY <3>4, <4>1
      <4>2. CASE \E k \in Arcs(g) : /\ g.edges[k].source # g.source /\ g.edges[k].target = s
                                           /\ u[g.edges[k].source] >= c /\ g.impact[k] >= c
        <5>1. PICK k \in Arcs(g) : /\ g.edges[k].source # g.source /\ g.edges[k].target = s
                                          /\ u[g.edges[k].source] >= c /\ g.impact[k] >= c
          BY <4>2
        <5>2. v[s] >= Lesser(v[g.edges[k].source], g.impact[k])
          BY <1>7, <5>1 DEF ClosedOn
        <5>3. /\ v[g.edges[k].source] >= c /\ v[g.edges[k].source] \in 0 .. 3
              /\ v[s] \in 0 .. 3 /\ g.impact[k] \in 0 .. 3
          BY <2>1, <3>4, <5>1
        <5> QED BY <5>1, <5>2, <5>3 DEF Lesser
      <4> QED BY <3>5, <4>1, <4>2, WiderByHolds
    <3>6. WiderBy(g, u)[s] <= v[s]
      BY <2>2, <3>5, WiderByHolds
    <3> QED BY <3>2, <3>3, <3>6
  <2> HIDE DEF S
  <2>5. 0 .. N \subseteq S
    BY <1>2, <2>3, <2>4, InductionTo
  <2>6. N - 1 \in 0 .. N /\ (N - 1) + 1 = N /\ N <= N
    BY <1>2
  <2> QED BY <2>5, <2>6 DEF S
<1>8. w[N] \in CapsOn(g)
  BY <1>2, <1>4
<1>9. ClosedOn(g, root, w[N])
  <2> SUFFICES ASSUME NEW k \in Arcs(g)
               PROVE  /\ g.edges[k].source = g.source /\ g.edges[k].capability = root
                           => w[N][g.edges[k].target] >= g.impact[k]
                      /\ g.edges[k].source # g.source =>
                           w[N][g.edges[k].target] >= Lesser(w[N][g.edges[k].source], g.impact[k])
    BY DEF ClosedOn
  <2>1. /\ g.edges[k].target \in g.services /\ g.edges[k].source \in g.services /\ g.impact[k] \in 1 .. 3
        /\ w[N][g.edges[k].target] \in 0 .. 3 /\ w[N][g.edges[k].source] \in 0 .. 3
    BY <1>8, NetTypes DEF Arcs, Net, CapsOn
  <2>2. ASSUME g.edges[k].source = g.source, g.edges[k].capability = root
        PROVE  w[N][g.edges[k].target] >= g.impact[k]
    <3>1. FirstWidths(g, root)[g.edges[k].target] >= g.impact[k]
      BY <2>1, <2>2, FirstWidthsHold
    <3>2. FirstWidths(g, root)[g.edges[k].target] \in 0 .. 3
      BY <2>1, FirstWidthsHold DEF CapsOn
    <3> QED BY <1>6, <2>1, <3>1, <3>2
  <2>3. ASSUME g.edges[k].source # g.source
        PROVE  w[N][g.edges[k].target] >= Lesser(w[N][g.edges[k].source], g.impact[k])
    <3>1. PICK c : c = Lesser(w[N][g.edges[k].source], g.impact[k])
      OBVIOUS
    <3>2. c \in 0 .. 3 /\ w[N][g.edges[k].source] >= c /\ g.impact[k] >= c
      BY <2>1, <3>1 DEF Lesser
    <3>3. CASE c = 0
      BY <2>1, <3>1, <3>3
    <3>4. CASE c # 0
      <4>1. c \in 1 .. 3
        BY <3>2, <3>4
      <4>2. g.edges[k].target \in Reached(g, w[N], c)
        BY <1>5, <2>1, <2>3, <3>2, <4>1 DEF Settles, Reached
      <4> QED BY <3>1, <4>2 DEF Reached
    <3> QED BY <3>3, <3>4
  <2> QED BY <2>2, <2>3
<1> QED BY <1>1, <1>7, <1>8, <1>9

-----------------------------------------------------------------------------
(***************************************************************************)
(* DependencyRisk.                                                         *)
(***************************************************************************)

PresentIn(imp) == {k \in DOMAIN Edges : imp[k] > 0}
Impact == [DOMAIN Edges -> 0 .. 3]
Caps4 == [Services -> 0 .. 3]

ClosedUnder(imp, root, v) == \A k \in PresentIn(imp) :
  /\ Edges[k].source = Source /\ Edges[k].capability = root => v[Edges[k].target] >= imp[k]
  /\ Edges[k].source # Source =>
       v[Edges[k].target] >= Graph!Smaller(v[Edges[k].source], imp[k])

WidestOf(imp, root) == Graph!WidestWalks(Services, Source, Edges, imp, root)

LEMMA EdgeTypes ==
  /\ Len(Edges) \in Nat /\ DOMAIN Edges = 1 .. Len(Edges)
  /\ \A k \in DOMAIN Edges : Edges[k].source \in Services /\ Edges[k].target \in Services
BY GraphAssumption

LEMMA GreatestRisk ==
  ASSUME NEW S \in SUBSET (0 .. 3), S # {}
  PROVE  Graph!Max(S) \in S /\ \A x \in S : x <= Graph!Max(S)
<1>1. Graph!Max(S) = Top(S)
  BY DEF Graph!Max, Top
<1> QED BY <1>1, GreatestRank

\* The reference is the least function that is closed under the edges.
LEMMA WidestHolds ==
  ASSUME NEW imp \in Impact, NEW root
  PROVE  /\ WidestOf(imp, root) \in Caps4
         /\ ClosedUnder(imp, root, WidestOf(imp, root))
         /\ \A v \in Caps4 : ClosedUnder(imp, root, v) =>
              \A t \in Services : WidestOf(imp, root)[t] <= v[t]
<1> DEFINE g == [services |-> Services, source |-> Source, edges |-> Edges, impact |-> imp]
           N == Cardinality(Services)
           present == {k \in DOMAIN Edges : imp[k] > 0}
           First == [t \in Services |-> Graph!Max({0} \cup {imp[k] : k \in {j \in present :
                       /\ Edges[j].source = Source /\ Edges[j].target = t
                       /\ Edges[j].capability = root}})]
           Longer(w, n) == [t \in Services |-> Graph!Max({w[n-1][t]} \cup
                            {Graph!Smaller(w[n-1][Edges[k].source], imp[k]) :
                               k \in {j \in present :
                                 Edges[j].source # Source /\ Edges[j].target = t}})]
           OfSteps(w) == [n \in 1 .. N |-> IF n = 1 THEN First ELSE Longer(w, n)]
           width == CHOOSE w : w = OfSteps(w)
<1>1. Graph!Cardinality(Services) = N
  BY DEF Graph!Cardinality, Cardinality
<1>2. WidestOf(imp, root) = width[N]
  BY <1>1 DEF WidestOf, Graph!WidestWalks
<1>3. /\ g.services = Services /\ g.source = Source /\ g.edges = Edges /\ g.impact = imp
  OBVIOUS
<1>4. \A S : Graph!Max(S) = Top(S)
  BY DEF Graph!Max, Top
<1>5. \A x, y : Graph!Smaller(x, y) = Lesser(x, y)
  BY DEF Graph!Smaller, Lesser
<1> HIDE DEF g
<1>6. Arcs(g) = present /\ present = PresentIn(imp)
  BY <1>3 DEF Arcs, PresentIn
<1>7. FirstWidths(g, root) = First
  BY <1>3, <1>4, <1>6 DEF FirstWidths
<1>8. \A w, n : WiderBy(g, w[n - 1]) = Longer(w, n)
  BY <1>3, <1>4, <1>5, <1>6 DEF WiderBy
<1> HIDE DEF First, Longer
<1>9. \A w : WidthsTo(g, w, root, N) <=> w = OfSteps(w)
  BY <1>7, <1>8 DEF WidthsTo
<1> HIDE DEF OfSteps
<1>10. N \in Nat
  BY GraphAssumption, FS_CardinalityType
<1>11. WidthsTo(g, width, root, N)
  <2>1. \E w : w = OfSteps(w)
    BY <1>9, <1>10, WidthsExist
  <2> QED BY <1>9, <2>1
<1> HIDE DEF width
<1>12. Net(g)
  BY <1>3, GraphAssumption DEF Net, Impact
<1>13. CapsOn(g) = Caps4 /\ \A v : ClosedOn(g, root, v) <=> ClosedUnder(imp, root, v)
  BY <1>3, <1>5, <1>6 DEF CapsOn, Caps4, ClosedOn, ClosedUnder
<1>14. PICK last : last = width[N]
  OBVIOUS
<1>15. /\ last \in CapsOn(g) /\ ClosedOn(g, root, last)
       /\ \A v \in CapsOn(g) : ClosedOn(g, root, v) => \A t \in Services : last[t] <= v[t]
  BY <1>3, <1>11, <1>12, <1>14, WidthsAreLeast
<1> QED BY <1>2, <1>13, <1>14, <1>15

-----------------------------------------------------------------------------
\* The adjacency list of a service.
OutTo(f, imp, service, bound) ==
  f = [n \in 0 .. bound |->
         IF n = 0 THEN <<>>
         ELSE IF n \in PresentIn(imp) /\ Edges[n].source = service
              THEN Append(f[n - 1], n) ELSE f[n - 1]]

LEMMA OutExists ==
  ASSUME NEW imp, NEW service, NEW bound \in Nat
  PROVE  \E f : OutTo(f, imp, service, bound)
<1> DEFINE S == {n \in Nat : \E f : OutTo(f, imp, service, n)}
<1>1. 0 \in S
  <2>1. OutTo([n \in 0 .. 0 |-> <<>>], imp, service, 0)
    BY DEF OutTo
  <2> QED BY <2>1
<1>2. ASSUME NEW n \in 0 .. bound - 1, n \in S PROVE n + 1 \in S
  <2>1. n \in Nat
    OBVIOUS
  <2>2. PICK f : OutTo(f, imp, service, n)
    BY <1>2
  <2> DEFINE step(g, i) == IF i = 0 THEN <<>>
                           ELSE IF i \in PresentIn(imp) /\ Edges[i].source = service
                                THEN Append(g[i - 1], i) ELSE g[i - 1]
             longer == [i \in 0 .. n + 1 |-> IF i = n + 1 THEN step(f, n + 1) ELSE f[i]]
  <2>3. ASSUME NEW i \in 0 .. n + 1 PROVE longer[i] = step(longer, i)
    <3>1. CASE i = n + 1
      <4>1. i # 0 /\ longer[i] = step(f, i) /\ longer[i - 1] = f[i - 1]
        BY <2>1, <3>1
      <4> QED BY <4>1
    <3>2. CASE i # n + 1
      <4>1. i \in 0 .. n /\ longer[i] = f[i] /\ (i # 0 => longer[i - 1] = f[i - 1])
        BY <2>1, <3>2
      <4>2. f[i] = step(f, i)
        BY <2>2, <4>1 DEF OutTo
      <4> QED BY <4>1, <4>2
    <3> QED BY <3>1, <3>2
  <2>4. longer = [i \in 0 .. n + 1 |-> step(longer, i)]
    <3>1. longer = [i \in 0 .. n + 1 |-> longer[i]]
      OBVIOUS
    <3> HIDE DEF longer, step
    <3> QED BY <2>3, <3>1
  <2>5. OutTo(longer, imp, service, n + 1)
    <3> HIDE DEF longer
    <3> QED BY <2>4 DEF OutTo
  <2> QED BY <2>1, <2>5
<1> HIDE DEF S
<1>3. bound \in S
  BY <1>1, <1>2, InductionTo
<1> QED BY <1>3 DEF S

LEMMA MembersOfAppend ==
  ASSUME NEW S, NEW a \in Seq(S), NEW x \in S
  PROVE  Append(a, x) \in Seq(S) /\ Members(Append(a, x)) = Members(a) \cup {x}
<1>1. \A i \in 1 .. Len(a) : Append(a, x)[i] = a[i]
  OBVIOUS
<1>2. Append(a, x)[Len(a) + 1] = x /\ Len(Append(a, x)) = Len(a) + 1
  OBVIOUS
<1>3. 1 .. Len(a) + 1 = (1 .. Len(a)) \cup {Len(a) + 1}
  OBVIOUS
<1>4. Members(Append(a, x)) = Members(a) \cup {x}
  BY <1>1, <1>2, <1>3 DEF Members
<1> QED BY <1>4

LEMMA OutgoingIs ==
  ASSUME NEW service
  PROVE  /\ Graph!Outgoing(service) \in Seq(DOMAIN Edges)
         /\ Members(Graph!Outgoing(service)) =
              {k \in PresentIn(impact) : Edges[k].source = service}
<1> DEFINE N == Len(Edges)
           Steps(f) == [n \in 0 .. Len(Edges) |->
             IF n = 0 THEN <<>>
             ELSE IF n \in Graph!Present /\ Edges[n].source = service
                  THEN Append(f[n - 1], n) ELSE f[n - 1]]
           first == CHOOSE f : f = Steps(f)
<1>1. Graph!Outgoing(service) = first[N]
  BY DEF Graph!Outgoing
<1>2. N \in Nat /\ DOMAIN Edges = 1 .. N
  BY EdgeTypes
<1>3. \A f : OutTo(f, impact, service, N) <=> f = Steps(f)
  BY DEF OutTo, PresentIn, Graph!Present
<1> HIDE DEF Steps
<1>4. OutTo(first, impact, service, N)
  <2>1. \E f : f = Steps(f)
    BY <1>2, <1>3, OutExists
  <2> QED BY <1>3, <2>1
<1> HIDE DEF first, N
<1> DEFINE upTo(n) == {k \in PresentIn(impact) : Edges[k].source = service /\ k <= n}
           S == {n \in Nat : n <= N => /\ first[n] \in Seq(DOMAIN Edges)
                                       /\ Members(first[n]) = upTo(n)}
<1>5. PresentIn(impact) \subseteq 1 .. N
  BY <1>2 DEF PresentIn
<1>6. 0 \in S
  <2>1. first[0] = <<>>
    BY <1>2, <1>4 DEF OutTo
  <2>2. Members(<<>>) = {}
    BY DEF Members
  <2>3. upTo(0) = {}
    BY <1>2, <1>5
  <2>4. <<>> \in Seq(DOMAIN Edges)
    OBVIOUS
  <2> QED BY <2>1, <2>2, <2>3, <2>4
<1>7. ASSUME NEW n \in 0 .. N - 1, n \in S PROVE n + 1 \in S
  <2>1. n \in Nat /\ n <= N /\ n + 1 \in 1 .. N /\ n + 1 \in 0 .. N /\ (n + 1) - 1 = n /\ n + 1 # 0
    BY <1>2
  <2>2. first[n] \in Seq(DOMAIN Edges) /\ Members(first[n]) = upTo(n)
    BY <1>7, <2>1
  <2>3. first[n + 1] = IF n + 1 \in PresentIn(impact) /\ Edges[n + 1].source = service
                       THEN Append(first[n], n + 1) ELSE first[n]
    BY <1>4, <2>1 DEF OutTo
  <2>4. \A k \in 1 .. N : k <= n + 1 <=> k <= n \/ k = n + 1
    BY <2>1, <1>2
  <2>5. upTo(n + 1) = IF n + 1 \in PresentIn(impact) /\ Edges[n + 1].source = service
                      THEN upTo(n) \cup {n + 1} ELSE upTo(n)
    BY <1>5, <2>4
  <2> HIDE DEF upTo
  <2>6. PICK a \in Seq(DOMAIN Edges) : a = first[n]
    BY <2>2
  <2>7. Append(a, n + 1) \in Seq(DOMAIN Edges) /\ Members(Append(a, n + 1)) = Members(a) \cup {n + 1}
    BY <1>2, <2>1, MembersOfAppend
  <2>8. first[n + 1] \in Seq(DOMAIN Edges) /\ Members(first[n + 1]) = upTo(n + 1)
    <3>1. CASE n + 1 \in PresentIn(impact) /\ Edges[n + 1].source = service
      BY <2>2, <2>3, <2>5, <2>6, <2>7, <3>1
    <3>2. CASE ~(n + 1 \in PresentIn(impact) /\ Edges[n + 1].source = service)
      BY <2>2, <2>3, <2>5, <3>2
    <3> QED BY <3>1, <3>2
  <2>9. n + 1 \in Nat
    BY <2>1
  <2> QED BY <2>8, <2>9
<1> HIDE DEF S
<1>8. N \in S
  <2>1. 0 .. N \subseteq S
    BY <1>2, <1>6, <1>7, InductionTo
  <2>2. N \in 0 .. N
    BY <1>2
  <2> QED BY <2>1, <2>2
<1>9. upTo(N) = {k \in PresentIn(impact) : Edges[k].source = service}
  BY <1>2, <1>5
<1> QED BY <1>1, <1>2, <1>8, <1>9 DEF S

-----------------------------------------------------------------------------
\* A path that a walk of capability root may take from the source, over edges
\* of impact c at least, and that did not come back to the source on its way.
Journey(imp, path, root, c) ==
  /\ path \in Seq(Services) /\ Len(path) >= 2 /\ path[1] = Source
  /\ \A n \in 2 .. Len(path) - 1 : path[n] # Source
  /\ \A n \in 1 .. Len(path) - 1 : \E k \in PresentIn(imp) :
       /\ Edges[k].source = path[n] /\ Edges[k].target = path[n + 1] /\ imp[k] >= c
       /\ n = 1 => Edges[k].capability = root

\* Caps that are closed under the edges are no smaller than those of a path.
LEMMA JourneyReaches ==
  ASSUME NEW imp \in Impact, NEW root, NEW c \in 1 .. 3, NEW path, Journey(imp, path, root, c),
         NEW v \in Caps4, ClosedUnder(imp, root, v)
  PROVE  v[path[Len(path)]] >= c
<1>1. /\ Len(path) \in Nat /\ Len(path) >= 2 /\ path[1] = Source
      /\ \A n \in 1 .. Len(path) : path[n] \in Services
  BY DEF Journey
<1>2. \A k \in PresentIn(imp) : imp[k] \in 0 .. 3
  BY DEF PresentIn, Impact
<1> DEFINE S == {n \in Nat : n + 2 <= Len(path) => v[path[n + 2]] >= c}
<1>3. 0 \in S
  <2>1. 1 \in 1 .. Len(path) - 1 /\ 1 + 1 = 2 /\ 2 \in 1 .. Len(path)
    BY <1>1
  <2>2. PICK k \in PresentIn(imp) : /\ Edges[k].source = Source /\ Edges[k].target = path[2]
                                    /\ imp[k] >= c /\ Edges[k].capability = root
    BY <1>1, <2>1 DEF Journey
  <2>3. v[path[2]] >= imp[k] /\ v[path[2]] \in 0 .. 3
    BY <1>1, <2>1, <2>2 DEF ClosedUnder, Caps4
  <2>4. v[path[2]] >= c
    BY <1>2, <2>2, <2>3
  <2> QED BY <2>4
<1>4. ASSUME NEW n \in 0 .. Len(path) - 1, n \in S PROVE n + 1 \in S
  <2> SUFFICES ASSUME (n + 1) + 2 <= Len(path) PROVE v[path[(n + 1) + 2]] >= c
    BY <1>1
  <2>1. /\ n \in Nat /\ n + 2 \in 2 .. Len(path) - 1 /\ n + 2 \in 1 .. Len(path) - 1
        /\ (n + 1) + 2 = (n + 2) + 1 /\ n + 2 # 1 /\ n + 2 <= Len(path)
        /\ (n + 2) + 1 \in 1 .. Len(path) /\ n + 2 \in 1 .. Len(path)
    BY <1>1
  <2>2. PICK m : m = n + 2
    OBVIOUS
  <2>3. path[m] # Source /\ v[path[m]] >= c /\ path[m] \in Services /\ path[m + 1] \in Services
    BY <1>1, <1>4, <2>1, <2>2 DEF Journey
  <2>4. PICK k \in PresentIn(imp) : /\ Edges[k].source = path[m] /\ Edges[k].target = path[m + 1]
                                    /\ imp[k] >= c
    BY <2>1, <2>2 DEF Journey
  <2>5. v[path[m + 1]] >= Graph!Smaller(v[path[m]], imp[k])
    BY <2>3, <2>4 DEF ClosedUnder
  <2>6. v[path[m]] \in 0 .. 3 /\ v[path[m + 1]] \in 0 .. 3 /\ imp[k] \in 0 .. 3
    BY <1>2, <2>3 DEF Caps4
  <2>7. v[path[m + 1]] >= c
    BY <2>3, <2>4, <2>5, <2>6 DEF Graph!Smaller
  <2> QED BY <2>1, <2>2, <2>7
<1> HIDE DEF S
<1>5. 0 .. Len(path) \subseteq S
  BY <1>1, <1>3, <1>4, InductionTo
<1>6. Len(path) - 2 \in 0 .. Len(path) /\ (Len(path) - 2) + 2 = Len(path)
  BY <1>1
<1>7. Len(path) - 2 \in S
  BY <1>5, <1>6
<1> QED BY <1>1, <1>6, <1>7 DEF S

LEMMA JourneyGrows ==
  ASSUME NEW imp \in Impact, NEW root, NEW c \in 1 .. 3, NEW path, Journey(imp, path, root, c),
         path[Len(path)] # Source,
         NEW k \in PresentIn(imp), Edges[k].source = path[Len(path)],
         NEW longer, longer = Append(path, Edges[k].target),
         NEW d, d = Graph!Smaller(c, imp[k])
  PROVE  /\ Journey(imp, longer, root, d)
         /\ longer[Len(longer)] = Edges[k].target
<1>1. PICK t : t = Edges[k].target
  OBVIOUS
<1>4. t \in Services /\ path \in Seq(Services) /\ Len(path) >= 2 /\ path[1] = Source
  BY <1>1, EdgeTypes DEF Journey, PresentIn
<1>5. imp[k] \in 1 .. 3 /\ \A j \in PresentIn(imp) : imp[j] \in 0 .. 3
  BY DEF PresentIn, Impact
<1>6. d \in 1 .. 3 /\ d <= c /\ d <= imp[k]
  BY <1>5 DEF Graph!Smaller
<1>7. /\ longer \in Seq(Services) /\ Len(longer) = Len(path) + 1 /\ Len(path) \in Nat
      /\ longer[Len(path) + 1] = t /\ \A n \in 1 .. Len(path) : longer[n] = path[n]
  BY <1>1, <1>4
<1>8. ASSUME NEW n \in 2 .. Len(longer) - 1 PROVE longer[n] # Source
  <2>1. n \in 1 .. Len(path) /\ (n \in 2 .. Len(path) - 1 \/ n = Len(path))
    BY <1>4, <1>7
  <2>2. longer[n] = path[n]
    BY <1>7, <2>1
  <2> QED BY <2>1, <2>2 DEF Journey
<1>9. ASSUME NEW n \in 1 .. Len(longer) - 1
      PROVE  \E j \in PresentIn(imp) :
               /\ Edges[j].source = longer[n] /\ Edges[j].target = longer[n + 1] /\ imp[j] >= d
               /\ n = 1 => Edges[j].capability = root
  <2>1. CASE n = Len(path)
    <3>1. longer[n] = path[Len(path)] /\ longer[n + 1] = t /\ n # 1
      BY <1>4, <1>7, <2>1
    <3> QED BY <1>1, <1>5, <1>6, <3>1
  <2>2. CASE n # Len(path)
    <3>1. n \in 1 .. Len(path) - 1 /\ n \in 1 .. Len(path) /\ n + 1 \in 1 .. Len(path)
      BY <1>4, <1>7, <2>2
    <3>2. longer[n] = path[n] /\ longer[n + 1] = path[n + 1]
      BY <1>7, <3>1
    <3>3. PICK j \in PresentIn(imp) :
            /\ Edges[j].source = path[n] /\ Edges[j].target = path[n + 1] /\ imp[j] >= c
            /\ n = 1 => Edges[j].capability = root
      BY <3>1 DEF Journey
    <3>4. imp[j] >= d
      <4>1. imp[j] \in 0 .. 3 /\ imp[j] >= c
        BY <1>5, <3>3
      <4>2. \A x \in 0 .. 3 : x >= c => x >= d
        BY <1>6
      <4> QED BY <4>1, <4>2
    <3> QED BY <3>2, <3>3, <3>4
  <2> QED BY <2>1, <2>2
<1>10. Len(longer) >= 2 /\ longer[1] = Source
  BY <1>4, <1>7
<1>11. Journey(imp, longer, root, d)
  BY <1>7, <1>8, <1>9, <1>10 DEF Journey
<1>12. longer[Len(longer)] = t
  BY <1>7
<1> QED BY <1>1, <1>11, <1>12

LEMMA FirstJourney ==
  ASSUME NEW imp \in Impact, NEW k \in PresentIn(imp), Edges[k].source = Source
  PROVE  /\ Journey(imp, <<Source, Edges[k].target>>, Edges[k].capability, imp[k])
         /\ imp[k] \in 1 .. 3
<1>1. PICK t : t = Edges[k].target
  OBVIOUS
<1>2. imp[k] \in 1 .. 3 /\ t \in Services /\ Source \in Services
  BY <1>1, EdgeTypes, GraphAssumption DEF PresentIn, Impact
<1>3. PICK path : path = <<Source, t>>
  OBVIOUS
<1>4. path \in Seq(Services) /\ Len(path) = 2 /\ path[1] = Source /\ path[2] = t
  BY <1>2, <1>3
<1>5. ASSUME NEW n \in 1 .. Len(path) - 1 PROVE n = 1 /\ path[n] = Source /\ path[n + 1] = t
  BY <1>4
<1>6. 2 .. Len(path) - 1 = {}
  BY <1>4
<1>7. imp[k] >= imp[k]
  BY <1>2
<1> QED BY <1>1, <1>2, <1>3, <1>4, <1>5, <1>6, <1>7 DEF Journey

-----------------------------------------------------------------------------
Risks == Graph!Statuses \ {"maintenance"}

LEMMA RiskIs ==
  ASSUME NEW d \in Graph!Statuses, NEW c \in 1 .. 3
  PROVE  /\ Graph!RiskThrough(d, c) \in Risks
         /\ Graph!RiskThrough(d, c) = "operational" <=> d = "operational"
<1>1. CASE d \in {"maintenance", "unknown"}
  BY <1>1 DEF Graph!RiskThrough, Risks, Graph!Statuses
<1>2. CASE d = "operational"
  <2>1. Graph!Smaller(Graph!FailureRank(d), c) = 0
    BY <1>2 DEF Graph!Smaller, Graph!FailureRank
  <2> QED BY <1>2, <2>1 DEF Graph!RiskThrough, Graph!FromFailureRank, Risks, Graph!Statuses
<1>3. CASE d \in Graph!Failures
  <2>1. Graph!FailureRank(d) \in 1 .. 3
    BY <1>3 DEF Graph!FailureRank, Graph!Failures
  <2>2. Graph!Smaller(Graph!FailureRank(d), c) \in 1 .. 3
    BY <2>1 DEF Graph!Smaller
  <2>3. Graph!RiskThrough(d, c) = Graph!FromFailureRank(Graph!Smaller(Graph!FailureRank(d), c))
    BY <1>3 DEF Graph!RiskThrough, Graph!Failures
  <2>4. \A n \in 1 .. 3 : Graph!FromFailureRank(n) \in Graph!Failures
    BY DEF Graph!FromFailureRank, Graph!Failures
  <2> QED BY <1>3, <2>2, <2>3, <2>4 DEF Risks, Graph!Statuses, Graph!Failures
<1> QED BY <1>1, <1>2, <1>3 DEF Graph!Statuses

LEMMA StrongestIs ==
  ASSUME NEW R \in SUBSET Risks, NEW a, a = Graph!StrongestRisk(R)
  PROVE  /\ a \in Risks
         /\ a = "operational" => R \subseteq {"operational"}
         /\ a = "unknown" => "unknown" \in R /\ R \cap Graph!Failures = {}
         /\ a \notin {"operational", "unknown"} =>
              /\ a \in R
              /\ \A r \in R \cap Graph!Failures : Graph!FailureRank(r) <= Graph!FailureRank(a)
<1> DEFINE ranks == {Graph!FailureRank(r) : r \in R \ {"unknown"}}
           S == {0} \cup ranks
           worst == Graph!Max(S)
<1>1. /\ \A r \in R \ {"unknown"} : r \in Graph!Failures \cup {"operational"}
      /\ \A r \in R \ {"unknown"} : /\ Graph!FailureRank(r) \in 0 .. 3
                                    /\ Graph!FromFailureRank(Graph!FailureRank(r)) = r
                                    /\ Graph!FailureRank(r) = 0 => r = "operational"
  <2>1. \A r \in R \ {"unknown"} : r \in {"degraded", "partial_outage", "major_outage", "operational"}
    BY DEF Risks, Graph!Statuses, Graph!Failures
  <2> QED BY <2>1 DEF Graph!FailureRank, Graph!FromFailureRank, Graph!Failures
<1>2. S \in SUBSET (0 .. 3) /\ S # {}
  BY <1>1
<1>3. worst \in S /\ \A x \in S : x <= worst
  <2> HIDE DEF S
  <2> QED BY <1>2, GreatestRisk
<1>4. worst \in 0 .. 3
  BY <1>2, <1>3
<1>5. a = IF worst = 0 /\ "unknown" \in R THEN "unknown" ELSE Graph!FromFailureRank(worst)
  BY DEF Graph!StrongestRisk
<1>6. \A r \in R \ {"unknown"} : Graph!FailureRank(r) <= worst
  BY <1>3
<1>7. worst # 0 => \E r \in R \ {"unknown"} : worst = Graph!FailureRank(r)
  BY <1>3
<1> HIDE DEF worst
<1>8. CASE worst = 0
  <2>1. \A r \in R \ {"unknown"} : r = "operational"
    BY <1>1, <1>6, <1>8
  <2>2. a = IF "unknown" \in R THEN "unknown" ELSE "operational"
    BY <1>5, <1>8 DEF Graph!FromFailureRank
  <2> QED BY <2>1, <2>2 DEF Risks, Graph!Statuses, Graph!Failures
<1>9. CASE worst # 0
  <2>1. PICK r \in R \ {"unknown"} : worst = Graph!FailureRank(r)
    BY <1>7, <1>9
  <2>2. a = r
    BY <1>1, <1>5, <1>9, <2>1
  <2>3. r \in Graph!Failures
    <3>1. r # "operational"
      BY <1>9, <2>1 DEF Graph!FailureRank
    <3> QED BY <1>1, <3>1
  <2>4. "unknown" \notin Graph!Failures /\ "operational" \notin Graph!Failures
    BY DEF Graph!Failures
  <2>5. \A q \in R \cap Graph!Failures : Graph!FailureRank(q) <= Graph!FailureRank(a)
    BY <1>6, <2>1, <2>2, <2>4
  <2> QED BY <2>1, <2>2, <2>3, <2>4, <2>5 DEF Risks, Graph!Statuses
<1> QED BY <1>8, <1>9

-----------------------------------------------------------------------------
\* Walks that can be on the queue, and what each covers.
Walks(imp) ==
  {w \in [edge : PresentIn(imp), path : Seq(Services), cap : 1 .. 3, root : Graph!Capabilities] :
     /\ Journey(imp, w.path, w.root, w.cap)
     /\ w.path[Len(w.path)] = Edges[w.edge].target}

Reach(vis, q, t, root, c) ==
  \/ vis[<<t, root>>] >= c
  \/ \E n \in 1 .. Len(q) : /\ Edges[q[n].edge].target = t /\ q[n].root = root
                            /\ q[n].cap >= c

\* No cap is lost: what an edge means for a cap that was taken is taken as
\* well, or is waiting.
NoneLost(imp, vis, q) == \A root \in Graph!Capabilities, k \in PresentIn(imp) :
  /\ Edges[k].source = Source /\ Edges[k].capability = root
       => Reach(vis, q, Edges[k].target, root, imp[k])
  /\ Edges[k].source # Source
       => Reach(vis, q, Edges[k].target, root, Graph!Smaller(vis[<<Edges[k].source, root>>], imp[k]))

SourceClosed(imp, vis) == \A k \in PresentIn(imp) :
  Edges[k].source = Source => vis[<<Source, Edges[k].capability>>] = 3

\* The contributor of a service and a root capability is that of a journey of
\* its best cap so far.
Contributes(imp, dir, con, key, c) ==
  IF key[1] = Source \/ c = 0 THEN con = Graph!NoRisk
  ELSE /\ con.risk = Graph!RiskThrough(dir[key[1]], c)
       /\ con.risk = "operational" => con = Graph!NoRisk
       /\ \E path \in Seq(Services) :
            /\ Journey(imp, path, key[2], c) /\ path[Len(path)] = key[1]
            /\ con.risk # "operational" => con.path = path

GraphTypes ==
  /\ impact \in [DOMAIN Edges -> Impacts] /\ direct \in [Services -> Reported]
  /\ visited \in [Graph!Keys -> 0 .. 3] /\ queue \in Seq(Walks(impact))
  /\ contributors \in [Graph!Keys -> [risk : Risks, path : Seq(Services)]]

AnswerFollows ==
  answer # "none" =>
    queue = <<>> /\ answer = Graph!StrongestRisk({contributors[key].risk : key \in Graph!Keys})

GraphInv ==
  /\ GraphTypes
  /\ NoneLost(impact, visited, queue) /\ SourceClosed(impact, visited)
  /\ \A key \in Graph!Keys :
       Contributes(impact, direct, contributors[key], key, visited[key])
  /\ AnswerFollows

LEMMA EdgeKeys ==
  /\ \A k \in DOMAIN Edges : Edges[k].capability \in Graph!Capabilities
  /\ \A t \in Services, root \in Graph!Capabilities : <<t, root>> \in Graph!Keys
  /\ \A key \in Graph!Keys : /\ key[1] \in Services /\ key[2] \in Graph!Capabilities
                             /\ key = <<key[1], key[2]>>
<1>1. \A k \in DOMAIN Edges : Edges[k].capability \in Graph!Capabilities
  BY DEF Graph!Capabilities, Graph!Range
<1> QED BY <1>1 DEF Graph!Keys

LEMMA ImpactTypes ==
  ASSUME impact \in [DOMAIN Edges -> Impacts]
  PROVE  impact \in Impact
BY GraphAssumption DEF Impact

LEMMA GraphInit == EdgesInit => GraphInv
<1> SUFFICES ASSUME EdgesInit PROVE GraphInv
  OBVIOUS
<1>1. PICK first : first = Graph!Outgoing(Source)
  OBVIOUS
<1>2. /\ impact \in [DOMAIN Edges -> Impacts] /\ direct \in [Services -> Reported]
      /\ visited = [key \in Graph!Keys |->
           IF key[1] = Source /\ \E k \in Graph!Range(first) : Edges[k].capability = key[2]
           THEN 3 ELSE 0]
      /\ queue = [n \in DOMAIN first |-> Graph!FirstWalk(first[n])]
      /\ contributors = [key \in Graph!Keys |-> Graph!NoRisk] /\ answer = "none"
  BY <1>1 DEF EdgesInit, Graph!Init
<1>3. /\ first \in Seq(DOMAIN Edges)
      /\ Members(first) = {k \in PresentIn(impact) : Edges[k].source = Source}
  BY <1>1, OutgoingIs
<1>4. Graph!Range(first) = Members(first)
  BY <1>3 DEF Graph!Range, Members
<1>5. impact \in Impact
  BY <1>2, ImpactTypes
<1>6. \A n \in 1 .. Len(first) : first[n] \in PresentIn(impact) /\ Edges[first[n]].source = Source
  BY <1>3 DEF Members
<1>7. ASSUME NEW n \in 1 .. Len(first) PROVE Graph!FirstWalk(first[n]) \in Walks(impact)
  <2>1. PICK k \in PresentIn(impact) : k = first[n] /\ Edges[k].source = Source
    BY <1>6
  <2>2. Graph!FirstWalk(k) = [edge |-> k, path |-> <<Source, Edges[k].target>>,
                              cap |-> impact[k], root |-> Edges[k].capability]
    BY DEF Graph!FirstWalk, Graph!Walk
  <2>3. Journey(impact, <<Source, Edges[k].target>>, Edges[k].capability, impact[k])
        /\ impact[k] \in 1 .. 3
    BY <1>5, <2>1, FirstJourney
  <2>4. Edges[k].capability \in Graph!Capabilities
    BY EdgeKeys DEF PresentIn
  <2>5. <<Source, Edges[k].target>> \in Seq(Services)
    BY <2>3 DEF Journey
  <2>6. <<Source, Edges[k].target>>[Len(<<Source, Edges[k].target>>)] = Edges[k].target
    OBVIOUS
  <2>7. PICK path \in Seq(Services) : path = <<Source, Edges[k].target>>
    BY <2>5
  <2>8. [edge |-> k, path |-> path, cap |-> impact[k], root |-> Edges[k].capability]
          \in Walks(impact)
    BY <2>3, <2>4, <2>6, <2>7 DEF Walks
  <2> QED BY <2>1, <2>2, <2>7, <2>8
<1>8. queue \in Seq(Walks(impact)) /\ Len(queue) = Len(first)
      /\ \A n \in 1 .. Len(first) : queue[n] = Graph!FirstWalk(first[n])
  <2>1. Len(first) \in Nat /\ DOMAIN first = 1 .. Len(first)
    BY <1>3
  <2> QED BY <1>2, <1>7, <2>1
<1>9. SourceClosed(impact, visited)
  <2> SUFFICES ASSUME NEW k \in PresentIn(impact), Edges[k].source = Source
               PROVE  visited[<<Source, Edges[k].capability>>] = 3
    BY DEF SourceClosed
  <2>1. k \in Graph!Range(first)
    BY <1>3, <1>4
  <2>2. <<Source, Edges[k].capability>> \in Graph!Keys
    BY EdgeKeys, GraphAssumption DEF PresentIn
  <2> QED BY <1>2, <2>1, <2>2
<1>10. \A t \in Services, root \in Graph!Capabilities : t # Source => visited[<<t, root>>] = 0
  BY <1>2, EdgeKeys
<1>11. NoneLost(impact, visited, queue)
  <2> SUFFICES ASSUME NEW root \in Graph!Capabilities, NEW k \in PresentIn(impact)
               PROVE  /\ Edges[k].source = Source /\ Edges[k].capability = root
                           => Reach(visited, queue, Edges[k].target, root, impact[k])
                      /\ Edges[k].source # Source
                           => Reach(visited, queue, Edges[k].target, root,
                                    Graph!Smaller(visited[<<Edges[k].source, root>>], impact[k]))
    BY DEF NoneLost
  <2>1. /\ Edges[k].source \in Services /\ Edges[k].target \in Services
        /\ impact[k] \in 1 .. 3
    BY <1>5, EdgeTypes DEF PresentIn, Impact
  <2>2. ASSUME Edges[k].source = Source, Edges[k].capability = root
        PROVE  Reach(visited, queue, Edges[k].target, root, impact[k])
    <3>1. k \in Members(first)
      BY <1>3, <2>2
    <3>2. PICK n \in 1 .. Len(first) : first[n] = k
      BY <3>1 DEF Members
    <3>3. queue[n].edge = k /\ queue[n].root = root /\ queue[n].cap = impact[k]
      <4>1. queue[n] = Graph!FirstWalk(k)
        BY <1>8, <3>2
      <4>2. Graph!FirstWalk(k) = [edge |-> k, path |-> <<Source, Edges[k].target>>,
                                  cap |-> impact[k], root |-> Edges[k].capability]
        BY DEF Graph!FirstWalk, Graph!Walk
      <4> QED BY <2>2, <4>1, <4>2
    <3>4. impact[k] >= impact[k] /\ n \in 1 .. Len(queue)
      BY <1>8, <2>1
    <3> QED BY <3>3, <3>4 DEF Reach
  <2>3. ASSUME Edges[k].source # Source
        PROVE  Reach(visited, queue, Edges[k].target, root,
                     Graph!Smaller(visited[<<Edges[k].source, root>>], impact[k]))
    <3>1. visited[<<Edges[k].source, root>>] = 0
      BY <1>10, <2>1, <2>3
    <3>2. Graph!Smaller(visited[<<Edges[k].source, root>>], impact[k]) = 0
      BY <2>1, <3>1 DEF Graph!Smaller
    <3>3. visited[<<Edges[k].target, root>>] \in {0, 3}
      BY <1>2, <2>1, EdgeKeys
    <3> QED BY <3>2, <3>3 DEF Reach
  <2> QED BY <2>2, <2>3
<1>12. ASSUME NEW key \in Graph!Keys
       PROVE  Contributes(impact, direct, contributors[key], key, visited[key])
  <2>1. contributors[key] = Graph!NoRisk /\ (key[1] = Source \/ visited[key] = 0)
    BY <1>2
  <2> QED BY <2>1 DEF Contributes
<1>13. Graph!NoRisk \in [risk : Risks, path : Seq(Services)]
  BY DEF Graph!NoRisk, Risks, Graph!Statuses
<1>14. GraphTypes
  BY <1>2, <1>8, <1>13 DEF GraphTypes
<1>15. AnswerFollows
  BY <1>2 DEF AnswerFollows
<1> QED BY <1>9, <1>11, <1>12, <1>14, <1>15 DEF GraphInv

-----------------------------------------------------------------------------
LEMMA WalkTypes ==
  ASSUME NEW w, w \in Walks(impact), impact \in Impact
  PROVE  /\ w.edge \in PresentIn(impact) /\ w.edge \in DOMAIN Edges
         /\ w.path \in Seq(Services) /\ w.cap \in 1 .. 3
         /\ w.root \in Graph!Capabilities /\ Journey(impact, w.path, w.root, w.cap)
         /\ w.path[Len(w.path)] = Edges[w.edge].target /\ Edges[w.edge].target \in Services
         /\ Graph!KeyOf(w) = <<Edges[w.edge].target, w.root>> /\ Graph!KeyOf(w) \in Graph!Keys
         /\ Graph!KeyOf(w)[1] = Edges[w.edge].target /\ Graph!KeyOf(w)[2] = w.root
BY EdgeTypes, EdgeKeys DEF Walks, PresentIn, Graph!KeyOf

\* The queue without its head.
LEMMA TailIs ==
  ASSUME NEW S, NEW q \in Seq(S), q # <<>>
  PROVE  /\ Head(q) \in S /\ Head(q) = q[1] /\ Tail(q) \in Seq(S)
         /\ Len(Tail(q)) = Len(q) - 1 /\ Len(q) \in Nat \ {0}
         /\ \A n \in 2 .. Len(q) : n - 1 \in 1 .. Len(Tail(q)) /\ Tail(q)[n - 1] = q[n]
OBVIOUS

LEMMA SkipKeeps == GraphInv /\ Graph!Skip => GraphInv'
<1> SUFFICES ASSUME GraphInv, Graph!Skip PROVE GraphInv'
  OBVIOUS
<1>1. /\ queue # <<>> /\ visited[Graph!KeyOf(Head(queue))] >= Head(queue).cap
      /\ queue' = Tail(queue)
      /\ UNCHANGED <<impact, direct, visited, contributors, answer>>
  BY DEF Graph!Skip, Graph!Seen
<1>2. GraphTypes
  BY DEF GraphInv
<1>3. impact \in Impact
  BY <1>2, ImpactTypes DEF GraphTypes
<1>4. queue \in Seq(Walks(impact))
  BY <1>2 DEF GraphTypes
<1>5. /\ Head(queue) \in Walks(impact) /\ Head(queue) = queue[1] /\ Tail(queue) \in Seq(Walks(impact))
      /\ Len(Tail(queue)) = Len(queue) - 1 /\ Len(queue) \in Nat \ {0}
      /\ \A n \in 2 .. Len(queue) : n - 1 \in 1 .. Len(Tail(queue)) /\ Tail(queue)[n - 1] = queue[n]
  <2>1. PICK S : S = Walks(impact)
    OBVIOUS
  <2> QED BY <1>1, <1>4, <2>1, TailIs
<1>6. ASSUME NEW t \in Services, NEW root \in Graph!Capabilities, NEW c \in 0 .. 3,
             Reach(visited, queue, t, root, c)
      PROVE  Reach(visited, queue', t, root, c)
  <2>1. PICK w \in Walks(impact) : w = Head(queue)
    BY <1>5
  <2>2. visited[<<t, root>>] \in 0 .. 3
    BY <1>2, EdgeKeys DEF GraphTypes
  <2>3. CASE visited[<<t, root>>] >= c
    BY <2>3 DEF Reach
  <2>4. CASE \E n \in 1 .. Len(queue) : /\ Edges[queue[n].edge].target = t /\ queue[n].root = root
                                        /\ queue[n].cap >= c
    <3>1. PICK n \in 1 .. Len(queue) : /\ Edges[queue[n].edge].target = t /\ queue[n].root = root
                                       /\ queue[n].cap >= c
      BY <2>4
    <3>2. CASE n = 1
      <4>1. Graph!KeyOf(w) = <<t, root>> /\ w.cap \in 1 .. 3 /\ w.cap >= c
        BY <1>3, <1>5, <2>1, <3>1, <3>2, WalkTypes
      <4>2. visited[<<t, root>>] >= w.cap
        BY <1>1, <2>1, <4>1
      <4>3. visited[<<t, root>>] >= c
        BY <2>2, <4>1, <4>2
      <4> QED BY <4>3 DEF Reach
    <3>3. CASE n # 1
      <4>1. n \in 2 .. Len(queue)
        BY <1>5, <3>3
      <4>2. n - 1 \in 1 .. Len(queue') /\ queue'[n - 1] = queue[n]
        BY <1>1, <1>5, <4>1
      <4> QED BY <3>1, <4>2 DEF Reach
    <3> QED BY <3>2, <3>3
  <2> QED BY <1>6, <2>3, <2>4 DEF Reach
<1>7. NoneLost(impact, visited, queue')
  <2> SUFFICES ASSUME NEW root \in Graph!Capabilities, NEW k \in PresentIn(impact)
               PROVE  /\ Edges[k].source = Source /\ Edges[k].capability = root
                           => Reach(visited, queue', Edges[k].target, root, impact[k])
                      /\ Edges[k].source # Source
                           => Reach(visited, queue', Edges[k].target, root,
                                    Graph!Smaller(visited[<<Edges[k].source, root>>], impact[k]))
    BY DEF NoneLost
  <2>1. /\ Edges[k].source \in Services /\ Edges[k].target \in Services /\ impact[k] \in 0 .. 3
    BY <1>3, EdgeTypes DEF PresentIn, Impact
  <2>2. visited[<<Edges[k].source, root>>] \in 0 .. 3
    BY <1>2, <2>1, EdgeKeys DEF GraphTypes
  <2>3. Graph!Smaller(visited[<<Edges[k].source, root>>], impact[k]) \in 0 .. 3
    BY <2>1, <2>2 DEF Graph!Smaller
  <2> QED BY <1>6, <2>1, <2>3 DEF GraphInv, NoneLost
<1>8. GraphTypes'
  BY <1>1, <1>2, <1>5 DEF GraphTypes
<1>9. AnswerFollows'
  BY <1>1 DEF AnswerFollows, GraphInv
<1>10. SourceClosed(impact, visited)'
  BY <1>1 DEF GraphInv, SourceClosed
<1>11. NoneLost(impact, visited, queue)'
  BY <1>1, <1>7
<1>12. \A key \in Graph!Keys :
         Contributes(impact, direct, contributors[key], key, visited[key])'
  BY <1>1 DEF GraphInv
<1> QED BY <1>8, <1>9, <1>10, <1>11, <1>12 DEF GraphInv

LEMMA ReportKeeps == GraphInv /\ Graph!Answer => GraphInv'
<1> SUFFICES ASSUME GraphInv, Graph!Answer PROVE GraphInv'
  OBVIOUS
<1>1. /\ queue = <<>>
      /\ answer' = Graph!StrongestRisk({contributors[key].risk : key \in Graph!Keys})
      /\ UNCHANGED <<impact, direct, visited, queue, contributors>>
  BY DEF Graph!Answer
<1>2. AnswerFollows'
  BY <1>1 DEF AnswerFollows
<1>3. GraphTypes'
  BY <1>1 DEF GraphTypes, GraphInv
<1>4. SourceClosed(impact, visited)' /\ NoneLost(impact, visited, queue)'
  BY <1>1 DEF GraphInv
<1>5. \A key \in Graph!Keys :
         Contributes(impact, direct, contributors[key], key, visited[key])'
  BY <1>1 DEF GraphInv
<1> QED BY <1>2, <1>3, <1>4, <1>5 DEF GraphInv

-----------------------------------------------------------------------------
LEMMA LongerIs ==
  ASSUME impact \in Impact, NEW w \in Walks(impact), Edges[w.edge].target # Source,
         NEW k \in PresentIn(impact), Edges[k].source = Edges[w.edge].target
  PROVE  /\ Graph!LongerWalk(w, k) \in Walks(impact)
         /\ Graph!LongerWalk(w, k).edge = k /\ Graph!LongerWalk(w, k).root = w.root
         /\ Graph!LongerWalk(w, k).cap = Graph!Smaller(w.cap, impact[k])
<1>0. PICK c \in 1 .. 3 : c = w.cap
  BY WalkTypes
<1>1. PICK path, root : path = w.path /\ root = w.root /\ c = w.cap
  BY <1>0
<1>2. /\ path \in Seq(Services) /\ c \in 1 .. 3 /\ root \in Graph!Capabilities
      /\ Journey(impact, path, root, c) /\ path[Len(path)] = Edges[w.edge].target
  BY <1>1, WalkTypes
<1>3. PICK longer, less : longer = Append(path, Edges[k].target) /\ less = Graph!Smaller(c, impact[k])
  OBVIOUS
<1>4. /\ Journey(impact, longer, root, less) /\ less \in 1 .. 3
      /\ longer[Len(longer)] = Edges[k].target
  <2>1. path[Len(path)] # Source /\ Edges[k].source = path[Len(path)]
    BY <1>2
  <2>2. k \in PresentIn(impact) /\ impact \in Impact
    OBVIOUS
  <2>3. Journey(impact, path, root, c)
    BY <1>2
  <2>4. longer = Append(path, Edges[k].target)
    BY <1>3
  <2>5. less = Graph!Smaller(c, impact[k])
    BY <1>3
  <2>6. Journey(impact, longer, root, less)
    BY <2>1, <2>2, <2>3, <2>4, <2>5, JourneyGrows
  <2>7. less \in 1 .. 3
    <3>1. impact[k] \in 1 .. 3
      BY <2>2 DEF PresentIn, Impact
    <3> QED BY <2>5, <3>1 DEF Graph!Smaller
  <2>8. longer[Len(longer)] = Edges[k].target
    BY <2>1, <2>2, <2>3, <2>4, <2>5, JourneyGrows
  <2> QED BY <2>6, <2>7, <2>8
<1>5. Graph!LongerWalk(w, k) = [edge |-> k, path |-> longer, cap |-> less, root |-> root]
  BY <1>1, <1>3 DEF Graph!LongerWalk, Graph!Walk
<1>6. longer \in Seq(Services)
  BY <1>4 DEF Journey
<1>7. [edge |-> k, path |-> longer, cap |-> less, root |-> root] \in Walks(impact)
  BY <1>2, <1>4, <1>6 DEF Walks
<1> QED BY <1>1, <1>3, <1>5, <1>7

LEMMA TakeKeeps == GraphInv /\ Graph!Take => GraphInv'
<1> SUFFICES ASSUME GraphInv, Graph!Take PROVE GraphInv'
  OBVIOUS
<1>1. PICK w, key, next :
        /\ w = Head(queue) /\ key = Graph!KeyOf(w)
        /\ next = Graph!Outgoing(Edges[w.edge].target)
  OBVIOUS
<1>2. /\ queue # <<>> /\ ~(visited[key] >= w.cap)
      /\ visited' = [visited EXCEPT ![key] = w.cap]
      /\ Graph!Contribute(w)
      /\ queue' = Tail(queue) \o [n \in DOMAIN next |-> Graph!LongerWalk(w, next[n])]
      /\ UNCHANGED <<impact, direct, answer>>
  BY <1>1 DEF Graph!Take, Graph!Seen
<1>3. GraphTypes
  BY DEF GraphInv
<1>4. impact \in Impact
  BY <1>3, ImpactTypes DEF GraphTypes
<1>5. queue \in Seq(Walks(impact))
  BY <1>3 DEF GraphTypes
<1>6. /\ w \in Walks(impact) /\ w = queue[1] /\ Tail(queue) \in Seq(Walks(impact))
      /\ Len(Tail(queue)) = Len(queue) - 1 /\ Len(queue) \in Nat \ {0}
      /\ \A n \in 2 .. Len(queue) : n - 1 \in 1 .. Len(Tail(queue)) /\ Tail(queue)[n - 1] = queue[n]
  <2>1. PICK S : S = Walks(impact)
    OBVIOUS
  <2> QED BY <1>1, <1>2, <1>5, <2>1, TailIs
<1>7. PICK t, root, c : t = Edges[w.edge].target /\ root = w.root /\ c = w.cap
  OBVIOUS
<1>8. /\ c \in 1 .. 3 /\ t \in Services /\ root \in Graph!Capabilities
      /\ key = <<t, root>> /\ key \in Graph!Keys /\ key[1] = t /\ key[2] = root
      /\ w.path \in Seq(Services) /\ Journey(impact, w.path, root, c) /\ w.path[Len(w.path)] = t
  BY <1>1, <1>4, <1>6, <1>7, WalkTypes
<1>9. /\ \A x \in Graph!Keys : visited[x] \in 0 .. 3
      /\ \A x \in Graph!Keys : visited'[x] = IF x = key THEN c ELSE visited[x]
      /\ visited' \in [Graph!Keys -> 0 .. 3] /\ visited[key] < c
  <2>1. visited \in [Graph!Keys -> 0 .. 3]
    BY <1>3 DEF GraphTypes
  <2>2. visited' = [visited EXCEPT ![key] = c] /\ ~(visited[key] >= c)
    BY <1>2, <1>7
  <2>3. visited[key] \in 0 .. 3
    BY <1>8, <2>1
  <2> QED BY <1>8, <2>1, <2>2, <2>3
\* The source is seen at the best cap already.
<1>10. t # Source
  <2>1. 1 \in 1 .. Len(w.path) - 1
    BY <1>8 DEF Journey
  <2>2. PICK k \in PresentIn(impact) : Edges[k].source = Source /\ Edges[k].capability = root
    BY <1>8, <2>1 DEF Journey
  <2>3. visited[<<Source, root>>] = 3
    BY <2>2 DEF GraphInv, SourceClosed
  <2> QED BY <1>8, <1>9, <2>3
<1>11. /\ next \in Seq(DOMAIN Edges) /\ Len(next) \in Nat /\ DOMAIN next = 1 .. Len(next)
       /\ Members(next) = {k \in PresentIn(impact) : Edges[k].source = t}
  BY <1>1, <1>7, OutgoingIs
<1>12. PICK more : more = [n \in DOMAIN next |-> Graph!LongerWalk(w, next[n])]
  OBVIOUS
<1>13. \A n \in 1 .. Len(next) : next[n] \in PresentIn(impact) /\ Edges[next[n]].source = t
  BY <1>11 DEF Members
<1>14. more \in Seq(Walks(impact)) /\ Len(more) = Len(next)
       /\ \A n \in 1 .. Len(next) : more[n] = Graph!LongerWalk(w, next[n])
  <2>1. \A n \in 1 .. Len(next) : Graph!LongerWalk(w, next[n]) \in Walks(impact)
    BY <1>4, <1>6, <1>7, <1>10, <1>13, LongerIs
  <2> QED BY <1>11, <1>12, <2>1
<1>15. queue' = Tail(queue) \o more
  BY <1>2, <1>12
<1>16. /\ queue' \in Seq(Walks(impact)) /\ Len(queue') = Len(Tail(queue)) + Len(more)
       /\ \A n \in 1 .. Len(Tail(queue)) : n \in 1 .. Len(queue') /\ queue'[n] = Tail(queue)[n]
       /\ \A n \in 1 .. Len(more) : Len(Tail(queue)) + n \in 1 .. Len(queue')
                                    /\ queue'[Len(Tail(queue)) + n] = more[n]
  <2>0. PICK S : S = Walks(impact)
    OBVIOUS
  <2>1. PICK a \in Seq(S), b \in Seq(S) : a = Tail(queue) /\ b = more
    BY <1>6, <1>14, <2>0
  <2>2. /\ a \o b \in Seq(S) /\ Len(a \o b) = Len(a) + Len(b) /\ Len(a) \in Nat /\ Len(b) \in Nat
        /\ \A n \in 1 .. Len(a) : (a \o b)[n] = a[n]
        /\ \A n \in 1 .. Len(b) : (a \o b)[Len(a) + n] = b[n]
    OBVIOUS
  <2>3. /\ \A n \in 1 .. Len(a) : n \in 1 .. Len(a) + Len(b)
        /\ \A n \in 1 .. Len(b) : Len(a) + n \in 1 .. Len(a) + Len(b)
    BY <2>2
  <2> QED BY <1>15, <2>0, <2>1, <2>2, <2>3
<1>17. ASSUME NEW s \in Services, NEW r \in Graph!Capabilities, NEW d \in 0 .. 3,
              Reach(visited, queue, s, r, d)
       PROVE  Reach(visited', queue', s, r, d)
  <2>1. <<s, r>> \in Graph!Keys
    BY EdgeKeys
  <2>2. PICK old, new : old = visited[<<s, r>>] /\ new = visited'[<<s, r>>]
    OBVIOUS
  <2>3. old \in 0 .. 3 /\ new \in 0 .. 3 /\ new >= old /\ (<<s, r>> = key => new = c)
    BY <1>8, <1>9, <2>1, <2>2
  <2>4. CASE old >= d
    <3>1. new >= d
      BY <2>3, <2>4
    <3> QED BY <2>2, <3>1 DEF Reach
  <2>5. CASE \E n \in 1 .. Len(queue) : /\ Edges[queue[n].edge].target = s /\ queue[n].root = r
                                        /\ queue[n].cap >= d
    <3>1. PICK n \in 1 .. Len(queue) : /\ Edges[queue[n].edge].target = s /\ queue[n].root = r
                                       /\ queue[n].cap >= d
      BY <2>5
    <3>2. CASE n = 1
      <4>1. s = t /\ r = root /\ c >= d
        BY <1>6, <1>7, <3>1, <3>2
      <4>2. visited'[<<s, r>>] >= d
        BY <1>8, <2>2, <2>3, <4>1
      <4> QED BY <4>2 DEF Reach
    <3>3. CASE n # 1
      <4>1. n \in 2 .. Len(queue)
        BY <1>6, <3>3
      <4>2. PICK m \in 1 .. Len(Tail(queue)) : Tail(queue)[m] = queue[n]
        BY <1>6, <4>1
      <4>3. m \in 1 .. Len(queue') /\ queue'[m] = queue[n]
        BY <1>16, <4>2
      <4> QED BY <3>1, <4>3 DEF Reach
    <3> QED BY <3>2, <3>3
  <2> QED BY <1>17, <2>2, <2>4, <2>5 DEF Reach
<1>18. NoneLost(impact, visited', queue')
  <2> SUFFICES ASSUME NEW r \in Graph!Capabilities, NEW k \in PresentIn(impact)
               PROVE  /\ Edges[k].source = Source /\ Edges[k].capability = r
                           => Reach(visited', queue', Edges[k].target, r, impact[k])
                      /\ Edges[k].source # Source
                           => Reach(visited', queue', Edges[k].target, r,
                                    Graph!Smaller(visited'[<<Edges[k].source, r>>], impact[k]))
    BY DEF NoneLost
  <2>1. /\ Edges[k].source \in Services /\ Edges[k].target \in Services /\ impact[k] \in 0 .. 3
    BY <1>4, EdgeTypes DEF PresentIn, Impact
  <2>2. ASSUME Edges[k].source = Source, Edges[k].capability = r
        PROVE  Reach(visited', queue', Edges[k].target, r, impact[k])
    BY <1>17, <2>1, <2>2 DEF GraphInv, NoneLost
  <2>3. ASSUME Edges[k].source # Source
        PROVE  Reach(visited', queue', Edges[k].target, r,
                     Graph!Smaller(visited'[<<Edges[k].source, r>>], impact[k]))
    <3>1. <<Edges[k].source, r>> \in Graph!Keys
      BY <2>1, EdgeKeys
    <3>2. CASE <<Edges[k].source, r>> = key
      <4>1. Edges[k].source = t /\ r = root
        BY <1>8, <3>2
      <4>2. PICK n \in 1 .. Len(next) : next[n] = k
        <5>1. k \in Members(next)
          BY <1>11, <4>1
        <5> QED BY <5>1 DEF Members
      <4>3. PICK m \in 1 .. Len(queue') : queue'[m] = Graph!LongerWalk(w, k)
        BY <1>14, <1>16, <4>2
      <4>4. /\ queue'[m].edge = k /\ queue'[m].root = r
            /\ queue'[m].cap = Graph!Smaller(c, impact[k])
        BY <1>4, <1>6, <1>7, <1>10, <4>1, <4>3, LongerIs
      <4>5. visited'[<<Edges[k].source, r>>] = c
        BY <1>9, <3>1, <3>2
      <4>6. Graph!Smaller(c, impact[k]) >= Graph!Smaller(c, impact[k])
        BY <1>8, <2>1 DEF Graph!Smaller
      <4> QED BY <4>4, <4>5, <4>6 DEF Reach
    <3>3. CASE <<Edges[k].source, r>> # key
      <4>1. visited'[<<Edges[k].source, r>>] = visited[<<Edges[k].source, r>>]
        BY <1>9, <3>1, <3>3
      <4>2. Graph!Smaller(visited[<<Edges[k].source, r>>], impact[k]) \in 0 .. 3
        BY <1>9, <2>1, <3>1 DEF Graph!Smaller
      <4>3. Reach(visited, queue, Edges[k].target, r,
                  Graph!Smaller(visited[<<Edges[k].source, r>>], impact[k]))
        BY <2>3 DEF GraphInv, NoneLost
      <4> QED BY <1>17, <2>1, <4>1, <4>2, <4>3
    <3> QED BY <3>2, <3>3
  <2> QED BY <2>2, <2>3
<1>19. SourceClosed(impact, visited')
  <2> SUFFICES ASSUME NEW k \in PresentIn(impact), Edges[k].source = Source
               PROVE  visited'[<<Source, Edges[k].capability>>] = 3
    BY DEF SourceClosed
  <2>1. <<Source, Edges[k].capability>> \in Graph!Keys
    BY EdgeKeys, GraphAssumption DEF PresentIn
  <2>2. <<Source, Edges[k].capability>> # key
    BY <1>8, <1>10
  <2> QED BY <1>9, <2>1, <2>2 DEF GraphInv, SourceClosed
<1>20. direct[t] \in Graph!Statuses
  BY <1>3, <1>8, GraphAssumption DEF GraphTypes
<1>21. PICK risk : risk = Graph!RiskThrough(direct[t], c)
  OBVIOUS
<1>22. risk \in Risks /\ (risk = "operational" <=> direct[t] = "operational")
  BY <1>8, <1>20, <1>21, RiskIs
<1>23. contributors' = IF risk = "operational" THEN contributors
                       ELSE [contributors EXCEPT ![key] = [risk |-> risk, path |-> w.path]]
  <2>1. \A k, r : k = Graph!KeyOf(w) /\ r = Graph!RiskThrough(direct[k[1]], w.cap) =>
          contributors' = IF r = "operational" THEN contributors
                          ELSE [contributors EXCEPT ![k] = [risk |-> r, path |-> w.path]]
    BY <1>2 DEF Graph!Contribute
  <2>2. risk = Graph!RiskThrough(direct[key[1]], w.cap)
    BY <1>7, <1>8, <1>21
  <2> QED BY <1>1, <2>1, <2>2
<1>24. contributors \in [Graph!Keys -> [risk : Risks, path : Seq(Services)]]
  BY <1>3 DEF GraphTypes
<1>25. contributors' \in [Graph!Keys -> [risk : Risks, path : Seq(Services)]]
  BY <1>8, <1>22, <1>23, <1>24
<1>26. ASSUME NEW x \in Graph!Keys
       PROVE  Contributes(impact, direct, contributors'[x], x, visited'[x])
  <2>1. Contributes(impact, direct, contributors[x], x, visited[x])
    BY DEF GraphInv
  <2>2. CASE x # key
    <3>1. contributors'[x] = contributors[x] /\ visited'[x] = visited[x]
      BY <1>9, <1>23, <1>24, <2>2
    <3> QED BY <2>1, <3>1
  <2>3. CASE x = key
    <3>1. visited'[x] = c /\ x[1] = t /\ x[2] = root /\ c # 0
      BY <1>8, <1>9, <2>3
    <3>2. CASE risk = "operational"
      <4>1. contributors'[x] = contributors[x]
        BY <1>23, <3>2
      <4>2. contributors[x] = Graph!NoRisk
        <5>1. CASE visited[x] = 0
          BY <2>1, <5>1 DEF Contributes
        <5>2. CASE visited[x] # 0
          <6>1. visited[x] \in 1 .. 3
            BY <1>9, <5>2
          <6>2. contributors[x].risk = Graph!RiskThrough(direct[t], visited[x])
            BY <1>10, <2>1, <3>1, <5>2 DEF Contributes
          <6>3. contributors[x].risk = "operational"
            BY <1>20, <1>22, <3>2, <6>1, <6>2, RiskIs
          <6> QED BY <1>10, <2>1, <3>1, <5>2, <6>3 DEF Contributes
        <5> QED BY <5>1, <5>2
      <4>3. Graph!NoRisk.risk = "operational"
        BY DEF Graph!NoRisk
      <4> QED BY <1>8, <1>10, <1>21, <3>1, <3>2, <4>1, <4>2, <4>3 DEF Contributes
    <3>3. CASE risk # "operational"
      <4>1. contributors'[x] = [risk |-> risk, path |-> w.path]
        BY <1>8, <1>23, <1>24, <2>3, <3>3
      <4>2. contributors'[x].risk = risk /\ contributors'[x].path = w.path
        BY <4>1
      <4> QED BY <1>8, <1>10, <1>21, <3>1, <3>3, <4>2 DEF Contributes
    <3> QED BY <3>2, <3>3
  <2> QED BY <2>2, <2>3
<1>27. GraphTypes'
  <2>1. Walks(impact)' = Walks(impact)
    BY <1>2 DEF Walks, Journey, PresentIn
  <2> QED BY <1>2, <1>3, <1>9, <1>16, <1>25, <2>1 DEF GraphTypes
<1>28. AnswerFollows'
  <2>1. answer = "none"
    BY <1>2 DEF GraphInv, AnswerFollows
  <2> QED BY <1>2, <2>1 DEF AnswerFollows
<1>29. NoneLost(impact, visited, queue)' /\ SourceClosed(impact, visited)'
  BY <1>2, <1>18, <1>19
<1>30. \A x \in Graph!Keys :
         Contributes(impact, direct, contributors[x], x, visited[x])'
  BY <1>2, <1>26
<1> QED BY <1>27, <1>28, <1>29, <1>30 DEF GraphInv

-----------------------------------------------------------------------------
LEMMA LeastRank ==
  ASSUME NEW S \in SUBSET (1 .. 3), S # {}
  PROVE  Graph!Min(S) \in S /\ \A x \in S : Graph!Min(S) <= x
<1>1. \E least \in S : \A x \in S : least <= x
  <2>1. S \in SUBSET Nat
    OBVIOUS
  <2> QED BY <2>1, LeastOf
<1> QED BY <1>1 DEF Graph!Min

\* When no walk is left the caps taken are closed under the edges.
LEMMA ClosedAtEnd ==
  ASSUME GraphInv, queue = <<>>, NEW root \in Graph!Capabilities,
         NEW v, v = [t \in Services |-> visited[<<t, root>>]]
  PROVE  v \in Caps4 /\ ClosedUnder(impact, root, v)
<1>1. GraphTypes /\ NoneLost(impact, visited, queue)
  BY DEF GraphInv
<1>2. impact \in Impact
  BY <1>1, ImpactTypes DEF GraphTypes
<1>3. v \in Caps4
  BY <1>1, EdgeKeys DEF GraphTypes, Caps4
<1>4. 1 .. Len(queue) = {}
  OBVIOUS
<1>5. ASSUME NEW t \in Services, NEW c, Reach(visited, queue, t, root, c) PROVE v[t] >= c
  BY <1>4, <1>5 DEF Reach
<1>6. \A k \in PresentIn(impact) : Edges[k].target \in Services /\ Edges[k].source \in Services
  BY EdgeTypes DEF PresentIn
<1>7. ASSUME NEW k \in PresentIn(impact)
      PROVE  /\ Edges[k].source = Source /\ Edges[k].capability = root
                  => v[Edges[k].target] >= impact[k]
             /\ Edges[k].source # Source
                  => v[Edges[k].target] >= Graph!Smaller(v[Edges[k].source], impact[k])
  <2>1. v[Edges[k].source] = visited[<<Edges[k].source, root>>]
    BY <1>6
  <2>2. ASSUME Edges[k].source = Source, Edges[k].capability = root
        PROVE  v[Edges[k].target] >= impact[k]
    <3>1. Reach(visited, queue, Edges[k].target, root, impact[k])
      BY <1>1, <2>2 DEF NoneLost
    <3> QED BY <1>5, <1>6, <3>1
  <2>3. ASSUME Edges[k].source # Source
        PROVE  v[Edges[k].target] >= Graph!Smaller(v[Edges[k].source], impact[k])
    <3>1. Reach(visited, queue, Edges[k].target, root, Graph!Smaller(v[Edges[k].source], impact[k]))
      BY <1>1, <2>1, <2>3 DEF NoneLost
    <3> QED BY <1>5, <1>6, <3>1
  <2> QED BY <2>2, <2>3
<1> QED BY <1>3, <1>7 DEF ClosedUnder

LEMMA EndsWidest ==
  ASSUME GraphInv, queue = <<>>, NEW key \in Graph!Keys, key[1] # Source
  PROVE  visited[key] = WidestOf(impact, key[2])[key[1]]
<1>1. PICK root \in Graph!Capabilities, t \in Services : key = <<t, root>> /\ key[1] = t /\ key[2] = root
  BY EdgeKeys
<1>2. PICK v : v = [s \in Services |-> visited[<<s, root>>]]
  OBVIOUS
<1>3. v \in Caps4 /\ ClosedUnder(impact, root, v)
  BY <1>2, ClosedAtEnd
<1>4. PICK w : w = WidestOf(impact, root)
  OBVIOUS
<1>5. impact \in Impact
  BY ImpactTypes DEF GraphInv, GraphTypes
<1>6. w \in Caps4 /\ ClosedUnder(impact, root, w) /\ w[t] <= v[t]
  BY <1>3, <1>4, <1>5, WidestHolds
<1>7. v[t] = visited[key] /\ v[t] \in 0 .. 3 /\ w[t] \in 0 .. 3
  BY <1>1, <1>2, <1>3, <1>6 DEF Caps4
<1>8. ASSUME v[t] # 0 PROVE v[t] <= w[t]
  <2>1. PICK c \in 1 .. 3 : c = v[t]
    BY <1>7, <1>8
  <2>2. Contributes(impact, direct, contributors[key], key, visited[key])
    BY DEF GraphInv
  <2>3. PICK path \in Seq(Services) :
          Journey(impact, path, root, c) /\ path[Len(path)] = t
    BY <1>1, <1>7, <1>8, <2>1, <2>2 DEF Contributes
  <2>4. w[path[Len(path)]] >= c
    BY <1>5, <1>6, <2>3, JourneyReaches
  <2> QED BY <1>7, <2>1, <2>3, <2>4
<1>9. v[t] = w[t]
  BY <1>6, <1>7, <1>8
<1> QED BY <1>1, <1>4, <1>7, <1>9

LEMMA WalksFound ==
  ASSUME GraphInv, queue = <<>>, NEW key \in Graph!Keys
  PROVE  contributors[key].risk = Graph!Expected(key)
<1>1. Contributes(impact, direct, contributors[key], key, visited[key])
  BY DEF GraphInv
<1>2. Graph!NoRisk.risk = "operational"
  BY DEF Graph!NoRisk
<1>3. Graph!Expected(key) =
        IF key[1] = Source \/ WidestOf(impact, key[2])[key[1]] = 0 THEN "operational"
        ELSE Graph!RiskThrough(direct[key[1]], WidestOf(impact, key[2])[key[1]])
  BY DEF Graph!Expected, Graph!Widest, WidestOf
<1>4. key[1] # Source => visited[key] = WidestOf(impact, key[2])[key[1]]
  BY EndsWidest
<1> QED BY <1>1, <1>2, <1>3, <1>4 DEF Contributes

\* The smallest of the hops' greatest impacts is the cap of the whole path.
LEMMA PathExplains ==
  ASSUME GraphInv, queue = <<>>, NEW key \in Graph!Keys, contributors[key] # Graph!NoRisk
  PROVE  Graph!Explains(key)
<1>1. PICK root \in Graph!Capabilities, t \in Services : key = <<t, root>> /\ key[1] = t /\ key[2] = root
  BY EdgeKeys
<1>2. visited[key] \in 0 .. 3 /\ impact \in Impact
  BY ImpactTypes DEF GraphInv, GraphTypes
<1>3. Contributes(impact, direct, contributors[key], key, visited[key])
  BY DEF GraphInv
<1>4. PICK c \in 1 .. 3 : c = visited[key]
  BY <1>2, <1>3 DEF Contributes
<1>5. PICK path : path = contributors[key].path
  OBVIOUS
<1>6. /\ contributors[key].risk = Graph!RiskThrough(direct[t], c)
      /\ Journey(impact, path, root, c) /\ path[Len(path)] = t
  BY <1>1, <1>3, <1>4, <1>5 DEF Contributes
<1>7. path \in Seq(Services) /\ Len(path) \in Nat /\ Len(path) >= 2 /\ path[1] = Source
  BY <1>6 DEF Journey
<1> DEFINE joins(n) == {j \in PresentIn(impact) :
             /\ Edges[j].source = path[n] /\ Edges[j].target = path[n+1]
             /\ n = 1 => Edges[j].capability = root}
           hop(n) == {impact[k] : k \in joins(n)}
           hops == {hop(n) : n \in 1 .. Len(path) - 1}
           tops == {Graph!Max(h) : h \in hops}
<1>8. Graph!Explains(key) <=>
        /\ path[1] = Source /\ path[Len(path)] = t /\ {} \notin hops
        /\ contributors[key].risk = Graph!RiskThrough(direct[t], Graph!Min(tops))
  BY <1>1, <1>5 DEF Graph!Explains, Graph!Present, PresentIn
<1>9. \A k \in PresentIn(impact) : impact[k] \in 1 .. 3
  BY <1>2 DEF PresentIn, Impact
<1>10. ASSUME NEW n \in 1 .. Len(path) - 1
       PROVE  /\ hop(n) \in SUBSET (1 .. 3) /\ hop(n) # {}
              /\ Graph!Max(hop(n)) \in hop(n) /\ Graph!Max(hop(n)) >= c
  <2>1. PICK k \in joins(n) : impact[k] >= c
    <3>1. PICK k \in PresentIn(impact) : /\ Edges[k].source = path[n] /\ Edges[k].target = path[n + 1]
                                         /\ impact[k] >= c /\ (n = 1 => Edges[k].capability = root)
      BY <1>6 DEF Journey
    <3> QED BY <3>1
  <2>2. hop(n) \in SUBSET (1 .. 3) /\ impact[k] \in hop(n)
    BY <1>9, <2>1
  <2>3. PICK S \in SUBSET (0 .. 3) : S = hop(n)
    <3> HIDE DEF hop
    <3> QED BY <2>2
  <2>4. Graph!Max(S) \in S /\ \A x \in S : x <= Graph!Max(S)
    BY <2>2, <2>3, GreatestRisk
  <2>5. impact[k] <= Graph!Max(S) /\ Graph!Max(S) \in 1 .. 3 /\ impact[k] \in 1 .. 3
    BY <2>2, <2>3, <2>4
  <2>6. Graph!Max(S) >= c
    BY <2>1, <2>5
  <2> QED BY <2>2, <2>3, <2>4, <2>6
<1> HIDE DEF hop
<1>11. {} \notin hops
  BY <1>10
<1>12. tops = {Graph!Max(hop(n)) : n \in 1 .. Len(path) - 1}
  OBVIOUS
<1>13. tops \in SUBSET (1 .. 3) /\ tops # {} /\ \A x \in tops : x >= c
  <2>1. \A n \in 1 .. Len(path) - 1 : Graph!Max(hop(n)) \in 1 .. 3
    BY <1>10
  <2>2. 1 \in 1 .. Len(path) - 1
    BY <1>7
  <2> HIDE DEF tops
  <2> QED BY <1>10, <1>12, <2>1, <2>2
<1>14. PICK m \in 1 .. 3 : m = Graph!Min(tops)
  <2> HIDE DEF tops
  <2> QED BY <1>13, LeastRank
<1>15. m >= c /\ \A n \in 1 .. Len(path) - 1 : Graph!Max(hop(n)) >= m
  <2>1. m \in tops /\ \A x \in tops : m <= x
    <3> HIDE DEF tops
    <3> QED BY <1>13, <1>14, LeastRank
  <2>2. \A n \in 1 .. Len(path) - 1 : Graph!Max(hop(n)) \in tops
    BY <1>12
  <2> HIDE DEF tops
  <2>3. \A x \in tops : x \in 1 .. 3
    BY <1>13
  <2> QED BY <1>13, <2>1, <2>2, <2>3
\* The path is a journey of the smallest of them too, so that is not better.
<1>16. Journey(impact, path, root, m)
  <2>1. ASSUME NEW n \in 1 .. Len(path) - 1
        PROVE  \E k \in PresentIn(impact) :
                 /\ Edges[k].source = path[n] /\ Edges[k].target = path[n + 1] /\ impact[k] >= m
                 /\ n = 1 => Edges[k].capability = root
    <3>1. PICK k \in joins(n) : impact[k] = Graph!Max(hop(n))
      BY <1>10 DEF hop
    <3>2. impact[k] >= m
      BY <1>15, <3>1
    <3> QED BY <3>1, <3>2
  <2> QED BY <1>6, <2>1 DEF Journey
<1>17. c >= m
  <2>1. PICK v : v = [s \in Services |-> visited[<<s, root>>]]
    OBVIOUS
  <2>2. v \in Caps4 /\ ClosedUnder(impact, root, v)
    BY <2>1, ClosedAtEnd
  <2>3. v[path[Len(path)]] >= m
    BY <1>2, <1>16, <2>2, JourneyReaches
  <2>4. v[t] = c
    BY <1>1, <1>4, <2>1
  <2> QED BY <1>6, <2>3, <2>4
<1>18. m = c
  BY <1>15, <1>17
<1> HIDE DEF tops
<1> QED BY <1>6, <1>7, <1>8, <1>11, <1>14, <1>18

LEMMA AnswersJustified ==
  ASSUME GraphInv, answer # "none"
  PROVE  Graph!AnswerJustified
<1>1. queue = <<>> /\ answer = Graph!StrongestRisk({contributors[key].risk : key \in Graph!Keys})
  BY DEF GraphInv, AnswerFollows
<1>2. PICK R : R = {Graph!Expected(key) : key \in Graph!Keys}
  OBVIOUS
<1>3. R = {contributors[key].risk : key \in Graph!Keys}
  BY <1>1, <1>2, WalksFound
<1>4. R \in SUBSET Risks
  BY <1>3 DEF GraphInv, GraphTypes
<1>5. /\ answer = "operational" => R \subseteq {"operational"}
      /\ answer = "unknown" => "unknown" \in R /\ R \cap Graph!Failures = {}
      /\ answer \notin {"operational", "unknown"} =>
           /\ answer \in R
           /\ \A r \in R \cap Graph!Failures : Graph!FailureRank(r) <= Graph!FailureRank(answer)
  BY <1>1, <1>3, <1>4, StrongestIs
<1> QED BY <1>2, <1>5 DEF Graph!AnswerJustified

LEMMA GraphInvSays ==
  ASSUME GraphInv
  PROVE  Graph!TypeOK /\ Graph!WidestWalksFound /\ Graph!PathsAuditable /\ Graph!AnswerJustified
<1>1. GraphTypes
  BY DEF GraphInv
<1>2. Graph!WidestWalksFound
  BY WalksFound DEF Graph!WidestWalksFound
<1>3. Graph!PathsAuditable
  BY PathExplains DEF Graph!PathsAuditable
<1>4. Graph!AnswerJustified
  BY AnswersJustified DEF Graph!AnswerJustified
<1>5. answer \in Graph!Statuses \cup {"none"}
  <2>1. CASE answer = "none"
    BY <2>1
  <2>2. CASE answer # "none"
    <3>1. PICK R : R = {contributors[key].risk : key \in Graph!Keys}
      OBVIOUS
    <3>2. R \in SUBSET Risks
      BY <1>1, <3>1 DEF GraphTypes
    <3>3. answer = Graph!StrongestRisk(R)
      BY <2>2, <3>1 DEF GraphInv, AnswerFollows
    <3> QED BY <3>2, <3>3, StrongestIs DEF Risks
  <2> QED BY <2>1, <2>2
<1>6. ASSUME NEW w \in Graph!Range(queue)
      PROVE  /\ w.edge \in Graph!Present /\ w.cap \in 1 .. 3
             /\ w.root \in Graph!Capabilities /\ w.path \in Seq(Services)
  <2>1. w \in Walks(impact)
    <3>1. queue \in Seq(Walks(impact))
      BY <1>1 DEF GraphTypes
    <3> QED BY <3>1 DEF Graph!Range
  <2> QED BY <2>1 DEF Walks, PresentIn, Graph!Present
<1>7. \A key \in Graph!Keys : contributors[key].risk \in Graph!Statuses
  BY <1>1 DEF GraphTypes, Risks
<1>8. Graph!TypeOK
  BY <1>1, <1>5, <1>6, <1>7 DEF Graph!TypeOK, GraphTypes
<1> QED BY <1>2, <1>3, <1>4, <1>8

LEMMA GraphStep == GraphInv /\ [EdgesNext]_edges => GraphInv'
<1> SUFFICES ASSUME GraphInv, [EdgesNext]_edges PROVE GraphInv'
  OBVIOUS
<1>1. Graph!Next \/ UNCHANGED graph
  BY DEF EdgesNext, edges
<1>2. CASE UNCHANGED graph
  <2>1. UNCHANGED <<impact, direct, visited, queue, contributors, answer>>
    BY <1>2 DEF graph
  <2>2. GraphTypes' /\ AnswerFollows'
    BY <2>1 DEF GraphInv, GraphTypes, AnswerFollows
  <2>3. NoneLost(impact, visited, queue)' /\ SourceClosed(impact, visited)'
    BY <2>1 DEF GraphInv
  <2>4. \A key \in Graph!Keys :
          Contributes(impact, direct, contributors[key], key, visited[key])'
    BY <2>1 DEF GraphInv
  <2> QED BY <2>2, <2>3, <2>4 DEF GraphInv
<1>3. CASE Graph!Next
  BY <1>3, SkipKeeps, TakeKeeps, ReportKeeps DEF Graph!Next
<1> QED BY <1>1, <1>2, <1>3

\* For every graph of services, cycles and parallel edges included, and every
\* direct status: when the worklist is empty a service contributes the risk of
\* the widest walk to it, with a path that explains the risk, and the answer is
\* the strongest of these risks.
THEOREM ImpactHolds == EdgesSpec => []ImpactIsJustified
<1>1. GraphInv => ImpactIsJustified
  BY GraphInvSays DEF ImpactIsJustified
<1> QED BY <1>1, GraphInit, GraphStep, PTL DEF EdgesSpec

-----------------------------------------------------------------------------
(***************************************************************************)
(* PublicStatus.                                                           *)
(***************************************************************************)

\* Both instances read the same ranks.
LEMMA SameRanks ==
  /\ StatusPage!Statuses = Graph!Statuses /\ StatusPage!Failures = Graph!Failures
  /\ \A d, c : StatusPage!RiskThrough(d, c) = Graph!RiskThrough(d, c)
  /\ \A R : StatusPage!StrongestRisk(R) = Graph!StrongestRisk(R)
<1>1. StatusPage!Statuses = Graph!Statuses /\ StatusPage!Failures = Graph!Failures
  BY DEF StatusPage!Statuses, Graph!Statuses, StatusPage!Failures, Graph!Failures
<1>2. \A s : StatusPage!FailureRank(s) = Graph!FailureRank(s)
  BY DEF StatusPage!FailureRank, Graph!FailureRank
<1>3. \A n : StatusPage!FromFailureRank(n) = Graph!FromFailureRank(n)
  BY DEF StatusPage!FromFailureRank, Graph!FromFailureRank
<1>4. \A S : StatusPage!Max(S) = Graph!Max(S)
  BY DEF StatusPage!Max, Graph!Max
<1>5. \A x, y : StatusPage!Smaller(x, y) = Graph!Smaller(x, y)
  BY DEF StatusPage!Smaller, Graph!Smaller
<1>6. \A d, c : StatusPage!RiskThrough(d, c) = Graph!RiskThrough(d, c)
  BY <1>2, <1>3, <1>5 DEF StatusPage!RiskThrough, Graph!RiskThrough
<1>7. \A R : StatusPage!StrongestRisk(R) = Graph!StrongestRisk(R)
  BY <1>2, <1>3, <1>4 DEF StatusPage!StrongestRisk, Graph!StrongestRisk
<1> QED BY <1>1, <1>6, <1>7

\* The three kinds of status that a risk passes on.
LEMMA PassedOn ==
  ASSUME NEW d \in StatusPage!Statuses, NEW c \in 1 .. 3
  PROVE  /\ StatusPage!RiskThrough(d, c) \in Risks
         /\ StatusPage!RiskThrough(d, c) = "operational" => d = "operational"
         /\ d = "unknown" => StatusPage!RiskThrough(d, c) = "unknown"
         /\ d \in StatusPage!Failures => StatusPage!RiskThrough(d, c) \in StatusPage!Failures
<1>1. CASE d \in {"maintenance", "unknown"}
  BY <1>1 DEF StatusPage!RiskThrough, Risks, Graph!Statuses, StatusPage!Failures
<1>2. CASE d \notin {"maintenance", "unknown"}
  <2>1. /\ StatusPage!RiskThrough(d, c) \in Risks
        /\ StatusPage!RiskThrough(d, c) = "operational" => d = "operational"
    BY SameRanks, RiskIs
  <2>2. StatusPage!RiskThrough(d, c) =
          StatusPage!FromFailureRank(StatusPage!Smaller(StatusPage!FailureRank(d), c))
    BY <1>2 DEF StatusPage!RiskThrough
  <2>3. d \in StatusPage!Failures => StatusPage!RiskThrough(d, c) \in StatusPage!Failures
    <3> SUFFICES ASSUME d \in StatusPage!Failures
                 PROVE  StatusPage!RiskThrough(d, c) \in StatusPage!Failures
      OBVIOUS
    <3>1. StatusPage!FailureRank(d) \in 1 .. 3
      BY DEF StatusPage!FailureRank, StatusPage!Failures
    <3>2. StatusPage!Smaller(StatusPage!FailureRank(d), c) \in 1 .. 3
      BY <3>1 DEF StatusPage!Smaller
    <3>3. \A n \in 1 .. 3 : StatusPage!FromFailureRank(n) \in StatusPage!Failures
      BY DEF StatusPage!FromFailureRank, StatusPage!Failures
    <3> QED BY <2>2, <3>2, <3>3
  <2> QED BY <1>2, <2>1, <2>3
<1> QED BY <1>1, <1>2

LEMMA SeverityIs ==
  /\ \A s \in StatusPage!Statuses : StatusPage!Severity(s) \in 0 .. 5
  /\ \A s, t \in StatusPage!Statuses :
       StatusPage!Severity(s) = StatusPage!Severity(t) => s = t
  /\ \A s \in StatusPage!Statuses :
       /\ StatusPage!Severity(s) >= 3 <=> s \in StatusPage!Failures
       /\ StatusPage!Severity(s) >= 2 <=> s \in StatusPage!Failures \cup {"unknown"}
       /\ StatusPage!Severity(s) = 0 <=> s = "operational"
<1>1. /\ StatusPage!Severity("major_outage") = 5 /\ StatusPage!Severity("partial_outage") = 4
      /\ StatusPage!Severity("degraded") = 3 /\ StatusPage!Severity("unknown") = 2
      /\ StatusPage!Severity("maintenance") = 1 /\ StatusPage!Severity("operational") = 0
  BY DEF StatusPage!Severity
<1>2. StatusPage!Statuses = {"degraded", "partial_outage", "major_outage", "operational",
                             "maintenance", "unknown"}
  BY DEF StatusPage!Statuses, StatusPage!Failures
<1>3. ASSUME NEW s \in StatusPage!Statuses
      PROVE  /\ StatusPage!Severity(s) \in 0 .. 5
             /\ StatusPage!Severity(s) >= 3 <=> s \in StatusPage!Failures
             /\ StatusPage!Severity(s) >= 2 <=> s \in StatusPage!Failures \cup {"unknown"}
             /\ StatusPage!Severity(s) = 0 <=> s = "operational"
  BY <1>1, <1>2 DEF StatusPage!Failures
<1>4. ASSUME NEW s \in StatusPage!Statuses, NEW t \in StatusPage!Statuses,
             StatusPage!Severity(s) = StatusPage!Severity(t)
      PROVE  s = t
  BY <1>1, <1>2, <1>4
<1> QED BY <1>3, <1>4

\* The aggregate is one of the statuses, and none is more severe.
LEMMA AggregateIs ==
  ASSUME NEW S \in SUBSET StatusPage!Statuses, NEW a, a = StatusPage!Aggregate(S)
  PROVE  /\ a \in StatusPage!Statuses
         /\ S = {} => a = "unknown"
         /\ S # {} => a \in S
         /\ \A s \in S : StatusPage!Severity(s) <= StatusPage!Severity(a)
         /\ S # {} /\ a = "operational" => S = {"operational"}
         /\ \A s \in S : s \in StatusPage!Failures => a \in StatusPage!Failures
         /\ "unknown" \in S => a \in StatusPage!Failures \cup {"unknown"}
<1> DEFINE Z == {StatusPage!Severity(s) : s \in S}
<1>1. CASE S = {}
  BY <1>1 DEF StatusPage!Aggregate, StatusPage!Statuses
<1>2. CASE S # {}
  <2>1. \E x \in Z : \A y \in Z : x >= y
    <3> DEFINE U == {n \in Nat : \A z \in Z : z <= n}
    <3>1. Z \in SUBSET (0 .. 5)
      BY SeverityIs
    <3>2. 5 \in U
      BY <3>1
    <3>3. PICK u \in U : \A n \in U : u <= n
      <4>1. U \in SUBSET Nat /\ U # {}
        BY <3>2
      <4> HIDE DEF U
      <4> QED BY <4>1, LeastOf
    <3>4. u \in Z
      <4> SUFFICES ASSUME u \notin Z PROVE FALSE
        OBVIOUS
      <4>1. PICK z \in Z : TRUE
        BY <1>2
      <4>2. u \in Nat /\ u # 0 /\ z \in 0 .. 5 /\ z <= u
        BY <3>1, <3>4, <4>1
      <4>3. \A y \in Z : y <= u - 1
        BY <3>1, <3>4
      <4>4. u - 1 \in U
        BY <4>2, <4>3
      <4> QED BY <3>3, <4>2, <4>4
    <3>5. \A y \in Z : u >= y
      BY <3>1
    <3> QED BY <3>4, <3>5
  <2>2. PICK worst : worst = StatusPage!Max(Z)
    OBVIOUS
  <2>3. worst \in Z /\ \A y \in Z : worst >= y
    <3> HIDE DEF Z
    <3> QED BY <2>1, <2>2 DEF StatusPage!Max
  <2>4. a = CHOOSE s \in S : StatusPage!Severity(s) = worst
    BY <1>2, <2>2 DEF StatusPage!Aggregate
  <2>5. a \in S /\ StatusPage!Severity(a) = worst
    BY <2>3, <2>4
  <2>6. \A s \in S : StatusPage!Severity(s) <= StatusPage!Severity(a)
    BY <2>3, <2>5, SeverityIs
  <2>7. a = "operational" => S = {"operational"}
    <3>1. ASSUME a = "operational", NEW s \in S PROVE s = "operational"
      <4>1. StatusPage!Severity(a) = 0
        BY <2>5, <3>1, SeverityIs
      <4> QED BY <2>6, <4>1, SeverityIs
    <3> QED BY <1>2, <3>1
  <2>8. ASSUME NEW s \in S, s \in StatusPage!Failures PROVE a \in StatusPage!Failures
    <3>1. StatusPage!Severity(s) >= 3 /\ StatusPage!Severity(s) \in 0 .. 5 /\ StatusPage!Severity(a) \in 0 .. 5
      BY <2>5, <2>8, SeverityIs
    <3>2. StatusPage!Severity(a) >= 3
      BY <2>6, <3>1
    <3> QED BY <2>5, <3>2, SeverityIs
  <2>9. ASSUME "unknown" \in S PROVE a \in StatusPage!Failures \cup {"unknown"}
    <3>1. /\ StatusPage!Severity("unknown") >= 2 /\ StatusPage!Severity("unknown") \in 0 .. 5
          /\ StatusPage!Severity(a) \in 0 .. 5
      BY <2>5, <2>9, SeverityIs
    <3>2. StatusPage!Severity(a) >= 2
      BY <2>6, <2>9, <3>1
    <3> QED BY <2>5, <3>2, SeverityIs
  <2> QED BY <1>2, <2>5, <2>6, <2>7, <2>8, <2>9
<1> QED BY <1>1, <1>2

\* A proof that has lapsed is unknown; one whose deadline has not come counts.
LEMMA FreshIs ==
  ASSUME NEW s \in StatusPage!Statuses, NEW u, NEW n \in Nat
  PROVE  /\ StatusPage!Fresh(s, u, n) \in StatusPage!Statuses
         /\ StatusPage!Fresh(s, u, n) \in {s, "unknown"}
         /\ u \in Nat /\ u >= n => StatusPage!Fresh(s, u, n) = s
         /\ StatusPage!Fresh(s, u, n) # "unknown" =>
              StatusPage!Fresh(s, u, n) = s /\ u # Absent
         /\ StatusPage!Fresh(s, u, n) = "operational" => ~(u < n)
         /\ u \in Nat /\ u < n => StatusPage!Fresh(s, u, n) \in StatusPage!Failures \cup {"unknown"}
         /\ u # Absent /\ s \in StatusPage!Failures => StatusPage!Fresh(s, u, n) = s
<1>1. "unknown" \in StatusPage!Statuses /\ "operational" \notin StatusPage!Failures
      /\ "unknown" \notin StatusPage!Failures
  BY DEF StatusPage!Statuses, StatusPage!Failures
<1>2. Absent \notin Nat
  BY StatusAssumption
<1> QED BY <1>1, <1>2 DEF StatusPage!Fresh

-----------------------------------------------------------------------------
StatusRows == [direct : StatusPage!Statuses, until : Nat \cup {Absent}]

StatusTypes ==
  /\ instant \in Nat /\ instant >= 1
  /\ cap \in [DOMAIN Links -> 0 .. 3]
  /\ stored \in [Catalogue \cup Screens -> StatusRows]

Ways(n, s, bound) ==
  n = [i \in 0 .. bound |->
         IF i = 0 THEN {s} ELSE n[i - 1] \cup UNION {StatusPage!Linked(x) : x \in n[i - 1]}]

Onward(S) == UNION {StatusPage!Linked(x) : x \in S}

LEMMA WaysExist ==
  ASSUME NEW s, NEW bound \in Nat
  PROVE  \E f : Ways(f, s, bound)
<1> DEFINE S == {n \in Nat : \E f : Ways(f, s, n)}
<1>1. 0 \in S
  <2>1. Ways([n \in 0 .. 0 |-> {s}], s, 0)
    BY DEF Ways
  <2> QED BY <2>1
<1>2. ASSUME NEW n \in 0 .. bound - 1, n \in S PROVE n + 1 \in S
  <2>1. n \in Nat
    OBVIOUS
  <2>2. PICK f : Ways(f, s, n)
    BY <1>2
  <2> DEFINE step(g, i) == IF i = 0 THEN {s}
                           ELSE g[i - 1] \cup UNION {StatusPage!Linked(x) : x \in g[i - 1]}
             longer == [i \in 0 .. n + 1 |-> IF i = n + 1 THEN step(f, n + 1) ELSE f[i]]
  <2>3. ASSUME NEW i \in 0 .. n + 1 PROVE longer[i] = step(longer, i)
    <3>1. CASE i = n + 1
      <4>1. i # 0 /\ longer[i] = step(f, i) /\ longer[i - 1] = f[i - 1]
        BY <2>1, <3>1
      <4> QED BY <4>1
    <3>2. CASE i # n + 1
      <4>1. i \in 0 .. n /\ longer[i] = f[i] /\ (i # 0 => longer[i - 1] = f[i - 1])
        BY <2>1, <3>2
      <4>2. f[i] = step(f, i)
        BY <2>2, <4>1 DEF Ways
      <4> QED BY <4>1, <4>2
    <3> QED BY <3>1, <3>2
  <2>4. longer = [i \in 0 .. n + 1 |-> step(longer, i)]
    <3>1. longer = [i \in 0 .. n + 1 |-> longer[i]]
      OBVIOUS
    <3> HIDE DEF longer, step
    <3> QED BY <2>3, <3>1
  <2>5. Ways(longer, s, n + 1)
    <3> HIDE DEF longer
    <3> QED BY <2>4 DEF Ways
  <2> QED BY <2>1, <2>5
<1> HIDE DEF S
<1>3. bound \in S
  BY <1>1, <1>2, InductionTo
<1> QED BY <1>3 DEF S

LEMMA LinkTypes ==
  ASSUME StatusTypes, NEW x
  PROVE  StatusPage!Linked(x) \subseteq Catalogue
<1>1. \A k \in DOMAIN Links : Links[k].target \in Catalogue
  BY StatusAssumption
<1> QED BY <1>1 DEF StatusPage!Linked

\* What a service reaches is the least set that holds it and is closed under
\* the links: as many steps as there are services are enough.
LEMMA ReachableIs ==
  ASSUME StatusTypes, NEW s \in Catalogue
  PROVE  /\ s \in StatusPage!Reachable(s) /\ StatusPage!Reachable(s) \subseteq Catalogue
         /\ Onward(StatusPage!Reachable(s)) \subseteq StatusPage!Reachable(s)
         /\ \A X : s \in X /\ Onward(X) \subseteq X => StatusPage!Reachable(s) \subseteq X
<1> DEFINE N == Cardinality(Catalogue)
           OfSteps(f) == [n \in 0 .. N |->
             IF n = 0 THEN {s} ELSE f[n - 1] \cup UNION {StatusPage!Linked(x) : x \in f[n - 1]}]
           reach == CHOOSE f : f = OfSteps(f)
<1>1. StatusPage!Cardinality(Catalogue) = N
  BY DEF StatusPage!Cardinality, Cardinality
<1>2. StatusPage!Reachable(s) = reach[N]
  BY <1>1 DEF StatusPage!Reachable
<1>3. N \in Nat /\ IsFiniteSet(Catalogue)
  BY StatusAssumption, FS_CardinalityType
<1>4. \A f : Ways(f, s, N) <=> f = OfSteps(f)
  BY DEF Ways
<1> HIDE DEF OfSteps
<1>5. Ways(reach, s, N)
  <2>1. \E f : f = OfSteps(f)
    <3> HIDE DEF N
    <3> QED BY <1>3, <1>4, WaysExist
  <2> QED BY <1>4, <2>1
<1> HIDE DEF reach
<1> HIDE DEF N
<1>6. /\ reach[0] = {s}
      /\ \A n \in 0 .. N - 1 : reach[n + 1] = reach[n] \cup Onward(reach[n])
  <2>1. ASSUME NEW n \in 0 .. N - 1 PROVE reach[n + 1] = reach[n] \cup Onward(reach[n])
    <3>1. n + 1 \in 0 .. N /\ n + 1 # 0 /\ (n + 1) - 1 = n
      BY <1>3
    <3> QED BY <1>5, <3>1 DEF Ways, Onward
  <2>2. reach[0] = {s}
    BY <1>3, <1>5 DEF Ways
  <2> QED BY <2>1, <2>2
<1>7. ASSUME NEW X, s \in X, Onward(X) \subseteq X PROVE reach[N] \subseteq X
  <2> DEFINE S == {n \in Nat : n <= N => reach[n] \subseteq X}
  <2>1. 0 \in S
    BY <1>6, <1>7
  <2>2. ASSUME NEW n \in 0 .. N - 1, n \in S PROVE n + 1 \in S
    <3>1. n \in Nat /\ n <= N /\ reach[n + 1] = reach[n] \cup Onward(reach[n])
      BY <1>3, <1>6
    <3>2. Onward(reach[n]) \subseteq Onward(X)
      BY <2>2, <3>1 DEF Onward
    <3> QED BY <1>7, <2>2, <3>1, <3>2
  <2> HIDE DEF S
  <2>3. 0 .. N \subseteq S
    BY <1>3, <2>1, <2>2, InductionTo
  <2>4. N \in 0 .. N /\ N <= N
    BY <1>3
  <2> QED BY <2>3, <2>4 DEF S
<1>8. \A n \in 0 .. N : s \in reach[n] /\ reach[n] \subseteq Catalogue
  <2> DEFINE S == {n \in Nat : n <= N => s \in reach[n] /\ reach[n] \subseteq Catalogue}
  <2>1. 0 \in S
    BY <1>6
  <2>2. ASSUME NEW n \in 0 .. N - 1, n \in S PROVE n + 1 \in S
    <3>1. n \in Nat /\ n <= N /\ reach[n + 1] = reach[n] \cup Onward(reach[n])
      BY <1>3, <1>6
    <3>2. Onward(reach[n]) \subseteq Catalogue
      BY LinkTypes DEF Onward
    <3> QED BY <2>2, <3>1, <3>2
  <2> HIDE DEF S
  <2>3. 0 .. N \subseteq S
    BY <1>3, <2>1, <2>2, InductionTo
  <2> QED BY <1>3, <2>3 DEF S
\* Until it is closed the set grows with every step.
<1>9. \A n \in 0 .. N : Onward(reach[n]) \subseteq reach[n] \/ Cardinality(reach[n]) >= n + 1
  <2> DEFINE S == {n \in Nat : n <= N => \/ Onward(reach[n]) \subseteq reach[n]
                                         \/ Cardinality(reach[n]) >= n + 1}
  <2>1. 0 \in S
    <3>1. PICK c : c = Cardinality(reach[0])
      OBVIOUS
    <3>2. c = 1
      BY <1>6, <3>1, FS_Singleton
    <3>3. c >= 0 + 1
      BY <3>2
    <3> QED BY <3>1, <3>3
  <2>2. ASSUME NEW n \in 0 .. N - 1, n \in S PROVE n + 1 \in S
    <3>1. n \in Nat /\ n <= N /\ reach[n + 1] = reach[n] \cup Onward(reach[n])
      BY <1>3, <1>6
    <3>2. CASE Onward(reach[n]) \subseteq reach[n]
      <4>1. reach[n + 1] = reach[n]
        BY <3>1, <3>2
      <4> QED BY <3>1, <3>2, <4>1
    <3>3. CASE ~(Onward(reach[n]) \subseteq reach[n])
      <4>1. Cardinality(reach[n]) >= n + 1
        BY <2>2, <3>1, <3>3
      <4>2. PICK t \in Onward(reach[n]) : t \notin reach[n]
        BY <3>3
      <4>3. /\ reach[n] \subseteq Catalogue /\ reach[n + 1] \subseteq Catalogue
            /\ IsFiniteSet(reach[n]) /\ IsFiniteSet(reach[n + 1])
        <5>1. n \in 0 .. N /\ n + 1 \in 0 .. N
          BY <1>3
        <5>2. reach[n] \subseteq Catalogue /\ reach[n + 1] \subseteq Catalogue
          BY <1>8, <5>1
        <5> QED BY <1>3, <5>2, FS_Subset
      <4>4. reach[n] \cup {t} \subseteq reach[n + 1]
        BY <3>1, <4>2
      <4>5. Cardinality(reach[n] \cup {t}) = Cardinality(reach[n]) + 1
        BY <4>2, <4>3, FS_AddElement
      <4>6. Cardinality(reach[n] \cup {t}) <= Cardinality(reach[n + 1])
        BY <4>3, <4>4, FS_Subset
      <4>7. Cardinality(reach[n]) \in Nat /\ Cardinality(reach[n + 1]) \in Nat
        BY <4>3, FS_CardinalityType
      <4>8. Cardinality(reach[n + 1]) >= (n + 1) + 1
        BY <3>1, <4>1, <4>5, <4>6, <4>7
      <4> QED BY <3>1, <4>8
    <3> QED BY <3>2, <3>3
  <2> HIDE DEF S
  <2>3. 0 .. N \subseteq S
    BY <1>3, <2>1, <2>2, InductionTo
  <2> QED BY <1>3, <2>3 DEF S
<1>10. N \in 0 .. N
  BY <1>3
<1>11. Onward(reach[N]) \subseteq reach[N]
  <2>1. reach[N] \subseteq Catalogue
    BY <1>8, <1>10
  <2>2. Cardinality(reach[N]) \in Nat /\ Cardinality(reach[N]) <= N
    BY <1>3, <2>1, FS_Subset, FS_CardinalityType DEF N
  <2>3. ~(Cardinality(reach[N]) >= N + 1)
    BY <1>3, <2>2
  <2> QED BY <1>9, <1>10, <2>3
<1> QED BY <1>2, <1>7, <1>8, <1>10, <1>11

-----------------------------------------------------------------------------
Widths == [Catalogue -> 0 .. 3]
Joined == {k \in DOMAIN Links : cap[k] > 0}
WidestTo(s, root) == StatusPage!WidestWalks(Catalogue, s, Links, cap, root)

ClosedFrom(s, root, v) == \A k \in Joined :
  /\ Links[k].source = s /\ Links[k].capability = root => v[Links[k].target] >= cap[k]
  /\ Links[k].source # s =>
       v[Links[k].target] >= StatusPage!Smaller(v[Links[k].source], cap[k])

LEMMA JoinTypes ==
  ASSUME StatusTypes, NEW k \in Joined
  PROVE  /\ cap[k] \in 1 .. 3 /\ Links[k].source \in Catalogue /\ Links[k].target \in Catalogue
         /\ k \in DOMAIN Links
BY StatusAssumption DEF StatusTypes, Joined

LEMMA WidestToHolds ==
  ASSUME StatusTypes, NEW s \in Catalogue, NEW root
  PROVE  /\ WidestTo(s, root) \in Widths
         /\ ClosedFrom(s, root, WidestTo(s, root))
         /\ \A v \in Widths : ClosedFrom(s, root, v) =>
              \A t \in Catalogue : WidestTo(s, root)[t] <= v[t]
<1> DEFINE g == [services |-> Catalogue, source |-> s, edges |-> Links, impact |-> cap]
           N == Cardinality(Catalogue)
           present == {k \in DOMAIN Links : cap[k] > 0}
           First == [t \in Catalogue |-> StatusPage!Max({0} \cup {cap[k] : k \in {j \in present :
                       /\ Links[j].source = s /\ Links[j].target = t
                       /\ Links[j].capability = root}})]
           Longer(w, n) == [t \in Catalogue |-> StatusPage!Max({w[n-1][t]} \cup
                            {StatusPage!Smaller(w[n-1][Links[k].source], cap[k]) :
                               k \in {j \in present :
                                 Links[j].source # s /\ Links[j].target = t}})]
           OfSteps(w) == [n \in 1 .. N |-> IF n = 1 THEN First ELSE Longer(w, n)]
           width == CHOOSE w : w = OfSteps(w)
<1>1. StatusPage!Cardinality(Catalogue) = N
  BY DEF StatusPage!Cardinality, Cardinality
<1>2. WidestTo(s, root) = width[N]
  BY <1>1 DEF WidestTo, StatusPage!WidestWalks
<1>3. /\ g.services = Catalogue /\ g.source = s /\ g.edges = Links /\ g.impact = cap
  OBVIOUS
<1>4. \A S : StatusPage!Max(S) = Top(S)
  BY DEF StatusPage!Max, Top
<1>5. \A x, y : StatusPage!Smaller(x, y) = Lesser(x, y)
  BY DEF StatusPage!Smaller, Lesser
<1> HIDE DEF g
<1>6. Arcs(g) = present /\ present = Joined
  BY <1>3 DEF Arcs, Joined
<1>7. FirstWidths(g, root) = First
  BY <1>3, <1>4, <1>6 DEF FirstWidths
<1>8. \A w, n : WiderBy(g, w[n - 1]) = Longer(w, n)
  BY <1>3, <1>4, <1>5, <1>6 DEF WiderBy
<1> HIDE DEF First, Longer
<1>9. \A w : WidthsTo(g, w, root, N) <=> w = OfSteps(w)
  BY <1>7, <1>8 DEF WidthsTo
<1> HIDE DEF OfSteps
<1>10. N \in Nat
  BY StatusAssumption, FS_CardinalityType
<1>11. WidthsTo(g, width, root, N)
  <2>1. \E w : w = OfSteps(w)
    BY <1>9, <1>10, WidthsExist
  <2> QED BY <1>9, <2>1
<1> HIDE DEF width
<1>12. Net(g)
  BY <1>3, StatusAssumption DEF Net, StatusTypes
<1>13. CapsOn(g) = Widths /\ \A v : ClosedOn(g, root, v) <=> ClosedFrom(s, root, v)
  BY <1>3, <1>5, <1>6 DEF CapsOn, Widths, ClosedOn, ClosedFrom
<1>14. PICK last : last = width[N]
  OBVIOUS
<1>15. /\ last \in CapsOn(g) /\ ClosedOn(g, root, last)
       /\ \A v \in CapsOn(g) : ClosedOn(g, root, v) => \A t \in Catalogue : last[t] <= v[t]
  BY <1>3, <1>11, <1>12, <1>14, WidthsAreLeast
<1> QED BY <1>2, <1>13, <1>14, <1>15

Roots == {l.capability : l \in StatusPage!Range(Links)}

LEMMA OnwardIs ==
  ASSUME StatusTypes, NEW X, \A k \in Joined : Links[k].source \in X => Links[k].target \in X
  PROVE  Onward(X) \subseteq X
<1> SUFFICES ASSUME NEW x \in X, NEW t \in StatusPage!Linked(x) PROVE t \in X
  BY DEF Onward
<1>1. PICK k \in Joined : Links[k].source = x /\ t = Links[k].target
  BY DEF StatusPage!Linked, Joined
<1> QED BY <1>1

\* A service is among what another reaches just when a walk of some root
\* capability leads to it: the traversal of deadlines and that of risks visit
\* the same services.
LEMMA ReachedByWalks ==
  ASSUME StatusTypes, NEW s \in Catalogue, NEW t \in Catalogue, t # s
  PROVE  t \in StatusPage!Reachable(s) <=> \E root \in Roots : WidestTo(s, root)[t] # 0
<1>1. ASSUME t \in StatusPage!Reachable(s)
      PROVE  \E root \in Roots : WidestTo(s, root)[t] # 0
  <2> DEFINE X == {s} \cup {x \in Catalogue : \E root \in Roots : WidestTo(s, root)[x] # 0}
  <2>1. ASSUME NEW k \in Joined, Links[k].source \in X PROVE Links[k].target \in X
    <3>1. cap[k] \in 1 .. 3 /\ Links[k].target \in Catalogue /\ Links[k].source \in Catalogue
      BY JoinTypes
    <3>2. CASE Links[k].source = s
      <4>1. Links[k].capability \in Roots
        BY JoinTypes DEF Roots, StatusPage!Range
      <4>2. PICK w : w = WidestTo(s, Links[k].capability)
        OBVIOUS
      <4>3. w \in Widths /\ ClosedFrom(s, Links[k].capability, w)
        BY <4>2, WidestToHolds
      <4>4. w[Links[k].target] >= cap[k] /\ w[Links[k].target] \in 0 .. 3
        BY <3>1, <3>2, <4>3 DEF ClosedFrom, Widths
      <4>5. w[Links[k].target] # 0
        BY <3>1, <4>4
      <4> QED BY <3>1, <4>1, <4>2, <4>5
    <3>3. CASE Links[k].source # s
      <4>1. PICK root \in Roots : WidestTo(s, root)[Links[k].source] # 0
        BY <2>1, <3>3
      <4>2. PICK w : w = WidestTo(s, root)
        OBVIOUS
      <4>3. w \in Widths /\ ClosedFrom(s, root, w)
        BY <4>2, WidestToHolds
      <4>4. /\ w[Links[k].target] >= StatusPage!Smaller(w[Links[k].source], cap[k])
            /\ w[Links[k].target] \in 0 .. 3 /\ w[Links[k].source] \in 1 .. 3
        BY <3>1, <3>3, <4>1, <4>2, <4>3 DEF ClosedFrom, Widths
      <4>5. StatusPage!Smaller(w[Links[k].source], cap[k]) \in 1 .. 3
        BY <3>1, <4>4 DEF StatusPage!Smaller
      <4>6. w[Links[k].target] # 0
        BY <4>4, <4>5
      <4> QED BY <3>1, <4>2, <4>6
    <3> QED BY <3>2, <3>3
  <2>2. s \in X
    OBVIOUS
  <2> HIDE DEF X
  <2>3. StatusPage!Reachable(s) \subseteq X
    <3>1. Onward(X) \subseteq X
      BY <2>1, OnwardIs
    <3> QED BY <2>2, <3>1, ReachableIs
  <2> QED BY <1>1, <2>3 DEF X
<1>2. ASSUME NEW root \in Roots, WidestTo(s, root)[t] # 0
      PROVE  t \in StatusPage!Reachable(s)
  <2> DEFINE v == [x \in Catalogue |-> IF x \in StatusPage!Reachable(s) THEN 3 ELSE 0]
  <2>1. v \in Widths
    BY DEF Widths
  <2>2. ASSUME NEW k \in Joined, Links[k].source \in StatusPage!Reachable(s)
        PROVE  Links[k].target \in StatusPage!Reachable(s)
    <3>1. Links[k].target \in StatusPage!Linked(Links[k].source)
      BY DEF StatusPage!Linked, Joined
    <3> QED BY <2>2, <3>1, ReachableIs DEF Onward
  <2>3. ClosedFrom(s, root, v)
    <3> SUFFICES ASSUME NEW k \in Joined
                 PROVE  /\ Links[k].source = s => v[Links[k].target] >= cap[k]
                        /\ v[Links[k].target] >= StatusPage!Smaller(v[Links[k].source], cap[k])
      BY DEF ClosedFrom
    <3>1. cap[k] \in 1 .. 3 /\ Links[k].target \in Catalogue /\ Links[k].source \in Catalogue
      BY JoinTypes
    <3>2. CASE Links[k].source \in StatusPage!Reachable(s)
      <4>1. v[Links[k].target] = 3 /\ v[Links[k].source] = 3
        BY <2>2, <3>1, <3>2
      <4> QED BY <3>1, <4>1 DEF StatusPage!Smaller
    <3>3. CASE Links[k].source \notin StatusPage!Reachable(s)
      <4>1. Links[k].source # s
        BY <3>3, ReachableIs
      <4>2. v[Links[k].source] = 0 /\ v[Links[k].target] \in {0, 3}
        BY <3>1, <3>3
      <4> QED BY <3>1, <4>1, <4>2 DEF StatusPage!Smaller
    <3> QED BY <3>2, <3>3
  <2>4. v[t] = IF t \in StatusPage!Reachable(s) THEN 3 ELSE 0
    OBVIOUS
  <2> HIDE DEF v
  <2>5. PICK w : w = WidestTo(s, root)
    OBVIOUS
  <2>6. w \in Widths /\ w[t] <= v[t]
    BY <2>1, <2>3, <2>5, WidestToHolds
  <2>7. w[t] \in 1 .. 3
    BY <1>2, <2>5, <2>6 DEF Widths
  <2> QED BY <2>4, <2>6, <2>7
<1> QED BY <1>1, <1>2

-----------------------------------------------------------------------------
\* One element of the set of risks.
RiskAt(s, t, root, n) ==
  IF t = s \/ WidestTo(s, root)[t] = 0 THEN "operational"
  ELSE StatusPage!RiskThrough(StatusPage!DirectNow(n)[t], WidestTo(s, root)[t])

LEMMA RisksAre ==
  ASSUME NEW s, NEW n
  PROVE  StatusPage!Risks(s, n) = {RiskAt(s, t, root, n) : t \in Catalogue, root \in Roots}
BY DEF StatusPage!Risks, RiskAt, WidestTo, Roots

LEMMA DirectIs ==
  ASSUME StatusTypes, NEW n \in Nat, NEW t \in Catalogue
  PROVE  /\ stored[t].direct \in StatusPage!Statuses
         /\ stored[t].until \in Nat \cup {Absent}
         /\ StatusPage!DirectNow(n)[t] = StatusPage!Fresh(stored[t].direct, stored[t].until, n)
         /\ StatusPage!DirectNow(n)[t] \in StatusPage!Statuses
<1>1. stored[t].direct \in StatusPage!Statuses /\ stored[t].until \in Nat \cup {Absent}
  BY DEF StatusTypes, StatusRows
<1>2. StatusPage!DirectNow(n)[t] = StatusPage!Fresh(stored[t].direct, stored[t].until, n)
  BY DEF StatusPage!DirectNow
<1>3. StatusPage!Fresh(stored[t].direct, stored[t].until, n) \in StatusPage!Statuses
  BY <1>1, FreshIs
<1> QED BY <1>1, <1>2, <1>3

LEMMA RiskTypes ==
  ASSUME StatusTypes, NEW s \in Catalogue, NEW n \in Nat
  PROVE  StatusPage!Risks(s, n) \in SUBSET Risks
<1> SUFFICES ASSUME NEW t \in Catalogue, NEW root \in Roots PROVE RiskAt(s, t, root, n) \in Risks
  BY RisksAre
<1>1. CASE t = s \/ WidestTo(s, root)[t] = 0
  BY <1>1 DEF RiskAt, Risks, Graph!Statuses
<1>2. CASE ~(t = s \/ WidestTo(s, root)[t] = 0)
  <2>1. PICK c \in 1 .. 3 : c = WidestTo(s, root)[t]
    BY <1>2, WidestToHolds DEF Widths
  <2>2. StatusPage!RiskThrough(StatusPage!DirectNow(n)[t], c) \in Risks
    BY DirectIs, PassedOn
  <2> QED BY <1>2, <2>1, <2>2 DEF RiskAt
<1> QED BY <1>1, <1>2

\* The risk of a service depends on the services it reaches only.
LEMMA SameRisk ==
  ASSUME StatusTypes, NEW s \in Catalogue, NEW m \in Nat, NEW n \in Nat,
         \A t \in StatusPage!Reachable(s) : StatusPage!DirectNow(m)[t] = StatusPage!DirectNow(n)[t]
  PROVE  StatusPage!Risk(s, m) = StatusPage!Risk(s, n)
<1>1. ASSUME NEW t \in Catalogue, NEW root \in Roots
      PROVE  RiskAt(s, t, root, m) = RiskAt(s, t, root, n)
  <2>1. CASE t = s \/ WidestTo(s, root)[t] = 0
    BY <2>1 DEF RiskAt
  <2>2. CASE ~(t = s \/ WidestTo(s, root)[t] = 0)
    <3>1. t \in StatusPage!Reachable(s)
      BY <2>2, ReachedByWalks
    <3> QED BY <2>2, <3>1 DEF RiskAt
  <2> QED BY <2>1, <2>2
<1>2. StatusPage!Risks(s, m) = StatusPage!Risks(s, n)
  BY <1>1, RisksAre
<1> QED BY <1>2 DEF StatusPage!Risk

\* What a reached service in a status means for the risk.
LEMMA RiskSays ==
  ASSUME StatusTypes, NEW s \in Catalogue, NEW n \in Nat,
         NEW t \in StatusPage!Reachable(s), t # s
  PROVE  /\ StatusPage!Risk(s, n) = "operational" => StatusPage!DirectNow(n)[t] = "operational"
         /\ StatusPage!DirectNow(n)[t] = "unknown"
              => StatusPage!Risk(s, n) \in StatusPage!Failures \cup {"unknown"}
         /\ StatusPage!DirectNow(n)[t] \in StatusPage!Failures
              => StatusPage!Risk(s, n) \in StatusPage!Failures
<1>1. t \in Catalogue
  BY ReachableIs
<1>2. PICK root \in Roots : WidestTo(s, root)[t] # 0
  BY <1>1, ReachedByWalks
<1>3. PICK c \in 1 .. 3 : c = WidestTo(s, root)[t]
  BY <1>1, <1>2, WidestToHolds DEF Widths
<1>4. PICK d \in StatusPage!Statuses : d = StatusPage!DirectNow(n)[t]
  BY <1>1, DirectIs
<1>5. PICK r : r = StatusPage!RiskThrough(d, c)
  OBVIOUS
<1>6. PICK R \in SUBSET Risks : R = StatusPage!Risks(s, n)
  BY RiskTypes
<1>7. r \in R
  <2>1. RiskAt(s, t, root, n) = r
    BY <1>2, <1>3, <1>4, <1>5 DEF RiskAt
  <2> QED BY <1>1, <1>6, <2>1, RisksAre
<1>8. PICK a : a = StatusPage!Risk(s, n)
  OBVIOUS
<1>9. a = Graph!StrongestRisk(R)
  BY <1>6, <1>8, SameRanks DEF StatusPage!Risk
<1>10. /\ a \in Risks
       /\ a = "operational" => R \subseteq {"operational"}
       /\ a = "unknown" => "unknown" \in R /\ R \cap Graph!Failures = {}
  BY <1>9, StrongestIs
<1>11. /\ r = "operational" => d = "operational"
       /\ d = "unknown" => r = "unknown"
       /\ d \in StatusPage!Failures => r \in StatusPage!Failures
  BY <1>5, PassedOn
<1>12. Risks = StatusPage!Failures \cup {"operational", "unknown"}
  BY DEF Risks, Graph!Statuses, Graph!Failures, StatusPage!Failures
<1>13. /\ "operational" \notin StatusPage!Failures /\ "unknown" \notin StatusPage!Failures
       /\ Graph!Failures = StatusPage!Failures
  BY SameRanks DEF StatusPage!Failures
<1>14. a = "operational" => d = "operational"
  BY <1>7, <1>10, <1>11
<1>15. d = "unknown" => a \in StatusPage!Failures \cup {"unknown"}
  BY <1>7, <1>10, <1>11, <1>12
<1>16. d \in StatusPage!Failures => a \in StatusPage!Failures
  BY <1>7, <1>10, <1>11, <1>12, <1>13
<1> QED BY <1>4, <1>8, <1>14, <1>15, <1>16

LEMMA RiskType ==
  ASSUME StatusTypes, NEW s \in Catalogue, NEW n \in Nat
  PROVE  StatusPage!Risk(s, n) \in StatusPage!Statuses
<1>1. PICK R \in SUBSET Risks : R = StatusPage!Risks(s, n)
  BY RiskTypes
<1>2. PICK a : a = StatusPage!Risk(s, n)
  OBVIOUS
<1>3. a = Graph!StrongestRisk(R)
  BY <1>1, <1>2, SameRanks DEF StatusPage!Risk
<1>4. a \in Risks
  BY <1>3, StrongestIs
<1> QED BY <1>2, <1>4, SameRanks DEF Risks

-----------------------------------------------------------------------------
LEMMA EarliestOf ==
  ASSUME NEW S \in SUBSET Nat, S # {}
  PROVE  StatusPage!Min(S) \in S /\ \A x \in S : StatusPage!Min(S) <= x
BY LeastOf DEF StatusPage!Min

LEMMA UntilIs ==
  ASSUME StatusTypes, NEW x \in Catalogue \cup Screens
  PROVE  /\ StatusPage!Until(stored[x]) \in Nat
         /\ \A n \in Nat : n >= 1 /\ StatusPage!Until(stored[x]) >= n =>
              stored[x].until = StatusPage!Until(stored[x]) /\ stored[x].until \in Nat
BY DEF StatusTypes, StatusRows, StatusPage!Until

\* The deadline of a service is that of some service it reaches, and no other
\* is earlier.
LEMMA DeadlineIs ==
  ASSUME StatusTypes, NEW s \in Catalogue
  PROVE  /\ StatusPage!EarliestDeadline(s) \in Nat
         /\ \E t \in StatusPage!Reachable(s) :
              StatusPage!EarliestDeadline(s) = StatusPage!Until(stored[t])
         /\ \A t \in StatusPage!Reachable(s) :
              StatusPage!EarliestDeadline(s) <= StatusPage!Until(stored[t])
<1> DEFINE S == {StatusPage!Until(stored[t]) : t \in StatusPage!Reachable(s)}
<1>1. S \in SUBSET Nat /\ S # {}
  BY ReachableIs, UntilIs
<1>2. StatusPage!EarliestDeadline(s) = StatusPage!Min(S)
  BY DEF StatusPage!EarliestDeadline
<1>3. StatusPage!Min(S) \in S /\ \A x \in S : StatusPage!Min(S) <= x
  <2> HIDE DEF S
  <2> QED BY <1>1, EarliestOf
<1> QED BY <1>1, <1>2, <1>3

\* Before its deadline the status of a service is what the stored statuses say.
StandingAt(s, n) == StatusPage!Aggregate({StatusPage!DirectNow(n)[s], StatusPage!Risk(s, n)})

LEMMA ServiceIs ==
  ASSUME StatusTypes, NEW s \in Catalogue, NEW n \in Nat
  PROVE  /\ StandingAt(s, n) \in StatusPage!Statuses
         /\ StatusPage!ServiceStatus(s, n) =
              StatusPage!Fresh(StandingAt(s, n), StatusPage!EarliestDeadline(s), n)
         /\ StatusPage!ServiceStatus(s, n) \in StatusPage!Statuses
<1>1. PICK S \in SUBSET StatusPage!Statuses : S = {StatusPage!DirectNow(n)[s], StatusPage!Risk(s, n)}
  BY DirectIs, RiskType
<1>2. StandingAt(s, n) \in StatusPage!Statuses
  BY <1>1, AggregateIs DEF StandingAt
<1>3. StatusPage!ServiceStatus(s, n) =
        StatusPage!Fresh(StandingAt(s, n), StatusPage!EarliestDeadline(s), n)
  BY DEF StatusPage!ServiceStatus, StandingAt
<1>4. StatusPage!Fresh(StandingAt(s, n), StatusPage!EarliestDeadline(s), n) \in StatusPage!Statuses
  BY <1>2, FreshIs
<1> QED BY <1>2, <1>3, <1>4

\* What two readers see before the deadline is the same.
LEMMA ServiceKept ==
  ASSUME StatusTypes, NEW s \in Catalogue, NEW m \in Nat, NEW n \in Nat, 1 <= m, m <= n,
         StatusPage!EarliestDeadline(s) >= n
  PROVE  StatusPage!ServiceStatus(s, m) = StatusPage!ServiceStatus(s, n)
<1>1. ASSUME NEW t \in StatusPage!Reachable(s)
      PROVE  StatusPage!DirectNow(m)[t] = StatusPage!DirectNow(n)[t]
  <2>1. t \in Catalogue
    BY ReachableIs
  <2>2. StatusPage!EarliestDeadline(s) \in Nat /\ StatusPage!Until(stored[t]) \in Nat
    BY <2>1, DeadlineIs, UntilIs
  <2>3. StatusPage!Until(stored[t]) >= n
    BY <2>2, DeadlineIs
  <2>4. PICK u \in Nat : u = stored[t].until /\ u >= n /\ u >= m
    <3>1. n >= 1
      OBVIOUS
    <3>2. stored[t].until = StatusPage!Until(stored[t]) /\ stored[t].until \in Nat
      BY <2>1, <2>3, <3>1, UntilIs
    <3> QED BY <2>2, <2>3, <3>2
  <2>5. PICK d \in StatusPage!Statuses : d = stored[t].direct
    BY <2>1, DirectIs
  <2>6. StatusPage!Fresh(d, u, m) = d /\ StatusPage!Fresh(d, u, n) = d
    BY <2>4, FreshIs
  <2> QED BY <2>1, <2>4, <2>5, <2>6, DirectIs
<1>2. StatusPage!Risk(s, m) = StatusPage!Risk(s, n)
  BY <1>1, SameRisk
<1>3. StandingAt(s, m) = StandingAt(s, n)
  <2>1. StatusPage!DirectNow(m)[s] = StatusPage!DirectNow(n)[s]
    BY <1>1, ReachableIs
  <2> QED BY <1>2, <2>1 DEF StandingAt
<1>4. PICK a \in StatusPage!Statuses : a = StandingAt(s, m) /\ a = StandingAt(s, n)
  BY <1>3, ServiceIs
<1>5. PICK e \in Nat : e = StatusPage!EarliestDeadline(s) /\ e >= n /\ e >= m
  BY DeadlineIs
<1>6. StatusPage!Fresh(a, e, m) = a /\ StatusPage!Fresh(a, e, n) = a
  BY <1>5, FreshIs
<1> QED BY <1>4, <1>5, <1>6, ServiceIs

\* Health is claimed on proofs that hold.
LEMMA ServiceProved ==
  ASSUME StatusTypes, NEW s \in Catalogue, StatusPage!ServiceStatus(s, instant) = "operational",
         NEW t \in StatusPage!Reachable(s)
  PROVE  StatusPage!Proved(t)
<1>1. t \in Catalogue /\ instant \in Nat
  BY ReachableIs DEF StatusTypes
<1>2. PICK a \in StatusPage!Statuses : a = StandingAt(s, instant)
  BY <1>1, ServiceIs
<1>3. PICK e \in Nat : e = StatusPage!EarliestDeadline(s)
  BY DeadlineIs
<1>4. a = "operational" /\ ~(e < instant)
  <2>1. StatusPage!Fresh(a, e, instant) = "operational"
    BY <1>1, <1>2, <1>3, ServiceIs
  <2>2. /\ StatusPage!Fresh(a, e, instant) \in {a, "unknown"}
        /\ StatusPage!Fresh(a, e, instant) = "operational" => ~(e < instant)
    BY <1>1, FreshIs
  <2> QED BY <2>1, <2>2
<1>5. StatusPage!Until(stored[t]) >= instant
  <2>1. e <= StatusPage!Until(stored[t]) /\ StatusPage!Until(stored[t]) \in Nat
    BY <1>1, <1>3, DeadlineIs, UntilIs
  <2> QED BY <1>1, <1>4, <2>1
<1>6. StatusPage!DirectNow(instant)[s] = "operational" /\ StatusPage!Risk(s, instant) = "operational"
  <2>1. PICK S \in SUBSET StatusPage!Statuses :
          S = {StatusPage!DirectNow(instant)[s], StatusPage!Risk(s, instant)}
    BY <1>1, DirectIs, RiskType
  <2>2. a = StatusPage!Aggregate(S) /\ S # {}
    BY <1>2, <2>1 DEF StandingAt
  <2>3. S = {"operational"}
    BY <1>4, <2>2, AggregateIs
  <2> QED BY <2>1, <2>3
<1>7. StatusPage!DirectNow(instant)[t] = "operational"
  BY <1>1, <1>6, RiskSays
<1>8. stored[t].direct = "operational"
  <2>1. PICK d \in StatusPage!Statuses : d = stored[t].direct
    BY <1>1, DirectIs
  <2>2. StatusPage!Fresh(d, stored[t].until, instant) = "operational"
    BY <1>1, <1>7, <2>1, DirectIs
  <2>3. StatusPage!Fresh(d, stored[t].until, instant) \in {d, "unknown"}
    BY <1>1, FreshIs
  <2> QED BY <2>1, <2>2, <2>3
<1> QED BY <1>5, <1>8 DEF StatusPage!Proved

\* The freshness of the whole takes nothing from the effective impact: when a
\* deadline has passed the impact is a failure or unknown already.
LEMMA ServiceStands ==
  ASSUME StatusTypes, NEW s \in Catalogue, NEW n \in Nat
  PROVE  StatusPage!ServiceStatus(s, n) = StandingAt(s, n)
<1>1. PICK a \in StatusPage!Statuses : a = StandingAt(s, n)
  BY ServiceIs
<1>2. PICK e \in Nat : e = StatusPage!EarliestDeadline(s)
  BY DeadlineIs
<1>3. StatusPage!ServiceStatus(s, n) = StatusPage!Fresh(a, e, n)
  BY <1>1, <1>2, ServiceIs
<1>4. CASE e >= n
  BY <1>1, <1>3, <1>4, FreshIs
<1>5. CASE ~(e >= n)
  <2>1. PICK t \in StatusPage!Reachable(s) : e = StatusPage!Until(stored[t])
    BY <1>2, DeadlineIs
  <2>2. t \in Catalogue
    BY ReachableIs
  <2>3. PICK d \in StatusPage!Statuses : d = StatusPage!DirectNow(n)[t]
    BY <2>2, DirectIs
  <2>4. d \in StatusPage!Failures \cup {"unknown"}
    <3>1. PICK q \in StatusPage!Statuses : q = stored[t].direct
      BY <2>2, DirectIs
    <3>2. PICK u \in Nat \cup {Absent} : u = stored[t].until
      BY <2>2, DirectIs
    <3>3. d = StatusPage!Fresh(q, u, n)
      BY <2>2, <2>3, <3>1, <3>2, DirectIs
    <3>4. CASE u = Absent
      BY <3>3, <3>4 DEF StatusPage!Fresh
    <3>5. CASE u # Absent
      <4>1. u \in Nat /\ u = e
        BY <2>1, <3>2, <3>5 DEF StatusPage!Until
      <4>2. u < n
        BY <1>5, <4>1
      <4> QED BY <3>3, <4>1, <4>2, FreshIs
    <3> QED BY <3>4, <3>5
  <2>5. PICK r \in StatusPage!Statuses : r = StatusPage!Risk(s, n)
    BY RiskType
  <2>6. PICK own \in StatusPage!Statuses : own = StatusPage!DirectNow(n)[s]
    BY DirectIs
  <2>7. own \in StatusPage!Failures \cup {"unknown"} \/ r \in StatusPage!Failures \cup {"unknown"}
    <3>1. CASE t = s
      BY <2>3, <2>4, <2>6, <3>1
    <3>2. CASE t # s
      BY <2>3, <2>4, <2>5, <3>2, RiskSays
    <3> QED BY <3>1, <3>2
  <2>8. PICK S \in SUBSET StatusPage!Statuses : S = {own, r}
    OBVIOUS
  <2>9. a = StatusPage!Aggregate(S)
    BY <1>1, <2>5, <2>6, <2>8 DEF StandingAt
  <2>10. a \in StatusPage!Failures \cup {"unknown"}
    <3>1. /\ \A x \in S : x \in StatusPage!Failures => a \in StatusPage!Failures
          /\ "unknown" \in S => a \in StatusPage!Failures \cup {"unknown"}
      BY <2>9, AggregateIs
    <3> QED BY <2>7, <2>8, <3>1
  <2>11. StatusPage!Fresh(a, e, n) = a
    <3>1. CASE a \in StatusPage!Failures
      <4>1. e # Absent
        BY StatusAssumption
      <4> QED BY <3>1, <4>1, FreshIs
    <3>2. CASE a = "unknown"
      BY <3>2 DEF StatusPage!Fresh
    <3> QED BY <2>10, <3>1, <3>2
  <2> QED BY <1>1, <1>3, <2>11
<1> QED BY <1>4, <1>5

-----------------------------------------------------------------------------
\* What a component is made of.
Partial(c, n) ==
  {StatusPage!Fresh(stored[c].direct, stored[c].until, n)} \cup
  {StatusPage!ServiceStatus(s, n) : s \in StatusPage!Supporting(c)} \cup
  {"unknown" : s \in StatusPage!Supporters(c) \ Catalogue}

LEMMA OwnIs ==
  ASSUME StatusTypes, NEW c \in Screens
  PROVE  /\ stored[c].direct \in StatusPage!Statuses
         /\ stored[c].until \in Nat \cup {Absent}
BY DEF StatusTypes, StatusRows

LEMMA PartialTypes ==
  ASSUME StatusTypes, NEW c \in Screens, NEW n \in Nat
  PROVE  Partial(c, n) \in SUBSET StatusPage!Statuses /\ Partial(c, n) # {}
<1>1. StatusPage!Fresh(stored[c].direct, stored[c].until, n) \in StatusPage!Statuses
  BY OwnIs, FreshIs
<1>2. \A s \in StatusPage!Supporting(c) : StatusPage!ServiceStatus(s, n) \in StatusPage!Statuses
  BY ServiceIs DEF StatusPage!Supporting
<1>3. "unknown" \in StatusPage!Statuses
  BY DEF StatusPage!Statuses
<1> QED BY <1>1, <1>2, <1>3 DEF Partial

LEMMA ScreenDeadlineIs ==
  ASSUME StatusTypes, NEW c \in Screens
  PROVE  /\ StatusPage!ScreenDeadline(c) \in Nat
         /\ StatusPage!ScreenDeadline(c) <= StatusPage!Until(stored[c])
         /\ \A s \in StatusPage!Supporting(c) :
              StatusPage!ScreenDeadline(c) <= StatusPage!EarliestDeadline(s)
<1> DEFINE S == {StatusPage!Until(stored[c])} \cup
                {StatusPage!EarliestDeadline(s) : s \in StatusPage!Supporting(c)} \cup
                {0 : s \in StatusPage!Supporters(c) \ Catalogue}
<1>1. S \in SUBSET Nat /\ S # {}
  <2>1. StatusPage!Until(stored[c]) \in Nat
    BY UntilIs
  <2>2. \A s \in StatusPage!Supporting(c) : StatusPage!EarliestDeadline(s) \in Nat
    BY DeadlineIs DEF StatusPage!Supporting
  <2> QED BY <2>1, <2>2
<1>2. StatusPage!ScreenDeadline(c) = StatusPage!Min(S)
  BY DEF StatusPage!ScreenDeadline
<1>3. StatusPage!Min(S) \in S /\ \A x \in S : StatusPage!Min(S) <= x
  <2> HIDE DEF S
  <2> QED BY <1>1, EarliestOf
<1> QED BY <1>1, <1>2, <1>3

LEMMA ScreenIs ==
  ASSUME StatusTypes, NEW c \in Screens, NEW n \in Nat
  PROVE  /\ StatusPage!Aggregate(Partial(c, n)) \in StatusPage!Statuses
         /\ StatusPage!ScreenStatus(c, n) =
              StatusPage!Fresh(StatusPage!Aggregate(Partial(c, n)), StatusPage!ScreenDeadline(c), n)
         /\ StatusPage!ScreenStatus(c, n) \in StatusPage!Statuses
<1>1. PICK a : a = StatusPage!Aggregate(Partial(c, n))
  OBVIOUS
<1>2. a \in StatusPage!Statuses
  BY <1>1, PartialTypes, AggregateIs
<1>3. StatusPage!ScreenStatus(c, n) =
        StatusPage!Fresh(StatusPage!Aggregate(Partial(c, n)), StatusPage!ScreenDeadline(c), n)
  BY DEF StatusPage!ScreenStatus, Partial
<1>4. StatusPage!Fresh(a, StatusPage!ScreenDeadline(c), n) \in StatusPage!Statuses
  BY <1>2, FreshIs
<1> QED BY <1>1, <1>2, <1>3, <1>4

LEMMA ScreenKept ==
  ASSUME StatusTypes, NEW c \in Screens, NEW m \in Nat, NEW n \in Nat, 1 <= m, m <= n,
         StatusPage!ScreenDeadline(c) >= n
  PROVE  StatusPage!ScreenStatus(c, m) = StatusPage!ScreenStatus(c, n)
<1>1. PICK e \in Nat : e = StatusPage!ScreenDeadline(c) /\ e >= n /\ e >= m
  BY ScreenDeadlineIs
<1>2. ASSUME NEW s \in StatusPage!Supporting(c)
      PROVE  StatusPage!ServiceStatus(s, m) = StatusPage!ServiceStatus(s, n)
  <2>1. s \in Catalogue
    BY DEF StatusPage!Supporting
  <2>2. StatusPage!EarliestDeadline(s) \in Nat /\ e <= StatusPage!EarliestDeadline(s)
    BY <1>1, <2>1, ScreenDeadlineIs, DeadlineIs
  <2>3. StatusPage!EarliestDeadline(s) >= n
    BY <1>1, <2>2
  <2> QED BY <2>1, <2>3, ServiceKept
<1>3. StatusPage!Fresh(stored[c].direct, stored[c].until, m)
        = StatusPage!Fresh(stored[c].direct, stored[c].until, n)
  <2>1. PICK u \in Nat : u = StatusPage!Until(stored[c]) /\ u >= n /\ u >= m
    <3>1. StatusPage!Until(stored[c]) \in Nat /\ e <= StatusPage!Until(stored[c])
      BY <1>1, ScreenDeadlineIs, UntilIs
    <3> QED BY <1>1, <3>1
  <2>2. u = stored[c].until
    <3>1. n >= 1
      OBVIOUS
    <3> QED BY <2>1, <3>1, UntilIs
  <2>3. PICK d \in StatusPage!Statuses : d = stored[c].direct
    BY OwnIs
  <2>4. StatusPage!Fresh(d, u, m) = d /\ StatusPage!Fresh(d, u, n) = d
    BY <2>1, FreshIs
  <2> QED BY <2>2, <2>3, <2>4
<1>4. Partial(c, m) = Partial(c, n)
  <2>1. {StatusPage!ServiceStatus(s, m) : s \in StatusPage!Supporting(c)}
          = {StatusPage!ServiceStatus(s, n) : s \in StatusPage!Supporting(c)}
    BY <1>2
  <2> QED BY <1>3, <2>1 DEF Partial
<1>5. PICK a \in StatusPage!Statuses :
        a = StatusPage!Aggregate(Partial(c, m)) /\ a = StatusPage!Aggregate(Partial(c, n))
  BY <1>4, ScreenIs
<1>6. StatusPage!Fresh(a, e, m) = a /\ StatusPage!Fresh(a, e, n) = a
  BY <1>1, FreshIs
<1> QED BY <1>1, <1>5, <1>6, ScreenIs

LEMMA ScreenProved ==
  ASSUME StatusTypes, NEW c \in Screens, StatusPage!ScreenStatus(c, instant) = "operational"
  PROVE  /\ StatusPage!Proved(c)
         /\ \A s \in StatusPage!Supporters(c) :
              s \in Catalogue /\ \A t \in StatusPage!Reachable(s) : StatusPage!Proved(t)
<1>1. instant \in Nat /\ instant >= 1
  BY DEF StatusTypes
<1>2. PICK S \in SUBSET StatusPage!Statuses : S = Partial(c, instant) /\ S # {}
  BY <1>1, PartialTypes
<1>3. PICK a \in StatusPage!Statuses : a = StatusPage!Aggregate(S)
  BY <1>1, <1>2, ScreenIs
<1>4. PICK e \in Nat : e = StatusPage!ScreenDeadline(c)
  BY ScreenDeadlineIs
<1>5. a = "operational"
  <2>1. StatusPage!Fresh(a, e, instant) = "operational"
    BY <1>1, <1>2, <1>3, <1>4, ScreenIs
  <2>2. StatusPage!Fresh(a, e, instant) \in {a, "unknown"}
    BY <1>1, FreshIs
  <2> QED BY <2>1, <2>2
<1>6. S = {"operational"}
  <2>1. S # {} /\ a = "operational" => S = {"operational"}
    BY <1>3, AggregateIs
  <2> QED BY <1>2, <1>5, <2>1
<1>7. StatusPage!Proved(c)
  <2>1. PICK d \in StatusPage!Statuses : d = stored[c].direct
    BY OwnIs
  <2>2. PICK u \in Nat \cup {Absent} : u = stored[c].until
    BY OwnIs
  <2>3. StatusPage!Fresh(d, u, instant) = "operational"
    BY <1>2, <1>6, <2>1, <2>2 DEF Partial
  <2>4. d = "operational" /\ u # Absent /\ ~(u < instant)
    <3>1. /\ StatusPage!Fresh(d, u, instant) \in {d, "unknown"}
          /\ StatusPage!Fresh(d, u, instant) # "unknown" => u # Absent
          /\ StatusPage!Fresh(d, u, instant) = "operational" => ~(u < instant)
      BY <1>1, FreshIs
    <3> QED BY <2>3, <3>1
  <2>5. StatusPage!Until(stored[c]) = u /\ u \in Nat
    BY <2>2, <2>4 DEF StatusPage!Until
  <2>6. u >= instant
    BY <1>1, <2>4, <2>5
  <2> QED BY <2>1, <2>4, <2>5, <2>6 DEF StatusPage!Proved
<1>8. ASSUME NEW s \in StatusPage!Supporters(c)
      PROVE  s \in Catalogue /\ \A t \in StatusPage!Reachable(s) : StatusPage!Proved(t)
  <2>1. s \in Catalogue
    <3>1. s \notin Catalogue => "unknown" \in S
      BY <1>2 DEF Partial
    <3> QED BY <1>6, <3>1
  <2>2. StatusPage!ServiceStatus(s, instant) \in S
    BY <1>2, <2>1 DEF Partial, StatusPage!Supporting
  <2>3. StatusPage!ServiceStatus(s, instant) = "operational"
    BY <1>6, <2>2
  <2> QED BY <2>1, <2>3, ServiceProved
<1> QED BY <1>7, <1>8

-----------------------------------------------------------------------------
Overall(n) == StatusPage!Aggregate({StatusPage!ScreenStatus(c, n) : c \in Screens})
OverallUntil(n) == IF Screens = {} THEN n
                   ELSE StatusPage!Min({StatusPage!ScreenDeadline(c) : c \in Screens})

LEMMA OverallIs ==
  ASSUME StatusTypes, NEW n \in Nat
  PROVE  /\ Overall(n) \in StatusPage!Statuses /\ OverallUntil(n) \in Nat
         /\ \A c \in Screens : OverallUntil(n) <= StatusPage!ScreenDeadline(c)
<1>1. PICK S \in SUBSET StatusPage!Statuses : S = {StatusPage!ScreenStatus(c, n) : c \in Screens}
  <2>1. \A c \in Screens : StatusPage!ScreenStatus(c, n) \in StatusPage!Statuses
    BY ScreenIs
  <2> QED BY <2>1
<1>2. Overall(n) \in StatusPage!Statuses
  <2>1. PICK a : a = StatusPage!Aggregate(S)
    OBVIOUS
  <2>2. a \in StatusPage!Statuses
    BY <2>1, AggregateIs
  <2> QED BY <1>1, <2>1, <2>2 DEF Overall
<1>3. CASE Screens = {}
  BY <1>2, <1>3 DEF OverallUntil
<1>4. CASE Screens # {}
  <2> DEFINE D == {StatusPage!ScreenDeadline(c) : c \in Screens}
  <2>1. D \in SUBSET Nat /\ D # {}
    BY <1>4, ScreenDeadlineIs
  <2>2. OverallUntil(n) = StatusPage!Min(D)
    BY <1>4 DEF OverallUntil
  <2>3. StatusPage!Min(D) \in D /\ \A x \in D : StatusPage!Min(D) <= x
    <3> HIDE DEF D
    <3> QED BY <2>1, EarliestOf
  <2> QED BY <1>2, <2>1, <2>2, <2>3
<1> QED BY <1>3, <1>4

LEMMA OverallKept ==
  ASSUME StatusTypes, NEW m \in Nat, NEW n \in Nat, 1 <= m, m <= n, OverallUntil(m) >= n
  PROVE  Overall(m) = Overall(n)
<1>1. ASSUME NEW c \in Screens PROVE StatusPage!ScreenStatus(c, m) = StatusPage!ScreenStatus(c, n)
  <2>1. /\ OverallUntil(m) \in Nat /\ StatusPage!ScreenDeadline(c) \in Nat
        /\ OverallUntil(m) <= StatusPage!ScreenDeadline(c)
    BY OverallIs, ScreenDeadlineIs
  <2>2. StatusPage!ScreenDeadline(c) >= n
    BY <2>1
  <2> QED BY <2>2, ScreenKept
<1>2. {StatusPage!ScreenStatus(c, m) : c \in Screens} = {StatusPage!ScreenStatus(c, n) : c \in Screens}
  BY <1>1
<1> QED BY <1>2 DEF Overall

AnswerAt(n) ==
  [services |-> [s \in Catalogue |-> [status |-> StatusPage!ServiceStatus(s, n),
                                      until  |-> StatusPage!EarliestDeadline(s)]],
   screens  |-> [c \in Screens |-> [status |-> StatusPage!ScreenStatus(c, n),
                                    until  |-> StatusPage!ScreenDeadline(c)]],
   platform |-> [status |-> Overall(n), until |-> OverallUntil(n)]]

LEMMA AnswerIs ==
  ASSUME NEW n
  PROVE  StatusPage!Answer(n) = AnswerAt(n)
BY DEF StatusPage!Answer, AnswerAt, Overall, OverallUntil

\* A page was an answer once, and nothing that is stored has changed since.
StatusInv ==
  /\ StatusTypes
  /\ page # Absent => \E m \in Nat : 1 <= m /\ m <= instant /\ page = AnswerAt(m)

LEMMA StatusInvSays ==
  ASSUME StatusInv
  PROVE  StatusPage!PTypeOK /\ StatusPage!PublishedStatusHolds
<1>1. StatusTypes /\ instant \in Nat /\ instant >= 1
  BY DEF StatusInv, StatusTypes
<1>2. PICK again : again = StatusPage!Answer(instant)
  OBVIOUS
<1>3. again = AnswerAt(instant)
  BY <1>2, AnswerIs
<1>4. /\ \A s \in Catalogue : /\ again.services[s].status = StatusPage!ServiceStatus(s, instant)
                              /\ again.services[s].until = StatusPage!EarliestDeadline(s)
      /\ \A c \in Screens : /\ again.screens[c].status = StatusPage!ScreenStatus(c, instant)
                            /\ again.screens[c].until = StatusPage!ScreenDeadline(c)
      /\ again.platform.status = Overall(instant)
  BY <1>3 DEF AnswerAt
<1>5. ASSUME page # Absent
      PROVE  /\ \A s \in Catalogue : page.services[s].status \in StatusPage!Statuses
             /\ page.platform.status \in StatusPage!Statuses /\ page.platform.until \in Nat
             /\ \A s \in Catalogue : StatusPage!Kept(page.services[s], again.services[s])
             /\ \A c \in Screens : StatusPage!Kept(page.screens[c], again.screens[c])
             /\ StatusPage!Kept(page.platform, again.platform)
  <2>1. PICK m \in Nat : 1 <= m /\ m <= instant /\ page = AnswerAt(m)
    BY <1>5 DEF StatusInv
  <2>2. /\ \A s \in Catalogue : /\ page.services[s].status = StatusPage!ServiceStatus(s, m)
                                /\ page.services[s].until = StatusPage!EarliestDeadline(s)
        /\ \A c \in Screens : /\ page.screens[c].status = StatusPage!ScreenStatus(c, m)
                              /\ page.screens[c].until = StatusPage!ScreenDeadline(c)
        /\ page.platform.status = Overall(m) /\ page.platform.until = OverallUntil(m)
    BY <2>1 DEF AnswerAt
  <2>3. ASSUME NEW s \in Catalogue
        PROVE  /\ page.services[s].status \in StatusPage!Statuses
               /\ StatusPage!Kept(page.services[s], again.services[s])
    <3>1. StatusPage!ServiceStatus(s, m) \in StatusPage!Statuses
      BY <1>1, ServiceIs
    <3>2. StatusPage!EarliestDeadline(s) >= instant =>
            StatusPage!ServiceStatus(s, m) = StatusPage!ServiceStatus(s, instant)
      BY <1>1, <2>1, ServiceKept
    <3> QED BY <1>4, <2>2, <3>1, <3>2 DEF StatusPage!Kept
  <2>4. ASSUME NEW c \in Screens
        PROVE  StatusPage!Kept(page.screens[c], again.screens[c])
    <3>1. StatusPage!ScreenDeadline(c) >= instant =>
            StatusPage!ScreenStatus(c, m) = StatusPage!ScreenStatus(c, instant)
      BY <1>1, <2>1, ScreenKept
    <3> QED BY <1>4, <2>2, <3>1 DEF StatusPage!Kept
  <2>5. Overall(m) \in StatusPage!Statuses /\ OverallUntil(m) \in Nat
    BY <1>1, OverallIs
  <2>6. StatusPage!Kept(page.platform, again.platform)
    <3>1. OverallUntil(m) >= instant => Overall(m) = Overall(instant)
      BY <1>1, <2>1, OverallKept
    <3> QED BY <1>4, <2>2, <3>1 DEF StatusPage!Kept
  <2> QED BY <2>2, <2>3, <2>4, <2>5, <2>6
<1>6. StatusPage!PTypeOK
  BY <1>5 DEF StatusPage!PTypeOK
<1>7. \A s \in Catalogue : again.services[s].status = "operational" =>
        \A t \in StatusPage!Reachable(s) : StatusPage!Proved(t)
  BY <1>1, <1>4, ServiceProved
<1>8. \A c \in Screens : again.screens[c].status = "operational" =>
        StatusPage!Proved(c) /\ \A s \in StatusPage!Supporters(c) :
          s \in Catalogue /\ \A t \in StatusPage!Reachable(s) : StatusPage!Proved(t)
  BY <1>1, <1>4, ScreenProved
<1>9. \A s \in Catalogue : again.services[s].status =
        StatusPage!Aggregate({StatusPage!DirectNow(instant)[s], StatusPage!Risk(s, instant)})
  BY <1>1, <1>4, ServiceStands DEF StandingAt
<1>10. StatusPage!PublishedStatusHolds
  BY <1>2, <1>5, <1>7, <1>8, <1>9 DEF StatusPage!PublishedStatusHolds
<1> QED BY <1>6, <1>10

-----------------------------------------------------------------------------
LEMMA StatusInit == EdgesInit => StatusInv
<1> SUFFICES ASSUME StatusPage!PInit PROVE StatusInv
  BY DEF EdgesInit
<1>1. cap \in [DOMAIN Links -> 0 .. 3]
  BY StatusAssumption DEF StatusPage!PInit
<1>2. /\ DOMAIN stored = Catalogue \cup Screens
      /\ stored = [x \in Catalogue \cup Screens |-> stored[x]]
      /\ \A x \in Catalogue \cup Screens :
           stored[x].direct \in Stored[x] /\ stored[x] \in [direct : StatusPage!Statuses, until : Deadlines]
  <2>1. PICK D : stored \in [Catalogue \cup Screens -> [direct : D, until : Deadlines]]
    BY DEF StatusPage!PInit
  <2>2. \A x \in Catalogue \cup Screens : stored[x].direct \in Stored[x]
    BY <2>1 DEF StatusPage!PInit
  <2> QED BY <2>1, <2>2, StatusAssumption
<1>3. \A x \in Catalogue \cup Screens : stored[x] \in StatusRows
  BY <1>2, StatusAssumption DEF StatusRows
<1>4. stored \in [Catalogue \cup Screens -> StatusRows]
  BY <1>2, <1>3
<1>5. StatusTypes
  BY <1>1, <1>4 DEF StatusPage!PInit, StatusTypes
<1> QED BY <1>5 DEF StatusInv, StatusPage!PInit

\* The answer of an instant is the same as long as nothing stored changes.
LEMMA SameAnswer ==
  ASSUME UNCHANGED <<cap, stored, supports>>, NEW m
  PROVE  AnswerAt(m)' = AnswerAt(m)
<1>1. StatusPage!DirectNow(m)' = StatusPage!DirectNow(m)
  BY DEF StatusPage!DirectNow
<1>2. ASSUME NEW s PROVE StatusPage!Risk(s, m)' = StatusPage!Risk(s, m)
  BY <1>1 DEF StatusPage!Risk, StatusPage!Risks
<1>3. ASSUME NEW x PROVE StatusPage!Linked(x)' = StatusPage!Linked(x)
  BY DEF StatusPage!Linked
<1>4. ASSUME NEW s PROVE StatusPage!Reachable(s)' = StatusPage!Reachable(s)
  <2> DEFINE N == StatusPage!Cardinality(Catalogue)
             Steps(f) == [n \in 0 .. N |->
               IF n = 0 THEN {s} ELSE f[n - 1] \cup UNION {StatusPage!Linked(x) : x \in f[n - 1]}]
             Later(f) == [n \in 0 .. N |->
               IF n = 0 THEN {s} ELSE f[n - 1] \cup UNION {StatusPage!Linked(x)' : x \in f[n - 1]}]
  <2>1. \A f : Later(f) = Steps(f)
    BY <1>3
  <2>2. StatusPage!Reachable(s) = (CHOOSE f : f = Steps(f))[N]
    BY DEF StatusPage!Reachable
  <2>3. StatusPage!Reachable(s)' = (CHOOSE f : f = Later(f))[N]
    BY DEF StatusPage!Reachable
  <2> HIDE DEF Steps, Later
  <2>4. (CHOOSE f : f = Later(f)) = (CHOOSE f : f = Steps(f))
    BY <2>1
  <2> QED BY <2>2, <2>3, <2>4
<1>5. ASSUME NEW s PROVE StatusPage!EarliestDeadline(s)' = StatusPage!EarliestDeadline(s)
  BY <1>4 DEF StatusPage!EarliestDeadline
<1>6. ASSUME NEW s PROVE StatusPage!ServiceStatus(s, m)' = StatusPage!ServiceStatus(s, m)
  BY <1>1, <1>2, <1>5 DEF StatusPage!ServiceStatus
<1>7. ASSUME NEW c
      PROVE  /\ StatusPage!Supporters(c)' = StatusPage!Supporters(c)
             /\ StatusPage!Supporting(c)' = StatusPage!Supporting(c)
  BY DEF StatusPage!Supporters, StatusPage!Supporting
<1>8. ASSUME NEW c PROVE StatusPage!ScreenDeadline(c)' = StatusPage!ScreenDeadline(c)
  BY <1>5, <1>7 DEF StatusPage!ScreenDeadline
<1>9. ASSUME NEW c PROVE StatusPage!ScreenStatus(c, m)' = StatusPage!ScreenStatus(c, m)
  BY <1>6, <1>7, <1>8 DEF StatusPage!ScreenStatus
<1>10. Overall(m)' = Overall(m) /\ OverallUntil(m)' = OverallUntil(m)
  BY <1>8, <1>9 DEF Overall, OverallUntil
<1> QED BY <1>5, <1>6, <1>8, <1>9, <1>10 DEF AnswerAt

LEMMA StatusStep == StatusInv /\ [EdgesNext]_edges => StatusInv'
<1> SUFFICES ASSUME StatusInv, [EdgesNext]_edges PROVE StatusInv'
  OBVIOUS
<1>1. StatusPage!PNext \/ UNCHANGED status
  BY DEF EdgesNext, edges
<1>2. UNCHANGED <<cap, stored, supports>>
  BY <1>1 DEF StatusPage!PNext, StatusPage!Fetch, StatusPage!TimePasses, status
<1>3. instant' \in Nat /\ instant <= instant'
  BY <1>1 DEF StatusInv, StatusTypes, StatusPage!PNext, StatusPage!Fetch, StatusPage!TimePasses, status
<1>4. StatusTypes'
  BY <1>2, <1>3 DEF StatusInv, StatusTypes
<1>5. ASSUME page' # Absent
      PROVE  \E m \in Nat : 1 <= m /\ m <= instant' /\ page' = AnswerAt(m)'
  <2>1. \/ page' = page
        \/ page' = StatusPage!Answer(instant)
    BY <1>1 DEF StatusPage!PNext, StatusPage!Fetch, StatusPage!TimePasses, status
  <2>2. PICK m \in Nat : 1 <= m /\ m <= instant /\ page' = AnswerAt(m)
    <3>1. CASE page' = page
      BY <1>5, <3>1 DEF StatusInv
    <3>2. CASE page' = StatusPage!Answer(instant)
      BY <3>2, AnswerIs DEF StatusInv, StatusTypes
    <3> QED BY <2>1, <3>1, <3>2
  <2>3. AnswerAt(m)' = AnswerAt(m)
    BY <1>2, SameAnswer
  <2>4. m <= instant'
    BY <1>3, <2>2 DEF StatusInv, StatusTypes
  <2> QED BY <2>2, <2>3, <2>4
<1> QED BY <1>4, <1>5 DEF StatusInv

\* For every catalogue, graph of dependencies, stored statuses and deadlines:
\* until its deadline an answer is the one a reader would get again, health is
\* claimed on proofs that hold for all that is reached, and a service shows its
\* effective impact.
THEOREM StatusHolds == EdgesSpec => []PublishedStatusHolds
<1>1. StatusInv => PublishedStatusHolds
  BY StatusInvSays DEF PublishedStatusHolds
<1> QED BY <1>1, StatusInit, StatusStep, PTL DEF EdgesSpec
=============================================================================
