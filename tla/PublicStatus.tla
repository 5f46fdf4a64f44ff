---------------------------- MODULE PublicStatus ----------------------------
(***************************************************************************)
(* The public projection of the stored statuses (status-backend/public/    *)
(* status): one snapshot is read in one statement, stale proofs are turned *)
(* into "unknown", dependency risk is computed afresh, and every service,  *)
(* component and the platform is published with a status and a deadline.   *)
(*                                                                         *)
(* The snapshot does not change here; the clock does.  Deadlines are       *)
(* instants, None is a missing one; what then stands in (the catalogue's   *)
(* updated_at) is instant 0.  Validation and layout are left out.          *)
(***************************************************************************)
EXTENDS StatusRanks, Sequences

CONSTANTS
  Catalogue,   \* enabled services
  Links,       \* dependencies there may be, sorted, as DependencyRisk.Edges
  Caps,        \* their maximum impacts, 0 for no edge
  Screens,     \* public components
  Supports,    \* what may support them: sets of pairs <<component, service>>
  Stored,      \* Stored[x]: statuses the row of x may hold
  Deadlines,   \* deadlines a row may hold
  LastLook,    \* bound: instants
  None

VARIABLES
  instant,
  cap,        \* maximum impact of every link
  rows,       \* direct status and deadline of every service and component
  supports,
  page        \* what a reader fetched, and when

PInit ==
  /\ instant = 1
  /\ cap \in [DOMAIN Links -> Caps]
  /\ rows \in {r \in [Catalogue \cup Screens ->
                      [direct : UNION Range(Stored), until : Deadlines]] :
               \A x \in DOMAIN r : r[x].direct \in Stored[x]}
  /\ supports \in Supports
  /\ page = None

Until(r) == IF r.until = None THEN 0 ELSE r.until

\* fresh: a proof of health lapses, a demonstrated failure stays.
Fresh(status, until, now) ==
  IF until = None \/ (until < now /\ status \notin Failures) THEN "unknown" ELSE status

\* aggregate: failures by severity, then uncertainty, then maintenance.
Aggregate(states) ==
  LET worst == Max({Severity(s) : s \in states})
  IN IF states = {} THEN "unknown" ELSE CHOOSE s \in states : Severity(s) = worst

DirectNow(now) ==
  [s \in Catalogue |-> Fresh(rows[s].direct, rows[s].until, now)]

\* compute_dependency_risk, as DependencyRisk shows it to end.
Risks(service, now) ==
  {LET width == WidestWalks(Catalogue, service, Links, cap, root)[t]
   IN IF t = service \/ width = 0 THEN "operational"
      ELSE RiskThrough(DirectNow(now)[t], width) :
     t \in Catalogue, root \in {l.capability : l \in Range(Links)}}

Risk(service, now) == StrongestRisk(Risks(service, now))

Linked(x) == {Links[k].target : k \in {k \in DOMAIN Links : cap[k] > 0 /\ Links[k].source = x}}

\* Every service the traversal of deadlines visits.
Reachable(service) ==
  LET reach[n \in 0 .. Cardinality(Catalogue)] ==
        IF n = 0 THEN {service}
        ELSE reach[n - 1] \cup UNION {Linked(x) : x \in reach[n - 1]}
  IN reach[Cardinality(Catalogue)]

\* Mutant: the answer is kept as long as the service's own proof.
OwnDeadline(service) == Until(rows[service])

EarliestDeadline(service) == Min({Until(rows[s]) : s \in Reachable(service)})

\* A service of the list: effective impact, then freshness of the whole.
ServiceStatus(service, now) ==
  Fresh(Aggregate({DirectNow(now)[service], Risk(service, now)}),
        EarliestDeadline(service), now)

\* A supporting service that is disabled is not in the snapshot.
Supporters(c) == {s[2] : s \in {s \in supports : s[1] = c}}
Supporting(c) == Supporters(c) \cap Catalogue

ScreenDeadline(c) ==
  Min({Until(rows[c])} \cup {EarliestDeadline(s) : s \in Supporting(c)}
        \cup {0 : s \in Supporters(c) \ Catalogue})

\* project_components and component.
ScreenStatus(c, now) ==
  Fresh(Aggregate({Fresh(rows[c].direct, rows[c].until, now)} \cup
                  {ServiceStatus(s, now) : s \in Supporting(c)} \cup
                  {"unknown" : s \in Supporters(c) \ Catalogue}),
        ScreenDeadline(c), now)

\* list, the components of snapshot, and platform.
Answer(now) ==
  [services |-> [s \in Catalogue |->
                   [status |-> ServiceStatus(s, now), until |-> EarliestDeadline(s)]],
   screens  |-> [c \in Screens |->
                   [status |-> ScreenStatus(c, now), until |-> ScreenDeadline(c)]],
   platform |-> [status |-> Aggregate({ScreenStatus(c, now) : c \in Screens}),
                 until  |-> IF Screens = {} THEN now
                            ELSE Min({ScreenDeadline(c) : c \in Screens})]]

\* A reader fetches all of it.
Fetch ==
  /\ page = None
  /\ page' = Answer(instant) /\ UNCHANGED <<instant, cap, rows, supports>>

TimePasses ==
  /\ instant < LastLook
  /\ instant' = instant + 1 /\ UNCHANGED <<cap, rows, supports, page>>

PNext == Fetch \/ TimePasses

-----------------------------------------------------------------------------
PTypeOK ==
  page # None =>
    /\ \A s \in Catalogue : page.services[s].status \in Statuses
    /\ page.platform.status \in Statuses /\ page.platform.until \in Nat

Kept(shown, now) == shown.until >= instant => shown.status = now.status

Proved(s) == rows[s].direct = "operational" /\ Until(rows[s]) >= instant

\* A published deadline is a promise: until then the answer a reader keeps is
\* the one it would get again, along every path of dependencies and through
\* cycles.  Health is claimed only on proofs that still hold, of the service
\* itself, of all it reaches, and for a component of all that supports it; and
\* the list shows what the detail page calls the effective impact (fresh,
\* deadlines, project_components).
PublishedStatusHolds ==
  LET now == Answer(instant)
  IN /\ page # None =>
          /\ \A s \in Catalogue : Kept(page.services[s], now.services[s])
          /\ \A c \in Screens : Kept(page.screens[c], now.screens[c])
          /\ Kept(page.platform, now.platform)
     /\ \A s \in Catalogue : now.services[s].status = "operational" =>
          \A t \in Reachable(s) : Proved(t)
     /\ \A c \in Screens : now.screens[c].status = "operational" =>
          Proved(c) /\ \A s \in Supporters(c) :
                          s \in Catalogue /\ \A t \in Reachable(s) : Proved(t)
     /\ \A s \in Catalogue :
          now.services[s].status = Aggregate({DirectNow(instant)[s], Risk(s, instant)})
=============================================================================
