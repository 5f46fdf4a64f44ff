----------------------------- MODULE StatusRanks -----------------------------
(***************************************************************************)
(* The public statuses and the two orders the code puts on them: the       *)
(* failure rank of the domain crate (maintenance and unknown have none)    *)
(* and the severity rank of the status planner (every status has one).     *)
(***************************************************************************)
EXTENDS Naturals, FiniteSetsExt

Failures == {"degraded", "partial_outage", "major_outage"}
Statuses == Failures \cup {"operational", "maintenance", "unknown"}

\* Status::failure_rank, on the statuses that have one.
FailureRank(status) ==
  CASE status = "major_outage"   -> 3
    [] status = "partial_outage" -> 2
    [] status = "degraded"       -> 1
    [] status = "operational"    -> 0

\* Status::from_failure_rank
FromFailureRank(rank) ==
  CASE rank = 0 -> "operational"
    [] rank = 1 -> "degraded"
    [] rank = 2 -> "partial_outage"
    [] OTHER    -> "major_outage"

Smaller(x, y) == IF x <= y THEN x ELSE y

\* What a dependency in status `direct' means for a caller that reaches it
\* over edges of maximum impact `cap': never more than the edges allow, and
\* "unknown" for anything that is neither healthy nor a ranked failure.
RiskThrough(direct, cap) ==
  IF direct \in {"maintenance", "unknown"} THEN "unknown"
  ELSE FromFailureRank(Smaller(FailureRank(direct), cap))

\* A failure hides uncertainty; uncertainty hides health.
StrongestRisk(risks) ==
  LET worst == Max({0} \cup {FailureRank(r) : r \in risks \ {"unknown"}})
  IN  IF worst = 0 /\ "unknown" \in risks THEN "unknown" ELSE FromFailureRank(worst)

\* The width of the widest walk to every service that leaves the source by an
\* edge of capability `root' and never returns to it.  Every edge k is there
\* with its maximum impact, 0 for no edge.  A walk longer than there are
\* services repeats one, which cannot widen it.
WidestWalks(services, source, edges, impacts, root) ==
  LET present == {k \in DOMAIN edges : impacts[k] > 0}
      width[n \in 1 .. Cardinality(services)] ==
        IF n = 1
        THEN [t \in services |->
               Max({0} \cup {impacts[k] : k \in {j \in present :
                  /\ edges[j].source = source /\ edges[j].target = t
                  /\ edges[j].capability = root}})]
        ELSE [t \in services |->
               Max({width[n-1][t]} \cup
                   {Smaller(width[n-1][edges[k].source], impacts[k]) :
                      k \in {j \in present :
                        edges[j].source # source /\ edges[j].target = t}})]
  IN  width[Cardinality(services)]

\* rank() of the status planner.
Severity(status) ==
  CASE status = "major_outage"   -> 5
    [] status = "partial_outage" -> 4
    [] status = "degraded"       -> 3
    [] status = "unknown"        -> 2
    [] status = "maintenance"    -> 1
    [] OTHER                     -> 0
=============================================================================
