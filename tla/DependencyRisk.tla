--------------------------- MODULE DependencyRisk ---------------------------
(***************************************************************************)
(* compute_dependency_risk: the worklist that walks the dependency graph   *)
(* of one service, one iteration of its loop per step.  The graph may have *)
(* cycles and parallel edges of different capabilities; a walk keeps the   *)
(* capability of its first edge (the root capability) and the smallest     *)
(* maximum impact met so far (its cap).                                    *)
(*                                                                         *)
(* Edges lists every edge the graph may have in the order of the code's    *)
(* sort (target, then capability, within one source); a behaviour starts   *)
(* by choosing which of them exist, their maximum impact (0: no such edge) *)
(* and the direct status of every service.                                 *)
(***************************************************************************)
EXTENDS StatusRanks, Sequences

CONSTANTS
  Services,
  Source,        \* the queried service
  Edges,         \* sequence of records [source, target, capability]
  Impacts,       \* maximum impacts an edge may have, 0 for no edge at all
  Reported       \* direct statuses a service may have

Capabilities == {e.capability : e \in Range(Edges)}
Keys == Services \X Capabilities

VARIABLES
  impact,       \* maximum impact of every edge
  direct,       \* direct status of every service
  visited,      \* per service and root capability, the best cap so far
  queue,        \* walks still to be taken
  contributors, \* per service and root capability, the risk it contributes
  answer        \* the reported status, "none" while the loop runs

vars == <<impact, direct, visited, queue, contributors, answer>>

Present == {k \in DOMAIN Edges : impact[k] > 0}

\* The adjacency list of a service, in the sorted order.
Outgoing(service) ==
  LET first[n \in 0 .. Len(Edges)] ==
        IF n = 0 THEN <<>>
        ELSE IF n \in Present /\ Edges[n].source = service
             THEN Append(first[n - 1], n) ELSE first[n - 1]
  IN  first[Len(Edges)]

NoRisk == [risk |-> "operational", path |-> <<>>]

-----------------------------------------------------------------------------
\* A walk on the queue: its last edge, the services it visits, its cap and its
\* root capability.
Walk(k, path, cap, root) == [edge |-> k, path |-> path, cap |-> cap, root |-> root]

FirstWalk(k) ==
  Walk(k, <<Source, Edges[k].target>>, impact[k], Edges[k].capability)

LongerWalk(walk, k) ==
  Walk(k, Append(walk.path, Edges[k].target), Smaller(walk.cap, impact[k]), walk.root)

\* The source is marked as visited at the best rank there is, for each of its
\* own capabilities, so that no walk ever comes back to it.  (0: not visited;
\* every cap on the queue is at least 1.)
Init ==
  /\ impact \in [DOMAIN Edges -> Impacts]
  /\ direct \in [Services -> Reported]
  /\ LET first == Outgoing(Source) IN
       /\ visited = [key \in Keys |->
            IF key[1] = Source /\ \E k \in Range(first) : Edges[k].capability = key[2]
            THEN 3 ELSE 0]
       /\ queue = [n \in DOMAIN first |-> FirstWalk(first[n])]
  /\ contributors = [key \in Keys |-> NoRisk]
  /\ answer = "none"

KeyOf(walk) == <<Edges[walk.edge].target, walk.root>>

\* Mutant: a service is never taken twice.
SeenOnce(walk) == visited[KeyOf(walk)] > 0

\* A walk that is no better than one already taken leads nowhere new.
Seen(walk) == visited[KeyOf(walk)] >= walk.cap

Skip ==
  /\ queue # <<>> /\ Seen(Head(queue))
  /\ queue' = Tail(queue)
  /\ UNCHANGED <<impact, direct, visited, contributors, answer>>

Contribute(walk) ==
  LET key == KeyOf(walk)
      risk == RiskThrough(direct[key[1]], walk.cap)
  IN  contributors' =
        IF risk = "operational" THEN contributors
        ELSE [contributors EXCEPT ![key] = [risk |-> risk, path |-> walk.path]]

Take ==
  /\ queue # <<>> /\ ~Seen(Head(queue))
  /\ LET walk == Head(queue)
         next == Outgoing(Edges[walk.edge].target)
     IN  /\ visited' = [visited EXCEPT ![KeyOf(walk)] = walk.cap]
         /\ Contribute(walk)
         /\ queue' = Tail(queue) \o [n \in DOMAIN next |-> LongerWalk(walk, next[n])]
  /\ UNCHANGED <<impact, direct, answer>>

\* The queue is empty: the strongest risk among the contributors.
Answer ==
  /\ queue = <<>> /\ answer = "none"
  /\ answer' = StrongestRisk({contributors[key].risk : key \in Keys})
  /\ UNCHANGED <<impact, direct, visited, queue, contributors>>

Next == Skip \/ Take \/ Answer

Spec == Init /\ [][Next]_vars

-----------------------------------------------------------------------------
\* Types of every variable.
TypeOK ==
  /\ impact \in [DOMAIN Edges -> Impacts]
  /\ direct \in [Services -> Reported]
  /\ visited \in [Keys -> 0 .. 3]
  /\ \A walk \in Range(queue) :
       /\ walk.edge \in Present /\ walk.cap \in 1 .. 3
       /\ walk.root \in Capabilities /\ walk.path \in Seq(Services)
  /\ \A key \in Keys : contributors[key].risk \in Statuses
  /\ answer \in Statuses \cup {"none"}

\* The reference: the risk that a service means over the widest walk to it.
Widest(root) == WidestWalks(Services, Source, Edges, impact, root)

Expected(key) ==
  LET width == Widest(key[2])[key[1]] IN
  IF key[1] = Source \/ width = 0 THEN "operational"
  ELSE RiskThrough(direct[key[1]], width)

\* When the loop ends every contributor is the risk of its widest walk: none
\* is lost to the visited set, none comes from a weaker parallel capability,
\* and the source never appears as its own dependency, cycles or not.
WidestWalksFound ==
  queue = <<>> => \A key \in Keys : contributors[key].risk = Expected(key)

\* When the loop ends a contributor's path can be audited: it starts at the
\* source, ends at the contributor, follows edges of the graph, the first of the
\* root capability, and explains the risk by the smallest impact on it.  (Before
\* that the path of a weaker one of two parallel edges may still stand there.)
Explains(key) ==
  LET path == contributors[key].path
      hop(n) == {impact[k] : k \in {j \in Present :
                   /\ Edges[j].source = path[n] /\ Edges[j].target = path[n+1]
                   /\ n = 1 => Edges[j].capability = key[2]}}
      hops == {hop(n) : n \in 1 .. Len(path) - 1}
  IN  /\ path[1] = Source /\ path[Len(path)] = key[1] /\ {} \notin hops
      /\ contributors[key].risk =
           RiskThrough(direct[key[1]], Min({Max(h) : h \in hops}))

PathsAuditable ==
  queue = <<>> => \A key \in Keys : contributors[key] # NoRisk => Explains(key)

\* What is reported claims a failure only if some reachable service fails,
\* "unknown" only if nothing reachable is known to fail and something
\* reachable cannot be judged, and health only if neither is the case.
AnswerJustified ==
  answer # "none" =>
    LET risks == {Expected(key) : key \in Keys} IN
    CASE answer = "operational" -> risks \subseteq {"operational"}
      [] answer = "unknown" -> "unknown" \in risks /\ risks \cap Failures = {}
      [] OTHER -> /\ answer \in risks
                  /\ \A r \in risks \cap Failures : FailureRank(r) <= FailureRank(answer)

=============================================================================
