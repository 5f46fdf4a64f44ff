-------------------------------- MODULE Edges --------------------------------
(***************************************************************************)
(* The parts that share no state with one another, each an instance of its *)
(* own module.  A behaviour is one of ONE part, the subject, chosen in the *)
(* first state; the others stay where they start.  Interleaving them would *)
(* multiply the states and add no behaviour of any of them.                *)
(***************************************************************************)
EXTENDS Naturals, Sequences, FiniteSets

CONSTANTS
  Absent,  \* a missing row, key, deadline or parameter
  \* DependencyRisk
  Services, Source, Edges, Impacts, Reported,
  \* MonitorEvaluation
  Sites, Colos, Lag, Window, Stale, MinSamples, FailAt, RecoverAt, Quorums,
  Interval, Cron, Horizon, MaxEdits,
  \* Submission
  NEvents, Capacity, MaxAttempts, MaxMishaps,
  \* MachineKeys
  Callers, SigningKeys, Ttl, Reload, Deadline, Life, Skew, LastInstant, Rotations,
  \* AdminSessions
  Browsers, Lifetime, BudgetWindow, BudgetLimit, Patience, Closing, Records, Tokens,
  \* TelemetryExport
  RecordCapacity, ByteLimit, BatchSize, Offers, FailedFlushes,
  \* Notifications
  Rows, Letters, LetterBatch, MaxDeliveries, Switches, Troubles,
  \* PublicStatus
  Catalogue, Links, Caps, Screens, Supports, Stored, Deadlines, LastLook,
  \* PublicPages
  Ids, Filters, Froms, Tos, Limits, CursorLife, LastDay, Changes

\* The answers of a run are taken after the run before it.
ASSUME EvaluationAssumption ==
  /\ Sites \in SUBSET Nat /\ IsFiniteSet(Sites)
  /\ Lag \in [Sites -> SUBSET Nat]
  /\ \A s \in Sites : \A l \in Lag[s] : \A i, j \in Cron : i < j => i + l < j
  /\ Cron \subseteq Nat /\ Interval \in Nat \ {0} /\ Horizon \in Nat /\ MaxEdits \in Nat
  /\ Window \in Nat /\ Stale \in Nat \ {0} /\ MinSamples \in Nat \ {0}
  /\ FailAt \in Nat \X (Nat \ {0}) /\ RecoverAt \in Nat \X (Nat \ {0})
  /\ Quorums \subseteq Nat \ {0}

ASSUME ClientAssumption ==
  NEvents \in Nat /\ Capacity \in Nat \ {0} /\ MaxAttempts \in Nat \ {0}

ASSUME TrustAssumption ==
  /\ Ttl \in Nat \ {0} /\ Reload \in Nat \ {0} /\ Deadline \in Nat
  /\ LastInstant \in Nat

ASSUME LoginAssumption ==
  /\ BudgetWindow \in Nat \ {0} /\ BudgetLimit \in Nat \ {0}
  /\ Patience \in Nat /\ Lifetime \in Nat /\ Records \in Nat

ASSUME ExporterAssumption ==
  /\ RecordCapacity \in Nat \ {0} /\ ByteLimit \in Nat \ {0, 1}
  /\ BatchSize \in Nat \ {0} /\ Offers \in Nat

ASSUME MailAssumption == MaxDeliveries \in Nat

VARIABLES
  subject,
  impact, direct, visited, queue, contributors, answer,
  now, due, quorum, row, taken, verdict, verdicts, edits,
  offered, invalid, unsent, refused, settled, flush, left, attempt, reply,
  backingOff, stray, inbox, mishaps,
  time, published, publishing, changed, rotations, keyCache, call, ruling,
  hour, secret, sessions, issued, closed, budget, attempts, doing,
  kind, enqueued, waiting, inflight, exported, displaced, turnedAway, pausing, failures,
  mode, unmarked, sent, place, tries, toDeliver, answered, seen, received, switches, troubles,
  instant, cap, stored, supports, page,
  day, list, listed, walk, detail, changes

graph == <<impact, direct, visited, queue, contributors, answer>>
evaluation == <<now, due, quorum, row, taken, verdict, verdicts, edits>>
client == <<offered, invalid, unsent, refused, settled, flush, left, attempt, reply,
            backingOff, stray, inbox, mishaps>>
trust == <<time, published, publishing, changed, rotations, keyCache, call, ruling>>
login == <<hour, secret, sessions, issued, closed, budget, attempts, doing>>
exporter == <<kind, enqueued, waiting, inflight, exported, displaced, turnedAway, pausing, failures>>
mail == <<mode, unmarked, sent, place, tries, toDeliver, answered, seen, received, switches, troubles>>
status == <<instant, cap, stored, supports, page>>
pages == <<day, list, listed, walk, detail, changes>>

edges == <<subject, graph, evaluation, client, trust, login, exporter, mail, status, pages>>

Graph == INSTANCE DependencyRisk
Evaluation == INSTANCE MonitorEvaluation
Client == INSTANCE Submission WITH queue <- unsent, answer <- reply
MachineTrust == INSTANCE MachineKeys WITH shown <- publishing, NoKeys <- Absent
Login == INSTANCE AdminSessions
Exporter == INSTANCE TelemetryExport
Mail == INSTANCE Notifications WITH pending <- unmarked
StatusPage == INSTANCE PublicStatus WITH rows <- stored, None <- Absent
Pages == INSTANCE PublicPages WITH rows <- listed, None <- Absent

ASSUME GraphAssumption ==
  /\ IsFiniteSet(Services) /\ Source \in Services
  /\ Edges \in Seq({Edges[k] : k \in DOMAIN Edges})
  /\ \A k \in DOMAIN Edges : {Edges[k].source, Edges[k].target} \subseteq Services
  /\ Impacts \subseteq 0 .. 3 /\ Reported \subseteq Graph!Statuses

\* The snapshot holds the dependencies between enabled services only.
ASSUME StatusAssumption ==
  /\ IsFiniteSet(Catalogue)
  /\ Links \in Seq({Links[k] : k \in DOMAIN Links})
  /\ \A k \in DOMAIN Links : {Links[k].source, Links[k].target} \subseteq Catalogue
  /\ Caps \subseteq 0 .. 3 /\ Deadlines \subseteq Nat \cup {Absent} /\ Absent \notin Nat
  /\ \A x \in Catalogue \cup Screens : Stored[x] \subseteq StatusPage!Statuses

\* A page has room for a row.
ASSUME PageAssumption ==
  /\ IsFiniteSet(Ids) /\ Ids \subseteq Nat /\ Limits \subseteq Nat \ {0}
  /\ LastDay \in Nat \ {0} /\ CursorLife \in Nat /\ Changes \in Nat
  /\ Absent \notin Pages!PublicRows /\ Absent \notin Pages!Cursors

-----------------------------------------------------------------------------
Subjects == {"graph", "evaluation", "client", "trust", "login", "exporter",
             "mail", "status", "pages"}

Some(S) == CHOOSE x \in S : TRUE

\* Of the parts with more than one initial state all but the subject start in
\* the same one.
OthersFixed ==
  /\ subject # "graph" =>
       /\ impact = Some([DOMAIN Edges -> Impacts])
       /\ direct = Some([Services -> Reported])
  /\ subject # "evaluation" => quorum = Some(Quorums)
  /\ subject # "client" => invalid = {}
  /\ subject # "trust" => published = {Some(SigningKeys)}
  /\ subject # "exporter" => kind = Some([1 .. Offers -> Exporter!Kinds])
  /\ subject # "status" =>
       /\ cap = Some([DOMAIN Links -> Caps]) /\ supports = Some(Supports)
       /\ stored = [x \in Catalogue \cup Screens |->
                      [direct |-> Some(Stored[x]), until |-> Some(Deadlines)]]
  /\ subject # "pages" => list = "windows" /\ listed = [x \in Ids |-> Absent]

EdgesInit ==
  /\ subject \in Subjects
  /\ OthersFixed
  /\ Graph!Init /\ Evaluation!EInit /\ Client!SInit /\ MachineTrust!KInit /\ Login!AInit
  /\ Exporter!TInit /\ Mail!NInit /\ StatusPage!PInit /\ Pages!GInit

\* The subject takes a step, everything else stays.
EdgesNext ==
  /\ UNCHANGED subject
  /\ IF subject = "graph" THEN Graph!Next ELSE UNCHANGED graph
  /\ IF subject = "evaluation" THEN Evaluation!ENext ELSE UNCHANGED evaluation
  /\ IF subject = "client" THEN Client!SNext ELSE UNCHANGED client
  /\ IF subject = "trust" THEN MachineTrust!KNext ELSE UNCHANGED trust
  /\ IF subject = "login" THEN Login!ANext ELSE UNCHANGED login
  /\ IF subject = "exporter" THEN Exporter!TNext ELSE UNCHANGED exporter
  /\ IF subject = "mail" THEN Mail!NNext ELSE UNCHANGED mail
  /\ IF subject = "status" THEN StatusPage!PNext ELSE UNCHANGED status
  /\ IF subject = "pages" THEN Pages!GNext ELSE UNCHANGED pages

EdgesSpec == EdgesInit /\ [][EdgesNext]_edges

-----------------------------------------------------------------------------
\* Each of these is the property of one part, with its type invariant.

\* Every impact that reaches a service has a best path, recorded hop by hop.
ImpactIsJustified ==
  subject = "graph" =>
    Graph!TypeOK /\ Graph!WidestWalksFound /\ Graph!PathsAuditable /\ Graph!AnswerJustified

\* No verdict without the samples, the quorum and the freshness it rests on.
SignalIsEarned ==
  subject = "evaluation" => Evaluation!ETypeOK /\ Evaluation!SignalIsEarned

\* A diagnostic client's events are submitted whole, once and in order.
DeliversInOrder == subject = "client" => Client!STypeOK /\ Client!DeliversInOrder

\* No token is believed for a key the issuer withdrew longer than the cache lives.
KeysFollowIssuer ==
  subject = "trust" => MachineTrust!KTypeOK /\ MachineTrust!KeysFollowIssuer

\* No admin command without a live session of a right secret, and no more
\* guesses than the budget allows.
LoginIsGuarded ==
  subject = "login" =>
    Login!ATypeOK /\ Login!CommandsAreAuthorised /\ Login!GuessingIsBounded

\* Every record is exported, or counted as displaced or turned away.
ExportIsFaithful == subject = "exporter" => Exporter!TTypeOK /\ Exporter!ExportIsFaithful

\* A notification is delivered, waiting, or answered for.
NoNotificationLost == subject = "mail" => Mail!NTypeOK /\ Mail!NoNotificationLost

\* What the page shows is what the stored assessments say while they are fresh.
PublishedStatusHolds ==
  subject = "status" => StatusPage!PTypeOK /\ StatusPage!PublishedStatusHolds

\* The pages of a list together show each of its rows once.
PagesFitTogether == subject = "pages" => Pages!GTypeOK /\ Pages!PagesFitTogether
=============================================================================
