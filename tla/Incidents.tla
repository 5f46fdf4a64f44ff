------------------------------- MODULE Incidents -------------------------------
(***************************************************************************)
(* Incidents, the evidence they pin, and its retention (status-backend/    *)
(* src/admin/mutations/lifecycle.rs, the occurrence writes of diagnostics/ *)
(* writes.rs, and scheduling/store.rs).                                    *)
(*                                                                         *)
(* Operators plan a command from four separate reads (the current update,  *)
(* then the linked issues, components and services) and write it in one    *)
(* batch.  The diagnostic consumer records occurrences and the scheduler   *)
(* purges expired ones from a list it read earlier, all at the same time.  *)
(*                                                                         *)
(* What surrounds a plan (replay, lost answers, conflicts) is the subject  *)
(* of AdminCommands; here a failed batch leaves no trace.  Pins of         *)
(* telemetry references follow the same statements as those of             *)
(* occurrences and are left out.                                           *)
(***************************************************************************)
EXTENDS Naturals, Sequences, FiniteSets

CONSTANTS
  NIncidents, Issues, Components, ServiceIds, ServiceOf, Commands, None,
  NRequests,       \* operator commands, numbered in the order they are made
  Policies,        \* retention policies
  RetentionOf,     \* per issue, the policies its service may be assigned
  Days, Batch,     \* per policy: days an occurrence is kept, cleanup_batch_size
  LinkLimit,       \* occurrences pinned when an issue is linked (20)
  CandidateLimit,  \* candidates a retention pass reads
  MaxOccurrences, MaxTime  \* bounds of the instance

VARIABLES
  updates,      \* incident_updates, in the order of their sequence; recorded and rows
                \* are history: what had been recorded by then, and what of it was kept
  relations,    \* incident_{issue,component,service}_relations
  pins,         \* incident_occurrences
  occurrences,  \* issue_occurrences; a purged row stays here with kept = FALSE
  requests,     \* plans in the making
  sweep,        \* the retention pass of the scheduler
  clock         \* days

vars == <<updates, relations, pins, occurrences, requests, sweep, clock>>

\* incident_current, incident_issues, incident_components, incident_services.
State(i) == updates[i][Len(updates[i])].state

LastAction(i, x, n) ==
  LET told == {r \in relations[i] : r.item = x /\ r.seq <= n}
  IN IF told = {} THEN "removed"
     ELSE (CHOOSE r \in told : \A s \in told : s.seq <= r.seq).action

LinksAt(i, n) ==
  {x \in Issues \cup Components \cup ServiceIds : LastAction(i, x, n) = "added"}

CurrentLinks(i) == LinksAt(i, Len(updates[i]))

\* The history of every incident: the state and the links of each update.
EntryAt(i, n) == [state |-> updates[i][n].state, links |-> LinksAt(i, n)]

History == [i \in 1 .. NIncidents |-> [n \in DOMAIN updates[i] |-> EntryAt(i, n)]]

Ledger == INSTANCE IncidentLedger WITH history <- History

Incidents == Ledger!Incidents
Items == Ledger!Items

ASSUME OwnerAssumption == ServiceOf \in [Issues \cup Components -> ServiceIds]
ASSUME ItemAssumption ==
  Issues \cap Components = {} /\ Issues \cap ServiceIds = {} /\ Components \cap ServiceIds = {}
\* Each field of a body is None where the body leaves it out.
ASSUME CommandAssumption ==
  Commands \subseteq [state : Ledger!States \cup {None},
                      issues : {None} \cup SUBSET Issues,
                      components : {None} \cup SUBSET Components]
ASSUME NoneAssumption == None \notin Ledger!States /\ \A x \in SUBSET Items : x # None
ASSUME LimitAssumption ==
  /\ {NIncidents, NRequests, LinkLimit, CandidateLimit} \subseteq Nat \ {0}
  /\ MaxOccurrences \in Nat /\ MaxTime \in Nat
  /\ RetentionOf \in [Issues -> SUBSET Policies]
  /\ Days \in [Policies -> Nat] /\ Batch \in [Policies -> Nat \ {0}]

Requests == 1 .. NRequests

Idle == [at |-> "idle", incident |-> None, expected |-> 0, command |-> None, old |-> {}]

\* An answered request is not used again.
Answered == [Idle EXCEPT !.at = "done"]

NoSweep == [now |-> None, list |-> {}]

Init ==
  /\ updates = [i \in Incidents |-> <<>>]
  /\ relations = [i \in Incidents |-> {}]
  /\ pins = [i \in Incidents |-> {}]
  /\ occurrences = <<>>
  /\ requests = [r \in Requests |-> Idle]
  /\ sweep = NoSweep /\ clock = 0

-----------------------------------------------------------------------------
(* Occurrences. *)

KeptRows == {o \in DOMAIN occurrences : occurrences[o].kept}

Pinned(o) == \E i \in Incidents : o \in pins[i]

Expired(o, now) == occurrences[o].at + Days[occurrences[o].policy] <= now

\* The incidents a new occurrence of an issue is pinned to.
OpenFor(s) ==
  {i \in Incidents : updates[i] # <<>> /\ s \in CurrentLinks(i) /\ State(i) # "resolved"}

\* The consumer stores an occurrence, possibly a late one, and pins it in the
\* same batch.
Record(s, p, at) ==
  /\ Len(occurrences) < MaxOccurrences
  /\ occurrences' = Append(occurrences, [issue |-> s, at |-> at, policy |-> p, kept |-> TRUE])
  /\ pins' = [i \in Incidents |->
                IF i \in OpenFor(s) THEN pins[i] \cup {Len(occurrences) + 1} ELSE pins[i]]
  /\ UNCHANGED <<updates, relations, requests, sweep, clock>>

Later(o, p) ==
  \/ occurrences[o].at > occurrences[p].at
  \/ occurrences[o].at = occurrences[p].at /\ o > p

\* The newest rows of an issue, at most LinkLimit.
Newest(s) ==
  LET rows == {o \in KeptRows : occurrences[o].issue = s}
  IN {o \in rows : Cardinality({p \in rows : Later(p, o)}) < LinkLimit}

-----------------------------------------------------------------------------
(* Operator commands. *)

Free(r) == requests[r] = Idle /\ \A q \in 1 .. r - 1 : requests[q] # Idle

\* The operator's form shows the current revision; a form that is older is a
\* request that waits before its first read.
Ask(r, i, c) ==
  /\ Free(r) /\ updates[i] # <<>>
  /\ requests' = [requests EXCEPT ![r] =
       [Idle EXCEPT !.at = "current", !.incident = i, !.command = c, !.expected = Len(updates[i])]]
  /\ UNCHANGED <<updates, relations, pins, occurrences, sweep, clock>>

\* A creation reads nothing of the incident: it makes up its identity.
AskNew(r, i, c) ==
  /\ Free(r) /\ updates[i] = <<>> /\ \A q \in Requests : requests[q].incident # i
  /\ c.state = None /\ c.issues # None /\ c.components \notin {None, {}}
  /\ requests' = [requests EXCEPT ![r] =
       [Idle EXCEPT !.at = "planned", !.incident = i, !.command = c]]
  /\ UNCHANGED <<updates, relations, pins, occurrences, sweep, clock>>

\* The first read: another revision than expected is a conflict.
ReadCurrent(r) ==
  LET q == requests[r] IN
  /\ q.at = "current"
  /\ requests' = [requests EXCEPT ![r] =
       IF Len(updates[q.incident]) = q.expected THEN [q EXCEPT !.at = "issue"] ELSE Answered]
  /\ UNCHANGED <<updates, relations, pins, occurrences, sweep, clock>>

TableOf(x) ==
  CASE x \in Issues -> "issue" [] x \in Components -> "component" [] OTHER -> "service"

Follow == [issue |-> "component", component |-> "service", service |-> "planned"]

\* The linked items are read table by table.
ReadLinks(r) ==
  LET q == requests[r]
      read == {x \in CurrentLinks(q.incident) : TableOf(x) = q.at}
  IN /\ q.at \in DOMAIN Follow
     /\ requests' = [requests EXCEPT ![r].old = @ \cup read, ![r].at = Follow[@]]
     /\ UNCHANGED <<updates, relations, pins, occurrences, sweep, clock>>

\* The state of the update that was read: updates are immutable.
Found(q) == IF q.expected = 0 THEN "investigating" ELSE updates[q.incident][q.expected].state

Target(q) == Ledger!Kept(q.command.state, Found(q))

\* The domain object refuses an impossible transition before anything is
\* written.
Refused(q) == Target(q) # Found(q) /\ Target(q) \notin Ledger!Moves[Found(q)]

Refuse(r) ==
  /\ requests[r].at = "planned" /\ Refused(requests[r])
  /\ requests' = [requests EXCEPT ![r] = Answered]
  /\ UNCHANGED <<updates, relations, pins, occurrences, sweep, clock>>

\* INSERT ... WHERE the current revision is the one that was read.
RevisionHolds(q) == Len(updates[q.incident]) = q.expected

\* The triggers of incident_updates and of the relations: the next sequence
\* number, a successor state (a resolved incident has none, not even its own),
\* and links that alternate between added and removed.
TriggersHold(q, new) ==
  /\ Len(updates[q.incident]) = q.expected
  /\ q.expected = 0 => Target(q) = "investigating"
  /\ q.expected > 0 => /\ Found(q) # "resolved"
                       /\ Target(q) \in {Found(q)} \cup Ledger!Moves[Found(q)]
  /\ \A x \in Items :
       /\ x \in new \ q.old => LastAction(q.incident, x, Len(updates[q.incident])) = "removed"
       /\ x \in q.old \ new => LastAction(q.incident, x, Len(updates[q.incident])) = "added"

\* Mutant: services that own nothing the incident is linked to any more stay.
NewLinksAndOld(q) == Ledger!Wanted(q.command, q.old) \cup (q.old \cap ServiceIds)

\* Everything the incident is linked to once the command has been applied.
NewLinks(q) == Ledger!Wanted(q.command, q.old)

\* What the batch pins: the newest occurrences of every issue it adds.
NewPins(q, new) == UNION {Newest(s) : s \in (new \ q.old) \cap Issues}

Relation(x, n, action) == [item |-> x, seq |-> n, action |-> action]

Commit(r) ==
  LET q   == requests[r]
      i   == q.incident
      n   == q.expected + 1
      new == NewLinks(q)
  IN /\ q.at = "planned" /\ ~Refused(q)
     /\ IF RevisionHolds(q) /\ TriggersHold(q, new)
        THEN /\ updates' = [updates EXCEPT ![i] = Append(@,
                   [state |-> Target(q), recorded |-> Len(occurrences), rows |-> KeptRows])]
             /\ relations' = [relations EXCEPT ![i] = @
                   \cup {Relation(x, n, "added") : x \in new \ q.old}
                   \cup {Relation(x, n, "removed") : x \in q.old \ new}]
             /\ pins' = [pins EXCEPT ![i] = @ \cup NewPins(q, new)]
        ELSE UNCHANGED <<updates, relations, pins>>
     /\ requests' = [requests EXCEPT ![r] = Answered]
     /\ UNCHANGED <<occurrences, sweep, clock>>

-----------------------------------------------------------------------------
(* Retention. *)

\* Mutant: pinned rows take the places of the others.
CandidateRowsWithPinned(now) == {o \in KeptRows : Expired(o, now)}

CandidateRows(now) == {o \in KeptRows : Expired(o, now) /\ ~Pinned(o)}

\* The candidates of a pass: expired, not pinned, oldest first, and of each
\* policy no more than it cleans at once.
Before(o, p) ==
  LET due(x) == occurrences[x].at + Days[occurrences[x].policy]
  IN due(o) < due(p) \/ (due(o) = due(p) /\ o < p)

Candidates(now) ==
  LET due  == CandidateRows(now)
      read == {o \in due : Cardinality({p \in due : Before(p, o)}) < CandidateLimit}
      same(o) == {p \in read : occurrences[p].policy = occurrences[o].policy}
  IN {o \in read : Cardinality({p \in same(o) : Before(p, o)}) < Batch[occurrences[o].policy]}

ReadCandidates ==
  /\ sweep = NoSweep /\ Candidates(clock) # {}
  /\ sweep' = [now |-> clock, list |-> Candidates(clock)]
  /\ UNCHANGED <<updates, relations, pins, occurrences, requests, clock>>

\* DELETE ... WHERE expired and still not pinned.
Purgeable(o) == o \in KeptRows /\ Expired(o, sweep.now) /\ ~Pinned(o)

\* Mutant: the batch trusts the list of the pass; neither its statement nor the
\* trigger looks for pins that were made since.
PurgeListed ==
  /\ sweep # NoSweep
  /\ occurrences' = [o \in DOMAIN occurrences |->
       IF o \in sweep.list THEN [occurrences[o] EXCEPT !.kept = FALSE] ELSE occurrences[o]]
  /\ sweep' = NoSweep
  /\ UNCHANGED <<updates, relations, pins, requests, clock>>

\* One batch; deleting a pinned row aborts all of it.
Purge ==
  /\ sweep # NoSweep
  /\ LET gone == {o \in sweep.list : Purgeable(o)}
     IN IF \E o \in gone : Pinned(o) THEN UNCHANGED occurrences
        ELSE occurrences' = [o \in DOMAIN occurrences |->
               IF o \in gone THEN [occurrences[o] EXCEPT !.kept = FALSE] ELSE occurrences[o]]
  /\ sweep' = NoSweep
  /\ UNCHANGED <<updates, relations, pins, requests, clock>>

\* The invocation ends, or its batch fails, before anything is deleted.
CutOff ==
  /\ sweep # NoSweep /\ sweep' = NoSweep
  /\ UNCHANGED <<updates, relations, pins, occurrences, requests, clock>>

Tick ==
  /\ clock < MaxTime /\ clock' = clock + 1
  /\ UNCHANGED <<updates, relations, pins, occurrences, requests, sweep>>

-----------------------------------------------------------------------------
Next ==
  \/ \E r \in Requests :
       \/ \E i \in Incidents, c \in Commands : Ask(r, i, c) \/ AskNew(r, i, c)
       \/ ReadCurrent(r) \/ ReadLinks(r) \/ Refuse(r) \/ Commit(r)
  \/ \E s \in Issues, p \in Policies, at \in 0 .. clock :
       p \in RetentionOf[s] /\ Record(s, p, at)
  \/ ReadCandidates \/ Purge \/ CutOff \/ Tick

\* The scheduler runs a retention pass on every tick, and not every pass is
\* cut off before its batch.
Fairness == WF_vars(ReadCandidates) /\ SF_vars(Purge)

IncidentSpec == Init /\ [][Next]_vars /\ Fairness

-----------------------------------------------------------------------------
(* Properties. *)

TypeOK ==
  /\ updates \in [Incidents -> Seq([state : Ledger!States, recorded : 0 .. Len(occurrences),
                                    rows : SUBSET DOMAIN occurrences])]
  /\ relations \in [Incidents -> SUBSET [item : Items, seq : Nat, action : {"added", "removed"}]]
  /\ \A i \in Incidents : \A r \in relations[i] : r.seq \in DOMAIN updates[i]
  /\ pins \in [Incidents -> SUBSET DOMAIN occurrences]
  /\ occurrences \in Seq([issue : Issues, at : 0 .. clock, policy : Policies, kept : BOOLEAN])
  /\ requests \in [Requests -> [at : {"idle", "current", "planned", "done"} \cup DOMAIN Follow,
                                incident : Incidents \cup {None}, expected : Nat,
                                command : Commands \cup {None}, old : SUBSET Items]]
  /\ sweep.now \in 0 .. clock \cup {None} /\ sweep.list \subseteq DOMAIN occurrences
  /\ clock \in 0 .. MaxTime

\* Every update of an incident is one command applied to the update before it:
\* neither the separate reads of a plan nor a rival command loses a change, and
\* the relation history tells for each update what it was linked to.
ImplementsLedger == Ledger!LedgerSpec

\* The last update that linked an issue that is linked now.
LinkedBy(i, s) ==
  LET added == {r \in relations[i] : r.item = s /\ r.action = "added"}
  IN (CHOOSE r \in added : \A t \in added : t.seq <= r.seq).seq

\* What an incident needs of an issue it is linked to: of the rows that were kept
\* when the link was made the newest, at most LinkLimit, and everything that has
\* been recorded since, however late it arrived.
NeededEvidence(i, s) ==
  LET link == updates[i][LinkedBy(i, s)]
      then == {o \in link.rows : occurrences[o].issue = s}
  IN {o \in then : Cardinality({p \in then : Later(p, o)}) < LinkLimit}
     \cup {o \in DOMAIN occurrences : occurrences[o].issue = s /\ o > link.recorded}

\* What an open incident needs of the issues it is linked to is pinned, and
\* whatever an incident has pinned, open or not, is never purged.  A retention
\* pass may have listed the row before the command that pins it was written
\* (the purge looks for pins once more), and a row may arrive, expired already,
\* after the link was made (the consumer pins it in the batch that stores it).
OpenEvidenceKept ==
  /\ TypeOK
  /\ \A i \in Incidents : pins[i] \subseteq KeptRows
  /\ \A i \in Incidents : \A s \in Issues :
       updates[i] # <<>> /\ State(i) # "resolved" /\ s \in CurrentLinks(i) =>
         NeededEvidence(i, s) \subseteq pins[i]

\* Every expired occurrence is eventually purged, unless an incident pins it:
\* the limits of a pass delay rows but starve none.
RetentionProgress ==
  \A o \in 1 .. MaxOccurrences :
    (o \in KeptRows /\ Expired(o, clock)) ~> (o \notin KeptRows \/ Pinned(o))
=============================================================================
