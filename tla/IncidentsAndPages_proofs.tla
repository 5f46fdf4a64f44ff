---------------------- MODULE IncidentsAndPages_proofs ----------------------
(***************************************************************************)
(* Theorems about Incidents, for any issues, components, services,         *)
(* commands, requests and policies, and about the pages of PublicPages,    *)
(* for any keys, rows, page size and bounds.                               *)
(***************************************************************************)
EXTENDS Edges, Incidents, SequenceTheorems, FiniteSetTheorems, TLAPS

(***************************************************************************)
(* What the relation history of one incident says, as a function of its    *)
(* rows, and what the rows of one batch make of it.                        *)
(***************************************************************************)
Told(rows, x, n) == {r \in rows : r.item = x /\ r.seq <= n}

Latest(told) == CHOOSE r \in told : \A s \in told : s.seq <= r.seq

Last(rows, x, n) ==
  IF Told(rows, x, n) = {} THEN "removed" ELSE Latest(Told(rows, x, n)).action

Linked(rows, n) == {x \in Items : Last(rows, x, n) = "added"}

Written(rows, n, old, new) ==
  rows \cup {Relation(x, n, "added") : x \in new \ old}
       \cup {Relation(x, n, "removed") : x \in old \ new}

\* The rows of an incident with n updates.
Upto(rows, n) == \A r \in rows : r.seq \in 1 .. n

LEMMA LinksAreLinked ==
  ASSUME NEW i \in Incidents, NEW n
  PROVE  /\ LinksAt(i, n) = Linked(relations[i], n)
         /\ LinksAt(i, n)' = Linked(relations'[i], n)
         /\ CurrentLinks(i) = Linked(relations[i], Len(updates[i]))
         /\ CurrentLinks(i)' = Linked(relations'[i], Len(updates'[i]))
BY DEF CurrentLinks, LinksAt, LastAction, Linked, Last, Told, Latest, Items, Ledger!Items

\* A batch says nothing of the updates before its own.
LEMMA LinkedBefore ==
  ASSUME NEW rows, NEW n \in Nat, NEW m \in Nat, m < n, NEW old, NEW new
  PROVE  Linked(Written(rows, n, old, new), m) = Linked(rows, m)
<1>1. ASSUME NEW x PROVE Told(Written(rows, n, old, new), x, m) = Told(rows, x, m)
  BY DEF Told, Written, Relation
<1> QED BY <1>1 DEF Linked, Last

\* Of what a batch does not name, nothing changes.
LEMMA Untouched ==
  ASSUME NEW rows, NEW n \in Nat, Upto(rows, n), NEW old, NEW new, NEW x,
         x \notin new \ old, x \notin old \ new
  PROVE  Last(Written(rows, n + 1, old, new), x, n + 1) = Last(rows, x, n)
<1>1. Told(Written(rows, n + 1, old, new), x, n + 1) = Told(rows, x, n)
  BY DEF Told, Written, Relation, Upto
<1> QED BY <1>1 DEF Last

\* What a batch says of an item is the latest that is said of it.
LEMMA Touched ==
  ASSUME NEW rows, NEW n \in Nat, Upto(rows, n), NEW old, NEW new, NEW x,
         NEW action,
         \/ x \in new \ old /\ action = "added"
         \/ x \in old \ new /\ action = "removed"
  PROVE  Last(Written(rows, n + 1, old, new), x, n + 1) = action
<1> DEFINE told == Told(Written(rows, n + 1, old, new), x, n + 1)
           own  == Relation(x, n + 1, action)
<1>1. own \in told /\ own.seq = n + 1
  BY DEF Told, Written, Relation
<1>2. \A r \in told : r.seq <= n + 1 /\ r.seq \in Int
  BY DEF Told, Written, Relation, Upto
<1>3. \A r \in told : r.seq = n + 1 => r.action = action
  BY DEF Told, Written, Relation, Upto
<1>4. /\ Latest(told) \in told
      /\ \A r \in told : r.seq <= Latest(told).seq
  BY <1>1, <1>2 DEF Latest
<1>5. Latest(told).seq = n + 1
  BY <1>1, <1>2, <1>4
<1> HIDE DEF told
<1>6. told # {} /\ Latest(told).action = action
  BY <1>1, <1>3, <1>4, <1>5
<1> QED BY <1>6 DEF Last, told

\* After a batch planned from the links as they are, the incident is linked to
\* what was planned.
LEMMA LinkedAfter ==
  ASSUME NEW rows, NEW n \in Nat, Upto(rows, n), NEW new \in SUBSET Items
  PROVE  Linked(Written(rows, n + 1, Linked(rows, n), new), n + 1) = new
<1> DEFINE old == Linked(rows, n)
           after == Written(rows, n + 1, old, new)
<1>1. ASSUME NEW x \in Items PROVE Last(after, x, n + 1) = "added" <=> x \in new
  <2>1. CASE x \in new \ old
    BY <2>1, Touched
  <2>2. CASE x \in old \ new
    <3>1. Last(after, x, n + 1) = "removed"
      BY <2>2, Touched
    <3> QED BY <2>2, <3>1
  <2>3. CASE x \notin new \ old /\ x \notin old \ new
    <3>1. Last(after, x, n + 1) = Last(rows, x, n)
      BY <2>3, Untouched
    <3>2. x \in old <=> Last(rows, x, n) = "added"
      BY DEF Linked
    <3> QED BY <2>3, <3>1, <3>2
  <2> QED BY <2>1, <2>2, <2>3
<1> QED BY <1>1 DEF Linked

\* An incident without updates is linked to nothing.
LEMMA LinkedToNothing ==
  ASSUME NEW rows, Upto(rows, 0) PROVE Linked(rows, 0) = {}
<1>1. ASSUME NEW x PROVE Told(rows, x, 0) = {}
  BY DEF Told, Upto
<1> QED BY <1>1 DEF Linked, Last

-----------------------------------------------------------------------------
(***************************************************************************)
(* The inductive invariant.  A plan that is to be applied to the current   *)
(* update has read, table by table, what the incident is linked to now:    *)
(* the links only change together with the revision.                       *)
(***************************************************************************)
Working == {"current", "planned"} \cup DOMAIN Follow

\* What has been read of the links when a plan has come to a table.
ReadBy(at, links) ==
  CASE at \in {"current", "issue"} -> {}
    [] at = "component" -> links \cap Issues
    [] at = "service" -> links \cap (Issues \cup Components)
    [] at = "planned" -> links

PlanAt(q, n, links) ==
  q.at \in Working =>
    /\ q.incident \in Incidents /\ q.command \in Commands
    /\ q.at # "planned" => q.expected > 0
    /\ q.at = "planned" /\ q.expected = 0 => q.command.state = None
    /\ q.expected <= n
    /\ q.expected = n => q.old = ReadBy(q.at, links)

Plan(q) == PlanAt(q, Len(updates[q.incident]), CurrentLinks(q.incident))
Plans == \A r \in Requests : Plan(requests[r])

\* What is pinned is kept.
PinsKept == \A i \in Incidents : pins[i] \subseteq KeptRows

\* Whatever is linked has a latest row that linked it.
AddedRows(i, x) == {r \in relations[i] : r.item = x /\ r.action = "added"}
HasLinkRow(i, x) == \E r \in AddedRows(i, x) : \A t \in AddedRows(i, x) : t.seq <= r.seq
LinkRows == \A i \in Incidents : \A x \in CurrentLinks(i) : HasLinkRow(i, x)

\* NeededEvidence, as a function of what the link has seen: of the rows of an
\* issue that were kept then the newest, and those recorded after the first n.
RowsOf(s, rows) == {o \in rows : occurrences[o].issue = s}
Best(then) == {o \in then : Cardinality({p \in then : Later(p, o)}) < LinkLimit}
Since(s, n) == {o \in DOMAIN occurrences : occurrences[o].issue = s /\ o > n}

\* OpenEvidenceKept of one incident and issue; that what is pinned is kept is
\* said above.
Evidence(i, s) ==
  updates[i] # <<>> /\ State(i) # "resolved" /\ s \in CurrentLinks(i) =>
    /\ Best(RowsOf(s, updates[i][LinkedBy(i, s)].rows)) \subseteq pins[i]
    /\ Since(s, updates[i][LinkedBy(i, s)].recorded) \subseteq pins[i]
Evident == \A i \in Incidents, s \in Issues : Evidence(i, s)

Inv == TypeOK /\ Plans /\ PinsKept /\ LinkRows /\ Evident

Update ==
  [state : Ledger!States, recorded : 0 .. Len(occurrences), rows : SUBSET DOMAIN occurrences]
Occurrence == [issue : Issues, at : 0 .. clock, policy : Policies, kept : BOOLEAN]
Request ==
  [at : {"idle", "current", "planned", "done"} \cup DOMAIN Follow,
   incident : Incidents \cup {None}, expected : Nat,
   command : Commands \cup {None}, old : SUBSET Items]

LEMMA FollowDomain == DOMAIN Follow = {"issue", "component", "service"}
BY DEF Follow

Row == [item : Items, seq : Nat, action : {"added", "removed"}]

LEMMA Tables ==
  ASSUME TypeOK
  PROVE  /\ updates \in [Incidents -> Seq(Update)]
         /\ relations \in [Incidents -> SUBSET Row]
         /\ pins \in [Incidents -> SUBSET DOMAIN occurrences]
         /\ occurrences \in Seq(Occurrence)
         /\ requests \in [Requests -> Request]
BY DEF TypeOK, Update, Row, Occurrence, Request

LEMMA UpdateFacts ==
  ASSUME TypeOK, NEW i \in Incidents
  PROVE  /\ updates[i] \in Seq(Update) /\ Len(updates[i]) \in Nat
         /\ DOMAIN updates[i] = 1 .. Len(updates[i])
         /\ updates[i] = <<>> <=> Len(updates[i]) = 0
         /\ Upto(relations[i], Len(updates[i]))
<1>1. updates[i] \in Seq(Update)
  BY DEF TypeOK, Update
<1>2. /\ Len(updates[i]) \in Nat /\ DOMAIN updates[i] = 1 .. Len(updates[i])
      /\ updates[i] = <<>> <=> Len(updates[i]) = 0
  BY <1>1, LenProperties, EmptySeq
<1>3. Upto(relations[i], Len(updates[i]))
  BY <1>2 DEF TypeOK, Upto
<1> QED BY <1>1, <1>2, <1>3

LEMMA CommandFacts ==
  ASSUME NEW c \in Commands
  PROVE  /\ c.state \in Ledger!States \cup {None}
         /\ c.issues \in {None} \cup SUBSET Issues
         /\ c.components \in {None} \cup SUBSET Components
BY CommandAssumption

LEMMA WantedItems ==
  ASSUME NEW c \in Commands, NEW links \in SUBSET Items
  PROVE  Ledger!Wanted(c, links) \in SUBSET Items
<1>1. /\ Ledger!Kept(c.issues, links \cap Issues) \subseteq Issues
      /\ Ledger!Kept(c.components, links \cap Components) \subseteq Components
  BY CommandFacts DEF Ledger!Kept
<1>2. \A x \in Issues \cup Components : ServiceOf[x] \in ServiceIds
  BY OwnerAssumption
<1> QED BY <1>1, <1>2 DEF Ledger!Wanted, Ledger!Owners, Items, Ledger!Items

-----------------------------------------------------------------------------
(* Landing: the batch of a plan whose guards hold. *)

Lands(r) ==
  LET q == requests[r] IN
  /\ q.at = "planned" /\ ~Refused(q)
  /\ RevisionHolds(q) /\ TriggersHold(q, NewLinks(q))

\* Where a batch lands, on how many updates, with which links and which entry.
Site(r) == requests[r].incident
Size(r) == Len(updates[Site(r)])
Planned(r) == NewLinks(requests[r])
Entry(r) ==
  [state |-> Target(requests[r]), recorded |-> Len(occurrences), rows |-> KeptRows]

LEMMA LandingFacts ==
  ASSUME Inv, NEW r \in Requests, Commit(r), Lands(r)
  PROVE  /\ Site(r) \in Incidents /\ requests[r].command \in Commands
         /\ Size(r) \in Nat /\ Size(r) = requests[r].expected
         /\ requests[r].old = Linked(relations[Site(r)], Size(r))
         /\ Planned(r) \in SUBSET Items
         /\ updates' = [updates EXCEPT ![Site(r)] = Append(updates[Site(r)], Entry(r))]
         /\ relations' = [relations EXCEPT ![Site(r)] =
              Written(relations[Site(r)], Size(r) + 1, requests[r].old, Planned(r))]
         /\ pins' = [pins EXCEPT ![Site(r)] =
              pins[Site(r)] \cup NewPins(requests[r], Planned(r))]
         /\ Target(requests[r]) \in Ledger!States
<1> DEFINE q == requests[r]
           i == q.incident
           n == Len(updates[i])
<1>1. /\ q.at = "planned" /\ Len(updates[i]) = q.expected
      /\ q \in Request
  BY DEF Lands, RevisionHolds, Inv, TypeOK, Request
<1>2. i \in Incidents /\ q.command \in Commands /\ q.old = CurrentLinks(i)
  BY <1>1 DEF Inv, Plans, Plan, PlanAt, Working, ReadBy
<1>3. n \in Nat /\ q.old = Linked(relations[i], n)
  BY <1>2, LinksAreLinked, UpdateFacts DEF Inv, CurrentLinks
<1>4. NewLinks(q) \in SUBSET Items
  BY <1>1, <1>2, WantedItems DEF NewLinks, Request
<1>5. /\ updates' = [updates EXCEPT ![i] = Append(updates[i],
              [state |-> Target(q), recorded |-> Len(occurrences), rows |-> KeptRows])]
      /\ relations' = [relations EXCEPT ![i] =
              Written(relations[i], n + 1, q.old, NewLinks(q))]
      /\ pins' = [pins EXCEPT ![i] = pins[i] \cup NewPins(q, NewLinks(q))]
  BY <1>1 DEF Commit, Lands, Written
<1>6. Target(q) \in Ledger!States
  <2>1. CASE q.expected = 0
    BY <2>1 DEF Lands, TriggersHold, Ledger!States
  <2>2. CASE q.expected # 0
    <3>1. updates[i][n] \in Update
      BY <1>1, <1>2, <2>2, UpdateFacts, ElementOfSeq DEF Inv, Request
    <3>2. Found(q) \in Ledger!States
      BY <1>1, <2>2, <3>1 DEF Found, Update
    <3> QED BY <1>2, <3>2, CommandFacts DEF Target, Ledger!Kept
  <2> QED BY <2>1, <2>2
<1> QED BY <1>1, <1>2, <1>3, <1>4, <1>5, <1>6 DEF Site, Size, Planned, Entry

\* A plan whose guards fail only ends.
LEMMA NotLanding ==
  ASSUME NEW r \in Requests, Commit(r), ~Lands(r)
  PROVE  UNCHANGED <<updates, relations, pins, occurrences, sweep, clock>>
BY DEF Commit, Lands


\* What has changed when a batch has landed.
LEMMA Landed ==
  ASSUME Inv, NEW r \in Requests, Commit(r), Lands(r),
         NEW i, i = Site(r), NEW n, n = Size(r)
  PROVE  /\ updates'[i] \in Seq(Update) /\ Len(updates'[i]) = n + 1
         /\ \A m \in 1 .. n : updates'[i][m] = updates[i][m]
         /\ updates'[i][n + 1] = Entry(r)
         /\ relations'[i] = Written(relations[i], n + 1, CurrentLinks(i), Planned(r))
         /\ pins'[i] = pins[i] \cup NewPins(requests[r], Planned(r))
         /\ CurrentLinks(i)' = Planned(r) /\ LinksAt(i, n + 1)' = Planned(r)
         /\ \A m \in 0 .. n : LinksAt(i, m)' = LinksAt(i, m)
         /\ requests[r].old = CurrentLinks(i)
<1>1. /\ i \in Incidents /\ n \in Nat /\ Upto(relations[i], n)
      /\ updates[i] \in Seq(Update) /\ Planned(r) \in SUBSET Items
      /\ requests[r].old = Linked(relations[i], n)
  BY LandingFacts, UpdateFacts DEF Inv, Size
<1>2. requests[r].old = CurrentLinks(i)
  BY <1>1, LinksAreLinked DEF Size
<1>3. /\ updates'[i] = Append(updates[i], Entry(r))
      /\ relations'[i] = Written(relations[i], n + 1, requests[r].old, Planned(r))
      /\ pins'[i] = pins[i] \cup NewPins(requests[r], Planned(r))
  <2>1. /\ updates' = [updates EXCEPT ![i] = Append(updates[i], Entry(r))]
        /\ relations' = [relations EXCEPT ![i] =
              Written(relations[i], n + 1, requests[r].old, Planned(r))]
        /\ pins' = [pins EXCEPT ![i] = pins[i] \cup NewPins(requests[r], Planned(r))]
    BY LandingFacts
  <2> QED BY <1>1, <2>1, Tables DEF Inv
<1>4. Entry(r) \in Update
  <2>1. Len(occurrences) \in 0 .. Len(occurrences)
    BY Tables, LenProperties DEF Inv
  <2>2. Target(requests[r]) \in Ledger!States
    BY LandingFacts
  <2>3. KeptRows \subseteq DOMAIN occurrences
    BY DEF KeptRows
  <2> QED BY <2>1, <2>2, <2>3 DEF Update, Entry
<1>5. /\ updates'[i] \in Seq(Update) /\ Len(updates'[i]) = n + 1
      /\ \A m \in 1 .. n : updates'[i][m] = updates[i][m]
      /\ updates'[i][n + 1] = Entry(r)
  BY <1>1, <1>3, <1>4 DEF Size
<1>6. Linked(relations'[i], n + 1) = Planned(r)
  BY <1>1, <1>3, LinkedAfter
<1>7. CurrentLinks(i)' = Planned(r) /\ LinksAt(i, n + 1)' = Planned(r)
  BY <1>1, <1>5, <1>6, LinksAreLinked
<1>8. ASSUME NEW m \in 0 .. n PROVE LinksAt(i, m)' = LinksAt(i, m)
  BY <1>1, <1>3, LinksAreLinked, LinkedBefore
<1> QED BY <1>2, <1>3, <1>5, <1>7, <1>8

\* ... and what has not.
LEMMA Elsewhere ==
  ASSUME Inv, NEW r \in Requests, Commit(r), Lands(r),
         NEW j \in Incidents, j # Site(r)
  PROVE  /\ updates'[j] = updates[j] /\ relations'[j] = relations[j] /\ pins'[j] = pins[j]
         /\ \A m : LinksAt(j, m)' = LinksAt(j, m)
         /\ CurrentLinks(j)' = CurrentLinks(j) /\ State(j)' = State(j)
         /\ \A x : AddedRows(j, x)' = AddedRows(j, x) /\ LinkedBy(j, x)' = LinkedBy(j, x)
<1>1. updates'[j] = updates[j] /\ relations'[j] = relations[j] /\ pins'[j] = pins[j]
  <2> DEFINE i == Site(r)
             n == Size(r)
  <2>1. /\ updates' = [updates EXCEPT ![i] = Append(updates[i], Entry(r))]
        /\ relations' = [relations EXCEPT ![i] =
              Written(relations[i], n + 1, requests[r].old, Planned(r))]
        /\ pins' = [pins EXCEPT ![i] = pins[i] \cup NewPins(requests[r], Planned(r))]
    BY LandingFacts
  <2> QED BY <2>1, Tables DEF Inv
<1>2. /\ CurrentLinks(j)' = CurrentLinks(j)
      /\ \A m : LinksAt(j, m)' = LinksAt(j, m)
  BY <1>1, LinksAreLinked
<1> QED BY <1>1, <1>2 DEF State, AddedRows, LinkedBy

LEMMA UnchangedLinks ==
  ASSUME UNCHANGED <<updates, relations>>, NEW i \in Incidents
  PROVE  /\ \A m : LinksAt(i, m)' = LinksAt(i, m)
         /\ CurrentLinks(i)' = CurrentLinks(i) /\ State(i)' = State(i)
         /\ \A x : AddedRows(i, x)' = AddedRows(i, x) /\ LinkedBy(i, x)' = LinkedBy(i, x)
BY DEF LinksAt, LastAction, CurrentLinks, State, AddedRows, LinkedBy

-----------------------------------------------------------------------------
\* The steps of a request before its batch.
Prepares(r) ==
  \/ \E i \in Incidents, c \in Commands : Ask(r, i, c) \/ AskNew(r, i, c)
  \/ ReadCurrent(r) \/ ReadLinks(r) \/ Refuse(r)

LEMMA PrepareKeeps ==
  ASSUME NEW r \in Requests, Prepares(r)
  PROVE  UNCHANGED <<updates, relations, pins, occurrences, sweep, clock>>
BY DEF Prepares, Ask, AskNew, ReadCurrent, ReadLinks, Refuse

LEMMA IdleTypes ==
  /\ Idle \in Request /\ Answered \in Request
  /\ Idle.at = "idle" /\ Answered.at = "done"
BY DEF Idle, Answered, Request

\* The request a step of a request makes.

Prepared(r) ==
  /\ requests' \in [Requests -> Request]
  /\ \A p \in Requests \ {r} : requests'[p] = requests[p]
  /\ Plan(requests'[r])

\* The request that such a step makes has read what it says it has.
LEMMA PrepareStep ==
  ASSUME Inv, NEW r \in Requests, Prepares(r)
  PROVE  Prepared(r)
<1> DEFINE q == requests[r]
<1>0. requests \in [Requests -> Request] /\ q \in Request /\ Plan(q)
  BY Tables DEF Inv, Plans
<1>1. ASSUME NEW new \in Request, requests' = [requests EXCEPT ![r] = new], Plan(new)
      PROVE  Prepared(r)
  BY <1>0, <1>1 DEF Prepared
<1>2. Answered \in Request /\ Plan(Answered)
  BY IdleTypes DEF Plan, PlanAt, Working, Follow
<1>3. ASSUME NEW i \in Incidents, NEW c \in Commands, Ask(r, i, c)
      PROVE  Prepared(r)
  <2> DEFINE new == [Idle EXCEPT !.at = "current", !.incident = i, !.command = c,
                                 !.expected = Len(updates[i])]
  <2>1. /\ new.at = "current" /\ new.incident = i /\ new.command = c
        /\ new.expected = Len(updates[i]) /\ new.old = {}
    BY DEF Idle
  <2>2. Len(updates[i]) \in Nat /\ Len(updates[i]) > 0
    BY <1>3, UpdateFacts DEF Ask, Inv
  <2>3. new \in Request
    BY <2>2, IdleTypes, Zenon DEF Request
  <2>4. Plan(new)
    <3> HIDE DEF new
    <3> QED BY <2>1, <2>2 DEF Plan, PlanAt, ReadBy
  <2>5. requests' = [requests EXCEPT ![r] = new]
    BY <1>3 DEF Ask
  <2> HIDE DEF new
  <2> QED BY <1>1, <2>3, <2>4, <2>5
<1>4. ASSUME NEW i \in Incidents, NEW c \in Commands, AskNew(r, i, c)
      PROVE  Prepared(r)
  <2> DEFINE new == [Idle EXCEPT !.at = "planned", !.incident = i, !.command = c]
  <2>1. /\ new.at = "planned" /\ new.incident = i /\ new.command = c
        /\ new.expected = 0 /\ new.old = {}
    BY DEF Idle
  <2>2. new \in Request
    BY IdleTypes, Zenon DEF Request
  <2>3. Len(updates[i]) = 0 /\ CurrentLinks(i) = {}
    BY <1>4, UpdateFacts, LinksAreLinked, LinkedToNothing DEF AskNew, Inv, CurrentLinks
  <2>4. c.state = None
    BY <1>4 DEF AskNew
  <2>6. Plan(new)
    <3> HIDE DEF new
    <3> QED BY <2>1, <2>3, <2>4 DEF Plan, PlanAt, ReadBy
  <2>5. requests' = [requests EXCEPT ![r] = new]
    BY <1>4 DEF AskNew
  <2> HIDE DEF new
  <2> QED BY <1>1, <2>2, <2>5, <2>6
<1>5. CASE ReadCurrent(r)
  <2> DEFINE new == [q EXCEPT !.at = "issue"]
  <2>1. new \in Request
    BY <1>0 DEF Request, Follow
  <2>2. Plan(new)
    BY <1>0, <1>5 DEF ReadCurrent, Plan, PlanAt, Working, ReadBy, Follow, Request
  <2>3. \/ requests' = [requests EXCEPT ![r] = new]
        \/ requests' = [requests EXCEPT ![r] = Answered]
    BY <1>5 DEF ReadCurrent
  <2> HIDE DEF new
  <2> QED BY <1>1, <1>2, <2>1, <2>2, <2>3
<1>6. CASE ReadLinks(r)
  <2> DEFINE read == {x \in CurrentLinks(q.incident) : TableOf(x) = q.at}
             new  == [q EXCEPT !.old = @ \cup read, !.at = Follow[@]]
  <2>1. q.at \in {"issue", "component", "service"}
    BY <1>6, FollowDomain DEF ReadLinks
  <2>2. Follow[q.at] \in {"component", "service", "planned"}
    BY <2>1 DEF Follow
  <2>3. CurrentLinks(q.incident) \subseteq Items
    BY DEF CurrentLinks, LinksAt, Items, Ledger!Items
  <2>4. new \in Request
    <3>1. q.old \cup read \in SUBSET Items
      BY <1>0, <2>3 DEF Request
    <3> HIDE DEF read
    <3> QED BY <1>0, <2>2, <3>1, FollowDomain DEF Request
  <2>5. /\ new.at = Follow[q.at] /\ new.old = q.old \cup read
        /\ new.incident = q.incident /\ new.command = q.command
        /\ new.expected = q.expected
    BY <1>0 DEF Request
  <2>6. /\ q.incident \in Incidents /\ q.command \in Commands
        /\ q.expected > 0 /\ q.expected <= Len(updates[q.incident])
        /\ q.expected = Len(updates[q.incident]) => q.old = ReadBy(q.at, CurrentLinks(q.incident))
    BY <1>0, <2>1 DEF Plan, PlanAt, Working, Follow
  <2>7. ReadBy(q.at, CurrentLinks(q.incident)) \cup read = ReadBy(Follow[q.at], CurrentLinks(q.incident))
    BY <2>1, <2>3, ItemAssumption DEF ReadBy, Follow, TableOf, Items, Ledger!Items
  <2>8. Plan(new)
    BY <1>0, <2>5, <2>6, <2>7 DEF Plan, PlanAt, Request
  <2>9. requests' = [requests EXCEPT ![r] = new]
    BY <1>6 DEF ReadLinks
  <2> HIDE DEF new
  <2> QED BY <1>1, <2>4, <2>8, <2>9
<1>7. CASE Refuse(r)
  BY <1>1, <1>2, <1>7 DEF Refuse
<1> QED BY <1>3, <1>4, <1>5, <1>6, <1>7 DEF Prepares

\* A batch ends its request, landing or not.
LEMMA CommitEnds ==
  ASSUME Inv, NEW r \in Requests, Commit(r)
  PROVE  /\ requests' \in [Requests -> Request] /\ requests'[r] = Answered
         /\ \A p \in Requests \ {r} : requests'[p] = requests[p]
         /\ UNCHANGED <<occurrences, sweep, clock>>
<1>1. requests' = [requests EXCEPT ![r] = Answered]
  BY DEF Commit
<1>2. requests \in [Requests -> Request]
  BY Tables DEF Inv
<1>3. UNCHANGED <<occurrences, sweep, clock>>
  BY DEF Commit
<1> QED BY <1>1, <1>2, <1>3, IdleTypes

\* The steps of the consumer, the scheduler and the clock.
Elsewise ==
  \/ \E s \in Issues, p \in Policies, at \in 0 .. clock :
       p \in RetentionOf[s] /\ Record(s, p, at)
  \/ ReadCandidates \/ Purge \/ CutOff \/ Tick \/ UNCHANGED vars

LEMMA ElsewiseKeeps ==
  ASSUME Elsewise PROVE UNCHANGED <<updates, relations, requests>>
BY DEF Elsewise, Record, ReadCandidates, Purge, CutOff, Tick, vars

LEMMA StepCases ==
  ASSUME [Next]_vars
  PROVE  \/ \E r \in Requests : Prepares(r) \/ Commit(r)
         \/ Elsewise
BY DEF Next, Prepares, Elsewise

LEMMA PlanPrimed ==
  ASSUME NEW p \in Requests, requests'[p].incident \in Incidents
  PROVE  Plan(requests[p])' <=>
           LET j == requests'[p].incident
           IN PlanAt(requests'[p], Len(updates'[j]), Linked(relations'[j], Len(updates'[j])))
<1>1. CurrentLinks(requests[p].incident)' =
        Linked(relations'[requests'[p].incident], Len(updates'[requests'[p].incident]))
  BY DEF CurrentLinks, LinksAt, LastAction, Linked, Last, Told, Latest, Items, Ledger!Items
<1> QED BY <1>1 DEF Plan

LEMMA PlansStep ==
  ASSUME Inv, [Next]_vars
  PROVE  Plans'
<1>1. ASSUME UNCHANGED <<updates, relations>>, NEW p \in Requests, Plan(requests'[p])
      PROVE  Plan(requests[p])'
  <2>1. CASE requests'[p].incident \in Incidents
    BY <1>1, <2>1, UnchangedLinks DEF Plan
  <2>2. CASE requests'[p].incident \notin Incidents
    BY <1>1, <2>2 DEF Plan, PlanAt
  <2> QED BY <2>1, <2>2
<1>2. ASSUME NEW r \in Requests, Prepares(r) PROVE Plans'
  <2>1. \A p \in Requests : Plan(requests'[p])
    BY <1>2, PrepareStep DEF Prepared, Inv, Plans
  <2> QED BY <1>1, <1>2, <2>1, PrepareKeeps DEF Plans
<1>3. CASE Elsewise
  <2>1. \A p \in Requests : Plan(requests'[p])
    BY <1>3, ElsewiseKeeps DEF Inv, Plans
  <2> QED BY <1>1, <1>3, <2>1, ElsewiseKeeps DEF Plans
<1>4. ASSUME NEW r \in Requests, Commit(r), NEW p \in Requests
      PROVE  Plan(requests[p])'
  <2>1. CASE p = r
    <3>1. requests'[p].at = "done"
      BY <1>4, <2>1, CommitEnds, IdleTypes
    <3> QED BY <3>1 DEF Plan, PlanAt, Working, Follow
  <2>2. CASE p # r /\ ~Lands(r)
    <3>1. Plan(requests'[p])
      BY <1>4, <2>2, CommitEnds DEF Inv, Plans
    <3> QED BY <1>1, <1>4, <2>2, <3>1, NotLanding
  <2>3. CASE p # r /\ Lands(r)
    <3> DEFINE q == requests[p]
               j == q.incident
    <3>1. requests'[p] = q /\ PlanAt(q, Len(updates[j]), CurrentLinks(j)) /\ q \in Request
      BY <1>4, <2>3, CommitEnds, Tables DEF Inv, Plans, Plan
    <3>2. CASE j \notin Incidents
      BY <3>1, <3>2 DEF Plan, PlanAt
    <3>3. CASE j \in Incidents /\ j # Site(r)
      <4>1. updates'[j] = updates[j]
        BY <1>4, <2>3, <3>3, Elsewhere
      <4>2. relations'[j] = relations[j] /\ CurrentLinks(j) = Linked(relations[j], Len(updates[j]))
        BY <1>4, <2>3, <3>3, Elsewhere, LinksAreLinked
      <4> QED BY <3>1, <3>3, <4>1, <4>2, PlanPrimed
    <3>4. CASE j \in Incidents /\ j = Site(r)
      <4>1. Len(updates'[j]) = Len(updates[j]) + 1 /\ Len(updates[j]) \in Nat
        BY <1>4, <2>3, <3>4, Landed, UpdateFacts DEF Inv, Size
      <4> QED BY <3>1, <3>4, <4>1, PlanPrimed DEF PlanAt, Request
    <3> QED BY <3>2, <3>3, <3>4
  <2> QED BY <2>1, <2>2, <2>3
<1> QED BY <1>2, <1>3, <1>4, StepCases DEF Plans

-----------------------------------------------------------------------------
(* Types. *)

\* TypeOK of some values of the variables, in parts.
LEMMA TypesPrimed ==
  ASSUME updates' \in [Incidents -> Seq(Update')],
         relations' \in [Incidents -> SUBSET Row],
         \A i \in Incidents : \A r \in relations'[i] : r.seq \in DOMAIN updates'[i],
         pins' \in [Incidents -> SUBSET DOMAIN occurrences'],
         occurrences' \in Seq(Occurrence'),
         requests' \in [Requests -> Request],
         sweep'.now \in 0 .. clock' \cup {None}, sweep'.list \subseteq DOMAIN occurrences',
         clock' \in 0 .. MaxTime
  PROVE  TypeOK'
BY DEF TypeOK, Update, Row, Occurrence, Request

LEMMA SweepTypes ==
  ASSUME TypeOK
  PROVE  /\ sweep.now \in 0 .. clock \cup {None} /\ sweep.list \subseteq DOMAIN occurrences
         /\ clock \in 0 .. MaxTime
         /\ \A i \in Incidents : \A r \in relations[i] : r.seq \in DOMAIN updates[i]
         /\ Len(occurrences) \in Nat /\ DOMAIN occurrences = 1 .. Len(occurrences)
<1>1. Len(occurrences) \in Nat /\ DOMAIN occurrences = 1 .. Len(occurrences)
  BY Tables, LenProperties
<1> QED BY <1>1 DEF TypeOK

\* The tables of the incidents keep their types when occurrences are added.
LEMMA TablesStay ==
  ASSUME TypeOK, UNCHANGED <<updates, relations, requests>>,
         Len(occurrences') \in Nat, Len(occurrences) <= Len(occurrences'),
         DOMAIN occurrences \subseteq DOMAIN occurrences'
  PROVE  /\ updates' \in [Incidents -> Seq(Update')]
         /\ relations' \in [Incidents -> SUBSET Row]
         /\ \A i \in Incidents : \A r \in relations'[i] : r.seq \in DOMAIN updates'[i]
         /\ requests' \in [Requests -> Request]
<1>1. Update \subseteq Update'
  <2>1. 0 .. Len(occurrences) \subseteq 0 .. Len(occurrences')
    BY SweepTypes
  <2> QED BY <2>1 DEF Update
<1>2. \A i \in Incidents : updates[i] \in Seq(Update')
  BY <1>1, Tables, SeqMonotonic
<1> QED BY <1>2, Tables, SweepTypes

LEMMA RecordStep ==
  ASSUME Inv, NEW s \in Issues, NEW p \in Policies, NEW at \in 0 .. clock, Record(s, p, at)
  PROVE  TypeOK' /\ PinsKept'
<1> DEFINE new == [issue |-> s, at |-> at, policy |-> p, kept |-> TRUE]
           n == Len(occurrences)
<1>1. /\ occurrences \in Seq(Occurrence) /\ new \in Occurrence /\ n \in Nat
      /\ DOMAIN occurrences = 1 .. n
  BY Tables, SweepTypes DEF Inv, Occurrence
<1>2. /\ occurrences' = Append(occurrences, new)
      /\ pins' = [i \in Incidents |-> IF i \in OpenFor(s) THEN pins[i] \cup {n + 1} ELSE pins[i]]
      /\ UNCHANGED <<updates, relations, requests, sweep, clock>>
  BY DEF Record
<1> HIDE DEF new
<1>3. /\ occurrences' \in Seq(Occurrence) /\ Len(occurrences') = n + 1
      /\ DOMAIN occurrences' = 1 .. n + 1
      /\ \A o \in 1 .. n : occurrences'[o] = occurrences[o]
      /\ occurrences'[n + 1] = new
  <2>1. /\ occurrences' \in Seq(Occurrence) /\ Len(occurrences') = n + 1
        /\ \A o \in 1 .. n : occurrences'[o] = occurrences[o]
        /\ occurrences'[n + 1] = new
    BY <1>1, <1>2
  <2> QED BY <2>1, LenProperties
<1>4. Occurrence' = Occurrence
  BY <1>2 DEF Occurrence
<1>5. pins \in [Incidents -> SUBSET (1 .. n)]
  BY <1>1, Tables DEF Inv
<1>6. pins' \in [Incidents -> SUBSET (1 .. n + 1)]
  BY <1>1, <1>2, <1>5
<1>7. TypeOK'
  BY <1>1, <1>2, <1>3, <1>4, <1>6, TablesStay, SweepTypes, TypesPrimed DEF Inv
<1>8. ASSUME NEW i \in Incidents, NEW o \in pins'[i] PROVE o \in KeptRows'
  <2>1. CASE o = n + 1
    BY <1>1, <1>3, <2>1 DEF KeptRows, new
  <2>2. CASE o # n + 1
    <3>1. o \in pins[i]
      BY <1>2, <1>8, <2>2
    <3>2. o \in KeptRows /\ o \in 1 .. n
      BY <1>5, <3>1 DEF Inv, PinsKept
    <3> QED BY <1>1, <1>3, <3>2 DEF KeptRows
  <2> QED BY <2>1, <2>2
<1> QED BY <1>7, <1>8 DEF PinsKept

\* Retention: what a pass reads are rows, and what it deletes is not pinned.
LEMMA PurgeStep ==
  ASSUME Inv, Purge
  PROVE  TypeOK' /\ PinsKept'
<1>1. /\ occurrences \in Seq(Occurrence) /\ Len(occurrences) \in Nat
      /\ DOMAIN occurrences = 1 .. Len(occurrences)
  BY Tables, SweepTypes DEF Inv
<1>2. /\ UNCHANGED <<updates, relations, pins, requests, clock>>
      /\ sweep' = NoSweep
  BY DEF Purge
<1> DEFINE gone == {o \in sweep.list : Purgeable(o)}
           after == [o \in DOMAIN occurrences |->
               IF o \in gone THEN [occurrences[o] EXCEPT !.kept = FALSE] ELSE occurrences[o]]
<1>3. occurrences' = occurrences \/ occurrences' = after
  BY DEF Purge
<1>4. /\ after \in Seq(Occurrence) /\ DOMAIN after = 1 .. Len(occurrences)
  <2>1. ASSUME NEW o \in 1 .. Len(occurrences)
        PROVE  /\ occurrences[o] \in Occurrence
               /\ [occurrences[o] EXCEPT !.kept = FALSE] \in Occurrence
    <3>1. occurrences[o] \in Occurrence
      BY <1>1, <2>1, ElementOfSeq
    <3> QED BY <3>1 DEF Occurrence
  <2>2. after \in [1 .. Len(occurrences) -> Occurrence]
    BY <1>1, <2>1
  <2> HIDE DEF after
  <2> QED BY <1>1, <2>2, SeqDef
<1>5. /\ occurrences' \in Seq(Occurrence) /\ DOMAIN occurrences' = 1 .. Len(occurrences)
      /\ Len(occurrences') = Len(occurrences)
  <2> HIDE DEF after
  <2>1. /\ occurrences' \in Seq(Occurrence) /\ DOMAIN occurrences' = 1 .. Len(occurrences)
    BY <1>1, <1>3, <1>4
  <2> QED BY <1>1, <2>1, LenProperties
<1>6. Occurrence' = Occurrence
  BY <1>2 DEF Occurrence
<1>7. TypeOK'
  <2>1. NoSweep.now = None /\ NoSweep.list = {}
    BY DEF NoSweep
  <2> QED BY <1>1, <1>2, <1>5, <1>6, <2>1, Tables, TablesStay, SweepTypes, TypesPrimed DEF Inv
<1>8. ASSUME NEW i \in Incidents, NEW o \in pins'[i] PROVE o \in KeptRows'
  <2>1. o \in pins[i] /\ o \in KeptRows /\ o \notin gone
    BY <1>2, <1>8 DEF Inv, PinsKept, Purgeable, Pinned
  <2>2. occurrences'[o] = occurrences[o] /\ o \in DOMAIN occurrences'
    BY <1>1, <1>3, <1>5, <2>1 DEF KeptRows
  <2> QED BY <2>1, <2>2 DEF KeptRows
<1> QED BY <1>7, <1>8 DEF PinsKept

LEMMA OtherStep ==
  ASSUME Inv, ReadCandidates \/ CutOff \/ Tick \/ UNCHANGED vars
  PROVE  TypeOK' /\ PinsKept'
<1>1. UNCHANGED <<updates, relations, pins, occurrences, requests>>
  BY DEF ReadCandidates, CutOff, Tick, vars
<1>2. PinsKept'
  BY <1>1 DEF Inv, PinsKept, KeptRows
<1>3. clock' \in 0 .. MaxTime /\ clock <= clock' /\ clock \in Nat
  BY SweepTypes, LimitAssumption DEF Inv, ReadCandidates, CutOff, Tick, vars
<1>4. sweep'.now \in 0 .. clock' \cup {None} /\ sweep'.list \subseteq DOMAIN occurrences
  <2>1. CASE ReadCandidates
    <3>1. Candidates(clock) \subseteq DOMAIN occurrences
      BY DEF Candidates, CandidateRows, KeptRows
    <3> QED BY <2>1, <3>1, <1>3 DEF ReadCandidates
  <2>2. CASE CutOff
    BY <2>2 DEF CutOff, NoSweep
  <2>3. CASE Tick \/ UNCHANGED vars
    <3>1. sweep' = sweep
      BY <2>3 DEF Tick, vars
    <3> QED BY <1>3, <3>1, SweepTypes DEF Inv
  <2> QED BY <2>1, <2>2, <2>3
<1>5. occurrences' \in Seq(Occurrence')
  <2>1. 0 .. clock \subseteq 0 .. clock'
    BY <1>3
  <2>2. Occurrence \subseteq Occurrence'
    BY <2>1 DEF Occurrence
  <2> QED BY <1>1, <2>2, Tables, SeqMonotonic DEF Inv
<1>6. TypeOK'
  BY <1>1, <1>3, <1>4, <1>5, Tables, TablesStay, SweepTypes, TypesPrimed DEF Inv
<1> QED BY <1>2, <1>6

-----------------------------------------------------------------------------
(* Evidence. *)

LEMMA LinkRowsStay ==
  ASSUME LinkRows, UNCHANGED <<updates, relations>>
  PROVE  LinkRows'
<1>1. ASSUME NEW i \in Incidents, NEW x \in CurrentLinks(i)' PROVE HasLinkRow(i, x)'
  <2>1. HasLinkRow(i, x) /\ AddedRows(i, x)' = AddedRows(i, x)
    BY <1>1, UnchangedLinks DEF LinkRows
  <2> QED BY <2>1 DEF HasLinkRow
<1> QED BY <1>1 DEF LinkRows

\* The link to an issue was made by an update of the incident.
LEMMA LinkedByUpdate ==
  ASSUME Inv, NEW i \in Incidents, NEW x \in CurrentLinks(i)
  PROVE  LinkedBy(i, x) \in 1 .. Len(updates[i])
<1>1. LinkedBy(i, x) = Latest(AddedRows(i, x)).seq
  BY DEF LinkedBy, AddedRows, Latest
<1>2. HasLinkRow(i, x)
  BY DEF Inv, LinkRows
<1>3. Latest(AddedRows(i, x)) \in AddedRows(i, x)
  BY <1>2 DEF HasLinkRow, Latest
<1> QED BY <1>1, <1>3, UpdateFacts DEF Inv, AddedRows, Upto

\* ... and what it has seen are rows.
LEMMA SeenRows ==
  ASSUME Inv, NEW i \in Incidents, NEW x \in CurrentLinks(i)
  PROVE  updates[i][LinkedBy(i, x)].rows \subseteq DOMAIN occurrences
<1>1. updates[i][LinkedBy(i, x)] \in Update
  BY LinkedByUpdate, UpdateFacts, ElementOfSeq DEF Inv
<1> QED BY <1>1 DEF Update

\* Rows do not change their issue nor their time, nor do they disappear.
Lasting ==
  \A o \in DOMAIN occurrences :
    /\ o \in DOMAIN occurrences'
    /\ occurrences'[o].issue = occurrences[o].issue /\ occurrences'[o].at = occurrences[o].at

\* What was the newest once remains it.
LEMMA BestLasts ==
  ASSUME Lasting, NEW s, NEW rows, rows \subseteq DOMAIN occurrences
  PROVE  Best(RowsOf(s, rows))' = Best(RowsOf(s, rows))
<1> DEFINE then == RowsOf(s, rows)
<1>1. then' = then /\ then \subseteq DOMAIN occurrences
  BY DEF Lasting, RowsOf
<1>2. ASSUME NEW o \in then
      PROVE  {p \in then : Later(p, o)}' = {p \in then : Later(p, o)}
  <2>1. \A p \in then : Later(p, o)' <=> Later(p, o)
    BY <1>1, <1>2 DEF Lasting, Later
  <2> HIDE DEF then
  <2> QED BY <1>1, <2>1
<1> HIDE DEF then
<1>3. Best(then)' = Best(then)
  BY <1>1, <1>2 DEF Best
<1> QED BY <1>3 DEF then

\* Evidence is not lost where updates and links stay, nothing is unpinned, and
\* what is added is pinned where it has to be.
LEMMA EvidenceStays ==
  ASSUME Inv, UNCHANGED <<updates, relations>>, Lasting,
         \A i \in Incidents : pins[i] \subseteq pins'[i],
         \A o \in DOMAIN occurrences' \ DOMAIN occurrences :
           \A i \in OpenFor(occurrences'[o].issue) : o \in pins'[i]
  PROVE  Evident'
<1>1. ASSUME NEW i \in Incidents, NEW s \in Issues PROVE Evidence(i, s)'
  <2>1. /\ CurrentLinks(i)' = CurrentLinks(i) /\ State(i)' = State(i) /\ LinkedBy(i, s)' = LinkedBy(i, s)
    BY UnchangedLinks
  <2>2. ASSUME updates[i] # <<>>, State(i) # "resolved", s \in CurrentLinks(i),
               NEW link, link = updates[i][LinkedBy(i, s)]
        PROVE  Best(RowsOf(s, link.rows))' \subseteq pins'[i] /\ Since(s, link.recorded)' \subseteq pins'[i]
    <3>1. Best(RowsOf(s, link.rows)) \subseteq pins[i] /\ Since(s, link.recorded) \subseteq pins[i]
      BY <2>2 DEF Inv, Evident, Evidence
    <3>2. link.rows \subseteq DOMAIN occurrences
      BY <2>2, SeenRows
    <3>3. Best(RowsOf(s, link.rows))' = Best(RowsOf(s, link.rows))
      <4>1. PICK rows : rows = link.rows
        OBVIOUS
      <4> QED BY <2>2, <3>2, <4>1, BestLasts
    <3>4. i \in OpenFor(s)
      BY <2>2 DEF OpenFor
    <3>5. ASSUME NEW o \in Since(s, link.recorded)' PROVE o \in pins'[i]
      <4>1. CASE o \in DOMAIN occurrences
        BY <2>2, <3>1, <3>5, <4>1 DEF Since, Lasting
      <4>2. CASE o \notin DOMAIN occurrences
        BY <3>4, <3>5, <4>2 DEF Since
      <4> QED BY <4>1, <4>2
    <3> QED BY <3>1, <3>3, <3>5
  <2> QED BY <2>1, <2>2 DEF Evidence
<1> QED BY <1>1 DEF Evident

LEMMA ElsewiseEvidence ==
  ASSUME Inv, Elsewise
  PROVE  Evident'
<1>0. Len(occurrences) \in Nat /\ DOMAIN occurrences = 1 .. Len(occurrences)
  BY SweepTypes DEF Inv
<1>1. ASSUME NEW s \in Issues, NEW p \in Policies, NEW at \in 0 .. clock, Record(s, p, at)
      PROVE  Evident'
  <2> DEFINE new == [issue |-> s, at |-> at, policy |-> p, kept |-> TRUE]
             n == Len(occurrences)
  <2>1. /\ occurrences' = Append(occurrences, new)
        /\ pins' = [i \in Incidents |-> IF i \in OpenFor(s) THEN pins[i] \cup {n + 1} ELSE pins[i]]
        /\ UNCHANGED <<updates, relations>>
    BY <1>1 DEF Record
  <2>2. new.issue = s /\ new \in Occurrence /\ occurrences \in Seq(Occurrence)
    BY Tables DEF Inv, Occurrence
  <2> HIDE DEF new
  <2>3. /\ DOMAIN occurrences' = 1 .. n + 1 /\ occurrences'[n + 1] = new
        /\ \A o \in 1 .. n : occurrences'[o] = occurrences[o]
    <3>1. /\ occurrences' \in Seq(Occurrence) /\ Len(occurrences') = n + 1
          /\ occurrences'[n + 1] = new
          /\ \A o \in 1 .. n : occurrences'[o] = occurrences[o]
      BY <1>0, <2>1, <2>2
    <3> QED BY <3>1, LenProperties
  <2>4. OpenFor(s) \subseteq Incidents
    BY DEF OpenFor
  <2>5. \A i \in Incidents : pins[i] \subseteq pins'[i]
    BY <2>1
  <2>6. \A i \in OpenFor(s) : n + 1 \in pins'[i]
    BY <2>1, <2>4
  <2>7. Lasting
    BY <1>0, <2>3 DEF Lasting
  <2>8. ASSUME NEW o \in DOMAIN occurrences' \ DOMAIN occurrences
        PROVE  \A i \in OpenFor(occurrences'[o].issue) : o \in pins'[i]
    <3>1. o = n + 1
      BY <1>0, <2>3
    <3> QED BY <2>2, <2>3, <2>6, <3>1
  <2> QED BY <2>1, <2>5, <2>7, <2>8, EvidenceStays
<1>2. CASE Purge
  <2>1. UNCHANGED <<updates, relations, pins>>
    BY <1>2 DEF Purge
  <2>2. DOMAIN occurrences' = DOMAIN occurrences
    BY <1>2 DEF Purge
  <2>3. ASSUME NEW o \in DOMAIN occurrences
        PROVE  occurrences'[o].issue = occurrences[o].issue /\ occurrences'[o].at = occurrences[o].at
    <3>1. CASE occurrences' = occurrences
      BY <3>1
    <3>2. CASE occurrences' = [p \in DOMAIN occurrences |->
                 IF p \in {x \in sweep.list : Purgeable(x)}
                 THEN [occurrences[p] EXCEPT !.kept = FALSE] ELSE occurrences[p]]
      <4>1. occurrences[o] \in Occurrence
        BY <1>0, Tables, ElementOfSeq DEF Inv
      <4>2. /\ [occurrences[o] EXCEPT !.kept = FALSE].issue = occurrences[o].issue
            /\ [occurrences[o] EXCEPT !.kept = FALSE].at = occurrences[o].at
        BY <4>1 DEF Occurrence
      <4> QED BY <3>2, <4>2
    <3> QED BY <1>2, <3>1, <3>2 DEF Purge
  <2> QED BY <2>1, <2>2, <2>3, EvidenceStays DEF Lasting
<1>3. CASE ReadCandidates \/ CutOff \/ Tick \/ UNCHANGED vars
  <2>1. UNCHANGED <<updates, relations, pins, occurrences>>
    BY <1>3 DEF ReadCandidates, CutOff, Tick, vars
  <2> QED BY <2>1, EvidenceStays DEF Lasting
<1> QED BY <1>1, <1>2, <1>3 DEF Elsewise

-----------------------------------------------------------------------------
(* The batch of a command. *)

LEMMA PinnedNow ==
  ASSUME NEW q, NEW links
  PROVE  NewPins(q, links) \subseteq KeptRows
BY DEF NewPins, Newest

\* ... and it pins the newest rows of every issue that it links.
LEMMA BestPinned ==
  ASSUME NEW q, NEW links, NEW s \in Issues, s \in links \ q.old
  PROVE  Best(RowsOf(s, KeptRows)) \subseteq NewPins(q, links)
<1>1. Newest(s) = Best(RowsOf(s, KeptRows))
  BY DEF Newest, Best, RowsOf
<1> QED BY <1>1 DEF NewPins

LEMMA LandTypes ==
  ASSUME Inv, NEW r \in Requests, Commit(r), Lands(r)
  PROVE  TypeOK' /\ PinsKept'
<1> DEFINE i == Site(r)
           n == Size(r)
<1>0. i \in Incidents /\ n \in Nat /\ n = Len(updates[i])
  BY LandingFacts DEF Size
<1>1. /\ requests' \in [Requests -> Request] /\ UNCHANGED <<occurrences, sweep, clock>>
  BY CommitEnds
<1>2. Update' = Update /\ Occurrence' = Occurrence
  BY <1>1 DEF Update, Occurrence
<1>3. /\ updates' = [updates EXCEPT ![i] = Append(updates[i], Entry(r))]
      /\ relations' = [relations EXCEPT ![i] =
            Written(relations[i], n + 1, requests[r].old, Planned(r))]
      /\ pins' = [pins EXCEPT ![i] = pins[i] \cup NewPins(requests[r], Planned(r))]
  BY LandingFacts
<1>4. Append(updates[i], Entry(r)) \in Seq(Update) /\ DOMAIN updates'[i] = 1 .. n + 1
  <2>1. updates'[i] = Append(updates[i], Entry(r))
    BY <1>0, <1>3, Tables DEF Inv
  <2>2. updates'[i] \in Seq(Update) /\ Len(updates'[i]) = n + 1
    BY Landed
  <2> QED BY <2>1, <2>2, LenProperties
<1>5. Written(relations[i], n + 1, requests[r].old, Planned(r)) \in SUBSET Row
  <2>1. Planned(r) \subseteq Items /\ requests[r].old \subseteq Items
    BY LandingFacts DEF Linked
  <2>2. relations[i] \subseteq Row
    BY <1>0, Tables DEF Inv
  <2> QED BY <1>0, <2>1, <2>2 DEF Written, Row, Relation
<1>6. updates' \in [Incidents -> Seq(Update')] /\ relations' \in [Incidents -> SUBSET Row]
  BY <1>2, <1>3, <1>4, <1>5, Tables DEF Inv
<1>7. ASSUME NEW j \in Incidents, NEW made \in relations'[j]
      PROVE  made.seq \in DOMAIN updates'[j]
  <2>1. CASE j = i
    <3>1. relations'[i] = Written(relations[i], n + 1, requests[r].old, Planned(r))
      BY <1>0, <1>3, Tables DEF Inv
    <3>2. Upto(relations[i], n)
      BY <1>0, UpdateFacts DEF Inv
    <3> QED BY <1>0, <1>4, <1>7, <2>1, <3>1, <3>2 DEF Written, Relation, Upto
  <2>2. CASE j # i
    BY <1>7, <2>2, Elsewhere, SweepTypes DEF Inv
  <2> QED BY <2>1, <2>2
<1>8. NewPins(requests[r], Planned(r)) \subseteq KeptRows /\ KeptRows \subseteq DOMAIN occurrences
  BY PinnedNow DEF KeptRows
<1>9. pins' \in [Incidents -> SUBSET DOMAIN occurrences']
  BY <1>1, <1>3, <1>8, Tables DEF Inv
<1>10. TypeOK'
  BY <1>1, <1>2, <1>6, <1>7, <1>9, Tables, SweepTypes, TypesPrimed DEF Inv
<1>11. ASSUME NEW j \in Incidents PROVE pins'[j] \subseteq KeptRows
  <2>1. pins[j] \subseteq KeptRows /\ pins \in [Incidents -> SUBSET DOMAIN occurrences]
    BY Tables DEF Inv, PinsKept
  <2> QED BY <1>3, <1>8, <2>1
<1>12. KeptRows' = KeptRows
  BY <1>1 DEF KeptRows
<1> QED BY <1>10, <1>11, <1>12 DEF PinsKept

LEMMA LinkedByIsLatest ==
  ASSUME NEW i \in Incidents, NEW x
  PROVE  /\ LinkedBy(i, x) = Latest(AddedRows(i, x)).seq
         /\ LinkedBy(i, x)' = Latest(AddedRows(i, x)').seq
         /\ AddedRows(i, x)' = {r \in relations'[i] : r.item = x /\ r.action = "added"}
BY DEF LinkedBy, AddedRows, Latest

\* What a batch does to the rows that link an item.
LEMMA LandRows ==
  ASSUME Inv, NEW r \in Requests, Commit(r), Lands(r),
         NEW i, i = Site(r), NEW n, n = Size(r), NEW x, x \in CurrentLinks(i)'
  PROVE  /\ HasLinkRow(i, x)'
         /\ x \notin CurrentLinks(i) => LinkedBy(i, x)' = n + 1
         /\ x \in CurrentLinks(i) => LinkedBy(i, x)' = LinkedBy(i, x) /\ LinkedBy(i, x) \in 1 .. n
<1>1. /\ i \in Incidents /\ n \in Nat /\ Upto(relations[i], n)
      /\ relations'[i] = Written(relations[i], n + 1, CurrentLinks(i), Planned(r))
      /\ x \in Planned(r)
  BY LandingFacts, Landed, UpdateFacts DEF Inv, Size
<1> DEFINE rows == AddedRows(i, x)'
<1>2. rows = {t \in relations'[i] : t.item = x /\ t.action = "added"}
  BY <1>1, LinkedByIsLatest
<1>3. CASE x \notin CurrentLinks(i)
  <2> DEFINE own == Relation(x, n + 1, "added")
  <2>1. own \in rows /\ own.seq = n + 1 /\ \A t \in rows : t.seq \in Int /\ t.seq <= n + 1
    BY <1>1, <1>2, <1>3 DEF Written, Relation, Upto
  <2>2. HasLinkRow(i, x)'
    BY <2>1 DEF HasLinkRow
  <2> HIDE DEF rows, own
  <2>3. Latest(rows) \in rows /\ \A t \in rows : t.seq <= Latest(rows).seq
    BY <2>1 DEF Latest
  <2>4. Latest(rows).seq = n + 1
    BY <1>1, <2>1, <2>3
  <2> QED BY <1>1, <1>3, <2>2, <2>4, LinkedByIsLatest DEF rows
<1>4. CASE x \in CurrentLinks(i)
  <2>1. rows = AddedRows(i, x)
    BY <1>1, <1>2, <1>4 DEF Written, Relation, AddedRows
  <2>2. HasLinkRow(i, x)
    BY <1>1, <1>4 DEF Inv, LinkRows
  <2>3. HasLinkRow(i, x)'
    BY <2>1, <2>2 DEF HasLinkRow
  <2>4. Latest(AddedRows(i, x)) \in AddedRows(i, x)
    BY <2>2 DEF HasLinkRow, Latest
  <2>5. LinkedBy(i, x) \in 1 .. n
    BY <1>1, <2>4, LinkedByIsLatest DEF AddedRows, Upto
  <2>6. LinkedBy(i, x)' = LinkedBy(i, x)
    BY <1>1, <2>1, LinkedByIsLatest
  <2> QED BY <1>4, <2>3, <2>5, <2>6
<1> QED BY <1>3, <1>4

LEMMA LandEvidence ==
  ASSUME Inv, NEW r \in Requests, Commit(r), Lands(r)
  PROVE  LinkRows' /\ Evident'
<1>0. /\ UNCHANGED occurrences /\ Len(occurrences) \in Nat
      /\ DOMAIN occurrences = 1 .. Len(occurrences)
  BY CommitEnds, SweepTypes DEF Inv
<1>1. ASSUME NEW i \in Incidents, i # Site(r)
      PROVE  /\ \A x \in CurrentLinks(i)' : HasLinkRow(i, x)'
             /\ \A s \in Issues : Evidence(i, s)'
  <2>1. /\ updates'[i] = updates[i] /\ pins'[i] = pins[i]
        /\ CurrentLinks(i)' = CurrentLinks(i) /\ State(i)' = State(i)
        /\ \A x : AddedRows(i, x)' = AddedRows(i, x) /\ LinkedBy(i, x)' = LinkedBy(i, x)
    BY <1>1, Elsewhere
  <2>2. ASSUME NEW x \in CurrentLinks(i)' PROVE HasLinkRow(i, x)'
    <3>1. HasLinkRow(i, x) /\ AddedRows(i, x)' = AddedRows(i, x)
      BY <2>1, <2>2 DEF Inv, LinkRows
    <3> QED BY <3>1 DEF HasLinkRow
  <2>3. ASSUME NEW s \in Issues PROVE Evidence(i, s)'
    <3>1. Evidence(i, s)
      BY DEF Inv, Evident
    <3>2. /\ \A rows : Best(RowsOf(s, rows))' = Best(RowsOf(s, rows))
          /\ \A n : Since(s, n)' = Since(s, n)
      BY <1>0 DEF Best, RowsOf, Since, Later
    <3> QED BY <2>1, <3>1, <3>2 DEF Evidence
  <2> QED BY <2>2, <2>3
<1>2. ASSUME NEW i \in Incidents, i = Site(r)
      PROVE  /\ \A x \in CurrentLinks(i)' : HasLinkRow(i, x)'
             /\ \A s \in Issues : Evidence(i, s)'
  <2>1. ASSUME NEW s \in Issues, s \in CurrentLinks(i)', State(i)' # "resolved",
               NEW link, link = updates'[i][LinkedBy(i, s)']
        PROVE  Best(RowsOf(s, link.rows)) \subseteq pins'[i] /\ Since(s, link.recorded) \subseteq pins'[i]
    <3>0. PICK n : n = Size(r)
      OBVIOUS
    <3>1. /\ n \in Nat /\ n = Len(updates[i]) /\ n = requests[r].expected
          /\ pins'[i] = pins[i] \cup NewPins(requests[r], Planned(r))
          /\ requests[r].old = CurrentLinks(i) /\ CurrentLinks(i)' = Planned(r)
          /\ updates'[i][n + 1] = Entry(r)
          /\ \A m \in 1 .. n : updates'[i][m] = updates[i][m]
      BY <1>2, <3>0, LandingFacts, Landed DEF Size
    <3>2. CASE s \notin CurrentLinks(i)
      <4>1. LinkedBy(i, s)' = n + 1
        BY <1>2, <2>1, <3>0, <3>2, LandRows
      <4>2. link.recorded = Len(occurrences) /\ link.rows = KeptRows
        BY <2>1, <3>1, <4>1 DEF Entry
      <4>3. Since(s, link.recorded) = {}
        BY <1>0, <4>2 DEF Since
      <4>4. Best(RowsOf(s, KeptRows)) \subseteq NewPins(requests[r], Planned(r))
        BY <2>1, <3>1, <3>2, BestPinned
      <4> QED BY <3>1, <4>2, <4>3, <4>4
    <3>3. CASE s \in CurrentLinks(i)
      <4>1. LinkedBy(i, s)' = LinkedBy(i, s) /\ LinkedBy(i, s) \in 1 .. n
        BY <1>2, <2>1, <3>0, <3>3, LandRows
      <4>2. n > 0 /\ updates[i] # <<>>
        <5>1. n > 0
          BY <3>1, <4>1
        <5>2. updates[i] = <<>> <=> Len(updates[i]) = 0
          BY UpdateFacts DEF Inv
        <5> QED BY <3>1, <5>1, <5>2
      <4>3. State(i) # "resolved"
        BY <1>2, <3>1, <4>2 DEF Lands, TriggersHold, Found, State, Site
      <4>4. link = updates[i][LinkedBy(i, s)]
        BY <2>1, <3>1, <4>1
      <4>5. Best(RowsOf(s, link.rows)) \subseteq pins[i] /\ Since(s, link.recorded) \subseteq pins[i]
        BY <3>3, <4>2, <4>3, <4>4 DEF Inv, Evident, Evidence
      <4> QED BY <3>1, <4>5
    <3> QED BY <3>2, <3>3
  <2>2. ASSUME NEW x \in CurrentLinks(i)' PROVE HasLinkRow(i, x)'
    BY <1>2, <2>2, LandRows
  <2>3. /\ \A s, rows : Best(RowsOf(s, rows))' = Best(RowsOf(s, rows))
        /\ \A s, n : Since(s, n)' = Since(s, n)
    BY <1>0 DEF Best, RowsOf, Since, Later
  <2> QED BY <2>1, <2>2, <2>3 DEF Evidence
<1> QED BY <1>1, <1>2 DEF LinkRows, Evident

-----------------------------------------------------------------------------
LEMMA InitialInv ==
  ASSUME Init PROVE Inv
<1>1. TypeOK
  BY LimitAssumption, EmptySeq, IdleTypes
     DEF Init, TypeOK, NoSweep, Request
<1>2. Plans
  BY IdleTypes DEF Init, Plans, Plan, PlanAt, Working, Follow
<1>3. PinsKept /\ Evident
  BY DEF Init, PinsKept, Evident, Evidence
<1>4. LinkRows
  BY <1>1, UpdateFacts, LinksAreLinked, LinkedToNothing DEF Init, LinkRows
<1> QED BY <1>1, <1>2, <1>3, <1>4 DEF Inv

\* The inductive invariant.
THEOREM Invariant == IncidentSpec => []Inv
<1>1. Init => Inv
  BY InitialInv
<1>2. Inv /\ [Next]_vars => Inv'
  <2> SUFFICES ASSUME Inv, [Next]_vars PROVE Inv'
    OBVIOUS
  <2>1. Plans'
    BY PlansStep
  <2>2. ASSUME NEW r \in Requests, Prepares(r)
        PROVE  TypeOK' /\ PinsKept' /\ LinkRows' /\ Evident'
    <3>1. UNCHANGED <<updates, relations, pins, occurrences, sweep, clock>>
      BY <2>2, PrepareKeeps
    <3>2. requests' \in [Requests -> Request]
      BY <2>2, PrepareStep DEF Prepared
    <3>3. Update' = Update /\ Occurrence' = Occurrence
      BY <3>1 DEF Update, Occurrence
    <3>4. TypeOK'
      BY <3>1, <3>2, <3>3, Tables, SweepTypes, TypesPrimed DEF Inv
    <3>5. PinsKept'
      BY <3>1 DEF Inv, PinsKept, KeptRows
    <3> QED BY <3>1, <3>4, <3>5, LinkRowsStay, EvidenceStays DEF Inv, Lasting
  <2>3. CASE Elsewise
    <3>1. TypeOK' /\ PinsKept'
      BY <2>3, RecordStep, PurgeStep, OtherStep DEF Elsewise
    <3> QED BY <2>1, <2>3, <3>1, ElsewiseKeeps, ElsewiseEvidence, LinkRowsStay DEF Inv
  <2>4. ASSUME NEW r \in Requests, Commit(r), Lands(r)
        PROVE  TypeOK' /\ PinsKept' /\ LinkRows' /\ Evident'
    BY <2>4, LandTypes, LandEvidence
  <2>5. ASSUME NEW r \in Requests, Commit(r), ~Lands(r)
        PROVE  TypeOK' /\ PinsKept' /\ LinkRows' /\ Evident'
    <3>1. UNCHANGED <<updates, relations, pins, occurrences, sweep, clock>>
      BY <2>5, NotLanding
    <3>2. requests' \in [Requests -> Request]
      BY <2>5, CommitEnds
    <3>3. Update' = Update /\ Occurrence' = Occurrence
      BY <3>1 DEF Update, Occurrence
    <3>4. TypeOK'
      BY <3>1, <3>2, <3>3, Tables, SweepTypes, TypesPrimed DEF Inv
    <3>5. PinsKept'
      BY <3>1 DEF Inv, PinsKept, KeptRows
    <3> QED BY <3>1, <3>4, <3>5, LinkRowsStay, EvidenceStays DEF Inv, Lasting
  <2> QED BY <2>1, <2>2, <2>3, <2>4, <2>5, StepCases DEF Inv
<1> QED BY <1>1, <1>2, PTL DEF IncidentSpec

\* What an open incident needs of the issues it is linked to (the newest rows of
\* the time of the link, and all since) is pinned, and what is pinned is never
\* purged.
THEOREM EvidenceHolds == IncidentSpec => []OpenEvidenceKept
<1>1. Inv => OpenEvidenceKept
  <2>1. ASSUME NEW i \in Incidents, NEW s \in Issues
        PROVE  NeededEvidence(i, s) =
                 Best(RowsOf(s, updates[i][LinkedBy(i, s)].rows))
                   \cup Since(s, updates[i][LinkedBy(i, s)].recorded)
    BY DEF NeededEvidence, Best, RowsOf, Since
  <2> QED BY <2>1 DEF OpenEvidenceKept, Inv, PinsKept, Evident, Evidence
<1> QED BY <1>1, Invariant, PTL
-----------------------------------------------------------------------------
(* Refinement: a batch that lands appends an entry, nothing else does. *)

Entries == [state : Ledger!States, links : SUBSET Items]

LEMMA Shown ==
  ASSUME NEW i \in Incidents
  PROVE  /\ History[i] = [n \in DOMAIN updates[i] |-> EntryAt(i, n)]
         /\ History'[i] = [n \in DOMAIN updates'[i] |-> EntryAt(i, n)']
         /\ DOMAIN History = Incidents /\ DOMAIN History' = Incidents
BY DEF History, Incidents, Ledger!Incidents

LEMMA EntryTypes ==
  ASSUME TypeOK, NEW i \in Incidents
  PROVE  /\ History[i] \in Seq(Entries) /\ Len(History[i]) = Len(updates[i])
         /\ \A n \in 1 .. Len(updates[i]) : History[i][n] = EntryAt(i, n)
<1> SUFFICES ASSUME NEW k, k = Len(updates[i]), k \in Nat
             PROVE  /\ History[i] \in Seq(Entries) /\ Len(History[i]) = k
                    /\ \A n \in 1 .. k : History[i][n] = EntryAt(i, n)
  BY UpdateFacts
<1>1. History[i] = [n \in 1 .. k |-> EntryAt(i, n)]
  BY Shown, UpdateFacts
<1>2. ASSUME NEW n \in 1 .. k PROVE EntryAt(i, n) \in Entries
  <2>1. updates[i][n] \in Update
    BY <1>2, UpdateFacts, ElementOfSeq
  <2>2. LinksAt(i, n) \subseteq Items
    BY LinksAreLinked DEF Linked
  <2> QED BY <2>1, <2>2 DEF EntryAt, Entries, Update
<1>3. History[i] \in Seq(Entries)
  BY <1>1, <1>2, SeqDef
<1> QED BY <1>1, <1>3, LenProperties

LEMMA LandHistory ==
  ASSUME Inv, Inv', NEW r \in Requests, Commit(r), Lands(r), NEW i, i = Site(r),
         NEW new, new = [state |-> Target(requests[r]), links |-> Planned(r)]
  PROVE  History' = [History EXCEPT ![i] = Append(History[i], new)]
<1> SUFFICES ASSUME NEW n, n = Size(r)
             PROVE  History' = [History EXCEPT ![i] = Append(History[i], new)]
  OBVIOUS
<1>1. /\ i \in Incidents /\ n \in Nat /\ n = Len(updates[i])
      /\ Target(requests[r]) \in Ledger!States /\ Planned(r) \in SUBSET Items
  BY LandingFacts DEF Size
<1>2. /\ History[i] \in Seq(Entries) /\ Len(History[i]) = n
      /\ \A m \in 1 .. n : History[i][m] = EntryAt(i, m)
  BY <1>1, EntryTypes DEF Inv
<1>3. new \in Entries
  BY <1>1 DEF Entries
<1>4. Len(updates'[i]) = n + 1 /\ DOMAIN updates'[i] = 1 .. n + 1
  <2>1. Len(updates'[i]) = n + 1 /\ updates'[i] \in Seq(Update)
    BY Landed
  <2> QED BY <2>1, LenProperties
<1>5. EntryAt(i, n + 1)' = new
  <2>1. updates'[i][n + 1] = Entry(r) /\ LinksAt(i, n + 1)' = Planned(r)
    BY Landed
  <2> QED BY <2>1 DEF EntryAt, Entry
<1>6. ASSUME NEW m \in 1 .. n PROVE EntryAt(i, m)' = EntryAt(i, m)
  <2>1. updates'[i][m] = updates[i][m]
    BY Landed
  <2>2. LinksAt(i, m)' = LinksAt(i, m)
    <3>1. m \in 0 .. n
      BY <1>1
    <3> QED BY <3>1, Landed
  <2> QED BY <2>1, <2>2 DEF EntryAt
<1>7. History'[i] = [m \in 1 .. n + 1 |-> EntryAt(i, m)']
  BY <1>1, <1>4, Shown
<1>8. ASSUME NEW m \in 1 .. n + 1 PROVE EntryAt(i, m)' = Append(History[i], new)[m]
  BY <1>1, <1>2, <1>3, <1>5, <1>6, AppendProperties
<1>9. Append(History[i], new) = [m \in 1 .. n + 1 |-> Append(History[i], new)[m]]
  <2>1. Append(History[i], new) \in Seq(Entries) /\ Len(Append(History[i], new)) = n + 1
    BY <1>2, <1>3, AppendProperties
  <2> QED BY <2>1, LenProperties, SeqDef
<1>10. History'[i] = Append(History[i], new)
  BY <1>7, <1>8, <1>9
<1>11. ASSUME NEW j \in Incidents, j # i PROVE History'[j] = History[j]
  <2>1. updates'[j] = updates[j] /\ \A m : LinksAt(j, m)' = LinksAt(j, m)
    BY <1>11, Elsewhere
  <2>2. ASSUME NEW m PROVE EntryAt(j, m)' = EntryAt(j, m)
    BY <2>1 DEF EntryAt
  <2>3. /\ History[j] = [m \in DOMAIN updates[j] |-> EntryAt(j, m)]
        /\ History'[j] = [m \in DOMAIN updates'[j] |-> EntryAt(j, m)']
    BY Shown
  <2> QED BY <2>1, <2>2, <2>3
<1>12. History' = [j \in Incidents |-> History'[j]] /\ History = [j \in Incidents |-> History[j]]
  BY DEF History, Incidents, Ledger!Incidents
<1> QED BY <1>1, <1>10, <1>11, <1>12

LEMMA LandRefines ==
  ASSUME Inv, Inv', NEW r \in Requests, Commit(r), Lands(r)
  PROVE  Ledger!Next
<1> SUFFICES ASSUME NEW i, i = Site(r), NEW n, n = Size(r), NEW c, c = requests[r].command,
                    NEW new, new = [state |-> Target(requests[r]), links |-> Planned(r)]
             PROVE  Ledger!Next
  OBVIOUS
<1>1. /\ i \in Incidents /\ n \in Nat /\ n = Len(updates[i]) /\ c \in Commands
      /\ n = requests[r].expected /\ requests[r].old = CurrentLinks(i)
      /\ CurrentLinks(i) = LinksAt(i, n)
  BY LandingFacts, Landed DEF Size, CurrentLinks
<1>2. /\ History[i] \in Seq(Entries) /\ Len(History[i]) = n
      /\ \A m \in 1 .. n : History[i][m] = EntryAt(i, m)
  BY <1>1, EntryTypes DEF Inv
<1>3. History' = [History EXCEPT ![i] = Append(History[i], new)]
  BY LandHistory
<1>4. Planned(r) = Ledger!Wanted(c, CurrentLinks(i))
  BY <1>1 DEF Planned, NewLinks
<1>5. requests[r].at = "planned" /\ TriggersHold(requests[r], Planned(r))
  BY DEF Lands, Planned
<1>6. CASE n = 0
  <2>1. History[i] = <<>> /\ Append(History[i], new) = <<new>>
    <3>1. History[i] = <<>>
      BY <1>2, <1>6, EmptySeq
    <3> QED BY <3>1
  <2>2. CurrentLinks(i) = {}
    BY <1>1, <1>6, LinksAreLinked, UpdateFacts, LinkedToNothing DEF Inv
  <2>3. Target(requests[r]) = "investigating"
    BY <1>1, <1>5, <1>6 DEF TriggersHold
  <2>4. c.state = None
    BY <1>1, <1>5, <1>6 DEF Inv, Plans, Plan, PlanAt, Working
  <2>5. new = [state |-> "investigating", links |-> Ledger!Wanted(c, {})]
    BY <1>4, <2>2, <2>3
  <2>6. Ledger!Open(i, c)
    BY <1>3, <2>1, <2>4, <2>5 DEF Ledger!Open
  <2> QED BY <1>1, <2>6 DEF Ledger!Next, Incidents
<1>7. CASE n > 0
  <2>1. PICK last : last = History[i][Len(History[i])]
    OBVIOUS
  <2>2. last = EntryAt(i, n) /\ History[i] # <<>>
    BY <1>1, <1>2, <1>7, <2>1
  <2>3. last.links = CurrentLinks(i) /\ last.state = Found(requests[r])
    BY <1>1, <1>7, <2>2 DEF EntryAt, Found, Site
  <2>4. /\ last.state # "resolved"
        /\ Target(requests[r]) \in {last.state} \cup Ledger!Moves[last.state]
    BY <1>1, <1>5, <1>7, <2>3 DEF TriggersHold
  <2>5. Target(requests[r]) = Ledger!Kept(c.state, last.state)
    BY <2>3 DEF Target
  <2>6. new = [state |-> Ledger!Kept(c.state, last.state), links |-> Ledger!Wanted(c, last.links)]
    BY <1>4, <2>3, <2>5
  <2>7. Ledger!Revise(i, c)
    BY <1>3, <2>1, <2>2, <2>4, <2>5, <2>6 DEF Ledger!Revise
  <2> QED BY <1>1, <2>7 DEF Ledger!Next, Incidents
<1> QED BY <1>1, <1>6, <1>7

\* Every update of an incident is one command applied to the update before it.
THEOREM Refinement == IncidentSpec => ImplementsLedger
<1>1. Init => Ledger!Init
  <2> SUFFICES ASSUME Init PROVE Ledger!Init
    OBVIOUS
  <2>1. ASSUME NEW i \in Incidents PROVE History[i] = <<>>
    <3>1. Len(updates[i]) = 0
      BY DEF Init
    <3>2. History[i] \in Seq(Entries) /\ Len(History[i]) = 0
      BY <3>1, InitialInv, EntryTypes DEF Inv
    <3> QED BY <3>2, EmptySeq
  <2>2. History = [i \in Incidents |-> History[i]]
    BY DEF History, Incidents, Ledger!Incidents
  <2> QED BY <2>1, <2>2 DEF Ledger!Init, Incidents
<1>2. Inv /\ Inv' /\ [Next]_vars => [Ledger!Next]_History
  <2> SUFFICES ASSUME Inv, Inv', [Next]_vars PROVE [Ledger!Next]_History
    OBVIOUS
  <2>1. ASSUME UNCHANGED <<updates, relations>> PROVE UNCHANGED History
    <3>1. ASSUME NEW i \in Incidents PROVE History'[i] = History[i]
      <4>1. ASSUME NEW n PROVE EntryAt(i, n)' = EntryAt(i, n)
        BY <2>1, UnchangedLinks DEF EntryAt
      <4>2. /\ History[i] = [n \in DOMAIN updates[i] |-> EntryAt(i, n)]
            /\ History'[i] = [n \in DOMAIN updates'[i] |-> EntryAt(i, n)']
        BY Shown
      <4> QED BY <2>1, <4>1, <4>2
    <3>2. /\ History' = [j \in Incidents |-> History'[j]]
          /\ History = [j \in Incidents |-> History[j]]
      BY DEF History, Incidents, Ledger!Incidents
    <3> QED BY <3>1, <3>2
  <2>2. ASSUME NEW r \in Requests, Commit(r), Lands(r) PROVE Ledger!Next
    BY <2>2, LandRefines
  <2> QED BY <2>1, <2>2, StepCases, PrepareKeeps, ElsewiseKeeps, NotLanding
<1> QED BY <1>1, <1>2, Invariant, PTL DEF IncidentSpec, ImplementsLedger, Ledger!LedgerSpec

-----------------------------------------------------------------------------
(***************************************************************************)
(* PublicPages.                                                            *)
(***************************************************************************)

\* A finite set in the order of a strict order B on it, by the number of
\* elements that come before.
Foregoing(F, B, x) == {y \in F : <<y, x>> \in B}
Place(F, B, x) == Cardinality(Foregoing(F, B, x))

StrictOrder(F, B) ==
  /\ \A x \in F : <<x, x>> \notin B
  /\ \A x, y, z \in F : <<x, y>> \in B /\ <<y, z>> \in B => <<x, z>> \in B
  /\ \A x, y \in F : x # y => <<x, y>> \in B \/ <<y, x>> \in B

LEMMA PlaceIs ==
  ASSUME NEW F, IsFiniteSet(F), NEW B, StrictOrder(F, B)
  PROVE  /\ \A x \in F : Place(F, B, x) \in 0 .. Cardinality(F) - 1
         /\ \A x, y \in F : <<x, y>> \in B <=> Place(F, B, x) < Place(F, B, y)
         /\ \A k \in 1 .. Cardinality(F) : \E x \in F : Place(F, B, x) = k - 1
<1> DEFINE N == Cardinality(F)
<1>1. N \in Nat
  BY FS_CardinalityType
<1>2. ASSUME NEW x \in F
      PROVE  Place(F, B, x) \in Nat /\ Place(F, B, x) <= N - 1 /\ IsFiniteSet(Foregoing(F, B, x))
  <2>1. Foregoing(F, B, x) \subseteq F \ {x}
    BY DEF Foregoing, StrictOrder
  <2>2. IsFiniteSet(F \ {x}) /\ Cardinality(F \ {x}) = N - 1
    BY FS_RemoveElement
  <2> HIDE DEF N
  <2>3. IsFiniteSet(Foregoing(F, B, x)) /\ Cardinality(Foregoing(F, B, x)) <= N - 1
    BY <2>1, <2>2, FS_Subset
  <2>4. Cardinality(Foregoing(F, B, x)) \in Nat
    BY <2>3, FS_CardinalityType
  <2> QED BY <2>3, <2>4 DEF Place
<1>3. ASSUME NEW x \in F, NEW y \in F, <<x, y>> \in B
      PROVE  Place(F, B, x) + 1 <= Place(F, B, y)
  <2>1. Foregoing(F, B, x) \cup {x} \subseteq Foregoing(F, B, y)
    BY <1>3 DEF Foregoing, StrictOrder
  <2>2. x \notin Foregoing(F, B, x)
    BY DEF Foregoing, StrictOrder
  <2>3. Cardinality(Foregoing(F, B, x) \cup {x}) = Cardinality(Foregoing(F, B, x)) + 1
    BY <1>2, <2>2, FS_AddElement
  <2>4. Cardinality(Foregoing(F, B, x) \cup {x}) <= Cardinality(Foregoing(F, B, y))
    BY <1>2, <2>1, FS_Subset
  <2> QED BY <2>3, <2>4 DEF Place
<1>4. ASSUME NEW x \in F, NEW y \in F
      PROVE  <<x, y>> \in B <=> Place(F, B, x) < Place(F, B, y)
  <2>1. PICK i \in Nat : i = Place(F, B, x)
    BY <1>2
  <2>2. PICK j \in Nat : j = Place(F, B, y)
    BY <1>2
  <2>3. /\ <<x, y>> \in B => i + 1 <= j
        /\ <<y, x>> \in B => j + 1 <= i
        /\ x = y => i = j
    BY <1>3, <2>1, <2>2
  <2>4. x = y \/ <<x, y>> \in B \/ <<y, x>> \in B
    BY DEF StrictOrder
  <2>5. <<x, y>> \in B <=> i < j
    BY <2>3, <2>4
  <2> QED BY <2>1, <2>2, <2>5
<1>5. \A x, y \in F : Place(F, B, x) = Place(F, B, y) => x = y
  <2> SUFFICES ASSUME NEW x \in F, NEW y \in F, Place(F, B, x) = Place(F, B, y), x # y PROVE FALSE
    OBVIOUS
  <2>1. <<x, y>> \in B \/ <<y, x>> \in B
    BY DEF StrictOrder
  <2>2. Place(F, B, x) < Place(F, B, y) \/ Place(F, B, y) < Place(F, B, x)
    BY <1>4, <2>1
  <2> QED BY <1>2, <2>2
<1>6. \A k \in 1 .. N : \E x \in F : Place(F, B, x) = k - 1
  <2> DEFINE rank == [x \in F |-> Place(F, B, x)]
             T == 0 .. N - 1
  <2>1. rank \in [F -> T]
    BY <1>1, <1>2
  <2>2. rank \in Injection(F, T)
    BY <1>5, <2>1 DEF Injection, IsInjective
  <2>3. IsFiniteSet(T) /\ Cardinality(T) = N
    <3>1. 0 \in Int /\ N - 1 \in Int
      BY <1>1
    <3> HIDE DEF N
    <3>2. Cardinality(0 .. N - 1) = IF 0 > N - 1 THEN 0 ELSE (N - 1) - 0 + 1
      BY <3>1, FS_Interval
    <3>3. IsFiniteSet(0 .. N - 1)
      BY <3>1, FS_Interval
    <3> QED BY <1>1, <3>2, <3>3
  <2> HIDE DEF T
  <2>4. rank \in Surjection(F, T)
    <3> HIDE DEF rank
    <3> QED BY <2>2, <2>3, FS_Injection
  <2>5. \A t \in T : \E x \in F : rank[x] = t
    BY <2>4 DEF Surjection
  <2>6. \A k \in 1 .. N : k - 1 \in T
    BY <1>1 DEF T
  <2> QED BY <2>5, <2>6
<1> HIDE DEF N
<1>7. \A x \in F : Place(F, B, x) \in 0 .. N - 1
  BY <1>1, <1>2
<1> QED BY <1>4, <1>6, <1>7 DEF N

Ranked(F, B, all) ==
  /\ all \in Seq(F) /\ Len(all) \in Nat
  /\ \A i, j \in 1 .. Len(all) : i < j <=> <<all[i], all[j]>> \in B
  /\ \A x \in F : \E i \in 1 .. Len(all) : all[i] = x

LEMMA RankedIs ==
  ASSUME NEW F, IsFiniteSet(F), NEW B, StrictOrder(F, B), NEW all,
         all = [k \in 1 .. Cardinality(F) |-> CHOOSE x \in F : Place(F, B, x) = k - 1]
  PROVE  Ranked(F, B, all)
<1>1. PICK N : N = Cardinality(F)
  OBVIOUS
<1>2. N \in Nat
  BY <1>1, FS_CardinalityType
<1>3. \A k \in 1 .. N : all[k] \in F /\ Place(F, B, all[k]) = k - 1
  BY <1>1, PlaceIs
<1>4. all \in Seq(F) /\ Len(all) = N
  <2>1. all \in [1 .. N -> F]
    BY <1>1, <1>3
  <2>2. all \in Seq(F)
    BY <1>2, <2>1, SeqDef
  <2>3. DOMAIN all = 1 .. N /\ DOMAIN all = 1 .. Len(all) /\ Len(all) \in Nat
    BY <2>1, <2>2, LenProperties
  <2>4. PICK m \in Nat : m = Len(all)
    BY <2>3
  <2>5. PICK n \in Nat : n = N
    BY <1>2
  <2>6. 1 .. n = 1 .. m
    BY <2>3, <2>4, <2>5
  <2>7. (n # 0 => n \in 1 .. m) /\ (m # 0 => m \in 1 .. n)
    <3>1. (n # 0 => n \in 1 .. n) /\ (m # 0 => m \in 1 .. m)
      OBVIOUS
    <3> QED BY <2>6, <3>1, Zenon
  <2>8. n = m
    BY <2>7
  <2> QED BY <2>2, <2>4, <2>5, <2>8
<1>5. ASSUME NEW i \in 1 .. N, NEW j \in 1 .. N PROVE i < j <=> <<all[i], all[j]>> \in B
  <2>1. i < j <=> i - 1 < j - 1
    BY <1>2
  <2> QED BY <1>3, <2>1, PlaceIs
<1>6. ASSUME NEW x \in F PROVE \E i \in 1 .. N : all[i] = x
  <2>1. PICK p \in 0 .. N - 1 : p = Place(F, B, x)
    BY <1>1, PlaceIs
  <2>2. p + 1 \in 1 .. N /\ (p + 1) - 1 = p
    BY <1>2
  <2>3. PICK y \in F : y = all[p + 1] /\ Place(F, B, y) = p
    BY <1>3, <2>2
  <2>4. x = y
    <3>1. ~(<<x, y>> \in B) /\ ~(<<y, x>> \in B)
      BY <2>1, <2>3, PlaceIs
    <3> QED BY <3>1 DEF StrictOrder
  <2> QED BY <2>2, <2>3, <2>4
<1> QED BY <1>2, <1>4, <1>5, <1>6 DEF Ranked

-----------------------------------------------------------------------------
KeyPairs == Nat \X Nat

LEMMA PrecedesIs ==
  ASSUME NEW a \in KeyPairs, NEW b \in KeyPairs, NEW c \in KeyPairs
  PROVE  /\ ~Pages!Precedes(a, a)
         /\ Pages!Precedes(a, b) /\ Pages!Precedes(b, c) => Pages!Precedes(a, c)
         /\ a # b => Pages!Precedes(a, b) \/ Pages!Precedes(b, a)
         /\ Pages!Precedes(a, b) => ~Pages!Precedes(b, a)
<1>1. PICK a1 \in Nat, a2 \in Nat : a = <<a1, a2>>
  BY DEF KeyPairs
<1>2. PICK b1 \in Nat, b2 \in Nat : b = <<b1, b2>>
  BY DEF KeyPairs
<1>3. PICK c1 \in Nat, c2 \in Nat : c = <<c1, c2>>
  BY DEF KeyPairs
<1>4. /\ ~Pages!Less(a, a)
      /\ Pages!Less(a, b) /\ Pages!Less(b, c) => Pages!Less(a, c)
      /\ Pages!Less(c, b) /\ Pages!Less(b, a) => Pages!Less(c, a)
      /\ a # b => Pages!Less(a, b) \/ Pages!Less(b, a)
      /\ Pages!Less(a, b) => ~Pages!Less(b, a)
  BY <1>1, <1>2, <1>3 DEF Pages!Less
<1> QED BY <1>4 DEF Pages!Precedes

LEMMA KeyIs ==
  ASSUME NEW x \in Ids, NEW r \in Pages!PublicRows
  PROVE  Pages!Key(x, r) \in KeyPairs
BY PageAssumption DEF Pages!Key, Pages!PublicRows, KeyPairs

-----------------------------------------------------------------------------
\* How often a number stands in a list of them.
Never(s, x) == \A k \in 1 .. Len(s) : s[k] # x
Once(s, x) == \E k \in 1 .. Len(s) : s[k] = x /\ \A j \in 1 .. Len(s) : s[j] = x => j = k

\* A list after another shows what either shows.
LEMMA JoinedIs ==
  ASSUME NEW S, NEW s \in Seq(S), NEW t \in Seq(S), NEW x, NEW u, u = s \o t
  PROVE  /\ u \in Seq(S)
         /\ Never(s, x) /\ Never(t, x) => Never(u, x)
         /\ Once(s, x) /\ Never(t, x) => Once(u, x)
         /\ Never(s, x) /\ Once(t, x) => Once(u, x)
<1>1. PICK m \in Nat : m = Len(s)
  BY LenProperties
<1>2. PICK n \in Nat : n = Len(t)
  BY LenProperties
<1>3. u \in Seq(S) /\ Len(u) = m + n
  BY <1>1, <1>2, ConcatProperties
<1>4. \A k \in 1 .. m + n : u[k] = IF k <= m THEN s[k] ELSE t[k - m]
  BY <1>1, <1>2, ConcatProperties
<1>5. \A k \in 1 .. m + n : k \notin 1 .. m => k - m \in 1 .. n
  OBVIOUS
<1>6. \A k \in 1 .. m : k \in 1 .. m + n /\ u[k] = s[k]
  <2>1. \A k \in 1 .. m : k \in 1 .. m + n /\ k <= m
    OBVIOUS
  <2> QED BY <1>4, <2>1, Zenon
<1>7. \A k \in 1 .. n : k + m \in 1 .. m + n /\ u[k + m] = t[k]
  <2> SUFFICES ASSUME NEW k \in 1 .. n PROVE k + m \in 1 .. m + n /\ u[k + m] = t[k]
    OBVIOUS
  <2>1. k + m \in 1 .. m + n /\ ~(k + m <= m) /\ (k + m) - m = k
    OBVIOUS
  <2> QED BY <1>4, <2>1
<1>8. \A k \in 1 .. m + n : \/ k \in 1 .. m /\ u[k] = s[k]
                            \/ k - m \in 1 .. n /\ (k - m) + m = k /\ u[k] = t[k - m]
  <2>1. \A k \in 1 .. m + n : (k \in 1 .. m <=> k <= m) /\ (k - m) + m = k
    OBVIOUS
  <2> QED BY <1>4, <1>5, <2>1, Zenon
<1>9. Never(s, x) /\ Never(t, x) => Never(u, x)
  BY <1>1, <1>2, <1>3, <1>8 DEF Never
<1>10. Once(s, x) /\ Never(t, x) => Once(u, x)
  <2> SUFFICES ASSUME Once(s, x), Never(t, x) PROVE Once(u, x)
    OBVIOUS
  <2>1. PICK k \in 1 .. m : s[k] = x /\ \A j \in 1 .. m : s[j] = x => j = k
    BY <1>1 DEF Once
  <2>2. \A j \in 1 .. m + n : u[j] = x => j = k
    BY <1>2, <1>8, <2>1 DEF Never
  <2> QED BY <1>3, <1>6, <2>1, <2>2 DEF Once
<1>11. Never(s, x) /\ Once(t, x) => Once(u, x)
  <2> SUFFICES ASSUME Never(s, x), Once(t, x) PROVE Once(u, x)
    OBVIOUS
  <2>1. PICK k \in 1 .. n : t[k] = x /\ \A j \in 1 .. n : t[j] = x => j = k
    BY <1>2 DEF Once
  <2>2. \A j \in 1 .. m + n : u[j] = x => j = k + m
    BY <1>1, <1>8, <2>1 DEF Never
  <2>3. k + m \in 1 .. Len(u) /\ u[k + m] = x
    BY <1>3, <1>7, <2>1
  <2> QED BY <1>3, <2>2, <2>3, Zenon DEF Once
<1> QED BY <1>3, <1>9, <1>10, <1>11

\* The first rows of an order, as many as a page holds: each once, and of the
\* others every one after the last of them.
FirstOf(all, limit) == SubSeq(all, 1, IF Len(all) < limit THEN Len(all) ELSE limit)

FirstRows(F, all, limit, part, n, m) ==
  /\ n = Len(all) /\ m <= n
  /\ ~(n > limit) => m = n
  /\ n > limit => m \in 1 .. m /\ m \in 1 .. n
  /\ part \in Seq(F) /\ Len(part) = m
  /\ \A k \in 1 .. m : part[k] = all[k]

LEMMA FirstIs ==
  ASSUME NEW F, NEW all \in Seq(F), NEW limit \in Nat \ {0}, NEW part, part = FirstOf(all, limit)
  PROVE  \E n, m \in Nat : FirstRows(F, all, limit, part, n, m)
<1>1. PICK n \in Nat : n = Len(all)
  BY LenProperties
<1>2. PICK m \in Nat : m = (IF n < limit THEN n ELSE limit)
  OBVIOUS
<1>3. m <= n /\ (~(n > limit) => m = n) /\ (n > limit => m \in 1 .. m /\ m \in 1 .. n)
  BY <1>2
<1>4. PICK u : u = SubSeq(all, 1, m)
  OBVIOUS
<1>5. \A k \in 1 .. m : k \in 1 .. n /\ all[k] \in F
  <2>1. \A k \in 1 .. m : k \in 1 .. n
    BY <1>3
  <2>2. \A k \in 1 .. n : all[k] \in F
    BY <1>1, ElementOfSeq
  <2> QED BY <2>1, <2>2
<1>6. 1 \in Int /\ m \in Int
  OBVIOUS
<1>7. /\ SubSeq(all, 1, m) \in Seq(F)
      /\ Len(SubSeq(all, 1, m)) = IF 1 <= m THEN m - 1 + 1 ELSE 0
      /\ \A k \in 1 .. m - 1 + 1 : SubSeq(all, 1, m)[k] = all[1 + k - 1]
  BY <1>5, <1>6, SubSeqProperties
<1>8. u \in Seq(F) /\ Len(u) = m
  <2>1. (IF 1 <= m THEN m - 1 + 1 ELSE 0) = m
    OBVIOUS
  <2> QED BY <1>4, <1>7, <2>1, Zenon
<1>9. ASSUME NEW k \in 1 .. m PROVE u[k] = all[k]
  <2>1. k \in 1 .. m - 1 + 1 /\ 1 + k - 1 = k
    OBVIOUS
  <2> QED BY <1>4, <1>7, <2>1, Zenon
<1>10. part = u
  BY <1>1, <1>2, <1>4 DEF FirstOf
<1>11. FirstRows(F, all, limit, part, n, m)
  BY <1>1, <1>3, <1>8, <1>9, <1>10 DEF FirstRows
<1> QED BY <1>11

PageSays(F, B, all, limit, part) ==
  /\ part \in Seq(F) /\ Len(part) \in Nat
  /\ ~(Len(all) > limit) => \A x \in F : Once(part, x)
  /\ Len(all) > limit =>
       /\ Len(part) \in 1 .. Len(part)
       /\ \A x \in F : IF <<part[Len(part)], x>> \in B THEN Never(part, x) ELSE Once(part, x)

LEMMA PageIs ==
  ASSUME NEW F, NEW B, StrictOrder(F, B), NEW all, Ranked(F, B, all),
         NEW limit \in Nat \ {0}, NEW part, part = FirstOf(all, limit)
  PROVE  PageSays(F, B, all, limit, part)
<1>1. all \in Seq(F)
  BY DEF Ranked
<1>0. PICK n \in Nat, m \in Nat : FirstRows(F, all, limit, part, n, m)
  BY <1>1, FirstIs
<1>2. /\ n = Len(all) /\ m <= n
      /\ ~(n > limit) => m = n
      /\ n > limit => m \in 1 .. m /\ m \in 1 .. n
      /\ part \in Seq(F) /\ Len(part) = m
      /\ \A k \in 1 .. m : part[k] = all[k]
  BY <1>0 DEF FirstRows
<1>3. /\ \A i, j \in 1 .. n : i < j <=> <<all[i], all[j]>> \in B
      /\ \A x \in F : \E i \in 1 .. n : all[i] = x
  BY <1>2 DEF Ranked
<1>4. \A k \in 1 .. m : k \in 1 .. n
  BY <1>2
<1>6. ASSUME NEW x \in F, NEW i \in 1 .. n, all[i] = x
      PROVE  /\ i <= m => Once(part, x)
             /\ ~(i <= m) => Never(part, x)
  <2>1. ASSUME NEW j \in 1 .. n, all[j] = x PROVE j = i
    <3>1. ~(i < j) /\ ~(j < i)
      <4>1. <<x, x>> \notin B
        BY DEF StrictOrder
      <4> QED BY <1>3, <1>6, <2>1, <4>1, Zenon
    <3> QED BY <3>1
  <2>2. \A j \in 1 .. m : part[j] = x => j = i
    BY <1>2, <1>4, <2>1, Zenon
  <2>3. i <= m => i \in 1 .. m
    OBVIOUS
  <2>4. i <= m => part[i] = x
    BY <1>2, <1>6, <2>3, Zenon
  <2>5. i <= m => Once(part, x)
    BY <1>2, <2>2, <2>3, <2>4, Zenon DEF Once
  <2>6. ~(i <= m) => \A j \in 1 .. m : j # i
    OBVIOUS
  <2>7. ~(i <= m) => Never(part, x)
    BY <1>2, <2>2, <2>6, Zenon DEF Never
  <2> QED BY <2>5, <2>7
<1>7. ~(n > limit) => \A x \in F : Once(part, x)
  <2>1. ~(n > limit) => \A i \in 1 .. n : i <= m
    BY <1>2
  <2> QED BY <1>3, <1>6, <2>1, Zenon
<1>8. ASSUME n > limit, NEW x \in F
      PROVE  IF <<part[m], x>> \in B THEN Never(part, x) ELSE Once(part, x)
  <2>1. PICK i \in 1 .. n : all[i] = x
    BY <1>3
  <2>2. m \in 1 .. n /\ part[m] = all[m]
    BY <1>2, <1>8
  <2>3. m < i <=> <<part[m], x>> \in B
    BY <1>3, <2>1, <2>2, Zenon
  <2>4. m < i <=> ~(i <= m)
    OBVIOUS
  <2> QED BY <1>6, <2>1, <2>3, <2>4, Zenon
<1>9. n > limit => m \in 1 .. m
  BY <1>2
<1>10. part \in Seq(F) /\ Len(part) = m /\ n = Len(all)
  BY <1>2
<1>11. Len(part) \in Nat
  BY <1>10
<1>12. n > limit => \A x \in F : IF <<part[m], x>> \in B THEN Never(part, x) ELSE Once(part, x)
  BY <1>8, Zenon
<1> QED BY <1>7, <1>9, <1>10, <1>11, <1>12, Zenon DEF PageSays

-----------------------------------------------------------------------------
Reports == {"investigating", "identified", "monitoring", "resolved"}

KeyOf(x) == Pages!Key(x, listed[x])

\* The walk is past this row.
Behind(x) == walk.at = "more" => ~Pages!Precedes(walk.cursor.after, KeyOf(x))

PageTypes ==
  /\ day \in 1 .. LastDay /\ list \in {"incidents", "windows"} /\ changes \in 0 .. Changes
  /\ listed \in [Ids -> Pages!PublicRows \cup {Absent}]
  /\ list = "incidents" => \A x \in Ids : listed[x] # Absent =>
       Len(listed[x].updates) \in 1 .. Len(listed[x].updates)

WalkRows == [at : {"idle", "more", "done"}, asked : Pages!Requests \cup {Absent},
             from : Nat \cup Froms, cursor : Pages!Cursors \cup {Absent},
             listed : Seq(Ids), steady : SUBSET Ids]

\* A page asks again what the first one asked, of the same time.
WalkHolds ==
  /\ walk \in WalkRows
  /\ walk.cursor # Absent <=> walk.at = "more"
  /\ walk.at = "more" => walk.cursor.asked = walk.asked /\ walk.cursor.from = walk.from
  /\ walk.at = "more" => (walk.asked.from # Absent => walk.from = walk.asked.from)
  /\ walk.at = "idle" => walk.listed = <<>> /\ walk.steady = {}

\* What stood still is listed once if the walk is past it, and will be.
SteadyHold == \A x \in walk.steady :
  /\ listed[x] # Absent /\ Pages!Matches(walk.asked, walk.from, listed[x])
  /\ IF Behind(x) THEN Once(walk.listed, x) ELSE Never(walk.listed, x)

\* An incident keeps its start, so the walk stays past it.
OnceListed == list = "incidents" => \A x \in Ids :
  \/ Never(walk.listed, x)
  \/ listed[x] # Absent /\ Behind(x) /\ Once(walk.listed, x)

\* A timeline only grows.
DetailHolds ==
  /\ detail \in [at : {"idle", "row", "done"}, id : Ids \cup {0}, state : Reports \cup {Absent},
                 revision : Nat, timeline : Seq(Reports)]
  /\ detail.at = "row" =>
       /\ list = "incidents" /\ detail.id \in Ids /\ listed[detail.id] # Absent
       /\ detail.revision \in 1 .. Len(listed[detail.id].updates)
       /\ listed[detail.id].updates[detail.revision] = detail.state
  /\ detail.at = "done" =>
       /\ detail.revision \in 1 .. Len(detail.timeline)
       /\ detail.timeline[detail.revision] = detail.state

PagesInv == PageTypes /\ WalkHolds /\ SteadyHold /\ OnceListed /\ DetailHolds

LEMMA RowIs ==
  ASSUME NEW r \in Pages!PublicRows
  PROVE  /\ r # Absent /\ r.start \in Nat /\ r.start \in 0 .. LastDay
         /\ r.end \in 0 .. LastDay \cup {Absent} /\ r.updates \in Seq(Reports)
         /\ r = [start |-> r.start, end |-> r.end, updates |-> r.updates]
BY PageAssumption DEF Pages!PublicRows, Reports

LEMMA NeverElsewhere ==
  ASSUME NEW F, NEW t \in Seq(F), NEW x, x \notin F
  PROVE  Never(t, x)
BY ElementOfSeq DEF Never

-----------------------------------------------------------------------------
\* A page of the present rows.
PartSays(F, part, end) ==
  /\ part \in Seq(F) /\ Len(part) \in Nat
  /\ end = "done" => \A x \in F : Once(part, x)
  /\ end = "more" =>
       /\ Len(part) \in 1 .. Len(part) /\ part[Len(part)] \in F
       /\ \A x \in F : IF Pages!Precedes(KeyOf(part[Len(part)]), KeyOf(x))
                         THEN Never(part, x) ELSE Once(part, x)

LEMMA PageOfRows ==
  ASSUME PageTypes, NEW F \in SUBSET Ids, \A x \in F : listed[x] # Absent, NEW n \in Limits, NEW all,
         all = [k \in 1 .. Pages!Cardinality(F) |->
                  CHOOSE x \in F : Pages!Cardinality({y \in F :
                    Pages!Precedes(Pages!Key(y, listed[y]), Pages!Key(x, listed[x]))}) = k - 1],
         NEW part, part = FirstOf(all, n),
         NEW end, end = IF Len(all) > n THEN "more" ELSE "done"
  PROVE  PartSays(F, part, end)
<1> DEFINE B == {p \in F \X F : Pages!Precedes(KeyOf(p[1]), KeyOf(p[2]))}
<1>1. IsFiniteSet(F)
  BY PageAssumption, FS_Subset
<1>2. \A x \in F : KeyOf(x) \in KeyPairs /\ KeyOf(x)[2] = x
  <2> SUFFICES ASSUME NEW x \in F PROVE KeyOf(x) \in KeyPairs /\ KeyOf(x)[2] = x
    OBVIOUS
  <2>1. x \in Ids /\ listed[x] \in Pages!PublicRows
    BY DEF PageTypes
  <2> QED BY <2>1, KeyIs DEF KeyOf, Pages!Key
<1>3. \A x, y \in F : <<x, y>> \in B <=> Pages!Precedes(KeyOf(x), KeyOf(y))
  OBVIOUS
<1> HIDE DEF B
<1>4. StrictOrder(F, B)
  <2>1. \A x \in F : <<x, x>> \notin B
    BY <1>2, <1>3, PrecedesIs
  <2>2. ASSUME NEW x \in F, NEW y \in F, NEW z \in F, <<x, y>> \in B, <<y, z>> \in B
        PROVE  <<x, z>> \in B
    <3>1. KeyOf(x) \in KeyPairs /\ KeyOf(y) \in KeyPairs /\ KeyOf(z) \in KeyPairs
      BY <1>2
    <3>2. Pages!Precedes(KeyOf(x), KeyOf(y)) /\ Pages!Precedes(KeyOf(y), KeyOf(z))
      BY <1>3, <2>2
    <3>3. Pages!Precedes(KeyOf(x), KeyOf(z))
      BY <3>1, <3>2, PrecedesIs
    <3> QED BY <1>3, <3>3
  <2>3. ASSUME NEW x \in F, NEW y \in F, x # y PROVE <<x, y>> \in B \/ <<y, x>> \in B
    <3>1. KeyOf(x) # KeyOf(y)
      BY <1>2, <2>3
    <3>2. Pages!Precedes(KeyOf(x), KeyOf(y)) \/ Pages!Precedes(KeyOf(y), KeyOf(x))
      BY <1>2, <3>1, PrecedesIs
    <3> QED BY <1>3, <3>2
  <2> QED BY <2>1, <2>2, <2>3 DEF StrictOrder
<1>5. Ranked(F, B, all)
  <2>1. \A S : Pages!Cardinality(S) = Cardinality(S)
    BY DEF Pages!Cardinality, Cardinality
  <2>2. ASSUME NEW x \in F
        PROVE  {y \in F : Pages!Precedes(Pages!Key(y, listed[y]), Pages!Key(x, listed[x]))}
                 = Foregoing(F, B, x)
    BY <1>3 DEF Foregoing, KeyOf
  <2>3. ASSUME NEW x \in F
        PROVE  Pages!Cardinality({y \in F :
                 Pages!Precedes(Pages!Key(y, listed[y]), Pages!Key(x, listed[x]))}) = Place(F, B, x)
    BY <2>1, <2>2 DEF Place
  <2> DEFINE kth(k) == CHOOSE x \in F : Pages!Cardinality({y \in F :
                 Pages!Precedes(Pages!Key(y, listed[y]), Pages!Key(x, listed[x]))}) = k - 1
             at(k) == CHOOSE x \in F : Place(F, B, x) = k - 1
  <2>4. all = [k \in 1 .. Pages!Cardinality(F) |-> kth(k)]
    OBVIOUS
  <2>5. \A k : kth(k) = at(k)
    BY <2>3
  <2>6. all = [k \in 1 .. Cardinality(F) |-> at(k)]
    <3> HIDE DEF kth, at
    <3> QED BY <2>1, <2>4, <2>5
  <2>7. all = [k \in 1 .. Cardinality(F) |-> CHOOSE x \in F : Place(F, B, x) = k - 1]
    BY <2>6
  <2> QED BY <1>1, <1>4, <2>7, RankedIs
<1>6. n \in Nat \ {0}
  BY PageAssumption
<1>7. /\ part \in Seq(F) /\ Len(part) \in Nat
      /\ ~(Len(all) > n) => \A x \in F : Once(part, x)
      /\ Len(all) > n =>
           /\ Len(part) \in 1 .. Len(part)
           /\ \A x \in F : IF <<part[Len(part)], x>> \in B THEN Never(part, x) ELSE Once(part, x)
  <2>1. PageSays(F, B, all, n, part)
    BY <1>4, <1>5, <1>6, PageIs
  <2> QED BY <2>1 DEF PageSays
<1>8. Len(all) > n => part[Len(part)] \in F
  BY <1>7, ElementOfSeq
<1>9. end = "done" => \A x \in F : Once(part, x)
  BY <1>7
<1>10. end = "more" =>
         /\ Len(part) \in 1 .. Len(part) /\ part[Len(part)] \in F
         /\ \A x \in F : IF Pages!Precedes(KeyOf(part[Len(part)]), KeyOf(x))
                           THEN Never(part, x) ELSE Once(part, x)
  BY <1>3, <1>7, <1>8
<1> QED BY <1>7, <1>9, <1>10 DEF PartSays

\* What a page adds to a walk: found, the rows it reads from; part, those it
\* shows; end, whether one was left.
Turned(q, from, found, part, end) ==
  walk' = [at     |-> end,
           asked  |-> q,
           from   |-> IF walk.at = "idle" THEN from ELSE walk.from,
           cursor |-> IF end = "more"
                        THEN [asked |-> q, from |-> from, exp |-> day + CursorLife,
                              after |-> KeyOf(part[Len(part)])]
                        ELSE Absent,
           listed |-> walk.listed \o part,
           steady |-> IF walk.at = "idle" THEN found ELSE walk.steady]

\* The rows from which a page is read.
RowsFound(q, from) ==
  {x \in Ids : /\ Pages!Matches(q, from, listed[x])
               /\ walk.cursor # Absent => Pages!Precedes(walk.cursor.after, KeyOf(x))}

Read(q, from, part, end) ==
  Turned(q, from, RowsFound(q, from), part, end) /\ PartSays(RowsFound(q, from), part, end)

LEMMA ReadIs ==
  ASSUME PageTypes, NEW q, NEW n \in Limits, Pages!ReadPage(q, n)
  PROVE  \E part : \E end \in {"more", "done"} : Read(q, Pages!From(q), part, end)
<1>1. PICK from : from = Pages!From(q)
  OBVIOUS
<1>2. PICK F : F = RowsFound(q, from)
  OBVIOUS
<1>3. PICK all : all = [k \in 1 .. Pages!Cardinality(F) |->
                          CHOOSE x \in F : Pages!Cardinality({y \in F :
                            Pages!Precedes(Pages!Key(y, listed[y]), Pages!Key(x, listed[x]))}) = k - 1]
  OBVIOUS
<1>4. PICK part : part = FirstOf(all, n)
  OBVIOUS
<1>5. PICK end : end = IF Len(all) > n THEN "more" ELSE "done"
  OBVIOUS
<1>6. F \in SUBSET Ids /\ \A x \in F : listed[x] # Absent
  BY <1>2 DEF RowsFound, Pages!Matches
<1>7. PartSays(F, part, end)
  BY <1>3, <1>4, <1>5, <1>6, PageOfRows
<1>8. Turned(q, from, F, part, end)
  <2>1. F = {x \in Ids : /\ Pages!Matches(q, from, listed[x])
                         /\ walk.cursor # Absent => Pages!Precedes(walk.cursor.after, Pages!Key(x, listed[x]))}
    BY <1>2 DEF RowsFound, KeyOf
  <2> DEFINE kept == SubSeq(all, 1, IF Len(all) < n THEN Len(all) ELSE n)
             more == Len(all) > n
  <2>2. walk' = [at     |-> IF more THEN "more" ELSE "done",
                 asked  |-> q,
                 from   |-> IF walk.at = "idle" THEN from ELSE walk.from,
                 cursor |-> IF more
                              THEN [asked |-> q, from |-> from, exp |-> day + CursorLife,
                                    after |-> Pages!Key(Pages!Last(kept), listed[Pages!Last(kept)])]
                              ELSE Absent,
                 listed |-> walk.listed \o kept,
                 steady |-> IF walk.at = "idle" THEN F ELSE walk.steady]
    BY <1>1, <1>3, <2>1, SMTT(60) DEF Pages!ReadPage
  <2>3. part = kept
    BY <1>4 DEF FirstOf
  <2>4. Pages!Last(kept) = part[Len(part)]
    BY <2>3 DEF Pages!Last
  <2> HIDE DEF kept
  <2>5. CASE more
    BY <1>5, <2>2, <2>3, <2>4, <2>5 DEF Turned, KeyOf
  <2>6. CASE ~more
    BY <1>5, <2>2, <2>3, <2>6 DEF Turned, KeyOf
  <2> QED BY <2>5, <2>6
<1>9. end \in {"more", "done"}
  BY <1>5
<1>10. Read(q, Pages!From(q), part, end)
  BY <1>1, <1>2, <1>7, <1>8 DEF Read
<1> QED BY <1>9, <1>10

LEMMA ReadUnchanged ==
  ASSUME NEW q, NEW n, Pages!ReadPage(q, n)
  PROVE  UNCHANGED <<day, list, listed, detail, changes>> /\ walk.at \in {"idle", "more"} /\ ~Pages!Refused(q)
BY DEF Pages!ReadPage

LEMMA SeqWider ==
  ASSUME NEW S, NEW F \in SUBSET S, NEW t \in Seq(F)
  PROVE  t \in Seq(S)
<1>1. PICK n \in Nat : t \in [1 .. n -> F]
  BY SeqDef
<1>2. t \in [1 .. n -> S]
  BY <1>1
<1> QED BY <1>2, SeqDef

LEMMA FromIs ==
  ASSUME PageTypes, WalkHolds, NEW q \in Pages!Requests, walk.at \in {"idle", "more"}, ~Pages!Refused(q)
  PROVE  /\ Pages!From(q) \in Nat \cup Froms
         /\ q.from # Absent => Pages!From(q) = q.from
         /\ walk.at = "more" => q = walk.asked /\ Pages!From(q) = walk.from
<1>1. q.from \in Froms \cup {Absent}
  BY DEF Pages!Requests
<1>2. day \in Nat
  BY PageAssumption DEF PageTypes
<1>3. walk.at = "more" => /\ walk.cursor # Absent /\ walk.cursor.asked = q /\ q = walk.asked
                          /\ walk.cursor.from = walk.from
                          /\ q.from # Absent => walk.from = q.from
  BY DEF WalkHolds, Pages!Refused
<1>4. walk.at = "idle" => walk.cursor = Absent
  BY DEF WalkHolds
<1>5. walk.from \in Nat \cup Froms
  BY DEF WalkHolds, WalkRows
<1> QED BY <1>1, <1>2, <1>3, <1>4, <1>5 DEF Pages!From

LEMMA ReadWalk ==
  ASSUME PagesInv, NEW q \in Pages!Requests, NEW n \in Limits, Pages!ReadPage(q, n)
  PROVE  WalkHolds'
<1>1. PICK part : \E end \in {"more", "done"} : Read(q, Pages!From(q), part, end)
  BY ReadIs DEF PagesInv
<1>2. PICK end \in {"more", "done"} : Read(q, Pages!From(q), part, end)
  BY <1>1
<1>3. PICK from : from = Pages!From(q)
  OBVIOUS
<1>4. PICK F : F = RowsFound(q, from)
  OBVIOUS
<1>5. /\ from \in Nat \cup Froms
      /\ q.from # Absent => from = q.from
      /\ walk.at = "more" => q = walk.asked /\ from = walk.from
  BY <1>3, FromIs, ReadUnchanged DEF PagesInv
<1>6. walk.at \in {"idle", "more"} /\ UNCHANGED list
  BY ReadUnchanged
<1>7. Turned(q, from, F, part, end) /\ PartSays(F, part, end)
  BY <1>2, <1>3, <1>4 DEF Read
<1>8. /\ walk'.at = end /\ walk'.asked = q
      /\ walk'.from = (IF walk.at = "idle" THEN from ELSE walk.from)
      /\ walk'.cursor = (IF end = "more"
                            THEN [asked |-> q, from |-> from, exp |-> day + CursorLife,
                                  after |-> KeyOf(part[Len(part)])]
                            ELSE Absent)
      /\ walk'.listed = walk.listed \o part
      /\ walk'.steady = (IF walk.at = "idle" THEN F ELSE walk.steady)
      /\ walk' = [at |-> walk'.at, asked |-> walk'.asked, from |-> walk'.from,
                  cursor |-> walk'.cursor, listed |-> walk'.listed, steady |-> walk'.steady]
  BY <1>7 DEF Turned
<1>9. F \subseteq Ids /\ \A x \in F : listed[x] # Absent
  BY <1>4 DEF RowsFound, Pages!Matches
<1>10. walk'.from \in Nat \cup Froms /\ walk'.from = from
  BY <1>5, <1>6, <1>8
<1>11. end = "more" => walk'.cursor \in Pages!Cursors
  <2> SUFFICES ASSUME end = "more" PROVE walk'.cursor \in Pages!Cursors
    OBVIOUS
  <2>1. part[Len(part)] \in Ids /\ listed[part[Len(part)]] \in Pages!PublicRows
    BY <1>7, <1>9 DEF PartSays, PagesInv, PageTypes
  <2>2. KeyOf(part[Len(part)]) \in Nat \X Nat
    BY <2>1, KeyIs DEF KeyOf, KeyPairs
  <2>3. day + CursorLife \in Nat
    BY PageAssumption DEF PagesInv, PageTypes
  <2>4. q \in [states : Filters \cup {{}}, from : Froms \cup {Absent}, to : Tos \cup {Absent}]
    BY DEF Pages!Requests
  <2> QED BY <1>5, <1>8, <2>2, <2>3, <2>4 DEF Pages!Cursors
<1>12. /\ walk'.cursor \in Pages!Cursors \cup {Absent}
       /\ walk'.cursor # Absent <=> walk'.at = "more"
  BY <1>8, <1>11, PageAssumption
<1>13. walk'.listed \in Seq(Ids)
  <2>1. part \in Seq(Ids)
    <3>1. part \in Seq(F)
      BY <1>7 DEF PartSays
    <3> QED BY <1>9, <3>1, SeqWider
  <2>2. walk.listed \in Seq(Ids)
    BY DEF PagesInv, WalkHolds, WalkRows
  <2> QED BY <1>8, <2>1, <2>2, ConcatProperties
<1>14. walk' \in WalkRows
  <2>1. walk'.steady \subseteq Ids
    BY <1>8, <1>9 DEF PagesInv, WalkHolds, WalkRows
  <2>2. walk'.asked \in (Pages!Requests \cup {Absent})
    BY <1>8
  <2> QED BY <1>8, <1>10, <1>12, <1>13, <2>1, <2>2 DEF WalkRows
<1>15. (Pages!Requests)' = Pages!Requests
  BY <1>6 DEF Pages!Requests
<1>16. walk' \in WalkRows'
  BY <1>14, <1>15 DEF WalkRows
<1>17. end = "more" => /\ walk'.cursor.asked = walk'.asked /\ walk'.cursor.from = walk'.from
                       /\ walk'.asked.from # Absent => walk'.from = walk'.asked.from
  BY <1>5, <1>8, <1>10
<1>18. walk'.at # "idle"
  BY <1>8
<1> QED BY <1>8, <1>12, <1>16, <1>17, <1>18 DEF WalkHolds

LEMMA BehindLasts ==
  ASSUME PageTypes, NEW a \in KeyPairs, NEW b \in KeyPairs, NEW c \in KeyPairs,
         ~Pages!Precedes(a, c), Pages!Precedes(a, b)
  PROVE  ~Pages!Precedes(b, c)
BY PrecedesIs

LEMMA ReadRows ==
  ASSUME PagesInv, NEW q \in Pages!Requests, NEW n \in Limits, Pages!ReadPage(q, n)
  PROVE  SteadyHold' /\ OnceListed'
<1>1. PICK part : \E end \in {"more", "done"} : Read(q, Pages!From(q), part, end)
  BY ReadIs DEF PagesInv
<1>2. PICK end \in {"more", "done"} : Read(q, Pages!From(q), part, end)
  BY <1>1
<1>3. PICK from : from = Pages!From(q)
  OBVIOUS
<1>4. PICK F : F = RowsFound(q, from)
  OBVIOUS
<1>5. walk.at = "more" => q = walk.asked /\ from = walk.from
  BY <1>3, FromIs, ReadUnchanged DEF PagesInv
<1>6. walk.at \in {"idle", "more"} /\ UNCHANGED <<list, listed>>
  BY ReadUnchanged
<1>7. Turned(q, from, F, part, end) /\ PartSays(F, part, end)
  BY <1>2, <1>3, <1>4 DEF Read
<1>8. /\ walk'.at = end /\ walk'.asked = q
      /\ walk'.from = (IF walk.at = "idle" THEN from ELSE walk.from)
      /\ end = "more" => walk'.cursor.after = KeyOf(part[Len(part)])
      /\ walk'.listed = walk.listed \o part
      /\ walk'.steady = (IF walk.at = "idle" THEN F ELSE walk.steady)
  BY <1>7 DEF Turned
<1>9. F \subseteq Ids /\ \A x \in F : listed[x] # Absent
  BY <1>4 DEF RowsFound, Pages!Matches
<1>10. walk'.from = from
  BY <1>5, <1>6, <1>8
<1>11. ASSUME NEW x PROVE KeyOf(x)' = KeyOf(x)
  BY <1>6 DEF KeyOf, Pages!Key
<1>12. ASSUME NEW x
       PROVE  Behind(x)' <=> (end = "more" => ~Pages!Precedes(KeyOf(part[Len(part)]), KeyOf(x)))
  <2>1. \A a, b : Pages!Precedes(a, b)' = Pages!Precedes(a, b)
    BY <1>6 DEF Pages!Precedes, Pages!Less
  <2> QED BY <1>8, <1>11, <2>1 DEF Behind
<1>13. ASSUME NEW x \in F PROVE IF Behind(x)' THEN Once(part, x) ELSE Never(part, x)
  BY <1>7, <1>12 DEF PartSays
<1>14. ASSUME NEW x, x \notin F PROVE Never(part, x)
  BY <1>7, <1>14, NeverElsewhere DEF PartSays
<1>15. ASSUME NEW x PROVE
         /\ Never(walk.listed, x) /\ Never(part, x) => Never(walk'.listed, x)
         /\ Once(walk.listed, x) /\ Never(part, x) => Once(walk'.listed, x)
         /\ Never(walk.listed, x) /\ Once(part, x) => Once(walk'.listed, x)
  <2>1. part \in Seq(Ids)
    <3>1. part \in Seq(F)
      BY <1>7 DEF PartSays
    <3> QED BY <1>9, <3>1, SeqWider
  <2>2. walk.listed \in Seq(Ids)
    BY DEF PagesInv, WalkHolds, WalkRows
  <2> QED BY <1>8, <2>1, <2>2, JoinedIs
<1>16. ASSUME walk.at = "more", NEW x \in Ids, listed[x] # Absent, Behind(x)
       PROVE  x \notin F /\ Behind(x)'
  <2>1. walk.cursor # Absent /\ ~Pages!Precedes(walk.cursor.after, KeyOf(x))
    BY <1>16 DEF PagesInv, WalkHolds, Behind
  <2>2. x \notin F
    BY <1>4, <2>1 DEF RowsFound
  <2>3. KeyOf(x) \in KeyPairs
    BY <1>16, KeyIs DEF KeyOf, PagesInv, PageTypes
  <2>4. walk.cursor.after \in KeyPairs
    BY <2>1 DEF PagesInv, WalkHolds, WalkRows, Pages!Cursors, KeyPairs
  <2>5. ASSUME end = "more" PROVE ~Pages!Precedes(KeyOf(part[Len(part)]), KeyOf(x))
    <3>1. part[Len(part)] \in F
      BY <1>7, <2>5 DEF PartSays
    <3>2. Pages!Precedes(walk.cursor.after, KeyOf(part[Len(part)]))
      BY <1>4, <2>1, <3>1 DEF RowsFound
    <3>3. KeyOf(part[Len(part)]) \in KeyPairs
      BY <1>9, <3>1, KeyIs DEF KeyOf, PagesInv, PageTypes
    <3> QED BY <2>1, <2>3, <2>4, <3>2, <3>3, BehindLasts DEF PagesInv
  <2> QED BY <1>12, <2>2, <2>5
<1>17. ASSUME walk.at = "idle", NEW x PROVE Never(walk.listed, x)
  <2>1. walk.listed = <<>>
    BY <1>17 DEF PagesInv, WalkHolds
  <2> QED BY <2>1 DEF Never
<1>18. ASSUME NEW x \in walk'.steady
       PROVE  /\ listed[x] # Absent /\ Pages!Matches(q, from, listed[x])
              /\ IF Behind(x)' THEN Once(walk'.listed, x) ELSE Never(walk'.listed, x)
  <2>1. CASE walk.at = "idle"
    <3>1. x \in F /\ Never(walk.listed, x)
      BY <1>8, <1>17, <1>18, <2>1
    <3> QED BY <1>4, <1>9, <1>13, <1>15, <3>1 DEF RowsFound
  <2>2. CASE walk.at = "more"
    <3>1. x \in walk.steady
      BY <1>8, <1>18, <2>2
    <3>2. /\ listed[x] # Absent /\ Pages!Matches(q, from, listed[x])
          /\ IF Behind(x) THEN Once(walk.listed, x) ELSE Never(walk.listed, x)
      BY <1>5, <2>2, <3>1 DEF PagesInv, SteadyHold
    <3>3. x \in Ids
      BY <3>1 DEF PagesInv, WalkHolds, WalkRows
    <3>4. CASE Behind(x)
      <4>1. x \notin F /\ Behind(x)'
        BY <1>16, <2>2, <3>2, <3>3, <3>4
      <4> QED BY <1>14, <1>15, <3>2, <3>4, <4>1
    <3>5. CASE ~Behind(x)
      <4>1. x \in F
        BY <1>4, <3>2, <3>3, <3>5 DEF RowsFound, Behind
      <4> QED BY <1>13, <1>15, <3>2, <3>5, <4>1
    <3> QED BY <3>4, <3>5
  <2> QED BY <1>6, <2>1, <2>2
<1>19. ASSUME list = "incidents", NEW x \in Ids
       PROVE  \/ Never(walk'.listed, x)
              \/ listed[x] # Absent /\ Behind(x)' /\ Once(walk'.listed, x)
  <2>1. CASE Never(walk.listed, x)
    <3>1. CASE x \in F
      BY <1>9, <1>13, <1>15, <2>1, <3>1
    <3>2. CASE x \notin F
      BY <1>14, <1>15, <2>1, <3>2
    <3> QED BY <3>1, <3>2
  <2>2. CASE ~Never(walk.listed, x)
    <3>1. walk.at = "more"
      BY <1>6, <1>17, <2>2
    <3>2. listed[x] # Absent /\ Behind(x) /\ Once(walk.listed, x)
      BY <1>19, <2>2 DEF PagesInv, OnceListed
    <3>3. x \notin F /\ Behind(x)'
      BY <1>16, <3>1, <3>2
    <3> QED BY <1>14, <1>15, <3>2, <3>3
  <2> QED BY <2>1, <2>2
<1>21. SteadyHold'
  <2>1. \A y : Pages!Matches(q, from, y)' = Pages!Matches(q, from, y)
    BY <1>6 DEF Pages!Matches
  <2> QED BY <1>6, <1>8, <1>10, <1>18, <2>1 DEF SteadyHold, Once, Never
<1>22. OnceListed'
  BY <1>6, <1>19 DEF OnceListed, Once, Never
<1> QED BY <1>21, <1>22

LEMMA SamePlaces ==
  ASSUME UNCHANGED <<list, listed, walk>>
  PROVE  WalkHolds' = WalkHolds /\ SteadyHold' = SteadyHold /\ OnceListed' = OnceListed
<1>1. WalkHolds' = WalkHolds
  BY DEF WalkHolds, WalkRows, Pages!Requests
<1>2. \A x : Behind(x)' = Behind(x)
  BY DEF Behind, KeyOf, Pages!Key, Pages!Precedes, Pages!Less
<1>3. \A q, f, r : Pages!Matches(q, f, r)' = Pages!Matches(q, f, r)
  BY DEF Pages!Matches
<1>4. SteadyHold' = SteadyHold
  BY <1>2, <1>3 DEF SteadyHold, Never, Once
<1>5. OnceListed' = OnceListed
  BY <1>2 DEF OnceListed, Never, Once
<1> QED BY <1>1, <1>4, <1>5

LEMMA SameDetail ==
  ASSUME UNCHANGED <<list, listed, detail>>
  PROVE  DetailHolds' = DetailHolds
BY DEF DetailHolds

LEMMA SameTypes ==
  ASSUME UNCHANGED <<day, list, listed, changes>>
  PROVE  PageTypes' = PageTypes
BY DEF PageTypes

LEMMA ReadHolds ==
  ASSUME PagesInv, NEW q \in Pages!Requests, NEW n \in Limits, Pages!ReadPage(q, n)
  PROVE  PagesInv'
<1>1. WalkHolds' /\ SteadyHold' /\ OnceListed'
  BY ReadWalk, ReadRows
<1>2. PageTypes' /\ DetailHolds'
  BY SameTypes, SameDetail, ReadUnchanged DEF PagesInv
<1> QED BY <1>1, <1>2 DEF PagesInv

LEMMA RefuseHolds ==
  ASSUME PagesInv, NEW q, Pages!RefusePage(q)
  PROVE  PagesInv'
<1>1. /\ walk' = [at |-> "idle", asked |-> Absent, from |-> 0, cursor |-> Absent,
                  listed |-> <<>>, steady |-> {}]
      /\ UNCHANGED <<day, list, listed, detail, changes>>
  BY DEF Pages!RefusePage, Pages!NoWalk
<1>2. WalkHolds'
  BY <1>1 DEF WalkHolds, WalkRows
<1>3. SteadyHold' /\ OnceListed'
  BY <1>1 DEF SteadyHold, OnceListed, Never
<1>4. PageTypes' /\ DetailHolds'
  BY <1>1, SameTypes, SameDetail DEF PagesInv
<1> QED BY <1>2, <1>3, <1>4 DEF PagesInv

LEMMA IncidentHolds ==
  ASSUME PagesInv, NEW x \in Ids, Pages!ReadIncident(x)
  PROVE  PagesInv'
<1>1. /\ list = "incidents" /\ listed[x] # Absent
      /\ detail' = [at |-> "row", id |-> x, state |-> listed[x].updates[Len(listed[x].updates)],
                    revision |-> Len(listed[x].updates), timeline |-> <<>>]
      /\ UNCHANGED <<day, list, listed, walk, changes>>
  BY DEF Pages!ReadIncident, Pages!Last
<1>2. listed[x].updates \in Seq(Reports)
  BY <1>1, RowIs DEF PagesInv, PageTypes
<1>3. Len(listed[x].updates) \in 1 .. Len(listed[x].updates)
  BY <1>1 DEF PagesInv, PageTypes
<1>4. /\ Len(listed[x].updates) \in Nat
      /\ listed[x].updates[Len(listed[x].updates)] \in Reports
  BY <1>2, <1>3, LenProperties, ElementOfSeq
<1>5. DetailHolds'
  BY <1>1, <1>3, <1>4 DEF DetailHolds
<1> QED BY <1>1, <1>5, SamePlaces, SameTypes DEF PagesInv

LEMMA TimelineHolds ==
  ASSUME PagesInv, Pages!ReadTimeline
  PROVE  PagesInv'
<1>1. /\ detail.at = "row"
      /\ detail' = [detail EXCEPT !.at = "done", !.timeline = listed[detail.id].updates]
      /\ UNCHANGED <<day, list, listed, walk, changes>>
  BY DEF Pages!ReadTimeline
<1>2. /\ detail.id \in Ids /\ listed[detail.id] # Absent
      /\ detail.revision \in 1 .. Len(listed[detail.id].updates)
      /\ listed[detail.id].updates[detail.revision] = detail.state
  BY <1>1 DEF PagesInv, DetailHolds
<1>3. listed[detail.id].updates \in Seq(Reports)
  BY <1>2, RowIs DEF PagesInv, PageTypes
<1>4. DetailHolds'
  BY <1>1, <1>2, <1>3 DEF PagesInv, DetailHolds
<1> QED BY <1>1, <1>4, SamePlaces, SameTypes DEF PagesInv

LEMMA DayHolds ==
  ASSUME PagesInv, Pages!DayPasses
  PROVE  PagesInv'
<1>1. day < LastDay /\ day' = day + 1 /\ UNCHANGED <<list, listed, walk, detail, changes>>
  BY DEF Pages!DayPasses
<1>2. PageTypes'
  BY <1>1, PageAssumption DEF PagesInv, PageTypes
<1> QED BY <1>1, <1>2, SamePlaces, SameDetail DEF PagesInv

-----------------------------------------------------------------------------
\* A row r that may take the place of the row x.
Replaces(x, r) ==
  /\ r \in Pages!PublicRows
  /\ list = "incidents" =>
       /\ Len(r.updates) \in 1 .. Len(r.updates)
       /\ listed[x] # Absent =>
            /\ r.start = listed[x].start
            /\ \A k \in 1 .. Len(listed[x].updates) :
                 k \in 1 .. Len(r.updates) /\ r.updates[k] = listed[x].updates[k]

LEMMA ChangeHolds ==
  ASSUME PagesInv, NEW x \in Ids, NEW r, Replaces(x, r), Pages!Change(x, r)
  PROVE  PagesInv'
<1>1. /\ changes < Changes /\ changes' = changes + 1
      /\ listed' = [listed EXCEPT ![x] = r]
      /\ walk' = [walk EXCEPT !.steady =
                    {y \in @ : y # x \/ (/\ r.start = listed[x].start /\ r.end = listed[x].end
                                         /\ Pages!Matches(walk.asked, walk.from, r))}]
      /\ UNCHANGED <<day, list, detail>>
  BY DEF Pages!Change
<1>2. listed'[x] = r /\ \A y \in Ids : y # x => listed'[y] = listed[y]
  BY <1>1 DEF PagesInv, PageTypes
<1>3. r # Absent
  BY RowIs DEF Replaces
<1>4. PageTypes'
  <2>1. changes' \in 0 .. Changes
    BY <1>1, PageAssumption DEF PagesInv, PageTypes
  <2>2. listed' \in [Ids -> Pages!PublicRows \cup {Absent}]
    BY <1>1 DEF PagesInv, PageTypes, Replaces
  <2>3. ASSUME list = "incidents", NEW y \in Ids, listed'[y] # Absent
        PROVE  Len(listed'[y].updates) \in 1 .. Len(listed'[y].updates)
    BY <1>2, <2>3 DEF PagesInv, PageTypes, Replaces
  <2> QED BY <1>1, <2>1, <2>2, <2>3 DEF PagesInv, PageTypes
<1>5. /\ walk'.at = walk.at /\ walk'.asked = walk.asked /\ walk'.from = walk.from
      /\ walk'.cursor = walk.cursor /\ walk'.listed = walk.listed
      /\ walk'.steady \subseteq walk.steady
      /\ x \in walk'.steady => /\ r.start = listed[x].start
                               /\ Pages!Matches(walk.asked, walk.from, r)
      /\ walk' \in WalkRows
  BY <1>1 DEF PagesInv, WalkHolds, WalkRows
<1>6. WalkHolds'
  <2>1. WalkRows' = WalkRows
    BY <1>1 DEF WalkRows, Pages!Requests
  <2> QED BY <1>5, <2>1 DEF PagesInv, WalkHolds
<1>7. ASSUME NEW y \in Ids, y = x => listed[x] # Absent /\ r.start = listed[x].start
      PROVE  Behind(y)' <=> Behind(y)
  <2>1. listed'[y].start = listed[y].start
    BY <1>2, <1>7
  <2>2. KeyOf(y)' = KeyOf(y)
    BY <2>1 DEF KeyOf, Pages!Key
  <2>3. \A a, b : Pages!Precedes(a, b)' = Pages!Precedes(a, b)
    BY <1>1 DEF Pages!Precedes, Pages!Less
  <2> QED BY <1>5, <2>2, <2>3 DEF Behind
<1>8. SteadyHold'
  <2>1. ASSUME NEW y \in walk'.steady
        PROVE  /\ listed'[y] # Absent /\ Pages!Matches(walk.asked, walk.from, listed'[y])
               /\ IF Behind(y)' THEN Once(walk.listed, y) ELSE Never(walk.listed, y)
    <3>1. y \in walk.steady /\ y \in Ids
      BY <1>5, <2>1 DEF PagesInv, WalkHolds, WalkRows
    <3>2. /\ listed[y] # Absent /\ Pages!Matches(walk.asked, walk.from, listed[y])
          /\ IF Behind(y) THEN Once(walk.listed, y) ELSE Never(walk.listed, y)
      BY <3>1 DEF PagesInv, SteadyHold
    <3>3. Behind(y)' <=> Behind(y)
      BY <1>5, <1>7, <2>1, <3>1, <3>2
    <3> QED BY <1>2, <1>3, <1>5, <2>1, <3>1, <3>2, <3>3
  <2>2. \A y : Pages!Matches(walk.asked, walk.from, y)' = Pages!Matches(walk.asked, walk.from, y)
    BY <1>1, <1>5 DEF Pages!Matches
  <2>3. \A y : Never(walk.listed, y)' = Never(walk.listed, y) /\ Once(walk.listed, y)' = Once(walk.listed, y)
    BY <1>5 DEF Never, Once
  <2>4. \A y : Pages!Matches(walk.asked, walk.from, listed[y])' = Pages!Matches(walk.asked, walk.from, listed'[y])
    BY <1>1, <1>5 DEF Pages!Matches
  <2> QED BY <2>1, <2>3, <2>4 DEF SteadyHold
<1>9. OnceListed'
  <2>1. ASSUME list = "incidents", NEW y \in Ids
        PROVE  \/ Never(walk.listed, y)
               \/ listed'[y] # Absent /\ Behind(y)' /\ Once(walk.listed, y)
    <3>1. CASE Never(walk.listed, y)
      BY <3>1
    <3>2. CASE ~Never(walk.listed, y)
      <4>1. listed[y] # Absent /\ Behind(y) /\ Once(walk.listed, y)
        BY <2>1, <3>2 DEF PagesInv, OnceListed
      <4>2. Behind(y)' <=> Behind(y)
        BY <1>7, <2>1, <4>1 DEF Replaces
      <4> QED BY <1>2, <1>3, <4>1, <4>2
    <3> QED BY <3>1, <3>2
  <2>2. \A y : Never(walk.listed, y)' = Never(walk.listed, y) /\ Once(walk.listed, y)' = Once(walk.listed, y)
    BY <1>5 DEF Never, Once
  <2> QED BY <1>1, <2>1, <2>2 DEF OnceListed
<1>10. DetailHolds'
  <2>1. detail.at = "row" =>
          /\ list = "incidents" /\ detail.id \in Ids /\ listed'[detail.id] # Absent
          /\ detail.revision \in 1 .. Len(listed'[detail.id].updates)
          /\ listed'[detail.id].updates[detail.revision] = detail.state
    <3> SUFFICES ASSUME detail.at = "row"
                 PROVE  /\ list = "incidents" /\ detail.id \in Ids /\ listed'[detail.id] # Absent
                        /\ detail.revision \in 1 .. Len(listed'[detail.id].updates)
                        /\ listed'[detail.id].updates[detail.revision] = detail.state
      OBVIOUS
    <3>1. /\ list = "incidents" /\ detail.id \in Ids /\ listed[detail.id] # Absent
          /\ detail.revision \in 1 .. Len(listed[detail.id].updates)
          /\ listed[detail.id].updates[detail.revision] = detail.state
      BY DEF PagesInv, DetailHolds
    <3>2. CASE detail.id = x
      BY <1>2, <1>3, <3>1, <3>2 DEF Replaces
    <3>3. CASE detail.id # x
      BY <1>2, <3>1, <3>3
    <3> QED BY <3>2, <3>3
  <2> QED BY <1>1, <2>1 DEF PagesInv, DetailHolds
<1> QED BY <1>4, <1>6, <1>8, <1>9, <1>10 DEF PagesInv

LEMMA ListOne ==
  ASSUME NEW S, NEW s \in S
  PROVE  <<s>> \in Seq(S) /\ Len(<<s>>) = 1
OBVIOUS

LEMMA NewRowIs ==
  ASSUME day \in 1 .. LastDay, NEW r \in Pages!NewRows
  PROVE  /\ r \in Pages!PublicRows
         /\ list = "incidents" => Len(r.updates) \in 1 .. Len(r.updates)
<1>1. 0 .. day \subseteq 0 .. LastDay
  BY PageAssumption
<1>2. CASE list = "incidents"
  <2>1. PICK s \in 0 .. day : r = [start |-> s, end |-> Absent, updates |-> <<"investigating">>]
    BY <1>2 DEF Pages!NewRows, Pages!Incident
  <2>2. <<"investigating">> \in Seq(Reports) /\ Len(<<"investigating">>) = 1
    BY ListOne DEF Reports
  <2> QED BY <1>1, <2>1, <2>2 DEF Pages!PublicRows, Reports
<1>3. CASE list # "incidents"
  <2>1. PICK i \in (0 .. LastDay) \X (0 .. LastDay) :
          r = [start |-> i[1], end |-> i[2], updates |-> <<>>]
    BY <1>3 DEF Pages!NewRows, Pages!WindowRow
  <2> QED BY <1>3, <2>1 DEF Pages!PublicRows
<1> QED BY <1>2, <1>3

LEMMA CreateHolds ==
  ASSUME PagesInv, NEW x \in Ids, Pages!Create(x)
  PROVE  PagesInv'
<1>1. PICK r \in Pages!NewRows : listed[x] = Absent /\ Pages!Change(x, r)
  BY DEF Pages!Create
<1>2. Replaces(x, r)
  BY <1>1, NewRowIs DEF PagesInv, PageTypes, Replaces
<1> QED BY <1>1, <1>2, ChangeHolds

LEMMA MoveHolds ==
  ASSUME PagesInv, NEW x \in Ids, Pages!MoveWindow(x)
  PROVE  PagesInv'
<1>1. PICK r \in Pages!NewRows : list = "windows" /\ Pages!Change(x, r)
  BY DEF Pages!MoveWindow
<1>2. Replaces(x, r)
  BY <1>1, NewRowIs DEF PagesInv, PageTypes, Replaces
<1> QED BY <1>1, <1>2, ChangeHolds

LEMMA UpdateHolds ==
  ASSUME PagesInv, NEW x \in Ids, Pages!UpdateIncident(x)
  PROVE  PagesInv'
<1>1. PICK old : old = listed[x]
  OBVIOUS
<1>2. PICK s : /\ s \in Pages!Moves(Pages!Last(old.updates))
               /\ Pages!Change(x, [old EXCEPT !.updates = Append(@, s)])
  BY <1>1 DEF Pages!UpdateIncident
<1>3. list = "incidents" /\ old # Absent
  BY <1>1 DEF Pages!UpdateIncident
<1>4. /\ old \in Pages!PublicRows /\ old.start \in 0 .. LastDay
      /\ old.end \in 0 .. LastDay \cup {Absent}
      /\ old.updates \in Seq(Reports) /\ Len(old.updates) \in 1 .. Len(old.updates)
  BY <1>1, <1>3, RowIs DEF PagesInv, PageTypes
<1>5. s \in Reports
  <2>1. Pages!Last(old.updates) \in Reports
    BY <1>4, ElementOfSeq DEF Pages!Last
  <2> QED BY <1>2, <2>1 DEF Pages!Moves, Reports
<1>6. PICK u : u = Append(old.updates, s)
  OBVIOUS
<1>7. PICK n \in Nat : n = Len(old.updates)
  BY <1>4, LenProperties
<1>8. u \in Seq(Reports) /\ Len(u) = n + 1 /\ \A k \in 1 .. n : u[k] = old.updates[k]
  BY <1>4, <1>5, <1>6, <1>7, AppendProperties
<1>9. n + 1 \in 1 .. n + 1 /\ \A k \in 1 .. n : k \in 1 .. n + 1
  OBVIOUS
<1>10. PICK r : r = [old EXCEPT !.updates = u]
  OBVIOUS
<1>11. /\ r \in Pages!PublicRows /\ r.start = old.start /\ r.updates = u
  BY <1>4, <1>8, <1>10 DEF Pages!PublicRows, Reports
<1>12. Replaces(x, r)
  BY <1>1, <1>7, <1>8, <1>9, <1>11 DEF Replaces
<1>13. Pages!Change(x, r)
  BY <1>2, <1>6, <1>10
<1> QED BY <1>12, <1>13, ChangeHolds

-----------------------------------------------------------------------------
LEMMA PagesInit == EdgesInit => PagesInv
<1> SUFFICES ASSUME EdgesInit PROVE PagesInv
  OBVIOUS
<1>1. /\ day = 1 /\ list \in {"incidents", "windows"} /\ changes = 0
      /\ listed \in [Ids -> Pages!NewRows \cup {Absent}]
      /\ walk = [at |-> "idle", asked |-> Absent, from |-> 0, cursor |-> Absent,
                 listed |-> <<>>, steady |-> {}]
      /\ detail = [at |-> "idle", id |-> 0, state |-> Absent, revision |-> 0, timeline |-> <<>>]
  BY DEF EdgesInit, Pages!GInit, Pages!NoWalk, Pages!NoDetail
<1>2. PageTypes
  <2>1. day \in 1 .. LastDay /\ changes \in 0 .. Changes
    BY <1>1, PageAssumption
  <2>2. \A r \in Pages!NewRows : /\ r \in Pages!PublicRows
                                 /\ list = "incidents" => Len(r.updates) \in 1 .. Len(r.updates)
    BY <2>1, NewRowIs
  <2> QED BY <1>1, <2>1, <2>2 DEF PageTypes
<1>3. WalkHolds
  BY <1>1 DEF WalkHolds, WalkRows
<1>4. SteadyHold /\ OnceListed
  BY <1>1 DEF SteadyHold, OnceListed, Never
<1>5. DetailHolds
  BY <1>1 DEF DetailHolds
<1> QED BY <1>2, <1>3, <1>4, <1>5 DEF PagesInv

LEMMA PagesStep == PagesInv /\ [EdgesNext]_edges => PagesInv'
<1> SUFFICES ASSUME PagesInv, [EdgesNext]_edges PROVE PagesInv'
  OBVIOUS
<1>1. Pages!GNext \/ UNCHANGED pages
  BY DEF EdgesNext, edges
<1>2. CASE Pages!DayPasses
  BY <1>2, DayHolds
<1>3. CASE Pages!ReadTimeline
  BY <1>3, TimelineHolds
<1>4. ASSUME NEW q \in Pages!Requests, Pages!RefusePage(q) PROVE PagesInv'
  BY <1>4, RefuseHolds
<1>5. ASSUME NEW q \in Pages!Requests, NEW n \in Limits, Pages!ReadPage(q, n) PROVE PagesInv'
  BY <1>5, ReadHolds
<1>6. ASSUME NEW x \in Ids, Pages!ReadIncident(x) PROVE PagesInv'
  BY <1>6, IncidentHolds
<1>7. ASSUME NEW x \in Ids, Pages!Create(x) PROVE PagesInv'
  BY <1>7, CreateHolds
<1>8. ASSUME NEW x \in Ids, Pages!UpdateIncident(x) PROVE PagesInv'
  BY <1>8, UpdateHolds
<1>9. ASSUME NEW x \in Ids, Pages!MoveWindow(x) PROVE PagesInv'
  BY <1>9, MoveHolds
<1>10. CASE UNCHANGED pages
  BY <1>10, SamePlaces, SameDetail, SameTypes DEF PagesInv, pages
<1> QED BY <1>1, <1>2, <1>3, <1>4, <1>5, <1>6, <1>7, <1>8, <1>9, <1>10 DEF Pages!GNext

-----------------------------------------------------------------------------
LEMMA OnceCounts ==
  ASSUME NEW s \in Seq(Ids), NEW x, Once(s, x)
  PROVE  Pages!Cardinality({k \in DOMAIN s : s[k] = x}) = 1
<1>1. DOMAIN s = 1 .. Len(s)
  BY LenProperties
<1>2. PICK k \in 1 .. Len(s) : s[k] = x /\ \A j \in 1 .. Len(s) : s[j] = x => j = k
  BY DEF Once
<1>3. {j \in DOMAIN s : s[j] = x} = {k}
  BY <1>1, <1>2
<1>4. Cardinality({k}) = 1
  BY FS_Singleton
<1>5. \A S : Pages!Cardinality(S) = Cardinality(S)
  BY DEF Pages!Cardinality, Cardinality
<1> QED BY <1>3, <1>4, <1>5

LEMMA PagesInvSays ==
  ASSUME PagesInv
  PROVE  Pages!GTypeOK /\ Pages!PagesFitTogether
<1>1. Pages!GTypeOK
  BY DEF PagesInv, PageTypes, WalkHolds, WalkRows, DetailHolds, Pages!GTypeOK
<1>2. walk.listed \in Seq(Ids) /\ DOMAIN walk.listed = 1 .. Len(walk.listed)
  BY LenProperties DEF PagesInv, WalkHolds, WalkRows
<1>3. ASSUME walk.at = "done", NEW x \in walk.steady
      PROVE  Pages!Cardinality({k \in DOMAIN walk.listed : walk.listed[k] = x}) = 1
  <2>1. Once(walk.listed, x)
    BY <1>3 DEF PagesInv, SteadyHold, Behind
  <2> QED BY <1>2, <2>1, OnceCounts
<1>4. ASSUME list = "incidents" PROVE Pages!IsInjective(walk.listed)
  <2>1. ASSUME NEW i \in DOMAIN walk.listed, NEW j \in DOMAIN walk.listed,
               walk.listed[i] = walk.listed[j]
        PROVE  i = j
    <3>1. walk.listed[i] \in Ids /\ i \in 1 .. Len(walk.listed) /\ j \in 1 .. Len(walk.listed)
      BY <1>2, ElementOfSeq
    <3>2. Once(walk.listed, walk.listed[i])
      BY <1>4, <3>1 DEF PagesInv, OnceListed, Never
    <3> QED BY <2>1, <3>1, <3>2 DEF Once
  <2> QED BY <2>1 DEF Pages!IsInjective
<1>5. Pages!WalksAreComplete
  BY <1>3, <1>4 DEF Pages!WalksAreComplete
<1>6. Pages!DetailIsConsistent
  <2> SUFFICES ASSUME detail.at = "done"
               PROVE  /\ detail.revision \in DOMAIN detail.timeline
                      /\ detail.timeline[detail.revision] = detail.state
    BY DEF Pages!DetailIsConsistent
  <2>1. detail.timeline \in Seq(Reports) /\ detail.revision \in 1 .. Len(detail.timeline)
        /\ detail.timeline[detail.revision] = detail.state
    BY DEF PagesInv, DetailHolds
  <2>2. DOMAIN detail.timeline = 1 .. Len(detail.timeline)
    BY <2>1, LenProperties
  <2> QED BY <2>1, <2>2
<1> QED BY <1>1, <1>5, <1>6 DEF Pages!PagesFitTogether

\* For any rows, requests, page sizes, life of a cursor and changes: a complete
\* walk lists once every row that matched where it stood from the first page to
\* the last, and no incident twice; and the state an incident's page claims is
\* in its timeline.
THEOREM PagesHold == EdgesSpec => []PagesFitTogether
<1>1. PagesInv => PagesFitTogether
  BY PagesInvSays DEF PagesFitTogether
<1> QED BY <1>1, PagesInit, PagesStep, PTL DEF EdgesSpec
=============================================================================
