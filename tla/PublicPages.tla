---------------------------- MODULE PublicPages -----------------------------
(* The public lists of incidents and of maintenance windows, read page by   *)
(* page with signed cursors, and the page of one incident, while operators  *)
(* change the rows.  A page is one query; nothing holds the rows still from *)
(* one page to the next, or between the two queries of an incident's page.  *)
(* A walk also remembers (steady) which rows matched, at an unchanged       *)
(* place, ever since its first page.                                        *)
EXTENDS Naturals, Sequences, SequencesExt, FiniteSets, Functions

CONSTANTS
  Ids,         \* numbers of the rows, in the order of their identifiers
  Filters,     \* state filters of the incident list, {} for none
  Froms, Tos,  \* parameters of the window list, None if absent
  Limits,      \* page sizes
  CursorLife,  \* fifteen minutes
  LastDay,     \* bound: instants
  Changes,     \* bound: operator commands
  None

VARIABLES
  day,
  list,     \* "incidents" or "windows", never changed
  rows,     \* the table of that list
  walk,     \* a reader of the list
  detail,   \* a reader of one incident
  changes

Moves(s) == CASE s = "investigating" -> {"identified", "monitoring"}
              [] s = "identified"    -> {"monitoring", "resolved"}
              [] s = "monitoring"    -> {"investigating", "resolved"}
              [] s = "resolved"      -> {}

Incident(start, updates) == [start |-> start, end |-> None, updates |-> updates]
WindowRow(start, end) == [start |-> start, end |-> end, updates |-> <<>>]
NewRows == IF list = "incidents"
             THEN {Incident(s, <<"investigating">>) : s \in 0 .. day}
             ELSE {WindowRow(i[1], i[2]) : i \in {i \in (0 .. LastDay) \X (0 .. LastDay) : i[1] < i[2]}}

NoWalk == [at |-> "idle", asked |-> None, from |-> 0, cursor |-> None,
           listed |-> <<>>, steady |-> {}]
NoDetail == [at |-> "idle", id |-> 0, state |-> None, revision |-> 0, timeline |-> <<>>]

GInit ==
  /\ day = 1 /\ list \in {"incidents", "windows"}
  /\ rows \in [Ids -> NewRows \cup {None}]
  /\ walk = NoWalk /\ detail = NoDetail /\ changes = 0

-----------------------------------------------------------------------------

(* What a request asks for; its parameters but not its limit bind a cursor. *)
Requests == IF list = "incidents"
              THEN [states : Filters, from : {None}, to : {None}]
              ELSE [states : {{}}, from : Froms, to : Tos]

Key(x, r) == <<r.start, x>>
Less(a, b) == a[1] < b[1] \/ (a[1] = b[1] /\ a[2] < b[2])

\* Incidents newest first, windows earliest first.
Precedes(a, b) == IF list = "incidents" THEN Less(b, a) ELSE Less(a, b)

Matches(q, from, r) ==
  /\ r # None
  /\ IF list = "incidents"
       THEN q.states # {} => Last(r.updates) \in q.states
       ELSE r.end > from /\ (q.to # None => r.start < q.to)

\* Mutant: windows are compared with the time of each page.
FromOfPage(q) == IF q.from # None THEN q.from ELSE day

\* Without a from the scan keeps the time of its first page, in the cursor.
From(q) == IF q.from # None THEN q.from
           ELSE IF walk.cursor # None THEN walk.cursor.from ELSE day

Refused(q) ==
  \/ walk.cursor # None /\ (walk.cursor.asked # q \/ walk.cursor.exp <= day)
  \/ q.to # None /\ q.to <= From(q)

\* The rows found are read in order: the k-th is the one that follows k - 1.
\* One row more than the page holds is read, to know whether to sign a cursor
\* for the last row shown.
ReadPage(q, limit) ==
  LET from  == From(q)
      found == {x \in Ids : /\ Matches(q, from, rows[x])
                            /\ walk.cursor # None => Precedes(walk.cursor.after, Key(x, rows[x]))}
      before(y, x) == Precedes(Key(y, rows[y]), Key(x, rows[x]))
      all   == [k \in 1 .. Cardinality(found) |->
                  CHOOSE x \in found : Cardinality({y \in found : before(y, x)}) = k - 1]
      shown == SubSeq(all, 1, IF Len(all) < limit THEN Len(all) ELSE limit)
      more  == Len(all) > limit
      first == walk.at = "idle"
  IN /\ walk.at \in {"idle", "more"} /\ ~Refused(q)
     /\ walk' = [at     |-> IF more THEN "more" ELSE "done",
                 asked  |-> q,
                 from   |-> IF first THEN from ELSE walk.from,
                 cursor |-> IF more
                              THEN [asked |-> q, from |-> from, exp |-> day + CursorLife,
                                    after |-> Key(Last(shown), rows[Last(shown)])]
                              ELSE None,
                 listed |-> walk.listed \o shown,
                 steady |-> IF first THEN found ELSE walk.steady]
     /\ UNCHANGED <<day, list, rows, detail, changes>>

\* 400: the cursor has expired or belongs to another request.  The reader gives
\* up.
RefusePage(q) ==
  /\ walk.at = "more" /\ Refused(q)
  /\ walk' = NoWalk
  /\ UNCHANGED <<day, list, rows, detail, changes>>

-----------------------------------------------------------------------------

(* The page of an incident: its current state, then its updates.            *)

ReadIncident(x) ==
  /\ list = "incidents" /\ detail.at = "idle" /\ rows[x] # None
  /\ detail' = [at |-> "row", id |-> x, state |-> Last(rows[x].updates),
                revision |-> Len(rows[x].updates), timeline |-> <<>>]
  /\ UNCHANGED <<day, list, rows, walk, changes>>

ReadTimeline ==
  /\ detail.at = "row"
  /\ detail' = [detail EXCEPT !.at = "done", !.timeline = rows[detail.id].updates]
  /\ UNCHANGED <<day, list, rows, walk, changes>>

-----------------------------------------------------------------------------

(* Operators and the clock.                                                 *)

Change(x, r) ==
  /\ changes < Changes /\ changes' = changes + 1
  /\ rows' = [rows EXCEPT ![x] = r]
  /\ walk' = [walk EXCEPT !.steady =
                {y \in @ : y # x \/ (/\ r.start = rows[x].start /\ r.end = rows[x].end
                                     /\ Matches(walk.asked, walk.from, r))}]
  /\ UNCHANGED <<day, list, detail>>

Create(x) == rows[x] = None /\ \E r \in NewRows : Change(x, r)

UpdateIncident(x) ==
  /\ list = "incidents" /\ rows[x] # None
  /\ \E s \in Moves(Last(rows[x].updates)) :
       Change(x, [rows[x] EXCEPT !.updates = Append(@, s)])

\* A completed window is immutable, but which windows that are over a tick has
\* completed is left open.
MoveWindow(x) ==
  /\ list = "windows" /\ rows[x] # None
  /\ \E r \in NewRows \ {rows[x]} : Change(x, r)

DayPasses == day < LastDay /\ day' = day + 1 /\ UNCHANGED <<list, rows, walk, detail, changes>>

GNext == \/ DayPasses \/ ReadTimeline
         \/ \E q \in Requests : RefusePage(q) \/ \E n \in Limits : ReadPage(q, n)
         \/ \E x \in Ids : ReadIncident(x) \/ Create(x) \/ UpdateIncident(x) \/ MoveWindow(x)

-----------------------------------------------------------------------------

\* What None is not: a row and a cursor.
PublicRows == [start : 0 .. LastDay, end : 0 .. LastDay \cup {None},
               updates : Seq({"investigating", "identified", "monitoring", "resolved"})]
Cursors == [asked : [states : Filters \cup {{}}, from : Froms \cup {None}, to : Tos \cup {None}],
            from : Nat \cup Froms, exp : Nat, after : Nat \X Nat]

GTypeOK ==
  /\ day \in 1 .. LastDay /\ list \in {"incidents", "windows"} /\ changes \in 0 .. Changes
  /\ \A x \in Ids : rows[x] \in PublicRows \cup {None}
  /\ walk.at \in {"idle", "more", "done"} /\ walk.steady \subseteq Ids
  /\ walk.listed \in Seq(Ids) /\ walk.cursor \in Cursors \cup {None}
  /\ (walk.cursor # None <=> walk.at = "more")
  /\ detail.at \in {"idle", "row", "done"}

\* A complete walk shows each row that matched from its first page to its last
\* exactly once, whatever its page sizes, though windows end and rows come, move
\* and stop matching meanwhile; and no incident twice, whatever becomes of it.
WalksAreComplete == walk.at = "done" =>
  /\ \A x \in walk.steady : Cardinality({k \in DOMAIN walk.listed : walk.listed[k] = x}) = 1
  /\ list = "incidents" => IsInjective(walk.listed)

\* The state an incident's page claims is in the timeline of the same page,
\* which may be ahead of it but never behind.
DetailIsConsistent == detail.at = "done" =>
  detail.revision \in DOMAIN detail.timeline /\ detail.timeline[detail.revision] = detail.state

\* What readers see fits together, page by page and query by query.
PagesFitTogether == WalksAreComplete /\ DetailIsConsistent
=============================================================================
