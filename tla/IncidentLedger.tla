---------------------------- MODULE IncidentLedger ----------------------------
(***************************************************************************)
(* What the history of an incident promises (status-backend/src/admin/     *)
(* mutations/lifecycle.rs and the tables incident_updates and              *)
(* incident_*_relations): a sequence of updates that only grows, in which  *)
(* every entry is one operator command applied to the entry right before   *)
(* it.  An entry is the state and everything the incident is linked to:    *)
(* issues, components, and the services that own them.                     *)
(***************************************************************************)
EXTENDS Naturals, Sequences, FiniteSets

CONSTANTS
  NIncidents,  \* incidents are numbered by the time they started
  Issues, Components, ServiceIds,
  ServiceOf,   \* the owner of an issue or component
  Commands,    \* [state, issues, components], each None where the body has no such field
  None

Incidents == 1 .. NIncidents
States == {"investigating", "identified", "monitoring", "resolved"}
Items == Issues \cup Components \cup ServiceIds

VARIABLE history  \* per incident, its entries [state, links]

Init == history = [i \in Incidents |-> <<>>]

\* An absent field keeps what the incident has.
Kept(patch, old) == IF patch = None THEN old ELSE patch

Owners(items) == {ServiceOf[x] : x \in items}

\* Everything an incident is linked to after a command, given what it was
\* linked to before.
Wanted(c, links) ==
  LET items == Kept(c.issues, links \cap Issues) \cup Kept(c.components, links \cap Components)
  IN items \cup Owners(items)

\* Where each lifecycle command may go; a resolved incident stays as it is.
Moves ==
  [investigating |-> {"identified", "monitoring"},
   identified    |-> {"monitoring", "resolved"},
   monitoring    |-> {"investigating", "resolved"},
   resolved      |-> {}]

Open(i, c) ==
  /\ history[i] = <<>> /\ c.state = None
  /\ history' = [history EXCEPT ![i] = <<[state |-> "investigating", links |-> Wanted(c, {})]>>]

Revise(i, c) ==
  /\ history[i] # <<>>
  /\ LET last == history[i][Len(history[i])]
         state == Kept(c.state, last.state)
     IN /\ last.state # "resolved"
        /\ state \in {last.state} \cup Moves[last.state]
        /\ history' = [history EXCEPT ![i] = Append(@,
                          [state |-> state, links |-> Wanted(c, last.links)])]

Next == \E i \in Incidents, c \in Commands : Open(i, c) \/ Revise(i, c)

LedgerSpec == Init /\ [][Next]_history
=============================================================================
