----------------------------- MODULE MCSettling -----------------------------
(* An instance of Settling in which each part has something to recover from. *)
EXTENDS Settling

\* A dependency cycle with a service below it; every proof expires once and is
\* renewed.
Edge(s, t, cap) == [source |-> s, target |-> t, impact |-> cap]
CycleOverLeaf == {Edge("web", "api", 3), Edge("api", "web", 1), Edge("api", "db", 2)}
NoOwners == [c \in Components |-> "web"]

\* One event and another body under its identity; the consumer buries a
\* message at its second delivery, the queue itself at its third.
First == [event |-> "f1", signal |-> "fault", at |-> 1, cause |-> "none"]
Other == [First EXCEPT !.at = 2]
FirstOrOther == {First, Other}
Reuse == [m \in Messages |-> IF m = "reused" THEN Other ELSE First]

\* Two monitors of one target and one of another, behind one that has no next
\* run and one that fails whenever it is run.
OneApart == [m \in Monitors |-> IF m = "c" THEN "u" ELSE "t"]
=============================================================================
