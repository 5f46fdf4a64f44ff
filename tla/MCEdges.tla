------------------------------- MODULE MCEdges -------------------------------
(***************************************************************************)
(* Edges on an instance in which the interesting cases of each part happen. *)
(***************************************************************************)
EXTENDS Edges

Edge(s, t, c) == [source |-> s, target |-> t, capability |-> c]

\* Three services, every graph over these edges: both directions of every
\* pair but a and c, so cycles of two and three, and two capabilities from a to
\* b.  Sorted by target, then capability, within each source.
AllEdges == << Edge("a", "b", "alpha"), Edge("a", "b", "omega"),
               Edge("a", "c", "alpha"),
               Edge("b", "a", "back"), Edge("b", "c", "alpha"),
               Edge("c", "b", "alpha") >>

\* Three locations: the executor of one moves between two data centres, one of
\* which another is in, and that other is slow.
TwoAndTwo == <<{"c1", "c2"}, {"c1"}, {"c3"}>>
OneSlow == <<{0}, {0, 1}, {0}>>

\* A monitor that fails at two thirds.
TwoThirds == <<2, 3>>
OneThird == <<1, 3>>

\* A cycle of three services, any of whose edges may be missing, and a screen.
Ring == << Edge("a", "b", "x"), Edge("b", "c", "x"), Edge("c", "a", "x") >>
Held == [x \in {"a", "b", "c", "screen"} |->
  CASE x \in {"a", "screen"} -> {"operational"}
    [] x = "b" -> {"operational", "major_outage"}
    [] x = "c" -> {"operational", "maintenance"}]
Supporting == {{<<"screen", "a">>}, {<<"screen", "b">>, <<"screen", "old">>}}

NoFilterOrOne == {{}, {"investigating", "monitoring"}}
=============================================================================
