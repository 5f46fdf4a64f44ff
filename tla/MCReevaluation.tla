--------------------------- MODULE MCReevaluation ---------------------------
(* Small catalogues: a pair, a chain, and a component that belongs to one  *)
(* service and is supported by the other.                                  *)
EXTENDS Reevaluation, TLC

Pair == {[source |-> "web", target |-> "api", impact |-> 2]}
Chain == {[source |-> "web", target |-> "api", impact |-> 3],
          [source |-> "api", target |-> "db", impact |-> 3]}
Screen == {<<"login", "api">>}
Owners == [c \in Components |-> "web"]
Planning == Permutations(Planners)
=============================================================================
