------------------------ MODULE MCDiagnosticPipeline ------------------------
(***************************************************************************)
(* TLC instances of DiagnosticPipeline: small producers' histories.        *)
(***************************************************************************)
EXTENDS DiagnosticPipeline, TLC

Fault(e, t) == [event |-> e, signal |-> "fault", at |-> t, cause |-> "none"]
Recovery(e, t, of) == [event |-> e, signal |-> "recovery", at |-> t, cause |-> of]

\* Two faults and a recovery of each; the queue may deliver them in any order.
StoryPayloads ==
  {Fault("f1", 1), Fault("f2", 2), Recovery("r1", 3, "f1"), Recovery("r2", 4, "f2")}
StoryMessages == {p.event : p \in StoryPayloads}
StoryPayloadOf ==
  [m \in StoryMessages |-> CHOOSE p \in StoryPayloads : p.event = m]

ConsumerSymmetry == Permutations(Consumers)
=============================================================================
