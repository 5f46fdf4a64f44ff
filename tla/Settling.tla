------------------------------ MODULE Settling ------------------------------
(***************************************************************************)
(* What must finally happen, in three parts that share no state: the       *)
(* statuses of a catalogue (EXTENDed), the messages of the diagnostic      *)
(* queue, and the line of due monitors.  A behaviour is one of ONE part,   *)
(* the subject, under the fairness of that part; the others stay where     *)
(* they start, at rest.                                                    *)
(***************************************************************************)
EXTENDS Reevaluation, Sequences

CONSTANTS
  \* messages
  Events, Payloads, None, MinOccurrences, RecoveryMin,
  Messages, PayloadOf, Consumers, MaxAttempts, MaxDeliveries, ForeignChanges,
  \* monitors
  Monitors, TargetOf, Unready, Broken, Limit, Global, PerTarget, Interval, LeaseTicks

VARIABLES
  subject,
  dedup, issues, fresh, delivery, deadLetters, attempts, step, held, snap, foreign,
  line, rest, lease, pending, phase

messages == <<dedup, issues, fresh, delivery, deadLetters, attempts, step, held, snap, foreign>>
monitors == <<line, rest, lease, pending, phase>>

Queue == INSTANCE DiagnosticPipeline WITH
  MaxChanges <- ForeignChanges, pc <- step, changes <- foreign

Due == INSTANCE MonitorQueue

\* The assumptions of DiagnosticPipeline.
ASSUME QueueAssumption ==
  /\ MinOccurrences \in Nat \ {0} /\ RecoveryMin \in Nat \ {0, 1}
  /\ None \notin Payloads /\ \A p \in Payloads : p.event \in Events /\ p.at \in Nat
  /\ PayloadOf \in [Messages -> Payloads]
  /\ {MaxAttempts, MaxDeliveries} \subseteq Nat \ {0} /\ ForeignChanges \in Nat

ASSUME LineAssumption ==
  /\ IsFiniteSet(Monitors)
  /\ {Limit, Interval, LeaseTicks} \subseteq Nat \ {0}

-----------------------------------------------------------------------------
SettlingInit ==
  /\ subject \in {"statuses", "messages", "monitors"}
  /\ IF subject = "monitors" THEN TRUE ELSE line = CHOOSE first \in Due!Lines : TRUE
  /\ Init /\ Queue!PipelineInit /\ Due!QInit

\* The subject takes a step, the other parts stay.
SettlingNext ==
  /\ UNCHANGED subject
  /\ IF subject = "statuses" THEN Next ELSE UNCHANGED vars
  /\ IF subject = "messages" THEN Queue!PipelineNext ELSE UNCHANGED messages
  /\ IF subject = "monitors" THEN Due!QNext ELSE UNCHANGED monitors

\* What each part takes for granted, for its own behaviours.
SettlingFairness ==
  /\ WF_vars(subject = "statuses" /\ Tick)
  /\ \A t \in Targets :
       /\ WF_vars(subject = "statuses" /\ Expire(t))
       /\ SF_vars(subject = "statuses" /\ \E p \in Planners : Probe(p, t))
       /\ SF_vars(subject = "statuses" /\ \E p \in Planners : TakeWork(p, t))
  /\ \A p \in Planners : WF_vars(subject = "statuses" /\ Advance(p))
  /\ WF_messages(subject = "messages" /\ \E c \in Consumers, m \in Messages : Queue!Receive(c, m))
  /\ \A c \in Consumers : WF_messages(subject = "messages" /\ Queue!Work(c))
  /\ WF_monitors(subject = "monitors" /\ Due!Begin)
  /\ WF_monitors(subject = "monitors" /\ (Due!EndTick \/ \E done \in Due!Runs : Due!Wave(done)))
  /\ \A m \in Due!Sound : SF_monitors(subject = "monitors" /\ Due!Complete(m))

SettlingSpec ==
  SettlingInit /\ [][SettlingNext]_<<subject, vars, messages, monitors>> /\ SettlingFairness

-----------------------------------------------------------------------------
\* The promises of the parts, next to StaysFresh and Converges for the statuses;
\* the first includes the types of the line, those of the other two are
\* invariants of runs of their own.
NothingLost == Due!QTypeOK /\ Queue!NothingLost
EveryMessageSettles == subject = "messages" => Queue!EveryMessageSettles
EveryMonitorRuns == subject = "monitors" => Due!EveryMonitorRuns
=============================================================================
