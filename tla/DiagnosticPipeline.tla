------------------------- MODULE DiagnosticPipeline -------------------------
(***************************************************************************)
(* The queued diagnostic consumer (status-backend/src/diagnostics).        *)
(*                                                                         *)
(* Messages are delivered at least once to concurrent consumer             *)
(* invocations.  A consumer reads the dedup row, reads a snapshot of the   *)
(* Issue and the service status, evaluates it, and sends one D1 batch that *)
(* claims the event identity, asserts the snapshot and writes the effects. *)
(* Then it acknowledges the message, schedules a retry, or, at the attempt *)
(* limit, hands it to the dead letter queue.  A consumer may die between   *)
(* any two steps, and any call may fail.                                   *)
(*                                                                         *)
(* The service's status row, its policy and retention bindings and the     *)
(* evaluation generation are only ever compared with what the comparing    *)
(* consumer read: `fresh' is the set of consumers for which they still     *)
(* are what the snapshot said.                                             *)
(***************************************************************************)
EXTENDS IssueLedger

CONSTANTS
  Messages,       \* queue messages (a resubmission is another message)
  PayloadOf,      \* [Messages -> Payloads]
  Consumers,      \* consumer invocations alive at once
  MaxAttempts,    \* DIAGNOSTIC_MAX_ATTEMPTS
  MaxDeliveries,  \* deliveries the queue itself makes (max_retries + 1)
  MaxChanges      \* bound: operator and scheduler changes of the Issue

ASSUME MessageAssumption == PayloadOf \in [Messages -> Payloads]
ASSUME AttemptAssumption ==
  /\ MaxAttempts \in Nat \ {0} /\ MaxDeliveries \in Nat \ {0}
  /\ MaxChanges \in Nat

VARIABLES
  fresh,      \* consumers whose snapshot of status and bindings is current
  delivery,   \* per message: "queued", "taken", "acked" or "dropped"
  deadLetters,  \* messages in the dead letter queue
  attempts,   \* per message: deliveries so far
  pc, held, snap,  \* per consumer: step, message, snapshot
  changes

pipeline == <<fresh, delivery, deadLetters, attempts, pc, held, snap, changes>>
vars == <<dedup, issues, pipeline>>

NoSnap == [issue |-> None, size |-> 0]

PipelineInit ==
  /\ Init
  /\ fresh = {}
  /\ deadLetters = {}
  /\ delivery = [m \in Messages |-> "queued"]
  /\ attempts = [m \in Messages |-> 0]
  /\ pc = [c \in Consumers |-> "idle"]
  /\ held = [c \in Consumers |-> None]
  /\ snap = [c \in Consumers |-> NoSnap]
  /\ changes = 0

Payload(c) == PayloadOf[held[c]]

\* Mutant: the payload digest is not compared.
VerdictDuplicate(c, known) == "done"

\* What the consumer knows of an event whose dedup row it sees.
Verdict(c, known) == IF known = Payload(c) THEN "done" ELSE "failed"

Receive(c, m) ==
  /\ pc[c] = "idle" /\ delivery[m] = "queued"
  /\ delivery' = [delivery EXCEPT ![m] = "taken"]
  /\ attempts' = [attempts EXCEPT ![m] = @ + 1]
  /\ held' = [held EXCEPT ![c] = m]
  /\ pc' = [pc EXCEPT ![c] = "received"]
  /\ UNCHANGED <<dedup, issues, fresh, deadLetters, snap, changes>>

\* Deduplication read: the same payload is a duplicate, another a conflict.
LookUp(c) ==
  /\ pc[c] = "received"
  /\ LET known == dedup[Payload(c).event] IN
       pc' = [pc EXCEPT ![c] = IF known = None THEN "new" ELSE Verdict(c, known)]
  /\ UNCHANGED <<dedup, issues, fresh, delivery, deadLetters, attempts, held,
                 snap, changes>>

\* One D1 batch reads policy, unresolved Issue and status together.
TakeSnapshot(c) ==
  /\ pc[c] = "new"
  /\ snap' = [snap EXCEPT ![c] =
       [issue |-> Current(issues), size |-> Len(issues)]]
  /\ fresh' = fresh \cup {c}
  /\ pc' = [pc EXCEPT ![c] = "planned"]
  /\ UNCHANGED <<dedup, issues, delivery, deadLetters, attempts, held, changes>>

\* Mutant: the guard forgets the Issue it evaluated.
GuardStatusOnly(c) == c \in fresh

\* The assertion at the head of the batch: the Issue still has the revision
\* that was evaluated (or there still is no unresolved one), and status and
\* bindings are what was read.
Guard(c) ==
  /\ c \in fresh
  /\ IF snap[c].issue = None
     THEN Current(issues) = None
     ELSE /\ snap[c].size = Len(issues)
          /\ snap[c].issue.revision = issues[Len(issues)].revision

\* What the service's public status is planned from.
Public(issue) == issue # None /\ issue.state \in {"active", "recovering"}

\* The batch.  Every write is gated by ownership of the dedup row, so a batch
\* that lost the claim does nothing; a failed assertion rolls all of it back,
\* the claim included.  If the Issue is public before or after, the status
\* row is rewritten in the same batch.
Commit(c) ==
  /\ pc[c] = "planned"
  /\ LET p == Payload(c)
         known == dedup[p.event]
     IN IF known # None
        THEN /\ pc' = [pc EXCEPT ![c] = Verdict(c, known)]
             /\ UNCHANGED <<dedup, issues, fresh>>
        ELSE IF Guard(c)
        THEN /\ pc' = [pc EXCEPT ![c] = "done"]
             /\ dedup' = [dedup EXCEPT ![p.event] = p]
             /\ issues' = Effect(issues, snap[c].issue, p)
             /\ fresh' = IF Public(snap[c].issue) \/ Public(Current(issues'))
                         THEN {} ELSE fresh
        ELSE /\ pc' = [pc EXCEPT ![c] = "failed"]
             /\ UNCHANGED <<dedup, issues, fresh>>
  /\ UNCHANGED <<delivery, deadLetters, attempts, held, snap, changes>>

Drop(c) ==
  /\ pc' = [pc EXCEPT ![c] = "idle"]
  /\ held' = [held EXCEPT ![c] = None]
  /\ snap' = [snap EXCEPT ![c] = NoSnap]
  /\ fresh' = fresh \ {c}

\* Processed, or safely copied to the dead letter queue.
Ack(c) ==
  /\ pc[c] \in {"done", "buried"} /\ Drop(c)
  /\ delivery' = [delivery EXCEPT ![held[c]] = "acked"]
  /\ UNCHANGED <<dedup, issues, deadLetters, attempts, changes>>

\* Back to the queue, which gives up on its own after MaxDeliveries and moves
\* the message to the same dead letter queue.
Requeue(m) ==
  IF attempts[m] < MaxDeliveries
  THEN delivery' = [delivery EXCEPT ![m] = "queued"] /\ UNCHANGED deadLetters
  ELSE /\ delivery' = [delivery EXCEPT ![m] = "dropped"]
       /\ deadLetters' = deadLetters \cup {m}

\* Mutant: the last attempt before the limit is neither retried nor buried.
RetryOffByOne(c) ==
  /\ pc[c] = "failed" /\ attempts[held[c]] < MaxAttempts - 1 /\ Drop(c)
  /\ Requeue(held[c])
  /\ UNCHANGED <<dedup, issues, attempts, changes>>

\* message.retry: below the limit, or because the dead letter send failed.
Retry(c) ==
  /\ pc[c] = "failed" /\ Drop(c)
  /\ Requeue(held[c])
  /\ UNCHANGED <<dedup, issues, attempts, changes>>

\* Dead letter first, acknowledge after.
DeadLetter(c) ==
  /\ pc[c] = "failed" /\ attempts[held[c]] >= MaxAttempts
  /\ deadLetters' = deadLetters \cup {held[c]}
  /\ pc' = [pc EXCEPT ![c] = "buried"]
  /\ UNCHANGED <<dedup, issues, fresh, delivery, attempts, held, snap, changes>>

\* A D1 call fails, or its answer is lost after the batch was applied.
CallFails(c) ==
  /\ pc[c] \in {"received", "new", "planned", "done"}
  /\ pc' = [pc EXCEPT ![c] = "failed"]
  /\ UNCHANGED <<dedup, issues, fresh, delivery, deadLetters, attempts, held,
                 snap, changes>>

\* The invocation dies; its message becomes visible again.
Crash(c) ==
  /\ pc[c] # "idle" /\ Drop(c)
  /\ Requeue(held[c])
  /\ UNCHANGED <<dedup, issues, attempts, changes>>

\* Another writer moves the unresolved Issue; a change of its state rewrites
\* the status row with it.
OtherWriter ==
  /\ changes < MaxChanges /\ changes' = changes + 1
  /\ Intervene
  /\ fresh' = IF issues'[Len(issues)].state = issues[Len(issues)].state
              THEN fresh ELSE {}
  /\ UNCHANGED <<delivery, deadLetters, attempts, pc, held, snap>>

\* A reevaluation or an edit moves the status row or a policy binding.
StatusChanges ==
  /\ fresh # {} /\ fresh' = {}
  /\ UNCHANGED <<dedup, issues, delivery, deadLetters, attempts, pc, held, snap,
                 changes>>

Work(c) ==
  \/ LookUp(c) \/ TakeSnapshot(c) \/ Commit(c)
  \/ Ack(c) \/ Retry(c) \/ DeadLetter(c)

PipelineNext ==
  \/ OtherWriter \/ StatusChanges
  \/ \E c \in Consumers :
       \/ \E m \in Messages : Receive(c, m)
       \/ Work(c) \/ CallFails(c) \/ Crash(c)

\* The queue keeps delivering and every delivery is answered or times out.
PipelineFairness ==
  /\ WF_vars(\E c \in Consumers, m \in Messages : Receive(c, m))
  /\ \A c \in Consumers : WF_vars(Work(c))

PipelineSpec == PipelineInit /\ [][PipelineNext]_vars
FairPipelineSpec == PipelineSpec /\ PipelineFairness

-----------------------------------------------------------------------------
\* Type correctness.
States == {"observed", "active", "recovering", "suppressed", "resolved"}
IssueType ==
  [state : States, count : Nat, recoveries : Nat, lastFault : Events,
   lastSeen : Nat, revision : Nat, faults : SUBSET Payloads,
   credits : SUBSET Payloads]

PipelineTypeOK ==
  /\ dedup \in [Events -> Payloads \cup {None}]
  /\ issues \in Seq(IssueType)
  /\ fresh \in SUBSET Consumers
  /\ delivery \in [Messages -> {"queued", "taken", "acked", "dropped"}]
  /\ deadLetters \in SUBSET Messages
  /\ attempts \in [Messages -> 0 .. MaxDeliveries]
  /\ pc \in [Consumers ->
       {"idle", "received", "new", "planned", "done", "failed", "buried"}]
  /\ held \in [Consumers -> Messages \cup {None}]
  /\ snap \in [Consumers -> [issue : IssueType \cup {None}, size : Nat]]
  /\ changes \in 0 .. MaxChanges

\* Snapshot, evaluation and guarded batch are one atomic application of the
\* payload to the current Issue, at most once per event identity, whatever
\* other consumers, operators and probes do in between.
Ledger == INSTANCE IssueLedger WITH dedup <- dedup, issues <- issues
AppliesAtomically == Ledger!Spec

\* An Issue counts every distinct fault that reached it exactly once, and its
\* causal head is a fault none of the others is later than.
CausalHead ==
  /\ PipelineTypeOK
  /\ \A g \in DOMAIN issues : LET i == issues[g] IN
       /\ i.count = Cardinality(i.faults)
       /\ \E head \in i.faults :
            head.event = i.lastFault /\ \A f \in i.faults : f.at <= head.at

\* "recovery for an older fault cannot clear a later one" (recovery.rs:12):
\* all recoveries that helped resolve an Issue name its latest fault.
CausalResolution ==
  \A g \in DOMAIN issues : LET i == issues[g] IN
    \A r \in i.credits : \A f \in i.faults :
      \A cause \in i.faults : cause.event = r.cause => f.at <= cause.at

\* No message leaves the queue unless its event took effect with exactly its
\* payload, or it is in the dead letter queue: neither a crash nor the reuse of
\* an event identity with another body acknowledges an event away.
NothingLost ==
  \A m \in Messages :
    delivery[m] \in {"acked", "dropped"} =>
      dedup[PayloadOf[m].event] = PayloadOf[m] \/ m \in deadLetters

\* Every message is finally acknowledged or given up to the dead letter queue.
EveryMessageSettles ==
  \A m \in Messages : <>(delivery[m] \in {"acked", "dropped"})

\* minimum_occurrences are the "Occurrences required to confirm into active"
\* (diagnostic.rs:257): an Issue with that many is not merely observed.  This
\* does not hold: a late fault is counted and confirms nothing.
EnoughOccurrencesConfirm ==
  \A g \in DOMAIN issues :
    issues[g].state = "observed" => issues[g].count < MinOccurrences
=============================================================================
