--------------------------- MODULE Notifications ---------------------------
(***************************************************************************)
(* External notifications: from an outbox row through the notification     *)
(* queue to the webhook or the dead-letter queue (status-backend/          *)
(* notifications).                                                         *)
(*                                                                         *)
(* An invocation takes a batch, reads whether delivery is configured, and  *)
(* settles the letters one by one: a delivery that fails for whatever      *)
(* reason, a switched off webhook included, is retried by the queue until  *)
(* its last attempt, which ends in the dead-letter queue or is retried     *)
(* again.  When an invocation dies the queue may deliver all of its batch  *)
(* again.  The dispatcher may publish a row twice (Outbox shows when).     *)
(*                                                                         *)
(* Abstractions: bodies are valid (publish validates with the consumer's   *)
(* own code); the delay of a retry has no bound.                           *)
(***************************************************************************)
EXTENDS Naturals, Sequences, Functions

CONSTANTS
  Rows,           \* outbox rows
  Letters,        \* bound: queue messages, 1 .. n
  LetterBatch,    \* largest batch of the queue
  MaxDeliveries,  \* NOTIFICATION_MAX_ATTEMPTS
  Switches,       \* bound: changes of the configuration
  Troubles        \* bound: failures of the webhook, queues and invocations

VARIABLES
  mode,      \* the configuration: "on", "off", or "broken"
  pending,   \* rows not marked delivered
  sent,      \* the row of every letter, in the order of acceptance
  place,     \* where a letter is: "queue", "batch", "acked", "dead"
  tries,     \* attempts, as the queue counts them
  toDeliver, \* letters of the current batch not settled yet
  answered,  \* letters of the current batch acknowledged
  seen,      \* the configuration the current invocation has read
  received,  \* rows the webhook was given
  switches, troubles

batchVars == <<toDeliver, answered, seen>>

NInit ==
  /\ mode = "on" /\ pending = Rows /\ sent = <<>>
  /\ place = <<>> /\ tries = <<>>
  /\ toDeliver = <<>> /\ answered = {} /\ seen = "none"
  /\ received = {} /\ switches = 0 /\ troubles = 0

Trouble == troubles < Troubles /\ troubles' = troubles + 1

Configure == \E to \in {"on", "off", "broken"} \ {mode} :
  /\ switches < Switches
  /\ mode' = to /\ switches' = switches + 1
  /\ UNCHANGED <<pending, sent, place, tries, batchVars, received, troubles>>

\* publish: only when delivery is on; the row is marked once the queue took
\* the letter, unless that mark is lost.
PublishLetter == \E r \in pending :
  /\ mode = "on" /\ Len(sent) < Letters
  /\ sent' = Append(sent, r) /\ place' = Append(place, "queue") /\ tries' = Append(tries, 0)
  /\ \/ pending' = pending \ {r} /\ UNCHANGED troubles
     \/ Trouble /\ UNCHANGED pending
  /\ UNCHANGED <<mode, batchVars, received, switches>>

Queued == {l \in DOMAIN sent : place[l] = "queue"}

\* consume_raw begins: letters may come in any order.
TakeBatch == \E n \in 1 .. LetterBatch : \E s \in [1 .. n -> Queued] :
  /\ toDeliver = <<>> /\ seen = "none" /\ IsInjective(s)
  /\ toDeliver' = s /\ answered' = {} /\ seen' = mode
  /\ place' = [l \in DOMAIN place |-> IF l \in Range(s) THEN "batch" ELSE place[l]]
  /\ tries' = [l \in DOMAIN tries |-> IF l \in Range(s) THEN tries[l] + 1 ELSE tries[l]]
  /\ UNCHANGED <<mode, pending, sent, received, switches, troubles>>

Settled(l, where) ==
  /\ place' = [place EXCEPT ![l] = where]
  /\ toDeliver' = Tail(toDeliver)
  /\ answered' = IF where = "queue" THEN answered ELSE answered \cup {l}

\* Mutant: the last attempt is acknowledged whatever the dead-letter queue says.
FailedUnheard(l) ==
  IF tries[l] >= MaxDeliveries
  THEN \/ Settled(l, "dead") /\ UNCHANGED troubles
       \/ Trouble /\ Settled(l, "acked")
  ELSE Settled(l, "queue") /\ UNCHANGED troubles

\* After a failed delivery: retry, or on the last attempt the dead-letter
\* queue, and retry again if that does not accept.
Failed(l) ==
  IF tries[l] >= MaxDeliveries
  THEN \/ Settled(l, "dead") /\ UNCHANGED troubles
       \/ Trouble /\ Settled(l, "queue")
  ELSE Settled(l, "queue") /\ UNCHANGED troubles

\* deliver: one request with a deadline; it may arrive although it failed.
Deliver ==
  /\ toDeliver # <<>>
  /\ LET l == Head(toDeliver)
     IN \/ /\ seen = "on"
           /\ received' = received \cup {sent[l]}
           /\ Settled(l, "acked")
           /\ UNCHANGED troubles
        \/ /\ seen = "on"
           /\ received' \in {received, received \cup {sent[l]}}
           /\ Failed(l)
        \/ /\ seen # "on"
           /\ Failed(l)
           /\ UNCHANGED received
  /\ UNCHANGED <<mode, pending, sent, tries, seen, switches>>

EndBatch ==
  /\ seen # "none" /\ toDeliver = <<>>
  /\ seen' = "none" /\ answered' = {}
  /\ UNCHANGED <<mode, pending, sent, place, tries, toDeliver, received, switches, troubles>>

\* The invocation dies: what is not settled comes back, and what it had
\* acknowledged may.
Dies ==
  /\ seen # "none" /\ Trouble
  /\ \E lost \in SUBSET answered :
       place' = [l \in DOMAIN place |->
                   IF l \in lost \cup Range(toDeliver) THEN "queue" ELSE place[l]]
  /\ toDeliver' = <<>> /\ answered' = {} /\ seen' = "none"
  /\ UNCHANGED <<mode, pending, sent, tries, received, switches>>

NNext == \/ Configure \/ PublishLetter \/ TakeBatch \/ Deliver \/ EndBatch \/ Dies

-----------------------------------------------------------------------------
NTypeOK ==
  /\ mode \in {"on", "off", "broken"} /\ pending \subseteq Rows
  /\ received \subseteq Rows
  /\ Len(place) = Len(sent) /\ Len(tries) = Len(sent)
  /\ \A l \in DOMAIN sent : place[l] \in {"queue", "batch", "acked", "dead"}
  /\ {l \in DOMAIN sent : place[l] = "batch"} = Range(toDeliver)

\* Whatever fails, a row marked delivered is with the receiver, on its way, or
\* in the dead-letter queue, and a letter that left the queue any other way
\* than by a delivery had all its attempts (consume_raw acknowledges only
\* after the webhook or the dead-letter queue has answered).
NoNotificationLost ==
  /\ \A r \in Rows \ pending :
       \/ r \in received
       \/ \E l \in DOMAIN sent : sent[l] = r /\ place[l] \in {"queue", "batch", "dead"}
  /\ \A l \in DOMAIN sent :
       /\ place[l] = "acked" => sent[l] \in received
       /\ place[l] = "dead" => tries[l] >= MaxDeliveries
=============================================================================
