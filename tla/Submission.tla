----------------------------- MODULE Submission -----------------------------
(***************************************************************************)
(* A producer's diagnostic client and the ingestion endpoint it posts to   *)
(* (diagnostic-client/publisher, workers; status-backend/diagnostics).     *)
(*                                                                         *)
(* publish puts an event at the end of a bounded memory queue.  flush is   *)
(* one shared future: its first poll takes a snapshot of the queue's       *)
(* length and sends the head until it is settled, then the next.  An       *)
(* attempt that times out, or a future every caller dropped, aborts its    *)
(* request, which may land on the server all the same.  The server answers *)
(* 202 only after the diagnostic queue took the event; an invalid event is *)
(* refused for good, anything else is worth a retry.                       *)
(*                                                                         *)
(* Abstractions: events are numbered in the order they are published; the  *)
(* delays of backoff are steps of their own; counters without influence    *)
(* are left out.                                                           *)
(***************************************************************************)
EXTENDS Naturals, Sequences, Functions

CONSTANTS
  NEvents,      \* events the application publishes
  Capacity,     \* Options.capacity
  MaxAttempts,  \* Options.max_attempts
  MaxMishaps    \* bound: failed, late or cancelled attempts

Events == 1 .. NEvents

VARIABLES
  offered,    \* events published so far
  invalid,    \* events the server refuses: a function of their body
  queue,      \* State.queue
  refused,    \* events that found the queue full
  settled,    \* how the client let go of an event
  flush,      \* "none" or where the shared future stands
  left,       \* events of its snapshot still to settle
  attempt,    \* attempts made for the head
  answer,     \* what the request on its way has come to
  backingOff, \* next_attempt_at lies in the future
  stray,      \* requests nobody waits for any more
  inbox,      \* the diagnostic queue, in order of arrival
  mishaps

round == <<flush, left, attempt, answer, backingOff, stray>>

SInit ==
  /\ offered = 0 /\ invalid \in SUBSET Events
  /\ queue = <<>> /\ refused = {} /\ settled = [e \in Events |-> "open"]
  /\ flush = "none" /\ left = 0 /\ attempt = 0 /\ answer = "none"
  /\ backingOff = FALSE /\ stray = {} /\ inbox = <<>> /\ mishaps = 0

Mishap == mishaps < MaxMishaps /\ mishaps' = mishaps + 1

\* publish: a full queue refuses the event at once.
Publish ==
  /\ offered < NEvents
  /\ offered' = offered + 1
  /\ IF Len(queue) >= Capacity
     THEN refused' = refused \cup {offered'} /\ UNCHANGED queue
     ELSE queue' = Append(queue, offered') /\ UNCHANGED refused
  /\ UNCHANGED <<invalid, settled, round, inbox, mishaps>>

\* flush: callers share a future that is still alive.
Flush ==
  /\ flush = "none"
  /\ flush' = "unpolled"
  /\ UNCHANGED <<offered, invalid, queue, refused, settled, left, attempt,
                 answer, backingOff, stray, inbox, mishaps>>

\* The first poll of drain.
Poll ==
  /\ flush = "unpolled"
  /\ IF backingOff \/ queue = <<>>
     THEN flush' = "none" /\ UNCHANGED left
     ELSE flush' = "ready" /\ left' = Len(queue)
  /\ attempt' = 0
  /\ UNCHANGED <<offered, invalid, queue, refused, settled, answer,
                 backingOff, stray, inbox, mishaps>>

Send ==
  /\ flush = "ready"
  /\ flush' = "waiting" /\ answer' = "sent"
  /\ UNCHANGED <<offered, invalid, queue, refused, settled, left, attempt,
                 backingOff, stray, inbox, mishaps>>

Valid(e) == e \notin invalid

\* ingest: authenticate, validate, hand to the queue, answer.
Serve ==
  /\ answer = "sent"
  /\ LET e == Head(queue)
     IN \/ /\ Valid(e)
           /\ inbox' = Append(inbox, e) /\ answer' = "accepted"
           /\ UNCHANGED mishaps
        \/ /\ ~Valid(e)
           /\ answer' = "rejected"
           /\ UNCHANGED <<inbox, mishaps>>
        \/ /\ Mishap  \* authentication or queue unavailable
           /\ answer' = "failed"
           /\ UNCHANGED inbox
  /\ UNCHANGED <<offered, invalid, queue, refused, settled, flush, left,
                 attempt, backingOff, stray>>

\* The head is settled: on to the next event of the snapshot.
Settle(how) ==
  /\ settled' = [settled EXCEPT ![Head(queue)] = how]
  /\ queue' = Tail(queue)
  /\ left' = left - 1 /\ attempt' = 0
  /\ flush' = IF left > 1 THEN "ready" ELSE "none"

\* Mutant: out of attempts, the head is let go as if it had been refused.
RetryRejects ==
  IF attempt + 1 < MaxAttempts
  THEN /\ attempt' = attempt + 1 /\ flush' = "ready"
       /\ UNCHANGED <<backingOff, left, queue, settled>>
  ELSE Settle("rejected") /\ backingOff' = TRUE

\* send_with_retries: the same prepared event again; out of attempts, the
\* head stays and the round ends.
Retry ==
  /\ attempt' = attempt + 1
  /\ IF attempt' < MaxAttempts
     THEN flush' = "ready" /\ UNCHANGED <<backingOff, left>>
     ELSE flush' = "none" /\ backingOff' = TRUE /\ left' = 0
  /\ UNCHANGED <<queue, settled>>

Receive ==
  /\ flush = "waiting" /\ answer \in {"accepted", "rejected", "failed"}
  /\ answer' = "none"
  /\ \/ /\ answer = "accepted"
        /\ Settle("published") /\ backingOff' = FALSE
        /\ UNCHANGED mishaps
     \/ /\ answer = "rejected"
        /\ Settle("rejected")
        /\ UNCHANGED <<backingOff, mishaps>>
     \/ /\ answer = "failed"
        /\ Retry
        /\ UNCHANGED mishaps
     \/ /\ answer = "accepted" /\ Mishap  \* the receipt is cut off
        /\ Retry
  /\ UNCHANGED <<offered, invalid, refused, stray, inbox>>

\* The request is aborted: what has not landed yet may still do so.
Abandon == stray' = IF answer = "sent" THEN stray \cup {Head(queue)} ELSE stray

\* The deadline of one attempt.
Timeout ==
  /\ flush = "waiting" /\ Mishap
  /\ Abandon /\ answer' = "none"
  /\ Retry
  /\ UNCHANGED <<offered, invalid, refused, inbox>>

\* Every holder of the flush future is gone.
CancelFlush ==
  /\ flush # "none" /\ Mishap
  /\ flush' = "none" /\ left' = 0 /\ attempt' = 0
  /\ IF flush = "waiting" THEN Abandon ELSE UNCHANGED stray
  /\ answer' = "none"
  /\ UNCHANGED <<offered, invalid, queue, refused, settled, backingOff, inbox>>

StrayLands == \E e \in stray :
  /\ stray' = stray \ {e}
  /\ inbox' = IF Valid(e) THEN Append(inbox, e) ELSE inbox
  /\ UNCHANGED <<offered, invalid, queue, refused, settled, flush, left,
                 attempt, answer, backingOff, mishaps>>

BackoffEnds ==
  /\ backingOff
  /\ backingOff' = FALSE
  /\ UNCHANGED <<offered, invalid, queue, refused, settled, flush, left,
                 attempt, answer, stray, inbox, mishaps>>

SNext == \/ Publish \/ Flush \/ Poll \/ Send \/ Serve \/ Receive \/ Timeout
         \/ CancelFlush \/ StrayLands \/ BackoffEnds

-----------------------------------------------------------------------------
STypeOK ==
  /\ offered \in 0 .. NEvents /\ refused \subseteq 1 .. offered
  /\ Len(queue) <= Capacity /\ left <= Len(queue)
  /\ flush \in {"none", "unpolled", "ready", "waiting"}
  /\ attempt \in 0 .. MaxAttempts
  /\ flush = "waiting" <=> answer # "none"
  /\ backingOff \in BOOLEAN /\ stray \subseteq Events

FirstArrival(e) == CHOOSE i \in DOMAIN inbox :
                     inbox[i] = e /\ \A j \in 1 .. i - 1 : inbox[j] # e

\* What the client lets go of is on the server or was refused for good, and
\* however attempts fail, time out, land late or repeat, events first reach
\* the diagnostic queue in the order they were published, without a gap: a
\* recovery never overtakes the fault published before it (drain keeps the
\* head until it is settled).
DeliversInOrder ==
  /\ \A e \in Events :
       /\ settled[e] = "published" => e \in Range(inbox)
       /\ settled[e] = "rejected" => e \in invalid
  /\ \A f \in Range(inbox) : \A e \in (1 .. f - 1) \ (refused \cup invalid) :
       e \in Range(inbox) /\ FirstArrival(e) < FirstArrival(f)
=============================================================================
