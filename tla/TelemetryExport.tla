-------------------------- MODULE TelemetryExport --------------------------
(***************************************************************************)
(* The bounded exporter of one invocation (status-backend/telemetry/       *)
(* exporter): a queue that records join by priority, and one batch in      *)
(* flight that comes back to the head of the queue when its flush fails,   *)
(* times out or is dropped.                                                *)
(*                                                                         *)
(* Abstractions: a record is its number, in the order of enqueue; its size *)
(* and priority are functions of it; the clock is reduced to whether the   *)
(* time of the next attempt has come.                                      *)
(***************************************************************************)
EXTENDS Naturals, Sequences, FiniteSets, Functions

CONSTANTS
  RecordCapacity,  \* records, the ones in flight included
  ByteLimit,       \* bytes, the ones in flight included
  BatchSize,
  Offers,          \* bound: records
  FailedFlushes    \* bound: flushes that do not succeed

VARIABLES
  kind,       \* priority and size of every record
  enqueued,   \* records offered so far
  waiting,    \* BoundedExporter.queue
  inflight,
  exported,   \* records of successful batches, in order
  displaced,  \* <<victim, newcomer>> for every eviction
  turnedAway, \* records refused, with the queue they found
  pausing,    \* next_attempt_at has not come
  failures

Kinds == [priority : {1, 2}, bytes : {1, 2}]

TInit ==
  /\ kind \in [1 .. Offers -> Kinds]
  /\ enqueued = 0 /\ waiting = <<>> /\ inflight = <<>> /\ exported = <<>>
  /\ displaced = {} /\ turnedAway = {} /\ pausing = FALSE /\ failures = 0

\* No record is in two places, so the bytes of a queue are those of a set.
Octets(s) == UNION {{r} \X (1 .. kind[r].bytes) : r \in Range(s)}
Bytes(s) == Cardinality(Octets(s))

\* depth and bytes count what is in flight.
Full(queue, r) ==
  \/ Len(queue) + Len(inflight) >= RecordCapacity
  \/ Bytes(queue) + Bytes(inflight) + kind[r].bytes > ByteLimit

\* Records of the queue that r may displace; the lowest priority first, and of
\* those the oldest.
Lower(queue, r) == {i \in DOMAIN queue : kind[queue[i]].priority < kind[r].priority}
Victim(queue, r) == CHOOSE i \in Lower(queue, r) : \A j \in Lower(queue, r) :
  \/ kind[queue[i]].priority < kind[queue[j]].priority
  \/ kind[queue[i]].priority = kind[queue[j]].priority /\ i <= j

Without(queue, i) == SubSeq(queue, 1, i - 1) \o SubSeq(queue, i + 1, Len(queue))

\* The queue after n evictions in favour of r.
Evicted(r, n) == LET after[k \in 0 .. Len(waiting)] ==
                       IF k = 0 THEN waiting
                       ELSE Without(after[k - 1], Victim(after[k - 1], r))
                 IN after[n]

\* The loop ends when there is room, or when no victim is left.
Enough(r, n) == ~Full(Evicted(r, n), r) \/ Lower(Evicted(r, n), r) = {}
Evictions(r) == CHOOSE n \in 0 .. Len(waiting) :
                  Enough(r, n) /\ \A k \in 0 .. n - 1 : ~Enough(r, k)

\* enqueue: room is made by evictions; without enough of them the newcomer is
\* refused, and what was evicted for it is gone.
Enqueue ==
  LET r     == enqueued + 1
      queue == Evicted(r, Evictions(r))
  IN /\ enqueued < Offers
     /\ enqueued' = r
     /\ displaced' = displaced \cup
          {<<v, r>> : v \in Range(waiting) \ Range(queue)}
     /\ IF Full(queue, r)
        THEN waiting' = queue /\ turnedAway' = turnedAway \cup {<<r, queue>>}
        ELSE waiting' = Append(queue, r) /\ UNCHANGED turnedAway
     /\ UNCHANGED <<kind, inflight, exported, pausing, failures>>

\* begin: nothing while a batch is in flight or the pause lasts.
BeginFlush ==
  /\ inflight = <<>> /\ waiting # <<>> /\ ~pausing
  /\ LET n == IF Len(waiting) < BatchSize THEN Len(waiting) ELSE BatchSize
     IN /\ inflight' = SubSeq(waiting, 1, n)
        /\ waiting' = SubSeq(waiting, n + 1, Len(waiting))
  /\ UNCHANGED <<kind, enqueued, exported, displaced, turnedAway, pausing, failures>>

FlushSucceeds ==
  /\ inflight # <<>>
  /\ exported' = exported \o inflight /\ inflight' = <<>>
  /\ pausing' = FALSE
  /\ UNCHANGED <<kind, enqueued, waiting, displaced, turnedAway, failures>>

\* Mutant: the batch is pushed to the front record by record, not reversed.
RequeuedReversed ==
  [i \in DOMAIN inflight |-> inflight[Len(inflight) + 1 - i]] \o waiting

Requeued == inflight \o waiting

\* An error, the deadline, or the future being dropped (Flight.drop).
FlushFails ==
  /\ inflight # <<>> /\ failures < FailedFlushes
  /\ failures' = failures + 1
  /\ waiting' = Requeued /\ inflight' = <<>>
  /\ pausing' = TRUE
  /\ UNCHANGED <<kind, enqueued, exported, displaced, turnedAway>>

PauseEnds ==
  /\ pausing /\ pausing' = FALSE
  /\ UNCHANGED <<kind, enqueued, waiting, inflight, exported, displaced,
                 turnedAway, failures>>

TNext == \/ Enqueue \/ BeginFlush \/ FlushSucceeds \/ FlushFails \/ PauseEnds

-----------------------------------------------------------------------------
TTypeOK ==
  /\ enqueued \in 0 .. Offers /\ pausing \in BOOLEAN
  /\ Len(waiting) + Len(inflight) <= RecordCapacity
  /\ Bytes(waiting) + Bytes(inflight) <= ByteLimit

Kept == exported \o inflight \o waiting

\* The budget holds and every record is accounted for: exported, held, or
\* dropped for a reason - displaced by a record of higher priority, or refused
\* while the queue held nothing lower.  What survives keeps the order it was
\* offered in, through any number of failed, late and cancelled flushes.
ExportIsFaithful ==
  /\ 1 .. enqueued = Range(Kept) \cup {d[1] : d \in displaced} \cup {t[1] : t \in turnedAway}
  /\ \A i, j \in DOMAIN Kept : i < j => Kept[i] < Kept[j]
  /\ \A d \in displaced : kind[d[1]].priority < kind[d[2]].priority
  /\ \A t \in turnedAway : Lower(t[2], t[1]) = {}
=============================================================================
