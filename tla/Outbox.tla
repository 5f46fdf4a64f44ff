------------------------------- MODULE Outbox -------------------------------
(***************************************************************************)
(* The transactional outbox and the dispatchers that drain it              *)
(* (status-backend/src/scheduling: the second half of runtime::tick, and   *)
(* store).  A dispatcher is the tick of one Cron invocation: it leases a   *)
(* batch of rows in one UPDATE ... RETURNING, then delivers them one by    *)
(* one, writing each result under its ownership of the row.  It stops at   *)
(* the deadline, at the first failing write, or dies; rows it still leases *)
(* wait for the lease to run out.                                          *)
(*                                                                         *)
(* Abstractions.  Leases and the deadline are countdowns.  The random      *)
(* owner of an invocation that is gone is `Ghost': it never writes again,  *)
(* so all such owners look alike.  Rows may be leased in any order.        *)
(***************************************************************************)
EXTENDS Naturals, FiniteSets

CONSTANTS
  Events,       \* outbox rows that may be written
  External,     \* those of them that leave through the notification queue
  Dispatchers,  \* invocations that may be alive at once
  Nobody,       \* NULL lease_owner
  Ghost,        \* the owner of an invocation that is gone
  Lease,        \* SCHEDULER_LEASE_MS, in clock steps
  Deadline,     \* SCHEDULER_INVOCATION_DEADLINE_MS, in clock steps
  Limit,        \* SCHEDULER_OUTBOX_BATCH_SIZE
  MaxAttempts,  \* attempt_count at which a failed delivery is final (8)
  MaxFaults     \* bound: lost invocations and failed writes

ASSUME OwnerAssumption ==
  Nobody \notin Dispatchers /\ Ghost \notin Dispatchers /\ Ghost # Nobody
ASSUME LimitAssumption ==
  /\ Deadline \in Nat /\ Lease \in Nat /\ Lease > Deadline
  /\ Limit \in Nat \ {0} /\ MaxAttempts \in Nat \ {0} /\ MaxFaults \in Nat
  /\ External \subseteq Events

VARIABLES
  \* the rows
  state, attempts, owner, leaseLeft, ready,
  happened,  \* history: events whose effect took place
  stray,     \* events with an effect under way that nobody waits for
  \* per dispatcher: step, leased events not taken up yet, the one in hand,
  \* time to the deadline
  pc, batch, hand, budget,
  faults

rows == <<state, attempts, owner, leaseLeft, ready>>
local == <<pc, batch, hand, budget>>
effects == <<happened, stray>>
vars == <<rows, effects, local, faults>>

Init ==
  /\ state = [e \in Events |-> "absent"]
  /\ attempts = [e \in Events |-> 0]
  /\ owner = [e \in Events |-> Nobody]
  /\ leaseLeft = [e \in Events |-> 0]
  /\ ready = [e \in Events |-> FALSE]
  /\ happened = {} /\ stray = {}
  /\ pc = [d \in Dispatchers |-> "idle"]
  /\ batch = [d \in Dispatchers |-> {}]
  /\ hand = [d \in Dispatchers |-> Nobody]
  /\ budget = [d \in Dispatchers |-> 0]
  /\ faults = 0

\* A domain batch writes the row with its effects (or INSERT OR IGNORE: a row
\* with the same stable identity exists).
Enqueue(e) ==
  /\ state[e] = "absent"
  /\ state' = [state EXCEPT ![e] = "pending"]
  /\ ready' = [ready EXCEPT ![e] = TRUE]
  /\ UNCHANGED <<attempts, owner, leaseLeft, effects, local, faults>>

\* next_attempt_at passes.
Mature(e) ==
  /\ state[e] = "pending" /\ ~ready[e]
  /\ ready' = [ready EXCEPT ![e] = TRUE]
  /\ UNCHANGED <<state, attempts, owner, leaseLeft, effects, local, faults>>

\* Mutants: a lease that another dispatcher may take over before it ran out;
\* rows whose lease ran out are not looked at again.
ClaimableEarly(e) ==
  \/ state[e] = "pending" /\ ready[e]
  \/ state[e] = "processing" /\ leaseLeft[e] <= 1
ClaimableOnce(e) == state[e] = "pending" /\ ready[e]

Claimable(e) ==
  \/ state[e] = "pending" /\ ready[e]
  \/ state[e] = "processing" /\ leaseLeft[e] = 0

\* Events of a disabled notification sink are left alone.
Candidates(enabled) ==
  {e \in Events : Claimable(e) /\ (enabled \/ e \notin External)}

Batches(S) ==
  {B \in (SUBSET S) \ {{}} :
     Cardinality(B) = IF Cardinality(S) < Limit THEN Cardinality(S) ELSE Limit}

\* The attempt is counted by the claim, not by the delivery.
Claim(d) ==
  /\ pc[d] = "idle"
  /\ \E enabled \in BOOLEAN : \E B \in Batches(Candidates(enabled)) :
       /\ state' = [e \in Events |-> IF e \in B THEN "processing" ELSE state[e]]
       /\ attempts' = [e \in Events |-> IF e \in B THEN attempts[e] + 1
                                                  ELSE attempts[e]]
       /\ owner' = [e \in Events |-> IF e \in B THEN d ELSE owner[e]]
       /\ leaseLeft' = [e \in Events |-> IF e \in B THEN Lease ELSE leaseLeft[e]]
       /\ batch' = [batch EXCEPT ![d] = B]
  /\ pc' = [pc EXCEPT ![d] = "ready"]
  /\ budget' = [budget EXCEPT ![d] = Deadline]
  /\ UNCHANGED <<ready, effects, hand, faults>>

TakeUp(d) ==
  /\ pc[d] = "ready"
  /\ \E e \in batch[d] :
       /\ hand' = [hand EXCEPT ![d] = e]
       /\ batch' = [batch EXCEPT ![d] = @ \ {e}]
  /\ pc' = [pc EXCEPT ![d] = "delivering"]
  /\ UNCHANGED <<rows, effects, budget, faults>>

\* Mutant: a delivery that ran into its time limit counts as a success.
TimedOutDelivered(d) ==
  /\ stray' = stray \cup {hand[d]}
  /\ pc' = [pc EXCEPT ![d] = "success"]
  /\ UNCHANGED happened

\* The ten seconds are over; what was sent may still take effect, or not.
TimedOut(d) ==
  /\ stray' = stray \cup {hand[d]}
  /\ pc' = [pc EXCEPT ![d] = "failure"]
  /\ UNCHANGED happened

\* Answered; an error may hide an effect.
Answered(d) ==
  /\ \/ /\ happened' = happened \cup {hand[d]}
        /\ \E verdict \in {"success", "failure"} : pc' = [pc EXCEPT ![d] = verdict]
     \/ /\ pc' = [pc EXCEPT ![d] = "failure"]
        /\ UNCHANGED happened
  /\ UNCHANGED stray

\* deliver: internal status work, or one message to the notification queue.
Deliver(d) ==
  /\ pc[d] = "delivering"
  /\ Answered(d) \/ TimedOut(d)
  /\ UNCHANGED <<rows, batch, hand, budget, faults>>

StrayEnds(e) ==
  /\ e \in stray /\ stray' = stray \ {e}
  /\ happened' \in {happened, happened \cup {e}}
  /\ UNCHANGED <<rows, local, faults>>

\* The row as `delivered' or `failed' leaves it.
Close(e, s) ==
  /\ state' = [state EXCEPT ![e] = s]
  /\ owner' = [owner EXCEPT ![e] = Nobody]
  /\ leaseLeft' = [leaseLeft EXCEPT ![e] = 0]
  /\ ready' = [ready EXCEPT ![e] = FALSE]
  /\ UNCHANGED attempts

\* Mutant: the limit is tested one attempt late.
SettledPastLimit(e, verdict) ==
  IF verdict = "success" THEN "delivered"
  ELSE IF attempts[e] > MaxAttempts THEN "dead" ELSE "pending"

Settled(e, verdict) ==
  IF verdict = "success" THEN "delivered"
  ELSE IF attempts[e] >= MaxAttempts THEN "dead" ELSE "pending"

\* ... WHERE outbox_id = ? AND state = 'processing' AND lease_owner = ?
MayWrite(d) == state[hand[d]] = "processing" /\ owner[hand[d]] = d

WriteResult(d, verdict) ==
  IF MayWrite(d) THEN Close(hand[d], Settled(hand[d], verdict)) ELSE UNCHANGED rows

Mark(d) ==
  /\ pc[d] \in {"success", "failure"}
  /\ WriteResult(d, pc[d])
  /\ pc' = [pc EXCEPT ![d] = "ready"]
  /\ hand' = [hand EXCEPT ![d] = Nobody]
  /\ UNCHANGED <<effects, batch, budget, faults>>

\* The rows the dispatcher still leases become a ghost's.
Leave(d, kept) ==
  owner' = [e \in Events |-> IF owner[e] = d /\ e \notin kept THEN Ghost ELSE owner[e]]

\* Everything leased was delivered.
Finish(d) ==
  /\ pc[d] = "ready" /\ batch[d] = {}
  /\ pc' = [pc EXCEPT ![d] = "idle"]
  /\ budget' = [budget EXCEPT ![d] = 0]
  /\ UNCHANGED <<rows, effects, batch, hand, faults>>

\* now >= end between two events, a failing write (which aborts the tick), the
\* invocation's deadline or the loss of its isolate.  A result already sent
\* may still arrive.
Abandon(d) ==
  /\ faults < MaxFaults /\ faults' = faults + 1
  /\ pc[d] \in {"ready", "delivering", "success", "failure"}
  /\ batch' = [batch EXCEPT ![d] = {}]
  /\ budget' = [budget EXCEPT ![d] = 0]
  /\ \/ /\ pc' = [pc EXCEPT ![d] = "idle"]
        /\ hand' = [hand EXCEPT ![d] = Nobody]
        /\ Leave(d, {})
        /\ stray' = IF pc[d] = "delivering" THEN stray \cup {hand[d]} ELSE stray
     \/ /\ pc[d] = "success" /\ pc' = [pc EXCEPT ![d] = "lateSuccess"]
        /\ Leave(d, {hand[d]})
        /\ UNCHANGED <<hand, stray>>
     \/ /\ pc[d] = "failure" /\ pc' = [pc EXCEPT ![d] = "lateFailure"]
        /\ Leave(d, {hand[d]})
        /\ UNCHANGED <<hand, stray>>
  /\ UNCHANGED <<state, attempts, leaseLeft, ready, happened>>

LateMark(d) ==
  /\ \/ pc[d] = "lateSuccess" /\ WriteResult(d, "success")
     \/ pc[d] = "lateFailure" /\ WriteResult(d, "failure")
  /\ pc' = [pc EXCEPT ![d] = "idle"]
  /\ hand' = [hand EXCEPT ![d] = Nobody]
  /\ UNCHANGED <<effects, batch, budget, faults>>

LateLost(d) ==
  /\ pc[d] \in {"lateSuccess", "lateFailure"}
  /\ Leave(d, {})
  /\ pc' = [pc EXCEPT ![d] = "idle"]
  /\ hand' = [hand EXCEPT ![d] = Nobody]
  /\ UNCHANGED <<state, attempts, leaseLeft, ready, effects, batch, budget, faults>>

Live == {"ready", "delivering", "success", "failure"}

\* The clock.  A live dispatcher is cancelled before its deadline passes.
Tick ==
  /\ \A d \in Dispatchers : pc[d] \in Live => budget[d] > 0
  /\ \E e \in Events : leaseLeft[e] > 0
  /\ leaseLeft' = [e \in Events |-> IF leaseLeft[e] > 0 THEN leaseLeft[e] - 1 ELSE 0]
  /\ budget' = [d \in Dispatchers |-> IF budget[d] > 0 THEN budget[d] - 1 ELSE 0]
  /\ UNCHANGED <<state, attempts, owner, ready, effects, pc, batch, hand, faults>>

Advance(d) == TakeUp(d) \/ Deliver(d) \/ Mark(d) \/ Finish(d)
Late(d) == LateMark(d) \/ LateLost(d)

Next ==
  \/ Tick
  \/ \E e \in Events : Enqueue(e) \/ Mature(e) \/ StrayEnds(e)
  \/ \E d \in Dispatchers : Claim(d) \/ Advance(d) \/ Abandon(d) \/ Late(d)

\* Cron keeps firing, every await answers or is cancelled, time passes.
Fairness ==
  /\ WF_vars(Tick) /\ \A e \in Events : WF_vars(Mature(e))
  /\ WF_vars(\E d \in Dispatchers : Claim(d))
  /\ \A d \in Dispatchers : WF_vars(Advance(d)) /\ WF_vars(Late(d))

Spec == Init /\ [][Next]_vars
FairSpec == Spec /\ Fairness
-----------------------------------------------------------------------------
\* Type correctness.  A claim either ends in a counted failure or costs a
\* fault, so attempts stay within the limit and the invocations lost.
TypeOK ==
  /\ state \in [Events -> {"absent", "pending", "processing", "delivered", "dead"}]
  /\ attempts \in [Events -> 0 .. MaxAttempts + MaxFaults]
  /\ owner \in [Events -> Dispatchers \cup {Nobody, Ghost}]
  /\ leaseLeft \in [Events -> 0 .. Lease]
  /\ ready \in [Events -> BOOLEAN]
  /\ happened \in SUBSET Events /\ stray \in SUBSET Events
  /\ pc \in [Dispatchers -> Live \cup {"idle", "lateSuccess", "lateFailure"}]
  /\ batch \in [Dispatchers -> SUBSET Events]
  /\ hand \in [Dispatchers -> Events \cup {Nobody}]
  /\ budget \in [Dispatchers -> 0 .. Deadline]
  /\ faults \in 0 .. MaxFaults

\* No two live dispatchers have the same event to deliver: a lease outlives
\* the invocation that took it, so retries never overlap an attempt.
Has(d) == batch[d] \cup ({hand[d]} \ {Nobody})
SoleDispatcher ==
  \A c, d \in Dispatchers :
    c # d /\ pc[c] \in Live /\ pc[d] \in Live => Has(c) \cap Has(d) = {}

\* Each event is delivered only after its effect and settles once, whatever
\* writes of lost invocations still arrive.
fate == [e \in Events |-> IF state[e] \in {"pending", "processing"} THEN "waiting"
                          ELSE state[e]]
Ledger == INSTANCE OutboxLedger WITH fate <- fate, happened <- happened
ImplementsLedger == Ledger!Spec

\* "internal work continues": status work that is stored is finally settled,
\* whatever invocations are lost and whether or not notifications are enabled.
InternalWorkSettles ==
  \A e \in Events \ External : state[e] = "pending" ~> state[e] \in {"delivered", "dead"}
=============================================================================
