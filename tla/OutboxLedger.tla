---------------------------- MODULE OutboxLedger ----------------------------
(***************************************************************************)
(* What the transactional outbox promises about each event, without        *)
(* dispatchers or leases: once stored it waits, its effect may happen any  *)
(* number of times (delivery is at least once), and it settles once and    *)
(* for all: as delivered, only after its effect happened, or as dead.      *)
(***************************************************************************)
CONSTANTS Events

VARIABLES
  fate,      \* "absent", "waiting", "delivered" or "dead"
  happened   \* events whose effect took place at least once

Init == fate = [e \in Events |-> "absent"] /\ happened = {}

Store(e) ==
  /\ fate[e] = "absent"
  /\ fate' = [fate EXCEPT ![e] = "waiting"]
  /\ UNCHANGED happened

TakeEffect(e) ==
  /\ fate[e] # "absent"
  /\ happened' = happened \cup {e}
  /\ UNCHANGED fate

Settle(e) ==
  /\ fate[e] = "waiting"
  /\ \/ e \in happened /\ fate' = [fate EXCEPT ![e] = "delivered"]
     \/ fate' = [fate EXCEPT ![e] = "dead"]
  /\ UNCHANGED happened

Next == \E e \in Events : Store(e) \/ TakeEffect(e) \/ Settle(e)

Spec == Init /\ [][Next]_<<fate, happened>>
=============================================================================
