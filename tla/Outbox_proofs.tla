--------------------------- MODULE Outbox_proofs ---------------------------
(***************************************************************************)
(* Theorems about Outbox, for every set of events and dispatchers, every   *)
(* batch size, attempt limit and number of lost invocations, and every     *)
(* Lease > Deadline.                                                       *)
(***************************************************************************)
EXTENDS Outbox, TLAPS

(***************************************************************************)
(* The inductive invariant.  A dispatcher holds the event in its hand and  *)
(* the ones still in its batch; the invariant ties what it holds to the    *)
(* rows that name it, and the attempts to the invocations lost.            *)
(***************************************************************************)
Busy == {"delivering", "success", "failure"}
Lates == {"lateSuccess", "lateFailure"}
Holds(d, e) == e \in batch[d] \/ (pc[d] \in Busy \cup Lates /\ hand[d] = e)

\* The types, without the bound on attempts.
RowTypes ==
  /\ state \in [Events -> {"absent", "pending", "processing", "delivered", "dead"}]
  /\ attempts \in [Events -> Nat]
  /\ owner \in [Events -> Dispatchers \cup {Nobody, Ghost}]
  /\ leaseLeft \in [Events -> 0 .. Lease]
  /\ ready \in [Events -> BOOLEAN]
LocalTypes ==
  /\ happened \in SUBSET Events /\ stray \in SUBSET Events
  /\ pc \in [Dispatchers -> Live \cup Lates \cup {"idle"}]
  /\ batch \in [Dispatchers -> SUBSET Events]
  /\ hand \in [Dispatchers -> Events \cup {Nobody}]
  /\ budget \in [Dispatchers -> 0 .. Deadline]
  /\ faults \in 0 .. MaxFaults
Types == RowTypes /\ LocalTypes

\* What a dispatcher may have in hand and in its batch at each step.
Shape == \A d \in Dispatchers :
  /\ pc[d] \in Busy \cup Lates => hand[d] \in Events \ batch[d]
  /\ pc[d] \in {"idle", "ready"} => hand[d] = Nobody
  /\ pc[d] \notin Live => batch[d] = {}

\* A live dispatcher owns the rows it holds, and their leases outlive it.
Leased == \A d \in Dispatchers : pc[d] \in Live =>
  \A e \in Events : Holds(d, e) => owner[e] = d /\ leaseLeft[e] > budget[d]

\* Exactly the rows in processing have an owner, which holds them.
Owned == \A e \in Events :
  /\ owner[e] = Nobody <=> state[e] # "processing"
  /\ \A d \in Dispatchers : owner[e] = d => Holds(d, e)

\* Nothing is held or under way that was never stored.
Stored == \A e \in Events : state[e] = "absent" =>
  e \notin stray /\ \A d \in Dispatchers : ~Holds(d, e)

\* A success to be written is of an event whose effect took place.
Succeeded == \A d \in Dispatchers :
  pc[d] \in {"success", "lateSuccess"} => hand[d] \in happened

\* Only a lost invocation leaves an attempt uncounted as a failure.
Abandoned(e) ==
  /\ state[e] = "processing"
  /\ \A d \in Dispatchers : owner[e] = d => pc[d] \in Lates
Counted == \A e \in Events :
  /\ attempts[e] <= MaxAttempts + faults
  /\ state[e] \in {"absent", "pending"} => attempts[e] < MaxAttempts
  /\ Abandoned(e) => attempts[e] < MaxAttempts + faults

Inv == Types /\ Shape /\ Leased /\ Owned /\ Stored /\ Succeeded /\ Counted

-----------------------------------------------------------------------------
\* What a write of a result does to the rows: nothing unless the dispatcher
\* owns the row, whose lease it then ends.
LEMMA WriteFacts ==
  ASSUME RowTypes, NEW d \in Dispatchers, hand[d] \in Events,
         NEW v \in {"success", "failure"}, WriteResult(d, v)
  PROVE  /\ RowTypes' /\ attempts' = attempts
         /\ \A e \in Events : e # hand[d] =>
              /\ state'[e] = state[e] /\ owner'[e] = owner[e]
              /\ leaseLeft'[e] = leaseLeft[e]
         /\ MayWrite(d) => /\ state'[hand[d]] = Settled(hand[d], v)
                           /\ owner'[hand[d]] = Nobody
         /\ ~MayWrite(d) => UNCHANGED rows
<1>1. CASE MayWrite(d)
  <2>1. Close(hand[d], Settled(hand[d], v))
    BY <1>1 DEF WriteResult
  <2>2. Settled(hand[d], v) \in {"delivered", "dead", "pending"}
    BY DEF Settled
  <2> HIDE DEF Settled
  <2>3. /\ state' \in [Events -> {"absent", "pending", "processing", "delivered", "dead"}]
        /\ attempts' = attempts
        /\ owner' \in [Events -> Dispatchers \cup {Nobody, Ghost}]
        /\ ready' \in [Events -> BOOLEAN]
    BY <2>1, <2>2 DEF Close, RowTypes
  <2>4. leaseLeft' \in [Events -> 0 .. Lease]
    BY <2>1, LimitAssumption DEF Close, RowTypes
  <2>5. /\ \A e \in Events : e # hand[d] =>
              /\ state'[e] = state[e] /\ owner'[e] = owner[e]
              /\ leaseLeft'[e] = leaseLeft[e]
        /\ state'[hand[d]] = Settled(hand[d], v)
        /\ owner'[hand[d]] = Nobody
    BY <2>1 DEF Close, RowTypes
  <2> QED BY <1>1, <2>3, <2>4, <2>5 DEF RowTypes
<1>2. CASE ~MayWrite(d)
  BY <1>2 DEF WriteResult, rows, RowTypes
<1> QED BY <1>1, <1>2

LEMMA LeaveFacts ==
  ASSUME RowTypes, NEW d \in Dispatchers, NEW kept, Leave(d, kept)
  PROVE  /\ owner' \in [Events -> Dispatchers \cup {Nobody, Ghost}]
         /\ \A e \in Events :
              owner'[e] = IF owner[e] = d /\ e \notin kept THEN Ghost ELSE owner[e]
BY DEF Leave, RowTypes

\* What a claim of the events in B does.
Took(d, B) ==
  /\ state' = [e \in Events |-> IF e \in B THEN "processing" ELSE state[e]]
  /\ attempts' = [e \in Events |-> IF e \in B THEN attempts[e] + 1 ELSE attempts[e]]
  /\ owner' = [e \in Events |-> IF e \in B THEN d ELSE owner[e]]
  /\ leaseLeft' = [e \in Events |-> IF e \in B THEN Lease ELSE leaseLeft[e]]
  /\ batch' = [batch EXCEPT ![d] = B]
  /\ \A e \in B : Claimable(e)

LEMMA ClaimFacts ==
  ASSUME NEW d \in Dispatchers, Claim(d)
  PROVE  \E B \in SUBSET Events : Took(d, B)
<1>1. ASSUME NEW enabled \in BOOLEAN, NEW B \in Batches(Candidates(enabled))
      PROVE  B \in SUBSET Events /\ \A e \in B : Claimable(e)
  BY DEF Batches, Candidates
<1> QED BY <1>1 DEF Claim, Took

\* Every step keeps the types.
LEMMA TypesStep ==
  ASSUME Types, Shape, [Next]_vars
  PROVE  Types'
<1> USE LimitAssumption DEF Types, LocalTypes, Live, Lates, Busy,
        rows, local, effects
<1>1. CASE Tick
  <2>1. leaseLeft' \in [Events -> 0 .. Lease]
    BY <1>1 DEF Tick, RowTypes
  <2>2. budget' \in [Dispatchers -> 0 .. Deadline]
    BY <1>1 DEF Tick
  <2> QED BY <1>1, <2>1, <2>2 DEF Tick, RowTypes
<1>2. ASSUME NEW e \in Events, Enqueue(e) \/ Mature(e) \/ StrayEnds(e) PROVE Types'
  BY <1>2 DEF Enqueue, Mature, StrayEnds, RowTypes
<1>3. ASSUME NEW d \in Dispatchers, Claim(d) PROVE Types'
  <2>1. PICK B \in SUBSET Events : Took(d, B)
    BY <1>3, ClaimFacts
  <2>3. RowTypes'
    BY <1>3, <2>1 DEF Claim, Took, RowTypes
  <2>4. LocalTypes'
    BY <1>3, <2>1 DEF Claim, Took
  <2> QED BY <2>3, <2>4
<1>4. ASSUME NEW d \in Dispatchers, TakeUp(d) PROVE Types'
  BY <1>4 DEF TakeUp, RowTypes
<1>5. ASSUME NEW d \in Dispatchers, Deliver(d) PROVE Types'
  <2>1. hand[d] \in Events
    BY <1>5 DEF Deliver, Shape
  <2> QED BY <1>5, <2>1 DEF Deliver, Answered, TimedOut, RowTypes
<1>6. ASSUME NEW d \in Dispatchers, Mark(d) PROVE Types'
  <2>1. hand[d] \in Events
    BY <1>6 DEF Mark, Shape
  <2>2. RowTypes'
    BY <1>6, <2>1, WriteFacts DEF Mark
  <2> QED BY <1>6, <2>2 DEF Mark
<1>7. ASSUME NEW d \in Dispatchers, LateMark(d) PROVE Types'
  <2>1. hand[d] \in Events
    BY <1>7 DEF LateMark, Shape
  <2>2. RowTypes'
    BY <1>7, <2>1, WriteFacts DEF LateMark
  <2> QED BY <1>7, <2>2 DEF LateMark
<1>8. ASSUME NEW d \in Dispatchers, LateLost(d) PROVE Types'
  BY <1>8, LeaveFacts DEF LateLost, RowTypes
<1>9. ASSUME NEW d \in Dispatchers, Finish(d) PROVE Types'
  BY <1>9 DEF Finish, RowTypes
<1>10. ASSUME NEW d \in Dispatchers, Abandon(d) PROVE Types'
  <2>1. PICK kept : Leave(d, kept)
    BY <1>10 DEF Abandon
  <2>2. RowTypes'
    BY <1>10, <2>1, LeaveFacts DEF Abandon, RowTypes
  <2>3. stray' \in SUBSET Events
    BY <1>10 DEF Abandon, Shape
  <2>4. /\ pc' \in [Dispatchers -> Live \cup Lates \cup {"idle"}]
        /\ hand' \in [Dispatchers -> Events \cup {Nobody}]
    BY <1>10 DEF Abandon
  <2> QED BY <1>10, <2>2, <2>3, <2>4 DEF Abandon
<1>11. CASE UNCHANGED vars
  BY <1>11 DEF vars, RowTypes
<1> QED
  BY <1>1, <1>2, <1>3, <1>4, <1>5, <1>6, <1>7, <1>8, <1>9, <1>10, <1>11
     DEF Next, Advance, Late

-----------------------------------------------------------------------------
(***************************************************************************)
(* One dispatcher per event: the rows a live dispatcher holds name it.     *)
(***************************************************************************)

LEMMA ShapeStep ==
  ASSUME Types, Shape, [Next]_vars
  PROVE  Shape'
<1> USE DEF Types, LocalTypes, Live, Lates, Busy, Shape, rows, local, effects
<1>1. CASE Tick
  BY <1>1 DEF Tick
<1>2. ASSUME NEW e \in Events, Enqueue(e) \/ Mature(e) \/ StrayEnds(e) PROVE Shape'
  BY <1>2 DEF Enqueue, Mature, StrayEnds
<1>3. ASSUME NEW d \in Dispatchers, Claim(d) PROVE Shape'
  BY <1>3, ClaimFacts DEF Claim, Took
<1>4. ASSUME NEW d \in Dispatchers, TakeUp(d) PROVE Shape'
  BY <1>4 DEF TakeUp
<1>5. ASSUME NEW d \in Dispatchers, Deliver(d) PROVE Shape'
  BY <1>5 DEF Deliver, Answered, TimedOut
<1>6. ASSUME NEW d \in Dispatchers, Mark(d) PROVE Shape'
  BY <1>6 DEF Mark
<1>7. ASSUME NEW d \in Dispatchers, LateMark(d) PROVE Shape'
  BY <1>7 DEF LateMark
<1>8. ASSUME NEW d \in Dispatchers, LateLost(d) PROVE Shape'
  BY <1>8 DEF LateLost
<1>9. ASSUME NEW d \in Dispatchers, Finish(d) PROVE Shape'
  BY <1>9 DEF Finish
<1>10. ASSUME NEW d \in Dispatchers, Abandon(d) PROVE Shape'
  BY <1>10 DEF Abandon
<1>11. CASE UNCHANGED vars
  BY <1>11 DEF vars
<1> QED
  BY <1>1, <1>2, <1>3, <1>4, <1>5, <1>6, <1>7, <1>8, <1>9, <1>10, <1>11
     DEF Next, Advance, Late

LEMMA LeasedStep ==
  ASSUME Types, Shape, Leased, Owned, [Next]_vars
  PROVE  Leased'
<1> USE LimitAssumption DEF Types, LocalTypes, Live, Lates, Busy, Leased, Holds,
        rows, local, effects
<1>1. CASE Tick
  <2>1. ASSUME NEW d \in Dispatchers, pc[d] \in Live, NEW e \in Events, Holds(d, e)
        PROVE  leaseLeft'[e] > budget'[d]
    <3>1. leaseLeft[e] > budget[d] /\ budget[d] > 0
      BY <1>1, <2>1 DEF Tick
    <3>2. leaseLeft[e] \in Nat /\ budget[d] \in Nat
      BY DEF RowTypes
    <3> QED BY <1>1, <3>1, <3>2 DEF Tick
  <2> QED BY <1>1, <2>1 DEF Tick
<1>2. ASSUME NEW e \in Events, Enqueue(e) \/ Mature(e) \/ StrayEnds(e) PROVE Leased'
  BY <1>2 DEF Enqueue, Mature, StrayEnds
<1>3. ASSUME NEW d \in Dispatchers, Claim(d) PROVE Leased'
  <2>1. PICK B \in SUBSET Events : Took(d, B)
    BY <1>3, ClaimFacts
  <2>2. ASSUME NEW c \in Dispatchers, pc'[c] \in Live, c # d,
               NEW e \in Events, Holds(c, e)'
        PROVE  owner'[e] = c /\ leaseLeft'[e] > budget'[c]
    <3>1. owner[e] = c /\ leaseLeft[e] > budget[c]
      BY <1>3, <2>1, <2>2 DEF Claim, Took
    <3>2. e \notin B
      <4>1. state[e] = "processing"
        BY <3>1, OwnerAssumption DEF Owned
      <4>2. leaseLeft[e] # 0
        BY <3>1 DEF RowTypes
      <4> QED BY <2>1, <4>1, <4>2 DEF Took, Claimable
    <3> QED BY <1>3, <2>1, <2>2, <3>1, <3>2 DEF Claim, Took, RowTypes
  <2>3. ASSUME NEW e \in Events, Holds(d, e)'
        PROVE  owner'[e] = d /\ leaseLeft'[e] > budget'[d]
    <3>1. e \in B
      BY <1>3, <2>1, <2>3 DEF Claim, Took
    <3> QED BY <1>3, <2>1, <3>1 DEF Claim, Took, RowTypes
  <2> QED BY <2>2, <2>3
<1>4. ASSUME NEW d \in Dispatchers, TakeUp(d) PROVE Leased'
  BY <1>4 DEF TakeUp, Shape
<1>5. ASSUME NEW d \in Dispatchers, Deliver(d) PROVE Leased'
  BY <1>5 DEF Deliver, Answered, TimedOut
<1>6. ASSUME NEW d \in Dispatchers,
             Mark(d) \/ LateMark(d)
      PROVE  Leased'
  <2>1. /\ hand[d] \in Events \ batch[d]
        /\ WriteResult(d, "success") \/ WriteResult(d, "failure")
        /\ UNCHANGED <<batch, budget>>
        /\ \A c \in Dispatchers \ {d} : pc'[c] = pc[c] /\ hand'[c] = hand[c]
        /\ pc'[d] \in {"ready", "idle"}
        /\ pc'[d] = "ready" => pc[d] \in Live
        /\ pc'[d] = "idle" => batch[d] = {}
    BY <1>6 DEF Mark, LateMark, Shape
  <2>2. \A e \in Events : e # hand[d] \/ ~MayWrite(d) =>
          owner'[e] = owner[e] /\ leaseLeft'[e] = leaseLeft[e]
    BY <2>1, WriteFacts
  <2>3. ASSUME NEW c \in Dispatchers, pc'[c] \in Live, NEW e \in Events, Holds(c, e)'
        PROVE  pc[c] \in Live /\ Holds(c, e) /\ (e # hand[d] \/ ~MayWrite(d))
    <3>1. CASE c = d
      BY <2>1, <2>3, <3>1
    <3>2. CASE c # d
      BY <2>1, <2>3, <3>2 DEF MayWrite
    <3> QED BY <3>1, <3>2
  <2> QED BY <2>1, <2>2, <2>3
<1>7. ASSUME NEW d \in Dispatchers, LateLost(d) PROVE Leased'
  BY <1>7, LeaveFacts DEF LateLost
<1>8. ASSUME NEW d \in Dispatchers, Finish(d) PROVE Leased'
  BY <1>8 DEF Finish
<1>9. ASSUME NEW d \in Dispatchers, Abandon(d) PROVE Leased'
  <2>1. PICK kept : Leave(d, kept)
    BY <1>9 DEF Abandon
  <2>2. /\ pc'[d] \notin Live /\ leaseLeft' = leaseLeft
        /\ \A c \in Dispatchers \ {d} : /\ pc'[c] = pc[c] /\ hand'[c] = hand[c]
                                       /\ batch'[c] = batch[c] /\ budget'[c] = budget[c]
    BY <1>9 DEF Abandon
  <2> QED BY <2>1, <2>2, LeaveFacts
<1>10. CASE UNCHANGED vars
  BY <1>10 DEF vars
<1> QED
  BY <1>1, <1>2, <1>3, <1>4, <1>5, <1>6, <1>7, <1>8, <1>9, <1>10
     DEF Next, Advance, Late

LEMMA OwnedStep ==
  ASSUME Types, Shape, Leased, Owned, [Next]_vars
  PROVE  Owned'
<1> USE OwnerAssumption DEF Types, LocalTypes, Live, Lates, Busy, Owned, Holds,
        rows, local, effects
<1>1. CASE Tick
  BY <1>1 DEF Tick
<1>2. ASSUME NEW e \in Events, Enqueue(e) \/ Mature(e) \/ StrayEnds(e) PROVE Owned'
  BY <1>2 DEF Enqueue, Mature, StrayEnds, RowTypes
<1>3. ASSUME NEW d \in Dispatchers, Claim(d) PROVE Owned'
  <2>1. PICK B \in SUBSET Events : Took(d, B)
    BY <1>3, ClaimFacts
  <2>2. \A e \in Events : ~Holds(d, e)
    BY <1>3 DEF Claim, Shape
  <2> QED BY <1>3, <2>1, <2>2 DEF Claim, Took, RowTypes
<1>4. ASSUME NEW d \in Dispatchers, TakeUp(d) PROVE Owned'
  BY <1>4 DEF TakeUp
<1>5. ASSUME NEW d \in Dispatchers, Deliver(d) PROVE Owned'
  BY <1>5 DEF Deliver, Answered, TimedOut
<1>6. ASSUME NEW d \in Dispatchers, Mark(d) \/ LateMark(d) PROVE Owned'
  <2>1. /\ hand[d] \in Events
        /\ UNCHANGED batch
        /\ \A c \in Dispatchers \ {d} : pc'[c] = pc[c] /\ hand'[c] = hand[c]
    BY <1>6 DEF Mark, LateMark, Shape
  <2>2. PICK v \in {"success", "failure"} : WriteResult(d, v)
    BY <1>6 DEF Mark, LateMark
  <2>3. Settled(hand[d], v) # "processing"
    BY DEF Settled
  <2>4. \A e \in Events : e # hand[d] => state'[e] = state[e] /\ owner'[e] = owner[e]
    BY <2>1, <2>2, WriteFacts
  <2>5. /\ MayWrite(d) => state'[hand[d]] # "processing" /\ owner'[hand[d]] = Nobody
        /\ ~MayWrite(d) => UNCHANGED rows
    BY <2>1, <2>2, <2>3, WriteFacts
  <2>6. ~MayWrite(d) => owner[hand[d]] # d
    BY <2>1 DEF MayWrite
  <2>7. ASSUME NEW e \in Events, NEW c \in Dispatchers, owner'[e] = c
        PROVE  Holds(c, e)'
    BY <2>1, <2>4, <2>5, <2>6, <2>7
  <2>8. \A e \in Events : owner'[e] = Nobody <=> state'[e] # "processing"
    BY <2>1, <2>4, <2>5
  <2> QED BY <2>7, <2>8
<1>7. ASSUME NEW d \in Dispatchers, LateLost(d) PROVE Owned'
  BY <1>7, LeaveFacts DEF LateLost
<1>8. ASSUME NEW d \in Dispatchers, Finish(d) PROVE Owned'
  BY <1>8 DEF Finish
<1>9. ASSUME NEW d \in Dispatchers, Abandon(d) PROVE Owned'
  <2>1. \A c \in Dispatchers \ {d} :
          pc'[c] = pc[c] /\ hand'[c] = hand[c] /\ batch'[c] = batch[c]
    BY <1>9 DEF Abandon
  <2>2. PICK kept :
          /\ Leave(d, kept)
          /\ \/ kept = {}
             \/ kept = {hand[d]} /\ pc'[d] \in Lates /\ UNCHANGED hand
    BY <1>9 DEF Abandon
  <2>3. state' = state
    BY <1>9 DEF Abandon
  <2>4. \A e \in Events : owner'[e] = IF owner[e] = d /\ e \notin kept THEN Ghost ELSE owner[e]
    BY <2>2, LeaveFacts
  <2> QED BY <2>1, <2>2, <2>3, <2>4
<1>10. CASE UNCHANGED vars
  BY <1>10 DEF vars
<1> QED
  BY <1>1, <1>2, <1>3, <1>4, <1>5, <1>6, <1>7, <1>8, <1>9, <1>10
     DEF Next, Advance, Late

-----------------------------------------------------------------------------
(***************************************************************************)
(* Effects are of stored events, and a success is written after its effect.*)
(***************************************************************************)

LEMMA StoredStep ==
  ASSUME Types, Shape, Owned, Stored, [Next]_vars
  PROVE  Stored'
<1> USE DEF Types, LocalTypes, Live, Lates, Busy, Stored, Holds, rows, local, effects
<1>1. CASE Tick
  BY <1>1 DEF Tick
<1>2. ASSUME NEW e \in Events, Enqueue(e) \/ Mature(e) \/ StrayEnds(e) PROVE Stored'
  BY <1>2 DEF Enqueue, Mature, StrayEnds, RowTypes
<1>3. ASSUME NEW d \in Dispatchers, Claim(d) PROVE Stored'
  <2>1. PICK B \in SUBSET Events : Took(d, B)
    BY <1>3, ClaimFacts
  <2> QED BY <1>3, <2>1 DEF Claim, Took, RowTypes
<1>4. ASSUME NEW d \in Dispatchers, TakeUp(d) PROVE Stored'
  BY <1>4 DEF TakeUp
<1>5. ASSUME NEW d \in Dispatchers, Deliver(d) PROVE Stored'
  BY <1>5 DEF Deliver, Answered, TimedOut
<1>6. ASSUME NEW d \in Dispatchers, Mark(d) \/ LateMark(d) PROVE Stored'
  <2>1. /\ hand[d] \in Events
        /\ UNCHANGED <<batch, stray>>
        /\ \A c \in Dispatchers \ {d} : pc'[c] = pc[c] /\ hand'[c] = hand[c]
        /\ pc'[d] \in {"ready", "idle"}
    BY <1>6 DEF Mark, LateMark, Shape
  <2>2. PICK v \in {"success", "failure"} : WriteResult(d, v)
    BY <1>6 DEF Mark, LateMark
  <2>3. Settled(hand[d], v) # "absent"
    BY DEF Settled
  <2>4. /\ \A e \in Events : e # hand[d] => state'[e] = state[e]
        /\ MayWrite(d) => state'[hand[d]] # "absent"
        /\ ~MayWrite(d) => state' = state
    BY <2>1, <2>2, <2>3, WriteFacts
  <2>5. \A e \in Events : state'[e] = "absent" => state[e] = "absent"
    BY <2>1, <2>4
  <2> QED BY <2>1, <2>5
<1>7. ASSUME NEW d \in Dispatchers, LateLost(d) PROVE Stored'
  BY <1>7 DEF LateLost
<1>8. ASSUME NEW d \in Dispatchers, Finish(d) PROVE Stored'
  BY <1>8 DEF Finish
<1>9. ASSUME NEW d \in Dispatchers, Abandon(d) PROVE Stored'
  <2>1. \A c \in Dispatchers \ {d} :
          pc'[c] = pc[c] /\ hand'[c] = hand[c] /\ batch'[c] = batch[c]
    BY <1>9 DEF Abandon
  <2>2. /\ batch'[d] = {} /\ state' = state
        /\ \/ pc'[d] = "idle"
           \/ pc[d] \in Busy /\ hand' = hand
        /\ \/ stray' = stray
           \/ pc[d] = "delivering" /\ stray' = stray \cup {hand[d]}
    BY <1>9 DEF Abandon
  <2> QED BY <2>1, <2>2
<1>10. CASE UNCHANGED vars
  BY <1>10 DEF vars
<1> QED
  BY <1>1, <1>2, <1>3, <1>4, <1>5, <1>6, <1>7, <1>8, <1>9, <1>10
     DEF Next, Advance, Late

LEMMA SucceededStep ==
  ASSUME Types, Succeeded, [Next]_vars
  PROVE  Succeeded'
<1> USE DEF Types, LocalTypes, Live, Lates, Succeeded, rows, local, effects
<1>1. CASE Tick
  BY <1>1 DEF Tick
<1>2. ASSUME NEW e \in Events, Enqueue(e) \/ Mature(e) \/ StrayEnds(e) PROVE Succeeded'
  BY <1>2 DEF Enqueue, Mature, StrayEnds
<1>3. ASSUME NEW d \in Dispatchers, Claim(d) \/ TakeUp(d) PROVE Succeeded'
  BY <1>3 DEF Claim, TakeUp
<1>4. ASSUME NEW d \in Dispatchers, Deliver(d) PROVE Succeeded'
  BY <1>4 DEF Deliver, Answered, TimedOut
<1>5. ASSUME NEW d \in Dispatchers, Mark(d) \/ LateMark(d) \/ LateLost(d) \/ Finish(d)
      PROVE  Succeeded'
  BY <1>5 DEF Mark, LateMark, LateLost, Finish
<1>6. ASSUME NEW d \in Dispatchers, Abandon(d) PROVE Succeeded'
  BY <1>6 DEF Abandon
<1>7. CASE UNCHANGED vars
  BY <1>7 DEF vars
<1> QED
  BY <1>1, <1>2, <1>3, <1>4, <1>5, <1>6, <1>7 DEF Next, Advance, Late

-----------------------------------------------------------------------------
(***************************************************************************)
(* Attempts: a claim counts one, a failure written puts an end to it below *)
(* the limit, and a fault pays for each that nobody will write.            *)
(***************************************************************************)

LEMMA CountedStep ==
  ASSUME Types, Shape, Leased, Owned, Counted, [Next]_vars
  PROVE  Counted'
<1> USE OwnerAssumption, LimitAssumption
    DEF Types, LocalTypes, RowTypes, Live, Lates, Counted, Abandoned,
        rows, local, effects
<1>1. CASE Tick
  BY <1>1 DEF Tick
<1>2. ASSUME NEW e \in Events, Enqueue(e) \/ Mature(e) \/ StrayEnds(e) PROVE Counted'
  BY <1>2 DEF Enqueue, Mature, StrayEnds
<1>3. ASSUME NEW d \in Dispatchers, Claim(d) PROVE Counted'
  <2>1. PICK B \in SUBSET Events : Took(d, B)
    BY <1>3, ClaimFacts
  <2>2. ASSUME NEW e \in B PROVE attempts[e] < MaxAttempts + faults
    <3>1. CASE state[e] = "pending"
      BY <3>1
    <3>2. CASE state[e] = "processing" /\ leaseLeft[e] = 0
      <4>1. ASSUME NEW c \in Dispatchers, owner[e] = c PROVE pc[c] \in Lates
        <5>1. Holds(c, e)
          BY <4>1 DEF Owned
        <5>2. pc[c] \notin Live
          BY <3>2, <5>1 DEF Leased
        <5> QED BY <5>1, <5>2 DEF Holds, Shape, Busy
      <4> QED BY <3>2, <4>1
    <3> QED BY <2>1, <3>1, <3>2 DEF Took, Claimable
  <2>3. /\ pc'[d] = "ready" /\ \A c \in Dispatchers \ {d} : pc'[c] = pc[c]
        /\ faults' = faults
    BY <1>3 DEF Claim
  <2>4. ASSUME NEW e \in B
        PROVE  attempts'[e] <= MaxAttempts + faults' /\ state'[e] = "processing" /\ ~Abandoned(e)'
    BY <2>1, <2>2, <2>3, <2>4 DEF Took
  <2>5. ASSUME NEW e \in Events \ B
        PROVE  /\ attempts'[e] = attempts[e] /\ state'[e] = state[e]
               /\ Abandoned(e)' => Abandoned(e)
    <3>1. attempts'[e] = attempts[e] /\ state'[e] = state[e] /\ owner'[e] = owner[e]
      BY <2>1, <2>5 DEF Took
    <3>2. ASSUME Abandoned(e)', NEW c \in Dispatchers, owner[e] = c PROVE pc[c] \in Lates
      BY <2>3, <3>1, <3>2
    <3> QED BY <3>1, <3>2
  <2> QED BY <2>3, <2>4, <2>5
<1>4. ASSUME NEW d \in Dispatchers, TakeUp(d) \/ Deliver(d) \/ Finish(d) PROVE Counted'
  <2>1. /\ UNCHANGED <<rows, faults>> /\ pc'[d] \notin Lates
        /\ \A c \in Dispatchers \ {d} : pc'[c] = pc[c]
    BY <1>4 DEF TakeUp, Deliver, Answered, TimedOut, Finish
  <2> QED BY <2>1
<1>5. ASSUME NEW d \in Dispatchers, Mark(d) \/ LateMark(d) PROVE Counted'
  <2>1. /\ hand[d] \in Events /\ pc'[d] \notin Lates /\ UNCHANGED faults
        /\ \A c \in Dispatchers \ {d} : pc'[c] = pc[c]
    BY <1>5 DEF Mark, LateMark, Shape, Busy
  <2>2. PICK v \in {"success", "failure"} : WriteResult(d, v)
    BY <1>5 DEF Mark, LateMark
  <2>3. /\ Settled(hand[d], v) \in {"delivered", "dead", "pending"}
        /\ Settled(hand[d], v) = "pending" => attempts[hand[d]] < MaxAttempts
    <3>1. attempts[hand[d]] \in Nat /\ MaxAttempts \in Nat
      BY <2>1
    <3> QED BY <3>1 DEF Settled
  <2>4. /\ attempts' = attempts
        /\ \A e \in Events : e # hand[d] => state'[e] = state[e] /\ owner'[e] = owner[e]
        /\ MayWrite(d) => state'[hand[d]] = Settled(hand[d], v)
        /\ ~MayWrite(d) => state' = state /\ owner' = owner
    BY <2>1, <2>2, WriteFacts
  <2>5. ASSUME NEW e \in Events, MayWrite(d), e = hand[d]
        PROVE  /\ state'[e] # "processing"
               /\ state'[e] \in {"absent", "pending"} => attempts[e] < MaxAttempts
    BY <2>3, <2>4, <2>5
  <2>6. ASSUME NEW e \in Events, ~MayWrite(d) \/ e # hand[d]
        PROVE  state'[e] = state[e] /\ (Abandoned(e)' => Abandoned(e))
    BY <2>1, <2>4, <2>6
  <2>7. ASSUME NEW e \in Events
        PROVE  /\ state'[e] \in {"absent", "pending"} => attempts[e] < MaxAttempts
               /\ Abandoned(e)' => attempts[e] < MaxAttempts + faults
    BY <2>5, <2>6
  <2> QED BY <2>1, <2>4, <2>7
<1>6. ASSUME NEW d \in Dispatchers, LateLost(d) PROVE Counted'
  <2>1. /\ UNCHANGED <<state, attempts, faults>> /\ pc[d] \in Lates
        /\ \A c \in Dispatchers \ {d} : pc'[c] = pc[c]
    BY <1>6 DEF LateLost
  <2>2. \A e \in Events : owner'[e] = IF owner[e] = d THEN Ghost ELSE owner[e]
    BY <1>6, LeaveFacts DEF LateLost
  <2> QED BY <2>1, <2>2
<1>7. ASSUME NEW d \in Dispatchers, Abandon(d) PROVE Counted'
  <2>1. UNCHANGED <<state, attempts>> /\ faults' = faults + 1
    BY <1>7 DEF Abandon
  <2> QED BY <2>1
<1>8. CASE UNCHANGED vars
  BY <1>8 DEF vars
<1> QED
  BY <1>1, <1>2, <1>3, <1>4, <1>5, <1>6, <1>7, <1>8 DEF Next, Advance, Late

-----------------------------------------------------------------------------
LEMMA InvInit == ASSUME Init PROVE Inv
<1> USE LimitAssumption, OwnerAssumption DEF Init
<1>1. RowTypes
  BY DEF RowTypes
<1>2. LocalTypes
  BY DEF LocalTypes
<1>3. Shape /\ Leased /\ Owned /\ Stored /\ Succeeded /\ Counted
  BY DEF Shape, Leased, Owned, Stored, Succeeded, Counted, Abandoned, Holds,
         Live, Lates, Busy
<1> QED BY <1>1, <1>2, <1>3 DEF Inv, Types

\* The inductive invariant holds in every behaviour.
THEOREM Invariant == Spec => []Inv
<1>1. Inv /\ [Next]_vars => Inv'
  BY TypesStep, ShapeStep, LeasedStep, OwnedStep, StoredStep, SucceededStep,
     CountedStep DEF Inv
<1> QED BY <1>1, InvInit, PTL DEF Spec

\* Every variable keeps its type: attempts stay within the limit and the
\* number of invocations lost.
THEOREM TypeCorrect == Spec => []TypeOK
<1>1. Inv => TypeOK
  <2>1. ASSUME Inv PROVE attempts \in [Events -> 0 .. MaxAttempts + MaxFaults]
    <3>1. \A e \in Events : attempts[e] \in 0 .. MaxAttempts + MaxFaults
      BY <2>1, LimitAssumption DEF Inv, Types, RowTypes, LocalTypes, Counted
    <3> QED BY <2>1, <3>1 DEF Inv, Types, RowTypes
  <2> QED BY <2>1 DEF Inv, Types, RowTypes, LocalTypes, TypeOK, Live, Lates
<1> QED BY <1>1, Invariant, PTL

\* No two live dispatchers have the same event to deliver.
THEOREM SoleDispatcherHolds == Spec => []SoleDispatcher
<1>1. Inv => SoleDispatcher
  <2>1. ASSUME Inv, NEW d \in Dispatchers, pc[d] \in Live, NEW e \in Has(d)
        PROVE  e \in Events /\ owner[e] = d
    <3>1. e \in Events /\ Holds(d, e)
      BY <2>1 DEF Inv, Types, LocalTypes, Shape, Has, Holds, Live, Busy, Lates
    <3> QED BY <2>1, <3>1 DEF Inv, Leased
  <2> QED BY <2>1 DEF SoleDispatcher
<1> QED BY <1>1, Invariant, PTL

-----------------------------------------------------------------------------
(***************************************************************************)
(* Refinement: only enqueuing, an effect and a result written by the owner *)
(* change what the ledger sees.                                            *)
(***************************************************************************)

\* Steps that leave the settled states alone keep the fates.
LEMMA FateKept ==
  ASSUME \A e \in Events :
           \/ state'[e] = state[e]
           \/ {state[e], state'[e]} \subseteq {"pending", "processing"}
  PROVE  fate' = fate
BY DEF fate

\* A result written is a settlement, or back to waiting, or nothing.
LEMMA WriteRefines ==
  ASSUME Types, NEW d \in Dispatchers, hand[d] \in Events,
         NEW v \in {"success", "failure"}, WriteResult(d, v),
         v = "success" => hand[d] \in happened,
         happened' = happened
  PROVE  [Ledger!Next]_<<fate, happened>>
<1>1. CASE ~MayWrite(d)
  BY <1>1, WriteFacts, FateKept DEF Types, rows
<1>2. CASE MayWrite(d)
  <2>1. /\ state[hand[d]] = "processing" /\ state'[hand[d]] = Settled(hand[d], v)
        /\ \A e \in Events : e # hand[d] => state'[e] = state[e]
    BY <1>2, WriteFacts DEF Types, MayWrite
  <2>2. CASE Settled(hand[d], v) = "pending"
    BY <2>1, <2>2, FateKept
  <2>3. CASE Settled(hand[d], v) # "pending"
    <3>1. \/ Settled(hand[d], v) = "dead"
          \/ Settled(hand[d], v) = "delivered" /\ hand[d] \in happened
      BY <2>3 DEF Settled
    <3>2. fate[hand[d]] = "waiting"
      BY <2>1 DEF fate
    <3>3. fate' = [fate EXCEPT ![hand[d]] = Settled(hand[d], v)]
      BY <2>1, <3>1 DEF fate
    <3>4. Ledger!Settle(hand[d])
      BY <3>1, <3>2, <3>3 DEF Ledger!Settle
    <3> QED BY <3>4 DEF Ledger!Next
  <2> QED BY <2>2, <2>3
<1> QED BY <1>1, <1>2

\* The effect of a stored event.
LEMMA EffectRefines ==
  ASSUME NEW e \in Events, state[e] # "absent", UNCHANGED state,
         happened' \in {happened, happened \cup {e}}
  PROVE  [Ledger!Next]_<<fate, happened>>
<1>1. fate' = fate /\ fate[e] # "absent"
  BY DEF fate
<1> QED BY <1>1 DEF Ledger!Next, Ledger!TakeEffect

LEMMA RefinementStep ==
  ASSUME Inv, [Next]_vars
  PROVE  [Ledger!Next]_<<fate, happened>>
<1> USE DEF rows, local, effects
<1>1. CASE Tick
  BY <1>1, FateKept DEF Tick
<1>2. ASSUME NEW e \in Events, Enqueue(e) PROVE [Ledger!Next]_<<fate, happened>>
  <2>1. fate[e] = "absent" /\ fate' = [fate EXCEPT ![e] = "waiting"]
    BY <1>2 DEF Enqueue, fate, Inv, Types, RowTypes
  <2>2. Ledger!Store(e)
    BY <1>2, <2>1 DEF Enqueue, Ledger!Store
  <2> QED BY <2>2 DEF Ledger!Next
<1>3. ASSUME NEW e \in Events, Mature(e) PROVE [Ledger!Next]_<<fate, happened>>
  BY <1>3, FateKept DEF Mature
<1>4. ASSUME NEW e \in Events, StrayEnds(e) PROVE [Ledger!Next]_<<fate, happened>>
  BY <1>4, EffectRefines DEF StrayEnds, Inv, Stored
<1>5. ASSUME NEW d \in Dispatchers, Claim(d) PROVE [Ledger!Next]_<<fate, happened>>
  <2>1. PICK B \in SUBSET Events : Took(d, B)
    BY <1>5, ClaimFacts
  <2>2. fate' = fate
    BY <2>1, FateKept DEF Took, Claimable
  <2> QED BY <1>5, <2>2 DEF Claim
<1>6. ASSUME NEW d \in Dispatchers, Deliver(d) PROVE [Ledger!Next]_<<fate, happened>>
  <2>1. hand[d] \in Events /\ state[hand[d]] # "absent"
    BY <1>6 DEF Deliver, Inv, Shape, Stored, Holds, Busy
  <2>2. happened' \in {happened, happened \cup {hand[d]}} /\ UNCHANGED state
    BY <1>6 DEF Deliver, Answered, TimedOut
  <2> QED BY <2>1, <2>2, EffectRefines
<1>7. ASSUME NEW d \in Dispatchers, Mark(d) \/ LateMark(d)
      PROVE  [Ledger!Next]_<<fate, happened>>
  <2>1. hand[d] \in Events /\ happened' = happened
    BY <1>7 DEF Mark, LateMark, Inv, Shape, Busy, Lates
  <2>2. PICK v \in {"success", "failure"} :
          WriteResult(d, v) /\ (v = "success" => hand[d] \in happened)
    BY <1>7 DEF Mark, LateMark, Inv, Succeeded
  <2> QED BY <2>1, <2>2, WriteRefines DEF Inv
<1>8. ASSUME NEW d \in Dispatchers,
             TakeUp(d) \/ Finish(d) \/ Abandon(d) \/ LateLost(d)
      PROVE  [Ledger!Next]_<<fate, happened>>
  <2>1. UNCHANGED <<state, happened>>
    BY <1>8 DEF TakeUp, Finish, Abandon, LateLost
  <2> QED BY <2>1, FateKept
<1>9. CASE UNCHANGED vars
  BY <1>9, FateKept DEF vars
<1> QED
  BY <1>1, <1>2, <1>3, <1>4, <1>5, <1>6, <1>7, <1>8, <1>9
     DEF Next, Advance, Late

\* The outbox implements its ledger: an event is stored, takes effect any
\* number of times and settles once, as delivered only after its effect.
THEOREM Refinement == Spec => ImplementsLedger
<1>1. Init => Ledger!Init
  BY DEF Init, Ledger!Init, fate
<1>2. Inv /\ [Next]_vars => [Ledger!Next]_<<fate, happened>>
  BY RefinementStep
<1> QED BY <1>1, <1>2, Invariant, PTL DEF Spec, Ledger!Spec, ImplementsLedger
=============================================================================
