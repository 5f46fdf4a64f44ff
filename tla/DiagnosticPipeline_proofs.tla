---------------------- MODULE DiagnosticPipeline_proofs ----------------------
(***************************************************************************)
(* Theorems about DiagnosticPipeline, for every set of events, bodies,     *)
(* messages and consumers, every policy and all attempt limits.            *)
(*                                                                         *)
(* The first half is about the ledger alone: what a fault, a recovery and  *)
(* an intervention keep of an Issue.  The second half ties what a consumer *)
(* read to the Issue its batch finds.                                      *)
(***************************************************************************)
EXTENDS DiagnosticPipeline, FiniteSetTheorems, SequenceTheorems, TLAPS

(***************************************************************************)
(* What is known of one Issue.  `known' is the dedup table: that it has    *)
(* recorded every body an Issue counted is what makes the count exact, and *)
(* what makes the event identity name one fault.                           *)
(***************************************************************************)
Counts(i) == IsFiniteSet(i.faults) /\ i.count = Cardinality(i.faults)

Heads(i) ==
  /\ \E head \in i.faults : head.event = i.lastFault /\ head.at = i.lastSeen
  /\ \A f \in i.faults : f.at <= i.lastSeen

Credits(i) == \A r \in i.credits : r.cause = i.lastFault

Recorded(i, known) == \A f \in i.faults \cup i.credits : known[f.event] = f

Sound(i, known) == Counts(i) /\ Heads(i) /\ Credits(i) /\ Recorded(i, known)

LedgerTypes ==
  /\ dedup \in [Events -> Payloads \cup {None}]
  /\ issues \in Seq(IssueType)

LedgerInv == LedgerTypes /\ \A g \in 1 .. Len(issues) : Sound(issues[g], dedup)

-----------------------------------------------------------------------------
LEMMA FieldTypes ==
  ASSUME NEW i \in IssueType
  PROVE  /\ i.state \in States /\ i.count \in Nat /\ i.recoveries \in Nat
         /\ i.lastFault \in Events /\ i.lastSeen \in Nat /\ i.revision \in Nat
         /\ i.faults \in SUBSET Payloads /\ i.credits \in SUBSET Payloads
         /\ i.count + 1 \in Nat /\ i.recoveries + 1 \in Nat
         /\ i.revision + 1 \in Nat
BY DEF IssueType

\* What is recorded stays recorded when a new event is.
LEMMA RecordsStay ==
  ASSUME NEW known \in [Events -> Payloads \cup {None}], NEW p \in Payloads,
         known[p.event] = None,
         NEW i \in IssueType, Recorded(i, known)
  PROVE  /\ Recorded(i, [known EXCEPT ![p.event] = p])
         /\ p \notin i.faults
BY PayloadAssumption DEF Recorded, IssueType

LEMMA FirstFaultSound ==
  ASSUME NEW known \in [Events -> Payloads \cup {None}], NEW p \in Payloads
  PROVE  /\ FirstFault(p) \in IssueType
         /\ Sound(FirstFault(p), [known EXCEPT ![p.event] = p])
<1> DEFINE i == FirstFault(p)
<1>1. i \in IssueType
  BY PayloadAssumption DEF FirstFault, IssueType, States
<1>2. Counts(i)
  BY FS_Singleton DEF Counts, FirstFault
<1>3. Heads(i) /\ Credits(i)
  BY PayloadAssumption DEF Heads, Credits, FirstFault
<1>4. Recorded(i, [known EXCEPT ![p.event] = p])
  BY PayloadAssumption DEF Recorded, FirstFault
<1> QED BY <1>1, <1>2, <1>3, <1>4 DEF Sound

\* One more fault that was not counted yet.
LEMMA OneMore ==
  ASSUME NEW i \in IssueType, Counts(i), NEW p \in Payloads, p \notin i.faults,
         NEW j \in IssueType, j.faults = i.faults \cup {p}, j.count = i.count + 1
  PROVE  Counts(j)
BY FS_AddElement DEF Counts, IssueType

LEMMA LateFaultSound ==
  ASSUME NEW known \in [Events -> Payloads \cup {None}], NEW p \in Payloads,
         known[p.event] = None,
         NEW i \in IssueType, Sound(i, known), OutOfOrder(i, p)
  PROVE  /\ LateFault(i, p) \in IssueType
         /\ LateFault(i, p).revision = i.revision + 1
         /\ Sound(LateFault(i, p), [known EXCEPT ![p.event] = p])
<1> DEFINE j == LateFault(i, p)
           after == [known EXCEPT ![p.event] = p]
<1>1. /\ j \in IssueType /\ j.revision = i.revision + 1
      /\ j.faults = i.faults \cup {p} /\ j.count = i.count + 1
      /\ j.lastFault = i.lastFault /\ j.lastSeen = i.lastSeen
      /\ j.credits = i.credits
  <2>1. i.faults \cup {p} \in SUBSET Payloads
    BY FieldTypes
  <2>2. j \in IssueType
    BY <2>1, FieldTypes, Zenon DEF LateFault, IssueType
  <2> QED BY <2>2 DEF LateFault, IssueType
<1>2. Recorded(i, after) /\ p \notin i.faults
  BY RecordsStay DEF Sound
<1>3. Counts(j)
  BY <1>1, <1>2, OneMore DEF Sound
<1>4. Heads(j)
  BY <1>1, PayloadAssumption DEF Sound, Heads, OutOfOrder, IssueType
<1>5. Credits(j)
  BY <1>1 DEF Sound, Credits
<1>6. Recorded(j, after)
  BY <1>1, <1>2, PayloadAssumption DEF Recorded
<1> QED BY <1>1, <1>3, <1>4, <1>5, <1>6 DEF Sound

LEMMA NextFaultSound ==
  ASSUME NEW known \in [Events -> Payloads \cup {None}], NEW p \in Payloads,
         known[p.event] = None,
         NEW i \in IssueType, Sound(i, known), ~OutOfOrder(i, p),
         i.state # "resolved"
  PROVE  /\ NextFault(i, p) \in IssueType
         /\ NextFault(i, p).revision = i.revision + 1
         /\ Sound(NextFault(i, p), [known EXCEPT ![p.event] = p])
<1> DEFINE j == NextFault(i, p)
           after == [known EXCEPT ![p.event] = p]
<1>1. StateAfterFault(i) \in States
  BY DEF StateAfterFault, IssueType, States
<1>2. /\ j \in IssueType /\ j.revision = i.revision + 1
      /\ j.faults = i.faults \cup {p} /\ j.count = i.count + 1
      /\ j.lastFault = p.event /\ j.lastSeen = p.at
      /\ j.credits = {}
  <2>1. /\ i.faults \cup {p} \in SUBSET Payloads /\ {} \in SUBSET Payloads
        /\ p.event \in Events /\ p.at \in Nat /\ 0 \in Nat
    BY FieldTypes, PayloadAssumption
  <2>2. j \in IssueType
    BY <1>1, <2>1, FieldTypes, Zenon DEF NextFault, IssueType
  <2> QED BY <2>2 DEF NextFault, IssueType
<1>3. Recorded(i, after) /\ p \notin i.faults
  BY RecordsStay DEF Sound
<1>4. Counts(j)
  BY <1>2, <1>3, OneMore DEF Sound
<1>5. \A f \in i.faults : f.at \in Nat /\ f.at <= i.lastSeen
  BY PayloadAssumption DEF Sound, Heads, IssueType
<1>6. Heads(j)
  BY <1>2, <1>5, PayloadAssumption DEF Heads, OutOfOrder, IssueType
<1>7. Credits(j)
  BY <1>2 DEF Credits
<1>8. Recorded(j, after)
  BY <1>2, <1>3, PayloadAssumption DEF Recorded
<1> QED BY <1>2, <1>4, <1>6, <1>7, <1>8 DEF Sound

\* A recovery of the causal head is credited, every other one changes nothing.
LEMMA RecoverySound ==
  ASSUME NEW known \in [Events -> Payloads \cup {None}], NEW p \in Payloads,
         known[p.event] = None,
         NEW i \in IssueType, Sound(i, known), i.state # "resolved"
  PROVE  /\ AfterRecovery(i, p) \in IssueType
         /\ \/ AfterRecovery(i, p) = i
            \/ AfterRecovery(i, p).revision = i.revision + 1
         /\ Sound(AfterRecovery(i, p), [known EXCEPT ![p.event] = p])
<1> DEFINE j == AfterRecovery(i, p)
           after == [known EXCEPT ![p.event] = p]
<1>1. Recorded(i, after)
  BY RecordsStay DEF Sound
<1>2. CASE ~Causal(i, p)
  BY <1>1, <1>2 DEF AfterRecovery, Sound
<1>3. CASE Causal(i, p)
  <2>1. Recovered(i) \in States
    BY DEF Recovered, IssueType, States
  <2>2. /\ j \in IssueType /\ j.revision = i.revision + 1
        /\ j.faults = i.faults /\ j.count = i.count
        /\ j.lastFault = i.lastFault /\ j.lastSeen = i.lastSeen
        /\ j.credits = i.credits \cup {p}
    <3>1. i.credits \cup {p} \in SUBSET Payloads
      BY FieldTypes
    <3>2. j = [i EXCEPT !.state = Recovered(i), !.recoveries = @ + 1,
                        !.revision = @ + 1, !.credits = @ \cup {p}]
      BY <1>3 DEF AfterRecovery
    <3>3. j \in IssueType
      BY <2>1, <3>1, <3>2, FieldTypes, Zenon DEF IssueType
    <3> QED BY <3>2, <3>3 DEF IssueType
  <2>3. Counts(j) /\ Heads(j)
    BY <2>2 DEF Sound, Counts, Heads
  <2>4. Credits(j)
    BY <1>3, <2>2 DEF Sound, Credits, Causal
  <2>5. Recorded(j, after)
    BY <1>1, <2>2, PayloadAssumption DEF Recorded
  <2> QED BY <2>2, <2>3, <2>4, <2>5 DEF Sound
<1> QED BY <1>2, <1>3

\* The next revision of an Issue with the same evidence.
Moved(i, j) ==
  /\ j \in IssueType /\ j.revision = i.revision + 1
  /\ j.faults = i.faults /\ j.count = i.count /\ j.credits = i.credits
  /\ j.lastFault = i.lastFault /\ j.lastSeen = i.lastSeen

\* Operators and the scheduler touch neither faults nor credits.
LEMMA InterventionSound ==
  ASSUME NEW i \in IssueType, NEW j \in Interventions(i)
  PROVE  /\ j \in IssueType /\ j.revision = i.revision + 1
         /\ \A known : Sound(i, known) => Sound(j, known)
<1>1. Moved(i, j)
  <2>1. CASE j = Acknowledged(i)
    BY <2>1 DEF Moved, Acknowledged, IssueType
  <2>2. CASE j = Suppressed(i)
    <3>1. "suppressed" \in States
      BY DEF States
    <3>2. j \in IssueType
      BY <2>2, <3>1, FieldTypes, Zenon DEF Suppressed, IssueType
    <3> QED BY <2>2, <3>2 DEF Moved, Suppressed, IssueType
  <2>3. CASE j = SuppressionExpired(i)
    <3>1. "active" \in States
      BY DEF States
    <3>2. j \in IssueType
      BY <2>3, <3>1, FieldTypes, Zenon DEF SuppressionExpired, IssueType
    <3> QED BY <2>3, <3>2 DEF Moved, SuppressionExpired, IssueType
  <2>4. ASSUME NEW next \in ProbeOutcomes(i), j = ProbeRecovered(i, next)
        PROVE  Moved(i, j)
    <3>1. next \in States
      BY <2>4 DEF ProbeOutcomes, IssueType, States
    <3>2. j \in IssueType
      BY <2>4, <3>1, FieldTypes, Zenon DEF ProbeRecovered, IssueType
    <3> QED BY <2>4, <3>2 DEF Moved, ProbeRecovered, IssueType
  <2> QED BY <2>1, <2>2, <2>3, <2>4 DEF Interventions
<1>2. ASSUME NEW known, Sound(i, known) PROVE Sound(j, known)
  BY <1>1, <1>2 DEF Moved, Sound, Counts, Heads, Credits, Recorded
<1> QED BY <1>1, <1>2 DEF Moved

-----------------------------------------------------------------------------
\* The list grows by an Issue, or its last Issue gets its next revision.
Advances(list, after) ==
  \/ after = list
  \/ Len(after) = Len(list) + 1
  \/ /\ list # <<>> /\ Len(after) = Len(list)
     /\ after[Len(list)].revision = list[Len(list)].revision + 1

AllSound(list, known) == \A g \in 1 .. Len(list) : Sound(list[g], known)

LEMMA CurrentIssue ==
  ASSUME NEW list \in Seq(IssueType), Current(list) # None
  PROVE  /\ list # <<>> /\ Len(list) \in Nat /\ Len(list) \in 1 .. Len(list)
         /\ Current(list) = list[Len(list)]
         /\ Current(list) \in IssueType /\ Current(list).state # "resolved"
<1>1. list # <<>> /\ Current(list) = list[Len(list)] /\ Current(list).state # "resolved"
  BY DEF Current
<1>2. Len(list) \in Nat \ {0}
  BY <1>1, EmptySeq
<1> QED BY <1>1, <1>2, ElementOfSeq

\* A recorded event leaves the Issues it does not touch as sound as they were.
LEMMA OthersSound ==
  ASSUME NEW known \in [Events -> Payloads \cup {None}], NEW p \in Payloads,
         known[p.event] = None, NEW i \in IssueType, Sound(i, known)
  PROVE  Sound(i, [known EXCEPT ![p.event] = p])
BY RecordsStay DEF Sound

LEMMA AppendSound ==
  ASSUME NEW list \in Seq(IssueType), NEW known,
         AllSound(list, known), NEW i \in IssueType, Sound(i, known)
  PROVE  /\ Append(list, i) \in Seq(IssueType)
         /\ Advances(list, Append(list, i))
         /\ AllSound(Append(list, i), known)
<1>1. /\ Append(list, i) \in Seq(IssueType)
      /\ Len(Append(list, i)) = Len(list) + 1 /\ Len(list) \in Nat
      /\ \A g \in 1 .. Len(list) : Append(list, i)[g] = list[g]
      /\ Append(list, i)[Len(list) + 1] = i
  OBVIOUS
<1>2. ASSUME NEW g \in 1 .. Len(list) + 1 PROVE Sound(Append(list, i)[g], known)
  <2>1. CASE g \in 1 .. Len(list)
    BY <1>1, <2>1 DEF AllSound
  <2>2. CASE g = Len(list) + 1
    BY <1>1, <2>2
  <2> QED BY <1>1, <2>1, <2>2
<1> QED BY <1>1, <1>2 DEF Advances, AllSound

LEMMA ReviseSound ==
  ASSUME NEW list \in Seq(IssueType), NEW known, AllSound(list, known),
         Len(list) \in 1 .. Len(list), NEW i \in IssueType, Sound(i, known),
         i = list[Len(list)] \/ i.revision = list[Len(list)].revision + 1
  PROVE  /\ [list EXCEPT ![Len(list)] = i] \in Seq(IssueType)
         /\ Advances(list, [list EXCEPT ![Len(list)] = i])
         /\ AllSound([list EXCEPT ![Len(list)] = i], known)
<1> DEFINE after == [list EXCEPT ![Len(list)] = i]
<1>1. /\ after \in Seq(IssueType) /\ Len(after) = Len(list)
      /\ \A g \in 1 .. Len(list) :
           after[g] = IF g = Len(list) THEN i ELSE list[g]
  BY ExceptSeq
<1>2. AllSound(after, known)
  BY <1>1 DEF AllSound
<1>3. CASE i = list[Len(list)]
  <2>1. after = list
    BY <1>1, <1>3, SeqEqual
  <2> QED BY <1>1, <1>2, <2>1 DEF Advances
<1>4. CASE i.revision = list[Len(list)].revision + 1
  <2>1. list # <<>>
    BY EmptySeq
  <2> QED BY <1>1, <1>2, <1>4, <2>1 DEF Advances
<1> QED BY <1>3, <1>4

LEMMA FaultSound ==
  ASSUME NEW known \in [Events -> Payloads \cup {None}], NEW p \in Payloads,
         known[p.event] = None,
         NEW i \in IssueType, Sound(i, known), i.state # "resolved"
  PROVE  /\ AfterFault(i, p) \in IssueType
         /\ AfterFault(i, p).revision = i.revision + 1
         /\ Sound(AfterFault(i, p), [known EXCEPT ![p.event] = p])
<1>1. CASE OutOfOrder(i, p)
  BY <1>1, LateFaultSound DEF AfterFault
<1>2. CASE ~OutOfOrder(i, p)
  BY <1>2, NextFaultSound DEF AfterFault
<1> QED BY <1>1, <1>2

\* What a payload does to the unresolved Issue.
LEMMA WriteSound ==
  ASSUME NEW list \in Seq(IssueType), NEW p \in Payloads,
         NEW known \in [Events -> Payloads \cup {None}],
         known[p.event] = None, AllSound(list, [known EXCEPT ![p.event] = p]),
         Len(list) \in 1 .. Len(list),
         NEW i \in IssueType, i = list[Len(list)], Sound(i, known),
         i # None, i.state # "resolved"
  PROVE  /\ Effect(list, i, p) \in Seq(IssueType)
         /\ Advances(list, Effect(list, i, p))
         /\ AllSound(Effect(list, i, p), [known EXCEPT ![p.event] = p])
<1> DEFINE later == [known EXCEPT ![p.event] = p]
<1>1. CASE p.signal = "fault"
  <2> DEFINE j == AfterFault(i, p)
  <2>1. Effect(list, i, p) = [list EXCEPT ![Len(list)] = j]
    BY <1>1 DEF Effect, FaultWrites
  <2>2. j \in IssueType /\ Sound(j, later) /\ j.revision = i.revision + 1
    BY FaultSound
  <2> HIDE DEF j, later
  <2> QED BY <2>1, <2>2, ReviseSound DEF later
<1>2. CASE p.signal # "fault"
  <2> DEFINE j == AfterRecovery(i, p)
  <2>1. Effect(list, i, p) = [list EXCEPT ![Len(list)] = j]
    BY <1>2 DEF Effect, RecoveryWrites
  <2>2. /\ j \in IssueType /\ Sound(j, later)
        /\ j = i \/ j.revision = i.revision + 1
    BY RecoverySound
  <2> HIDE DEF j, later
  <2> QED BY <2>1, <2>2, ReviseSound DEF later
<1> QED BY <1>1, <1>2

\* What a payload does to the ledger, evaluated against the current Issue.
LEMMA EffectSound ==
  ASSUME NEW list \in Seq(IssueType), NEW p \in Payloads,
         NEW known \in [Events -> Payloads \cup {None}],
         known[p.event] = None, AllSound(list, known)
  PROVE  /\ Effect(list, Current(list), p) \in Seq(IssueType)
         /\ Advances(list, Effect(list, Current(list), p))
         /\ AllSound(Effect(list, Current(list), p), [known EXCEPT ![p.event] = p])
<1> DEFINE i == Current(list)
           later == [known EXCEPT ![p.event] = p]
<1>1. AllSound(list, later)
  BY OthersSound, ElementOfSeq DEF AllSound
<1>2. CASE i = None
  <2>1. FirstFault(p) \in IssueType /\ Sound(FirstFault(p), later)
    BY FirstFaultSound
  <2>2. Effect(list, i, p) = Append(list, FirstFault(p)) \/ Effect(list, i, p) = list
    BY <1>2 DEF Effect, FaultWrites, RecoveryWrites
  <2> QED BY <1>1, <2>1, <2>2, AppendSound DEF Advances
<1>3. CASE i # None
  <2>1. /\ Len(list) \in 1 .. Len(list)
        /\ i = list[Len(list)] /\ i \in IssueType /\ i.state # "resolved"
    BY <1>3, CurrentIssue
  <2>2. Sound(i, known)
    BY <2>1 DEF AllSound
  <2> QED BY <1>1, <1>3, <2>1, <2>2, WriteSound
<1> QED BY <1>2, <1>3

\* An event that has taken effect is never forgotten or replaced.
Remembers == \A e \in Events : dedup[e] # None => dedup'[e] = dedup[e]

\* Every step of the ledger keeps its invariant.
LEMMA LedgerStep ==
  ASSUME LedgerInv, [Next]_ledger
  PROVE  LedgerInv' /\ Advances(issues, issues') /\ Remembers
<1> USE DEF LedgerInv, LedgerTypes
<1>0. AllSound(issues, dedup)
  BY DEF AllSound
<1>1. CASE UNCHANGED ledger
  BY <1>1 DEF ledger, Advances, Remembers
<1>2. ASSUME NEW p \in Payloads, Apply(p)
      PROVE  LedgerInv' /\ Advances(issues, issues') /\ Remembers
  <2>1. /\ dedup[p.event] = None
        /\ dedup' = [dedup EXCEPT ![p.event] = p]
        /\ issues' = Effect(issues, Current(issues), p)
    BY <1>2 DEF Apply
  <2>2. dedup' \in [Events -> Payloads \cup {None}] /\ Remembers
    BY <2>1 DEF Remembers
  <2>3. /\ issues' \in Seq(IssueType) /\ Advances(issues, issues')
        /\ AllSound(issues', dedup')
    BY <1>0, <2>1, EffectSound
  <2> QED BY <2>2, <2>3 DEF AllSound
<1>3. CASE Intervene
  <2>1. PICK j \in Interventions(Current(issues)) :
          issues' = [issues EXCEPT ![Len(issues)] = j]
    BY <1>3 DEF Intervene, Revise
  <2>2. /\ Len(issues) \in 1 .. Len(issues)
        /\ Current(issues) = issues[Len(issues)] /\ Current(issues) \in IssueType
    BY <1>3, CurrentIssue DEF Intervene
  <2>3. /\ j \in IssueType /\ Sound(j, dedup)
        /\ j.revision = issues[Len(issues)].revision + 1
    BY <1>0, <2>2, InterventionSound DEF AllSound
  <2>4. /\ issues' \in Seq(IssueType) /\ Advances(issues, issues')
        /\ AllSound(issues', dedup)
    BY <1>0, <2>1, <2>2, <2>3, ReviseSound
  <2> QED BY <1>3, <2>4 DEF Intervene, AllSound, Remembers
<1> QED BY <1>1, <1>2, <1>3 DEF Next

-----------------------------------------------------------------------------
(***************************************************************************)
(* The pipeline.  What a consumer read of the unresolved Issue is that     *)
(* Issue, as long as no other Issue was opened and its revision is the one *)
(* that was read: the revision never comes back to an earlier value.       *)
(***************************************************************************)
SeenIn(list, old, n) ==
  /\ old.state # "resolved"
  /\ n \in 1 .. Len(list)
  /\ n = Len(list) =>
       /\ old.revision <= list[n].revision
       /\ old.revision = list[n].revision => old = list[n]

Holds(c) == pc[c] # "idle" => held[c] \in Messages

Seen(c) ==
  pc[c] = "planned" /\ snap[c].issue # None =>
    SeenIn(issues, snap[c].issue, snap[c].size)

Settled(c) ==
  /\ pc[c] = "done" => dedup[Payload(c).event] = Payload(c)
  /\ pc[c] = "buried" => held[c] \in deadLetters

\* Nothing leaves the queue unsettled, and the queue delivers only what it may.
Kept(m) ==
  /\ delivery[m] = "queued" => attempts[m] < MaxDeliveries
  /\ delivery[m] \in {"acked", "dropped"} =>
       dedup[PayloadOf[m].event] = PayloadOf[m] \/ m \in deadLetters

PipelineInv ==
  /\ PipelineTypeOK /\ LedgerInv
  /\ \A c \in Consumers : Holds(c) /\ Seen(c) /\ Settled(c)
  /\ \A m \in Messages : Kept(m)

LEMMA SeenStays ==
  ASSUME NEW list \in Seq(IssueType), NEW after \in Seq(IssueType),
         Advances(list, after),
         NEW old \in IssueType, NEW n \in Nat, SeenIn(list, old, n)
  PROVE  SeenIn(after, old, n)
<1>1. /\ Len(list) \in Nat /\ Len(after) \in Nat /\ Len(list) \in 1 .. Len(list)
      /\ old.revision \in Nat
  BY LenProperties, FieldTypes DEF SeenIn
<1>2. CASE after = list
  BY <1>2
<1>3. CASE Len(after) = Len(list) + 1
  BY <1>1, <1>3 DEF SeenIn
<1>4. CASE /\ Len(after) = Len(list)
           /\ after[Len(list)].revision = list[Len(list)].revision + 1
  <2>1. list[Len(list)].revision \in Nat
    BY <1>1, ElementOfSeq, FieldTypes
  <2> QED BY <1>1, <1>4, <2>1 DEF SeenIn
<1> QED BY <1>2, <1>3, <1>4 DEF Advances

LEMMA PayloadType ==
  ASSUME PipelineTypeOK, NEW c \in Consumers, held[c] \in Messages
  PROVE  Payload(c) \in Payloads /\ Payload(c).event \in Events
BY MessageAssumption, PayloadAssumption DEF Payload

\* The guarded batch is one application of the payload to the current Issue.
LEMMA CommitApplies ==
  ASSUME PipelineInv, NEW c \in Consumers, Commit(c)
  PROVE  \/ Apply(Payload(c)) /\ Payload(c) \in Payloads
         \/ UNCHANGED ledger
<1>1. CASE dedup[Payload(c).event] = None /\ Guard(c)
  <2>1. /\ pc[c] = "planned"
        /\ dedup' = [dedup EXCEPT ![Payload(c).event] = Payload(c)]
        /\ issues' = Effect(issues, snap[c].issue, Payload(c))
    BY <1>1 DEF Commit
  <2>2. Payload(c) \in Payloads
    BY <2>1, PayloadType DEF PipelineInv, Holds
  <2>3. snap[c].issue = Current(issues)
    <3>1. CASE snap[c].issue = None
      BY <1>1, <3>1 DEF Guard
    <3>2. CASE snap[c].issue # None
      <4>1. SeenIn(issues, snap[c].issue, snap[c].size)
        BY <2>1, <3>2 DEF PipelineInv, Seen
      <4>2. /\ snap[c].size = Len(issues)
            /\ snap[c].issue.revision = issues[Len(issues)].revision
        BY <1>1, <3>2 DEF Guard
      <4>3. /\ snap[c].issue = issues[Len(issues)]
            /\ issues[Len(issues)].state # "resolved"
            /\ Len(issues) \in 1 .. Len(issues)
        BY <4>1, <4>2 DEF SeenIn
      <4>4. issues # <<>>
        BY <4>3, EmptySeq
      <4> QED BY <4>3, <4>4 DEF Current
    <3> QED BY <3>1, <3>2
  <2> QED BY <1>1, <2>1, <2>2, <2>3 DEF Apply
<1>2. CASE ~(dedup[Payload(c).event] = None /\ Guard(c))
  BY <1>2 DEF Commit, ledger
<1> QED BY <1>1, <1>2

\* The steps of a consumer that leave the ledger alone.
Aside(c) ==
  \/ \E m \in Messages : Receive(c, m)
  \/ LookUp(c) \/ TakeSnapshot(c) \/ Ack(c) \/ Retry(c) \/ DeadLetter(c)
  \/ CallFails(c) \/ Crash(c)

LEMMA AsideKeepsLedger ==
  ASSUME NEW c \in Consumers, Aside(c)
  PROVE  UNCHANGED ledger
BY DEF Aside, Receive, LookUp, TakeSnapshot, Ack, Retry, DeadLetter, CallFails,
       Crash, ledger

LEMMA PipelineRefines ==
  ASSUME PipelineInv, [PipelineNext]_vars
  PROVE  [Next]_ledger
<1>1. CASE OtherWriter
  BY <1>1 DEF OtherWriter, Next
<1>2. CASE StatusChanges \/ UNCHANGED vars
  BY <1>2 DEF StatusChanges, vars, ledger
<1>3. ASSUME NEW c \in Consumers, Commit(c) PROVE [Next]_ledger
  BY <1>3, CommitApplies DEF Next
<1>4. ASSUME NEW c \in Consumers, Aside(c) PROVE [Next]_ledger
  BY <1>4, AsideKeepsLedger
<1> QED BY <1>1, <1>2, <1>3, <1>4 DEF PipelineNext, Work, Aside

-----------------------------------------------------------------------------
\* A message goes back to the queue only as often as the queue delivers.
LEMMA RequeueKeeps ==
  ASSUME PipelineInv, NEW m \in Messages, Requeue(m), UNCHANGED <<attempts, dedup>>
  PROVE  /\ delivery' \in [Messages -> {"queued", "taken", "acked", "dropped"}]
         /\ deadLetters' \in SUBSET Messages /\ deadLetters \subseteq deadLetters'
         /\ \A n \in Messages : Kept(n)'
<1> USE DEF PipelineInv, PipelineTypeOK
<1>1. CASE attempts[m] < MaxDeliveries
  BY <1>1 DEF Requeue, Kept
<1>2. CASE ~(attempts[m] < MaxDeliveries)
  BY <1>2 DEF Requeue, Kept
<1> QED BY <1>1, <1>2

\* The variables that are no part of the ledger keep their types.
LEMMA TypesStep ==
  ASSUME PipelineInv, [PipelineNext]_vars, LedgerTypes'
  PROVE  PipelineTypeOK'
<1> USE DEF PipelineInv, PipelineTypeOK, LedgerTypes
<1>1. CASE OtherWriter
  BY <1>1, AttemptAssumption DEF OtherWriter
<1>2. CASE StatusChanges \/ UNCHANGED vars
  BY <1>2 DEF StatusChanges, vars, pipeline
<1>3. ASSUME NEW c \in Consumers, NEW m \in Messages, Receive(c, m)
      PROVE  PipelineTypeOK'
  <2>1. attempts[m] + 1 \in 0 .. MaxDeliveries
    BY <1>3, AttemptAssumption DEF Receive, Kept
  <2> QED BY <1>3, <2>1 DEF Receive
<1>4. ASSUME NEW c \in Consumers, LookUp(c) \/ DeadLetter(c) \/ CallFails(c)
      PROVE  PipelineTypeOK'
  BY <1>4 DEF LookUp, Verdict, DeadLetter, CallFails, Holds
<1>5. ASSUME NEW c \in Consumers, TakeSnapshot(c) PROVE PipelineTypeOK'
  <2>1. Current(issues) \in IssueType \cup {None} /\ Len(issues) \in Nat
    BY CurrentIssue, LenProperties
  <2> QED BY <1>5, <2>1 DEF TakeSnapshot
<1>6. ASSUME NEW c \in Consumers, Commit(c) PROVE PipelineTypeOK'
  <2>1. /\ fresh' \in SUBSET Consumers
        /\ pc' \in [Consumers ->
             {"idle", "received", "new", "planned", "done", "failed", "buried"}]
    BY <1>6 DEF Commit, Verdict
  <2> QED BY <1>6, <2>1 DEF Commit
<1>7. ASSUME NEW c \in Consumers, Drop(c)
      PROVE  /\ fresh' \in SUBSET Consumers
             /\ pc' \in [Consumers ->
                  {"idle", "received", "new", "planned", "done", "failed", "buried"}]
             /\ held' \in [Consumers -> Messages \cup {None}]
             /\ snap' \in [Consumers -> [issue : IssueType \cup {None}, size : Nat]]
  BY <1>7 DEF Drop, NoSnap
<1>8. ASSUME NEW c \in Consumers, Ack(c) PROVE PipelineTypeOK'
  BY <1>7, <1>8 DEF Ack
<1>9. ASSUME NEW c \in Consumers, Retry(c) \/ Crash(c) PROVE PipelineTypeOK'
  <2>1. held[c] \in Messages /\ Drop(c) /\ Requeue(held[c])
    BY <1>9 DEF Retry, Crash, Holds
  <2> QED BY <1>7, <1>9, <2>1, RequeueKeeps DEF Retry, Crash
<1> QED
  BY <1>1, <1>2, <1>3, <1>4, <1>5, <1>6, <1>8, <1>9 DEF PipelineNext, Work

LEMMA HoldsStep ==
  ASSUME PipelineInv, [PipelineNext]_vars, NEW d \in Consumers
  PROVE  Holds(d)'
<1> USE DEF PipelineInv, PipelineTypeOK, Holds
<1>1. CASE OtherWriter \/ StatusChanges \/ UNCHANGED vars
  BY <1>1 DEF OtherWriter, StatusChanges, vars, pipeline
<1>2. ASSUME NEW c \in Consumers, NEW m \in Messages, Receive(c, m)
      PROVE  Holds(d)'
  BY <1>2 DEF Receive
<1>3. ASSUME NEW c \in Consumers,
             LookUp(c) \/ TakeSnapshot(c) \/ Commit(c) \/ DeadLetter(c) \/ CallFails(c)
      PROVE  Holds(d)'
  <2>1. held' = held /\ pc[c] # "idle" /\ \A e \in Consumers \ {c} : pc'[e] = pc[e]
    BY <1>3 DEF LookUp, TakeSnapshot, Commit, DeadLetter, CallFails
  <2> QED BY <2>1
<1>4. ASSUME NEW c \in Consumers, Ack(c) \/ Retry(c) \/ Crash(c)
      PROVE  Holds(d)'
  BY <1>4 DEF Ack, Retry, Crash, Drop
<1> QED BY <1>1, <1>2, <1>3, <1>4 DEF PipelineNext, Work

LEMMA SeenStep ==
  ASSUME PipelineInv, [PipelineNext]_vars, LedgerTypes', Advances(issues, issues'),
         NEW d \in Consumers
  PROVE  Seen(d)'
<1> USE DEF PipelineInv, PipelineTypeOK, LedgerTypes, Seen
<1>1. CASE pc[d] = "planned" /\ UNCHANGED <<pc[d], snap[d]>>
  BY <1>1, SeenStays
<1>2. CASE pc'[d] # "planned"
  BY <1>2
<1>3. ASSUME TakeSnapshot(d) PROVE Seen(d)'
  <2>1. /\ snap'[d].issue = Current(issues) /\ snap'[d].size = Len(issues)
        /\ issues' = issues
    BY <1>3 DEF TakeSnapshot
  <2>2. CASE Current(issues) # None
    BY <2>1, <2>2, CurrentIssue, FieldTypes DEF SeenIn
  <2> QED BY <2>1, <2>2
<1>4. \/ pc[d] = "planned" /\ UNCHANGED <<pc[d], snap[d]>>
      \/ pc'[d] # "planned" \/ TakeSnapshot(d)
  <2>1. CASE OtherWriter \/ StatusChanges \/ UNCHANGED vars
    BY <2>1 DEF OtherWriter, StatusChanges, vars, pipeline
  <2>2. ASSUME NEW c \in Consumers, NEW m \in Messages, Receive(c, m)
        PROVE  <1>4
    BY <2>2 DEF Receive
  <2>3. ASSUME NEW c \in Consumers,
               \/ LookUp(c) \/ TakeSnapshot(c) \/ Commit(c) \/ DeadLetter(c)
               \/ CallFails(c)
        PROVE  <1>4
    BY <2>3 DEF LookUp, Verdict, TakeSnapshot, Commit, DeadLetter, CallFails
  <2>4. ASSUME NEW c \in Consumers, Ack(c) \/ Retry(c) \/ Crash(c) PROVE <1>4
    BY <2>4 DEF Ack, Retry, Crash, Drop
  <2> QED BY <2>1, <2>2, <2>3, <2>4 DEF PipelineNext, Work
<1> QED BY <1>1, <1>2, <1>3, <1>4

LEMMA SettledStep ==
  ASSUME PipelineInv, [PipelineNext]_vars, Remembers, NEW d \in Consumers
  PROVE  Settled(d)'
<1> USE DEF PipelineInv, PipelineTypeOK
<1>1. CASE UNCHANGED <<pc[d], held[d]>> /\ deadLetters \subseteq deadLetters'
  <2>1. Payload(d)' = Payload(d)
    BY <1>1 DEF Payload
  <2>2. CASE pc[d] = "done"
    <3>1. Payload(d) \in Payloads /\ Payload(d).event \in Events
      BY <2>2, PayloadType DEF Holds
    <3>2. dedup[Payload(d).event] = Payload(d)
      BY <2>2 DEF Settled
    <3>3. dedup'[Payload(d).event] = Payload(d)
      BY <3>1, <3>2, PayloadAssumption DEF Remembers
    <3> QED BY <1>1, <2>1, <2>2, <3>3 DEF Settled
  <2>3. CASE pc[d] # "done"
    BY <1>1, <2>3 DEF Settled
  <2> QED BY <2>2, <2>3
<1>2. CASE pc'[d] \notin {"done", "buried"}
  BY <1>2 DEF Settled
<1>3. ASSUME LookUp(d) \/ Commit(d) PROVE Settled(d)'
  <2>1. held' = held /\ Payload(d)' = Payload(d) /\ d \in DOMAIN pc
    BY <1>3 DEF LookUp, Commit, Payload
  <2>2. pc'[d] # "buried"
    BY <1>3, <2>1 DEF LookUp, Commit, Verdict
  <2>3. ASSUME pc'[d] = "done" PROVE dedup'[Payload(d).event] = Payload(d)
    <3>1. CASE LookUp(d)
      BY <2>1, <2>3, <3>1 DEF LookUp, Verdict
    <3>2. CASE Commit(d)
      <4>1. Payload(d).event \in DOMAIN dedup
        BY <3>2, PayloadType DEF Commit, Holds
      <4> QED BY <2>1, <2>3, <3>2, <4>1 DEF Commit, Verdict
    <3> QED BY <1>3, <3>1, <3>2
  <2> QED BY <2>1, <2>2, <2>3 DEF Settled
<1>4. ASSUME DeadLetter(d) PROVE Settled(d)'
  BY <1>4 DEF DeadLetter, Settled
<1>5. \/ UNCHANGED <<pc[d], held[d]>> /\ deadLetters \subseteq deadLetters'
      \/ pc'[d] \notin {"done", "buried"} \/ LookUp(d) \/ Commit(d) \/ DeadLetter(d)
  <2>1. CASE OtherWriter \/ StatusChanges \/ UNCHANGED vars
    BY <2>1 DEF OtherWriter, StatusChanges, vars, pipeline
  <2>2. ASSUME NEW c \in Consumers, NEW m \in Messages, Receive(c, m)
        PROVE  <1>5
    BY <2>2 DEF Receive
  <2>3. ASSUME NEW c \in Consumers,
               \/ LookUp(c) \/ TakeSnapshot(c) \/ Commit(c) \/ DeadLetter(c)
               \/ CallFails(c)
        PROVE  <1>5
    BY <2>3 DEF LookUp, TakeSnapshot, Commit, DeadLetter, CallFails
  <2>4. ASSUME NEW c \in Consumers, Ack(c) PROVE <1>5
    BY <2>4 DEF Ack, Drop
  <2>5. ASSUME NEW c \in Consumers, Retry(c) \/ Crash(c) PROVE <1>5
    <3>1. deadLetters \subseteq deadLetters'
      BY <2>5 DEF Retry, Crash, Requeue
    <3> QED BY <2>5, <3>1 DEF Retry, Crash, Drop
  <2> QED BY <2>1, <2>2, <2>3, <2>4, <2>5 DEF PipelineNext, Work
<1> QED BY <1>1, <1>2, <1>3, <1>4, <1>5

LEMMA KeptStep ==
  ASSUME PipelineInv, [PipelineNext]_vars, Remembers, NEW n \in Messages
  PROVE  Kept(n)'
<1> USE DEF PipelineInv, PipelineTypeOK
<1>1. ASSUME UNCHANGED <<delivery[n], attempts[n]>>, deadLetters \subseteq deadLetters'
      PROVE  Kept(n)'
  <2>1. PayloadOf[n] \in Payloads /\ PayloadOf[n].event \in Events
    BY MessageAssumption, PayloadAssumption
  <2>2. dedup[PayloadOf[n].event] = PayloadOf[n] =>
          dedup'[PayloadOf[n].event] = PayloadOf[n]
    BY <2>1, PayloadAssumption DEF Remembers
  <2> QED BY <1>1, <2>2 DEF Kept
<1>2. CASE OtherWriter \/ StatusChanges \/ UNCHANGED vars
  BY <1>1, <1>2 DEF OtherWriter, StatusChanges, vars, pipeline
<1>3. ASSUME NEW c \in Consumers, NEW m \in Messages, Receive(c, m)
      PROVE  Kept(n)'
  BY <1>1, <1>3 DEF Receive, Kept
<1>4. ASSUME NEW c \in Consumers,
             LookUp(c) \/ TakeSnapshot(c) \/ Commit(c) \/ DeadLetter(c) \/ CallFails(c)
      PROVE  Kept(n)'
  <2>1. UNCHANGED <<delivery, attempts>> /\ deadLetters \subseteq deadLetters'
    BY <1>4 DEF LookUp, TakeSnapshot, Commit, DeadLetter, CallFails
  <2> QED BY <1>1, <2>1
<1>5. ASSUME NEW c \in Consumers, Ack(c) PROVE Kept(n)'
  <2>1. /\ delivery' = [delivery EXCEPT ![held[c]] = "acked"]
        /\ UNCHANGED <<dedup, deadLetters, attempts>>
        /\ held[c] \in Messages /\ pc[c] \in {"done", "buried"}
    BY <1>5 DEF Ack, Holds
  <2>2. dedup[Payload(c).event] = Payload(c) \/ held[c] \in deadLetters
    BY <2>1 DEF Settled
  <2>3. CASE held[c] = n
    BY <2>1, <2>2, <2>3 DEF Kept, Payload
  <2>4. CASE held[c] # n
    BY <1>1, <2>1, <2>4
  <2> QED BY <2>3, <2>4
<1>6. ASSUME NEW c \in Consumers, Retry(c) \/ Crash(c) PROVE Kept(n)'
  <2>1. held[c] \in Messages /\ Requeue(held[c]) /\ UNCHANGED <<attempts, dedup>>
    BY <1>6 DEF Retry, Crash, Holds
  <2> QED BY <2>1, RequeueKeeps
<1> QED BY <1>2, <1>3, <1>4, <1>5, <1>6 DEF PipelineNext, Work

-----------------------------------------------------------------------------
\* The inductive invariant.
THEOREM Invariant == PipelineSpec => []PipelineInv
<1>1. PipelineInit => PipelineInv
  <2> SUFFICES ASSUME PipelineInit PROVE PipelineInv
    OBVIOUS
  <2>1. PipelineTypeOK
    BY AttemptAssumption DEF PipelineInit, Init, PipelineTypeOK, NoSnap
  <2>2. LedgerInv
    BY EmptySeq DEF PipelineInit, Init, LedgerInv, LedgerTypes
  <2>3. \A c \in Consumers : Holds(c) /\ Seen(c) /\ Settled(c)
    BY DEF PipelineInit, Holds, Seen, Settled
  <2>4. \A m \in Messages : Kept(m)
    BY AttemptAssumption DEF PipelineInit, Kept
  <2> QED BY <2>1, <2>2, <2>3, <2>4 DEF PipelineInv
<1>2. PipelineInv /\ [PipelineNext]_vars => PipelineInv'
  <2> SUFFICES ASSUME PipelineInv, [PipelineNext]_vars PROVE PipelineInv'
    OBVIOUS
  <2>1. LedgerInv' /\ Advances(issues, issues') /\ Remembers
    BY PipelineRefines, LedgerStep DEF PipelineInv
  <2>2. LedgerTypes'
    BY <2>1 DEF LedgerInv
  <2>3. PipelineTypeOK'
    BY <2>2, TypesStep
  <2>4. ASSUME NEW c \in Consumers PROVE Holds(c)' /\ Seen(c)' /\ Settled(c)'
    BY <2>1, <2>2, HoldsStep, SeenStep, SettledStep
  <2>5. ASSUME NEW m \in Messages PROVE Kept(m)'
    BY <2>1, KeptStep
  <2> QED BY <2>1, <2>3, <2>4, <2>5 DEF PipelineInv
<1> QED BY <1>1, <1>2, PTL DEF PipelineSpec

\* Every variable of the pipeline keeps its type.
THEOREM TypeCorrect == PipelineSpec => []PipelineTypeOK
<1>1. PipelineInv => PipelineTypeOK
  BY DEF PipelineInv
<1> QED BY <1>1, Invariant, PTL

\* The consumers keep the ledger's promise: whatever is delivered twice, in any
\* order, cut off or failed, an event takes effect at most once and as one
\* evaluation of the Issue that is current in that instant.
THEOREM Refinement == PipelineSpec => AppliesAtomically
<1>1. PipelineInit => Ledger!Init
  BY DEF PipelineInit, Init, Ledger!Init
<1>2. Next = Ledger!Next
  BY DEF Next, Apply, Intervene, Effect, FaultWrites, RecoveryWrites, FirstFault,
       AfterFault, OutOfOrder, LateFault, NextFault, StateAfterFault, Confirmed,
       AfterRecovery, Causal, Recovered, Revise, Interventions, Suppressed,
       Acknowledged, SuppressionExpired, ProbeRecovered, ProbeOutcomes, Current,
       Ledger!Next, Ledger!Apply, Ledger!Intervene, Ledger!Effect,
       Ledger!FaultWrites, Ledger!RecoveryWrites, Ledger!FirstFault,
       Ledger!AfterFault, Ledger!OutOfOrder, Ledger!LateFault, Ledger!NextFault,
       Ledger!StateAfterFault, Ledger!Confirmed, Ledger!AfterRecovery,
       Ledger!Causal, Ledger!Recovered, Ledger!Revise, Ledger!Interventions,
       Ledger!Suppressed, Ledger!Acknowledged, Ledger!SuppressionExpired,
       Ledger!ProbeRecovered, Ledger!ProbeOutcomes, Ledger!Current
<1>3. PipelineInv /\ [PipelineNext]_vars => [Ledger!Next]_(Ledger!ledger)
  BY <1>2, PipelineRefines DEF ledger, Ledger!ledger
<1> QED BY <1>1, <1>3, Invariant, PTL DEF PipelineSpec, AppliesAtomically, Ledger!Spec

\* An Issue counts every distinct fault once, and its causal head is a fault
\* that none it counted is later than.
THEOREM CausalHeadHolds == PipelineSpec => []CausalHead
<1>1. PipelineInv => CausalHead
  <2> SUFFICES ASSUME PipelineInv, NEW g \in DOMAIN issues
               PROVE  /\ issues[g].count = Cardinality(issues[g].faults)
                      /\ \E head \in issues[g].faults :
                           /\ head.event = issues[g].lastFault
                           /\ \A f \in issues[g].faults : f.at <= head.at
    BY DEF CausalHead, PipelineInv
  <2>1. Sound(issues[g], dedup)
    BY LenProperties DEF PipelineInv, LedgerInv, LedgerTypes
  <2> QED BY <2>1 DEF Sound, Counts, Heads
<1> QED BY <1>1, Invariant, PTL

\* No recovery that helped to resolve an Issue is of an older fault than the
\* Issue's latest: the identity of the fault it names is that of the head, and
\* an identity names one fault.
THEOREM CausalResolutionHolds == PipelineSpec => []CausalResolution
<1>1. PipelineInv => CausalResolution
  <2> SUFFICES ASSUME PipelineInv, NEW g \in DOMAIN issues,
                      NEW r \in issues[g].credits, NEW f \in issues[g].faults,
                      NEW cause \in issues[g].faults, cause.event = r.cause
               PROVE  f.at <= cause.at
    BY DEF CausalResolution
  <2>1. Sound(issues[g], dedup)
    BY LenProperties DEF PipelineInv, LedgerInv, LedgerTypes
  <2>2. PICK head \in issues[g].faults :
          head.event = issues[g].lastFault /\ head.at = issues[g].lastSeen
    BY <2>1 DEF Sound, Heads
  <2>3. cause.event = head.event
    BY <2>1, <2>2 DEF Sound, Credits
  <2>4. cause = head
    BY <2>1, <2>3 DEF Sound, Recorded
  <2> QED BY <2>1, <2>2, <2>4 DEF Sound, Heads
<1> QED BY <1>1, Invariant, PTL

\* No message leaves the queue unless its event took effect with its body, or
\* it is in the dead letter queue.
THEOREM NothingIsLost == PipelineSpec => []NothingLost
<1>1. PipelineInv => NothingLost
  BY DEF PipelineInv, Kept, NothingLost
<1> QED BY <1>1, Invariant, PTL
=============================================================================
