------------------------- MODULE MonitorRun_proofs -------------------------
(***************************************************************************)
(* Theorems about MonitorRun, for every number of invocations, locations   *)
(* and runs and every Lease > Deadline.                                    *)
(***************************************************************************)
EXTENDS MonitorRun, TLAPS

\* The inductive step of type correctness, one step per action.
LEMMA TypeStep ==
  ASSUME TypeOK, DueInRange, [Next]_vars
  PROVE  TypeOK' /\ DueInRange'
<1> USE LeaseAssumption, NobodyAssumption, BoundAssumption
<1> USE DEF TypeOK, DueInRange, row, evidence, local, Runs, NoWindows,
            Live, Late, Working
<1>1. CASE ComeDue
  BY <1>1 DEF ComeDue
<1>2. CASE UpdateMonitor
  BY <1>2 DEF UpdateMonitor
<1>3. CASE Tick
  <2>1. leaseLeft' \in 0 .. Lease
    BY <1>3 DEF Tick
  <2>2. budget' \in [Invocations -> 0 .. Deadline]
    BY <1>3 DEF Tick
  <2> QED BY <1>3, <2>1, <2>2 DEF Tick
<1>4. ASSUME NEW i \in Invocations, Scan(i) PROVE TypeOK' /\ DueInRange'
  BY <1>4 DEF Scan
<1>5. ASSUME NEW i \in Invocations, Claim(i) PROVE TypeOK' /\ DueInRange'
  BY <1>5 DEF Claim
<1>6. ASSUME NEW i \in Invocations, ClaimMissed(i) PROVE TypeOK' /\ DueInRange'
  BY <1>6 DEF ClaimMissed, Forget
<1>7. ASSUME NEW i \in Invocations, ReadLocations(i) PROVE TypeOK' /\ DueInRange'
  BY <1>7 DEF ReadLocations
<1>8. ASSUME NEW i \in Invocations, Probe(i) PROVE TypeOK' /\ DueInRange'
  BY <1>8 DEF Probe
<1>9. ASSUME NEW i \in Invocations, Evaluate(i) PROVE TypeOK' /\ DueInRange'
  <2>1. plan' \in [Invocations -> [Locations -> SUBSET Runs]]
    <3>1. PICK restarted \in SUBSET seen[i] :
            plan' = [plan EXCEPT ![i] =
              [l \in Locations |->
                 IF l \in restarted THEN {myRun[i]}
                 ELSE IF l \in seen[i] THEN window[l] \cup {myRun[i]}
                 ELSE {}]]
      BY <1>9 DEF Evaluate
    <3> DEFINE fold(l) == IF l \in restarted THEN {myRun[i]}
                          ELSE IF l \in seen[i] THEN window[l] \cup {myRun[i]}
                          ELSE {}
    <3>2. \A l \in Locations : fold(l) \in SUBSET Runs
      OBVIOUS
    <3> HIDE DEF fold
    <3>3. [l \in Locations |-> fold(l)] \in [Locations -> SUBSET Runs]
      BY <3>2
    <3>4. plan' = [plan EXCEPT ![i] = [l \in Locations |-> fold(l)]]
      BY <3>1 DEF fold
    <3> QED BY <3>3, <3>4
  <2>2. mine' \in [Invocations -> {"quiet", "diagnose"}]
    BY <1>9 DEF Evaluate
  <2> QED BY <1>9, <2>1, <2>2 DEF Evaluate
<1>10. ASSUME NEW i \in Invocations, CheckLease(i) PROVE TypeOK' /\ DueInRange'
  BY <1>10 DEF CheckLease
<1>11. ASSUME NEW i \in Invocations, LookUpEvent(i) PROVE TypeOK' /\ DueInRange'
  BY <1>11 DEF LookUpEvent
<1>12. ASSUME NEW i \in Invocations, LandDiagnostic(i) PROVE TypeOK' /\ DueInRange'
  <2>1. recorded' \in SUBSET Runs
    BY <1>12 DEF LandDiagnostic, RecordDiagnostic
  <2>2. pc' \in [Invocations -> Live \cup Late \cup {"idle"}]
    BY <1>12 DEF LandDiagnostic
  <2> QED BY <1>12, <2>1, <2>2 DEF LandDiagnostic
<1>13. ASSUME NEW i \in Invocations, SendCommit(i) PROVE TypeOK' /\ DueInRange'
  BY <1>13 DEF SendCommit
<1>14. ASSUME NEW i \in Invocations, CompleteRun(i)
       PROVE /\ run' \in 1 .. MaxRuns + 1 /\ leaseLeft' \in 0 .. Lease
             /\ enabled' \in BOOLEAN /\ due' \in BOOLEAN /\ DueInRange'
             /\ owner' \in Invocations \cup {Nobody}
             /\ locations' \in SUBSET Locations
             /\ current' \in SUBSET Invocations
             /\ window' \in [Locations -> SUBSET Runs]
             /\ outcome' \in [Runs -> {"open", "quiet", "diagnose"}]
  <2>1. CASE Fence(i)
    <3>1. myRun[i] \in Runs /\ run = myRun[i]
      BY <2>1 DEF Fence
    <3> DEFINE w(l) == IF l \in seen[i] THEN plan[i][l] ELSE window[l]
    <3>2. window' \in [Locations -> SUBSET Runs]
      <4>1. \A l \in Locations : w(l) \in SUBSET Runs
        OBVIOUS
      <4>2. window' = [l \in Locations |-> w(l)]
        BY <1>14, <2>1 DEF CompleteRun
      <4> HIDE DEF w
      <4> QED BY <4>1, <4>2
    <3>3. outcome' \in [Runs -> {"open", "quiet", "diagnose"}]
      BY <1>14, <2>1 DEF CompleteRun
    <3>4. /\ run' = run + 1 /\ due' = FALSE /\ leaseLeft' = 0
          /\ owner' = Nobody /\ current' = {}
          /\ enabled' = enabled /\ locations' = locations
      BY <1>14, <2>1 DEF CompleteRun
    <3>5. run' \in 1 .. MaxRuns + 1 /\ leaseLeft' \in 0 .. Lease
      BY <3>1, <3>4
    <3>6. DueInRange'
      BY <3>4
    <3> QED BY <3>2, <3>3, <3>4, <3>5, <3>6, Zenon
  <2>2. CASE ~Fence(i)
    BY <1>14, <2>2 DEF CompleteRun
  <2> QED BY <2>1, <2>2
<1>15. ASSUME NEW i \in Invocations, LandCommit(i) PROVE TypeOK' /\ DueInRange'
  BY <1>15, <1>14 DEF LandCommit
<1>16. ASSUME NEW i \in Invocations, Settle(i) PROVE TypeOK' /\ DueInRange'
  BY <1>16 DEF Settle, Forget
<1>17. ASSUME NEW i \in Invocations, Release(i) PROVE TypeOK' /\ DueInRange'
  BY <1>17 DEF Release, Forget
<1>18. ASSUME NEW i \in Invocations, CallFails(i) PROVE TypeOK' /\ DueInRange'
  BY <1>18 DEF CallFails
<1>19. ASSUME NEW i \in Invocations, Cancel(i) PROVE TypeOK' /\ DueInRange'
  <2>1. /\ faults' \in 0 .. MaxFaults
        /\ UNCHANGED <<enabled, locations, run, due, owner, leaseLeft, window,
                       recorded, outcome, edits>>
    BY <1>19 DEF Cancel
  <2>2. CASE pc[i] \in {"diagnosing", "committing"}
    <3>1. /\ pc' = [pc EXCEPT ![i] = "lateDiagnostic"]
             \/ pc' = [pc EXCEPT ![i] = "lateCommit"]
          /\ UNCHANGED <<current, budget, myRun, mine, seen, plan>>
      BY <1>19, <2>2 DEF Cancel
    <3> QED BY <2>1, <3>1
  <2>3. CASE pc[i] \notin {"diagnosing", "committing"}
    <3>1. pc' = [pc EXCEPT ![i] = "idle"] /\ current' = current \ {i} /\ Forget(i)
      BY <1>19, <2>3 DEF Cancel
    <3> QED BY <2>1, <3>1 DEF Forget
  <2> QED BY <2>2, <2>3
<1>20. ASSUME NEW i \in Invocations, LateDiagnostic(i) PROVE TypeOK' /\ DueInRange'
  <2>1. recorded' \in SUBSET Runs
    BY <1>20 DEF LateDiagnostic, RecordDiagnostic
  <2> QED BY <1>20, <2>1 DEF LateDiagnostic, Gone, Forget
<1>21. ASSUME NEW i \in Invocations, LateCommit(i) PROVE TypeOK' /\ DueInRange'
  BY <1>21, <1>14 DEF LateCommit, Gone, Forget
<1>22. ASSUME NEW i \in Invocations, LateLost(i) PROVE TypeOK' /\ DueInRange'
  BY <1>22 DEF LateLost, Gone, Forget
<1>23. CASE UNCHANGED vars
  BY <1>23 DEF vars
<1> QED
  BY <1>1, <1>2, <1>3, <1>4, <1>5, <1>6, <1>7, <1>8, <1>9, <1>10, <1>11,
     <1>12, <1>13, <1>15, <1>16, <1>17, <1>18, <1>19, <1>20, <1>21, <1>22,
     <1>23 DEF Next, Advance, Deliver

LEMMA TypeInit == ASSUME Init PROVE TypeOK /\ DueInRange
<1>1. window \in [Locations -> SUBSET Runs]
  BY DEF Init, NoWindows
<1>2. plan \in [Invocations -> [Locations -> SUBSET Runs]]
  BY DEF Init, NoWindows
<1>3. pc \in [Invocations -> Live \cup Late \cup {"idle"}]
  BY DEF Init
<1>4. outcome \in [Runs -> {"open", "quiet", "diagnose"}]
  BY DEF Init
<1>5. /\ budget \in [Invocations -> 0 .. Deadline]
      /\ leaseLeft \in 0 .. Lease /\ faults \in 0 .. MaxFaults
      /\ edits \in 0 .. MaxEdits /\ run \in 1 .. MaxRuns + 1
      /\ myRun \in [Invocations -> Runs]
  BY LeaseAssumption, BoundAssumption DEF Init, Runs
<1>6. /\ enabled \in BOOLEAN /\ due \in BOOLEAN /\ DueInRange
      /\ locations \in SUBSET Locations
      /\ owner \in Invocations \cup {Nobody}
      /\ current \in SUBSET Invocations /\ recorded \in SUBSET Runs
      /\ mine \in [Invocations -> {"quiet", "diagnose"}]
      /\ seen \in [Invocations -> SUBSET Locations]
  BY DEF Init, DueInRange
<1> QED BY <1>1, <1>2, <1>3, <1>4, <1>5, <1>6 DEF TypeOK

\* Every variable keeps its type in every behaviour.
THEOREM TypeCorrect == Spec => []TypeOK
<1>1. Init => TypeOK /\ DueInRange
  BY TypeInit
<1>2. TypeOK /\ DueInRange /\ [Next]_vars => (TypeOK /\ DueInRange)'
  BY TypeStep
<1> QED BY <1>1, <1>2, PTL DEF Spec

-----------------------------------------------------------------------------
(***************************************************************************)
(* One worker: an invocation at work holds a lease that outlives it, so a  *)
(* rival that finds the lease free finds nobody at work.                   *)
(***************************************************************************)

\* Steps that leave the lease alone and start nobody keep the holder.
LEMMA HolderKept ==
  ASSUME TypeOK, Holder,
         UNCHANGED <<owner, leaseLeft>>,
         \A j \in Invocations : pc'[j] \in Working =>
            pc[j] \in Working /\ budget'[j] = budget[j]
  PROVE  Holder'
BY DEF Holder

\* Ending i's lease by i itself, not at work afterwards, keeps the holder.
LEMMA HolderEnded ==
  ASSUME TypeOK, Holder, NEW i \in Invocations, owner = i,
         pc'[i] \notin Working,
         \A j \in Invocations \ {i} : pc'[j] = pc[j]
  PROVE  Holder'
BY DEF Holder

LEMMA HolderStep ==
  ASSUME TypeOK, Holder, [Next]_vars
  PROVE  Holder'
<1> USE DEF Working
<1>1. CASE ComeDue
  BY <1>1, HolderKept DEF ComeDue, local
<1>2. CASE UpdateMonitor
  BY <1>2, HolderKept DEF UpdateMonitor, local
<1>3. CASE Tick
  <2>1. ASSUME NEW j \in Invocations, pc'[j] \in Working
        PROVE  owner' = j /\ leaseLeft' > budget'[j]
    <3>1. owner = j /\ leaseLeft > budget[j] /\ budget[j] > 0
      BY <1>3, <2>1 DEF Tick, Holder, Live
    <3>2. leaseLeft \in Nat /\ budget[j] \in Nat
      BY LeaseAssumption DEF TypeOK
    <3> QED BY <1>3, <3>1, <3>2 DEF Tick
  <2> QED BY <2>1 DEF Holder
<1>4. ASSUME NEW i \in Invocations, Scan(i) PROVE Holder'
  BY <1>4, HolderKept DEF Scan, TypeOK
<1>5. ASSUME NEW i \in Invocations, Claim(i) PROVE Holder'
  <2>1. ASSUME NEW j \in Invocations, j # i PROVE pc'[j] \notin Working
    <3>1. pc'[j] = pc[j]
      BY <1>5, <2>1 DEF Claim, TypeOK
    <3>2. owner = Nobody \/ leaseLeft = 0
      BY <1>5 DEF Claim, Claimable, LeaseFree
    <3>3. budget[j] \in Nat
      BY LeaseAssumption DEF TypeOK
    <3> QED BY <3>1, <3>2, <3>3, NobodyAssumption DEF Holder
  <2>2. owner' = i /\ leaseLeft' > budget'[i]
    <3>1. leaseLeft' = Lease /\ budget'[i] \in 0 .. Deadline
      BY <1>5 DEF Claim, TypeOK
    <3> QED BY <1>5, <3>1, LeaseAssumption DEF Claim
  <2> QED BY <2>1, <2>2 DEF Holder
<1>6. ASSUME NEW i \in Invocations, ClaimMissed(i) PROVE Holder'
  BY <1>6, HolderKept DEF ClaimMissed, Forget, TypeOK
<1>7. ASSUME NEW i \in Invocations,
             \/ ReadLocations(i) \/ Probe(i) \/ Evaluate(i) \/ CheckLease(i)
             \/ LookUpEvent(i) \/ LandDiagnostic(i) \/ SendCommit(i)
             \/ CallFails(i)
      PROVE Holder'
  <2>1. UNCHANGED <<owner, leaseLeft, budget>>
    BY <1>7 DEF ReadLocations, Probe, Evaluate, CheckLease, LookUpEvent,
         LandDiagnostic, SendCommit, CallFails, row
  <2>2. /\ \A j \in Invocations \ {i} : pc'[j] = pc[j]
        /\ pc'[i] \in Working => pc[i] \in Working
    BY <1>7 DEF ReadLocations, Probe, Evaluate, CheckLease, LookUpEvent,
         LandDiagnostic, SendCommit, Committable, CallFails, TypeOK
  <2> QED BY <2>1, <2>2, HolderKept
<1>8. ASSUME NEW i \in Invocations, LandCommit(i) PROVE Holder'
  <2>1. CASE Fence(i)
    BY <1>8, <2>1, HolderEnded DEF LandCommit, Fence, TypeOK
  <2>2. CASE ~Fence(i)
    BY <1>8, <2>2, HolderKept DEF LandCommit, CompleteRun, row, TypeOK
  <2> QED BY <2>1, <2>2
<1>9. ASSUME NEW i \in Invocations, Settle(i) PROVE Holder'
  BY <1>9, HolderKept DEF Settle, Forget, row, TypeOK
<1>10. ASSUME NEW i \in Invocations, Release(i) PROVE Holder'
  <2>1. CASE owner = i
    BY <1>10, <2>1, HolderEnded DEF Release, TypeOK
  <2>2. CASE owner # i
    BY <1>10, <2>2, HolderKept DEF Release, Forget, TypeOK
  <2> QED BY <2>1, <2>2
<1>11. ASSUME NEW i \in Invocations, Cancel(i) PROVE Holder'
  <2>1. UNCHANGED <<owner, leaseLeft>> /\ pc'[i] \notin Working
    BY <1>11 DEF Cancel, TypeOK
  <2>2. \A j \in Invocations \ {i} : pc'[j] = pc[j] /\ budget'[j] = budget[j]
    BY <1>11 DEF Cancel, Forget, TypeOK
  <2> QED BY <2>1, <2>2, HolderKept
<1>12. ASSUME NEW i \in Invocations, LateDiagnostic(i) \/ LateLost(i)
       PROVE Holder'
  BY <1>12, HolderKept DEF LateDiagnostic, LateLost, Gone, Forget, TypeOK
<1>13. ASSUME NEW i \in Invocations, LateCommit(i) PROVE Holder'
  <2>1. CASE Fence(i)
    BY <1>13, <2>1, HolderEnded DEF LateCommit, Gone, Fence, TypeOK
  <2>2. CASE ~Fence(i)
    BY <1>13, <2>2, HolderKept
       DEF LateCommit, Gone, Forget, CompleteRun, row, TypeOK
  <2> QED BY <2>1, <2>2
<1>14. CASE UNCHANGED vars
  BY <1>14, HolderKept DEF vars, row, local
<1> QED
  BY <1>1, <1>2, <1>3, <1>4, <1>5, <1>6, <1>7, <1>8, <1>9, <1>10, <1>11,
     <1>12, <1>13, <1>14 DEF Next, Advance, Deliver

\* At most one live invocation works on the monitor, in every behaviour.
THEOREM OneWorkerHolds == Spec => []OneWorker
<1>1. Init => Holder
  BY DEF Init, Holder, Working
<1>2. TypeOK /\ Holder /\ [Next]_vars => Holder'
  BY HolderStep
<1>3. Holder => OneWorker
  BY DEF Holder, OneWorker
<1> QED BY <1>1, <1>2, <1>3, TypeCorrect, PTL DEF Spec

-----------------------------------------------------------------------------
(***************************************************************************)
(* What a current invocation read is what the row still says.              *)
(***************************************************************************)

\* A step of i that leaves the row alone: only i's own clause is left to show.
LEMMA SnapshotOthers ==
  ASSUME TypeOK, Snapshot, NEW i \in Invocations,
         UNCHANGED <<enabled, locations, run, window>>,
         current' \subseteq current \cup {i},
         \A j \in Invocations \ {i} :
           /\ pc'[j] = pc[j] /\ myRun'[j] = myRun[j]
           /\ seen'[j] = seen[j] /\ plan'[j] = plan[j],
         i \in current' => SnapshotOf(i)'
  PROVE  Snapshot'
<1>1. SUFFICES ASSUME NEW j \in current', j # i PROVE SnapshotOf(j)'
  BY DEF Snapshot
<1>2. j \in current /\ j \in Invocations
  BY <1>1 DEF TypeOK
<1> QED BY <1>1, <1>2 DEF Snapshot, SnapshotOf

LEMMA SnapshotStep ==
  ASSUME TypeOK, Snapshot, [Next]_vars
  PROVE  Snapshot'
<1> USE DEF Planned, Late
<1>1. CASE ComeDue
  BY <1>1 DEF ComeDue, local, Snapshot, SnapshotOf
<1>2. CASE UpdateMonitor
  BY <1>2 DEF UpdateMonitor, Snapshot
<1>3. CASE Tick
  BY <1>3 DEF Tick, Snapshot, SnapshotOf
<1>4. ASSUME NEW i \in Invocations, Scan(i) PROVE Snapshot'
  <2>1. pc'[i] = "scanned" /\ SnapshotOf(i)'
    BY <1>4 DEF Scan, SnapshotOf, TypeOK
  <2> QED BY <1>4, <2>1, SnapshotOthers DEF Scan, TypeOK
<1>5. ASSUME NEW i \in Invocations, Claim(i) PROVE Snapshot'
  <2>1. SnapshotOf(i)'
    <3>1. i \in current /\ pc[i] = "scanned" /\ pc'[i] = "claimed"
      BY <1>5 DEF Claim, Claimable, TypeOK
    <3> QED BY <1>5, <3>1 DEF Claim, Snapshot, SnapshotOf
  <2> QED BY <1>5, <2>1 DEF Claim, Snapshot
<1>6. ASSUME NEW i \in Invocations,
             \/ ClaimMissed(i) \/ Settle(i) \/ LateDiagnostic(i) \/ LateLost(i)
      PROVE  Snapshot'
  <2>1. SnapshotOf(i)'
    BY <1>6 DEF ClaimMissed, Settle, LateDiagnostic, LateLost, Gone, Forget,
         SnapshotOf, TypeOK
  <2>2. UNCHANGED <<enabled, locations, run, window>> /\ current' \subseteq current
    BY <1>6 DEF ClaimMissed, Settle, LateDiagnostic, LateLost, row
  <2>3. \A j \in Invocations \ {i} :
           /\ pc'[j] = pc[j] /\ myRun'[j] = myRun[j]
           /\ seen'[j] = seen[j] /\ plan'[j] = plan[j]
    BY <1>6 DEF ClaimMissed, Settle, LateDiagnostic, LateLost, Gone, Forget, TypeOK
  <2> QED BY <2>1, <2>2, <2>3, SnapshotOthers
<1>7. ASSUME NEW i \in Invocations, ReadLocations(i) PROVE Snapshot'
  <2>1. i \in current' => SnapshotOf(i)'
    BY <1>7 DEF ReadLocations, row, Snapshot, SnapshotOf, TypeOK
  <2> QED BY <1>7, <2>1, SnapshotOthers DEF ReadLocations, row, TypeOK
<1>8. ASSUME NEW i \in Invocations, Probe(i) PROVE Snapshot'
  <2>1. i \in current' => SnapshotOf(i)'
    BY <1>8 DEF Probe, row, Snapshot, SnapshotOf, TypeOK
  <2> QED BY <1>8, <2>1, SnapshotOthers DEF Probe, row, TypeOK
<1>9. ASSUME NEW i \in Invocations, Evaluate(i) PROVE Snapshot'
  <2>1. PICK restarted \in SUBSET seen[i] :
          plan' = [plan EXCEPT ![i] =
            [l \in Locations |->
               IF l \in restarted THEN {myRun[i]}
               ELSE IF l \in seen[i] THEN window[l] \cup {myRun[i]}
               ELSE {}]]
    BY <1>9 DEF Evaluate
  <2>2. \A l \in seen[i] : plan'[i][l] \in {window[l] \cup {myRun[i]}, {myRun[i]}}
    BY <2>1 DEF TypeOK
  <2>3. i \in current' => SnapshotOf(i)'
    BY <1>9, <2>2 DEF Evaluate, row, Snapshot, SnapshotOf, TypeOK
  <2>4. \A j \in Invocations \ {i} : plan'[j] = plan[j] /\ pc'[j] = pc[j]
    BY <1>9, <2>1 DEF Evaluate, TypeOK
  <2> QED BY <1>9, <2>3, <2>4, SnapshotOthers DEF Evaluate, row
<1>10. ASSUME NEW i \in Invocations,
             \/ CheckLease(i) \/ LookUpEvent(i) \/ LandDiagnostic(i)
             \/ SendCommit(i) \/ CallFails(i)
      PROVE  Snapshot'
  <2>1. UNCHANGED <<row, myRun, seen, plan>>
    BY <1>10 DEF CheckLease, LookUpEvent, LandDiagnostic, SendCommit, CallFails
  <2>2. /\ \A j \in Invocations \ {i} : pc'[j] = pc[j]
        /\ pc[i] # "idle"
        /\ pc'[i] \in Planned \cup Late => pc[i] \in Planned
        /\ pc'[i] \notin {"located", "probed"}
    BY <1>10 DEF CheckLease, LookUpEvent, LandDiagnostic, SendCommit,
         Committable, CallFails, Working, TypeOK
  <2>3. i \in current' => SnapshotOf(i)'
    BY <2>1, <2>2 DEF row, Snapshot, SnapshotOf
  <2> QED BY <2>1, <2>2, <2>3, SnapshotOthers DEF row
<1>11. ASSUME NEW i \in Invocations, Release(i) PROVE Snapshot'
  <2>1. SnapshotOf(i)'
    BY <1>11 DEF Release, SnapshotOf, TypeOK
  <2> QED BY <1>11, <2>1, SnapshotOthers DEF Release, Forget, TypeOK
<1>12. ASSUME NEW i \in Invocations, Cancel(i) PROVE Snapshot'
  <2>1. UNCHANGED <<enabled, locations, run, window>> /\ current' \subseteq current
    BY <1>12 DEF Cancel
  <2>2. CASE pc[i] \in {"diagnosing", "committing"}
    <3>1. /\ pc'[i] \in Late /\ UNCHANGED <<current, myRun, seen, plan>>
          /\ \A j \in Invocations \ {i} : pc'[j] = pc[j]
      BY <1>12, <2>2 DEF Cancel, TypeOK
    <3>2. i \in current' => SnapshotOf(i)'
      BY <2>1, <2>2, <3>1 DEF Snapshot, SnapshotOf
    <3> QED BY <2>1, <3>1, <3>2, SnapshotOthers
  <2>3. CASE pc[i] \notin {"diagnosing", "committing"}
    <3>1. pc' = [pc EXCEPT ![i] = "idle"] /\ Forget(i)
      BY <1>12, <2>3 DEF Cancel
    <3>2. SnapshotOf(i)'
      BY <3>1 DEF SnapshotOf, TypeOK
    <3> QED BY <2>1, <3>1, <3>2, SnapshotOthers DEF Forget, TypeOK
  <2> QED BY <2>2, <2>3
<1>13. ASSUME NEW i \in Invocations, LandCommit(i) PROVE Snapshot'
  <2>1. CASE Fence(i)
    BY <1>13, <2>1 DEF LandCommit, CompleteRun, Snapshot
  <2>2. CASE ~Fence(i)
    <3>1. UNCHANGED <<row, myRun, seen, plan>> /\ pc' = [pc EXCEPT ![i] = "failed"]
      BY <1>13, <2>2 DEF LandCommit, CompleteRun
    <3>2. i \in current' => SnapshotOf(i)'
      BY <1>13, <3>1 DEF LandCommit, row, Snapshot, SnapshotOf, TypeOK
    <3> QED BY <3>1, <3>2, SnapshotOthers DEF row, TypeOK
  <2> QED BY <2>1, <2>2
<1>14. ASSUME NEW i \in Invocations, LateCommit(i) PROVE Snapshot'
  <2>1. CASE Fence(i)
    BY <1>14, <2>1 DEF LateCommit, CompleteRun, Snapshot
  <2>2. CASE ~Fence(i)
    <3>1. UNCHANGED row /\ pc' = [pc EXCEPT ![i] = "idle"] /\ Forget(i)
      BY <1>14, <2>2 DEF LateCommit, CompleteRun, Gone
    <3>2. SnapshotOf(i)'
      BY <3>1 DEF SnapshotOf, TypeOK
    <3> QED BY <3>1, <3>2, SnapshotOthers DEF row, Forget, TypeOK
  <2> QED BY <2>1, <2>2
<1>15. CASE UNCHANGED vars
  BY <1>15 DEF vars, row, local, Snapshot, SnapshotOf
<1> QED
  BY <1>1, <1>2, <1>3, <1>4, <1>5, <1>6, <1>7, <1>8, <1>9, <1>10, <1>11,
     <1>12, <1>13, <1>14, <1>15 DEF Next, Advance, Deliver

-----------------------------------------------------------------------------
(***************************************************************************)
(* The diagnostic is durable before the commit that needs it is sent.      *)
(***************************************************************************)

NeedsDiagnostic(i) ==
  pc[i] = "diagnosed" \/ (pc[i] \in {"committing", "lateCommit"} /\ mine[i] = "diagnose")

\* Recorded diagnostics stay; an invocation that starts to need one has it.
LEMMA DiagnosticKept ==
  ASSUME DiagnosticFirst, recorded \subseteq recorded',
         \A j \in Invocations : NeedsDiagnostic(j)' =>
            \/ NeedsDiagnostic(j) /\ myRun'[j] = myRun[j]
            \/ myRun'[j] \in recorded'
  PROVE  DiagnosticFirst'
BY DEF DiagnosticFirst, NeedsDiagnostic

LEMMA DiagnosticFirstStep ==
  ASSUME TypeOK, DiagnosticFirst, [Next]_vars
  PROVE  DiagnosticFirst'
<1> USE DEF NeedsDiagnostic
<1>1. CASE ComeDue \/ UpdateMonitor \/ Tick \/ UNCHANGED vars
  BY <1>1 DEF ComeDue, UpdateMonitor, Tick, vars, evidence, local, DiagnosticFirst
<1>2. ASSUME NEW i \in Invocations,
             \/ Scan(i) \/ Claim(i) \/ ReadLocations(i) \/ Probe(i)
             \/ Evaluate(i) \/ CheckLease(i) \/ LookUpEvent(i) \/ CallFails(i)
      PROVE  DiagnosticFirst'
  <2>1. /\ pc'[i] \notin {"diagnosed", "committing", "lateCommit"}
        /\ UNCHANGED recorded
        /\ \A j \in Invocations \ {i} :
             pc'[j] = pc[j] /\ mine'[j] = mine[j] /\ myRun'[j] = myRun[j]
    BY <1>2 DEF Scan, Claim, ReadLocations, Probe, Evaluate, CheckLease,
         LookUpEvent, CallFails, evidence, TypeOK
  <2> QED BY <2>1, DiagnosticKept
<1>3. ASSUME NEW i \in Invocations,
             ClaimMissed(i) \/ Settle(i) \/ Release(i) \/ LateLost(i) \/ LateCommit(i)
      PROVE  DiagnosticFirst'
  <2>1. pc' = [pc EXCEPT ![i] = "idle"] /\ Forget(i) /\ UNCHANGED recorded
    BY <1>3 DEF ClaimMissed, Settle, Release, LateLost, LateCommit, Gone, evidence
  <2> QED BY <2>1, DiagnosticKept DEF Forget, TypeOK
<1>4. ASSUME NEW i \in Invocations, LateDiagnostic(i) PROVE DiagnosticFirst'
  <2>1. pc' = [pc EXCEPT ![i] = "idle"] /\ Forget(i) /\ recorded \subseteq recorded'
    BY <1>4 DEF LateDiagnostic, Gone, RecordDiagnostic
  <2> QED BY <2>1, DiagnosticKept DEF Forget, TypeOK
<1>5. ASSUME NEW i \in Invocations, LandDiagnostic(i) PROVE DiagnosticFirst'
  <2>1. UNCHANGED <<myRun, mine>> /\ recorded \subseteq recorded'
    BY <1>5 DEF LandDiagnostic, RecordDiagnostic
  <2>2. CASE Fence(i)
    BY <1>5, <2>1, <2>2, DiagnosticKept DEF LandDiagnostic, RecordDiagnostic, TypeOK
  <2>3. CASE ~Fence(i)
    BY <1>5, <2>1, <2>3, DiagnosticKept DEF LandDiagnostic, TypeOK
  <2> QED BY <2>2, <2>3
<1>6. ASSUME NEW i \in Invocations, SendCommit(i) PROVE DiagnosticFirst'
  <2>1. pc'[i] \in {"committing", "failed"} /\ UNCHANGED <<recorded, myRun, mine>>
        /\ (pc[i] = "diagnosed" \/ mine[i] = "quiet")
        /\ \A j \in Invocations \ {i} : pc'[j] = pc[j]
    BY <1>6 DEF SendCommit, Committable, evidence, TypeOK
  <2> QED BY <2>1, DiagnosticKept
<1>7. ASSUME NEW i \in Invocations, LandCommit(i) PROVE DiagnosticFirst'
  <2>1. pc'[i] \in {"settling", "failed"} /\ UNCHANGED <<recorded, myRun, mine>>
        /\ \A j \in Invocations \ {i} : pc'[j] = pc[j]
    BY <1>7 DEF LandCommit, TypeOK
  <2> QED BY <2>1, DiagnosticKept
<1>8. ASSUME NEW i \in Invocations, Cancel(i) PROVE DiagnosticFirst'
  <2>1. CASE pc[i] = "committing"
    BY <1>8, <2>1, DiagnosticKept DEF Cancel, evidence, TypeOK
  <2>2. CASE pc[i] = "diagnosing"
    BY <1>8, <2>2, DiagnosticKept DEF Cancel, evidence, TypeOK
  <2>3. CASE pc[i] \notin {"diagnosing", "committing"}
    <3>1. pc' = [pc EXCEPT ![i] = "idle"] /\ Forget(i) /\ UNCHANGED recorded
      BY <1>8, <2>3 DEF Cancel, evidence
    <3> QED BY <3>1, DiagnosticKept DEF Forget, TypeOK
  <2> QED BY <2>1, <2>2, <2>3
<1> QED
  BY <1>1, <1>2, <1>3, <1>4, <1>5, <1>6, <1>7, <1>8 DEF Next, Advance, Deliver

\* The inductive invariant holds in every behaviour.
THEOREM Invariant == Spec => []Inv
<1>1. Init => Inv
  BY TypeInit DEF Init, Inv, Holder, Snapshot, DiagnosticFirst, Working
<1>2. Inv /\ [Next]_vars => Inv'
  BY TypeStep, HolderStep, SnapshotStep, DiagnosticFirstStep DEF Inv
<1> QED BY <1>1, <1>2, PTL DEF Spec

-----------------------------------------------------------------------------
(***************************************************************************)
(* MonitorRun implements MonitorLedger.                                    *)
(***************************************************************************)

\* Completing a run is the ledger's atomic Complete, or leaves it alone.
LEMMA CompleteImplements ==
  ASSUME Inv, NEW i \in Invocations,
         pc[i] \in {"committing", "lateCommit"},
         CompleteRun(i), UNCHANGED recorded
  PROVE  Ledger!Complete \/ UNCHANGED Ledger!ledger
<1>1. CASE ~Fence(i)
  BY <1>1 DEF CompleteRun, row, Ledger!ledger
<1>2. CASE Fence(i)
  <2> USE DEF Runs, Ledger!Runs
  <2>1. /\ enabled /\ run = myRun[i] /\ run \in Runs /\ i \in current
        /\ mine[i] \in {"quiet", "diagnose"}
        /\ mine[i] = "diagnose" => run \in recorded
    BY <1>2 DEF Fence, Inv, TypeOK, DiagnosticFirst
  <2>2. /\ seen[i] \in SUBSET locations
        /\ \A l \in seen[i] : plan[i][l] \in {window[l] \cup {run}, {run}}
    BY <2>1 DEF Inv, Snapshot, SnapshotOf, Planned, Late
  <2>3. /\ run' = run + 1 /\ UNCHANGED <<enabled, locations, recorded>>
        /\ outcome' = [outcome EXCEPT ![run] = mine[i]]
        /\ window' = [l \in Locations |->
                        IF l \in seen[i] THEN plan[i][l] ELSE window[l]]
    BY <1>2, <2>1 DEF CompleteRun
  <2>4. window' \in [Locations -> SUBSET Runs]
    <3> DEFINE w(l) == IF l \in seen[i] THEN plan[i][l] ELSE window[l]
    <3>1. \A l \in Locations : w(l) \in SUBSET Runs
      BY DEF Inv, TypeOK
    <3>2. window' = [l \in Locations |-> w(l)]
      BY <2>3
    <3> HIDE DEF w
    <3> QED BY <3>1, <3>2
  <2>5. \A l \in Locations :
          IF l \in seen[i] THEN window'[l] \in Ledger!Folds(l)
                           ELSE window'[l] = window[l]
    BY <2>2, <2>3 DEF Ledger!Folds
  <2> QED BY <2>1, <2>2, <2>3, <2>4, <2>5 DEF Ledger!Complete
<1> QED BY <1>1, <1>2

\* Landing a diagnostic is the ledger's Record, or leaves it alone.
LEMMA RecordImplements ==
  ASSUME Inv, NEW i \in Invocations,
         RecordDiagnostic(i), UNCHANGED <<enabled, locations, run, window, outcome>>
  PROVE  Ledger!Record \/ UNCHANGED Ledger!ledger
<1>1. CASE Fence(i) /\ myRun[i] \notin recorded
  BY <1>1 DEF Fence, RecordDiagnostic, Ledger!Record, Inv, TypeOK, Runs, Ledger!Runs
<1>2. CASE ~(Fence(i) /\ myRun[i] \notin recorded)
  <2>1. recorded' = recorded
    BY <1>2 DEF RecordDiagnostic
  <2> QED BY <2>1 DEF Ledger!ledger
<1> QED BY <1>1, <1>2

LEMMA LedgerStep ==
  ASSUME Inv, [Next]_vars
  PROVE  [Ledger!Next]_(Ledger!ledger)
<1> USE DEF Ledger!Next
<1>1. CASE UpdateMonitor
  BY <1>1 DEF UpdateMonitor, evidence, NoWindows,
       Ledger!Configure, Ledger!NoWindows
<1>2. CASE ComeDue \/ Tick \/ UNCHANGED vars
  BY <1>2 DEF ComeDue, Tick, vars, row, evidence, Ledger!ledger
<1>3. ASSUME NEW i \in Invocations,
             \/ Scan(i) \/ Claim(i) \/ ClaimMissed(i) \/ ReadLocations(i)
             \/ Probe(i) \/ Evaluate(i) \/ CheckLease(i) \/ LookUpEvent(i)
             \/ SendCommit(i) \/ Settle(i) \/ Release(i) \/ CallFails(i)
             \/ Cancel(i) \/ LateLost(i)
      PROVE  UNCHANGED Ledger!ledger
  BY <1>3 DEF Scan, Claim, ClaimMissed, ReadLocations, Probe, Evaluate,
       CheckLease, LookUpEvent, SendCommit, Settle, Release, CallFails, Cancel,
       LateLost, row, evidence, Ledger!ledger
<1>4. ASSUME NEW i \in Invocations, LandDiagnostic(i) \/ LateDiagnostic(i)
      PROVE  Ledger!Record \/ UNCHANGED Ledger!ledger
  BY <1>4, RecordImplements DEF LandDiagnostic, LateDiagnostic, row
<1>5. ASSUME NEW i \in Invocations, LandCommit(i) \/ LateCommit(i)
      PROVE  Ledger!Complete \/ UNCHANGED Ledger!ledger
  BY <1>5, CompleteImplements DEF LandCommit, LateCommit
<1> QED
  BY <1>1, <1>2, <1>3, <1>4, <1>5 DEF Next, Advance, Deliver

\* The scheduler keeps the ledger's promise: runs complete once, atomically,
\* on current checkpoints, and never before the diagnostic they call for.
THEOREM Refinement == Spec => ImplementsLedger
<1>1. Init => Ledger!Init
  BY DEF Init, Ledger!Init, NoWindows, Ledger!NoWindows, Runs, Ledger!Runs
<1>2. Inv /\ [Next]_vars => [Ledger!Next]_(Ledger!ledger)
  BY LedgerStep
<1> QED BY <1>1, <1>2, Invariant, PTL DEF Spec, ImplementsLedger, Ledger!Spec

-----------------------------------------------------------------------------
\* No failure path, claim or late batch ends a lease that is not its own.
THEOREM LeaseEndsByHolder == Spec => OnlyHolderEndsLease
<1> DEFINE Ends(i) == owner = i /\ leaseLeft > 0 /\ owner' # i
           Own(i)  == pc[i] \in {"failed", "committing", "lateCommit"} /\ pc'[i] # pc[i]
<1>1. ASSUME TypeOK, [Next]_vars, NEW j \in Invocations, Ends(j) PROVE Own(j)
  <2>1. ASSUME NEW i \in Invocations,
               \/ Scan(i) \/ Claim(i) \/ ClaimMissed(i) \/ ReadLocations(i)
               \/ Probe(i) \/ Evaluate(i) \/ CheckLease(i) \/ LookUpEvent(i)
               \/ LandDiagnostic(i) \/ SendCommit(i) \/ Settle(i) \/ CallFails(i)
               \/ Cancel(i) \/ LateDiagnostic(i) \/ LateLost(i)
        PROVE  FALSE
    BY <1>1, <2>1, NobodyAssumption
       DEF Scan, Claim, Claimable, LeaseFree, ClaimMissed, ReadLocations, Probe,
         Evaluate, CheckLease, LookUpEvent, LandDiagnostic, SendCommit, Settle,
         CallFails, Cancel, LateDiagnostic, LateLost, row
  <2>2. ASSUME NEW i \in Invocations, Release(i) PROVE Own(j)
    BY <1>1, <2>2 DEF Release, TypeOK
  <2>3. ASSUME NEW i \in Invocations, LandCommit(i) \/ LateCommit(i) PROVE Own(j)
    <3>1. CompleteRun(i)
      BY <2>3 DEF LandCommit, LateCommit
    <3>2. Fence(i) /\ i = j
      BY <1>1, <3>1 DEF CompleteRun, Fence, row
    <3>3. pc[i] \in {"committing", "lateCommit"} /\ i \in DOMAIN pc
      BY <1>1, <2>3 DEF LandCommit, LateCommit, TypeOK
    <3>4. \/ pc' = [pc EXCEPT ![i] = "settling"]
          \/ pc' = [pc EXCEPT ![i] = "idle"]
      BY <2>3, <3>2 DEF LandCommit, LateCommit, Gone
    <3> QED BY <3>2, <3>3, <3>4
  <2>4. ASSUME ComeDue \/ UpdateMonitor \/ Tick \/ UNCHANGED vars PROVE FALSE
    BY <1>1, <2>4 DEF ComeDue, UpdateMonitor, Tick, vars, row
  <2> QED BY <1>1, <2>1, <2>2, <2>3, <2>4 DEF Next, Advance, Deliver
<1>2. TypeOK /\ [Next]_vars => [\A i \in Invocations : Ends(i) => Own(i)]_vars
  BY <1>1
<1> QED BY <1>2, TypeCorrect, PTL DEF Spec, OnlyHolderEndsLease
=============================================================================
