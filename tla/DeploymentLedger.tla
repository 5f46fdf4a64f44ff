--------------------------- MODULE DeploymentLedger ---------------------------
(***************************************************************************)
(* What the deployment registry promises (status-backend/src/deployments   *)
(* and the activation command): the manifest of a deployment never         *)
(* changes; its history is one line from registered to retired; it becomes *)
(* ready only when every artifact its manifest requires is committed, and  *)
(* an artifact is committed only while its bytes are stored; the current   *)
(* deployment changes in one step with the states of both deployments.     *)
(*                                                                         *)
(* All deployments are of one service and environment.  A build stands for *)
(* the bytes of all files; a manifest names the digests of one build.      *)
(***************************************************************************)
EXTENDS Naturals, Sequences

CONSTANTS
  Deployments,  \* deployment identities
  Builds,       \* what a workspace can be built to
  NFiles,       \* files of a build
  None          \* no build, no deployment

ASSUME FileAssumption == NFiles \in Nat \ {0}
ASSUME NoneAssumption == None \notin Builds /\ None \notin Deployments

Files == 1 .. NFiles
Artifacts == Deployments \X Files \X Builds

VARIABLES
  registered,  \* deployments, deployment_artifact_requirements: the build
  history,     \* deployment_status_history
  objects,     \* ARTIFACTS bucket: keys that name deployment, file and digest
  artifacts,   \* deployment_artifacts
  pointer      \* service_environment_deployments

ledger == <<registered, history, objects, artifacts, pointer>>

State(d) == IF history[d] = <<>> THEN "none" ELSE history[d][Len(history[d])]

Complete(d) == \A f \in Files : <<d, f, registered[d]>> \in artifacts

Init ==
  /\ registered = [d \in Deployments |-> None]
  /\ history = [d \in Deployments |-> <<>>]
  /\ objects = {} /\ artifacts = {}
  /\ pointer = [deployment |-> None, revision |-> 0]

Register(d, b) ==
  /\ registered[d] = None
  /\ registered' = [registered EXCEPT ![d] = b]
  /\ history' = [history EXCEPT ![d] = <<"registered", "artifacts_pending">>]
  /\ UNCHANGED <<objects, artifacts, pointer>>

Store(a) ==
  /\ a[3] = registered[a[1]]
  /\ objects' = objects \cup {a}
  /\ UNCHANGED <<registered, history, artifacts, pointer>>

CommitArtifact(a) ==
  /\ a \in objects /\ a[3] = registered[a[1]] /\ State(a[1]) # "retired"
  /\ artifacts' = artifacts \cup {a}
  /\ UNCHANGED <<registered, history, objects, pointer>>

MakeReady(d) ==
  /\ State(d) = "artifacts_pending" /\ Complete(d)
  /\ history' = [history EXCEPT ![d] = Append(@, "ready")]
  /\ UNCHANGED <<registered, objects, artifacts, pointer>>

\* The current deployment is retired, another one takes its place.
Activate(d) ==
  LET old == pointer.deployment
      next(e) == IF e = d THEN <<"active">> ELSE IF e = old THEN <<"retired">> ELSE <<>>
  IN /\ State(d) = "ready" /\ old # d
     /\ old # None => State(old) = "active"
     /\ history' = [e \in Deployments |-> history[e] \o next(e)]
     /\ pointer' = [deployment |-> d, revision |-> pointer.revision + 1]
     /\ UNCHANGED <<registered, objects, artifacts>>

Next ==
  \/ \E d \in Deployments : MakeReady(d) \/ Activate(d) \/ \E b \in Builds : Register(d, b)
  \/ \E a \in Artifacts : Store(a) \/ CommitArtifact(a)

Spec == Init /\ [][Next]_ledger
=============================================================================
