-------------------------- MODULE DeploymentRegistry --------------------------
(***************************************************************************)
(* The deployment registry (status-backend/src/deployments): registration  *)
(* of a manifest, upload sessions, the upload of an artifact to R2, its    *)
(* commit and the readiness gate; with the activation command of the admin *)
(* API and the artifact cleanup of the Cron handler.                       *)
(*                                                                         *)
(* A handler runs in the steps between which it waits for R2 or D1.  Its   *)
(* caller may be gone before it ends.  The machine identity of all callers *)
(* is the one of the service.                                              *)
(***************************************************************************)
EXTENDS DeploymentLedger, FiniteSets

CONSTANTS
  Callers,    \* release runs; each has one request at a time
  Attempts,   \* release_attempt numbers
  Admins,     \* activation commands
  MaxFaults   \* bound: failed calls

ASSUME BoundAssumption == MaxFaults \in Nat

VARIABLES
  manifests,  \* manifest objects in R2
  sessions,   \* artifact_upload_sessions with their idempotency keys
  expired,    \* those older than 600 seconds
  calls,      \* per caller: its request and where its handler is
  plans,      \* per activation: what it read
  sweep,      \* keys the cleanup has yet to delete
  faults

handlers == <<manifests, sessions, expired, calls, plans, sweep, faults>>
registry == <<ledger, handlers>>

NoCall == [op |-> "none", deployment |-> None, file |-> 0, build |-> None,
           attempt |-> 0, at |-> "answered", seen |-> 0, answer |-> "none"]

RegistryInit ==
  /\ Init
  /\ manifests = [d \in Deployments |-> None]
  /\ sessions = {} /\ expired = {}
  /\ calls = [c \in Callers |-> NoCall]
  /\ plans = [a \in Admins |-> None]
  /\ sweep = {}
  /\ faults = 0

Go(c, at) == calls' = [calls EXCEPT ![c].at = at]
Reply(c, answer) == calls' = [calls EXCEPT ![c].at = "answered", ![c].answer = answer]

\* The artifact and the session a request is about.  The idempotency key names
\* the attempt and the digest of the declaration.
Object(k) == <<k.deployment, k.file, k.build>>
Session(k) == <<k.deployment, k.file, k.build, k.attempt>>

\* required: the declaration is one of the manifest's.
Required(k) == registered[k.deployment] = k.build

\* What deployment() and required() refuse; "ok" is neither of the two.
Refusal(k) ==
  IF registered[k.deployment] = None THEN "missing"
  ELSE IF State(k.deployment) = "retired" THEN "conflict"
  ELSE IF ~Required(k) THEN "invalid" ELSE "ok"

-----------------------------------------------------------------------------
\* register: the answer for a row that exists.
Registration(k) ==
  IF registered[k.deployment] = None THEN "missing"
  ELSE IF State(k.deployment) = "retired" \/ registered[k.deployment] # k.build THEN "conflict"
  ELSE IF State(k.deployment) \in {"ready", "active"} THEN "ready" ELSE "awaiting"

\* A service that is not enabled is refused here, before anything is written,
\* as a call is that fails (HandlerFails).
RegisterLookup(c) ==
  LET k == calls[c] IN
  /\ k.at = "register"
  /\ IF registered[k.deployment] # None THEN Reply(c, Registration(k)) ELSE Go(c, "manifest")
  /\ UNCHANGED <<ledger, manifests, sessions, expired, plans, sweep, faults>>

\* The conditional PUT of the manifest keeps the first; then it is read back.
PutManifest(c) ==
  LET k == calls[c]
      stored == IF manifests[k.deployment] = None THEN k.build ELSE manifests[k.deployment]
  IN /\ k.at = "manifest"
     /\ manifests' = [manifests EXCEPT ![k.deployment] = stored]
     /\ IF stored = k.build THEN Go(c, "insert") ELSE Reply(c, "conflict")
     /\ UNCHANGED <<ledger, sessions, expired, plans, sweep, faults>>

\* The batch inserts the row, its requirements and its first two states, or
\* fails because the row exists by now.  Both are followed by a read.
InsertDeployment(c) ==
  LET k == calls[c] IN
  /\ k.at = "insert" /\ Go(c, "registered")
  /\ IF registered[k.deployment] = None THEN Register(k.deployment, k.build)
     ELSE UNCHANGED ledger
  /\ UNCHANGED <<manifests, sessions, expired, plans, sweep, faults>>

RegisterRead(c) ==
  /\ calls[c].at = "registered"
  /\ Reply(c, Registration(calls[c]))
  /\ UNCHANGED <<ledger, manifests, sessions, expired, plans, sweep, faults>>

-----------------------------------------------------------------------------
\* upload: a session under the idempotency key, new or the one there is.  (An
\* insert that loses to another one answers as that one's replay.)
Upload(c) ==
  LET k == calls[c]
      s == Session(k)
  IN /\ k.at = "upload"
     /\ IF Refusal(k) # "ok" THEN Reply(c, Refusal(k)) /\ UNCHANGED sessions
        ELSE IF s \in expired THEN Reply(c, "expired") /\ UNCHANGED sessions
        ELSE Reply(c, "session") /\ sessions' = sessions \cup {s}
     /\ UNCHANGED <<ledger, manifests, expired, plans, sweep, faults>>

\* transfer: everything is checked before the bytes begin to flow ...
Transfer(c) ==
  LET k == calls[c] IN
  /\ k.at = "transfer"
  /\ IF Refusal(k) # "ok" THEN Reply(c, Refusal(k))
     ELSE IF Session(k) \notin sessions THEN Reply(c, "invalid")
     ELSE IF Session(k) \in expired THEN Reply(c, "expired")
     ELSE Go(c, "put")
  /\ UNCHANGED <<ledger, manifests, sessions, expired, plans, sweep, faults>>

\* ... and may have all changed when they arrive.  R2 checks the digest, and
\* keeps an object that is there.
PutObject(c) ==
  LET a == Object(calls[c]) IN
  /\ calls[c].at = "put"
  /\ Reply(c, IF a \in objects THEN "exists" ELSE "stored")
  /\ objects' = objects \cup {a}
  /\ UNCHANGED <<registered, history, artifacts, pointer,
                 manifests, sessions, expired, plans, sweep, faults>>

-----------------------------------------------------------------------------
\* commit: an expired session will do.  An artifact that is committed already
\* goes straight to the readiness gate.
Commit(c) ==
  LET k == calls[c] IN
  /\ k.at = "commit"
  /\ IF Refusal(k) # "ok" THEN Reply(c, Refusal(k))
     ELSE IF Session(k) \notin sessions THEN Reply(c, "invalid")
     ELSE IF Object(k) \in artifacts THEN Go(c, "count")
     ELSE Go(c, "verify")
  /\ UNCHANGED <<ledger, manifests, sessions, expired, plans, sweep, faults>>

\* verify: the stored bytes have the digest of the declaration.
Verified(k) == Object(k) \in objects

Verify(c) ==
  /\ calls[c].at = "verify"
  /\ IF Verified(calls[c]) THEN Go(c, "insert artifact") ELSE Reply(c, "invalid")
  /\ UNCHANGED <<ledger, manifests, sessions, expired, plans, sweep, faults>>

\* INSERT ... WHERE the deployment is not terminal; a second one violates the
\* unique key.  Neither changes the next step.
InsertArtifact(c) ==
  LET k == calls[c] IN
  /\ k.at = "insert artifact" /\ Go(c, "read artifact")
  /\ artifacts' = IF State(k.deployment) = "retired" THEN artifacts
                  ELSE artifacts \cup {Object(k)}
  /\ UNCHANGED <<registered, history, objects, pointer,
                 manifests, sessions, expired, plans, sweep, faults>>

ReadArtifact(c) ==
  /\ calls[c].at = "read artifact"
  /\ IF Object(calls[c]) \in artifacts THEN Go(c, "count") ELSE Reply(c, "error")
  /\ UNCHANGED <<ledger, manifests, sessions, expired, plans, sweep, faults>>

\* Mutant: one committed artifact is enough.
SomeCommitted(d) == \E f \in Files : <<d, f, registered[d]>> \in artifacts

\* ready: no requirement is missing.
NoneMissing(d) == Complete(d)

Count(c) ==
  /\ calls[c].at = "count"
  /\ IF NoneMissing(calls[c].deployment) THEN Go(c, "state") ELSE Reply(c, "committed")
  /\ UNCHANGED <<ledger, manifests, sessions, expired, plans, sweep, faults>>

ReadState(c) ==
  LET d == calls[c].deployment IN
  /\ calls[c].at = "state"
  /\ IF State(d) = "artifacts_pending"
     THEN calls' = [calls EXCEPT ![c].at = "mark", ![c].seen = Len(history[d])]
     ELSE Reply(c, "committed")
  /\ UNCHANGED <<ledger, manifests, sessions, expired, plans, sweep, faults>>

\* The history takes a row only if its sequence number is the next one.  The
\* trigger that also looks for missing artifacts never stops a row: Count has
\* looked before, and what is committed stays.
MarkReady(c) ==
  LET k == calls[c] IN
  /\ k.at = "mark"
  /\ IF Len(history[k.deployment]) = k.seen
     THEN /\ Reply(c, "committed")
          /\ history' = [history EXCEPT ![k.deployment] = Append(@, "ready")]
     ELSE Go(c, "marked") /\ UNCHANGED history
  /\ UNCHANGED <<registered, objects, artifacts, pointer,
                 manifests, sessions, expired, plans, sweep, faults>>

\* After a failed batch somebody else must have made it ready.
Marked(d) ==
  CASE State(d) = "retired"              -> "conflict"
    [] State(d) \in {"ready", "active"}  -> "committed"
    [] OTHER                             -> "error"

MarkRead(c) ==
  /\ calls[c].at = "marked"
  /\ Reply(c, Marked(calls[c].deployment))
  /\ UNCHANGED <<ledger, manifests, sessions, expired, plans, sweep, faults>>

-----------------------------------------------------------------------------
\* A read, a PUT or the whole invocation fails.
HandlerFails(c) ==
  /\ faults < MaxFaults /\ faults' = faults + 1
  /\ calls[c].at # "answered" /\ Reply(c, "error")
  /\ UNCHANGED <<ledger, manifests, sessions, expired, plans, sweep>>

\* A D1 batch fails; the handler reads what became of it.
BatchFails(c) ==
  LET after == [at \in {"insert", "insert artifact", "mark"} |->
                  CASE at = "insert"          -> "registered"
                    [] at = "insert artifact" -> "read artifact"
                    [] at = "mark"            -> "marked"]
  IN /\ faults < MaxFaults /\ faults' = faults + 1
     /\ calls[c].at \in DOMAIN after /\ Go(c, after[calls[c].at])
     /\ UNCHANGED <<ledger, manifests, sessions, expired, plans, sweep>>

Handler(c) ==
  \/ RegisterLookup(c) \/ PutManifest(c) \/ InsertDeployment(c) \/ RegisterRead(c)
  \/ Upload(c) \/ Transfer(c) \/ PutObject(c)
  \/ Commit(c) \/ Verify(c) \/ InsertArtifact(c) \/ ReadArtifact(c)
  \/ Count(c) \/ ReadState(c) \/ MarkReady(c) \/ MarkRead(c)
  \/ HandlerFails(c) \/ BatchFails(c)

-----------------------------------------------------------------------------
\* activate, as it plans: the target is ready, the old deployment active.
Plan(a, d) ==
  /\ plans[a] = None
  /\ State(d) = "ready"
  /\ pointer.deployment # None => State(pointer.deployment) = "active"
  /\ plans' = [plans EXCEPT ![a] = [target |-> d, pointer |-> pointer]]
  /\ UNCHANGED <<ledger, manifests, sessions, expired, calls, sweep, faults>>

\* The assertions of the batch: both states and the pointer's revision.
Current(p) ==
  /\ State(p.target) = "ready"
  /\ pointer.revision = p.pointer.revision
  /\ p.pointer.deployment # None => State(p.pointer.deployment) = "active"

\* Its batch: the old deployment is retired, the new one active, the pointer
\* moved, or nothing of all this.
ActivateDeployment(a) ==
  LET p == plans[a]
      old == p.pointer.deployment
      next(e) == IF e = p.target THEN <<"active">>
                 ELSE IF e = old THEN <<"retired">> ELSE <<>>
  IN /\ p # None
     /\ IF Current(p)
        THEN /\ history' = [e \in Deployments |-> history[e] \o next(e)]
             /\ pointer' = [deployment |-> p.target, revision |-> pointer.revision + 1]
        ELSE UNCHANGED <<history, pointer>>
     /\ plans' = [plans EXCEPT ![a] = None]
     /\ UNCHANGED <<registered, objects, artifacts,
                    manifests, sessions, expired, calls, sweep, faults>>

-----------------------------------------------------------------------------
\* The sessions of an artifact.
Uploads(a) == {<<a[1], a[2], a[3], n>> : n \in Attempts} \cap sessions

\* Mutant: committed objects are not spared.
ReclaimableAll ==
  {a \in Artifacts : State(a[1]) = "retired" /\ Uploads(a) # {} /\ Uploads(a) \subseteq expired}

\* cleanup: keys of retired deployments, all sessions expired, not committed.
Reclaimable ==
  {a \in Artifacts \ artifacts :
     State(a[1]) = "retired" /\ Uploads(a) # {} /\ Uploads(a) \subseteq expired}

\* One scan, then one deletion after the other.
Cleanup ==
  /\ IF sweep = {} THEN sweep' = Reclaimable /\ UNCHANGED objects
     ELSE \E a \in sweep : sweep' = sweep \ {a} /\ objects' = objects \ {a}
  /\ UNCHANGED <<registered, history, artifacts, pointer,
                 manifests, sessions, expired, calls, plans, faults>>

Expire(s) ==
  /\ s \in sessions \ expired
  /\ expired' = expired \cup {s}
  /\ UNCHANGED <<ledger, manifests, sessions, calls, plans, sweep, faults>>

Background ==
  \/ \E a \in Admins : ActivateDeployment(a) \/ \E d \in Deployments : Plan(a, d)
  \/ \E s \in sessions : Expire(s)
  \/ Cleanup
=============================================================================
