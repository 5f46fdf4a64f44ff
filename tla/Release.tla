------------------------------- MODULE Release -------------------------------
(***************************************************************************)
(* The release tool (status-release) against the deployment registry.  A   *)
(* run prepares the workspace, registers the manifest, uploads and commits *)
(* every file, asks for readiness and only then publishes a Worker version *)
(* from the snapshot it took.  Nothing is retried within a run; a run that *)
(* failed is followed by another one, with the same or the next attempt    *)
(* number, while the handler of its last request may still be at work.     *)
(***************************************************************************)
EXTENDS DeploymentRegistry

CONSTANTS MaxEdits   \* bound: changes of the workspace

ASSUME EditAssumption == MaxEdits \in Nat

VARIABLES
  tree,     \* the build output in the workspace
  runs,     \* per run: where it is, what it releases, what it prepared
  running,  \* the Worker version that serves
  edits

tool == <<tree, runs, running, edits>>
vars == <<registry, tool>>

NoRun == [step |-> "idle", deployment |-> None, attempt |-> 0, build |-> None]

ReleaseInit ==
  /\ RegistryInit
  /\ tree \in Builds
  /\ runs = [c \in Callers |-> NoRun]
  /\ running = [deployment |-> None, build |-> None]
  /\ edits = 0

Step(c, step) == runs' = [runs EXCEPT ![c].step = step]

\* prepare: the bytes of all files are read, and stay in memory.
Prepare(c, d, n) ==
  /\ runs[c].step = "idle"
  /\ runs' = [runs EXCEPT ![c] =
       [step |-> "prepared", deployment |-> d, attempt |-> n, build |-> tree]]
  /\ UNCHANGED <<registry, tree, running, edits>>

\* A request; files are numbered, and the two registrations are 0 and the last.
Request(c, op, file) ==
  calls' = [calls EXCEPT ![c] =
    [op |-> op, deployment |-> runs[c].deployment, file |-> file,
     build |-> runs[c].build, attempt |-> runs[c].attempt,
     at |-> op, seen |-> 0, answer |-> "none"]]

\* release: the manifest is computed again and the files are compared with what
\* was prepared; the snapshot is written from memory and tried out; then the
\* manifest is registered.
Register1(c) ==
  /\ runs[c].step = "prepared"
  /\ IF tree = runs[c].build THEN Step(c, "calling") /\ Request(c, "register", 0)
     ELSE Step(c, "failed") /\ UNCHANGED calls
  /\ UNCHANGED <<ledger, manifests, sessions, expired, plans, sweep, faults, tree, running, edits>>

\* What follows an answer: the next request, the publication, or the end.
\* Status 412 (the object exists) is as good as success.
Following(k) ==
  CASE k.op = "register" /\ k.file = 0 /\ k.answer \in {"ready", "awaiting"} -> "upload"
    [] k.op = "register" /\ k.file > NFiles /\ k.answer = "ready"           -> "publish"
    [] k.op = "upload" /\ k.answer = "session"                              -> "transfer"
    [] k.op = "transfer" /\ k.answer \in {"stored", "exists"}               -> "commit"
    [] k.op = "commit" /\ k.answer = "committed" /\ k.file < NFiles         -> "upload"
    [] k.op = "commit" /\ k.answer = "committed" /\ k.file = NFiles         -> "register"
    [] OTHER                                                                -> "failed"

Continue(c) ==
  LET k == calls[c]
      next == Following(k)
  IN /\ runs[c].step = "calling" /\ k.at = "answered"
     /\ IF next \in {"publish", "failed"} THEN Step(c, next) /\ UNCHANGED calls
        ELSE /\ Request(c, next, IF next \in {"upload", "register"} THEN k.file + 1 ELSE k.file)
             /\ UNCHANGED runs
     /\ UNCHANGED <<ledger, manifests, sessions, expired, plans, sweep, faults, tree, running, edits>>

\* The request times out: the run ends, the handler goes on.
GiveUp(c) ==
  /\ faults < MaxFaults /\ faults' = faults + 1
  /\ runs[c].step = "calling" /\ calls[c].at # "answered"
  /\ Step(c, "failed")
  /\ UNCHANGED <<ledger, manifests, sessions, expired, calls, plans, sweep, tree, running, edits>>

\* Mutant: the version is uploaded from the workspace.
Rebuilt(c) == tree

\* What the frozen directory holds.
Snapshot(c) == runs[c].build

\* wrangler: the snapshot is uploaded as a version, and exactly that version
\* deployed; either may fail, and a failed call may have deployed it all the same.
Publish(c) ==
  LET version == [deployment |-> runs[c].deployment, build |-> Snapshot(c)] IN
  /\ runs[c].step = "publish"
  /\ \/ running' = version /\ Step(c, "released") /\ UNCHANGED faults
     \/ /\ running' \in {running, version} /\ Step(c, "failed")
        /\ faults < MaxFaults /\ faults' = faults + 1
  /\ UNCHANGED <<ledger, manifests, sessions, expired, calls, plans, sweep, tree, edits>>

\* Something builds or edits in the workspace of the next run or of this one.
Edit(b) ==
  /\ edits < MaxEdits /\ edits' = edits + 1
  /\ b # tree /\ tree' = b
  /\ UNCHANGED <<registry, runs, running>>

Next0 ==
  \/ \E c \in Callers :
       \/ Register1(c) \/ Continue(c) \/ GiveUp(c) \/ Publish(c)
       \/ \E d \in Deployments, n \in Attempts : Prepare(c, d, n)
       \/ Handler(c) /\ UNCHANGED tool
  \/ Background /\ UNCHANGED tool
  \/ \E b \in Builds : Edit(b)

ReleaseSpec == ReleaseInit /\ [][Next0]_vars

-----------------------------------------------------------------------------
\* Types of every variable.
Steps == {"idle", "prepared", "calling", "publish", "failed", "released"}
Answers == {"none", "missing", "conflict", "invalid", "ready", "awaiting", "session",
            "expired", "stored", "exists", "committed", "error"}
Places == {"register", "manifest", "insert", "registered", "upload", "transfer", "put",
           "commit", "verify", "insert artifact", "read artifact", "count", "state",
           "mark", "marked", "answered"}
Ids == Deployments \cup {None}
Contents == Builds \cup {None}
Pointers == [deployment : Ids, revision : Nat]

TypeOK ==
  /\ registered \in [Deployments -> Contents] /\ manifests \in [Deployments -> Contents]
  /\ history \in [Deployments ->
       Seq({"registered", "artifacts_pending", "ready", "active", "retired"})]
  /\ objects \subseteq Artifacts /\ artifacts \subseteq Artifacts
  /\ pointer \in Pointers
  /\ sessions \subseteq Deployments \X Files \X Builds \X Attempts /\ expired \subseteq sessions
  /\ calls \in [Callers ->
       [op : {"none", "register", "upload", "transfer", "commit"}, deployment : Ids,
        file : 0 .. NFiles + 1, build : Contents, attempt : Attempts \cup {0},
        at : Places, seen : Nat, answer : Answers]]
  /\ sweep \subseteq Artifacts
  /\ plans \in [Admins -> [target : Deployments, pointer : Pointers] \cup {None}]
  /\ tree \in Builds /\ running \in [deployment : Ids, build : Contents]
  /\ runs \in [Callers -> [step : Steps, deployment : Ids, attempt : Attempts \cup {0},
                           build : Contents]]
  /\ faults \in 0 .. MaxFaults /\ edits \in 0 .. MaxEdits

\* Whatever calls fail, overlap or go on without their caller, the registry
\* behaves as its ledger: manifests never change, states follow one line,
\* readiness and activation are single steps on what is true at that moment.
Ledger == INSTANCE DeploymentLedger WITH
  registered <- registered, history <- history, objects <- objects,
  artifacts <- artifacts, pointer <- pointer
ImplementsLedger == Ledger!Spec

\* "Never delete forensic artifacts" (platform.rs:736): once a deployment is
\* ready, its manifest and every byte it requires are stored for ever.
ReadyIsStored ==
  /\ TypeOK
  /\ \A d \in Deployments : State(d) \in {"ready", "active", "retired"} =>
       /\ manifests[d] = registered[d]
       /\ \A f \in Files : <<d, f, registered[d]>> \in artifacts \cap objects

\* "Any failure stops Wrangler" (docs/operations.md:241): what serves is, byte
\* for byte, a registered build whose deployment passed the readiness gate.
RunningIsReleased ==
  running.deployment # None =>
    /\ registered[running.deployment] = running.build
    /\ State(running.deployment) \in {"ready", "active", "retired"}

=============================================================================
