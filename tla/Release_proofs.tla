---------------------------- MODULE Release_proofs ----------------------------
(***************************************************************************)
(* Theorems about Release, for any deployments, builds, callers, attempts, *)
(* activations and number of files, failed calls and edits.                *)
(***************************************************************************)
EXTENDS Release, SequenceTheorems, TLAPS

Statuses == {"registered", "artifacts_pending", "ready", "active", "retired"}

CallRecord ==
  [op : {"none", "register", "upload", "transfer", "commit"}, deployment : Ids,
   file : 0 .. NFiles + 1, build : Contents, attempt : Attempts \cup {0},
   at : Places, seen : Nat, answer : Answers]

RunRecord ==
  [step : Steps, deployment : Ids, attempt : Attempts \cup {0}, build : Contents]

PlanRecord == [target : Deployments, pointer : Pointers]

Keys == Deployments \X Files \X Builds \X Attempts

(***************************************************************************)
(* The inductive invariant, part by part.                                  *)
(***************************************************************************)
Passed(d) == State(d) \in {"ready", "active", "retired"}

\* The registry between the handlers: exactly the registered deployments have a
\* history; what is committed is stored; a manifest is what was registered; the
\* readiness gate was passed with everything; the cleanup found nothing.
Consistent ==
  /\ \A d \in Deployments :
       /\ history[d] = <<>> <=> registered[d] = None
       /\ registered[d] # None => manifests[d] = registered[d]
       /\ Passed(d) => Complete(d)
  /\ artifacts \subseteq objects
  /\ sweep = {}

\* Sessions are only opened for what the manifest declares.
Declared == \A s \in sessions : registered[s[1]] = s[3]

\* A plan of the pointer's revision has read the pointer as it is.
Pointed ==
  \A a \in Admins : plans[a] # None =>
    /\ plans[a].pointer.revision <= pointer.revision
    /\ plans[a].pointer.revision = pointer.revision => plans[a].pointer = pointer

\* Where the handler of a request can be.
OpAt ==
  [at \in Places \ {"answered"} |->
     CASE at \in {"register", "manifest", "insert", "registered"} -> "register"
       [] at = "upload" -> "upload"
       [] at \in {"transfer", "put"} -> "transfer"
       [] OTHER -> "commit"]

\* What a request is about.
Shaped(k) ==
  /\ k.op # "none" => k.deployment \in Deployments /\ k.build \in Builds /\ k.attempt \in Attempts
  /\ k.at # "answered" => k.op = OpAt[k.at]
  /\ k.op \in {"upload", "transfer", "commit"} => k.file \in Files
  /\ k.op = "register" => k.file \in {0, NFiles + 1}

\* Behind these points the declaration is known to be one of the manifest's.
Checked == {"put", "verify", "insert artifact", "read artifact", "count", "state", "mark", "marked"}

\* What a handler has found out and nobody can undo; and the readiness it was
\* about to write, as long as its sequence number is the next one.
Known(c) ==
  LET k == calls[c]
      d == k.deployment
  IN /\ k.at = "insert" => manifests[d] = k.build
     /\ k.at \in Checked => registered[d] = k.build
     /\ k.at = "insert artifact" => Object(k) \in objects
     /\ k.at \in {"state", "mark"} => Complete(d)
     /\ k.at = "mark" => /\ k.seen <= Len(history[d])
                         /\ k.seen = Len(history[d]) => State(d) = "artifacts_pending"
     /\ k.at = "answered" /\ k.op = "register" /\ k.answer = "ready" =>
          registered[d] = k.build /\ Passed(d)

\* A run and its request are about the same build; one that publishes was told
\* that the deployment of this build is ready.
Runs(c) ==
  LET w == runs[c] IN
  /\ w.step # "idle" => w.deployment \in Deployments /\ w.build \in Builds /\ w.attempt \in Attempts
  /\ w.step = "calling" =>
       calls[c].op # "none" /\ calls[c].deployment = w.deployment /\ calls[c].build = w.build
  /\ w.step = "publish" => registered[w.deployment] = w.build /\ Passed(w.deployment)

Serving ==
  running.deployment # None =>
    registered[running.deployment] = running.build /\ Passed(running.deployment)

Handled == \A c \in Callers : Shaped(calls[c]) /\ Known(c)

Inv ==
  /\ TypeOK /\ Consistent /\ Declared /\ Pointed
  /\ Handled /\ (\A c \in Callers : Runs(c)) /\ Serving

(***************************************************************************)
(* What no step undoes.                                                    *)
(***************************************************************************)
Grows ==
  /\ \A d \in Deployments :
       /\ registered[d] # None => registered'[d] = registered[d]
       /\ manifests[d] # None => manifests'[d] = manifests[d]
       /\ Passed(d) => Passed(d)'
       /\ State(d) = "retired" => State(d)' = "retired"
       /\ Len(history'[d]) \in Nat /\ Len(history[d]) <= Len(history'[d])
       /\ Len(history'[d]) = Len(history[d]) => history'[d] = history[d]
  /\ artifacts \subseteq artifacts'
  /\ objects \subseteq objects'

-----------------------------------------------------------------------------
(* Types. *)

LEMMA Tables ==
  ASSUME TypeOK
  PROVE  /\ registered \in [Deployments -> Contents] /\ manifests \in [Deployments -> Contents]
         /\ history \in [Deployments -> Seq(Statuses)]
         /\ objects \subseteq Artifacts /\ artifacts \subseteq Artifacts /\ sweep \subseteq Artifacts
         /\ pointer \in Pointers /\ sessions \subseteq Keys /\ expired \subseteq sessions
         /\ calls \in [Callers -> CallRecord] /\ runs \in [Callers -> RunRecord]
         /\ plans \in [Admins -> PlanRecord \cup {None}]
         /\ tree \in Builds /\ running \in [deployment : Ids, build : Contents]
         /\ faults \in 0 .. MaxFaults /\ edits \in 0 .. MaxEdits
BY DEF TypeOK, Statuses, CallRecord, RunRecord, PlanRecord, Keys

LEMMA TypesPrimed ==
  ASSUME registered' \in [Deployments -> Contents], manifests' \in [Deployments -> Contents],
         history' \in [Deployments -> Seq(Statuses)],
         objects' \subseteq Artifacts, artifacts' \subseteq Artifacts, sweep' \subseteq Artifacts,
         pointer' \in Pointers, sessions' \subseteq Keys, expired' \subseteq sessions',
         calls' \in [Callers -> CallRecord], runs' \in [Callers -> RunRecord],
         plans' \in [Admins -> PlanRecord \cup {None}],
         tree' \in Builds, running' \in [deployment : Ids, build : Contents],
         faults' \in 0 .. MaxFaults, edits' \in 0 .. MaxEdits
  PROVE  TypeOK'
BY DEF TypeOK, Statuses, CallRecord, RunRecord, PlanRecord, Keys

LEMMA HistoryFacts ==
  ASSUME TypeOK, NEW d \in Deployments
  PROVE  /\ history[d] \in Seq(Statuses) /\ Len(history[d]) \in Nat
         /\ history[d] = <<>> <=> Len(history[d]) = 0
         /\ history[d] = <<>> => State(d) = "none"
         /\ history[d] # <<>> => State(d) \in Statuses
<1>1. history[d] \in Seq(Statuses)
  BY Tables
<1>2. /\ Len(history[d]) \in Nat
      /\ history[d] = <<>> <=> Len(history[d]) = 0
  BY <1>1, LenProperties, EmptySeq
<1>3. history[d] # <<>> => history[d][Len(history[d])] \in Statuses
  BY <1>1, <1>2, ElementOfSeq
<1> QED BY <1>1, <1>2, <1>3 DEF State

LEMMA CallFacts ==
  ASSUME Inv, NEW c \in Callers
  PROVE  /\ calls[c] \in CallRecord /\ Shaped(calls[c]) /\ Known(c)
         /\ runs[c] \in RunRecord /\ Runs(c)
         /\ calls[c].at # "answered" =>
              /\ calls[c].deployment \in Deployments /\ calls[c].build \in Builds
              /\ calls[c].attempt \in Attempts /\ calls[c].build # None
<1>1. calls[c] \in CallRecord /\ runs[c] \in RunRecord /\ Shaped(calls[c]) /\ Known(c) /\ Runs(c)
  BY Tables DEF Inv, Handled
<1>2. calls[c].at # "answered" => calls[c].op # "none"
  <2>1. ASSUME calls[c].at # "answered" PROVE OpAt[calls[c].at] # "none"
    <3>1. calls[c].at \in Places
      BY <1>1 DEF CallRecord
    <3> QED BY <2>1, <3>1 DEF OpAt
  <2> QED BY <1>1, <2>1 DEF Shaped
<1> QED BY <1>1, <1>2, NoneAssumption DEF Shaped

-----------------------------------------------------------------------------
(* What stays true when a step only adds. *)

LEMMA KnownStays ==
  ASSUME Inv, Grows, NEW c \in Callers, calls'[c] = calls[c]
  PROVE  Known(c)'
<1> SUFFICES ASSUME NEW k, k = calls[c], NEW d, d = calls[c].deployment PROVE Known(c)'
  OBVIOUS
<1>1. /\ k \in CallRecord /\ Shaped(k) /\ calls'[c] = k
      /\ k.at # "answered" => d \in Deployments /\ k.build # None
      /\ k.op # "none" => d \in Deployments /\ k.build # None
  BY CallFacts, NoneAssumption DEF Shaped
<1>2. k.at = "insert" => manifests'[d] = k.build
  BY <1>1, CallFacts DEF Known, Grows
<1>3. k.at \in Checked => registered'[d] = k.build
  BY <1>1, CallFacts DEF Known, Grows, Checked
<1>4. k.at = "insert artifact" => Object(k) \in objects'
  BY CallFacts DEF Known, Grows
<1>5. k.at \in {"state", "mark"} => Complete(d)'
  <2>1. k.at \in {"state", "mark"} => Complete(d) /\ registered[d] = k.build
    BY CallFacts DEF Known, Checked
  <2> QED BY <1>1, <2>1 DEF Grows, Complete
<1>6. k.at = "mark" => /\ k.seen <= Len(history'[d])
                       /\ k.seen = Len(history'[d]) => State(d)' = "artifacts_pending"
  <2> SUFFICES ASSUME k.at = "mark"
               PROVE  /\ k.seen <= Len(history'[d])
                      /\ k.seen = Len(history'[d]) => State(d)' = "artifacts_pending"
    OBVIOUS
  <2>1. d \in Deployments /\ Len(history[d]) \in Nat /\ k.seen \in Nat
    BY <1>1, HistoryFacts DEF Inv, CallRecord
  <2>2. /\ k.seen <= Len(history[d])
        /\ k.seen = Len(history[d]) => State(d) = "artifacts_pending"
    BY CallFacts DEF Known
  <2>3. history'[d] = history[d] => State(d)' = State(d)
    BY DEF State
  <2> QED BY <2>1, <2>2, <2>3 DEF Grows
<1>7. k.at = "answered" /\ k.op = "register" /\ k.answer = "ready" =>
        registered'[d] = k.build /\ Passed(d)'
  BY <1>1, CallFacts DEF Known, Grows
<1> HIDE DEF Known
<1>8. Known(c)' <=>
        /\ k.at = "insert" => manifests'[d] = k.build
        /\ k.at \in Checked => registered'[d] = k.build
        /\ k.at = "insert artifact" => Object(k) \in objects'
        /\ k.at \in {"state", "mark"} => Complete(d)'
        /\ k.at = "mark" => /\ k.seen <= Len(history'[d])
                            /\ k.seen = Len(history'[d]) => State(d)' = "artifacts_pending"
        /\ k.at = "answered" /\ k.op = "register" /\ k.answer = "ready" =>
             registered'[d] = k.build /\ Passed(d)'
  BY DEF Known, State, Passed, Complete, Object
<1> QED BY <1>2, <1>3, <1>4, <1>5, <1>6, <1>7, <1>8

LEMMA RunsStay ==
  ASSUME Inv, Grows, NEW c \in Callers, runs'[c] = runs[c],
         runs[c].step = "calling" =>
           /\ calls'[c].op = calls[c].op /\ calls'[c].deployment = calls[c].deployment
           /\ calls'[c].build = calls[c].build
  PROVE  Runs(c)'
<1> SUFFICES ASSUME NEW w, w = runs[c] PROVE Runs(c)'
  OBVIOUS
<1>1. Runs(c) /\ w \in RunRecord
  BY CallFacts
<1>2. w.step # "idle" => w.deployment \in Deployments /\ w.build \in Builds /\ w.attempt \in Attempts
  BY <1>1 DEF Runs
<1>3. w.step = "publish" => registered'[w.deployment] = w.build /\ Passed(w.deployment)'
  BY <1>1, <1>2, NoneAssumption DEF Runs, Grows
<1> QED BY <1>1, <1>2, <1>3 DEF Runs, Passed, State

LEMMA ServingStays ==
  ASSUME Inv, Grows, UNCHANGED running
  PROVE  Serving'
<1> SUFFICES ASSUME NEW d, d = running.deployment, d # None
             PROVE  registered'[d] = running.build /\ Passed(d)'
  BY DEF Serving, Passed, State
<1>1. d \in Deployments /\ registered[d] = running.build /\ Passed(d)
  BY Tables DEF Inv, Serving, Ids
<1>2. registered[d] # None
  <2>1. history[d] # <<>>
    BY <1>1, HistoryFacts DEF Inv, Passed
  <2> QED BY <1>1, <2>1 DEF Inv, Consistent
<1> QED BY <1>1, <1>2 DEF Grows

-----------------------------------------------------------------------------
(* Steps of a handler. *)

\* What a handler step makes of its call: the request stays, the handler moves on.
Proceeds(c) ==
  /\ calls' \in [Callers -> CallRecord]
  /\ \A b \in Callers \ {c} : calls'[b] = calls[b]
  /\ calls'[c].op = calls[c].op /\ calls'[c].deployment = calls[c].deployment
  /\ calls'[c].file = calls[c].file /\ calls'[c].build = calls[c].build
  /\ calls'[c].attempt = calls[c].attempt
  /\ calls'[c].at # "answered" => OpAt[calls'[c].at] = calls[c].op

LEMMA GoProceeds ==
  ASSUME Inv, NEW c \in Callers, NEW at \in Places, Go(c, at),
         at # "answered" => OpAt[at] = calls[c].op
  PROVE  Proceeds(c) /\ calls'[c].at = at /\ calls'[c].seen = calls[c].seen
<1>1. calls \in [Callers -> CallRecord] /\ calls[c] \in CallRecord
  BY Tables DEF Inv
<1>2. [calls[c] EXCEPT !.at = at] \in CallRecord
  BY <1>1, Zenon DEF CallRecord
<1>3. calls' = [calls EXCEPT ![c] = [calls[c] EXCEPT !.at = at]]
  BY DEF Go
<1> QED BY <1>1, <1>2, <1>3 DEF Proceeds, CallRecord

LEMMA ReplyProceeds ==
  ASSUME Inv, NEW c \in Callers, NEW answer \in Answers, Reply(c, answer)
  PROVE  Proceeds(c) /\ calls'[c].at = "answered" /\ calls'[c].answer = answer
<1>1. calls \in [Callers -> CallRecord] /\ calls[c] \in CallRecord
  BY Tables DEF Inv
<1>2. [calls[c] EXCEPT !.at = "answered", !.answer = answer] \in CallRecord
  <2>1. "answered" \in Places
    BY DEF Places
  <2> QED BY <1>1, <2>1, Zenon DEF CallRecord
<1>3. calls' = [calls EXCEPT ![c] = [calls[c] EXCEPT !.at = "answered", !.answer = answer]]
  BY DEF Reply
<1> QED BY <1>1, <1>2, <1>3 DEF Proceeds, CallRecord

LEMMA DeclaredStays ==
  ASSUME Inv, Grows,
         \A s \in sessions' \ sessions : registered'[s[1]] = s[3]
  PROVE  Declared'
<1>1. ASSUME NEW s \in sessions PROVE registered'[s[1]] = s[3]
  <2>1. s[1] \in Deployments /\ s[3] \in Builds
    BY Tables DEF Inv, Keys
  <2>2. registered[s[1]] = s[3] /\ s[3] # None
    BY <2>1, NoneAssumption DEF Inv, Declared
  <2> QED BY <2>1, <2>2 DEF Grows
<1> QED BY <1>1 DEF Declared

\* The invariants of calls and runs after a handler step that only adds.
LEMMA Handles ==
  ASSUME Inv, Grows, NEW c \in Callers, Proceeds(c), Known(c)', UNCHANGED tool
  PROVE  Handled' /\ (\A b \in Callers : Runs(b)') /\ Serving'
<1>1. UNCHANGED runs /\ UNCHANGED running
  BY DEF tool
<1>2. Shaped(calls'[c])
  BY CallFacts DEF Shaped, Proceeds
<1>3. ASSUME NEW b \in Callers, b # c PROVE Shaped(calls'[b]) /\ Known(b)'
  <2>1. calls'[b] = calls[b]
    BY <1>3 DEF Proceeds
  <2> QED BY <1>3, <2>1, CallFacts, KnownStays
<1>4. Handled'
  BY <1>2, <1>3 DEF Handled
<1>5. ASSUME NEW b \in Callers PROVE Runs(b)'
  <2>1. /\ calls'[b].op = calls[b].op /\ calls'[b].deployment = calls[b].deployment
        /\ calls'[b].build = calls[b].build
    BY DEF Proceeds
  <2> QED BY <1>1, <2>1, RunsStay
<1> QED BY <1>1, <1>4, <1>5, ServingStays

\* A step that leaves the registry as it is.
LEMMA QuietStep ==
  ASSUME Inv, UNCHANGED <<ledger, manifests>>
  PROVE  /\ Grows
         /\ UNCHANGED sweep => Consistent'
         /\ UNCHANGED plans => Pointed'
         /\ registered' \in [Deployments -> Contents] /\ manifests' \in [Deployments -> Contents]
         /\ history' \in [Deployments -> Seq(Statuses)]
         /\ objects' \subseteq Artifacts /\ artifacts' \subseteq Artifacts
         /\ pointer' \in Pointers
<1>1. UNCHANGED <<registered, history, objects, artifacts, pointer, manifests>>
  BY DEF ledger
<1>2. Grows
  <2>1. \A d \in Deployments : Len(history[d]) \in Nat
    BY HistoryFacts DEF Inv
  <2> QED BY <1>1, <2>1 DEF Grows, Passed, State
<1>3. UNCHANGED sweep => Consistent'
  BY <1>1 DEF Inv, Consistent, Passed, State, Complete
<1>4. UNCHANGED plans => Pointed'
  BY <1>1 DEF Inv, Pointed
<1> QED BY <1>1, <1>2, <1>3, <1>4, Tables DEF Inv

\* ... of a handler.
LEMMA QuietHandler ==
  ASSUME Inv, NEW c \in Callers, Proceeds(c), Known(c)', UNCHANGED tool,
         UNCHANGED <<ledger, manifests, plans, sweep>>,
         sessions' \subseteq Keys, expired' \subseteq sessions', faults' \in 0 .. MaxFaults,
         \A s \in sessions' \ sessions : registered[s[1]] = s[3]
  PROVE  Inv'
<1>1. /\ Grows /\ Consistent' /\ Pointed'
      /\ registered' \in [Deployments -> Contents] /\ manifests' \in [Deployments -> Contents]
      /\ history' \in [Deployments -> Seq(Statuses)]
      /\ objects' \subseteq Artifacts /\ artifacts' \subseteq Artifacts
      /\ pointer' \in Pointers
  BY QuietStep
<1>2. UNCHANGED <<tree, runs, running, edits>>
  BY DEF tool
<1>3. TypeOK'
  <2>1. calls' \in [Callers -> CallRecord]
    BY DEF Proceeds
  <2> QED BY <1>1, <1>2, <2>1, Tables, TypesPrimed DEF Inv
<1>4. Handled' /\ (\A b \in Callers : Runs(b)') /\ Serving'
  BY <1>1, Handles
<1>5. Declared'
  <2>1. UNCHANGED registered
    BY DEF ledger
  <2> QED BY <1>1, <2>1, DeclaredStays
<1> QED BY <1>1, <1>3, <1>4, <1>5 DEF Inv

\* An answer needs only be true if it is that a registered deployment is ready.
LEMMA ReplyKnown ==
  ASSUME Inv, NEW c \in Callers, NEW answer \in Answers, Reply(c, answer),
         UNCHANGED <<ledger, manifests>>,
         calls[c].op = "register" /\ answer = "ready" =>
           registered[calls[c].deployment] = calls[c].build /\ Passed(calls[c].deployment)
  PROVE  Known(c)'
<1>1. /\ calls'[c].at = "answered" /\ calls'[c].answer = answer
      /\ calls'[c].op = calls[c].op /\ calls'[c].deployment = calls[c].deployment
      /\ calls'[c].build = calls[c].build
  BY ReplyProceeds DEF Proceeds
<1>2. UNCHANGED <<registered, history>>
  BY DEF ledger
<1> QED BY <1>1, <1>2 DEF Known, Checked, Passed, State

LEMMA RegistrationTrue ==
  ASSUME NEW k, Registration(k) = "ready"
  PROVE  registered[k.deployment] = k.build /\ Passed(k.deployment)
BY DEF Registration, Passed

LEMMA AnswerTypes ==
  /\ \A k : Refusal(k) \in Answers \cup {"ok"} /\ Registration(k) \in Answers
  /\ \A d : Marked(d) \in Answers
BY DEF Refusal, Registration, Marked, Answers

LEMMA OpFacts ==
  /\ OpAt["register"] = "register" /\ OpAt["manifest"] = "register"
  /\ OpAt["insert"] = "register" /\ OpAt["registered"] = "register"
  /\ OpAt["upload"] = "upload" /\ OpAt["transfer"] = "transfer" /\ OpAt["put"] = "transfer"
  /\ \A at \in {"commit", "verify", "insert artifact", "read artifact", "count", "state",
                "mark", "marked"} : at \in Places /\ OpAt[at] = "commit"
  /\ {"register", "manifest", "insert", "registered", "upload", "transfer", "put"} \subseteq Places
BY DEF OpAt, Places

\* Replies that leave the registry as it is.
LEMMA QuietReply ==
  ASSUME Inv, NEW c \in Callers, NEW answer \in Answers, Reply(c, answer), UNCHANGED tool,
         UNCHANGED <<ledger, manifests, plans, sweep>>,
         sessions' \subseteq Keys, expired' \subseteq sessions', faults' \in 0 .. MaxFaults,
         \A s \in sessions' \ sessions : registered[s[1]] = s[3],
         calls[c].op = "register" /\ answer = "ready" =>
           registered[calls[c].deployment] = calls[c].build /\ Passed(calls[c].deployment)
  PROVE  Inv'
<1>1. Known(c)'
  BY ReplyKnown
<1> QED BY <1>1, ReplyProceeds, QuietHandler

\* Steps that leave the registry as it is, to a point where what is known is
\* the declaration, or that no requirement is missing.
LEMMA QuietGo ==
  ASSUME Inv, NEW c \in Callers, NEW at \in Places \ {"answered", "mark"}, Go(c, at),
         UNCHANGED tool, UNCHANGED <<ledger, manifests, sessions, expired, plans, sweep>>,
         faults' \in 0 .. MaxFaults,
         OpAt[at] = calls[c].op,
         at = "insert" => manifests[calls[c].deployment] = calls[c].build,
         at \in Checked => registered[calls[c].deployment] = calls[c].build,
         at = "insert artifact" => Object(calls[c]) \in objects,
         at = "state" => Complete(calls[c].deployment)
  PROVE  Inv'
<1>1. Proceeds(c) /\ calls'[c].at = at
  BY GoProceeds
<1>2. /\ calls'[c].deployment = calls[c].deployment /\ calls'[c].build = calls[c].build
      /\ calls'[c].file = calls[c].file
  BY <1>1 DEF Proceeds
<1>3. UNCHANGED <<registered, history, objects, artifacts, manifests>>
  BY DEF ledger
<1>4. Known(c)'
  BY <1>1, <1>2, <1>3 DEF Known, Checked, Object, Complete
<1>5. sessions' \subseteq Keys /\ expired' \subseteq sessions'
  BY Tables DEF Inv
<1> QED BY <1>1, <1>4, <1>5, QuietHandler

LEMMA QuietSteps ==
  ASSUME Inv, NEW c \in Callers, UNCHANGED tool,
         \/ RegisterLookup(c) \/ RegisterRead(c) \/ Transfer(c) \/ Commit(c) \/ Verify(c)
         \/ ReadArtifact(c) \/ Count(c) \/ MarkRead(c)
  PROVE  Inv'
<1>0. /\ sessions \subseteq Keys /\ expired \subseteq sessions /\ faults \in 0 .. MaxFaults
      /\ {"invalid", "expired", "error", "committed"} \subseteq Answers
  BY Tables DEF Inv, Answers
<1> DEFINE k == calls[c]
<1>1. Shaped(k) /\ Known(c)
  BY CallFacts
<1>2. CASE RegisterLookup(c)
  <2>1. k.at = "register" /\ k.op = "register"
    BY <1>1, <1>2, OpFacts DEF RegisterLookup, Shaped
  <2>2. CASE Reply(c, Registration(k))
    BY <1>0, <1>2, <2>2, AnswerTypes, RegistrationTrue, QuietReply DEF RegisterLookup
  <2>3. CASE Go(c, "manifest")
    BY <1>0, <1>2, <2>1, <2>3, OpFacts, QuietGo DEF RegisterLookup, Checked
  <2> QED BY <1>2, <2>2, <2>3 DEF RegisterLookup
<1>3. CASE RegisterRead(c)
  BY <1>0, <1>3, AnswerTypes, RegistrationTrue, QuietReply DEF RegisterRead
<1>4. CASE Transfer(c)
  <2>1. k.op = "transfer"
    BY <1>1, <1>4, OpFacts DEF Transfer, Shaped
  <2>2. CASE \E a \in Answers : Reply(c, a)
    BY <1>0, <1>4, <2>1, <2>2, QuietReply DEF Transfer
  <2>3. CASE Refusal(k) = "ok" /\ Go(c, "put")
    <3>1. registered[k.deployment] = k.build
      BY <2>3 DEF Refusal, Required
    <3> QED BY <1>0, <1>4, <2>1, <2>3, <3>1, OpFacts, QuietGo DEF Transfer
  <2> QED BY <1>0, <1>4, <2>2, <2>3, AnswerTypes DEF Transfer
<1>5. CASE Commit(c)
  <2>1. k.op = "commit"
    BY <1>1, <1>5, OpFacts DEF Commit, Shaped
  <2>2. CASE \E a \in Answers : Reply(c, a)
    BY <1>0, <1>5, <2>1, <2>2, QuietReply DEF Commit
  <2>3. CASE Refusal(k) = "ok" /\ (Go(c, "count") \/ Go(c, "verify"))
    <3>1. registered[k.deployment] = k.build
      BY <2>3 DEF Refusal, Required
    <3> QED BY <1>0, <1>5, <2>1, <2>3, <3>1, OpFacts, QuietGo DEF Commit
  <2> QED BY <1>0, <1>5, <2>2, <2>3, AnswerTypes DEF Commit
<1>6. CASE Verify(c) \/ ReadArtifact(c) \/ Count(c)
  <2>1. /\ k.at \in Checked /\ k.op = "commit" /\ registered[k.deployment] = k.build
        /\ UNCHANGED <<ledger, manifests, sessions, expired, plans, sweep, faults>>
    BY <1>1, <1>6, OpFacts DEF Verify, ReadArtifact, Count, Shaped, Known, Checked
  <2>2. CASE \E a \in Answers : Reply(c, a)
    BY <1>0, <2>1, <2>2, QuietReply
  <2>3. CASE Go(c, "insert artifact") /\ Verified(k)
    BY <1>0, <2>1, <2>3, OpFacts, QuietGo DEF Verified
  <2>4. CASE Go(c, "count")
    BY <1>0, <2>1, <2>4, OpFacts, QuietGo
  <2>5. CASE Go(c, "state") /\ NoneMissing(k.deployment)
    BY <1>0, <2>1, <2>5, OpFacts, QuietGo DEF NoneMissing
  <2> QED BY <1>0, <1>6, <2>2, <2>3, <2>4, <2>5 DEF Verify, ReadArtifact, Count
<1>7. CASE MarkRead(c)
  <2>1. k.op = "commit"
    BY <1>1, <1>7, OpFacts DEF MarkRead, Shaped
  <2> QED BY <1>0, <1>7, <2>1, AnswerTypes, QuietReply DEF MarkRead
<1> QED BY <1>2, <1>3, <1>4, <1>5, <1>6, <1>7

LEMMA UploadStep ==
  ASSUME Inv, NEW c \in Callers, UNCHANGED tool, Upload(c)
  PROVE  Inv'
<1> DEFINE k == calls[c]
<1>0. /\ sessions \subseteq Keys /\ expired \subseteq sessions /\ faults \in 0 .. MaxFaults
      /\ {"session", "expired"} \subseteq Answers
  BY Tables DEF Inv, Answers
<1>1. k.op = "upload" /\ Session(k) \in Keys
  <2>1. /\ k.at = "upload" /\ Shaped(k) /\ k.deployment \in Deployments /\ k.build \in Builds
        /\ k.attempt \in Attempts
    BY CallFacts DEF Upload
  <2>2. k.op = "upload" /\ k.file \in Files
    BY <2>1, OpFacts DEF Shaped
  <2> QED BY <2>1, <2>2 DEF Session, Keys
<1>2. sessions' \subseteq Keys /\ expired' \subseteq sessions' /\ UNCHANGED faults
  BY <1>0, <1>1 DEF Upload
<1>3. PICK a \in Answers : Reply(c, a)
  BY <1>0, AnswerTypes DEF Upload
<1>4. \A s \in sessions' \ sessions : registered[s[1]] = s[3]
  <2>1. ASSUME NEW s \in sessions' \ sessions PROVE s = Session(k) /\ Required(k)
    BY <2>1 DEF Upload, Refusal
  <2> QED BY <2>1 DEF Session, Required
<1> QED BY <1>0, <1>1, <1>2, <1>3, <1>4, QuietReply DEF Upload

LEMMA ReadStateStep ==
  ASSUME Inv, NEW c \in Callers, UNCHANGED tool, ReadState(c)
  PROVE  Inv'
<1> SUFFICES ASSUME NEW k, k = calls[c], NEW d, d = calls[c].deployment PROVE Inv'
  OBVIOUS
<1>0. /\ sessions \subseteq Keys /\ expired \subseteq sessions /\ faults \in 0 .. MaxFaults
      /\ calls \in [Callers -> CallRecord] /\ "committed" \in Answers
      /\ UNCHANGED <<ledger, manifests, sessions, expired, plans, sweep, faults>>
  BY Tables DEF Inv, Answers, ReadState
<1>1. /\ k.at = "state" /\ k.op = "commit" /\ d \in Deployments
      /\ registered[d] = k.build /\ Complete(d) /\ k \in CallRecord
  <2>1. k.at = "state" /\ k \in CallRecord /\ Shaped(k) /\ Known(c) /\ d \in Deployments
    BY CallFacts DEF ReadState
  <2> QED BY <2>1, OpFacts DEF Shaped, Known, Checked
<1>2. CASE Reply(c, "committed")
  BY <1>0, <1>1, <1>2, QuietReply
<1>3. CASE /\ State(d) = "artifacts_pending"
           /\ calls' = [calls EXCEPT ![c].at = "mark", ![c].seen = Len(history[d])]
  <2> DEFINE new == [k EXCEPT !.at = "mark", !.seen = Len(history[d])]
  <2>1. Len(history[d]) \in Nat
    BY <1>1, HistoryFacts DEF Inv
  <2>2. new \in CallRecord
    <3>1. "mark" \in Places
      BY DEF Places
    <3> QED BY <1>1, <2>1, <3>1, Zenon DEF CallRecord
  <2>3. calls' = [calls EXCEPT ![c] = new]
    BY <1>3
  <2>4. /\ new.op = k.op /\ new.deployment = k.deployment /\ new.file = k.file
        /\ new.build = k.build /\ new.attempt = k.attempt /\ new.at = "mark"
        /\ new.seen = Len(history[d])
    BY <1>1 DEF CallRecord
  <2> HIDE DEF new
  <2>5. calls'[c] = new
    BY <1>0, <2>3
  <2>6. Proceeds(c)
    BY <1>0, <1>1, <2>2, <2>3, <2>4, <2>5, OpFacts DEF Proceeds
  <2>7. UNCHANGED <<registered, history, artifacts>>
    BY <1>0 DEF ledger
  <2>8. Known(c)'
    <3>1. /\ calls'[c].at = "mark" /\ calls'[c].deployment = d /\ calls'[c].build = k.build
          /\ calls'[c].seen = Len(history[d])
      BY <2>4, <2>5
    <3>2. /\ registered'[d] = k.build /\ Complete(d)' /\ State(d)' = "artifacts_pending"
          /\ Len(history'[d]) = Len(history[d])
      BY <1>1, <1>3, <2>7 DEF State, Complete
    <3> QED BY <2>1, <3>1, <3>2 DEF Known, State, Complete
  <2>9. sessions' \subseteq Keys /\ expired' \subseteq sessions' /\ faults' \in 0 .. MaxFaults
    BY <1>0
  <2>10. UNCHANGED <<ledger, manifests, plans, sweep>>
    BY <1>0
  <2> QED BY <1>0, <2>6, <2>8, <2>9, <2>10, QuietHandler
<1> QED BY <1>0, <1>2, <1>3 DEF ReadState

LEMMA HandlerStep ==
  ASSUME Inv, TypeOK', Grows, Consistent', Pointed', NEW c \in Callers, Proceeds(c), Known(c)',
         UNCHANGED tool, UNCHANGED sessions
  PROVE  Inv'
BY Handles, DeclaredStays DEF Inv

\* The types that a handler step leaves alone.
LEMMA ToolTypes ==
  ASSUME Inv, UNCHANGED tool
  PROVE  /\ runs' \in [Callers -> RunRecord] /\ tree' \in Builds
         /\ running' \in [deployment : Ids, build : Contents] /\ edits' \in 0 .. MaxEdits
<1>1. UNCHANGED <<tree, runs, running, edits>>
  BY DEF tool
<1> QED BY <1>1, Tables DEF Inv

LEMMA FailureSteps ==
  ASSUME Inv, NEW c \in Callers, UNCHANGED tool, HandlerFails(c) \/ BatchFails(c)
  PROVE  Inv'
<1> DEFINE k == calls[c]
<1>0. /\ sessions \subseteq Keys /\ expired \subseteq sessions /\ faults' \in 0 .. MaxFaults
      /\ "error" \in Answers /\ UNCHANGED <<ledger, manifests, sessions, expired, plans, sweep>>
  <2>1. /\ faults < MaxFaults /\ faults' = faults + 1
        /\ UNCHANGED <<ledger, manifests, sessions, expired, plans, sweep>>
    BY DEF HandlerFails, BatchFails
  <2>2. sessions \subseteq Keys /\ expired \subseteq sessions /\ faults \in 0 .. MaxFaults
    BY Tables DEF Inv
  <2>3. faults' \in 0 .. MaxFaults
    BY <2>1, <2>2, BoundAssumption
  <2> QED BY <2>1, <2>2, <2>3 DEF Answers
<1>1. CASE HandlerFails(c)
  <2>1. Reply(c, "error")
    BY <1>1 DEF HandlerFails
  <2> QED BY <1>0, <2>1, QuietReply
<1>2. CASE BatchFails(c)
  <2>1. /\ k.at \in {"insert", "insert artifact", "mark"}
        /\ k.at = "insert" => Go(c, "registered")
        /\ k.at = "insert artifact" => Go(c, "read artifact")
        /\ k.at = "mark" => Go(c, "marked")
    BY <1>2 DEF BatchFails
  <2>2. Shaped(k) /\ Known(c)
    BY CallFacts
  <2>3. CASE k.at = "insert"
    BY <1>0, <2>1, <2>2, <2>3, OpFacts, QuietGo DEF Shaped, Checked
  <2>4. CASE k.at \in {"insert artifact", "mark"}
    <3>1. registered[k.deployment] = k.build /\ k.op = "commit"
      BY <2>2, <2>4, OpFacts DEF Known, Checked, Shaped
    <3> QED BY <1>0, <2>1, <2>4, <3>1, OpFacts, QuietGo
  <2> QED BY <2>1, <2>3, <2>4
<1> QED BY <1>1, <1>2

LEMMA PutManifestStep ==
  ASSUME Inv, NEW c \in Callers, UNCHANGED tool, PutManifest(c)
  PROVE  Inv'
<1> SUFFICES ASSUME NEW k, k = calls[c], NEW d, d = calls[c].deployment PROVE Inv'
  OBVIOUS
<1>1. k.at = "manifest" /\ d \in Deployments /\ k.build \in Builds /\ Shaped(k) /\ k.build # None
  BY CallFacts DEF PutManifest
<1>2. PICK stored : /\ stored = IF manifests[d] = None THEN k.build ELSE manifests[d]
                    /\ manifests' = [manifests EXCEPT ![d] = stored]
                    /\ IF stored = k.build THEN Go(c, "insert") ELSE Reply(c, "conflict")
  BY DEF PutManifest
<1>3. /\ UNCHANGED <<registered, history, objects, artifacts, pointer>>
      /\ UNCHANGED <<sessions, expired, plans, sweep, faults>>
  BY DEF PutManifest, ledger
<1>4. /\ manifests \in [Deployments -> Contents] /\ stored \in Contents /\ stored # None
      /\ manifests' \in [Deployments -> Contents] /\ manifests'[d] = stored
      /\ manifests[d] # None => stored = manifests[d]
      /\ \A e \in Deployments \ {d} : manifests'[e] = manifests[e]
  BY <1>1, <1>2, Tables DEF Inv, Contents
<1>5. Grows
  <2>1. \A e \in Deployments : Len(history[e]) \in Nat
    BY HistoryFacts DEF Inv
  <2> QED BY <1>3, <1>4, <2>1 DEF Grows, Passed, State
<1>6. Consistent'
  <2>1. \A e \in Deployments : registered[e] # None => manifests'[e] = registered[e]
    BY <1>4 DEF Inv, Consistent
  <2> QED BY <1>3, <2>1 DEF Inv, Consistent, Passed, State, Complete
<1>7. Pointed'
  BY <1>3 DEF Inv, Pointed
<1>8. CASE stored = k.build /\ Go(c, "insert")
  <2>1. Proceeds(c) /\ calls'[c].at = "insert"
    <3>1. k.op = "register"
      BY <1>1, OpFacts DEF Shaped
    <3> QED BY <1>8, <3>1, OpFacts, GoProceeds
  <2>2. calls'[c].deployment = d /\ calls'[c].build = k.build
    BY <2>1 DEF Proceeds
  <2>3. Known(c)'
    BY <1>4, <1>8, <2>1, <2>2 DEF Known, Checked
  <2>4. TypeOK'
    BY <1>3, <1>4, <2>1, ToolTypes, Tables, TypesPrimed DEF Inv, Proceeds
  <2> QED BY <1>3, <1>5, <1>6, <1>7, <2>1, <2>3, <2>4, HandlerStep
<1>9. CASE Reply(c, "conflict")
  <2>1. "conflict" \in Answers
    BY DEF Answers
  <2>2. Proceeds(c) /\ calls'[c].at = "answered" /\ calls'[c].answer = "conflict"
    BY <1>9, <2>1, ReplyProceeds
  <2>3. Known(c)'
    BY <2>2 DEF Known, Checked
  <2>4. TypeOK'
    BY <1>3, <1>4, <2>2, ToolTypes, Tables, TypesPrimed DEF Inv, Proceeds
  <2> QED BY <1>3, <1>5, <1>6, <1>7, <2>2, <2>3, <2>4, HandlerStep
<1> QED BY <1>2, <1>8, <1>9

\* What one history says when another row is appended.
LEMMA Appended ==
  ASSUME TypeOK, NEW d \in Deployments, NEW state \in Statuses
  PROVE  /\ Append(history[d], state) \in Seq(Statuses)
         /\ Len(Append(history[d], state)) = Len(history[d]) + 1
         /\ Append(history[d], state)[Len(history[d]) + 1] = state
         /\ Append(history[d], state) # <<>>
<1>1. history[d] \in Seq(Statuses) /\ Len(history[d]) \in Nat
  BY HistoryFacts
<1>2. /\ Append(history[d], state) \in Seq(Statuses)
      /\ Len(Append(history[d], state)) = Len(history[d]) + 1
      /\ Append(history[d], state)[Len(history[d]) + 1] = state
  BY <1>1, AppendProperties
<1>3. Append(history[d], state) # <<>>
  BY <1>1, <1>2, EmptySeq
<1> QED BY <1>2, <1>3

LEMMA InsertDeploymentStep ==
  ASSUME Inv, NEW c \in Callers, UNCHANGED tool, InsertDeployment(c)
  PROVE  Inv'
<1> SUFFICES ASSUME NEW k, k = calls[c], NEW d, d = calls[c].deployment PROVE Inv'
  OBVIOUS
<1>1. /\ k.at = "insert" /\ d \in Deployments /\ k.build \in Builds /\ k.build # None
      /\ k.op = "register" /\ manifests[d] = k.build /\ Go(c, "registered")
  BY CallFacts, OpFacts DEF InsertDeployment, Shaped, Known
<1>2. Proceeds(c) /\ calls'[c].at = "registered"
  BY <1>1, OpFacts, GoProceeds
<1>3. Known(c)'
  BY <1>2 DEF Known, Checked
<1>4. /\ UNCHANGED <<manifests, sessions, expired, plans, sweep, faults>>
      /\ sessions' \subseteq Keys /\ expired' \subseteq sessions' /\ faults' \in 0 .. MaxFaults
  BY Tables DEF Inv, InsertDeployment
<1>5. CASE UNCHANGED ledger
  BY <1>2, <1>3, <1>4, <1>5, QuietHandler
<1>6. CASE registered[d] = None /\ Register(d, k.build)
  <2> DEFINE first == <<"registered", "artifacts_pending">>
  <2>1. /\ first \in Seq(Statuses) /\ Len(first) = 2 /\ first[2] = "artifacts_pending"
        /\ first # <<>>
    BY DEF Statuses
  <2>2. /\ registered' = [registered EXCEPT ![d] = k.build]
        /\ history' = [history EXCEPT ![d] = first]
        /\ UNCHANGED <<objects, artifacts, pointer>>
    BY <1>6 DEF Register
  <2> HIDE DEF first
  <2>3. /\ registered' \in [Deployments -> Contents] /\ history' \in [Deployments -> Seq(Statuses)]
        /\ registered'[d] = k.build /\ history'[d] = first
        /\ \A e \in Deployments \ {d} : registered'[e] = registered[e] /\ history'[e] = history[e]
    BY <1>1, <2>1, <2>2, Tables DEF Inv, Contents
  <2>4. State(d)' = "artifacts_pending" /\ State(d) = "none" /\ Len(history[d]) = 0
    BY <1>1, <1>6, <2>1, <2>3, HistoryFacts DEF State, Inv, Consistent
  <2>5. ASSUME NEW e \in Deployments, e # d
        PROVE  State(e)' = State(e) /\ Complete(e)' = Complete(e) /\ Len(history[e]) \in Nat
    BY <2>2, <2>3, <2>5, HistoryFacts DEF State, Complete, Inv
  <2>6. Grows
    BY <1>4, <1>6, <2>1, <2>2, <2>3, <2>4, <2>5 DEF Grows, Passed
  <2>7. Consistent'
    <3>1. ASSUME NEW e \in Deployments
          PROVE  /\ history'[e] = <<>> <=> registered'[e] = None
                 /\ registered'[e] # None => manifests'[e] = registered'[e]
                 /\ Passed(e)' => Complete(e)'
      BY <1>1, <1>4, <2>1, <2>3, <2>4, <2>5 DEF Inv, Consistent, Passed
    <3> QED BY <1>4, <2>2, <3>1 DEF Inv, Consistent
  <2>8. Pointed'
    BY <1>4, <2>2 DEF Inv, Pointed
  <2>9. TypeOK'
    BY <1>2, <1>4, <2>2, <2>3, ToolTypes, Tables, TypesPrimed DEF Inv, Proceeds
  <2> QED BY <1>4, <1>2, <1>3, <2>6, <2>7, <2>8, <2>9, HandlerStep
<1> QED BY <1>5, <1>6 DEF InsertDeployment

\* Steps that leave rows and histories as they are, and add bytes and artifacts.
LEMMA ObjectsGrow ==
  ASSUME Inv, UNCHANGED <<registered, manifests, history, sweep>>,
         artifacts \subseteq artifacts', artifacts' \subseteq objects', objects \subseteq objects'
  PROVE  Grows /\ Consistent'
<1>1. \A e \in Deployments : Len(history[e]) \in Nat
  BY HistoryFacts DEF Inv
<1>2. Grows
  BY <1>1 DEF Grows, Passed, State
<1>3. Consistent'
  <2>1. \A e \in Deployments : Complete(e) => Complete(e)'
    BY DEF Complete
  <2> QED BY <2>1 DEF Inv, Consistent, Passed, State
<1> QED BY <1>2, <1>3

LEMMA PutObjectStep ==
  ASSUME Inv, NEW c \in Callers, UNCHANGED tool, PutObject(c)
  PROVE  Inv'
<1> SUFFICES ASSUME NEW k, k = calls[c], NEW answer,
                    answer = IF Object(k) \in objects THEN "exists" ELSE "stored"
             PROVE  Inv'
  OBVIOUS
<1>1. /\ k.at = "put" /\ k.deployment \in Deployments /\ k.build \in Builds /\ k.file \in Files
      /\ k.op = "transfer"
  BY CallFacts, OpFacts DEF PutObject, Shaped
<1>2. Object(k) \in Artifacts
  BY <1>1 DEF Object, Artifacts
<1>3. answer \in Answers /\ answer # "ready" /\ Reply(c, answer)
  BY DEF Answers, PutObject
<1>4. Proceeds(c) /\ calls'[c].at = "answered" /\ calls'[c].answer = answer
  BY <1>3, ReplyProceeds
<1>5. Known(c)'
  BY <1>3, <1>4 DEF Known, Checked
<1>6. /\ objects' = objects \cup {Object(k)}
      /\ UNCHANGED <<registered, history, artifacts, pointer,
                     manifests, sessions, expired, plans, sweep, faults>>
  BY DEF PutObject
<1>7. Grows /\ Consistent'
  BY <1>6, ObjectsGrow DEF Inv, Consistent
<1>8. Pointed'
  BY <1>6 DEF Inv, Pointed
<1>9. TypeOK'
  BY <1>2, <1>4, <1>6, ToolTypes, Tables, TypesPrimed DEF Inv, Proceeds
<1> QED BY <1>6, <1>4, <1>5, <1>7, <1>8, <1>9, HandlerStep

LEMMA InsertArtifactStep ==
  ASSUME Inv, NEW c \in Callers, UNCHANGED tool, InsertArtifact(c)
  PROVE  Inv'
<1> SUFFICES ASSUME NEW k, k = calls[c], NEW d, d = calls[c].deployment PROVE Inv'
  OBVIOUS
<1>1. /\ k.at = "insert artifact" /\ d \in Deployments /\ k.build \in Builds /\ k.file \in Files
      /\ k.op = "commit" /\ registered[d] = k.build
      /\ Object(k) \in objects
  <2>1. /\ k.at = "insert artifact" /\ d \in Deployments /\ k.build \in Builds
        /\ Shaped(k) /\ Known(c)
    BY CallFacts DEF InsertArtifact
  <2>2. k.op = "commit" /\ k.file \in Files
    BY <2>1, OpFacts DEF Shaped
  <2>3. registered[d] = k.build /\ Object(k) \in objects
    BY <2>1 DEF Known, Checked
  <2> QED BY <2>1, <2>2, <2>3
<1>2. Object(k) \in Artifacts /\ Object(k)[1] = d
  BY <1>1 DEF Object, Artifacts
<1>3. Proceeds(c) /\ calls'[c].at = "read artifact"
  BY <1>1, OpFacts, GoProceeds DEF InsertArtifact
<1>4. /\ artifacts' = IF State(d) = "retired" THEN artifacts ELSE artifacts \cup {Object(k)}
      /\ UNCHANGED <<registered, history, objects, pointer,
                     manifests, sessions, expired, plans, sweep, faults>>
  BY DEF InsertArtifact
<1>5. Known(c)'
  <2>1. calls'[c].deployment = d /\ calls'[c].build = k.build
    BY <1>3 DEF Proceeds
  <2> QED BY <1>1, <1>3, <1>4, <2>1 DEF Known, Checked
<1>6. Grows /\ Consistent'
  <2>1. artifacts \subseteq artifacts' /\ artifacts' \subseteq objects'
    BY <1>1, <1>2, <1>4 DEF Inv, Consistent
  <2> QED BY <1>4, <2>1, ObjectsGrow
<1>7. Pointed'
  BY <1>4 DEF Inv, Pointed
<1>8. TypeOK'
  BY <1>2, <1>3, <1>4, ToolTypes, Tables, TypesPrimed DEF Inv, Proceeds
<1> QED BY <1>4, <1>3, <1>5, <1>6, <1>7, <1>8, HandlerStep

LEMMA MarkReadyStep ==
  ASSUME Inv, NEW c \in Callers, UNCHANGED tool, MarkReady(c)
  PROVE  Inv'
<1> SUFFICES ASSUME NEW k, k = calls[c], NEW d, d = calls[c].deployment PROVE Inv'
  OBVIOUS
<1>1. /\ k.at = "mark" /\ d \in Deployments /\ k.op = "commit" /\ registered[d] = k.build
      /\ Complete(d) /\ k.build # None
      /\ k.seen = Len(history[d]) => State(d) = "artifacts_pending"
  BY CallFacts, OpFacts DEF MarkReady, Shaped, Known, Checked
<1>2. /\ UNCHANGED <<registered, objects, artifacts, pointer,
                     manifests, sessions, expired, plans, sweep, faults>>
      /\ sessions' \subseteq Keys /\ expired' \subseteq sessions' /\ faults' \in 0 .. MaxFaults
  BY Tables DEF Inv, MarkReady
<1>3. CASE Go(c, "marked") /\ UNCHANGED history
  <2>1. UNCHANGED <<ledger, manifests, sessions, expired, plans, sweep>>
    BY <1>2, <1>3 DEF ledger
  <2> QED BY <1>1, <1>2, <1>3, <2>1, OpFacts, QuietGo
<1>4. CASE /\ Len(history[d]) = k.seen /\ Reply(c, "committed")
           /\ history' = [history EXCEPT ![d] = Append(history[d], "ready")]
  <2>1. "committed" \in Answers /\ "ready" \in Statuses
    BY DEF Answers, Statuses
  <2>2. Proceeds(c) /\ calls'[c].at = "answered" /\ calls'[c].answer = "committed"
    BY <1>4, <2>1, ReplyProceeds
  <2>3. Known(c)'
    BY <2>2 DEF Known, Checked
  <2>4. /\ history' \in [Deployments -> Seq(Statuses)]
        /\ history'[d] # <<>> /\ history[d] # <<>>
        /\ Len(history'[d]) = Len(history[d]) + 1 /\ Len(history[d]) \in Nat
        /\ State(d)' = "ready" /\ State(d) = "artifacts_pending"
    <3>1. history \in [Deployments -> Seq(Statuses)] /\ history'[d] = Append(history[d], "ready")
      BY <1>1, <1>4, Tables DEF Inv
    <3>2. history' \in [Deployments -> Seq(Statuses)]
      BY <1>1, <1>4, <2>1, <3>1, Appended DEF Inv
    <3>3. State(d) = "artifacts_pending" /\ Len(history[d]) \in Nat /\ history[d] # <<>>
      BY <1>1, <1>4, HistoryFacts DEF Inv
    <3>4. /\ Len(history'[d]) = Len(history[d]) + 1 /\ history'[d] # <<>>
          /\ history'[d][Len(history[d]) + 1] = "ready"
      BY <1>1, <2>1, <3>1, Appended DEF Inv
    <3>5. State(d)' = "ready"
      BY <3>4 DEF State
    <3> QED BY <3>2, <3>3, <3>4, <3>5
  <2>5. ASSUME NEW e \in Deployments, e # d
        PROVE  history'[e] = history[e] /\ State(e)' = State(e) /\ Len(history[e]) \in Nat
    <3>1. history'[e] = history[e]
      BY <1>4, <2>5, Tables DEF Inv
    <3> QED BY <3>1, HistoryFacts DEF State, Inv
  <2>6. Grows
    BY <1>2, <2>4, <2>5 DEF Grows, Passed
  <2>7. Consistent'
    <3>1. ASSUME NEW e \in Deployments
          PROVE  /\ history'[e] = <<>> <=> registered'[e] = None
                 /\ registered'[e] # None => manifests'[e] = registered'[e]
                 /\ Passed(e)' => Complete(e)'
      <4>1. Complete(e)' = Complete(e)
        BY <1>2 DEF Complete
      <4> QED BY <1>1, <1>2, <2>4, <2>5, <4>1 DEF Inv, Consistent, Passed
    <3> QED BY <1>2, <3>1 DEF Inv, Consistent
  <2>8. Pointed'
    BY <1>2 DEF Inv, Pointed
  <2>9. TypeOK'
    BY <1>2, <2>2, <2>4, ToolTypes, Tables, TypesPrimed DEF Inv, Proceeds
  <2> QED BY <1>2, <2>2, <2>3, <2>6, <2>7, <2>8, <2>9, HandlerStep
<1> QED BY <1>3, <1>4 DEF MarkReady

LEMMA HandlerKeeps ==
  ASSUME Inv, NEW c \in Callers, Handler(c), UNCHANGED tool
  PROVE  Inv'
BY QuietSteps, UploadStep, ReadStateStep, FailureSteps, PutManifestStep, InsertDeploymentStep,
   PutObjectStep, InsertArtifactStep, MarkReadyStep DEF Handler

-----------------------------------------------------------------------------
(* Activations, expiry and the cleanup. *)

LEMMA OtherStep ==
  ASSUME Inv, Grows, UNCHANGED <<calls, sessions>>, UNCHANGED tool
  PROVE  Handled' /\ (\A c \in Callers : Runs(c)') /\ Serving' /\ Declared'
<1>1. UNCHANGED runs /\ UNCHANGED running
  BY DEF tool
<1>2. Handled'
  BY CallFacts, KnownStays DEF Handled
<1> QED BY <1>1, <1>2, RunsStay, ServingStays, DeclaredStays

\* The cleanup never finds anything: a deployment is retired only after it was
\* ready, and then everything that was ever declared for it is committed.
LEMMA NothingReclaimable ==
  ASSUME Inv PROVE Reclaimable = {}
<1> SUFFICES ASSUME NEW a \in Reclaimable PROVE FALSE
  OBVIOUS
<1>1. PICK d \in Deployments, f \in Files, b \in Builds : a = <<d, f, b>>
  BY DEF Reclaimable, Artifacts
<1>2. a \notin artifacts /\ Passed(d) /\ Uploads(a) # {}
  BY <1>1 DEF Reclaimable, Passed
<1>3. PICK n \in Attempts : <<d, f, b, n>> \in sessions
  BY <1>1, <1>2 DEF Uploads
<1>4. registered[d] = b
  BY <1>3 DEF Inv, Declared
<1>5. Complete(d)
  BY <1>2 DEF Inv, Consistent
<1> QED BY <1>1, <1>2, <1>4, <1>5 DEF Complete

LEMMA PlanStep ==
  ASSUME Inv, UNCHANGED tool, NEW a \in Admins, NEW d \in Deployments, Plan(a, d)
  PROVE  Inv'
<1>1. UNCHANGED <<ledger, manifests, sessions, expired, calls, sweep, faults>>
  BY DEF Plan
<1> DEFINE new == [target |-> d, pointer |-> pointer]
<1>2. new \in PlanRecord /\ new.pointer = pointer /\ pointer.revision \in Nat
  BY Tables DEF Inv, PlanRecord, Pointers
<1> HIDE DEF new
<1>3. plans' = [plans EXCEPT ![a] = new] /\ plans \in [Admins -> PlanRecord \cup {None}]
  BY Tables DEF Inv, Plan, new
<1>4. plans' \in [Admins -> PlanRecord \cup {None}]
  BY <1>2, <1>3
<1>5. Pointed'
  <2>1. pointer' = pointer
    BY <1>1 DEF ledger
  <2> QED BY <1>2, <1>3, <2>1 DEF Inv, Pointed
<1>6. Grows /\ Consistent'
  BY <1>1, QuietStep
<1>7. TypeOK'
  BY <1>1, <1>4, QuietStep, ToolTypes, Tables, TypesPrimed DEF Inv
<1> QED BY <1>1, <1>5, <1>6, <1>7, OtherStep DEF Inv

\* An activation: what its batch does to the history of every deployment.
NewRows(p, e) ==
  IF e = p.target THEN <<"active">> ELSE IF e = p.pointer.deployment THEN <<"retired">> ELSE <<>>

LEMMA OneMore ==
  ASSUME NEW s \in Seq(Statuses), NEW state \in Statuses
  PROVE  /\ s \o <<state>> \in Seq(Statuses) /\ Len(s \o <<state>>) = Len(s) + 1
         /\ (s \o <<state>>)[Len(s) + 1] = state
<1>1. <<state>> \in Seq(Statuses) /\ Len(<<state>>) = 1 /\ <<state>>[1] = state
  OBVIOUS
<1> QED BY <1>1, ConcatProperties, LenProperties

LEMMA ActivationFacts ==
  ASSUME Inv, NEW a \in Admins, ActivateDeployment(a), Current(plans[a]),
         NEW p, p = plans[a], NEW d, d = p.target
  PROVE  /\ p \in PlanRecord /\ d \in Deployments /\ State(d) = "ready" /\ p.pointer = pointer
         /\ pointer.deployment # None => State(pointer.deployment) = "active"
         /\ pointer.deployment # d
         /\ history' = [e \in Deployments |-> history[e] \o NewRows(p, e)]
         /\ pointer' = [deployment |-> d, revision |-> pointer.revision + 1]
         /\ pointer' \in Pointers /\ pointer'.revision = pointer.revision + 1
         /\ UNCHANGED <<registered, objects, artifacts>>
<1>1. p # None /\ plans \in [Admins -> PlanRecord \cup {None}]
  BY Tables DEF ActivateDeployment, Inv
<1>2. p \in PlanRecord /\ d \in Deployments
  BY <1>1 DEF PlanRecord
<1>3. /\ State(d) = "ready" /\ pointer.revision = p.pointer.revision
      /\ p.pointer.deployment # None => State(p.pointer.deployment) = "active"
  BY DEF Current
<1>4. p.pointer = pointer
  BY <1>1, <1>3 DEF Inv, Pointed
<1>5. pointer.deployment # d
  BY <1>2, <1>3, <1>4, NoneAssumption
<1>6. /\ history' = [e \in Deployments |-> history[e] \o NewRows(p, e)]
      /\ pointer' = [deployment |-> d, revision |-> pointer.revision + 1]
      /\ UNCHANGED <<registered, objects, artifacts>>
  BY DEF ActivateDeployment, NewRows
<1>7. pointer \in Pointers
  BY Tables DEF Inv
<1>8. pointer' \in Pointers /\ pointer'.revision = pointer.revision + 1
  BY <1>2, <1>6, <1>7 DEF Pointers, Ids
<1> QED BY <1>2, <1>3, <1>4, <1>5, <1>6, <1>8

LEMMA ActivationHistory ==
  ASSUME Inv, NEW a \in Admins, ActivateDeployment(a), Current(plans[a])
  PROVE  /\ history' \in [Deployments -> Seq(Statuses)]
         /\ \A e \in Deployments :
              /\ history'[e] = <<>> <=> history[e] = <<>>
              /\ Passed(e)' <=> Passed(e)
              /\ State(e) = "retired" => State(e)' = "retired"
              /\ Len(history'[e]) \in Nat /\ Len(history[e]) <= Len(history'[e])
              /\ Len(history'[e]) = Len(history[e]) => history'[e] = history[e]
<1> SUFFICES ASSUME NEW p, p = plans[a], NEW d, d = p.target
             PROVE  /\ history' \in [Deployments -> Seq(Statuses)]
                    /\ \A e \in Deployments :
                         /\ history'[e] = <<>> <=> history[e] = <<>>
                         /\ Passed(e)' <=> Passed(e)
                         /\ State(e) = "retired" => State(e)' = "retired"
                         /\ Len(history'[e]) \in Nat /\ Len(history[e]) <= Len(history'[e])
                         /\ Len(history'[e]) = Len(history[e]) => history'[e] = history[e]
  OBVIOUS
<1>1. /\ history' = [e \in Deployments |-> history[e] \o NewRows(p, e)]
      /\ d \in Deployments /\ State(d) = "ready" /\ p.pointer = pointer
      /\ pointer.deployment # None => State(pointer.deployment) = "active"
      /\ pointer.deployment # d
  BY ActivationFacts
<1>2. ASSUME NEW e \in Deployments
      PROVE  /\ history'[e] \in Seq(Statuses)
             /\ history'[e] = <<>> <=> history[e] = <<>>
             /\ Passed(e)' <=> Passed(e)
             /\ State(e) = "retired" => State(e)' = "retired"
             /\ Len(history'[e]) \in Nat /\ Len(history[e]) <= Len(history'[e])
             /\ Len(history'[e]) = Len(history[e]) => history'[e] = history[e]
  <2>1. /\ history[e] \in Seq(Statuses) /\ Len(history[e]) \in Nat
        /\ history[e] = <<>> => State(e) = "none"
    BY HistoryFacts DEF Inv
  <2>2. history'[e] = history[e] \o NewRows(p, e)
    BY <1>1
  <2>3. ASSUME NEW state \in {"active", "retired"}, NewRows(p, e) = <<state>>,
               State(e) \in {"ready", "active"}
        PROVE  /\ history'[e] \in Seq(Statuses) /\ history'[e] # <<>> /\ history[e] # <<>>
               /\ State(e)' = state /\ Len(history'[e]) = Len(history[e]) + 1
    <3>1. state \in Statuses
      BY <2>3 DEF Statuses
    <3>2. /\ history'[e] \in Seq(Statuses) /\ Len(history'[e]) = Len(history[e]) + 1
          /\ history'[e][Len(history[e]) + 1] = state
      BY <2>1, <2>2, <2>3, <3>1, OneMore
    <3>3. history'[e] # <<>>
      BY <2>1, <3>2, EmptySeq
    <3> QED BY <2>1, <2>3, <3>2, <3>3 DEF State
  <2>4. CASE e = d
    <3>1. NewRows(p, e) = <<"active">> /\ State(e) = "ready"
      BY <1>1, <2>4 DEF NewRows
    <3> QED BY <2>1, <2>3, <3>1 DEF Passed
  <2>5. CASE e # d /\ e = pointer.deployment
    <3>1. NewRows(p, e) = <<"retired">> /\ State(e) = "active"
      BY <1>1, <2>5, NoneAssumption DEF NewRows
    <3> QED BY <2>1, <2>3, <3>1 DEF Passed
  <2>6. CASE e # d /\ e # pointer.deployment
    <3>1. history'[e] = history[e]
      BY <1>1, <2>1, <2>2, <2>6, ConcatEmptySeq DEF NewRows
    <3>2. State(e)' = State(e)
      BY <3>1 DEF State
    <3> QED BY <2>1, <3>1, <3>2 DEF Passed
  <2> QED BY <2>4, <2>5, <2>6
<1>3. history' \in [Deployments -> Seq(Statuses)]
  BY <1>1, <1>2
<1> QED BY <1>2, <1>3

LEMMA ActivationStep ==
  ASSUME Inv, UNCHANGED tool, NEW a \in Admins, ActivateDeployment(a)
  PROVE  Inv'
<1>1. /\ UNCHANGED <<registered, objects, artifacts>>
      /\ UNCHANGED <<manifests, sessions, expired, calls, sweep, faults>>
      /\ plans' = [plans EXCEPT ![a] = None] /\ plans \in [Admins -> PlanRecord \cup {None}]
  BY Tables DEF ActivateDeployment, Inv
<1>2. /\ plans' \in [Admins -> PlanRecord \cup {None}]
      /\ \A b \in Admins : plans'[b] # None => plans'[b] = plans[b]
  BY <1>1
<1>3. CASE ~Current(plans[a])
  <2>1. UNCHANGED <<ledger, manifests>>
    BY <1>1, <1>3 DEF ActivateDeployment, ledger
  <2>2. pointer' = pointer
    BY <2>1 DEF ledger
  <2>3. Pointed'
    BY <1>2, <2>2 DEF Inv, Pointed
  <2>4. TypeOK'
    BY <1>1, <1>2, <2>1, QuietStep, ToolTypes, Tables, TypesPrimed DEF Inv
  <2> QED BY <1>1, <2>1, <2>3, <2>4, QuietStep, OtherStep DEF Inv
<1>4. CASE Current(plans[a])
  <2>1. pointer' \in Pointers /\ pointer'.revision = pointer.revision + 1 /\ pointer \in Pointers
    BY <1>4, ActivationFacts, Tables DEF Inv
  <2>2. Grows
    BY <1>1, <1>4, ActivationHistory DEF Grows
  <2>3. Consistent'
    <3>1. \A e \in Deployments : Complete(e)' = Complete(e)
      BY <1>1 DEF Complete
    <3> QED BY <1>1, <1>4, <3>1, ActivationHistory DEF Inv, Consistent
  <2>4. Pointed'
    <3>1. ASSUME NEW b \in Admins, plans'[b] # None
          PROVE  plans'[b].pointer.revision < pointer'.revision
      <4>1. plans[b] \in PlanRecord /\ plans'[b] = plans[b]
        BY <1>1, <1>2, <3>1
      <4>2. plans[b].pointer.revision \in Nat /\ pointer.revision \in Nat
        BY <2>1, <4>1 DEF PlanRecord, Pointers
      <4>3. plans[b].pointer.revision <= pointer.revision
        BY <3>1, <4>1 DEF Inv, Pointed
      <4> QED BY <2>1, <4>1, <4>2, <4>3
    <3>2. ASSUME NEW b \in Admins, plans'[b] # None
          PROVE  plans'[b].pointer.revision \in Nat /\ pointer'.revision \in Nat
      BY <1>2, <2>1, <3>2 DEF PlanRecord, Pointers
    <3> QED BY <3>1, <3>2 DEF Pointed
  <2>5. TypeOK'
    BY <1>1, <1>2, <1>4, <2>1, ActivationHistory, ToolTypes, Tables, TypesPrimed DEF Inv
  <2> QED BY <1>1, <2>2, <2>3, <2>4, <2>5, OtherStep DEF Inv
<1> QED BY <1>3, <1>4

LEMMA BackgroundKeeps ==
  ASSUME Inv, Background, UNCHANGED tool
  PROVE  Inv'
<1>1. CASE Cleanup
  <2>1. sweep = {} /\ sweep' = {} /\ UNCHANGED objects
    BY <1>1, NothingReclaimable DEF Cleanup, Inv, Consistent
  <2>2. /\ UNCHANGED <<ledger, manifests, sweep>>
        /\ UNCHANGED <<sessions, expired, calls, plans, faults>>
    BY <1>1, <2>1 DEF Cleanup, ledger
  <2>3. TypeOK'
    BY <2>1, <2>2, QuietStep, ToolTypes, Tables, TypesPrimed DEF Inv
  <2> QED BY <2>2, <2>3, QuietStep, OtherStep DEF Inv
<1>2. ASSUME NEW s \in sessions, Expire(s) PROVE Inv'
  <2>1. /\ UNCHANGED <<ledger, manifests, sweep>>
        /\ UNCHANGED <<sessions, calls, plans, faults>>
        /\ expired' = expired \cup {s}
    BY <1>2 DEF Expire
  <2>2. TypeOK'
    BY <1>2, <2>1, QuietStep, ToolTypes, Tables, TypesPrimed DEF Inv
  <2> QED BY <2>1, <2>2, QuietStep, OtherStep DEF Inv
<1> QED BY <1>1, <1>2, PlanStep, ActivationStep DEF Background

-----------------------------------------------------------------------------
(* Steps of the release tool. *)

ToolKeeps == UNCHANGED <<ledger, manifests, sessions, expired, plans, sweep>>

LEMMA ToolStep ==
  ASSUME Inv, ToolKeeps, Handled', \A c \in Callers : Runs(c)', Serving',
         calls' \in [Callers -> CallRecord], runs' \in [Callers -> RunRecord],
         tree' \in Builds, running' \in [deployment : Ids, build : Contents],
         faults' \in 0 .. MaxFaults, edits' \in 0 .. MaxEdits
  PROVE  Inv'
<1>1. /\ UNCHANGED <<ledger, manifests>>
      /\ UNCHANGED <<sessions, expired, plans, sweep>>
  BY DEF ToolKeeps
<1>2. TypeOK'
  BY <1>1, QuietStep, Tables, TypesPrimed DEF Inv
<1>3. Grows /\ Consistent' /\ Pointed'
  BY <1>1, QuietStep
<1>4. Declared'
  BY <1>1, <1>3, DeclaredStays
<1> QED BY <1>2, <1>3, <1>4 DEF Inv

\* A step of one run, with or without a request.
LEMMA RunStep ==
  ASSUME Inv, ToolKeeps, NEW c \in Callers, NEW w \in RunRecord,
         runs' = [runs EXCEPT ![c] = w],
         NEW k \in CallRecord, calls' = [calls EXCEPT ![c] = k], Shaped(k), Known(c)',
         Runs(c)', Serving', UNCHANGED <<tree, edits>>,
         running' \in [deployment : Ids, build : Contents], faults' \in 0 .. MaxFaults
  PROVE  Inv'
<1>1. /\ UNCHANGED <<ledger, manifests>>
      /\ calls \in [Callers -> CallRecord] /\ runs \in [Callers -> RunRecord]
      /\ tree \in Builds /\ edits \in 0 .. MaxEdits
  BY Tables DEF ToolKeeps, Inv
<1>2. Grows
  BY <1>1, QuietStep
<1>3. /\ calls' \in [Callers -> CallRecord] /\ runs' \in [Callers -> RunRecord]
      /\ calls'[c] = k /\ runs'[c] = w
      /\ \A b \in Callers \ {c} : calls'[b] = calls[b] /\ runs'[b] = runs[b]
  BY <1>1
<1>4. ASSUME NEW b \in Callers PROVE Shaped(calls'[b]) /\ Known(b)' /\ Runs(b)'
  <2>1. CASE b = c
    BY <1>3, <2>1
  <2>2. CASE b # c
    BY <1>2, <1>3, <2>2, CallFacts, KnownStays, RunsStay
  <2> QED BY <2>1, <2>2
<1>5. Handled'
  BY <1>4 DEF Handled
<1> QED BY <1>1, <1>3, <1>4, <1>5, ToolStep

\* What a run is, and how it moves on.
LEMMA RunMoves ==
  ASSUME Inv, NEW c \in Callers, NEW step \in Steps, Step(c, step)
  PROVE  \E w \in RunRecord :
           /\ runs' = [runs EXCEPT ![c] = w] /\ runs'[c] = w
           /\ w.step = step /\ w.deployment = runs[c].deployment
           /\ w.attempt = runs[c].attempt /\ w.build = runs[c].build
<1>1. runs \in [Callers -> RunRecord] /\ runs[c] \in RunRecord
  BY Tables DEF Inv
<1> DEFINE w == [runs[c] EXCEPT !.step = step]
<1>2. w \in RunRecord
  BY <1>1, Zenon DEF RunRecord
<1>3. /\ w.step = step /\ w.deployment = runs[c].deployment
      /\ w.attempt = runs[c].attempt /\ w.build = runs[c].build
  BY <1>1 DEF RunRecord
<1>4. runs' = [runs EXCEPT ![c] = w]
  BY DEF Step
<1> HIDE DEF w
<1>5. runs'[c] = w
  BY <1>1, <1>4
<1> QED BY <1>2, <1>3, <1>4, <1>5

\* A run that only moves on, without a request.
LEMMA RunEnds ==
  ASSUME Inv, ToolKeeps, NEW c \in Callers, NEW step \in {"publish", "failed", "released"},
         Step(c, step), runs[c].step # "idle",
         step = "publish" => registered[runs[c].deployment] = runs[c].build
                             /\ Passed(runs[c].deployment),
         UNCHANGED <<calls, tree, edits>>, Serving',
         running' \in [deployment : Ids, build : Contents], faults' \in 0 .. MaxFaults
  PROVE  Inv'
<1>1. step \in Steps
  BY DEF Steps
<1>2. PICK w \in RunRecord :
        /\ runs' = [runs EXCEPT ![c] = w] /\ runs'[c] = w
        /\ w.step = step /\ w.deployment = runs[c].deployment
        /\ w.attempt = runs[c].attempt /\ w.build = runs[c].build
  BY <1>1, RunMoves
<1>3. /\ calls[c] \in CallRecord /\ calls' = [calls EXCEPT ![c] = calls[c]]
      /\ Shaped(calls[c])
  BY CallFacts, Tables DEF Inv
<1>4. UNCHANGED <<registered, history>> /\ UNCHANGED <<ledger, manifests>>
  BY DEF ToolKeeps, ledger
<1>5. Known(c)'
  BY <1>4, QuietStep, KnownStays
<1>6. Runs(c)'
  <2>1. Runs(c)
    BY CallFacts
  <2> QED BY <1>2, <1>4, <2>1 DEF Runs, Passed, State
<1> QED BY <1>2, <1>3, <1>5, <1>6, RunStep

\* A request of a run.
LEMMA Requested ==
  ASSUME Inv, ToolKeeps, NEW c \in Callers, runs[c].step \in {"prepared", "calling"},
         NEW op \in {"register", "upload", "transfer", "commit"}, NEW file \in 0 .. NFiles + 1,
         Request(c, op, file),
         op = "register" => file \in {0, NFiles + 1},
         op # "register" => file \in Files,
         Step(c, "calling") \/ (UNCHANGED runs /\ runs[c].step = "calling"),
         UNCHANGED <<tree, running, edits, faults>>
  PROVE  Inv'
<1> SUFFICES ASSUME NEW k, k = [op |-> op, deployment |-> runs[c].deployment, file |-> file,
                                build |-> runs[c].build, attempt |-> runs[c].attempt,
                                at |-> op, seen |-> 0, answer |-> "none"]
             PROVE  Inv'
  OBVIOUS
<1>1. PICK w \in RunRecord :
        /\ runs' = [runs EXCEPT ![c] = w] /\ runs'[c] = w
        /\ w.step = "calling" /\ w.deployment = runs[c].deployment
        /\ w.attempt = runs[c].attempt /\ w.build = runs[c].build
  <2>1. CASE Step(c, "calling")
    <3>1. "calling" \in Steps
      BY DEF Steps
    <3> QED BY <2>1, <3>1, RunMoves
  <2>2. CASE UNCHANGED runs /\ runs[c].step = "calling"
    <3>1. runs[c] \in RunRecord /\ runs' = [runs EXCEPT ![c] = runs[c]] /\ runs'[c] = runs[c]
      BY <2>2, Tables DEF Inv
    <3> QED BY <2>2, <3>1
  <2> QED BY <2>1, <2>2
<1>2. /\ runs[c].deployment \in Deployments /\ runs[c].build \in Builds
      /\ runs[c].attempt \in Attempts
  BY CallFacts DEF Runs
<1>3. calls' = [calls EXCEPT ![c] = k] /\ calls'[c] = k
  <2>1. calls' = [calls EXCEPT ![c] = k]
    BY DEF Request
  <2> QED BY <2>1, Tables DEF Inv
<1>4. k \in CallRecord
  BY <1>2 DEF CallRecord, Ids, Contents, Places, Answers
<1>5. Shaped(k)
  BY <1>2, OpFacts DEF Shaped
<1>6. Known(c)'
  <2>1. calls'[c].at = op /\ calls'[c].answer = "none"
    BY <1>3
  <2> QED BY <2>1 DEF Known, Checked
<1>7. Runs(c)'
  BY <1>1, <1>2, <1>3 DEF Runs
<1>8. Serving' /\ faults' \in 0 .. MaxFaults /\ running' \in [deployment : Ids, build : Contents]
  <2>1. UNCHANGED <<ledger, manifests>>
    BY DEF ToolKeeps
  <2> QED BY <2>1, QuietStep, ServingStays, Tables DEF Inv
<1> QED BY <1>1, <1>3, <1>4, <1>5, <1>6, <1>7, <1>8, RunStep

LEMMA PrepareStep ==
  ASSUME Inv, NEW c \in Callers, NEW d \in Deployments, NEW n \in Attempts, Prepare(c, d, n)
  PROVE  Inv'
<1> DEFINE w == [step |-> "prepared", deployment |-> d, attempt |-> n, build |-> tree]
<1>1. /\ ToolKeeps /\ UNCHANGED <<calls, tree, running, edits, faults>>
      /\ runs' = [runs EXCEPT ![c] = w]
  BY DEF Prepare, ToolKeeps, registry, handlers
<1>2. /\ tree \in Builds /\ runs \in [Callers -> RunRecord] /\ faults \in 0 .. MaxFaults
      /\ running \in [deployment : Ids, build : Contents]
      /\ calls \in [Callers -> CallRecord]
  BY Tables DEF Inv
<1>3. w \in RunRecord
  BY <1>2 DEF RunRecord, Steps, Ids, Contents
<1>4. runs'[c] = w
  BY <1>1, <1>2
<1>5. UNCHANGED <<ledger, manifests>>
  BY <1>1 DEF ToolKeeps
<1>6. Known(c)' /\ Shaped(calls[c]) /\ Serving'
  BY <1>1, <1>5, QuietStep, KnownStays, ServingStays, CallFacts
<1>7. Runs(c)'
  BY <1>2, <1>4 DEF Runs
<1>8. calls' = [calls EXCEPT ![c] = calls[c]] /\ calls[c] \in CallRecord
  BY <1>1, <1>2
<1> QED BY <1>1, <1>2, <1>3, <1>6, <1>7, <1>8, RunStep

LEMMA ToolFacts ==
  ASSUME Inv
  PROVE  /\ faults \in 0 .. MaxFaults /\ running \in [deployment : Ids, build : Contents]
         /\ faults < MaxFaults => faults + 1 \in 0 .. MaxFaults
<1>1. faults \in 0 .. MaxFaults /\ running \in [deployment : Ids, build : Contents]
  BY Tables DEF Inv
<1> QED BY <1>1, BoundAssumption

LEMMA RegisterStep ==
  ASSUME Inv, NEW c \in Callers, Register1(c)
  PROVE  Inv'
<1>1. /\ ToolKeeps /\ UNCHANGED <<faults, tree, running, edits>> /\ runs[c].step = "prepared"
      /\ UNCHANGED <<ledger, manifests>>
  BY DEF Register1, ToolKeeps
<1>2. CASE Step(c, "calling") /\ Request(c, "register", 0)
  <2>1. 0 \in 0 .. NFiles + 1
    BY FileAssumption
  <2> QED BY <1>1, <1>2, <2>1, Requested
<1>3. CASE Step(c, "failed") /\ UNCHANGED calls
  <2>1. Serving'
    BY <1>1, QuietStep, ServingStays
  <2> QED BY <1>1, <1>3, <2>1, ToolFacts, RunEnds
<1> QED BY <1>2, <1>3 DEF Register1

LEMMA ContinueStep ==
  ASSUME Inv, NEW c \in Callers, Continue(c)
  PROVE  Inv'
<1> SUFFICES ASSUME NEW k, k = calls[c], NEW next, next = Following(calls[c]) PROVE Inv'
  OBVIOUS
<1>1. /\ ToolKeeps /\ UNCHANGED <<faults, tree, running, edits>> /\ runs[c].step = "calling"
      /\ UNCHANGED <<ledger, manifests>> /\ k.at = "answered"
  BY DEF Continue, ToolKeeps
<1>2. /\ Shaped(k) /\ Known(c) /\ Runs(c) /\ k \in CallRecord /\ NFiles \in Nat \ {0}
      /\ Serving'
  BY <1>1, CallFacts, QuietStep, ServingStays, FileAssumption
<1>3. CASE next = "failed"
  <2>1. Step(c, "failed") /\ UNCHANGED calls
    BY <1>3 DEF Continue
  <2> QED BY <1>1, <1>2, <2>1, ToolFacts, RunEnds
<1>4. CASE next = "publish"
  <2>1. Step(c, "publish") /\ UNCHANGED calls
    BY <1>4 DEF Continue
  <2>2. k.op = "register" /\ k.answer = "ready"
    BY <1>4 DEF Following
  <2>3. registered[runs[c].deployment] = runs[c].build /\ Passed(runs[c].deployment)
    BY <1>1, <1>2, <2>2 DEF Known, Runs
  <2> QED BY <1>1, <1>2, <2>1, <2>3, ToolFacts, RunEnds
<1>5. CASE next \notin {"publish", "failed"}
  <2>1. /\ Request(c, next, IF next \in {"upload", "register"} THEN k.file + 1 ELSE k.file)
        /\ UNCHANGED runs
    BY <1>5 DEF Continue
  <2>2. k.file \in 0 .. NFiles + 1 /\ (k.op # "register" /\ k.op # "none" => k.file \in 1 .. NFiles)
    BY <1>2 DEF CallRecord, Shaped, Files
  <2>3. \/ next = "upload" /\ (k.file = 0 \/ (k.file \in 1 .. NFiles /\ k.file < NFiles))
        \/ next \in {"transfer", "commit"} /\ k.file \in 1 .. NFiles
        \/ next = "register" /\ k.file = NFiles
    BY <1>2, <1>5, <2>2 DEF Following
  <2>4. CASE next = "upload"
    <3>1. k.file + 1 \in Files /\ k.file + 1 \in 0 .. NFiles + 1 /\ Request(c, "upload", k.file + 1)
      BY <1>2, <2>1, <2>3, <2>4 DEF Files
    <3> QED BY <1>1, <2>1, <3>1, Requested
  <2>5. CASE next \in {"transfer", "commit"}
    <3>1. k.file \in Files /\ k.file \in 0 .. NFiles + 1 /\ Request(c, next, k.file)
      BY <1>2, <2>1, <2>3, <2>5 DEF Files
    <3> QED BY <1>1, <2>1, <2>5, <3>1, Requested
  <2>6. CASE next = "register"
    <3>1. /\ k.file + 1 = NFiles + 1 /\ k.file + 1 \in 0 .. NFiles + 1
          /\ Request(c, "register", k.file + 1)
      BY <1>2, <2>1, <2>3, <2>6
    <3> QED BY <1>1, <2>1, <3>1, Requested
  <2> QED BY <2>3, <2>4, <2>5, <2>6
<1> QED BY <1>3, <1>4, <1>5

LEMMA EndSteps ==
  ASSUME Inv, NEW c \in Callers, GiveUp(c) \/ Publish(c)
  PROVE  Inv'
<1>1. /\ ToolKeeps /\ UNCHANGED <<calls, tree, edits>> /\ UNCHANGED <<ledger, manifests>>
      /\ runs[c].step \in {"calling", "publish"}
  BY DEF GiveUp, Publish, ToolKeeps
<1>2. CASE Step(c, "failed") /\ UNCHANGED running /\ faults < MaxFaults /\ faults' = faults + 1
  <2>1. Serving'
    BY <1>1, <1>2, QuietStep, ServingStays
  <2> QED BY <1>1, <1>2, <2>1, ToolFacts, RunEnds
<1>3. ASSUME runs[c].step = "publish", NEW step \in {"failed", "released"}, Step(c, step),
             faults' \in 0 .. MaxFaults,
             running' = [deployment |-> runs[c].deployment, build |-> Snapshot(c)]
      PROVE  Inv'
  <2>1. /\ registered[runs[c].deployment] = runs[c].build /\ Passed(runs[c].deployment)
        /\ runs[c].deployment \in Deployments /\ runs[c].build \in Builds
    BY <1>3, CallFacts DEF Runs
  <2>2. UNCHANGED <<registered, history>>
    BY <1>1 DEF ledger
  <2>3. /\ running' \in [deployment : Ids, build : Contents]
        /\ running'.deployment = runs[c].deployment /\ running'.build = runs[c].build
    BY <1>3, <2>1 DEF Snapshot, Ids, Contents
  <2>4. Serving'
    BY <2>1, <2>2, <2>3 DEF Serving, Passed, State
  <2> QED BY <1>1, <1>3, <2>3, <2>4, ToolFacts, RunEnds
<1>4. /\ faults \in 0 .. MaxFaults
      /\ faults < MaxFaults /\ faults' = faults + 1 => faults' \in 0 .. MaxFaults
  BY ToolFacts, BoundAssumption
<1>5. CASE GiveUp(c)
  BY <1>2, <1>5 DEF GiveUp
<1>6. CASE Publish(c)
  <2>1. CASE Step(c, "released") /\ UNCHANGED faults
    BY <1>3, <1>4, <1>6, <2>1 DEF Publish
  <2>2. CASE Step(c, "failed") /\ faults < MaxFaults /\ faults' = faults + 1
    BY <1>2, <1>3, <1>4, <1>6, <2>2 DEF Publish
  <2> QED BY <1>6, <2>1, <2>2 DEF Publish
<1> QED BY <1>5, <1>6

LEMMA EditStep ==
  ASSUME Inv, NEW b \in Builds, Edit(b)
  PROVE  Inv'
<1>1. /\ ToolKeeps /\ UNCHANGED <<runs, running, calls, faults>> /\ UNCHANGED <<ledger, manifests>>
      /\ tree' \in Builds /\ edits < MaxEdits /\ edits' = edits + 1
  BY DEF Edit, ToolKeeps, registry, handlers
<1>2. Grows
  BY <1>1, QuietStep
<1>3. Handled' /\ (\A c \in Callers : Runs(c)') /\ Serving'
  <2>1. Handled'
    BY <1>1, <1>2, CallFacts, KnownStays DEF Handled
  <2> QED BY <1>1, <1>2, <2>1, RunsStay, ServingStays
<1>4. /\ calls' \in [Callers -> CallRecord] /\ runs' \in [Callers -> RunRecord]
      /\ running' \in [deployment : Ids, build : Contents] /\ faults' \in 0 .. MaxFaults
      /\ edits \in 0 .. MaxEdits
  BY <1>1, Tables DEF Inv
<1>5. edits' \in 0 .. MaxEdits
  BY <1>1, <1>4, EditAssumption
<1> QED BY <1>1, <1>3, <1>4, <1>5, ToolStep

-----------------------------------------------------------------------------
(* The theorems. *)

LEMMA InitialInv == ReleaseInit => Inv
<1> SUFFICES ASSUME ReleaseInit PROVE Inv
  OBVIOUS
<1>1. /\ registered = [d \in Deployments |-> None] /\ history = [d \in Deployments |-> <<>>]
      /\ objects = {} /\ artifacts = {} /\ pointer = [deployment |-> None, revision |-> 0]
      /\ manifests = [d \in Deployments |-> None] /\ sessions = {} /\ expired = {}
      /\ calls = [c \in Callers |-> NoCall] /\ plans = [a \in Admins |-> None]
      /\ sweep = {} /\ faults = 0
      /\ tree \in Builds /\ runs = [c \in Callers |-> NoRun] /\ edits = 0
      /\ running = [deployment |-> None, build |-> None]
  BY DEF ReleaseInit, RegistryInit, Init
<1>2. NoCall \in CallRecord
  <2>1. /\ None \in Ids /\ None \in Contents /\ 0 \in 0 .. NFiles + 1 /\ "answered" \in Places
        /\ "none" \in Answers
    BY FileAssumption DEF Ids, Contents, Places, Answers
  <2> QED BY <2>1 DEF NoCall, CallRecord
<1>3. NoRun \in RunRecord
  BY DEF NoRun, RunRecord, Ids, Contents, Steps
<1>4. <<>> \in Seq(Statuses)
  BY EmptySeq
<1>5. TypeOK
  <2>1. /\ registered \in [Deployments -> Contents] /\ manifests \in [Deployments -> Contents]
        /\ plans \in [Admins -> PlanRecord \cup {None}]
        /\ history \in [Deployments -> Seq(Statuses)]
    BY <1>1, <1>4 DEF Contents
  <2>2. calls \in [Callers -> CallRecord] /\ runs \in [Callers -> RunRecord]
    BY <1>1, <1>2, <1>3
  <2>3. pointer \in Pointers /\ running \in [deployment : Ids, build : Contents]
    BY <1>1 DEF Pointers, Ids, Contents
  <2>4. faults \in 0 .. MaxFaults /\ edits \in 0 .. MaxEdits
    BY <1>1, BoundAssumption, EditAssumption
  <2> QED BY <1>1, <2>1, <2>2, <2>3, <2>4
          DEF TypeOK, Statuses, CallRecord, RunRecord, PlanRecord
<1>6. \A d \in Deployments : State(d) = "none" /\ ~Passed(d) /\ registered[d] = None
  BY <1>1 DEF State, Passed
<1>7. Consistent /\ Declared
  BY <1>1, <1>6 DEF Consistent, Declared
<1>8. Pointed /\ Serving
  BY <1>1 DEF Pointed, Serving
<1>9. ASSUME NEW c \in Callers PROVE Shaped(calls[c]) /\ Known(c) /\ Runs(c)
  <2>1. calls[c] = NoCall /\ runs[c] = NoRun
    BY <1>1
  <2>2. Shaped(NoCall)
    BY DEF Shaped, NoCall
  <2>3. Known(c) /\ Runs(c)
    BY <2>1 DEF Known, Runs, NoCall, NoRun, Checked
  <2> QED BY <2>1, <2>2, <2>3
<1> QED BY <1>5, <1>7, <1>8, <1>9 DEF Inv, Handled

LEMMA NextKeeps ==
  ASSUME Inv, [Next0]_vars
  PROVE  Inv'
<1>1. CASE UNCHANGED vars
  BY <1>1, ZenonT(60) DEF vars, tool, registry, ledger, handlers, Inv, TypeOK, Consistent, Declared, Pointed,
              Handled, Shaped, Known, Runs, Serving, Passed, State, Complete, Object
<1>2. ASSUME NEW c \in Callers,
             \/ Register1(c) \/ Continue(c) \/ GiveUp(c) \/ Publish(c)
             \/ \E d \in Deployments, n \in Attempts : Prepare(c, d, n)
             \/ Handler(c) /\ UNCHANGED tool
      PROVE  Inv'
  BY <1>2, RegisterStep, ContinueStep, EndSteps, PrepareStep, HandlerKeeps
<1>3. CASE Background /\ UNCHANGED tool
  BY <1>3, BackgroundKeeps
<1>4. ASSUME NEW b \in Builds, Edit(b) PROVE Inv'
  BY <1>4, EditStep
<1> QED BY <1>1, <1>2, <1>3, <1>4 DEF Next0

\* The invariant holds of the tool and the registry, for any number of runs,
\* handlers, activations and failures.
THEOREM Invariant == ReleaseSpec => []Inv
<1>1. Inv /\ [Next0]_vars => Inv'
  BY NextKeeps
<1> QED BY <1>1, InitialInv, PTL DEF ReleaseSpec

\* A ready deployment keeps its manifest and every byte it requires: neither a
\* late upload nor the cleanup can take one away (ready, cleanup).
THEOREM StoredHolds == ReleaseSpec => []ReadyIsStored
<1>1. Inv => ReadyIsStored
  <2> SUFFICES ASSUME Inv, NEW d \in Deployments, State(d) \in {"ready", "active", "retired"}
               PROVE  /\ manifests[d] = registered[d]
                      /\ \A f \in Files : <<d, f, registered[d]>> \in artifacts \cap objects
    BY DEF ReadyIsStored, Inv
  <2>1. Passed(d) /\ history[d] # <<>>
    BY HistoryFacts DEF Passed, Inv
  <2>2. manifests[d] = registered[d] /\ Complete(d) /\ artifacts \subseteq objects
    BY <2>1 DEF Inv, Consistent
  <2> QED BY <2>2 DEF Complete
<1> QED BY <1>1, Invariant, PTL

\* What a run publishes is the registered build of a deployment that passed the
\* readiness gate, whatever is built or edited meanwhile (release, Snapshot).
THEOREM RunningHolds == ReleaseSpec => []RunningIsReleased
<1>1. Inv => RunningIsReleased
  BY DEF Inv, Serving, Passed, RunningIsReleased
<1> QED BY <1>1, Invariant, PTL

-----------------------------------------------------------------------------
(* The refinement: handlers, activations and the cleanup against the ledger. *)

LEMMA SameLedger ==
  /\ Ledger!ledger = ledger /\ Ledger!Artifacts = Artifacts /\ Ledger!Files = Files
  /\ \A d : Ledger!State(d) = State(d) /\ (Ledger!Complete(d) <=> Complete(d))
BY DEF Ledger!ledger, ledger, Ledger!Artifacts, Artifacts, Ledger!Files, Files,
       Ledger!State, State, Ledger!Complete, Complete

LEMMA HandlerRefines ==
  ASSUME Inv, NEW c \in Callers, Handler(c)
  PROVE  Ledger!Next \/ UNCHANGED ledger
<1> SUFFICES ASSUME NEW k, k = calls[c], NEW d, d = calls[c].deployment
             PROVE  Ledger!Next \/ UNCHANGED ledger
  OBVIOUS
<1>1. CASE InsertDeployment(c)
  <2>1. d \in Deployments /\ k.build \in Builds
    BY <1>1, CallFacts DEF InsertDeployment
  <2>2. CASE registered[d] = None
    <3>1. Register(d, k.build)
      BY <1>1, <2>2 DEF InsertDeployment
    <3>2. Ledger!Register(d, k.build)
      BY <3>1 DEF Register, Ledger!Register
    <3> QED BY <2>1, <3>2 DEF Ledger!Next
  <2>3. CASE registered[d] # None
    BY <1>1, <2>3 DEF InsertDeployment
  <2> QED BY <2>2, <2>3
<1>2. CASE PutObject(c)
  <2>1. /\ k.at = "put" /\ d \in Deployments /\ k.build \in Builds /\ k.file \in Files
        /\ registered[d] = k.build
    BY <1>2, CallFacts, OpFacts, ZenonT(60) DEF PutObject, Shaped, Known, Checked
  <2>2. /\ Object(k) \in Artifacts /\ Object(k)[1] = d /\ Object(k)[3] = k.build
    BY <2>1 DEF Object, Artifacts
  <2>3. objects' = objects \cup {Object(k)} /\ UNCHANGED <<registered, history, artifacts, pointer>>
    BY <1>2 DEF PutObject
  <2>4. Ledger!Store(Object(k))
    BY <2>1, <2>2, <2>3 DEF Ledger!Store
  <2> QED BY <2>2, <2>4, SameLedger DEF Ledger!Next
<1>3. CASE InsertArtifact(c)
  <2>1. /\ k.at = "insert artifact" /\ d \in Deployments /\ k.build \in Builds /\ k.file \in Files
        /\ registered[d] = k.build /\ Object(k) \in objects
    BY <1>3, CallFacts, OpFacts, ZenonT(60) DEF InsertArtifact, Shaped, Known, Checked
  <2>2. /\ Object(k) \in Artifacts /\ Object(k)[1] = d /\ Object(k)[3] = k.build
    BY <2>1 DEF Object, Artifacts
  <2>3. /\ artifacts' = IF State(d) = "retired" THEN artifacts ELSE artifacts \cup {Object(k)}
        /\ UNCHANGED <<registered, history, objects, pointer>>
    BY <1>3 DEF InsertArtifact
  <2>4. CASE State(d) = "retired"
    BY <2>3, <2>4 DEF ledger
  <2>5. CASE State(d) # "retired"
    <3>1. Ledger!CommitArtifact(Object(k))
      BY <2>1, <2>2, <2>3, <2>5, SameLedger DEF Ledger!CommitArtifact
    <3> QED BY <2>2, <3>1, SameLedger DEF Ledger!Next
  <2> QED BY <2>4, <2>5
<1>4. CASE MarkReady(c)
  <2>1. /\ k.at = "mark" /\ d \in Deployments /\ Complete(d)
        /\ k.seen = Len(history[d]) => State(d) = "artifacts_pending"
    BY <1>4, CallFacts DEF MarkReady, Known
  <2>2. UNCHANGED <<registered, objects, artifacts, pointer>>
    BY <1>4 DEF MarkReady
  <2>3. CASE Len(history[d]) = k.seen
    <3>1. history' = [history EXCEPT ![d] = Append(@, "ready")]
      BY <1>4, <2>3 DEF MarkReady
    <3>2. Ledger!MakeReady(d)
      BY <2>1, <2>2, <2>3, <3>1, SameLedger DEF Ledger!MakeReady
    <3> QED BY <2>1, <3>2 DEF Ledger!Next
  <2>4. CASE Len(history[d]) # k.seen
    <3>1. UNCHANGED history
      BY <1>4, <2>4 DEF MarkReady
    <3> QED BY <2>2, <3>1 DEF ledger
  <2> QED BY <2>3, <2>4
<1>5. CASE \/ RegisterLookup(c) \/ PutManifest(c) \/ RegisterRead(c) \/ Upload(c) \/ Transfer(c)
           \/ Commit(c) \/ Verify(c) \/ ReadArtifact(c) \/ Count(c) \/ ReadState(c) \/ MarkRead(c)
           \/ HandlerFails(c) \/ BatchFails(c)
  BY <1>5 DEF RegisterLookup, PutManifest, RegisterRead, Upload, Transfer, Commit, Verify,
              ReadArtifact, Count, ReadState, MarkRead, HandlerFails, BatchFails
<1> QED BY <1>1, <1>2, <1>3, <1>4, <1>5 DEF Handler

LEMMA BackgroundRefines ==
  ASSUME Inv, Background
  PROVE  Ledger!Next \/ UNCHANGED ledger
<1>1. CASE Cleanup
  <2>1. UNCHANGED objects
    BY <1>1, NothingReclaimable DEF Cleanup, Inv, Consistent
  <2> QED BY <1>1, <2>1 DEF Cleanup, ledger
<1>2. ASSUME NEW s \in sessions, Expire(s) PROVE UNCHANGED ledger
  BY <1>2 DEF Expire
<1>3. ASSUME NEW a \in Admins, NEW d \in Deployments, Plan(a, d) PROVE UNCHANGED ledger
  BY <1>3 DEF Plan
<1>4. ASSUME NEW a \in Admins, ActivateDeployment(a) PROVE Ledger!Next \/ UNCHANGED ledger
  <2>1. CASE ~Current(plans[a])
    BY <1>4, <2>1 DEF ActivateDeployment, ledger
  <2>2. CASE Current(plans[a])
    <3> SUFFICES ASSUME NEW p, p = plans[a], NEW d, d = p.target PROVE Ledger!Next
      OBVIOUS
    <3>1. /\ d \in Deployments /\ State(d) = "ready" /\ p.pointer = pointer
          /\ pointer.deployment # None => State(pointer.deployment) = "active"
          /\ pointer.deployment # d
          /\ history' = [e \in Deployments |-> history[e] \o NewRows(p, e)]
          /\ pointer' = [deployment |-> d, revision |-> pointer.revision + 1]
          /\ UNCHANGED <<registered, objects, artifacts>>
      BY <1>4, <2>2, ActivationFacts
    <3>2. history' = [e \in Deployments |-> history[e] \o
             (IF e = d THEN <<"active">> ELSE IF e = pointer.deployment THEN <<"retired">> ELSE <<>>)]
      BY <3>1 DEF NewRows
    <3>3. Ledger!Activate(d)
      BY <3>1, <3>2, SameLedger DEF Ledger!Activate
    <3> QED BY <3>1, <3>3 DEF Ledger!Next
  <2> QED BY <2>1, <2>2
<1> QED BY <1>1, <1>2, <1>3, <1>4 DEF Background

\* The registry and the release tool implement the ledger: whatever calls fail,
\* overlap or outlive their caller, each handler's only visible steps are the
\* promised ones, and the cleanup takes none of them back.
THEOREM Refinement == ReleaseSpec => ImplementsLedger
<1>1. ReleaseInit => Ledger!Init
  BY DEF ReleaseInit, RegistryInit, Init, Ledger!Init
<1>2. Inv /\ [Next0]_vars => [Ledger!Next]_Ledger!ledger
  <2> SUFFICES ASSUME Inv, [Next0]_vars PROVE Ledger!Next \/ UNCHANGED ledger
    BY SameLedger DEF Ledger!ledger, ledger
  <2>1. CASE UNCHANGED vars
    BY <2>1 DEF vars, registry
  <2>2. ASSUME NEW c \in Callers,
               Register1(c) \/ Continue(c) \/ GiveUp(c) \/ Publish(c)
        PROVE  UNCHANGED ledger
    BY <2>2 DEF Register1, Continue, GiveUp, Publish
  <2>3. ASSUME NEW c \in Callers, NEW d \in Deployments, NEW n \in Attempts, Prepare(c, d, n)
        PROVE  UNCHANGED ledger
    BY <2>3 DEF Prepare, registry
  <2>4. ASSUME NEW c \in Callers, Handler(c) PROVE Ledger!Next \/ UNCHANGED ledger
    BY <2>4, HandlerRefines
  <2>5. CASE Background
    BY <2>5, BackgroundRefines
  <2>6. ASSUME NEW b \in Builds, Edit(b) PROVE UNCHANGED ledger
    BY <2>6 DEF Edit, registry
  <2> QED BY <2>1, <2>2, <2>3, <2>4, <2>5, <2>6 DEF Next0
<1> QED BY <1>1, <1>2, Invariant, PTL DEF ReleaseSpec, ImplementsLedger, Ledger!Spec
===============================================================================
