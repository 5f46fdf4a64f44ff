---------------------------- MODULE AdminCommands ----------------------------
(***************************************************************************)
(* The idempotent executor of admin commands (mutations/mod.rs) and the    *)
(* plans it runs (catalog.rs, monitors.rs, policies.rs).                   *)
(*                                                                         *)
(* An attempt is one HTTP request that carries a command.  It looks for a  *)
(* stored answer, reads the row and then what belongs to it, and sends one *)
(* D1 batch with the guards, the writes, the audit entry, the outbox event *)
(* and the answer.  If the batch fails it looks for a stored answer again  *)
(* (its own may have been applied, or another attempt's), and then decides *)
(* whether the failure was a conflict.  A batch whose call failed may      *)
(* still be applied later.                                                 *)
(***************************************************************************)
EXTENDS CommandLedger

CONSTANTS
  Attempts,    \* requests that carry a command
  MaxFaults,   \* bound: failed calls and lost attempts
  MaxTouches   \* bound: claims of the scheduler

ASSUME BoundAssumption == MaxFaults \in Nat /\ MaxTouches \in Nat

VARIABLES
  pc,      \* per attempt: its next step
  body,    \* per attempt: the command it carries
  seen,    \* per attempt: the row and the policy it read
  answer,  \* per attempt: what the client was told
  late,    \* attempts whose batch may still be applied
  faults, touches

attempt == <<pc, body, seen, answer, late>>
vars == <<ledger, attempt, faults, touches>>

Unseen == [row |-> Absent, policy |-> None]
NoAnswer == [status |-> "none", response |-> None]
Reply(status) == [status |-> status, response |-> None]
Ok(response) == [status |-> "ok", response |-> response]

CommandsInit ==
  /\ Init
  /\ pc = [a \in Attempts |-> "idle"]
  /\ body = [a \in Attempts |-> None]
  /\ seen = [a \in Attempts |-> Unseen]
  /\ answer = [a \in Attempts |-> NoAnswer]
  /\ late = {}
  /\ faults = 0 /\ touches = 0

Move(a, step) == pc' = [pc EXCEPT ![a] = step]

Finish(a, reply) ==
  /\ Move(a, "done")
  /\ answer' = [answer EXCEPT ![a] = reply]

\* The client submits a command: a new one, or one it never got an answer to.
Submit(a, c) ==
  /\ pc[a] = "idle" /\ Move(a, "replay")
  /\ body' = [body EXCEPT ![a] = c]
  /\ UNCHANGED <<ledger, seen, answer, late, faults, touches>>

\* Mutant: the digest is not compared.
StoredAnyDigest(c) == Ok(results[Scope(c)].response)

\* The stored answer of a command: only for the same command.
Stored(c) ==
  IF results[Scope(c)].body = c THEN Ok(results[Scope(c)].response)
  ELSE Reply("reused")

\* replay, before planning.
Replay(a) ==
  /\ pc[a] = "replay"
  /\ IF results[Scope(body[a])] = None
     THEN Move(a, "read") /\ UNCHANGED answer
     ELSE Finish(a, Stored(body[a]))
  /\ UNCHANGED <<ledger, body, seen, late, faults, touches>>

\* The row is read first and must have the expected revision.  A plan that
\* creates a row reads none; its INSERT will tell.
ReadRow(a) ==
  LET c == body[a]
      row == rows[c.on]
  IN /\ pc[a] = "read"
     /\ IF c.op = "update" /\ row.revision = 0 THEN Finish(a, Reply("missing"))
        ELSE IF c.op # "create" /\ ~Expected(c, row) THEN Finish(a, Reply("conflict"))
        ELSE Move(a, "read more") /\ UNCHANGED answer
     /\ seen' = [seen EXCEPT ![a].row =
          IF c.op = "create" THEN Absent ELSE [row EXCEPT !.related = {}]]
     /\ UNCHANGED <<ledger, body, late, faults, touches>>

\* What belongs to the row is read by another query; so is the policy.
ReadMore(a) ==
  LET c == body[a]
      found == Found(c, registry)
  IN /\ pc[a] = "read more"
     /\ seen' = [seen EXCEPT
          ![a].row.related = IF c.op = "create" THEN {} ELSE rows[c.on].related,
          ![a].policy = found]
     /\ IF Compatible(c, found) THEN Move(a, "send") /\ UNCHANGED answer
        ELSE Finish(a, Reply("conflict"))
     /\ UNCHANGED <<ledger, body, late, faults, touches>>

-----------------------------------------------------------------------------
\* Mutant: an UPDATE without assert_changed.
RowUnchecked(a) == seen[a].row.revision = 0 => rows[body[a].on].revision = 0

\* INSERT, or UPDATE ... WHERE revision = ? and assert_changed.
RowGuard(a) == rows[body[a].on].revision = seen[a].row.revision

\* A policy that was not there is still not there; one that is has the content
\* of the command.
PolicyGuard(a) ==
  LET c == body[a]
      found == Found(c, registry)
  IN  c.op = "retain" =>
        /\ seen[a].policy = None => found = None
        /\ found # None => found.days = c.days

\* The batch: all columns as they were read and merged, related rows by
\* difference with what was read, and the answer planned from both.
Effect(a) ==
  LET c == body[a]
      old == seen[a].row
      dropped == IF c.related = None THEN {} ELSE old.related \ c.related
      added == IF c.related = None THEN {} ELSE c.related
  IN /\ rows' = [rows EXCEPT ![c.on] =
          [revision |-> @.revision + 1,
           fields   |-> Kept(c.fields, old.fields),
           related  |-> (@.related \ dropped) \cup added]]
     /\ registry' = Registry(c, registry)
     /\ results' = [results EXCEPT ![Scope(c)] =
          [body |-> c, response |-> Response(c, old, seen[a].policy)]]
     /\ audit' = [audit EXCEPT ![c.on] =
          Append(@, <<old.revision, old.revision + 1>>)]

\* The primary key of idempotency_keys is the last guard.
Applicable(a) == RowGuard(a) /\ PolicyGuard(a) /\ results[Scope(body[a])] = None

\* The error of a batch that was rolled back: a failed INSERT is a constraint,
\* a failed assertion an execution error.
Refusal(a) ==
  IF PolicyGuard(a) /\ (RowGuard(a) \/ seen[a].row.revision = 0)
  THEN "constraint" ELSE "execution"

\* The batch is applied and its answer arrives.
Commit(a) ==
  /\ pc[a] = "send" /\ Applicable(a)
  /\ Effect(a)
  /\ Finish(a, Ok(Response(body[a], seen[a].row, seen[a].policy)))
  /\ UNCHANGED <<body, seen, late, faults, touches>>

\* The batch is rolled back.
Refused(a) ==
  /\ pc[a] = "send" /\ ~Applicable(a)
  /\ Move(a, Refusal(a))
  /\ UNCHANGED <<ledger, body, seen, answer, late, faults, touches>>

\* The call fails, as a known or an unknown error, or the request is cut off;
\* the batch may be on its way.
CallLost(a) ==
  /\ faults < MaxFaults /\ faults' = faults + 1
  /\ pc[a] = "send"
  /\ late' = late \cup {a}
  /\ \/ \E error \in {"unavailable", "execution"} : Move(a, error) /\ UNCHANGED answer
     \/ Finish(a, NoAnswer)
  /\ UNCHANGED <<ledger, body, seen, touches>>

\* It is applied after all ...
LateBatch(a) ==
  /\ a \in late /\ Applicable(a)
  /\ Effect(a)
  /\ late' = late \ {a}
  /\ UNCHANGED <<pc, body, seen, answer, faults, touches>>

\* ... or never.
LateLost(a) ==
  /\ a \in late /\ late' = late \ {a}
  /\ UNCHANGED <<ledger, pc, body, seen, answer, faults, touches>>

\* A read fails.
ReadFails(a) ==
  /\ faults < MaxFaults /\ faults' = faults + 1
  /\ pc[a] \notin {"idle", "send", "done"}
  /\ Finish(a, Reply("error"))
  /\ UNCHANGED <<ledger, body, seen, late, touches>>

-----------------------------------------------------------------------------
\* After a failed batch: the stored answer, if there is one by now.
ReplayAgain(a) ==
  /\ pc[a] \in {"constraint", "execution", "unavailable"}
  /\ IF results[Scope(body[a])] # None THEN Finish(a, Stored(body[a]))
     ELSE IF pc[a] = "execution" THEN Move(a, "observe") /\ UNCHANGED answer
     ELSE Finish(a, Reply(IF pc[a] = "constraint" THEN "conflict" ELSE "error"))
  /\ UNCHANGED <<ledger, body, seen, late, faults, touches>>

\* Mutant: every execution error is taken for a conflict.
ConflictAssumed(a) == TRUE

\* conflict_observed: the expected revision of an update, the predicate of
\* every UPDATE of the batch and its NOT EXISTS guards are read again.
ConflictObserved(a) ==
  \/ seen[a].row.revision > 0 /\ ~RowGuard(a)
  \/ body[a].op = "retain" /\ seen[a].policy = None /\ registry[body[a].policy] # None

Observe(a) ==
  /\ pc[a] = "observe"
  /\ Finish(a, Reply(IF ConflictObserved(a) THEN "conflict" ELSE "error"))
  /\ UNCHANGED <<ledger, body, seen, late, faults, touches>>

\* claim_monitor, as far as the revision goes.
Claim(s) ==
  /\ touches < MaxTouches /\ touches' = touches + 1
  /\ Touch(s)
  /\ UNCHANGED <<attempt, faults>>

Step(a) ==
  \/ Replay(a) \/ ReadRow(a) \/ ReadMore(a)
  \/ Commit(a) \/ Refused(a) \/ CallLost(a) \/ LateBatch(a) \/ LateLost(a)
  \/ ReadFails(a) \/ ReplayAgain(a) \/ Observe(a)

CommandsNext ==
  \/ \E s \in Subjects : Claim(s)
  \/ \E a \in Attempts : Step(a) \/ \E c \in Commands : Submit(a, c)

CommandsSpec == CommandsInit /\ [][CommandsNext]_vars

-----------------------------------------------------------------------------
\* Types of every variable.
Related == UNION ({{}} \cup {c.related : c \in {d \in Commands : d.related # None}})
Fields == {None} \cup {c.fields : c \in Commands}
Row == [revision : Nat, fields : Fields, related : SUBSET Related]
Keys == {c.key : c \in Commands}
PolicyRow == [days : {c.days : c \in Commands}, by : Keys] \cup {None}
Answer == [row : Row, by : Keys \cup {None}]
Result == [body : Commands, response : Answer]

ASSUME NoneAssumption == None \notin Result /\ None \notin Commands

TypeOK ==
  /\ rows \in [Subjects -> Row]
  /\ registry \in [Policies -> PolicyRow]
  /\ results \in [Scopes -> Result \cup {None}]
  /\ audit \in [Subjects -> Seq(Nat \X Nat)]
  /\ pc \in [Attempts ->
       {"idle", "replay", "read", "read more", "send", "constraint", "execution",
        "unavailable", "observe", "done"}]
  /\ body \in [Attempts -> Commands \cup {None}]
  /\ seen \in [Attempts -> [row : Row, policy : PolicyRow]]
  /\ answer \in [Attempts ->
       [status : {"none", "ok", "conflict", "reused", "missing", "error"},
        response : Answer \cup {None}]]
  /\ late \in SUBSET Attempts
  /\ faults \in 0 .. MaxFaults /\ touches \in 0 .. MaxTouches

\* Every command is an atomic step on the rows as they are when it commits, at
\* most once, whatever was read by which query and whatever was written in
\* between; its answer and its audit entry describe exactly that step.
Ledger == INSTANCE CommandLedger WITH
  rows <- rows, registry <- registry, results <- results, audit <- audit
ImplementsLedger == Ledger!Spec

\* "Replay the exact committed result" (mod.rs:394): every client that is told
\* that its command succeeded is told the answer of the one commit of that very
\* command, and a client that is told of a reused key meets another command.
AnswersAgree ==
  \A a \in Attempts :
    LET stored == results[Scope(body[a])] IN
      /\ answer[a].status = "ok" =>
           stored # None /\ stored.body = body[a] /\ stored.response = answer[a].response
      /\ answer[a].status = "reused" => stored # None /\ stored.body # body[a]

\* "unknown database errors never masquerade as conflicts" (mod.rs:299): when a
\* conflict is reported, the row has not the revision the command expects (or
\* was planned from), or the policy is not what the plan needs it to be.
ConflictsAreReal ==
  [][\A a \in Attempts :
       LET c == body[a]
           planned == IF c.op = "assign" THEN seen[a].row.revision ELSE c.expected
       IN answer[a] # answer'[a] /\ answer'[a].status = "conflict" =>
            \/ rows[c.on].revision # planned
            \/ ~Compatible(c, Found(c, registry))
            \/ Found(c, registry) # seen[a].policy]_vars

\* "The same command/body can be replayed safely" (docs/operations.md:161): a
\* command that took effect is never refused to its own client.  This does not
\* hold: a replay that reads the results before the first attempt commits, and
\* the rows after it, is told of a conflict with itself.
ReplaysAreSafe ==
  \A a \in Attempts :
    answer[a].status \in {"conflict", "missing"} =>
      LET stored == results[Scope(body[a])] IN stored # None => stored.body # body[a]
=============================================================================
