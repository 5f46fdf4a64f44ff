------------------------ MODULE AdminCommands_proofs ------------------------
(***************************************************************************)
(* Theorems about AdminCommands, for every set of commands, rows, policies *)
(* and attempts, and any number of lost calls and claims.                  *)
(***************************************************************************)
EXTENDS AdminCommands, TLAPS

(***************************************************************************)
(* The inductive invariant ties what an attempt read to the rows: as long  *)
(* as a row has the revision that was read, all of it is what was read,    *)
(* although the parts were read by separate queries.                       *)
(***************************************************************************)
Failed == {"constraint", "execution", "unavailable", "observe"}
Planned(a) == pc[a] \in Failed \cup {"send"} \/ a \in late

AbsentRows == \A s \in Subjects : rows[s].revision = 0 => rows[s] = Absent

\* An attempt that has begun carries a command; one whose batch may still land
\* has sent it.
Carries(a) ==
  /\ pc[a] # "idle" => body[a] \in Commands
  /\ a \in late => pc[a] \in Failed \cup {"done"}
Carried == \A a \in Attempts : Carries(a)

\* What the first query read.
RowSeen(a) ==
  LET row == rows[body[a].on]
      old == seen[a].row
  IN /\ Expected(body[a], old)
     /\ old.revision <= row.revision
     /\ old.revision = row.revision => old.fields = row.fields

\* What the second query read.
MoreSeen(a) ==
  LET c == body[a]
      row == rows[c.on]
      old == seen[a].row
  IN /\ old.revision = row.revision => old.related = row.related
     /\ seen[a].policy # None =>
          c.op = "retain" /\ registry[c.policy] = seen[a].policy

Snapshot(a) ==
  /\ Planned(a) \/ pc[a] = "read more" => RowSeen(a)
  /\ Planned(a) => MoreSeen(a)
Snapshots == \A a \in Attempts : Snapshot(a)

Inv == TypeOK /\ AbsentRows /\ Carried /\ Snapshots

-----------------------------------------------------------------------------
\* The parts of a command have the types its row needs.
LEMMA CommandTypes ==
  ASSUME NEW c \in Commands
  PROVE  /\ c.on \in Subjects /\ c.expected \in Nat /\ c.fields \in Fields
         /\ c.related # None => c.related \in SUBSET Related
         /\ c.op = "retain" => c.policy \in Policies
         /\ Scope(c) \in Scopes /\ c.key \in Keys
         /\ c.days \in {d.days : d \in Commands}
<1>1. c.fields \in Fields
  BY DEF Fields
<1>2. c.related # None => c.related \in SUBSET Related
  BY DEF Related
<1>3. Scope(c) \in Scopes
  BY DEF Scopes
<1> QED BY <1>1, <1>2, <1>3, CommandAssumption DEF Keys

\* A command makes a row of a row.
LEMMA WrittenType ==
  ASSUME NEW c \in Commands, NEW row \in Row
  PROVE  Written(c, row) \in Row
<1>1. Kept(c.fields, row.fields) \in Fields
  BY CommandTypes DEF Kept, Row
<1>2. Kept(c.related, row.related) \in SUBSET Related
  BY CommandTypes DEF Kept, Row
<1> QED BY <1>1, <1>2 DEF Written, Row

LEMMA RegisteredType ==
  ASSUME NEW c \in Commands, NEW found \in PolicyRow
  PROVE  /\ Registered(c, found) \in PolicyRow
         /\ Registered(c, found).by \in Keys
BY CommandTypes DEF Registered, PolicyRow

LEMMA ResponseType ==
  ASSUME NEW c \in Commands, NEW row \in Row, NEW found \in PolicyRow
  PROVE  Response(c, row, found) \in Answer
BY WrittenType, RegisteredType DEF Response, Answer

\* What is left of the related rows after the difference was applied is what
\* the command asks for, if they still are what was read.
LEMMA Difference ==
  ASSUME NEW old, NEW new
  PROVE  (old \ (old \ new)) \cup new = new
OBVIOUS

\* A batch that passes its guards is the step of the ledger.
LEMMA EffectExecutes ==
  ASSUME Inv, NEW a \in Attempts, Planned(a), body[a] \in Commands,
         Applicable(a), Effect(a)
  PROVE  Execute(body[a])
<1> DEFINE c == body[a]
           old == seen[a].row
<1>1. /\ RowSeen(a) /\ MoreSeen(a) /\ RowGuard(a) /\ PolicyGuard(a)
      /\ results[Scope(c)] = None
  BY DEF Inv, Snapshots, Snapshot, Applicable
<1>2. c.on \in Subjects /\ rows[c.on] \in Row /\ old \in Row
  BY CommandTypes DEF Inv, TypeOK
<1>3. old = rows[c.on]
  BY <1>1, <1>2 DEF RowSeen, MoreSeen, RowGuard, Row
<1>4. Expected(c, rows[c.on])
  BY <1>1, <1>3 DEF RowSeen
<1>5. Compatible(c, Found(c, registry))
  BY <1>1 DEF PolicyGuard, Compatible, Found
<1>6. rows' = [rows EXCEPT ![c.on] = Written(c, @)]
  <2>1. CASE c.related = None
    BY <1>2, <1>3, <2>1 DEF Effect, Written, Kept, Row
  <2>2. CASE c.related # None
    BY <1>2, <1>3, <2>2, Difference DEF Effect, Written, Kept, Row
  <2> QED BY <2>1, <2>2
<1>7. Response(c, old, seen[a].policy) = Response(c, rows[c.on], Found(c, registry))
  <2>1. CASE c.op = "retain"
    <3>1. seen[a].policy = Found(c, registry)
      BY <1>1, <2>1 DEF MoreSeen, PolicyGuard, Found
    <3> QED BY <1>3, <3>1
  <2>2. CASE c.op # "retain"
    BY <1>3, <2>2 DEF Response
  <2> QED BY <2>1, <2>2
<1> QED BY <1>1, <1>3, <1>4, <1>5, <1>6, <1>7 DEF Execute, Effect

-----------------------------------------------------------------------------
\* What a batch does to the rows: it raises one revision by one.
LEMMA EffectTypes ==
  ASSUME TypeOK, NEW a \in Attempts, body[a] \in Commands, Effect(a)
  PROVE  /\ rows' \in [Subjects -> Row]
         /\ registry' \in [Policies -> PolicyRow]
         /\ results' \in [Scopes -> Result \cup {None}]
         /\ audit' \in [Subjects -> Seq(Nat \X Nat)]
<1> DEFINE c == body[a]
           old == seen[a].row
<1>1. c.on \in Subjects /\ rows[c.on] \in Row /\ old \in Row /\ seen[a].policy \in PolicyRow
  BY CommandTypes DEF TypeOK
<1>2. rows' \in [Subjects -> Row]
  <2> DEFINE dropped == IF c.related = None THEN {} ELSE old.related \ c.related
             added == IF c.related = None THEN {} ELSE c.related
             new == [revision |-> rows[c.on].revision + 1,
                     fields |-> Kept(c.fields, old.fields),
                     related |-> (rows[c.on].related \ dropped) \cup added]
  <2>1. added \in SUBSET Related
    BY CommandTypes
  <2>2. Kept(c.fields, old.fields) \in Fields
    BY <1>1, CommandTypes DEF Kept, Row
  <2>3. (rows[c.on].related \ dropped) \cup added \in SUBSET Related
    <3> HIDE DEF added, dropped
    <3> QED BY <1>1, <2>1 DEF Row
  <2>4. new \in Row
    BY <1>1, <2>2, <2>3 DEF Row
  <2>5. rows' = [rows EXCEPT ![c.on] = new]
    BY DEF Effect
  <2> QED BY <2>4, <2>5 DEF TypeOK
<1>3. registry' \in [Policies -> PolicyRow]
  <2>1. CASE c.op = "retain"
    <3>1. c.policy \in Policies /\ registry[c.policy] \in PolicyRow
      BY <2>1, CommandTypes DEF TypeOK
    <3>2. registry' = [registry EXCEPT ![c.policy] = Registered(c, registry[c.policy])]
      BY <2>1 DEF Effect, Registry
    <3> QED BY <3>1, <3>2, RegisteredType DEF TypeOK
  <2>2. CASE c.op # "retain"
    BY <2>2 DEF Effect, Registry, TypeOK
  <2> QED BY <2>1, <2>2
<1>4. results' \in [Scopes -> Result \cup {None}]
  <2>1. Response(c, old, seen[a].policy) \in Answer
    BY <1>1, ResponseType
  <2>2. results' = [results EXCEPT ![Scope(c)] =
          [body |-> c, response |-> Response(c, old, seen[a].policy)]]
    BY DEF Effect
  <2> QED BY <2>1, <2>2 DEF TypeOK, Result
<1>5. audit' \in [Subjects -> Seq(Nat \X Nat)]
  <2>1. <<old.revision, old.revision + 1>> \in Nat \X Nat
    BY <1>1 DEF Row
  <2>2. audit' = [audit EXCEPT ![c.on] = Append(@, <<old.revision, old.revision + 1>>)]
    BY DEF Effect
  <2>3. audit[c.on] \in Seq(Nat \X Nat)
    BY <1>1 DEF TypeOK
  <2>4. Append(audit[c.on], <<old.revision, old.revision + 1>>) \in Seq(Nat \X Nat)
    BY <2>1, <2>3
  <2> QED BY <2>2, <2>4 DEF TypeOK
<1> QED BY <1>2, <1>3, <1>4, <1>5

\* Whatever any attempt read stays true of the rows in the sense of the
\* invariant: rows only change by raising their revision, policies never do.
RowsMove ==
  \A s \in Subjects :
    rows'[s] = rows[s] \/ rows'[s].revision = rows[s].revision + 1
PoliciesStay ==
  \A p \in Policies : registry[p] # None => registry'[p] = registry[p]

LEMMA SeenStays ==
  ASSUME TypeOK, NEW b \in Attempts, body[b] \in Commands,
         RowsMove, PoliciesStay, body'[b] = body[b], seen'[b] = seen[b]
  PROVE  /\ RowSeen(b) => RowSeen(b)'
         /\ RowSeen(b) /\ MoreSeen(b) => MoreSeen(b)'
<1> DEFINE c == body[b]
<1>1. c.on \in Subjects /\ rows[c.on] \in Row /\ seen[b].row \in Row
  BY CommandTypes DEF TypeOK
<1>2. rows'[c.on] = rows[c.on] \/ rows'[c.on].revision = rows[c.on].revision + 1
  BY <1>1 DEF RowsMove
<1>3. rows[c.on].revision \in Nat /\ seen[b].row.revision \in Nat
  BY <1>1 DEF Row
<1>4. RowSeen(b) => RowSeen(b)'
  BY <1>2, <1>3 DEF RowSeen, Expected
<1>5. RowSeen(b) /\ MoreSeen(b) => MoreSeen(b)'
  <2> SUFFICES ASSUME RowSeen(b), MoreSeen(b) PROVE MoreSeen(b)'
    OBVIOUS
  <2>1. seen[b].row.revision = rows'[c.on].revision => rows'[c.on] = rows[c.on]
    BY <1>2, <1>3 DEF RowSeen
  <2>2. seen[b].policy # None => c.policy \in Policies
    BY CommandTypes DEF MoreSeen
  <2> QED BY <2>1, <2>2 DEF MoreSeen, PoliciesStay
<1> QED BY <1>4, <1>5

LEMMA EffectMoves ==
  ASSUME TypeOK, NEW a \in Attempts, body[a] \in Commands, Effect(a)
  PROVE  RowsMove /\ PoliciesStay
<1>1. RowsMove
  BY CommandTypes DEF Effect, TypeOK, RowsMove
<1>2. PoliciesStay
  <2>1. CASE body[a].op = "retain"
    BY <2>1, CommandTypes DEF Effect, Registry, Registered, TypeOK, PoliciesStay
  <2>2. CASE body[a].op # "retain"
    BY <2>2 DEF Effect, Registry, PoliciesStay
  <2> QED BY <2>1, <2>2
<1> QED BY <1>1, <1>2

LEMMA AbsentStays ==
  ASSUME TypeOK, AbsentRows, RowsMove
  PROVE  AbsentRows'
<1> SUFFICES ASSUME NEW s \in Subjects, rows'[s].revision = 0 PROVE rows'[s] = Absent
  BY DEF AbsentRows
<1>1. rows[s].revision \in Nat
  BY DEF TypeOK, Row
<1> QED BY <1>1 DEF AbsentRows, RowsMove

-----------------------------------------------------------------------------
Steps ==
  {"idle", "replay", "read", "read more", "send", "constraint", "execution",
   "unavailable", "observe", "done"}
Replies == [status : {"none", "ok", "conflict", "reused", "missing", "error"},
            response : Answer \cup {None}]

\* Moving on and finishing keep the types of the attempt's variables.
LEMMA MoveTypes ==
  ASSUME TypeOK, NEW a \in Attempts, NEW step \in Steps, Move(a, step)
  PROVE  pc' \in [Attempts -> Steps]
BY DEF Move, TypeOK, Steps

LEMMA FinishTypes ==
  ASSUME TypeOK, NEW a \in Attempts, NEW reply \in Replies, Finish(a, reply)
  PROVE  pc' \in [Attempts -> Steps] /\ answer' \in [Attempts -> Replies]
BY DEF Finish, Move, TypeOK, Steps, Replies

LEMMA ReplyTypes ==
  /\ \A x \in {"none", "conflict", "reused", "missing", "error"} : Reply(x) \in Replies
  /\ \A r \in Answer : Ok(r) \in Replies
  /\ NoAnswer \in Replies
BY DEF Reply, Ok, NoAnswer, Replies

LEMMA StoredTypes ==
  ASSUME TypeOK, NEW c \in Commands, results[Scope(c)] # None
  PROVE  Stored(c) \in Replies
<1>1. results[Scope(c)] \in Result
  BY CommandTypes DEF TypeOK
<1> QED BY <1>1, ReplyTypes DEF Stored, Result

\* A bounded count that had room has counted one more.
LEMMA Counting ==
  ASSUME NEW max \in Nat, NEW n \in 0 .. max, n < max
  PROVE  n + 1 \in 0 .. max
OBVIOUS

\* Every step keeps the types.
LEMMA TypeStep ==
  ASSUME Inv, CommandsNext
  PROVE  TypeOK'
<1> USE DEF Inv
<1>0. TypeOK /\ \A a \in Attempts : pc[a] # "idle" => body[a] \in Commands
  BY DEF Carried, Carries
<1>00. faults \in 0 .. MaxFaults /\ touches \in 0 .. MaxTouches
  BY DEF TypeOK
<1>1. ASSUME NEW s \in Subjects, Claim(s) PROVE TypeOK'
  <2>1. rows' \in [Subjects -> Row]
    <3> DEFINE new == [rows[s] EXCEPT !.revision = @ + 1]
    <3>1. rows[s] \in Row
      BY <1>0 DEF TypeOK
    <3>2. new \in Row
      BY <3>1 DEF Row
    <3>3. rows' = [rows EXCEPT ![s] = new]
      BY <1>1 DEF Claim, Touch
    <3> HIDE DEF new
    <3> QED BY <1>0, <3>2, <3>3 DEF TypeOK
  <2>2. touches' \in 0 .. MaxTouches
    BY <1>00, <1>1, Counting, BoundAssumption DEF Claim
  <2>3. UNCHANGED <<registry, results, audit, pc, body, seen, answer, late, faults>>
    BY <1>1 DEF Claim, Touch, attempt
  <2> QED BY <1>0, <2>1, <2>2, <2>3 DEF TypeOK
<1>2. ASSUME NEW a \in Attempts, NEW c \in Commands, Submit(a, c) PROVE TypeOK'
  BY <1>2 DEF Submit, Move, TypeOK, ledger
<1>3. ASSUME NEW a \in Attempts, Replay(a) PROVE TypeOK'
  <2>1. body[a] \in Commands
    BY <1>0, <1>3 DEF Replay
  <2>2. pc' \in [Attempts -> Steps] /\ answer' \in [Attempts -> Replies]
    <3>1. CASE results[Scope(body[a])] = None
      BY <1>3, <3>1, MoveTypes DEF Replay, Steps, Replies, TypeOK
    <3>2. CASE results[Scope(body[a])] # None
      BY <1>3, <2>1, <3>2, FinishTypes, StoredTypes DEF Replay
    <3> QED BY <3>1, <3>2
  <2> QED BY <1>3, <2>2 DEF Replay, TypeOK, Steps, Replies, ledger
<1>4. ASSUME NEW a \in Attempts, ReadRow(a) PROVE TypeOK'
  <2>1. body[a] \in Commands /\ rows[body[a].on] \in Row
    BY <1>0, <1>4, CommandTypes DEF ReadRow, TypeOK
  <2>2. pc' \in [Attempts -> Steps] /\ answer' \in [Attempts -> Replies]
    <3>1. ASSUME NEW x \in {"missing", "conflict"}, Finish(a, Reply(x))
          PROVE pc' \in [Attempts -> Steps] /\ answer' \in [Attempts -> Replies]
      BY <3>1, FinishTypes, ReplyTypes
    <3>2. ASSUME Move(a, "read more"), UNCHANGED answer
          PROVE pc' \in [Attempts -> Steps] /\ answer' \in [Attempts -> Replies]
      BY <3>2, MoveTypes DEF Steps, Replies, TypeOK
    <3> QED BY <1>4, <3>1, <3>2 DEF ReadRow
  <2>3. seen' \in [Attempts -> [row : Row, policy : PolicyRow]]
    <3> DEFINE new == IF body[a].op = "create" THEN Absent
                      ELSE [rows[body[a].on] EXCEPT !.related = {}]
    <3>1. Absent \in Row /\ [rows[body[a].on] EXCEPT !.related = {}] \in Row
      BY <2>1 DEF Absent, Row, Fields
    <3>2. new \in Row
      BY <3>1
    <3>3. seen' = [seen EXCEPT ![a].row = new]
      BY <1>4 DEF ReadRow
    <3> HIDE DEF new
    <3> QED BY <3>2, <3>3 DEF TypeOK
  <2> QED BY <1>4, <2>2, <2>3 DEF ReadRow, TypeOK, Steps, Replies, ledger
<1>5. ASSUME NEW a \in Attempts, ReadMore(a) PROVE TypeOK'
  <2>1. body[a] \in Commands /\ rows[body[a].on] \in Row
    BY <1>0, <1>5, CommandTypes DEF ReadMore, TypeOK
  <2>2. Found(body[a], registry) \in PolicyRow
    BY <2>1, CommandTypes DEF Found, TypeOK, PolicyRow
  <2>3. pc' \in [Attempts -> Steps] /\ answer' \in [Attempts -> Replies]
    <3>1. ASSUME Finish(a, Reply("conflict"))
          PROVE pc' \in [Attempts -> Steps] /\ answer' \in [Attempts -> Replies]
      BY <3>1, FinishTypes, ReplyTypes
    <3>2. ASSUME Move(a, "send"), UNCHANGED answer
          PROVE pc' \in [Attempts -> Steps] /\ answer' \in [Attempts -> Replies]
      BY <3>2, MoveTypes DEF Steps, Replies, TypeOK
    <3> QED BY <1>5, <3>1, <3>2 DEF ReadMore
  <2>4. seen' \in [Attempts -> [row : Row, policy : PolicyRow]]
    <3> DEFINE more == IF body[a].op = "create" THEN {} ELSE rows[body[a].on].related
    <3>1. more \in SUBSET Related
      BY <2>1 DEF Row
    <3>2. seen' = [seen EXCEPT ![a].row.related = more, ![a].policy = Found(body[a], registry)]
      BY <1>5 DEF ReadMore
    <3> HIDE DEF more
    <3>3. [seen[a].row EXCEPT !.related = more] \in Row
      BY <3>1 DEF TypeOK, Row
    <3> QED BY <2>2, <3>2, <3>3 DEF TypeOK
  <2> QED BY <1>5, <2>3, <2>4 DEF ReadMore, TypeOK, Steps, Replies, ledger
<1>6. ASSUME NEW a \in Attempts, Commit(a) PROVE TypeOK'
  <2>1. body[a] \in Commands /\ Effect(a)
    BY <1>0, <1>6 DEF Commit
  <2>2. Response(body[a], seen[a].row, seen[a].policy) \in Answer
    BY <2>1, ResponseType DEF TypeOK
  <2>3. pc' \in [Attempts -> Steps] /\ answer' \in [Attempts -> Replies]
    BY <1>6, <2>2, FinishTypes, ReplyTypes DEF Commit
  <2> QED BY <1>6, <2>1, <2>3, EffectTypes DEF Commit, TypeOK, Steps, Replies
<1>7. ASSUME NEW a \in Attempts, Refused(a) PROVE TypeOK'
  <2>1. pc' \in [Attempts -> Steps]
    BY <1>7, MoveTypes DEF Refused, Refusal, Steps
  <2> QED BY <1>7, <2>1 DEF Refused, TypeOK, Steps, ledger
<1>8. ASSUME NEW a \in Attempts, CallLost(a) PROVE TypeOK'
  <2>1. pc' \in [Attempts -> Steps] /\ answer' \in [Attempts -> Replies]
    <3>1. ASSUME NEW x \in {"unavailable", "execution"}, Move(a, x), UNCHANGED answer
          PROVE pc' \in [Attempts -> Steps] /\ answer' \in [Attempts -> Replies]
      BY <3>1, MoveTypes DEF Steps, Replies, TypeOK
    <3>2. ASSUME Finish(a, NoAnswer)
          PROVE pc' \in [Attempts -> Steps] /\ answer' \in [Attempts -> Replies]
      BY <3>2, FinishTypes, ReplyTypes
    <3> QED BY <1>8, <3>1, <3>2 DEF CallLost
  <2>2. faults' \in 0 .. MaxFaults
    BY <1>00, <1>8, Counting, BoundAssumption DEF CallLost
  <2>3. late' \in SUBSET Attempts
    BY <1>0, <1>8 DEF CallLost, TypeOK
  <2>4. UNCHANGED <<rows, registry, results, audit, body, seen, touches>>
    BY <1>8 DEF CallLost, ledger
  <2> QED BY <1>0, <2>1, <2>2, <2>3, <2>4 DEF TypeOK, Steps, Replies
<1>9. ASSUME NEW a \in Attempts, LateBatch(a) PROVE TypeOK'
  <2>1. body[a] \in Commands /\ Effect(a)
    BY <1>0, <1>9 DEF LateBatch, Carried, Carries, Failed
  <2> QED BY <1>9, <2>1, EffectTypes DEF LateBatch, TypeOK
<1>10. ASSUME NEW a \in Attempts, LateLost(a) PROVE TypeOK'
  BY <1>10 DEF LateLost, TypeOK, ledger
<1>11. ASSUME NEW a \in Attempts, ReadFails(a) PROVE TypeOK'
  <2>1. pc' \in [Attempts -> Steps] /\ answer' \in [Attempts -> Replies]
    BY <1>11, FinishTypes, ReplyTypes DEF ReadFails
  <2>2. faults' \in 0 .. MaxFaults
    BY <1>00, <1>11, Counting, BoundAssumption DEF ReadFails
  <2>3. late' \in SUBSET Attempts
    BY <1>0, <1>11 DEF ReadFails, TypeOK
  <2>4. UNCHANGED <<rows, registry, results, audit, body, seen, touches>>
    BY <1>11 DEF ReadFails, ledger
  <2> QED BY <1>0, <2>1, <2>2, <2>3, <2>4 DEF TypeOK, Steps, Replies
<1>12. ASSUME NEW a \in Attempts, ReplayAgain(a) PROVE TypeOK'
  <2>1. body[a] \in Commands
    BY <1>0, <1>12 DEF ReplayAgain
  <2>2. pc' \in [Attempts -> Steps] /\ answer' \in [Attempts -> Replies]
    <3>1. CASE results[Scope(body[a])] # None
      BY <1>12, <2>1, <3>1, FinishTypes, StoredTypes DEF ReplayAgain
    <3>2. CASE results[Scope(body[a])] = None /\ pc[a] = "execution"
      BY <1>12, <3>2, MoveTypes DEF ReplayAgain, Steps, Replies, TypeOK
    <3>3. CASE results[Scope(body[a])] = None /\ pc[a] # "execution"
      BY <1>12, <3>3, FinishTypes, ReplyTypes DEF ReplayAgain
    <3> QED BY <3>1, <3>2, <3>3
  <2> QED BY <1>12, <2>2 DEF ReplayAgain, TypeOK, Steps, Replies, ledger
<1>13. ASSUME NEW a \in Attempts, Observe(a) PROVE TypeOK'
  <2>1. pc' \in [Attempts -> Steps] /\ answer' \in [Attempts -> Replies]
    BY <1>13, FinishTypes, ReplyTypes DEF Observe
  <2> QED BY <1>13, <2>1 DEF Observe, TypeOK, Steps, Replies, ledger
<1> QED BY <1>1, <1>2, <1>3, <1>4, <1>5, <1>6, <1>7, <1>8, <1>9, <1>10, <1>11,
           <1>12, <1>13 DEF CommandsNext, Step

-----------------------------------------------------------------------------
\* Every step moves the rows forward or leaves them alone.
LEMMA Forward ==
  ASSUME Inv, [CommandsNext]_vars
  PROVE  RowsMove /\ PoliciesStay
<1>1. CASE UNCHANGED ledger
  BY <1>1 DEF ledger, RowsMove, PoliciesStay
<1>2. ASSUME NEW s \in Subjects, Claim(s) PROVE RowsMove /\ PoliciesStay
  BY <1>2 DEF Claim, Touch, Inv, TypeOK, Row, RowsMove, PoliciesStay
<1>3. ASSUME NEW a \in Attempts, Commit(a) \/ LateBatch(a)
      PROVE  RowsMove /\ PoliciesStay
  <2>1. body[a] \in Commands /\ Effect(a)
    BY <1>3 DEF Inv, Carried, Carries, Commit, LateBatch, Failed
  <2> QED BY <2>1, EffectMoves DEF Inv
<1>4. ASSUME NEW a \in Attempts, Step(a), ~Commit(a), ~LateBatch(a)
      PROVE  UNCHANGED ledger
  BY <1>4 DEF Step, Replay, ReadRow, ReadMore, Refused, CallLost, LateLost,
              ReadFails, ReplayAgain, Observe
<1>5. ASSUME NEW a \in Attempts, NEW c \in Commands, Submit(a, c)
      PROVE  UNCHANGED ledger
  BY <1>5 DEF Submit
<1> QED BY <1>1, <1>2, <1>3, <1>4, <1>5 DEF CommandsNext, vars

\* An attempt that read nothing new keeps its snapshot.
LEMMA Untouched ==
  ASSUME Inv, RowsMove, PoliciesStay, NEW b \in Attempts,
         body'[b] = body[b], seen'[b] = seen[b],
         Planned(b)' => Planned(b),
         pc'[b] = "read more" => pc[b] = "read more"
  PROVE  Snapshot(b)'
<1>1. CASE Planned(b) \/ pc[b] = "read more"
  <2>1. body[b] \in Commands
    BY <1>1 DEF Inv, Carried, Carries, Planned, Failed
  <2>2. RowSeen(b)' /\ (Planned(b) => MoreSeen(b)')
    BY <1>1, <2>1, SeenStays DEF Inv, Snapshots, Snapshot
  <2> QED BY <2>2 DEF Snapshot
<1>2. CASE ~(Planned(b) \/ pc[b] = "read more")
  BY <1>2 DEF Snapshot
<1> QED BY <1>1, <1>2

\* The first query shows one state of the row.
LEMMA ReadRowSees ==
  ASSUME Inv, NEW a \in Attempts, ReadRow(a)
  PROVE  Snapshot(a)'
<1> DEFINE c == body[a]
<1>1. c \in Commands /\ a \notin late /\ c.on \in Subjects
  BY CommandTypes DEF Inv, Carried, Carries, ReadRow, Failed
<1>2. rows[c.on] \in Row /\ rows[c.on].revision \in Nat
  BY <1>1 DEF Inv, TypeOK, Row
<1>3. ~Planned(a)'
  BY <1>1 DEF ReadRow, Finish, Move, Inv, TypeOK, Planned, Failed
<1>4. ASSUME pc'[a] = "read more" PROVE RowSeen(a)'
  <2>1. c.op = "create" \/ Expected(c, rows[c.on])
    BY <1>4 DEF ReadRow, Finish, Move, Inv, TypeOK
  <2>2. body' = body /\ rows' = rows
    BY DEF ReadRow, ledger
  <2>3. seen'[a].row = IF c.op = "create" THEN Absent
                       ELSE [rows[c.on] EXCEPT !.related = {}]
    BY DEF ReadRow, Inv, TypeOK
  <2>4. CASE c.op = "create"
    <3>1. Expected(c, Absent)
      BY <1>1, <2>4, CommandAssumption DEF Expected, Absent
    <3>2. rows[c.on].revision = 0 => rows[c.on] = Absent
      BY <1>1 DEF Inv, AbsentRows
    <3> QED BY <1>2, <2>2, <2>3, <2>4, <3>1, <3>2 DEF RowSeen, Absent
  <2>5. CASE c.op # "create"
    BY <1>2, <2>1, <2>2, <2>3, <2>5 DEF RowSeen, Expected, Row
  <2> QED BY <2>4, <2>5
<1> QED BY <1>3, <1>4 DEF Snapshot

\* The second query adds what still belongs to that row, if it is the same.
LEMMA ReadMoreSees ==
  ASSUME Inv, NEW a \in Attempts, ReadMore(a)
  PROVE  Snapshot(a)'
<1> DEFINE c == body[a]
           more == IF c.op = "create" THEN {} ELSE rows[c.on].related
<1>1. c \in Commands /\ c.on \in Subjects /\ RowSeen(a)
  BY CommandTypes DEF Inv, Carried, Carries, Snapshots, Snapshot, ReadMore
<1>2. /\ body' = body /\ rows' = rows /\ registry' = registry
      /\ seen'[a] = [row |-> [seen[a].row EXCEPT !.related = more],
                     policy |-> Found(c, registry)]
  BY ZenonT(60) DEF ReadMore, ledger, Inv, TypeOK
<1>3. seen[a].row \in Row /\ rows[c.on] \in Row
  BY <1>1 DEF Inv, TypeOK
<1>4. seen'[a].row.revision = seen[a].row.revision /\ seen'[a].row.fields = seen[a].row.fields
      /\ seen'[a].row.related = more
  BY <1>2, <1>3, SMTT(60) DEF Row
<1>5. RowSeen(a)'
  BY <1>1, <1>2, <1>4 DEF RowSeen, Expected
<1>6. seen[a].row.revision = rows[c.on].revision => more = rows[c.on].related
  <2>1. c.op = "create" => seen[a].row.revision = 0
    BY <1>1, CommandAssumption DEF RowSeen, Expected
  <2>2. rows[c.on].revision = 0 => rows[c.on].related = {}
    BY <1>1 DEF Inv, AbsentRows, Absent
  <2> QED BY <2>1, <2>2
<1>7. MoreSeen(a)'
  BY <1>2, <1>4, <1>6 DEF MoreSeen, Found
<1> QED BY <1>5, <1>7 DEF Snapshot
-----------------------------------------------------------------------------
\* An attempt that has begun keeps its command, and sends before it waits for a
\* late batch.
LEMMA CarriesStep ==
  ASSUME Inv, CommandsNext
  PROVE  Carried'
<1>0. Carried /\ TypeOK
  BY DEF Inv
<1>1. ASSUME NEW s \in Subjects, Claim(s) PROVE Carried'
  BY <1>0, <1>1 DEF Claim, attempt, Carried, Carries
<1>2. ASSUME NEW a \in Attempts, NEW c \in Commands, Submit(a, c) PROVE Carried'
  BY <1>0, <1>2 DEF Submit, Move, Carried, Carries, TypeOK, Failed
<1>3. ASSUME NEW a \in Attempts, Step(a) PROVE Carried'
  <2>1. body' = body /\ pc[a] # "idle"
    BY <1>0, <1>3 DEF Step, Replay, ReadRow, ReadMore, Commit, Refused, CallLost,
       LateBatch, LateLost, ReadFails, ReplayAgain, Observe, Carried, Carries, Failed
  <2>2. \A b \in Attempts \ {a} : pc'[b] = pc[b] /\ (b \in late' => b \in late)
    BY <1>0, <1>3 DEF Step, Replay, ReadRow, ReadMore, Commit, Refused, CallLost,
       LateBatch, LateLost, ReadFails, ReplayAgain, Observe, Finish, Move, TypeOK
  <2>3. a \in late' => pc'[a] \in Failed \cup {"done"}
    BY <1>0, <1>3 DEF Step, Replay, ReadRow, ReadMore, Commit, Refused, CallLost,
       LateBatch, LateLost, ReadFails, ReplayAgain, Observe, Finish, Move, TypeOK,
       Carried, Carries, Failed
  <2> QED BY <1>0, <2>1, <2>2, <2>3 DEF Carried, Carries
<1> QED BY <1>1, <1>2, <1>3 DEF CommandsNext

LEMMA SnapshotsStep ==
  ASSUME Inv, CommandsNext
  PROVE  Snapshots'
<1>0. TypeOK /\ Carried /\ RowsMove /\ PoliciesStay
  BY Forward DEF Inv
<1>1. ASSUME NEW b \in Attempts,
             body'[b] = body[b], seen'[b] = seen[b],
             Planned(b)' => Planned(b), pc'[b] = "read more" => pc[b] = "read more"
      PROVE  Snapshot(b)'
  BY <1>0, <1>1, Untouched
<1>2. ASSUME NEW s \in Subjects, Claim(s) PROVE Snapshots'
  BY <1>1, <1>2 DEF Claim, attempt, Planned, Snapshots
<1>3. ASSUME NEW a \in Attempts, NEW c \in Commands, Submit(a, c) PROVE Snapshots'
  <2>1. \A b \in Attempts \ {a} : Snapshot(b)'
    BY <1>0, <1>1, <1>3 DEF Submit, Move, Planned, TypeOK
  <2>2. Snapshot(a)'
    BY <1>0, <1>3 DEF Submit, Move, Planned, TypeOK, Carried, Carries, Failed, Snapshot
  <2> QED BY <2>1, <2>2 DEF Snapshots
<1>4. ASSUME NEW a \in Attempts, Step(a) PROVE Snapshots'
  <2>1. ASSUME NEW b \in Attempts \ {a} PROVE Snapshot(b)'
    <3>1. /\ body'[b] = body[b] /\ seen'[b] = seen[b] /\ pc'[b] = pc[b]
          /\ b \in late' => b \in late
      BY <1>0, <1>4 DEF Step, Replay, ReadRow, ReadMore, Commit, Refused, CallLost,
         LateBatch, LateLost, ReadFails, ReplayAgain, Observe, Finish, Move, TypeOK
    <3> QED BY <1>1, <3>1 DEF Planned
  <2>2. Snapshot(a)'
    <3>1. CASE ReadRow(a)
      BY <3>1, ReadRowSees
    <3>2. CASE ReadMore(a)
      BY <3>2, ReadMoreSees
    <3>3. CASE ~ReadRow(a) /\ ~ReadMore(a)
      <4>1. body'[a] = body[a] /\ seen'[a] = seen[a] /\ pc'[a] # "read more"
        BY <1>0, <1>4, <3>3 DEF Step, Replay, Commit, Refused, Refusal, CallLost,
           LateBatch, LateLost, ReadFails, ReplayAgain, Observe, Finish, Move, TypeOK,
           Carried, Carries, Failed
      <4>2. Planned(a)' => Planned(a)
        BY <1>0, <1>4, <3>3 DEF Step, Replay, Commit, Refused, CallLost,
           LateBatch, LateLost, ReadFails, ReplayAgain, Observe, Finish, Move, TypeOK,
           Planned, Failed
      <4> QED BY <1>1, <4>1, <4>2
    <3> QED BY <3>1, <3>2, <3>3
  <2> QED BY <2>1, <2>2 DEF Snapshots
<1> QED BY <1>2, <1>3, <1>4 DEF CommandsNext

LEMMA InvInit == CommandsInit => Inv
<1> SUFFICES ASSUME CommandsInit PROVE Inv
  OBVIOUS
<1>1. Absent \in Row /\ [Absent EXCEPT !.revision = 1] \in Row
  BY DEF Absent, Row, Fields
<1>2. NoAnswer \in Replies /\ None \in PolicyRow /\ Unseen \in [row : Row, policy : PolicyRow]
  BY <1>1, ReplyTypes DEF PolicyRow, Unseen
<1>3. rows \in [Subjects -> Row] /\ audit \in [Subjects -> Seq(Nat \X Nat)]
  BY <1>1 DEF CommandsInit, Init
<1>4. TypeOK
  BY <1>2, <1>3, BoundAssumption DEF CommandsInit, Init, TypeOK, Replies
<1>5. AbsentRows
  BY DEF CommandsInit, Init, AbsentRows, Absent
<1>6. Carried /\ Snapshots
  BY DEF CommandsInit, Carried, Carries, Snapshots, Snapshot, Planned, Failed
<1> QED BY <1>4, <1>5, <1>6 DEF Inv

LEMMA InvStep == Inv /\ [CommandsNext]_vars => Inv'
<1>1. ASSUME Inv, CommandsNext PROVE Inv'
  BY <1>1, TypeStep, CarriesStep, SnapshotsStep, Forward, AbsentStays DEF Inv
<1>2. ASSUME Inv, UNCHANGED vars PROVE Inv'
  BY <1>2 DEF vars, ledger, attempt, Inv, TypeOK, AbsentRows, Carried, Carries,
     Snapshots, Snapshot, Planned, RowSeen, MoreSeen
<1> QED BY <1>1, <1>2

THEOREM Invariant == CommandsSpec => []Inv
BY InvInit, InvStep, PTL DEF CommandsSpec

\* Every variable keeps its type, whatever calls fail: an answer is one the
\* executor can give, and a row one that some command can write.
THEOREM TypeCorrect == CommandsSpec => []TypeOK
<1>1. Inv => TypeOK
  BY DEF Inv
<1> QED BY <1>1, Invariant, PTL

-----------------------------------------------------------------------------
(***************************************************************************)
(* Refinement: only an applied batch and a claim change what the ledger    *)
(* sees, and an applied batch is the command on the rows as they are.      *)
(***************************************************************************)
LEMMA SameExecute ==
  ASSUME NEW c \in Commands, Execute(c)
  PROVE  Ledger!Execute(c)
BY DEF Execute, Ledger!Execute, Scope, Ledger!Scope, Expected, Ledger!Expected,
       Compatible, Ledger!Compatible, Found, Ledger!Found, Written, Ledger!Written,
       Kept, Ledger!Kept, Registry, Ledger!Registry, Registered, Ledger!Registered,
       Response, Ledger!Response

LEMMA RefinementStep ==
  ASSUME Inv, [CommandsNext]_vars
  PROVE  [Ledger!Next]_(Ledger!ledger)
<1>1. CASE UNCHANGED ledger
  BY <1>1 DEF ledger, Ledger!ledger
<1>2. ASSUME NEW s \in Subjects, Claim(s) PROVE Ledger!Next
  BY <1>2 DEF Claim, Touch, Ledger!Touch, Ledger!Next
<1>3. ASSUME NEW a \in Attempts, Commit(a) \/ LateBatch(a) PROVE Ledger!Next
  <2>1. body[a] \in Commands /\ Effect(a) /\ Applicable(a) /\ Planned(a)
    BY <1>3 DEF Inv, Carried, Carries, Commit, LateBatch, Failed, Planned
  <2>2. Execute(body[a])
    BY <2>1, EffectExecutes
  <2> QED BY <2>1, <2>2, SameExecute DEF Ledger!Next
<1>4. ASSUME NEW a \in Attempts, Step(a), ~Commit(a), ~LateBatch(a)
      PROVE  UNCHANGED ledger
  BY <1>4 DEF Step, Replay, ReadRow, ReadMore, Refused, CallLost, LateLost,
              ReadFails, ReplayAgain, Observe
<1>5. ASSUME NEW a \in Attempts, NEW c \in Commands, Submit(a, c)
      PROVE  UNCHANGED ledger
  BY <1>5 DEF Submit
<1> QED BY <1>1, <1>2, <1>3, <1>4, <1>5 DEF CommandsNext, vars

\* Whatever attempts overlap, and whichever of their batches land late, every
\* command is one atomic step on the rows at that moment, taken at most once,
\* with the answer and the audit entry that describe it.
THEOREM Refinement == CommandsSpec => ImplementsLedger
<1>1. CommandsInit => Ledger!Init
  BY DEF CommandsInit, Init, Ledger!Init, Absent, Ledger!Absent, Scopes, Ledger!Scopes,
         Scope, Ledger!Scope
<1>2. Inv /\ [CommandsNext]_vars => [Ledger!Next]_(Ledger!ledger)
  BY RefinementStep
<1> QED BY <1>1, <1>2, Invariant, PTL DEF CommandsSpec, ImplementsLedger, Ledger!Spec

-----------------------------------------------------------------------------
(***************************************************************************)
(* What clients are told.  A stored answer never changes, and what made a  *)
(* constraint fail does not go away.                                       *)
(***************************************************************************)
ResultsStay ==
  \A k \in Scopes : results[k] # None => results'[k] = results[k]

LEMMA ResultsKept ==
  ASSUME Inv, [CommandsNext]_vars
  PROVE  ResultsStay
<1>1. [Ledger!Next]_(Ledger!ledger)
  BY RefinementStep
<1>2. CASE UNCHANGED Ledger!ledger
  BY <1>2 DEF Ledger!ledger, ResultsStay
<1>3. ASSUME NEW c \in Commands, Ledger!Execute(c) PROVE ResultsStay
  BY <1>3 DEF Ledger!Execute, Ledger!Scope, ResultsStay, Inv, TypeOK
<1>4. ASSUME NEW s \in Subjects, Ledger!Touch(s) PROVE ResultsStay
  BY <1>4 DEF Ledger!Touch, ResultsStay
<1> QED BY <1>1, <1>2, <1>3, <1>4 DEF Ledger!Next

\* An attempt that was not begun was told nothing.
Untold == \A a \in Attempts : pc[a] = "idle" => answer[a].status = "none"

\* A failed constraint: the command is answered, or its row was there.
Blocked(a) ==
  results[Scope(body[a])] # None \/ rows[body[a].on].revision # seen[a].row.revision
Blocking == \A a \in Attempts : pc[a] = "constraint" => Blocked(a)

Told == Untold /\ Blocking /\ AnswersAgree

Agrees(a) ==
  LET stored == results[Scope(body[a])] IN
    /\ answer[a].status = "ok" =>
         stored # None /\ stored.body = body[a] /\ stored.response = answer[a].response
    /\ answer[a].status = "reused" => stored # None /\ stored.body # body[a]

LEMMA AgreesStays ==
  ASSUME Inv, Told, ResultsStay, NEW b \in Attempts, pc[b] # "idle",
         body'[b] = body[b], answer'[b] = answer[b]
  PROVE  Agrees(b)'
<1>1. Scope(body[b]) \in Scopes /\ Agrees(b)
  BY CommandTypes DEF Inv, Carried, Carries, Told, AnswersAgree, Agrees
<1> QED BY <1>1 DEF Agrees, ResultsStay, Scope

LEMMA BlockedStays ==
  ASSUME Inv, Told, ResultsStay, RowsMove, NEW b \in Attempts, pc[b] = "constraint",
         body'[b] = body[b], seen'[b] = seen[b]
  PROVE  Blocked(b)'
<1>1. body[b] \in Commands /\ Blocked(b) /\ RowSeen(b)
  BY DEF Inv, Carried, Carries, Told, Blocking, Snapshots, Snapshot, Planned, Failed
<1>2. /\ body[b].on \in Subjects /\ Scope(body[b]) \in Scopes
      /\ rows[body[b].on].revision \in Nat /\ seen[b].row.revision \in Nat
  BY <1>1, CommandTypes DEF Inv, TypeOK, Row
<1> QED BY <1>1, <1>2 DEF Blocked, ResultsStay, RowsMove, RowSeen, Scope

\* What an attempt is told when it finishes.
LEMMA ToldStep ==
  ASSUME Inv, Told, NEW a \in Attempts, Step(a), ResultsStay
  PROVE  Agrees(a)' /\ (pc'[a] = "constraint" => Blocked(a)')
<1>0. /\ body[a] \in Commands /\ Scope(body[a]) \in Scopes /\ pc[a] # "idle"
      /\ body' = body
      /\ pc[a] \in Steps /\ answer[a] \in Replies /\ TypeOK
  BY CommandTypes DEF Step, Replay, ReadRow, ReadMore, Commit, Refused, CallLost,
     LateBatch, LateLost, ReadFails, ReplayAgain, Observe, Inv, Carried, Carries, Failed,
     TypeOK, Steps, Replies
<1> DEFINE Quiet(reply) == reply.status \notin {"ok", "reused"}
<1>1. ASSUME NEW reply, Finish(a, reply), Quiet(reply)
      PROVE  Agrees(a)' /\ pc'[a] # "constraint"
  BY <1>0, <1>1 DEF Finish, Move, Agrees, TypeOK
<1>2. ASSUME Finish(a, Stored(body[a])), UNCHANGED ledger, results[Scope(body[a])] # None
      PROVE  Agrees(a)' /\ pc'[a] # "constraint"
  <2>1. answer'[a] = Stored(body[a]) /\ pc'[a] = "done"
    BY <1>0, <1>2 DEF Finish, Move, TypeOK
  <2> QED BY <1>0, <1>2, <2>1 DEF Agrees, Stored, Ok, Reply, ledger, Scope
<1>3. ASSUME NEW step, Move(a, step), step # "constraint", UNCHANGED answer
      PROVE  Agrees(a)' /\ pc'[a] # "constraint"
  BY <1>0, <1>3, AgreesStays DEF Move, TypeOK
<1>4. \A x \in {"missing", "conflict", "error"} : Quiet(Reply(x))
  BY DEF Reply
<1>5. CASE Replay(a)
  BY <1>2, <1>3, <1>5 DEF Replay
<1>6. CASE ReadRow(a)
  BY <1>1, <1>3, <1>4, <1>6 DEF ReadRow
<1>7. CASE ReadMore(a)
  BY <1>1, <1>3, <1>4, <1>7 DEF ReadMore
<1>8. CASE Commit(a)
  <2>1. /\ answer'[a] = Ok(Response(body[a], seen[a].row, seen[a].policy))
        /\ pc'[a] = "done"
    BY <1>0, <1>8 DEF Commit, Finish, Move, TypeOK
  <2>2. results'[Scope(body[a])] =
          [body |-> body[a], response |-> Response(body[a], seen[a].row, seen[a].policy)]
    BY <1>0, <1>8 DEF Commit, Effect, TypeOK
  <2>3. results'[Scope(body[a])] # None
    <3>1. Response(body[a], seen[a].row, seen[a].policy) \in Answer
      BY <1>0, ResponseType DEF TypeOK
    <3> QED BY <1>0, <2>2, <3>1, NoneAssumption DEF Result
  <2> QED BY <1>0, <2>1, <2>2, <2>3 DEF Agrees, Ok, Scope
<1>9. CASE Refused(a)
  <2>1. /\ pc'[a] = Refusal(a) /\ answer' = answer /\ seen' = seen
        /\ rows' = rows /\ results' = results
    BY <1>0, <1>9 DEF Refused, Move, TypeOK, ledger
  <2>2. pc'[a] = "constraint" => Blocked(a)
    BY <1>9, <2>1 DEF Refused, Refusal, Applicable, RowGuard, Blocked
  <2>3. Agrees(a)'
    BY <1>0, <2>1, AgreesStays
  <2> QED BY <1>0, <2>1, <2>2, <2>3 DEF Blocked, Scope
<1>10. CASE CallLost(a)
  <2>1. Quiet(NoAnswer)
    BY DEF NoAnswer
  <2> QED BY <1>1, <1>3, <1>10, <2>1 DEF CallLost
<1>11. CASE LateBatch(a) \/ LateLost(a)
  <2>1. pc' = pc /\ answer' = answer /\ seen' = seen
    BY <1>11 DEF LateBatch, LateLost
  <2>2. RowsMove
    BY Forward, <1>11 DEF CommandsNext, Step
  <2> QED BY <1>0, <2>1, <2>2, AgreesStays, BlockedStays
<1>12. CASE ReadFails(a)
  BY <1>1, <1>4, <1>12 DEF ReadFails
<1>13. CASE ReplayAgain(a)
  BY <1>1, <1>2, <1>3, <1>4, <1>13 DEF ReplayAgain
<1>14. CASE Observe(a)
  BY <1>1, <1>4, <1>14 DEF Observe
<1> QED BY <1>5, <1>6, <1>7, <1>8, <1>9, <1>10, <1>11, <1>12, <1>13, <1>14 DEF Step

LEMMA ToldInit == CommandsInit => Told
BY DEF CommandsInit, NoAnswer, Told, Untold, Blocking, AnswersAgree

LEMMA ToldNext == Inv /\ Told /\ [CommandsNext]_vars => Told'
<1> SUFFICES ASSUME Inv, Told, [CommandsNext]_vars PROVE Told'
  OBVIOUS
<1>0. ResultsStay /\ RowsMove /\ TypeOK
  BY ResultsKept, Forward DEF Inv
<1>1. ASSUME NEW b \in Attempts, body'[b] = body[b], answer'[b] = answer[b],
             pc'[b] = pc[b], seen'[b] = seen[b]
      PROVE  /\ pc'[b] = "idle" => answer'[b].status = "none"
             /\ pc'[b] = "constraint" => Blocked(b)'
             /\ Agrees(b)'
  <2>1. CASE pc[b] = "idle"
    BY <1>1, <2>1 DEF Told, Untold, Agrees
  <2>2. CASE pc[b] # "idle"
    BY <1>0, <1>1, <2>2, AgreesStays, BlockedStays
  <2> QED BY <2>1, <2>2
<1>2. CASE UNCHANGED <<pc, body, seen, answer>>
  BY <1>1, <1>2 DEF Told, Untold, Blocking, AnswersAgree, Agrees
<1>3. ASSUME NEW a \in Attempts, NEW c \in Commands, Submit(a, c) PROVE Told'
  <2>1. \A b \in Attempts \ {a} : body'[b] = body[b] /\ pc'[b] = pc[b]
    BY <1>0, <1>3 DEF Submit, Move, TypeOK
  <2>2. pc'[a] = "replay" /\ answer'[a].status = "none"
    BY <1>0, <1>3 DEF Submit, Move, TypeOK, Told, Untold
  <2>3. answer' = answer /\ seen' = seen
    BY <1>3 DEF Submit
  <2> QED BY <1>1, <2>1, <2>2, <2>3 DEF Told, Untold, Blocking, AnswersAgree, Agrees
<1>4. ASSUME NEW a \in Attempts, Step(a) PROVE Told'
  <2>1. \A b \in Attempts \ {a} : /\ body'[b] = body[b] /\ pc'[b] = pc[b]
                                 /\ seen'[b] = seen[b] /\ answer'[b] = answer[b]
    BY <1>0, <1>4 DEF Step, Replay, ReadRow, ReadMore, Commit, Refused, CallLost,
       LateBatch, LateLost, ReadFails, ReplayAgain, Observe, Finish, Move, TypeOK
  <2>2. Agrees(a)' /\ (pc'[a] = "constraint" => Blocked(a)')
    BY <1>0, <1>4, ToldStep
  <2>3. pc'[a] # "idle"
    BY <1>0, <1>4 DEF Step, Replay, ReadRow, ReadMore, Commit, Refused, Refusal,
       CallLost, LateBatch, LateLost, ReadFails, ReplayAgain, Observe, Finish, Move,
       TypeOK, Inv, Carried, Carries, Failed
  <2> QED BY <1>1, <2>1, <2>2, <2>3 DEF Told, Untold, Blocking, AnswersAgree, Agrees
<1> QED BY <1>2, <1>3, <1>4 DEF CommandsNext, vars, Claim, attempt

LEMMA ToldAlways == CommandsSpec => [](Inv /\ Told)
BY InvInit, InvStep, ToldInit, ToldNext, PTL DEF CommandsSpec

\* Every client that is told that its command succeeded is told the answer of
\* the one commit of that command, however many attempts raced for it.
THEOREM AnswersHold == CommandsSpec => []AnswersAgree
<1>1. Told => AnswersAgree
  BY DEF Told
<1> QED BY <1>1, ToldAlways, PTL

\* A conflict is reported only while the row or the policy really is not what
\* the command needs: not for a failed call, and not for another's success.
LEMMA ConflictsStep ==
  ASSUME Inv, Told, [CommandsNext]_vars, NEW a \in Attempts,
         answer[a] # answer'[a], answer'[a].status = "conflict"
  PROVE  LET c == body[a]
             planned == IF c.op = "assign" THEN seen[a].row.revision ELSE c.expected
         IN \/ rows[c.on].revision # planned
            \/ ~Compatible(c, Found(c, registry))
            \/ Found(c, registry) # seen[a].policy
<1> DEFINE c == body[a]
           planned == IF c.op = "assign" THEN seen[a].row.revision ELSE c.expected
<1>1. Step(a) /\ TypeOK
  <2>1. ASSUME NEW b \in Attempts \ {a}, Step(b) PROVE FALSE
    BY <2>1 DEF Step, Replay, ReadRow, ReadMore, Commit, Refused, CallLost,
       LateBatch, LateLost, ReadFails, ReplayAgain, Observe, Finish, Move, Inv, TypeOK
  <2> QED BY <2>1 DEF CommandsNext, vars, attempt, Claim, Submit, Inv
<1>2. \A reply : Finish(a, reply) => answer'[a] = reply
  BY <1>1 DEF Finish, TypeOK
<1>3. \A x : Reply(x).status = x
  BY DEF Reply
<1>4. RowSeen(a) => planned = seen[a].row.revision
  BY DEF RowSeen, Expected
<1>5. CASE ReadRow(a)
  BY <1>2, <1>3, <1>5 DEF ReadRow, Expected
<1>6. CASE ReadMore(a)
  BY <1>2, <1>3, <1>6 DEF ReadMore
<1>7. CASE ReplayAgain(a)
  <2>1. CASE results[Scope(c)] # None
    BY <1>2, <1>3, <1>7, <2>1 DEF ReplayAgain, Stored, Ok
  <2>2. CASE results[Scope(c)] = None
    <3>1. pc[a] = "constraint"
      BY <1>2, <1>3, <1>7, <2>2 DEF ReplayAgain
    <3>2. rows[c.on].revision # seen[a].row.revision /\ RowSeen(a)
      BY <2>2, <3>1 DEF Told, Blocking, Blocked, Inv, Snapshots, Snapshot, Planned, Failed
    <3> QED BY <1>4, <3>2
  <2> QED BY <2>1, <2>2
<1>8. CASE Observe(a)
  <2>1. ConflictObserved(a) /\ RowSeen(a)
    BY <1>2, <1>3, <1>8 DEF Observe, Inv, Snapshots, Snapshot, Planned, Failed
  <2> QED BY <1>4, <2>1 DEF ConflictObserved, RowGuard, Found
<1>9. CASE Replay(a)
  BY <1>2, <1>3, <1>9 DEF Replay, Stored, Ok
<1>10. CASE Commit(a) \/ CallLost(a) \/ ReadFails(a)
  BY <1>2, <1>3, <1>10 DEF Commit, CallLost, ReadFails, Ok, NoAnswer
<1>11. CASE Refused(a) \/ LateBatch(a) \/ LateLost(a)
  BY <1>11 DEF Refused, LateBatch, LateLost
<1> QED BY <1>1, <1>5, <1>6, <1>7, <1>8, <1>9, <1>10, <1>11 DEF Step

THEOREM ConflictsHold == CommandsSpec => ConflictsAreReal
<1>1. Inv /\ Told /\ [CommandsNext]_vars =>
        [\A a \in Attempts :
           LET c == body[a]
               planned == IF c.op = "assign" THEN seen[a].row.revision ELSE c.expected
           IN answer[a] # answer'[a] /\ answer'[a].status = "conflict" =>
                \/ rows[c.on].revision # planned
                \/ ~Compatible(c, Found(c, registry))
                \/ Found(c, registry) # seen[a].policy]_vars
  BY ConflictsStep
<1> QED BY <1>1, ToldAlways, PTL DEF CommandsSpec, ConflictsAreReal
=============================================================================
