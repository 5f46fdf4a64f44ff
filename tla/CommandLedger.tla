---------------------------- MODULE CommandLedger ----------------------------
(***************************************************************************)
(* What the admin command executor promises (status-backend/src/admin/     *)
(* mutations): a command takes effect in one step, on the rows as they are *)
(* at that moment, at most once per command identity; its stored answer    *)
(* describes the very row it wrote, and the audit trail names the revision *)
(* it replaced and the one it produced.                                    *)
(*                                                                         *)
(* A row is anything with a revision of its own: a service or a component  *)
(* of the catalogue, a monitor, a diagnostic policy assignment, a          *)
(* retention assignment.  Revision 0 stands for a row that does not exist. *)
(* `related' are the rows of other tables that belong to it: dependencies, *)
(* supporting services, locations.                                         *)
(***************************************************************************)
EXTENDS Naturals, Sequences

CONSTANTS
  Commands,  \* [op, key, on, expected, fields, related, policy, days]
  Subjects,  \* the rows commands are about
  Policies,  \* identities (with revision) of retention policies
  Seeded,    \* subjects that exist from the start
  Shared,    \* subjects whose revision the scheduler raises too (monitors)
  None       \* an absent patch field, a policy that is not registered

Ops == {"create", "update", "assign", "retain"}

ASSUME CommandAssumption ==
  \A c \in Commands :
    /\ c.op \in Ops /\ c.on \in Subjects /\ c.expected \in Nat
    /\ c.op = "create" => c.expected = 0 /\ c.fields # None /\ c.related # None
    /\ c.op = "update" => c.expected > 0
    /\ c.op = "retain" => c.policy \in Policies
ASSUME SeedAssumption == Seeded \subseteq Subjects /\ Shared \subseteq Subjects

VARIABLES
  rows,      \* per subject: revision, fields, related
  registry,  \* data_retention_policies: what was registered, and by whom
  results,   \* idempotency_keys: per scope the command and its answer
  audit      \* per subject: the revisions each command replaced and produced

ledger == <<rows, registry, results, audit>>

\* The key is scoped by operation; the digest covers the whole command.
Scope(c) == <<c.op, c.key>>
Scopes == {Scope(c) : c \in Commands}

Absent == [revision |-> 0, fields |-> None, related |-> {}]

Init ==
  /\ rows = [s \in Subjects |-> IF s \in Seeded
                                THEN [Absent EXCEPT !.revision = 1] ELSE Absent]
  /\ registry = [p \in Policies |-> None]
  /\ results = [k \in Scopes |-> None]
  /\ audit = [s \in Subjects |-> <<>>]

\* A patch field that is absent keeps what the row has.
Kept(patch, old) == IF patch = None THEN old ELSE patch

\* The row a command makes of one it found: the next revision, merged with the
\* body.
Written(c, row) ==
  [revision |-> row.revision + 1,
   fields   |-> Kept(c.fields, row.fields),
   related  |-> Kept(c.related, row.related)]

\* A policy revision is immutable: it is registered once, and used again only
\* with the same content.
Compatible(c, found) ==
  c.op = "retain" /\ found # None => found.days = c.days

Registered(c, found) ==
  IF found = None THEN [days |-> c.days, by |-> c.key] ELSE found

Registry(c, reg) ==
  IF c.op = "retain" THEN [reg EXCEPT ![c.policy] = Registered(c, @)] ELSE reg

\* Mutant: the registrar is taken from the wrong field.
ResponseOfPolicy(c, row, found) == [row |-> Written(c, row), by |-> c.policy]

\* The answer of a first commit: the row, and who registered the policy.
Response(c, row, found) ==
  [row |-> Written(c, row),
   by  |-> IF c.op = "retain" THEN Registered(c, found).by ELSE None]

\* What the command found of the policy it names.
Found(c, reg) == IF c.op = "retain" THEN reg[c.policy] ELSE None

\* Diagnostic assignments follow whatever is assigned; every other command
\* says which revision it expects (none at all when it creates).
Expected(c, row) == c.op = "assign" \/ row.revision = c.expected

Execute(c) ==
  /\ results[Scope(c)] = None
  /\ Expected(c, rows[c.on])
  /\ Compatible(c, Found(c, registry))
  /\ rows' = [rows EXCEPT ![c.on] = Written(c, @)]
  /\ registry' = Registry(c, registry)
  /\ results' = [results EXCEPT ![Scope(c)] =
       [body |-> c, response |-> Response(c, rows[c.on], Found(c, registry))]]
  /\ audit' = [audit EXCEPT ![c.on] =
       Append(@, <<rows[c.on].revision, rows[c.on].revision + 1>>)]

\* A claim of the scheduler raises the revision of a monitor.
Touch(s) ==
  /\ s \in Shared /\ rows[s].revision > 0
  /\ rows' = [rows EXCEPT ![s].revision = @ + 1]
  /\ UNCHANGED <<registry, results, audit>>

Next == (\E c \in Commands : Execute(c)) \/ (\E s \in Subjects : Touch(s))

Spec == Init /\ [][Next]_ledger
=============================================================================
