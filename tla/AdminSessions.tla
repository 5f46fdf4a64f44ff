--------------------------- MODULE AdminSessions ---------------------------
(***************************************************************************)
(* The single administrator: logins under a global budget, sessions bound  *)
(* to the password record, and commands that the gateway authenticates     *)
(* anew each time (status-backend/admin_auth, gateway/runtime).            *)
(*                                                                         *)
(* Every call reads its secret and its clock at its begin and the database *)
(* later: meanwhile the record is rotated, the administrator logs out, a   *)
(* window of the budget ends.                                              *)
(*                                                                         *)
(* Abstractions: a password is the record it belongs to; a token is the    *)
(* number of its login; the command is one step after authentication       *)
(* (AdminCommands has its own interleavings); the guards on headers and    *)
(* bodies are left out, a refused call changes nothing.                    *)
(***************************************************************************)
EXTENDS Naturals, FiniteSets, Sequences

CONSTANTS
  Browsers,     \* calls that may be under way together
  Lifetime,     \* of a session, twelve hours
  BudgetWindow, \* ten minutes
  BudgetLimit,  \* thirty attempts
  Patience,     \* how long one call may take
  Closing,      \* bound: instants
  Records,      \* bound: rotations of the password record
  Tokens        \* bound: sessions issued

VARIABLES
  hour,
  secret,    \* ADMIN_PASSWORD_RECORD, by number
  sessions,  \* administrator_sessions: tokens with a row
  issued,    \* every token ever issued: its record and expiry
  closed,    \* tokens whose logout was acknowledged
  budget,    \* administrator_login_budget
  attempts,  \* when each key derivation ran
  doing      \* the calls

Resting == [at |-> "resting", env |-> 0, now |-> 0, password |-> 0, token |-> 0,
            late |-> FALSE]

AInit ==
  /\ hour = BudgetWindow  \* the row starts with window_start = 0
  /\ secret = 0 /\ sessions = {} /\ issued = <<>> /\ closed = {}
  /\ budget = [start |-> 0, attempts |-> 0] /\ attempts = <<>>
  /\ doing = [b \in Browsers |-> Resting]

HourPasses ==
  /\ hour < Closing
  /\ \A b \in Browsers : doing[b].at # "resting" => hour - doing[b].now < Patience
  /\ hour' = hour + 1
  /\ UNCHANGED <<secret, sessions, issued, closed, budget, attempts, doing>>

RotateRecord ==
  /\ secret < Records
  /\ secret' = secret + 1
  /\ UNCHANGED <<hour, sessions, issued, closed, budget, attempts, doing>>

Begin(b, at, password, token) ==
  /\ doing[b].at = "resting"
  /\ doing' = [doing EXCEPT ![b] =
       [at |-> at, env |-> secret, now |-> hour, password |-> password,
        token |-> token, late |-> token \in closed]]
  /\ UNCHANGED <<hour, secret, sessions, issued, closed, budget, attempts>>

\* Those under way may all succeed.
LoggingIn == {b \in Browsers : doing[b].at \in {"budget", "verify"}}

BeginLogin(b) == \E p \in 0 .. secret :
  /\ p = secret => Len(issued) + Cardinality(LoggingIn) < Tokens
  /\ Begin(b, "budget", p, 0)
BeginLogout(b) == \E t \in DOMAIN issued : Begin(b, "logout", 0, t)
BeginCommand(b) == \E t \in DOMAIN issued : Begin(b, "session", 0, t)

\* budget: one UPDATE with the clock the call began with; 0 rows is refusal.
Budgeted(b) ==
  LET over == budget.start + BudgetWindow <= doing[b].now
  IN IF over THEN [start |-> doing[b].now, attempts |-> 1]
     ELSE IF budget.attempts < BudgetLimit THEN [budget EXCEPT !.attempts = @ + 1]
     ELSE budget

Budget(b) ==
  /\ doing[b].at = "budget"
  /\ budget' = Budgeted(b)
  /\ IF budget' # budget
     THEN doing' = [doing EXCEPT ![b].at = "verify"] /\ attempts' = Append(attempts, hour)
     ELSE doing' = [doing EXCEPT ![b] = Resting] /\ UNCHANGED attempts
  /\ UNCHANGED <<hour, secret, sessions, issued, closed>>

\* verify, then the rest of login with a second look at the clock.
Issue(b) ==
  /\ doing[b].at = "verify"
  /\ IF doing[b].password = doing[b].env
     THEN /\ issued' = Append(issued, [record |-> doing[b].env, expires |-> hour + Lifetime])
          /\ sessions' = {t \in sessions : issued[t].expires > hour} \cup {Len(issued')}
     ELSE UNCHANGED <<issued, sessions>>
  /\ doing' = [doing EXCEPT ![b] = Resting]
  /\ UNCHANGED <<hour, secret, closed, budget, attempts>>

Logout(b) ==
  /\ doing[b].at = "logout"
  /\ sessions' = sessions \ {doing[b].token}
  /\ closed' = closed \cup {doing[b].token}
  /\ doing' = [doing EXCEPT ![b] = Resting]
  /\ UNCHANGED <<hour, secret, issued, budget, attempts>>

\* Mutant: a session outlives the record it was opened with.
LiveUnderAnyRecord(b) ==
  LET t == doing[b].token
  IN t \in sessions /\ issued[t].expires > doing[b].now

\* session: the row, by token, expiry and the fingerprint of the call's secret.
Live(b) ==
  LET t == doing[b].token
  IN /\ t \in sessions
     /\ issued[t].expires > doing[b].now
     /\ issued[t].record = doing[b].env

Session(b) ==
  /\ doing[b].at = "session"
  /\ doing' = [doing EXCEPT ![b] = IF Live(b) THEN [@ EXCEPT !.at = "command"] ELSE Resting]
  /\ UNCHANGED <<hour, secret, sessions, issued, closed, budget, attempts>>

\* The second private call of the request carries the principal.
Command(b) ==
  /\ doing[b].at = "command"
  /\ doing' = [doing EXCEPT ![b] = Resting]
  /\ UNCHANGED <<hour, secret, sessions, issued, closed, budget, attempts>>

ANext == \/ HourPasses \/ RotateRecord
         \/ \E b \in Browsers :
              \/ BeginLogin(b) \/ BeginLogout(b) \/ BeginCommand(b)
              \/ Budget(b) \/ Issue(b) \/ Logout(b) \/ Session(b) \/ Command(b)

-----------------------------------------------------------------------------
ATypeOK ==
  /\ sessions \subseteq DOMAIN issued /\ closed \subseteq DOMAIN issued
  /\ sessions \cap closed = {}
  /\ secret \in 0 .. Records /\ budget.attempts \in 0 .. BudgetLimit
  /\ budget.start <= hour
  /\ \A b \in Browsers : doing[b].env <= secret /\ doing[b].now <= hour

\* A command runs only for a session that, when its request began, nobody had
\* logged out of, had not expired, and had been opened with the password
\* record in force: a login under way while the record was rotated opens
\* nothing (login, session, authenticate).
CommandsAreAuthorised == \A b \in Browsers :
  doing[b].at = "command" =>
    /\ ~doing[b].late
    /\ issued[doing[b].token].expires > doing[b].now
    /\ issued[doing[b].token].record = doing[b].env

\* Guessing is bounded: twice the budget and one more take longer than a window
\* less the time a call may be under way, for any stretch sees at most one
\* window's end and the next one's beginning, and calls reach the database late
\* (budget is taken before every key derivation).
GuessingIsBounded == \A i \in 1 .. Len(attempts) - 2 * BudgetLimit :
  attempts[i + 2 * BudgetLimit] > attempts[i] + BudgetWindow - Patience
=============================================================================
