------------------------- MODULE MonitorEvaluation -------------------------
(***************************************************************************)
(* From regional samples to the verdict of one monitor, and from the       *)
(* stored verdicts to the signal its target is shown (scheduling/monitor,  *)
(* status-domain/evaluation, scheduling/reevaluate: monitor_signals).      *)
(*                                                                         *)
(* No sample is kept: every location has one row, a tumbling window that   *)
(* counts samples since started, and a run folds what its executors        *)
(* answered into the rows of the locations that answered.  One verdict is  *)
(* reached over those rows and the fresh rows of the silent locations,     *)
(* each data centre voting once, and is written to the answering rows      *)
(* only.  Status reevaluation later sees rows of several runs at once.     *)
(*                                                                         *)
(* Abstractions: a run is one step (MonitorRun has its interleavings);     *)
(* executor and data centre are one value; thresholds are fractions; the   *)
(* policy columns are left out, an edit deletes the rows with the          *)
(* locations it reinserts, so a row always has the monitor's own policy.   *)
(***************************************************************************)
EXTENDS Naturals, FiniteSets, FiniteSetsExt

CONSTANTS
  Sites,            \* probe locations, numbered in the order of their names
  Colos,            \* Colos[s]: data centres the executor of s may run in
  Lag,              \* Lag[s]: how much earlier than the run s may sample
  Window, Stale,    \* observation_window_seconds, stale_after_seconds
  MinSamples,       \* minimum_samples
  FailAt,           \* failure_threshold, <<numerator, denominator>>
  RecoverAt,        \* recovery_threshold
  Quorums,          \* location_quorum values an operator may configure
  Interval,         \* interval_seconds
  Cron,             \* the instants of Cron invocations
  Horizon,          \* bound: instants
  MaxEdits          \* bound: operator edits

VARIABLES
  now,
  due,       \* next_run_at
  quorum,    \* location_quorum of the policy in force
  row,       \* monitor_checkpoints, by location: its window, and the verdict
             \* of the run that wrote it
  taken,     \* the samples accepted so far (what the rows no longer tell)
  verdict,   \* what the last committed run decided
  verdicts,  \* what any run decided since the locations were inserted
  edits

NoRows == [s \in {} |-> 0]
NoVerdict == [state |-> "unknown", at |-> 0, until |-> 0]

EInit ==
  /\ now = 0 /\ due = 0 /\ edits = 0
  /\ quorum \in Quorums
  /\ row = NoRows
  /\ taken = {} /\ verdict = NoVerdict /\ verdicts = {}

\* Mutant: the run that was missed is made up for.
NextRunBurst(prior, at) == prior + Interval

\* Missed intervals are skipped: the next grid point strictly after at.
NextRun(prior, at) ==
  prior + ((IF at > prior THEN at - prior ELSE 0) \div Interval + 1) * Interval

\* A window starts over when its executor moved or its time is up.
Restarts(s, o) ==
  \/ s \notin DOMAIN row
  \/ row[s].window.colo # o.colo
  \/ o.at - row[s].window.started >= Window

Fold(s, o) ==
  LET fresh == Restarts(s, o)
      w     == row[s].window
      bad   == IF o.bad THEN 1 ELSE 0
  IN [colo    |-> o.colo,
      started |-> IF fresh THEN o.at ELSE w.started,
      last    |-> o.at,
      samples |-> (IF fresh THEN 0 ELSE w.samples) + 1,
      bad     |-> (IF fresh THEN 0 ELSE w.bad) + bad]

AtLeast(bad, all, f) == bad * f[2] >= all * f[1]
AtMost(bad, all, f)  == bad * f[2] <= all * f[1]

\* The windows a run at instant at lets vote: answering locations before
\* silent ones, each group by name, and of every data centre only the first.
Voters(folded, at) ==
  LET answered == DOMAIN folded
      silent   == DOMAIN row \ answered
      Windows  == [s \in answered \cup silent |->
                     IF s \in answered THEN folded[s] ELSE row[s].window]
      Usable   == {s \in answered \cup silent :
                     Windows[s].last <= at /\ at - Windows[s].last <= Stale}
      Before(s, t) == \/ s \in answered /\ t \in silent
                      \/ (s \in answered <=> t \in answered) /\ s < t
  IN [s \in {t \in Usable : \A u \in Usable :
               Windows[u].colo = Windows[t].colo => ~Before(u, t)} |-> Windows[s]]

Holds(q, n) == n >= q

\* evaluate_monitor: until = 0 stands for no fresh window at all.
Evaluate(votes, previous, at) ==
  LET Fresh    == {s \in DOMAIN votes : at - votes[s].started <= Window}
      Eligible == {s \in Fresh : votes[s].samples >= MinSamples}
      Bad      == {s \in Eligible : AtLeast(votes[s].bad, votes[s].samples, FailAt)}
      Good     == {s \in Eligible : AtMost(votes[s].bad, votes[s].samples, RecoverAt)}
      enough     == Holds(quorum, Cardinality(Eligible))
      failing    == Holds(quorum, Cardinality(Bad))
      recovering == Holds(quorum, Cardinality(Good))
  IN [state |-> IF ~enough THEN "unknown"
                ELSE IF failing THEN "failing"
                ELSE IF recovering THEN "healthy" ELSE previous,
      at    |-> at,
      until |-> IF Fresh = {} THEN 0 ELSE Min({votes[s].last + Stale : s \in Fresh})]

Answers(s) ==
  {[at |-> now - l, colo |-> c, bad |-> b] :
     l \in {l \in Lag[s] : l <= now}, c \in Colos[s], b \in BOOLEAN}

\* The fold and the verdict over the answers of a run.
Decided(obs) ==
  LET at    == Max({obs[s].at : s \in DOMAIN obs})
      first == Min(DOMAIN obs)
  IN Evaluate(Voters([s \in DOMAIN obs |-> Fold(s, obs[s])], at),
              IF first \in DOMAIN row THEN row[first].verdict.state ELSE "unknown", at)

\* A due run: the answers, the fold, the verdict, the commit.  Without one
\* answer only next_run_at moves; without one fresh window the run fails.
Run ==
  /\ now \in Cron /\ now >= due
  /\ due' = NextRun(due, now)
  /\ \E answered \in SUBSET Sites :
       \/ /\ answered = {}
          /\ UNCHANGED <<row, taken, verdict, verdicts>>
       \/ \E obs \in [answered -> UNION {Answers(s) : s \in answered}] :
            /\ answered # {} /\ \A s \in answered : obs[s] \in Answers(s)
            /\ verdict' = Decided(obs) /\ verdict'.until # 0
            /\ verdicts' = verdicts \cup {verdict'}
            /\ row' = [s \in DOMAIN row \cup answered |->
                         IF s \in answered
                         THEN [window |-> Fold(s, obs[s]), verdict |-> verdict']
                         ELSE row[s]]
            /\ taken' = taken \cup {[site |-> s, at |-> obs[s].at,
                                     colo |-> obs[s].colo] : s \in answered}
  /\ UNCHANGED <<now, quorum, edits>>

\* updateMonitor: the locations are deleted and inserted again, the rows go
\* with them; next_run_at stays.
Edit ==
  /\ edits < MaxEdits
  /\ edits' = edits + 1
  /\ quorum' \in Quorums
  /\ row' = NoRows
  /\ taken' = {} /\ verdict' = NoVerdict /\ verdicts' = {}
  /\ UNCHANGED <<now, due>>

Tick ==
  /\ now < Horizon
  /\ now' = now + 1
  /\ UNCHANGED <<due, quorum, row, taken, verdict, verdicts, edits>>

ENext == Run \/ Edit \/ Tick

-----------------------------------------------------------------------------
\* The rows whose own proof still holds.
Counted == {s \in DOMAIN row : row[s].verdict.until > now}

\* monitor_signals: enough data centres with a fresh row, then the verdict of
\* the newest run among them.
Signal ==
  LET newest == Max({row[s].verdict.at : s \in Counted})
      states == {row[s].verdict.state : s \in {t \in Counted : row[t].verdict.at = newest}}
  IN IF \/ ~Holds(quorum, Cardinality({row[s].window.colo : s \in Counted}))
        \/ "unknown" \in states
     THEN "unknown"
     ELSE IF "failing" \in states THEN "failing" ELSE "healthy"

-----------------------------------------------------------------------------
ETypeOK ==
  /\ now \in 0 .. Horizon /\ quorum \in Quorums /\ edits \in 0 .. MaxEdits
  /\ \E n \in 0 .. due : due = n * Interval
  /\ due <= now + Interval
  /\ DOMAIN row \subseteq Sites
  /\ \A s \in DOMAIN row :
       LET w == row[s].window
           v == row[s].verdict
       IN /\ w.colo \in Colos[s] /\ w.samples > 0 /\ w.bad <= w.samples
          /\ w.started <= w.last /\ w.last <= v.at
          /\ v.state \in {"unknown", "healthy", "failing"}
          /\ v.at <= v.until /\ v.at <= now

\* Samples taken in data centre c no longer than Window before instant at.
Seen(c, at) == {x \in taken : x.colo = c /\ x.at <= at /\ x.at + Window >= at}

\* A quorum of distinct data centres had been sampled often enough, and
\* recently enough, for a verdict of instant at.
Earned(at) == Holds(quorum, Cardinality(
  {c \in UNION {Colos[s] : s \in Sites} :
     /\ Cardinality(Seen(c, at)) >= MinSamples
     /\ \E x \in Seen(c, at) : x.at + Stale >= at}))

\* No false green and no false red: whatever rows of whatever runs are read
\* together, a signal other than unknown is the verdict of one run, that run is
\* no older than the staleness limit, a quorum had really been sampled for it,
\* and it is the last run unless the proof of the last run has ended
\* (monitor_signals over what evaluate_batch stored).
SignalIsEarned ==
  Signal # "unknown" =>
    \E v \in verdicts :
      /\ v.state = Signal /\ now < v.at + Stale /\ Earned(v.at)
      /\ v = verdict \/ verdict.until <= now

\* What is said of it: "use the newest batch verdict, never an old peer
\* verdict" (reevaluate.rs:370).  The newest verdict may rest on an older
\* sample than the one before it, and end first.
NewestVerdictShown == Signal # "unknown" => Signal = verdict.state
=============================================================================
