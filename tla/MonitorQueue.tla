---------------------------- MODULE MonitorQueue ----------------------------
(* Which of the due monitors a Cron tick gets to: due reads the first of    *)
(* them in the order of next_run_at, and the tick probes them wave by wave  *)
(* until its time is over.  A monitor that cannot be run, or whose runs     *)
(* fail, keeps its next_run_at, and with it its place before all others.    *)
(* What one run does is MonitorRun; here a run completes or fails.          *)
EXTENDS Naturals, Sequences, SequencesExt, FiniteSets

CONSTANTS
  Monitors,
  TargetOf,    \* the target of every monitor
  Unready,     \* no next run (never claimed) or no valid configuration
               \* (claimed and released at once)
  Broken,      \* their runs fail every time
  Limit,       \* SCHEDULER_MONITOR_BATCH_SIZE
  Global,      \* SCHEDULER_GLOBAL_CONCURRENCY
  PerTarget,   \* SCHEDULER_PER_TARGET_CONCURRENCY
  Interval,    \* ticks from a run until the monitor is due again
  LeaseTicks   \* ticks a lease outlives an invocation that was cut off

VARIABLES
  line,     \* due monitors by next_run_at
  rest,     \* ticks until a monitor is due, 0 in line
  lease,    \* ticks until the lease of an earlier invocation ends
  pending,  \* claimed by the invocation under way and not probed yet
  phase     \* "idle", "waves", or "over": its time is

mqvars == <<line, rest, lease, pending, phase>>

\* Every monitor once, in any order.
Lines == SetToSeqs(Monitors)

QInit ==
  /\ line \in Lines
  /\ rest = [m \in Monitors |-> 0] /\ lease = [m \in Monitors |-> 0]
  /\ pending = <<>> /\ phase = "idle"

\* Mutant: the latest first.
LatestFirst(old, new) == new \o old

InLine(old, new) == old \o new

Minus1(f) == [m \in Monitors |-> IF f[m] = 0 THEN 0 ELSE f[m] - 1]

\* Those of S, in the order of s.
Only(s, S) ==
  LET kept[n \in 0 .. Len(s)] ==
        IF n = 0 THEN <<>>
        ELSE IF s[n] \in S THEN Append(kept[n - 1], s[n]) ELSE kept[n - 1]
  IN  kept[Len(s)]

\* The next minute: some come due, in any order, and due and claim_monitor take
\* the first of those nobody holds a lease of.  Claiming leaves time to probe.
Begin ==
  /\ phase = "idle" /\ phase' = "waves"
  /\ rest' = Minus1(rest) /\ lease' = Minus1(lease)
  /\ \E new \in SetToSeqs({m \in Monitors : rest[m] = 1}) :
       line' = InLine(line, new)
  /\ LET free == Only(line', {m \in Monitors : lease'[m] = 0})
         rows == SubSeq(free, 1, IF Len(free) < Limit THEN Len(free) ELSE Limit)
     IN pending' = Only(rows, Monitors \ Unready)

\* The next wave takes what it can in order: PerTarget monitors of one target,
\* Global in all.
InWave ==
  LET fits(k) == Cardinality({j \in 1 .. k - 1 :
                   TargetOf[pending[j]] = TargetOf[pending[k]]}) < PerTarget
      first(k) == Cardinality({j \in 1 .. k - 1 : fits(j)}) < Global
  IN  {pending[k] : k \in {j \in DOMAIN pending : fits(j) /\ first(j)}}

Leave(done) ==
  /\ line' = Only(line, Monitors \ done)
  /\ rest' = [m \in Monitors |-> IF m \in done THEN Interval ELSE rest[m]]

\* The runs of a wave end; those that failed are released.
Wave(done) ==
  /\ phase = "waves" /\ pending # <<>>
  /\ Leave(done)
  /\ pending' = Only(pending, Monitors \ InWave)
  /\ phase' \in {"waves", "over"}
  /\ UNCHANGED lease

\* The deadline drops the invocation: what it still held stays leased.
CutOff(done) ==
  /\ phase = "waves" /\ pending # <<>>
  /\ Leave(done)
  /\ \E ended \in SUBSET (InWave \ done) :
       lease' = [m \in Monitors |-> IF m \in ToSet(pending) \ (done \cup ended)
                                    THEN LeaseTicks ELSE lease[m]]
  /\ pending' = <<>> /\ phase' = "idle"

\* The rest is released.
EndTick ==
  /\ phase = "over" \/ (phase = "waves" /\ pending = <<>>)
  /\ pending' = <<>> /\ phase' = "idle"
  /\ UNCHANGED <<line, rest, lease>>

Runs == SUBSET (InWave \ Broken)
Complete(m) == \E done \in Runs : m \in done /\ (Wave(done) \/ CutOff(done))

QNext == Begin \/ EndTick \/ \E done \in Runs : Wave(done) \/ CutOff(done)

Sound == Monitors \ (Unready \cup Broken)

\* Cron keeps ticking, an invocation comes to its end, and a monitor that is
\* probed again and again is not unlucky every time.
QFairness ==
  /\ WF_mqvars(Begin)
  /\ WF_mqvars(EndTick \/ \E done \in Runs : Wave(done))
  /\ \A m \in Sound : SF_mqvars(Complete(m))

QSpec == QInit /\ [][QNext]_mqvars /\ QFairness

-----------------------------------------------------------------------------
\* Nobody is in line twice or while resting, and what an invocation is about
\* to probe is in line and held by no other.
QTypeOK ==
  /\ line \in Seq(Monitors) /\ IsInjective(line)
  /\ rest \in [Monitors -> 0 .. Interval] /\ lease \in [Monitors -> 0 .. LeaseTicks]
  /\ ToSet(line) = {m \in Monitors : rest[m] = 0}
  /\ pending \in Seq(Monitors) /\ IsInjective(pending)
  /\ ToSet(pending) \subseteq {m \in ToSet(line) \ Unready : lease[m] = 0}
  /\ phase \in {"idle", "waves", "over"} /\ (phase = "idle" => pending = <<>>)

\* Few enough for what a tick looks at and for its first wave.
FewStuck ==
  /\ Cardinality(Unready \cup Broken) < Limit /\ Cardinality(Broken) < Global
  /\ \A m \in Monitors :
       Cardinality({b \in Broken : TargetOf[b] = TargetOf[m]}) < PerTarget

\* No sound monitor is starved: neither by those that are stuck at the head of
\* the line, as long as they are few, nor by ticks whose time is over after one
\* wave, nor by invocations cut off with leases in their hands.
EveryMonitorRuns == FewStuck => \A m \in Sound : []<>(rest[m] > 0)
=============================================================================
