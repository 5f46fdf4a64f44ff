------------------------- MODULE Reevaluation_proofs -------------------------
(***************************************************************************)
(* Theorems about Reevaluation, for every catalogue of services and        *)
(* components, every dependency graph, any number of planners and all      *)
(* periods and bounds; at the end also about what Settling puts beside it: *)
(* the line of MonitorQueue, and the queue of DiagnosticPipeline_proofs.   *)
(*                                                                         *)
(* Of the widths of paths these proofs need no more than their range: a    *)
(* risk is read through the same width each time.                          *)
(***************************************************************************)
EXTENDS Settling, SequenceTheorems, WellFoundedInduction, FiniteSetTheorems, TLAPS

Risks == (Statuses \ {"operational", "maintenance"}) \cup {"none"}
Rows == [direct : Statuses, risk : Risks, effective : Statuses, until : Nat]
Drafts == UNION {[D -> Rows] : D \in SUBSET Targets}
WindowType == {NoWindow} \cup [status : Windows, until : Nat]
ProofType == [healthy : BOOLEAN, until : Nat]
IssueChanges == [what : {"issue"}, on : Targets, issue : Impacts \cup {"none"}]
WindowChanges == [what : {"window"}, on : Targets, window : WindowType]
Changes == {NoChange} \cup IssueChanges \cup WindowChanges

InputTypes ==
  /\ now \in 0 .. MaxTime
  /\ issue \in [Targets -> Impacts \cup {"none"}]
  /\ window \in [Targets -> WindowType]
  /\ proof \in [Targets -> ProofType]

PlannerTypes ==
  /\ pc \in [Planners -> {"idle", "reading", "planned", "late"}]
  /\ kind \in [Planners -> {"work", "probe", "mutation"}]
  /\ target \in [Planners -> Targets]
  /\ change \in [Planners -> Changes]
  /\ draft \in [Planners -> Drafts]
  /\ current \in SUBSET Planners

Types ==
  /\ InputTypes
  /\ row \in [Targets -> Rows] /\ work \in [Targets -> Nat]
  /\ PlannerTypes
  /\ changes \in 0 .. MaxChanges /\ probes \in 0 .. MaxProbes /\ faults \in 0 .. MaxFaults

-----------------------------------------------------------------------------
(* What a row has to do with what it was computed from.                    *)

\* The inputs a planner's batch leaves behind.
Given(p) == IF change[p] = NoChange THEN Facts ELSE Overlaid(change[p])

RiskOf(t, rows) == IF t \in Services THEN ServiceRisk(t, rows) ELSE SupportRisk(t, rows)

Combined(r) == IF Severity(r.risk) > Severity(r.direct) THEN r.risk ELSE r.direct

\* What a row says of its own target, and no longer than it holds.
Own(r, t, in) ==
  /\ r.direct = Direct(t, in)
  /\ r.effective = Combined(r)
  /\ in.proof[t].until > now => r.until <= in.proof[t].until
  /\ \A w \in WindowsOf(t, in) : r.until <= w.until

\* What it says of all other rows it was computed from.
Reads(r, t, rows) ==
  /\ r.risk = RiskOf(t, rows)
  /\ t \in Services => \A u \in Below[t] : r.until <= rows[u].until
  /\ \A u \in Services : <<t, u>> \in Supporting => r.until <= rows[u].until

\* What is left of it while only those rows ask that have to.
Follows(r, t, rows) ==
  /\ t \in Services =>
       /\ \A u \in Heard(t) :
            /\ r.until <= rows[u].until
            /\ Severity(RiskThrough(FreshStatus(rows[u].direct, rows[u].until), Width[t][u]))
                 <= Severity(r.risk)
       /\ Heard(t) = Below[t] => r.risk = ServiceRisk(t, rows)
  /\ t \in Components => r.risk = SupportRisk(t, rows)
  /\ \A u \in Services : <<t, u>> \in Supporting => r.until <= rows[u].until

Coming(p) == Over(draft[p], row)

\* All that a planned change touches is planned with it.
Covered(p) ==
  /\ target[p] \in DOMAIN draft[p]
  /\ change[p] # NoChange =>
       /\ change[p].on \in DOMAIN draft[p]
       /\ change[p].what = "window" =>
            /\ OwnedBy(change[p].on) \subseteq DOMAIN draft[p]
            /\ ~Holds(window[change[p].on])

\* Somebody has been asked to evaluate t, and has not given up.
Asked(t) ==
  \/ work[t] > 0
  \/ \E p \in Planners : pc[p] \in {"reading", "planned"} /\ kind[p] = "work" /\ target[p] = t

StepOf(p) ==
  /\ pc[p] \in {"idle", "reading"} => change[p] = NoChange
  /\ pc[p] \in {"planned", "late"} => target[p] \in DOMAIN draft[p]
  /\ p \in current => pc[p] \in {"planned", "late"} /\ Covered(p)

Steps == \A p \in Planners : StepOf(p)

\* A draft that may still land is right, or has expired.
DraftOf(p) ==
  p \in current => \A t \in DOMAIN draft[p] :
    draft[p][t].until > now =>
      Own(draft[p][t], t, Given(p)) /\ Reads(draft[p][t], t, Coming(p))

DraftsHold == \A p \in Planners : DraftOf(p)

\* A row that nobody was asked to evaluate is right, or has expired.
RowOf(t) ==
  ~Asked(t) /\ row[t].until > now => Own(row[t], t, Facts) /\ Follows(row[t], t, row)

RowsHold == \A t \in Targets : RowOf(t)

Inv == Types /\ Steps /\ DraftsHold /\ RowsHold

-----------------------------------------------------------------------------
(* Least and greatest elements, which Min and Max choose.                  *)

LEMMA LeastExists ==
  ASSUME NEW S \in SUBSET Nat, S # {}
  PROVE  \E x \in S : \A y \in S : x <= y
<1> DEFINE R == {ss \in Nat \X Nat : ss[1] < ss[2]}
<1>1. IsWellFoundedOn(R, Nat)
  BY NatLessThanWellFounded DEF OpToRel
<1> HIDE DEF R
<1>2. PICK x \in S : \A y \in S : <<y, x>> \notin R
  BY <1>1, WFMin
<1>3. \A y \in S : <<y, x>> \notin R => x <= y
  <2> SUFFICES ASSUME NEW y \in S, ~(x <= y) PROVE <<y, x>> \in R
    OBVIOUS
  <2>1. x \in Nat /\ y \in Nat /\ y < x
    BY SMT
  <2> QED BY <2>1 DEF R
<1> QED BY <1>2, <1>3

LEMMA MinIsLeast ==
  ASSUME NEW S \in SUBSET Nat, S # {}
  PROVE  Min(S) \in S /\ \A y \in S : Min(S) <= y
BY LeastExists DEF Min

LEMMA GreatestExists ==
  ASSUME NEW bound \in Nat, NEW S \in SUBSET (0 .. bound), S # {}
  PROVE  \E x \in S : \A y \in S : x >= y
<1> DEFINE T == {bound - y : y \in S}
<1>1. T \in SUBSET Nat /\ T # {}
  <2>1. \A y \in S : bound - y \in Nat
    BY SMT
  <2>2. \E y \in S : bound - y \in T
    OBVIOUS
  <2> QED BY <2>1, <2>2
<1>2. PICK n \in T : \A m \in T : n <= m
  BY <1>1, LeastExists
<1>3. PICK x \in S : n = bound - x
  OBVIOUS
<1>4. ASSUME NEW y \in S
      PROVE  x >= y
  <2>1. bound - x <= bound - y
    BY <1>2, <1>3
  <2> QED BY <2>1, SMT
<1> QED BY <1>4

LEMMA MaxIsGreatest ==
  ASSUME NEW bound \in Nat, NEW S \in SUBSET (0 .. bound), S # {}
  PROVE  Max(S) \in S /\ \A y \in S : Max(S) >= y
BY GreatestExists DEF Max

-----------------------------------------------------------------------------
(* Statuses and the risks they make.                                       *)

\* What a dependency may mean for its caller.
Reached == {"operational", "unknown"} \cup Failures

LEMMA SeverityRange == \A status : Severity(status) \in 0 .. 5
BY DEF Severity

\* The rank of a failure is the order of its severity.
LEMMA RankRange ==
  \A r \in Reached \ {"unknown"} :
    FailureRank(r) \in 0 .. 3 /\ FromFailureRank(FailureRank(r)) = r
BY DEF Reached, Failures, FailureRank, FromFailureRank

LEMMA RankSeverity ==
  /\ \A n \in 0 .. 3 : FromFailureRank(n) \in Reached \ {"unknown"}
  /\ \A n \in 0 .. 3, m \in 0 .. 3 :
       m <= n => Severity(FromFailureRank(m)) <= Severity(FromFailureRank(n))
  /\ \A n \in 1 .. 3 : Severity("unknown") <= Severity(FromFailureRank(n))
<1>1. /\ FromFailureRank(0) = "operational" /\ FromFailureRank(1) = "degraded"
      /\ FromFailureRank(2) = "partial_outage" /\ FromFailureRank(3) = "major_outage"
  BY DEF FromFailureRank
<1>2. /\ Severity("operational") = 0 /\ Severity("unknown") = 2 /\ Severity("degraded") = 3
      /\ Severity("partial_outage") = 4 /\ Severity("major_outage") = 5
  BY DEF Severity
<1> QED BY <1>1, <1>2 DEF Reached, Failures

LEMMA RiskThroughRange == \A status, cap : RiskThrough(status, cap) \in Reached
BY DEF RiskThrough, FromFailureRank, Reached, Failures

\* The strongest of a set of risks is one of the kind, and none is stronger.
LEMMA StrongestIsStrongest ==
  ASSUME NEW risks \in SUBSET Reached
  PROVE  /\ StrongestRisk(risks) \in Reached
         /\ \A r \in risks : Severity(r) <= Severity(StrongestRisk(risks))
<1> DEFINE ranks == {0} \cup {FailureRank(r) : r \in risks \ {"unknown"}}
           worst == Max(ranks)
<1>1. ranks \in SUBSET (0 .. 3) /\ ranks # {}
  BY RankRange
<1>2. worst \in 0 .. 3 /\ \A n \in ranks : n <= worst
  <2>1. Max(ranks) \in ranks /\ \A n \in ranks : Max(ranks) >= n
    <3> HIDE DEF ranks
    <3> QED BY <1>1, MaxIsGreatest
  <2>2. \A n \in ranks : n \in 0 .. 3
    BY <1>1
  <2> HIDE DEF ranks
  <2> QED BY <2>1, <2>2
<1>3. StrongestRisk(risks) =
        IF worst = 0 /\ "unknown" \in risks THEN "unknown" ELSE FromFailureRank(worst)
  BY DEF StrongestRisk
<1>4. \A r \in risks \ {"unknown"} : FailureRank(r) \in ranks
  OBVIOUS
<1> HIDE DEF worst, ranks
<1>5. StrongestRisk(risks) \in Reached
  BY <1>2, <1>3, RankSeverity DEF Reached
<1>6. ASSUME NEW r \in risks
      PROVE  Severity(r) <= Severity(StrongestRisk(risks))
  <2>1. CASE r = "unknown" /\ worst = 0
    BY <1>3, <2>1, SeverityRange
  <2>2. CASE r = "unknown" /\ worst # 0
    BY <1>2, <1>3, <2>2, RankSeverity
  <2>3. CASE r # "unknown"
    <3>1. FailureRank(r) \in 0 .. 3 /\ FailureRank(r) <= worst
          /\ FromFailureRank(FailureRank(r)) = r
      BY <1>2, <1>4, <2>3, RankRange
    <3>2. Severity(r) <= Severity(FromFailureRank(worst))
      BY <1>2, <3>1, RankSeverity
    <3>3. CASE worst = 0 /\ "unknown" \in risks
      <4>1. r = "operational"
        BY <3>1, <3>3 DEF FromFailureRank
      <4> QED BY <1>3, <3>3, <4>1 DEF Severity
    <3> QED BY <1>3, <3>2, <3>3
  <2> QED BY <2>1, <2>2, <2>3
<1> QED BY <1>5, <1>6

-----------------------------------------------------------------------------
(* How wide a path is: a recursive function, which exists by induction.    *)

LEMMA NatSetInduction ==
  ASSUME NEW S, 0 \in S, \A n \in Nat : n \in S => n + 1 \in S
  PROVE  Nat \subseteq S
<1> SUFFICES ASSUME ~(Nat \subseteq S) PROVE FALSE
  OBVIOUS
<1>1. PICK n \in Nat \ S : \A m \in Nat \ S : n <= m
  BY LeastExists
<1>2. n # 0 /\ n - 1 \in Nat /\ n = (n - 1) + 1
  BY SMT
<1>3. n - 1 \notin S
  BY <1>2
<1> QED BY <1>1, <1>2, <1>3

NoStep == [s \in Services |-> [t \in Services |-> IF t = s THEN 3 ELSE 0]]

OneStepMore(w) ==
  [s \in Services |-> [t \in Services |->
     Max({w[s][t]} \cup
         {Smaller(w[s][d.source], d.impact) : d \in {e \in Dependencies : e.target = t}})]]

StepsUpTo(w, bound) ==
  w = [n \in 0 .. bound |-> IF n = 0 THEN NoStep ELSE OneStepMore(w[n - 1])]

LEMMA WidthExists == \A bound \in Nat : \E w : StepsUpTo(w, bound)
<1> DEFINE S == {bound \in Nat : \E w : StepsUpTo(w, bound)}
<1>1. 0 \in S
  <2>1. StepsUpTo([n \in 0 .. 0 |-> NoStep], 0)
    BY DEF StepsUpTo
  <2> QED BY <2>1
<1>2. ASSUME NEW bound \in Nat, bound \in S
      PROVE  bound + 1 \in S
  <2>1. PICK w : StepsUpTo(w, bound)
    BY <1>2
  <2> DEFINE longer == [n \in 0 .. bound + 1 |->
                          IF n = bound + 1 THEN OneStepMore(w[bound]) ELSE w[n]]
  <2>2. ASSUME NEW n \in 0 .. bound + 1
        PROVE  longer[n] = IF n = 0 THEN NoStep ELSE OneStepMore(longer[n - 1])
    <3>1. CASE n = bound + 1
      BY <3>1
    <3>2. CASE n # bound + 1
      <4>1. n \in 0 .. bound /\ longer[n] = w[n] /\ (n # 0 => longer[n - 1] = w[n - 1])
        BY <3>2
      <4> QED BY <2>1, <4>1 DEF StepsUpTo
    <3> QED BY <3>1, <3>2
  <2>3. StepsUpTo(longer, bound + 1)
    BY <2>2 DEF StepsUpTo
  <2> QED BY <2>3
<1> HIDE DEF S
<1>3. Nat \subseteq S
  BY <1>1, <1>2, NatSetInduction
<1> QED BY <1>3 DEF S

LEMMA WidthRange == Width \in [Services -> [Services -> 0 .. 3]]
<1> DEFINE N == Cardinality(Services)
           OfSteps(w) == [n \in 0 .. N |->
             [s \in Services |-> [t \in Services |->
               IF n = 0 THEN IF t = s THEN 3 ELSE 0
               ELSE Max({w[n-1][s][t]} \cup
                        {Smaller(w[n-1][s][d.source], d.impact) :
                           d \in {e \in Dependencies : e.target = t}})]]]
           width == CHOOSE w : w = OfSteps(w)
<1>1. Width = width[N]
  BY DEF Width
<1>2. N \in Nat
  BY CatalogAssumption, FS_CardinalityType
<1>3. \A w : StepsUpTo(w, N) <=> w = OfSteps(w)
  <2> TAKE w
  <2>1. \A n \in 0 .. N : OfSteps(w)[n] = IF n = 0 THEN NoStep ELSE OneStepMore(w[n - 1])
    BY DEF NoStep, OneStepMore
  <2>2. OfSteps(w) = [n \in 0 .. N |-> IF n = 0 THEN NoStep ELSE OneStepMore(w[n - 1])]
    BY <2>1
  <2> HIDE DEF OfSteps
  <2> QED BY <2>2 DEF StepsUpTo
<1> HIDE DEF OfSteps
<1>4. StepsUpTo(width, N)
  <2>1. \E w : w = OfSteps(w)
    BY <1>2, <1>3, WidthExists
  <2> QED BY <1>3, <2>1
<1> HIDE DEF width, N
<1> DEFINE Wide == [Services -> [Services -> 0 .. 3]]
           S == {n \in Nat : n <= N => width[n] \in Wide}
<1>5. 0 \in S
  BY <1>2, <1>4 DEF StepsUpTo, NoStep
<1>6. ASSUME NEW w \in Wide
      PROVE  OneStepMore(w) \in Wide
  <2>1. ASSUME NEW s \in Services, NEW t \in Services
        PROVE  OneStepMore(w)[s][t] \in 0 .. 3
    <3> DEFINE widths == {w[s][t]} \cup
          {Smaller(w[s][d.source], d.impact) : d \in {e \in Dependencies : e.target = t}}
    <3>1. widths \in SUBSET (0 .. 3) /\ widths # {}
      <4>1. \A d \in Dependencies : d.source \in Services /\ d.impact \in 1 .. 3
        BY CatalogAssumption
      <4>2. \A x \in Services : w[s][x] \in 0 .. 3
        OBVIOUS
      <4>3. \A x \in 0 .. 3, y \in 1 .. 3 : Smaller(x, y) \in 0 .. 3
        BY DEF Smaller
      <4> QED BY <4>1, <4>2, <4>3
    <3>2. OneStepMore(w)[s][t] = Max(widths)
      BY DEF OneStepMore
    <3> HIDE DEF widths
    <3>3. Max(widths) \in widths
      BY <3>1, MaxIsGreatest
    <3> QED BY <3>1, <3>2, <3>3
  <2> QED BY <2>1 DEF OneStepMore
<1>7. ASSUME NEW n \in Nat, n \in S
      PROVE  n + 1 \in S
  <2> SUFFICES ASSUME n + 1 <= N PROVE width[n + 1] \in Wide
    OBVIOUS
  <2>1. width[n] \in Wide /\ n + 1 \in 0 .. N /\ n + 1 # 0 /\ (n + 1) - 1 = n
    BY <1>2, <1>7
  <2>2. width[n + 1] = OneStepMore(width[n])
    BY <1>4, <2>1 DEF StepsUpTo
  <2> HIDE DEF Wide
  <2> QED BY <1>6, <2>1, <2>2
<1> HIDE DEF S
<1>8. Nat \subseteq S
  BY <1>5, <1>7, NatSetInduction
<1> QED BY <1>1, <1>2, <1>8 DEF S

-----------------------------------------------------------------------------
(* Fresh statuses and the risks of services and components.                *)

LEMMA FreshRange ==
  ASSUME NEW status \in Statuses, NEW until
  PROVE  FreshStatus(status, until) \in Statuses
BY DEF FreshStatus, Statuses

\* The risk of a service is no weaker than what any service below it means.
LEMMA ServiceRiskCovers ==
  ASSUME NEW s \in Services, NEW rows
  PROVE  /\ ServiceRisk(s, rows) \in Risks
         /\ \A u \in Below[s] :
              Severity(RiskThrough(FreshStatus(rows[u].direct, rows[u].until), Width[s][u]))
                <= Severity(ServiceRisk(s, rows))
<1> DEFINE through(u) == RiskThrough(FreshStatus(rows[u].direct, rows[u].until), Width[s][u])
           risks == {through(u) : u \in Below[s]}
<1>1. risks \in SUBSET Reached
  BY RiskThroughRange
<1>2. /\ StrongestRisk(risks) \in Reached
      /\ \A r \in risks : Severity(r) <= Severity(StrongestRisk(risks))
  <2> HIDE DEF risks
  <2> QED BY <1>1, StrongestIsStrongest
<1>3. ServiceRisk(s, rows) =
        IF StrongestRisk(risks) = "operational" THEN "none" ELSE StrongestRisk(risks)
  BY DEF ServiceRisk
<1>4. \A u \in Below[s] : through(u) \in risks
  OBVIOUS
<1>5. Severity("none") = Severity("operational")
  BY DEF Severity
<1> HIDE DEF risks, through
<1>6. ServiceRisk(s, rows) \in Risks
  BY <1>2, <1>3 DEF Risks, Reached, Statuses, Failures
<1>7. \A u \in Below[s] : Severity(through(u)) <= Severity(ServiceRisk(s, rows))
  BY <1>2, <1>3, <1>4, <1>5
<1> QED
  BY <1>6, <1>7 DEF through

\* What a supporting service in one status means for a component.
SupportMeans(status) ==
  IF status = "maintenance" THEN "degraded"
  ELSE IF status = "operational" THEN "none" ELSE status

SupportRisks(c, rows) ==
  {"none"} \cup {SupportMeans(FreshStatus(rows[s].effective, rows[s].until)) :
                   s \in {x \in Services : <<c, x>> \in Supporting}}

LEMMA SupportRiskIs ==
  \A c, rows : SupportRisk(c, rows) =
    CHOOSE r \in SupportRisks(c, rows) :
      \A q \in SupportRisks(c, rows) : Severity(q) <= Severity(r)
BY DEF SupportRisk, SupportRisks, SupportMeans

LEMMA SupportRiskRange ==
  ASSUME NEW c, NEW rows, \A s \in Services : rows[s].effective \in Statuses
  PROVE  SupportRisk(c, rows) \in Risks
<1> DEFINE risks == SupportRisks(c, rows)
           ranks == {Severity(r) : r \in risks}
<1>1. \A r \in risks : r \in Risks
  <2>1. \A status \in Statuses : SupportMeans(status) \in Risks
    BY DEF SupportMeans, Statuses, Failures, Risks
  <2> QED BY <2>1, FreshRange DEF SupportRisks, Risks
<1>2. ranks \in SUBSET (0 .. 5)
  BY SeverityRange
<1>3. "none" \in risks
  BY DEF SupportRisks
<1>4. PICK n \in ranks : \A m \in ranks : n >= m
  <2>1. ranks # {}
    BY <1>3
  <2> HIDE DEF ranks
  <2> QED BY <1>2, <2>1, GreatestExists
<1>5. PICK r \in risks : n = Severity(r)
  OBVIOUS
<1>6. \A q \in risks : Severity(q) <= Severity(r)
  BY <1>2, <1>4, <1>5
<1>7. SupportRisk(c, rows) \in risks
  BY <1>6, SupportRiskIs
<1> QED BY <1>1, <1>7

-----------------------------------------------------------------------------
(* The evaluation of one target.                                           *)

InputsOK(in) ==
  /\ in.issue \in [Targets -> Impacts \cup {"none"}]
  /\ in.window \in [Targets -> WindowType]
  /\ in.proof \in [Targets -> ProofType]

RowsOK(rows) == \A x \in Targets : rows[x] \in Rows

LEMMA RowFields ==
  ASSUME NEW r \in Rows
  PROVE  /\ r.direct \in Statuses /\ r.risk \in Risks
         /\ r.effective \in Statuses /\ r.until \in Nat
BY DEF Rows

LEMMA HeldWindow ==
  ASSUME NEW in, InputsOK(in), NEW t \in Targets, now \in Nat, NEW w \in WindowsOf(t, in)
  PROVE  w.status \in Windows /\ w.until \in Nat /\ w.until > now
<1>1. w \in WindowType /\ Holds(w)
  <2>1. CASE w = in.window[t]
    BY <2>1 DEF InputsOK, WindowsOf
  <2>2. CASE t \in Components /\ w = in.window[Owner[t]]
    <3>1. Owner[t] \in Targets
      BY <2>2, CatalogAssumption DEF Targets
    <3> QED BY <2>2, <3>1 DEF InputsOK, WindowsOf
  <2> QED BY <2>1, <2>2 DEF WindowsOf
<1>2. ~Holds(NoWindow)
  BY DEF Holds, NoWindow
<1> QED
  BY <1>1, <1>2 DEF WindowType, Holds

LEMMA DirectRange ==
  ASSUME NEW in, InputsOK(in), NEW t \in Targets, now \in Nat
  PROVE  Direct(t, in) \in Statuses
<1> DEFINE windows == {w.status : w \in WindowsOf(t, in)}
           others == windows \ {"maintenance"}
<1>1. windows \subseteq Statuses
  BY HeldWindow, ReevaluationBoundAssumption
<1>2. in.issue[t] \in Failures \cup {"none"}
  BY ReevaluationBoundAssumption DEF InputsOK
<1>3. Direct(t, in) =
        IF windows # {} /\ windows # {"maintenance"} THEN CHOOSE status \in others : TRUE
        ELSE IF windows # {} THEN "maintenance"
        ELSE IF in.issue[t] # "none" THEN in.issue[t]
        ELSE IF in.proof[t].until > now /\ in.proof[t].healthy THEN "operational" ELSE "unknown"
  BY DEF Direct
<1> HIDE DEF windows
<1>4. CASE windows # {} /\ windows # {"maintenance"}
  <2>1. others # {}
    BY <1>4
  <2>2. (CHOOSE status \in others : TRUE) \in others
    BY <2>1
  <2> QED BY <1>1, <1>3, <1>4, <2>2
<1> QED BY <1>2, <1>3, <1>4 DEF Statuses

Deadlines(t, in, rows, extra) ==
  {u \in {in.proof[t].until, rows[t].until} : u > now}
  \cup {w.until : w \in WindowsOf(t, in)}
  \cup {rows[s].until : s \in {x \in Services : <<t, x>> \in Supporting}}
  \cup extra

LEMMA OwnDeadlineRange ==
  ASSUME NEW in, InputsOK(in), NEW t \in Targets, now \in Nat,
         NEW rows, RowsOK(rows), NEW extra \in SUBSET Nat
  PROVE  /\ OwnDeadline(t, in, rows, extra) \in Nat
         /\ \A u \in Deadlines(t, in, rows, extra) : OwnDeadline(t, in, rows, extra) <= u
<1> DEFINE deadlines == Deadlines(t, in, rows, extra)
<1>1. deadlines \in SUBSET Nat
  <2>1. in.proof[t].until \in Nat /\ rows[t].until \in Nat
    <3>1. in.proof[t] \in ProofType
      BY DEF InputsOK
    <3>2. rows[t] \in Rows
      BY DEF RowsOK
    <3> QED BY <3>1, <3>2 DEF ProofType, Rows
  <2>2. \A w \in WindowsOf(t, in) : w.until \in Nat
    BY HeldWindow
  <2>3. \A s \in Services : rows[s].until \in Nat
    BY RowFields DEF RowsOK, Targets
  <2> QED BY <2>1, <2>2, <2>3 DEF Deadlines
<1>2. OwnDeadline(t, in, rows, extra) = IF deadlines = {} THEN now ELSE Min(deadlines)
  BY DEF OwnDeadline, Deadlines
<1> HIDE DEF deadlines
<1>3. CASE deadlines # {}
  <2>1. Min(deadlines) \in deadlines /\ \A u \in deadlines : Min(deadlines) <= u
    BY <1>1, <1>3, MinIsLeast
  <2> QED BY <1>1, <1>2, <1>3, <2>1 DEF deadlines
<1>4. CASE deadlines = {}
  BY <1>2, <1>4 DEF deadlines
<1> QED BY <1>3, <1>4

LEMMA ServiceDeadlineRange ==
  ASSUME NEW s \in Services, NEW own \in Nat, NEW rows, RowsOK(rows)
  PROVE  /\ ServiceDeadline(s, own, rows) \in Nat
         /\ ServiceDeadline(s, own, rows) <= own
         /\ \A u \in Below[s] : ServiceDeadline(s, own, rows) <= rows[u].until
<1> DEFINE deadlines == {own} \cup {rows[u].until : u \in Below[s]}
<1>1. deadlines \in SUBSET Nat /\ own \in deadlines
  <2>1. Below[s] \subseteq Services
    BY DEF Below
  <2>2. \A u \in Services : rows[u].until \in Nat
    BY RowFields DEF RowsOK, Targets
  <2> QED BY <2>1, <2>2
<1>2. ServiceDeadline(s, own, rows) = Min(deadlines)
  BY DEF ServiceDeadline
<1>3. \A u \in Below[s] : rows[u].until \in deadlines
  OBVIOUS
<1> HIDE DEF deadlines
<1>4. Min(deadlines) \in deadlines /\ \A u \in deadlines : Min(deadlines) <= u
  <2>1. deadlines # {}
    BY <1>1
  <2> QED BY <1>1, <2>1, MinIsLeast
<1> QED BY <1>1, <1>2, <1>3, <1>4

LEMMA CombinedRange ==
  ASSUME NEW r, r.direct \in Statuses, r.risk \in Risks
  PROVE  Combined(r) \in Statuses
<1>1. Severity("none") = 0
  BY DEF Severity
<1> QED BY <1>1, SeverityRange DEF Combined, Risks

\* An evaluation is right at the moment it is made, and over no later than
\* anything that it read.
LEMMA EvaluateHolds ==
  ASSUME NEW in, InputsOK(in), NEW t \in Targets, now \in Nat,
         NEW rows, RowsOK(rows), NEW extra \in SUBSET Nat
  PROVE  /\ Evaluate(t, in, rows, extra) \in Rows
         /\ Own(Evaluate(t, in, rows, extra), t, in)
         /\ Reads(Evaluate(t, in, rows, extra), t, rows)
<1> DEFINE own == OwnDeadline(t, in, rows, extra)
           until == IF t \in Services THEN ServiceDeadline(t, own, rows) ELSE own
           r == Evaluate(t, in, rows, extra)
<1>1. r = [direct |-> Direct(t, in), risk |-> RiskOf(t, rows),
           effective |-> IF Severity(RiskOf(t, rows)) > Severity(Direct(t, in))
                         THEN RiskOf(t, rows) ELSE Direct(t, in),
           until |-> until]
  BY DEF Evaluate, RiskOf
<1>2. /\ r.direct = Direct(t, in) /\ r.risk = RiskOf(t, rows) /\ r.until = until
      /\ r.effective = Combined(r)
  BY <1>1 DEF Combined
<1>3. r = [direct |-> r.direct, risk |-> r.risk, effective |-> r.effective, until |-> r.until]
  BY <1>1, Zenon
<1>4. own \in Nat /\ \A u \in Deadlines(t, in, rows, extra) : own <= u
  BY OwnDeadlineRange
<1>5. /\ until \in Nat /\ until <= own
      /\ t \in Services => \A u \in Below[t] : until <= rows[u].until
  <2>1. CASE t \in Services
    BY <1>4, <2>1, ServiceDeadlineRange
  <2>2. CASE t \notin Services
    BY <1>4, <2>2
  <2> QED BY <2>1, <2>2
<1> HIDE DEF own, until, r
<1>6. r.risk \in Risks
  <2>1. CASE t \in Services
    BY <1>2, <2>1, ServiceRiskCovers DEF RiskOf
  <2>2. CASE t \notin Services
    <3>1. \A s \in Services : rows[s].effective \in Statuses
      BY RowFields DEF RowsOK, Targets
    <3> QED BY <1>2, <2>2, <3>1, SupportRiskRange DEF RiskOf
  <2> QED BY <2>1, <2>2
<1>7. r.direct \in Statuses
  BY <1>2, DirectRange
<1>8. r \in Rows
  <2>1. r.effective \in Statuses
    BY <1>2, <1>6, <1>7, CombinedRange
  <2>2. r.until \in Nat
    BY <1>2, <1>5
  <2> QED BY <1>3, <1>6, <1>7, <2>1, <2>2, Zenon DEF Rows
<1>9. \A u \in Deadlines(t, in, rows, extra) : u \in Nat => r.until <= u
  BY <1>2, <1>4, <1>5
<1>10. Own(r, t, in)
  <2>1. in.proof[t].until \in Nat
    <3>1. in.proof[t] \in ProofType
      BY DEF InputsOK
    <3> QED BY <3>1 DEF ProofType
  <2>2. in.proof[t].until > now => r.until <= in.proof[t].until
    BY <1>9, <2>1 DEF Deadlines
  <2>3. \A w \in WindowsOf(t, in) : r.until <= w.until
    BY <1>9, HeldWindow DEF Deadlines
  <2> QED BY <1>2, <2>2, <2>3 DEF Own
<1>11. Reads(r, t, rows)
  <2>1. \A u \in Services : <<t, u>> \in Supporting => r.until <= rows[u].until
    <3>1. \A u \in Services : rows[u].until \in Nat
      BY RowFields DEF RowsOK, Targets
    <3> QED BY <1>9, <3>1 DEF Deadlines
  <2> QED BY <1>2, <1>5, <2>1 DEF Reads
<1> QED BY <1>8, <1>10, <1>11 DEF r

-----------------------------------------------------------------------------
(* What time and the steps of others leave of a row: it stays right until  *)
(* it expires, as long as all that it depends on stays the same.           *)

\* Time stands still or goes on, and r has not expired.
StillFresh(r) == now \in Nat /\ now' \in {now, now + 1} /\ r.until \in Nat /\ r.until > now'

Alike(one, other) ==
  one.direct = other.direct /\ one.effective = other.effective /\ one.until = other.until

\* Where a target's windows come from.
WindowSources(t) == {t} \cup {Owner[c] : c \in Components \cap {t}}

LEMMA SourcesAreTargets == \A t \in Targets : WindowSources(t) \subseteq Targets
BY CatalogAssumption DEF WindowSources, Targets

LEMMA FreshLasts ==
  ASSUME NEW status, NEW until \in Nat, now \in Nat, now' \in {now, now + 1},
         now' = now \/ until > now'
  PROVE  FreshStatus(status, until)' = FreshStatus(status, until)
<1>1. CASE now' = now
  BY <1>1 DEF FreshStatus
<1>2. CASE until > now'
  <2>1. until > now
    BY <1>2
  <2> QED BY <1>2, <2>1 DEF FreshStatus
<1> QED BY <1>1, <1>2

\* What is read of one row reads the same in the next state.
Kept(one, other) ==
  other.until \in Nat /\ Alike(one, other) /\ (now' = now \/ other.until > now')

LEMMA ServiceRiskLasts ==
  ASSUME NEW s \in Services, NEW rows, NEW rows2, now \in Nat, now' \in {now, now + 1},
         \A u \in Below[s] : Kept(rows2[u], rows[u])
  PROVE  ServiceRisk(s, rows2)' = ServiceRisk(s, rows)
<1> DEFINE through(u, rs) == RiskThrough(FreshStatus(rs[u].direct, rs[u].until), Width[s][u])
<1>1. \A u \in Below[s] :
        FreshStatus(rows2[u].direct, rows2[u].until)'
          = FreshStatus(rows[u].direct, rows[u].until)
  <2> TAKE u \in Below[s]
  <2>1. PICK status, until : status = rows[u].direct /\ until = rows[u].until
    OBVIOUS
  <2>2. FreshStatus(status, until)' = FreshStatus(status, until)
    BY <2>1, FreshLasts DEF Kept
  <2>3. rows2[u].direct = status /\ rows2[u].until = until
    BY <2>1 DEF Kept, Alike
  <2> QED BY <2>1, <2>2, <2>3
<1>2. {RiskThrough(FreshStatus(rows2[u].direct, rows2[u].until)', Width[s][u]) : u \in Below[s]}
        = {through(u, rows) : u \in Below[s]}
  BY <1>1
<1> QED BY <1>2 DEF ServiceRisk

LEMMA SupportRiskLasts ==
  ASSUME NEW c \in Components, NEW rows, NEW rows2, now \in Nat, now' \in {now, now + 1},
         \A u \in Services : <<c, u>> \in Supporting => Kept(rows2[u], rows[u])
  PROVE  SupportRisk(c, rows2)' = SupportRisk(c, rows)
<1>1. \A u \in {x \in Services : <<c, x>> \in Supporting} :
        FreshStatus(rows2[u].effective, rows2[u].until)'
          = FreshStatus(rows[u].effective, rows[u].until)
  <2> TAKE u \in {x \in Services : <<c, x>> \in Supporting}
  <2>1. PICK status, until : status = rows[u].effective /\ until = rows[u].until
    OBVIOUS
  <2>2. FreshStatus(status, until)' = FreshStatus(status, until)
    BY <2>1, FreshLasts DEF Kept
  <2>3. rows2[u].effective = status /\ rows2[u].until = until
    BY <2>1 DEF Kept, Alike
  <2> QED BY <2>1, <2>2, <2>3
<1>2. SupportRisks(c, rows2)' = SupportRisks(c, rows)
  BY <1>1 DEF SupportRisks
<1> QED BY <1>2, SupportRiskIs DEF SupportRisk, SupportRisks, SupportMeans

LEMMA WindowsLast ==
  ASSUME NEW t \in Targets, NEW in, NEW in2, InputsOK(in), now \in Nat, now' \in {now, now + 1},
         \A x \in WindowSources(t) :
           in2.window[x] = in.window[x] \/ (in2.window[x] = NoWindow /\ ~Holds(in.window[x])),
         \A w \in WindowsOf(t, in) : w.until > now'
  PROVE  WindowsOf(t, in2)' = WindowsOf(t, in)
<1>1. ASSUME NEW x \in WindowSources(t)
      PROVE  /\ Holds(in2.window[x])' => in2.window[x] = in.window[x] /\ Holds(in.window[x])
             /\ Holds(in.window[x]) => in2.window[x] = in.window[x]
  <2>1. in.window[x] \in WindowType
    BY SourcesAreTargets DEF InputsOK
  <2>2. in.window[x].until \in Nat
    BY <2>1 DEF WindowType, NoWindow
  <2>3. ~Holds(NoWindow)'
    BY DEF Holds, NoWindow
  <2> QED BY <2>2, <2>3 DEF Holds
<1>2. ASSUME NEW x \in WindowSources(t), in.window[x] \in WindowsOf(t, in)
      PROVE  Holds(in.window[x])'
  BY <1>2 DEF Holds
<1>3. t \in WindowSources(t) /\ \A c \in Components \cap {t} : Owner[c] \in WindowSources(t)
  BY DEF WindowSources
<1>4. ASSUME NEW w \in WindowsOf(t, in2)'
      PROVE  w \in WindowsOf(t, in)
  <2>1. CASE w = in2.window[t] /\ Holds(w)'
    BY <1>1, <1>3, <2>1 DEF WindowsOf
  <2>2. CASE /\ w \in {in2.window[Owner[c]] : c \in Components \cap {t}}
             /\ Holds(w)' /\ w.status = "maintenance"
    BY <1>1, <1>3, <2>2 DEF WindowsOf
  <2> QED BY <2>1, <2>2 DEF WindowsOf
<1>5. ASSUME NEW w \in WindowsOf(t, in)
      PROVE  w \in WindowsOf(t, in2)'
  <2>1. Holds(w)'
    BY DEF Holds
  <2>2. CASE w = in.window[t] /\ Holds(w)
    BY <1>1, <1>3, <2>1, <2>2 DEF WindowsOf
  <2>3. CASE /\ w \in {in.window[Owner[c]] : c \in Components \cap {t}}
             /\ Holds(w) /\ w.status = "maintenance"
    BY <1>1, <1>3, <2>1, <2>3 DEF WindowsOf
  <2> QED BY <2>2, <2>3 DEF WindowsOf
<1> QED BY <1>4, <1>5

LEMMA OwnLasts ==
  ASSUME NEW r, NEW t \in Targets, NEW in, NEW in2, InputsOK(in), StillFresh(r),
         in2.issue[t] = in.issue[t], in2.proof[t] = in.proof[t],
         \A x \in WindowSources(t) :
           in2.window[x] = in.window[x] \/ (in2.window[x] = NoWindow /\ ~Holds(in.window[x])),
         Own(r, t, in)
  PROVE  Own(r, t, in2)'
<1>1. \A w \in WindowsOf(t, in) : w.until > now'
  BY HeldWindow DEF Own, StillFresh
<1>2. WindowsOf(t, in2)' = WindowsOf(t, in)
  BY <1>1, WindowsLast DEF StillFresh
<1>3. in.proof[t].until \in Nat
  <2>1. in.proof[t] \in ProofType
    BY DEF InputsOK
  <2> QED BY <2>1 DEF ProofType
<1>4. in2.proof[t].until > now' <=> in.proof[t].until > now
  BY <1>3 DEF Own, StillFresh
<1>5. Direct(t, in2)' = Direct(t, in)
  BY <1>2, <1>4 DEF Direct
<1> QED BY <1>2, <1>3, <1>4, <1>5 DEF Own, Combined

LEMMA ReadsLasts ==
  ASSUME NEW r, NEW t \in Targets, NEW rows, NEW rows2, StillFresh(r), RowsOK(rows),
         \A u \in Services \ {t} : Alike(rows2[u], rows[u]),
         Reads(r, t, rows)
  PROVE  Reads(r, t, rows2)'
<1>1. \A u \in Services : rows[u].until \in Nat
  BY RowFields DEF RowsOK, Targets
<1>2. CASE t \in Services
  <2>1. Below[t] \subseteq Services \ {t}
    BY <1>2 DEF Below
  <2>2. \A u \in Below[t] : r.until <= rows[u].until
    BY <1>2 DEF Reads
  <2>3. ServiceRisk(t, rows2)' = ServiceRisk(t, rows)
    <3>1. \A u \in Below[t] : Kept(rows2[u], rows[u])
      BY <1>1, <2>1, <2>2 DEF StillFresh, Kept
    <3>2. now \in Nat /\ now' \in {now, now + 1}
      BY DEF StillFresh
    <3> QED BY <1>2, <3>1, <3>2, ServiceRiskLasts
  <2>4. \A u \in Services : <<t, u>> \notin Supporting
    BY <1>2, CatalogAssumption
  <2> QED BY <1>2, <2>1, <2>2, <2>3, <2>4 DEF Reads, RiskOf, Alike
<1>3. CASE t \notin Services
  <2>1. t \in Components
    BY <1>3 DEF Targets
  <2>2. SupportRisk(t, rows2)' = SupportRisk(t, rows)
    <3>1. \A u \in Services : <<t, u>> \in Supporting => Kept(rows2[u], rows[u])
      BY <1>1, <1>3 DEF StillFresh, Reads, Kept
    <3>2. now \in Nat /\ now' \in {now, now + 1}
      BY DEF StillFresh
    <3> QED BY <2>1, <3>1, <3>2, SupportRiskLasts
  <2> QED BY <1>3, <2>2 DEF Reads, RiskOf, Alike
<1> QED BY <1>2, <1>3

LEMMA FollowsLasts ==
  ASSUME NEW r, NEW t \in Targets, NEW rows, NEW rows2, StillFresh(r), RowsOK(rows),
         \A u \in Services : t \in Dependents(u) => Alike(rows2[u], rows[u]),
         Follows(r, t, rows)
  PROVE  Follows(r, t, rows2)'
<1>1. \A u \in Services : rows[u].until \in Nat
  BY RowFields DEF RowsOK, Targets
<1>2. CASE t \in Services
  <2>1. Heard(t) \subseteq Services /\ \A u \in Heard(t) : Alike(rows2[u], rows[u])
    BY <1>2 DEF Heard, Below
  <2>2. \A u \in Heard(t) : r.until <= rows[u].until
    BY <1>2 DEF Follows
  <2>3. ASSUME NEW u \in Heard(t)
        PROVE  FreshStatus(rows2[u].direct, rows2[u].until)'
                 = FreshStatus(rows[u].direct, rows[u].until)
    <3>1. PICK status, until : status = rows[u].direct /\ until = rows[u].until
      OBVIOUS
    <3>2. until \in Nat /\ until > now'
      BY <1>1, <2>1, <2>2, <3>1 DEF StillFresh
    <3>3. FreshStatus(status, until)' = FreshStatus(status, until)
      BY <3>1, <3>2, FreshLasts DEF StillFresh
    <3>4. rows2[u].direct = status /\ rows2[u].until = until
      BY <2>1, <3>1 DEF Alike
    <3> QED BY <3>1, <3>3, <3>4
  <2>4. Heard(t) = Below[t] => ServiceRisk(t, rows2)' = ServiceRisk(t, rows)
    <3> SUFFICES ASSUME Heard(t) = Below[t] PROVE ServiceRisk(t, rows2)' = ServiceRisk(t, rows)
      OBVIOUS
    <3>1. \A u \in Below[t] : Kept(rows2[u], rows[u])
      BY <1>1, <2>1, <2>2 DEF StillFresh, Kept
    <3>2. now \in Nat /\ now' \in {now, now + 1}
      BY DEF StillFresh
    <3> QED BY <1>2, <3>1, <3>2, ServiceRiskLasts
  <2>5. \A u \in Services : <<t, u>> \notin Supporting
    BY <1>2, CatalogAssumption
  <2>6. t \notin Components
    BY <1>2, CatalogAssumption
  <2>7. ASSUME NEW u \in Heard(t)
        PROVE  /\ r.until <= rows2[u].until
               /\ Severity(RiskThrough(FreshStatus(rows2[u].direct, rows2[u].until)', Width[t][u]))
                    <= Severity(r.risk)
    BY <1>2, <2>1, <2>2, <2>3 DEF Follows, Alike
  <2> QED BY <1>2, <2>4, <2>5, <2>6, <2>7 DEF Follows
<1>3. CASE t \notin Services
  <2>1. t \in Components
    BY <1>3 DEF Targets
  <2>2. \A u \in Services : <<t, u>> \in Supporting => Alike(rows2[u], rows[u])
    BY <2>1 DEF Dependents, SupportedBy
  <2>3. SupportRisk(t, rows2)' = SupportRisk(t, rows)
    <3>1. \A u \in Services : <<t, u>> \in Supporting => Kept(rows2[u], rows[u])
      <4> TAKE u \in Services
      <4> HAVE <<t, u>> \in Supporting
      <4>1. r.until <= rows[u].until
        BY DEF Follows
      <4> QED BY <1>1, <2>2, <4>1 DEF StillFresh, Kept
    <3>2. now \in Nat /\ now' \in {now, now + 1}
      BY DEF StillFresh
    <3> QED BY <2>1, <3>1, <3>2, SupportRiskLasts
  <2> QED BY <1>3, <2>1, <2>2, <2>3 DEF Follows, Alike
<1> QED BY <1>2, <1>3

\* A row that was right when it was written follows all it was computed from.
LEMMA ReadsFollows ==
  ASSUME NEW r, NEW t \in Targets, NEW rows, Reads(r, t, rows)
  PROVE  Follows(r, t, rows)
<1>1. CASE t \in Services
  <2>1. Heard(t) \subseteq Below[t]
    BY DEF Heard
  <2>2. t \notin Components
    BY <1>1, CatalogAssumption
  <2>3. r.risk = ServiceRisk(t, rows)
    BY <1>1 DEF Reads, RiskOf
  <2> QED BY <1>1, <2>1, <2>2, <2>3, ServiceRiskCovers DEF Reads, Follows
<1>2. CASE t \notin Services
  BY <1>2 DEF Reads, Follows, RiskOf
<1> QED BY <1>1, <1>2

-----------------------------------------------------------------------------
(* Steps and their types.                                                  *)

\* What the plan of a mutation has in common, a command's or a diagnostic's.
Mutation(p) ==
  \E ch \in IssueChanges \cup WindowChanges, targets \in SUBSET Targets, extra \in SUBSET Nat :
    /\ Mutate(p, ch, targets, extra)
    /\ ch.on \in targets
    /\ \A s, u \in targets \cap Services : s = u
    /\ ch.what = "window" => OwnedBy(ch.on) \subseteq targets /\ ~Holds(window[ch.on])

Step(p) ==
  \/ Plan(p) \/ Land(p) \/ Conflict(p) \/ Vanish(p) \/ Lose(p) \/ Mutation(p)
  \/ \E t \in Targets : Probe(p, t) \/ TakeWork(p, t)

LEMMA SomeTarget == (CHOOSE t \in Targets : TRUE) \in Targets
BY CatalogAssumption DEF Targets

LEMMA NothingDrafted == <<>> \in Drafts /\ DOMAIN <<>> = {}
<1>1. <<>> \in [{} -> Rows]
  OBVIOUS
<1> QED BY <1>1 DEF Drafts

LEMMA RelatedTargets ==
  ASSUME NEW t \in Targets
  PROVE  /\ {t} \cup Related(t) \in SUBSET Targets
         /\ \A s, u \in ({t} \cup Related(t)) \cap Services : s = u
         /\ OwnedBy(t) \subseteq {t} \cup Related(t)
<1>1. \A x : SupportedBy(x) \subseteq Components /\ OwnedBy(x) \subseteq Components
  BY DEF SupportedBy, OwnedBy
<1>2. CASE t \in Services
  <2>1. Related(t) = SupportedBy(t) \cup OwnedBy(t)
    BY <1>2 DEF Related
  <2> QED BY <1>1, <1>2, <2>1, CatalogAssumption DEF Targets
<1>3. CASE t \notin Services
  <2>1. t \in Components /\ Owner[t] \in Services /\ Related(t) = {Owner[t]}
    BY <1>3, CatalogAssumption DEF Targets, Related
  <2>2. OwnedBy(t) = {}
    BY <1>3, CatalogAssumption DEF OwnedBy
  <2> QED BY <1>3, <2>1, <2>2 DEF Targets
<1> QED BY <1>2, <1>3

LEMMA CommandIsMutation ==
  ASSUME InputTypes, NEW p \in Planners, NEW t \in Targets, Command(p, t)
  PROVE  Mutation(p)
<1> DEFINE targets == {t} \cup Related(t)
<1>1. /\ targets \in SUBSET Targets /\ t \in targets /\ OwnedBy(t) \subseteq targets
      /\ \A s, u \in targets \cap Services : s = u
  BY RelatedTargets
<1>2. {} \in SUBSET Nat
  OBVIOUS
<1> HIDE DEF targets
<1>3. ASSUME Mutate(p, [what |-> "issue", on |-> t, issue |-> "none"], targets, {})
      PROVE  Mutation(p)
  <2>1. PICK ch : ch = [what |-> "issue", on |-> t, issue |-> "none"]
    OBVIOUS
  <2>2. ch \in IssueChanges /\ ch.on = t /\ ch.what # "window"
    BY <2>1 DEF IssueChanges
  <2>3. Mutate(p, ch, targets, {})
    BY <1>3, <2>1
  <2> QED BY <1>1, <1>2, <2>2, <2>3 DEF Mutation
<1>4. ASSUME ~Holds(window[t]), NEW status \in Windows,
             Mutate(p, [what |-> "window", on |-> t,
                        window |-> [status |-> status, until |-> now + 1]], targets, {})
      PROVE  Mutation(p)
  <2>1. PICK ch : ch = [what |-> "window", on |-> t,
                        window |-> [status |-> status, until |-> now + 1]]
    OBVIOUS
  <2>2. [status |-> status, until |-> now + 1] \in WindowType
    BY ReevaluationBoundAssumption DEF InputTypes, WindowType
  <2>3. ch \in WindowChanges /\ ch.on = t
    BY <2>1, <2>2 DEF WindowChanges
  <2>4. Mutate(p, ch, targets, {})
    BY <1>4, <2>1
  <2> QED BY <1>1, <1>2, <1>4, <2>3, <2>4 DEF Mutation
<1> QED BY <1>3, <1>4 DEF Command, targets

LEMMA DiagnoseIsMutation ==
  ASSUME InputTypes, NEW p \in Planners, NEW s \in Services, Diagnose(p, s)
  PROVE  Mutation(p)
<1>1. PICK status \in Impacts \cup {"none"} :
        Mutate(p, [what |-> "issue", on |-> s, issue |-> status], {s}, {now + Period})
  BY DEF Diagnose
<1>2. PICK ch : ch = [what |-> "issue", on |-> s, issue |-> status]
  OBVIOUS
<1>3. ch \in IssueChanges /\ ch.on = s /\ ch.what # "window"
  BY <1>2 DEF IssueChanges, Targets
<1>4. {now + Period} \in SUBSET Nat
  BY ReevaluationBoundAssumption DEF InputTypes
<1>5. {s} \in SUBSET Targets /\ s \in {s} /\ \A x, y \in {s} \cap Services : x = y
  BY DEF Targets
<1>6. Mutate(p, ch, {s}, {now + Period})
  BY <1>1, <1>2
<1> QED BY <1>3, <1>4, <1>5, <1>6 DEF Mutation

LEMMA NextSteps ==
  ASSUME InputTypes, [Next]_vars
  PROVE  \/ UNCHANGED vars \/ Tick
         \/ \E t \in Targets : Expire(t)
         \/ \E p \in Planners : Step(p)
<1>1. ASSUME NEW p \in Planners,
             \/ Advance(p) \/ Lose(p)
             \/ \E t \in Targets : Probe(p, t) \/ TakeWork(p, t) \/ Command(p, t)
             \/ \E s \in Services : Diagnose(p, s)
      PROVE  Step(p)
  BY <1>1, CommandIsMutation, DiagnoseIsMutation DEF Step, Advance
<1> QED BY <1>1 DEF Next

LEMMA GivenTypes ==
  ASSUME InputTypes, NEW ch \in IssueChanges \cup WindowChanges
  PROVE  /\ InputsOK(Overlaid(ch)) /\ Overlaid(ch).proof = proof
         /\ \A t \in Targets : t # ch.on =>
              Overlaid(ch).issue[t] = issue[t] /\ Overlaid(ch).window[t] = window[t]
         /\ ch.what # "window" => Overlaid(ch).window = window
<1>1. CASE ch \in IssueChanges
  <2>1. ch.what = "issue" /\ ch.on \in Targets /\ ch.issue \in Impacts \cup {"none"}
    BY <1>1 DEF IssueChanges
  <2>2. Overlaid(ch) = [issue |-> [issue EXCEPT ![ch.on] = ch.issue],
                        window |-> window, proof |-> proof]
    BY <2>1 DEF Overlaid, Facts
  <2> QED BY <2>1, <2>2 DEF InputTypes, InputsOK
<1>2. CASE ch \in WindowChanges
  <2>1. ch.what = "window" /\ ch.on \in Targets /\ ch.window \in WindowType
    BY <1>2 DEF WindowChanges
  <2>2. Overlaid(ch) = [issue |-> issue, window |-> [window EXCEPT ![ch.on] = ch.window],
                        proof |-> proof]
    BY <2>1 DEF Overlaid, Facts
  <2> QED BY <2>1, <2>2 DEF InputTypes, InputsOK
<1> QED BY <1>1, <1>2

LEMMA FactsTypes == InputTypes => InputsOK(Facts)
BY DEF InputTypes, InputsOK, Facts

\* A batch replaces the rows it drafted and no others.
LEMMA Replaced ==
  ASSUME NEW d \in Drafts, NEW rows \in [Targets -> Rows]
  PROVE  /\ Over(d, rows) \in [Targets -> Rows] /\ DOMAIN d \subseteq Targets
         /\ \A t \in DOMAIN d : d[t] \in Rows /\ Over(d, rows)[t] = d[t]
         /\ \A t \in Targets \ DOMAIN d : Over(d, rows)[t] = rows[t]
<1>1. PICK D \in SUBSET Targets : d \in [D -> Rows]
  BY DEF Drafts
<1>2. D \cup Targets = Targets /\ DOMAIN d = D /\ DOMAIN rows = Targets
  BY <1>1
<1>3. Over(d, rows) = [x \in Targets |-> IF x \in D THEN d[x] ELSE rows[x]]
  BY <1>1, <1>2 DEF Over
<1> QED BY <1>1, <1>3

LEMMA RequestsCount ==
  ASSUME NEW d \in Drafts, NEW x
  PROVE  /\ Requests(d, x) \in Nat
         /\ Requests(d, x) = 0 =>
              \A t \in DOMAIN d : x \in Dependents(t) => ~FanoutChanged(t, d[t])
<1> DEFINE asking == {t \in DOMAIN d : FanoutChanged(t, d[t]) /\ x \in Dependents(t)}
<1>1. asking \subseteq Targets
  BY DEF Drafts
<1>2. IsFiniteSet(asking)
  <2>1. IsFiniteSet(Targets)
    BY CatalogAssumption, FS_Union DEF Targets
  <2> QED BY <1>1, <2>1, FS_Subset
<1>3. Cardinality(asking) \in Nat /\ (Cardinality(asking) = 0 => asking = {})
  BY <1>2, FS_CardinalityType, FS_EmptySet
<1>4. Requests(d, x) = Cardinality(asking)
  BY DEF Requests
<1> QED BY <1>3, <1>4

\* A row of a draft is right if its batch lands now.
DraftedWell(d, t, in) ==
  /\ Own(d[t], t, in)
  /\ \E rows : /\ RowsOK(rows) /\ Reads(d[t], t, rows)
               /\ \A u \in Services \ {t} : rows[u] = Over(d, row)[u]

LEMMA DraftAllHolds ==
  ASSUME InputTypes, row \in [Targets -> Rows],
         NEW ch \in IssueChanges \cup WindowChanges, NEW targets \in SUBSET Targets,
         \A s, u \in targets \cap Services : s = u, NEW extra \in SUBSET Nat
  PROVE  /\ DraftAll(ch, targets, extra) \in Drafts
         /\ DOMAIN DraftAll(ch, targets, extra) = targets
         /\ \A t \in targets : DraftedWell(DraftAll(ch, targets, extra), t, Overlaid(ch))
<1> DEFINE draftOf(subset, rows) == [t \in subset |-> Evaluate(t, Overlaid(ch), rows, extra)]
           ofServices == draftOf(targets \cap Services, row)
           below == Over(ofServices, row)
           ofComponents == draftOf(targets \ Services, below)
           d == DraftAll(ch, targets, extra)
<1>1. d = Over(ofServices, ofComponents)
  BY DEF DraftAll
<1>2. InputsOK(Overlaid(ch)) /\ now \in Nat
  BY GivenTypes, ReevaluationBoundAssumption DEF InputTypes
<1>3. ASSUME NEW t \in Targets, NEW rows, RowsOK(rows)
      PROVE  LET r == Evaluate(t, Overlaid(ch), rows, extra)
             IN  r \in Rows /\ Own(r, t, Overlaid(ch)) /\ Reads(r, t, rows)
  <2>1. PICK in : in = Overlaid(ch)
    OBVIOUS
  <2>2. LET r == Evaluate(t, in, rows, extra)
        IN  r \in Rows /\ Own(r, t, in) /\ Reads(r, t, rows)
    BY <1>2, <1>3, <2>1, EvaluateHolds
  <2> QED BY <2>1, <2>2
<1>4. RowsOK(row)
  BY DEF RowsOK
<1>5. ofServices \in Drafts /\ DOMAIN ofServices = targets \cap Services
  <2>1. ofServices \in [targets \cap Services -> Rows]
    BY <1>3, <1>4
  <2> QED BY <2>1 DEF Drafts
<1> HIDE DEF d, ofServices
<1>6. below \in [Targets -> Rows] /\ RowsOK(below)
      /\ \A u \in Services : below[u] = IF u \in targets THEN ofServices[u] ELSE row[u]
  BY <1>5, Replaced DEF RowsOK, Targets
<1> HIDE DEF below
<1>7. d = [t \in targets |-> IF t \in Services THEN ofServices[t] ELSE ofComponents[t]]
  BY <1>1, <1>5 DEF Over
<1>8. /\ \A s \in targets \cap Services : d[s] = Evaluate(s, Overlaid(ch), row, extra)
      /\ \A c \in targets \ Services : d[c] = Evaluate(c, Overlaid(ch), below, extra)
  BY <1>7 DEF ofServices
<1>9. d \in [targets -> Rows]
  <2>1. \A t \in targets : d[t] \in Rows
    BY <1>3, <1>4, <1>6, <1>8
  <2> QED BY <1>7, <2>1
<1>10. d \in Drafts /\ DOMAIN d = targets
  BY <1>9 DEF Drafts
<1>11. \A u \in Services : Over(d, row)[u] = IF u \in targets THEN d[u] ELSE row[u]
  BY <1>10, Replaced DEF Targets
<1>12. ASSUME NEW t \in targets
       PROVE  DraftedWell(d, t, Overlaid(ch))
  <2>1. CASE t \in Services
    <3>1. \A u \in Services \ {t} : row[u] = Over(d, row)[u]
      BY <1>11, <2>1
    <3>2. Own(d[t], t, Overlaid(ch)) /\ Reads(d[t], t, row)
      BY <1>3, <1>4, <1>8, <2>1
    <3> QED BY <1>4, <3>1, <3>2 DEF DraftedWell
  <2>2. CASE t \notin Services
    <3>1. \A u \in Services : below[u] = Over(d, row)[u]
      BY <1>6, <1>7, <1>11
    <3>2. Own(d[t], t, Overlaid(ch)) /\ Reads(d[t], t, below)
      BY <1>3, <1>6, <1>8, <2>2
    <3> QED BY <1>6, <3>1, <3>2 DEF DraftedWell
  <2> QED BY <2>1, <2>2
<1> QED BY <1>10, <1>12 DEF d

\* The draft of one target that Plan makes.
LEMMA PlanHolds ==
  ASSUME InputTypes, row \in [Targets -> Rows], NEW t \in Targets
  PROVE  LET d == [x \in {t} |-> Evaluate(x, Facts, row, {})]
         IN  /\ d \in Drafts /\ DOMAIN d = {t}
             /\ Own(d[t], t, Facts) /\ Reads(d[t], t, row)
             /\ \A u \in Services \ {t} : Over(d, row)[u] = row[u]
<1> DEFINE d == [x \in {t} |-> Evaluate(x, Facts, row, {})]
<1>1. PICK in : in = Facts
  OBVIOUS
<1>2. InputsOK(in) /\ now \in Nat /\ RowsOK(row) /\ {} \in SUBSET Nat
  BY <1>1, FactsTypes, ReevaluationBoundAssumption DEF InputTypes, RowsOK
<1>3. LET r == Evaluate(t, in, row, {}) IN r \in Rows /\ Own(r, t, in) /\ Reads(r, t, row)
  BY <1>2, EvaluateHolds
<1>4. d[t] \in Rows /\ Own(d[t], t, Facts) /\ Reads(d[t], t, row)
  BY <1>1, <1>3
<1>5. d \in Drafts /\ DOMAIN d = {t}
  <2>1. d \in [{t} -> Rows]
    BY <1>4
  <2> QED BY <2>1 DEF Drafts
<1> HIDE DEF d
<1>6. \A u \in Services \ {t} : Over(d, row)[u] = row[u]
  BY <1>5, Replaced DEF Targets
<1> QED BY <1>4, <1>5, <1>6 DEF d

-----------------------------------------------------------------------------
LEMMA InitTypes == Init => Types
<1> SUFFICES ASSUME Init PROVE Types
  OBVIOUS
<1>1. InputTypes
  <2>1. NoWindow \in WindowType /\ [healthy |-> TRUE, until |-> Period] \in ProofType
    BY ReevaluationBoundAssumption DEF WindowType, ProofType
  <2> QED BY <2>1, ReevaluationBoundAssumption DEF Init, InputTypes
<1>2. row \in [Targets -> Rows] /\ work \in [Targets -> Nat]
  BY ReevaluationBoundAssumption DEF Init, Rows, Risks, Statuses
<1>3. PlannerTypes
  BY SomeTarget, NothingDrafted DEF Init, PlannerTypes, Changes
<1>4. changes \in 0 .. MaxChanges /\ probes \in 0 .. MaxProbes /\ faults \in 0 .. MaxFaults
  BY ReevaluationBoundAssumption DEF Init
<1> QED BY <1>1, <1>2, <1>3, <1>4 DEF Types

\* A planner that stops is as it was at the start.
LEMMA ForgetTypes ==
  ASSUME PlannerTypes, NEW p \in Planners, Forget(p)
  PROVE  PlannerTypes'
BY SomeTarget, NothingDrafted DEF PlannerTypes, Forget, Changes

LEMMA ReturnedTypes ==
  ASSUME Types, NEW p \in Planners, Returned(p)
  PROVE  work' \in [Targets -> Nat]
BY DEF Types, PlannerTypes, Returned

LEMMA StartTypes ==
  ASSUME PlannerTypes, NEW p \in Planners, NEW t \in Targets,
         NEW at \in {"reading", "planned"}, NEW k \in {"work", "probe", "mutation"},
         Start(p, at, k, t)
  PROVE  /\ pc' \in [Planners -> {"idle", "reading", "planned", "late"}]
         /\ kind' \in [Planners -> {"work", "probe", "mutation"}]
         /\ target' \in [Planners -> Targets]
BY DEF PlannerTypes, Start

LEMMA LandTypes ==
  ASSUME Types, NEW p \in Planners, Land(p)
  PROVE  /\ Facts' = Given(p) /\ row' = Over(draft[p], row)
         /\ InputsOK(Given(p)) /\ row' \in [Targets -> Rows] /\ work' \in [Targets -> Nat]
<1>1. InputTypes /\ change[p] \in Changes /\ draft[p] \in Drafts
      /\ row \in [Targets -> Rows] /\ work \in [Targets -> Nat]
  BY DEF Types, PlannerTypes
<1>2. CASE change[p] = NoChange
  <2>1. Given(p) = Facts
    BY <1>2 DEF Given
  <2>2. Facts' = Facts
    BY <1>2 DEF Facts, Land, Write
  <2> QED BY <1>1, <2>1, <2>2, FactsTypes, Replaced, RequestsCount DEF Land, Write
<1>3. CASE change[p] # NoChange
  <2>1. change[p] \in IssueChanges \cup WindowChanges
    BY <1>1, <1>3 DEF Changes
  <2>2. Given(p) = Overlaid(change[p])
    BY <1>3 DEF Given
  <2>3. InputsOK(Overlaid(change[p]))
    BY <1>1, <2>1, GivenTypes
  <2>4. \E i, w, f : Overlaid(change[p]) = [issue |-> i, window |-> w, proof |-> f]
    BY <2>1 DEF Overlaid, Facts, IssueChanges, WindowChanges
  <2>5. Facts' = Overlaid(change[p])
    BY <1>3, <2>4 DEF Facts, Land, Write
  <2> QED BY <1>1, <2>2, <2>3, <2>5, Replaced, RequestsCount DEF Land, Write
<1> QED BY <1>2, <1>3

LEMMA TypesKept == Types /\ [Next]_vars => Types'
<1> SUFFICES ASSUME Types, [Next]_vars PROVE Types'
  OBVIOUS
<1> USE DEF Types
<1>1. CASE UNCHANGED vars
  BY <1>1 DEF vars, inputs, planner, InputTypes, PlannerTypes
<1>2. CASE Tick
  BY <1>2, ReevaluationBoundAssumption DEF Tick, inputs, planner, InputTypes, PlannerTypes
<1>3. ASSUME NEW t \in Targets, Expire(t)
      PROVE  Types'
  <2>1. InputTypes'
    BY <1>3 DEF Expire, InputTypes, WindowType
  <2>2. work' \in [Targets -> Nat] /\ row' = row
    BY <1>3 DEF Expire
  <2>3. PlannerTypes'
    BY <1>3 DEF Expire, planner, PlannerTypes
  <2> QED BY <1>3, <2>1, <2>2, <2>3 DEF Expire
<1>4. ASSUME NEW p \in Planners, NEW t \in Targets, Probe(p, t)
      PROVE  Types'
  <2>1. InputTypes'
    <3>1. now + Period \in Nat
      BY ReevaluationBoundAssumption DEF InputTypes
    <3> QED BY <1>4, <3>1 DEF Probe, InputTypes, ProofType
  <2>2. PlannerTypes'
    BY <1>4, StartTypes DEF Probe, PlannerTypes
  <2>3. work' \in [Targets -> Nat] /\ row' = row
    BY <1>4 DEF Probe
  <2>4. changes' \in 0 .. MaxChanges /\ probes' \in 0 .. MaxProbes /\ faults' = faults
    BY <1>4, ReevaluationBoundAssumption DEF Probe
  <2> QED BY <2>1, <2>2, <2>3, <2>4
<1>5. ASSUME NEW p \in Planners, NEW t \in Targets, TakeWork(p, t)
      PROVE  Types'
  <2>1. PlannerTypes'
    BY <1>5, StartTypes DEF TakeWork, PlannerTypes
  <2>2. work' \in [Targets -> Nat]
    BY <1>5 DEF TakeWork
  <2> QED BY <1>5, <2>1, <2>2 DEF TakeWork, inputs, InputTypes
<1>6. ASSUME NEW p \in Planners, Plan(p)
      PROVE  Types'
  <2>1. target[p] \in Targets
    BY DEF PlannerTypes
  <2>2. [t \in {target[p]} |-> Evaluate(t, Facts, row, {})] \in Drafts
    BY <2>1, PlanHolds
  <2>3. PlannerTypes'
    BY <1>6, <2>2 DEF Plan, PlannerTypes
  <2> QED BY <1>6, <2>3 DEF Plan, inputs, InputTypes
<1>7. ASSUME NEW p \in Planners, Mutation(p)
      PROVE  Types'
  <2>1. PICK ch \in IssueChanges \cup WindowChanges, targets \in SUBSET Targets,
             extra \in SUBSET Nat :
               /\ Mutate(p, ch, targets, extra)
               /\ ch.on \in targets
               /\ \A s, u \in targets \cap Services : s = u
    BY <1>7 DEF Mutation
  <2>2. DraftAll(ch, targets, extra) \in Drafts
    BY <2>1, DraftAllHolds
  <2>3. PlannerTypes'
    <3>1. ch \in Changes /\ ch.on \in Targets
      BY <2>1 DEF Changes
    <3> QED BY <2>1, <2>2, <3>1, StartTypes DEF Mutate, PlannerTypes
  <2>4. changes' \in 0 .. MaxChanges
    BY <2>1, ReevaluationBoundAssumption DEF Mutate
  <2> QED BY <2>1, <2>3, <2>4 DEF Mutate, inputs, InputTypes
<1>8. ASSUME NEW p \in Planners, Land(p)
      PROVE  Types'
  <2>1. InputTypes'
    <3>1. now' = now
      BY <1>8 DEF Land
    <3>2. InputsOK(Facts')
      BY <1>8, LandTypes
    <3> QED BY <3>1, <3>2 DEF InputTypes, InputsOK, Facts
  <2>2. PlannerTypes'
    BY <1>8, SomeTarget, NothingDrafted DEF Land, PlannerTypes, Changes
  <2>3. row' \in [Targets -> Rows] /\ work' \in [Targets -> Nat]
    BY <1>8, LandTypes
  <2> QED BY <1>8, <2>1, <2>2, <2>3 DEF Land
<1>9. ASSUME NEW p \in Planners, Conflict(p)
      PROVE  Types'
  BY <1>9, ForgetTypes, ReturnedTypes DEF Conflict, inputs, InputTypes
<1>10. ASSUME NEW p \in Planners, Vanish(p)
       PROVE  Types'
  BY <1>10, ForgetTypes DEF Vanish, inputs, InputTypes
<1>11. ASSUME NEW p \in Planners, Lose(p)
       PROVE  Types'
  <2>1. PlannerTypes'
    <3>1. CASE pc[p] = "planned"
      BY <1>11, <3>1 DEF Lose, PlannerTypes
    <3>2. CASE pc[p] # "planned"
      BY <1>11, <3>2, ForgetTypes DEF Lose
    <3> QED BY <3>1, <3>2
  <2>2. work' \in [Targets -> Nat] /\ faults' \in 0 .. MaxFaults
    BY <1>11, ReturnedTypes, ReevaluationBoundAssumption DEF Lose
  <2> QED BY <1>11, <2>1, <2>2 DEF Lose, inputs, InputTypes
<1> QED BY <1>1, <1>2, <1>3, <1>4, <1>5, <1>6, <1>7, <1>8, <1>9, <1>10, <1>11, NextSteps
        DEF Step

-----------------------------------------------------------------------------
(* What a step leaves alone stays as it was.                               *)

\* Rows and inputs stay, but for time and for windows whose end is scanned for.
SameWorld ==
  /\ now' \in {now, now + 1} /\ row' = row /\ window' \in [Targets -> WindowType]
  /\ \A x \in Targets :
       window'[x] = window[x] \/ (window'[x] = NoWindow /\ ~Holds(window[x]))

Untouched(q) ==
  /\ pc'[q] = pc[q] /\ kind'[q] = kind[q] /\ target'[q] = target[q]
  /\ change'[q] = change[q] /\ draft'[q] = draft[q]

LEMMA EndedWindows ==
  ASSUME Types, SameWorld, NEW x \in Targets, ~Holds(window[x])
  PROVE  ~Holds(window[x])'
<1>1. window[x] \in WindowType /\ now \in Nat
  BY ReevaluationBoundAssumption DEF Types, InputTypes
<1>2. window[x].until \in Nat
  BY <1>1 DEF WindowType, NoWindow
<1> QED BY <1>1, <1>2 DEF SameWorld, Holds, NoWindow

LEMMA StepLasts ==
  ASSUME Types, NEW q \in Planners, StepOf(q), Untouched(q), q \in current' => q \in current,
         q \in current' => SameWorld
  PROVE  StepOf(q)'
<1>1. ASSUME q \in current'
      PROVE  Covered(q)'
  <2>1. Covered(q) /\ SameWorld
    BY <1>1 DEF StepOf
  <2>2. change[q] \in Changes
    BY DEF Types, PlannerTypes
  <2>3. ASSUME change[q] # NoChange
        PROVE  change[q].on \in Targets
    BY <2>2, <2>3 DEF Changes, IssueChanges, WindowChanges
  <2>4. ASSUME change[q] # NoChange, ~Holds(window[change[q].on])
        PROVE  ~(window'[change[q].on].until > now')
    BY <2>1, <2>3, <2>4, EndedWindows DEF Holds
  <2> QED BY <2>1, <2>4 DEF Covered, Untouched, Holds, OwnedBy
<1> QED BY <1>1 DEF StepOf, Untouched

LEMMA DraftLasts ==
  ASSUME Types, NEW q \in Planners, DraftOf(q), q \in current' => q \in current,
         change'[q] = change[q], draft'[q] = draft[q],
         q \in current' => SameWorld /\ issue' = issue /\ proof' = proof
  PROVE  DraftOf(q)'
<1> SUFFICES ASSUME q \in current', NEW t \in DOMAIN draft'[q], draft'[q][t].until > now'
             PROVE  /\ Own(draft[q][t], t, Given(q))'
                    /\ Reads(draft[q][t], t, Coming(q))'
  BY DEF DraftOf
<1>1. /\ InputTypes /\ row \in [Targets -> Rows] /\ draft[q] \in Drafts
      /\ change[q] \in Changes /\ now \in Nat
  BY ReevaluationBoundAssumption DEF Types, InputTypes, PlannerTypes
<1>2. PICK r, in, in2, rows, rows2 :
        /\ r = draft[q][t] /\ in = Given(q) /\ in2 = Given(q)'
        /\ rows = Coming(q) /\ rows2 = Coming(q)'
  OBVIOUS
<1>3. SameWorld /\ issue' = issue /\ proof' = proof /\ draft'[q] = draft[q]
      /\ change'[q] = change[q]
  OBVIOUS
<1>4. t \in Targets /\ r \in Rows /\ rows \in [Targets -> Rows] /\ rows2 = rows
  BY <1>1, <1>2, <1>3, Replaced DEF Coming, Over, SameWorld
<1>5. StillFresh(r)
  BY <1>1, <1>2, <1>3, <1>4, RowFields DEF SameWorld, StillFresh
<1>6. Own(r, t, in) /\ Reads(r, t, rows)
  <2>1. r.until > now
    BY <1>5 DEF StillFresh
  <2> QED BY <1>2, <1>3, <2>1 DEF DraftOf
<1>7. /\ InputsOK(in) /\ in2.issue = in.issue /\ in2.proof = in.proof
      /\ \A x \in Targets :
           in2.window[x] = in.window[x] \/ (in2.window[x] = NoWindow /\ ~Holds(in.window[x]))
  <2>1. CASE change[q] = NoChange
    <3>1. in = Facts /\ in2 = Facts'
      BY <1>2, <1>3, <2>1 DEF Given
    <3> QED BY <1>1, <1>3, <3>1, FactsTypes DEF Facts, SameWorld
  <2>2. CASE change[q] \in IssueChanges
    <3>1. PICK ch \in IssueChanges : ch = change[q] /\ ch = change'[q] /\ ch.what = "issue"
      BY <1>3, <2>2 DEF IssueChanges
    <3>2. in = Overlaid(ch) /\ in2 = Overlaid(ch)'
      BY <1>2, <3>1 DEF Given, NoChange
    <3>3. /\ in = [issue |-> [issue EXCEPT ![ch.on] = ch.issue], window |-> window, proof |-> proof]
          /\ in2 = [issue |-> [issue' EXCEPT ![ch.on] = ch.issue], window |-> window', proof |-> proof']
      BY <3>1, <3>2 DEF Overlaid, Facts
    <3>4. InputsOK(in)
      BY <1>1, <3>2, GivenTypes
    <3> QED BY <1>3, <3>3, <3>4 DEF SameWorld
  <2>3. CASE change[q] \in WindowChanges
    <3>1. PICK ch \in WindowChanges : ch = change[q] /\ ch = change'[q] /\ ch.what = "window"
      BY <1>3, <2>3 DEF WindowChanges
    <3>2. in = Overlaid(ch) /\ in2 = Overlaid(ch)'
      BY <1>2, <3>1 DEF Given, NoChange
    <3>3. /\ in = [issue |-> issue, window |-> [window EXCEPT ![ch.on] = ch.window], proof |-> proof]
          /\ in2 = [issue |-> issue', window |-> [window' EXCEPT ![ch.on] = ch.window], proof |-> proof']
      BY <3>1, <3>2 DEF Overlaid, Facts
    <3>4. InputsOK(in)
      BY <1>1, <3>2, GivenTypes
    <3>5. window \in [Targets -> WindowType] /\ window' \in [Targets -> WindowType]
      BY <1>3 DEF Types, InputTypes, SameWorld
    <3>6. in2.issue = in.issue /\ in2.proof = in.proof
      BY <1>3, <3>3
    <3>7. ASSUME NEW x \in Targets
          PROVE  in2.window[x] = in.window[x] \/ (in2.window[x] = NoWindow /\ ~Holds(in.window[x]))
      <4>1. CASE x = ch.on
        BY <3>3, <3>5, <4>1
      <4>2. CASE x # ch.on
        <5>1. in2.window[x] = window'[x] /\ in.window[x] = window[x]
          BY <3>3, <3>5, <4>2
        <5> QED BY <1>3, <5>1 DEF SameWorld
      <4> QED BY <4>1, <4>2
    <3> QED BY <3>4, <3>6, <3>7
  <2> QED BY <1>1, <2>1, <2>2, <2>3 DEF Changes
<1>8. Own(r, t, in2)'
  BY <1>4, <1>5, <1>6, <1>7, SourcesAreTargets, OwnLasts
<1>9. Reads(r, t, rows2)'
  <2>1. RowsOK(rows) /\ \A u \in Services \ {t} : Alike(rows2[u], rows[u])
    BY <1>4 DEF RowsOK, Alike
  <2> QED BY <1>4, <1>5, <1>6, <2>1, ReadsLasts
<1> QED BY <1>2, <1>3, <1>8, <1>9

LEMMA RowLasts ==
  ASSUME Types, NEW t \in Targets, RowOf(t), Asked(t) => Asked(t)', SameWorld,
         issue'[t] = issue[t], proof'[t] = proof[t]
  PROVE  RowOf(t)'
<1> SUFFICES ASSUME ~Asked(t), row'[t].until > now'
             PROVE  Own(row[t], t, Facts)' /\ Follows(row[t], t, row)'
  BY DEF RowOf
<1>1. /\ InputTypes /\ row \in [Targets -> Rows] /\ now \in Nat
  BY ReevaluationBoundAssumption DEF Types, InputTypes
<1>2. PICK r, in, in2, rows :
        r = row[t] /\ in = Facts /\ in2 = Facts' /\ rows = row /\ rows = row'
  BY DEF SameWorld
<1>3. r \in Rows /\ RowsOK(rows) /\ InputsOK(in)
  BY <1>1, <1>2, FactsTypes DEF RowsOK
<1>4. StillFresh(r)
  BY <1>1, <1>2, <1>3, RowFields DEF SameWorld, StillFresh
<1>5. Own(r, t, in) /\ Follows(r, t, rows)
  <2>1. r.until > now
    BY <1>4 DEF StillFresh
  <2> QED BY <1>2, <2>1 DEF RowOf
<1>6. /\ in2.issue[t] = in.issue[t] /\ in2.proof[t] = in.proof[t]
      /\ \A x \in WindowSources(t) :
           in2.window[x] = in.window[x] \/ (in2.window[x] = NoWindow /\ ~Holds(in.window[x]))
  BY <1>2, SourcesAreTargets DEF Facts, SameWorld
<1>7. Own(r, t, in2)'
  BY <1>3, <1>4, <1>5, <1>6, OwnLasts
<1>8. Follows(r, t, rows)'
  <2>1. \A u \in Services : Alike(rows[u], rows[u])
    BY DEF Alike
  <2> QED BY <1>3, <1>4, <1>5, <2>1, FollowsLasts
<1> QED BY <1>2, <1>7, <1>8

-----------------------------------------------------------------------------
(* Every step preserves the invariant.                                     *)

\* Steps that touch neither rows nor inputs, or only windows that are over.
LEMMA WorldSteps ==
  ASSUME Types, Types'
  PROVE  /\ UNCHANGED vars \/ Tick => SameWorld /\ issue' = issue /\ proof' = proof
         /\ \A t \in Targets : Expire(t) => SameWorld /\ issue' = issue /\ proof' = proof
         /\ \A p \in Planners :
              Plan(p) \/ Conflict(p) \/ Vanish(p) \/ Lose(p) \/ Mutation(p)
                \/ (\E t \in Targets : TakeWork(p, t))
              => SameWorld /\ issue' = issue /\ proof' = proof
<1>1. window' \in [Targets -> WindowType]
  BY DEF Types, InputTypes
<1>2. UNCHANGED vars \/ Tick => SameWorld /\ issue' = issue /\ proof' = proof
  BY <1>1 DEF vars, inputs, Tick, SameWorld
<1>3. ASSUME NEW t \in Targets, Expire(t)
      PROVE  SameWorld /\ issue' = issue /\ proof' = proof
  BY <1>1, <1>3 DEF Expire, SameWorld, Types, InputTypes
<1>4. ASSUME NEW p \in Planners,
             Plan(p) \/ Conflict(p) \/ Vanish(p) \/ Lose(p) \/ Mutation(p)
               \/ (\E t \in Targets : TakeWork(p, t))
      PROVE  SameWorld /\ issue' = issue /\ proof' = proof
  BY <1>1, <1>4 DEF Plan, Conflict, Vanish, Lose, Mutation, Mutate, TakeWork, inputs, SameWorld
<1> QED BY <1>2, <1>3, <1>4

\* Planners a step is not about.
LEMMA Bystanders ==
  ASSUME Types, Types'
  PROVE  /\ UNCHANGED vars \/ Tick \/ (\E t \in Targets : Expire(t)) =>
              \A q \in Planners : Untouched(q) /\ (q \in current' => q \in current)
         /\ \A p \in Planners : Step(p) =>
              \A q \in Planners \ {p} : Untouched(q) /\ (q \in current' => q \in current)
<1>1. ASSUME UNCHANGED vars \/ Tick \/ (\E t \in Targets : Expire(t)), NEW q \in Planners
      PROVE  Untouched(q) /\ (q \in current' => q \in current)
  BY <1>1 DEF vars, planner, Tick, Expire, Untouched
<1>2. ASSUME NEW p \in Planners, Step(p), NEW q \in Planners \ {p}
      PROVE  Untouched(q) /\ (q \in current' => q \in current)
  <2> USE DEF Types, PlannerTypes, Untouched
  <2>1. CASE Plan(p)
    BY <2>1 DEF Plan
  <2>2. CASE Land(p)
    BY <2>2 DEF Land
  <2>3. CASE Conflict(p)
    BY <2>3 DEF Conflict, Forget
  <2>4. CASE Vanish(p)
    BY <2>4 DEF Vanish, Forget
  <2>5. CASE Lose(p)
    BY <2>5 DEF Lose, Forget
  <2>6. CASE Mutation(p)
    BY <2>6 DEF Mutation, Mutate, Start
  <2>7. CASE \E t \in Targets : Probe(p, t) \/ TakeWork(p, t)
    BY <2>7 DEF Probe, TakeWork, Start
  <2> QED BY <1>2, <2>1, <2>2, <2>3, <2>4, <2>5, <2>6, <2>7 DEF Step
<1> QED BY <1>1, <1>2

\* After a probe's commit, and after any other batch, nobody is current.
LEMMA NobodyCurrent ==
  ASSUME NEW p \in Planners, Land(p) \/ (\E t \in Targets : Probe(p, t))
  PROVE  current' = {}
BY DEF Land, Probe

LEMMA StepsKept == Types /\ Types' /\ Steps /\ [Next]_vars => Steps'
<1> SUFFICES ASSUME Types, Types', Steps, [Next]_vars, NEW q \in Planners PROVE StepOf(q)'
  BY DEF Steps
<1>1. StepOf(q) /\ InputTypes
  BY DEF Steps, Types
<1>2. CASE UNCHANGED vars \/ Tick \/ (\E t \in Targets : Expire(t))
  BY <1>1, <1>2, WorldSteps, Bystanders, StepLasts
<1>3. ASSUME NEW p \in Planners, Step(p)
      PROVE  StepOf(q)'
  <2>1. CASE q # p
    <3>1. q \in current' => SameWorld
      BY <1>3, WorldSteps, NobodyCurrent DEF Step
    <3> QED BY <1>1, <1>3, <2>1, <3>1, Bystanders, StepLasts
  <2>2. CASE q = p
    <3> USE DEF Types, PlannerTypes, StepOf
    <3>1. CASE Plan(p)
      <4>1. pc'[p] = "planned" /\ target'[p] \in DOMAIN draft'[p]
            /\ change'[p] = NoChange
        BY <1>1, <2>2, <3>1 DEF Plan
      <4> QED BY <2>2, <4>1 DEF Covered
    <3>2. CASE Land(p) \/ Conflict(p) \/ Vanish(p)
      <4>1. pc'[p] = "idle" /\ change'[p] = NoChange /\ p \notin current'
        BY <3>2 DEF Land, Conflict, Vanish, Forget
      <4> QED BY <2>2, <4>1
    <3>3. CASE Lose(p)
      <4>1. CASE pc[p] = "planned"
        <5>1. pc'[p] = "late" /\ UNCHANGED <<target, change, draft, current, window, now>>
          BY <3>3, <4>1 DEF Lose, inputs
        <5> QED BY <1>1, <2>2, <4>1, <5>1 DEF Covered, Holds
      <4>2. CASE pc[p] # "planned"
        <5>1. pc'[p] = "idle" /\ change'[p] = NoChange /\ p \notin current'
          BY <3>3, <4>2 DEF Lose, Forget
        <5> QED BY <2>2, <5>1
      <4> QED BY <4>1, <4>2
    <3>4. CASE Mutation(p)
      <4>1. PICK ch \in IssueChanges \cup WindowChanges, targets \in SUBSET Targets,
                 extra \in SUBSET Nat :
              /\ Mutate(p, ch, targets, extra)
              /\ ch.on \in targets
              /\ \A s, u \in targets \cap Services : s = u
              /\ ch.what = "window" => OwnedBy(ch.on) \subseteq targets /\ ~Holds(window[ch.on])
        BY <3>4 DEF Mutation
      <4>2. DOMAIN DraftAll(ch, targets, extra) = targets
        BY <4>1, DraftAllHolds
      <4>3. /\ pc'[p] = "planned" /\ target'[p] = ch.on /\ change'[p] = ch
            /\ DOMAIN draft'[p] = targets /\ window' = window /\ now' = now
        BY <4>1, <4>2 DEF Mutate, Start, inputs
      <4> QED BY <2>2, <4>1, <4>3 DEF Covered, Holds
    <3>5. ASSUME NEW t \in Targets, Probe(p, t) \/ TakeWork(p, t)
          PROVE  StepOf(p)'
      <4>1. pc[p] = "idle" /\ pc'[p] = "reading" /\ change'[p] = change[p]
            /\ (p \in current' => p \in current)
        BY <3>5 DEF Probe, TakeWork, Start
      <4> QED BY <1>1, <2>2, <4>1
    <3> QED BY <1>3, <2>2, <3>1, <3>2, <3>3, <3>4, <3>5 DEF Step
  <2> QED BY <2>1, <2>2
<1> QED BY <1>1, <1>2, <1>3, NextSteps

LEMMA DraftsKept == Types /\ Types' /\ Steps /\ DraftsHold /\ [Next]_vars => DraftsHold'
<1> SUFFICES ASSUME Types, Types', Steps, DraftsHold, [Next]_vars, NEW q \in Planners
             PROVE  DraftOf(q)'
  BY DEF DraftsHold
<1>1. StepOf(q) /\ DraftOf(q) /\ InputTypes /\ row \in [Targets -> Rows]
  BY DEF Steps, DraftsHold, Types
<1>2. CASE UNCHANGED vars \/ Tick \/ (\E t \in Targets : Expire(t))
  BY <1>1, <1>2, WorldSteps, Bystanders, DraftLasts DEF Untouched
<1>3. ASSUME NEW p \in Planners, Step(p)
      PROVE  DraftOf(q)'
  <2>1. CASE q # p
    <3>1. q \in current' => SameWorld /\ issue' = issue /\ proof' = proof
      BY <1>3, WorldSteps, NobodyCurrent DEF Step
    <3> QED BY <1>1, <1>3, <2>1, <3>1, Bystanders, DraftLasts DEF Untouched
  <2>2. CASE q = p
    <3> USE DEF Types, PlannerTypes
    <3>1. CASE Plan(p)
      <4> DEFINE d == [x \in {target[p]} |-> Evaluate(x, Facts, row, {})]
      <4>1. /\ DOMAIN d = {target[p]}
            /\ Own(d[target[p]], target[p], Facts) /\ Reads(d[target[p]], target[p], row)
            /\ \A u \in Services \ {target[p]} : Over(d, row)[u] = row[u]
        BY <1>1, PlanHolds
      <4>2. /\ draft'[p] = d /\ row' = row /\ now' = now /\ change'[p] = NoChange
            /\ Facts' = Facts
        BY <1>1, <2>2, <3>1 DEF Plan, StepOf, inputs, Facts
      <4> HIDE DEF d
      <4>3. ASSUME NEW t \in DOMAIN draft'[p], draft'[p][t].until > now'
            PROVE  Own(draft[p][t], t, Given(p))' /\ Reads(draft[p][t], t, Coming(p))'
        <5>1. PICK r, in, rows, rows2 :
                r = d[t] /\ in = Facts /\ rows = row /\ rows2 = Over(d, row)
          OBVIOUS
        <5>2. t = target[p] /\ t \in Targets /\ Own(r, t, in) /\ Reads(r, t, rows)
          BY <4>1, <4>2, <4>3, <5>1
        <5>3. StillFresh(r) /\ InputsOK(in) /\ RowsOK(rows)
          <6>1. d \in Drafts /\ t \in DOMAIN d
            BY <1>1, <4>1, <5>2, PlanHolds DEF d
          <6>2. d[t] \in Rows
            BY <1>1, <6>1, Replaced
          <6> QED BY <1>1, <4>2, <4>3, <5>1, <6>2, RowFields, FactsTypes,
                     ReevaluationBoundAssumption DEF StillFresh, RowsOK, InputTypes
        <5>4. Own(r, t, in)'
          BY <5>2, <5>3, OwnLasts
        <5>5. Reads(r, t, rows2)'
          <6>1. \A u \in Services \ {t} : Alike(rows2[u], rows[u])
            BY <4>1, <5>1, <5>2 DEF Alike
          <6> QED BY <5>2, <5>3, <6>1, ReadsLasts
        <5>6. r = draft'[p][t] /\ in = Given(p)' /\ rows2 = Coming(p)'
          BY <4>2, <5>1 DEF Given, Coming, Over
        <5> QED BY <5>4, <5>5, <5>6
      <4> QED BY <2>2, <4>3 DEF DraftOf
    <3>2. CASE Land(p) \/ Conflict(p) \/ Vanish(p)
      BY <2>2, <3>2 DEF Land, Conflict, Vanish, Forget, DraftOf
    <3>3. CASE Lose(p)
      <4>1. CASE pc[p] = "planned"
        <5>1. UNCHANGED <<change, draft, current>>
          BY <3>3, <4>1 DEF Lose
        <5> QED BY <1>1, <2>2, <3>3, <5>1, WorldSteps, DraftLasts
      <4>2. CASE pc[p] # "planned"
        BY <2>2, <3>3, <4>2 DEF Lose, Forget, DraftOf
      <4> QED BY <4>1, <4>2
    <3>4. CASE Mutation(p)
      <4>1. PICK ch \in IssueChanges \cup WindowChanges, targets \in SUBSET Targets,
                 extra \in SUBSET Nat :
              /\ Mutate(p, ch, targets, extra)
              /\ \A s, u \in targets \cap Services : s = u
        BY <3>4 DEF Mutation
      <4> DEFINE d == DraftAll(ch, targets, extra)
      <4>2. /\ d \in Drafts /\ DOMAIN d = targets
            /\ \A t \in targets : DraftedWell(d, t, Overlaid(ch))
        BY <1>1, <4>1, DraftAllHolds
      <4>3. /\ draft'[p] = d /\ row' = row /\ now' = now /\ change'[p] = ch
            /\ UNCHANGED <<issue, window, proof>>
        BY <4>1 DEF Mutate, inputs
      <4> HIDE DEF d
      <4>4. ASSUME NEW t \in DOMAIN draft'[p], draft'[p][t].until > now'
            PROVE  Own(draft[p][t], t, Given(p))' /\ Reads(draft[p][t], t, Coming(p))'
        <5>1. PICK r, in, rows, rows2 :
                /\ r = d[t] /\ in = Overlaid(ch) /\ rows2 = Over(d, row)
                /\ RowsOK(rows) /\ Reads(r, t, rows)
                /\ \A u \in Services \ {t} : rows[u] = rows2[u]
          BY <4>2, <4>3 DEF DraftedWell
        <5>2. t \in Targets /\ Own(r, t, in)
          BY <4>2, <4>3, <5>1 DEF DraftedWell
        <5>3. StillFresh(r) /\ InputsOK(in)
          <6>1. d[t] \in Rows
            BY <1>1, <4>2, <4>3, Replaced
          <6> QED BY <1>1, <4>3, <4>4, <5>1, <6>1, RowFields, GivenTypes,
                     ReevaluationBoundAssumption DEF StillFresh, InputTypes
        <5>4. Own(r, t, in)'
          BY <5>2, <5>3, OwnLasts
        <5>5. Reads(r, t, rows2)'
          <6>1. \A u \in Services \ {t} : Alike(rows2[u], rows[u])
            BY <5>1 DEF Alike
          <6> QED BY <5>1, <5>2, <5>3, <6>1, ReadsLasts
        <5>6. r = draft'[p][t] /\ in = Given(p)' /\ rows2 = Coming(p)'
          <6>1. Given(p)' = Overlaid(ch)'
            BY <4>3 DEF Given, NoChange, IssueChanges, WindowChanges
          <6> QED BY <4>3, <5>1, <6>1 DEF Overlaid, Facts, Coming, Over
        <5> QED BY <5>4, <5>5, <5>6
      <4> QED BY <2>2, <4>4 DEF DraftOf
    <3>5. CASE \E t \in Targets : Probe(p, t)
      BY <2>2, <3>5, NobodyCurrent DEF DraftOf
    <3>6. CASE \E t \in Targets : TakeWork(p, t)
      <4>1. p \notin current /\ current' = current
        BY <1>1, <2>2, <3>6 DEF TakeWork, Start, StepOf
      <4> QED BY <2>2, <4>1 DEF DraftOf
    <3> QED BY <1>3, <2>2, <3>1, <3>2, <3>3, <3>4, <3>5, <3>6 DEF Step
  <2> QED BY <2>1, <2>2
<1> QED BY <1>1, <1>2, <1>3, NextSteps

\* Who was asked stays asked, or is answered by a batch.
LEMMA AskedLasts ==
  ASSUME Types, Types', Steps, NEW t \in Targets, Asked(t), [Next]_vars
  PROVE  Asked(t)' \/ \E p \in Planners : Land(p) /\ t \in DOMAIN draft[p]
<1> USE DEF Types, PlannerTypes
<1>1. CASE UNCHANGED vars
  BY <1>1 DEF vars, planner, Asked
<1>2. CASE Tick
  BY <1>2 DEF Tick, planner, Asked
<1>3. ASSUME NEW x \in Targets, Expire(x)
      PROVE  Asked(t)'
  <2>1. UNCHANGED <<pc, kind, target>> /\ (work[t] > 0 => work'[t] > 0)
    BY <1>3 DEF Expire, planner
  <2> QED BY <2>1 DEF Asked
<1>4. ASSUME NEW p \in Planners, Step(p)
      PROVE  Asked(t)' \/ (Land(p) /\ t \in DOMAIN draft[p])
  <2>1. ASSUME NEW q \in Planners \ {p}, pc[q] \in {"reading", "planned"}, kind[q] = "work",
               target[q] = t
        PROVE  Asked(t)'
    BY <1>4, <2>1, Bystanders DEF Untouched, Asked
  <2>2. CASE work[t] > 0
    <3>1. CASE \E x \in Targets : TakeWork(p, x)
      <4>1. PICK x \in Targets : TakeWork(p, x)
        BY <3>1
      <4>2. pc'[p] = "reading" /\ kind'[p] = "work" /\ target'[p] = x
        BY <4>1 DEF TakeWork, Start
      <4>3. x # t => work'[t] = work[t]
        BY <4>1 DEF TakeWork
      <4> QED BY <2>2, <4>2, <4>3 DEF Asked
    <3>2. CASE Land(p)
      <4>1. work'[t] = work[t] + Requests(draft[p], t) /\ Requests(draft[p], t) \in Nat
        BY <3>2, RequestsCount DEF Land, Write
      <4> QED BY <2>2, <4>1 DEF Asked
    <3>3. CASE \/ Plan(p) \/ Conflict(p) \/ Vanish(p) \/ Lose(p) \/ Mutation(p)
               \/ \E x \in Targets : Probe(p, x)
      <4>1. work'[t] >= work[t]
        BY <3>3 DEF Plan, Conflict, Vanish, Lose, Returned, Mutation, Mutate, Probe
      <4> QED BY <2>2, <4>1 DEF Asked
    <3> QED BY <1>4, <3>1, <3>2, <3>3 DEF Step
  <2>3. CASE pc[p] \in {"reading", "planned"} /\ kind[p] = "work" /\ target[p] = t
    <3>1. CASE Plan(p)
      <4>1. pc'[p] = "planned" /\ kind'[p] = "work" /\ target'[p] = t
        BY <2>3, <3>1 DEF Plan
      <4> QED BY <4>1 DEF Asked
    <3>2. CASE Land(p)
      BY <2>3, <3>2 DEF Land, Steps, StepOf
    <3>3. CASE Conflict(p) \/ Lose(p)
      <4>1. work'[t] = work[t] + 1
        BY <2>3, <3>3 DEF Conflict, Lose, Returned
      <4> QED BY <4>1 DEF Asked
    <3>4. CASE Vanish(p) \/ Mutation(p) \/ \E x \in Targets : Probe(p, x) \/ TakeWork(p, x)
      BY <2>3, <3>4 DEF Vanish, Mutation, Mutate, Probe, TakeWork, Start
    <3> QED BY <1>4, <3>1, <3>2, <3>3, <3>4 DEF Step
  <2> QED BY <2>1, <2>2, <2>3 DEF Asked
<1> QED BY <1>1, <1>2, <1>3, <1>4, NextSteps

\* A row that a batch writes is right, and one that it passes by, without
\* asking for its target, has nothing to follow.
LEMMA LandKeepsRow ==
  ASSUME Types, Types', Steps, DraftsHold, NEW t \in Targets, RowOf(t),
         NEW p \in Planners, Land(p), Asked(t) => t \in DOMAIN draft[p] \/ Asked(t)'
  PROVE  RowOf(t)'
<1> USE DEF Types, PlannerTypes
<1> SUFFICES ASSUME ~Asked(t)', row'[t].until > now'
             PROVE  Own(row[t], t, Facts)' /\ Follows(row[t], t, row)'
  BY DEF RowOf
<1>1. /\ Facts' = Given(p) /\ row' = Over(draft[p], row) /\ row' = Coming(p)
      /\ InputsOK(Given(p)) /\ now' = now /\ now \in Nat
  <2>1. Types /\ now' = now /\ now \in Nat
    BY ReevaluationBoundAssumption, SMTT(60) DEF Land, InputTypes
  <2> HIDE DEF Types
  <2> QED BY <2>1, LandTypes DEF Coming
<1>2. /\ draft[p] \in Drafts /\ p \in current
      /\ \A x \in DOMAIN draft[p] : row'[x] = draft[p][x]
      /\ \A x \in Targets \ DOMAIN draft[p] : row'[x] = row[x]
  <2>1. draft[p] \in Drafts /\ row \in [Targets -> Rows] /\ p \in current
    BY DEF Land, SameGeneration
  <2>2. row' = Over(draft[p], row)
    BY <1>1
  <2>3. /\ \A x \in DOMAIN draft[p] : Over(draft[p], row)[x] = draft[p][x]
        /\ \A x \in Targets \ DOMAIN draft[p] : Over(draft[p], row)[x] = row[x]
    BY <2>1, Replaced
  <2> QED BY <2>1, <2>2, <2>3
<1>3. PICK r, in, rows : r = row'[t] /\ in = Facts' /\ rows = row'
  OBVIOUS
<1>4. r \in Rows /\ StillFresh(r) /\ InputsOK(in) /\ RowsOK(rows)
  BY <1>1, <1>3, RowFields DEF StillFresh, RowsOK
<1>5. CASE t \in DOMAIN draft[p]
  <2>1. Own(r, t, in) /\ Reads(r, t, rows)
    BY <1>1, <1>2, <1>3, <1>5 DEF DraftsHold, DraftOf
  <2>2. Own(r, t, in)'
    BY <1>4, <2>1, OwnLasts
  <2>3. Follows(r, t, rows)'
    <3>1. \A u \in Services : Alike(rows[u], rows[u])
      BY DEF Alike
    <3> QED BY <1>4, <2>1, <3>1, ReadsFollows, FollowsLasts
  <2> QED BY <1>3, <2>2, <2>3
<1>6. CASE t \notin DOMAIN draft[p]
  <2>1. r = row[t] /\ ~Asked(t)
    BY <1>2, <1>3, <1>6
  <2>2. PICK in1, rows1 : in1 = Facts /\ rows1 = row
    OBVIOUS
  <2>3. Own(r, t, in1) /\ Follows(r, t, rows1) /\ InputsOK(in1) /\ RowsOK(rows1)
    BY <1>1, <1>3, <2>1, <2>2, FactsTypes DEF RowOf, RowsOK
  <2>4. /\ in.issue[t] = in1.issue[t] /\ in.proof[t] = in1.proof[t]
        /\ \A x \in WindowSources(t) :
             in.window[x] = in1.window[x] \/ (in.window[x] = NoWindow /\ ~Holds(in1.window[x]))
    <3>1. CASE change[p] = NoChange
      BY <1>1, <1>3, <2>2, <3>1 DEF Given
    <3>2. CASE change[p] # NoChange
      <4>1. PICK ch \in IssueChanges \cup WindowChanges : ch = change[p]
        BY <3>2 DEF Changes
      <4>2. /\ in = Overlaid(ch) /\ ch.on \in DOMAIN draft[p]
            /\ ch.what = "window" => OwnedBy(ch.on) \subseteq DOMAIN draft[p]
        BY <1>1, <1>2, <1>3, <3>2, <4>1 DEF Given, Steps, StepOf, Covered
      <4>3. t # ch.on
        BY <1>6, <4>2
      <4>4. /\ in.issue[t] = issue[t] /\ in.proof = proof
            /\ \A x \in Targets : x # ch.on => in.window[x] = window[x]
            /\ ch.what # "window" => in.window = window
        BY <4>1, <4>2, <4>3, GivenTypes
      <4>5. ASSUME ch.what = "window", NEW x \in WindowSources(t)
            PROVE  x \in Targets /\ x # ch.on
        BY <1>6, <4>2, <4>3, <4>5, SourcesAreTargets DEF WindowSources, OwnedBy
      <4> QED BY <2>2, <4>4, <4>5, SourcesAreTargets DEF Facts
    <3> QED BY <3>1, <3>2
  <2>5. Own(r, t, in)'
    BY <1>4, <2>3, <2>4, OwnLasts
  <2>6. \A u \in Services : t \in Dependents(u) => Alike(rows[u], rows1[u])
    <3>1. Requests(draft[p], t) = 0
      <4>1. work'[t] = work[t] + Requests(draft[p], t) /\ Requests(draft[p], t) \in Nat
        BY <1>2, RequestsCount DEF Land, Write
      <4>2. ~(work'[t] > 0)
        BY DEF Asked
      <4> QED BY <4>1, <4>2
    <3> TAKE u \in Services
    <3> HAVE t \in Dependents(u)
    <3>2. CASE u \in DOMAIN draft[p]
      <4>1. ~FanoutChanged(u, draft[p][u])
        BY <1>2, <3>1, <3>2, RequestsCount
      <4> QED BY <1>2, <1>3, <2>2, <3>2, <4>1 DEF FanoutChanged, Alike
    <3>3. CASE u \notin DOMAIN draft[p]
      BY <1>2, <1>3, <2>2, <3>3 DEF Alike, Targets
    <3> QED BY <3>2, <3>3
  <2>7. Follows(r, t, rows)'
    BY <1>4, <2>3, <2>6, FollowsLasts
  <2> QED BY <1>3, <2>5, <2>7
<1> QED BY <1>5, <1>6

LEMMA RowsKept == Types /\ Types' /\ Steps /\ DraftsHold /\ RowsHold /\ [Next]_vars => RowsHold'
<1> SUFFICES ASSUME Types, Types', Steps, DraftsHold, RowsHold, [Next]_vars, NEW t \in Targets
             PROVE  RowOf(t)'
  BY DEF RowsHold
<1>1. RowOf(t) /\ InputTypes
  BY DEF RowsHold, Types
<1>2. Asked(t) => Asked(t)' \/ \E p \in Planners : Land(p) /\ t \in DOMAIN draft[p]
  BY AskedLasts
<1>3. CASE \E p \in Planners : Land(p) /\ t \in DOMAIN draft[p]
  BY <1>1, <1>3, LandKeepsRow
<1>4. CASE Asked(t) => Asked(t)'
  <2>1. CASE UNCHANGED vars \/ Tick \/ (\E x \in Targets : Expire(x))
    BY <1>1, <1>4, <2>1, WorldSteps, RowLasts
  <2>2. ASSUME NEW p \in Planners, Step(p)
        PROVE  RowOf(t)'
    <3>1. CASE Land(p)
      BY <1>1, <1>4, <3>1, LandKeepsRow
    <3>2. ASSUME NEW x \in Targets, Probe(p, x)
          PROVE  RowOf(t)'
      <4>1. CASE x = t
        <5>1. work'[t] = work[t] + 1 /\ work[t] \in Nat
          BY <3>2, <4>1 DEF Probe, Types
        <5> QED BY <5>1 DEF RowOf, Asked
      <4>2. CASE x # t
        <5>1. SameWorld
          BY <3>2 DEF Probe, SameWorld, Types, InputTypes
        <5>2. issue'[t] = issue[t] /\ proof'[t] = proof[t]
          BY <3>2, <4>2 DEF Probe, Types, InputTypes
        <5> QED BY <1>1, <1>4, <5>1, <5>2, RowLasts
      <4> QED BY <4>1, <4>2
    <3>3. CASE \/ Plan(p) \/ Conflict(p) \/ Vanish(p) \/ Lose(p) \/ Mutation(p)
               \/ \E x \in Targets : TakeWork(p, x)
      BY <1>1, <1>4, <3>3, WorldSteps, RowLasts
    <3> QED BY <2>2, <3>1, <3>2, <3>3 DEF Step
  <2> QED BY <1>1, <2>1, <2>2, NextSteps
<1> QED BY <1>2, <1>3, <1>4

LEMMA InitInv == Init => Inv
<1> SUFFICES ASSUME Init PROVE Inv
  OBVIOUS
<1>1. Types
  BY InitTypes
<1>2. Steps /\ DraftsHold
  BY DEF Init, Steps, StepOf, DraftsHold, DraftOf
<1>3. ASSUME NEW t \in Targets
      PROVE  RowOf(t)
  <2>1. /\ Period \in Nat \ {0} /\ now = 0 /\ window[t] = NoWindow
        /\ \A x \in Targets : window[x] = NoWindow
        /\ issue[t] = "none" /\ proof[t] = [healthy |-> TRUE, until |-> Period]
        /\ \A x \in Targets : row[x] = [direct |-> "operational", risk |-> "none",
                                        effective |-> "operational", until |-> Period]
    BY ReevaluationBoundAssumption DEF Init
  <2>2. \A x \in Targets : FreshStatus(row[x].direct, row[x].until) = "operational"
                           /\ FreshStatus(row[x].effective, row[x].until) = "operational"
    BY <2>1 DEF FreshStatus
  <2>3. WindowsOf(t, Facts) = {}
    <3>1. ~Holds(NoWindow)
      BY <2>1 DEF Holds, NoWindow
    <3>2. \A c \in Components \cap {t} : Owner[c] \in Targets
      BY CatalogAssumption DEF Targets
    <3> QED BY <2>1, <3>1, <3>2 DEF WindowsOf, Facts
  <2>4. Own(row[t], t, Facts)
    <3>1. Direct(t, Facts) = "operational"
      BY <2>1, <2>3 DEF Direct, Facts
    <3>2. Combined(row[t]) = "operational"
      BY <2>1 DEF Combined, Severity
    <3> QED BY <2>1, <2>3, <3>1, <3>2 DEF Own, Facts
  <2>5. \A u \in Services : u \in Targets
    BY DEF Targets
  <2>6. RiskOf(t, row) = "none"
    <3>1. CASE t \in Services
      <4> DEFINE risks == {RiskThrough(FreshStatus(row[u].direct, row[u].until), Width[t][u]) :
                             u \in Below[t]}
      <4>1. \A u \in Below[t] : u \in Targets /\ Width[t][u] \in Nat
        BY <2>5, <3>1, WidthRange DEF Below
      <4>2. \A width \in Nat : RiskThrough("operational", width) = "operational"
        BY DEF RiskThrough, FailureRank, FromFailureRank, Smaller
      <4>3. risks \subseteq {"operational"}
        BY <2>2, <4>1, <4>2
      <4>4. FailureRank("operational") = 0 /\ FromFailureRank(0) = "operational"
        BY DEF FailureRank, FromFailureRank
      <4>5. {0} \cup {FailureRank(r) : r \in risks \ {"unknown"}} = {0}
        BY <4>3, <4>4
      <4>6. Max({0}) = 0
        <5>1. {0} \in SUBSET (0 .. 1) /\ 1 \in Nat /\ {0} # {}
          OBVIOUS
        <5> QED BY <5>1, MaxIsGreatest
      <4>7. "unknown" \notin risks
        BY <4>3
      <4> HIDE DEF risks
      <4>8. StrongestRisk(risks) = "operational"
        BY <4>4, <4>5, <4>6, <4>7 DEF StrongestRisk
      <4> QED BY <3>1, <4>8 DEF RiskOf, ServiceRisk, risks
    <3>2. CASE t \notin Services
      <4>1. \A s \in Services : SupportMeans(FreshStatus(row[s].effective, row[s].until)) = "none"
        BY <2>2, <2>5 DEF SupportMeans
      <4>2. SupportRisks(t, row) = {"none"}
        BY <4>1 DEF SupportRisks
      <4>3. SupportRisk(t, row) = "none"
        <5>1. \A q \in {"none"} : Severity(q) <= Severity("none")
          BY SeverityRange
        <5>2. (CHOOSE r \in {"none"} : \A q \in {"none"} : Severity(q) <= Severity(r)) = "none"
          BY <5>1
        <5>3. SupportRisk(t, row) = CHOOSE r \in SupportRisks(t, row) :
                                      \A q \in SupportRisks(t, row) : Severity(q) <= Severity(r)
          BY SupportRiskIs
        <5> QED BY <4>2, <5>2, <5>3
      <4> QED BY <3>2, <4>3 DEF RiskOf
    <3> QED BY <3>1, <3>2
  <2>7. Reads(row[t], t, row)
    BY <2>1, <2>5, <2>6 DEF Reads, Below
  <2> QED BY <2>4, <2>7, ReadsFollows DEF RowOf
<1> QED BY <1>1, <1>2, <1>3 DEF Inv, RowsHold

-----------------------------------------------------------------------------
(* The theorems.                                                           *)

\* The inductive invariant: drafts that may still land are right for the inputs
\* and rows they will find, and a stored row is, unless somebody has been asked
\* to evaluate its target again, right for its own inputs and for all rows
\* whose changes ask for it.
THEOREM InvariantHolds == Spec => []Inv
<1>1. Inv /\ [Next]_vars => Inv'
  BY TypesKept, StepsKept, DraftsKept, RowsKept DEF Inv
<1> QED BY InitInv, <1>1, PTL DEF Spec

LEMMA TypesGiveTypeOK == Types => TypeOK
<1> SUFFICES ASSUME Types PROVE TypeOK
  OBVIOUS
<1>1. \A r \in Rows : RowOK(r)
  BY DEF Rows, RowOK, Risks
<1>2. \A t \in Targets : /\ window[t].status \in Windows \cup {"none"} /\ window[t].until \in Nat
                         /\ proof[t].healthy \in BOOLEAN /\ proof[t].until \in Nat
  <2>1. \A w \in WindowType : w.status \in Windows \cup {"none"} /\ w.until \in Nat
    BY DEF WindowType, NoWindow
  <2>2. \A f \in ProofType : f.healthy \in BOOLEAN /\ f.until \in Nat
    BY DEF ProofType
  <2> QED BY <2>1, <2>2 DEF Types, InputTypes
<1>3. \A t \in Targets : RowOK(row[t]) /\ work[t] \in Nat
  BY <1>1 DEF Types
<1>4. \A p \in Planners : /\ DOMAIN draft[p] \subseteq Targets
                          /\ \A t \in DOMAIN draft[p] : RowOK(draft[p][t])
  BY <1>1, Replaced DEF Types, PlannerTypes
<1> QED BY <1>2, <1>3, <1>4 DEF Types, InputTypes, PlannerTypes, TypeOK

\* Every variable keeps to its type: a row's status, risk and deadline, a
\* draft's targets, a request counter that is never negative.
THEOREM TypeCorrect == Spec => []TypeOK
BY InvariantHolds, TypesGiveTypeOK, PTL DEF Inv

\* At rest nobody is asked.
LEMMA RestIsUnasked ==
  ASSUME Types, AtRest, NEW t \in Targets
  PROVE  ~Asked(t)
BY DEF AtRest, Asked, Types, PlannerTypes

\* What a full evaluation would make of a row that its own inputs justify.
LEMMA JustifiedRow ==
  ASSUME Types, NEW t \in Targets, NEW rows, Own(row[t], t, Facts)
  PROVE  LET true == Evaluate(t, Facts, rows, {})
         IN  /\ row[t].direct = true.direct /\ true.risk = RiskOf(t, rows)
             /\ row[t].risk = true.risk => row[t].effective = true.effective
BY DEF Own, Evaluate, RiskOf, Combined

\* The planner's fan-out loses nothing: once no request is pending, a row that
\* has not expired gives its target's own inputs their due, hides no failure of
\* a service whose changes ask for it, and is what a full evaluation would give
\* if all that it reads ask for it.
THEOREM NothingForgotten == Spec => []RestIsConsistent
<1>1. Inv => RestIsConsistent
  <2> SUFFICES ASSUME Inv PROVE RestIsConsistent
    OBVIOUS
  <2>1. Types /\ TypeOK
    BY TypesGiveTypeOK DEF Inv
  <2>2. ASSUME AtRest, NEW t \in Targets, row[t].until > now
        PROVE  LET true == Evaluate(t, Facts, row, {}) IN
               /\ row[t].direct = true.direct
               /\ t \in Services => \A s \in Heard(t) :
                    Severity(RiskThrough(FreshStatus(row[s].direct, row[s].until), Width[t][s]))
                      <= Severity(row[t].effective)
               /\ t \in Components \/ Heard(t) = Below[t] =>
                    row[t].risk = true.risk /\ row[t].effective = true.effective
    <3> DEFINE true == Evaluate(t, Facts, row, {})
    <3>1. Own(row[t], t, Facts) /\ Follows(row[t], t, row)
      BY <2>1, <2>2, RestIsUnasked DEF Inv, RowsHold, RowOf
    <3>2. /\ row[t].direct = true.direct /\ true.risk = RiskOf(t, row)
          /\ row[t].risk = true.risk => row[t].effective = true.effective
      BY <2>1, <3>1, JustifiedRow
    <3> HIDE DEF true
    <3>3. Severity(row[t].risk) <= Severity(row[t].effective)
      BY <3>1, SeverityRange DEF Own, Combined
    <3>4. ASSUME t \in Services, NEW s \in Heard(t)
          PROVE  Severity(RiskThrough(FreshStatus(row[s].direct, row[s].until), Width[t][s]))
                   <= Severity(row[t].effective)
      BY <3>1, <3>3, <3>4, SeverityRange DEF Follows
    <3>5. ASSUME t \in Components \/ Heard(t) = Below[t]
          PROVE  row[t].risk = RiskOf(t, row)
      BY <3>1, <3>5, CatalogAssumption DEF Follows, RiskOf, Targets
    <3> QED BY <3>2, <3>4, <3>5 DEF true
  <2> QED BY <2>1, <2>2 DEF RestIsConsistent
<1> QED BY InvariantHolds, <1>1, PTL

\* Where every service depends directly on all that it depends on, the
\* scheduler's promise does hold: at rest, every row that has not expired is
\* what a full evaluation would give.  (On a longer chain it does not.)
THEOREM ShallowGraphsConverge ==
  (\A s \in Services : Heard(s) = Below[s]) /\ Spec => []ConvergesThroughOutbox
<1> SUFFICES ASSUME \A s \in Services : Heard(s) = Below[s]
             PROVE  Spec => []ConvergesThroughOutbox
  OBVIOUS
<1>1. RestIsConsistent => ConvergesThroughOutbox
  BY DEF RestIsConsistent, ConvergesThroughOutbox, Targets
<1> QED BY NothingForgotten, <1>1, PTL

\* No lost update: whatever a planner writes with a deadline that is not over
\* is what the inputs and all other rows amount to at that very moment, however
\* long ago it read them and whoever wrote since.
THEOREM NothingStaleWritten == Spec => WritesWhatHolds
<1>1. ASSUME Inv, Inv', [Next]_vars, NEW t \in Targets, row'[t] # row[t], row'[t].until > now
      PROVE  LET true == Evaluate(t, Facts', row', {}) IN
             /\ row'[t].direct = true.direct
             /\ row'[t].risk = true.risk
             /\ row'[t].effective = true.effective
  <2>1. Types /\ Types' /\ DraftsHold
    BY <1>1 DEF Inv
  <2>2. PICK p \in Planners : Land(p)
    <3>1. InputTypes
      BY <2>1 DEF Types
    <3>2. ~(UNCHANGED vars) /\ ~Tick /\ \A x \in Targets : ~Expire(x)
      BY <1>1 DEF vars, Tick, Expire
    <3>3. PICK p \in Planners : Step(p)
      BY <1>1, <3>1, <3>2, NextSteps
    <3>4. row' # row
      BY <1>1
    <3>5. Land(p)
      BY <3>3, <3>4 DEF Step, Plan, Conflict, Vanish, Lose, Mutation, Mutate, Probe, TakeWork
    <3> QED BY <3>5
  <2>3. /\ Facts' = Given(p) /\ row' = Over(draft[p], row) /\ p \in current
        /\ draft[p] \in Drafts /\ row \in [Targets -> Rows]
    BY <2>1, <2>2, LandTypes DEF Land, SameGeneration, Types, PlannerTypes
  <2>4. t \in DOMAIN draft[p] /\ row'[t] = draft[p][t]
    BY <1>1, <2>3, Replaced
  <2>5. Own(row'[t], t, Given(p)) /\ Reads(row'[t], t, Coming(p))
    BY <1>1, <2>1, <2>3, <2>4 DEF DraftsHold, DraftOf
  <2>6. Own(row'[t], t, Facts') /\ Reads(row'[t], t, row')
    BY <2>3, <2>5 DEF Coming
  <2> QED BY <2>6 DEF Own, Reads, Evaluate, RiskOf, Combined
<1>2. Inv /\ Inv' /\ [Next]_vars =>
        [\A t \in Targets :
           row'[t] # row[t] /\ row'[t].until > now =>
             LET true == Evaluate(t, Facts', row', {}) IN
             /\ row'[t].direct = true.direct
             /\ row'[t].risk = true.risk
             /\ row'[t].effective = true.effective]_vars
  BY <1>1
<1> QED BY InvariantHolds, <1>2, PTL DEF Spec, WritesWhatHolds

-----------------------------------------------------------------------------
(* The line of due monitors.  First, what picking the members of a set from *)
(* a sequence keeps: a recursive function, which exists by induction.       *)

\* What is kept of s up to each place, as far as n.
KeptUpTo(f, s, S, bound) ==
  f = [n \in 0 .. bound |->
         IF n = 0 THEN <<>>
         ELSE IF s[n] \in S THEN Append(f[n - 1], s[n]) ELSE f[n - 1]]

LEMMA KeptExists ==
  ASSUME NEW s, NEW S
  PROVE  \A bound \in Nat : \E f : KeptUpTo(f, s, S, bound)
<1> DEFINE B == {bound \in Nat : \E f : KeptUpTo(f, s, S, bound)}
<1>1. 0 \in B
  <2>1. KeptUpTo([n \in 0 .. 0 |-> <<>>], s, S, 0)
    BY DEF KeptUpTo
  <2> QED BY <2>1
<1>2. ASSUME NEW bound \in Nat, bound \in B
      PROVE  bound + 1 \in B
  <2>1. PICK f : KeptUpTo(f, s, S, bound)
    BY <1>2
  <2> DEFINE last == IF s[bound + 1] \in S THEN Append(f[bound], s[bound + 1]) ELSE f[bound]
             longer == [n \in 0 .. bound + 1 |-> IF n = bound + 1 THEN last ELSE f[n]]
  <2>2. ASSUME NEW n \in 0 .. bound + 1
        PROVE  longer[n] = IF n = 0 THEN <<>>
                           ELSE IF s[n] \in S THEN Append(longer[n - 1], s[n]) ELSE longer[n - 1]
    <3>1. CASE n = bound + 1
      <4>1. n # 0 /\ n - 1 = bound /\ bound \in 0 .. bound + 1 /\ bound # bound + 1
        BY <3>1
      <4>2. longer[n] = last /\ longer[n - 1] = f[bound]
        BY <3>1, <4>1
      <4> QED BY <3>1, <4>1, <4>2
    <3>2. CASE n # bound + 1
      <4>1. n \in 0 .. bound /\ longer[n] = f[n]
            /\ (n # 0 => n - 1 \in 0 .. bound + 1 /\ n - 1 # bound + 1 /\ longer[n - 1] = f[n - 1])
        BY <3>2
      <4>2. f[n] = IF n = 0 THEN <<>>
                   ELSE IF s[n] \in S THEN Append(f[n - 1], s[n]) ELSE f[n - 1]
        BY <2>1, <4>1 DEF KeptUpTo
      <4> QED BY <4>1, <4>2
    <3> QED BY <3>1, <3>2
  <2>3. KeptUpTo(longer, s, S, bound + 1)
    <3>1. longer = [n \in 0 .. bound + 1 |->
                      IF n = 0 THEN <<>>
                      ELSE IF s[n] \in S THEN Append(longer[n - 1], s[n]) ELSE longer[n - 1]]
      <4> HIDE DEF last
      <4> QED BY <2>2
    <3> HIDE DEF longer
    <3> QED BY <3>1 DEF KeptUpTo
  <2> QED BY <2>3
<1> HIDE DEF B
<1>3. Nat \subseteq B
  BY <1>1, <1>2, NatSetInduction
<1> QED BY <1>3 DEF B

\* The members of s up to a place.
Upto(s, n) == {s[i] : i \in 1 .. n}

LEMMA OnlyIs ==
  ASSUME NEW X, NEW s \in Seq(X), NEW S, Due!IsInjective(s)
  PROVE  /\ Due!Only(s, S) \in Seq(X) /\ Due!IsInjective(Due!Only(s, S))
         /\ Due!ToSet(Due!Only(s, S)) = Due!ToSet(s) \cap S
<1> DEFINE Picked(f) == [n \in 0 .. Len(s) |->
             IF n = 0 THEN <<>>
             ELSE IF s[n] \in S THEN Append(f[n - 1], s[n]) ELSE f[n - 1]]
           kept == CHOOSE f : f = Picked(f)
<1>1. Due!Only(s, S) = kept[Len(s)]
  BY DEF Due!Only
<1>2. Len(s) \in Nat /\ s \in [1 .. Len(s) -> X] /\ DOMAIN s = 1 .. Len(s)
  OBVIOUS
<1>3. kept = Picked(kept)
  <2>1. \A f : KeptUpTo(f, s, S, Len(s)) <=> f = Picked(f)
    BY DEF KeptUpTo
  <2>2. \E f : f = Picked(f)
    BY <1>2, <2>1, KeptExists
  <2> HIDE DEF Picked
  <2> QED BY <2>2
<1> HIDE DEF kept
<1> DEFINE Good(t, n) ==
             /\ t \in Seq(X)
             /\ \A i, j \in 1 .. Len(t) : t[i] = t[j] => i = j
             /\ {t[i] : i \in 1 .. Len(t)} = Upto(s, n) \cap S
           B == {n \in Nat : n <= Len(s) => Good(kept[n], n)}
<1>4. 0 \in B
  <2>1. kept[0] = <<>>
    BY <1>2, <1>3
  <2>2. Upto(s, 0) = {}
    BY DEF Upto
  <2>3. Good(<<>>, 0)
    BY <2>2
  <2> HIDE DEF Good
  <2>4. Good(kept[0], 0)
    BY <2>1, <2>3
  <2> QED BY <2>4
<1>5. ASSUME NEW n \in Nat, n \in B
      PROVE  n + 1 \in B
  <2> SUFFICES ASSUME n + 1 <= Len(s) PROVE Good(kept[n + 1], n + 1)
    OBVIOUS
  <2>1. n + 1 \in 0 .. Len(s) /\ n + 1 # 0 /\ (n + 1) - 1 = n /\ n + 1 \in 1 .. Len(s) /\ n <= Len(s)
    BY <1>2
  <2>2. kept[n + 1] = IF s[n + 1] \in S THEN Append(kept[n], s[n + 1]) ELSE kept[n]
    BY <1>3, <2>1
  <2>3. Good(kept[n], n)
    BY <1>5, <2>1
  <2>4. Upto(s, n + 1) = Upto(s, n) \cup {s[n + 1]}
    <3>1. 1 .. n + 1 = (1 .. n) \cup {n + 1}
      BY SMT
    <3> QED BY <3>1 DEF Upto
  <2>5. s[n + 1] \notin Upto(s, n) /\ s[n + 1] \in X
    <3>1. ASSUME NEW i \in 1 .. n PROVE s[i] # s[n + 1]
      BY <1>2, <2>1 DEF Due!IsInjective
    <3> QED BY <1>2, <2>1, <3>1 DEF Upto
  <2> DEFINE old == kept[n]
  <2>6. CASE s[n + 1] \in S
    <3>1. kept[n + 1] = Append(old, s[n + 1])
      BY <2>2, <2>6
    <3> HIDE DEF old
    <3> DEFINE new == Append(old, s[n + 1])
    <3>2. Good(old, n)
      BY <2>3 DEF old
    <3>3. new \in Seq(X) /\ Len(new) = Len(old) + 1 /\ Len(old) \in Nat
          /\ new[Len(old) + 1] = s[n + 1] /\ \A i \in 1 .. Len(old) : new[i] = old[i]
      BY <2>5, <3>2
    <3>4. 1 .. Len(new) = (1 .. Len(old)) \cup {Len(old) + 1} /\ Len(old) + 1 \notin 1 .. Len(old)
      BY <3>3
    <3> HIDE DEF new
    <3>5. {new[i] : i \in 1 .. Len(new)} = {old[i] : i \in 1 .. Len(old)} \cup {s[n + 1]}
      BY <3>3, <3>4
    <3>6. \A i \in 1 .. Len(old) : old[i] # s[n + 1]
      BY <2>5, <3>2
    <3>7. \A i, j \in 1 .. Len(new) : new[i] = new[j] => i = j
      BY <3>2, <3>3, <3>4, <3>6
    <3>8. {new[i] : i \in 1 .. Len(new)} = Upto(s, n + 1) \cap S
      BY <2>4, <2>6, <3>2, <3>5
    <3>9. Good(new, n + 1)
      BY <3>3, <3>7, <3>8
    <3>10. kept[n + 1] = new
      BY <3>1 DEF new
    <3> QED BY <3>9, <3>10
  <2>7. CASE s[n + 1] \notin S
    <3>1. kept[n + 1] = old
      BY <2>2, <2>7
    <3> HIDE DEF old
    <3>2. Good(old, n)
      BY <2>3 DEF old
    <3>3. Upto(s, n + 1) \cap S = Upto(s, n) \cap S
      BY <2>4, <2>7
    <3> QED BY <3>1, <3>2, <3>3
  <2> QED BY <2>6, <2>7
<1> HIDE DEF B
<1>6. Nat \subseteq B
  BY <1>4, <1>5, NatSetInduction
<1>7. Good(kept[Len(s)], Len(s))
  BY <1>2, <1>6 DEF B
<1>8. Due!ToSet(s) = Upto(s, Len(s))
  BY <1>2 DEF Due!ToSet, Upto
<1> DEFINE result == kept[Len(s)]
<1>9. Due!ToSet(result) = Upto(s, Len(s)) \cap S
  <2> HIDE DEF result
  <2> QED BY <1>7 DEF Due!ToSet, result
<1>10. Due!IsInjective(result)
  BY <1>7 DEF Due!IsInjective
<1> HIDE DEF result
<1> QED BY <1>1, <1>7, <1>8, <1>9, <1>10 DEF result

\* SetToSeqs lists every member once.
LEMMA AllOnce ==
  ASSUME NEW R, IsFiniteSet(R), NEW l \in Due!SetToSeqs(R)
  PROVE  l \in Seq(R) /\ Due!IsInjective(l) /\ Due!ToSet(l) = R
<1> DEFINE N == Cardinality(R)
<1>1. Due!Cardinality(R) = N
  BY DEF Due!Cardinality, Cardinality
<1>2. N \in Nat
  BY FS_CardinalityType
<1>3. l \in [1 .. N -> R] /\ \A i, j \in 1 .. N : i # j => l[i] # l[j]
  BY <1>1 DEF Due!SetToSeqs
<1>4. IsFiniteSet(1 .. N) /\ Cardinality(1 .. N) = N
  BY <1>2, FS_Interval
<1> HIDE DEF N
<1>5. l \in Injection(1 .. N, R)
  BY <1>3 DEF Injection, IsInjective
<1>6. l \in Surjection(1 .. N, R)
  BY <1>4, <1>5, FS_Injection DEF N
<1>7. l \in Seq(R) /\ DOMAIN l = 1 .. N
  BY <1>2, <1>3
<1> QED BY <1>3, <1>6, <1>7 DEF Due!IsInjective, Due!ToSet, Surjection

\* Two lines that share nobody, one after the other.
LEMMA InLineIs ==
  ASSUME NEW X, NEW old \in Seq(X), NEW new \in Seq(X),
         Due!IsInjective(old), Due!IsInjective(new), Due!ToSet(old) \cap Due!ToSet(new) = {}
  PROVE  /\ Due!InLine(old, new) \in Seq(X) /\ Due!IsInjective(Due!InLine(old, new))
         /\ Due!ToSet(Due!InLine(old, new)) = Due!ToSet(old) \cup Due!ToSet(new)
<1> DEFINE both == old \o new
           m == Len(old)
           n == Len(new)
<1>1. m \in Nat /\ n \in Nat /\ DOMAIN old = 1 .. m /\ DOMAIN new = 1 .. n
  OBVIOUS
<1>2. both \in Seq(X) /\ Len(both) = m + n
  OBVIOUS
<1>3. \A i \in 1 .. m : both[i] = old[i] /\ i \in 1 .. m + n
  BY <1>1
<1>4. \A i \in 1 .. n : both[m + i] = new[i] /\ m + i \in 1 .. m + n
  BY <1>1
<1>5. DOMAIN both = 1 .. m + n
  BY <1>2
<1>6. \A k \in 1 .. m + n : k \in 1 .. m \/ \E i \in 1 .. n : k = m + i
  <2> TAKE k \in 1 .. m + n
  <2>1. k \notin 1 .. m => k - m \in 1 .. n /\ k = m + (k - m)
    BY <1>1
  <2> QED BY <2>1
<1>7. \A i \in 1 .. m, j \in 1 .. n : old[i] # new[j]
  BY <1>1 DEF Due!ToSet
<1> HIDE DEF both
<1>8. \A i, j \in 1 .. m : old[i] = old[j] => i = j
  BY <1>1 DEF Due!IsInjective
<1>9. \A i, j \in 1 .. n : new[i] = new[j] => i = j
  BY <1>1 DEF Due!IsInjective
<1> HIDE DEF m, n
<1>10. ASSUME NEW i \in 1 .. m + n, NEW j \in 1 .. m + n, both[i] = both[j]
       PROVE  i = j
  <2>1. CASE i \in 1 .. m /\ j \in 1 .. m
    BY <1>3, <1>8, <1>10, <2>1
  <2>2. CASE i \in 1 .. m /\ j \notin 1 .. m
    BY <1>3, <1>4, <1>6, <1>7, <1>10, <2>2
  <2>3. CASE i \notin 1 .. m /\ j \in 1 .. m
    BY <1>3, <1>4, <1>6, <1>7, <1>10, <2>3
  <2>4. CASE i \notin 1 .. m /\ j \notin 1 .. m
    BY <1>4, <1>6, <1>9, <1>10, <2>4
  <2> QED BY <2>1, <2>2, <2>3, <2>4
<1>11. Due!IsInjective(both)
  BY <1>5, <1>10 DEF Due!IsInjective
<1>12. Due!ToSet(both) = Due!ToSet(old) \cup Due!ToSet(new)
  <2>1. \A k \in 1 .. m + n :
          both[k] \in {old[i] : i \in 1 .. m} \cup {new[i] : i \in 1 .. n}
    BY <1>3, <1>4, <1>6
  <2>2. {old[i] : i \in 1 .. m} \subseteq {both[k] : k \in 1 .. m + n}
    BY <1>3
  <2>3. {new[i] : i \in 1 .. n} \subseteq {both[k] : k \in 1 .. m + n}
    BY <1>4
  <2>4. {both[k] : k \in 1 .. m + n} = {old[i] : i \in 1 .. m} \cup {new[i] : i \in 1 .. n}
    BY <2>1, <2>2, <2>3
  <2> QED BY <1>1, <1>5, <2>4 DEF Due!ToSet, m, n
<1> QED BY <1>2, <1>11, <1>12 DEF Due!InLine, both

\* The first of a line.
LEMMA FirstOf ==
  ASSUME NEW X, NEW s \in Seq(X), Due!IsInjective(s), NEW k \in 0 .. Len(s)
  PROVE  /\ SubSeq(s, 1, k) \in Seq(X) /\ Due!IsInjective(SubSeq(s, 1, k))
         /\ Due!ToSet(SubSeq(s, 1, k)) \subseteq Due!ToSet(s)
<1> DEFINE t == SubSeq(s, 1, k)
<1>1. Len(s) \in Nat /\ k \in Nat /\ k <= Len(s) /\ DOMAIN s = 1 .. Len(s)
  <2>1. Len(s) \in Nat /\ DOMAIN s = 1 .. Len(s)
    OBVIOUS
  <2> DEFINE n == Len(s)
  <2>2. k \in 0 .. n /\ n \in Nat
    BY <2>1
  <2> HIDE DEF n
  <2>3. k \in Nat /\ k <= n
    BY <2>2
  <2> QED BY <2>1, <2>3 DEF n
<1>2. t \in Seq(X) /\ Len(t) = k /\ DOMAIN t = 1 .. k /\ \A i \in 1 .. k : t[i] = s[i]
  BY <1>1
<1> HIDE DEF t
<1>3. 1 .. k \subseteq 1 .. Len(s)
  BY <1>1
<1> QED BY <1>1, <1>2, <1>3 DEF Due!IsInjective, Due!ToSet, t

LEMMA LineBegins == Due!QInit => Due!QTypeOK
<1> SUFFICES ASSUME Due!QInit PROVE Due!QTypeOK
  OBVIOUS
<1>1. line \in Seq(Monitors) /\ Due!IsInjective(line) /\ Due!ToSet(line) = Monitors
  BY AllOnce, LineAssumption DEF Due!QInit, Due!Lines
<1>2. pending \in Seq(Monitors) /\ Due!IsInjective(pending) /\ Due!ToSet(pending) = {}
  BY DEF Due!QInit, Due!IsInjective, Due!ToSet
<1>3. 0 \in 0 .. Interval /\ 0 \in 0 .. LeaseTicks
  BY LineAssumption
<1> QED BY <1>1, <1>2, <1>3 DEF Due!QInit, Due!QTypeOK

LEMMA NoneLeft == Due!IsInjective(<<>>) /\ Due!ToSet(<<>>) = {} /\ <<>> \in Seq(Monitors)
BY DEF Due!IsInjective, Due!ToSet

\* Who has run leaves the line and rests.
LEMMA LeaveKeeps ==
  ASSUME Due!QTypeOK, NEW done \in SUBSET Due!ToSet(line), Due!Leave(done)
  PROVE  /\ line' \in Seq(Monitors) /\ Due!IsInjective(line')
         /\ Due!ToSet(line') = Due!ToSet(line) \ done
         /\ rest' \in [Monitors -> 0 .. Interval]
         /\ Due!ToSet(line') = {m \in Monitors : rest'[m] = 0}
<1>1. line \in Seq(Monitors) /\ Due!IsInjective(line) /\ line' = Due!Only(line, Monitors \ done)
  BY DEF Due!QTypeOK, Due!Leave
<1>2. line' \in Seq(Monitors) /\ Due!IsInjective(line')
      /\ Due!ToSet(line') = Due!ToSet(line) \cap (Monitors \ done)
  BY <1>1, OnlyIs
<1>3. Due!ToSet(line) = {m \in Monitors : rest[m] = 0} /\ rest \in [Monitors -> 0 .. Interval]
  BY DEF Due!QTypeOK
<1>4. rest' = [m \in Monitors |-> IF m \in done THEN Interval ELSE rest[m]]
  BY DEF Due!Leave
<1>5. Interval \in 0 .. Interval /\ Interval # 0
  BY LineAssumption
<1> QED BY <1>2, <1>3, <1>4, <1>5

LEMMA LineBegin == Due!QTypeOK /\ Due!Begin => Due!QTypeOK'
<1> SUFFICES ASSUME Due!QTypeOK, Due!Begin PROVE Due!QTypeOK'
  OBVIOUS
<1> DEFINE Back == {m \in Monitors : rest[m] = 1}
           Unheld == {m \in Monitors : lease'[m] = 0}
           free == Due!Only(line', Unheld)
           first == IF Len(free) < Limit THEN Len(free) ELSE Limit
           rows == SubSeq(free, 1, first)
<1>1. /\ line \in Seq(Monitors) /\ Due!IsInjective(line)
      /\ Due!ToSet(line) = {m \in Monitors : rest[m] = 0}
      /\ rest \in [Monitors -> 0 .. Interval] /\ lease \in [Monitors -> 0 .. LeaseTicks]
  BY DEF Due!QTypeOK
<1>2. rest' = Due!Minus1(rest) /\ lease' = Due!Minus1(lease) /\ phase' = "waves"
  BY DEF Due!Begin
<1>3. rest' \in [Monitors -> 0 .. Interval] /\ lease' \in [Monitors -> 0 .. LeaseTicks]
  <2>1. Interval \in Nat /\ LeaseTicks \in Nat
    BY LineAssumption
  <2> QED BY <1>1, <1>2, <2>1 DEF Due!Minus1
<1>4. {m \in Monitors : rest'[m] = 0} = Due!ToSet(line) \cup Back
  <2>1. \A m \in Monitors : rest[m] \in Nat
    BY <1>1, LineAssumption
  <2> QED BY <1>1, <1>2, <2>1 DEF Due!Minus1
<1>5. PICK new \in Due!SetToSeqs(Back) : line' = Due!InLine(line, new)
  BY DEF Due!Begin
<1>6. new \in Seq(Back) /\ Due!IsInjective(new) /\ Due!ToSet(new) = Back
  <2>1. IsFiniteSet(Back)
    BY LineAssumption, FS_Subset
  <2> HIDE DEF Back
  <2> QED BY <1>5, <2>1, AllOnce
<1>7. new \in Seq(Monitors) /\ Due!ToSet(line) \cap Due!ToSet(new) = {}
  BY <1>1, <1>6
<1> HIDE DEF Back
<1>8. /\ line' \in Seq(Monitors) /\ Due!IsInjective(line')
      /\ Due!ToSet(line') = {m \in Monitors : rest'[m] = 0}
  BY <1>1, <1>4, <1>5, <1>6, <1>7, InLineIs
<1>9. /\ free \in Seq(Monitors) /\ Due!IsInjective(free)
      /\ Due!ToSet(free) = Due!ToSet(line') \cap Unheld
  <2> HIDE DEF Unheld
  <2> QED BY <1>8, OnlyIs
<1>10. pending' = Due!Only(rows, Monitors \ Unready)
  BY DEF Due!Begin
<1> HIDE DEF free
<1>11. first \in 0 .. Len(free)
  <2>1. Len(free) \in Nat /\ Limit \in Nat
    BY <1>9, LineAssumption
  <2> QED BY <2>1
<1> HIDE DEF first
<1>12. rows \in Seq(Monitors) /\ Due!IsInjective(rows) /\ Due!ToSet(rows) \subseteq Due!ToSet(free)
  BY <1>9, <1>11, FirstOf
<1> HIDE DEF rows
<1>13. /\ pending' \in Seq(Monitors) /\ Due!IsInjective(pending')
       /\ Due!ToSet(pending') = Due!ToSet(rows) \cap (Monitors \ Unready)
  BY <1>10, <1>12, OnlyIs
<1>14. Due!ToSet(pending') \subseteq {m \in Due!ToSet(line') \ Unready : lease'[m] = 0}
  BY <1>9, <1>12, <1>13
<1> QED BY <1>2, <1>3, <1>8, <1>13, <1>14 DEF Due!QTypeOK, Due!IsInjective, Due!ToSet

LEMMA InWaveIs ==
  ASSUME Due!QTypeOK, NEW done \in Due!Runs
  PROVE  /\ Due!InWave \subseteq Due!ToSet(pending) /\ done \subseteq Due!InWave
         /\ done \in SUBSET Due!ToSet(line)
<1>1. Due!InWave \subseteq Due!ToSet(pending)
  BY DEF Due!InWave, Due!ToSet
<1> QED BY <1>1 DEF Due!Runs, Due!QTypeOK

LEMMA LineWave ==
  ASSUME Due!QTypeOK, NEW done \in Due!Runs, Due!Wave(done)
  PROVE  Due!QTypeOK'
<1>1. Due!Leave(done) /\ pending' = Due!Only(pending, Monitors \ Due!InWave)
      /\ phase' \in {"waves", "over"} /\ lease' = lease
  BY DEF Due!Wave
<1>2. pending \in Seq(Monitors) /\ Due!IsInjective(pending)
      /\ Due!ToSet(pending) \subseteq {m \in Due!ToSet(line) \ Unready : lease[m] = 0}
      /\ lease \in [Monitors -> 0 .. LeaseTicks]
  BY DEF Due!QTypeOK
<1>3. pending' \in Seq(Monitors) /\ Due!IsInjective(pending')
      /\ Due!ToSet(pending') = Due!ToSet(pending) \cap (Monitors \ Due!InWave)
  BY <1>1, <1>2, OnlyIs
<1>4. Due!ToSet(pending') \subseteq {m \in Due!ToSet(line') \ Unready : lease'[m] = 0}
  <2>1. done \subseteq Due!InWave /\ Due!ToSet(line') = Due!ToSet(line) \ done
    BY <1>1, InWaveIs, LeaveKeeps
  <2> QED BY <1>1, <1>2, <1>3, <2>1
<1>5. /\ line' \in Seq(Monitors) /\ Due!IsInjective(line')
      /\ Due!ToSet(line') = {m \in Monitors : rest'[m] = 0}
      /\ rest' \in [Monitors -> 0 .. Interval]
  BY <1>1, InWaveIs, LeaveKeeps
<1> QED BY <1>1, <1>2, <1>3, <1>4, <1>5 DEF Due!QTypeOK, Due!IsInjective, Due!ToSet

LEMMA LineCutOff ==
  ASSUME Due!QTypeOK, NEW done \in Due!Runs, Due!CutOff(done)
  PROVE  Due!QTypeOK'
<1>1. Due!Leave(done) /\ pending' = <<>> /\ phase' = "idle"
  BY DEF Due!CutOff
<1>2. lease' \in [Monitors -> 0 .. LeaseTicks]
  <2>1. LeaseTicks \in 0 .. LeaseTicks /\ lease \in [Monitors -> 0 .. LeaseTicks]
    BY LineAssumption DEF Due!QTypeOK
  <2> QED BY <2>1 DEF Due!CutOff
<1>3. /\ line' \in Seq(Monitors) /\ Due!IsInjective(line')
      /\ Due!ToSet(line') = {m \in Monitors : rest'[m] = 0}
      /\ rest' \in [Monitors -> 0 .. Interval]
  BY <1>1, InWaveIs, LeaveKeeps
<1> QED BY <1>1, <1>2, <1>3, NoneLeft DEF Due!QTypeOK, Due!IsInjective, Due!ToSet

LEMMA LineKeeps == Due!QTypeOK /\ [Due!QNext]_monitors => Due!QTypeOK'
<1> SUFFICES ASSUME Due!QTypeOK, [Due!QNext]_monitors PROVE Due!QTypeOK'
  OBVIOUS
<1>1. CASE Due!Begin
  BY <1>1, LineBegin
<1>2. CASE Due!EndTick
  BY <1>2, NoneLeft DEF Due!EndTick, Due!QTypeOK, Due!IsInjective, Due!ToSet
<1>3. ASSUME NEW done \in Due!Runs, Due!Wave(done) \/ Due!CutOff(done)
      PROVE  Due!QTypeOK'
  BY <1>3, LineWave, LineCutOff
<1>4. CASE UNCHANGED monitors
  BY <1>4 DEF monitors, Due!QTypeOK, Due!IsInjective, Due!ToSet
<1> QED BY <1>1, <1>2, <1>3, <1>4 DEF Due!QNext

-----------------------------------------------------------------------------
(* The diagnostic queue: the theorems about it, told of the part.           *)

Proved == INSTANCE DiagnosticPipeline_proofs WITH
  MaxChanges <- ForeignChanges, pc <- step, changes <- foreign

LEMMA SameQueue ==
  /\ Queue!PipelineInit <=> Proved!PipelineInit
  /\ Queue!PipelineNext <=> Proved!PipelineNext
  /\ Queue!NothingLost <=> Proved!NothingLost
<1>1. Queue!PipelineInit <=> Proved!PipelineInit
  BY DEF Queue!Init, Proved!Init,
         Queue!PipelineInit, Proved!PipelineInit,
         Queue!NoSnap, Proved!NoSnap
<1>2. Queue!PipelineNext <=> Proved!PipelineNext
  BY DEF Queue!Current, Proved!Current, Queue!FirstFault, Proved!FirstFault,
         Queue!OutOfOrder, Proved!OutOfOrder, Queue!LateFault, Proved!LateFault,
         Queue!Confirmed, Proved!Confirmed, Queue!StateAfterFault, Proved!StateAfterFault,
         Queue!NextFault, Proved!NextFault, Queue!AfterFault, Proved!AfterFault,
         Queue!Causal, Proved!Causal, Queue!Recovered, Proved!Recovered,
         Queue!AfterRecovery, Proved!AfterRecovery, Queue!FaultWrites, Proved!FaultWrites,
         Queue!RecoveryWrites, Proved!RecoveryWrites, Queue!Effect, Proved!Effect,
         Queue!Revise, Proved!Revise, Queue!Suppressed, Proved!Suppressed,
         Queue!Acknowledged, Proved!Acknowledged,
         Queue!SuppressionExpired, Proved!SuppressionExpired,
         Queue!ProbeRecovered, Proved!ProbeRecovered, Queue!ProbeOutcomes, Proved!ProbeOutcomes,
         Queue!Interventions, Proved!Interventions, Queue!Intervene, Proved!Intervene,
         Queue!pipeline, Proved!pipeline, Queue!vars, Proved!vars, Queue!NoSnap, Proved!NoSnap,
         Queue!Payload, Proved!Payload, Queue!Verdict, Proved!Verdict,
         Queue!Receive, Proved!Receive, Queue!LookUp, Proved!LookUp,
         Queue!TakeSnapshot, Proved!TakeSnapshot, Queue!Guard, Proved!Guard,
         Queue!Public, Proved!Public, Queue!Commit, Proved!Commit, Queue!Drop, Proved!Drop,
         Queue!Ack, Proved!Ack, Queue!Requeue, Proved!Requeue, Queue!Retry, Proved!Retry,
         Queue!DeadLetter, Proved!DeadLetter, Queue!CallFails, Proved!CallFails,
         Queue!Crash, Proved!Crash, Queue!OtherWriter, Proved!OtherWriter,
         Queue!StatusChanges, Proved!StatusChanges, Queue!Work, Proved!Work,
         Queue!PipelineNext, Proved!PipelineNext
<1>3. Queue!NothingLost <=> Proved!NothingLost
  BY DEF Queue!NothingLost, Proved!NothingLost
<1> QED BY <1>1, <1>2, <1>3

\* The subject moves, the other parts stay.
LEMMA PartsMove ==
  [SettlingNext]_<<subject, vars, messages, monitors>> =>
    [Queue!PipelineNext]_messages /\ [Due!QNext]_monitors
BY DEF SettlingNext, messages, monitors

\* However messages are delivered, refused, retried and given up, none leaves the
\* queue unless its event took effect with its body or it is a dead letter; and
\* however ticks begin, run out of time and are cut off, the line has every due
\* monitor once, and nobody probes what another invocation holds.
THEOREM NothingIsForgotten == SettlingSpec => []NothingLost
<1>1. /\ Proved!PolicyAssumption /\ Proved!PayloadAssumption
      /\ Proved!MessageAssumption /\ Proved!AttemptAssumption
  BY QueueAssumption DEF Proved!PolicyAssumption, Proved!PayloadAssumption,
     Proved!MessageAssumption, Proved!AttemptAssumption
<1>2. SettlingSpec => []Due!QTypeOK
  <2>1. SettlingInit => Due!QTypeOK
    BY LineBegins DEF SettlingInit
  <2> QED BY <2>1, PartsMove, LineKeeps, PTL DEF SettlingSpec
<1>3. SettlingSpec => Proved!PipelineSpec
  <2>1. SettlingInit => Proved!PipelineInit
    BY SameQueue DEF SettlingInit
  <2>2. [Queue!PipelineNext]_messages => [Proved!PipelineNext]_Proved!vars
    BY SameQueue DEF messages, Proved!vars, Proved!pipeline
  <2> QED BY <2>1, <2>2, PartsMove, PTL DEF SettlingSpec, Proved!PipelineSpec
<1>4. Proved!PipelineSpec => []Proved!NothingLost
  BY <1>1, Proved!NothingIsLost, PTL
<1>5. Due!QTypeOK /\ Proved!NothingLost => NothingLost
  BY SameQueue DEF NothingLost
<1> QED BY <1>2, <1>3, <1>4, <1>5, PTL
=============================================================================
