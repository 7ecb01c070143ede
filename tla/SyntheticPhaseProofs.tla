-------------------------- MODULE SyntheticPhaseProofs --------------------------
(***************************************************************************)
(* Proofs about the Stage 6C phase for any calendar, embargo and label     *)
(* length, any inventories and any number of late enrolments and           *)
(* corrections: the folds never leak, a seal matches its sources, Holm's   *)
(* procedure is the closed test, and sealed trades are accountable.        *)
(***************************************************************************)
EXTENDS SyntheticPhase, FiniteSetTheorems, WellFoundedInduction, TLAPS

-----------------------------------------------------------------------------
(* The calendar. *)

(* Years follow each other, and all of them precede the holdout: what        *)
(* _window_bounds relies on when it places a fold.                          *)
LEMMA YearsInOrder ==
    ASSUME NEW y \in FoldYears
    PROVE  /\ YearStart(y) \in Nat /\ YearStart(y + 1) \in Nat /\ HoldoutStart \in Nat
           /\ YearStart(y) < YearStart(y + 1) /\ YearStart(y + 1) <= HoldoutStart
<1>1. YearLength \in Nat /\ YearLength > 0
  BY FoldConstants
<1>2. y \in {2022, 2023, 2024, 2025}
  BY DEF FoldYears
<1> QED
  BY <1>1, <1>2, SMTT(30) DEF YearStart, HoldoutStart, FirstYear, HoldoutYear

(* The later fold starts no earlier than the earlier one.                   *)
LEMMA YearsMonotone ==
    ASSUME NEW y \in FoldYears, NEW z \in FoldYears, y <= z
    PROVE  YearStart(y) <= YearStart(z)
<1>1. YearLength \in Nat /\ YearLength > 0
  BY FoldConstants
<1>2. y \in {2022, 2023, 2024, 2025} /\ z \in {2022, 2023, 2024, 2025}
  BY DEF FoldYears
<1> QED
  BY <1>1, <1>2, SMTT(30) DEF YearStart, FirstYear

(* What the plan of a constructible inventory separates: the labels it      *)
(* trains on from the candidates it judges, the folds from each other, and  *)
(* everything judged from the holdout.                                      *)
Separated(p) ==
    \A y, z \in FoldYears : y <= z =>
        /\ \A t \in p.folds[y].training, e \in p.folds[z].evaluation : t.labelEnd + Embargo < e.decision
        /\ y # z => p.folds[y].evaluation \cap p.folds[z].evaluation = {}
        /\ \A e \in p.folds[y].evaluation : (e.decision..e.labelEnd) \cap (HoldoutStart..(HoldoutStart + MaxLabel)) = {}

LEMMA PlansSeparate ==
    ASSUME NEW i, IsInventory(i)
    PROVE  Separated(PlanOf(i))
<1>1. \A c \in i : c.decision \in Nat /\ c.labelEnd \in Nat
  BY DEF IsInventory, IsCandidate
<1>2. Embargo \in Nat
  BY FoldConstants
<1>3. \A y \in FoldYears : /\ PlanOf(i).folds[y].training = Training(i, y)
                           /\ PlanOf(i).folds[y].evaluation = Evaluation(i, y)
  BY DEF PlanOf
<1> SUFFICES ASSUME NEW y \in FoldYears, NEW z \in FoldYears, y <= z
             PROVE  /\ \A t \in Training(i, y), e \in Evaluation(i, z) : t.labelEnd + Embargo < e.decision
                    /\ y # z => Evaluation(i, y) \cap Evaluation(i, z) = {}
                    /\ \A e \in Evaluation(i, y) : (e.decision..e.labelEnd) \cap (HoldoutStart..(HoldoutStart + MaxLabel)) = {}
  BY <1>3 DEF Separated
<1>4. ASSUME NEW t \in Training(i, y), NEW e \in Evaluation(i, z)
      PROVE  t.labelEnd + Embargo < e.decision
  <2>1. t \in i /\ t.labelEnd < YearStart(y) - Embargo
    BY DEF Training
  <2>2. e \in i /\ YearStart(z) <= e.decision
    BY DEF Evaluation
  <2>3. YearStart(y) \in Nat /\ YearStart(z) \in Nat /\ YearStart(y) <= YearStart(z)
    BY YearsInOrder, YearsMonotone
  <2> QED
    BY <1>1, <1>2, <2>1, <2>2, <2>3
<1>5. ASSUME y # z
      PROVE  Evaluation(i, y) \cap Evaluation(i, z) = {}
  BY <1>5 DEF Evaluation
<1>6. ASSUME NEW e \in Evaluation(i, y)
      PROVE  (e.decision..e.labelEnd) \cap (HoldoutStart..(HoldoutStart + MaxLabel)) = {}
  <2>1. e \in i /\ e.labelEnd < HoldoutStart
    BY DEF Evaluation
  <2>2. HoldoutStart \in Nat /\ MaxLabel \in Nat
    BY YearsInOrder, FoldConstants
  <2> QED
    BY <1>1, <2>1, <2>2
<1> QED
  BY <1>4, <1>5, <1>6

-----------------------------------------------------------------------------
(* The folds. *)

(* A plan is that of an inventory that was constructible when it was made,  *)
(* even if candidates have been enrolled since.                             *)
PlanInvariant ==
    /\ IsInventory(inventory)
    /\ plan = None \/ \E i : IsInventory(i) /\ plan = PlanOf(i)

THEOREM PlansComeFromInventories == Spec => []PlanInvariant
<1>1. Init => PlanInvariant
  BY StudiesAreConstructible DEF Init, PlanInvariant
<1>2. PlanInvariant /\ [Next]_vars => PlanInvariant'
  <2> SUFFICES ASSUME PlanInvariant, [Next]_vars
               PROVE  PlanInvariant'
    OBVIOUS
  <2>1. ASSUME NEW c \in LateCandidates, EnrolLate(c)
        PROVE  PlanInvariant'
    BY <2>1 DEF EnrolLate, PlanInvariant
  <2>2. CASE PlanFolds
    BY <2>2 DEF PlanFolds, PlanInvariant
  <2>3. CASE UNCHANGED <<inventory, plan>>
    BY <2>3 DEF PlanInvariant
  <2>4. ASSUME NEW x \in Corrections, Correct(x.series, x.nav)
        PROVE  UNCHANGED <<inventory, plan>>
    BY <2>4 DEF Correct
  <2>5. ASSUME NEW a \in Attestations, Reattest(a)
        PROVE  UNCHANGED <<inventory, plan>>
    BY <2>5 DEF Reattest
  <2>6. ASSUME AuditCoverage \/ Replay \/ Bind \/ Evaluate \/ UNCHANGED vars
        PROVE  UNCHANGED <<inventory, plan>>
    BY <2>6 DEF AuditCoverage, Replay, Bind, Evaluate, vars
  <2> QED
    BY <2>1, <2>2, <2>3, <2>4, <2>5, <2>6 DEF Next
<1> QED
  BY <1>1, <1>2, PTL DEF Spec

(* build_stage6c_walk_forward_folds: whatever the folds were planned from,  *)
(* training stays before the embargo, folds are disjoint, and no judged     *)
(* window reaches the holdout.                                              *)
THEOREM PhaseNoLeakage == Spec => []NoLeakage
<1>1. PlanInvariant => NoLeakage
  <2> SUFFICES ASSUME PlanInvariant, plan # None
               PROVE  Separated(plan)
    BY DEF NoLeakage, Separated
  <2> QED
    BY PlansSeparate DEF PlanInvariant
<1> QED
  BY <1>1, PlansComeFromInventories, PTL

-----------------------------------------------------------------------------
(* The seal. *)

(* The gate passes only what its own recomputation confirms.                *)
LEMMA PassedMeansRecomputed ==
    ASSUME NEW source, NEW draws, GateVerdict(source, draws).status = "GATE_FORMULA_PASSED"
    PROVE  /\ source.plan = PlanOf(source.inventory)
           /\ source.coverage = AuditOf(source.inventory, source.plan)
           /\ source.coverage.status = "COVERAGE_READY"
           /\ \A s \in Series : source.results[s] = KernelOf(source.navs[s])
<1>1. GatePrecheck(source) = {}
  BY DEF GateVerdict, Verdict
<1>2. FoldReplayFaults(source) = {} /\ CaseReplayFaults(source) = {} /\ FrictionFaults(source) = {}
  BY <1>1 DEF GatePrecheck
<1>3. source.plan = PlanOf(source.inventory)
  BY <1>1 DEF GatePrecheck
<1>4. source.coverage = AuditOf(source.inventory, source.plan) /\ source.coverage.status = "COVERAGE_READY"
  BY <1>1, <1>3 DEF GatePrecheck
<1>5. \A y \in FoldYears : source.results[FoldSeries(y)] = KernelOf(source.navs[FoldSeries(y)])
  BY <1>2 DEF FoldReplayFaults
<1>6. \A i \in Family : source.results[CaseSeries(i)] = KernelOf(source.navs[CaseSeries(i)])
  BY <1>2 DEF CaseReplayFaults
<1>7. source.results[FrictionSeries] = KernelOf(source.navs[FrictionSeries])
  BY <1>2 DEF FrictionFaults
<1> QED
  BY <1>3, <1>4, <1>5, <1>6, <1>7 DEF Series

(* Of the phase's answers only one that passed the gate is called sealed.   *)
LEMMA SealedMeansPassed ==
    ASSUME NEW source, NEW draws, PhaseSeal(source, draws).status = "SEALED"
    PROVE  GateVerdict(source, draws).status = "GATE_FORMULA_PASSED"
<1> DEFINE status == GateVerdict(source, draws).status
<1>1. PhaseStatus[status] = "SEALED"
  BY DEF PhaseSeal, AfterGate, Seal
<1>2. status \in {"GATE_FORMULA_PASSED", "INSUFFICIENT_EVIDENCE", "REVISE_REQUIRED", "PRECHECK_BLOCKED", "RAISED"}
  BY DEF GateVerdict, FormulaVerdict, Verdict
<1> HIDE DEF status
<1>3. status = "GATE_FORMULA_PASSED"
  BY <1>1, <1>2 DEF PhaseStatus
<1> QED
  BY <1>3 DEF status

(* evaluate_stage6c_synthetic_phase: what a seal was computed from still    *)
(* recomputes to itself, however the study was revised before it.           *)
THEOREM PhaseSealMatches == Spec => []SealMatchesItsSources
<1> USE DEF Unsealed
<1>1. Init => SealMatchesItsSources
  BY DEF Init, SealMatchesItsSources, Sealed
<1>2. SealMatchesItsSources /\ [Next]_vars => SealMatchesItsSources'
  <2> SUFFICES ASSUME SealMatchesItsSources, [Next]_vars
               PROVE  SealMatchesItsSources'
    OBVIOUS
  <2>1. CASE seal' = None
    BY <2>1 DEF SealMatchesItsSources, Sealed
  <2>2. ASSUME NEW c \in LateCandidates, EnrolLate(c)
        PROVE  seal' = None
    BY <2>2 DEF EnrolLate
  <2>3. ASSUME NEW x \in Corrections, Correct(x.series, x.nav)
        PROVE  seal' = None
    BY <2>3 DEF Correct
  <2>4. ASSUME NEW a \in Attestations, Reattest(a)
        PROVE  seal' = None
    BY <2>4 DEF Reattest
  <2>5. ASSUME PlanFolds \/ AuditCoverage \/ Replay \/ Bind
        PROVE  seal' = None
    BY <2>5 DEF PlanFolds, AuditCoverage, Replay, Bind
  <2>6. CASE Evaluate
    <3> DEFINE source == Source(bound.cases, bound.friction, bound.champion)
    <3>1. seal' = PhaseSeal(source, evidence.draws)
      BY <2>6 DEF Evaluate
    <3>2. UNCHANGED <<inventory, evidence, plan, coverage, replays>>
      BY <2>6 DEF Evaluate
    <3>3. /\ source.inventory = inventory /\ source.plan = plan /\ source.coverage = coverage
          /\ source.navs = evidence.navs /\ source.results = replays.results
      BY DEF Source
    <3> HIDE DEF source
    <3> SUFFICES ASSUME Sealed'
                 PROVE  SealMatchesItsSources'
      BY DEF SealMatchesItsSources
    <3>4. PhaseSeal(source, evidence.draws).status = "SEALED"
      BY <3>1 DEF Sealed
    <3>5. /\ source.plan = PlanOf(source.inventory)
          /\ source.coverage = AuditOf(source.inventory, source.plan)
          /\ source.coverage.status = "COVERAGE_READY"
          /\ \A s \in Series : source.results[s] = KernelOf(source.navs[s])
      BY <3>4, SealedMeansPassed, PassedMeansRecomputed
    <3> QED
      BY <3>2, <3>3, <3>5 DEF SealMatchesItsSources
  <2>7. CASE UNCHANGED vars
    BY <2>7 DEF vars, SealMatchesItsSources, Sealed
  <2> QED
    BY <2>1, <2>2, <2>3, <2>4, <2>5, <2>6, <2>7 DEF Next
<1> QED
  BY <1>1, <1>2, PTL DEF Spec

-----------------------------------------------------------------------------
(* Holm's step-down. *)

Less == {ss \in Nat \X Nat : ss[1] < ss[2]}

(* Every set of naturals that is not empty has a least element. *)
LEMMA LessWellFounded == IsWellFoundedOn(Less, Nat)
BY NatLessThanWellFounded DEF OpToRel, Less

LEMMA LeastExists ==
    ASSUME NEW S \in SUBSET Nat, S # {}
    PROVE  \E x \in S : \A y \in S : x <= y
<1>1. PICK x \in S : \A y \in S : ~(<<y, x>> \in Less)
  BY LessWellFounded, WFMin
<1>2. ASSUME NEW y \in S
      PROVE  x <= y
  <2>1. x \in Nat /\ y \in Nat
    OBVIOUS
  <2>2. <<y, x>> \in Less <=> y < x
    BY <2>1 DEF Less
  <2>. QED
    BY <1>1, <2>1, <2>2
<1>. QED
  BY <1>2

Drawn(draws) == \A i \in Family : IsDraw(draws[i])

LEMMA FamilyIs ==
    /\ Family \subseteq Nat /\ \A i \in Family : 1 <= i /\ i <= 5
    /\ IsFiniteSet(Family) /\ Cardinality(Family) = 5
<1>1. IsFiniteSet(1..5) /\ Cardinality(1..5) = IF 1 > 5 THEN 0 ELSE 5 - 1 + 1
  <2>1. 1 \in Int /\ 5 \in Int
    OBVIOUS
  <2>. QED
    BY <2>1, FS_Interval
<1>. QED
  BY <1>1 DEF Family

LEMMA DrawIs ==
    ASSUME NEW draws, Drawn(draws), NEW i \in Family
    PROVE  draws[i].p \in Nat /\ 1 <= draws[i].p /\ draws[i].p <= Resolution /\ Resolution \in Nat /\ Resolution > 0
BY InferenceConstants DEF Drawn, IsDraw

(* Being ahead is a total order of the five. *)
LEMMA AheadOrders ==
    ASSUME NEW draws, Drawn(draws), NEW i \in Family, NEW j \in Family
    PROVE  /\ Ahead(draws, i, j) \/ Ahead(draws, j, i)
           /\ Ahead(draws, i, j) /\ Ahead(draws, j, i) <=> i = j
           /\ Ahead(draws, i, j) => draws[i].p <= draws[j].p
           /\ \A k \in Family : Ahead(draws, i, j) /\ Ahead(draws, j, k) => Ahead(draws, i, k)
<1>1. \A k \in Family : draws[k].p \in Nat /\ k \in Nat
  BY DrawIs, FamilyIs
<1>. QED
  BY <1>1 DEF Ahead

LEMMA FirstAhead ==
    ASSUME NEW draws, Drawn(draws), NEW H \in SUBSET Family, H # {}
    PROVE  \E j \in H : \A k \in H : Ahead(draws, j, k)
<1>. DEFINE place(k) == 6 * draws[k].p + k
<1>1. \A k \in Family : draws[k].p \in Nat /\ k \in Nat /\ k <= 5
  BY DrawIs, FamilyIs
<1>2. \A k \in H : place(k) \in Nat
  BY <1>1
<1>3. PICK x \in {place(k) : k \in H} : \A y \in {place(k) : k \in H} : x <= y
  <2>. DEFINE places == {place(k) : k \in H}
  <2>1. places \in SUBSET Nat /\ places # {}
    BY <1>2
  <2>. HIDE DEF places
  <2>2. \E x \in places : \A y \in places : x <= y
    BY <2>1, LeastExists
  <2>. QED
    BY <2>2 DEF places
<1>4. PICK j \in H : x = place(j)
  BY <1>3
<1>5. ASSUME NEW k \in H
      PROVE  Ahead(draws, j, k)
  <2>1. 6 * draws[j].p + j <= 6 * draws[k].p + k
    BY <1>3, <1>4
  <2>2. draws[j].p \in Nat /\ draws[k].p \in Nat /\ j \in Nat /\ k \in Nat /\ j <= 5 /\ k <= 5 /\ 1 <= j /\ 1 <= k
    BY <1>1, FamilyIs
  <2>3. draws[j].p < draws[k].p \/ (draws[j].p = draws[k].p /\ j <= k)
    BY <2>1, <2>2
  <2>. QED
    BY <2>3 DEF Ahead
<1>. QED
  BY <1>5

Behind(draws, i) == {k \in Family : Ahead(draws, i, k)}

(* The multiplier of a comparison counts it and those behind it. *)
LEMMA MultiplierCounts ==
    ASSUME NEW draws, Drawn(draws), NEW i \in Family
    PROVE  /\ IsFiniteSet(Behind(draws, i)) /\ Cardinality(Behind(draws, i)) = Multiplier(draws, i)
           /\ Multiplier(draws, i) \in Nat
<1>. DEFINE before == {j \in Family : Ahead(draws, j, i)}
<1>1. before \in SUBSET Family /\ Behind(draws, i) \in SUBSET Family
  BY DEF Behind
<1>2. before \cup Behind(draws, i) = Family
  BY AheadOrders DEF Behind
<1>3. before \cap Behind(draws, i) = {i}
  BY AheadOrders DEF Behind
<1>4. IsFiniteSet(before) /\ IsFiniteSet(Behind(draws, i))
  BY <1>1, FamilyIs, FS_Subset
<1>5. Rank(draws, i) = Cardinality(before)
  BY DEF Rank
<1>. HIDE DEF before
<1>6. 5 = Cardinality(before) + Cardinality(Behind(draws, i)) - 1
  <2>1. Cardinality(before \cup Behind(draws, i))
          = Cardinality(before) + Cardinality(Behind(draws, i)) - Cardinality(before \cap Behind(draws, i))
    BY <1>4, FS_Union
  <2>2. Cardinality({i}) = 1
    BY FS_Singleton
  <2>. QED
    BY <1>2, <1>3, <2>1, <2>2, FamilyIs
<1>7. Cardinality(before) \in Nat /\ Cardinality(Behind(draws, i)) \in Nat
  BY <1>4, FS_CardinalityType
<1>. QED
  BY <1>4, <1>5, <1>6, <1>7 DEF Multiplier

LEMMA TimesGrows ==
    ASSUME NEW a \in Nat, NEW b \in Nat, NEW c \in Nat, NEW d \in Nat, a <= c, b <= d
    PROVE  a * b \in Nat /\ c * d \in Nat /\ a * b <= c * d
<1>1. a * b <= c * b /\ a * b \in Nat /\ c * b \in Nat
  BY Z3T(20)
<1>2. c * b <= c * d /\ c * d \in Nat
  BY Z3T(20)
<1>. QED
  BY <1>1, <1>2

Bonferroni(draws, H) == \E j \in H : 20 * draws[j].p * Cardinality(H) <= Resolution

(* The code's step-down rejects what the closed testing procedure rejects:  *)
(* of a set of hypotheses its first has the smallest p-value, and there are *)
(* no more of them than stand behind it.                                    *)
LEMMA RejectedIsClosed ==
    ASSUME NEW draws, Drawn(draws)
    PROVE  Rejected(draws) = ClosedTesting(draws)
<1>1. ASSUME NEW i \in Rejected(draws), NEW H \in SUBSET Family, i \in H
      PROVE  Bonferroni(draws, H)
  <2>1. PICK j \in H : \A k \in H : Ahead(draws, j, k)
    BY <1>1, FirstAhead
  <2>2. WithinThreshold(draws, j)
    BY <1>1, <2>1 DEF Rejected
  <2>3. H \subseteq Behind(draws, j)
    BY <2>1 DEF Behind
  <2>4. IsFiniteSet(H) /\ Cardinality(H) \in Nat /\ Cardinality(H) <= Multiplier(draws, j)
    BY <2>1, <2>3, MultiplierCounts, FS_Subset, FS_CardinalityType
  <2>. DEFINE a == 20 * draws[j].p
              m == Multiplier(draws, j)
              n == Cardinality(H)
  <2>5. a \in Nat /\ n \in Nat /\ m \in Nat /\ n <= m /\ a * m <= Resolution /\ Resolution \in Nat
    BY <2>1, <2>2, <2>4, DrawIs, MultiplierCounts DEF WithinThreshold
  <2>. HIDE DEF a, m, n
  <2>6. a * n <= Resolution
    <3>1. a * n \in Nat /\ a * m \in Nat /\ a * n <= a * m
      BY <2>5, TimesGrows
    <3>. QED
      BY <2>5, <3>1
  <2>. QED
    BY <2>1, <2>6 DEF a, n, Bonferroni
<1>2. ASSUME NEW i \in Family, \A H \in SUBSET Family : i \in H => Bonferroni(draws, H),
             NEW j \in Family, Ahead(draws, j, i)
      PROVE  WithinThreshold(draws, j)
  <2>1. Behind(draws, j) \in SUBSET Family /\ i \in Behind(draws, j)
    BY <1>2 DEF Behind
  <2>2. PICK k \in Behind(draws, j) : 20 * draws[k].p * Cardinality(Behind(draws, j)) <= Resolution
    BY <1>2, <2>1 DEF Bonferroni
  <2>3. k \in Family /\ draws[j].p <= draws[k].p
    BY AheadOrders DEF Behind
  <2>. DEFINE a == 20 * draws[j].p
              b == 20 * draws[k].p
              m == Multiplier(draws, j)
  <2>4. a \in Nat /\ b \in Nat /\ m \in Nat /\ a <= b /\ b * m <= Resolution /\ Resolution \in Nat
    BY <2>2, <2>3, DrawIs, MultiplierCounts
  <2>. HIDE DEF a, b, m
  <2>5. a * m <= Resolution
    <3>1. a * m \in Nat /\ b * m \in Nat /\ a * m <= b * m
      BY <2>4, TimesGrows
    <3>. QED
      BY <2>4, <3>1
  <2>. QED
    BY <2>5 DEF a, m, WithinThreshold
<1>3. \A i \in Family : i \in Rejected(draws) <=> \A j \in Family : Ahead(draws, j, i) => WithinThreshold(draws, j)
  BY DEF Rejected
<1>4. \A i \in Family : i \in ClosedTesting(draws) <=> \A H \in SUBSET Family : i \in H => Bonferroni(draws, H)
  BY DEF ClosedTesting, Bonferroni
<1>5. Rejected(draws) \subseteq Family /\ ClosedTesting(draws) \subseteq Family
  BY DEF Rejected, ClosedTesting
<1>6. \A i \in Family : i \in Rejected(draws) <=> i \in ClosedTesting(draws)
  BY <1>1, <1>2, <1>3, <1>4
<1>. QED
  BY <1>5, <1>6

(* The adjusted p-values say what the step-down says. *)
LEMMA AdjustedIs ==
    ASSUME NEW draws, Drawn(draws)
    PROVE  {i \in Family : 20 * AdjustedP(draws, i) <= Resolution} = Rejected(draws)
<1>1. ASSUME NEW i \in Family
      PROVE  20 * AdjustedP(draws, i) <= Resolution
               <=> \A j \in Family : Ahead(draws, j, i) => WithinThreshold(draws, j)
  <2>. DEFINE cost(j) == draws[j].p * Multiplier(draws, j)
              ahead == {k \in Family : Ahead(draws, k, i)}
              soFar == {cost(j) : j \in ahead}
              largest == CHOOSE x \in soFar : \A y \in soFar : y <= x
  <2>1. \A j \in Family : cost(j) \in Nat /\ (WithinThreshold(draws, j) <=> 20 * cost(j) <= Resolution)
    <3>. SUFFICES ASSUME NEW j \in Family
                  PROVE  cost(j) \in Nat /\ (WithinThreshold(draws, j) <=> 20 * cost(j) <= Resolution)
      OBVIOUS
    <3>. DEFINE a == draws[j].p
                m == Multiplier(draws, j)
    <3>1. a \in Nat /\ m \in Nat
      BY DrawIs, MultiplierCounts
    <3>2. WithinThreshold(draws, j) <=> 20 * a * m <= Resolution
      BY DEF WithinThreshold
    <3>. HIDE DEF a, m
    <3>3. a * m \in Nat /\ 20 * a * m = 20 * (a * m)
      BY <3>1, Z3T(20)
    <3>. QED
      BY <3>2, <3>3 DEF a, m
  <2>2. i \in ahead /\ ahead \in SUBSET Family
    BY AheadOrders
  <2>. HIDE DEF cost
  <2>3. PICK last \in ahead : \A j \in ahead : cost(j) <= cost(last)
    <3>. DEFINE worse(j) == {k \in ahead : cost(k) > cost(j)}
                numbers == {Cardinality(worse(j)) : j \in ahead}
    <3>1. \A j \in ahead : IsFiniteSet(worse(j)) /\ Cardinality(worse(j)) \in Nat
      BY <2>2, FamilyIs, FS_Subset, FS_CardinalityType
    <3>2. numbers \in SUBSET Nat /\ numbers # {}
      BY <2>2, <3>1
    <3>. HIDE DEF numbers
    <3>3. PICK n \in numbers : \A k \in numbers : n <= k
      BY <3>2, LeastExists
    <3>4. PICK last \in ahead : n = Cardinality(worse(last))
      BY <3>3 DEF numbers
    <3>5. ASSUME NEW k \in ahead, ~(cost(k) <= cost(last))
          PROVE  FALSE
      <4>1. cost(k) \in Nat /\ cost(last) \in Nat /\ cost(k) > cost(last)
        BY <2>1, <2>2, <3>5
      <4>2. \A j \in worse(k) : j \in worse(last)
        BY <2>1, <2>2, <4>1
      <4>3. worse(k) \in SUBSET worse(last) /\ k \in worse(last) /\ k \notin worse(k)
        BY <4>1, <4>2
      <4>4. /\ Cardinality(worse(k)) <= Cardinality(worse(last))
            /\ Cardinality(worse(k)) = Cardinality(worse(last)) => worse(k) = worse(last)
        <5>1. IsFiniteSet(worse(last))
          BY <3>1
        <5>. HIDE DEF worse
        <5>. QED
          BY <4>3, <5>1, FS_Subset
      <4>5. Cardinality(worse(last)) <= Cardinality(worse(k))
        BY <3>3, <3>4, <3>5 DEF numbers
      <4>6. worse(k) = worse(last)
        BY <3>1, <3>5, <4>4, <4>5
      <4>. QED
        BY <4>3, <4>6
    <3>. QED
      BY <3>5
  <2>4. largest \in soFar /\ \A y \in soFar : y <= largest
    <3>1. \E x \in soFar : \A y \in soFar : y <= x
      BY <2>3
    <3>. HIDE DEF soFar
    <3>. QED
      BY <3>1
  <2>5. AdjustedP(draws, i) = IF largest > Resolution THEN Resolution ELSE largest
    BY DEF AdjustedP, cost
  <2>. HIDE DEF largest
  <2>6. PICK top \in ahead : largest = cost(top)
    BY <2>4
  <2>7. largest \in Nat /\ Resolution \in Nat /\ Resolution > 0
    BY <2>1, <2>2, <2>6, InferenceConstants
  <2>8. 20 * AdjustedP(draws, i) <= Resolution <=> 20 * largest <= Resolution
    BY <2>5, <2>7
  <2>9. 20 * largest <= Resolution <=> \A j \in ahead : 20 * cost(j) <= Resolution
    <3>1. \A j \in ahead : cost(j) \in Nat /\ cost(j) <= largest
      BY <2>1, <2>2, <2>4
    <3>. QED
      BY <2>6, <2>7, <3>1
  <2>. QED
    BY <2>1, <2>8, <2>9
<1>. QED
  BY <1>1 DEF Rejected

(* What stays true of the draws, and of the answer of Holm's procedure. *)
DrawsInv ==
    /\ Drawn(evidence.draws)
    /\ seal # None => seal.holm \in {None, HolmOf(evidence.draws)}

LEMMA SealedHolm ==
    ASSUME NEW source, NEW draws
    PROVE  PhaseSeal(source, draws).holm \in {None, HolmOf(draws)}
<1>1. GateVerdict(source, draws).holm \in {None, HolmOf(draws)}
  BY DEF GateVerdict, FormulaVerdict, Verdict
<1>. QED
  BY <1>1 DEF PhaseSeal, AfterGate, Seal

LEMMA DrawsStep == DrawsInv /\ [Next]_vars => DrawsInv'
<1>. USE DEF Unsealed
<1>. SUFFICES ASSUME DrawsInv, [Next]_vars
              PROVE  DrawsInv'
  OBVIOUS
<1>1. ASSUME NEW c \in LateCandidates, EnrolLate(c)
      PROVE  DrawsInv'
  BY <1>1 DEF EnrolLate, DrawsInv
<1>2. ASSUME NEW x \in Corrections, Correct(x.series, x.nav)
      PROVE  DrawsInv'
  <2>1. evidence'.draws = evidence.draws /\ seal' = None
    BY <1>2 DEF Correct
  <2>. QED
    BY <2>1 DEF DrawsInv
<1>3. ASSUME NEW a \in Attestations, Reattest(a)
      PROVE  DrawsInv'
  <2>1. evidence'.draws = evidence.draws /\ seal' = None
    BY <1>3 DEF Reattest
  <2>. QED
    BY <2>1 DEF DrawsInv
<1>4. ASSUME PlanFolds \/ AuditCoverage \/ Replay \/ Bind \/ UNCHANGED vars
      PROVE  DrawsInv'
  <2>1. UNCHANGED <<evidence, seal>>
    BY <1>4 DEF PlanFolds, AuditCoverage, Replay, Bind, vars
  <2>. QED
    BY <2>1 DEF DrawsInv
<1>5. ASSUME Evaluate
      PROVE  DrawsInv'
  <2>1. evidence' = evidence
        /\ seal' = PhaseSeal(Source(bound.cases, bound.friction, bound.champion), evidence.draws)
    BY <1>5 DEF Evaluate
  <2>2. seal'.holm \in {None, HolmOf(evidence.draws)}
    BY <2>1, SealedHolm
  <2>. QED
    BY <2>1, <2>2 DEF DrawsInv
<1>. QED
  BY <1>1, <1>2, <1>3, <1>4, <1>5 DEF Next

(* evaluate_stage6c_holm_family: whatever the five p-values and whatever    *)
(* their ties, the step-down is the closed testing procedure over           *)
(* Bonferroni's tests, and its adjusted p-values say the same.              *)
THEOREM StepDownIsClosedTesting == Spec => []HolmIsClosedTesting
<1>1. Init => DrawsInv
  <2>1. ASSUME NEW study \in Studies
        PROVE  Drawn(study.evidence.draws)
    BY StudiesAreConstructible DEF Drawn
  <2>. QED
    BY <2>1 DEF Init, DrawsInv
<1>2. DrawsInv => HolmIsClosedTesting
  <2>. SUFFICES ASSUME DrawsInv, seal # None, seal.holm # None
                PROVE  /\ seal.holm.rejected = ClosedTesting(evidence.draws)
                       /\ {i \in Family : 20 * seal.holm.adjusted[i] <= Resolution} = ClosedTesting(evidence.draws)
                       /\ seal.holm.status = "ADJUSTED_INFERENCE_READY" => ClosedTesting(evidence.draws) = Family
    BY DEF HolmIsClosedTesting
  <2>. DEFINE draws == evidence.draws
              holm == HolmOf(draws)
  <2>1. Drawn(draws) /\ seal.holm = holm
    BY DEF DrawsInv
  <2>2. holm.rejected = Rejected(draws) /\ \A i \in Family : holm.adjusted[i] = AdjustedP(draws, i)
    BY DEF HolmOf
  <2>3. holm.status = "ADJUSTED_INFERENCE_READY" => \A i \in Family : i \in Rejected(draws)
    BY DEF HolmOf
  <2>. HIDE DEF draws, holm
  <2>4. Rejected(draws) = ClosedTesting(draws)
    BY <2>1, RejectedIsClosed
  <2>5. {i \in Family : 20 * holm.adjusted[i] <= Resolution} = Rejected(draws)
    BY <2>1, <2>2, AdjustedIs
  <2>6. Rejected(draws) \subseteq Family
    BY DEF Rejected
  <2>7. holm.status = "ADJUSTED_INFERENCE_READY" => ClosedTesting(draws) = Family
    BY <2>3, <2>4, <2>6
  <2>. QED
    BY <2>1, <2>2, <2>4, <2>5, <2>7 DEF draws
<1>. QED
  BY <1>1, <1>2, DrawsStep, PTL DEF Spec

-----------------------------------------------------------------------------
(* The profit of a study, a sum over its contributions. *)

IsTotal(D, it) ==
    it = [s \in SUBSET D |-> IF s = {} THEN 0
                             ELSE (CHOOSE x \in s : TRUE).full + it[s \ {CHOOSE x \in s : TRUE}]]

LEMMA TotalIs ==
    ASSUME NEW D
    PROVE  Total(D, "full") = (CHOOSE it : IsTotal(D, it))[D]
BY DEF Total, MapThenSumSet, MapThenFoldSet, IsTotal

(* A set of finite sets that is not empty has a smallest member. *)
LEMMA SmallestExists ==
    ASSUME NEW D, IsFiniteSet(D), NEW bad \in SUBSET SUBSET D, bad # {}
    PROVE  \E s \in bad : \A t \in bad : ~(t \subseteq s /\ t # s)
<1>1. bad \subseteq FiniteSubsetsOf(D)
  BY FS_Subset DEF FiniteSubsetsOf
<1>2. PICK s \in bad : \A t \in bad : ~(<<t, s>> \in StrictSubsetOrdering(D))
  BY <1>1, FS_StrictSubsetOrderingWellFounded, WFMin
<1>3. \A t \in bad : t \subseteq s /\ t # s => <<t, s>> \in StrictSubsetOrdering(D)
  BY <1>1, <1>2 DEF StrictSubsetOrdering
<1>4. \A t \in bad : ~(t \subseteq s /\ t # s)
  BY <1>2, <1>3
<1>. QED
  BY <1>4

LEMMA TotalsAgree ==
    ASSUME NEW D, IsFiniteSet(D), NEW E \in SUBSET D,
           NEW a, IsTotal(D, a), NEW b, IsTotal(E, b)
    PROVE  \A s \in SUBSET E : a[s] = b[s]
<1>. DEFINE bad == {s \in SUBSET E : a[s] # b[s]}
<1>1. SUFFICES ASSUME bad # {} PROVE FALSE
  OBVIOUS
<1>2. PICK s \in bad : \A t \in bad : ~(t \subseteq s /\ t # s)
  <2>1. IsFiniteSet(E)
    BY FS_Subset
  <2>2. bad \in SUBSET SUBSET E
    OBVIOUS
  <2>. HIDE DEF bad
  <2>. QED
    BY <1>1, <2>1, <2>2, SmallestExists
<1>. DEFINE x == CHOOSE y \in s : TRUE
<1>3. s # {}
  BY <1>2 DEF IsTotal
<1>4. x \in s /\ (s \ {x}) \in SUBSET E
  BY <1>2, <1>3
<1>5. a[s \ {x}] = b[s \ {x}]
  BY <1>2, <1>4
<1>6. a[s] = x.full + a[s \ {x}] /\ b[s] = x.full + b[s \ {x}]
  BY <1>2, <1>3 DEF IsTotal
<1>. QED
  BY <1>2, <1>5, <1>6

LEMMA TotalExists ==
    ASSUME NEW D, IsFiniteSet(D)
    PROVE  \E it : IsTotal(D, it)
<1>. DEFINE bad == {s \in SUBSET D : ~\E it : IsTotal(s, it)}
<1>1. SUFFICES ASSUME bad # {} PROVE FALSE
  OBVIOUS
<1>2. PICK s \in bad : \A t \in bad : ~(t \subseteq s /\ t # s)
  <2>2. bad \in SUBSET SUBSET D
    OBVIOUS
  <2>. HIDE DEF bad
  <2>. QED
    BY <1>1, <2>2, SmallestExists
<1>. DEFINE sum(t) == CHOOSE it : IsTotal(t, it)
            x(t) == CHOOSE y \in t : TRUE
            whole == IF s = {} THEN 0 ELSE x(s).full + sum(s \ {x(s)})[s \ {x(s)}]
            it == [t \in SUBSET s |-> IF t = s THEN whole ELSE sum(t)[t]]
<1>3. ASSUME NEW t \in SUBSET s, t # s
      PROVE  IsTotal(t, sum(t))
  BY <1>2, <1>3
<1>4. ASSUME NEW t \in SUBSET s, t # {}
      PROVE  it[t] = x(t).full + it[t \ {x(t)}]
  <2>1. x(t) \in t /\ t \ {x(t)} \in SUBSET s /\ t \ {x(t)} # s
    BY <1>4
  <2>2. it[t \ {x(t)}] = sum(t \ {x(t)})[t \ {x(t)}]
    BY <2>1
  <2>3. CASE t = s
    BY <1>4, <2>2, <2>3
  <2>4. CASE t # s
    <3>1. IsTotal(t, sum(t)) /\ IsTotal(t \ {x(t)}, sum(t \ {x(t)}))
      BY <1>3, <2>1, <2>4
    <3>2. sum(t)[t \ {x(t)}] = sum(t \ {x(t)})[t \ {x(t)}]
      <4>1. IsFiniteSet(t)
        BY <1>2, FS_Subset
      <4>. HIDE DEF sum, x
      <4>. QED
        BY <3>1, <4>1, TotalsAgree
    <3>3. sum(t)[t] = x(t).full + sum(t)[t \ {x(t)}]
      BY <1>4, <3>1 DEF IsTotal
    <3>. QED
      BY <2>2, <2>4, <3>2, <3>3
  <2>. QED
    BY <2>3, <2>4
<1>5. it[{}] = 0
  <2>1. s # {} => IsTotal({}, sum({}))
    BY <1>3
  <2>. QED
    BY <2>1 DEF IsTotal
<1>6. IsTotal(s, it)
  <2>2. it = [t \in SUBSET s |-> it[t]]
    OBVIOUS
  <2>. HIDE DEF it
  <2>1. ASSUME NEW t \in SUBSET s
        PROVE  it[t] = IF t = {} THEN 0 ELSE (CHOOSE y \in t : TRUE).full + it[t \ {CHOOSE y \in t : TRUE}]
    BY <1>4, <1>5
  <2>. QED
    BY <2>1, <2>2 DEF IsTotal
<1>. QED
  BY <1>2, <1>6

LEMMA TotalType ==
    ASSUME NEW D, IsFiniteSet(D), \A x \in D : x.full \in Int
    PROVE  Total(D, "full") \in Int
<1>. DEFINE it == CHOOSE f : IsTotal(D, f)
            bad == {s \in SUBSET D : it[s] \notin Int}
<1>1. IsTotal(D, it)
  BY TotalExists
<1>. HIDE DEF it
<1>2. ASSUME bad # {}
      PROVE  FALSE
  <2>1. PICK s \in bad : \A t \in bad : ~(t \subseteq s /\ t # s)
    <3>1. bad \in SUBSET SUBSET D
      OBVIOUS
    <3>. HIDE DEF bad
    <3>. QED
      BY <1>2, <3>1, SmallestExists
  <2>. DEFINE x == CHOOSE y \in s : TRUE
  <2>2. s # {}
    BY <1>1, <2>1 DEF IsTotal
  <2>3. x \in s /\ s \ {x} \in SUBSET D /\ it[s] = x.full + it[s \ {x}]
    BY <1>1, <2>1, <2>2 DEF IsTotal
  <2>. HIDE DEF x
  <2>4. it[s \ {x}] \in Int
    BY <2>1, <2>3
  <2>. QED
    BY <2>1, <2>3, <2>4
<1>3. it[D] \in Int
  BY <1>2
<1>. QED
  BY <1>3, TotalIs DEF it

-----------------------------------------------------------------------------
(* Counting. *)

(* What names each member of a finite set differently has as many values.   *)
LEMMA NamedAlike ==
    ASSUME NEW S, NEW f, IsFiniteSet(S), f = [x \in S |-> f[x]], \A x, y \in S : f[x] = f[y] => x = y
    PROVE  IsFiniteSet({f[x] : x \in S}) /\ Cardinality({f[x] : x \in S}) = Cardinality(S)
<1>. DEFINE T == {f[x] : x \in S}
<1>1. f \in [S -> T]
  BY SMT
<1>2. f \in Bijection(S, T)
  BY <1>1 DEF Bijection, Injection, Surjection, IsInjective
<1>. HIDE DEF T
<1>3. ExistsBijection(S, T)
  BY <1>2 DEF ExistsBijection
<1>4. IsFiniteSet(T) /\ Cardinality(T) = Cardinality(S)
  BY <1>3, FS_Bijection
<1>. QED
  BY <1>4 DEF T

-----------------------------------------------------------------------------
(* Accountability. *)

TradesOf(source) == {c \in source.inventory : c.id \in source.completed}

(* An attested trade was a candidate of its own, judged in some fold.       *)
LEMMA TradesJudged ==
    ASSUME NEW source, IsInventory(source.inventory), IsFiniteSet(source.completed),
           source.plan = PlanOf(source.inventory),
           source.completed \subseteq {c.id : c \in Tradable(source.inventory, source.plan)}
    PROVE  /\ Cardinality(TradesOf(source)) = Cardinality(source.completed)
           /\ \A c \in TradesOf(source) :
                Cardinality({y \in FoldYears : c \in source.plan.folds[y].evaluation}) = 1
<1>. DEFINE trades == TradesOf(source)
            name == [c \in trades |-> c.id]
<1>1. \A c, d \in source.inventory : c.id = d.id => c = d
  BY DEF IsInventory
<1>2. \A id \in source.completed : \E c \in Tradable(source.inventory, source.plan) : c.id = id
  OBVIOUS
<1>3. Tradable(source.inventory, source.plan) \subseteq source.inventory
  BY DEF Tradable
<1>4. {name[c] : c \in trades} = source.completed
  <2>1. ASSUME NEW c \in trades
        PROVE  name[c] \in source.completed
    BY <2>1 DEF TradesOf
  <2>2. ASSUME NEW id \in source.completed
        PROVE  \E c \in trades : name[c] = id
    <3>1. PICK c \in Tradable(source.inventory, source.plan) : c.id = id
      BY <1>2
    <3>2. c \in trades
      BY <3>1, <1>3 DEF TradesOf
    <3> QED
      BY <3>1, <3>2
  <2> QED
    BY <2>1, <2>2
<1>5. IsFiniteSet(trades)
  <2>1. trades \in SUBSET source.inventory /\ IsFiniteSet(source.inventory)
    BY DEF IsInventory, TradesOf
  <2>. QED
    BY <2>1, FS_Subset
<1>6. Cardinality(trades) = Cardinality(source.completed)
  <2>1. name = [c \in trades |-> name[c]] /\ \A c, d \in trades : name[c] = name[d] => c = d
    BY <1>1 DEF TradesOf
  <2>. HIDE DEF name, trades
  <2>2. Cardinality({name[c] : c \in trades}) = Cardinality(trades)
    BY <1>5, <2>1, NamedAlike
  <2>. QED
    BY <1>4, <2>2
<1>7. ASSUME NEW c \in trades
      PROVE  Cardinality({y \in FoldYears : c \in source.plan.folds[y].evaluation}) = 1
  <2>1. c \in Evaluated(source.plan)
    <3>1. PICK d \in Tradable(source.inventory, source.plan) : d.id = c.id
      BY <1>2 DEF TradesOf
    <3>2. d = c
      BY <1>1, <1>3, <3>1 DEF TradesOf
    <3>. QED
      BY <3>2 DEF Tradable
  <2>2. PICK y \in FoldYears : c \in source.plan.folds[y].evaluation
    BY <2>1 DEF Evaluated
  <2>3. ASSUME NEW z \in FoldYears, c \in source.plan.folds[z].evaluation
        PROVE  z = y
    <3>1. source.plan.folds[z].evaluation = Evaluation(source.inventory, z)
          /\ source.plan.folds[y].evaluation = Evaluation(source.inventory, y)
      BY DEF PlanOf
    <3>. QED
      BY <2>2, <2>3, <3>1 DEF Evaluation
  <2>4. {z \in FoldYears : c \in source.plan.folds[z].evaluation} = {y}
    BY <2>2, <2>3
  <2>. QED
    BY <2>4, FS_Singleton
<1>. QED
  BY <1>6, <1>7

(* A basket that is not lacking holds enough shares, none of them the       *)
(* candidate's own and none of them twice.                                  *)
LEMMA BasketSuffices ==
    ASSUME NEW s, IsSnapshot(s), BasketOf(s).level # "INSUFFICIENT_PEERS"
    PROVE  /\ BasketOf(s).candidate = s.candidate
           /\ Cardinality({m.security : m \in BasketOf(s).peers} \ {s.target}) >= MinPeers
<1>. DEFINE pools == Pools(s)
            large == {i \in 1..3 : Cardinality(pools[i]) >= MinPeers}
            least == CHOOSE i \in large : \A j \in large : i <= j
            basket == [candidate |-> s.candidate, level |-> FallbackLevels[least], peers |-> pools[least]]
<1>1. BasketOf(s) = IF large = {} THEN [candidate |-> s.candidate, level |-> "INSUFFICIENT_PEERS", peers |-> {}]
                    ELSE basket
  BY DEF BasketOf
<1>2. large # {}
  BY <1>1
<1>3. least \in large
  <2>1. large \in SUBSET Nat
    BY SMT
  <2>. HIDE DEF large
  <2>2. \E i \in large : \A j \in large : i <= j
    BY <1>2, <2>1, LeastExists
  <2>. QED
    BY <2>2
<1>4. BasketOf(s).peers = pools[least] /\ BasketOf(s).candidate = s.candidate
  BY <1>1, <1>2
<1>5. pools[1] \subseteq EligiblePeers(s) /\ pools[2] \subseteq EligiblePeers(s) /\ pools[3] \subseteq EligiblePeers(s)
  BY DEF Pools, SameIndustrySizeBeta, SameSizeBeta, SameSize
<1>6. least \in {1, 2, 3} /\ Cardinality(pools[least]) >= MinPeers
  <2>1. least \in 1..3 /\ Cardinality(pools[least]) >= MinPeers
    BY <1>3
  <2>. HIDE DEF least
  <2>. QED
    BY <2>1
<1>. DEFINE peers == pools[least]
            name == [m \in peers |-> m.security]
<1>7. peers \subseteq EligiblePeers(s)
  <2>. HIDE DEF least, pools
  <2>. QED
    BY <1>5, <1>6
<1>8. peers \in SUBSET s.members /\ (\A m \in peers : m.security # s.target)
  BY <1>7 DEF EligiblePeers
<1>. HIDE DEF pools, least
<1>9. {m.security : m \in peers} \ {s.target} = {name[m] : m \in peers}
  BY <1>8
<1>10. Cardinality({name[m] : m \in peers}) = Cardinality(peers)
  <2>1. IsFiniteSet(peers)
    BY <1>8, FS_Subset DEF IsSnapshot
  <2>2. name = [m \in peers |-> name[m]] /\ \A m, k \in peers : name[m] = name[k] => m = k
    BY <1>8 DEF IsSnapshot
  <2>. HIDE DEF name, peers
  <2>. QED
    BY <2>1, <2>2, NamedAlike
<1>. QED
  BY <1>4, <1>6, <1>9, <1>10

(* What a seal owes to the peers' precheck and what to the gate's.          *)
LEMMA SealedMeansFaultless ==
    ASSUME NEW source, NEW draws, PhaseSeal(source, draws).status = "SEALED"
    PROVE  /\ PhaseSeal(source, draws).baskets = BasketsOf(source.snapshots)
           /\ Lacking(BasketsOf(source.snapshots)) = {}
           /\ SnapshotsCover(source.snapshots, Evaluated(source.plan))
           /\ AttestationFaults(source) = {}
           /\ ProfitFaults(source.cases[NoTrade].contributions) = {}
<1>1. /\ PeersSound(source) /\ Lacking(BasketsOf(source.snapshots)) = {}
      /\ PhaseSeal(source, draws) = AfterGate(GateVerdict(source, draws), BasketsOf(source.snapshots))
  BY DEF PhaseSeal, Seal
<1>2. PhaseSeal(source, draws).baskets = BasketsOf(source.snapshots)
  BY <1>1 DEF AfterGate, Seal
<1>3. GateVerdict(source, draws).status = "GATE_FORMULA_PASSED"
  BY SealedMeansPassed
<1>4. GatePrecheck(source) = {} /\ GateVerdict(source, draws) = FormulaVerdict(source, HolmOf(draws))
  BY <1>3 DEF GateVerdict, Verdict
<1>5. AttestationFaults(source) = {}
  BY <1>4 DEF GatePrecheck
<1>6. WeakEvidence(source, HolmOf(draws)) = {}
  BY <1>3, <1>4 DEF FormulaVerdict, Verdict
<1>7. ProfitFaults(source.cases[NoTrade].contributions) = {}
  BY <1>6 DEF WeakEvidence
<1>. QED
  BY <1>1, <1>2, <1>5, <1>7 DEF PeersSound

(* The source bundle of a study.                                            *)
SoundSource(source) ==
    /\ IsInventory(source.inventory) /\ IsFiniteSet(source.completed)
    /\ \A s \in source.snapshots : IsSnapshot(s)
    /\ IsInferenceCase(source.cases[NoTrade])

Accountable(inv, completed, folds, claims, baskets) ==
    LET trades == {c \in inv : c.id \in completed}
    IN  /\ Cardinality(trades) = Cardinality(completed)
        /\ \A c \in trades :
             /\ Cardinality({y \in FoldYears : c \in folds.folds[y].evaluation}) = 1
             /\ \E b \in baskets :
                  b.candidate = c /\ Cardinality({m.security : m \in b.peers} \ {c.company}) >= MinPeers
        /\ \A x \in claims : x.full # 0 => x.candidate \in completed
        /\ \A x \in claims : 4 * x.full <= Total(claims, "full")

LEMMA AccountableIs ==
    SealedTradesAreAccountable <=>
      (Sealed => Accountable(inventory, evidence.completed, plan, bound.cases[NoTrade].contributions, seal.baskets))
BY DEF SealedTradesAreAccountable, Accountable

LEMMA AccountableAfter ==
    ASSUME UNCHANGED <<inventory, evidence, plan, bound>>,
           Sealed' => Accountable(inventory, evidence.completed, plan, bound.cases[NoTrade].contributions, seal'.baskets)
    PROVE  SealedTradesAreAccountable'
<1>1. SealedTradesAreAccountable' <=>
        (Sealed' => Accountable(inventory', evidence'.completed, plan', bound'.cases[NoTrade].contributions, seal'.baskets))
  BY DEF SealedTradesAreAccountable, Accountable
<1>. QED
  BY <1>1

LEMMA SealedIsAccountable ==
    ASSUME NEW source, NEW draws, SoundSource(source), PhaseSeal(source, draws).status = "SEALED"
    PROVE  Accountable(source.inventory, source.completed, source.plan, source.cases[NoTrade].contributions,
                       PhaseSeal(source, draws).baskets)
<1>. DEFINE baskets == PhaseSeal(source, draws).baskets
            claims == source.cases[NoTrade].contributions
            trades == TradesOf(source)
<1>1. /\ baskets = BasketsOf(source.snapshots) /\ Lacking(baskets) = {}
      /\ SnapshotsCover(source.snapshots, Evaluated(source.plan))
      /\ AttestationFaults(source) = {} /\ ProfitFaults(claims) = {}
  BY SealedMeansFaultless
<1>2. source.plan = PlanOf(source.inventory)
  BY SealedMeansPassed, PassedMeansRecomputed
<1>3. source.completed \subseteq {c.id : c \in Tradable(source.inventory, source.plan)}
  BY <1>1 DEF AttestationFaults
<1>4. \A x \in claims : x.candidate \in source.completed \/ ~Moved(x)
  BY <1>1 DEF AttestationFaults
<1>5. /\ Cardinality(trades) = Cardinality(source.completed)
      /\ \A c \in trades : Cardinality({y \in FoldYears : c \in source.plan.folds[y].evaluation}) = 1
  <2>. HIDE DEF baskets, claims
  <2>. QED
    BY <1>2, <1>3, TradesJudged DEF SoundSource
<1>6. ASSUME NEW c \in trades
      PROVE  \E b \in baskets :
               b.candidate = c /\ Cardinality({m.security : m \in b.peers} \ {c.company}) >= MinPeers
  <2>1. c \in Evaluated(source.plan)
    <3>1. PICK d \in Tradable(source.inventory, source.plan) : d.id = c.id
      BY <1>3 DEF TradesOf
    <3>2. d = c
      BY <3>1 DEF TradesOf, SoundSource, IsInventory, Tradable
    <3>. QED
      BY <3>2 DEF Tradable
  <2>2. PICK s \in source.snapshots : s.candidate = c /\ s.target = c.company
    BY <1>1, <2>1 DEF SnapshotsCover, Describes
  <2>3. IsSnapshot(s) /\ BasketOf(s) \in baskets
    BY <1>1 DEF SoundSource, BasketsOf
  <2>4. BasketOf(s).level # "INSUFFICIENT_PEERS"
    BY <1>1, <2>3 DEF Lacking
  <2>5. /\ BasketOf(s).candidate = c
        /\ Cardinality({m.security : m \in BasketOf(s).peers} \ {c.company}) >= MinPeers
    BY <2>2, <2>3, <2>4, BasketSuffices
  <2>. QED
    BY <2>3, <2>5
<1>7. \A x \in claims : x.full # 0 => x.candidate \in source.completed
  BY <1>4 DEF Moved
<1>8. \A x \in claims : 4 * x.full <= Total(claims, "full")
  <2>. DEFINE total == Total(claims, "full")
  <2>1. IsFiniteSet(claims) /\ \A x \in claims : x.full \in Int
    BY DEF SoundSource, IsInferenceCase, IsContribution
  <2>2. total \in Int
    <3>. HIDE DEF claims
    <3>. QED
      BY <2>1, TotalType
  <2>3. ~(total <= 0) /\ ~(total > 0 /\ \E x \in claims : 4 * x.full > total)
    BY <1>1 DEF ProfitFaults
  <2>. HIDE DEF total
  <2>4. \A x \in claims : 4 * x.full <= total
    BY <2>1, <2>2, <2>3
  <2>. QED
    BY <2>4 DEF total
<1>. QED
  <2>. HIDE DEF baskets, claims
  <2>1. Accountable(source.inventory, source.completed, source.plan, claims, baskets)
    BY <1>5, <1>6, <1>7, <1>8 DEF Accountable, TradesOf
  <2>. QED
    BY <2>1 DEF claims, baskets

(* What the constructors of a study's documents guarantee stays so.         *)
SnapshotsSound == \A s \in replays.snapshots : IsSnapshot(s)

StudyInv ==
    /\ IsInventory(inventory) /\ IsFiniteSet(evidence.completed)
    /\ replays # None => SnapshotsSound
    /\ bound # None => SnapshotsSound /\ IsInferenceCase(bound.cases[NoTrade])

AccountInv == StudyInv /\ SealedTradesAreAccountable

LEMMA AccountStep == AccountInv /\ [Next]_vars => AccountInv'
<1>. USE DEF Unsealed
<1>. SUFFICES ASSUME AccountInv, [Next]_vars
              PROVE  AccountInv'
  OBVIOUS
<1>1. ASSUME seal' = None
      PROVE  SealedTradesAreAccountable'
  BY <1>1 DEF SealedTradesAreAccountable, Sealed
<1>2. ASSUME NEW c \in LateCandidates, EnrolLate(c)
      PROVE  AccountInv'
  <2>1. UNCHANGED <<evidence, replays, bound, seal>> /\ seal' = None /\ IsInventory(inventory')
    BY <1>2 DEF EnrolLate
  <2>. QED
    BY <1>1, <2>1 DEF AccountInv, StudyInv, SnapshotsSound
<1>3. ASSUME NEW x \in Corrections, Correct(x.series, x.nav)
      PROVE  AccountInv'
  <2>1. evidence'.completed = evidence.completed /\ UNCHANGED <<inventory, replays, bound>> /\ seal' = None
    BY <1>3 DEF Correct
  <2>. QED
    BY <1>1, <2>1 DEF AccountInv, StudyInv, SnapshotsSound
<1>4. ASSUME NEW a \in Attestations, Reattest(a)
      PROVE  AccountInv'
  <2>0. IsFiniteSet(a.completed)
    BY StudiesAreConstructible DEF IsCompletion
  <2>1. UNCHANGED <<inventory, replays, bound>> /\ seal' = None
        /\ evidence'.completed \in {a.completed, evidence.completed}
    BY <1>4 DEF Reattest
  <2>. QED
    BY <1>1, <2>0, <2>1 DEF AccountInv, StudyInv, SnapshotsSound
<1>5. ASSUME PlanFolds \/ AuditCoverage
      PROVE  AccountInv'
  <2>1. UNCHANGED <<inventory, evidence, replays, bound>> /\ seal' = None
    BY <1>5 DEF PlanFolds, AuditCoverage
  <2>. QED
    BY <1>1, <2>1 DEF AccountInv, StudyInv, SnapshotsSound
<1>6. ASSUME Replay
      PROVE  AccountInv'
  <2>1. UNCHANGED <<inventory, evidence, bound>> /\ seal' = None
    BY <1>6 DEF Replay
  <2>2. replays'.snapshots = {SnapshotOf(c) : c \in Evaluated(plan)}
    BY <1>6 DEF Replay
  <2>3. \A s \in replays'.snapshots : IsSnapshot(s)
    BY <1>6, <2>2 DEF Replay
  <2>. QED
    BY <1>1, <2>1, <2>2, <2>3 DEF AccountInv, StudyInv, SnapshotsSound
<1>7. ASSUME Bind
      PROVE  AccountInv'
  <2>1. UNCHANGED <<inventory, evidence, replays>> /\ seal' = None /\ replays # None
    BY <1>7 DEF Bind
  <2>2. bound'.cases[NoTrade] = InferenceCase(NoTrade) /\ IsInferenceCase(InferenceCase(NoTrade))
    <3>1. NoTrade \in Family
      BY DEF NoTrade, Family
    <3>. QED
      BY <1>7, <3>1 DEF Bind
  <2>. QED
    BY <1>1, <2>1, <2>2 DEF AccountInv, StudyInv, SnapshotsSound
<1>8. ASSUME Evaluate
      PROVE  AccountInv'
  <2>. DEFINE source == Source(bound.cases, bound.friction, bound.champion)
              answer == PhaseSeal(source, evidence.draws)
  <2>1. UNCHANGED <<inventory, evidence, plan, coverage, replays, bound>> /\ seal' = answer /\ bound # None
    BY <1>8 DEF Evaluate
  <2>2. StudyInv'
    BY <2>1 DEF AccountInv, StudyInv, SnapshotsSound
  <2>3. /\ source.inventory = inventory /\ source.plan = plan /\ source.completed = evidence.completed
        /\ source.snapshots = replays.snapshots /\ source.cases = bound.cases
    BY DEF Source
  <2>. HIDE DEF source
  <2>4. SoundSource(source)
    BY <2>1, <2>3 DEF AccountInv, StudyInv, SnapshotsSound, SoundSource
  <2>5. answer.status = "SEALED" =>
          Accountable(source.inventory, source.completed, source.plan, source.cases[NoTrade].contributions, answer.baskets)
    BY <2>4, SealedIsAccountable
  <2>. HIDE DEF answer
  <2>6. Sealed' => Accountable(inventory, evidence.completed, plan, bound.cases[NoTrade].contributions, seal'.baskets)
    BY <2>1, <2>3, <2>5 DEF Sealed
  <2>7. SealedTradesAreAccountable'
    BY <2>1, <2>6, AccountableAfter
  <2>. QED
    BY <2>2, <2>7 DEF AccountInv
<1>9. ASSUME UNCHANGED vars
      PROVE  AccountInv'
  <2>1. UNCHANGED <<inventory, evidence, plan, coverage, replays, bound, seal>>
    BY <1>9 DEF vars
  <2>2. Sealed => Accountable(inventory, evidence.completed, plan, bound.cases[NoTrade].contributions, seal.baskets)
    BY AccountableIs DEF AccountInv
  <2>3. SealedTradesAreAccountable'
    BY <2>1, <2>2, AccountableAfter DEF Sealed
  <2>. QED
    BY <2>1, <2>3 DEF AccountInv, StudyInv, SnapshotsSound
<1>. QED
  BY <1>2, <1>3, <1>4, <1>5, <1>6, <1>7, <1>8, <1>9 DEF Next

(* evaluate_stage6c_synthetic_phase: each trade that a seal counts is a     *)
(* candidate of its own, judged in one fold against enough other shares,    *)
(* and the profit is that of such trades only, none with over a quarter.    *)
THEOREM PhaseTradesAccountable == Spec => []SealedTradesAreAccountable
<1>1. Init => AccountInv
  <2>1. ASSUME NEW study \in Studies
        PROVE  IsInventory(study.inventory) /\ IsFiniteSet(study.evidence.completed)
    BY StudiesAreConstructible DEF IsCompletion
  <2>. QED
    BY <2>1 DEF Init, AccountInv, StudyInv, SealedTradesAreAccountable, Sealed
<1>2. AccountInv => SealedTradesAreAccountable
  BY DEF AccountInv
<1>. QED
  BY <1>1, <1>2, AccountStep, PTL DEF Spec

================================================================================
