---------------------------- MODULE ComparisonFamily ----------------------------
(***************************************************************************)
(* Stage 6C, second half: the time-weighted excess of one net-worth series *)
(* over its benchmark, the inference about one comparison of the full      *)
(* system with a rival, and Holm's step-down over the family of five.      *)
(* What the resampling returns for a comparison is an input, its draws:    *)
(* p counts extreme draws in units of one over Resolution, and each of the *)
(* three paths says whether its lower bound is positive.                   *)
(***************************************************************************)
EXTENDS WalkForwardFolds, Sequences

CONSTANT Resolution    \* resamples plus one: the denominator of a p-value
ASSUME InferenceConstants == Resolution \in Nat \ {0}

(* The comparisons, numbered in the order of their names; ties keep it.     *)
FrozenBest == 1
Matched == 2
NoTrade == 3
SimpleE4 == 4
SimpleValuation == 5
Family == 1..5
Primary == {FrozenBest, Matched}

-----------------------------------------------------------------------------
(* The kernel.  A net-worth series carries its points, the projection it    *)
(* was computed from, the commitment to the holdout it must not read, and   *)
(* the evidence that it did not.  First what their constructors let through.*)

Instants == 0..(2 * HoldoutStart)

IsProjection(nav) == nav.decidesBefore \in Instants

IsCommitment(nav) == nav.holdoutFrom \in Instants /\ nav.boundsApproved \in BOOLEAN

IsIsolationEvidence(nav) ==
    nav.reads \in Nat /\ {nav.evidenceBound, nav.access, nav.mounted, nav.canaryDenied} \subseteq BOOLEAN

IsNavPoint(p) == p.strategy > 0 /\ p.benchmark > 0

IsNav(nav) ==
    /\ IsProjection(nav) /\ IsCommitment(nav) /\ IsIsolationEvidence(nav)
    /\ Len(nav.points) >= 2
    /\ \A i \in DOMAIN nav.points : IsNavPoint(nav.points[i])

IsolationFaults(nav) ==
    {f \in {"HOLDOUT_BOUNDARY_MISMATCH"} : nav.decidesBefore # nav.holdoutFrom}
    \cup {f \in {"HOLDOUT_BOUNDARY_NOT_APPROVED"} :
            nav.decidesBefore # HoldoutStart \/ nav.holdoutFrom # HoldoutStart \/ ~nav.boundsApproved}
    \cup {f \in {"SOURCE_CLOSURE_MISMATCH"} : nav.projectedFrom # nav.committedFrom}
    \cup {f \in {"ISOLATION_EVIDENCE_BINDING_MISMATCH"} : ~nav.evidenceBound}
    \cup {f \in {"HOLDOUT_READ_ACCESS_PRESENT"} : nav.access}
    \cup {f \in {"HOLDOUT_MOUNTED_OR_LINKED"} : nav.mounted}
    \cup {f \in {"HOLDOUT_CANARY_NOT_DENIED"} : ~nav.canaryDenied}
    \cup {f \in {"HOLDOUT_READ_COUNT_NONZERO"} : nav.reads # 0}

(* The product of the daily factors telescopes; over a year of 252 sessions *)
(* the annualising exponent is one.  A rational number of percentage points.*)
Excess(points) ==
    LET first == points[1]
        last == points[Len(points)]
    IN  [num |-> 100 * (last.strategy * first.benchmark - first.strategy * last.benchmark),
         den |-> first.strategy * last.benchmark]

Reaches(excess, percent) == excess.num >= percent * excess.den
Exceeds(excess, percent) == excess.num > percent * excess.den

KernelOf(nav) ==
    IF IsolationFaults(nav) # {}
    THEN [nav |-> nav, status |-> "PRECHECK_BLOCKED", excess |-> None]
    ELSE [nav |-> nav, status |-> "TWR_RECONCILED", excess |-> Excess(nav.points)]

-----------------------------------------------------------------------------
(* One comparison.                                                          *)

Total(contributions, field) == MapThenSumSet(LAMBDA x : x[field], contributions)
Moved(x) == x.full # 0 \/ x.rival # 0

IsContribution(x) == x.full \in Int /\ x.rival \in Int

(* The constructor of an inference case wants each candidate once.          *)
IsInferenceCase(case) ==
    /\ case.contributions # {} /\ IsFiniteSet(case.contributions)
    /\ \A x \in case.contributions : IsContribution(x)
    /\ \A x, y \in case.contributions : x.candidate = y.candidate => x = y

InferenceFaults(case, inventory, plan, coverage, nav, result) ==
    LET Of(x) == {c \in inventory : c.id = x.candidate}
        IsEvaluated(x) == \E e \in Evaluated(plan) : e.id = x.candidate
        expected == PlanOf(inventory)
        Fault(name, found) == IF found THEN {name} ELSE {}
    IN  Fault("FOLD_SOURCE_MISMATCH", plan # expected \/ case.plan # expected)
        \cup Fault("COVERAGE_SOURCE_MISMATCH",
                   coverage # AuditOf(inventory, expected) \/ case.coverage # coverage)
        \cup Fault("COVERAGE_NOT_READY", coverage.status # "COVERAGE_READY")
        \cup Fault("TWR_SOURCE_MISMATCH", result # KernelOf(nav) \/ case.result # result)
        \cup Fault("TWR_NOT_RECONCILED", result.status # "TWR_RECONCILED")
        \cup Fault("CASE_SOURCE_HASH_MISMATCH", case.inventory # inventory \/ case.nav # nav)
        \cup Fault("CONTRIBUTION_CANDIDATE_SET_MISMATCH",
                   {x.candidate : x \in case.contributions} # {c.id : c \in inventory})
        \cup Fault("CONTRIBUTION_COMPANY_MISMATCH",
                   \E x \in case.contributions : \E c \in Of(x) : x.company # c.company)
        \cup Fault("NON_EVALUATION_CANDIDATE_CONTRIBUTION_NONZERO",
                   \E x \in case.contributions : Of(x) # {} /\ Moved(x) /\ ~IsEvaluated(x))
        \cup Fault("NON_TRADING_CANDIDATE_CONTRIBUTION_NONZERO",
                   \E x \in case.contributions : \E c \in Of(x) : Moved(x) /\ c.disposition # "TRADE_READY")
        \cup Fault("CONTRIBUTION_PNL_RECONCILIATION_MISMATCH",
                   Total(case.contributions, "full") - Total(case.contributions, "rival") # case.delta)

-----------------------------------------------------------------------------
(* Holm's step-down at one twentieth.                                       *)

(* A p-value counts the extreme resamples and one for the observation.      *)
IsDraw(d) == d.p \in 1..Resolution

Ahead(draws, i, j) == draws[i].p < draws[j].p \/ (draws[i].p = draws[j].p /\ i <= j)
Rank(draws, i) == Cardinality({j \in Family : Ahead(draws, j, i)})
Multiplier(draws, i) == 6 - Rank(draws, i)

AdjustedP(draws, i) ==
    LET soFar == {draws[j].p * Multiplier(draws, j) : j \in {k \in Family : Ahead(draws, k, i)}}
        largest == CHOOSE x \in soFar : \A y \in soFar : y <= x
    IN  IF largest > Resolution THEN Resolution ELSE largest

WithinThreshold(draws, i) == 20 * draws[i].p * Multiplier(draws, i) <= Resolution

(* Every comparison judged by its own threshold, whatever came before it.   *)
RejectedOneByOne(draws) == {i \in Family : WithinThreshold(draws, i)}

(* Once one comparison is kept, every later one is.                         *)
Rejected(draws) == {i \in Family : \A j \in Family : Ahead(draws, j, i) => WithinThreshold(draws, j)}

AllPathsPositive(d) == d.calendar /\ d.company /\ d.risk

HolmOf(draws) ==
    LET rejected == Rejected(draws)
        ready == /\ \A i \in Family : i \in rejected /\ 20 * AdjustedP(draws, i) <= Resolution
                 /\ \A i \in Primary : AllPathsPositive(draws[i])
    IN  [rejected |-> rejected, adjusted |-> [i \in Family |-> AdjustedP(draws, i)],
         status |-> IF ready THEN "ADJUSTED_INFERENCE_READY" ELSE "ADJUSTED_INFERENCE_FAILED"]
=============================================================================
