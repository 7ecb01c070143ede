---------------------------- MODULE WalkForwardFolds ----------------------------
(***************************************************************************)
(* Stage 6C, first half: the frozen inventory of candidates, the four      *)
(* walk-forward folds planned from it and the coverage audit that decides  *)
(* whether the supported candidates may stand for all of them.  Time is    *)
(* counted in trading sessions; an inventory is its own hash.              *)
(***************************************************************************)
EXTENDS Integers, FiniteSetsExt, Absent

CONSTANTS
    MaxLabel,          \* sessions a label may last
    Embargo,           \* sessions kept free before a fold
    YearLength,        \* sessions of a calendar year
    MaterialCount,     \* candidates that make a category material
    Features,          \* the continuous features compared
    Dimensions         \* the categorical ones, besides the year

ASSUME FoldConstants ==
    /\ MaxLabel \in Nat /\ Embargo \in Nat
    /\ YearLength \in Nat \ {0} /\ MaterialCount \in Nat \ {0}

FirstYear == 2019
HoldoutYear == 2026
FoldYears == 2022..2025

YearStart(y) == (y - FirstYear) * YearLength
HoldoutStart == YearStart(HoldoutYear)

(* What the constructor of a candidate lets through.                        *)
IsCandidate(c) ==
    /\ c.decision \in Nat /\ c.labelEnd \in Nat
    /\ c.decision <= c.labelEnd
    /\ c.labelEnd <= c.decision + MaxLabel
    /\ c.year \in FirstYear..(HoldoutYear - 1)
    /\ YearStart(c.year) <= c.decision
    /\ c.decision < YearStart(c.year + 1)
    /\ c.disposition \in {"TRADE_READY", "SHADOW_ONLY", "REJECT", "ABSTAIN", "BLOCKED", "NO_FILL"}

(* An inventory holds each candidate and each research unit once.           *)
IsInventory(inventory) ==
    /\ inventory # {} /\ IsFiniteSet(inventory)
    /\ \A c \in inventory : IsCandidate(c)
    /\ \A c, d \in inventory :
         (c.id = d.id \/ <<c.event, c.company, c.decision>> = <<d.event, d.company, d.decision>>) => c = d

-----------------------------------------------------------------------------
(* Folds. *)

(* A label that ends with the first session of the embargo let through.     *)
TrainingToTheEmbargo(inventory, y) ==
    {c \in inventory : c.decision < YearStart(y) /\ c.labelEnd <= YearStart(y) - Embargo}

Training(inventory, y) ==
    {c \in inventory : c.decision < YearStart(y) /\ c.labelEnd < YearStart(y) - Embargo}

Evaluation(inventory, y) ==
    {c \in inventory : /\ c.year = y
                       /\ YearStart(y) <= c.decision
                       /\ c.decision < YearStart(y + 1)
                       /\ c.labelEnd < HoldoutStart}

PlanOf(inventory) ==
    [inventory |-> inventory,
     folds |-> [y \in FoldYears |-> [training |-> Training(inventory, y), evaluation |-> Evaluation(inventory, y)]]]

Evaluated(plan) == UNION {plan.folds[y].evaluation : y \in FoldYears}

-----------------------------------------------------------------------------
(* Coverage.  Ratios are compared by cross-multiplication.                  *)

Supported(cs) == {c \in cs : c.supported}
Unsupported(cs) == {c \in cs : ~c.supported}

(* The absolute standardised mean difference is at most one tenth: with the *)
(* sums of the values and of their squares, d^2 <= (v1 + v2) / 200.         *)
Balanced(feature, left, right) ==
    LET Total(cs) == MapThenSumSet(LAMBDA c : c.features[feature], cs)
        Squares(cs) == MapThenSumSet(LAMBDA c : c.features[feature] * c.features[feature], cs)
        Spread(cs) == Squares(cs) * Cardinality(cs) - Total(cs) * Total(cs)
        n == Cardinality(left)
        m == Cardinality(right)
        gap == Total(left) * m - Total(right) * n
    IN  \/ left = {} \/ right = {}
        \/ 200 * gap * gap <= m * m * Spread(left) + n * n * Spread(right)

Category(c, dimension) == IF dimension = "year" THEN c.year ELSE c.traits[dimension]
Categories(inventory) ==
    {{c \in inventory : Category(c, dimension) = Category(d, dimension)} : d \in inventory, dimension \in Dimensions \cup {"year"}}

Material(cs, inventory) ==
    Cardinality(cs) >= MaterialCount /\ 20 * Cardinality(cs) >= Cardinality(inventory)

(* The share of the category among the supported differs from its share     *)
(* among the unsupported by more than one tenth.                            *)
Skewed(cs, inventory) ==
    LET s == Cardinality(Supported(inventory))
        u == Cardinality(Unsupported(inventory))
        gap == Cardinality(Supported(cs)) * u - Cardinality(Unsupported(cs)) * s
    IN  s > 0 /\ u > 0 /\ 10 * (IF gap < 0 THEN -gap ELSE gap) > s * u

PlanFaults(inventory, plan) ==
    (IF plan.inventory # inventory THEN {"FOLD_INVENTORY_HASH_MISMATCH"} ELSE {})
    \cup (IF plan # PlanOf(inventory) THEN {"FOLD_PLAN_RECOMPUTATION_MISMATCH"} ELSE {})

OfYear(inventory, y) == {c \in inventory : c.year = y}

CoverageFaults(inventory) ==
    LET Below(cs, percent) == 100 * Cardinality(Supported(cs)) < percent * Cardinality(cs)
    IN  {f \in {"SUPPORTED_SET_EMPTY"} : Supported(inventory) = {}}
        \cup {f \in {"AGGREGATE_COVERAGE_BELOW_0_80"} : Below(inventory, 80)}
        \cup {f \in {"YEAR_COVERAGE_DENOMINATOR_EMPTY"} : \E y \in FoldYears : OfYear(inventory, y) = {}}
        \cup {f \in {"YEAR_COVERAGE_BELOW_0_70"} : \E y \in FoldYears : Below(OfYear(inventory, y), 70)}
        \cup {f \in {"CONTINUOUS_SMD_ABOVE_0_10"} :
                \E feature \in Features : ~Balanced(feature, Supported(inventory), Unsupported(inventory))}
        \cup {f \in {"MATERIAL_CATEGORY_COVERAGE_BELOW_0_60"} :
                \E cs \in Categories(inventory) : Material(cs, inventory) /\ Below(cs, 60)}
        \cup {f \in {"CATEGORY_PROPORTION_DIFFERENCE_ABOVE_0_10"} :
                \E cs \in Categories(inventory) : Material(cs, inventory) /\ Skewed(cs, inventory)}

CoverageStatus(stale, faults) ==
    IF stale # {} THEN "PRECHECK_BLOCKED"
    ELSE IF faults # {} THEN "INSUFFICIENT_EVIDENCE" ELSE "COVERAGE_READY"

AuditOf(inventory, plan) ==
    LET stale == PlanFaults(inventory, plan)
        faults == CoverageFaults(inventory)
    IN  [inventory |-> inventory, plan |-> plan, faults |-> stale \cup faults,
         status |-> CoverageStatus(stale, faults)]
=============================================================================
