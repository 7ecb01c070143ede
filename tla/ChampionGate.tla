------------------------------ MODULE ChampionGate ------------------------------
(***************************************************************************)
(* The champion gate of Stage 6C.  It trusts nothing it is handed: folds,  *)
(* coverage and every net-worth replay are computed again and compared     *)
(* with what the case was bound to, and only then is the formula applied.  *)
(***************************************************************************)
EXTENDS ComparisonFamily

CONSTANTS
    MinTrades,         \* completed trades the formula asks for in all
    MinFoldTrades      \* and in each fold

ASSUME GateConstants == MinTrades \in Nat /\ MinFoldTrades \in Nat

(* The ten series: one for each fold, one for each comparison, and the one  *)
(* replayed with frictions of one and a half.                               *)
FoldSeries(y) == <<"fold", y>>
CaseSeries(i) == <<"case", i>>
FrictionSeries == <<"friction", 0>>
Series == {FoldSeries(y) : y \in FoldYears} \cup {CaseSeries(i) : i \in Family} \cup {FrictionSeries}

(* What the constructors of the attestations let through.                   *)
IsCompletion(ids) == IsFiniteSet(ids)
IsAudit(audit) == audit.bias \in Nat /\ audit.reconciliation \in Nat

(* What a champion case binds of its sources.                               *)
BindingOf(source) ==
    [inventory |-> source.inventory, plan |-> source.plan, coverage |-> source.coverage,
     navs |-> [s \in Series \ {FrictionSeries} |-> source.navs[s]],
     results |-> [s \in Series \ {FrictionSeries} |-> source.results[s]],
     cases |-> source.cases, friction |-> source.friction,
     completed |-> source.completed, audit |-> source.audit]

(* The evaluation windows left out of who may count as a trade.             *)
TradableAnywhere(inventory, plan) ==
    {c \in inventory : c.supported /\ c.disposition = "TRADE_READY"}

Tradable(inventory, plan) ==
    {c \in inventory : c.supported /\ c.disposition = "TRADE_READY" /\ c \in Evaluated(plan)}

(* Replays that were corrected after they were run go unnoticed.            *)
FoldReplaysUnchecked(source) ==
    {f \in {"FOLD_TWR_NOT_RECONCILED"} :
       \E y \in FoldYears : KernelOf(source.navs[FoldSeries(y)]).status # "TWR_RECONCILED"}

FoldReplayFaults(source) ==
    LET folds == {FoldSeries(y) : y \in FoldYears}
    IN  {f \in {"FOLD_TWR_SOURCE_MISMATCH"} :
           \E s \in folds : \/ source.results[s] # KernelOf(source.navs[s])
                            \/ source.champion.navs[s] # source.navs[s]
                            \/ source.champion.results[s] # source.results[s]}
        \cup {f \in {"FOLD_TWR_NOT_RECONCILED"} :
                \E s \in folds : KernelOf(source.navs[s]).status # "TWR_RECONCILED"}

CaseReplayFaults(source) ==
    LET cases == {CaseSeries(i) : i \in Family}
    IN  {f \in {"INFERENCE_TWR_SOURCE_MISMATCH"} :
           \E s \in cases : \/ source.results[s] # KernelOf(source.navs[s])
                            \/ source.champion.navs[s] # source.navs[s]
                            \/ source.champion.results[s] # source.results[s]}
        \cup {f \in {"INFERENCE_CASE_SOURCE_MISMATCH"} : source.champion.cases # source.cases}

FrictionFaults(source) ==
    {f \in {"FRICTION_TWR_SOURCE_MISMATCH"} :
       \/ source.results[FrictionSeries] # KernelOf(source.navs[FrictionSeries])
       \/ source.champion.friction # source.friction
       \/ source.friction.nav # source.navs[FrictionSeries]
       \/ source.friction.result # source.results[FrictionSeries]}

AttestationFaults(source) ==
    {f \in {"AUDIT_ATTESTATION_SOURCE_MISMATCH"} : source.audit # source.champion.audit}
    \cup {f \in {"COMPLETION_ATTESTATION_SOURCE_MISMATCH"} : source.completed # source.champion.completed}
    \cup {f \in {"COMPLETION_ATTESTATION_CONTAINS_INELIGIBLE_CANDIDATE"} :
            ~(source.completed \subseteq {c.id : c \in Tradable(source.inventory, source.plan)})}
    \cup {f \in {"NONCOMPLETED_CANDIDATE_CONTRIBUTION_NONZERO"} :
            \E x \in source.cases[NoTrade].contributions : x.candidate \notin source.completed /\ Moved(x)}

GatePrecheck(source) ==
    LET expected == PlanOf(source.inventory)
    IN  {f \in {"FOLD_SOURCE_MISMATCH"} :
           source.plan # expected \/ source.champion.plan # source.plan}
        \cup {f \in {"COVERAGE_SOURCE_MISMATCH"} :
                source.coverage # AuditOf(source.inventory, expected) \/ source.champion.coverage # source.coverage}
        \cup {f \in {"INVENTORY_SOURCE_MISMATCH"} : source.champion.inventory # source.inventory}
        \cup {f \in {"COVERAGE_NOT_READY"} : source.coverage.status # "COVERAGE_READY"}
        \cup FoldReplayFaults(source) \cup CaseReplayFaults(source)
        \cup FrictionFaults(source) \cup AttestationFaults(source)

-----------------------------------------------------------------------------
(* The formula. *)

FoldTrades(source, y) == {c \in source.plan.folds[y].evaluation : c.id \in source.completed}

ThinEvidence(source) ==
    {f \in {"COMPLETED_TRADES_BELOW_30"} : Cardinality(source.completed) < MinTrades}
    \cup {f \in {"FOLD_COMPLETED_TRADES_BELOW_5"} :
            \E y \in FoldYears : Cardinality(FoldTrades(source, y)) < MinFoldTrades}

(* A fall of more than fifteen hundredths from an earlier high.             *)
DeepDrawdown(points) ==
    \E i, j \in DOMAIN points : i < j /\ 100 * (points[i].strategy - points[j].strategy) > 15 * points[i].strategy

FoldFaults(navs) ==
    LET ExcessOf(y) == KernelOf(navs[FoldSeries(y)]).excess
    IN  {f \in {"POSITIVE_FOLDS_BELOW_3_OF_4"} :
           Cardinality({y \in FoldYears : Exceeds(ExcessOf(y), 0)}) < 3}
        \cup {f \in {"WORST_FOLD_BELOW_MINUS_10"} : \E y \in FoldYears : ~Reaches(ExcessOf(y), -10)}
        \cup {f \in {"MAXIMUM_DRAWDOWN_ABOVE_0_15"} :
                \E y \in FoldYears : DeepDrawdown(navs[FoldSeries(y)].points)}

ProfitFaults(contributions) ==
    LET total == Total(contributions, "full")
    IN  {f \in {"TOTAL_NET_PROFIT_NOT_POSITIVE"} : total <= 0}
        \cup {f \in {"LARGEST_WINNER_SHARE_ABOVE_0_25"} :
                total > 0 /\ \E x \in contributions : 4 * x.full > total}

(* A replay without a number counts as zero.                                *)
FrictionNegative(result) == result.excess # None /\ ~Reaches(result.excess, 0)

WeakEvidence(source, holm) ==
    FoldFaults(source.navs) \cup ProfitFaults(source.cases[NoTrade].contributions)
    \cup {f \in {"FULL_NET_BENCHMARK_EXCESS_NOT_POSITIVE"} : ~Exceeds(source.results[CaseSeries(Matched)].excess, 0)}
    \cup {f \in {"FULL_VS_BEST_SIMPLE_INCREMENT_BELOW_2"} : ~Reaches(source.results[CaseSeries(FrozenBest)].excess, 2)}
    \cup {f \in {"FRICTION_1_5_NET_EXCESS_NEGATIVE"} : FrictionNegative(source.results[FrictionSeries])}
    \cup {f \in {"HOLM_ADJUSTED_INFERENCE_NOT_READY"} : holm.status # "ADJUSTED_INFERENCE_READY"}
    \cup {f \in {"P0_BIAS_FAILURES_NONZERO"} : source.audit.bias # 0}
    \cup {f \in {"RECONCILIATION_FAILURES_NONZERO"} : source.audit.reconciliation # 0}

(* Holm's family refuses a blocked comparison by raising, and so the gate.  *)
FamilyBlocked(source) ==
    \E i \in Family :
        InferenceFaults(source.cases[i], source.inventory, source.plan, source.coverage,
                        source.navs[CaseSeries(i)], source.results[CaseSeries(i)]) # {}

Verdict(status, reasons, holm) == [status |-> status, reasons |-> reasons, holm |-> holm]

FormulaVerdict(source, holm) ==
    LET thin == ThinEvidence(source)
        weak == WeakEvidence(source, holm)
    IN  Verdict(IF thin # {} THEN "INSUFFICIENT_EVIDENCE"
                ELSE IF weak # {} THEN "REVISE_REQUIRED" ELSE "GATE_FORMULA_PASSED",
                thin \cup weak, holm)

GateVerdict(source, draws) ==
    IF GatePrecheck(source) # {} THEN Verdict("PRECHECK_BLOCKED", GatePrecheck(source), None)
    ELSE IF FamilyBlocked(source) THEN Verdict("RAISED", {}, None)
    ELSE FormulaVerdict(source, HolmOf(draws))
=============================================================================
