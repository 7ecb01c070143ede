----------------------------- MODULE SyntheticPhase -----------------------------
(***************************************************************************)
(* The Stage 6C phase.  A researcher enrols candidates, plans the folds,   *)
(* audits coverage, replays the net-worth series, binds the cases and asks *)
(* for a seal; nothing stops him from enrolling a late candidate or        *)
(* correcting a series after something was computed from the old one.  The *)
(* phase evaluates the whole bundle in one call.                           *)
(***************************************************************************)
EXTENDS ChampionGate, PeerExperiments

CONSTANTS
    Studies,           \* the inventories and evidence a study starts from
    LateCandidates,    \* candidates that may be enrolled late
    Corrections,       \* series that may be corrected, with their new values
    Attestations,      \* completions and audits that may be attested anew
    MaxRevisions       \* bound on late enrolments and corrections

(* Studies are made of objects the program can construct.                   *)
ASSUME StudiesAreConstructible ==
    /\ \A study \in Studies :
         /\ IsInventory(study.inventory)
         /\ \A s \in Series : IsNav(study.evidence.navs[s])
         /\ \A i \in Family : IsDraw(study.evidence.draws[i])
         /\ IsCompletion(study.evidence.completed) /\ IsAudit(study.evidence.audit)
    /\ \A x \in Corrections : IsNav(x.nav)
    /\ \A a \in Attestations : IsCompletion(a.completed) /\ IsAudit(a.audit)

VARIABLES
    inventory,         \* the candidates enrolled
    evidence,          \* the raw material of the study
    plan,              \* the fold plan last computed, or None
    coverage,          \* the coverage audit last computed, or None
    replays,           \* the replayed series and the peer snapshots, or None
    bound,             \* the inference cases, attestation and champion case, or None
    revisions,         \* late enrolments and corrections so far
    seal               \* the answer of the phase, or None

vars == <<inventory, evidence, plan, coverage, replays, bound, revisions, seal>>

Unsealed == seal = None

Init ==
    /\ \E study \in Studies : inventory = study.inventory /\ evidence = study.evidence
    /\ plan = None /\ coverage = None /\ replays = None /\ bound = None
    /\ revisions = 0 /\ seal = None

(* Each entry point asks for the exact approved capability.                 *)
Capable == evidence.capability = "STAGE6_DEVELOPMENT_WALK_FORWARD_VALIDATION"

EnrolLate(c) ==
    /\ Unsealed /\ revisions < MaxRevisions
    /\ c \notin inventory /\ IsInventory(inventory \cup {c})
    /\ inventory' = inventory \cup {c}
    /\ revisions' = revisions + 1
    /\ UNCHANGED <<evidence, plan, coverage, replays, bound, seal>>

Correct(series, nav) ==
    /\ Unsealed /\ revisions < MaxRevisions
    /\ evidence.navs[series] # nav
    /\ evidence' = [evidence EXCEPT !.navs[series] = nav]
    /\ revisions' = revisions + 1
    /\ UNCHANGED <<inventory, plan, coverage, replays, bound, seal>>

Reattest(a) ==
    /\ Unsealed /\ revisions < MaxRevisions
    /\ evidence' = [evidence EXCEPT !.completed = a.completed, !.audit = a.audit]
    /\ revisions' = revisions + 1
    /\ UNCHANGED <<inventory, plan, coverage, replays, bound, seal>>

PlanFolds ==
    /\ Unsealed /\ Capable
    /\ plan' = PlanOf(inventory)
    /\ UNCHANGED <<inventory, evidence, coverage, replays, bound, revisions, seal>>

AuditCoverage ==
    /\ Unsealed /\ Capable /\ plan # None
    /\ coverage' = AuditOf(inventory, plan)
    /\ UNCHANGED <<inventory, evidence, plan, replays, bound, revisions, seal>>

(* The target's attributes are recorded in the snapshot, not looked up.     *)
SnapshotOf(c) ==
    LET seen == evidence.market[c.id]
    IN  [candidate |-> c, target |-> c.company, decision |-> c.decision, industry |-> seen.industry,
         size |-> seen.size, beta |-> seen.beta, members |-> seen.members]

Replay ==
    /\ Unsealed /\ Capable /\ plan # None
    /\ \A c \in Evaluated(plan) : IsSnapshot(SnapshotOf(c))
    /\ replays' = [results |-> [s \in Series |-> KernelOf(evidence.navs[s])],
                   snapshots |-> {SnapshotOf(c) : c \in Evaluated(plan)}]
    /\ UNCHANGED <<inventory, evidence, plan, coverage, bound, revisions, seal>>

InferenceCase(i) ==
    [inventory |-> inventory, plan |-> plan, coverage |-> coverage,
     nav |-> evidence.navs[CaseSeries(i)], result |-> replays.results[CaseSeries(i)],
     contributions |-> {x \in evidence.claims[i] : \E c \in inventory : c.id = x.candidate},
     delta |-> evidence.deltas[i]]

FrictionAttestation ==
    [nav |-> evidence.navs[FrictionSeries], result |-> replays.results[FrictionSeries]]

(* The bundle as the phase would be given it now.                           *)
Source(cases, friction, champion) ==
    [inventory |-> inventory, plan |-> plan, coverage |-> coverage, navs |-> evidence.navs,
     results |-> replays.results, snapshots |-> replays.snapshots, cases |-> cases, friction |-> friction,
     completed |-> evidence.completed, audit |-> evidence.audit, champion |-> champion,
     registrations |-> evidence.registrations, outcomes |-> evidence.outcomes,
     parent |-> evidence.parent, started |-> evidence.started]

(* The constructor of the champion case wants the four folds and the five   *)
(* comparisons to rest on different series.                                 *)
DistinctSeries(navs) ==
    /\ \A y, z \in FoldYears : navs[FoldSeries(y)] = navs[FoldSeries(z)] => y = z
    /\ \A i, j \in Family : navs[CaseSeries(i)] = navs[CaseSeries(j)] => i = j

(* The constructor of the source bundle wants none of its lists empty.      *)
IsBundle(source) == source.snapshots # {} /\ source.registrations # {} /\ source.outcomes # {}

Bind ==
    /\ Unsealed /\ plan # None /\ coverage # None /\ replays # None
    /\ DistinctSeries(evidence.navs)
    /\ \A i \in Family : IsInferenceCase(InferenceCase(i))
    /\ LET cases == [i \in Family |-> InferenceCase(i)]
       IN  bound' = [cases |-> cases, friction |-> FrictionAttestation,
                     champion |-> BindingOf(Source(cases, FrictionAttestation, None))]
    /\ UNCHANGED <<inventory, evidence, plan, coverage, replays, revisions, seal>>

-----------------------------------------------------------------------------
(* The phase: peers, then experiments, then the gate.                       *)

Seal(status, reasons, holm, baskets) ==
    [status |-> status, reasons |-> reasons, holm |-> holm, baskets |-> baskets]

PeersSound(source) ==
    source.plan = PlanOf(source.inventory) /\ SnapshotsCover(source.snapshots, Evaluated(source.plan))

PhaseStatus ==
    [GATE_FORMULA_PASSED |-> "SEALED", INSUFFICIENT_EVIDENCE |-> "INSUFFICIENT_EVIDENCE",
     REVISE_REQUIRED |-> "REVISE_REQUIRED", PRECHECK_BLOCKED |-> "PRECHECK_BLOCKED", RAISED |-> "RAISED"]

AfterGate(verdict, baskets) == Seal(PhaseStatus[verdict.status], verdict.reasons, verdict.holm, baskets)

PhaseSeal(source, draws) ==
    LET baskets == BasketsOf(source.snapshots)
    IN  IF ~PeersSound(source) THEN Seal("PRECHECK_BLOCKED", {"PEER_SOURCE_INVALID"}, None, {})
        ELSE IF Lacking(baskets) # {} THEN Seal("INSUFFICIENT_EVIDENCE", {"PEER_BASKET_INSUFFICIENT"}, None, baskets)
        ELSE IF ~ExperimentsSound(source.registrations, source.outcomes, source.parent, source.started)
        THEN Seal("PRECHECK_BLOCKED", {"EXPERIMENT_SOURCE_INVALID"}, None, baskets)
        ELSE IF ~AllCompleted(source.outcomes)
        THEN Seal("REVISE_REQUIRED", {"EXPERIMENT_OUTCOME_NOT_COMPLETED"}, None, baskets)
        ELSE AfterGate(GateVerdict(source, draws), baskets)

Evaluate ==
    /\ Unsealed /\ Capable /\ bound # None
    /\ LET source == Source(bound.cases, bound.friction, bound.champion)
       IN  IsBundle(source) /\ seal' = PhaseSeal(source, evidence.draws)
    /\ UNCHANGED <<inventory, evidence, plan, coverage, replays, bound, revisions>>

Next ==
    \/ \E c \in LateCandidates : EnrolLate(c)
    \/ \E x \in Corrections : Correct(x.series, x.nav)
    \/ \E a \in Attestations : Reattest(a)
    \/ PlanFolds
    \/ AuditCoverage
    \/ Replay
    \/ Bind
    \/ Evaluate

Spec == Init /\ [][Next]_vars

-----------------------------------------------------------------------------
(* Properties. *)

Sealed == seal # None /\ seal.status = "SEALED"

(* Whatever the folds were planned from, no fold learns from a label that    *)
(* ends within the embargo before, or after, a candidate it is judged on;   *)
(* nothing is judged twice, and nothing judged touches the holdout.         *)
NoLeakage ==
    plan # None =>
        \A y, z \in FoldYears : y <= z =>
            /\ \A t \in plan.folds[y].training, e \in plan.folds[z].evaluation : t.labelEnd + Embargo < e.decision
            /\ y # z => plan.folds[y].evaluation \cap plan.folds[z].evaluation = {}
            /\ \A e \in plan.folds[y].evaluation : (e.decision..e.labelEnd) \cap (HoldoutStart..(HoldoutStart + MaxLabel)) = {}

(* The closed testing procedure over Bonferroni's test of each intersection:*)
(* a comparison is rejected when every set it belongs to holds a p-value    *)
(* small enough for the size of the set.                                    *)
ClosedTesting(draws) ==
    {i \in Family : \A hypotheses \in {h \in SUBSET Family : i \in h} :
        \E j \in hypotheses : 20 * draws[j].p * Cardinality(hypotheses) <= Resolution}

(* The step-down the code computes rejects what the reference rejects, its  *)
(* adjusted p-values say the same, and ready means that all five fell.      *)
HolmIsClosedTesting ==
    (seal # None /\ seal.holm # None) =>
        LET reference == ClosedTesting(evidence.draws)
        IN  /\ seal.holm.rejected = reference
            /\ {i \in Family : 20 * seal.holm.adjusted[i] <= Resolution} = reference
            /\ seal.holm.status = "ADJUSTED_INFERENCE_READY" => reference = Family

(* Each trade a seal counts was judged in exactly one fold, against a basket*)
(* of enough other companies' shares, and it alone moved money: nobody else *)
(* contributed, and no one trade made more than a quarter of the profit.    *)
SealedTradesAreAccountable ==
    Sealed =>
        LET trades == {c \in inventory : c.id \in evidence.completed}
            claims == bound.cases[NoTrade].contributions
        IN  /\ Cardinality(trades) = Cardinality(evidence.completed)
            /\ \A c \in trades :
                 /\ Cardinality({y \in FoldYears : c \in plan.folds[y].evaluation}) = 1
                 /\ \E b \in seal.baskets :
                      b.candidate = c /\ Cardinality({m.security : m \in b.peers} \ {c.company}) >= MinPeers
            /\ \A x \in claims : x.full # 0 => x.candidate \in evidence.completed
            /\ \A x \in claims : 4 * x.full <= Total(claims, "full")

(* A seal certifies its sources as they are, not as they were when they     *)
(* were first computed: everything derived in it recomputes to itself.      *)
SealMatchesItsSources ==
    Sealed =>
        /\ plan = PlanOf(inventory)
        /\ coverage = AuditOf(inventory, plan) /\ coverage.status = "COVERAGE_READY"
        /\ \A s \in Series : replays.results[s] = KernelOf(evidence.navs[s])

(* docs/validation/stage6c-synthetic-champion-gate-acceptance.md: the gate  *)
(* checks that the net excess under frictions of one and a half is not      *)
(* negative.  So a sealed study has such a number.                          *)
SealedFrictionWasMeasured ==
    Sealed => replays.results[FrictionSeries].status = "TWR_RECONCILED"
=============================================================================
