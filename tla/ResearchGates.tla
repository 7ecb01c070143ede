----------------------------- MODULE ResearchGates -----------------------------
(***************************************************************************)
(* stage4_gate_profit_scenarios.py: whether a contract is authentic (gate  *)
(* 1), whether its four scenarios are sound, and whether the profit it     *)
(* adds is material against the profit without it (gate 2).                *)
(*                                                                         *)
(* Amounts are whole numbers, probabilities hundredths and moments days.   *)
(* An item refers to knowledge by pairs of kind and identity.  Profit      *)
(* components, drivers and financial lines which the code treats alike are *)
(* represented by one of them.                                             *)
(***************************************************************************)
EXTENDS Absent, Integers, Sequences, FiniteSets, FiniteSetsExt, Functions

Materiality == 10                \* hundredths
Year == 10                       \* days of the twelve months after publication
ScenarioKinds == {"base", "downside", "upside", "stress"}
DriverNames == {"amount", "cost"}

(* What the constructors let through: amounts and intervals may be missing. *)
Intervals == [lower : Int, upper : Int]
IsInterval(i) == i.lower <= i.upper
IsAmount(a) == a = None \/ a \in Int
IsEstimate(i) == i = None \/ (i \in Intervals /\ IsInterval(i))

IsBridge(b) ==
    /\ "parts" \in DOMAIN b
    /\ \A n \in DOMAIN b.parts : {"known", "interval"} \subseteq DOMAIN b.parts[n] /\ IsEstimate(b.parts[n].interval)

IsList(list) == LET n == Cardinality(DOMAIN list) IN n \in Nat /\ DOMAIN list = 1..n

IsScenario(s) ==
    /\ {"drivers", "financials"} \subseteq DOMAIN s /\ {"writeoff", "on"} \subseteq DOMAIN s.financials
    /\ IsList(s.drivers) /\ \A n \in DOMAIN s.drivers : "known" \in DOMAIN s.drivers[n]

IsScenarioSet(set) ==
    /\ "scenarios" \in DOMAIN set /\ IsList(set.scenarios)
    /\ \A k \in DOMAIN set.scenarios : IsScenario(set.scenarios[k])

(* The loops return at the first item that does not pass.                  *)
FirstFault(outcomes) ==
    LET faults == {k \in DOMAIN outcomes : outcomes[k] # "PASS"}
    IN IF faults = {} THEN "PASS" ELSE outcomes[Min(faults)]

-----------------------------------------------------------------------------
(* FR-GATE-001, on the results of 4A-1 and 4A-2.  The whole of Stage 4     *)
(* passes its own results on: their identities and rule hashes agree.      *)

AuthenticityGate(context, event) ==
    LET upstream == {context.admission, context.historical, context.bottleneck, context.beneficiary,
                     event.audit, event.party, event.e4, event.state.outcome}
        contracted == "E4" \in event.state.attained
    IN IF "BLOCKED" \in upstream THEN "BLOCKED"
       ELSE IF context.tier # "profit_beneficiary" \/ "REJECT" \in {context.beneficiary, event.e4} THEN "REJECT"
       ELSE IF "E3_5" \in {event.state.highest, event.state.candidate} /\ ~contracted THEN "SHADOW_ONLY"
       ELSE IF "REJECT" \in upstream THEN "REJECT"
       ELSE IF upstream # {"PASS"} \/ ~context.eligible \/ ~event.corroborated \/ ~contracted THEN "ABSTAIN"
       ELSE "PASS"

-----------------------------------------------------------------------------
(* FR-GATE-003: the scenario set.                                          *)

RefersTo(g) ==
    LET set == g.scenarios
        scenarios == Range(set.scenarios)
    IN set.fx.on
       \cup UNION {part.on : part \in Range(g.baseBridge.parts) \cup Range(g.downsideBridge.parts)}
       \cup UNION {s.financials.on : s \in scenarios}
       \cup UNION {d.on : d \in UNION {Range(s.drivers) : s \in scenarios}}

(* Mutant: known by the cutoff is known in time. *)
ReferencesExist(g) ==
    \A ref \in RefersTo(g) : \E i \in Range(g.graph) : <<i.kind, i.id>> = ref

(* Everything referred to is knowledge of the case, known when E4 was.     *)
ReferencesHold(g) ==
    \A ref \in RefersTo(g) : \E i \in Range(g.graph) :
        <<i.kind, i.id>> = ref /\ i.at # None /\ i.at <= g.scenarios.public

LawfulSet(g) ==
    LET set == g.scenarios
        replay == set.replay
    IN /\ set.public <= set.cutoff /\ set.asOf <= set.cutoff
       /\ set.start = set.public /\ set.end = set.start + Year
       /\ set.intact
       /\ set.supersedes # None => replay # None /\ replay.replayable
       /\ replay # None => replay.faithful
       /\ ReferencesHold(g)

FxMissing(set) == set.presentation # set.contract /\ (~set.fx.dated \/ set.fx.on = {})

KindsOf(set) == {s.kind : s \in Range(set.scenarios)}
ScenarioOf(set, kind) == CHOOSE s \in Range(set.scenarios) : s.kind = kind
NamesOf(s) == {d.name : d \in Range(s.drivers)}
DriverOf(s, name) == CHOOSE d \in Range(s.drivers) : d.name = name

DriversOutcome(s) ==
    IF Cardinality(NamesOf(s)) # Len(s.drivers) THEN "BLOCKED"
    ELSE IF NamesOf(s) # DriverNames THEN "ABSTAIN"
    ELSE "PASS"

SetOutcome(g) ==
    LET set == g.scenarios IN
    IF ~LawfulSet(g) THEN "BLOCKED"
    ELSE IF FxMissing(set) THEN "ABSTAIN"
    ELSE IF Cardinality(KindsOf(set)) # Len(set.scenarios) THEN "BLOCKED"
    ELSE IF KindsOf(set) # ScenarioKinds THEN "ABSTAIN"
    ELSE DriversOutcome(ScenarioOf(set, "base"))

(* By a fact or an assumption; a derived value alone supports nothing.     *)
Supported(on) == \E ref \in on : ref[1] \in {"Fact", "Assumption"}

(* known: stated in a unit over a supported interval, with trigger and falsifier. *)
DriverOutcome(d, s, set) ==
    LET base == DriverOf(ScenarioOf(set, "base"), d.name) IN
    IF ~d.known \/ ~Supported(d.on) \/ d.asOf = None THEN "ABSTAIN"
    ELSE IF d.asOf > set.public \/ (d.unbound /\ s.kind # "upside") THEN "BLOCKED"
    ELSE IF s.kind = "base" THEN IF d.direction = "base" THEN "PASS" ELSE "BLOCKED"
    ELSE IF d.direction = "inherited" THEN IF d.value = base.value THEN "PASS" ELSE "BLOCKED"
    ELSE IF d.direction \in {"better", "worse"} THEN IF d.reasoned THEN "PASS" ELSE "ABSTAIN"
    ELSE "BLOCKED"

MustMove == [base |-> "base", downside |-> "worse", upside |-> "better", stress |-> "worse"]
MovesAsItMust(s) == \E d \in Range(s.drivers) : d.direction = MustMove[s.kind]

Magnitudes == {"revenue", "expenses", "invested", "funding", "writeoff"}
Profit(f) == f.revenue - f.expenses - f.finance
CashFlow(f) == Profit(f) + f.noncash - f.invested

FinancialsOutcome(f) ==
    IF ~Supported(f.on) \/ \E line \in DOMAIN f : f[line] = None THEN "ABSTAIN"
    ELSE IF \/ \E line \in Magnitudes : f[line] < 0
            \/ f.profit # Profit(f) \/ f.cashFlow # CashFlow(f) THEN "BLOCKED"
    ELSE "PASS"

ScenarioOutcome(s, set) ==
    IF DriversOutcome(s) # "PASS" THEN DriversOutcome(s)
    ELSE IF ~s.reasoned THEN "ABSTAIN"
    ELSE LET drivers == FirstFault([k \in DOMAIN s.drivers |-> DriverOutcome(s.drivers[k], s, set)])
         IN IF drivers # "PASS" THEN drivers
            ELSE IF ~MovesAsItMust(s) THEN "ABSTAIN"
            ELSE FinancialsOutcome(s.financials)

(* How much worse stress is than the downside, line by line.               *)
WorseBy(stress, downside) ==
    {downside.profit - stress.profit, downside.cashFlow - stress.cashFlow, stress.funding - downside.funding,
     downside.headroom - stress.headroom, stress.writeoff - downside.writeoff}

ProbabilityOutcome(set) ==
    LET of == [kind \in ScenarioKinds |-> ScenarioOf(set, kind).probability]
        weighed == {"base", "downside", "upside"}
    IN IF \A kind \in ScenarioKinds : of[kind] = None THEN "PASS"
       ELSE IF of["stress"] # None THEN "BLOCKED"
       ELSE IF set.calibration = None \/ \E kind \in weighed : of[kind] = None THEN "ABSTAIN"
       ELSE IF \/ \E kind \in weighed : of[kind] \notin 0..100
               \/ set.calibration > set.public
               \/ MapThenSumSet(LAMBDA kind : of[kind], weighed) # 100
            THEN "BLOCKED"
       ELSE "PASS"

ComparisonOutcome(set) ==
    LET of(kind) == ScenarioOf(set, kind).financials
        worse == WorseBy(of("stress"), of("downside"))
    IN IF ~(of("upside").profit >= of("base").profit /\ of("base").profit >= of("downside").profit) THEN "BLOCKED"
       ELSE IF \A by \in worse : by <= 0 THEN "ABSTAIN"
       ELSE IF (\E by \in worse : by < 0) /\ ~ScenarioOf(set, "stress").explained THEN "ABSTAIN"
       ELSE ProbabilityOutcome(set)

ScenarioValidation(g) ==
    IF SetOutcome(g) # "PASS" THEN SetOutcome(g)
    ELSE LET set == g.scenarios
             each == FirstFault([k \in DOMAIN set.scenarios |-> ScenarioOutcome(set.scenarios[k], set)])
         IN IF each # "PASS" THEN each ELSE ComparisonOutcome(set)

-----------------------------------------------------------------------------
(* FR-GATE-002: profit without the event, bridged from its components.     *)

Sign == [revenue |-> 1, expense |-> -1, finance |-> -1, income |-> 1]
SignedParts == {"finance", "income"}

PointOf(parts) == MapThenSumSet(LAMBDA n : Sign[n] * parts[n].point, DOMAIN parts)

(* Mutant: what is deducted is deducted at the end it came from. *)
SpanUnswapped(parts) ==
    LET end(n, e) == Sign[n] * parts[n].interval[e]
    IN [lower |-> MapThenSumSet(LAMBDA n : end(n, "lower"), DOMAIN parts),
        upper |-> MapThenSumSet(LAMBDA n : end(n, "upper"), DOMAIN parts)]

SpanOf(parts) ==
    LET end(n, e, opposite) == Sign[n] * parts[n].interval[IF Sign[n] = 1 THEN e ELSE opposite]
    IN [lower |-> MapThenSumSet(LAMBDA n : end(n, "lower", "upper"), DOMAIN parts),
        upper |-> MapThenSumSet(LAMBDA n : end(n, "upper", "lower"), DOMAIN parts)]

Within(value, interval) == interval.lower <= value /\ value <= interval.upper

BridgeOutcome(b) ==
    LET parts == b.parts
        each == Range(parts)
    IN IF ~b.intact \/ b.eventInside \/ b.doubled THEN "BLOCKED"
       ELSE IF \/ ~b.quantified \/ ~b.reliable \/ DOMAIN parts # DOMAIN Sign
               \/ \E part \in each : ~part.known \/ part.point = None \/ part.interval = None \/ ~Supported(part.on)
            THEN "ABSTAIN"
       ELSE IF \/ \E n \in DOMAIN parts \ SignedParts : parts[n].point < 0
               \/ \E part \in each : ~Within(part.point, part.interval)
               \/ b.profit = None \/ b.profit # PointOf(parts) \/ b.span # SpanOf(parts)
            THEN "BLOCKED"
       ELSE "PASS"

BridgesOutcome(g) == FirstFault(<<BridgeOutcome(g.baseBridge), BridgeOutcome(g.downsideBridge)>>)

Fragile(g) == g.baseBridge.profit <= 0 \/ g.downsideBridge.profit <= 0 \/ g.baseBridge.span.lower <= 0

MaterialityGate(g) ==
    LET base == ScenarioOf(g.scenarios, "base").financials
    IN IF BridgesOutcome(g) # "PASS" THEN BridgesOutcome(g)
       ELSE IF Fragile(g) THEN "SHADOW_ONLY"
       ELSE IF 100 * base.profit < Materiality * g.baseBridge.profit THEN "REJECT"
       ELSE IF base.profit <= 0 \/ base.cashFlow <= 0 THEN "SHADOW_ONLY"
       ELSE "PASS"

-----------------------------------------------------------------------------
(* evaluate_stage4_gates: what does not pass leaves the rest unevaluated.  *)

GatesOf(g, one, scenarios, two) ==
    LET weighed == two # None /\ BridgesOutcome(g) = "PASS"
        base == ScenarioOf(g.scenarios, "base").financials
    IN [one |-> one, scenarios |-> scenarios, two |-> two,
        overall |-> IF one # "PASS" THEN one ELSE IF scenarios # "PASS" THEN scenarios ELSE two,
        track |-> IF ~weighed THEN "undetermined" ELSE IF Fragile(g) THEN "fragile_profit_shadow_track" ELSE "standard_track",
        profit |-> IF weighed THEN base.profit ELSE None,
        cashFlow |-> IF weighed THEN base.cashFlow ELSE None]

GateReport(g) ==
    LET one == AuthenticityGate(g.context, g.event)
        scenarios == IF one = "PASS" THEN ScenarioValidation(g) ELSE None
    IN GatesOf(g, one, scenarios, IF scenarios = "PASS" THEN MaterialityGate(g) ELSE None)
=============================================================================
