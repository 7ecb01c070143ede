----------------------------- MODULE ValuationExit -----------------------------
(***************************************************************************)
(* stage4_expectation_valuation_exit.py: whether the public expected the   *)
(* event and the market paid for it (gate 3), whether enough is left at a  *)
(* synthetic price (gate 4), and whether a synthetic holding is exited.    *)
(*                                                                         *)
(* Rates are hundredths.  An artifact that is what its hash says is        *)
(* intact; method, version, hash and references of one are one flag.       *)
(***************************************************************************)
EXTENDS ResearchGates

MinNetBaseReturn == 15
MinRewardToDownside == 2
MaxProofDays == 120

Artifacts == {"expectation", "market", "valuation", "price", "plan"}

ArtifactsLawful(x) ==
    /\ \A a, b \in Artifacts : x[a].id = x[b].id => a = b
    /\ \A a \in Artifacts : x[a].intact /\ x[a].asOf <= x[a].cutoff /\ x[a].cutoff <= x.cutoff

(* What their constructors let through.                                    *)
IsMarketContext(m) == {"price", "shares", "turnover"} \subseteq DOMAIN m /\ IsAmount(m.price) /\ IsAmount(m.shares)

IsValuation(v) ==
    /\ {"business", "event", "values", "shares"} \subseteq DOMAIN v
    /\ IsEstimate(v.business) /\ IsEstimate(v.event) /\ IsAmount(v.shares)
    /\ v.values = None \/ {v.values[name] : name \in {"base", "downside"}} \subseteq Intervals

IsPriceAssumption(p) ==
    /\ {"price", "shares", "cost", "slippage"} \subseteq DOMAIN p
    /\ \A field \in {"price", "shares", "cost", "slippage"} : IsAmount(p[field])

IsExpectation(e) ==
    /\ {"id", "intact", "asOf", "cutoff", "public", "basis", "prior", "conflicting", "covered"} \subseteq DOMAIN e
    /\ {"state", "binding", "profit", "cashFlow", "absence"} \subseteq DOMAIN e.prior

IsPlan(plan) == {"falsifiers", "days"} \subseteq DOMAIN plan

-----------------------------------------------------------------------------
(* The valuation.                                                          *)

(* Growth nobody is bound to belongs to the event's upside alone.          *)
PartOutcome(part) ==
    IF ~part.supported THEN "ABSTAIN"
    ELSE IF \/ part.unbound /\ ~(part.role = "event" /\ part.scope = {"upside"})
            \/ part.role = "event" /\ "base" \in part.scope /\ ~part.binding
         THEN "BLOCKED"
    ELSE "PASS"

Ladder4A4 == <<"upside", "base", "downside", "stress">>
Ranked(values) ==
    \A k \in 1..3, end \in {"lower", "upper"} : values[Ladder4A4[k]][end] >= values[Ladder4A4[k + 1]][end]

ValuationOutcome(v) ==
    IF ~v.acyclic \/ v.terminal \/ v.crossSelected THEN "BLOCKED"
    ELSE IF ~v.discounted \/ ~v.methodical \/ v.business = None \/ v.event = None
            \/ v.values = None \/ v.shares = None \/ v.parts = <<>>
         THEN "ABSTAIN"
    ELSE IF \E i, j \in DOMAIN v.parts : i # j /\ v.parts[i].key = v.parts[j].key THEN "BLOCKED"
    ELSE LET parts == FirstFault([k \in DOMAIN v.parts |-> PartOutcome(v.parts[k])])
         IN IF parts # "PASS" THEN parts ELSE IF Ranked(v.values) THEN "PASS" ELSE "BLOCKED"

-----------------------------------------------------------------------------
(* FR-GATE-004.  terms: all of an economic basis but currency and unit.    *)

Expectation(x) ==
    LET prior == x.expectation.prior
        IsMissing == None \in {prior.binding, prior.profit, prior.cashFlow}
    IN IF prior.state = "explicitly_absent"
       THEN IF prior.absence /\ x.binding.lower > 0 /\ x.profit.lower > 0 /\ x.cashFlow.lower > 0
            THEN "unexpected" ELSE "unknown"
       ELSE IF prior.state = "directional_nonbinding" \/ IsMissing THEN "unknown"
       ELSE IF /\ x.profit.lower > prior.profit.upper
               /\ x.cashFlow.lower >= prior.cashFlow.lower /\ x.cashFlow.upper >= prior.cashFlow.upper
            THEN "partially_priced"
       ELSE IF x.profit.upper <= prior.profit.upper THEN "fully_priced"
       ELSE "unknown"

Implied(x) ==
    LET cap == x.market.price * x.market.shares
    IN [lower |-> cap - x.valuation.business.upper, upper |-> cap - x.valuation.business.lower]

Pricing(x) ==
    IF Implied(x).lower >= x.valuation.event.upper THEN "fully_reflected"
    ELSE IF Implied(x).upper < x.valuation.event.lower THEN "not_fully_reflected"
    ELSE "indeterminate"

Priced(gate, expectation, pricing) == [gate |-> gate, expectation |-> expectation, pricing |-> pricing]
Unpriced == Priced("ABSTAIN", "unknown", "indeterminate")

Gate3Verdict(x) ==
    LET expectation == Expectation(x)
        pricing == Pricing(x)
    IN Priced(IF pricing = "fully_reflected" \/ expectation = "fully_priced" THEN "REJECT"
              ELSE IF pricing = "indeterminate" \/ expectation = "unknown" THEN "ABSTAIN"
              ELSE "PASS", expectation, pricing)

EvaluateGate3(x) ==
    LET e == x.expectation
        m == x.market
        valued == ValuationOutcome(x.valuation)
    IN IF {x.upstream.one, x.upstream.scenarios, x.upstream.two} # {"PASS"} THEN Priced(None, None, None)
       ELSE IF \/ e.public # x.public \/ e.asOf >= x.public \/ m.end >= x.public \/ m.start > m.end
               \/ e.basis.currency # x.basis.currency
            THEN Priced("BLOCKED", None, None)
       ELSE IF e.basis # x.basis \/ x.valuation.basis # x.basis THEN Unpriced
       ELSE IF e.conflicting \/ m.conflicting \/ ~e.covered THEN Unpriced
       ELSE IF m.price = None \/ m.shares = None \/ m.turnover = None \/ ~m.methodical
            THEN Priced("ABSTAIN", None, "indeterminate")
       ELSE IF m.price <= 0 \/ m.shares <= 0 \/ m.turnover < 0 THEN Priced("BLOCKED", None, None)
       ELSE IF valued # "PASS" THEN Priced(valued, None, None)
       ELSE Gate3Verdict(x)

-----------------------------------------------------------------------------
(* FR-GATE-005: returns at the synthetic price, after friction.            *)

(* value / market cap - 1 - friction, times a hundred market caps.         *)
NetAt(value, cap, friction) == 100 * value - (100 + friction) * cap

(* Mutant: the reward is measured before friction. *)
RewardsBeforeFriction(x) ==
    LET cap == x.price.price * x.price.shares
        base == NetAt(x.valuation.values["base"].lower, cap, 0)
        loss == -NetAt(x.valuation.values["downside"].lower, cap, x.price.cost + x.price.slippage)
    IN base >= MinNetBaseReturn * cap /\ base >= MinRewardToDownside * loss

Rewards(x) ==
    LET cap == x.price.price * x.price.shares
        friction == x.price.cost + x.price.slippage
        base == NetAt(x.valuation.values["base"].lower, cap, friction)
        loss == -NetAt(x.valuation.values["downside"].lower, cap, friction)
    IN base >= MinNetBaseReturn * cap /\ base >= MinRewardToDownside * loss

NoLoss(x) ==
    NetAt(x.valuation.values["downside"].lower, x.price.price * x.price.shares, x.price.cost + x.price.slippage) >= 0

EvaluateGate4(x, three) ==
    LET p == x.price
        plan == x.plan
    IN IF three # "PASS" THEN None
       ELSE IF ~p.synthetic \/ p.executable \/ p.currency # x.valuation.basis.currency THEN "BLOCKED"
       ELSE IF None \in {p.price, p.shares, p.cost, p.slippage} \/ ~p.sourced THEN "ABSTAIN"
       ELSE IF p.price * p.shares <= 0 \/ p.shares <= 0 \/ p.cost + p.slippage < 0 THEN "BLOCKED"
       ELSE IF x.valuation.shares # p.shares THEN "BLOCKED"
       ELSE IF NoLoss(x) \/ plan.falsifiers < 2 \/ ~plan.scheduled \/ plan.days = None THEN "ABSTAIN"
       ELSE IF plan.days > MaxProofDays \/ ~Rewards(x) THEN "REJECT"
       ELSE "PASS"

-----------------------------------------------------------------------------
(* FR-EXIT-001.  Triggers are confirmed, refuted, unknown or not           *)
(* applicable; three of them the system judges by itself.                  *)

EvidenceKinds == {"cancelled", "acceptance", "delay", "reduced", "credit", "bridge"}
SystemTriggers == {"risk_budget_exit", "time_exit", "value_exit"}

Left(state, disposition, confirmed) == [state |-> state, disposition |-> disposition, confirmed |-> confirmed]
ExitBlocked == Left("blocked", None, {})
Evaluated(disposition) == Left("evaluated", disposition, {})

PossibleStates == {"confirmed", "refuted", "unknown", "not_applicable"}

IsTrigger(t) ==
    /\ {"id", "kind", "state", "facts", "preregistered"} \subseteq DOMAIN t
    /\ t.kind \in EvidenceKinds /\ t.state \in PossibleStates

Holdings ==
    [case : STRING, bound : BOOLEAN, synthetic : BOOLEAN, executes : BOOLEAN, intact : BOOLEAN, asOf : Nat, cutoff : Nat,
     loss : Int \cup {None}, budget : Int \cup {None}]

IsExit(e) ==
    /\ {"holding", "snapshot", "triggers", "elapsed", "calendar", "verified", "cap", "baseValue", "newEvidence",
        "reunderwritten"} \subseteq DOMAIN e
    /\ e.snapshot = None \/ e.snapshot \in Holdings
    /\ \A t \in e.triggers : IsTrigger(t)

HoldingLawful(x) ==
    LET h == x.exit.snapshot IN
    /\ h.case = x.case /\ h.bound /\ h.synthetic /\ ~h.executes /\ h.intact
    /\ h.asOf <= h.cutoff /\ h.cutoff <= x.cutoff

TriggersLawful(triggers) ==
    /\ \A t, u \in triggers : t.id = u.id \/ t.kind = u.kind => t = u
    /\ \A t \in triggers : t.id \notin SystemTriggers /\ t.preregistered

RiskTrigger(h) ==
    IF None \in {h.loss, h.budget} THEN "unknown" ELSE IF h.loss >= h.budget THEN "confirmed" ELSE "refuted"

(* Mutant: a window whose end nobody knows has not ended. *)
TimeTriggerDecided(e) ==
    IF /\ e.elapsed # None /\ e.calendar /\ e.verified # None
       /\ e.elapsed >= MaxProofDays /\ ~e.verified THEN "confirmed" ELSE "refuted"

TimeTrigger(e) ==
    IF e.elapsed = None \/ ~e.calendar \/ e.verified = None THEN "unknown"
    ELSE IF e.elapsed >= MaxProofDays /\ ~e.verified THEN "confirmed"
    ELSE "refuted"

ValueTrigger(e) ==
    IF e.cap = None \/ e.baseValue = None \/ e.newEvidence = None THEN "unknown"
    ELSE IF e.cap >= e.baseValue /\ ~e.newEvidence THEN "confirmed"
    ELSE "refuted"

(* A confirmation without facts is unknown.                                *)
StateOf(t) == IF t.state = "confirmed" /\ ~t.facts THEN "unknown" ELSE t.state

TriggerStates(x) ==
    LET e == x.exit
        system == [risk_budget_exit |-> RiskTrigger(e.snapshot), time_exit |-> TimeTrigger(e), value_exit |-> ValueTrigger(e)]
    IN [id \in SystemTriggers \cup {t.id : t \in e.triggers} |->
           IF id \in SystemTriggers THEN system[id] ELSE StateOf(CHOOSE t \in e.triggers : t.id = id)]

DispositionOf(x) ==
    LET e == x.exit
        states == TriggerStates(x)
        confirmed == {id \in DOMAIN states : states[id] = "confirmed"}
    IN IF confirmed # {} THEN Left("evaluated", "EXIT_CANDIDATE", confirmed)
       ELSE IF "unknown" \in Range(states) \/ {t.kind : t \in e.triggers} # EvidenceKinds THEN Evaluated(None)
       ELSE IF e.newEvidence THEN Evaluated("REUNDERWRITE_REQUIRED")
       ELSE Evaluated(IF e.reunderwritten = TRUE THEN "HOLD" ELSE None)

EvaluateExit(x) ==
    LET h == x.exit.snapshot IN
    IF ~x.exit.holding THEN IF h = None THEN Evaluated("NOT_APPLICABLE") ELSE ExitBlocked
    ELSE IF h = None THEN ExitBlocked
    ELSE IF ~HoldingLawful(x) \/ ~TriggersLawful(x.exit.triggers) THEN ExitBlocked
    ELSE IF None \notin {h.loss, h.budget} /\ (h.loss < 0 \/ h.budget <= 0) THEN ExitBlocked
    ELSE DispositionOf(x)

-----------------------------------------------------------------------------
(* evaluate_stage4_expectation_valuation_exit: the exit does not wait for  *)
(* the gates.                                                              *)

GatesThreeFour(x, three, four) ==
    [three |-> three, four |-> four, exit |-> EvaluateExit(x),
     overall |-> IF four # None THEN four ELSE IF three.gate # None THEN three.gate ELSE x.upstream.overall]

ValuationReport(x) ==
    IF ~ArtifactsLawful(x)
    THEN [three |-> Priced("BLOCKED", None, None), four |-> None, overall |-> "BLOCKED", exit |-> ExitBlocked]
    ELSE LET three == EvaluateGate3(x) IN GatesThreeFour(x, three, EvaluateGate4(x, three.gate))
=============================================================================
