---------------------------- MODULE PortfolioTarget ----------------------------
(***************************************************************************)
(* Stage 5C sizing: evaluate_stage5_portfolio_target turns a proposal, an  *)
(* account and its risk into the quantity a portfolio approval may allow.  *)
(*                                                                         *)
(* A rate here is a number of ten-thousandths.  An amount that may be a    *)
(* fraction of the smallest unit is a record num / den, compared exactly.  *)
(* The known of an input is the later of its as_of and knowledge_cutoff.   *)
(***************************************************************************)
EXTENDS MarketRules

Positive(a) == GreaterOf(a, 0)

(* The approved numbers. *)
NormalLoss == 50
DefensiveLoss == 25
CrisisRisk == 0
InitialWeight == 500
CompanyWeight == 1000
ClusterValue == 2000
ClusterLoss == 150
AggregateLoss == 400
CautionAt == 800
DeriskOnlyAt == 1200
StoppedAt == 1500

ClusterTypes == {"company", "customer", "product_price", "policy_catalyst", "common_liquidity"}

-----------------------------------------------------------------------------
(* What the inputs can be. *)

IsLot(l) == l.quantity \in Nat \ {0} /\ l.sellable \in 0..l.quantity /\ l.cost \in Nat

IsPosition(p) ==
    /\ p.value \in Nat /\ IsFiniteSet(p.lots) /\ p.lots # {}
    /\ \A l \in p.lots : IsLot(l)
    /\ \A l, k \in p.lots : l.id = k.id => l = k

Settled(a) == a.available + a.reserved
ValueOf(positions) == SumFunction([p \in positions |-> p.value])
PositionValue(a) == ValueOf(a.positions)
NetAssets(a) == Settled(a) + a.receivable - a.payable + PositionValue(a)

IsAccount(a) ==
    /\ {a.available, a.reserved, a.receivable, a.payable, a.openLoss, a.highWater} \subseteq Nat
    /\ IsFiniteSet(a.positions) /\ \A p \in a.positions : IsPosition(p)
    /\ \A p, q \in a.positions : p.security = q.security => p = q
    /\ NetAssets(a) > 0 /\ NetAssets(a) <= a.highWater
    /\ PositionValue(a) <= NetAssets(a)
    /\ \A x, y \in a.exposures : x.cluster = y.cluster => x = y
    /\ \A x \in a.exposures : {x.value, x.loss} \subseteq Nat
    /\ a.recovery # None => a.stopped

(* Clusters are pairs <<type, id>>. *)
IsClusters(clusters) == ClusterTypes \subseteq {c[1] : c \in clusters.assigned}

IsRecovery(r) == r.stopped < r.owner /\ r.owner <= r.effective /\ r.known = r.effective

(* What the desk is told of the market, and what it keeps for costs; the    *)
(* regime and the scenario may be missing.                                  *)
IsRegime(regime) == regime \in {"NORMAL", "DEFENSIVE", "CRISIS", None}
IsStress(scenario) == scenario # None => scenario \in Int
IsSizing(sizing) == {sizing.liquidity, sizing.reserve} \subseteq Nat

(* An approval lets something through, a rejection nothing. *)
IsPortfolioApproval(a) ==
    /\ a.at < a.expires
    /\ {a.quantity, a.cap, a.loss} \subseteq Nat
    /\ IF a.approved THEN a.quantity > 0 /\ a.cap > 0
       ELSE a.quantity = 0 /\ a.cap = 0 /\ a.loss = 0

-----------------------------------------------------------------------------
(* Risk. *)

PositionOf(a, security) == OnlyOf({p \in a.positions : p.security = security})
HeldIn(a, security) ==
    LET p == PositionOf(a, security)
    IN  IF p = None THEN 0 ELSE SumFunction([l \in p.lots |-> l.quantity])
SellableIn(a, security) ==
    LET p == PositionOf(a, security)
    IN  IF p = None THEN 0 ELSE SumFunction([l \in p.lots |-> l.sellable])

(* 1 - NAV / high water reaches a level. *)
DrawnTo(a, level) == 10000 * (a.highWater - NetAssets(a)) >= level * a.highWater

(* Hundredths of the position the stress scenario loses, at least ten. *)
StressLoss(desk) == GreaterOf(Positive(-desk.stress), 10)

(* Mutant: the record need not say that the owner agreed. *)
RecoveredOnRecord(a) == a.recovery # None

Recovered(a) == a.recovery # None /\ a.recovery.agreed

(* The share of NAV that may be lost; nothing when stopped, when only risk   *)
(* may be taken off, when adding under caution, and before a recovery.      *)
PlannedLoss(c, desk) ==
    LET a == desk.account
        byRegime == CASE desk.regime = "NORMAL" -> NormalLoss
                      [] desk.regime = "DEFENSIVE" -> DefensiveLoss
                      [] desk.regime = "CRISIS" -> CrisisRisk
    IN  IF DrawnTo(a, DeriskOnlyAt) \/ (a.stopped /\ ~DrawnTo(a, StoppedAt) /\ ~Recovered(a)) THEN 0
        ELSE IF DrawnTo(a, CautionAt)
        THEN IF c.action = "ADD" THEN 0 ELSE LesserOf(byRegime, DefensiveLoss)
        ELSE byRegime

Ratio(num, den) == [num |-> num, den |-> den]
ShareOf(nav, rate) == Ratio(nav * rate, 10000)
(* What may still be lost, as the value that loses it under stress. *)
LossLeft(nav, rate, lost, stress) == Ratio(Positive(nav * rate - 10000 * lost), 100 * stress)

Exposure(a, cluster) == OnlyOf({x \in a.exposures : x.cluster = cluster})

Limits(c, desk) ==
    LET a == desk.account
        nav == NetAssets(a)
        stress == StressLoss(desk)
        company == ValueOf({p \in a.positions : p.company = desk.clusters.company})
    IN  {Ratio(nav * PlannedLoss(c, desk), 100 * stress),
         ShareOf(nav, InitialWeight),
         Ratio(desk.sizing.liquidity, 1),
         Ratio(Positive(nav * CompanyWeight - 10000 * company), 10000),
         LossLeft(nav, AggregateLoss, a.openLoss, stress),
         Ratio(Positive(a.available - desk.sizing.reserve), 1)}
        \cup UNION {{Ratio(Positive(nav * ClusterValue - 10000 * Exposure(a, x).value), 10000),
                     LossLeft(nav, ClusterLoss, Exposure(a, x).loss, stress)} : x \in desk.clusters.assigned}

(* One rule rounds the target: of the case's risk label, or of ALL. *)
RoundingRules(c) ==
    {r \in c.rules : /\ r.scope \in {c.scope, <<c.scope[1], "ALL">>}
                     /\ Covers(r, c.proposal.at) /\ r.published <= c.proposal.at /\ r.known <= c.proposal.at}

(* Mutant: the largest quantity some limit allows. *)
LargestQuantity(limits, price) == Max({l.num \div (l.den * price) : l \in limits})

LegalQuantity(limits, price) == Min({l.num \div (l.den * price) : l \in limits})

-----------------------------------------------------------------------------
(* The evaluation: what may be held more or less, or why nothing may. *)

Target(status, quantity, value, stress) ==
    [status |-> status, quantity |-> quantity, value |-> value, stress |-> stress]
NoTarget(status) == Target(status, None, None, None)
Sized(quantity, price, stress) ==
    Target(IF quantity > 0 THEN "TARGET_READY" ELSE "SYNTHETIC_REJECTED", quantity, price * quantity, stress)

InScope(c, desk) == desk.scoped /\ desk.sealed

(* Nothing that decides the size may be later than the approval. *)
KnownInTime(c, desk) ==
    /\ desk.known <= c.approval.at
    /\ c.proposal.known <= c.proposal.at
    /\ c.approval.known <= c.approval.at

RecoveryFits(c, a) ==
    a.recovery # None =>
        /\ a.recovery.ofHead
        /\ a.recovery.effective <= a.at /\ a.recovery.effective <= c.approval.at

DeriskTarget(c, desk) ==
    Sized(LesserOf(c.proposed, HeldIn(desk.account, desk.security)), c.proposal.price, 10)

NewRiskTarget(c, desk) ==
    IF ~RecoveryFits(c, desk.account) THEN NoTarget("PRECHECK_BLOCKED")
    ELSE IF \/ desk.regime = None \/ desk.stress = None
            \/ \E x \in desk.clusters.assigned : Exposure(desk.account, x) = None
            \/ Cardinality(RoundingRules(c)) # 1
    THEN NoTarget("ABSTAIN")
    ELSE LET rule == OnlyOf(RoundingRules(c))
         IN  Sized(FloorTo(LegalQuantity(Limits(c, desk), c.proposal.price), rule.buyLot),
                   c.proposal.price, StressLoss(desk))

PortfolioTargetOf(c, desk) ==
    IF ~InScope(c, desk) \/ ~KnownInTime(c, desk) THEN NoTarget("PRECHECK_BLOCKED")
    ELSE IF c.action \in NewRisk THEN NewRiskTarget(c, desk) ELSE DeriskTarget(c, desk)
=============================================================================
