---------------------------- MODULE IndustryContext ----------------------------
(***************************************************************************)
(* stage4_context_industry.py: whether the history a company is judged by  *)
(* was known in time, whether the company was in the decision pool, and    *)
(* whether a bottleneck of its industry is profit of the company.          *)
(*                                                                         *)
(* A claim is [conclusion, groups], groups being its independent sources;  *)
(* the coverage areas differ only in name and are the set of their         *)
(* conclusions.                                                            *)
(***************************************************************************)
EXTENDS Absent, Naturals, FiniteSets, Functions

Open == {"UNKNOWN", "CONFLICTED"}
TemporalKinds == {"industry_stage", "company_label", "supply_chain_relation"}
BottleneckCore == {"demand", "supply", "substitution", "persistence"}
ProfitClaims == {"share", "price", "margin", "cash", "ownership"}
MinimumGroups == 2

(* Fact-free confirmations, contradictions without two sides and sources   *)
(* without facts do not construct; nor do refuted bindings or coverage.    *)
IsClaim(claim) == claim.conclusion # "UNKNOWN" => claim.groups # {}

IsBinding(b) ==
    /\ b.conclusion # "REFUTED"
    /\ b.to # None => b.from # None /\ b.from < b.to

IsIndustry(i) ==
    /\ {"context", "bottleneck", "beneficiary"} \subseteq DOMAIN i
    /\ {"bindings", "coverage", "covered"} \subseteq DOMAIN i.context
    /\ \A k \in DOMAIN i.context.bindings : "conclusion" \in DOMAIN i.context.bindings[k]
    /\ DOMAIN i.bottleneck = BottleneckCore \cup {"dissolution"}
    /\ DOMAIN i.beneficiary = ProfitClaims \cup {"technical", "supplier"}

Concluded4A1(claims) == {c.conclusion : c \in claims}
GroupCount(claims) == Cardinality(UNION {c.groups : c \in claims})
Of(claims, names) == {claims[n] : n \in names}

-----------------------------------------------------------------------------
(* FR-CTX-002 and FR-CTX-001, on an IndustryContextView.                   *)

ValidAsOf(view, b) ==
    /\ b.at # None /\ b.from # None
    /\ b.at <= view.cutoff /\ b.from <= view.asOf
    /\ b.to # None => view.asOf < b.to

HistoricalContext(view) ==
    LET bindings == Range(view.bindings) IN
    IF \/ DOMAIN view.bindings # TemporalKinds
       \/ view.available > view.cutoff \/ view.asOf > view.cutoff \/ view.cutoff > view.decision
       \/ \E b \in bindings : b.conclusion = "CONFIRMED" /\ ~ValidAsOf(view, b)
    THEN "BLOCKED"
    ELSE IF Concluded4A1(bindings) \cap Open # {} THEN "ABSTAIN"
    ELSE "PASS"

ContextAdmission(view) ==
    IF ~view.identified \/ ~view.covered THEN "BLOCKED"
    ELSE IF ~view.preregistered THEN "REJECT"
    ELSE IF view.coverage \cap Open # {} THEN "ABSTAIN"
    ELSE "PASS"

-----------------------------------------------------------------------------
(* FR-IND-001 and FR-IND-002.                                              *)

IndustryBottleneck(claims) ==
    IF "REFUTED" \in Concluded4A1(Of(claims, BottleneckCore)) THEN "REJECT"
    ELSE IF \/ Concluded4A1(Range(claims)) \cap Open # {}
            \/ claims["dissolution"].conclusion = "REFUTED"
            \/ GroupCount(Range(claims)) < MinimumGroups
         THEN "ABSTAIN"
    ELSE "PASS"

Mapped(outcome, tier) == [outcome |-> outcome, tier |-> tier]

(* A claim further up the path to profit cannot be confirmed without those  *)
(* it stands on; otherwise the tier is what is safely established.          *)
BeneficiaryMapping(claims) ==
    LET technical == claims["technical"].conclusion
        supplier == claims["supplier"].conclusion
        profit == Of(claims, ProfitClaims)
    IN IF \/ supplier = "CONFIRMED" /\ technical # "CONFIRMED"
          \/ Concluded4A1(profit) = {"CONFIRMED"} /\ supplier # "CONFIRMED"
       THEN Mapped("BLOCKED", "none")
       ELSE IF technical # "CONFIRMED"
       THEN Mapped(IF technical = "REFUTED" THEN "REJECT" ELSE "ABSTAIN", "none")
       ELSE IF supplier # "CONFIRMED"
       THEN Mapped(IF supplier = "REFUTED" THEN "REJECT" ELSE "ABSTAIN", "technical_link")
       ELSE IF "REFUTED" \in Concluded4A1(profit) THEN Mapped("REJECT", "qualified_supplier")
       ELSE IF Concluded4A1(profit) \cap Open # {} \/ GroupCount(profit) < MinimumGroups
       THEN Mapped("ABSTAIN", "qualified_supplier")
       ELSE Mapped("PASS", "profit_beneficiary")

-----------------------------------------------------------------------------
(* evaluate_stage4_context_industry: what does not pass leaves the rest    *)
(* unevaluated.                                                            *)
ContextReport(c) ==
    LET historical == HistoricalContext(c.context)
        admission == IF historical = "PASS" THEN ContextAdmission(c.context) ELSE None
        bottleneck == IF admission = "PASS" THEN IndustryBottleneck(c.bottleneck) ELSE None
        beneficiary == IF bottleneck = "PASS" THEN BeneficiaryMapping(c.beneficiary) ELSE Mapped(None, "none")
    IN [historical |-> historical, admission |-> admission, bottleneck |-> bottleneck,
        beneficiary |-> beneficiary.outcome, tier |-> beneficiary.tier,
        pooled |-> admission = "PASS",
        eligible |-> beneficiary = Mapped("PASS", "profit_beneficiary")]
=============================================================================
