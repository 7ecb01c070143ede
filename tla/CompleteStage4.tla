---------------------------- MODULE CompleteStage4 ----------------------------
(***************************************************************************)
(* stage4_complete_engine.py: the four batches of Stage 4 run on one case, *)
(* and the label they come to.  A case is submitted, may come back with    *)
(* something withheld, and when it is ready Stage 5B asks gates 3 and 4    *)
(* again at a price that can be had.                                       *)
(*                                                                         *)
(* companies and nodes are those the industry batch speaks of, listed the  *)
(* listed companies among the parties, published the facts behind the      *)
(* authoritative originals.  The prose of an economic basis is its terms.  *)
(* Rules are approved; that each batch is given its own is fixed by types. *)
(***************************************************************************)
EXTENDS EventPassports, IndustryContext, ValuationExit

CONSTANTS Submissions,     \* the cases that may be submitted
          Prices, Costs,   \* of a quote that can be executed
          MaxLosses        \* bound on what a case may lose
Quantity == 10             \* of such a quote

VARIABLES dossier,         \* Stage4CompleteSyntheticCase
          losses,          \* how much of it was withheld
          verdict,         \* Stage4CompleteResult
          quote,           \* executable quote, None before there is one
          recheck          \* outcomes of gates 3 and 4 at that quote

Market == INSTANCE MarketRules

(* A case has all its parts, and each is what its class lets through.      *)
CaseParts ==
    {"synthetic", "case", "company", "node", "logical", "cutoff", "public", "industry", "event", "scenarios", "baseBridge",
     "downsideBridge", "basis", "binding", "profit", "cashFlow", "exit"} \cup Artifacts

IsStage4Case(d) ==
    /\ CaseParts \subseteq DOMAIN d /\ d.public \in Nat
    /\ IsIndustry(d.industry) /\ IsEvent(d.event) /\ IsKnowledge(d.event)
    /\ IsBridge(d.baseBridge) /\ IsBridge(d.downsideBridge) /\ IsScenarioSet(d.scenarios)
    /\ IsExpectation(d.expectation) /\ IsMarketContext(d.market) /\ IsValuation(d.valuation)
    /\ IsPriceAssumption(d.price) /\ IsPlan(d.plan) /\ IsExit(d.exit)

ASSUME CasesAreConstructible == \A d \in Submissions : IsStage4Case(d)
ASSUME QuotesAreConstructible == Prices \subseteq Nat \ {0} /\ Costs \subseteq Nat
ASSUME NoneIsNoApproval ==
    /\ None \notin {"PASS", "unexpected", "partially_priced", "evaluated"}
    /\ None \notin BOOLEAN /\ None \notin Holdings
    /\ None \notin [shares : Int, business : Intervals, event : Intervals, base : Int, downside : Int]

-----------------------------------------------------------------------------
(* _preflight_failure: the parts of a case are parts of one case.          *)

Snapshots(d) == IF d.exit.snapshot = None THEN <<>> ELSE <<d.exit.snapshot>>

IsResearch(d) ==
    /\ d.synthetic
    /\ d.price.synthetic /\ ~d.price.executable
    /\ \A h \in Range(Snapshots(d)) : h.synthetic /\ ~h.executes

OneCutoff(d) ==
    {d.cutoff} = {d.industry.context.cutoff, d.event.cutoff, d.scenarios.cutoff}
                     \cup {d[a].cutoff : a \in Artifacts} \cup {h.cutoff : h \in Range(Snapshots(d))}

OneSubject(d) ==
    /\ {d.case} = {d.industry.case, d.event.case} \cup {h.case : h \in Range(Snapshots(d))}
    /\ d.industry.context.decision = d.event.decision
    /\ d.industry.context.input = d.event.input
    /\ d.industry.companies = {d.company} /\ d.industry.nodes = {d.node}
    /\ d.event.revision.event = d.logical /\ d.basis.event = d.logical
    /\ d.basis.subject = d.company
    /\ d.event.listed \subseteq {d.company}

OneBasis(d) ==
    /\ d.expectation.basis = d.basis /\ d.valuation.basis = d.basis
    /\ {d.price.currency, d.scenarios.presentation, d.scenarios.contract} = {d.basis.currency}
    /\ d.basis.period = <<d.scenarios.start, d.scenarios.end>>

(* The contract was public when the first of its originals was.            *)
OnePublication(d) ==
    LET originals == {f \in FactsOf(d.event) : f.id \in d.event.e4.published}
    IN /\ d.public <= d.cutoff
       /\ d.expectation.public = d.public /\ d.scenarios.public = d.public
       /\ d.event.e4.published # {} =>
              /\ {f.id : f \in originals} = d.event.e4.published
              /\ \A f \in originals : f.at # None
              /\ Min({f.at : f \in originals}) = d.public

Preflight(d) == IsResearch(d) /\ OneCutoff(d) /\ OneSubject(d) /\ OneBasis(d) /\ OnePublication(d)

-----------------------------------------------------------------------------
(* evaluate_complete_stage4.                                               *)

NoView == [one |-> None, scenarios |-> None, two |-> None, three |-> None, four |-> None]

Aggregate(view) ==
    LET met == Range(view)
    IN IF "BLOCKED" \in met THEN "BLOCKED"
       ELSE IF "REJECT" \in met THEN "REJECT"
       ELSE IF "ABSTAIN" \in met THEN "ABSTAIN"
       ELSE IF "SHADOW_ONLY" \in met THEN "SHADOW_ONLY"
       ELSE IF met = {"PASS"} THEN "TRADE_READY" ELSE "BLOCKED"

Stopped(state, view) ==
    [state |-> state, view |-> view, label |-> "BLOCKED", expectation |-> None, exit |-> Left(None, None, {})]

(* The contract's own figures are the base scenario's.                     *)
BoundTo(d, gates) ==
    /\ gates.profit # None => gates.profit = d.profit.lower
    /\ gates.cashFlow # None => gates.cashFlow = d.cashFlow.lower

Completed(view, rest) ==
    [state |-> "completed", view |-> view, label |-> Aggregate(view),
     expectation |-> rest.three.expectation, exit |-> rest.exit]

View(gates, three, four) ==
    [one |-> gates.one, scenarios |-> gates.scenarios, two |-> gates.two, three |-> three, four |-> four]

Continued(gates, rest) == Completed(View(gates, rest.three.gate, rest.four), rest)

Composed(d, gates) ==
    IF ~BoundTo(d, gates) THEN Stopped("blocked_during_composition", View(gates, None, None))
    ELSE Continued(gates, ValuationReport(Joined([upstream |-> gates], d)))

CompleteReport(d) ==
    IF ~Preflight(d) THEN Stopped("blocked_before_evaluation", NoView)
    ELSE Composed(d, GateReport(Joined([context |-> ContextReport(d.industry), event |-> EventReport(d.event),
                                        graph |-> d.event.graph], d)))

-----------------------------------------------------------------------------
(* What _gate_recheck of Stage 5B takes from the case and its result.      *)

Approved(d, v) ==
    [valuation |-> [shares |-> d.valuation.shares, business |-> d.valuation.business, event |-> d.valuation.event,
                    base |-> d.valuation.values["base"].lower, downside |-> d.valuation.values["downside"].lower],
     gate3 |-> v.view.three, expectation |-> v.expectation]

QuoteAt(price, cost) ==
    [quantity |-> Quantity, price |-> price, gross |-> price * Quantity, fee |-> cost, tax |-> 0]

(* One thing the case had is not there, or not known, any more.            *)
Doubtful(c, name) == [c EXCEPT ![name] = [conclusion |-> "UNKNOWN", groups |-> {}]]
WithheldIndustry(i) ==
    {[i EXCEPT !.context.bindings[k].conclusion = "UNKNOWN"] : k \in DOMAIN i.context.bindings}
    \cup {[i EXCEPT !.context.coverage = @ \cup {"UNKNOWN"}], [i EXCEPT !.context.covered = FALSE]}
    \cup {[i EXCEPT !.bottleneck = Doubtful(@, n)] : n \in DOMAIN i.bottleneck}
    \cup {[i EXCEPT !.beneficiary = Doubtful(@, n)] : n \in DOMAIN i.beneficiary}

(* What a case has of a party is the one lawful link of its role.          *)
Founded(e) == {l \in e.links : l.applicable /\ LawfulLink(e, l) /\ \A m \in e.links : m.role = l.role => m = l}

WithheldEvent(e) ==
    {[e EXCEPT !.graph[k].at = None] : k \in {n \in DOMAIN e.graph : e.graph[n].kind = "Fact"}}
    \cup {[e EXCEPT !.links = (@ \ {l}) \cup {[l EXCEPT !.conclusion = "UNKNOWN", !.confidential = FALSE]}] :
              l \in Founded(e)}
    \cup {[e EXCEPT !.e4.claims[x] = "UNKNOWN"] : x \in DOMAIN e.e4.claims}
    \cup {[e EXCEPT !.passports[s] = {"UNKNOWN"}] : s \in {"E1", "E2", "E3", "E5", "E6"}}
    \cup {[e EXCEPT !.passports.narrative = "UNKNOWN"], [e EXCEPT !.e4.original = FALSE], [e EXCEPT !.e4.chains = {}]}

WithheldGates(d) ==
    {[d EXCEPT !.baseBridge.parts[n].known = FALSE] : n \in DOMAIN d.baseBridge.parts}
    \cup {[d EXCEPT !.downsideBridge.parts[n].interval = None] : n \in DOMAIN d.downsideBridge.parts}
    \cup {[d EXCEPT !.scenarios.scenarios[k].drivers[1].known = FALSE] : k \in DOMAIN d.scenarios.scenarios}
    \cup {[d EXCEPT !.scenarios.scenarios[k].financials.writeoff = None] : k \in DOMAIN d.scenarios.scenarios}
    \cup {[d EXCEPT !.scenarios.scenarios[k].financials.on = {}] : k \in DOMAIN d.scenarios.scenarios}

WithheldValuation(d) ==
    {[d EXCEPT !.expectation.prior.profit = None], [d EXCEPT !.expectation.prior.absence = FALSE],
     [d EXCEPT !.expectation.covered = FALSE], [d EXCEPT !.market.price = None], [d EXCEPT !.market.turnover = None],
     [d EXCEPT !.valuation.business = None], [d EXCEPT !.valuation.event = None], [d EXCEPT !.valuation.values = None],
     [d EXCEPT !.valuation.shares = None], [d EXCEPT !.price.price = None], [d EXCEPT !.price.slippage = None],
     [d EXCEPT !.plan.days = None], [d EXCEPT !.plan.falsifiers = 0]}

WithheldExit(d) ==
    {[d EXCEPT !.exit.elapsed = None], [d EXCEPT !.exit.verified = None], [d EXCEPT !.exit.calendar = FALSE],
     [d EXCEPT !.exit.cap = None], [d EXCEPT !.exit.newEvidence = None], [d EXCEPT !.exit.reunderwritten = None]}
    \cup {[d EXCEPT !.exit.triggers = @ \ {t}] : t \in d.exit.triggers}
    \cup {[d EXCEPT !.exit.triggers = (@ \ {t}) \cup {[t EXCEPT !.facts = FALSE]}] : t \in d.exit.triggers}
    \cup {[d EXCEPT !.exit.snapshot.loss = None] : h \in Range(Snapshots(d))}

Withheld(d) ==
    {[d EXCEPT !.industry = i] : i \in WithheldIndustry(d.industry)}
    \cup {[d EXCEPT !.event = e] : e \in WithheldEvent(d.event)}
    \cup WithheldGates(d) \cup WithheldValuation(d) \cup WithheldExit(d)

-----------------------------------------------------------------------------

CaseInit ==
    /\ dossier \in Submissions /\ losses = 0
    /\ verdict = CompleteReport(dossier)
    /\ quote = None /\ recheck = {}

Withhold ==
    /\ quote = None /\ losses < MaxLosses
    /\ losses' = losses + 1
    /\ \E d \in Withheld(dossier) : dossier' = d /\ verdict' = CompleteReport(d)
    /\ UNCHANGED <<quote, recheck>>

Execute ==
    /\ quote = None /\ verdict.label = "TRADE_READY"
    /\ \E price \in Prices, cost \in Costs :
           /\ quote' = QuoteAt(price, cost)
           /\ recheck' = Market!GatesAt([stage4 |-> Approved(dossier, verdict)], QuoteAt(price, cost))
    /\ UNCHANGED <<dossier, losses, verdict>>

CaseNext == Withhold \/ Execute

caseVars == <<dossier, losses, verdict, quote, recheck>>
CaseSpec == CaseInit /\ [][CaseNext]_caseVars

-----------------------------------------------------------------------------

Ready == verdict.label = "TRADE_READY"

(* Gates 3 and 4 exist twice, in Stage 4 at an assumed price and cost and  *)
(* in Stage 5B at a real one.  The two agree in the direction that counts: *)
(* a case ready at the assumed price is not turned down at a price and     *)
(* friction no worse, when the market's shares are the valuation's.        *)
ApprovalHoldsAtBetterPrice ==
    /\ Ready /\ quote # None
    /\ dossier.market.shares = dossier.valuation.shares
    /\ quote.price <= dossier.price.price /\ quote.price <= dossier.market.price
    /\ 100 * (quote.fee + quote.tax) <= (dossier.price.cost + dossier.price.slippage) * quote.gross
    => "PASS" \in recheck /\ "REJECT" \notin recheck

Values(interval) == interval.lower..interval.upper

(* Gates 2 and 3 look at the ends of intervals only.  What they pass holds *)
(* all through them: wherever each component lies in its own interval      *)
(* there is profit without the event, and wherever the values of business  *)
(* and event lie the market has not paid for the whole event.              *)
PassHoldsThroughoutIntervals ==
    LET span(n) == Values(dossier.baseBridge.parts[n].interval)
        cap == dossier.market.price * dossier.market.shares
    IN /\ verdict.view.two = "PASS" =>
             \A r \in span("revenue"), e \in span("expense"), f \in span("finance"), i \in span("income") :
                 r - e - f + i > 0
       /\ verdict.view.three = "PASS" =>
             \A b \in Values(dossier.valuation.business), e \in Values(dossier.valuation.event) : cap - b < e

(* A scenario or bridge may cite derived values, which rest on others.     *)
(* Nothing a ready case counts with can only be traced back to what was    *)
(* learnt after the contract was public.                                   *)
NumbersPredateContract ==
    Ready => \A ref \in RefersTo(dossier) :
        \E item \in Items(dossier.event) :
            /\ <<item.kind, item.id>> = ref
            /\ \E basis \in Bases(Items(dossier.event), item) : \A i \in basis : i.at <= dossier.public

(* Nothing is gained by knowing less: a case that loses something it had   *)
(* becomes ready by it never, and of a holding either the same is said as  *)
(* before or nothing.                                                      *)
WithholdingNeverHelps ==
    [][dossier' # dossier =>
          /\ verdict'.label = "TRADE_READY" => Ready
          /\ verdict.exit.state = "evaluated" /\ verdict'.exit.disposition # None =>
                 verdict'.exit.disposition = verdict.exit.disposition]_caseVars
=============================================================================
