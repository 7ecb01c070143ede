------------------------------ MODULE MCStage4 ------------------------------
(***************************************************************************)
(* Either one event over its revisions, its evidence complete or lacking,  *)
(* doubting or refuting one thing besides its contract; or one complete    *)
(* case, sound throughout or with one thing wrong in one of its parts.     *)
(***************************************************************************)
EXTENDS CompleteStage4, TLC

VARIABLE scene   \* which of the two

-----------------------------------------------------------------------------
(* Knowledge: two facts and what is built on them. *)

Fact(id, at) == [kind |-> "Fact", id |-> id, at |-> at, input |-> "run", evidenced |-> TRUE, lawful |-> TRUE]
Node(kind, id, at, deps) == [kind |-> kind, id |-> id, at |-> at, input |-> "run", deps |-> deps, supersedes |-> None]
Assumed(id, at, deps) == [falsifiable |-> TRUE] @@ Node("Assumption", id, at, deps)
Derived(id, at, deps) == Node("Derived", id, at, deps)
Judged(id, at, deps, supporting) ==
    [reasoned |-> TRUE, outcome |-> "PASS", supporting |-> supporting, conflicting |-> {},
     overrides |-> None, approved |-> FALSE] @@ Node("Judgment", id, at, deps)

Knowledge == <<Fact(1, 1), Fact(2, 2), Assumed(3, 2, {1}), Derived(4, 3, {2, 3}), Derived(5, 3, {4}),
               Judged(6, 4, {4, 5}, {4}), Judged(7, 4, {5}, {5})>>

FactFaults ==
    {[Knowledge EXCEPT ![2] = f] :
        f \in {[Fact(2, 2) EXCEPT !.lawful = FALSE], [Fact(2, 2) EXCEPT !.evidenced = FALSE],
               [Fact(2, 2) EXCEPT !.input = "other"], Fact(2, None), Fact(2, 9), Fact(2, 4), Fact(3, 2)}}
NodeFaults ==
    {[Knowledge EXCEPT ![k].deps = deps] : k \in {3, 4, 5}, deps \in {{}, {1, 6}, {3}, {4}, {5}, {2, 5}, {8}}}
    \cup {[Knowledge EXCEPT ![4].deps = {5}, ![5].deps = {4}], [Knowledge EXCEPT ![4].deps = {2, 5}],
          [Knowledge EXCEPT ![5].at = 2], [Knowledge EXCEPT ![4].at = 9], [Knowledge EXCEPT ![3].falsifiable = FALSE],
          [Knowledge EXCEPT ![5].supersedes = 4], [Knowledge EXCEPT ![5].supersedes = 4, ![5].at = 4],
          [Knowledge EXCEPT ![5].supersedes = 3]}
JudgmentFaults ==
    {[Knowledge EXCEPT ![6].supporting = {}], [Knowledge EXCEPT ![6].supporting = {1}],
     [Knowledge EXCEPT ![6].reasoned = FALSE], [Knowledge EXCEPT ![6].overrides = 7],
     [Knowledge EXCEPT ![6].overrides = 7, ![6].approved = TRUE], [Knowledge EXCEPT ![7].deps = {6}],
     [Knowledge EXCEPT ![6].supporting = {}, ![7].reasoned = FALSE],
     [Knowledge EXCEPT ![6].supporting = {}, ![4].deps = {5}]}

-----------------------------------------------------------------------------
(* Parties and contract. *)

LinkOf(role) == [role |-> role, applicable |-> TRUE, conclusion |-> "CONFIRMED", entity |-> TRUE, described |-> TRUE,
                 groups |-> {role}, from |-> 0, to |-> None, confidential |-> FALSE]
Links == {LinkOf(r) : r \in Roles}
With(l) == {m \in Links : m.role # l.role} \cup {l}
LinkFamilies ==
    {With([LinkOf(r) EXCEPT !.conclusion = v]) : r \in Roles, v \in Conclusions \cup {None}}
    \cup {With([LinkOf("customer_buyer") EXCEPT !.conclusion = "UNKNOWN", !.confidential = TRUE, !.entity = e]) : e \in BOOLEAN}
    \cup {With(l) : l \in {[LinkOf(r) EXCEPT !.applicable = FALSE, !.conclusion = None, !.entity = FALSE] :
                              r \in {"procurement_actor", "customer_buyer"}}
                          \cup {[LinkOf("seller_supplier") EXCEPT !.entity = FALSE], [LinkOf("seller_supplier") EXCEPT !.to = 5],
                                [LinkOf("seller_supplier") EXCEPT !.from = 6],
                                [LinkOf("customer_buyer") EXCEPT !.groups = {"seller_supplier"}]}}
    \cup {Links \ {LinkOf("listed_company")},
          {[l EXCEPT !.conclusion = CASE l.role = "seller_supplier" -> "UNKNOWN"
                                      [] l.role = "customer_buyer" -> "REFUTED"
                                      [] OTHER -> @] : l \in Links}}

ClosureClaims == {"signed", "effective", "minimum"}
Chain(publisher, original) == [publisher |-> publisher, lineage |-> publisher, original |-> original]
Contract == [claims |-> [x \in ClosureClaims |-> "CONFIRMED"], original |-> TRUE, quantity |-> "KNOWN",
             chains |-> {Chain("exchange", TRUE), Chain("press", FALSE)}]
Refuted == [Contract EXCEPT !.claims["effective"] = "REFUTED"]
Doubted == [Contract EXCEPT !.claims["effective"] = "UNKNOWN"]
ContractFamilies ==
    {Refuted, Doubted, [Contract EXCEPT !.original = FALSE], [Contract EXCEPT !.quantity = "UNKNOWN"],
     [Contract EXCEPT !.quantity = "CONFIDENTIAL"], [Contract EXCEPT !.chains = {Chain("exchange", TRUE)}]}

-----------------------------------------------------------------------------
(* Passports. *)

Passports == [narrative |-> "CONFIRMED", E1 |-> {"CONFIRMED"}, E2 |-> {"CONFIRMED"}, E3 |-> {"CONFIRMED"},
              clue |-> "CONFIRMED", E5 |-> {"CONFIRMED"}, E6 |-> {"CONFIRMED"}]
Mixed == {{}, {"REFUTED"}, {"UNKNOWN", "REFUTED"}, {"CONFLICTED", "REFUTED"}, {"CONFIRMED", "REFUTED"}}
PassportFamilies ==
    {Passports}
    \cup {[Passports EXCEPT ![state] = v] : state \in {"narrative", "clue"}, v \in Conclusions}
    \cup {[Passports EXCEPT ![state] = v] : state \in {"E1", "E2", "E3", "E5"}, v \in Mixed}
    \cup {[Passports EXCEPT !.E6 = v] : v \in Mixed \ {{}}}

Endings ==
    {<<>>} \cup {t :> v : t \in DOMAIN Prerequisite, v \in {"CONFIRMED", "UNKNOWN"}}
    \cup {"cycle_matured" :> "CONFIRMED" @@ "thesis_completed" :> "CONFIRMED"}

Dossier == [cutoff |-> 5, decision |-> 6, input |-> "run", graph |-> Knowledge, cited |-> {1, 2}, candidates |-> {1, 2},
            declared |-> 1, links |-> Links, e4 |-> Contract, passports |-> Passports, terminals |-> <<>>]

MCDossiers ==
    {[Dossier EXCEPT !.graph = g] : g \in FactFaults \cup NodeFaults \cup JudgmentFaults}
    \cup {[Dossier EXCEPT !.links = l] : l \in LinkFamilies}
    \cup {[Dossier EXCEPT !.e4 = e] : e \in ContractFamilies}
    \cup {[Dossier EXCEPT !.e4 = e, !.passports = p] : e \in {Contract, Refuted, Doubted}, p \in PassportFamilies}
    \cup {[Dossier EXCEPT !.e4 = e, !.terminals = t] : e \in {Contract, Refuted}, t \in Endings}
    \cup {[Dossier EXCEPT !.passports.E6 = {"UNKNOWN"}, !.terminals = t] : t \in Endings}
    \cup {[Dossier EXCEPT !.cutoff = 7], [Dossier EXCEPT !.declared = 2], [Dossier EXCEPT !.candidates = {}],
          [Dossier EXCEPT !.cited = {1, 2, 9}]}

(* Openings that leave each of the states on record, or none.               *)
MCOpenings ==
    {[Dossier EXCEPT !.passports[state] = {"REFUTED"}, !.e4 = e] : state \in {"E1", "E2", "E3"}, e \in {Contract, Refuted}}
    \cup {[Dossier EXCEPT !.passports.clue = v, !.e4 = e] : v \in {"REFUTED", "CONFIRMED"}, e \in {Doubted, Refuted}}
    \cup {[Dossier EXCEPT !.passports[state] = {"REFUTED"}] : state \in {"E5", "E6"}}
    \cup {Dossier, [Dossier EXCEPT !.passports.narrative = "UNKNOWN"],
          [Dossier EXCEPT !.terminals = "contract_terminated" :> "CONFIRMED"]}

-----------------------------------------------------------------------------
(* The event of a case: fact 2 is its contract, fact 5 came a day later.   *)

CaseKnowledge == <<Fact(1, 1), Fact(2, 3), Fact(5, 4), Assumed(3, 2, {1}), Derived(4, 3, {1, 3})>>
CaseEvent ==
    [case |-> "case", listed |-> {"company"}, revision |-> FirstRevision, e4 |-> [published |-> {2}] @@ Contract]
    @@ [Dossier EXCEPT !.graph = CaseKnowledge]

Sources == {<<"Fact", 1>>, <<"Assumption", 3>>}
Known == Sources \cup {<<"Derived", 4>>}   \* financials may cite derived values, too
Late == {<<"Fact", 1>>, <<"Fact", 5>>}

SecretLink == [LinkOf("customer_buyer") EXCEPT !.conclusion = "UNKNOWN", !.confidential = TRUE, !.entity = FALSE]
EventsOf ==
    {[CaseEvent EXCEPT !.graph[5].deps = deps] : deps \in {{1, 5}, {4}, {9}}}
    \cup {[CaseEvent EXCEPT !.graph[5].at = 4], [CaseEvent EXCEPT !.graph[2].at = 2], [CaseEvent EXCEPT !.graph[2].lawful = FALSE],
          [CaseEvent EXCEPT !.e4.published = {2, 5}], [CaseEvent EXCEPT !.e4.published = {5}], [CaseEvent EXCEPT !.e4.published = {}],
          [CaseEvent EXCEPT !.listed = {"another"}], [CaseEvent EXCEPT !.case = "another"], [CaseEvent EXCEPT !.input = "another"],
          [CaseEvent EXCEPT !.e4.claims["effective"] = "REFUTED"], [CaseEvent EXCEPT !.passports.narrative = "REFUTED"],
          [CaseEvent EXCEPT !.e4.claims["effective"] = "UNKNOWN", !.passports.clue = "CONFIRMED"],
          [CaseEvent EXCEPT !.e4.chains = {Chain("exchange", TRUE)}], [CaseEvent EXCEPT !.passports["E5"] = {"REFUTED"}],
          [CaseEvent EXCEPT !.passports["E2"] = {"REFUTED"}], [CaseEvent EXCEPT !.revision.number = 2]}
    \cup {[CaseEvent EXCEPT !.links = With([LinkOf("customer_buyer") EXCEPT !.conclusion = v, !.confidential = TRUE, !.entity = FALSE])] :
              v \in {"UNKNOWN", "REFUTED"}}
    \cup {[CaseEvent EXCEPT !.links = {IF l.role = "customer_buyer" THEN SecretLink ELSE IF l.role = "procurement_actor" THEN p ELSE l : l \in @}] :
              p \in {LinkOf("procurement_actor"), [LinkOf("procurement_actor") EXCEPT !.entity = FALSE]}}

-----------------------------------------------------------------------------
(* Its industry. *)

Claim(conclusion, groups) == [conclusion |-> conclusion, groups |-> groups]
Sourced == Claim("CONFIRMED", {"press"})
Twice == Claim("CONFIRMED", {"press", "survey"})
Binding == [conclusion |-> "CONFIRMED", groups |-> {"press"}, at |-> 1, from |-> 0, to |-> None]
Industry ==
    [case |-> "case", companies |-> {"company"}, nodes |-> {"node"},
     context |-> [bindings |-> [k \in TemporalKinds |-> Binding], available |-> 4, asOf |-> 4, cutoff |-> 5, decision |-> 6,
                  input |-> "run", identified |-> TRUE, covered |-> TRUE, preregistered |-> TRUE, coverage |-> {"CONFIRMED"}],
     bottleneck |-> [n \in BottleneckCore \cup {"dissolution"} |-> IF n = "demand" THEN Twice ELSE Sourced],
     beneficiary |-> [n \in ProfitClaims \cup {"technical", "supplier"} |-> IF n = "cash" THEN Twice ELSE Sourced]]

IndustriesOf ==
    {[Industry EXCEPT !.context.bindings["company_label"] = b] :
        b \in {x \in {[Binding EXCEPT !.at = 6], [Binding EXCEPT !.from = 5], [Binding EXCEPT !.to = 4], [Binding EXCEPT !.from = None],
                      [Binding EXCEPT !.conclusion = "CONFLICTED"]} : IsBinding(x)}}
    \cup {[Industry EXCEPT !.context.bindings = [k \in {"company_label"} |-> Binding]], [Industry EXCEPT !.context.available = 6],
          [Industry EXCEPT !.context.decision = 7], [Industry EXCEPT !.context.cutoff = 4], [Industry EXCEPT !.context.input = "another"],
          [Industry EXCEPT !.context.identified = FALSE], [Industry EXCEPT !.context.preregistered = FALSE],
          [Industry EXCEPT !.context.coverage = {"CONFIRMED", "CONFLICTED"}], [Industry EXCEPT !.companies = {"company", "another"}],
          [Industry EXCEPT !.nodes = {"another"}], [Industry EXCEPT !.bottleneck["demand"] = Sourced],
          [Industry EXCEPT !.beneficiary["cash"] = Sourced], [Industry EXCEPT !.bottleneck["supply"] = Claim("CONFLICTED", {"press", "survey"})]}
    \cup {[Industry EXCEPT !.bottleneck[n] = Claim("REFUTED", {"press"})] : n \in {"persistence", "dissolution"}}
    \cup {[Industry EXCEPT !.beneficiary[n] = c] : n \in {"technical", "supplier", "margin"}, c \in {Claim("REFUTED", {"press"}), Claim("UNKNOWN", {})}}
    \cup {[Industry EXCEPT !.beneficiary = [Industry.beneficiary EXCEPT !["margin"] = Sourced, !["supplier"] = Claim("UNKNOWN", {}),
                                                                       !["technical"] = Claim("REFUTED", {"press"})]]}

-----------------------------------------------------------------------------
(* Bridges and scenarios. *)

Interval(l, u) == [lower |-> l, upper |-> u]
Part(l, p, u) == [known |-> TRUE, point |-> p, interval |-> Interval(l, u), on |-> Sources]
Bridge ==
    [intact |-> TRUE, eventInside |-> FALSE, doubled |-> FALSE, quantified |-> TRUE, reliable |-> TRUE, profit |-> 10,
     parts |-> [revenue |-> Part(18, 20, 22), expense |-> Part(8, 8, 9), finance |-> Part(2, 2, 3), income |-> Part(0, 0, 1)],
     span |-> Interval(6, 13)]
Steady == [Bridge EXCEPT !.parts["expense"] = Part(8, 8, 8), !.parts["finance"] = Part(2, 2, 2), !.span = Interval(8, 13)]
Wide(profit, span) ==
    [Bridge EXCEPT !.parts["revenue"] = Part(10, 14, 20), !.parts["expense"] = Part(6, 7, 9), !.parts["finance"] = Part(2, 3, 4),
                   !.profit = profit, !.span = span]
BridgesOf ==
    {Wide(4, Interval(2, 8)), Wide(4, Interval(-3, 13)), [Bridge EXCEPT !.profit = 9], [Bridge EXCEPT !.span = Interval(7, 13)],
     [Bridge EXCEPT !.intact = FALSE], [Bridge EXCEPT !.eventInside = TRUE], [Bridge EXCEPT !.doubled = TRUE],
     [Bridge EXCEPT !.quantified = FALSE], [Bridge EXCEPT !.reliable = FALSE], [Bridge EXCEPT !.profit = None],
     [Bridge EXCEPT !.parts["income"].on = {}], [Bridge EXCEPT !.parts["income"].on = Late],
     [Bridge EXCEPT !.parts["revenue"] = Part(21, 20, 22)], [Bridge EXCEPT !.parts["income"].point = None],
     [Bridge EXCEPT !.parts["finance"] = Part(12, 12, 12), !.profit = 0, !.span = Interval(-3, 3)],
     [Bridge EXCEPT !.parts["expense"] = Part(-2, -2, -2), !.profit = 20, !.span = Interval(17, 23)],
     [Bridge EXCEPT !.parts["income"] = Part(30, 40, 50), !.profit = 50, !.span = Interval(36, 62)]}

Driver(name, direction, value) ==
    [name |-> name, known |-> TRUE, on |-> Sources, value |-> value, asOf |-> 2, direction |-> direction, reasoned |-> TRUE, unbound |-> FALSE]
Financials(revenue, funding, headroom, writeoff) ==
    [revenue |-> revenue, expenses |-> 5, finance |-> 1, noncash |-> 1, invested |-> 2, funding |-> funding, headroom |-> headroom,
     writeoff |-> writeoff, profit |-> revenue - 6, cashFlow |-> revenue - 7, on |-> Known]
ScenarioAs(kind, amount, financials) ==
    [kind |-> kind, reasoned |-> TRUE, probability |-> None, explained |-> FALSE, financials |-> financials,
     drivers |-> <<Driver("amount", MustMove[kind], amount), Driver("cost", IF kind = "base" THEN "base" ELSE "inherited", 3)>>]
Scenarios ==
    [asOf |-> 4, public |-> 3, cutoff |-> 5, start |-> 3, end |-> 13, intact |-> TRUE, supersedes |-> None, replay |-> None,
     fx |-> [dated |-> TRUE, on |-> {<<"Fact", 1>>}], presentation |-> "cny", contract |-> "cny", calibration |-> None,
     scenarios |-> <<ScenarioAs("base", 5, Financials(10, 1, 5, 0)), ScenarioAs("downside", 4, Financials(9, 1, 5, 0)),
                     ScenarioAs("upside", 6, Financials(12, 0, 6, 0)), ScenarioAs("stress", 3, Financials(7, 2, 3, 1))>>]
Weighed(b, d, u, s) ==
    [Scenarios EXCEPT !.scenarios[1].probability = b, !.scenarios[2].probability = d, !.scenarios[3].probability = u,
                      !.scenarios[4].probability = s, !.calibration = 2]
DriverFaults ==
    {[Scenarios EXCEPT !.scenarios[k].drivers[n] = d] : k \in {1, 2}, n \in {1, 2},
        d \in {Driver("cost", "inherited", 4), Driver("cost", "worse", 2), [Driver("amount", "worse", 4) EXCEPT !.unbound = TRUE],
               [Driver("amount", "worse", 4) EXCEPT !.asOf = 4], [Driver("amount", "worse", 4) EXCEPT !.reasoned = FALSE],
               [Driver("amount", "worse", 4) EXCEPT !.on = {}], Driver("amount", "base", 5)}}
FinancialFaults ==
    {[Scenarios EXCEPT !.scenarios[k].financials = f] : k \in {1, 3, 4},
        f \in {Financials(6, 1, 5, 0), Financials(9, 1, 5, 0), Financials(20, 0, 6, 0), Financials(8, 0, 9, 1), Financials(9, 1, 5, -1),
               [Financials(10, 1, 5, 0) EXCEPT !.profit = 5], [Financials(10, 1, 5, 0) EXCEPT !.on = Late],
               [Financials(10, 1, 5, 0) EXCEPT !.on = {<<"Derived", 4>>}]}}
ScenariosOf ==
    DriverFaults \cup FinancialFaults
    \cup {Weighed(50, 25, 25, None), Weighed(50, 25, 15, None), Weighed(50, 25, 25, 0), Weighed(50, None, 25, None),
          Weighed(90, -10, 20, None), [Weighed(50, 25, 25, None) EXCEPT !.calibration = None],
          [Weighed(50, 25, 25, None) EXCEPT !.calibration = 4],
          [Scenarios EXCEPT !.scenarios[4] = [ScenarioAs("stress", 3, Financials(8, 0, 5, 0)) EXCEPT !.explained = TRUE]],
          [Scenarios EXCEPT !.scenarios[3].kind = "base"], [Scenarios EXCEPT !.scenarios = SubSeq(@, 1, 3)],
          [Scenarios EXCEPT !.scenarios[2].reasoned = FALSE], [Scenarios EXCEPT !.intact = FALSE],
          [Scenarios EXCEPT !.asOf = 6], [Scenarios EXCEPT !.end = 12], [Scenarios EXCEPT !.public = 2], [Scenarios EXCEPT !.contract = "usd"],
          [Scenarios EXCEPT !.supersedes = "earlier"],
          [Scenarios EXCEPT !.supersedes = "earlier", !.replay = [replayable |-> TRUE, faithful |-> TRUE]],
          [Scenarios EXCEPT !.replay = [replayable |-> TRUE, faithful |-> FALSE]]}

-----------------------------------------------------------------------------
(* Expectation, market, valuation, price and plan. *)

Basis == [currency |-> "cny", terms |-> "contract", event |-> "event", subject |-> "company", period |-> <<3, 13>>]
Absence == [state |-> "explicitly_absent", binding |-> None, profit |-> None, cashFlow |-> None, absence |-> TRUE]
Expected(state, profit, cashFlow) ==
    [state |-> state, binding |-> Interval(1, 2), profit |-> profit, cashFlow |-> cashFlow, absence |-> FALSE]
Dated5(id, rest) == [id |-> id, intact |-> TRUE, asOf |-> 2, cutoff |-> 5] @@ rest
ValuePart(key, role, scope) ==
    [key |-> key, role |-> role, supported |-> TRUE, scope |-> scope, binding |-> TRUE, unbound |-> FALSE]
Ladder5(base, downside) ==
    [upside |-> Interval(160, 170), base |-> Interval(base, 140), downside |-> Interval(downside, 99), stress |-> Interval(70, 80)]
SoundCase ==
    [synthetic |-> TRUE, case |-> "case", company |-> "company", node |-> "node", logical |-> "event", cutoff |-> 5, public |-> 3,
     industry |-> Industry, event |-> CaseEvent, baseBridge |-> Bridge, downsideBridge |-> Steady, scenarios |-> Scenarios,
     basis |-> Basis, binding |-> Interval(20, 25), profit |-> Interval(4, 6), cashFlow |-> Interval(3, 5),
     expectation |-> Dated5("expectation", [public |-> 3, basis |-> Basis, prior |-> Absence, conflicting |-> FALSE, covered |-> TRUE]),
     market |-> Dated5("market", [start |-> 1, end |-> 2, price |-> 10, shares |-> 10, turnover |-> 1, methodical |-> TRUE, conflicting |-> FALSE]),
     valuation |-> Dated5("valuation", [basis |-> Basis, acyclic |-> TRUE, terminal |-> FALSE, crossSelected |-> FALSE, discounted |-> TRUE,
         methodical |-> TRUE, business |-> Interval(80, 90), event |-> Interval(30, 50), values |-> Ladder5(126, 90), shares |-> 10,
         parts |-> <<ValuePart("orders", "event", {"base", "upside"}), ValuePart("plant", "business", {"base"})>>]),
     price |-> Dated5("price", [price |-> 10, shares |-> 10, cost |-> 1, slippage |-> 1, currency |-> "cny", sourced |-> TRUE,
         synthetic |-> TRUE, executable |-> FALSE]),
     plan |-> Dated5("plan", [falsifiers |-> 2, scheduled |-> TRUE, days |-> 120]),
     exit |-> [holding |-> FALSE, snapshot |-> None, triggers |-> {}, elapsed |-> None, calendar |-> TRUE, verified |-> None,
               cap |-> None, baseValue |-> None, newEvidence |-> None, reunderwritten |-> None]]

MarketFaults ==
    {[SoundCase EXCEPT !.market.end = 3], [SoundCase EXCEPT !.market.conflicting = TRUE], [SoundCase EXCEPT !.market.methodical = FALSE],
     [SoundCase EXCEPT !.market.price = 0], [SoundCase EXCEPT !.market.price = 12], [SoundCase EXCEPT !.market.price = 11],
     [SoundCase EXCEPT !.market.price = 15], [SoundCase EXCEPT !.market.shares = 9], [SoundCase EXCEPT !.market.shares = 5],
     [SoundCase EXCEPT !.market.turnover = -1], [SoundCase EXCEPT !.market.id = "price"], [SoundCase EXCEPT !.market.cutoff = 4],
     [SoundCase EXCEPT !.market.intact = FALSE]}
ExpectationFaults ==
    {[SoundCase EXCEPT !.expectation.prior = p] :
        p \in {Expected("explicit", Interval(1, 3), Interval(1, 3)), Expected("explicit", Interval(1, 6), Interval(1, 3)),
               Expected("explicit", Interval(1, 3), Interval(4, 5)), Expected("directional_nonbinding", Interval(1, 3), Interval(1, 3)),
               Expected("explicit", Interval(1, 4), Interval(1, 3))}}
    \cup {[SoundCase EXCEPT !.expectation.asOf = 3], [SoundCase EXCEPT !.expectation.public = 4], [SoundCase EXCEPT !.expectation.conflicting = TRUE],
          [SoundCase EXCEPT !.binding = Interval(0, 5)], [SoundCase EXCEPT !.profit = Interval(5, 6)], [SoundCase EXCEPT !.cashFlow = Interval(2, 5)],
          [SoundCase EXCEPT !.basis.terms = "another"], [SoundCase EXCEPT !.basis.currency = "usd"], [SoundCase EXCEPT !.basis.subject = "another"],
          [SoundCase EXCEPT !.logical = "another"], [SoundCase EXCEPT !.public = 6], [SoundCase EXCEPT !.synthetic = FALSE]}
PartFaults ==
    {[ValuePart("plant", "event", {"base"}) EXCEPT !.binding = FALSE], [ValuePart("plant", "event", {"upside"}) EXCEPT !.unbound = TRUE],
     [ValuePart("plant", "business", {"upside"}) EXCEPT !.unbound = TRUE], [ValuePart("plant", "business", {"base"}) EXCEPT !.supported = FALSE],
     ValuePart("orders", "business", {"base"})}
ValuationFaults ==
    {[SoundCase EXCEPT !.valuation.parts[2] = p] : p \in PartFaults}
    \cup {[SoundCase EXCEPT !.valuation.values = Ladder5(v[1], v[2])] :
              v \in {<<125, 90>>, <<130, 91>>, <<116, 97>>, <<117, 97>>, <<118, 97>>, <<130, 99>>, <<90, 95>>, <<130, 102>>}}
    \cup {[SoundCase EXCEPT !.valuation.acyclic = FALSE], [SoundCase EXCEPT !.valuation.terminal = TRUE],
          [SoundCase EXCEPT !.valuation.crossSelected = TRUE], [SoundCase EXCEPT !.valuation.discounted = FALSE],
          [SoundCase EXCEPT !.valuation.parts = <<>>], [SoundCase EXCEPT !.valuation.shares = 11],
          [SoundCase EXCEPT !.valuation.business = Interval(60, 70)], [SoundCase EXCEPT !.valuation.event = Interval(20, 21)],
          [SoundCase EXCEPT !.valuation.event = Interval(5, 9)]}
PriceFaults ==
    {[SoundCase EXCEPT !.price.synthetic = FALSE], [SoundCase EXCEPT !.price.executable = TRUE], [SoundCase EXCEPT !.price.currency = "usd"],
     [SoundCase EXCEPT !.price.sourced = FALSE], [SoundCase EXCEPT !.price.price = 0], [SoundCase EXCEPT !.price.price = 9],
     [SoundCase EXCEPT !.price.price = 11], [SoundCase EXCEPT !.price.slippage = -2], [SoundCase EXCEPT !.price.slippage = 0],
     [SoundCase EXCEPT !.plan.days = 121], [SoundCase EXCEPT !.plan.scheduled = FALSE], [SoundCase EXCEPT !.plan.falsifiers = 1]}

-----------------------------------------------------------------------------
(* A synthetic holding. *)

Holding == [case |-> "case", bound |-> TRUE, synthetic |-> TRUE, executes |-> FALSE, intact |-> TRUE, asOf |-> 4, cutoff |-> 5, loss |-> 1, budget |-> 3]
Trigger(kind) == [id |-> kind, kind |-> kind, state |-> "refuted", facts |-> TRUE, preregistered |-> TRUE]
Triggers == {Trigger(k) : k \in EvidenceKinds}
Exit == [holding |-> TRUE, snapshot |-> Holding, triggers |-> Triggers, elapsed |-> 30, calendar |-> TRUE, verified |-> TRUE,
         cap |-> 100, baseValue |-> 126, newEvidence |-> FALSE, reunderwritten |-> TRUE]
Noticed(t) == {u \in Triggers : u.kind # t.kind} \cup {t}
ExitsOf ==
    {[Exit EXCEPT !.snapshot = h] :
        h \in {[Holding EXCEPT !.loss = 3], [Holding EXCEPT !.loss = -1], [Holding EXCEPT !.budget = 0], [Holding EXCEPT !.bound = FALSE],
               [Holding EXCEPT !.executes = TRUE], [Holding EXCEPT !.case = "another"], [Holding EXCEPT !.cutoff = 4], [Holding EXCEPT !.asOf = 6]}}
    \cup {[Exit EXCEPT !.triggers = Noticed(t)] :
        t \in {[Trigger("delay") EXCEPT !.state = s] : s \in {"confirmed", "unknown", "not_applicable"}}
              \cup {[Trigger("delay") EXCEPT !.state = "confirmed", !.facts = FALSE], [Trigger("delay") EXCEPT !.preregistered = FALSE],
                    [Trigger("delay") EXCEPT !.id = "time_exit"], [Trigger("delay") EXCEPT !.id = "credit"]}}
    \cup {Exit, [Exit EXCEPT !.snapshot = None], [Exit EXCEPT !.holding = FALSE], [Exit EXCEPT !.elapsed = 120],
          [Exit EXCEPT !.elapsed = 120, !.verified = FALSE], [Exit EXCEPT !.elapsed = 119, !.verified = FALSE],
          [Exit EXCEPT !.cap = 126], [Exit EXCEPT !.cap = 126, !.newEvidence = TRUE], [Exit EXCEPT !.newEvidence = TRUE],
          [Exit EXCEPT !.reunderwritten = FALSE],
          [Exit EXCEPT !.snapshot.loss = 3, !.elapsed = 120, !.verified = FALSE]}

-----------------------------------------------------------------------------

MCSubmissions ==
    {SoundCase}
    \cup {[SoundCase EXCEPT !.industry = i] : i \in IndustriesOf}
    \cup {[SoundCase EXCEPT !.event = e] : e \in EventsOf}
    \cup {[SoundCase EXCEPT !.baseBridge = b] : b \in BridgesOf}
    \cup {[SoundCase EXCEPT !.downsideBridge = b] : b \in BridgesOf}
    \cup {[SoundCase EXCEPT !.scenarios = s] : s \in ScenariosOf}
    \cup MarketFaults \cup ExpectationFaults \cup ValuationFaults \cup PriceFaults
    \cup {[SoundCase EXCEPT !.exit = e] : e \in ExitsOf}
    \cup {[SoundCase EXCEPT !.exit = e, !.price.price = 11] : e \in {Exit, [Exit EXCEPT !.snapshot.loss = 3]}}
(* Nothing is submitted that the classes refuse to construct. *)
ASSUME Constructible ==
    /\ \A i \in IndustriesOf :
           /\ \A c \in Range(i.bottleneck) \cup Range(i.beneficiary) : IsClaim(c)
           /\ \A b \in Range(i.context.bindings) : IsBinding(b)
    /\ \A b \in BridgesOf \cup {Bridge, Steady} : \A part \in Range(b.parts) : IsInterval(part.interval)

MCPrices == {8, 9, 10, 11, 12}
MCCosts == {0, 1, 2, 3}

NoEvent == brief = Case4A2([Dossier EXCEPT !.graph = <<>>], FirstRevision) /\ report = EventReport(brief)
NoCase == dossier = SoundCase /\ losses = 0 /\ verdict = Stopped(None, NoView) /\ quote = None /\ recheck = {}

Stage4Init ==
    \/ scene = "event" /\ EventInit /\ NoCase
    \/ scene = "case" /\ NoEvent /\ CaseInit

Stage4Next ==
    \/ scene = "event" /\ EventNext /\ UNCHANGED <<caseVars, scene>>
    \/ scene = "case" /\ CaseNext /\ UNCHANGED <<eventVars, scene>>

Stage4Spec == Stage4Init /\ [][Stage4Next]_<<eventVars, caseVars, scene>>
=============================================================================
