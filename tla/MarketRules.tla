------------------------------ MODULE MarketRules ------------------------------
(***************************************************************************)
(* What Stage 5B judges a market by: the inputs a case can hold, the dated *)
(* rule, cost and impact in force, the price and size a window can give    *)
(* and the Stage 4 gates at that price.                                    *)
(*                                                                         *)
(* Moments, days, quantities and amounts are whole numbers; a rate is a    *)
(* number of hundredths.  Slippage is an exact fraction, where the code    *)
(* keeps fifty digits.  Hash and scope comparisons of an input are one     *)
(* flag of that input.                                                     *)
(***************************************************************************)
EXTENDS Absent, Integers, Sequences, FiniteSets, FiniteSetsExt, SequencesExt, Functions

(* The approved numbers. *)
Participation == 5
EntryDays == 3
MinNetBase == 15
MinReward == 2

LesserOf(a, b) == IF a < b THEN a ELSE b
GreaterOf(a, b) == IF a < b THEN b ELSE a
CeilDiv(a, b) == -((-a) \div b)
RoundUp(amount, denominator, unit) == CeilDiv(amount, denominator * unit) * unit
FloorTo(quantity, lot) == (quantity \div lot) * lot

-----------------------------------------------------------------------------
(* What the inputs can be: each clause is a check of a constructor. *)

Dated(x) ==
    /\ x.published <= x.from
    /\ x.to # None => x.from < x.to

IsMarketRule(r) ==
    /\ Dated(r)
    /\ r.tick \in Nat \ {0} /\ r.upper \in Nat /\ r.lower \in 0..(r.upper - 1)
    /\ r.lower % r.tick = 0 /\ r.upper % r.tick = 0
    /\ {r.buyLot, r.sellLot} \subseteq Nat \ {0} /\ r.cycle \in Nat
    /\ r.kinds # {} /\ r.orders # {}

IsSession(s) == s.opens < s.closes

(* Sorted by opening, disjoint. *)
IsCalendar(sessions) ==
    /\ Len(sessions) \in Nat \ {0} /\ DOMAIN sessions = 1..Len(sessions)
    /\ \A i \in DOMAIN sessions : IsSession(sessions[i])
    /\ \A i \in 1..(Len(sessions) - 1) : sessions[i].closes <= sessions[i + 1].opens

IsObservation(w) ==
    /\ {w.start, w.end, w.available, w.id} \subseteq Int
    /\ w.start < w.end /\ w.available <= w.end
    /\ {w.volume, w.turnover} \subseteq Nat /\ w.benchmark \in Nat \ {0}

(* MarketObservationSet puts its windows in this order, whatever the session. *)
WindowBefore(w, x) == w.end < x.end \/ (w.end = x.end /\ w.id < x.id)

IsCostSchedule(c) ==
    /\ Dated(c)
    /\ IsFiniteSet(DOMAIN c.levies) /\ \A i \in DOMAIN c.levies : c.levies[i] \in Nat
    /\ {c.tax, c.commission, c.minimum} \subseteq Nat /\ c.unit \in Nat \ {0}

IsNode(n) == n.rate \in 0..100 /\ n.slip \in 0..100

IsImpactCurve(c) ==
    /\ Dated(c)
    /\ Len(c.nodes) \in Nat \ {0, 1} /\ DOMAIN c.nodes = 1..Len(c.nodes) /\ c.nodes[1].rate = 0
    /\ \A i \in DOMAIN c.nodes : IsNode(c.nodes[i])
    /\ \A i \in 1..(Len(c.nodes) - 1) :
         /\ c.nodes[i].rate < c.nodes[i + 1].rate
         /\ c.nodes[i].slip <= c.nodes[i + 1].slip

IsApproval(a) == a.at < a.expires /\ {a.quantity, a.cap} \subseteq Nat \ {0}

NewRisk == {"ENTER", "ADD"}
Side(action) == IF action \in NewRisk THEN "BUY" ELSE "SELL"

(* The reduction-only ceilings Stage 5C submits under; None for 5B alone. *)
Constraints ==
    [approved : Nat, maximum : Nat, gross : Nat,
     cash : Nat \cup {None}, reserve : Nat \cup {None}, sellable : Nat \cup {None}]

(* What a price is quoted with. *)
Slips == [num : Nat, den : Nat \ {0}]
Quotes == [quantity : Nat, price : Nat, gross : Nat, fee : Nat, tax : Nat]

ASSUME NoneAssumption == None \notin Constraints \cup Slips \cup Quotes

IsConstraint(c, action) ==
    /\ c \in Constraints /\ c.maximum <= c.approved
    /\ IF Side(action) = "BUY" THEN c.cash \in Nat /\ c.reserve \in Nat /\ c.sellable = None
       ELSE c.cash = None /\ c.reserve = None /\ c.sellable \in Nat

IsCase(c) ==
    /\ c.cutoff <= c.decided /\ c.decided <= c.processed
    /\ c.proposed \in Nat \ {0} /\ c.proposal.price \in Nat \ {0}
    /\ \A r \in c.rules : IsMarketRule(r)
    /\ IsCalendar(c.sessions)
    /\ IsFiniteSet(c.windows) /\ \A w \in c.windows : IsObservation(w)
    /\ \A w, x \in c.windows : w.id = x.id => w = x
    /\ \A s \in c.costs : IsCostSchedule(s)
    /\ \A i \in c.impacts : IsImpactCurve(i)
    /\ IsApproval(c.approval)

-----------------------------------------------------------------------------
(* Dated inputs. *)

Covers(x, at) == x.from <= at /\ (x.to = None \/ at < x.to)
Overlap(x, y) == (x.to = None \/ y.from < x.to) /\ (y.to = None \/ x.from < y.to)
Overlapping(dated) == \E x, y \in dated : x # y /\ x.scope = y.scope /\ Overlap(x, y)

(* The code compares the interval-covering rules of the case's own scope. *)
RulesAt(c, at) == {r \in c.rules : r.scope = c.scope /\ Covers(r, at)}

(* None: no rule or two, one not published yet, or one that is not in force. *)
RuleAt(c, at) ==
    IF /\ Cardinality(RulesAt(c, at)) = 1
       /\ \A r \in RulesAt(c, at) : r.published <= at /\ r.state = "EFFECTIVE"
    THEN CHOOSE r \in RulesAt(c, at) : TRUE
    ELSE None

OnlyOf(xs) == IF Cardinality(xs) = 1 THEN CHOOSE x \in xs : TRUE ELSE None

CostAt(c, at) == OnlyOf({x \in c.costs :
    x.scope = <<c.fees, Side(c.action)>> /\ Covers(x, at) /\ x.published <= at})

ImpactAt(c, quality, at) == OnlyOf({x \in c.impacts :
    x.scope = <<quality, Side(c.action)>> /\ Covers(x, at) /\ x.published <= at})

EligibleFrom(c) == Max({c.decided, c.processed, c.approval.at})

-----------------------------------------------------------------------------
(* _precheck_failure and _submission_constraint_failure. *)

Stage4Permits(c) ==
    IF c.action \in NewRisk
    THEN c.stage4.ready /\ (c.action = "ADD" => c.reunderwritten)
    ELSE c.stage4.exitCandidate \/ c.mandate

Prechecked5B(c) ==
    /\ c.authorised /\ c.stage4.bound /\ c.scoped
    /\ c.approval.scoped /\ c.approval.quantity <= c.proposed
    /\ c.processed <= c.proposal.at /\ c.proposal.at < c.approval.at
    /\ c.sealed
    /\ ~Overlapping(c.rules) /\ ~Overlapping(c.costs) /\ ~Overlapping(c.impacts)
    /\ ~c.backfilled
    /\ \A x, y \in c.states : x.session = y.session => x = y
    /\ \A x \in c.states \cup c.windows : x.session \in DOMAIN c.sessions
    /\ Stage4Permits(c)

ConstraintFits(c, ceilings) ==
    ceilings # None =>
        /\ ceilings.approved <= c.approval.quantity
        /\ ceilings.maximum <= ceilings.approved
        /\ ceilings.sellable # None => ceilings.maximum <= ceilings.sellable

-----------------------------------------------------------------------------
(* Quotes.  Slippage is slipOf.num hundredths over slipOf.den. *)

Segments(curve) == 1..(Len(curve.nodes) - 1)

(* _interpolate_impact; None outside the curve's own range. *)
Slippage(curve, quantity, volume) ==
    LET on(i) ==
            /\ curve.nodes[i].rate * volume < 100 * quantity
            /\ 100 * quantity <= curve.nodes[i + 1].rate * volume
        at == {i \in Segments(curve) : on(i)}
        line(i) ==
            LET l == curve.nodes[i]
                r == curve.nodes[i + 1]
                run == (r.rate - l.rate) * volume
            IN  [num |-> l.slip * run + (100 * quantity - l.rate * volume) * (r.slip - l.slip),
                 den |-> run]
    IN  IF at = {} THEN None ELSE line(CHOOSE i \in at : TRUE)

(* Against the trader, to the next tick. *)
FillPrice(benchmark, slip, tick, side) ==
    IF side = "BUY"
    THEN tick * CeilDiv(benchmark * (100 * slip.den + slip.num), 100 * slip.den * tick)
    ELSE tick * ((benchmark * (100 * slip.den - slip.num)) \div (100 * slip.den * tick))

Levy(gross, rate, cost) == RoundUp(gross * rate, 100, cost.unit)
Fees(gross, cost) ==
    SumFunction([i \in DOMAIN cost.levies |-> Levy(gross, cost.levies[i], cost)])
      + RoundUp(GreaterOf(Levy(gross, cost.commission, cost), cost.minimum), 1, cost.unit)
Tax(gross, cost) == Levy(gross, cost.tax, cost)

(* None: beyond the curve, beyond the price limits, or better than the market. *)
Quote(quantity, w, rule, curve, cost, side) ==
    LET slip == Slippage(curve, quantity, w.volume)
        price == FillPrice(w.benchmark, slip, rule.tick, side)
    IN  IF \/ slip = None \/ price \notin rule.lower..rule.upper
           \/ IF side = "BUY" THEN price < w.benchmark ELSE price > w.benchmark
        THEN None
        ELSE [quantity |-> quantity, price |-> price, gross |-> price * quantity,
              fee |-> Fees(price * quantity, cost), tax |-> Tax(price * quantity, cost)]

(* Within the caps that apply to the side. *)
Affordable(quote, cap, ceilings, side) ==
    /\ quote # None
    /\ quote.gross <= cap
    /\ ceilings # None /\ side = "BUY" =>
         /\ quote.fee + quote.tax <= ceilings.reserve
         /\ quote.gross + ceilings.reserve <= ceilings.cash

(* Mutant: the last number in reach is not tried. *)
OneLeft(low, high) == low >= high

NoneLeft(low, high) == low > high

(* The binary search of _affordable_quote: 0, or a number of lots that is good. *)
Search(good, n) ==
    LET probe[left \in (1..(n + 1)) \X (0..n) \X (0..n)] ==
            LET low == left[1]
                high == left[2]
                best == left[3]
                middle == (low + high) \div 2
            IN  IF NoneLeft(low, high) THEN best
                ELSE IF good[middle] THEN probe[<<middle + 1, high, middle>>]
                ELSE probe[<<low, middle - 1, best>>]
    IN  probe[<<1, n, 0>>]

LotSize(rule, side) ==
    IF side = "BUY" THEN rule.buyLot ELSE IF rule.oddLots THEN 1 ELSE rule.sellLot

(* What the window's volume, the approval and the ceilings leave. *)
Capacity(w, lot) == FloorTo((w.volume * Participation) \div 100, lot)
Candidate(c, ceilings, w, lot) ==
    LET offered == LesserOf(Capacity(w, lot), FloorTo(c.approval.quantity, lot))
    IN  IF ceilings = None THEN offered ELSE LesserOf(offered, ceilings.maximum)

NotionalCap(c, ceilings) ==
    IF ceilings = None THEN c.approval.cap ELSE LesserOf(c.approval.cap, ceilings.gross)

AffordableQuote(c, ceilings, w, rule) ==
    LET side == Side(c.action)
        lot == LotSize(rule, side)
        quote(n) == Quote(n * lot, w, rule, ImpactAt(c, w.quality, w.end), CostAt(c, w.end), side)
        most == Candidate(c, ceilings, w, lot) \div lot
        good == [n \in 1..most |-> Affordable(quote(n), NotionalCap(c, ceilings), ceilings, side)]
        lots == Search(good, most)
    IN  IF lots = 0 THEN None ELSE quote(lots)

-----------------------------------------------------------------------------
(* _gate_recheck: the event's value against what the executable price implies. *)

Reflection(v, price) ==
    LET marketCap == price * v.shares IN
    IF marketCap - v.business.upper >= v.event.upper THEN "FULLY_REFLECTED"
    ELSE IF marketCap - v.business.lower < v.event.lower THEN "NOT_FULLY_REFLECTED"
    ELSE "INDETERMINATE"

Gate3(c, price) ==
    LET v == c.stage4.valuation IN
    IF v = None THEN "ABSTAIN"
    ELSE IF v.shares <= 0 THEN "BLOCKED"
    ELSE IF c.stage4.gate3 # "PASS" THEN c.stage4.gate3
    ELSE IF Reflection(v, price) = "FULLY_REFLECTED" THEN "REJECT"
    ELSE IF Reflection(v, price) = "INDETERMINATE" \/ c.stage4.expectation \in {None, "unknown"} THEN "ABSTAIN"
    ELSE IF c.stage4.expectation = "fully_priced" THEN "REJECT"
    ELSE "PASS"

(* value / market cap - 1 - cost / gross, times market cap times gross. *)
NetReturn(value, marketCap, quote) ==
    value * quote.gross - marketCap * quote.gross - (quote.fee + quote.tax) * marketCap

Gate4(c, quote) ==
    LET v == c.stage4.valuation
        marketCap == quote.price * v.shares
        base == NetReturn(v.base, marketCap, quote)
        loss == -NetReturn(v.downside, marketCap, quote)
    IN  IF loss <= 0 THEN "ABSTAIN"
        ELSE IF 100 * base < MinNetBase * marketCap * quote.gross \/ base < MinReward * loss THEN "REJECT"
        ELSE "PASS"

GatesAt(c, quote) ==
    LET three == Gate3(c, quote.price)
    IN  IF three = "PASS" THEN {three, Gate4(c, quote)} ELSE {three}
=============================================================================
