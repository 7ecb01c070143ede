------------------------------- MODULE MCStage5 -------------------------------
(***************************************************************************)
(* Stage 5 keeps one ledger, and its journal grows in two ways: a trade is *)
(* booked, or what was booked is corrected.  A behaviour does one of them  *)
(* while the other is at rest.                                             *)
(*                                                                         *)
(* Trades are small enough to take apart: four dates, prices near a        *)
(* hundred, a net worth of a few thousand, lots of ten.  Each family       *)
(* varies one part of a case that would otherwise be filled.  Corrections  *)
(* are of one security: two shares held, two bought with a fee, some sold, *)
(* and the purchase, its fee and a sale corrected at two moments.          *)
(***************************************************************************)
EXTENDS TradeCase, JournalCorrections

CONSTANTS S, f1, f2, f3, aRule

MCSecurities == {"share"}

-----------------------------------------------------------------------------
(* The market. *)

TheRule ==
    [scope |-> <<"main", "LIMIT">>, published |-> 0, from |-> 1, to |-> None, state |-> "EFFECTIVE", known |-> 0,
     kinds |-> {"CONTINUOUS"}, orders |-> {"LIMIT"}, tick |-> 1, lower |-> 80, upper |-> 120,
     buyLot |-> 10, sellLot |-> 10, oddLots |-> FALSE, sameDay |-> FALSE, cycle |-> 1]

Sitting(date, opens) == [date |-> date, kind |-> "CONTINUOUS", opens |-> opens, closes |-> opens + 10]
TheSessions == <<Sitting(1, 10), Sitting(1, 22), Sitting(2, 40), Sitting(3, 60), Sitting(4, 80)>>

Open(session) == [session |-> session, listed |-> TRUE, suspended |-> FALSE, limit |-> "NONE",
                  liquid |-> TRUE, quotable |-> TRUE]
TheStates == {Open(i) : i \in 1..5}

Span(id, session, start) ==
    [id |-> id, session |-> session, quality |-> "MINUTE", start |-> start, end |-> start + 2,
     available |-> start + 2, volume |-> 400, turnover |-> 40000, benchmark |-> 100]
TheWindows == {Span(1, 1, 12), Span(2, 2, 24), Span(3, 3, 42), Span(4, 4, 62)}

TheCosts == {[scope |-> <<"std", side>>, published |-> 0, from |-> 1, to |-> None, levies |-> <<1>>,
              tax |-> IF side = "SELL" THEN 1 ELSE 0, commission |-> 1, minimum |-> 5, unit |-> 1]
                : side \in {"BUY", "SELL"}}
TheImpacts == {[scope |-> <<q, side>>, published |-> 0, from |-> 1, to |-> None,
                nodes |-> <<[rate |-> 0, slip |-> 1], [rate |-> 5, slip |-> 5]>>]
                : q \in {"MINUTE", "DAILY"}, side \in {"BUY", "SELL"}}

TheValue == [shares |-> 10, business |-> [lower |-> 200, upper |-> 250], event |-> [lower |-> 900, upper |-> 1000],
             base |-> 1500, downside |-> 950]

Case(action) ==
    [action |-> action, exact |-> TRUE, decided |-> 4, decisionDate |-> 0, processed |-> 5, cutoff |-> 4,
     authorised |-> TRUE, scoped |-> TRUE, sealed |-> TRUE, backfilled |-> FALSE,
     scope |-> <<"main", "LIMIT">>, fees |-> "std", proposed |-> 40,
     proposal |-> [at |-> 6, price |-> 100, known |-> 6],
     approval |-> [at |-> 8, expires |-> 90, quantity |-> 40, cap |-> 4000, scoped |-> TRUE, known |-> 8],
     rules |-> {TheRule}, sessions |-> TheSessions, states |-> TheStates, windows |-> TheWindows,
     costs |-> TheCosts, impacts |-> TheImpacts,
     stage4 |-> [ready |-> TRUE, bound |-> TRUE, exitCandidate |-> TRUE, gate3 |-> "PASS",
                 expectation |-> "partially_priced", valuation |-> TheValue],
     reunderwritten |-> TRUE, mandate |-> FALSE]

-----------------------------------------------------------------------------
(* The desk. *)

Shares(id, acquired, quantity, sellable, cost) ==
    [id |-> id, acquired |-> acquired, quantity |-> quantity, sellable |-> sellable, cost |-> cost]
Holding(lots) == [security |-> "share", company |-> "co", value |-> 2000, lots |-> lots]

Account(positions) ==
    [available |-> 50000, reserved |-> 0, receivable |-> 0, payable |-> 0, positions |-> positions,
     highWater |-> 52000, exposures |-> {[cluster |-> <<t, "x">>, value |-> 0, loss |-> 0] : t \in ClusterTypes},
     openLoss |-> 0, stopped |-> FALSE, recovery |-> None, at |-> 8]

At(date, at) == [date |-> date, at |-> at]
TheMoments ==
    [SECURITY_SETTLEMENT |-> At(2, 41), SECURITY_SELLABLE |-> At(2, 44), BUY_CASH_PAYABLE |-> At(1, 26),
     SELL_PROCEEDS_RECEIVABLE |-> At(1, 14), SELL_CASH_SETTLEMENT |-> At(2, 43), SELL_CASH_AVAILABLE |-> At(2, 46)]
TheTerms == [date |-> 1, rule |-> TheRule, sameDay |-> FALSE, sealed |-> TRUE, exception |-> FALSE,
             scoped |-> TRUE, known |-> 9, moments |-> TheMoments]

Desk(positions, quantity) ==
    [account |-> Account(positions), clusters |-> [assigned |-> {<<t, "x">> : t \in ClusterTypes}, company |-> "co"],
     regime |-> "NORMAL", stress |-> -20, sizing |-> [liquidity |-> 5000, reserve |-> 60], security |-> "share",
     scoped |-> TRUE, sealed |-> TRUE, known |-> 8,
     folio |-> [scoped |-> TRUE, bound |-> TRUE, approved |-> TRUE, at |-> 8, expires |-> 80,
                quantity |-> quantity, cap |-> 100 * quantity, loss |-> 10 * quantity],
     head |-> 14, headKnown |-> 8, constraintKnown |-> 8, terms |-> {TheTerms}, attributions |-> {}, clock |-> 90]

EmptyDesk == Desk({}, 20)

Split(lot, tax) ==
    [scoped |-> TRUE, security |-> "share", lot |-> lot.id, acquired |-> lot.acquired, quantity |-> lot.quantity,
     sellable |-> lot.sellable,
     cost |-> [principal |-> lot.cost - 20 - tax, fee |-> 10, tax |-> tax, slippage |-> 10, basis |-> 0]]

TwoLots == {Shares(21, 2, 20, 20, 2000), Shares(22, 3, 20, 10, 2100)}
HoldingDesk == [Desk({Holding(TwoLots)}, 20) EXCEPT !.attributions = {Split(l, 0) : l \in TwoLots}]

-----------------------------------------------------------------------------
(* Families of trades. *)

(* What can be wrong with one session. *)
Troubles == {"none", "halted", "blind", "thin", "unpriced", "dear", "silent"}
Windows(c, i) == {w \in c.windows : w.session = i}
Troubled(c, i, trouble) ==
    CASE trouble = "none" -> c
      [] trouble = "halted" -> [c EXCEPT !.states = {IF x.session = i THEN [x EXCEPT !.suspended = TRUE] ELSE x : x \in @}]
      [] trouble = "blind" -> [c EXCEPT !.states = {x \in @ : x.session # i}]
      [] trouble = "silent" -> [c EXCEPT !.windows = {w \in @ : w.session # i}]
      [] OTHER ->
         [c EXCEPT !.windows =
            {IF w.session # i THEN w
             ELSE CASE trouble = "thin" -> [w EXCEPT !.volume = 100]
                    [] trouble = "unpriced" -> [w EXCEPT !.quality = "ODD"]
                    [] trouble = "dear" -> [w EXCEPT !.benchmark = 112] : w \in @}]

Troublesome ==
    {<<[Troubled(Troubled(Troubled(Troubled(Case(action), 1, a), 2, b), 3, z), 4, z)
          EXCEPT !.approval.expires = expires, !.exact = exact], None>> :
        action \in {"ENTER", "REDUCE"}, a \in Troubles, b \in Troubles, z \in {"none", "halted", "unpriced", "dear"},
        expires \in {13, 43, 90}, exact \in BOOLEAN}

Superseding(rule, from) == [rule EXCEPT !.from = from, !.buyLot = 20]
Regulated ==
    {<<[Case(action) EXCEPT !.rules = rules], None>> :
        action \in {"ENTER", "EXIT"},
        rules \in {{}, {[TheRule EXCEPT !.published = 0, !.state = "DRAFT"]}, {TheRule, Superseding(TheRule, 20)},
                   {[TheRule EXCEPT !.to = 13]}, {[TheRule EXCEPT !.to = 13], Superseding(TheRule, 13)},
                   {[TheRule EXCEPT !.oddLots = TRUE]}}}

Stops == {[stopped |-> FALSE, recovery |-> None], [stopped |-> TRUE, recovery |-> None]} \cup
         {[stopped |-> TRUE,
           recovery |-> [agreed |-> agreed, ofHead |-> ofHead, stopped |-> 1, owner |-> 2, effective |-> 3, known |-> 3]] :
             agreed \in BOOLEAN, ofHead \in BOOLEAN}

Exposed(value) == {[cluster |-> <<t, "x">>, value |-> IF t = "company" THEN value ELSE 0, loss |-> 0] : t \in ClusterTypes}

Risky ==
    {<<Case(action),
       [Desk({}, quantity) EXCEPT !.regime = regime, !.stress = stress, !.account.highWater = water,
            !.account.stopped = stop.stopped, !.account.recovery = stop.recovery, !.account.exposures = exposures]>> :
        action \in {"ENTER", "ADD"}, quantity \in {10, 20}, regime \in {"NORMAL", "DEFENSIVE", "CRISIS", None},
        stress \in {-8, -20, None}, water \in {50000, 55000, 57000, 60000}, stop \in Stops,
        exposures \in {Exposed(0), Exposed(9000), {}}}

Folio(quantity, cap, approved) ==
    [EmptyDesk.folio EXCEPT !.quantity = quantity, !.cap = cap, !.loss = cap \div 10, !.approved = approved]
Approved ==
    {<<[Case("ENTER") EXCEPT !.approval.quantity = offered],
       [EmptyDesk EXCEPT !.stress = -8, !.folio = [folio EXCEPT !.expires = expires], !.head = head, !.headKnown = 8,
            !.constraintKnown = known, !.clock = clock]>> :
        offered \in {10, 40}, folio \in {Folio(q, cap, TRUE) : q \in {10, 20, 30}, cap \in {1000, 1100, 2000}}
                                          \cup {Folio(0, 0, FALSE)},
        expires \in {13, 80}, head \in {14, 26}, known \in {8, 15}, clock \in {13, 14, 90}}

Moved(kind, at) == [TheTerms EXCEPT !.moments[kind] = at]
Free == {[c EXCEPT !.levies = <<>>, !.commission = 0, !.minimum = 0] : c \in TheCosts}
Flat == {[c EXCEPT !.nodes = <<[rate |-> 0, slip |-> 0], [rate |-> 5, slip |-> 0]>>] : c \in TheImpacts}

Bought ==
    {<<[Case("ENTER") EXCEPT !.costs = costs, !.impacts = impacts],
       [EmptyDesk EXCEPT !.stress = -8, !.clock = clock, !.sizing.reserve = reserve,
            !.terms = {[TheTerms EXCEPT !.moments["BUY_CASH_PAYABLE"] = payable,
                                        !.moments["SECURITY_SETTLEMENT"] = settled,
                                        !.moments["SECURITY_SELLABLE"] = sellable]}]>> :
        costs \in {TheCosts, Free}, impacts \in {TheImpacts, Flat}, clock \in {20, 90}, reserve \in {22, 60},
        payable \in {At(1, 13), At(1, 14), At(1, 26)}, settled \in {At(2, 41), At(2, 44)},
        sellable \in {At(2, 41), At(2, 44), At(3, 62)}}

OneLot == {Shares(23, 2, 30, 30, 2000)}
Sold ==
    {<<[Case("EXIT") EXCEPT !.rules = {[TheRule EXCEPT !.oddLots = odd]}],
       [Desk({Holding(lots)}, quantity) EXCEPT !.clock = clock, !.attributions = attributions, !.account.reserved = reserved,
            !.terms = {[TheTerms EXCEPT !.rule = [TheRule EXCEPT !.oddLots = odd],
                                        !.moments["SELL_CASH_SETTLEMENT"] = settled,
                                        !.moments["SELL_CASH_AVAILABLE"] = available]}]>> :
        odd \in BOOLEAN, lots \in {TwoLots, OneLot}, quantity \in {10, 20}, clock \in {20, 90},
        attributions \in {{}, {Split(l, 0) : l \in TwoLots}, {Split(l, 0) : l \in OneLot}, {Split(l, 4) : l \in TwoLots}},
        reserved \in {0, 5},
        settled \in {At(2, 41), At(2, 44)}, available \in {At(2, 41), At(2, 44), At(3, 62)}}

(* A sale whose commission is all it earns. *)
Fruitless ==
    {<<[Case("EXIT") EXCEPT !.costs = {[c EXCEPT !.minimum = 950] : c \in @}],
       [Desk({Holding(TwoLots)}, 10) EXCEPT !.attributions = {Split(l, 0) : l \in TwoLots}]>>}

Families == Troublesome \cup Regulated \cup Risky \cup Approved \cup Bought \cup Sold \cup Fruitless
            \cup {<<Case("ENTER"), [EmptyDesk EXCEPT !.stress = -8, !.terms = {Moved("BUY_CASH_PAYABLE", At(1, 26)),
                                         [TheTerms EXCEPT !.known = 8]}]>>}

MCInit ==
    /\ \E f \in Families : case = f[1] /\ desk = f[2]
    /\ Trades

-----------------------------------------------------------------------------
(* The journals that are corrected. *)

L0 == 100
L1 == 101
L2 == 102

Event(id, type, at, postings, effects, sources, of) ==
    [id |-> id, key |-> id, type |-> type, at |-> at, scope |-> "account", security |-> S,
     postings |-> postings, effects |-> effects, sources |-> sources, rule |-> aRule,
     of |-> of, sealed |-> TRUE]

Stock(debit, credit, quantity) == Transfer(debit, credit, S, quantity)
Money(debit, credit, amount) == Transfer(debit, credit, Cny, amount)

Undo(id, e, at) ==
    Event(id, "REVERSAL", at, {[p EXCEPT !.amount = -@] : p \in e.postings},
          {[x EXCEPT !.quantity = -@, !.sellable = -@, !.cost = -@, !.acquired = 0] : x \in e.effects}, e.sources, e.id)

Instead(id, e, at, reversal) == [e EXCEPT !.id = id, !.key = id, !.type = "REPLACEMENT", !.at = at, !.of = reversal]

BuyingAs(lot, id, quantity, cost, trade, at) ==
    Event(id, "TRADE_FILL", at,
          Money("SECURITY_COST", "CASH_PAYABLE", cost) \cup Stock("SECURITY_UNSETTLED", "SECURITY_CONTROL", quantity),
          {Effect(lot, S, quantity, 0, cost, at, trade)}, {trade}, None)
Buying(id, quantity, cost, trade, at) == BuyingAs(L1, id, quantity, cost, trade, at)
Charged(id, type, account, amount, trade, at) ==
    Event(id, type, at, Money(account, "CASH_PAYABLE", amount),
          {Effect(L1, S, 0, 0, amount, None, trade)}, {trade}, None)
Selling(id, takes, cost, trade, at) ==
    LET quantity == MapThenSumSet(LAMBDA t : t[2], takes)
    IN  Event(id, "TRADE_FILL", at,
          Money("CASH_RECEIVABLE", "TRADE_CLEARING", 5) \cup Money("TRADE_CLEARING", "SECURITY_COST", cost)
             \cup Stock("SECURITY_CONTROL", "SECURITY_SELLABLE", quantity),
          {Effect(t[1], S, -t[2], -t[2], -t[3], None, trade) : t \in takes}, {trade}, None)

FirstBooks ==
    Event(1, "OPENING_BALANCE", 0,
          {Posting("CASH_AVAILABLE", Cny, 20), Posting("SECURITY_COST", Cny, 4), Posting("OPENING_CONTROL", Cny, -24)}
            \cup Stock("SECURITY_SELLABLE", "SECURITY_CONTROL", 2),
          {Effect(L0, S, 2, 2, 4, 0, None)}, {aRule}, None)
Reserve == Event(2, "CASH_RESERVATION", 1, Money("CASH_RESERVED", "CASH_AVAILABLE", 12), {}, {aRule}, None)
Buy == Buying(3, 2, 6, f1, 1)
Fee == Charged(4, "FEE", "FEE_EXPENSE", 1, f1, 1)
UndoFee == Undo(5, Fee, 2)
UndoBuy == Undo(6, Buy, 2)
BuyAgain == Instead(7, Buying(7, 3, 7, f1, 2), 2, 6)
BuyTwice == BuyingAs(L2, 30, 1, 3, f1, 1)
UndoFeeOnly == [UndoFee EXCEPT !.id = 31, !.key = 31, !.effects = {}]
OtherBuy == Instead(8, Buying(8, 1, 6, f2, 2), 2, 6)
FeeAgain == Instead(9, Fee, 2, 5)
FeeOfOther == Instead(10, Charged(10, "FEE", "FEE_EXPENSE", 2, f2, 2), 2, 5)
Pay(id, amount) == Event(id, "TRADE_SETTLEMENT", 3, Money("CASH_PAYABLE", "CASH_RESERVED", amount), {}, {aRule}, None)
Settle(id, n) == Event(id, "TRADE_SETTLEMENT", 3, Stock("SECURITY_UNSELLABLE", "SECURITY_UNSETTLED", n), {}, {aRule}, None)
Unblock(id, n) ==
    Event(id, "SECURITY_AVAILABILITY", 3, Stock("SECURITY_SELLABLE", "SECURITY_UNSELLABLE", n),
          {Effect(L1, S, 0, n, 0, None, None)}, {aRule}, None)
SellOld == Selling(20, {<<L0, 1, 2>>}, 2, f3, 4)
SellNew == Selling(21, {<<L1, 1, 2>>}, 2, f3, 4)
SellBoth == Selling(22, {<<L0, 1, 2>>, <<L1, 1, 2>>}, 4, f2, 5)
UndoSale == Undo(23, SellOld, 6)
SellAgain == Instead(24, Selling(24, {<<L0, 2, 4>>}, 4, f3, 6), 6, 23)
Duty == Event(25, "TAX", 4, Money("TAX_EXPENSE", "CASH_RECEIVABLE", 1), {}, {f3}, None)
Receive == Event(26, "TRADE_SETTLEMENT", 5, Money("CASH_SETTLED_UNAVAILABLE", "CASH_RECEIVABLE", 4), {}, {aRule}, None)
Release == Event(27, "CASH_RELEASE", 6, Money("CASH_AVAILABLE", "CASH_SETTLED_UNAVAILABLE", 4), {}, {aRule}, None)
Dividend == Event(28, "CASH_DIVIDEND", 6, Money("CASH_RECEIVABLE", "TRADE_CLEARING", 1), {}, {aRule}, None)
Accepted == Event(29, "SYNTHETIC_ORDER_ACCEPTED", 1, {}, {}, {aRule}, None)

Journals ==
    {FirstBooks, Reserve, Accepted, Buy, BuyTwice, Fee, UndoFee, UndoFeeOnly, UndoBuy, BuyAgain, OtherBuy, FeeAgain, FeeOfOther,
     Pay(11, 6), Pay(12, 7), Settle(13, 2), Settle(14, 3), Unblock(15, 2), Unblock(16, 1),
     SellOld, SellNew, SellBoth, UndoSale, SellAgain, Duty, Receive, Release, Dividend}

-----------------------------------------------------------------------------

NoTrade == /\ case = Case("ENTER") /\ desk = None /\ TradeInit

BooksInit ==
    \/ MCInit /\ ledger = EmptyBooks /\ verdict = "CLOSED"
    \/ NoTrade /\ LedgerInit

BooksNext ==
    \/ verdict = "CLOSED" /\ TradeNext /\ UNCHANGED ledgerVars
    \/ LedgerNext /\ UNCHANGED vars

BooksSpec == BooksInit /\ [][BooksNext]_<<vars, ledgerVars>>
=============================================================================
