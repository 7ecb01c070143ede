---------------------------- MODULE FillProjection ----------------------------
(***************************************************************************)
(* Stage 5C projection: the journal that a fill of Stage 5B becomes.       *)
(* project_stage5_fill_to_ledger books the opening account, the order, the *)
(* fill, its costs and the four moments at which cash and shares settle    *)
(* and become available; _validate_terms decides which moments are legal.  *)
(*                                                                         *)
(* A fill is the record of MarketExecution.  A lot's cost in whole units:  *)
(* the code's share of a lot's cost is rounded to fifty digits, here to a  *)
(* whole unit.                                                             *)
(***************************************************************************)
EXTENDS PortfolioLedger

(* Ids in the place of the hashes that name events, lots and fills. *)
OpeningId == 1
OrderName == "order"
NewLotId == 50
FillName == "fill"
RuleName == "rules"

Moments == {"SECURITY_SETTLEMENT", "SECURITY_SELLABLE", "BUY_CASH_PAYABLE",
            "SELL_PROCEEDS_RECEIVABLE", "SELL_CASH_SETTLEMENT", "SELL_CASH_AVAILABLE"}

IsTerms(t) == DOMAIN t.moments = Moments

-----------------------------------------------------------------------------
(* _validate_terms *)

DatesOf(sessions) == {sessions[i].date : i \in DOMAIN sessions}
RankOf(date, dates) == Cardinality({d \in dates : d <= date})

(* The date that many trading dates after another; None beyond the calendar. *)
CycleDate(sessions, date, days) ==
    LET later == {d \in DatesOf(sessions) :
                    RankOf(d, DatesOf(sessions)) = RankOf(date, DatesOf(sessions)) + days}
    IN  IF date \in DatesOf(sessions) /\ later # {} THEN CHOOSE d \in later : TRUE ELSE None

InSession(m, sessions) ==
    \E i \in DOMAIN sessions :
        sessions[i].date = m.date /\ sessions[i].opens <= m.at /\ m.at <= sessions[i].closes

(* Mutant: shares may become sellable before they are settled. *)
UnorderedMoments(moments, fill) ==
    /\ moments["SELL_PROCEEDS_RECEIVABLE"].at = fill.at
    /\ moments["SELL_CASH_SETTLEMENT"].at >= fill.at
    /\ moments["SELL_CASH_AVAILABLE"].at >= moments["SELL_CASH_SETTLEMENT"].at

MomentsInOrder(moments, fill) ==
    /\ \A k \in {"SECURITY_SETTLEMENT", "SECURITY_SELLABLE", "BUY_CASH_PAYABLE"} : moments[k].at >= fill.at
    /\ moments["SECURITY_SELLABLE"].at >= moments["SECURITY_SETTLEMENT"].at
    /\ moments["SELL_PROCEEDS_RECEIVABLE"].at = fill.at
    /\ moments["SELL_CASH_SETTLEMENT"].at >= fill.at
    /\ moments["SELL_CASH_AVAILABLE"].at >= moments["SELL_CASH_SETTLEMENT"].at

DatesFollowCycle(t, cycle) ==
    LET date(k) == t.moments[k].date IN
    /\ (date("SECURITY_SELLABLE") = t.date) = t.sameDay
    /\ date("SECURITY_SETTLEMENT") = cycle /\ date("SELL_CASH_SETTLEMENT") = cycle
    /\ date("BUY_CASH_PAYABLE") = t.date /\ date("SELL_PROCEEDS_RECEIVABLE") = t.date
    /\ ~t.sameDay => date("SECURITY_SELLABLE") >= cycle
    /\ date("SELL_CASH_AVAILABLE") >= cycle

ValidTerms(t, fill, sessions, clock) ==
    LET cycle == CycleDate(sessions, fill.date, fill.rule.cycle) IN
    /\ t.sealed /\ ~t.exception
    /\ t.known <= fill.at /\ t.known <= clock
    /\ t.scoped /\ t.date = fill.date /\ t.rule = fill.rule
    /\ t.sameDay = fill.rule.sameDay
    /\ cycle # None
    /\ \A k \in Moments : InSession(t.moments[k], sessions)
    /\ MomentsInOrder(t.moments, fill)
    /\ DatesFollowCycle(t, cycle)

-----------------------------------------------------------------------------
(* Events *)

Entry(id, type, at, security, postings, effects, sources) ==
    [id |-> id, key |-> id, type |-> type, at |-> at, scope |-> "account", security |-> security,
     postings |-> postings, effects |-> effects, sources |-> sources, rule |-> RuleName,
     of |-> None, sealed |-> TRUE]

MoneyMoves(debit, credit, amount) == Transfer(debit, credit, Cny, amount)

LotsHeld(account) == UNION {p.lots : p \in account.positions}
QuantityHeld(p) == MapThenSumSet(LAMBDA l : l.quantity, p.lots)
SellableHeld(p) == MapThenSumSet(LAMBDA l : l.sellable, p.lots)
CostHeld(account) == MapThenSumSet(LAMBDA l : l.cost, LotsHeld(account))

OpeningEvent(account) ==
    LET cost == CostHeld(account)
        control == account.available + account.reserved + account.receivable - account.payable + cost
        rows == {Posting("CASH_AVAILABLE", Cny, account.available),
                 Posting("CASH_RESERVED", Cny, account.reserved),
                 Posting("CASH_RECEIVABLE", Cny, account.receivable),
                 Posting("CASH_PAYABLE", Cny, -account.payable),
                 Posting("SECURITY_COST", Cny, cost),
                 Posting("OPENING_CONTROL", Cny, -control)}
                \cup UNION {{Posting("SECURITY_SELLABLE", p.security, SellableHeld(p)),
                             Posting("SECURITY_UNSELLABLE", p.security, QuantityHeld(p) - SellableHeld(p)),
                             Posting("SECURITY_CONTROL", p.security, -QuantityHeld(p))} : p \in account.positions}
    IN  Entry(OpeningId, "OPENING_BALANCE", account.at, None,
              {r \in rows : r.amount # 0},
              UNION {{Effect(l.id, p.security, l.quantity, l.sellable, l.cost, l.acquired, None) : l \in p.lots}
                        : p \in account.positions},
              {"account"})

FillEntry(id, type, at, security, postings, effects) ==
    Entry(id, type, at, security, postings, effects, {OrderName, FillName})

Cost(fill) == fill.fee + fill.tax

(* Fee and tax, where there is one: payable by a buyer, whose lot they make  *)
(* dearer, and taken from a seller's proceeds.                               *)
Charges(fill, security) ==
    {FillEntry(x[1], x[2], fill.at, security,
               MoneyMoves(x[3], IF fill.side = "BUY" THEN "CASH_PAYABLE" ELSE "CASH_RECEIVABLE", x[4]),
               IF fill.side = "BUY"
               THEN {Effect(NewLotId, security, 0, 0, x[4], None, FillName)} ELSE {})
        : x \in {y \in {<<6, "FEE", "FEE_EXPENSE", fill.fee>>, <<7, "TAX", "TAX_EXPENSE", fill.tax>>} :
                    y[4] # 0}}

UnusedReserve(fill, security, reserve, moments) ==
    IF reserve > Cost(fill)
    THEN {FillEntry(8, "CASH_RELEASE", moments["BUY_CASH_PAYABLE"].at, security,
                    MoneyMoves("CASH_AVAILABLE", "CASH_RESERVED", reserve - Cost(fill)), {})}
    ELSE {}

BuyJournal(fill, security, reserve, moments) ==
    {FillEntry(4, "CASH_RESERVATION", fill.at, security,
               MoneyMoves("CASH_RESERVED", "CASH_AVAILABLE", fill.gross + reserve), {}),
     FillEntry(5, "TRADE_FILL", fill.at, security,
               MoneyMoves("SECURITY_COST", "CASH_PAYABLE", fill.gross)
                 \cup Transfer("SECURITY_UNSETTLED", "SECURITY_CONTROL", security, fill.quantity),
               {Effect(NewLotId, security, fill.quantity, 0, fill.gross, fill.at, FillName)}),
     FillEntry(9, "TRADE_SETTLEMENT", moments["BUY_CASH_PAYABLE"].at, security,
               MoneyMoves("CASH_PAYABLE", "CASH_RESERVED", fill.gross + Cost(fill)), {}),
     FillEntry(10, "TRADE_SETTLEMENT", moments["SECURITY_SETTLEMENT"].at, security,
               Transfer("SECURITY_UNSELLABLE", "SECURITY_UNSETTLED", security, fill.quantity), {}),
     FillEntry(11, "SECURITY_AVAILABILITY", moments["SECURITY_SELLABLE"].at, security,
               Transfer("SECURITY_SELLABLE", "SECURITY_UNSELLABLE", security, fill.quantity),
               {Effect(NewLotId, security, 0, fill.quantity, 0, None, FillName)})}
    \cup Charges(fill, security) \cup UnusedReserve(fill, security, reserve, moments)

(* The oldest sellable shares go first, each lot with its share of its cost, *)
(* rounded half to even.                                                     *)
EarlierLot(l, k) == l.acquired < k.acquired \/ (l.acquired = k.acquired /\ l.id < k.id)
TakenFrom(lots, l, quantity) ==
    LET before == MapThenSumSet(LAMBDA k : k.sellable, {k \in lots : EarlierLot(k, l)})
    IN  LeastOf(l.sellable, MostOf(0, quantity - before))

HalfEven(num, den) ==
    LET whole == num \div den
        twice == 2 * (num % den)
    IN  IF twice > den \/ (twice = den /\ whole % 2 = 1) THEN whole + 1 ELSE whole

Disposals(account, security, fill) ==
    LET lots == UNION {p.lots : p \in {q \in account.positions : q.security = security}}
        taken(l) == TakenFrom(lots, l, fill.quantity)
    IN  {Effect(l.id, security, -taken(l), -taken(l), -HalfEven(l.cost * taken(l), l.quantity), None, FillName)
            : l \in {k \in lots : taken(k) > 0}}

SellJournal(fill, account, security, moments) ==
    LET disposals == Disposals(account, security, fill)
        disposed == -MapThenSumSet(LAMBDA x : x.cost, disposals)
        net == fill.gross - Cost(fill)
    IN  {FillEntry(5, "TRADE_FILL", fill.at, security,
               MoneyMoves("CASH_RECEIVABLE", "TRADE_CLEARING", fill.gross)
                 \cup Transfer("SECURITY_CONTROL", "SECURITY_SELLABLE", security, fill.quantity)
                 \cup (IF disposed > 0 THEN MoneyMoves("TRADE_CLEARING", "SECURITY_COST", disposed) ELSE {}),
               disposals),
         FillEntry(9, "TRADE_SETTLEMENT", moments["SELL_CASH_SETTLEMENT"].at, security,
               MoneyMoves("CASH_SETTLED_UNAVAILABLE", "CASH_RECEIVABLE", net), {}),
         FillEntry(8, "CASH_RELEASE", moments["SELL_CASH_AVAILABLE"].at, security,
               MoneyMoves("CASH_AVAILABLE", "CASH_SETTLED_UNAVAILABLE", net), {})}
        \cup Charges(fill, security)

(* What the projection refuses before it books anything. *)
Projectable(fill, account, security, reserve, terms, sessions, clock) ==
    /\ ValidTerms(terms, fill, sessions, clock)
    /\ IF fill.side = "BUY"
       THEN Cost(fill) <= reserve /\ fill.gross + reserve <= account.available
       ELSE /\ \E p \in account.positions : p.security = security /\ fill.quantity <= SellableHeld(p)
            /\ fill.gross >= Cost(fill)

ProjectedJournal(fill, account, security, reserve, terms) ==
    {OpeningEvent(account),
     FillEntry(3, "SYNTHETIC_ORDER_ACCEPTED", fill.at, security, {}, {})}
    \cup (IF fill.side = "BUY" THEN BuyJournal(fill, security, reserve, terms.moments)
          ELSE SellJournal(fill, account, security, terms.moments))
=============================================================================
