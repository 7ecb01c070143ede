------------------------------- MODULE LedgerV2 -------------------------------
(***************************************************************************)
(* The Stage 5D ledger: replay_stage5d_v2_slice orders a journal, checks   *)
(* that every event names its whole past and has the postings of its type, *)
(* and replays what is effective at a clock.                               *)
(*                                                                         *)
(* An event is named by its id where the code has its hash; sealed says    *)
(* that its content is what was hashed.  An amount is debit less credit,   *)
(* in a unit in which every terminating share of a cost is whole.          *)
(***************************************************************************)
EXTENDS Absent, Integers, Sequences, FiniteSetsExt, Functions

Cny == "CNY"

Priority ==
    [OPENING_BALANCE |-> 10, OPENING_POSITION |-> 11, BUY_TRADE |-> 40, SELL_TRADE |-> 40,
     BUY_CASH_SETTLEMENT |-> 80, SELL_CASH_SETTLEMENT |-> 80, SECURITY_SETTLEMENT |-> 81,
     SECURITY_SELLABLE |-> 82, SELL_CASH_AVAILABLE |-> 83]

Components == {"principal", "fee", "tax", "slippage", "basis"}
CostAccount ==
    [principal |-> "SECURITY_COST_PRINCIPAL", fee |-> "SECURITY_COST_FEE", tax |-> "SECURITY_COST_TAX",
     slippage |-> "SECURITY_COST_SLIPPAGE", basis |-> "SECURITY_COST_BASIS_ADJUSTMENT"]
Free == [c \in Components |-> 0]
Total(cost) == MapThenSumSet(LAMBDA c : cost[c], Components)

(* The sources an event of each type must cite, all and only. *)
TradeSources == {"STAGE5C_CASE", "STAGE5C_RESULT", "ORDER_INTENT", "FILL", "MARKET_OBSERVATION",
                 "MARKET_RULE", "COST_SCHEDULE", "IMPACT_CURVE"}
SettlementSources == {"FILL", "SETTLEMENT_TERMS", "MARKET_RULE"}
OpeningSources == {"STAGE5C_CASE", "ACCOUNT_SNAPSHOT", "INITIAL_LEDGER"}
SourcesOf(type) ==
    CASE type = "OPENING_BALANCE" -> OpeningSources
      [] type = "OPENING_POSITION" -> OpeningSources \cup {"OPENING_ATTRIBUTION"}
      [] type \in {"BUY_TRADE", "SELL_TRADE"} -> TradeSources
      [] OTHER -> SettlementSources

Posting(account, unit, security, amount) ==
    [account |-> account, unit |-> unit, security |-> security, amount |-> amount]
CashPosting(account, amount) == Posting(account, Cny, None, amount)
CostPosting(account, security, amount) == Posting(account, Cny, security, amount)
SharePosting(account, security, amount) == Posting(account, security, security, amount)

Effect(lot, security, acquired, fill, quantity, unsettled, unsellable, sellable, cost) ==
    [lot |-> lot, security |-> security, acquired |-> acquired, fill |-> fill, quantity |-> quantity,
     unsettled |-> unsettled, unsellable |-> unsellable, sellable |-> sellable, cost |-> cost]

(* A posting has a side and an effect an effect; only those can be built. *)
IsEvent(e) ==
    /\ \A p \in e.postings : p.amount # 0
    /\ \A i \in DOMAIN e.effects :
         LET x == e.effects[i]
         IN  ~(x.quantity = 0 /\ x.unsettled = 0 /\ x.unsellable = 0 /\ x.sellable = 0 /\ Total(x.cost) = 0)

Before(e, f) ==
    \/ e.at < f.at
    \/ e.at = f.at /\ Priority[e.type] < Priority[f.type]
    \/ e.at = f.at /\ Priority[e.type] = Priority[f.type] /\ e.id < f.id

Ordered(journal) ==
    [i \in 1..Cardinality(journal) |->
        CHOOSE e \in journal : Cardinality({f \in journal : Before(f, e)}) = i - 1]

-----------------------------------------------------------------------------
(* _validate_event: the form of each type of event, by itself. *)

KeyOf(p) == <<p.account, p.unit, p.security>>
KeysOf(e) == {KeyOf(p) : p \in e.postings}
Delta(e, key) == MapThenSumSet(LAMBDA p : p.amount, {p \in e.postings : KeyOf(p) = key})

CashKey(account) == <<account, Cny, None>>
CostKey(c, security) == <<CostAccount[c], Cny, security>>
ShareKey(account, security) == <<account, security, security>>

Balanced(e) ==
    /\ e.postings # {}
    /\ \A u \in {p.unit : p \in e.postings} :
         MapThenSumSet(LAMBDA p : p.amount, {p \in e.postings : p.unit = u}) = 0

(* The event moves a positive amount from one account to another, and no more. *)
Moves(e, from, to) ==
    /\ KeysOf(e) = {from, to}
    /\ Delta(e, to) > 0 /\ Delta(e, from) = -Delta(e, to)

(* The costs posted are those the lots gain. *)
CostsPosted(e, cost) == \A c \in Components : Delta(e, CostKey(c, e.security)) = cost[c]

OnlyEffect(e) == e.effects[1]

OpeningValid(e) ==
    /\ e.security = None /\ e.effects = <<>>
    /\ Moves(e, CashKey("OPENING_CONTROL"), CashKey("CASH_AVAILABLE"))

OpeningPositionValid(e) ==
    /\ e.security # None /\ Len(e.effects) = 1
    /\ LET x == OnlyEffect(e)
           some(n, key) == IF n # 0 THEN {key} ELSE {}
       IN  /\ x.security = e.security /\ x.quantity > 0
           /\ x.unsettled = 0 /\ x.unsellable >= 0 /\ x.sellable >= 0
           /\ x.unsellable + x.sellable = x.quantity
           /\ \A c \in Components : x.cost[c] >= 0
           /\ CostsPosted(e, x.cost)
           /\ KeysOf(e) = {CostKey(c, e.security) : c \in {d \in Components : x.cost[d] # 0}}
                \cup {CashKey("OPENING_CONTROL"), ShareKey("SECURITY_CONTROL", e.security)}
                \cup some(x.unsellable, ShareKey("SECURITY_UNSELLABLE", e.security))
                \cup some(x.sellable, ShareKey("SECURITY_SELLABLE", e.security))
           /\ Delta(e, CashKey("OPENING_CONTROL")) = -Total(x.cost)
           /\ Delta(e, ShareKey("SECURITY_UNSELLABLE", e.security)) = x.unsellable
           /\ Delta(e, ShareKey("SECURITY_SELLABLE", e.security)) = x.sellable
           /\ Delta(e, ShareKey("SECURITY_CONTROL", e.security)) = -x.quantity

BuyValid(e) ==
    /\ Len(e.effects) = 1
    /\ LET x == OnlyEffect(e)
       IN  /\ x.security = e.security /\ x.quantity > 0
           /\ x.unsettled = x.quantity /\ x.unsellable = 0 /\ x.sellable = 0
           /\ CostsPosted(e, x.cost)
           /\ Delta(e, CashKey("CASH_PAYABLE")) = -Total(x.cost)
           /\ Delta(e, ShareKey("SECURITY_UNSETTLED", e.security)) = x.quantity
           /\ Delta(e, ShareKey("SECURITY_CONTROL", e.security)) = -x.quantity

SumOver(amount(_), effects) == FoldFunction(LAMBDA x, total : amount(x) + total, 0, effects)
Removed(e) == [c \in Components |-> -SumOver(LAMBDA x : x.cost[c], e.effects)]

RealizedCosts == {"REALIZED_FEE", "REALIZED_TAX", "REALIZED_SLIPPAGE"}

SellValid(e) ==
    /\ e.effects # <<>>
    /\ \A i \in DOMAIN e.effects :
         LET x == e.effects[i]
         IN  /\ x.security = e.security /\ x.quantity < 0
             /\ x.unsettled = 0 /\ x.unsellable = 0 /\ x.sellable = x.quantity
             /\ \A c \in Components : x.cost[c] <= 0
    /\ LET removed == Removed(e)
           quantity == -SumOver(LAMBDA x : x.quantity, e.effects)
           realized == {a \in RealizedCosts : Delta(e, CashKey(a)) # 0}
           charges == MapThenSumSet(LAMBDA a : Delta(e, CashKey(a)), RealizedCosts)
       IN  /\ \A c \in Components : Delta(e, CostKey(c, e.security)) = -removed[c]
           /\ KeysOf(e) = {CashKey(a) : a \in realized \cup
                               {"CASH_RECEIVABLE", "SELL_PROCEEDS_CONTROL", "REALIZED_COST_BASIS_CONTROL"}}
                \cup {ShareKey(a, e.security) : a \in {"SECURITY_CONTROL", "SECURITY_SELLABLE"}}
                \cup {CostKey(c, e.security) : c \in {d \in Components : removed[d] # 0}}
           /\ Delta(e, CashKey("CASH_RECEIVABLE")) > 0
           /\ \A a \in RealizedCosts : Delta(e, CashKey(a)) >= 0
           /\ Delta(e, CashKey("SELL_PROCEEDS_CONTROL")) < 0
           /\ Delta(e, CashKey("REALIZED_COST_BASIS_CONTROL")) = Total(removed)
           /\ Delta(e, CashKey("CASH_RECEIVABLE")) + charges = -Delta(e, CashKey("SELL_PROCEEDS_CONTROL"))
           /\ Delta(e, ShareKey("SECURITY_CONTROL", e.security)) = quantity
           /\ Delta(e, ShareKey("SECURITY_SELLABLE", e.security)) = -quantity

CashMoveValid(e, from, to) == e.effects = <<>> /\ Moves(e, CashKey(from), CashKey(to))

(* Shares of one lot change their state, by the quantity that is posted. *)
StateMoveValid(e, from, to, leaving, entering, staying) ==
    /\ Len(e.effects) = 1
    /\ OnlyEffect(e).security = e.security
    /\ Total(OnlyEffect(e).cost) = 0 /\ OnlyEffect(e).quantity = 0
    /\ entering > 0 /\ leaving = -entering /\ staying = 0
    /\ Moves(e, ShareKey(from, e.security), ShareKey(to, e.security))
    /\ Delta(e, ShareKey(to, e.security)) = entering

SettlementValid(e) ==
    LET x == OnlyEffect(e) IN
    /\ e.effects # <<>>
    /\ StateMoveValid(e, "SECURITY_UNSETTLED", "SECURITY_UNSELLABLE", x.unsettled, x.unsellable, x.sellable)

SellableValid(e) ==
    LET x == OnlyEffect(e) IN
    /\ e.effects # <<>>
    /\ StateMoveValid(e, "SECURITY_UNSELLABLE", "SECURITY_SELLABLE", x.unsellable, x.sellable, x.unsettled)

Valid(e) ==
    /\ Balanced(e)
    /\ e.sources = SourcesOf(e.type)
    /\ e.type # "OPENING_BALANCE" => e.security # None
    /\ CASE e.type = "OPENING_BALANCE" -> OpeningValid(e)
         [] e.type = "OPENING_POSITION" -> OpeningPositionValid(e)
         [] e.type = "BUY_TRADE" -> BuyValid(e)
         [] e.type = "SELL_TRADE" -> SellValid(e)
         [] e.type = "BUY_CASH_SETTLEMENT" -> CashMoveValid(e, "CASH_AVAILABLE", "CASH_PAYABLE")
         [] e.type = "SELL_CASH_SETTLEMENT" -> CashMoveValid(e, "CASH_RECEIVABLE", "CASH_SETTLED_UNAVAILABLE")
         [] e.type = "SELL_CASH_AVAILABLE" -> CashMoveValid(e, "CASH_SETTLED_UNAVAILABLE", "CASH_AVAILABLE")
         [] e.type = "SECURITY_SETTLEMENT" -> SettlementValid(e)
         [] e.type = "SECURITY_SELLABLE" -> SellableValid(e)

-----------------------------------------------------------------------------
(* The books that events leave: sums over them, lot by lot and account by   *)
(* account.                                                                 *)

EffectsOn(events, lot) ==
    UNION {{[event |-> i, effect |-> events[i].effects[j]] :
              j \in {k \in DOMAIN events[i].effects : events[i].effects[k].lot = lot}} : i \in DOMAIN events}
LotsOf(events) == UNION {{events[i].effects[j].lot : j \in DOMAIN events[i].effects} : i \in DOMAIN events}

FirstOf(effects) == (CHOOSE x \in effects : \A y \in effects : x.event <= y.event).effect

(* The first effect on a lot gives it its identity, all of them its content. *)
LotWith(lot, effects) ==
    LET sum(amount(_)) == MapThenSumSet(LAMBDA x : amount(x.effect), effects)
        made(first) ==
            [lot |-> lot, security |-> first.security, acquired |-> first.acquired, fill |-> first.fill,
             quantity |-> sum(LAMBDA x : x.quantity), unsettled |-> sum(LAMBDA x : x.unsettled),
             unsellable |-> sum(LAMBDA x : x.unsellable), sellable |-> sum(LAMBDA x : x.sellable),
             cost |-> [c \in Components |-> sum(LAMBDA x : x.cost[c])]]
    IN  made(FirstOf(effects))
LotAfter(events, lot) == LotWith(lot, EffectsOn(events, lot))

Balance(events, key) == MapThenSumSet(LAMBDA i : Delta(events[i], key), DOMAIN events)
CashAfter(events, account) == Balance(events, CashKey(account))

HeldLots(events) == {x \in {LotAfter(events, l) : l \in LotsOf(events)} : x.quantity > 0}
LotsIn(events, security) == {x \in HeldLots(events) : x.security = security}
QuantityAfter(events, security) == MapThenSumSet(LAMBDA x : x.quantity, LotsIn(events, security))
SellableAfter(events, security) == MapThenSumSet(LAMBDA x : x.sellable, LotsIn(events, security))

(* _exact_pro_rata: a share that no decimal writes exactly is refused.  The *)
(* rests of the long division that writes it come to nothing or never do.   *)
Shared(amount, take, quantity) ==
    LET rest[n \in 0..quantity] ==
            IF n = 0 THEN (amount * take) % quantity ELSE (10 * rest[n - 1]) % quantity
    IN  IF take = quantity THEN amount
        ELSE IF rest[quantity] = 0 THEN (amount * take) \div quantity ELSE None
SharedCost(lot, take) == [c \in Components |-> Shared(lot.cost[c], take, lot.quantity)]

(* What a sale takes of which lots, oldest first. *)
Takes(lots, quantity) ==
    LET older(x) == {k \in lots : k.acquired < x.acquired \/ (k.acquired = x.acquired /\ k.lot < x.lot)}
        before(x) == MapThenSumSet(LAMBDA k : k.sellable, older(x))
        take(x) == [from |-> x, take |-> IF x.sellable < quantity - before(x) THEN x.sellable ELSE quantity - before(x)]
        nth(i, some) == CHOOSE x \in some : Cardinality(older(x)) = i - 1
        taken(some) == [i \in 1..Cardinality(some) |-> take(nth(i, some))]
    IN  taken({x \in lots : before(x) < quantity})

TakesAfter(events, security, quantity) ==
    Takes({x \in LotsIn(events, security) : x.sellable > 0}, quantity)

(* Enough is taken, and every component of every lot's cost divides. *)
Divides(takes, quantity) ==
    /\ SumOver(LAMBDA t : t.take, takes) = quantity
    /\ \A i \in DOMAIN takes : \A c \in Components : SharedCost(takes[i].from, takes[i].take)[c] # None

Disposal(t) ==
    LET x == t.from
        share == SharedCost(x, t.take)
    IN  Effect(x.lot, x.security, x.acquired, x.fill, -t.take, 0, 0, -t.take, [c \in Components |-> -share[c]])

(* _validate_fifo_sell *)
FifoFollowed(before, e) ==
    LET quantity == -SumOver(LAMBDA x : x.quantity, e.effects)
        follows(takes) == Divides(takes, quantity) /\ e.effects = [i \in DOMAIN takes |-> Disposal(takes[i])]
    IN  follows(TakesAfter(before, e.security, quantity))

(* A lot is created by shares, keeps its lineage and is in one state each. *)
LotSound(lot, effects) ==
    LET sound(x) ==
            /\ \A y \in effects : y.effect.security = x.security /\ y.effect.fill = x.fill
            /\ x.quantity >= 0 /\ x.unsettled >= 0 /\ x.unsellable >= 0 /\ x.sellable >= 0
            /\ x.quantity = x.unsettled + x.unsellable + x.sellable
            /\ \A c \in Components : x.cost[c] >= 0
    IN  FirstOf(effects).quantity > 0 /\ sound(LotWith(lot, effects))

Sound(events, touched) ==
    /\ \A l \in touched : LotSound(l, EffectsOn(events, l))
    /\ \A a \in {"CASH_AVAILABLE", "CASH_RECEIVABLE", "CASH_SETTLED_UNAVAILABLE"} : CashAfter(events, a) >= 0

Postable(before, e) ==
    /\ e.type = "SELL_TRADE" => FifoFollowed(before, e)
    /\ Sound(Append(before, e), {e.effects[i].lot : i \in DOMAIN e.effects})

(* Accounts and lots agree, of the securities of which something is held. *)
LotsMatchAccounts(events) ==
    LET match(s, lots) ==
            /\ \A c \in Components : Balance(events, CostKey(c, s)) = MapThenSumSet(LAMBDA x : x.cost[c], lots)
            /\ Balance(events, ShareKey("SECURITY_UNSETTLED", s)) = MapThenSumSet(LAMBDA x : x.unsettled, lots)
            /\ Balance(events, ShareKey("SECURITY_UNSELLABLE", s)) = MapThenSumSet(LAMBDA x : x.unsellable, lots)
            /\ Balance(events, ShareKey("SECURITY_SELLABLE", s)) = MapThenSumSet(LAMBDA x : x.sellable, lots)
    IN  \A s \in {x.security : x \in HeldLots(events)} : match(s, LotsIn(events, s))

-----------------------------------------------------------------------------
(* The replay of a journal, whose events are Ordered already, up to a clock. *)

Prechecked(events) ==
    /\ events # <<>>
    /\ \A i, j \in DOMAIN events : events[i].id = events[j].id => i = j
    /\ \A i, j \in DOMAIN events : events[i].scope = events[j].scope
    /\ \A i \in DOMAIN events : events[i].type = "OPENING_BALANCE" <=> i = 1

(* An event names all that came before it. *)
NamesItsPast(events, i) == events[i].prior = [j \in 1..(i - 1) |-> events[j].id]

Linked(events, i) == events[i].sealed /\ NamesItsPast(events, i)

Refused(status) == [status |-> status, events |-> <<>>]

(* The first event at fault decides the status. *)
FaultStatus(events, i) == IF Linked(events, i) THEN "RECONCILIATION_BLOCKED" ELSE "PRECHECK_BLOCKED"

Posted(accepted) ==
    IF accepted = <<>> THEN Refused("PRECHECK_BLOCKED")
    ELSE IF /\ \A i \in DOMAIN accepted : Postable(SubSeq(accepted, 1, i - 1), accepted[i])
            /\ LotsMatchAccounts(accepted)
    THEN [status |-> "RECONCILED", events |-> accepted]
    ELSE Refused("RECONCILIATION_BLOCKED")

Replayed(events, clock) ==
    LET atFault == {i \in DOMAIN events : ~Linked(events, i) \/ ~Valid(events[i])} IN
    IF ~Prechecked(events) THEN Refused("PRECHECK_BLOCKED")
    ELSE IF atFault # {} THEN Refused(FaultStatus(events, Min(atFault)))
    ELSE Posted(SelectSeq(events, LAMBDA e : e.at <= clock))

Replay(journal, clock) == Replayed(Ordered(journal), clock)
=============================================================================
