--------------------------- MODULE PortfolioLedger ---------------------------
(***************************************************************************)
(* The Stage 5C portfolio ledger: replay_stage5c_ledger sorts a journal,   *)
(* posts it event by event into double-entry balances and lots, and        *)
(* refuses the whole journal at the first event that does not fit.         *)
(*                                                                         *)
(* A journal is a set of events: one delivered twice under its idempotency *)
(* key counts once.  An amount is debit less credit, so that a posting has *)
(* one side; amounts are whole numbers of a smallest unit.                 *)
(***************************************************************************)
EXTENDS Absent, Integers, Sequences, FiniteSetsExt, Functions

CONSTANT Securities

Cny == "CNY"

CashAccounts == {"CASH_AVAILABLE", "CASH_RESERVED", "CASH_RECEIVABLE",
                 "CASH_SETTLED_UNAVAILABLE", "CASH_PAYABLE"}
CnyAccounts == CashAccounts \cup {"SECURITY_COST", "FEE_EXPENSE", "TAX_EXPENSE",
                                  "TRADE_CLEARING", "OPENING_CONTROL"}
QuantityAccounts == {"SECURITY_UNSETTLED", "SECURITY_UNSELLABLE",
                     "SECURITY_SELLABLE", "SECURITY_CONTROL"}

Priority ==
    [REVERSAL |-> 5, OPENING_BALANCE |-> 10, CASH_RESERVATION |-> 20,
     SYNTHETIC_ORDER_ACCEPTED |-> 30, TRADE_FILL |-> 40, FEE |-> 50, TAX |-> 51,
     SYNTHETIC_ORDER_CANCELLED |-> 60, CASH_RELEASE |-> 70, TRADE_SETTLEMENT |-> 80,
     SECURITY_AVAILABILITY |-> 90, REPLACEMENT |-> 95]

(* CASH_DIVIDEND to EXTERNAL_CASH_FLOW are named but not implemented. *)
SupportedTypes == DOMAIN Priority
Later == 100

Posting(account, unit, amount) == [account |-> account, unit |-> unit, amount |-> amount]
Transfer(debit, credit, unit, amount) ==
    {Posting(debit, unit, amount), Posting(credit, unit, -amount)}

(* acquired and fill are the identity that creates a lot; None otherwise. *)
Effect(lot, security, quantity, sellable, cost, acquired, fill) ==
    [lot |-> lot, security |-> security, quantity |-> quantity, sellable |-> sellable,
     cost |-> cost, acquired |-> acquired, fill |-> fill]

(* A posting has a side, an effect has an effect, a new lot has its identity; *)
(* only those can be built.                                                   *)
IsEvent(e) ==
    /\ e.at \in Int /\ e.sealed \in BOOLEAN
    /\ \A p \in e.postings : p.amount # 0
    /\ \A x \in e.effects :
         /\ x.quantity # 0 \/ x.sellable # 0 \/ x.cost # 0
         /\ x.quantity > 0 => x.acquired # None

(* Rows are finitely many and of whole amounts. *)
HasRows(e) ==
    /\ IsFiniteSet(e.postings) /\ IsFiniteSet(e.effects)
    /\ \A p \in e.postings : p = Posting(p.account, p.unit, p.amount) /\ p.amount \in Int
    /\ \A x \in e.effects : {x.quantity, x.sellable, x.cost} \subseteq Int

PriorityOf(e) == IF e.type \in SupportedTypes THEN Priority[e.type] ELSE Later

(* effective_at, event_type_priority, ledger_event_id; ids are numbers here. *)
Before(e, f) ==
    \/ e.at < f.at
    \/ e.at = f.at /\ PriorityOf(e) < PriorityOf(f)
    \/ e.at = f.at /\ PriorityOf(e) = PriorityOf(f) /\ e.id < f.id

Ordered(journal) ==
    [i \in 1..Cardinality(journal) |->
        CHOOSE e \in journal : Cardinality({f \in journal : Before(f, e)}) = i - 1]

-----------------------------------------------------------------------------
(* What an event says. *)

Amounts(rows) == MapThenSumSet(LAMBDA p : p.amount, rows)
Signed(e, account, unit) == Amounts({p \in e.postings : p.account = account /\ p.unit = unit})
PostingAccounts(e) == {p.account : p \in e.postings}
Units(e) == {p.unit : p \in e.postings}

PostingsBalance(e) == \A u \in Units(e) : Amounts({p \in e.postings : p.unit = u}) = 0

(* Mutant: a reversal need not undo the lots. *)
InversePostings(e, f) == f.postings = {[p EXCEPT !.amount = -@] : p \in e.postings}

(* Row for row; of what an effect says, only its amounts and its lot count. *)
Undone(x) == <<x.lot, -x.quantity, -x.sellable, -x.cost>>

Inverts(e, f) ==
    /\ f.postings = {[p EXCEPT !.amount = -@] : p \in e.postings}
    /\ \E match \in Bijection(e.effects, f.effects) :
         \A x \in e.effects : Undone(x) = LET y == match[x] IN <<y.lot, y.quantity, y.sellable, y.cost>>

Provenance(e) == <<e.scope, e.security, e.sources, e.rule>>

IsPositiveTransfer(e, debit, credit, unit) ==
    /\ Cardinality(e.postings) = 2
    /\ PostingAccounts(e) = {debit, credit}
    /\ Signed(e, debit, unit) > 0
    /\ Signed(e, credit, unit) = -Signed(e, debit, unit)

HasProvenance(e) == e.sources # {} /\ e.rule # None

SecurityUnits(e) == {p.unit : p \in {q \in e.postings : q.account \in QuantityAccounts}}

(* _posting_unit_failure, for the type whose rules the event follows. *)
UnitsFit(e, type) ==
    /\ \A p \in e.postings : p.account \in CnyAccounts => p.unit = Cny
    /\ type # "OPENING_BALANCE" => e.security # None
    /\ e.security # None => SecurityUnits(e) \subseteq {e.security}
    /\ \A x \in e.effects :
         /\ type # "OPENING_BALANCE" => x.security = e.security
         /\ x.quantity # 0 \/ x.sellable # 0 => x.security \in SecurityUnits(e)

FillSources(e) == {x.fill : x \in e.effects} \ {None}
FillSource(e) == IF Cardinality(FillSources(e)) = 1 THEN CHOOSE f \in FillSources(e) : TRUE ELSE None

-----------------------------------------------------------------------------
(* The books: balances by account and unit, lots by id, and the history the *)
(* rules look back at.                                                      *)

Keys == (CnyAccounts \X {Cny}) \cup (QuantityAccounts \X Securities)

NoLots == [l \in {} |-> None]
EmptyBooks == [balance |-> [k \in Keys |-> 0], lots |-> NoLots, accepted |-> <<>>, fills |-> {}]

Cash(books, account) == books.balance[<<account, Cny>>]
Payable(books) == -Cash(books, "CASH_PAYABLE")
Held(books, account, security) == books.balance[<<account, security>>]
Quantity(books, security) ==
    Held(books, "SECURITY_UNSETTLED", security) + Held(books, "SECURITY_UNSELLABLE", security)
      + Held(books, "SECURITY_SELLABLE", security)

LotIds(books) == DOMAIN books.lots
LotsOf(books, security) == {l \in LotIds(books) : books.lots[l].security = security}
OpenLots(books) == {l \in LotIds(books) : books.lots[l].remaining > 0}
RemainingOf(books, security) ==
    MapThenSumSet(LAMBDA l : books.lots[l].remaining, LotsOf(books, security))
SellableOf(books, security) ==
    MapThenSumSet(LAMBDA l : books.lots[l].sellable, LotsOf(books, security))

AcceptedEvents(books) == Range(books.accepted)
EventNamed(books, id) == {e \in AcceptedEvents(books) : e.id = id}
ReversalsOf(books, e) == {r \in AcceptedEvents(books) : r.type = "REVERSAL" /\ r.of = e.id}
ReplacementsOf(books, r) == {e \in AcceptedEvents(books) : e.type = "REPLACEMENT" /\ e.of = r.id}

(* acquired_at, then lot id. *)
Older(books, l, k) ==
    \/ books.lots[l].acquired < books.lots[k].acquired
    \/ books.lots[l].acquired = books.lots[k].acquired /\ l < k

LeastOf(a, b) == IF a < b THEN a ELSE b
MostOf(a, b) == IF a < b THEN b ELSE a

(* What a sale of a quantity takes from each lot, oldest first. *)
FifoTake(books, security, quantity) ==
    LET sellable == {l \in LotsOf(books, security) : books.lots[l].sellable > 0}
        older(l) == MapThenSumSet(LAMBDA k : books.lots[k].sellable,
                                  {k \in sellable : Older(books, k, l)})
        taken == {l \in sellable : older(l) < quantity}
    IN  [l \in taken |-> LeastOf(books.lots[l].sellable, quantity - older(l))]

FifoEffectsMatch(books, security, quantity, effects) ==
    /\ SellableOf(books, security) >= quantity
    /\ \A x \in effects : x.quantity < 0 /\ x.sellable = x.quantity
    /\ \A x, y \in effects : x.lot = y.lot => x = y
    /\ {<<x.lot, -x.quantity>> : x \in effects}
         = {<<l, FifoTake(books, security, quantity)[l]>> : l \in DOMAIN FifoTake(books, security, quantity)}

-----------------------------------------------------------------------------
(* _ordinary_semantic_failure: the form of each type of event. *)

EffectCost(e) == MapThenSumSet(LAMBDA x : x.cost, e.effects)

OpeningFits(e) ==
    /\ e.postings # {}
    /\ PostingAccounts(e) \subseteq ({"CASH_AVAILABLE", "CASH_RESERVED", "CASH_RECEIVABLE",
            "CASH_PAYABLE", "SECURITY_COST", "OPENING_CONTROL"} \cup QuantityAccounts)
    /\ \A x, y \in e.effects : x.lot = y.lot => x = y
    /\ \A x \in e.effects :
         /\ x.quantity > 0 /\ x.sellable \in 0..x.quantity /\ x.cost >= 0 /\ x.fill = None
    /\ Signed(e, "SECURITY_COST", Cny) = EffectCost(e)

BuyFits(books, e, replaced) ==
    LET cost == Signed(e, "SECURITY_COST", Cny) IN
    /\ Cardinality(e.postings) = 4 /\ Cardinality(e.effects) = 1
    /\ PostingAccounts(e) = {"SECURITY_COST", "CASH_PAYABLE", "SECURITY_UNSETTLED", "SECURITY_CONTROL"}
    /\ cost > 0 /\ Signed(e, "CASH_PAYABLE", Cny) = -cost
    /\ \A x \in e.effects :
         /\ x.quantity = Signed(e, "SECURITY_UNSETTLED", e.security)
         /\ x.sellable = 0 /\ x.cost = cost /\ x.acquired # None
         /\ x.lot \in LotIds(books) => replaced # None

SellFits(books, e) ==
    LET quantity == -Signed(e, "SECURITY_SELLABLE", e.security)
        disposed == -Signed(e, "SECURITY_COST", Cny)
        receivable == Signed(e, "CASH_RECEIVABLE", Cny)
        required == {"CASH_RECEIVABLE", "TRADE_CLEARING", "SECURITY_SELLABLE", "SECURITY_CONTROL"}
    IN  /\ \/ Cardinality(e.postings) = 4 /\ PostingAccounts(e) = required
           \/ Cardinality(e.postings) = 6 /\ PostingAccounts(e) = required \cup {"SECURITY_COST"}
        /\ receivable > 0 /\ disposed >= 0
        /\ Signed(e, "TRADE_CLEARING", Cny) = disposed - receivable
        /\ EffectCost(e) = -disposed
        /\ FifoEffectsMatch(books, e.security, quantity, e.effects)

(* Mutant: a source fill may be booked again. *)
FillBookedAgain(books, e, replaced) == TRUE

(* A fill is booked once; its replacement may name it again. *)
FillIsNew(books, e, replaced) ==
    FillSource(e) \in books.fills => replaced # None /\ FillSource(e) = FillSource(replaced)

FillFits(books, e, replaced) ==
    LET unsettled == Signed(e, "SECURITY_UNSETTLED", e.security)
        sellable == Signed(e, "SECURITY_SELLABLE", e.security)
        control == Signed(e, "SECURITY_CONTROL", e.security)
    IN  /\ e.security # None /\ e.effects # {}
        /\ FillSource(e) # None /\ FillSource(e) \in e.sources
        /\ FillIsNew(books, e, replaced)
        /\ \/ unsettled > 0 /\ sellable = 0 /\ control = -unsettled /\ BuyFits(books, e, replaced)
           \/ sellable < 0 /\ unsettled = 0 /\ control = -sellable /\ SellFits(books, e)

(* A buyer's fee or tax is payable and raises the cost of the lot it bought; *)
(* a seller's is taken from the receivable.                                  *)
ChargeFits(books, e, expense) ==
    LET amount == Signed(e, expense, Cny) IN
    /\ amount > 0 /\ Cardinality(e.postings) = 2
    /\ \/ /\ PostingAccounts(e) = {expense, "CASH_PAYABLE"}
          /\ Signed(e, "CASH_PAYABLE", Cny) = -amount
          /\ Cardinality(e.effects) = 1
          /\ \A x \in e.effects :
               /\ x.lot \in LotIds(books)
               /\ x.quantity = 0 /\ x.sellable = 0 /\ x.cost = amount
               /\ x.fill # None /\ x.fill \in books.fills \cap e.sources
               /\ x.fill = books.lots[x.lot].fill
       \/ /\ PostingAccounts(e) = {expense, "CASH_RECEIVABLE"}
          /\ Signed(e, "CASH_RECEIVABLE", Cny) = -amount
          /\ e.effects = {} /\ books.fills \cap e.sources # {}

AvailabilityFits(books, e) ==
    /\ e.security # None
    /\ IsPositiveTransfer(e, "SECURITY_SELLABLE", "SECURITY_UNSELLABLE", e.security)
    /\ e.effects # {}
    /\ \A x \in e.effects : x.quantity = 0 /\ x.sellable > 0 /\ x.cost = 0 /\ x.lot \in LotIds(books)
    /\ MapThenSumSet(LAMBDA x : x.sellable, e.effects) = Signed(e, "SECURITY_SELLABLE", e.security)

Fits(books, e, type, replaced) ==
    \/ type = "OPENING_BALANCE" /\ OpeningFits(e)
    \/ type \in {"SYNTHETIC_ORDER_ACCEPTED", "SYNTHETIC_ORDER_CANCELLED"} /\ e.postings = {} /\ e.effects = {}
    \/ /\ type = "CASH_RESERVATION" /\ e.effects = {}
       /\ IsPositiveTransfer(e, "CASH_RESERVED", "CASH_AVAILABLE", Cny)
    \/ /\ type = "CASH_RELEASE" /\ e.effects = {}
       /\ \/ IsPositiveTransfer(e, "CASH_AVAILABLE", "CASH_RESERVED", Cny)
          \/ IsPositiveTransfer(e, "CASH_AVAILABLE", "CASH_SETTLED_UNAVAILABLE", Cny)
    \/ type = "TRADE_FILL" /\ FillFits(books, e, replaced)
    \/ type = "FEE" /\ ChargeFits(books, e, "FEE_EXPENSE")
    \/ type = "TAX" /\ ChargeFits(books, e, "TAX_EXPENSE")
    \/ /\ type = "TRADE_SETTLEMENT" /\ e.effects = {}
       /\ \/ IsPositiveTransfer(e, "CASH_PAYABLE", "CASH_RESERVED", Cny)
          \/ IsPositiveTransfer(e, "CASH_SETTLED_UNAVAILABLE", "CASH_RECEIVABLE", Cny)
          \/ e.security # None /\ IsPositiveTransfer(e, "SECURITY_UNSELLABLE", "SECURITY_UNSETTLED", e.security)
    \/ type = "SECURITY_AVAILABILITY" /\ AvailabilityFits(books, e)

-----------------------------------------------------------------------------
(* Corrections. *)

(* A REVERSAL undoes one event that is neither a correction nor undone. *)
Reversible(books, r) ==
    {e \in EventNamed(books, r.of) :
        /\ e.type \notin {"REVERSAL", "REPLACEMENT"}
        /\ ReversalsOf(books, e) = {}
        /\ Inverts(e, r) /\ Provenance(r) = Provenance(e)}

(* A REPLACEMENT follows a reversal and stands for the event that it undid. *)
Replaceable(books, n) ==
    {e \in AcceptedEvents(books) :
        \E r \in EventNamed(books, n.of) \cap ReversalsOf(books, e) :
            /\ ReplacementsOf(books, r) = {}
            /\ n.scope = e.scope /\ n.security = e.security}

(* The events whose rules e follows: its own, or those of what it corrects. *)
Meanings(books, e) ==
    CASE e.type = "REVERSAL" -> Reversible(books, e)
      [] e.type = "REPLACEMENT" -> Replaceable(books, e)
      [] OTHER -> IF e.of = None THEN {e} ELSE {}

-----------------------------------------------------------------------------
(* Posting. *)

NewLot(x) == [security |-> x.security, acquired |-> x.acquired, original |-> x.quantity,
              remaining |-> 0, sellable |-> 0, cost |-> 0, fill |-> x.fill]

LotsWith(books, e) ==
    [l \in LotIds(books) \cup {x.lot : x \in e.effects} |->
        IF l \in LotIds(books) THEN books.lots[l] ELSE NewLot(CHOOSE x \in e.effects : x.lot = l)]

(* An unknown lot can only be created; a known one grows only in corrections. *)
EffectsApply(books, e) ==
    \A x \in e.effects :
        IF x.lot \in LotIds(books)
        THEN /\ books.lots[x.lot].security = x.security
             /\ x.quantity > 0 => e.type \in {"REVERSAL", "REPLACEMENT"}
        ELSE x.quantity > 0

Posted(books, e) ==
    LET on(l) == {x \in e.effects : x.lot = l}
        lots == LotsWith(books, e)
    IN  [balance |-> [k \in Keys |-> books.balance[k] + Signed(e, k[1], k[2])],
         lots |-> [l \in DOMAIN lots |->
            [lots[l] EXCEPT !.remaining = @ + MapThenSumSet(LAMBDA x : x.quantity, on(l)),
                            !.sellable = @ + MapThenSumSet(LAMBDA x : x.sellable, on(l)),
                            !.cost = @ + MapThenSumSet(LAMBDA x : x.cost, on(l))]],
         accepted |-> Append(books.accepted, e),
         fills |-> books.fills]

LotSound(lot) ==
    /\ lot.remaining >= 0 /\ lot.sellable \in 0..lot.remaining /\ lot.cost >= 0
    /\ lot.remaining = 0 => lot.cost = 0

CashSound(books) ==
    /\ \A a \in CashAccounts \ {"CASH_PAYABLE"} : Cash(books, a) >= 0
    /\ Payable(books) >= 0 /\ Cash(books, "CASH_RESERVED") >= Payable(books)
    /\ Cash(books, "SECURITY_COST") >= 0

SecuritySound(books, s) ==
    /\ \A a \in QuantityAccounts \ {"SECURITY_CONTROL"} : Held(books, a, s) >= 0
    /\ Quantity(books, s) + Held(books, "SECURITY_CONTROL", s) = 0
    /\ RemainingOf(books, s) = Quantity(books, s)
    /\ SellableOf(books, s) = Held(books, "SECURITY_SELLABLE", s)

Sound(books) ==
    /\ \A l \in LotIds(books) : LotSound(books.lots[l])
    /\ CashSound(books)
    /\ \A s \in Securities : SecuritySound(books, s)

FillsAfter(books, e, type) ==
    IF type = "TRADE_FILL" /\ e.type # "REVERSAL" THEN books.fills \cup {FillSource(e)} ELSE books.fills

(* An event posts if it follows the rules of what it means, applies to the  *)
(* lots there are and leaves sound books.                                   *)
Postable(books, e) ==
    /\ e.type \in SupportedTypes /\ HasProvenance(e) /\ PostingsBalance(e)
    /\ \E meant \in Meanings(books, e) :
         /\ UnitsFit(e, meant.type)
         /\ e.type # "REVERSAL" =>
              Fits(books, e, meant.type, IF e.type = "REPLACEMENT" THEN meant ELSE None)
    /\ EffectsApply(books, e)
    /\ Sound(Posted(books, e))

(* The books after an event that posts. *)
BooksAfter(books, e) ==
    LET meant == CHOOSE x \in Meanings(books, e) : TRUE
    IN  [Posted(books, e) EXCEPT !.fills = FillsAfter(books, e, meant.type)]

(* Which refusals are the caller's fault: the event is not one of Stage 5C, *)
(* names history it must not, or is an opening of the wrong form.           *)
Premature(books, e) ==
    \/ e.type \notin SupportedTypes \/ ~HasProvenance(e)
    \/ e.type = "OPENING_BALANCE" /\ ~PostingsBalance(e)
    \/ /\ PostingsBalance(e)
       /\ \/ e.type \notin {"REVERSAL", "REPLACEMENT"} /\ e.of # None
          \/ \E meant \in Meanings(books, e) :
               /\ meant.type = "OPENING_BALANCE"
               /\ ~(UnitsFit(e, meant.type) /\ (e.type # "REVERSAL" => OpeningFits(e)))

-----------------------------------------------------------------------------
(* The whole journal is looked at before anything is posted. *)

Prechecked(journal) ==
    /\ \A e \in journal : e.sealed
    /\ \A e, f \in journal : (e.key = f.key \/ e.id = f.id) => e = f
    /\ journal # {}
    /\ \A e, f \in journal : e.scope = f.scope
    /\ \E e \in journal :
         /\ e.type = "OPENING_BALANCE"
         /\ \A f \in journal \ {e} : f.type # "OPENING_BALANCE" /\ Before(e, f)

(* A reversal without its replacement leaves the journal unfinished. *)
Unreplaced(books) ==
    {r \in AcceptedEvents(books) : r.type = "REVERSAL" /\ ReplacementsOf(books, r) = {}}

Blocked(status, books) == [status |-> status, books |-> books]

(* One round of the loop over the sorted events. *)
Round(e, result) ==
    IF result.status # "OPEN" THEN result
    ELSE IF Postable(result.books, e) THEN Blocked("OPEN", BooksAfter(result.books, e))
    ELSE Blocked(IF Premature(result.books, e) THEN "PRECHECK_BLOCKED" ELSE "RECONCILIATION_BLOCKED",
                 result.books)

Replay(journal) ==
    IF ~Prechecked(journal) THEN Blocked("PRECHECK_BLOCKED", EmptyBooks)
    ELSE LET events == Ordered(journal)
             posted[n \in 0..Len(events)] ==
                IF n = 0 THEN Blocked("OPEN", EmptyBooks) ELSE Round(events[n], posted[n - 1])
             end == posted[Len(events)]
         IN  IF end.status # "OPEN" THEN end
             ELSE IF Unreplaced(end.books) # {} THEN Blocked("RECONCILIATION_BLOCKED", end.books)
             ELSE Blocked("RECONCILED", end.books)
=============================================================================
