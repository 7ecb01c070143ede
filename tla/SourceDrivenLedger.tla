-------------------------- MODULE SourceDrivenLedger --------------------------
(***************************************************************************)
(* The Stage 5D slice: what evaluate_stage5d_source_driven_ledger_slice    *)
(* writes into the second ledger for one Stage 5C result, and how it ends. *)
(* The market prices of the trade come apart here: what the benchmark      *)
(* asked for, and the slippage that was paid on top of it.                 *)
(*                                                                         *)
(* Ids stand for names and hashes: an opened lot's fill is the lot's own   *)
(* id.  Exact recomputation of the source and the recorded authority flags *)
(* hold by construction of a source that the same call computes.           *)
(***************************************************************************)
EXTENDS LedgerV2

(* The lot a purchase opens has its fill's name. *)
BoughtLot == 50

Entry(id, type, at, security, postings, effects) ==
    [id |-> id, type |-> type, at |-> at, scope |-> "account", security |-> security,
     sources |-> SourcesOf(type), prior |-> <<>>, postings |-> postings, effects |-> effects, sealed |-> TRUE]

(* New events follow those there are; each names all before it. *)
BoundAfter(base, entries) ==
    LET fresh == Ordered(entries)
        all == base \o fresh
    IN  [i \in DOMAIN all |->
            IF i <= Len(base) THEN all[i] ELSE [all[i] EXCEPT !.prior = [j \in 1..(i - 1) |-> all[j].id]]]

-----------------------------------------------------------------------------
(* Openings. *)

Unencumbered(account) == account.reserved = 0 /\ account.receivable = 0 /\ account.payable = 0
EmptyOpening(account) == Unencumbered(account) /\ account.positions = {}

OpeningEntry(account, at) ==
    Entry(1, "OPENING_BALANCE", at, None,
          {CashPosting("CASH_AVAILABLE", account.available), CashPosting("OPENING_CONTROL", -account.available)},
          <<>>)

SourceLots(account) ==
    UNION {{[security |-> p.security, lot |-> l] : l \in p.lots} : p \in account.positions}

(* An attribution splits the cost of exactly one lot into its components. *)
Attributes(a, s) ==
    /\ a.scoped /\ a.security = s.security /\ a.lot = s.lot.id
    /\ a.acquired = s.lot.acquired /\ a.quantity = s.lot.quantity /\ a.sellable = s.lot.sellable
    /\ Total(a.cost) = s.lot.cost

Attributed(account, attributions) ==
    /\ Cardinality(attributions) = Cardinality(SourceLots(account))
    /\ \A s \in SourceLots(account) : \E a \in attributions : Attributes(a, s)

Some(posting) == IF posting.amount # 0 THEN {posting} ELSE {}

OpeningPositionEntry(a, at) ==
    LET unsellable == a.quantity - a.sellable IN
    Entry(100 + a.lot, "OPENING_POSITION", at, a.security,
          {CashPosting("OPENING_CONTROL", -Total(a.cost)), SharePosting("SECURITY_CONTROL", a.security, -a.quantity)}
            \cup Some(SharePosting("SECURITY_UNSELLABLE", a.security, unsellable))
            \cup Some(SharePosting("SECURITY_SELLABLE", a.security, a.sellable))
            \cup UNION {Some(CostPosting(CostAccount[c], a.security, a.cost[c])) : c \in Components},
          <<Effect(a.lot, a.security, a.acquired, a.lot, a.quantity, 0, unsellable, a.sellable, a.cost)>>)

(* build_stage5d_v2_continuation_basis: the events a sale continues, or None. *)
Basis(account, attributions, at) ==
    LET entries == {OpeningEntry(account, at)} \cup {OpeningPositionEntry(a, at) : a \in attributions}
        reconciled(events) == IF Replay(Range(events), at).status = "RECONCILED" THEN events ELSE None
    IN  IF /\ attributions # {} /\ account.positions # {} /\ Unencumbered(account)
           /\ Attributed(account, attributions)
           /\ \A e \in entries : IsEvent(e)
        THEN reconciled(BoundAfter(<<>>, entries)) ELSE None

-----------------------------------------------------------------------------
(* A purchase. *)

BuyCost(fill) ==
    LET principal == fill.window.benchmark * fill.quantity
    IN  [principal |-> principal, slippage |-> fill.gross - principal, fee |-> fill.fee,
         tax |-> fill.tax, basis |-> 0]

(* The postings of principal, slippage and fee are made whatever they are. *)
BuyEntries(fill, account, security, moments, head) ==
    LET cost == BuyCost(fill)
        n == fill.quantity
        change(unsettled, unsellable, sellable) ==
            <<Effect(BoughtLot, security, fill.at, BoughtLot, 0, unsettled, unsellable, sellable, Free)>>
        move(id, type, kind, from, to, effects) ==
            Entry(id, type, moments[kind].at, security,
                  {SharePosting(to, security, n), SharePosting(from, security, -n)}, effects)
    IN  {OpeningEntry(account, head),
         Entry(5, "BUY_TRADE", fill.at, security,
               {CostPosting(CostAccount[c], security, cost[c]) : c \in {"principal", "slippage", "fee"}}
                 \cup Some(CostPosting(CostAccount["tax"], security, cost["tax"]))
                 \cup {CashPosting("CASH_PAYABLE", -Total(cost)),
                       SharePosting("SECURITY_UNSETTLED", security, n),
                       SharePosting("SECURITY_CONTROL", security, -n)},
               <<Effect(BoughtLot, security, fill.at, BoughtLot, n, n, 0, 0, cost)>>),
         Entry(9, "BUY_CASH_SETTLEMENT", moments["BUY_CASH_PAYABLE"].at, security,
               {CashPosting("CASH_PAYABLE", Total(cost)), CashPosting("CASH_AVAILABLE", -Total(cost))}, <<>>),
         move(10, "SECURITY_SETTLEMENT", "SECURITY_SETTLEMENT", "SECURITY_UNSETTLED", "SECURITY_UNSELLABLE",
              change(-n, n, 0)),
         move(11, "SECURITY_SELLABLE", "SECURITY_SELLABLE", "SECURITY_UNSELLABLE", "SECURITY_SELLABLE",
              change(0, -n, n))}

-----------------------------------------------------------------------------
(* A sale: _sell_specs. *)

(* Mutant: the tax is not taken from what a sale brings. *)
ProceedsBeforeTax(fill) == fill.gross - fill.fee

Proceeds(fill) == fill.gross - fill.fee - fill.tax
BenchmarkProceeds(fill) == fill.window.benchmark * fill.quantity

Divisible(basis, security, quantity) == Divides(TakesAfter(basis, security, quantity), quantity)

Disposals(takes) == [i \in DOMAIN takes |-> Disposal(takes[i])]

SellTrade(fill, security, effects, removed) ==
    Entry(5, "SELL_TRADE", fill.at, security,
          {CashPosting("CASH_RECEIVABLE", Proceeds(fill)),
           CashPosting("SELL_PROCEEDS_CONTROL", -BenchmarkProceeds(fill)),
           CashPosting("REALIZED_COST_BASIS_CONTROL", Total(removed)),
           SharePosting("SECURITY_CONTROL", security, fill.quantity),
           SharePosting("SECURITY_SELLABLE", security, -fill.quantity)}
            \cup Some(CashPosting("REALIZED_FEE", fill.fee))
            \cup Some(CashPosting("REALIZED_TAX", fill.tax))
            \cup Some(CashPosting("REALIZED_SLIPPAGE", BenchmarkProceeds(fill) - fill.gross))
            \cup UNION {Some(CostPosting(CostAccount[c], security, -removed[c])) : c \in Components},
          effects)

SellEntries(fill, basis, security, moments) ==
    LET trade(effects) == SellTrade(fill, security, effects, Removed([effects |-> effects]))
        move(id, type, kind, from, to) ==
            Entry(id, type, moments[kind].at, security,
                  {CashPosting(to, Proceeds(fill)), CashPosting(from, -Proceeds(fill))}, <<>>)
    IN  {trade(Disposals(TakesAfter(basis, security, fill.quantity))),
         move(9, "SELL_CASH_SETTLEMENT", "SELL_CASH_SETTLEMENT", "CASH_RECEIVABLE", "CASH_SETTLED_UNAVAILABLE"),
         move(10, "SELL_CASH_AVAILABLE", "SELL_CASH_AVAILABLE", "CASH_SETTLED_UNAVAILABLE", "CASH_AVAILABLE")}

-----------------------------------------------------------------------------
(* The slice.  RAISED: a posting of nothing cannot be built, and nobody     *)
(* catches that.                                                            *)

Slice(status, events) == [status |-> status, events |-> events]
NoSlice(status) == Slice(status, <<>>)

Written(reconciled, base, entries, clock) ==
    LET outcome(events) ==
            Slice(IF Replay(Range(events), clock).status = "RECONCILED" THEN reconciled ELSE "RECONCILIATION_BLOCKED",
                  events)
    IN  IF \E e \in entries : ~IsEvent(e) THEN NoSlice("RAISED") ELSE outcome(BoundAfter(base, entries))

UntradedSlice(account, attributions, head, clock) ==
    IF EmptyOpening(account) /\ attributions = {}
    THEN Written("NO_FILL_RECONCILED", <<>>, {OpeningEntry(account, head)}, clock)
    ELSE NoSlice("SOURCE_PRECHECK_BLOCKED")

BuySlice(fill, account, security, moments, attributions, head, clock) ==
    IF ~EmptyOpening(account) \/ attributions # {} THEN NoSlice("UNSUPPORTED_SLICE")
    ELSE IF BuyCost(fill).slippage < 0 THEN NoSlice("SOURCE_PRECHECK_BLOCKED")
    ELSE Written("BUY_RECONCILED", <<>>, BuyEntries(fill, account, security, moments, head), clock)

SellSliceAfter(basis, fill, security, moments, clock) ==
    IF \/ basis = None \/ Proceeds(fill) <= 0 \/ BenchmarkProceeds(fill) < fill.gross
       \/ ~Divisible(basis, security, fill.quantity)
    THEN NoSlice("SOURCE_PRECHECK_BLOCKED")
    ELSE Written("SELL_RECONCILED", basis, SellEntries(fill, basis, security, moments), clock)

(* moments: those of the terms of the fill. *)
SliceOf(source, fill, account, security, moments, attributions, head, clock) ==
    CASE source = "SYNTHETIC_REJECTED" -> UntradedSlice(account, attributions, head, clock)
      [] source \in {"PRECHECK_BLOCKED", "RECONCILIATION_BLOCKED"} -> NoSlice("SOURCE_PRECHECK_BLOCKED")
      [] source = "FILLED" /\ fill.side = "BUY" ->
            BuySlice(fill, account, security, moments, attributions, head, clock)
      [] source = "FILLED" /\ fill.side = "SELL" ->
            SellSliceAfter(Basis(account, attributions, head), fill, security, moments, clock)
      [] OTHER -> NoSlice("UNSUPPORTED_SLICE")

(* What the slice's ledger holds at a clock. *)
CashAt(events, account, clock) == CashAfter(SelectSeq(events, LAMBDA e : e.at <= clock), account)
HeldAt(events, security, clock) == QuantityAfter(SelectSeq(events, LAMBDA e : e.at <= clock), security)
FreeAt(events, security, clock) == SellableAfter(SelectSeq(events, LAMBDA e : e.at <= clock), security)
=============================================================================
