------------------------------- MODULE TradeCase -------------------------------
(***************************************************************************)
(* One trade from proposal to books.  evaluate_stage5_portfolio_ledger     *)
(* sizes it, takes the ceilings that leaves through the market, settles    *)
(* what is filled into the portfolio ledger as of the injected clock, and  *)
(* Stage 5D writes the same trade into a second ledger.                    *)
(*                                                                         *)
(* A trade is a market case and the desk it is made for: account, risk,    *)
(* portfolio approval (folio), ledger head, terms and clock.  Without a    *)
(* desk Stage 5B is asked alone.  bound says that a hash names the object  *)
(* evaluated here; the hashes of what this call computes always do.        *)
(***************************************************************************)
EXTENDS MarketExecution, PortfolioTarget, FillProjection

V2 == INSTANCE SourceDrivenLedger

VARIABLES desk,      \* whom the trade is made for, or None
          step,      \* "ALONE", or how far the trade is
          status,    \* the Stage 5C status, None before it is known
          target,    \* what PortfolioTarget allows
          journal,   \* the projected events
          books,     \* the portfolio ledger at the clock
          layers,    \* target, approved, submitted, filled and actual quantity
          slice      \* the Stage 5D ledger

tradeVars == <<desk, step, status, target, journal, books, layers, slice>>
vars == <<scanVars, tradeVars>>

(* The ledger is empty but for its opening, and was known when its head was.*)
IsLedgerHead(d) == d.headKnown <= d.head

IsDesk(d) ==
    /\ IsAccount(d.account) /\ IsClusters(d.clusters) /\ IsPortfolioApproval(d.folio)
    /\ IsRegime(d.regime) /\ IsStress(d.stress) /\ IsSizing(d.sizing)
    /\ d.account.recovery # None => IsRecovery(d.account.recovery)
    /\ \A t \in d.terms : IsTerms(t)
    /\ d.terms # {} /\ IsLedgerHead(d)

Unknown == [status |-> None, books |-> EmptyBooks]

TradeInit ==
    /\ ScanInit
    /\ ceilings = None
    /\ step = IF desk = None THEN "ALONE" ELSE "NEW"
    /\ status = None /\ target = NoTarget(None)
    /\ journal = {} /\ books = Unknown /\ layers = None /\ slice = None

-----------------------------------------------------------------------------
(* The ledger and the layers. *)

Opening == Replay({OpeningEvent(desk.account)})

OpeningMatches(account, opening) ==
    /\ opening.status = "RECONCILED"
    /\ Cash(opening.books, "CASH_AVAILABLE") = account.available
    /\ Cash(opening.books, "CASH_RESERVED") = account.reserved
    /\ Cash(opening.books, "CASH_RECEIVABLE") = account.receivable
    /\ Payable(opening.books) = account.payable
    /\ \A p \in account.positions :
         /\ Quantity(opening.books, p.security) = QuantityHeld(p)
         /\ Held(opening.books, "SECURITY_SELLABLE", p.security) = SellableHeld(p)

Layers(ledger, approved, submitted, filled) ==
    [target |-> target'.quantity, approved |-> approved, submitted |-> submitted, filled |-> filled,
     actual |-> Quantity(ledger.books, desk.security)]

(* The trade ends here, in Stage 5C. *)
Ends(outcome) == status' = outcome /\ step' = "DECIDED"

-----------------------------------------------------------------------------
(* Sizing and approval. *)

(* _scope_failure, as far as Stage 5B does not check it itself. *)
InWindow(c, d) ==
    /\ d.folio.scoped /\ d.folio.at = c.approval.at /\ d.folio.expires <= c.approval.expires
    /\ c.approval.at <= d.clock
    /\ d.known <= c.approval.at /\ c.proposal.known <= c.proposal.at
    /\ c.approval.known <= c.approval.at
    /\ GreaterOf(d.headKnown, d.constraintKnown) <= d.clock
    /\ \A t \in d.terms : t.known <= d.clock

InOrder(c, d) ==
    /\ d.sealed /\ \A t \in d.terms : t.sealed
    /\ d.scoped /\ InWindow(c, d)

(* The approval may only reduce the target it names. *)
Reduces(folio, c, risk) ==
    /\ folio.bound
    /\ folio.quantity <= risk.quantity /\ folio.quantity <= c.approval.quantity
    /\ folio.cap <= risk.value
    /\ 100 * folio.loss <= risk.value * risk.stress

LeastIn(amounts) == Min(amounts)

Ceilings(c, d, risk) ==
    LET buy == c.action \in NewRisk
        sellable == SellableIn(d.account, d.security)
        caps == {risk.value, d.folio.cap, c.approval.cap}
    IN  [approved |-> d.folio.quantity,
         maximum |-> LeastIn({risk.quantity, d.folio.quantity} \cup (IF buy THEN {} ELSE {sellable})),
         gross |-> LeastIn(caps \cup (IF buy THEN {(100 * d.folio.loss) \div risk.stress} ELSE {})),
         cash |-> IF buy THEN d.account.available ELSE None,
         reserve |-> IF buy THEN d.sizing.reserve ELSE None,
         sellable |-> IF buy THEN None ELSE sellable]

(* Unsized: no target, or an approval that is not of this target. *)
Unsized ==
    /\ step = "NEW"
    /\ target' = IF InOrder(case, desk) THEN PortfolioTargetOf(case, desk) ELSE NoTarget("PRECHECK_BLOCKED")
    /\ target'.quantity # None => ~Reduces(desk.folio, case, target')
    /\ Ends(IF target'.quantity = None THEN target'.status ELSE "PRECHECK_BLOCKED")
    /\ UNCHANGED <<scanVars, desk, journal, books, layers, slice>>

Size ==
    /\ step = "NEW" /\ InOrder(case, desk)
    /\ target' = PortfolioTargetOf(case, desk)
    /\ target'.quantity # None /\ Reduces(desk.folio, case, target')
    /\ books' = Opening
    /\ IF ~OpeningMatches(desk.account, books') \/ (desk.folio.approved /\ target'.quantity = 0)
       THEN Ends("PRECHECK_BLOCKED") /\ UNCHANGED <<layers, ceilings>>
       ELSE IF ~desk.folio.approved
       THEN Ends("SYNTHETIC_REJECTED") /\ layers' = Layers(books', 0, 0, 0) /\ UNCHANGED ceilings
       ELSE /\ ceilings' = Ceilings(case, desk, target')
            /\ step' = "SUBMITTED" /\ UNCHANGED <<status, layers>>
    /\ UNCHANGED <<case, place, attempts, abstained, market, fill, desk, journal, slice>>

-----------------------------------------------------------------------------
(* Submission: the machine of Stage 5B, then what it found is used or not. *)

Submit ==
    /\ step \in {"ALONE", "SUBMITTED"}
    /\ ScanNext
    /\ UNCHANGED tradeVars

Scanned5B == step = "SUBMITTED" /\ market \notin {"NEW", "SCANNING"}

Return ==
    /\ Scanned5B /\ fill = None
    /\ Ends(market)
    /\ target' = target /\ layers' = Layers(books, desk.folio.quantity, 0, 0)
    /\ UNCHANGED <<scanVars, desk, journal, books, slice>>

(* A candidate is known, is still approved and stands on the current head. *)
KnownByNow == fill.at <= desk.clock /\ fill.window.available <= desk.clock
Current ==
    /\ desk.headKnown <= fill.at /\ desk.constraintKnown <= fill.at
    /\ desk.head = fill.at

TooLate == fill.at > desk.folio.expires

Refuse ==
    /\ Scanned5B /\ fill # None
    /\ TooLate \/ ~KnownByNow \/ ~Current
    /\ Ends(IF TooLate THEN "CANCELLED" ELSE "PRECHECK_BLOCKED")
    /\ UNCHANGED <<scanVars, desk, target, journal, books, layers, slice>>

Admitted == Scanned5B /\ fill # None /\ ~TooLate /\ KnownByNow /\ Current
TermsOfFill == {t \in desk.terms : t.date = fill.date /\ t.rule = fill.rule}
Terms == CHOOSE t \in TermsOfFill : TRUE

Abstain ==
    /\ Admitted /\ Cardinality(TermsOfFill) # 1
    /\ Ends("ABSTAIN")
    /\ UNCHANGED <<scanVars, desk, target, journal, books, layers, slice>>

Settleable ==
    Projectable(fill, desk.account, desk.security, desk.sizing.reserve, Terms, case.sessions, desk.clock)

Unprojectable ==
    /\ Admitted /\ Cardinality(TermsOfFill) = 1 /\ ~Settleable
    /\ Ends("RECONCILIATION_BLOCKED")
    /\ UNCHANGED <<scanVars, desk, target, journal, books, layers, slice>>

UpTo(events, clock) == {e \in events : e.at <= clock}

(* The events of a sale that earns nothing cannot be built: that raises. *)
Book ==
    /\ Admitted /\ Cardinality(TermsOfFill) = 1 /\ Settleable
    /\ journal' = ProjectedJournal(fill, desk.account, desk.security, desk.sizing.reserve, Terms)
    /\ ~\E e \in journal' : ~IsEvent(e)
    /\ books' = Replay(UpTo(journal', desk.clock))
    /\ target' = target
    /\ IF books'.status = "RECONCILED"
       THEN /\ Ends(market)
            /\ layers' = Layers(books', desk.folio.quantity, fill.quantity, fill.quantity)
       ELSE Ends("RECONCILIATION_BLOCKED") /\ UNCHANGED layers
    /\ UNCHANGED <<scanVars, desk, slice>>

Raise ==
    /\ Admitted /\ Cardinality(TermsOfFill) = 1 /\ Settleable
    /\ \E e \in ProjectedJournal(fill, desk.account, desk.security, desk.sizing.reserve, Terms) : ~IsEvent(e)
    /\ Ends("RAISED")
    /\ UNCHANGED <<scanVars, desk, target, journal, books, layers, slice>>

(* Stage 5D repeats the evaluation and writes its own ledger. *)
Write5D ==
    /\ step = "DECIDED" /\ status # "RAISED"
    /\ slice' = V2!SliceOf(status, fill, desk.account, desk.security,
                           IF status = "FILLED" THEN Terms.moments ELSE None,
                           desk.attributions, desk.head, desk.clock)
    /\ step' = "WRITTEN"
    /\ UNCHANGED <<scanVars, desk, status, target, journal, books, layers>>

TradeNext ==
    Unsized \/ Size \/ Submit \/ Return \/ Refuse \/ Abstain \/ Unprojectable \/ Book \/ Raise \/ Write5D

(* Every trade that can be handed in, one behaviour for each. *)
Trades == IsCase(case) /\ (desk # None => IsDesk(desk)) /\ TradeInit
TradeSpec == Trades /\ [][TradeNext]_vars

-----------------------------------------------------------------------------
(* Properties *)

Decided == status # None
Traded == journal # {}
BooksAt(clock) == Replay(UpTo(journal, clock)).books

(* Cash released at the moment it settles: a release sorts before a settlement. *)
FreedTooSoon(clock) ==
    /\ fill.side = "SELL"
    /\ Terms.moments["SELL_CASH_AVAILABLE"].at = Terms.moments["SELL_CASH_SETTLEMENT"].at
    /\ Terms.moments["SELL_CASH_SETTLEMENT"].at <= clock

(* A journal that the terms of settlement admit can be replayed as of every *)
(* moment of it, and when all of it is effective nothing is left in transit *)
(* or reserved: stage5_fill_projection.py and stage5_ledger.py agree on     *)
(* every order of moments.  One order is not: cash of a sale that settles   *)
(* and becomes available at one moment.  A purchase shows in the layers.    *)
Earned == IF fill.side = "BUY" THEN -fill.gross - fill.fee - fill.tax ELSE fill.gross - fill.fee - fill.tax

SettledIn(end) ==
    /\ Cash(end, "CASH_AVAILABLE") = desk.account.available + Earned
    /\ Cash(end, "CASH_RESERVED") = desk.account.reserved
    /\ Cash(end, "CASH_RECEIVABLE") = desk.account.receivable
    /\ Payable(end) = desk.account.payable
    /\ Cash(end, "CASH_SETTLED_UNAVAILABLE") = 0
    /\ Held(end, "SECURITY_UNSETTLED", desk.security) = 0

LastMoment == Max({e.at : e \in journal})

JournalsReplay ==
    Traded /\ step = "DECIDED" =>
        /\ \A e \in journal :
             (Replay(UpTo(journal, e.at)).status = "RECONCILED") <=> ~FreedTooSoon(e.at)
        /\ ~FreedTooSoon(LastMoment) => SettledIn(BooksAt(LastMoment))
        /\ layers # None /\ fill.side = "BUY" /\ fill.at <= desk.clock =>
             layers.actual = HeldIn(desk.account, desk.security) + fill.quantity

(* A trade the slice cannot write: more than an empty account or free of a  *)
(* charge on the way in, of a cost without exact shares on the way out.     *)
Divisible(basis) == basis # None /\ V2!Divisible(basis, desk.security, fill.quantity)
Writable ==
    IF fill.side = "BUY"
    THEN V2!EmptyOpening(desk.account) /\ desk.attributions = {}
    ELSE Divisible(V2!Basis(desk.account, desk.attributions, desk.head))
Chargeless == fill.side = "BUY" /\ (V2!BuyCost(fill).slippage = 0 \/ V2!BuyCost(fill).fee = 0)

ExpectedSlice ==
    IF ~Writable THEN (IF fill.side = "BUY" THEN "UNSUPPORTED_SLICE" ELSE "SOURCE_PRECHECK_BLOCKED")
    ELSE IF Chargeless THEN "RAISED"
    ELSE IF fill.side = "BUY" THEN "BUY_RECONCILED" ELSE "SELL_RECONCILED"

SameBooks(first, clock) ==
    /\ V2!CashAt(slice.events, "CASH_AVAILABLE", clock) = Cash(first, "CASH_AVAILABLE") + Cash(first, "CASH_RESERVED")
    /\ \A a \in {"CASH_RECEIVABLE", "CASH_SETTLED_UNAVAILABLE", "CASH_PAYABLE"} :
         V2!CashAt(slice.events, a, clock) = Cash(first, a)
    /\ V2!HeldAt(slice.events, desk.security, clock) = Quantity(first, desk.security)
    /\ V2!FreeAt(slice.events, desk.security, clock) = Held(first, "SECURITY_SELLABLE", desk.security)

(* Two ledgers are written from one fill by different code, the second with *)
(* no reservation of cash.  The second takes every trade it can write (and  *)
(* raises for one without fee or slippage), and at every moment both show   *)
(* the same cash and the same shares.                                       *)
TwoLedgersAgree ==
    step = "WRITTEN" /\ status = "FILLED" =>
        /\ slice.status = ExpectedSlice
        /\ slice.events # <<>> =>
             \A e \in journal :
                e.at >= desk.head /\ ~FreedTooSoon(e.at) => SameBooks(BooksAt(e.at), e.at)

(* What a purchase took at the price it got, not the price it was sized at, *)
(* is within every limit of the portfolio and every cap of both approvals,  *)
(* and the cash it may come to cost is there.                               *)
LimitsHoldAfterFill ==
    Traded /\ fill.side = "BUY" =>
        /\ \A l \in Limits(case, desk) : fill.gross * l.den <= l.num
        /\ fill.gross <= LesserOf(desk.folio.cap, case.approval.cap)
        /\ fill.gross * target.stress <= 100 * desk.folio.loss
        /\ fill.gross + fill.fee + fill.tax <= desk.account.available
        /\ layers # None => /\ layers.target >= layers.approved /\ layers.approved >= layers.submitted
                            /\ layers.submitted >= layers.filled

(* Nothing is bought for an account that was stopped and has no recovery    *)
(* the owner agreed to, that is drawn down by an eighth, or in a crisis.    *)
NoNewRiskWhenStopped ==
    Traded /\ fill.side = "BUY" =>
        /\ desk.regime # "CRISIS" /\ ~DrawnTo(desk.account, DeriskOnlyAt)
        /\ desk.account.stopped => /\ desk.account.recovery # None /\ desk.account.recovery.agreed
                                   /\ desk.account.recovery.effective <= case.approval.at
                                   /\ desk.account.recovery.ofHead

(* The binary search leaves out no lot of a purchase that could be paid:    *)
(* price, fees and slippage grow with the quantity in steps.                *)
GreatestLotBought ==
    fill # None /\ fill.side = "BUY" =>
        LET rule == fill.rule
            w == fill.window
            quote(n) == Quote(n, w, rule, ImpactAt(case, w.quality, w.end), CostAt(case, w.end), "BUY")
        IN  \A n \in (fill.quantity + 1)..Candidate(case, ceilings, w, rule.buyLot) :
              n % rule.buyLot = 0 => ~Affordable(quote(n), NotionalCap(case, ceilings), ceilings, "BUY")

(* What could not be judged is never reported as an entry that expired: an   *)
(* order is called expired only when every one of its days was seen.         *)
AbstentionSurvives ==
    /\ market = "ENTRY_EXPIRED" =>
         /\ case.action \in NewRisk
         /\ \A i \in DOMAIN attempts : attempts[i].status # "ABSTAIN"
         /\ Cardinality(TradeDates(case)) = EntryDays
    /\ (\E i \in DOMAIN attempts : attempts[i].status = "ABSTAIN") =>
         market \in {"SCANNING", "ABSTAIN", "FILLED", "PARTIALLY_FILLED", "PRECHECK_BLOCKED"}
=============================================================================
