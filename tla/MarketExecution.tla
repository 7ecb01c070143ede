---------------------------- MODULE MarketExecution ----------------------------
(***************************************************************************)
(* Stage 5B: one approved intent is taken through the trading windows of a *)
(* calendar, in order, until one of them can execute it.                   *)
(* _evaluate_stage5_market_execution is the machine; each of its early     *)
(* exits, continues and day stops is an action.  The dates of a calendar   *)
(* follow its sessions.                                                    *)
(***************************************************************************)
EXTENDS MarketRules

-----------------------------------------------------------------------------
(* Where the scan goes. *)

(* A decision known only by its date waits for the next trading date. *)
EligibleSessions(c) ==
    {i \in DOMAIN c.sessions :
        /\ c.sessions[i].closes > EligibleFrom(c)
        /\ ~c.exact => c.sessions[i].date > c.decisionDate /\ c.sessions[i].opens >= EligibleFrom(c)}

TradeDates(c) ==
    LET dates == {c.sessions[i].date : i \in EligibleSessions(c)}
        rank(d) == Cardinality({x \in dates : x <= d})
    IN  {d \in dates : c.action \in NewRisk => rank(d) <= EntryDays}

Scanned(c) == {i \in EligibleSessions(c) : c.sessions[i].date \in TradeDates(c)}

SessionWindows(c, i) == {w \in c.windows : w.session = i}
NthWindow(c, i, n) ==
    CHOOSE w \in SessionWindows(c, i) :
        Cardinality({x \in SessionWindows(c, i) : WindowBefore(x, w)}) = n - 1

(* window 0 is the session itself, before any of its windows. *)
Place(session, window) == [session |-> session, window |-> window]
End == Place(0, 0)
FirstOf(sessions) == IF sessions = {} THEN End ELSE Place(Min(sessions), 0)

AfterSession(c, place) == FirstOf({i \in Scanned(c) : i > place.session})
AfterWindow(c, place) ==
    IF place.window < Cardinality(SessionWindows(c, place.session))
    THEN Place(place.session, place.window + 1)
    ELSE AfterSession(c, place)
AfterDay(c, place) ==
    FirstOf({i \in Scanned(c) : c.sessions[i].date > c.sessions[place.session].date})

-----------------------------------------------------------------------------
(* The scan. *)

VARIABLES case,        \* the Stage 5B input
          ceilings,    \* the Stage 5C constraint, or None
          place,       \* the session or window looked at next
          attempts,    \* what was found so far, in order
          abstained,   \* something needed was missing
          market,      \* "NEW", "SCANNING", or the final status
          fill         \* the fill, or None

scanVars == <<case, ceilings, place, attempts, abstained, market, fill>>

ScanInit ==
    /\ place = End /\ attempts = <<>> /\ abstained = FALSE
    /\ market = "NEW" /\ fill = None

Begin ==
    /\ market = "NEW"
    /\ market' = IF ~(Prechecked5B(case) /\ ConstraintFits(case, ceilings)) THEN "PRECHECK_BLOCKED"
                 ELSE IF Scanned(case) = {} THEN "NON_EXECUTABLE" ELSE "SCANNING"
    /\ place' = IF market' = "SCANNING" THEN FirstOf(Scanned(case)) ELSE End
    /\ UNCHANGED <<case, ceilings, attempts, abstained, fill>>

Scanning == market = "SCANNING" /\ place # End
AtSession == Scanning /\ place.window = 0
AtWindow == Scanning /\ place.window > 0

Session == case.sessions[place.session]
State == {x \in case.states : x.session = place.session}
Window == NthWindow(case, place.session, place.window)
Rule == RuleAt(case, Window.end)
TradeSide == Side(case.action)
Lot == LotSize(Rule, TradeSide)

Tried(outcome) ==
    attempts' = Append(attempts, [session |-> place.session, window |-> place.window, status |-> outcome])

(* An attempt that ends nothing: the scan goes on elsewhere. *)
GoOn(outcome, to) ==
    /\ Tried(outcome)
    /\ place' = to
    /\ UNCHANGED <<case, ceilings, market, fill>>

SessionRule == RuleAt(case, GreaterOf(Session.opens, EligibleFrom(case)))

EnterSession ==
    /\ AtSession /\ SessionRule # None /\ State # {} /\ SessionWindows(case, place.session) # {}
    /\ place' = Place(place.session, 1)
    /\ UNCHANGED <<case, ceilings, attempts, abstained, market, fill>>

SessionBlind ==
    /\ AtSession /\ SessionRule # None
    /\ State = {} \/ SessionWindows(case, place.session) = {}
    /\ abstained' = TRUE
    /\ GoOn("ABSTAIN", AfterSession(case, place))

(* Without one rule in force nothing that follows can be trusted. *)
Ruleless ==
    /\ \/ AtSession /\ SessionRule = None
       \/ AtWindow /\ Window.end <= case.approval.expires /\ Rule = None
    /\ Tried("PRECHECK_BLOCKED")
    /\ market' = "PRECHECK_BLOCKED" /\ place' = End
    /\ UNCHANGED <<case, ceilings, abstained, fill>>

Expired ==
    /\ AtWindow /\ Window.end > case.approval.expires
    /\ GoOn("CANCELLED", AfterDay(case, place))
    /\ UNCHANGED abstained

InForce == AtWindow /\ Window.end <= case.approval.expires /\ Rule # None

(* _observation_failure *)
Tradable(w, session, state, rule) ==
    /\ session.kind \in rule.kinds /\ "LIMIT" \in rule.orders
    /\ session.opens <= w.start /\ w.end <= session.closes
    /\ IF w.quality = "DAILY"
       THEN /\ EligibleFrom(case) <= session.opens
            /\ w.volume > 0 /\ w.turnover > 0 /\ w.benchmark * w.volume = w.turnover
       ELSE EligibleFrom(case) <= w.start
    /\ state.listed /\ ~state.suspended
    /\ state.limit # (IF TradeSide = "BUY" THEN "UP" ELSE "DOWN")
    /\ state.liquid /\ state.quotable
    /\ w.volume > 0 /\ w.benchmark \in rule.lower..rule.upper

(* There is one state per session. *)
WindowTradable == \E state \in State : Tradable(Window, Session, state, Rule)

Untradable ==
    /\ InForce /\ ~WindowTradable
    /\ GoOn("NON_EXECUTABLE", AfterWindow(case, place))
    /\ UNCHANGED abstained

Quantity5B == Candidate(case, ceilings, Window, Lot)

TooSmall ==
    /\ InForce /\ WindowTradable /\ Quantity5B < Lot
    /\ GoOn("NON_EXECUTABLE", AfterWindow(case, place))
    /\ UNCHANGED abstained

Priced ==
    /\ CostAt(case, Window.end) # None /\ ImpactAt(case, Window.quality, Window.end) # None
    /\ Slippage(ImpactAt(case, Window.quality, Window.end), Quantity5B, Window.volume) # None

Unpriced ==
    /\ InForce /\ WindowTradable /\ Quantity5B >= Lot /\ ~Priced
    /\ abstained' = TRUE
    /\ GoOn("ABSTAIN", AfterDay(case, place))

Executable == InForce /\ WindowTradable /\ Quantity5B >= Lot /\ Priced
Best == AffordableQuote(case, ceilings, Window, Rule)

Unaffordable ==
    /\ Executable /\ Best = None
    /\ GoOn("NON_EXECUTABLE", AfterWindow(case, place))
    /\ UNCHANGED abstained

Verdicts(quote) == IF TradeSide = "SELL" THEN {"PASS"} ELSE GatesAt(case, quote)

GateRejected ==
    /\ Executable
    /\ \E quote \in {Best} \ {None} : \E verdicts \in {Verdicts(quote)} :
         /\ verdicts # {"PASS"}
         /\ abstained' = (abstained \/ "ABSTAIN" \in verdicts)
    /\ GoOn("GATE_REJECTED_AT_EXECUTABLE_PRICE", AfterDay(case, place))

FillOf(quote, rule) ==
    [quantity |-> quote.quantity, price |-> quote.price, gross |-> quote.gross,
     fee |-> quote.fee, tax |-> quote.tax, side |-> TradeSide,
     at |-> Window.end, date |-> Session.date, rule |-> rule, window |-> Window,
     cancelled |-> IF ceilings = None THEN case.approval.quantity - quote.quantity ELSE 0]

(* The fill of Stage 5C is all that was submitted; alone, Stage 5B cancels *)
(* at the day's end what the window could not take.                        *)
Fill ==
    /\ Executable
    /\ \E quote \in {Best} \ {None} :
         /\ Verdicts(quote) = {"PASS"}
         /\ market' = IF ceilings = None /\ quote.quantity < case.approval.quantity
                      THEN "PARTIALLY_FILLED" ELSE "FILLED"
         /\ fill' = FillOf(quote, Rule)
    /\ Tried(market')
    /\ place' = End
    /\ UNCHANGED <<case, ceilings, abstained>>

LastStatus == attempts[Len(attempts)].status

(* Mutant: an abstention is forgotten when the entry's days are used up. *)
FinalAfterDays ==
    IF case.action \in NewRisk /\ Cardinality(TradeDates(case)) = EntryDays THEN "ENTRY_EXPIRED"
    ELSE IF abstained THEN "ABSTAIN" ELSE LastStatus

Final ==
    IF case.action \in NewRisk /\ Cardinality(TradeDates(case)) = EntryDays /\ ~abstained
    THEN "ENTRY_EXPIRED"
    ELSE IF abstained THEN "ABSTAIN" ELSE LastStatus

Finish ==
    /\ market = "SCANNING" /\ place = End
    /\ market' = Final
    /\ UNCHANGED <<case, ceilings, place, attempts, abstained, fill>>

ScanNext ==
    \/ Begin \/ EnterSession \/ SessionBlind \/ Ruleless \/ Expired \/ Untradable \/ TooSmall
    \/ Unpriced \/ Unaffordable \/ GateRejected \/ Fill \/ Finish
=============================================================================
