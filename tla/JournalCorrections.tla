-------------------------- MODULE JournalCorrections --------------------------
(***************************************************************************)
(* A Stage 5C journal that grows, corrections included.  The journal is    *)
(* append-only and a replay up to a clock is the replay of a prefix, so    *)
(* posting one event after another is the replay of a longer and longer    *)
(* journal.                                                                *)
(***************************************************************************)
EXTENDS PortfolioLedger

CONSTANT Pool        \* the events a journal may hold

ASSUME PoolAssumption == \A e \in Pool : IsEvent(e) /\ HasRows(e)

-----------------------------------------------------------------------------
(* The journal grows at its end, one event at a time. *)

VARIABLES ledger,      \* the books after the events posted so far
          verdict      \* "OPEN", or why the journal is no longer replayed

ledgerVars == <<ledger, verdict>>

LedgerInit == ledger = EmptyBooks /\ verdict = "OPEN"

Journal == AcceptedEvents(ledger)
Extends(e) ==
    /\ verdict = "OPEN" /\ e \notin Journal
    /\ \A f \in Journal : Before(f, e)

Post(e) ==
    /\ Extends(e) /\ Prechecked(Journal \cup {e})
    /\ Postable(ledger, e)
    /\ ledger' = BooksAfter(ledger, e)
    /\ UNCHANGED verdict

Reject(e) ==
    /\ Extends(e)
    /\ ~(Prechecked(Journal \cup {e}) /\ Postable(ledger, e))
    /\ verdict' = IF ~Prechecked(Journal \cup {e}) \/ Premature(ledger, e)
                 THEN "PRECHECK_BLOCKED" ELSE "RECONCILIATION_BLOCKED"
    /\ UNCHANGED ledger

LedgerNext == \E e \in Pool : Post(e) \/ Reject(e)

LedgerSpec == LedgerInit /\ [][LedgerNext]_ledgerVars

-----------------------------------------------------------------------------
(* Properties *)

(* The events that count: what was reversed is gone with its reversal. *)
Standing == {e \in Journal : e.type # "REVERSAL" /\ ReversalsOf(ledger, e) = {}}

StandingSum(amount(_)) == MapThenSumSet(amount, Standing)

(* A reversal and a replacement leave the books as if the replacement had   *)
(* been posted in the first place: every balance and every lot is what the  *)
(* standing events add up to, whatever was corrected in which order.        *)
CorrectionsLeaveNoTrace ==
    /\ \A k \in Keys : ledger.balance[k] = StandingSum(LAMBDA e : Signed(e, k[1], k[2]))
    /\ \A l \in LotIds(ledger) :
         LET on(e) == {x \in e.effects : x.lot = l} IN
         /\ ledger.lots[l].remaining = StandingSum(LAMBDA e : MapThenSumSet(LAMBDA x : x.quantity, on(e)))
         /\ ledger.lots[l].sellable = StandingSum(LAMBDA e : MapThenSumSet(LAMBDA x : x.sellable, on(e)))
         /\ ledger.lots[l].cost = StandingSum(LAMBDA e : MapThenSumSet(LAMBDA x : x.cost, on(e)))

(* No fill of the market is booked twice, however often it was corrected. *)
FillsBookedOnce ==
    \A e, f \in Standing : FillSource(e) # None /\ FillSource(e) = FillSource(f)
        /\ Signed(e, "SECURITY_CONTROL", e.security) # 0
        /\ Signed(f, "SECURITY_CONTROL", f.security) # 0 => e = f
===============================================================================
