---------------------------- MODULE EventPassports ----------------------------
(***************************************************************************)
(* stage4_event_semantics.py: how far a commercial event has come (E0-E7), *)
(* judged revision by revision.  Each revision is evaluated whole: the     *)
(* knowledge it rests on, the parties, the contract (E4), and then the     *)
(* passports of the states, against the state an earlier revision reached. *)
(*                                                                         *)
(* A claim is its conclusion; claims of one passport differ only in kind,  *)
(* so a passport is the set of its claims' conclusions.  Facts and         *)
(* knowledge nodes are one sequence, in the order the code walks it.       *)
(* Identities are numbers; citing a snapshot is the caller's.              *)
(***************************************************************************)
EXTENDS Absent, Naturals, Sequences, FiniteSets, Functions

CONSTANTS RuleBundle,    \* hash of the approved rules
          OlderBundle,   \* and of those before them
          Openings,      \* what the first case of an event may bring
          Dossiers,      \* what a later one may: all of it but its revision
          MaxRevision    \* bound on revisions of one event

VARIABLES brief,         \* Stage4EventCase
          report         \* Stage4EventResult

Conclusions == {"CONFIRMED", "REFUTED", "UNKNOWN", "CONFLICTED"}
Unresolved == {"UNKNOWN", "CONFLICTED"}
Required == {"listed_company", "economic_beneficiary", "seller_supplier"}
Roles == Required \cup {"customer_buyer", "procurement_actor"}

-----------------------------------------------------------------------------
(* FR-EVT-004: Facts, Assumptions, Derived values and Judgments.           *)

(* Only a fact may be of unknown date.                                      *)
IsItem(i) ==
    /\ {"kind", "at"} \subseteq DOMAIN i
    /\ \/ i.kind = "Fact" /\ (i.at = None \/ i.at \in Nat)
       \/ i.kind \in {"Assumption", "Derived", "Judgment"} /\ i.at \in Nat

IsKnowledge(c) ==
    /\ "graph" \in DOMAIN c /\ DOMAIN c.graph \subseteq Nat
    /\ \A k \in DOMAIN c.graph : IsItem(c.graph[k])

(* A claim is one of the conclusions.                                       *)
ArePassports(c) ==
    /\ "passports" \in DOMAIN c
    /\ \A state \in {"E1", "E2", "E3"} : c.passports[state] \subseteq Conclusions

(* What Stage 4 is given with a case has all the parts of its class.        *)
IsEvent(c) ==
    /\ {"case", "input", "cutoff", "decision", "cited", "candidates", "declared", "listed", "links", "e4", "passports",
        "terminals", "revision"} \subseteq DOMAIN c
    /\ \A l \in c.links : {"role", "applicable", "conclusion", "confidential"} \subseteq DOMAIN l
    /\ {"claims", "original", "quantity", "chains", "published"} \subseteq DOMAIN c.e4
    /\ {"narrative", "E1", "E2", "E3", "clue", "E5", "E6"} \subseteq DOMAIN c.passports

ASSUME EventsAreConstructible == \A c \in Openings \cup Dossiers : IsKnowledge(c) /\ ArePassports(c)

Items(c) == Range(c.graph)
DependenciesOf(i) == IF i.kind = "Fact" THEN {} ELSE i.deps
FactsOf(c) == {i \in Items(c) : i.kind = "Fact"}

LawfulFact(c, f) ==
    f.input = c.input /\ f.at # None /\ f.evidenced /\ f.lawful /\ f.at <= c.cutoff

MayRestOn == [Assumption |-> {"Fact", "Assumption"},
              Derived |-> {"Fact", "Assumption", "Derived"},
              Judgment |-> {"Fact", "Assumption", "Derived"}]

SupersedesEarlier(c, n) ==
    n.supersedes = None \/ \E p \in Items(c) :
        p.id = n.supersedes /\ p.id # n.id /\ p.kind = n.kind /\ p.at < n.at

RestsOnEarlier(c, n) ==
    n.deps # {} /\ \A d \in n.deps : \E p \in Items(c) :
        p.id = d /\ p.kind \in MayRestOn[n.kind] /\ p.at # None /\ p.at <= n.at

SoundJudgment(c, n) ==
    /\ n.reasoned
    /\ n.supporting \cup n.conflicting \subseteq n.deps
    /\ n.overrides # None =>
           n.approved /\ \E p \in Items(c) : p.kind = "Judgment" /\ p.id = n.overrides

SoundNode(c, n) ==
    /\ n.input = c.input /\ n.at <= c.cutoff
    /\ SupersedesEarlier(c, n)
    /\ RestsOnEarlier(c, n)
    /\ n.kind = "Assumption" => n.falsifiable
    /\ n.kind = "Judgment" => SoundJudgment(c, n)

ItemOutcome(c, i) ==
    IF i.kind = "Fact" THEN IF LawfulFact(c, i) THEN "PASS" ELSE "BLOCKED"
    ELSE IF ~SoundNode(c, i) THEN "BLOCKED"
    ELSE IF i.kind = "Judgment" /\ i.outcome = "PASS" /\ i.supporting = {} THEN "ABSTAIN"
    ELSE "PASS"

(* A depth-first search over Assumptions and Derived values fails when some *)
(* of them each rest on another of them.                                    *)
Circular(c) ==
    LET derived == {i \in Items(c) : i.kind \in {"Assumption", "Derived"}}
    IN \E ring \in (SUBSET derived) \ {{}} : \A i \in ring : \E j \in ring : j.id \in i.deps

(* The walk ends at the first item that does not pass.                      *)
WalkOutcome(c) ==
    LET faults == {k \in DOMAIN c.graph : ItemOutcome(c, c.graph[k]) # "PASS"}
    IN IF faults = {} THEN "PASS"
       ELSE ItemOutcome(c, c.graph[CHOOSE k \in faults : \A other \in faults : k <= other])

(* Mutant: derivations may be circular. *)
AuditWithoutSearch(c) ==
    IF \/ c.cutoff > c.decision
       \/ \E i, j \in DOMAIN c.graph : i # j /\ c.graph[i].id = c.graph[j].id
       \/ ~(c.cited \cup c.candidates \subseteq {f.id : f \in FactsOf(c)})
    THEN "BLOCKED" ELSE WalkOutcome(c)

AuditLayers(c) ==
    IF \/ c.cutoff > c.decision
       \/ \E i, j \in DOMAIN c.graph : i # j /\ c.graph[i].id = c.graph[j].id
       \/ ~(c.cited \cup c.candidates \subseteq {f.id : f \in FactsOf(c)})
    THEN "BLOCKED"
    ELSE LET walk == WalkOutcome(c) IN IF walk = "PASS" /\ Circular(c) THEN "BLOCKED" ELSE walk

-----------------------------------------------------------------------------
(* FR-EVT-003: the parties, and the earliest fact the public could know.   *)

Earlier(f, g) == f.at < g.at \/ (f.at = g.at /\ f.id < g.id)

DeclaredEarliest(c) ==
    LET candidates == {f \in FactsOf(c) : f.id \in c.candidates}
    IN \E f \in candidates :
           f.id = c.declared /\ \A g \in candidates \ {f} : Earlier(f, g)

Link(c, role) == CHOOSE l \in c.links : l.role = role
Concluded(c, role) == Link(c, role).conclusion

LawfulLink(c, l) ==
    IF ~l.applicable THEN l.role = "procurement_actor" /\ l.conclusion = None /\ ~l.entity
    ELSE /\ l.conclusion # None
         /\ l.conclusion = "CONFIRMED" =>
                /\ l.entity /\ l.described /\ l.groups # {}
                /\ l.from # None /\ l.from <= c.cutoff
                /\ l.to # None => c.cutoff < l.to

OneLinkPerRole(c) ==
    /\ {l.role : l \in c.links} = Roles
    /\ \A l, m \in c.links : l.role = m.role => l = m

(* A buyer kept secret by law may stay unknown; then nobody else is asked.  *)
SecretBuyer(c) ==
    LET buyer == Link(c, "customer_buyer")
    IN buyer.conclusion = "UNKNOWN" /\ buyer.confidential /\ ~buyer.entity

PartyOutcome(c) ==
    IF ~(DeclaredEarliest(c) /\ OneLinkPerRole(c) /\ \A l \in c.links : LawfulLink(c, l)) THEN "BLOCKED"
    ELSE IF \E r \in Required : Concluded(c, r) = "REFUTED" THEN "REJECT"
    ELSE IF \E r \in Required : Concluded(c, r) \in Unresolved THEN "ABSTAIN"
    ELSE IF Concluded(c, "customer_buyer") = "REFUTED" THEN "REJECT"
    ELSE IF SecretBuyer(c) THEN "PASS"
    ELSE IF Concluded(c, "customer_buyer") \in Unresolved THEN "ABSTAIN"
    ELSE IF Concluded(c, "procurement_actor") = "REFUTED" THEN "REJECT"
    ELSE IF Concluded(c, "procurement_actor") \in Unresolved THEN "ABSTAIN"
    ELSE "PASS"

CrossPartyReady(c) ==
    LET buyer == Link(c, "customer_buyer").groups
    IN /\ PartyOutcome(c) = "PASS" /\ ~SecretBuyer(c)
       /\ buyer # {} /\ buyer \cap Link(c, "seller_supplier").groups = {}

-----------------------------------------------------------------------------
(* FR-EVT-002: a contract the public can rely on.                           *)

IndependentEvidence(c) ==
    \E a, b \in c.e4.chains :
        /\ a.publisher # b.publisher /\ a.lineage # b.lineage
        /\ a.original \/ b.original

(* originals: those of the authoritative texts that directly show signature, *)
(* effect and minimum obligation.                                            *)
E4Outcome(c) ==
    IF PartyOutcome(c) = "REJECT" \/ "REFUTED" \in Range(c.e4.claims) THEN "REJECT"
    ELSE IF PartyOutcome(c) = "ABSTAIN" \/ Range(c.e4.claims) \cap Unresolved # {} THEN "ABSTAIN"
    ELSE IF ~c.e4.original \/ c.e4.quantity = "UNKNOWN" THEN "ABSTAIN"
    ELSE "PASS"

ProfitMustAbstain(c) == E4Outcome(c) = "PASS" /\ c.e4.quantity = "CONFIDENTIAL"

-----------------------------------------------------------------------------
(* FR-EVT-001: passports.                                                   *)

Ladder == <<"E0", "E1", "E2", "E3", "E3_5", "E4", "E5", "E6">>
StateRank(s) == CHOOSE n \in DOMAIN Ladder : Ladder[n] = s

(* What a revision may cite of an earlier one.                              *)
SnapshotRefs ==
    [event : {"event", "another"}, snapshot : Nat, number : Nat, content : Nat, state : Range(Ladder),
     rules : {RuleBundle, OlderBundle}]

ASSUME NoneIsNoReference == None \notin SnapshotRefs /\ None \notin Range(Ladder) \cup {"PASS"}

(* Mutant: a passport nobody made a claim about counts as refuted. *)
AnyOfMade(conclusions) ==
    IF "CONFIRMED" \in conclusions THEN "CONFIRMED"
    ELSE IF "CONFLICTED" \in conclusions THEN "CONFLICTED"
    ELSE IF "UNKNOWN" \in conclusions THEN "UNKNOWN"
    ELSE "REFUTED"

AnyOf(conclusions) ==
    IF "CONFIRMED" \in conclusions THEN "CONFIRMED"
    ELSE IF "CONFLICTED" \in conclusions THEN "CONFLICTED"
    ELSE IF "UNKNOWN" \in conclusions \/ conclusions = {} THEN "UNKNOWN"
    ELSE "REFUTED"

AllOf(conclusions) ==
    IF "REFUTED" \in conclusions THEN "REFUTED"
    ELSE IF "CONFLICTED" \in conclusions THEN "CONFLICTED"
    ELSE IF "UNKNOWN" \in conclusions THEN "UNKNOWN"
    ELSE "CONFIRMED"

Previous(c) == c.revision.previous
PreviousState(c) == IF Previous(c) = None THEN None ELSE Previous(c).state

Replayed(c) ==
    LET replay == c.revision.migration
    IN IF Previous(c).rules = RuleBundle THEN replay = None
       ELSE /\ replay # None /\ replay.replayable
            /\ replay.from = Previous(c).rules /\ replay.to = RuleBundle
            /\ replay.input = c.revision.content

LawfulRevision(c) ==
    LET this == c.revision
        prev == Previous(c)
    IN IF prev = None THEN this.number = 1 /\ this.supersedes = None /\ ~this.duplicate
       ELSE /\ this.event = prev.event
            /\ IF this.duplicate
               THEN /\ this.content = prev.content /\ this.snapshot = prev.snapshot
                    /\ this.number = prev.number /\ this.supersedes = None
               ELSE /\ this.content # prev.content /\ this.snapshot # prev.snapshot
                    /\ this.number = prev.number + 1 /\ this.supersedes = prev.snapshot
                    /\ Replayed(c)

StateResult(outcome, attained, highest, candidate, terminal, last) ==
    [outcome |-> outcome, attained |-> attained, highest |-> highest, candidate |-> candidate,
     terminal |-> terminal, created |-> TRUE, duplicate |-> FALSE, last |-> last]

(* No state is reached; the one last confirmed is kept on record.           *)
Undecided(c, outcome, attained, candidate) ==
    StateResult(outcome, attained, None, candidate, None, PreviousState(c))

Lowered(c, state) == Previous(c) # None /\ StateRank(state) < StateRank(PreviousState(c))

(* A refutation may itself be unresolved: only a confirmed one counts.      *)
DowngradePolicy(c, result) ==
    IF ~Lowered(c, result.highest) THEN result
    ELSE IF c.revision.refutation = "CONFIRMED"
         THEN [result EXCEPT !.outcome = "PASS", !.candidate = result.highest, !.last = PreviousState(c)]
         ELSE [result EXCEPT !.outcome = "ABSTAIN", !.highest = None, !.candidate = result.highest,
                             !.last = PreviousState(c)]

Terminals(c, conclusions) == {t \in DOMAIN c.terminals : c.terminals[t] \in conclusions}
TheTerminal(c) == CHOOSE t \in Terminals(c, {"CONFIRMED"}) : TRUE

(* Completion, and termination of a contract once confirmed, need no passport. *)
EndsEarly(c) ==
    /\ Terminals(c, {"CONFIRMED"}) # {}
    /\ \/ TheTerminal(c) = "thesis_completed"
       \/ /\ TheTerminal(c) = "contract_terminated" /\ Previous(c) # None
          /\ StateRank(PreviousState(c)) >= StateRank("E4")

EarlyEnd(c) ==
    LET reached == IF Previous(c) = None THEN "E0" ELSE PreviousState(c)
    IN StateResult("PASS", {"E0", "E7"}, reached, reached, TheTerminal(c), reached)

-----------------------------------------------------------------------------
(* The passports of E1, E2 and E3, climbed in order.                        *)

Climb == <<"E1", "E2", "E3">>
Passport(c, n) == AnyOf(c.passports[Climb[n]])
Obstacles(c) == {n \in DOMAIN Climb : Passport(c, n) # "CONFIRMED"}
Below(n) == {"E0"} \cup {Climb[k] : k \in 1..(n - 1)}

HaltedAt(c, n) ==
    LET reached == Ladder[n]
    IN IF Passport(c, n) \in Unresolved THEN Undecided(c, "ABSTAIN", Below(n), reached)
       ELSE IF E4Outcome(c) = "PASS" THEN Undecided(c, "REJECT", Below(n), reached)
       ELSE StateResult("PASS", Below(n), reached, reached, None,
                        IF Previous(c) = None THEN reached ELSE PreviousState(c))

(* Without a contract: a strong commercial clue makes it E3_5.              *)
WithoutContract(c) ==
    LET clue == c.passports.clue
        outcome == IF E4Outcome(c) = "REJECT" THEN "PASS" ELSE "ABSTAIN"
    IN IF clue \in Unresolved THEN Undecided(c, "ABSTAIN", Below(4), "E3")
       ELSE IF clue = "CONFIRMED"
            THEN DowngradePolicy(c, StateResult(outcome, Below(4) \cup {"E3_5"}, "E3_5", "E3_5", None,
                     IF Previous(c) # None /\ outcome = "ABSTAIN" THEN PreviousState(c) ELSE "E3_5"))
            ELSE DowngradePolicy(c, StateResult("PASS", Below(4), "E3", "E3", None,
                     IF Previous(c) # None THEN PreviousState(c) ELSE "E3"))

(* With one: performance (E5), then its financial proof (E6).               *)
Performance(c) == AnyOf(c.passports["E5"])
Proof(c) == AllOf(c.passports["E6"])

Reached(c) == IF Performance(c) # "CONFIRMED" THEN "E4" ELSE IF Proof(c) # "CONFIRMED" THEN "E5" ELSE "E6"
AttainedUpTo(state) == {Ladder[k] : k \in 1..StateRank(state)} \ {"E3_5"}

Prerequisite == [repeat_or_scale |-> "E6", cycle_matured |-> "E6",
                 contract_terminated |-> "E4", thesis_completed |-> "E0"]

WithContract(c) ==
    LET reached == Reached(c)
        attained == AttainedUpTo(reached)
        ended == Terminals(c, {"CONFIRMED"}) # {}
        undecided == Undecided(c, "ABSTAIN", attained, reached)
    IN IF Performance(c) \in Unresolved \/ (Performance(c) = "CONFIRMED" /\ Proof(c) \in Unresolved) THEN undecided
       ELSE IF ended /\ Prerequisite[TheTerminal(c)] \notin attained THEN undecided
       ELSE IF ~ended /\ Terminals(c, Unresolved) # {} THEN undecided
       ELSE DowngradePolicy(c, StateResult("PASS", attained \cup (IF ended THEN {"E7"} ELSE {}), reached, reached,
                                           IF ended THEN TheTerminal(c) ELSE None, reached))

PassportState(c) ==
    IF c.passports.narrative = "REFUTED" THEN Undecided(c, "REJECT", {}, None)
    ELSE IF c.passports.narrative \in Unresolved THEN Undecided(c, "ABSTAIN", {}, None)
    ELSE IF Cardinality(Terminals(c, {"CONFIRMED"})) > 1 THEN Undecided(c, "ABSTAIN", {"E0"}, "E0")
    ELSE IF EndsEarly(c) THEN EarlyEnd(c)
    ELSE IF Obstacles(c) # {} THEN HaltedAt(c, CHOOSE n \in Obstacles(c) : \A other \in Obstacles(c) : n <= other)
    ELSE IF E4Outcome(c) = "PASS" THEN WithContract(c)
    ELSE WithoutContract(c)

EventStateOf(c) ==
    IF ~LawfulRevision(c) THEN [Undecided(c, "BLOCKED", {}, None) EXCEPT !.created = FALSE]
    ELSE IF c.revision.duplicate
         THEN [StateResult("PASS", {}, PreviousState(c), PreviousState(c), None, PreviousState(c))
                  EXCEPT !.created = FALSE, !.duplicate = TRUE]
    ELSE PassportState(c)

-----------------------------------------------------------------------------
(* evaluate_stage4_event: a layer that does not pass leaves the next unevaluated. *)

NoState == [StateResult(None, {}, None, None, None, None) EXCEPT !.created = FALSE]

EventReport(c) ==
    LET audit == AuditLayers(c)
        party == IF audit = "PASS" THEN PartyOutcome(c) ELSE None
        evaluated == party \notin {None, "BLOCKED"}
        state == IF evaluated THEN EventStateOf(c) ELSE NoState
    IN [audit |-> audit, party |-> party, cross |-> evaluated /\ CrossPartyReady(c),
        e4 |-> IF evaluated THEN E4Outcome(c) ELSE None,
        corroborated |-> evaluated /\ IndependentEvidence(c),
        profitMustAbstain |-> evaluated /\ ProfitMustAbstain(c), state |-> state,
        overall |-> IF audit # "PASS" THEN audit ELSE IF ~evaluated THEN "BLOCKED" ELSE state.outcome]

-----------------------------------------------------------------------------
(* The life of one event: whoever follows it writes the next case, citing   *)
(* the revision before it with the state it reached or had last confirmed.  *)

OnRecord == IF report.state.highest # None THEN report.state.highest ELSE report.state.last

Cited ==
    IF report.state.created /\ OnRecord # None
    THEN [event |-> brief.revision.event, snapshot |-> brief.revision.snapshot, number |-> brief.revision.number,
          content |-> brief.revision.content, state |-> OnRecord, rules |-> RuleBundle]
    ELSE Previous(brief)

FirstRevision ==
    [event |-> "event", snapshot |-> 1, number |-> 1, content |-> 1, supersedes |-> None, previous |-> None,
     duplicate |-> FALSE, refutation |-> None, migration |-> None]

(* Content and snapshot of a revision are as new as its number.             *)
Following(prev, refutation) ==
    LET n == prev.number + 1
        replay == [from |-> prev.rules, to |-> RuleBundle, input |-> n, replayable |-> TRUE]
    IN [event |-> prev.event, snapshot |-> n, number |-> n, content |-> n, supersedes |-> prev.snapshot,
        previous |-> prev, duplicate |-> FALSE, refutation |-> refutation,
        migration |-> IF prev.rules = RuleBundle THEN None ELSE replay]

(* One thing at a time may be wrong with how a revision is chained.         *)
Mischained(r) ==
    {[r EXCEPT !.number = @ + 1], [r EXCEPT !.supersedes = None], [r EXCEPT !.snapshot = r.previous.snapshot],
     [r EXCEPT !.content = r.previous.content], [r EXCEPT !.event = "another"], [r EXCEPT !.duplicate = TRUE],
     [r EXCEPT !.previous.rules = OlderBundle]}

Observed(r) ==
    [r EXCEPT !.snapshot = r.previous.snapshot, !.content = r.previous.content, !.number = r.previous.number,
              !.supersedes = None, !.duplicate = TRUE]

(* What is added to a document takes precedence over what it says.          *)
Joined(added, document) ==
    [x \in DOMAIN added \cup DOMAIN document |-> IF x \in DOMAIN added THEN added[x] ELSE document[x]]

Case4A2(dossier, revision) == Joined([revision |-> revision], dossier)

Evaluate(c) == brief' = c /\ report' = EventReport(c)

Revise ==
    /\ Cited # None /\ brief.revision.number < MaxRevision
    /\ \E dossier \in Dossiers, refutation \in {None, "CONFIRMED", "UNKNOWN"} :
           Evaluate(Case4A2(dossier, Following(Cited, refutation)))

(* The same material is met again.                                          *)
Observe ==
    /\ Cited # None /\ report.state.created
    /\ Evaluate([brief EXCEPT !.revision = Observed(Following(Cited, None))])

(* The same material is replayed after the rules have changed.              *)
Migrate ==
    /\ Cited # None /\ brief.revision.number < MaxRevision
    /\ Evaluate([brief EXCEPT !.revision = Following([Cited EXCEPT !.rules = OlderBundle], None)])

Mischain ==
    /\ Cited # None /\ brief.revision.number < MaxRevision
    /\ \E r \in Mischained(Following(Cited, None)) : Evaluate([brief EXCEPT !.revision = r])

EventInit ==
    /\ \E dossier \in Openings : brief = Case4A2(dossier, FirstRevision)
    /\ report = EventReport(brief)

EventNext == Revise \/ Observe \/ Migrate \/ Mischain

eventVars == <<brief, report>>
EventSpec == EventInit /\ [][EventNext]_eventVars

-----------------------------------------------------------------------------
(* What is known and what is confirmed. *)

Confirmed == IF Cited = None THEN 0 ELSE StateRank(Cited.state)

ClearlyRefuted(c) ==
    c.revision.refutation = "CONFIRMED" \/ \E n \in DOMAIN Climb : c.passports[Climb[n]] = {"REFUTED"}

(* "Missing, unrecoverable or conflicting input alone must not silently     *)
(* downgrade": whatever is missing, doubted, mischained or illegal in the   *)
(* revisions of an event, the state they leave on record is never lower,    *)
(* unless one of them refutes something.                                    *)
MissingEvidenceNeverLowers == [][Confirmed' >= Confirmed \/ ClearlyRefuted(brief')]_eventVars

(* What n may rest on: n, and whatever its members depend on.               *)
Bases(items, n) ==
    {b \in {others \cup {n} : others \in SUBSET items} :
        \A i \in b : \A j \in items : j.id \in DependenciesOf(i) => j \in b}

(* The graph is checked dependency by dependency, and trusted as a whole:   *)
(* when it passes, no Assumption, Derived value or Judgment can be traced   *)
(* back without meeting a lawful fact, and all that it rests on, however    *)
(* indirectly, was known when it was written.                               *)
KnowledgeRestsOnFacts ==
    report.audit = "PASS" =>
        LET items == Items(brief)
            facts == FactsOf(brief)
        IN \A n \in items \ facts :
              LET bases == Bases(items, n)
              IN /\ \A basis \in bases : \E f \in basis \cap facts : LawfulFact(brief, f)
                 /\ \E basis \in bases : \A i \in basis : i.at <= n.at

(* "Downgrade requires an explicit superseding refutation": no lower state  *)
(* is classified without one, however the lower state came about.           *)
DowngradeNeedsRefutation ==
    (report.state.created /\ report.state.highest # None /\ Lowered(brief, report.state.highest))
        => brief.revision.refutation = "CONFIRMED"
=============================================================================
