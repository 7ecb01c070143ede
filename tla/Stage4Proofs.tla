------------------------------ MODULE Stage4Proofs ------------------------------
(***************************************************************************)
(* Proofs about Stage 4 for every event and every complete case that the   *)
(* constructors let through, any revisions and any evidence withheld: what *)
(* knowledge rests on, what lowers a state on record, when the numbers of  *)
(* a ready case were known, what gates 2 and 3 pass inside of intervals,   *)
(* that an approval holds on terms no worse, and that nothing is gained by *)
(* withholding.                                                            *)
(***************************************************************************)
EXTENDS CompleteStage4, NaturalsInduction, WellFoundedInduction, FiniteSetTheorems, TLAPS

-----------------------------------------------------------------------------
(* Knowledge. *)

Less == {ss \in Nat \X Nat : ss[1] < ss[2]}
LEMMA LessWellFounded == IsWellFoundedOn(Less, Nat)
BY NatLessThanWellFounded DEF OpToRel, Less

LEMMA FirstExists ==
    ASSUME NEW S \in SUBSET Nat, S # {}
    PROVE  \E k \in S : \A other \in S : k <= other
<1>1. PICK k \in S : \A other \in S : ~(<<other, k>> \in Less)
  BY LessWellFounded, WFMin
<1>2. ASSUME NEW other \in S
      PROVE  k <= other
  <2>1. k \in Nat /\ other \in Nat
    OBVIOUS
  <2>2. <<other, k>> \in Less <=> other < k
    BY <2>1 DEF Less
  <2>. QED
    BY <1>1, <2>1, <2>2
<1>. QED
  BY <1>2

(* An evaluation that stops at its first fault stops nowhere when it passes. *)
LEMMA FaultsNone ==
    ASSUME NEW outcomes, DOMAIN outcomes \subseteq Nat, FirstFault(outcomes) = "PASS"
    PROVE  \A k \in DOMAIN outcomes : outcomes[k] = "PASS"
<1>. DEFINE faults == {k \in DOMAIN outcomes : outcomes[k] # "PASS"}
<1>1. SUFFICES ASSUME faults # {} PROVE FALSE
  OBVIOUS
<1>2. \E k \in faults : \A other \in faults : k <= other
  <2>1. faults \in SUBSET Nat
    OBVIOUS
  <2>. HIDE DEF faults
  <2>. QED
    BY <1>1, <2>1, FirstExists
<1>3. Min(faults) \in faults
  BY <1>2 DEF Min
<1>. QED
  BY <1>1, <1>3 DEF FirstFault

(* What an audit that passed has found.                                     *)
LEMMA AuditFinds ==
    ASSUME NEW c, IsKnowledge(c), AuditLayers(c) = "PASS"
    PROVE  /\ \A i \in Items(c) : ItemOutcome(c, i) = "PASS"
           /\ \A i, j \in Items(c) : i.id = j.id => i = j
           /\ ~Circular(c)
<1>. DEFINE faults == {k \in DOMAIN c.graph : ItemOutcome(c, c.graph[k]) # "PASS"}
<1>1. /\ ~(\E i, j \in DOMAIN c.graph : i # j /\ c.graph[i].id = c.graph[j].id)
      /\ WalkOutcome(c) = "PASS" /\ ~Circular(c)
  BY DEF AuditLayers
<1>2. faults = {}
  <2>1. SUFFICES ASSUME faults # {} PROVE FALSE
    OBVIOUS
  <2>2. \E k \in faults : \A other \in faults : k <= other
    <3>1. faults \in SUBSET Nat
      BY DEF IsKnowledge
    <3>. HIDE DEF faults
    <3>. QED
      BY <2>1, <3>1, FirstExists
  <2>3. (CHOOSE k \in faults : \A other \in faults : k <= other) \in faults
    BY <2>2
  <2>. QED
    BY <1>1, <2>1, <2>3 DEF WalkOutcome
<1>. QED
  BY <1>1, <1>2 DEF Items, Range

(* No two items have one identity, so what an item rests on is older.       *)
LEMMA BasesAreOlder ==
    ASSUME NEW c, IsKnowledge(c), AuditLayers(c) = "PASS",
           NEW i \in Items(c), NEW j \in Items(c), j.id \in DependenciesOf(i)
    PROVE  j.at \in Nat /\ i.at \in Nat /\ j.at <= i.at
<1>1. i.kind # "Fact"
  BY DEF DependenciesOf
<1>2. RestsOnEarlier(c, i) /\ i.deps = DependenciesOf(i)
  BY <1>1, AuditFinds DEF ItemOutcome, SoundNode, DependenciesOf
<1>3. PICK p \in Items(c) : p.id = j.id /\ p.at # None /\ p.at <= i.at
  BY <1>2 DEF RestsOnEarlier
<1>4. p = j
  BY <1>3, AuditFinds
<1>5. IsItem(i) /\ IsItem(j)
  BY DEF IsKnowledge, Items, Range
<1>. QED
  BY <1>1, <1>3, <1>4, <1>5 DEF IsItem

(* The oldest basis of an item: all that is as old.                         *)
LEMMA OlderIsABasis ==
    ASSUME NEW c, IsKnowledge(c), AuditLayers(c) = "PASS",
           NEW n \in Items(c), n.at \in Nat
    PROVE  {j \in Items(c) : j.at \in Nat /\ j.at <= n.at} \in Bases(Items(c), n)
<1>. DEFINE items == Items(c)
            basis == {j \in items : j.at \in Nat /\ j.at <= n.at}
<1>1. n \in basis
  OBVIOUS
<1>2. basis \in {others \cup {n} : others \in SUBSET items}
  <2>1. basis = basis \cup {n} /\ basis \in SUBSET items
    BY <1>1
  <2>. HIDE DEF basis, items
  <2>. QED
    BY <2>1
<1>3. ASSUME NEW i \in basis, NEW j \in items, j.id \in DependenciesOf(i)
      PROVE  j \in basis
  <2>1. j.at \in Nat /\ i.at \in Nat /\ j.at <= i.at
    BY <1>3, BasesAreOlder
  <2>. QED
    BY <1>3, <2>1
<1>. QED
  <2>. HIDE DEF basis
  <2>1. basis \in Bases(items, n)
    BY <1>2, <1>3 DEF Bases
  <2>. QED
    BY <2>1 DEF basis

(* A basis without a fact would be a ring of Assumptions and Derived values.*)
LEMMA BasesMeetFacts ==
    ASSUME NEW c, IsKnowledge(c), AuditLayers(c) = "PASS",
           NEW n \in Items(c) \ FactsOf(c), NEW basis \in Bases(Items(c), n)
    PROVE  \E f \in basis \cap FactsOf(c) : LawfulFact(c, f)
<1>. DEFINE items == Items(c)
            derived == {i \in items : i.kind \in {"Assumption", "Derived"}}
            ring == basis \cap derived
<1>1. basis \in {others \cup {n} : others \in SUBSET items} 
  BY DEF Bases
<1>2. n \in basis /\ basis \subseteq items
  BY <1>1
<1>3. \A i \in basis : \A j \in items : j.id \in DependenciesOf(i) => j \in basis
  BY DEF Bases
<1>4. \A f \in FactsOf(c) : LawfulFact(c, f)
  BY AuditFinds DEF FactsOf, ItemOutcome
<1>5. SUFFICES ASSUME basis \cap FactsOf(c) = {} PROVE FALSE
  BY <1>4
<1>6. ASSUME NEW i \in basis
      PROVE  \E j \in ring : j.id \in i.deps
  <2>1. i \in items /\ i.kind # "Fact"
    BY <1>2, <1>5 DEF FactsOf
  <2>2. RestsOnEarlier(c, i) /\ i.deps = DependenciesOf(i)
    BY <2>1, AuditFinds DEF ItemOutcome, SoundNode, DependenciesOf
  <2>3. PICK d \in i.deps : \E p \in items : p.id = d /\ p.kind \in MayRestOn[i.kind]
    BY <2>2 DEF RestsOnEarlier
  <2>4. PICK p \in items : p.id = d /\ p.kind \in MayRestOn[i.kind]
    BY <2>3
  <2>5. p \in basis
    BY <1>3, <1>6, <2>2, <2>3, <2>4
  <2>6. p.kind # "Fact"
    BY <1>5, <2>4, <2>5 DEF FactsOf
  <2>7. i.kind \in {"Assumption", "Derived", "Judgment"}
    BY <2>1 DEF IsKnowledge, IsItem, Items, Range
  <2>8. p.kind \in {"Assumption", "Derived"}
    BY <2>4, <2>6, <2>7 DEF MayRestOn
  <2>. QED
    BY <2>3, <2>4, <2>5, <2>8
<1>7. ring # {}
  BY <1>2, <1>6
<1>8. ring \in (SUBSET derived) \ {{}}
  BY <1>7
<1>9. \A i \in ring : \E j \in ring : j.id \in i.deps
  BY <1>6
<1>10. Circular(c)
  <2>. HIDE DEF ring
  <2>. QED
    BY <1>8, <1>9 DEF Circular
<1>. QED
  BY <1>10, AuditFinds

LEMMA CaseIsKnowledge ==
    ASSUME NEW d, IsKnowledge(d), NEW r
    PROVE  IsKnowledge(Case4A2(d, r))
<1>1. "graph" \in DOMAIN Case4A2(d, r) /\ Case4A2(d, r).graph = d.graph
  BY DEF Case4A2, Joined, IsKnowledge
<1>. QED
  BY <1>1 DEF IsKnowledge

(* The audit of a report that passed is of the case it reports on.          *)
EventInv == report = EventReport(brief) /\ IsKnowledge(brief)

LEMMA EventStep == EventInv /\ [EventNext]_eventVars => EventInv'
<1>. SUFFICES ASSUME EventInv, [EventNext]_eventVars
              PROVE  EventInv'
  OBVIOUS
<1>1. ASSUME NEW c, Evaluate(c), IsKnowledge(c)
      PROVE  EventInv'
  BY <1>1 DEF Evaluate, EventInv, EventReport, IsKnowledge
<1>2. ASSUME NEW r
      PROVE  IsKnowledge([brief EXCEPT !.revision = r])
  <2>1. DOMAIN [brief EXCEPT !.revision = r] = DOMAIN brief
    OBVIOUS
  <2>2. "graph" \in DOMAIN brief => [brief EXCEPT !.revision = r].graph = brief.graph
    OBVIOUS
  <2>. QED
    BY <2>1, <2>2 DEF EventInv, IsKnowledge
<1>3. CASE Revise
  <2>1. PICK dossiers \in Dossiers, refutation \in {None, "CONFIRMED", "UNKNOWN"} :
            Evaluate(Case4A2(dossiers, Following(Cited, refutation)))
    BY <1>3 DEF Revise
  <2>2. IsKnowledge(Case4A2(dossiers, Following(Cited, refutation)))
    BY CaseIsKnowledge, EventsAreConstructible
  <2>. QED
    BY <1>1, <2>1, <2>2
<1>4. CASE Observe
  BY <1>1, <1>2, <1>4 DEF Observe
<1>5. CASE Migrate
  BY <1>1, <1>2, <1>5 DEF Migrate
<1>6. CASE Mischain
  BY <1>1, <1>2, <1>6 DEF Mischain
<1>7. CASE UNCHANGED eventVars
  BY <1>7 DEF eventVars, EventInv
<1>. QED
  BY <1>3, <1>4, <1>5, <1>6, <1>7 DEF EventNext

(* However the revisions of an event follow each other, an audit that       *)
(* passes traces all knowledge back to lawful facts known before it.        *)
THEOREM EventKnowledgeRestsOnFacts == EventSpec => []KnowledgeRestsOnFacts
<1>1. EventInit => EventInv
  <2>. SUFFICES ASSUME EventInit PROVE EventInv
    OBVIOUS
  <2>1. PICK d \in Openings : brief = Case4A2(d, FirstRevision)
    BY DEF EventInit
  <2>. QED
    BY <2>1, CaseIsKnowledge, EventsAreConstructible DEF EventInit, EventInv
<1>2. EventInv => KnowledgeRestsOnFacts
  <2>. SUFFICES ASSUME EventInv, report.audit = "PASS", NEW n \in Items(brief) \ FactsOf(brief)
                PROVE  /\ \A basis \in Bases(Items(brief), n) :
                             \E f \in basis \cap FactsOf(brief) : LawfulFact(brief, f)
                       /\ \E basis \in Bases(Items(brief), n) : \A i \in basis : i.at <= n.at
    BY DEF KnowledgeRestsOnFacts
  <2>1. AuditLayers(brief) = "PASS" /\ IsKnowledge(brief)
    BY DEF EventInv, EventReport
  <2>2. n.at \in Nat
    BY <2>1 DEF IsKnowledge, IsItem, Items, FactsOf, Range
  <2>. DEFINE older == {j \in Items(brief) : j.at \in Nat /\ j.at <= n.at}
  <2>3. older \in Bases(Items(brief), n)
    BY <2>1, <2>2, OlderIsABasis
  <2>4. \A i \in older : i.at <= n.at
    OBVIOUS
  <2>. HIDE DEF older
  <2>5. \E basis \in Bases(Items(brief), n) : \A i \in basis : i.at <= n.at
    BY <2>3, <2>4
  <2>. QED
    BY <2>1, <2>5, BasesMeetFacts
<1>. QED
  BY <1>1, <1>2, EventStep, PTL DEF EventSpec

-----------------------------------------------------------------------------
(* The state on record. *)

States == Range(Ladder)

LEMMA RanksAreOrdered ==
    ASSUME NEW s \in States
    PROVE  StateRank(s) \in 1..8
<1>1. DOMAIN Ladder = 1..8
  BY DEF Ladder
<1>2. \E n \in DOMAIN Ladder : Ladder[n] = s
  BY DEF States, Range
<1>3. StateRank(s) \in DOMAIN Ladder
  BY <1>2 DEF StateRank
<1>. QED
  BY <1>1, <1>3

LEMMA StatesAre == States = {"E0", "E1", "E2", "E3", "E3_5", "E4", "E5", "E6"}
<1>1. DOMAIN Ladder = 1..8
  BY DEF Ladder
<1>2. 1..8 = {1, 2, 3, 4, 5, 6, 7, 8}
  OBVIOUS
<1>3. States = {Ladder[n] : n \in {1, 2, 3, 4, 5, 6, 7, 8}}
  BY <1>1, <1>2 DEF States, Range
<1>. QED
  BY <1>3 DEF Ladder

(* A revision leaves no lower state on record unless it refutes something.  *)
RecordOf(state) == IF state.highest # None THEN state.highest ELSE state.last
NotLowered(c, state) ==
    /\ RecordOf(state) \in States \cup {None}
    /\ Previous(c) # None =>
           /\ RecordOf(state) \in States
           /\ StateRank(RecordOf(state)) >= StateRank(PreviousState(c)) \/ ClearlyRefuted(c)

IsRevision(c) ==
    /\ ArePassports(c)
    /\ Previous(c) # None => PreviousState(c) \in States

LEMMA UndecidedNotLowered ==
    ASSUME NEW c, IsRevision(c), NEW outcome, NEW attained, NEW candidate
    PROVE  NotLowered(c, Undecided(c, outcome, attained, candidate))
<1>1. RecordOf(Undecided(c, outcome, attained, candidate)) = PreviousState(c)
  BY DEF RecordOf, Undecided, StateResult
<1>2. CASE Previous(c) # None
  BY <1>1, <1>2, RanksAreOrdered DEF NotLowered, IsRevision
<1>3. CASE Previous(c) = None
  BY <1>1, <1>3 DEF NotLowered, PreviousState
<1>. QED
  BY <1>2, <1>3

LEMMA PolicyNotLowered ==
    ASSUME NEW c, IsRevision(c), NEW outcome, NEW attained, NEW state \in States, NEW terminal, NEW last
    PROVE  NotLowered(c, DowngradePolicy(c, StateResult(outcome, attained, state, state, terminal, last)))
<1>. DEFINE result == StateResult(outcome, attained, state, state, terminal, last)
<1>. SUFFICES NotLowered(c, DowngradePolicy(c, result))
  OBVIOUS
<1>1. result.highest = state /\ state # None
  BY NoneIsNoReference DEF StateResult, States
<1>2. CASE ~Lowered(c, state)
  <2>1. RecordOf(DowngradePolicy(c, result)) = state
    BY <1>1, <1>2 DEF DowngradePolicy, RecordOf
  <2>2. Previous(c) # None => StateRank(state) >= StateRank(PreviousState(c))
    BY <1>2, RanksAreOrdered DEF Lowered, IsRevision
  <2>. HIDE DEF result
  <2>. QED
    BY <2>1, <2>2 DEF NotLowered
<1>3. CASE Lowered(c, state) /\ c.revision.refutation = "CONFIRMED"
  <2>1. RecordOf(DowngradePolicy(c, result)) = state
    BY <1>1, <1>3 DEF DowngradePolicy, RecordOf, StateResult
  <2>2. ClearlyRefuted(c)
    BY <1>3 DEF ClearlyRefuted
  <2>. HIDE DEF result
  <2>. QED
    BY <2>1, <2>2 DEF NotLowered
<1>4. CASE Lowered(c, state) /\ c.revision.refutation # "CONFIRMED"
  <2>1. RecordOf(DowngradePolicy(c, result)) = PreviousState(c)
    BY <1>1, <1>4 DEF DowngradePolicy, RecordOf, StateResult
  <2>2. PreviousState(c) \in States /\ StateRank(PreviousState(c)) \in 1..8
    BY <1>4, RanksAreOrdered DEF Lowered, IsRevision
  <2>. HIDE DEF result
  <2>. QED
    BY <2>1, <2>2 DEF NotLowered
<1>. QED
  BY <1>2, <1>3, <1>4

LEMMA HaltedNotLowered ==
    ASSUME NEW c, IsRevision(c), NEW n \in Obstacles(c)
    PROVE  NotLowered(c, HaltedAt(c, n))
<1>1. n \in 1..3 /\ Passport(c, n) # "CONFIRMED"
  BY DEF Obstacles, Climb
<1>2. CASE Passport(c, n) \in Unresolved \/ E4Outcome(c) = "PASS"
  BY <1>2, UndecidedNotLowered DEF HaltedAt
<1>3. ASSUME Passport(c, n) \notin Unresolved, E4Outcome(c) # "PASS"
      PROVE  NotLowered(c, HaltedAt(c, n))
  <2>. DEFINE claims == c.passports[Climb[n]]
  <2>1. AnyOf(claims) \notin {"CONFIRMED", "CONFLICTED", "UNKNOWN"}
    BY <1>1, <1>3 DEF Unresolved, Passport
  <2>2. "CONFIRMED" \notin claims /\ "CONFLICTED" \notin claims /\ "UNKNOWN" \notin claims /\ claims # {}
    BY <2>1 DEF AnyOf
  <2>3. claims \subseteq Conclusions
    <3>1. Climb[n] \in {"E1", "E2", "E3"}
      BY <1>1 DEF Climb
    <3>. QED
      BY <3>1 DEF IsRevision, ArePassports
  <2>4. claims = {"REFUTED"}
    BY <2>2, <2>3 DEF Conclusions
  <2>5. ClearlyRefuted(c)
    BY <1>1, <2>4 DEF ClearlyRefuted, Climb
  <2>6. Ladder[n] \in States
    BY <1>1 DEF States, Range, Ladder
  <2>7. RecordOf(HaltedAt(c, n)) = Ladder[n]
    <3>1. HaltedAt(c, n).highest = Ladder[n]
      BY <1>3 DEF HaltedAt, StateResult
    <3>2. Ladder[n] # None
      BY <2>6, NoneIsNoReference DEF States
    <3>. QED
      BY <3>1, <3>2 DEF RecordOf
  <2>. QED
    BY <2>5, <2>6, <2>7 DEF NotLowered
<1>. QED
  BY <1>2, <1>3

LEMMA EarlyEndNotLowered ==
    ASSUME NEW c, IsRevision(c)
    PROVE  NotLowered(c, EarlyEnd(c))
<1>. DEFINE reached == IF Previous(c) = None THEN "E0" ELSE PreviousState(c)
<1>1. reached \in States
  BY StatesAre DEF IsRevision
<1>2. RecordOf(EarlyEnd(c)) = reached
  BY <1>1, NoneIsNoReference DEF EarlyEnd, StateResult, RecordOf, States
<1>3. Previous(c) # None => StateRank(reached) >= StateRank(PreviousState(c))
  BY RanksAreOrdered DEF IsRevision
<1>. HIDE DEF reached
<1>. QED
  BY <1>1, <1>2, <1>3 DEF NotLowered

LEMMA PassportsNotLowered ==
    ASSUME NEW c, IsRevision(c)
    PROVE  NotLowered(c, PassportState(c))
<1>1. NotLowered(c, WithoutContract(c))
  BY StatesAre, UndecidedNotLowered, PolicyNotLowered DEF WithoutContract
<1>2. NotLowered(c, WithContract(c))
  <2>1. Reached(c) \in States
    BY StatesAre DEF Reached
  <2>. QED
    BY <2>1, UndecidedNotLowered, PolicyNotLowered DEF WithContract
<1>3. Obstacles(c) # {} =>
        (CHOOSE n \in Obstacles(c) : \A other \in Obstacles(c) : n <= other) \in Obstacles(c)
  <2>1. Obstacles(c) \in SUBSET Nat
    BY DEF Obstacles, Climb
  <2>. QED
    BY <2>1, FirstExists
<1>. QED
  BY <1>1, <1>2, <1>3, UndecidedNotLowered, EarlyEndNotLowered, HaltedNotLowered DEF PassportState

LEMMA ReportNotLowered ==
    ASSUME NEW c, IsRevision(c), EventReport(c).state.created
    PROVE  NotLowered(c, EventReport(c).state)
<1>. DEFINE evaluated == (IF AuditLayers(c) = "PASS" THEN PartyOutcome(c) ELSE None) \notin {None, "BLOCKED"}
<1>1. EventReport(c).state = IF evaluated THEN EventStateOf(c) ELSE NoState
  BY DEF EventReport
<1>2. ~NoState.created
  BY DEF NoState, StateResult
<1>3. evaluated /\ EventStateOf(c).created
  <2>. HIDE DEF evaluated
  <2>. QED
    BY <1>1, <1>2
<1>4. LawfulRevision(c) /\ ~c.revision.duplicate
  <2>1. ~[Undecided(c, "BLOCKED", {}, None) EXCEPT !.created = FALSE].created
    BY DEF Undecided, StateResult
  <2>2. ~[StateResult("PASS", {}, PreviousState(c), PreviousState(c), None, PreviousState(c))
             EXCEPT !.created = FALSE, !.duplicate = TRUE].created
    BY DEF StateResult
  <2>. QED
    BY <1>3, <2>1, <2>2 DEF EventStateOf
<1>. QED
  BY <1>1, <1>3, <1>4, PassportsNotLowered DEF EventStateOf

(* An event's cases follow each other: what a revision cites is a reference.*)
IsReference(prev) == prev = None \/ prev \in SnapshotRefs
IsNumbered(r) ==
    /\ r.event \in {"event", "another"} /\ r.snapshot \in Nat /\ r.number \in Nat /\ r.content \in Nat
    /\ IsReference(r.previous)

RecordInv ==
    /\ EventInv /\ ArePassports(brief)
    /\ "revision" \in DOMAIN brief /\ IsNumbered(brief.revision)

LEMMA CitedIsReference ==
    ASSUME RecordInv
    PROVE  IsReference(Cited)
<1>1. IsReference(Previous(brief))
  BY DEF RecordInv, IsNumbered, Previous
<1>2. ASSUME report.state.created, OnRecord # None
      PROVE  Cited \in SnapshotRefs
  <2>1. IsRevision(brief)
    BY <1>1 DEF RecordInv, IsRevision, IsReference, PreviousState, SnapshotRefs, States
  <2>2. NotLowered(brief, report.state)
    BY <1>2, <2>1, ReportNotLowered DEF RecordInv, EventInv
  <2>3. OnRecord \in States
    BY <1>2, <2>2 DEF NotLowered, OnRecord, RecordOf
  <2>4. Cited = [event |-> brief.revision.event, snapshot |-> brief.revision.snapshot, number |-> brief.revision.number,
                 content |-> brief.revision.content, state |-> OnRecord, rules |-> RuleBundle]
    BY <1>2 DEF Cited
  <2>. QED
    BY <2>3, <2>4 DEF RecordInv, IsNumbered, SnapshotRefs, States
<1>3. ~(report.state.created /\ OnRecord # None) => Cited = Previous(brief)
  BY DEF Cited
<1>. QED
  BY <1>1, <1>2, <1>3 DEF IsReference

(* Each kind of revision cites the one on record.                           *)
Cites(r, state) == IsNumbered(r) /\ r.previous \in SnapshotRefs /\ r.previous.state = state

LEMMA FollowingCites ==
    ASSUME NEW prev \in SnapshotRefs, NEW refutation
    PROVE  Cites(Following(prev, refutation), prev.state)
BY DEF Cites, Following, IsNumbered, IsReference, SnapshotRefs

LEMMA ObservedCites ==
    ASSUME NEW r, NEW state, Cites(r, state)
    PROVE  Cites(Observed(r), state)
<1>1. r.previous.snapshot \in Nat /\ r.previous.content \in Nat /\ r.previous.number \in Nat
  BY DEF Cites, SnapshotRefs
<1>. QED
  BY <1>1 DEF Cites, Observed, IsNumbered

LEMMA FollowingIs ==
    ASSUME NEW prev, NEW refutation
    PROVE  DOMAIN Following(prev, refutation) =
             {"event", "snapshot", "number", "content", "supersedes", "previous", "duplicate", "refutation", "migration"}
BY DEF Following

LEMMA MischainedCites ==
    ASSUME NEW prev \in SnapshotRefs, NEW refutation, NEW s \in Mischained(Following(prev, refutation))
    PROVE  Cites(s, prev.state)
<1>. DEFINE r == Following(prev, refutation)
<1>1. Cites(r, prev.state) /\ r.previous = prev
  BY FollowingCites DEF Following
<1>2. prev.snapshot \in Nat /\ prev.content \in Nat
  BY DEF SnapshotRefs
<1>3. [prev EXCEPT !.rules = OlderBundle] \in SnapshotRefs /\ [prev EXCEPT !.rules = OlderBundle].state = prev.state
  BY DEF SnapshotRefs
<1>4. \/ s = [r EXCEPT !.number = @ + 1] \/ s = [r EXCEPT !.supersedes = None]
      \/ s = [r EXCEPT !.snapshot = prev.snapshot] \/ s = [r EXCEPT !.content = prev.content]
      \/ s = [r EXCEPT !.event = "another"] \/ s = [r EXCEPT !.duplicate = TRUE]
      \/ s = [r EXCEPT !.previous = [prev EXCEPT !.rules = OlderBundle]]
  BY <1>1 DEF Mischained
<1>5. DOMAIN r = {"event", "snapshot", "number", "content", "supersedes", "previous", "duplicate", "refutation", "migration"}
  BY FollowingIs
<1>. HIDE DEF r
<1>6. CASE s = [r EXCEPT !.number = @ + 1]
  BY <1>1, <1>5, <1>6 DEF Cites, IsNumbered, IsReference
<1>7. CASE s = [r EXCEPT !.supersedes = None]
  BY <1>1, <1>5, <1>7 DEF Cites, IsNumbered, IsReference
<1>8. CASE s = [r EXCEPT !.snapshot = prev.snapshot]
  BY <1>1, <1>2, <1>5, <1>8 DEF Cites, IsNumbered, IsReference
<1>9. CASE s = [r EXCEPT !.content = prev.content]
  BY <1>1, <1>2, <1>5, <1>9 DEF Cites, IsNumbered, IsReference
<1>10. CASE s = [r EXCEPT !.event = "another"]
  BY <1>1, <1>5, <1>10 DEF Cites, IsNumbered, IsReference
<1>11. CASE s = [r EXCEPT !.duplicate = TRUE]
  BY <1>1, <1>5, <1>11 DEF Cites, IsNumbered, IsReference
<1>12. CASE s = [r EXCEPT !.previous = [prev EXCEPT !.rules = OlderBundle]]
  BY <1>1, <1>3, <1>5, <1>12 DEF Cites, IsNumbered, IsReference
<1>. QED
  BY <1>4, <1>6, <1>7, <1>8, <1>9, <1>10, <1>11, <1>12

(* A new case reports what its evaluation says, and cites what is on record.*)
Succeeds ==
    /\ report' = EventReport(brief') /\ IsKnowledge(brief') /\ ArePassports(brief')
    /\ "revision" \in DOMAIN brief'
    /\ Cited \in SnapshotRefs /\ Cites(brief'.revision, Cited.state)

LEMMA CaseKeepsPassports ==
    ASSUME NEW d, ArePassports(d), NEW r
    PROVE  /\ ArePassports(Case4A2(d, r))
           /\ "revision" \in DOMAIN Case4A2(d, r) /\ Case4A2(d, r).revision = r
<1>1. "passports" \in DOMAIN Case4A2(d, r) /\ Case4A2(d, r).passports = d.passports
  BY DEF Case4A2, Joined, ArePassports
<1>2. "revision" \in DOMAIN Case4A2(d, r) /\ Case4A2(d, r).revision = r
  BY DEF Case4A2, Joined
<1>. QED
  BY <1>1, <1>2 DEF ArePassports

LEMMA EventSucceeds == RecordInv /\ EventNext => Succeeds
<1>. SUFFICES ASSUME RecordInv, EventNext PROVE Succeeds
  OBVIOUS
<1>1. Cited # None
  BY DEF EventNext, Revise, Observe, Migrate, Mischain
<1>2. Cited \in SnapshotRefs
  BY <1>1, CitedIsReference DEF IsReference
<1>3. ASSUME NEW r, Cites(r, Cited.state), Evaluate([brief EXCEPT !.revision = r])
      PROVE  Succeeds
  <2>1. DOMAIN [brief EXCEPT !.revision = r] = DOMAIN brief
    OBVIOUS
  <2>2. /\ "graph" \in DOMAIN brief => [brief EXCEPT !.revision = r].graph = brief.graph
        /\ "passports" \in DOMAIN brief => [brief EXCEPT !.revision = r].passports = brief.passports
        /\ "revision" \in DOMAIN brief => [brief EXCEPT !.revision = r].revision = r
    OBVIOUS
  <2>3. IsKnowledge(brief') /\ ArePassports(brief')
    BY <1>3, <2>1, <2>2 DEF Evaluate, RecordInv, EventInv, IsKnowledge, ArePassports
  <2>4. "revision" \in DOMAIN brief' /\ brief'.revision = r
    BY <1>3, <2>1, <2>2 DEF Evaluate, RecordInv, IsNumbered
  <2>. QED
    BY <1>2, <1>3, <2>3, <2>4 DEF Evaluate, Succeeds
<1>4. CASE Revise
  <2>1. PICK d \in Dossiers, refutation \in {None, "CONFIRMED", "UNKNOWN"} :
            Evaluate(Case4A2(d, Following(Cited, refutation)))
    BY <1>4 DEF Revise
  <2>2. /\ IsKnowledge(brief') /\ ArePassports(brief')
        /\ "revision" \in DOMAIN brief' /\ brief'.revision = Following(Cited, refutation)
    BY <2>1, CaseIsKnowledge, CaseKeepsPassports, EventsAreConstructible DEF Evaluate
  <2>3. Cites(brief'.revision, Cited.state)
    BY <1>2, <2>2, FollowingCites
  <2>. QED
    BY <1>2, <2>1, <2>2, <2>3 DEF Evaluate, Succeeds
<1>5. CASE Observe
  BY <1>2, <1>3, <1>5, FollowingCites, ObservedCites DEF Observe
<1>6. CASE Migrate
  <2>1. [Cited EXCEPT !.rules = OlderBundle] \in SnapshotRefs /\ [Cited EXCEPT !.rules = OlderBundle].state = Cited.state
    BY <1>2 DEF SnapshotRefs
  <2>2. Cites(Following([Cited EXCEPT !.rules = OlderBundle], None), Cited.state)
    BY <2>1, FollowingCites
  <2>. QED
    BY <1>3, <1>6, <2>2 DEF Migrate
<1>7. CASE Mischain
  BY <1>2, <1>3, <1>7, MischainedCites DEF Mischain
<1>. QED
  BY <1>4, <1>5, <1>6, <1>7 DEF EventNext

LEMMA RecordStep == RecordInv /\ [EventNext]_eventVars => RecordInv'
<1>1. RecordInv /\ EventNext => RecordInv'
  BY EventSucceeds DEF Succeeds, Cites, RecordInv, EventInv
<1>2. RecordInv /\ UNCHANGED eventVars => RecordInv'
  BY DEF eventVars, RecordInv, EventInv
<1>. QED
  BY <1>1, <1>2

LEMMA RecordStarts == EventInit => RecordInv
<1>. SUFFICES ASSUME EventInit PROVE RecordInv
  OBVIOUS
<1>1. PICK d \in Openings : brief = Case4A2(d, FirstRevision)
  BY DEF EventInit
<1>2. /\ IsKnowledge(brief) /\ ArePassports(brief)
      /\ "revision" \in DOMAIN brief /\ brief.revision = FirstRevision
  BY <1>1, CaseIsKnowledge, CaseKeepsPassports, EventsAreConstructible
<1>3. IsNumbered(FirstRevision)
  BY DEF FirstRevision, IsNumbered, IsReference
<1>. QED
  BY <1>2, <1>3 DEF EventInit, RecordInv, EventInv

LEMMA StepNeverLowers ==
    RecordInv /\ EventNext => Confirmed' >= Confirmed \/ ClearlyRefuted(brief')
<1>. SUFFICES ASSUME RecordInv, EventNext
              PROVE  Confirmed' >= Confirmed \/ ClearlyRefuted(brief')
  OBVIOUS
<1>. DEFINE state == Cited.state
<1>1. Succeeds /\ RecordInv'
  BY EventSucceeds, RecordStep
<1>2. Cited \in SnapshotRefs /\ Cited # None /\ state \in States
  BY <1>1, NoneIsNoReference DEF Succeeds, SnapshotRefs, States
<1>3. Confirmed = StateRank(state) /\ StateRank(state) \in 1..8
  BY <1>2, RanksAreOrdered DEF Confirmed
<1>4. Previous(brief') \in SnapshotRefs /\ Previous(brief') # None /\ PreviousState(brief') = state
  BY <1>1, NoneIsNoReference DEF Succeeds, Cites, Previous, PreviousState
<1>5. ASSUME report'.state.created, OnRecord' # None
      PROVE  Confirmed' >= Confirmed \/ ClearlyRefuted(brief')
  <2>1. NotLowered(brief', report'.state)
    <3>1. IsRevision(brief')
      BY <1>1, <1>2, <1>4 DEF Succeeds, IsRevision
    <3>. QED
      BY <1>1, <1>5, <3>1, ReportNotLowered DEF Succeeds
  <2>2. OnRecord' = RecordOf(report'.state)
    BY DEF OnRecord, RecordOf
  <2>3. /\ OnRecord' \in States
        /\ StateRank(OnRecord') >= StateRank(state) \/ ClearlyRefuted(brief')
    BY <1>4, <2>1, <2>2 DEF NotLowered
  <2>4. Cited' = [event |-> brief'.revision.event, snapshot |-> brief'.revision.snapshot,
                  number |-> brief'.revision.number, content |-> brief'.revision.content,
                  state |-> OnRecord', rules |-> RuleBundle]
    BY <1>5 DEF Cited
  <2>5. Cited' \in SnapshotRefs
    BY <1>1, <2>3, <2>4 DEF RecordInv, IsNumbered, SnapshotRefs, States
  <2>6. Confirmed' = StateRank(OnRecord')
    BY <2>4, <2>5, NoneIsNoReference DEF Confirmed
  <2>. QED
    BY <1>3, <2>3, <2>6
<1>6. ASSUME ~(report'.state.created /\ OnRecord' # None)
      PROVE  Confirmed' >= Confirmed
  <2>1. Cited' = Previous(brief')
    BY <1>6 DEF Cited
  <2>2. Cited'.state = state /\ Cited' # None
    BY <1>4, <2>1 DEF PreviousState
  <2>3. Confirmed' = StateRank(state)
    BY <2>2 DEF Confirmed
  <2>. QED
    BY <1>3, <2>3
<1>. QED
  BY <1>5, <1>6

(* Whatever is missing, doubted, mischained or illegal in any number of     *)
(* revisions, the state on record is lowered by a refutation only.          *)
THEOREM EventMissingEvidenceNeverLowers == EventSpec => MissingEvidenceNeverLowers
<1>1. RecordInv /\ [EventNext]_eventVars => [Confirmed' >= Confirmed \/ ClearlyRefuted(brief')]_eventVars
  BY StepNeverLowers
<1>. QED
  BY <1>1, RecordStarts, RecordStep, PTL DEF EventSpec, MissingEvidenceNeverLowers

-----------------------------------------------------------------------------
(* What a case is that the four batches passed. *)

GateInput(d) ==
    Joined([context |-> ContextReport(d.industry), event |-> EventReport(d.event), graph |-> d.event.graph], d)
ValuationInput(d, gates) == Joined([upstream |-> gates], d)

LEMMA GateInputIs ==
    ASSUME NEW d, CaseParts \subseteq DOMAIN d
    PROVE  /\ GateInput(d).event = EventReport(d.event) /\ GateInput(d).graph = d.event.graph
           /\ GateInput(d).scenarios = d.scenarios
           /\ GateInput(d).baseBridge = d.baseBridge /\ GateInput(d).downsideBridge = d.downsideBridge
<1>1. {"scenarios", "baseBridge", "downsideBridge"} \subseteq DOMAIN d
  BY DEF CaseParts
<1>. QED
  BY <1>1 DEF GateInput, Joined

LEMMA ValuationInputIs ==
    ASSUME NEW d, CaseParts \subseteq DOMAIN d, NEW gates
    PROVE  /\ ValuationInput(d, gates).upstream = gates
           /\ ValuationInput(d, gates).market = d.market /\ ValuationInput(d, gates).valuation = d.valuation
           /\ ValuationInput(d, gates).price = d.price /\ ValuationInput(d, gates).plan = d.plan
           /\ ValuationInput(d, gates).expectation = d.expectation
<1>1. {"market", "valuation", "price", "plan", "expectation"} \subseteq DOMAIN d
  BY DEF CaseParts, Artifacts
<1>. QED
  BY <1>1 DEF ValuationInput, Joined

(* Where a report comes from. *)
LEMMA ReportIs ==
    ASSUME NEW d
    PROVE  \/ /\ CompleteReport(d).view = NoView /\ CompleteReport(d).label = "BLOCKED"
           \/ LET gates == GateReport(GateInput(d)) IN
              /\ Preflight(d) /\ CompleteReport(d).label = "BLOCKED"
              /\ CompleteReport(d).view = View(gates, None, None)
           \/ LET gates == GateReport(GateInput(d))
                  rest == ValuationReport(ValuationInput(d, gates))
              IN /\ Preflight(d)
                 /\ CompleteReport(d).view = View(gates, rest.three.gate, rest.four)
                 /\ CompleteReport(d).label = Aggregate(CompleteReport(d).view)
                 /\ CompleteReport(d).expectation = rest.three.expectation
<1>1. CASE ~Preflight(d)
  BY <1>1 DEF CompleteReport, Stopped
<1>. DEFINE gates == GateReport(GateInput(d))
            rest == ValuationReport(ValuationInput(d, gates))
<1>2. ASSUME Preflight(d) PROVE CompleteReport(d) = Composed(d, gates)
  BY <1>2 DEF CompleteReport, GateInput
<1>3. CASE Preflight(d) /\ ~BoundTo(d, gates)
  <2>1. CompleteReport(d) = Stopped("blocked_during_composition", View(gates, None, None))
    BY <1>2, <1>3 DEF Composed
  <2>. QED
    BY <1>3, <2>1 DEF Stopped
<1>4. CASE Preflight(d) /\ BoundTo(d, gates)
  <2>1. CompleteReport(d) = Completed(View(gates, rest.three.gate, rest.four), rest)
    BY <1>2, <1>4 DEF Composed, Continued, ValuationInput
  <2>. QED
    BY <1>4, <2>1 DEF Completed
<1>. QED
  BY <1>1, <1>3, <1>4

LEMMA ReadyMeans ==
    ASSUME NEW d, CompleteReport(d).label = "TRADE_READY"
    PROVE  LET gates == GateReport(GateInput(d))
               rest == ValuationReport(ValuationInput(d, gates))
           IN /\ Preflight(d)
              /\ CompleteReport(d).view = View(gates, rest.three.gate, rest.four)
              /\ CompleteReport(d).expectation = rest.three.expectation
              /\ gates.one = "PASS" /\ gates.scenarios = "PASS" /\ gates.two = "PASS"
              /\ rest.three.gate = "PASS" /\ rest.four = "PASS"
<1>. DEFINE gates == GateReport(GateInput(d))
            rest == ValuationReport(ValuationInput(d, gates))
            view == View(gates, rest.three.gate, rest.four)
<1>1. /\ Preflight(d) /\ CompleteReport(d).view = view /\ Aggregate(view) = "TRADE_READY"
      /\ CompleteReport(d).expectation = rest.three.expectation
  BY ReportIs
<1>2. Range(view) = {"PASS"}
  BY <1>1 DEF Aggregate
<1>3. DOMAIN view = {"one", "scenarios", "two", "three", "four"}
  BY DEF View
<1>4. \A part \in {"one", "scenarios", "two", "three", "four"} : view[part] = "PASS"
  <2>. HIDE DEF view
  <2>. QED
    BY <1>2, <1>3 DEF Range
<1>5. view.one = "PASS" /\ view.scenarios = "PASS" /\ view.two = "PASS" /\ view.three = "PASS" /\ view.four = "PASS"
  BY <1>4
<1>. QED
  BY <1>1, <1>5 DEF View

-----------------------------------------------------------------------------
(* Numbers. *)

LEMMA ReadyNumbers ==
    ASSUME NEW d, IsStage4Case(d), CompleteReport(d).label = "TRADE_READY", NEW ref \in RefersTo(d)
    PROVE  \E item \in Items(d.event) :
             /\ <<item.kind, item.id>> = ref
             /\ \E basis \in Bases(Items(d.event), item) : \A i \in basis : i.at <= d.public
<1>. DEFINE g == GateInput(d)
            gates == GateReport(g)
            e == d.event
<1>1. gates.one = "PASS" /\ gates.scenarios = "PASS" /\ Preflight(d)
  BY ReadyMeans
<1>2. /\ g.event = EventReport(e) /\ g.graph = e.graph /\ g.scenarios = d.scenarios
      /\ g.baseBridge = d.baseBridge /\ g.downsideBridge = d.downsideBridge
  BY GateInputIs DEF IsStage4Case
<1>. HIDE DEF g
<1>3. AuthenticityGate(g.context, g.event) = "PASS" /\ ScenarioValidation(g) = "PASS"
  BY <1>1, NoneIsNoApproval DEF GateReport, GatesOf
<1>4. AuditLayers(e) = "PASS"
  <2>. DEFINE upstream == {g.context.admission, g.context.historical, g.context.bottleneck, g.context.beneficiary,
                           g.event.audit, g.event.party, g.event.e4, g.event.state.outcome}
  <2>1. upstream = {"PASS"}
    BY <1>3 DEF AuthenticityGate
  <2>2. g.event.audit \in upstream
    OBVIOUS
  <2>3. g.event.audit = "PASS"
    BY <2>1, <2>2
  <2>. QED
    BY <1>2, <2>3 DEF EventReport
<1>5. ReferencesHold(g)
  BY <1>3 DEF ScenarioValidation, SetOutcome, LawfulSet
<1>6. RefersTo(g) = RefersTo(d)
  BY <1>2 DEF RefersTo
<1>7. d.scenarios.public = d.public
  BY <1>1 DEF Preflight, OnePublication
<1>8. PICK item \in Items(e) : <<item.kind, item.id>> = ref /\ item.at # None /\ item.at <= d.public
  BY <1>2, <1>5, <1>6, <1>7 DEF ReferencesHold, Items
<1>9. IsKnowledge(e) /\ d.public \in Nat
  BY DEF IsStage4Case
<1>10. item.at \in Nat
  BY <1>8, <1>9 DEF IsKnowledge, IsItem, Items, Range
<1>. DEFINE older == {j \in Items(e) : j.at \in Nat /\ j.at <= item.at}
<1>11. older \in Bases(Items(e), item)
  BY <1>4, <1>9, <1>10, OlderIsABasis
<1>12. \A i \in older : i.at <= d.public
  BY <1>8, <1>9, <1>10
<1>. HIDE DEF older
<1>. QED
  BY <1>8, <1>11, <1>12

-----------------------------------------------------------------------------
(* What a case loses of its numbers, its prices and its holding. *)

(* Two cases that differ in one of their parts.                            *)
Differs(d, c, part) == DOMAIN c = DOMAIN d /\ \A p \in DOMAIN d : p # part => c[p] = d[p]

LEMMA Replaced ==
    ASSUME NEW d, NEW part \in DOMAIN d, NEW x
    PROVE  Differs(d, [d EXCEPT ![part] = x], part) /\ [d EXCEPT ![part] = x][part] = x
BY DEF Differs

LEMMA PartsInDomain ==
    ASSUME NEW d, IsStage4Case(d)
    PROVE  {"synthetic", "case", "company", "node", "logical", "cutoff", "public", "industry", "event", "scenarios",
            "baseBridge", "downsideBridge", "basis", "binding", "profit", "cashFlow", "exit", "expectation", "market",
            "valuation", "price", "plan"} \subseteq DOMAIN d
BY DEF IsStage4Case, CaseParts, Artifacts

(* What is lost is lost of one part. *)
PartUnknown(b, n) == [b EXCEPT !.parts[n].known = FALSE]
PartWithout(b, n) == [b EXCEPT !.parts[n].interval = None]
DriverUnknown(s, k) == [s EXCEPT !.scenarios[k].drivers[1].known = FALSE]
LineMissing(s, k) == [s EXCEPT !.scenarios[k].financials.writeoff = None]
LinesUnfounded(s, k) == [s EXCEPT !.scenarios[k].financials.on = {}]

GateLoss(d, c) ==
    \/ Differs(d, c, "baseBridge") /\ \E n \in DOMAIN d.baseBridge.parts : c.baseBridge = PartUnknown(d.baseBridge, n)
    \/ /\ Differs(d, c, "downsideBridge")
       /\ \E n \in DOMAIN d.downsideBridge.parts : c.downsideBridge = PartWithout(d.downsideBridge, n)
    \/ /\ Differs(d, c, "scenarios")
       /\ \E k \in DOMAIN d.scenarios.scenarios :
              c.scenarios \in {DriverUnknown(d.scenarios, k), LineMissing(d.scenarios, k), LinesUnfounded(d.scenarios, k)}

LEMMA GateLosses ==
    ASSUME NEW d, IsStage4Case(d), NEW c \in WithheldGates(d)
    PROVE  GateLoss(d, c)
<1>1. ASSUME NEW x, c = [d EXCEPT !["baseBridge"] = x]
      PROVE  Differs(d, c, "baseBridge") /\ c.baseBridge = x
  BY <1>1, Replaced, PartsInDomain
<1>2. ASSUME NEW x, c = [d EXCEPT !["downsideBridge"] = x]
      PROVE  Differs(d, c, "downsideBridge") /\ c.downsideBridge = x
  BY <1>2, Replaced, PartsInDomain
<1>3. ASSUME NEW x, c = [d EXCEPT !["scenarios"] = x]
      PROVE  Differs(d, c, "scenarios") /\ c.scenarios = x
  BY <1>3, Replaced, PartsInDomain
<1>4. ASSUME NEW n
      PROVE  /\ [d EXCEPT !.baseBridge.parts[n].known = FALSE] = [d EXCEPT !["baseBridge"] = PartUnknown(d.baseBridge, n)]
             /\ [d EXCEPT !.downsideBridge.parts[n].interval = None]
                  = [d EXCEPT !["downsideBridge"] = PartWithout(d.downsideBridge, n)]
  BY DEF PartUnknown, PartWithout
<1>5. ASSUME NEW k
      PROVE  /\ [d EXCEPT !.scenarios.scenarios[k].drivers[1].known = FALSE]
                  = [d EXCEPT !["scenarios"] = DriverUnknown(d.scenarios, k)]
             /\ [d EXCEPT !.scenarios.scenarios[k].financials.writeoff = None]
                  = [d EXCEPT !["scenarios"] = LineMissing(d.scenarios, k)]
             /\ [d EXCEPT !.scenarios.scenarios[k].financials.on = {}]
                  = [d EXCEPT !["scenarios"] = LinesUnfounded(d.scenarios, k)]
  BY DEF DriverUnknown, LineMissing, LinesUnfounded
<1>6. \/ \E n \in DOMAIN d.baseBridge.parts : c = [d EXCEPT !.baseBridge.parts[n].known = FALSE]
      \/ \E n \in DOMAIN d.downsideBridge.parts : c = [d EXCEPT !.downsideBridge.parts[n].interval = None]
      \/ \E k \in DOMAIN d.scenarios.scenarios :
             \/ c = [d EXCEPT !.scenarios.scenarios[k].drivers[1].known = FALSE]
             \/ c = [d EXCEPT !.scenarios.scenarios[k].financials.writeoff = None]
             \/ c = [d EXCEPT !.scenarios.scenarios[k].financials.on = {}]
  BY DEF WithheldGates
<1>7. \/ \E n \in DOMAIN d.baseBridge.parts : c = [d EXCEPT !["baseBridge"] = PartUnknown(d.baseBridge, n)]
      \/ \E n \in DOMAIN d.downsideBridge.parts : c = [d EXCEPT !["downsideBridge"] = PartWithout(d.downsideBridge, n)]
      \/ \E k \in DOMAIN d.scenarios.scenarios :
             \/ c = [d EXCEPT !["scenarios"] = DriverUnknown(d.scenarios, k)]
             \/ c = [d EXCEPT !["scenarios"] = LineMissing(d.scenarios, k)]
             \/ c = [d EXCEPT !["scenarios"] = LinesUnfounded(d.scenarios, k)]
  BY <1>4, <1>5, <1>6
<1>. QED
  BY <1>1, <1>2, <1>3, <1>7 DEF GateLoss

PriorUnknown(e) == [e EXCEPT !.prior.profit = None]
AbsenceUnknown(e) == [e EXCEPT !.prior.absence = FALSE]

ValuationLoss(d, c) ==
    \/ /\ Differs(d, c, "expectation")
       /\ \/ c.expectation = PriorUnknown(d.expectation)
          \/ c.expectation = AbsenceUnknown(d.expectation)
          \/ c.expectation = [d.expectation EXCEPT !.covered = FALSE]
    \/ /\ Differs(d, c, "market")
       /\ \/ c.market = [d.market EXCEPT !.price = None]
          \/ c.market = [d.market EXCEPT !.turnover = None]
    \/ /\ Differs(d, c, "valuation")
       /\ \/ c.valuation = [d.valuation EXCEPT !.business = None]
          \/ c.valuation = [d.valuation EXCEPT !.event = None]
          \/ c.valuation = [d.valuation EXCEPT !.values = None]
          \/ c.valuation = [d.valuation EXCEPT !.shares = None]
    \/ /\ Differs(d, c, "price")
       /\ \/ c.price = [d.price EXCEPT !.price = None]
          \/ c.price = [d.price EXCEPT !.slippage = None]
    \/ /\ Differs(d, c, "plan")
       /\ \/ c.plan = [d.plan EXCEPT !.days = None]
          \/ c.plan = [d.plan EXCEPT !.falsifiers = 0]

LEMMA ValuationLosses ==
    ASSUME NEW d, IsStage4Case(d), NEW c \in WithheldValuation(d)
    PROVE  ValuationLoss(d, c)
<1>1. \/ c = [d EXCEPT !["expectation"] = PriorUnknown(d.expectation)]
      \/ c = [d EXCEPT !["expectation"] = AbsenceUnknown(d.expectation)]
      \/ c = [d EXCEPT !["expectation"] = [d.expectation EXCEPT !.covered = FALSE]]
      \/ c = [d EXCEPT !["market"] = [d.market EXCEPT !.price = None]]
      \/ c = [d EXCEPT !["market"] = [d.market EXCEPT !.turnover = None]]
      \/ c = [d EXCEPT !["valuation"] = [d.valuation EXCEPT !.business = None]]
      \/ c = [d EXCEPT !["valuation"] = [d.valuation EXCEPT !.event = None]]
      \/ c = [d EXCEPT !["valuation"] = [d.valuation EXCEPT !.values = None]]
      \/ c = [d EXCEPT !["valuation"] = [d.valuation EXCEPT !.shares = None]]
      \/ c = [d EXCEPT !["price"] = [d.price EXCEPT !.price = None]]
      \/ c = [d EXCEPT !["price"] = [d.price EXCEPT !.slippage = None]]
      \/ c = [d EXCEPT !["plan"] = [d.plan EXCEPT !.days = None]]
      \/ c = [d EXCEPT !["plan"] = [d.plan EXCEPT !.falsifiers = 0]]
  BY DEF WithheldValuation, PriorUnknown, AbsenceUnknown
<1>. USE PartsInDomain
<1>2. ASSUME NEW x, c = [d EXCEPT !["expectation"] = x]
      PROVE  Differs(d, c, "expectation") /\ c.expectation = x
  BY <1>2, Replaced
<1>3. ASSUME NEW x, c = [d EXCEPT !["market"] = x]
      PROVE  Differs(d, c, "market") /\ c.market = x
  BY <1>3, Replaced
<1>4. ASSUME NEW x, c = [d EXCEPT !["valuation"] = x]
      PROVE  Differs(d, c, "valuation") /\ c.valuation = x
  BY <1>4, Replaced
<1>5. ASSUME NEW x, c = [d EXCEPT !["price"] = x]
      PROVE  Differs(d, c, "price") /\ c.price = x
  BY <1>5, Replaced
<1>6. ASSUME NEW x, c = [d EXCEPT !["plan"] = x]
      PROVE  Differs(d, c, "plan") /\ c.plan = x
  BY <1>6, Replaced
<1>7. CASE \/ c = [d EXCEPT !["expectation"] = PriorUnknown(d.expectation)]
          \/ c = [d EXCEPT !["expectation"] = AbsenceUnknown(d.expectation)]
          \/ c = [d EXCEPT !["expectation"] = [d.expectation EXCEPT !.covered = FALSE]]
  BY <1>2, <1>7 DEF ValuationLoss
<1>8. CASE \/ c = [d EXCEPT !["market"] = [d.market EXCEPT !.price = None]]
          \/ c = [d EXCEPT !["market"] = [d.market EXCEPT !.turnover = None]]
  BY <1>3, <1>8 DEF ValuationLoss
<1>9. CASE \/ c = [d EXCEPT !["valuation"] = [d.valuation EXCEPT !.business = None]]
          \/ c = [d EXCEPT !["valuation"] = [d.valuation EXCEPT !.event = None]]
          \/ c = [d EXCEPT !["valuation"] = [d.valuation EXCEPT !.values = None]]
          \/ c = [d EXCEPT !["valuation"] = [d.valuation EXCEPT !.shares = None]]
  BY <1>4, <1>9 DEF ValuationLoss
<1>10. CASE \/ c = [d EXCEPT !["price"] = [d.price EXCEPT !.price = None]]
          \/ c = [d EXCEPT !["price"] = [d.price EXCEPT !.slippage = None]]
  BY <1>5, <1>10 DEF ValuationLoss
<1>11. CASE \/ c = [d EXCEPT !["plan"] = [d.plan EXCEPT !.days = None]]
          \/ c = [d EXCEPT !["plan"] = [d.plan EXCEPT !.falsifiers = 0]]
  BY <1>6, <1>11 DEF ValuationLoss
<1>. QED
  BY <1>1, <1>7, <1>8, <1>9, <1>10, <1>11

WithheldHolding(e) ==
    {[e EXCEPT !.elapsed = None], [e EXCEPT !.verified = None], [e EXCEPT !.calendar = FALSE],
     [e EXCEPT !.cap = None], [e EXCEPT !.newEvidence = None], [e EXCEPT !.reunderwritten = None]}
    \cup {[e EXCEPT !.triggers = @ \ {t}] : t \in e.triggers}
    \cup {[e EXCEPT !.triggers = (@ \ {t}) \cup {[t EXCEPT !.facts = FALSE]}] : t \in e.triggers}
    \cup {[e EXCEPT !.snapshot = [e.snapshot EXCEPT !.loss = None]] : k \in {k \in {1} : e.snapshot # None}}

LEMMA ExitLosses ==
    ASSUME NEW d, IsStage4Case(d), NEW c \in WithheldExit(d)
    PROVE  Differs(d, c, "exit") /\ c.exit \in WithheldHolding(d.exit)
<1>1. \E x \in WithheldHolding(d.exit) : c = [d EXCEPT !["exit"] = x]
  <2>1. \/ c = [d EXCEPT !.exit.elapsed = None] \/ c = [d EXCEPT !.exit.verified = None]
        \/ c = [d EXCEPT !.exit.calendar = FALSE] \/ c = [d EXCEPT !.exit.cap = None]
        \/ c = [d EXCEPT !.exit.newEvidence = None] \/ c = [d EXCEPT !.exit.reunderwritten = None]
        \/ \E t \in d.exit.triggers : c = [d EXCEPT !.exit.triggers = @ \ {t}]
        \/ \E t \in d.exit.triggers : c = [d EXCEPT !.exit.triggers = (@ \ {t}) \cup {[t EXCEPT !.facts = FALSE]}]
        \/ c = [d EXCEPT !.exit.snapshot.loss = None] /\ Snapshots(d) # <<>>
    BY DEF WithheldExit, Range
  <2>2. /\ [d EXCEPT !.exit.elapsed = None] = [d EXCEPT !["exit"] = [d.exit EXCEPT !.elapsed = None]]
        /\ [d EXCEPT !.exit.verified = None] = [d EXCEPT !["exit"] = [d.exit EXCEPT !.verified = None]]
        /\ [d EXCEPT !.exit.calendar = FALSE] = [d EXCEPT !["exit"] = [d.exit EXCEPT !.calendar = FALSE]]
        /\ [d EXCEPT !.exit.cap = None] = [d EXCEPT !["exit"] = [d.exit EXCEPT !.cap = None]]
        /\ [d EXCEPT !.exit.newEvidence = None] = [d EXCEPT !["exit"] = [d.exit EXCEPT !.newEvidence = None]]
        /\ [d EXCEPT !.exit.reunderwritten = None] = [d EXCEPT !["exit"] = [d.exit EXCEPT !.reunderwritten = None]]
        /\ [d EXCEPT !.exit.snapshot.loss = None]
             = [d EXCEPT !["exit"] = [d.exit EXCEPT !.snapshot = [d.exit.snapshot EXCEPT !.loss = None]]]
    OBVIOUS
  <2>3. ASSUME NEW t
        PROVE  /\ [d EXCEPT !.exit.triggers = @ \ {t}] = [d EXCEPT !["exit"] = [d.exit EXCEPT !.triggers = @ \ {t}]]
               /\ [d EXCEPT !.exit.triggers = (@ \ {t}) \cup {[t EXCEPT !.facts = FALSE]}]
                    = [d EXCEPT !["exit"] = [d.exit EXCEPT !.triggers = (@ \ {t}) \cup {[t EXCEPT !.facts = FALSE]}]]
    OBVIOUS
  <2>4. Snapshots(d) # <<>> => 1 \in {k \in {1} : d.exit.snapshot # None}
    BY DEF Snapshots
  <2>. QED
    BY <2>1, <2>2, <2>3, <2>4 DEF WithheldHolding
<1>2. PICK x \in WithheldHolding(d.exit) : c = [d EXCEPT !["exit"] = x]
  BY <1>1
<1>3. Differs(d, c, "exit") /\ c.exit = x
  BY <1>2, Replaced, PartsInDomain
<1>. QED
  BY <1>2, <1>3

(* A component that is not known lets a bridge no longer pass.             *)
LEMMA BridgeLosses ==
    ASSUME NEW b, IsBridge(b), NEW n \in DOMAIN b.parts, NEW c \in {PartUnknown(b, n), PartWithout(b, n)}
    PROVE  IsBridge(c) /\ BridgeOutcome(c) # "PASS"
<1>. DEFINE part == c.parts[n]
<1>1. "parts" \in DOMAIN b /\ "known" \in DOMAIN b.parts[n] /\ "interval" \in DOMAIN b.parts[n]
  BY DEF IsBridge
<1>2. CASE c = PartUnknown(b, n)
  <2>1. "parts" \in DOMAIN c /\ c.parts = [b.parts EXCEPT ![n].known = FALSE]
    BY <1>1, <1>2 DEF PartUnknown
  <2>2. DOMAIN c.parts = DOMAIN b.parts /\ part = [b.parts[n] EXCEPT !.known = FALSE]
    BY <2>1
  <2>3. ASSUME NEW m \in DOMAIN b.parts
        PROVE  {"known", "interval"} \subseteq DOMAIN c.parts[m] /\ IsEstimate(c.parts[m].interval)
    <3>1. {"known", "interval"} \subseteq DOMAIN b.parts[m] /\ IsEstimate(b.parts[m].interval)
      BY DEF IsBridge
    <3>2. c.parts[m] = IF m = n THEN [b.parts[m] EXCEPT !.known = FALSE] ELSE b.parts[m]
      BY <2>1
    <3>. QED
      BY <3>1, <3>2
  <2>4. part \in Range(c.parts) /\ ~part.known
    BY <1>1, <2>2 DEF Range
  <2>5. IsBridge(c)
    BY <2>1, <2>2, <2>3 DEF IsBridge
  <2>. HIDE DEF part
  <2>. QED
    BY <2>4, <2>5 DEF BridgeOutcome
<1>3. CASE c = PartWithout(b, n)
  <2>1. "parts" \in DOMAIN c /\ c.parts = [b.parts EXCEPT ![n].interval = None]
    BY <1>1, <1>3 DEF PartWithout
  <2>2. DOMAIN c.parts = DOMAIN b.parts /\ part = [b.parts[n] EXCEPT !.interval = None]
    BY <2>1
  <2>3. ASSUME NEW m \in DOMAIN b.parts
        PROVE  {"known", "interval"} \subseteq DOMAIN c.parts[m] /\ IsEstimate(c.parts[m].interval)
    <3>1. {"known", "interval"} \subseteq DOMAIN b.parts[m] /\ IsEstimate(b.parts[m].interval)
      BY DEF IsBridge
    <3>2. c.parts[m] = IF m = n THEN [b.parts[m] EXCEPT !.interval = None] ELSE b.parts[m]
      BY <2>1
    <3>. QED
      BY <3>1, <3>2 DEF IsEstimate
  <2>4. part \in Range(c.parts) /\ part.interval = None
    BY <1>1, <2>2 DEF Range
  <2>5. IsBridge(c)
    BY <2>1, <2>2, <2>3 DEF IsBridge
  <2>. HIDE DEF part
  <2>. QED
    BY <2>4, <2>5 DEF BridgeOutcome
<1>. QED
  BY <1>2, <1>3

(* A driver that is not known, or a financial line that is missing, lets a *)
(* scenario no longer pass.                                                *)
LEMMA ScenarioOutcomeIs ==
    ASSUME NEW s, NEW set, IsList(s.drivers), ScenarioOutcome(s, set) = "PASS"
    PROVE  /\ s.drivers[1].known /\ 1 \in DOMAIN s.drivers
           /\ Supported(s.financials.on) /\ \A line \in DOMAIN s.financials : s.financials[line] # None
<1>. DEFINE outcomes == [k \in DOMAIN s.drivers |-> DriverOutcome(s.drivers[k], s, set)]
            n == Cardinality(DOMAIN s.drivers)
<1>1. DriversOutcome(s) = "PASS" /\ FirstFault(outcomes) = "PASS" /\ FinancialsOutcome(s.financials) = "PASS"
  BY DEF ScenarioOutcome
<1>2. n \in Nat /\ DOMAIN s.drivers = 1..n
  BY DEF IsList
<1>3. NamesOf(s) = DriverNames
  BY <1>1 DEF DriversOutcome
<1>4. 1 \in DOMAIN s.drivers
  <2>1. DOMAIN s.drivers # {}
    BY <1>3 DEF NamesOf, DriverNames, Range
  <2>. HIDE DEF n
  <2>. QED
    BY <1>2, <2>1
<1>5. outcomes[1] = "PASS"
  <2>1. DOMAIN outcomes \subseteq Nat /\ 1 \in DOMAIN outcomes
    BY <1>2, <1>4
  <2>. HIDE DEF outcomes
  <2>. QED
    BY <1>1, <2>1, FaultsNone
<1>6. DriverOutcome(s.drivers[1], s, set) = "PASS"
  BY <1>4, <1>5
<1>7. s.drivers[1].known
  BY <1>6 DEF DriverOutcome
<1>8. Supported(s.financials.on) /\ \A line \in DOMAIN s.financials : s.financials[line] # None
  BY <1>1 DEF FinancialsOutcome
<1>. QED
  BY <1>4, <1>7, <1>8

LEMMA ScenarioLosses ==
    ASSUME NEW s, IsScenario(s), NEW set,
           NEW t \in {[s EXCEPT !.drivers[1].known = FALSE], [s EXCEPT !.financials.writeoff = None],
                      [s EXCEPT !.financials.on = {}]}
    PROVE  IsScenario(t) /\ ScenarioOutcome(t, set) # "PASS"
<1>1. /\ "drivers" \in DOMAIN s /\ "financials" \in DOMAIN s /\ "writeoff" \in DOMAIN s.financials /\ "on" \in DOMAIN s.financials
      /\ IsList(s.drivers) /\ \A n \in DOMAIN s.drivers : "known" \in DOMAIN s.drivers[n]
  BY DEF IsScenario
<1>2. CASE t = [s EXCEPT !.drivers[1].known = FALSE]
  <2>1. /\ DOMAIN t = DOMAIN s /\ t.financials = s.financials
        /\ t.drivers = [s.drivers EXCEPT ![1].known = FALSE]
    BY <1>1, <1>2
  <2>2. DOMAIN t.drivers = DOMAIN s.drivers
    BY <2>1
  <2>3. ASSUME NEW n \in DOMAIN s.drivers
        PROVE  "known" \in DOMAIN t.drivers[n]
    <3>1. t.drivers[n] = IF n = 1 THEN [s.drivers[n] EXCEPT !.known = FALSE] ELSE s.drivers[n]
      BY <2>1
    <3>. QED
      BY <1>1, <3>1
  <2>4. IsList(t.drivers)
    BY <1>1, <2>2 DEF IsList
  <2>5. 1 \in DOMAIN s.drivers => ~t.drivers[1].known
    BY <1>1, <2>1
  <2>6. IsScenario(t)
    BY <1>1, <2>1, <2>2, <2>3, <2>4 DEF IsScenario
  <2>. QED
    BY <2>2, <2>4, <2>5, <2>6, ScenarioOutcomeIs
<1>3. CASE t = [s EXCEPT !.financials.writeoff = None]
  <2>1. /\ DOMAIN t = DOMAIN s /\ t.drivers = s.drivers
        /\ t.financials = [s.financials EXCEPT !.writeoff = None]
    BY <1>1, <1>3
  <2>2. DOMAIN t.financials = DOMAIN s.financials /\ t.financials["writeoff"] = None
    BY <1>1, <2>1
  <2>3. IsScenario(t)
    BY <1>1, <2>1, <2>2 DEF IsScenario
  <2>. QED
    BY <1>1, <2>1, <2>2, <2>3, ScenarioOutcomeIs
<1>4. CASE t = [s EXCEPT !.financials.on = {}]
  <2>1. /\ DOMAIN t = DOMAIN s /\ t.drivers = s.drivers
        /\ t.financials = [s.financials EXCEPT !.on = {}]
    BY <1>1, <1>4
  <2>2. DOMAIN t.financials = DOMAIN s.financials /\ ~Supported(t.financials.on)
    BY <1>1, <2>1 DEF Supported
  <2>3. IsScenario(t)
    BY <1>1, <2>1, <2>2 DEF IsScenario
  <2>. QED
    BY <1>1, <2>1, <2>2, <2>3, ScenarioOutcomeIs
<1>. QED
  BY <1>2, <1>3, <1>4

LEMMA ScenarioSetLosses ==
    ASSUME NEW s, IsScenarioSet(s), NEW k \in DOMAIN s.scenarios,
           NEW c \in {DriverUnknown(s, k), LineMissing(s, k), LinesUnfounded(s, k)}
    PROVE  IsScenarioSet(c) /\ \A g : g.scenarios = c => ScenarioValidation(g) # "PASS"
<1>1. "scenarios" \in DOMAIN s /\ IsList(s.scenarios) /\ \A n \in DOMAIN s.scenarios : IsScenario(s.scenarios[n])
  BY DEF IsScenarioSet
<1>2. PICK t \in {[s.scenarios[k] EXCEPT !.drivers[1].known = FALSE], [s.scenarios[k] EXCEPT !.financials.writeoff = None],
                  [s.scenarios[k] EXCEPT !.financials.on = {}]} :
          c = [s EXCEPT !.scenarios = [s.scenarios EXCEPT ![k] = t]]
  <2>1. DriverUnknown(s, k) = [s EXCEPT !.scenarios = [s.scenarios EXCEPT ![k] = [s.scenarios[k] EXCEPT !.drivers[1].known = FALSE]]]
    BY DEF DriverUnknown
  <2>2. LineMissing(s, k) = [s EXCEPT !.scenarios = [s.scenarios EXCEPT ![k] = [s.scenarios[k] EXCEPT !.financials.writeoff = None]]]
    BY DEF LineMissing
  <2>3. LinesUnfounded(s, k) = [s EXCEPT !.scenarios = [s.scenarios EXCEPT ![k] = [s.scenarios[k] EXCEPT !.financials.on = {}]]]
    BY DEF LinesUnfounded
  <2>. QED
    BY <2>1, <2>2, <2>3
<1>3. IsScenario(t) /\ \A set : ScenarioOutcome(t, set) # "PASS"
  BY <1>1, ScenarioLosses
<1>4. "scenarios" \in DOMAIN c /\ c.scenarios = [s.scenarios EXCEPT ![k] = t]
  BY <1>1, <1>2
<1>5. DOMAIN c.scenarios = DOMAIN s.scenarios /\ c.scenarios[k] = t
  BY <1>4
<1>6. IsScenarioSet(c)
  BY <1>1, <1>3, <1>4, <1>5 DEF IsScenarioSet, IsList
<1>7. ASSUME NEW g, g.scenarios = c, ScenarioValidation(g) = "PASS"
      PROVE  FALSE
  <2>. DEFINE outcomes == [n \in DOMAIN c.scenarios |-> ScenarioOutcome(c.scenarios[n], c)]
  <2>1. FirstFault(outcomes) = "PASS"
    BY <1>7 DEF ScenarioValidation
  <2>2. DOMAIN outcomes \subseteq Nat /\ k \in DOMAIN outcomes /\ outcomes[k] = ScenarioOutcome(t, c)
    BY <1>1, <1>5 DEF IsList
  <2>. HIDE DEF outcomes
  <2>. QED
    BY <1>3, <2>1, <2>2, FaultsNone
<1>. QED
  BY <1>6, <1>7

LEMMA ValuationLossesKeep ==
    ASSUME NEW d, IsStage4Case(d), NEW c, ValuationLoss(d, c)
    PROVE  \/ Differs(d, c, "expectation") /\ IsExpectation(c.expectation)
           \/ Differs(d, c, "market") /\ IsMarketContext(c.market)
           \/ Differs(d, c, "valuation") /\ IsValuation(c.valuation)
           \/ Differs(d, c, "price") /\ IsPriceAssumption(c.price)
           \/ Differs(d, c, "plan") /\ IsPlan(c.plan)
<1>1. /\ IsExpectation(d.expectation) /\ IsMarketContext(d.market) /\ IsValuation(d.valuation)
      /\ IsPriceAssumption(d.price) /\ IsPlan(d.plan)
  BY DEF IsStage4Case
<1>2. IsExpectation(PriorUnknown(d.expectation)) /\ IsExpectation(AbsenceUnknown(d.expectation))
  <2>1. ASSUME NEW e \in {PriorUnknown(d.expectation), AbsenceUnknown(d.expectation)}
        PROVE  DOMAIN e = DOMAIN d.expectation /\ DOMAIN e.prior = DOMAIN d.expectation.prior
    BY <1>1 DEF PriorUnknown, AbsenceUnknown, IsExpectation
  <2>. QED
    BY <1>1, <2>1 DEF IsExpectation
<1>3. IsExpectation([d.expectation EXCEPT !.covered = FALSE])
  BY <1>1 DEF IsExpectation
<1>4. /\ IsMarketContext([d.market EXCEPT !.price = None])
      /\ IsMarketContext([d.market EXCEPT !.turnover = None])
  BY <1>1 DEF IsMarketContext, IsAmount
<1>5. /\ IsValuation([d.valuation EXCEPT !.business = None])
      /\ IsValuation([d.valuation EXCEPT !.event = None])
      /\ IsValuation([d.valuation EXCEPT !.values = None])
      /\ IsValuation([d.valuation EXCEPT !.shares = None])
  BY <1>1 DEF IsValuation, IsAmount, IsEstimate
<1>6. /\ IsPriceAssumption([d.price EXCEPT !.price = None])
      /\ IsPriceAssumption([d.price EXCEPT !.slippage = None])
  BY <1>1 DEF IsPriceAssumption, IsAmount
<1>7. IsPlan([d.plan EXCEPT !.days = None]) /\ IsPlan([d.plan EXCEPT !.falsifiers = 0])
  BY <1>1 DEF IsPlan
<1>. QED
  BY <1>2, <1>3, <1>4, <1>5, <1>6, <1>7 DEF ValuationLoss

LEMMA LossUnknown ==
    ASSUME NEW h \in Holdings
    PROVE  LET less == [h EXCEPT !.loss = None] IN
           /\ less \in Holdings /\ less # None /\ less.loss = None
           /\ \A f \in DOMAIN h : f # "loss" => less[f] = h[f]
           /\ {"case", "bound", "synthetic", "executes", "intact", "asOf", "cutoff", "loss", "budget"} = DOMAIN h
BY NoneIsNoApproval DEF Holdings

LEMMA HoldingKept ==
    ASSUME NEW e, IsExit(e), NEW w \in WithheldHolding(e)
    PROVE  IsExit(w)
<1>1. /\ {"holding", "snapshot", "triggers", "elapsed", "calendar", "verified", "cap", "baseValue", "newEvidence",
          "reunderwritten"} \subseteq DOMAIN e
      /\ \A t \in e.triggers : IsTrigger(t)
  BY DEF IsExit
<1>2. ASSUME DOMAIN w = DOMAIN e, w.snapshot = e.snapshot, w.triggers = e.triggers
      PROVE  IsExit(w)
  BY <1>2 DEF IsExit
<1>3. CASE w \in {[e EXCEPT !.elapsed = None], [e EXCEPT !.verified = None], [e EXCEPT !.calendar = FALSE],
                  [e EXCEPT !.cap = None], [e EXCEPT !.newEvidence = None], [e EXCEPT !.reunderwritten = None]}
  <2>1. DOMAIN w = DOMAIN e /\ w.snapshot = e.snapshot /\ w.triggers = e.triggers
    BY <1>1, <1>3
  <2>. QED
    BY <1>2, <2>1
<1>4. ASSUME NEW T, \A t \in T : IsTrigger(t), w = [e EXCEPT !.triggers = T]
      PROVE  IsExit(w)
  <2>1. DOMAIN w = DOMAIN e /\ w.snapshot = e.snapshot /\ w.triggers = T
    BY <1>1, <1>4
  <2>. QED
    BY <1>4, <2>1 DEF IsExit
<1>5. ASSUME NEW t \in e.triggers
      PROVE  IsTrigger([t EXCEPT !.facts = FALSE])
  BY <1>1 DEF IsTrigger
<1>6. ASSUME NEW t \in e.triggers,
             \/ w = [e EXCEPT !.triggers = @ \ {t}]
             \/ w = [e EXCEPT !.triggers = (@ \ {t}) \cup {[t EXCEPT !.facts = FALSE]}]
      PROVE  IsExit(w)
  <2>1. \/ w = [e EXCEPT !.triggers = e.triggers \ {t}]
        \/ w = [e EXCEPT !.triggers = (e.triggers \ {t}) \cup {[t EXCEPT !.facts = FALSE]}]
    BY <1>6
  <2>2. /\ \A u \in e.triggers \ {t} : IsTrigger(u)
        /\ \A u \in (e.triggers \ {t}) \cup {[t EXCEPT !.facts = FALSE]} : IsTrigger(u)
    BY <1>1, <1>5
  <2>3. CASE w = [e EXCEPT !.triggers = e.triggers \ {t}]
    BY <1>4, <2>2, <2>3
  <2>4. CASE w = [e EXCEPT !.triggers = (e.triggers \ {t}) \cup {[t EXCEPT !.facts = FALSE]}]
    BY <1>4, <2>2, <2>4
  <2>. QED
    BY <2>1, <2>3, <2>4
<1>7. CASE e.snapshot # None /\ w = [e EXCEPT !.snapshot = [e.snapshot EXCEPT !.loss = None]]
  <2>1. DOMAIN w = DOMAIN e /\ w.snapshot = [e.snapshot EXCEPT !.loss = None] /\ w.triggers = e.triggers
    BY <1>1, <1>7
  <2>2. w.snapshot \in Holdings
    BY <1>7, <2>1, LossUnknown DEF IsExit
  <2>. QED
    BY <2>1, <2>2 DEF IsExit
<1>. QED
  BY <1>3, <1>6, <1>7 DEF WithheldHolding

-----------------------------------------------------------------------------
(* What an event and its industry are that gate 1 passed, and what they lose. *)

(* What gate 1 has passed. *)
EventPassing(e) ==
    /\ AuditLayers(e) = "PASS" /\ PartyOutcome(e) = "PASS" /\ E4Outcome(e) = "PASS" /\ IndependentEvidence(e)
    /\ EventStateOf(e).outcome = "PASS" /\ "E4" \in EventStateOf(e).attained

IndustryPassing(i) ==
    LET r == ContextReport(i) IN
    /\ r.historical = "PASS" /\ r.admission = "PASS" /\ r.bottleneck = "PASS" /\ r.beneficiary = "PASS"
    /\ r.tier = "profit_beneficiary" /\ r.eligible

LEMMA EventReportIs ==
    ASSUME NEW e
    PROVE  LET r == EventReport(e) IN
           EventPassing(e) <=>
             /\ r.audit = "PASS" /\ r.party = "PASS" /\ r.e4 = "PASS" /\ r.corroborated
             /\ r.state.outcome = "PASS" /\ "E4" \in r.state.attained
<1>. DEFINE r == EventReport(e)
            audit == AuditLayers(e)
            party == IF audit = "PASS" THEN PartyOutcome(e) ELSE None
            evaluated == party \notin {None, "BLOCKED"}
<1>1. /\ r.audit = audit /\ r.party = party
      /\ r.state = (IF evaluated THEN EventStateOf(e) ELSE NoState)
      /\ r.e4 = (IF evaluated THEN E4Outcome(e) ELSE None)
      /\ r.corroborated = (evaluated /\ IndependentEvidence(e))
  BY DEF EventReport
<1>2. party = "PASS" => evaluated /\ audit = "PASS" /\ party = PartyOutcome(e)
  BY NoneIsNoApproval
<1>3. audit = "PASS" => party = PartyOutcome(e)
  OBVIOUS
<1>. HIDE DEF r, evaluated, audit, party
<1>4. audit = AuditLayers(e)
  BY DEF audit
<1>. QED
  BY <1>1, <1>2, <1>3, <1>4 DEF EventPassing, r

LEMMA AuthenticIs ==
    ASSUME NEW i, NEW e
    PROVE  AuthenticityGate(ContextReport(i), EventReport(e)) = "PASS" <=> IndustryPassing(i) /\ EventPassing(e)
<1>. DEFINE context == ContextReport(i)
            event == EventReport(e)
            upstream == {context.admission, context.historical, context.bottleneck, context.beneficiary,
                         event.audit, event.party, event.e4, event.state.outcome}
<1>1. upstream = {"PASS"} <=>
        /\ context.admission = "PASS" /\ context.historical = "PASS" /\ context.bottleneck = "PASS"
        /\ context.beneficiary = "PASS"
        /\ event.audit = "PASS" /\ event.party = "PASS" /\ event.e4 = "PASS" /\ event.state.outcome = "PASS"
  <2>. HIDE DEF context, event
  <2>. QED
    OBVIOUS
<1>2. EventPassing(e) <=>
        /\ event.audit = "PASS" /\ event.party = "PASS" /\ event.e4 = "PASS" /\ event.corroborated
        /\ event.state.outcome = "PASS" /\ "E4" \in event.state.attained
  BY EventReportIs
<1>3. IndustryPassing(i) <=>
        /\ context.historical = "PASS" /\ context.admission = "PASS" /\ context.bottleneck = "PASS"
        /\ context.beneficiary = "PASS" /\ context.tier = "profit_beneficiary" /\ context.eligible
  BY DEF IndustryPassing
<1>. HIDE DEF context, event
<1>. SUFFICES AuthenticityGate(context, event) = "PASS" <=> IndustryPassing(i) /\ EventPassing(e)
  BY DEF context, event
<1>. QED
  BY <1>1, <1>2, <1>3 DEF AuthenticityGate

LEMMA ContextReportIs ==
    ASSUME NEW i, IndustryPassing(i)
    PROVE  /\ HistoricalContext(i.context) = "PASS" /\ ContextAdmission(i.context) = "PASS"
           /\ IndustryBottleneck(i.bottleneck) = "PASS" /\ BeneficiaryMapping(i.beneficiary).outcome = "PASS"
<1>. DEFINE historical == HistoricalContext(i.context)
            admission == IF historical = "PASS" THEN ContextAdmission(i.context) ELSE None
            bottleneck == IF admission = "PASS" THEN IndustryBottleneck(i.bottleneck) ELSE None
            beneficiary == IF bottleneck = "PASS" THEN BeneficiaryMapping(i.beneficiary) ELSE Mapped(None, "none")
<1>1. historical = "PASS" /\ admission = "PASS" /\ bottleneck = "PASS" /\ beneficiary.outcome = "PASS"
  BY DEF IndustryPassing, ContextReport
<1>2. admission = ContextAdmission(i.context) /\ bottleneck = IndustryBottleneck(i.bottleneck)
      /\ beneficiary = BeneficiaryMapping(i.beneficiary)
  BY <1>1
<1>. QED
  BY <1>1, <1>2

(* A binding, an area or a claim about the industry that is doubted lets it *)
(* no longer pass.                                                          *)
LEMMA BindingDoubted ==
    ASSUME NEW view, NEW k \in DOMAIN view.bindings, view.bindings[k].conclusion = "UNKNOWN"
    PROVE  HistoricalContext(view) # "PASS"
<1>1. "UNKNOWN" \in Concluded4A1(Range(view.bindings)) \cap Open
  BY DEF Concluded4A1, Range, Open
<1>. QED
  BY <1>1 DEF HistoricalContext

LEMMA BottleneckDoubted ==
    ASSUME NEW claims, NEW n \in DOMAIN claims, claims[n].conclusion = "UNKNOWN"
    PROVE  IndustryBottleneck(claims) # "PASS"
<1>1. "UNKNOWN" \in Concluded4A1(Range(claims)) \cap Open
  BY DEF Concluded4A1, Range, Open
<1>. QED
  BY <1>1 DEF IndustryBottleneck

LEMMA BeneficiaryDoubted ==
    ASSUME NEW claims, NEW n \in ProfitClaims \cup {"technical", "supplier"}, claims[n].conclusion = "UNKNOWN"
    PROVE  BeneficiaryMapping(claims).outcome # "PASS"
<1>1. \A outcome, tier : Mapped(outcome, tier).outcome = outcome
  BY DEF Mapped
<1>2. n \in ProfitClaims => "UNKNOWN" \in Concluded4A1(Of(claims, ProfitClaims)) \cap Open
  BY DEF Concluded4A1, Of, Open
<1>3. CASE n \in ProfitClaims
  BY <1>1, <1>2, <1>3 DEF BeneficiaryMapping
<1>4. CASE n = "technical"
  BY <1>1, <1>4 DEF BeneficiaryMapping
<1>5. CASE n = "supplier"
  BY <1>1, <1>5 DEF BeneficiaryMapping
<1>. QED
  BY <1>3, <1>4, <1>5

BindingUnknown(view, k) == [view EXCEPT !.bindings[k].conclusion = "UNKNOWN"]

LEMMA IndustryLosses ==
    ASSUME NEW i, IsIndustry(i), NEW w \in WithheldIndustry(i)
    PROVE  IsIndustry(w) /\ ~IndustryPassing(w)
<1>1. \/ \E k \in DOMAIN i.context.bindings : w = [i EXCEPT !.context = BindingUnknown(i.context, k)]
      \/ w = [i EXCEPT !.context = [i.context EXCEPT !.coverage = @ \cup {"UNKNOWN"}]]
      \/ w = [i EXCEPT !.context = [i.context EXCEPT !.covered = FALSE]]
      \/ \E n \in DOMAIN i.bottleneck : w = [i EXCEPT !.bottleneck = Doubtful(i.bottleneck, n)]
      \/ \E n \in DOMAIN i.beneficiary : w = [i EXCEPT !.beneficiary = Doubtful(i.beneficiary, n)]
  <2>1. \/ \E k \in DOMAIN i.context.bindings : w = [i EXCEPT !.context.bindings[k].conclusion = "UNKNOWN"]
        \/ w = [i EXCEPT !.context.coverage = @ \cup {"UNKNOWN"}]
        \/ w = [i EXCEPT !.context.covered = FALSE]
        \/ \E n \in DOMAIN i.bottleneck : w = [i EXCEPT !.bottleneck = Doubtful(@, n)]
        \/ \E n \in DOMAIN i.beneficiary : w = [i EXCEPT !.beneficiary = Doubtful(@, n)]
    BY DEF WithheldIndustry
  <2>2. ASSUME NEW k
        PROVE  [i EXCEPT !.context.bindings[k].conclusion = "UNKNOWN"] = [i EXCEPT !.context = BindingUnknown(i.context, k)]
    BY DEF BindingUnknown
  <2>3. /\ [i EXCEPT !.context.coverage = @ \cup {"UNKNOWN"}]
             = [i EXCEPT !.context = [i.context EXCEPT !.coverage = @ \cup {"UNKNOWN"}]]
        /\ [i EXCEPT !.context.covered = FALSE] = [i EXCEPT !.context = [i.context EXCEPT !.covered = FALSE]]
    OBVIOUS
  <2>4. ASSUME NEW n
        PROVE  /\ [i EXCEPT !.bottleneck = Doubtful(@, n)] = [i EXCEPT !.bottleneck = Doubtful(i.bottleneck, n)]
               /\ [i EXCEPT !.beneficiary = Doubtful(@, n)] = [i EXCEPT !.beneficiary = Doubtful(i.beneficiary, n)]
    OBVIOUS
  <2>. QED
    BY <2>1, <2>2, <2>3, <2>4
<1>2. /\ {"context", "bottleneck", "beneficiary"} \subseteq DOMAIN i
      /\ {"bindings", "coverage", "covered"} \subseteq DOMAIN i.context
      /\ \A k \in DOMAIN i.context.bindings : "conclusion" \in DOMAIN i.context.bindings[k]
      /\ DOMAIN i.bottleneck = BottleneckCore \cup {"dissolution"}
      /\ DOMAIN i.beneficiary = ProfitClaims \cup {"technical", "supplier"}
  BY DEF IsIndustry
<1>3. ASSUME NEW view, w = [i EXCEPT !.context = view]
      PROVE  DOMAIN w = DOMAIN i /\ w.context = view /\ w.bottleneck = i.bottleneck /\ w.beneficiary = i.beneficiary
  BY <1>2, <1>3
<1>4. ASSUME NEW k \in DOMAIN i.context.bindings, w = [i EXCEPT !.context = BindingUnknown(i.context, k)]
      PROVE  IsIndustry(w) /\ ~IndustryPassing(w)
  <2>. DEFINE view == BindingUnknown(i.context, k)
  <2>1. DOMAIN view = DOMAIN i.context /\ view.bindings = [i.context.bindings EXCEPT ![k].conclusion = "UNKNOWN"]
    BY <1>2 DEF BindingUnknown
  <2>2. DOMAIN view.bindings = DOMAIN i.context.bindings
    BY <2>1
  <2>3. ASSUME NEW m \in DOMAIN i.context.bindings
        PROVE  "conclusion" \in DOMAIN view.bindings[m]
    <3>1. view.bindings[m] = IF m = k THEN [i.context.bindings[m] EXCEPT !.conclusion = "UNKNOWN"] ELSE i.context.bindings[m]
      BY <2>1
    <3>. QED
      BY <1>2, <3>1
  <2>4. view.bindings[k].conclusion = "UNKNOWN"
    BY <1>2, <2>1
  <2>. HIDE DEF view
  <2>5. HistoricalContext(view) # "PASS"
    BY <2>2, <2>4, BindingDoubted
  <2>6. DOMAIN w = DOMAIN i /\ w.context = view /\ w.bottleneck = i.bottleneck /\ w.beneficiary = i.beneficiary
    BY <1>3, <1>4 DEF view
  <2>. QED
    BY <1>2, <2>1, <2>2, <2>3, <2>5, <2>6, ContextReportIs DEF IsIndustry
<1>5. ASSUME NEW view, DOMAIN view = DOMAIN i.context, view.bindings = i.context.bindings,
             w = [i EXCEPT !.context = view], ContextAdmission(view) # "PASS"
      PROVE  IsIndustry(w) /\ ~IndustryPassing(w)
  <2>1. DOMAIN w = DOMAIN i /\ w.context = view /\ w.bottleneck = i.bottleneck /\ w.beneficiary = i.beneficiary
    BY <1>3, <1>5
  <2>. QED
    BY <1>2, <1>5, <2>1, ContextReportIs DEF IsIndustry
<1>6. CASE w = [i EXCEPT !.context = [i.context EXCEPT !.coverage = @ \cup {"UNKNOWN"}]]
  <2>. DEFINE view == [i.context EXCEPT !.coverage = @ \cup {"UNKNOWN"}]
  <2>1. DOMAIN view = DOMAIN i.context /\ view.bindings = i.context.bindings /\ "UNKNOWN" \in view.coverage
    BY <1>2
  <2>. HIDE DEF view
  <2>2. ContextAdmission(view) # "PASS"
    BY <2>1 DEF ContextAdmission, Open
  <2>. QED
    BY <1>5, <1>6, <2>1, <2>2 DEF view
<1>7. CASE w = [i EXCEPT !.context = [i.context EXCEPT !.covered = FALSE]]
  <2>. DEFINE view == [i.context EXCEPT !.covered = FALSE]
  <2>1. DOMAIN view = DOMAIN i.context /\ view.bindings = i.context.bindings /\ ~view.covered
    BY <1>2
  <2>. HIDE DEF view
  <2>2. ContextAdmission(view) # "PASS"
    BY <2>1 DEF ContextAdmission
  <2>. QED
    BY <1>5, <1>7, <2>1, <2>2 DEF view
<1>8. ASSUME NEW claims, NEW n \in DOMAIN claims
      PROVE  DOMAIN Doubtful(claims, n) = DOMAIN claims /\ Doubtful(claims, n)[n].conclusion = "UNKNOWN"
  BY DEF Doubtful
<1>9. ASSUME NEW n \in DOMAIN i.bottleneck, w = [i EXCEPT !.bottleneck = Doubtful(i.bottleneck, n)]
      PROVE  IsIndustry(w) /\ ~IndustryPassing(w)
  <2>. DEFINE claims == Doubtful(i.bottleneck, n)
  <2>1. DOMAIN claims = DOMAIN i.bottleneck /\ claims[n].conclusion = "UNKNOWN"
    BY <1>8
  <2>2. DOMAIN w = DOMAIN i /\ w.bottleneck = claims /\ w.context = i.context /\ w.beneficiary = i.beneficiary
    BY <1>2, <1>9
  <2>. HIDE DEF claims
  <2>3. IndustryBottleneck(claims) # "PASS"
    BY <2>1, BottleneckDoubted
  <2>. QED
    BY <1>2, <2>1, <2>2, <2>3, ContextReportIs DEF IsIndustry
<1>10. ASSUME NEW n \in DOMAIN i.beneficiary, w = [i EXCEPT !.beneficiary = Doubtful(i.beneficiary, n)]
      PROVE  IsIndustry(w) /\ ~IndustryPassing(w)
  <2>. DEFINE claims == Doubtful(i.beneficiary, n)
  <2>1. DOMAIN claims = DOMAIN i.beneficiary /\ claims[n].conclusion = "UNKNOWN"
    BY <1>8
  <2>2. DOMAIN w = DOMAIN i /\ w.beneficiary = claims /\ w.context = i.context /\ w.bottleneck = i.bottleneck
    BY <1>2, <1>10
  <2>. HIDE DEF claims
  <2>3. BeneficiaryMapping(claims).outcome # "PASS"
    BY <1>2, <2>1, BeneficiaryDoubted
  <2>. QED
    BY <1>2, <2>1, <2>2, <2>3, ContextReportIs DEF IsIndustry
<1>. QED
  BY <1>1, <1>4, <1>6, <1>7, <1>9, <1>10

(* What is lost is lost of one part of an event. *)
Undated(graph, k) == [graph EXCEPT ![k].at = None]
DoubtedLink(l) == [l EXCEPT !.conclusion = "UNKNOWN", !.confidential = FALSE]
ClaimUnknown(contract, x) == [contract EXCEPT !.claims[x] = "UNKNOWN"]
DoubtedPassports == {"E1", "E2", "E3", "E5", "E6"}

EventLoss(e, w) ==
    \/ /\ Differs(e, w, "graph")
       /\ \E k \in DOMAIN e.graph : e.graph[k].kind = "Fact" /\ w.graph = Undated(e.graph, k)
    \/ Differs(e, w, "links") /\ \E l \in Founded(e) : w.links = (e.links \ {l}) \cup {DoubtedLink(l)}
    \/ /\ Differs(e, w, "e4")
       /\ \/ \E x \in DOMAIN e.e4.claims : w.e4 = ClaimUnknown(e.e4, x)
          \/ w.e4 = [e.e4 EXCEPT !.original = FALSE]
          \/ w.e4 = [e.e4 EXCEPT !.chains = {}]
    \/ /\ Differs(e, w, "passports")
       /\ \/ \E s \in DoubtedPassports : w.passports = [e.passports EXCEPT ![s] = {"UNKNOWN"}]
          \/ w.passports = [e.passports EXCEPT !.narrative = "UNKNOWN"]

LEMMA EventLosses ==
    ASSUME NEW e, IsEvent(e), IsKnowledge(e), NEW w \in WithheldEvent(e)
    PROVE  EventLoss(e, w)
<1>1. {"graph", "links", "e4", "passports"} \subseteq DOMAIN e
  BY DEF IsEvent, IsKnowledge
<1>2. ASSUME NEW x, w = [e EXCEPT !["graph"] = x]
      PROVE  Differs(e, w, "graph") /\ w.graph = x
  BY <1>1, <1>2, Replaced
<1>3. ASSUME NEW x, w = [e EXCEPT !["links"] = x]
      PROVE  Differs(e, w, "links") /\ w.links = x
  BY <1>1, <1>3, Replaced
<1>4. ASSUME NEW x, w = [e EXCEPT !["e4"] = x]
      PROVE  Differs(e, w, "e4") /\ w.e4 = x
  BY <1>1, <1>4, Replaced
<1>5. ASSUME NEW x, w = [e EXCEPT !["passports"] = x]
      PROVE  Differs(e, w, "passports") /\ w.passports = x
  BY <1>1, <1>5, Replaced
<1>6. \/ \E k \in DOMAIN e.graph : e.graph[k].kind = "Fact" /\ w = [e EXCEPT !.graph[k].at = None]
      \/ \E l \in Founded(e) : w = [e EXCEPT !.links = (@ \ {l}) \cup {[l EXCEPT !.conclusion = "UNKNOWN", !.confidential = FALSE]}]
      \/ \E x \in DOMAIN e.e4.claims : w = [e EXCEPT !.e4.claims[x] = "UNKNOWN"]
      \/ \E s \in DoubtedPassports : w = [e EXCEPT !.passports[s] = {"UNKNOWN"}]
      \/ w = [e EXCEPT !.passports.narrative = "UNKNOWN"]
      \/ w = [e EXCEPT !.e4.original = FALSE]
      \/ w = [e EXCEPT !.e4.chains = {}]
  BY DEF WithheldEvent, DoubtedPassports
<1>7. ASSUME NEW k \in DOMAIN e.graph, e.graph[k].kind = "Fact", w = [e EXCEPT !.graph[k].at = None]
      PROVE  EventLoss(e, w)
  <2>1. w = [e EXCEPT !["graph"] = Undated(e.graph, k)]
    BY <1>7 DEF Undated
  <2>2. Differs(e, w, "graph") /\ w.graph = Undated(e.graph, k)
    BY <1>2, <2>1
  <2>. QED
    BY <1>7, <2>2 DEF EventLoss
<1>8. ASSUME NEW l \in Founded(e),
             w = [e EXCEPT !.links = (@ \ {l}) \cup {[l EXCEPT !.conclusion = "UNKNOWN", !.confidential = FALSE]}]
      PROVE  EventLoss(e, w)
  <2>1. w = [e EXCEPT !["links"] = (e.links \ {l}) \cup {DoubtedLink(l)}]
    BY <1>8 DEF DoubtedLink
  <2>2. Differs(e, w, "links") /\ w.links = (e.links \ {l}) \cup {DoubtedLink(l)}
    BY <1>3, <2>1
  <2>. QED
    BY <2>2 DEF EventLoss
<1>9. ASSUME NEW x \in DOMAIN e.e4.claims, w = [e EXCEPT !.e4.claims[x] = "UNKNOWN"]
      PROVE  EventLoss(e, w)
  <2>1. w = [e EXCEPT !["e4"] = ClaimUnknown(e.e4, x)]
    BY <1>9 DEF ClaimUnknown
  <2>2. Differs(e, w, "e4") /\ w.e4 = ClaimUnknown(e.e4, x)
    BY <1>4, <2>1
  <2>. QED
    BY <2>2 DEF EventLoss
<1>10. ASSUME w = [e EXCEPT !.e4.original = FALSE]
       PROVE  EventLoss(e, w)
  <2>1. w = [e EXCEPT !["e4"] = [e.e4 EXCEPT !.original = FALSE]]
    BY <1>10
  <2>2. Differs(e, w, "e4") /\ w.e4 = [e.e4 EXCEPT !.original = FALSE]
    BY <1>4, <2>1
  <2>. QED
    BY <2>2 DEF EventLoss
<1>11. ASSUME w = [e EXCEPT !.e4.chains = {}]
       PROVE  EventLoss(e, w)
  <2>1. w = [e EXCEPT !["e4"] = [e.e4 EXCEPT !.chains = {}]]
    BY <1>11
  <2>2. Differs(e, w, "e4") /\ w.e4 = [e.e4 EXCEPT !.chains = {}]
    BY <1>4, <2>1
  <2>. QED
    BY <2>2 DEF EventLoss
<1>12. ASSUME NEW s \in DoubtedPassports, w = [e EXCEPT !.passports[s] = {"UNKNOWN"}]
       PROVE  EventLoss(e, w)
  <2>1. w = [e EXCEPT !["passports"] = [e.passports EXCEPT ![s] = {"UNKNOWN"}]]
    BY <1>12
  <2>2. Differs(e, w, "passports") /\ w.passports = [e.passports EXCEPT ![s] = {"UNKNOWN"}]
    BY <1>5, <2>1
  <2>. QED
    BY <2>2 DEF EventLoss
<1>13. ASSUME w = [e EXCEPT !.passports.narrative = "UNKNOWN"]
       PROVE  EventLoss(e, w)
  <2>1. w = [e EXCEPT !["passports"] = [e.passports EXCEPT !.narrative = "UNKNOWN"]]
    BY <1>13
  <2>2. Differs(e, w, "passports") /\ w.passports = [e.passports EXCEPT !.narrative = "UNKNOWN"]
    BY <1>5, <2>1
  <2>. QED
    BY <2>2 DEF EventLoss
<1>. QED
  BY <1>6, <1>7, <1>8, <1>9, <1>10, <1>11, <1>12, <1>13

(* An event that loses something is an event still. *)
LEMMA EventKept ==
    ASSUME NEW e, IsEvent(e), IsKnowledge(e), NEW w, EventLoss(e, w)
    PROVE  IsEvent(w) /\ IsKnowledge(w) /\ w.e4.published = e.e4.published
<1>1. /\ {"case", "input", "cutoff", "decision", "cited", "candidates", "declared", "listed", "links", "e4", "passports",
          "terminals", "revision", "graph"} \subseteq DOMAIN e
      /\ \A l \in e.links : {"role", "applicable", "conclusion", "confidential"} \subseteq DOMAIN l
      /\ {"claims", "original", "quantity", "chains", "published"} \subseteq DOMAIN e.e4
      /\ {"narrative", "E1", "E2", "E3", "clue", "E5", "E6"} \subseteq DOMAIN e.passports
  BY DEF IsEvent, IsKnowledge
<1>2. CASE Differs(e, w, "graph") /\ \E k \in DOMAIN e.graph : e.graph[k].kind = "Fact" /\ w.graph = Undated(e.graph, k)
  <2>1. DOMAIN w = DOMAIN e /\ w.links = e.links /\ w.e4 = e.e4 /\ w.passports = e.passports
    BY <1>1, <1>2 DEF Differs
  <2>2. PICK k \in DOMAIN e.graph : e.graph[k].kind = "Fact" /\ w.graph = Undated(e.graph, k)
    BY <1>2
  <2>3. DOMAIN w.graph = DOMAIN e.graph
    BY <2>2 DEF Undated
  <2>4. ASSUME NEW n \in DOMAIN e.graph
        PROVE  IsItem(w.graph[n])
    <3>1. IsItem(e.graph[n])
      BY DEF IsKnowledge
    <3>2. w.graph[n] = IF n = k THEN [e.graph[n] EXCEPT !.at = None] ELSE e.graph[n]
      BY <2>2 DEF Undated
    <3>. QED
      BY <2>2, <3>1, <3>2 DEF IsItem
  <2>5. DOMAIN e.graph \subseteq Nat
    BY DEF IsKnowledge
  <2>6. IsKnowledge(w)
    BY <1>1, <2>1, <2>3, <2>4, <2>5 DEF IsKnowledge
  <2>. QED
    BY <1>1, <2>1, <2>6 DEF IsEvent
<1>3. ASSUME DOMAIN w = DOMAIN e, w.graph = e.graph
      PROVE  IsKnowledge(w)
  BY <1>3 DEF IsKnowledge
<1>4. CASE Differs(e, w, "links") /\ \E l \in Founded(e) : w.links = (e.links \ {l}) \cup {DoubtedLink(l)}
  <2>1. DOMAIN w = DOMAIN e /\ w.graph = e.graph /\ w.e4 = e.e4 /\ w.passports = e.passports
    BY <1>1, <1>4 DEF Differs
  <2>2. PICK l \in Founded(e) : w.links = (e.links \ {l}) \cup {DoubtedLink(l)}
    BY <1>4
  <2>3. l \in e.links /\ DOMAIN DoubtedLink(l) = DOMAIN l
    BY DEF Founded, DoubtedLink
  <2>4. \A m \in w.links : {"role", "applicable", "conclusion", "confidential"} \subseteq DOMAIN m
    BY <1>1, <2>2, <2>3
  <2>. QED
    BY <1>1, <1>3, <2>1, <2>4 DEF IsEvent
<1>5. CASE /\ Differs(e, w, "e4")
           /\ \/ \E x \in DOMAIN e.e4.claims : w.e4 = ClaimUnknown(e.e4, x)
              \/ w.e4 = [e.e4 EXCEPT !.original = FALSE]
              \/ w.e4 = [e.e4 EXCEPT !.chains = {}]
  <2>1. DOMAIN w = DOMAIN e /\ w.graph = e.graph /\ w.links = e.links /\ w.passports = e.passports
    BY <1>1, <1>5 DEF Differs
  <2>2. DOMAIN w.e4 = DOMAIN e.e4 /\ w.e4.published = e.e4.published
    <3>1. CASE \E x \in DOMAIN e.e4.claims : w.e4 = ClaimUnknown(e.e4, x)
      BY <1>1, <3>1 DEF ClaimUnknown
    <3>2. CASE w.e4 = [e.e4 EXCEPT !.original = FALSE]
      BY <1>1, <3>2
    <3>3. CASE w.e4 = [e.e4 EXCEPT !.chains = {}]
      BY <1>1, <3>3
    <3>. QED
      BY <1>5, <3>1, <3>2, <3>3
  <2>. QED
    BY <1>1, <1>3, <2>1, <2>2 DEF IsEvent
<1>6. CASE /\ Differs(e, w, "passports")
           /\ \/ \E s \in DoubtedPassports : w.passports = [e.passports EXCEPT ![s] = {"UNKNOWN"}]
              \/ w.passports = [e.passports EXCEPT !.narrative = "UNKNOWN"]
  <2>1. DOMAIN w = DOMAIN e /\ w.graph = e.graph /\ w.links = e.links /\ w.e4 = e.e4
    BY <1>1, <1>6 DEF Differs
  <2>2. DOMAIN w.passports = DOMAIN e.passports
    BY <1>6
  <2>. QED
    BY <1>1, <1>3, <2>1, <2>2 DEF IsEvent
<1>. QED
  BY <1>2, <1>4, <1>5, <1>6 DEF EventLoss

(* An audit that passes finds the same in the same knowledge.              *)
LEMMA AuditKept ==
    ASSUME NEW w, IsKnowledge(w), AuditLayers(w) = "PASS",
           NEW e, e.graph = w.graph, e.input = w.input, e.cutoff = w.cutoff, e.decision = w.decision,
           e.cited = w.cited, e.candidates = w.candidates
    PROVE  AuditLayers(e) = "PASS"
<1>1. \A i \in Items(w) : ItemOutcome(w, i) = "PASS"
  BY AuditFinds
<1>2. Items(e) = Items(w) /\ FactsOf(e) = FactsOf(w)
  BY DEF Items, FactsOf
<1>3. ASSUME NEW i \in Items(w)
      PROVE  ItemOutcome(e, i) = "PASS"
  <2>1. LawfulFact(e, i) <=> LawfulFact(w, i)
    BY DEF LawfulFact
  <2>2. SupersedesEarlier(e, i) <=> SupersedesEarlier(w, i)
    BY <1>2 DEF SupersedesEarlier
  <2>3. RestsOnEarlier(e, i) <=> RestsOnEarlier(w, i)
    BY <1>2 DEF RestsOnEarlier
  <2>4. SoundJudgment(e, i) <=> SoundJudgment(w, i)
    BY <1>2 DEF SoundJudgment
  <2>5. SoundNode(e, i) <=> SoundNode(w, i)
    BY <2>2, <2>3, <2>4 DEF SoundNode
  <2>. QED
    BY <1>1, <2>1, <2>5 DEF ItemOutcome
<1>4. WalkOutcome(e) = "PASS"
  <2>1. \A k \in DOMAIN e.graph : ItemOutcome(e, e.graph[k]) = "PASS"
    BY <1>3 DEF Items, Range
  <2>. QED
    BY <2>1 DEF WalkOutcome
<1>5. ~Circular(e)
  <2>1. ~Circular(w)
    BY AuditFinds
  <2>. QED
    BY <1>2, <2>1 DEF Circular
<1>6. /\ ~(w.cutoff > w.decision)
      /\ ~(\E i, j \in DOMAIN w.graph : i # j /\ w.graph[i].id = w.graph[j].id)
      /\ w.cited \cup w.candidates \subseteq {f.id : f \in FactsOf(w)}
  BY DEF AuditLayers
<1>. QED
  BY <1>2, <1>4, <1>5, <1>6 DEF AuditLayers

(* Of an event that passes, every fact is dated. *)
LEMMA UndatedFails ==
    ASSUME NEW w, IsKnowledge(w), NEW k \in DOMAIN w.graph, w.graph[k].kind = "Fact", w.graph[k].at = None
    PROVE  AuditLayers(w) # "PASS"
<1>1. w.graph[k] \in Items(w)
  BY DEF Items, Range
<1>2. ItemOutcome(w, w.graph[k]) = "BLOCKED"
  BY DEF ItemOutcome, LawfulFact
<1>. QED
  BY <1>1, <1>2, AuditFinds

(* The parties of an event that passes. *)
PartiesPass(e) ==
    /\ DeclaredEarliest(e) /\ OneLinkPerRole(e) /\ \A l \in e.links : LawfulLink(e, l)
    /\ \A r \in Required : Concluded(e, r) \notin Unresolved \cup {"REFUTED"}
    /\ Concluded(e, "customer_buyer") # "REFUTED"
    /\ \/ SecretBuyer(e)
       \/ /\ Concluded(e, "customer_buyer") \notin Unresolved
          /\ Concluded(e, "procurement_actor") \notin Unresolved \cup {"REFUTED"}

LEMMA PartyIs ==
    ASSUME NEW e
    PROVE  PartyOutcome(e) = "PASS" <=> PartiesPass(e)
BY DEF PartyOutcome, PartiesPass

LEMMA LinkIs ==
    ASSUME NEW e, NEW l \in e.links, \A m \in e.links : m.role = l.role => m = l
    PROVE  Link(e, l.role) = l
BY DEF Link

(* Only a party nobody is asked about, behind a secret buyer, may be        *)
(* doubted without being missed, and it was not missed before.              *)
LEMMA PartiesKept ==
    ASSUME NEW e, IsEvent(e), IsKnowledge(e), NEW w, Differs(e, w, "links"),
           NEW l \in Founded(e), w.links = (e.links \ {l}) \cup {DoubtedLink(l)}, PartyOutcome(w) = "PASS"
    PROVE  PartyOutcome(e) = "PASS"
<1>. DEFINE q == DoubtedLink(l)
<1>1. /\ l \in e.links /\ l.applicable /\ LawfulLink(e, l) /\ \A m \in e.links : m.role = l.role => m = l
  BY DEF Founded
<1>2. q.role = l.role /\ q.conclusion = "UNKNOWN" /\ ~q.confidential
  <2>1. {"role", "applicable", "conclusion", "confidential"} \subseteq DOMAIN l
    BY <1>1 DEF IsEvent
  <2>. QED
    BY <2>1 DEF DoubtedLink
<1>. HIDE DEF q
<1>3. w.links = (e.links \ {l}) \cup {q}
  BY DEF q
<1>4. PartiesPass(w)
  BY PartyIs
<1>5. w.graph = e.graph /\ w.candidates = e.candidates /\ w.declared = e.declared /\ w.cutoff = e.cutoff
  <2>1. {"candidates", "declared", "cutoff"} \subseteq DOMAIN e
    BY DEF IsEvent
  <2>2. DOMAIN w = DOMAIN e /\ \A p \in DOMAIN e : p # "links" => w[p] = e[p]
    BY DEF Differs
  <2>3. "graph" \in DOMAIN e
    BY DEF IsKnowledge
  <2>. QED
    BY <2>1, <2>2, <2>3
<1>6. DeclaredEarliest(e)
  <2>1. FactsOf(e) = FactsOf(w)
    BY <1>5 DEF FactsOf, Items
  <2>2. DeclaredEarliest(w)
    BY <1>4 DEF PartiesPass
  <2>. QED
    BY <1>5, <2>1, <2>2 DEF DeclaredEarliest
<1>7. OneLinkPerRole(e)
  <2>1. {m.role : m \in w.links} = Roles /\ \A m, n \in w.links : m.role = n.role => m = n
    BY <1>4 DEF PartiesPass, OneLinkPerRole
  <2>2. {m.role : m \in e.links} = {m.role : m \in w.links}
    BY <1>1, <1>2, <1>3
  <2>3. ASSUME NEW m \in e.links, NEW n \in e.links, m.role = n.role
        PROVE  m = n
    BY <1>1, <1>3, <2>1, <2>3
  <2>. QED
    BY <2>1, <2>2, <2>3 DEF OneLinkPerRole
<1>8. \A m \in e.links : LawfulLink(e, m)
  <2>1. ASSUME NEW m \in e.links, m # l
        PROVE  LawfulLink(e, m)
    <3>1. LawfulLink(w, m)
      BY <1>3, <1>4, <2>1 DEF PartiesPass
    <3>. QED
      BY <1>5, <3>1 DEF LawfulLink
  <2>. QED
    BY <1>1, <2>1
<1>9. q \in w.links /\ \A m \in w.links : m.role = q.role => m = q
  BY <1>3, <1>4 DEF PartiesPass, OneLinkPerRole
<1>10. Link(w, l.role) = q
  BY <1>2, <1>9, LinkIs
<1>11. Concluded(w, l.role) = "UNKNOWN"
  BY <1>2, <1>10 DEF Concluded
<1>12. l.role = "procurement_actor" /\ SecretBuyer(w)
  <2>1. l.role \in Roles
    BY <1>1, <1>7 DEF OneLinkPerRole
  <2>2. l.role \notin Required
    BY <1>4, <1>11 DEF PartiesPass, Unresolved
  <2>3. l.role # "customer_buyer"
    <3>1. l.role = "customer_buyer" => ~SecretBuyer(w)
      BY <1>2, <1>10 DEF SecretBuyer
    <3>. QED
      BY <1>4, <1>11, <3>1 DEF PartiesPass, Unresolved
  <2>. QED
    BY <1>4, <1>11, <2>1, <2>2, <2>3 DEF PartiesPass, Roles, Unresolved
<1>13. ASSUME NEW role \in Roles, role # "procurement_actor"
       PROVE  Link(e, role) = Link(w, role)
  <2>1. PICK m \in e.links : m.role = role
    BY <1>7 DEF OneLinkPerRole
  <2>2. m # l /\ m \in w.links
    BY <1>3, <1>12, <1>13, <2>1
  <2>3. Link(e, m.role) = m
    BY <1>7, LinkIs DEF OneLinkPerRole
  <2>4. Link(w, m.role) = m
    BY <1>4, <2>2, LinkIs DEF PartiesPass, OneLinkPerRole
  <2>. QED
    BY <2>1, <2>3, <2>4
<1>14. SecretBuyer(e)
  BY <1>12, <1>13 DEF SecretBuyer, Roles
<1>15. /\ \A r \in Required : Concluded(e, r) = Concluded(w, r)
       /\ Concluded(e, "customer_buyer") = Concluded(w, "customer_buyer")
  BY <1>13 DEF Concluded, Roles, Required
<1>. QED
  BY <1>4, <1>6, <1>7, <1>8, <1>14, <1>15, PartyIs DEF PartiesPass

-----------------------------------------------------------------------------
(* The state an event comes to, with less and with more. *)

(* The state of an event that passes is reached with a contract. *)
Contracted(e) ==
    /\ LawfulRevision(e) /\ ~e.revision.duplicate
    /\ e.passports.narrative \notin Unresolved \cup {"REFUTED"}
    /\ ~(Cardinality(Terminals(e, {"CONFIRMED"})) > 1)
    /\ ~EndsEarly(e) /\ Obstacles(e) = {}

LEMMA ContractedState ==
    ASSUME NEW e, Contracted(e), E4Outcome(e) = "PASS"
    PROVE  EventStateOf(e) = WithContract(e)
<1>1. PassportState(e) = WithContract(e)
  BY DEF Contracted, PassportState
<1>. QED
  BY <1>1 DEF Contracted, EventStateOf

LEMMA ResultIs ==
    ASSUME NEW outcome, NEW attained, NEW highest, NEW candidate, NEW terminal, NEW last
    PROVE  LET r == StateResult(outcome, attained, highest, candidate, terminal, last) IN
           /\ r.outcome = outcome /\ r.attained = attained /\ r.highest = highest
           /\ {"outcome", "attained", "created", "duplicate"} \subseteq DOMAIN r
BY DEF StateResult

LEMMA HaltedHasNoContract ==
    ASSUME NEW e, NEW n \in 1..3
    PROVE  "E4" \notin HaltedAt(e, n).attained
<1>1. "E4" \notin Below(n)
  BY DEF Below, Climb
<1>. QED
  BY <1>1, ResultIs DEF HaltedAt, Undecided

LEMMA StateIs ==
    ASSUME NEW e, E4Outcome(e) = "PASS", EventStateOf(e).outcome = "PASS", "E4" \in EventStateOf(e).attained
    PROVE  Contracted(e)
<1>1. LawfulRevision(e)
  <2>1. SUFFICES ASSUME ~LawfulRevision(e) PROVE FALSE
    OBVIOUS
  <2>. DEFINE r == Undecided(e, "BLOCKED", {}, None)
  <2>2. r.outcome = "BLOCKED"
    BY ResultIs DEF Undecided
  <2>. HIDE DEF r
  <2>3. [r EXCEPT !.created = FALSE].outcome = "BLOCKED"
    BY <2>2
  <2>. QED
    BY <2>1, <2>3 DEF EventStateOf, r
<1>2. ~e.revision.duplicate
  <2>1. SUFFICES ASSUME e.revision.duplicate PROVE FALSE
    OBVIOUS
  <2>. DEFINE r == StateResult("PASS", {}, PreviousState(e), PreviousState(e), None, PreviousState(e))
  <2>2. r.attained = {}
    BY ResultIs
  <2>. HIDE DEF r
  <2>3. [r EXCEPT !.created = FALSE, !.duplicate = TRUE].attained = {}
    BY <2>2
  <2>. QED
    BY <1>1, <2>1, <2>3 DEF EventStateOf, r
<1>3. PassportState(e).outcome = "PASS" /\ "E4" \in PassportState(e).attained
  BY <1>1, <1>2 DEF EventStateOf
<1>4. e.passports.narrative \notin Unresolved \cup {"REFUTED"}
  BY <1>3, ResultIs DEF PassportState, Undecided
<1>5. ~(Cardinality(Terminals(e, {"CONFIRMED"})) > 1)
  BY <1>3, <1>4, ResultIs DEF PassportState, Undecided
<1>6. ~EndsEarly(e)
  <2>1. "E4" \notin EarlyEnd(e).attained
    BY ResultIs DEF EarlyEnd
  <2>. QED
    BY <1>3, <1>4, <1>5, <2>1 DEF PassportState
<1>7. Obstacles(e) = {}
  <2>1. SUFFICES ASSUME Obstacles(e) # {} PROVE FALSE
    OBVIOUS
  <2>. DEFINE n == CHOOSE n \in Obstacles(e) : \A other \in Obstacles(e) : n <= other
  <2>2. DOMAIN Climb = 1..3
    BY DEF Climb
  <2>3. Obstacles(e) \in SUBSET Nat /\ Obstacles(e) \subseteq 1..3
    BY <2>2 DEF Obstacles
  <2>4. n \in Obstacles(e)
    BY <2>1, <2>3, FirstExists
  <2>5. PassportState(e) = HaltedAt(e, n)
    BY <1>4, <1>5, <1>6, <2>1 DEF PassportState
  <2>. HIDE DEF n
  <2>. QED
    BY <1>3, <2>3, <2>4, <2>5, HaltedHasNoContract
<1>. QED
  BY <1>1, <1>2, <1>4, <1>5, <1>6, <1>7 DEF Contracted

(* Two events that differ in what E6 is proved by, if anywhere, and the     *)
(* second of which passes: performance unconfirmed, the proof is not asked  *)
(* for.                                                                     *)
AlikeButProof(e, w) ==
    /\ w.revision = e.revision /\ w.terminals = e.terminals
    /\ \A s \in {"narrative", "E1", "E2", "E3", "E5"} : w.passports[s] = e.passports[s]

LEMMA ContractedAlike ==
    ASSUME NEW e, NEW w, AlikeButProof(e, w), Contracted(w)
    PROVE  Contracted(e)
<1>1. \A set : Terminals(e, set) = Terminals(w, set)
  BY DEF AlikeButProof, Terminals
<1>2. Previous(e) = Previous(w) /\ PreviousState(e) = PreviousState(w)
  BY DEF AlikeButProof, Previous, PreviousState
<1>3. LawfulRevision(e) <=> LawfulRevision(w)
  <2>1. Replayed(e) <=> Replayed(w)
    BY <1>2 DEF AlikeButProof, Replayed
  <2>. QED
    BY <1>2, <2>1 DEF AlikeButProof, LawfulRevision
<1>4. EndsEarly(e) <=> EndsEarly(w)
  <2>1. TheTerminal(e) = TheTerminal(w)
    BY <1>1 DEF TheTerminal
  <2>. QED
    BY <1>1, <1>2, <2>1 DEF EndsEarly
<1>5. Obstacles(e) = Obstacles(w)
  <2>1. \A n \in DOMAIN Climb : Passport(e, n) = Passport(w, n)
    BY DEF AlikeButProof, Passport, Climb
  <2>. QED
    BY <2>1 DEF Obstacles
<1>. QED
  BY <1>1, <1>3, <1>4, <1>5 DEF AlikeButProof, Contracted

LEMMA ContractAlike ==
    ASSUME NEW e, NEW w, AlikeButProof(e, w),
           Proof(e) = Proof(w) \/ (Proof(w) = "UNKNOWN" /\ WithContract(w).outcome = "PASS")
    PROVE  WithContract(e) = WithContract(w)
<1>1. \A set : Terminals(e, set) = Terminals(w, set)
  BY DEF AlikeButProof, Terminals
<1>2. Previous(e) = Previous(w) /\ PreviousState(e) = PreviousState(w) /\ e.revision = w.revision
  BY DEF AlikeButProof, Previous, PreviousState
<1>3. TheTerminal(e) = TheTerminal(w)
  BY <1>1 DEF TheTerminal
<1>4. Performance(e) = Performance(w)
  BY DEF AlikeButProof, Performance
<1>5. \A outcome, attained, candidate : Undecided(e, outcome, attained, candidate) = Undecided(w, outcome, attained, candidate)
  BY <1>2 DEF Undecided
<1>6. \A result : DowngradePolicy(e, result) = DowngradePolicy(w, result)
  <2>1. \A state : Lowered(e, state) <=> Lowered(w, state)
    BY <1>2 DEF Lowered
  <2>. QED
    BY <1>2, <2>1 DEF DowngradePolicy
<1>7. Proof(e) = Proof(w) \/ Performance(w) # "CONFIRMED"
  <2>1. SUFFICES ASSUME Proof(w) = "UNKNOWN", WithContract(w).outcome = "PASS", Performance(w) = "CONFIRMED" PROVE FALSE
    OBVIOUS
  <2>2. WithContract(w) = Undecided(w, "ABSTAIN", AttainedUpTo(Reached(w)), Reached(w))
    BY <2>1 DEF WithContract, Unresolved
  <2>. QED
    BY <2>1, <2>2, ResultIs DEF Undecided
<1>8. Reached(e) = Reached(w)
  BY <1>4, <1>7 DEF Reached
<1>. QED
  BY <1>1, <1>3, <1>4, <1>5, <1>6, <1>7, <1>8 DEF WithContract

(* An event that passes with less passed with more. *)
LEMMA EventPassedBefore ==
    ASSUME NEW e, IsEvent(e), IsKnowledge(e), NEW w, EventLoss(e, w), EventPassing(w)
    PROVE  EventPassing(e) /\ w.graph = e.graph /\ w.e4.published = e.e4.published
<1>1. IsEvent(w) /\ IsKnowledge(w) /\ w.e4.published = e.e4.published
  BY EventKept
<1>2. /\ AuditLayers(w) = "PASS" /\ PartyOutcome(w) = "PASS" /\ E4Outcome(w) = "PASS" /\ IndependentEvidence(w)
      /\ EventStateOf(w).outcome = "PASS" /\ "E4" \in EventStateOf(w).attained
  BY DEF EventPassing
<1>3. Contracted(w)
  BY <1>2, StateIs
<1>4. EventStateOf(w) = WithContract(w)
  BY <1>2, <1>3, ContractedState
<1>5. /\ {"case", "input", "cutoff", "decision", "cited", "candidates", "declared", "listed", "links", "e4", "passports",
          "terminals", "revision", "graph"} \subseteq DOMAIN e
      /\ {"claims", "original", "quantity", "chains", "published"} \subseteq DOMAIN e.e4
      /\ {"narrative", "E1", "E2", "E3", "clue", "E5", "E6"} \subseteq DOMAIN e.passports
  BY DEF IsEvent, IsKnowledge
<1>6. ~(\E k \in DOMAIN e.graph : e.graph[k].kind = "Fact" /\ w.graph = Undated(e.graph, k))
  <2>1. SUFFICES ASSUME NEW k \in DOMAIN e.graph, e.graph[k].kind = "Fact", w.graph = Undated(e.graph, k) PROVE FALSE
    OBVIOUS
  <2>2. DOMAIN w.graph = DOMAIN e.graph /\ w.graph[k] = [e.graph[k] EXCEPT !.at = None]
    BY <2>1 DEF Undated
  <2>3. "at" \in DOMAIN e.graph[k]
    BY DEF IsKnowledge, IsItem
  <2>4. w.graph[k].kind = "Fact" /\ w.graph[k].at = None
    BY <2>1, <2>2, <2>3
  <2>. QED
    BY <1>1, <1>2, <2>2, <2>4, UndatedFails
<1>7. /\ ~(\E x \in DOMAIN e.e4.claims : w.e4 = ClaimUnknown(e.e4, x))
      /\ w.e4 # [e.e4 EXCEPT !.original = FALSE] /\ w.e4 # [e.e4 EXCEPT !.chains = {}]
  <2>1. "UNKNOWN" \notin Range(w.e4.claims) /\ w.e4.original
    BY <1>2 DEF E4Outcome, Unresolved
  <2>2. ASSUME NEW x \in DOMAIN e.e4.claims, w.e4 = ClaimUnknown(e.e4, x)
        PROVE  FALSE
    <3>1. w.e4.claims = [e.e4.claims EXCEPT ![x] = "UNKNOWN"]
      BY <1>5, <2>2 DEF ClaimUnknown
    <3>2. "UNKNOWN" \in Range(w.e4.claims)
      BY <3>1 DEF Range
    <3>. QED
      BY <2>1, <3>2
  <2>3. w.e4 # [e.e4 EXCEPT !.original = FALSE]
    BY <1>5, <2>1
  <2>4. w.e4 # [e.e4 EXCEPT !.chains = {}]
    <3>1. w.e4.chains # {}
      BY <1>2 DEF IndependentEvidence
    <3>. QED
      BY <1>5, <3>1
  <2>. QED
    BY <2>2, <2>3, <2>4
<1>8. ASSUME NEW s \in DoubtedPassports, w.passports = [e.passports EXCEPT ![s] = {"UNKNOWN"}]
      PROVE  s = "E6"
  <2>1. w.passports[s] = {"UNKNOWN"} /\ AnyOf({"UNKNOWN"}) = "UNKNOWN"
    BY <1>5, <1>8 DEF AnyOf, DoubtedPassports
  <2>2. ASSUME NEW n \in DOMAIN Climb, s = Climb[n]
        PROVE  FALSE
    <3>1. Passport(w, n) = "UNKNOWN"
      BY <2>1, <2>2 DEF Passport
    <3>2. n \in Obstacles(w)
      BY <3>1 DEF Obstacles
    <3>. QED
      BY <1>3, <3>2 DEF Contracted
  <2>3. s \notin {"E1", "E2", "E3"}
    <3>1. /\ 1 \in DOMAIN Climb /\ Climb[1] = "E1" /\ 2 \in DOMAIN Climb /\ Climb[2] = "E2"
          /\ 3 \in DOMAIN Climb /\ Climb[3] = "E3"
      BY DEF Climb
    <3>. QED
      BY <2>2, <3>1
  <2>4. s # "E5"
    <3>1. SUFFICES ASSUME s = "E5" PROVE FALSE
      OBVIOUS
    <3>2. Performance(w) = "UNKNOWN"
      BY <2>1, <3>1 DEF Performance
    <3>3. WithContract(w) = Undecided(w, "ABSTAIN", AttainedUpTo(Reached(w)), Reached(w))
      BY <3>2 DEF WithContract, Unresolved
    <3>. QED
      BY <1>2, <1>4, <3>3, ResultIs DEF Undecided
  <2>. QED
    BY <2>3, <2>4 DEF DoubtedPassports
<1>9. w.passports # [e.passports EXCEPT !.narrative = "UNKNOWN"]
  <2>1. w.passports.narrative # "UNKNOWN"
    BY <1>3 DEF Contracted, Unresolved
  <2>. QED
    BY <1>5, <2>1
<1>10. ASSUME AlikeButProof(e, w), Proof(e) = Proof(w) \/ Proof(w) = "UNKNOWN",
              w.graph = e.graph, w.e4 = e.e4, w.input = e.input, w.cutoff = e.cutoff, w.decision = e.decision,
              w.cited = e.cited, w.candidates = e.candidates, PartyOutcome(e) = "PASS"
       PROVE  EventPassing(e)
  <2>1. AuditLayers(e) = "PASS"
    BY <1>1, <1>2, <1>10, AuditKept
  <2>2. E4Outcome(e) = "PASS" /\ IndependentEvidence(e)
    BY <1>2, <1>10 DEF E4Outcome, IndependentEvidence
  <2>3. EventStateOf(e) = WithContract(e)
    BY <1>3, <1>10, <2>2, ContractedAlike, ContractedState
  <2>4. WithContract(e) = WithContract(w)
    BY <1>2, <1>4, <1>10, ContractAlike
  <2>. QED
    BY <1>2, <1>4, <1>10, <2>1, <2>2, <2>3, <2>4 DEF EventPassing
<1>11. CASE Differs(e, w, "links") /\ \E l \in Founded(e) : w.links = (e.links \ {l}) \cup {DoubtedLink(l)}
  <2>1. PartyOutcome(e) = "PASS"
    BY <1>2, <1>11, PartiesKept
  <2>2. /\ w.graph = e.graph /\ w.e4 = e.e4 /\ w.input = e.input /\ w.cutoff = e.cutoff /\ w.decision = e.decision
        /\ w.cited = e.cited /\ w.candidates = e.candidates /\ w.revision = e.revision /\ w.terminals = e.terminals
        /\ w.passports = e.passports
    BY <1>5, <1>11 DEF Differs
  <2>3. AlikeButProof(e, w) /\ Proof(e) = Proof(w)
    BY <2>2 DEF AlikeButProof, Proof
  <2>. QED
    BY <1>1, <1>10, <2>1, <2>2, <2>3
<1>12. CASE Differs(e, w, "passports") /\ w.passports = [e.passports EXCEPT !["E6"] = {"UNKNOWN"}]
  <2>1. /\ w.graph = e.graph /\ w.e4 = e.e4 /\ w.input = e.input /\ w.cutoff = e.cutoff /\ w.decision = e.decision
        /\ w.cited = e.cited /\ w.candidates = e.candidates /\ w.revision = e.revision /\ w.terminals = e.terminals
        /\ w.links = e.links /\ w.declared = e.declared
    BY <1>5, <1>12 DEF Differs
  <2>2. PartyOutcome(e) = "PASS"
    <3>1. PartiesPass(w)
      BY <1>2, PartyIs
    <3>2. \A role : Link(e, role) = Link(w, role)
      BY <2>1 DEF Link
    <3>3. FactsOf(e) = FactsOf(w)
      BY <2>1 DEF FactsOf, Items
    <3>4. DeclaredEarliest(e) <=> DeclaredEarliest(w)
      BY <2>1, <3>3 DEF DeclaredEarliest
    <3>5. OneLinkPerRole(e) <=> OneLinkPerRole(w)
      BY <2>1 DEF OneLinkPerRole
    <3>6. \A l : LawfulLink(e, l) <=> LawfulLink(w, l)
      BY <2>1 DEF LawfulLink
    <3>7. (SecretBuyer(e) <=> SecretBuyer(w)) /\ \A role : Concluded(e, role) = Concluded(w, role)
      BY <3>2 DEF SecretBuyer, Concluded
    <3>. QED
      BY <2>1, <3>1, <3>4, <3>5, <3>6, <3>7, PartyIs DEF PartiesPass
  <2>3. AlikeButProof(e, w)
    BY <1>5, <1>12, <2>1 DEF AlikeButProof
  <2>4. Proof(w) = "UNKNOWN"
    <3>1. w.passports["E6"] = {"UNKNOWN"}
      BY <1>5, <1>12
    <3>. QED
      BY <3>1 DEF Proof, AllOf
  <2>. QED
    BY <1>1, <1>10, <2>1, <2>2, <2>3, <2>4
<1>. QED
  BY <1>6, <1>7, <1>8, <1>9, <1>11, <1>12 DEF EventLoss

-----------------------------------------------------------------------------
(* What a case loses leaves it a case. *)

(* What a case loses it loses of one of its parts. *)
Loss(d, c) ==
    \/ Differs(d, c, "industry") /\ c.industry \in WithheldIndustry(d.industry)
    \/ Differs(d, c, "event") /\ EventLoss(d.event, c.event)
    \/ GateLoss(d, c)
    \/ ValuationLoss(d, c)
    \/ Differs(d, c, "exit") /\ c.exit \in WithheldHolding(d.exit)

LEMMA LossIs ==
    ASSUME NEW d, IsStage4Case(d), NEW c \in Withheld(d)
    PROVE  Loss(d, c)
<1>1. IsEvent(d.event) /\ IsKnowledge(d.event)
  BY DEF IsStage4Case
<1>2. ASSUME NEW x, c = [d EXCEPT !["industry"] = x]
      PROVE  Differs(d, c, "industry") /\ c.industry = x
  BY <1>2, Replaced, PartsInDomain
<1>3. ASSUME NEW x, c = [d EXCEPT !["event"] = x]
      PROVE  Differs(d, c, "event") /\ c.event = x
  BY <1>3, Replaced, PartsInDomain
<1>4. \/ \E i \in WithheldIndustry(d.industry) : c = [d EXCEPT !["industry"] = i]
      \/ \E e \in WithheldEvent(d.event) : c = [d EXCEPT !["event"] = e]
      \/ c \in WithheldGates(d) \/ c \in WithheldValuation(d) \/ c \in WithheldExit(d)
  BY DEF Withheld
<1>5. CASE \E i \in WithheldIndustry(d.industry) : c = [d EXCEPT !["industry"] = i]
  <2>1. Differs(d, c, "industry") /\ c.industry \in WithheldIndustry(d.industry)
    BY <1>2, <1>5
  <2>. QED
    BY <2>1 DEF Loss
<1>6. CASE \E e \in WithheldEvent(d.event) : c = [d EXCEPT !["event"] = e]
  <2>1. Differs(d, c, "event") /\ c.event \in WithheldEvent(d.event)
    BY <1>3, <1>6
  <2>2. EventLoss(d.event, c.event)
    BY <1>1, <2>1, EventLosses
  <2>. QED
    BY <2>1, <2>2 DEF Loss
<1>7. CASE c \in WithheldGates(d)
  BY <1>7, GateLosses DEF Loss
<1>8. CASE c \in WithheldValuation(d)
  BY <1>8, ValuationLosses DEF Loss
<1>9. CASE c \in WithheldExit(d)
  BY <1>9, ExitLosses DEF Loss
<1>. QED
  BY <1>4, <1>5, <1>6, <1>7, <1>8, <1>9

(* A case all of whose parts are let through, one of them another one.     *)
LEMMA PartReplaced ==
    ASSUME NEW d, IsStage4Case(d), NEW c,
           \/ Differs(d, c, "industry") /\ IsIndustry(c.industry)
           \/ Differs(d, c, "event") /\ IsEvent(c.event) /\ IsKnowledge(c.event)
           \/ Differs(d, c, "baseBridge") /\ IsBridge(c.baseBridge)
           \/ Differs(d, c, "downsideBridge") /\ IsBridge(c.downsideBridge)
           \/ Differs(d, c, "scenarios") /\ IsScenarioSet(c.scenarios)
           \/ Differs(d, c, "expectation") /\ IsExpectation(c.expectation)
           \/ Differs(d, c, "market") /\ IsMarketContext(c.market)
           \/ Differs(d, c, "valuation") /\ IsValuation(c.valuation)
           \/ Differs(d, c, "price") /\ IsPriceAssumption(c.price)
           \/ Differs(d, c, "plan") /\ IsPlan(c.plan)
           \/ Differs(d, c, "exit") /\ IsExit(c.exit)
    PROVE  IsStage4Case(c)
<1>1. ASSUME NEW part, Differs(d, c, part), part # "public"
      PROVE  /\ CaseParts \subseteq DOMAIN c /\ c.public \in Nat
             /\ part # "industry" => IsIndustry(c.industry)
             /\ part # "event" => IsEvent(c.event) /\ IsKnowledge(c.event)
             /\ part # "baseBridge" => IsBridge(c.baseBridge)
             /\ part # "downsideBridge" => IsBridge(c.downsideBridge)
             /\ part # "scenarios" => IsScenarioSet(c.scenarios)
             /\ part # "expectation" => IsExpectation(c.expectation)
             /\ part # "market" => IsMarketContext(c.market)
             /\ part # "valuation" => IsValuation(c.valuation)
             /\ part # "price" => IsPriceAssumption(c.price)
             /\ part # "plan" => IsPlan(c.plan)
             /\ part # "exit" => IsExit(c.exit)
  <2>1. DOMAIN c = DOMAIN d /\ \A p \in DOMAIN d : p # part => c[p] = d[p]
    BY <1>1 DEF Differs
  <2>2. {"public", "industry", "event", "baseBridge", "downsideBridge", "scenarios", "expectation", "market", "valuation",
         "price", "plan", "exit"} \subseteq DOMAIN d
    BY PartsInDomain
  <2>. QED
    BY <1>1, <2>1, <2>2 DEF IsStage4Case
<1>. QED
  BY <1>1 DEF IsStage4Case

LEMMA LossLeavesACase ==
    ASSUME NEW d, IsStage4Case(d), NEW c, Loss(d, c)
    PROVE  IsStage4Case(c)
<1>1. /\ IsIndustry(d.industry) /\ IsEvent(d.event) /\ IsKnowledge(d.event) /\ IsBridge(d.baseBridge)
      /\ IsBridge(d.downsideBridge) /\ IsScenarioSet(d.scenarios) /\ IsExit(d.exit)
  BY DEF IsStage4Case
<1>2. CASE Differs(d, c, "industry") /\ c.industry \in WithheldIndustry(d.industry)
  BY <1>1, <1>2, IndustryLosses, PartReplaced
<1>3. CASE Differs(d, c, "event") /\ EventLoss(d.event, c.event)
  BY <1>1, <1>3, EventKept, PartReplaced
<1>4. CASE GateLoss(d, c)
  <2>1. CASE /\ Differs(d, c, "baseBridge")
             /\ \E n \in DOMAIN d.baseBridge.parts : c.baseBridge = PartUnknown(d.baseBridge, n)
    BY <1>1, <2>1, BridgeLosses, PartReplaced
  <2>2. CASE /\ Differs(d, c, "downsideBridge")
             /\ \E n \in DOMAIN d.downsideBridge.parts : c.downsideBridge = PartWithout(d.downsideBridge, n)
    BY <1>1, <2>2, BridgeLosses, PartReplaced
  <2>3. CASE /\ Differs(d, c, "scenarios")
             /\ \E k \in DOMAIN d.scenarios.scenarios :
                  c.scenarios \in {DriverUnknown(d.scenarios, k), LineMissing(d.scenarios, k), LinesUnfounded(d.scenarios, k)}
    BY <1>1, <2>3, ScenarioSetLosses, PartReplaced
  <2>. QED
    BY <1>4, <2>1, <2>2, <2>3 DEF GateLoss
<1>5. CASE ValuationLoss(d, c)
  BY <1>5, ValuationLossesKeep, PartReplaced
<1>6. CASE Differs(d, c, "exit") /\ c.exit \in WithheldHolding(d.exit)
  BY <1>1, <1>6, HoldingKept, PartReplaced
<1>. QED
  BY <1>2, <1>3, <1>4, <1>5, <1>6 DEF Loss

LEMMA WithheldIsACase ==
    ASSUME NEW d, IsStage4Case(d), NEW c \in Withheld(d)
    PROVE  IsStage4Case(c)
BY LossIs, LossLeavesACase

(* The verdict is that of the case as it is, and a quote was made for one   *)
(* that was ready.                                                          *)
CaseInv ==
    /\ IsStage4Case(dossier) /\ verdict = CompleteReport(dossier)
    /\ quote # None =>
           \E price \in Prices, cost \in Costs :
               /\ quote = QuoteAt(price, cost)
               /\ recheck = Market!GatesAt([stage4 |-> Approved(dossier, verdict)], QuoteAt(price, cost))

LEMMA CaseStep == CaseInv /\ [CaseNext]_caseVars => CaseInv'
<1>. SUFFICES ASSUME CaseInv, [CaseNext]_caseVars
              PROVE  CaseInv'
  OBVIOUS
<1>1. CASE Withhold
  <2>1. PICK d \in Withheld(dossier) : dossier' = d /\ verdict' = CompleteReport(d)
    BY <1>1 DEF Withhold
  <2>2. quote' = None
    BY <1>1 DEF Withhold
  <2>3. IsStage4Case(dossier')
    BY <2>1, WithheldIsACase DEF CaseInv
  <2>. QED
    BY <2>1, <2>2, <2>3 DEF CaseInv
<1>2. CASE Execute
  BY <1>2 DEF Execute, CaseInv
<1>3. CASE UNCHANGED caseVars
  BY <1>3 DEF caseVars, CaseInv
<1>. QED
  BY <1>1, <1>2, <1>3 DEF CaseNext

LEMMA CaseStarts == CaseInit => CaseInv
BY CasesAreConstructible DEF CaseInit, CaseInv

(* Whatever is submitted and withheld, nothing a ready case counts with     *)
(* rests only on what was learnt after the contract was public.             *)
THEOREM CaseNumbersPredateContract == CaseSpec => []NumbersPredateContract
<1>1. CaseInv => NumbersPredateContract
  BY ReadyNumbers DEF CaseInv, NumbersPredateContract, Ready
<1>. QED
  BY <1>1, CaseStep, CaseStarts, PTL DEF CaseSpec

-----------------------------------------------------------------------------
(* Sums. *)

(* A set of finite sets that is not empty has a smallest member.            *)
LEMMA SmallestExists ==
    ASSUME NEW D, IsFiniteSet(D), NEW bad \in SUBSET SUBSET D, bad # {}
    PROVE  \E s \in bad : \A t \in bad : ~(t \subseteq s /\ t # s)
<1>1. bad \subseteq FiniteSubsetsOf(D)
  BY FS_Subset DEF FiniteSubsetsOf
<1>2. PICK s \in bad : \A t \in bad : ~(<<t, s>> \in StrictSubsetOrdering(D))
  BY <1>1, FS_StrictSubsetOrderingWellFounded, WFMin
<1>3. \A t \in bad : t \subseteq s /\ t # s => <<t, s>> \in StrictSubsetOrdering(D)
  BY <1>1, <1>2 DEF StrictSubsetOrdering
<1>4. \A t \in bad : ~(t \subseteq s /\ t # s)
  BY <1>2, <1>3
<1>. QED
  BY <1>4

(* The lower end of a bridge adds up its components at the end that makes  *)
(* profit least.                                                           *)
LowEnd(parts, n) == Sign[n] * parts[n].interval[IF Sign[n] = 1 THEN "lower" ELSE "upper"]

IsLowSum(parts, D, it) ==
    it = [s \in SUBSET D |-> IF s = {} THEN 0
                             ELSE LowEnd(parts, CHOOSE x \in s : TRUE) + it[s \ {CHOOSE x \in s : TRUE}]]

LowIn(parts, s, n) == IF n \in s THEN LowEnd(parts, n) ELSE 0
LowOf(parts, s) ==
    LowIn(parts, s, "revenue") + LowIn(parts, s, "expense") + LowIn(parts, s, "finance") + LowIn(parts, s, "income")

LEMMA SpanLowerIs ==
    ASSUME NEW parts
    PROVE  SpanOf(parts).lower = (CHOOSE it : IsLowSum(parts, DOMAIN parts, it))[DOMAIN parts]
BY DEF SpanOf, MapThenSumSet, MapThenFoldSet, IsLowSum, LowEnd

PartNames == {"revenue", "expense", "finance", "income"}

LEMMA LowOfStep ==
    ASSUME NEW parts, \A n \in PartNames : LowEnd(parts, n) \in Int,
           NEW s \in SUBSET PartNames, NEW x \in s
    PROVE  LowOf(parts, s) = LowEnd(parts, x) + LowOf(parts, s \ {x})
<1>. DEFINE v(n) == LowEnd(parts, n)
<1>1. v("revenue") \in Int /\ v("expense") \in Int /\ v("finance") \in Int /\ v("income") \in Int
  BY DEF PartNames
<1>2. LowIn(parts, s \ {x}, x) = 0 /\ LowIn(parts, s, x) = v(x)
  BY DEF LowIn
<1>3. \A n : n # x => LowIn(parts, s \ {x}, n) = LowIn(parts, s, n)
  BY DEF LowIn
<1>4. \A n \in PartNames : LowIn(parts, s, n) \in Int
  BY DEF LowIn
<1>5. x \in PartNames
  OBVIOUS
<1>6. /\ v(x) \in Int
      /\ \A n \in PartNames : LowIn(parts, s, n) \in Int /\ LowIn(parts, s \ {x}, n) \in Int
  BY DEF LowIn
<1>. DEFINE a(n) == LowIn(parts, s, n)
            b(n) == LowIn(parts, s \ {x}, n)
<1>7. a("revenue") + a("expense") + a("finance") + a("income")
        = v(x) + (b("revenue") + b("expense") + b("finance") + b("income"))
  <2>1. a("revenue") \in Int /\ a("expense") \in Int /\ a("finance") \in Int /\ a("income") \in Int
    BY <1>6 DEF PartNames
  <2>2. b(x) = 0 /\ a(x) = v(x) /\ \A n : n # x => a(n) = b(n)
    BY <1>2, <1>3
  <2>. HIDE DEF a, b, v
  <2>3. CASE x = "revenue"
    BY <2>1, <2>2, <2>3
  <2>4. CASE x = "expense"
    BY <2>1, <2>2, <2>4
  <2>5. CASE x = "finance"
    BY <2>1, <2>2, <2>5
  <2>6. CASE x = "income"
    BY <2>1, <2>2, <2>6
  <2>. QED
    BY <1>5, <2>3, <2>4, <2>5, <2>6 DEF PartNames
<1>. QED
  BY <1>7 DEF LowOf

LEMMA LowSumIs ==
    ASSUME NEW parts, DOMAIN parts = PartNames, \A n \in PartNames : LowEnd(parts, n) \in Int
    PROVE  SpanOf(parts).lower =
             LowEnd(parts, "revenue") + LowEnd(parts, "expense") + LowEnd(parts, "finance") + LowEnd(parts, "income")
<1>. DEFINE D == PartNames
            sum == CHOOSE it : IsLowSum(parts, D, it)
<1>1. LowOf(parts, {}) = 0
  BY DEF LowOf, LowIn
<1>2. IsLowSum(parts, D, sum)
  <2>. DEFINE it == [s \in SUBSET D |-> LowOf(parts, s)]
  <2>1. ASSUME NEW s \in SUBSET D
        PROVE  it[s] = IF s = {} THEN 0
                       ELSE LowEnd(parts, CHOOSE x \in s : TRUE) + it[s \ {CHOOSE x \in s : TRUE}]
    <3>1. CASE s = {}
      BY <1>1, <3>1
    <3>2. CASE s # {}
      <4>. DEFINE y == CHOOSE x \in s : TRUE
      <4>1. y \in s /\ s \ {y} \in SUBSET D
        BY <3>2
      <4>. HIDE DEF y
      <4>2. LowOf(parts, s) = LowEnd(parts, y) + LowOf(parts, s \ {y})
        BY <4>1, LowOfStep
      <4>. QED
        BY <3>2, <4>1, <4>2 DEF y
    <3>. QED
      BY <3>1, <3>2
  <2>2. it = [s \in SUBSET D |-> it[s]]
    OBVIOUS
  <2>. HIDE DEF it
  <2>3. IsLowSum(parts, D, it)
    BY <2>1, <2>2 DEF IsLowSum
  <2>. QED
    BY <2>3
<1>. HIDE DEF sum
<1>. DEFINE bad == {s \in SUBSET D : sum[s] # LowOf(parts, s)}
<1>3. bad = {}
  <2>1. SUFFICES ASSUME bad # {} PROVE FALSE
    OBVIOUS
  <2>2. PICK s \in bad : \A t \in bad : ~(t \subseteq s /\ t # s)
    <3>1. bad \in SUBSET SUBSET D
      OBVIOUS
    <3>2. IsFiniteSet(D)
      <4>1. IsFiniteSet({"revenue"}) /\ IsFiniteSet({"expense"}) /\ IsFiniteSet({"finance"}) /\ IsFiniteSet({"income"})
        BY FS_Singleton
      <4>2. IsFiniteSet({"revenue"} \cup {"expense"}) /\ IsFiniteSet({"finance"} \cup {"income"})
        BY <4>1, FS_Union
      <4>3. IsFiniteSet(({"revenue"} \cup {"expense"}) \cup ({"finance"} \cup {"income"}))
        BY <4>2, FS_Union
      <4>4. D = ({"revenue"} \cup {"expense"}) \cup ({"finance"} \cup {"income"})
        BY DEF PartNames
      <4>. QED
        BY <4>3, <4>4
    <3>. HIDE DEF bad
    <3>. QED
      BY <2>1, <3>1, <3>2, SmallestExists
  <2>. DEFINE y == CHOOSE x \in s : TRUE
  <2>3. s # {}
    BY <1>1, <1>2, <2>2 DEF IsLowSum
  <2>4. y \in s /\ s \ {y} \in SUBSET D
    BY <2>2, <2>3
  <2>5. sum[s] = LowEnd(parts, y) + sum[s \ {y}]
    BY <1>2, <2>2, <2>3 DEF IsLowSum
  <2>. HIDE DEF y
  <2>6. LowOf(parts, s) = LowEnd(parts, y) + LowOf(parts, s \ {y})
    BY <2>2, <2>4, LowOfStep
  <2>7. sum[s \ {y}] = LowOf(parts, s \ {y})
    BY <2>2, <2>4
  <2>. QED
    BY <2>2, <2>5, <2>6, <2>7
<1>4. sum[D] = LowOf(parts, D)
  BY <1>3
<1>5. LowOf(parts, D) =
        LowEnd(parts, "revenue") + LowEnd(parts, "expense") + LowEnd(parts, "finance") + LowEnd(parts, "income")
  BY DEF LowOf, LowIn, PartNames
<1>6. SpanOf(parts).lower = sum[D]
  BY SpanLowerIs DEF sum
<1>. QED
  BY <1>4, <1>5, <1>6

(* Gate 2 passes a base bridge whose components can nowhere make a loss.   *)
LEMMA BridgeIsSound ==
    ASSUME NEW b, IsBridge(b), BridgeOutcome(b) = "PASS"
    PROVE  /\ DOMAIN b.parts = PartNames
           /\ \A n \in PartNames : b.parts[n].interval \in Intervals
           /\ b.span = SpanOf(b.parts)
<1>1. /\ DOMAIN b.parts = DOMAIN Sign /\ b.span = SpanOf(b.parts)
      /\ ~\E part \in Range(b.parts) : part.interval = None
  BY DEF BridgeOutcome
<1>2. DOMAIN Sign = PartNames
  BY DEF Sign, PartNames
<1>3. ASSUME NEW n \in PartNames
      PROVE  b.parts[n].interval \in Intervals
  <2>1. b.parts[n] \in Range(b.parts)
    BY <1>1, <1>2 DEF Range
  <2>. QED
    BY <1>1, <1>2, <2>1 DEF IsBridge, IsEstimate
<1>. QED
  BY <1>1, <1>2, <1>3

LEMMA LowEnds ==
    ASSUME NEW parts, \A n \in PartNames : parts[n].interval \in Intervals
    PROVE  /\ LowEnd(parts, "revenue") = parts["revenue"].interval.lower
           /\ LowEnd(parts, "expense") = -parts["expense"].interval.upper
           /\ LowEnd(parts, "finance") = -parts["finance"].interval.upper
           /\ LowEnd(parts, "income") = parts["income"].interval.lower
<1>1. /\ Sign["revenue"] = 1 /\ Sign["expense"] = -1 /\ Sign["finance"] = -1 /\ Sign["income"] = 1
  BY DEF Sign
<1>2. \A n \in PartNames : parts[n].interval.lower \in Int /\ parts[n].interval.upper \in Int
  BY DEF Intervals
<1>. QED
  BY <1>1, <1>2 DEF LowEnd, PartNames

LEMMA GateTwoMeans ==
    ASSUME NEW d, IsStage4Case(d), CompleteReport(d).view.two = "PASS"
    PROVE  LET b == d.baseBridge IN
           /\ DOMAIN b.parts = PartNames /\ \A n \in PartNames : b.parts[n].interval \in Intervals
           /\ SpanOf(b.parts).lower > 0
<1>. DEFINE g == GateInput(d)
            gates == GateReport(g)
            b == d.baseBridge
<1>1. gates.two = "PASS"
  <2>. DEFINE rest == ValuationReport(ValuationInput(d, gates))
  <2>1. \/ CompleteReport(d).view = NoView
        \/ CompleteReport(d).view = View(gates, None, None)
        \/ CompleteReport(d).view = View(gates, rest.three.gate, rest.four)
    BY ReportIs
  <2>. HIDE DEF gates, rest
  <2>. QED
    BY <2>1, NoneIsNoApproval DEF NoView, View
<1>2. g.baseBridge = b
  BY GateInputIs DEF IsStage4Case
<1>. HIDE DEF g
<1>3. MaterialityGate(g) = "PASS"
  BY <1>1, NoneIsNoApproval DEF GateReport, GatesOf
<1>4. BridgesOutcome(g) = "PASS" /\ ~Fragile(g)
  BY <1>3 DEF MaterialityGate
<1>5. BridgeOutcome(b) = "PASS"
  <2>. DEFINE two == <<BridgeOutcome(g.baseBridge), BridgeOutcome(g.downsideBridge)>>
  <2>1. DOMAIN two \subseteq Nat /\ 1 \in DOMAIN two /\ two[1] = BridgeOutcome(b)
    BY <1>2
  <2>2. FirstFault(two) = "PASS"
    BY <1>4 DEF BridgesOutcome
  <2>. HIDE DEF two
  <2>. QED
    BY <2>1, <2>2, FaultsNone
<1>6. DOMAIN b.parts = PartNames /\ (\A n \in PartNames : b.parts[n].interval \in Intervals) /\ b.span = SpanOf(b.parts)
  BY <1>5, BridgeIsSound DEF IsStage4Case
<1>7. ~(SpanOf(b.parts).lower <= 0)
  BY <1>2, <1>4, <1>6 DEF Fragile
<1>8. SpanOf(b.parts).lower \in Int
  <2>1. \A n \in PartNames : b.parts[n].interval.lower \in Int /\ b.parts[n].interval.upper \in Int
    BY <1>6 DEF Intervals
  <2>2. \A n \in PartNames : LowEnd(b.parts, n) \in Int
    BY <1>6, <2>1, LowEnds DEF PartNames
  <2>3. SpanOf(b.parts).lower = LowEnd(b.parts, "revenue") + LowEnd(b.parts, "expense")
                                  + LowEnd(b.parts, "finance") + LowEnd(b.parts, "income")
    BY <1>6, <2>2, LowSumIs
  <2>. QED
    BY <2>2, <2>3 DEF PartNames
<1>. QED
  BY <1>6, <1>7, <1>8

LEMMA NoLossAnywhere ==
    ASSUME NEW d, IsStage4Case(d), CompleteReport(d).view.two = "PASS",
           NEW r \in Values(d.baseBridge.parts["revenue"].interval), NEW e \in Values(d.baseBridge.parts["expense"].interval),
           NEW f \in Values(d.baseBridge.parts["finance"].interval), NEW i \in Values(d.baseBridge.parts["income"].interval)
    PROVE  r - e - f + i > 0
<1>. DEFINE parts == d.baseBridge.parts
            rl == parts["revenue"].interval.lower
            eu == parts["expense"].interval.upper
            fu == parts["finance"].interval.upper
            il == parts["income"].interval.lower
<1>1. /\ DOMAIN parts = PartNames /\ \A n \in PartNames : parts[n].interval \in Intervals
      /\ SpanOf(parts).lower > 0
  BY GateTwoMeans
<1>2. /\ {"revenue", "expense", "finance", "income"} = PartNames
      /\ \A n \in PartNames : parts[n].interval.lower \in Int /\ parts[n].interval.upper \in Int
  BY <1>1 DEF Intervals, PartNames
<1>3. rl \in Int /\ eu \in Int /\ fu \in Int /\ il \in Int
  BY <1>2
<1>4. rl <= r /\ e <= eu /\ f <= fu /\ il <= i /\ r \in Int /\ e \in Int /\ f \in Int /\ i \in Int
  BY <1>2 DEF Values
<1>5. /\ LowEnd(parts, "revenue") = rl /\ LowEnd(parts, "expense") = -eu
      /\ LowEnd(parts, "finance") = -fu /\ LowEnd(parts, "income") = il
  BY <1>1, LowEnds
<1>6. SpanOf(parts).lower = rl + (-eu) + (-fu) + il
  <2>1. \A n \in PartNames : LowEnd(parts, n) \in Int
    BY <1>3, <1>5 DEF PartNames
  <2>. QED
    BY <1>1, <1>5, <2>1, LowSumIs
<1>. HIDE DEF rl, eu, fu, il, parts
<1>. QED
  BY <1>1, <1>3, <1>4, <1>6

(* What gate 3 has passed. *)
LEMMA GateThreeIs ==
    ASSUME NEW x, EvaluateGate3(x).gate = "PASS"
    PROVE  /\ EvaluateGate3(x) = Gate3Verdict(x)
           /\ x.market.price # None /\ x.market.shares # None
           /\ ~(x.market.price <= 0) /\ ~(x.market.shares <= 0)
           /\ ValuationOutcome(x.valuation) = "PASS"
<1>1. Priced(None, None, None).gate # "PASS" /\ Priced("BLOCKED", None, None).gate # "PASS" /\ Unpriced.gate # "PASS"
      /\ Priced("ABSTAIN", None, "indeterminate").gate # "PASS"
  BY NoneIsNoApproval DEF Priced, Unpriced
<1>2. \A gate : Priced(gate, None, None).gate = gate
  BY DEF Priced
<1>. QED
  BY <1>1, <1>2 DEF EvaluateGate3

LEMMA VerdictIs ==
    ASSUME NEW x, Gate3Verdict(x).gate = "PASS"
    PROVE  /\ Implied(x).upper < x.valuation.event.lower
           /\ Gate3Verdict(x).expectation \in {"unexpected", "partially_priced"}
<1>1. Gate3Verdict(x).expectation = Expectation(x)
  BY DEF Gate3Verdict, Priced
<1>2. Pricing(x) \notin {"fully_reflected", "indeterminate"} /\ Expectation(x) \notin {"fully_priced", "unknown"}
  BY DEF Gate3Verdict, Priced
<1>3. Expectation(x) \in {"unexpected", "partially_priced", "fully_priced", "unknown"}
  BY DEF Expectation
<1>. QED
  BY <1>1, <1>2, <1>3 DEF Pricing

LEMMA ValuedIs ==
    ASSUME NEW v, ValuationOutcome(v) = "PASS"
    PROVE  v.business # None /\ v.event # None /\ v.values # None /\ v.shares # None
BY DEF ValuationOutcome

LEMMA ReportOfThree ==
    ASSUME NEW x, ValuationReport(x).three.gate = "PASS"
    PROVE  /\ ValuationReport(x).three = EvaluateGate3(x)
           /\ ValuationReport(x).four = EvaluateGate4(x, "PASS")
<1>1. CASE ~ArtifactsLawful(x)
  BY <1>1 DEF ValuationReport, Priced
<1>2. CASE ArtifactsLawful(x)
  BY <1>2 DEF ValuationReport, GatesThreeFour
<1>. QED
  BY <1>1, <1>2

LEMMA GateThreeMeans ==
    ASSUME NEW d, IsStage4Case(d), CompleteReport(d).view.three = "PASS"
    PROVE  /\ d.market.price \in Nat \ {0} /\ d.market.shares \in Nat \ {0}
           /\ d.valuation.business \in Intervals /\ IsInterval(d.valuation.business)
           /\ d.valuation.event \in Intervals /\ IsInterval(d.valuation.event)
           /\ d.valuation.values # None /\ d.valuation.shares \in Int
           /\ d.market.price * d.market.shares - d.valuation.business.lower < d.valuation.event.lower
           /\ CompleteReport(d).expectation \in {"unexpected", "partially_priced"}
<1>. DEFINE gates == GateReport(GateInput(d))
            x == ValuationInput(d, gates)
            rest == ValuationReport(x)
<1>1. rest.three.gate = "PASS" /\ CompleteReport(d).expectation = rest.three.expectation
  <2>1. \/ CompleteReport(d).view = NoView
        \/ CompleteReport(d).view = View(gates, None, None)
        \/ /\ CompleteReport(d).view = View(gates, rest.three.gate, rest.four)
           /\ CompleteReport(d).expectation = rest.three.expectation
    BY ReportIs
  <2>. HIDE DEF gates, rest
  <2>. QED
    BY <2>1, NoneIsNoApproval DEF NoView, View
<1>2. x.market = d.market /\ x.valuation = d.valuation
  BY ValuationInputIs DEF IsStage4Case
<1>. HIDE DEF x
<1>3. rest.three = EvaluateGate3(x) /\ EvaluateGate3(x).gate = "PASS"
  BY <1>1, ReportOfThree
<1>4. EvaluateGate3(x) = Gate3Verdict(x) /\ ValuationOutcome(d.valuation) = "PASS"
  BY <1>2, <1>3, GateThreeIs
<1>5. Implied(x).upper < d.valuation.event.lower /\ CompleteReport(d).expectation \in {"unexpected", "partially_priced"}
  BY <1>1, <1>2, <1>3, <1>4, VerdictIs
<1>6. d.market.price # None /\ d.market.shares # None /\ ~(d.market.price <= 0) /\ ~(d.market.shares <= 0)
  BY <1>2, <1>3, GateThreeIs
<1>7. d.market.price \in Nat \ {0} /\ d.market.shares \in Nat \ {0}
  BY <1>6 DEF IsStage4Case, IsMarketContext, IsAmount
<1>8. /\ d.valuation.business # None /\ d.valuation.event # None
      /\ d.valuation.values # None /\ d.valuation.shares # None
  BY <1>4, ValuedIs
<1>9. /\ d.valuation.business \in Intervals /\ IsInterval(d.valuation.business)
      /\ d.valuation.event \in Intervals /\ IsInterval(d.valuation.event) /\ d.valuation.shares \in Int
  BY <1>8 DEF IsStage4Case, IsValuation, IsEstimate, IsAmount
<1>10. Implied(x).upper = d.market.price * d.market.shares - d.valuation.business.lower
  BY <1>2 DEF Implied
<1>. QED
  BY <1>5, <1>7, <1>8, <1>9, <1>10

(* Gates 2 and 3 pass what holds all through the intervals they are given. *)
THEOREM CasePassHoldsThroughoutIntervals == CaseSpec => []PassHoldsThroughoutIntervals
<1>1. CaseInv => PassHoldsThroughoutIntervals
  <2>1. SUFFICES ASSUME CaseInv PROVE PassHoldsThroughoutIntervals
    OBVIOUS
  <2>2. IsStage4Case(dossier) /\ verdict = CompleteReport(dossier)
    BY <2>1 DEF CaseInv
  <2>. DEFINE cap == dossier.market.price * dossier.market.shares
  <2>3. ASSUME verdict.view.three = "PASS",
               NEW b \in Values(dossier.valuation.business), NEW e \in Values(dossier.valuation.event)
        PROVE  cap - b < e
    <3>1. dossier.market.price \in Nat /\ dossier.market.shares \in Nat
      BY <2>2, <2>3, GateThreeMeans
    <3>2. cap \in Int
      BY <3>1
    <3>3. /\ dossier.valuation.business \in Intervals /\ dossier.valuation.event \in Intervals
          /\ cap - dossier.valuation.business.lower < dossier.valuation.event.lower
      BY <2>2, <2>3, GateThreeMeans
    <3>. HIDE DEF cap
    <3>4. /\ dossier.valuation.business.lower \in Int /\ dossier.valuation.event.lower \in Int
          /\ dossier.valuation.business.lower <= b /\ dossier.valuation.event.lower <= e /\ b \in Int /\ e \in Int
      BY <3>3 DEF Intervals, Values
    <3>. QED
      BY <3>2, <3>3, <3>4
  <2>. QED
    BY <2>2, <2>3, NoLossAnywhere DEF PassHoldsThroughoutIntervals
<1>. QED
  BY <1>1, CaseStep, CaseStarts, PTL DEF CaseSpec

-----------------------------------------------------------------------------
(* Prices. *)

LEMMA TimesGrows ==
    ASSUME NEW a \in Nat, NEW b \in Int, NEW c \in Int, b <= c
    PROVE  a * b \in Int /\ a * c \in Int /\ a * b <= a * c
OBVIOUS

(* What is worth a capital with its friction is worth a smaller one with   *)
(* costs that are no larger a share of the gross.                          *)
LEMMA SmallerCapital ==
    ASSUME NEW V \in Int, NEW k \in Nat, NEW m \in Nat, NEW F \in Nat, NEW cap \in Nat, NEW c \in Nat, c <= cap,
           NEW g \in Nat, NEW C \in Nat, 100 * C <= F * g, (k + m * F) * cap <= 100 * V
    PROVE  k * (c * g) + 100 * (m * (C * c)) <= 100 * (V * g)
<1>1. (k + m * F) * c <= (k + m * F) * cap
  <2>1. k + m * F \in Nat
    OBVIOUS
  <2>. QED
    BY <2>1, TimesGrows
<1>2. (k + m * F) * c \in Int /\ (k + m * F) * c <= 100 * V
  <2>1. (k + m * F) * c \in Int /\ (k + m * F) * cap \in Int
    OBVIOUS
  <2>. QED
    BY <1>1, <2>1
<1>3. g * ((k + m * F) * c) <= g * (100 * V)
  BY <1>2, TimesGrows
<1>4. (m * c) * (100 * C) <= (m * c) * (F * g)
  <2>1. m * c \in Nat /\ 100 * C \in Int /\ F * g \in Int
    OBVIOUS
  <2>. QED
    BY <2>1, TimesGrows
<1>5. g * ((k + m * F) * c) = k * (c * g) + (m * c) * (F * g)
  OBVIOUS
<1>6. (m * c) * (100 * C) = 100 * (m * (C * c)) /\ g * (100 * V) = 100 * (V * g)
  OBVIOUS
<1>7. k * (c * g) \in Int /\ (m * c) * (F * g) \in Int /\ 100 * (m * (C * c)) \in Int /\ 100 * (V * g) \in Int
  OBVIOUS
<1>. DEFINE A == k * (c * g)
            B == (m * c) * (F * g)
            D == 100 * (m * (C * c))
            E == 100 * (V * g)
<1>8. A + B <= E /\ D <= B
  BY <1>3, <1>4, <1>5, <1>6
<1>9. A \in Int /\ B \in Int /\ D \in Int /\ E \in Int
  BY <1>7
<1>. SUFFICES A + D <= E
  OBVIOUS
<1>. HIDE DEF A, B, D, E
<1>. QED
  BY <1>8, <1>9

(* What gate 4 has passed. *)
LEMMA GateFourMeans ==
    ASSUME NEW d, IsStage4Case(d), CompleteReport(d).label = "TRADE_READY"
    PROVE  LET S == d.valuation.shares
               cap == d.price.price * S
               F == d.price.cost + d.price.slippage
               base == d.valuation.values["base"].lower
               downside == d.valuation.values["downside"].lower
           IN /\ d.price.price \in Int /\ S \in Int /\ S > 0 /\ cap > 0 /\ F \in Nat
              /\ 100 * base - (100 + F) * cap >= 15 * cap
              /\ 100 * base - (100 + F) * cap >= 2 * (-(100 * downside - (100 + F) * cap))
<1>. DEFINE gates == GateReport(GateInput(d))
            x == ValuationInput(d, gates)
            rest == ValuationReport(x)
<1>1. rest.three.gate = "PASS" /\ rest.four = "PASS"
  BY ReadyMeans
<1>2. x.price = d.price /\ x.valuation = d.valuation
  BY ValuationInputIs DEF IsStage4Case
<1>. HIDE DEF x
<1>3. EvaluateGate4(x, "PASS") = "PASS"
  BY <1>1, ReportOfThree
<1>4. /\ None \notin {d.price.price, d.price.shares, d.price.cost, d.price.slippage}
      /\ ~(d.price.price * d.price.shares <= 0) /\ ~(d.price.shares <= 0) /\ ~(d.price.cost + d.price.slippage < 0)
      /\ d.valuation.shares = d.price.shares /\ Rewards(x)
  BY <1>2, <1>3, NoneIsNoApproval DEF EvaluateGate4
<1>5. d.price.price \in Int /\ d.price.shares \in Int /\ d.price.cost \in Int /\ d.price.slippage \in Int
  BY <1>4 DEF IsStage4Case, IsPriceAssumption, IsAmount
<1>6. d.price.price * d.price.shares \in Int
  BY <1>5
<1>. QED
  BY <1>2, <1>4, <1>5, <1>6 DEF Rewards, NetAt, MinNetBaseReturn, MinRewardToDownside

LEMMA ValuesAreNumbers ==
    ASSUME NEW v, IsValuation(v), v.values # None
    PROVE  v.values["base"].lower \in Int /\ v.values["downside"].lower \in Int
BY DEF IsValuation, Intervals

LEMMA GateThreeAtQuote ==
    ASSUME NEW d, IsStage4Case(d), CompleteReport(d).view.three = "PASS",
           d.market.shares = d.valuation.shares,
           NEW p \in Nat \ {0}, p <= d.market.price
    PROVE  Market!Gate3([stage4 |-> Approved(d, CompleteReport(d))], p) = "PASS"
<1>. DEFINE c == [stage4 |-> Approved(d, CompleteReport(d))]
            v == c.stage4.valuation
            bl == d.valuation.business.lower
            bu == d.valuation.business.upper
            el == d.valuation.event.lower
            eu == d.valuation.event.upper
            S == d.valuation.shares
            M == d.market.price * S
<1>1. /\ d.market.price \in Nat \ {0} /\ S \in Nat \ {0}
      /\ d.valuation.business \in Intervals /\ IsInterval(d.valuation.business)
      /\ d.valuation.event \in Intervals /\ IsInterval(d.valuation.event)
      /\ d.valuation.values # None /\ M - bl < el
      /\ CompleteReport(d).expectation \in {"unexpected", "partially_priced"}
  BY GateThreeMeans
<1>2. /\ v.shares = S /\ v.business = d.valuation.business /\ v.event = d.valuation.event
      /\ c.stage4.gate3 = "PASS" /\ c.stage4.expectation = CompleteReport(d).expectation
  BY DEF Approved
<1>3. v # None
  <2>1. v \in [shares : Int, business : Intervals, event : Intervals, base : Int, downside : Int]
    BY <1>1, ValuesAreNumbers DEF Approved, IsStage4Case
  <2>. QED
    BY <2>1, NoneIsNoApproval
<1>4. /\ bl \in Int /\ bu \in Int /\ el \in Int /\ eu \in Int /\ bl <= bu /\ el <= eu
  BY <1>1 DEF Intervals, IsInterval
<1>5. p * S \in Int /\ M \in Int /\ p * S <= M
  <2>1. S * p <= S * d.market.price
    BY <1>1, TimesGrows
  <2>. QED
    BY <1>1, <2>1
<1>6. Market!Reflection(v, p) = "NOT_FULLY_REFLECTED"
  <2>. DEFINE N == p * S
  <2>1. N \in Int /\ N <= M /\ M \in Int /\ M - bl < el
    BY <1>1, <1>5
  <2>2. ~(N - bu >= eu) /\ N - bl < el
    <3>. HIDE DEF N, M, bl, bu, el, eu
    <3>. QED
      BY <1>4, <2>1
  <2>. QED
    BY <1>2, <2>2 DEF Market!Reflection
<1>7. ~(v.shares <= 0)
  BY <1>1, <1>2
<1>8. c.stage4.expectation \notin {None, "unknown", "fully_priced"}
  BY <1>1, <1>2, NoneIsNoApproval
<1>. HIDE DEF v
<1>9. c.stage4.valuation = v
  BY DEF v
<1>. HIDE DEF c
<1>. SUFFICES Market!Gate3(c, p) = "PASS"
  BY DEF c
<1>. QED
  BY <1>2, <1>3, <1>6, <1>7, <1>8, <1>9 DEF Market!Gate3

LEMMA GateFourAtQuote ==
    ASSUME NEW d, IsStage4Case(d), CompleteReport(d).label = "TRADE_READY", CompleteReport(d).view.three = "PASS",
           NEW p \in Nat \ {0}, p <= d.price.price, NEW cost \in Nat,
           100 * cost <= (d.price.cost + d.price.slippage) * (p * Quantity)
    PROVE  Market!Gate4([stage4 |-> Approved(d, CompleteReport(d))], QuoteAt(p, cost)) # "REJECT"
<1>. DEFINE c == [stage4 |-> Approved(d, CompleteReport(d))]
            q == QuoteAt(p, cost)
            S == d.valuation.shares
            P == d.price.price
            cap == P * S
            F == d.price.cost + d.price.slippage
            vb == d.valuation.values["base"].lower
            vd == d.valuation.values["downside"].lower
            g == p * Quantity
            mc == p * S
<1>1. /\ P \in Int /\ S \in Int /\ S > 0 /\ cap > 0 /\ F \in Nat
      /\ 100 * vb - (100 + F) * cap >= 15 * cap
      /\ 100 * vb - (100 + F) * cap >= 2 * (-(100 * vd - (100 + F) * cap))
  BY GateFourMeans
<1>2. vb \in Int /\ vd \in Int
  BY GateThreeMeans, ValuesAreNumbers DEF IsStage4Case
<1>3. g \in Nat /\ mc \in Nat /\ cap \in Nat
  BY <1>1 DEF Quantity
<1>4. mc <= cap
  <2>1. S \in Nat /\ S * p <= S * P
    BY <1>1, TimesGrows
  <2>. QED
    BY <1>1, <2>1
<1>5. /\ c.stage4.valuation.shares = S /\ c.stage4.valuation.base = vb /\ c.stage4.valuation.downside = vd
      /\ q.price = p /\ q.gross = g /\ q.fee = cost /\ q.tax = 0
  BY DEF Approved, QuoteAt
<1>6. 100 * cost <= F * g
  OBVIOUS
<1>. HIDE DEF c, q, S, P, F, vb, vd, g
<1>7. (115 + 1 * F) * cap <= 100 * vb
  <2>1. (115 + 1 * F) * cap = (100 + F) * cap + 15 * cap
    BY <1>1, <1>3
  <2>2. (100 + F) * cap \in Int
    BY <1>1, <1>3
  <2>. DEFINE fc == (100 + F) * cap
  <2>. HIDE DEF fc, cap
  <2>. QED
    BY <1>1, <1>2, <1>3, <2>1, <2>2
<1>8. (300 + 3 * F) * cap <= 100 * (vb + 2 * vd)
  <2>1. (300 + 3 * F) * cap = 3 * ((100 + F) * cap)
    BY <1>1, <1>3
  <2>2. (100 + F) * cap \in Int
    BY <1>1, <1>3
  <2>. DEFINE fc == (100 + F) * cap
  <2>3. fc \in Int /\ 100 * vb - fc >= 2 * (-(100 * vd - fc))
    BY <1>1, <2>2
  <2>4. 3 * fc <= 100 * (vb + 2 * vd)
    <3>. HIDE DEF fc
    <3>. QED
      BY <1>2, <2>3
  <2>. QED
    BY <2>1, <2>4
<1>. HIDE DEF cap, mc
<1>9. 115 * (mc * g) + 100 * (1 * (cost * mc)) <= 100 * (vb * g)
  BY <1>1, <1>2, <1>3, <1>4, <1>6, <1>7, SmallerCapital
<1>10. 300 * (mc * g) + 100 * (3 * (cost * mc)) <= 100 * ((vb + 2 * vd) * g)
  BY <1>1, <1>2, <1>3, <1>4, <1>6, <1>8, SmallerCapital
<1>. DEFINE MG == mc * g
            CM == cost * mc
            BG == vb * g
            DG == vd * g
            base == BG - MG - CM
            loss == -(DG - MG - CM)
<1>11. MG \in Int /\ CM \in Int /\ BG \in Int /\ DG \in Int
  BY <1>2, <1>3
<1>12. (vb + 2 * vd) * g = BG + 2 * DG
  BY <1>2, <1>3
<1>13. 115 * MG + 100 * CM <= 100 * BG /\ 300 * MG + 300 * CM <= 100 * (BG + 2 * DG)
  <2>1. 1 * (cost * mc) = CM /\ 100 * (3 * (cost * mc)) = 300 * CM
    BY <1>3
  <2>. QED
    BY <1>9, <1>10, <1>12, <2>1
<1>14. ~(100 * base < 15 * MG) /\ ~(base < 2 * loss)
  <2>. HIDE DEF MG, CM, BG, DG
  <2>. QED
    BY <1>11, <1>13
<1>15. /\ Market!NetReturn(vb, mc, q) = base
       /\ Market!NetReturn(vd, mc, q) = DG - MG - CM
  <2>1. (q.fee + q.tax) * mc = CM
    BY <1>3, <1>5
  <2>. QED
    BY <1>5, <2>1 DEF Market!NetReturn
<1>16. 15 * mc * q.gross = 15 * MG
  BY <1>3, <1>5
<1>17. q.price * c.stage4.valuation.shares = mc
  BY <1>5 DEF mc
<1>. HIDE DEF base, loss, MG
<1>18. 100 * Market!NetReturn(vb, mc, q) < 15 * mc * q.gross => FALSE
  BY <1>14, <1>15, <1>16
<1>19. Market!NetReturn(vb, mc, q) < 2 * (-Market!NetReturn(vd, mc, q)) => FALSE
  BY <1>14, <1>15 DEF loss, MG
<1>. SUFFICES Market!Gate4(c, q) # "REJECT"
  BY DEF c, q
<1>. QED
  BY <1>5, <1>17, <1>18, <1>19 DEF Market!Gate4, Market!MinNetBase, Market!MinReward

(* A case that is ready at its assumed price is not turned down at a quote  *)
(* that is no worse.                                                        *)
THEOREM CaseApprovalHoldsAtBetterPrice == CaseSpec => []ApprovalHoldsAtBetterPrice
<1>1. CaseInv => ApprovalHoldsAtBetterPrice
  <2>1. SUFFICES ASSUME CaseInv, Ready, quote # None, dossier.market.shares = dossier.valuation.shares,
                        quote.price <= dossier.price.price, quote.price <= dossier.market.price,
                        100 * (quote.fee + quote.tax) <= (dossier.price.cost + dossier.price.slippage) * quote.gross
                 PROVE  "PASS" \in recheck /\ "REJECT" \notin recheck
    BY DEF ApprovalHoldsAtBetterPrice
  <2>2. /\ IsStage4Case(dossier) /\ verdict = CompleteReport(dossier)
        /\ CompleteReport(dossier).label = "TRADE_READY"
    BY <2>1 DEF CaseInv, Ready
  <2>3. PICK price \in Prices, cost \in Costs :
               /\ quote = QuoteAt(price, cost)
               /\ recheck = Market!GatesAt([stage4 |-> Approved(dossier, verdict)], QuoteAt(price, cost))
    BY <2>1 DEF CaseInv
  <2>4. price \in Nat \ {0} /\ cost \in Nat
    BY QuotesAreConstructible
  <2>5. quote.price = price /\ quote.fee = cost /\ quote.tax = 0 /\ quote.gross = price * Quantity
    BY <2>3 DEF QuoteAt
  <2>6. 100 * cost <= (dossier.price.cost + dossier.price.slippage) * (price * Quantity)
    BY <2>1, <2>4, <2>5
  <2>7. CompleteReport(dossier).view.three = "PASS"
    <3>. DEFINE d == dossier
                gates == GateReport(GateInput(d))
                rest == ValuationReport(ValuationInput(d, gates))
    <3>1. CompleteReport(d).view = View(gates, rest.three.gate, rest.four) /\ rest.three.gate = "PASS"
      BY <2>2, ReadyMeans
    <3>. HIDE DEF gates, rest
    <3>. QED
      BY <3>1 DEF View
  <2>. DEFINE c == [stage4 |-> Approved(dossier, CompleteReport(dossier))]
              q == QuoteAt(price, cost)
  <2>8. Market!Gate3(c, price) = "PASS"
    BY <2>1, <2>2, <2>4, <2>5, <2>7, GateThreeAtQuote
  <2>9. Market!Gate4(c, q) # "REJECT"
    BY <2>1, <2>2, <2>4, <2>5, <2>6, <2>7, GateFourAtQuote
  <2>10. q.price = price
    BY <2>3, <2>5
  <2>11. recheck = Market!GatesAt(c, q)
    BY <2>2, <2>3
  <2>. HIDE DEF c, q
  <2>. QED
    BY <2>8, <2>9, <2>10, <2>11 DEF Market!GatesAt
<1>. QED
  BY <1>1, CaseStep, CaseStarts, PTL DEF CaseSpec

-----------------------------------------------------------------------------
(* Losing something is no way to be ready. *)

(* A case is ready exactly when everything about it passes. *)
Passing(d) ==
    LET gates == GateReport(GateInput(d))
        rest == ValuationReport(ValuationInput(d, gates))
    IN /\ Preflight(d) /\ BoundTo(d, gates)
       /\ gates.one = "PASS" /\ gates.scenarios = "PASS" /\ gates.two = "PASS"
       /\ rest.three.gate = "PASS" /\ rest.four = "PASS"

LEMMA ReportOfPreflight ==
    ASSUME NEW d, Preflight(d)
    PROVE  CompleteReport(d) = Composed(d, GateReport(GateInput(d)))
BY DEF CompleteReport, GateInput

LEMMA ReportOfBound ==
    ASSUME NEW d, Preflight(d), BoundTo(d, GateReport(GateInput(d)))
    PROVE  LET gates == GateReport(GateInput(d))
               rest == ValuationReport(ValuationInput(d, gates))
           IN CompleteReport(d) = Completed(View(gates, rest.three.gate, rest.four), rest)
<1>. DEFINE gates == GateReport(GateInput(d))
<1>1. CompleteReport(d) = Composed(d, gates)
  BY ReportOfPreflight
<1>2. BoundTo(d, gates)
  OBVIOUS
<1>3. ValuationInput(d, gates) = Joined([upstream |-> gates], d)
  BY DEF ValuationInput
<1>. HIDE DEF gates
<1>. SUFFICES LET rest == ValuationReport(ValuationInput(d, gates))
              IN CompleteReport(d) = Completed(View(gates, rest.three.gate, rest.four), rest)
  BY DEF gates
<1>. QED
  BY <1>1, <1>2, <1>3 DEF Composed, Continued

LEMMA ReadyIs ==
    ASSUME NEW d
    PROVE  CompleteReport(d).label = "TRADE_READY" <=> Passing(d)
<1>. DEFINE gates == GateReport(GateInput(d))
            rest == ValuationReport(ValuationInput(d, gates))
<1>1. ASSUME Passing(d)
      PROVE  CompleteReport(d).label = "TRADE_READY"
  <2>1. /\ Preflight(d) /\ BoundTo(d, gates)
        /\ gates.one = "PASS" /\ gates.scenarios = "PASS" /\ gates.two = "PASS"
        /\ rest.three.gate = "PASS" /\ rest.four = "PASS"
    BY <1>1 DEF Passing
  <2>. DEFINE view == View(gates, rest.three.gate, rest.four)
  <2>2. CompleteReport(d) = Completed(view, rest)
    BY <2>1, ReportOfBound
  <2>3. Range(view) = {"PASS"}
    <3>. HIDE DEF gates, rest
    <3>1. view = [one |-> "PASS", scenarios |-> "PASS", two |-> "PASS", three |-> "PASS", four |-> "PASS"]
      BY <2>1 DEF View
    <3>2. DOMAIN view # {} /\ \A part \in DOMAIN view : view[part] = "PASS"
      BY <3>1
    <3>. HIDE DEF view
    <3>. QED
      BY <3>2 DEF Range
  <2>. HIDE DEF view
  <2>. QED
    BY <2>2, <2>3 DEF Completed, Aggregate
<1>2. ASSUME CompleteReport(d).label = "TRADE_READY"
      PROVE  Passing(d)
  <2>1. /\ Preflight(d) /\ gates.one = "PASS" /\ gates.scenarios = "PASS" /\ gates.two = "PASS"
        /\ rest.three.gate = "PASS" /\ rest.four = "PASS"
    BY <1>2, ReadyMeans
  <2>2. BoundTo(d, gates)
    <3>1. SUFFICES ASSUME ~BoundTo(d, gates) PROVE FALSE
      OBVIOUS
    <3>2. CompleteReport(d) = Composed(d, gates)
      BY <2>1, ReportOfPreflight
    <3>. HIDE DEF gates
    <3>. QED
      BY <1>2, <3>1, <3>2 DEF Composed, Stopped
  <2>. QED
    BY <2>1, <2>2 DEF Passing
<1>. QED
  BY <1>1, <1>2

LEMMA GateInputContext ==
    ASSUME NEW d
    PROVE  GateInput(d).context = ContextReport(d.industry) /\ GateInput(d).event = EventReport(d.event)
BY DEF GateInput, Joined

(* What the gates have passed. *)
LEMMA GatesPass ==
    ASSUME NEW g
    PROVE  /\ (GateReport(g).one = "PASS" /\ GateReport(g).scenarios = "PASS" /\ GateReport(g).two = "PASS")
                <=> /\ AuthenticityGate(g.context, g.event) = "PASS"
                    /\ ScenarioValidation(g) = "PASS" /\ MaterialityGate(g) = "PASS"
           /\ (AuthenticityGate(g.context, g.event) = "PASS" /\ ScenarioValidation(g) = "PASS")
                => GateReport(g) = GatesOf(g, "PASS", "PASS", MaterialityGate(g))
<1>. DEFINE one == AuthenticityGate(g.context, g.event)
            scenarios == IF one = "PASS" THEN ScenarioValidation(g) ELSE None
            two == IF scenarios = "PASS" THEN MaterialityGate(g) ELSE None
<1>1. GateReport(g) = GatesOf(g, one, scenarios, two)
  BY DEF GateReport
<1>2. GateReport(g).one = one /\ GateReport(g).scenarios = scenarios /\ GateReport(g).two = two
  <2>. HIDE DEF one, scenarios, two
  <2>. QED
    BY <1>1 DEF GatesOf
<1>3. None # "PASS"
  BY NoneIsNoApproval
<1>. QED
  BY <1>1, <1>2, <1>3

(* The same scenarios, bridges and knowledge pass the same gates.          *)
LEMMA GatesAlike ==
    ASSUME NEW g, NEW h, h.scenarios = g.scenarios, h.baseBridge = g.baseBridge, h.downsideBridge = g.downsideBridge,
           h.graph = g.graph,
           GateReport(g).one = "PASS", GateReport(g).scenarios = "PASS", GateReport(g).two = "PASS",
           AuthenticityGate(h.context, h.event) = "PASS"
    PROVE  GateReport(h) = GateReport(g)
<1>1. AuthenticityGate(g.context, g.event) = "PASS" /\ ScenarioValidation(g) = "PASS" /\ MaterialityGate(g) = "PASS"
  BY GatesPass
<1>2. ScenarioValidation(h) = ScenarioValidation(g)
  <2>1. RefersTo(h) = RefersTo(g)
    BY DEF RefersTo
  <2>2. ReferencesHold(h) <=> ReferencesHold(g)
    BY <2>1 DEF ReferencesHold
  <2>3. LawfulSet(h) <=> LawfulSet(g)
    BY <2>2 DEF LawfulSet
  <2>4. SetOutcome(h) = SetOutcome(g)
    BY <2>3 DEF SetOutcome
  <2>. QED
    BY <2>4 DEF ScenarioValidation
<1>3. BridgesOutcome(h) = BridgesOutcome(g) /\ (Fragile(h) <=> Fragile(g))
  BY DEF BridgesOutcome, Fragile
<1>4. MaterialityGate(h) = MaterialityGate(g)
  BY <1>3 DEF MaterialityGate
<1>5. GateReport(h) = GatesOf(h, "PASS", "PASS", "PASS") /\ GateReport(g) = GatesOf(g, "PASS", "PASS", "PASS")
  BY <1>1, <1>2, <1>4, GatesPass
<1>. QED
  BY <1>3, <1>5 DEF GatesOf

LEMMA BridgesPass ==
    ASSUME NEW g, MaterialityGate(g) = "PASS"
    PROVE  BridgeOutcome(g.baseBridge) = "PASS" /\ BridgeOutcome(g.downsideBridge) = "PASS"
<1>. DEFINE outcomes == <<BridgeOutcome(g.baseBridge), BridgeOutcome(g.downsideBridge)>>
<1>1. FirstFault(outcomes) = "PASS"
  BY DEF MaterialityGate, BridgesOutcome
<1>2. DOMAIN outcomes = 1..2 /\ outcomes[1] = BridgeOutcome(g.baseBridge) /\ outcomes[2] = BridgeOutcome(g.downsideBridge)
  OBVIOUS
<1>. HIDE DEF outcomes
<1>3. \A k \in DOMAIN outcomes : outcomes[k] = "PASS"
  <2>1. DOMAIN outcomes \subseteq Nat
    BY <1>2
  <2>. QED
    BY <1>1, <2>1, FaultsNone
<1>. QED
  BY <1>2, <1>3

(* No case is ready that lost something of its industry, its scenarios or   *)
(* its bridges.                                                             *)
LEMMA MissedBeforeGates ==
    ASSUME NEW d, IsStage4Case(d), NEW c,
           GateLoss(d, c) \/ (Differs(d, c, "industry") /\ c.industry \in WithheldIndustry(d.industry))
    PROVE  ~Passing(c)
<1>. SUFFICES ASSUME Passing(c)
              PROVE  FALSE
  OBVIOUS
<1>. DEFINE g == GateInput(c)
<1>1. Loss(d, c)
  BY DEF Loss
<1>2. IsStage4Case(c)
  BY <1>1, LossLeavesACase
<1>3. g.scenarios = c.scenarios /\ g.baseBridge = c.baseBridge /\ g.downsideBridge = c.downsideBridge
  BY <1>2, GateInputIs DEF IsStage4Case
<1>4. /\ AuthenticityGate(ContextReport(c.industry), EventReport(c.event)) = "PASS"
      /\ ScenarioValidation(g) = "PASS" /\ MaterialityGate(g) = "PASS"
  BY GatesPass, GateInputContext DEF Passing
<1>5. IndustryPassing(c.industry)
  BY <1>4, AuthenticIs
<1>. HIDE DEF g
<1>6. BridgeOutcome(c.baseBridge) = "PASS" /\ BridgeOutcome(c.downsideBridge) = "PASS"
  BY <1>3, <1>4, BridgesPass
<1>7. /\ IsIndustry(d.industry) /\ IsBridge(d.baseBridge) /\ IsBridge(d.downsideBridge) /\ IsScenarioSet(d.scenarios)
  BY DEF IsStage4Case
<1>8. ~(Differs(d, c, "industry") /\ c.industry \in WithheldIndustry(d.industry))
  BY <1>5, <1>7, IndustryLosses
<1>9. ~(\E n \in DOMAIN d.baseBridge.parts : c.baseBridge = PartUnknown(d.baseBridge, n))
  BY <1>6, <1>7, BridgeLosses
<1>10. ~(\E n \in DOMAIN d.downsideBridge.parts : c.downsideBridge = PartWithout(d.downsideBridge, n))
  BY <1>6, <1>7, BridgeLosses
<1>11. ~(\E k \in DOMAIN d.scenarios.scenarios :
            c.scenarios \in {DriverUnknown(d.scenarios, k), LineMissing(d.scenarios, k), LinesUnfounded(d.scenarios, k)})
  BY <1>3, <1>4, <1>7, ScenarioSetLosses
<1>. QED
  BY <1>8, <1>9, <1>10, <1>11 DEF GateLoss

(* Gates 3 and 4 pass the same again when it is given to them again.       *)
ValuationParts == {"cutoff", "public", "basis", "binding", "profit", "cashFlow", "market", "valuation", "price", "plan"}
ExpectationParts == {"id", "intact", "asOf", "cutoff", "public", "basis", "conflicting", "covered"}

LEMMA ValuationAlike ==
    ASSUME NEW x, NEW y, y.upstream = x.upstream, \A p \in ValuationParts : y[p] = x[p],
           \A f \in ExpectationParts : y.expectation[f] = x.expectation[f], Expectation(y) = Expectation(x),
           ValuationReport(x).three.gate = "PASS", ValuationReport(x).four = "PASS"
    PROVE  ValuationReport(y).three = ValuationReport(x).three /\ ValuationReport(y).four = "PASS"
<1>1. ValuationReport(x).three = EvaluateGate3(x) /\ EvaluateGate4(x, "PASS") = "PASS" /\ EvaluateGate3(x).gate = "PASS"
  BY ReportOfThree
<1>2. ArtifactsLawful(x)
  BY DEF ValuationReport, Priced
<1>3. /\ y.cutoff = x.cutoff /\ y.public = x.public /\ y.basis = x.basis /\ y.market = x.market
      /\ y.valuation = x.valuation /\ y.price = x.price /\ y.plan = x.plan
  BY DEF ValuationParts
<1>4. /\ y.expectation.id = x.expectation.id /\ y.expectation.intact = x.expectation.intact
      /\ y.expectation.asOf = x.expectation.asOf /\ y.expectation.cutoff = x.expectation.cutoff
      /\ y.expectation.public = x.expectation.public /\ y.expectation.basis = x.expectation.basis
      /\ y.expectation.conflicting = x.expectation.conflicting /\ y.expectation.covered = x.expectation.covered
  BY DEF ExpectationParts
<1>5. ArtifactsLawful(y)
  <2>1. \A a \in Artifacts : /\ y[a].id = x[a].id /\ y[a].intact = x[a].intact
                             /\ y[a].asOf = x[a].asOf /\ y[a].cutoff = x[a].cutoff
    BY <1>3, <1>4 DEF Artifacts
  <2>. QED
    BY <1>2, <1>3, <2>1 DEF ArtifactsLawful
<1>6. EvaluateGate3(y) = EvaluateGate3(x)
  <2>1. Implied(y) = Implied(x)
    BY <1>3 DEF Implied
  <2>2. Pricing(y) = Pricing(x)
    BY <1>3, <2>1 DEF Pricing
  <2>3. Gate3Verdict(y) = Gate3Verdict(x)
    BY <2>2 DEF Gate3Verdict
  <2>. QED
    BY <1>3, <1>4, <2>3 DEF EvaluateGate3
<1>7. EvaluateGate4(y, "PASS") = "PASS"
  <2>1. (Rewards(y) <=> Rewards(x)) /\ (NoLoss(y) <=> NoLoss(x))
    BY <1>3 DEF Rewards, NoLoss
  <2>. QED
    BY <1>1, <1>3, <2>1 DEF EvaluateGate4
<1>8. ValuationReport(y) = GatesThreeFour(y, EvaluateGate3(y), EvaluateGate4(y, EvaluateGate3(y).gate))
  BY <1>5 DEF ValuationReport
<1>. QED
  BY <1>1, <1>6, <1>7, <1>8 DEF GatesThreeFour

(* A prior that is missing, or that nobody looked for, was not what the     *)
(* expectation rested on when it passes.                                    *)
LEMMA PriorNotMissed ==
    ASSUME NEW x, NEW y, \A p \in ValuationParts : y[p] = x[p], IsExpectation(y.expectation),
           x.expectation \in {PriorUnknown(y.expectation), AbsenceUnknown(y.expectation)},
           Expectation(x) \in {"unexpected", "partially_priced"}
    PROVE  Expectation(y) = Expectation(x)
<1>1. "prior" \in DOMAIN y.expectation /\ {"state", "binding", "profit", "cashFlow", "absence"} \subseteq DOMAIN y.expectation.prior
  BY DEF IsExpectation
<1>2. y.binding = x.binding /\ y.profit = x.profit /\ y.cashFlow = x.cashFlow
  BY DEF ValuationParts
<1>3. CASE x.expectation = PriorUnknown(y.expectation)
  <2>1. x.expectation.prior = [y.expectation.prior EXCEPT !.profit = None]
    BY <1>1, <1>3 DEF PriorUnknown
  <2>2. x.expectation.prior.profit = None /\ x.expectation.prior.state = y.expectation.prior.state
        /\ x.expectation.prior.absence = y.expectation.prior.absence
    BY <1>1, <2>1
  <2>3. y.expectation.prior.state = "explicitly_absent"
    BY <2>2 DEF Expectation
  <2>. QED
    BY <1>2, <2>2, <2>3 DEF Expectation
<1>4. CASE x.expectation = AbsenceUnknown(y.expectation)
  <2>1. x.expectation.prior = [y.expectation.prior EXCEPT !.absence = FALSE]
    BY <1>1, <1>4 DEF AbsenceUnknown
  <2>2. /\ ~x.expectation.prior.absence /\ x.expectation.prior.state = y.expectation.prior.state
        /\ x.expectation.prior.binding = y.expectation.prior.binding
        /\ x.expectation.prior.profit = y.expectation.prior.profit
        /\ x.expectation.prior.cashFlow = y.expectation.prior.cashFlow
    BY <1>1, <2>1
  <2>3. y.expectation.prior.state # "explicitly_absent"
    BY <2>2 DEF Expectation
  <2>. QED
    BY <1>2, <2>2, <2>3 DEF Expectation
<1>. QED
  BY <1>3, <1>4

(* What gates 3 and 4 cannot do without.                                   *)
LEMMA GateThreeNeeds ==
    ASSUME NEW x, EvaluateGate3(x).gate = "PASS"
    PROVE  x.expectation.covered /\ x.market.price # None /\ x.market.turnover # None
<1>1. Priced(None, None, None).gate # "PASS" /\ Priced("BLOCKED", None, None).gate # "PASS" /\ Unpriced.gate # "PASS"
      /\ Priced("ABSTAIN", None, "indeterminate").gate # "PASS"
  BY NoneIsNoApproval DEF Priced, Unpriced
<1>. QED
  BY <1>1 DEF EvaluateGate3

LEMMA GateFourNeeds ==
    ASSUME NEW x, EvaluateGate4(x, "PASS") = "PASS"
    PROVE  x.price.price # None /\ x.price.slippage # None /\ x.plan.days # None /\ ~(x.plan.falsifiers < 2)
BY DEF EvaluateGate4

LEMMA ValuationParted ==
    ASSUME NEW d, CaseParts \subseteq DOMAIN d, NEW gates
    PROVE  /\ ValuationInput(d, gates).upstream = gates
           /\ \A p \in ValuationParts \cup {"case", "expectation", "exit"} : ValuationInput(d, gates)[p] = d[p]
<1>1. ValuationParts \cup {"case", "expectation", "exit"} \subseteq DOMAIN d
  BY DEF ValuationParts, CaseParts, Artifacts
<1>. QED
  BY <1>1 DEF ValuationInput, Joined, ValuationParts

LEMMA MissedByValuation ==
    ASSUME NEW d, IsStage4Case(d), NEW c, ValuationLoss(d, c), Passing(c)
    PROVE  /\ Differs(d, c, "expectation")
           /\ c.expectation \in {PriorUnknown(d.expectation), AbsenceUnknown(d.expectation)}
<1>. DEFINE gates == GateReport(GateInput(c))
            x == ValuationInput(c, gates)
<1>1. ValuationReport(x).three.gate = "PASS" /\ ValuationReport(x).four = "PASS"
  BY DEF Passing
<1>2. IsStage4Case(c)
  BY LossLeavesACase DEF Loss
<1>3. /\ x.expectation = c.expectation /\ x.market = c.market /\ x.valuation = c.valuation /\ x.price = c.price
      /\ x.plan = c.plan
  BY <1>2, ValuationInputIs DEF IsStage4Case
<1>. HIDE DEF x
<1>4. EvaluateGate3(x).gate = "PASS" /\ EvaluateGate4(x, "PASS") = "PASS"
  BY <1>1, ReportOfThree
<1>5. /\ c.expectation.covered /\ c.market.price # None /\ c.market.turnover # None
      /\ c.price.price # None /\ c.price.slippage # None /\ c.plan.days # None /\ ~(c.plan.falsifiers < 2)
  BY <1>3, <1>4, GateThreeNeeds, GateFourNeeds
<1>6. c.valuation.business # None /\ c.valuation.event # None /\ c.valuation.values # None /\ c.valuation.shares # None
  <2>1. ValuationOutcome(x.valuation) = "PASS"
    BY <1>4, GateThreeIs
  <2>. QED
    BY <1>3, <2>1, ValuedIs
<1>7. /\ {"price", "turnover"} \subseteq DOMAIN d.market /\ {"business", "event", "values", "shares"} \subseteq DOMAIN d.valuation
      /\ {"price", "slippage"} \subseteq DOMAIN d.price /\ {"days", "falsifiers"} \subseteq DOMAIN d.plan
      /\ "covered" \in DOMAIN d.expectation
  BY DEF IsStage4Case, IsMarketContext, IsValuation, IsPriceAssumption, IsPlan, IsExpectation
<1>8. c.expectation # [d.expectation EXCEPT !.covered = FALSE]
  BY <1>5, <1>7
<1>9. c.market # [d.market EXCEPT !.price = None] /\ c.market # [d.market EXCEPT !.turnover = None]
  BY <1>5, <1>7
<1>10. /\ c.valuation # [d.valuation EXCEPT !.business = None] /\ c.valuation # [d.valuation EXCEPT !.event = None]
       /\ c.valuation # [d.valuation EXCEPT !.values = None] /\ c.valuation # [d.valuation EXCEPT !.shares = None]
  BY <1>6, <1>7
<1>11. c.price # [d.price EXCEPT !.price = None] /\ c.price # [d.price EXCEPT !.slippage = None]
  BY <1>5, <1>7
<1>12. c.plan # [d.plan EXCEPT !.days = None] /\ c.plan # [d.plan EXCEPT !.falsifiers = 0]
  <2>1. c.plan # [d.plan EXCEPT !.falsifiers = 0]
    BY <1>5, <1>7
  <2>. QED
    BY <1>5, <1>7, <2>1
<1>. QED
  BY <1>8, <1>9, <1>10, <1>11, <1>12 DEF ValuationLoss

(* Of a holding that loses something the snapshot stays, its loss apart.   *)
LEMMA SnapshotKept ==
    ASSUME NEW e, IsExit(e), NEW w \in WithheldHolding(e)
    PROVE  /\ e.snapshot = None <=> w.snapshot = None
           /\ w.snapshot # None =>
                \A p \in {"case", "bound", "cutoff", "synthetic", "executes", "intact", "asOf", "budget"} : e.snapshot[p] = w.snapshot[p]
           /\ w.snapshot # e.snapshot =>
                /\ w.snapshot.loss = None
                /\ \A f \in DOMAIN e \ {"snapshot"} : w[f] = e[f]
<1>1. /\ {"holding", "snapshot", "triggers", "elapsed", "calendar", "verified", "cap", "baseValue", "newEvidence",
          "reunderwritten"} \subseteq DOMAIN e
  BY DEF IsExit
<1>2. w.snapshot = e.snapshot \/ (e.snapshot # None /\ w = [e EXCEPT !.snapshot = [e.snapshot EXCEPT !.loss = None]])
  BY <1>1 DEF WithheldHolding
<1>3. CASE w.snapshot = e.snapshot
  BY <1>3
<1>4. CASE e.snapshot # None /\ w = [e EXCEPT !.snapshot = [e.snapshot EXCEPT !.loss = None]]
  <2>1. w.snapshot = [e.snapshot EXCEPT !.loss = None] /\ \A f \in DOMAIN e \ {"snapshot"} : w[f] = e[f]
    BY <1>1, <1>4
  <2>2. e.snapshot \in Holdings
    BY <1>4 DEF IsExit
  <2>3. /\ w.snapshot # None /\ w.snapshot.loss = None
        /\ \A f \in DOMAIN e.snapshot : f # "loss" => w.snapshot[f] = e.snapshot[f]
        /\ {"case", "bound", "synthetic", "executes", "intact", "asOf", "cutoff", "loss", "budget"} = DOMAIN e.snapshot
    BY <2>1, <2>2, LossUnknown
  <2>. QED
    BY <1>4, <2>1, <2>3
<1>. QED
  BY <1>2, <1>3, <1>4

(* Cases that agree on what the parts of a case are held together by.      *)
SameFrame(c, d) ==
    /\ \A p \in {"synthetic", "case", "company", "node", "logical", "cutoff", "public", "industry", "scenarios",
                 "basis", "market", "valuation", "price", "plan"} : d[p] = c[p]
    /\ \A p \in {"cutoff", "public", "basis"} : d.expectation[p] = c.expectation[p]
    /\ \A p \in {"case", "cutoff", "decision", "input", "revision", "listed", "graph"} : d.event[p] = c.event[p]
    /\ d.event.e4.published = c.event.e4.published
    /\ d.exit.snapshot = None <=> c.exit.snapshot = None
    /\ c.exit.snapshot # None =>
           \A p \in {"case", "cutoff", "synthetic", "executes"} : d.exit.snapshot[p] = c.exit.snapshot[p]

LEMMA PreflightAlike ==
    ASSUME NEW c, NEW d, SameFrame(c, d), Preflight(c)
    PROVE  Preflight(d)
<1>1. /\ d.synthetic = c.synthetic /\ d.case = c.case /\ d.company = c.company /\ d.node = c.node
      /\ d.logical = c.logical /\ d.cutoff = c.cutoff /\ d.public = c.public /\ d.industry = c.industry
      /\ d.scenarios = c.scenarios /\ d.basis = c.basis /\ d.market = c.market /\ d.valuation = c.valuation
      /\ d.price = c.price /\ d.plan = c.plan
  BY DEF SameFrame
<1>2. /\ d.expectation.cutoff = c.expectation.cutoff /\ d.expectation.public = c.expectation.public
      /\ d.expectation.basis = c.expectation.basis
  BY DEF SameFrame
<1>3. /\ d.event.case = c.event.case /\ d.event.cutoff = c.event.cutoff /\ d.event.decision = c.event.decision
      /\ d.event.input = c.event.input /\ d.event.revision = c.event.revision /\ d.event.listed = c.event.listed
      /\ d.event.graph = c.event.graph /\ d.event.e4.published = c.event.e4.published
  BY DEF SameFrame
<1>4. ASSUME NEW e
      PROVE  Range(Snapshots(e)) = IF e.exit.snapshot = None THEN {} ELSE {e.exit.snapshot}
  <2>1. CASE e.exit.snapshot = None
    <3>1. Snapshots(e) = <<>>
      BY <2>1 DEF Snapshots
    <3>. QED
      BY <2>1, <3>1 DEF Range
  <2>2. CASE e.exit.snapshot # None
    <3>1. DOMAIN Snapshots(e) = {1} /\ Snapshots(e)[1] = e.exit.snapshot
      BY <2>2 DEF Snapshots
    <3>. QED
      BY <2>2, <3>1 DEF Range
  <2>. QED
    BY <2>1, <2>2
<1>5. /\ {h.cutoff : h \in Range(Snapshots(d))} = {h.cutoff : h \in Range(Snapshots(c))}
      /\ {h.case : h \in Range(Snapshots(d))} = {h.case : h \in Range(Snapshots(c))}
      /\ (\A h \in Range(Snapshots(c)) : h.synthetic /\ ~h.executes) => (\A h \in Range(Snapshots(d)) : h.synthetic /\ ~h.executes)
  <2>1. CASE c.exit.snapshot = None
    <3>1. d.exit.snapshot = None
      BY <2>1 DEF SameFrame
    <3>. QED
      BY <1>4, <2>1, <3>1
  <2>2. CASE c.exit.snapshot # None
    <3>1. /\ d.exit.snapshot # None
          /\ d.exit.snapshot.case = c.exit.snapshot.case /\ d.exit.snapshot.cutoff = c.exit.snapshot.cutoff
          /\ d.exit.snapshot.synthetic = c.exit.snapshot.synthetic /\ d.exit.snapshot.executes = c.exit.snapshot.executes
      BY <2>2 DEF SameFrame
    <3>. QED
      BY <1>4, <2>2, <3>1
  <2>. QED
    BY <2>1, <2>2
<1>6. IsResearch(d)
  BY <1>1, <1>5 DEF Preflight, IsResearch
<1>7. OneCutoff(d)
  <2>1. \A a \in Artifacts : d[a].cutoff = c[a].cutoff
    BY <1>1, <1>2 DEF Artifacts
  <2>2. {d[a].cutoff : a \in Artifacts} = {c[a].cutoff : a \in Artifacts}
    BY <2>1
  <2>. QED
    BY <1>1, <1>3, <1>5, <2>2 DEF Preflight, OneCutoff
<1>8. OneSubject(d)
  BY <1>1, <1>3, <1>5 DEF Preflight, OneSubject
<1>9. OneBasis(d)
  BY <1>1, <1>2 DEF Preflight, OneBasis
<1>10. OnePublication(d)
  <2>1. FactsOf(d.event) = FactsOf(c.event)
    BY <1>3 DEF FactsOf, Items
  <2>2. OnePublication(c)
    BY DEF Preflight
  <2>. QED
    BY <1>1, <1>2, <1>3, <2>1, <2>2 DEF OnePublication
<1>. QED
  BY <1>6, <1>7, <1>8, <1>9, <1>10 DEF Preflight

(* A case that passes with less passed with more. *)
LEMMA PassedBefore ==
    ASSUME NEW d, IsStage4Case(d), NEW c, IsStage4Case(c), Passing(c), SameFrame(c, d),
           EventPassing(d.event), \A p \in {"baseBridge", "downsideBridge", "binding", "profit", "cashFlow"} : d[p] = c[p],
           \A f \in ExpectationParts : d.expectation[f] = c.expectation[f],
           \/ d.expectation = c.expectation
           \/ c.expectation \in {PriorUnknown(d.expectation), AbsenceUnknown(d.expectation)}
    PROVE  Passing(d)
<1>. DEFINE g == GateInput(c)
            h == GateInput(d)
            gates == GateReport(g)
            x == ValuationInput(c, gates)
            y == ValuationInput(d, gates)
<1>1. /\ Preflight(c) /\ BoundTo(c, gates)
      /\ gates.one = "PASS" /\ gates.scenarios = "PASS" /\ gates.two = "PASS"
      /\ ValuationReport(x).three.gate = "PASS" /\ ValuationReport(x).four = "PASS"
  BY DEF Passing
<1>2. CaseParts \subseteq DOMAIN c /\ CaseParts \subseteq DOMAIN d
  BY DEF IsStage4Case
<1>3. /\ d.scenarios = c.scenarios /\ d.baseBridge = c.baseBridge /\ d.downsideBridge = c.downsideBridge
      /\ d.event.graph = c.event.graph /\ d.industry = c.industry
      /\ d.profit = c.profit /\ d.cashFlow = c.cashFlow /\ d.binding = c.binding
  BY DEF SameFrame
<1>4. AuthenticityGate(h.context, h.event) = "PASS"
  <2>1. AuthenticityGate(g.context, g.event) = "PASS"
    <3>. HIDE DEF g
    <3>. QED
      BY <1>1, GatesPass
  <2>2. IndustryPassing(c.industry)
    BY <2>1, GateInputContext, AuthenticIs
  <2>3. AuthenticityGate(ContextReport(d.industry), EventReport(d.event)) = "PASS"
    BY <1>3, <2>2, AuthenticIs
  <2>. QED
    BY <2>3, GateInputContext
<1>5. /\ g.scenarios = c.scenarios /\ g.baseBridge = c.baseBridge /\ g.downsideBridge = c.downsideBridge
      /\ g.graph = c.event.graph
      /\ h.scenarios = d.scenarios /\ h.baseBridge = d.baseBridge /\ h.downsideBridge = d.downsideBridge
      /\ h.graph = d.event.graph
  BY <1>2, GateInputIs
<1>6. GateReport(h) = gates
  <2>. HIDE DEF g, h
  <2>. QED
    BY <1>1, <1>3, <1>4, <1>5, GatesAlike
<1>7. /\ x.upstream = gates /\ \A p \in ValuationParts \cup {"case", "expectation", "exit"} : x[p] = c[p]
      /\ y.upstream = gates /\ \A p \in ValuationParts \cup {"case", "expectation", "exit"} : y[p] = d[p]
  <2>. HIDE DEF gates
  <2>. QED
    BY <1>2, ValuationParted
<1>. HIDE DEF x, y, gates, g, h
<1>8. \A p \in ValuationParts : y[p] = x[p]
  <2>1. \A p \in ValuationParts : d[p] = c[p]
    BY <1>3 DEF SameFrame, ValuationParts
  <2>. QED
    BY <1>7, <2>1
<1>9. x.expectation = c.expectation /\ y.expectation = d.expectation
  BY <1>7
<1>10. Expectation(y) = Expectation(x)
  <2>1. CASE d.expectation = c.expectation
    <3>1. y.binding = x.binding /\ y.profit = x.profit /\ y.cashFlow = x.cashFlow
      BY <1>8 DEF ValuationParts
    <3>. QED
      BY <1>9, <2>1, <3>1 DEF Expectation
  <2>2. CASE c.expectation \in {PriorUnknown(d.expectation), AbsenceUnknown(d.expectation)}
    <3>1. EvaluateGate3(x).gate = "PASS"
      BY <1>1, ReportOfThree
    <3>2. Gate3Verdict(x).gate = "PASS" /\ Gate3Verdict(x).expectation = Expectation(x)
      BY <3>1, GateThreeIs DEF Gate3Verdict, Priced
    <3>3. Expectation(x) \in {"unexpected", "partially_priced"}
      BY <3>2, VerdictIs
    <3>4. IsExpectation(y.expectation)
      BY <1>9 DEF IsStage4Case
    <3>. QED
      BY <1>8, <1>9, <2>2, <3>3, <3>4, PriorNotMissed
  <2>. QED
    BY <2>1, <2>2
<1>11. ValuationReport(y).three = ValuationReport(x).three /\ ValuationReport(y).four = "PASS"
  BY <1>1, <1>7, <1>8, <1>9, <1>10, ValuationAlike
<1>12. BoundTo(d, gates)
  BY <1>1, <1>3 DEF BoundTo
<1>13. Preflight(d)
  BY <1>1, PreflightAlike
<1>. QED
  BY <1>1, <1>6, <1>11, <1>12, <1>13 DEF Passing, y, h

LEMMA ReadyBefore ==
    ASSUME NEW d, IsStage4Case(d), NEW c, Loss(d, c), Passing(c)
    PROVE  Passing(d)
<1>1. IsStage4Case(c)
  BY LossLeavesACase
<1>2. EventPassing(c.event)
  <2>1. AuthenticityGate(ContextReport(c.industry), EventReport(c.event)) = "PASS"
    BY GatesPass, GateInputContext DEF Passing
  <2>. QED
    BY <2>1, AuthenticIs
<1>3. CaseParts \subseteq DOMAIN d
  BY DEF IsStage4Case
<1>. DEFINE others == {"synthetic", "case", "company", "node", "logical", "cutoff", "public", "industry", "scenarios",
                       "basis", "market", "valuation", "price", "plan", "baseBridge", "downsideBridge", "binding",
                       "profit", "cashFlow"}
<1>4. others \cup {"event", "expectation", "exit"} \subseteq CaseParts
  BY DEF CaseParts, Artifacts
<1>5. ASSUME NEW part, Differs(d, c, part)
      PROVE  \A p \in others \cup {"event", "expectation", "exit"} : p # part => c[p] = d[p]
  BY <1>3, <1>4, <1>5 DEF Differs
<1>6. CASE Differs(d, c, "event") /\ EventLoss(d.event, c.event)
  <2>1. \A p \in others \cup {"expectation", "exit"} : c[p] = d[p]
    BY <1>5, <1>6
  <2>2. IsEvent(d.event) /\ IsKnowledge(d.event)
    BY DEF IsStage4Case
  <2>3. EventPassing(d.event) /\ c.event.graph = d.event.graph /\ c.event.e4.published = d.event.e4.published
    BY <1>2, <1>6, <2>2, EventPassedBefore
  <2>4. \A p \in {"case", "cutoff", "decision", "input", "revision", "listed"} : d.event[p] = c.event[p]
    <3>1. {"case", "cutoff", "decision", "input", "revision", "listed"} \subseteq DOMAIN d.event
      BY <2>2 DEF IsEvent
    <3>2. \E part \in {"graph", "links", "e4", "passports"} : Differs(d.event, c.event, part)
      BY <1>6 DEF EventLoss
    <3>. QED
      BY <3>1, <3>2 DEF Differs
  <2>5. SameFrame(c, d)
    BY <2>1, <2>3, <2>4 DEF SameFrame
  <2>6. d.expectation = c.expectation /\ \A p \in {"baseBridge", "downsideBridge", "binding", "profit", "cashFlow"} : d[p] = c[p]
    BY <2>1
  <2>. QED
    BY <1>1, <2>3, <2>5, <2>6, PassedBefore
<1>7. CASE ValuationLoss(d, c)
  <2>1. /\ Differs(d, c, "expectation")
        /\ c.expectation \in {PriorUnknown(d.expectation), AbsenceUnknown(d.expectation)}
    BY <1>7, MissedByValuation
  <2>2. \A p \in others \cup {"event", "exit"} : c[p] = d[p]
    BY <1>5, <2>1
  <2>3. \A f \in ExpectationParts : d.expectation[f] = c.expectation[f]
    <3>1. ExpectationParts \subseteq DOMAIN d.expectation
      BY DEF IsStage4Case, IsExpectation, ExpectationParts
    <3>2. "prior" \notin ExpectationParts
      BY DEF ExpectationParts
    <3>3. CASE c.expectation = PriorUnknown(d.expectation)
      BY <3>1, <3>2, <3>3 DEF PriorUnknown
    <3>4. CASE c.expectation = AbsenceUnknown(d.expectation)
      BY <3>1, <3>2, <3>4 DEF AbsenceUnknown
    <3>. QED
      BY <2>1, <3>3, <3>4
  <2>4. SameFrame(c, d)
    BY <2>2, <2>3 DEF SameFrame, ExpectationParts
  <2>5. EventPassing(d.event) /\ \A p \in {"baseBridge", "downsideBridge", "binding", "profit", "cashFlow"} : d[p] = c[p]
    BY <1>2, <2>2
  <2>. QED
    BY <1>1, <2>1, <2>3, <2>4, <2>5, PassedBefore
<1>8. CASE Differs(d, c, "exit") /\ c.exit \in WithheldHolding(d.exit)
  <2>1. \A p \in others \cup {"event", "expectation"} : c[p] = d[p]
    BY <1>5, <1>8
  <2>2. /\ d.exit.snapshot = None <=> c.exit.snapshot = None
        /\ c.exit.snapshot # None =>
             \A p \in {"case", "cutoff", "synthetic", "executes"} : d.exit.snapshot[p] = c.exit.snapshot[p]
    BY <1>8, SnapshotKept DEF IsStage4Case
  <2>3. SameFrame(c, d)
    BY <2>1, <2>2 DEF SameFrame
  <2>4. /\ EventPassing(d.event) /\ d.expectation = c.expectation
        /\ \A p \in {"baseBridge", "downsideBridge", "binding", "profit", "cashFlow"} : d[p] = c[p]
    BY <1>2, <2>1
  <2>. QED
    BY <1>1, <2>3, <2>4, PassedBefore
<1>. QED
  BY <1>6, <1>7, <1>8, MissedBeforeGates DEF Loss

-----------------------------------------------------------------------------
(* Nor is it one to be told something else of a holding. *)

(* What a holding loses, it loses of one field or of one trigger.          *)
Factless(t) == [t EXCEPT !.facts = FALSE]

OneTriggerLess(before, after) ==
    \/ after = before
    \/ \E t \in before : after = before \ {t} \/ after = (before \ {t}) \cup {Factless(t)}

LEMMA HoldingFields ==
    ASSUME NEW e, IsExit(e), NEW w \in WithheldHolding(e)
    PROVE  /\ w.holding = e.holding /\ w.baseValue = e.baseValue
           /\ w.elapsed \in {e.elapsed, None} /\ w.verified \in {e.verified, None} /\ w.calendar \in {e.calendar, FALSE}
           /\ w.cap \in {e.cap, None} /\ w.newEvidence \in {e.newEvidence, None}
           /\ w.reunderwritten \in {e.reunderwritten, None}
           /\ OneTriggerLess(e.triggers, w.triggers)
<1>1. /\ {"holding", "snapshot", "triggers", "elapsed", "calendar", "verified", "cap", "baseValue", "newEvidence",
          "reunderwritten"} \subseteq DOMAIN e
  BY DEF IsExit
<1>2. CASE w \in {[e EXCEPT !.elapsed = None], [e EXCEPT !.verified = None], [e EXCEPT !.calendar = FALSE],
                  [e EXCEPT !.cap = None], [e EXCEPT !.newEvidence = None], [e EXCEPT !.reunderwritten = None]}
  <2>1. /\ w.holding = e.holding /\ w.baseValue = e.baseValue
        /\ w.elapsed \in {e.elapsed, None} /\ w.verified \in {e.verified, None} /\ w.calendar \in {e.calendar, FALSE}
        /\ w.cap \in {e.cap, None} /\ w.newEvidence \in {e.newEvidence, None}
        /\ w.reunderwritten \in {e.reunderwritten, None} /\ w.triggers = e.triggers
    BY <1>1, <1>2
  <2>. QED
    BY <2>1 DEF OneTriggerLess
<1>3. ASSUME NEW T, w = [e EXCEPT !.triggers = T]
      PROVE  /\ w.triggers = T
             /\ w.holding = e.holding /\ w.baseValue = e.baseValue /\ w.elapsed = e.elapsed /\ w.verified = e.verified
             /\ w.calendar = e.calendar /\ w.cap = e.cap /\ w.newEvidence = e.newEvidence
             /\ w.reunderwritten = e.reunderwritten
  BY <1>1, <1>3
<1>4. ASSUME NEW t \in e.triggers, w = [e EXCEPT !.triggers = @ \ {t}]
      PROVE  w = [e EXCEPT !.triggers = e.triggers \ {t}]
  BY <1>4
<1>5. ASSUME NEW t \in e.triggers, w = [e EXCEPT !.triggers = (@ \ {t}) \cup {[t EXCEPT !.facts = FALSE]}]
      PROVE  w = [e EXCEPT !.triggers = (e.triggers \ {t}) \cup {Factless(t)}]
  BY <1>5 DEF Factless
<1>6. CASE \E t \in e.triggers : w = [e EXCEPT !.triggers = @ \ {t}]
  <2>1. PICK t \in e.triggers : w = [e EXCEPT !.triggers = @ \ {t}]
    BY <1>6
  <2>2. w = [e EXCEPT !.triggers = e.triggers \ {t}]
    BY <1>4, <2>1
  <2>3. OneTriggerLess(e.triggers, w.triggers)
    BY <1>3, <2>2 DEF OneTriggerLess
  <2>. QED
    BY <1>3, <2>2, <2>3
<1>7. CASE \E t \in e.triggers : w = [e EXCEPT !.triggers = (@ \ {t}) \cup {[t EXCEPT !.facts = FALSE]}]
  <2>1. PICK t \in e.triggers : w = [e EXCEPT !.triggers = (@ \ {t}) \cup {[t EXCEPT !.facts = FALSE]}]
    BY <1>7
  <2>. DEFINE T == (e.triggers \ {t}) \cup {Factless(t)}
  <2>2. w = [e EXCEPT !.triggers = T]
    BY <1>5, <2>1
  <2>3. w.triggers = (e.triggers \ {t}) \cup {Factless(t)}
    <3>1. w.triggers = T
      <4>. HIDE DEF T
      <4>. QED
        BY <1>3, <2>2
    <3>. QED
      BY <3>1
  <2>4. OneTriggerLess(e.triggers, w.triggers)
    BY <2>3 DEF OneTriggerLess
  <2>. HIDE DEF T
  <2>. QED
    BY <1>3, <2>2, <2>4
<1>8. CASE e.snapshot # None /\ w = [e EXCEPT !.snapshot = [e.snapshot EXCEPT !.loss = None]]
  <2>1. /\ w.holding = e.holding /\ w.baseValue = e.baseValue /\ w.elapsed = e.elapsed /\ w.verified = e.verified
        /\ w.calendar = e.calendar /\ w.cap = e.cap /\ w.newEvidence = e.newEvidence
        /\ w.reunderwritten = e.reunderwritten /\ w.triggers = e.triggers
    BY <1>1, <1>8
  <2>. QED
    BY <2>1 DEF OneTriggerLess
<1>. QED
  BY <1>2, <1>6, <1>7, <1>8 DEF WithheldHolding

(* What the system judges by itself it judges as before, or not at all.    *)
SystemState(e, id) ==
    IF id = "risk_budget_exit" THEN RiskTrigger(e.snapshot) ELSE IF id = "time_exit" THEN TimeTrigger(e) ELSE ValueTrigger(e)

LEMMA SystemSaysLess ==
    ASSUME NEW e, IsExit(e), NEW w \in WithheldHolding(e), NEW id \in SystemTriggers
    PROVE  SystemState(w, id) \in {SystemState(e, id), "unknown"}
<1>1. CASE id = "risk_budget_exit"
  <2>1. w.snapshot = e.snapshot \/ w.snapshot.loss = None
    BY SnapshotKept
  <2>. QED
    BY <1>1, <2>1 DEF SystemState, RiskTrigger
<1>2. TimeTrigger(w) \in {TimeTrigger(e), "unknown"}
  <2>1. /\ w.elapsed \in {e.elapsed, None} /\ w.verified \in {e.verified, None} /\ w.calendar \in {e.calendar, FALSE}
    BY HoldingFields
  <2>. QED
    BY <2>1 DEF TimeTrigger
<1>3. ValueTrigger(w) \in {ValueTrigger(e), "unknown"}
  <2>1. w.baseValue = e.baseValue /\ w.cap \in {e.cap, None} /\ w.newEvidence \in {e.newEvidence, None}
    BY HoldingFields
  <2>. QED
    BY <2>1 DEF ValueTrigger
<1>. QED
  BY <1>1, <1>2, <1>3 DEF SystemState, SystemTriggers

LEMMA StatesOf ==
    ASSUME NEW x, TriggersLawful(x.exit.triggers)
    PROVE  /\ DOMAIN TriggerStates(x) = SystemTriggers \cup {t.id : t \in x.exit.triggers}
           /\ \A id \in SystemTriggers : TriggerStates(x)[id] = SystemState(x.exit, id)
           /\ \A t \in x.exit.triggers : TriggerStates(x)[t.id] = StateOf(t)
<1>. DEFINE e == x.exit
            system == [risk_budget_exit |-> RiskTrigger(e.snapshot), time_exit |-> TimeTrigger(e), value_exit |-> ValueTrigger(e)]
            ids == SystemTriggers \cup {t.id : t \in e.triggers}
            state(id) == IF id \in SystemTriggers THEN system[id] ELSE StateOf(CHOOSE t \in e.triggers : t.id = id)
<1>1. TriggerStates(x) = [id \in ids |-> state(id)]
  BY DEF TriggerStates
<1>2. \A id \in SystemTriggers : system[id] = SystemState(e, id)
  BY DEF SystemTriggers, SystemState
<1>3. ASSUME NEW t \in e.triggers
      PROVE  t.id \notin SystemTriggers /\ (CHOOSE u \in e.triggers : u.id = t.id) = t
  BY <1>3 DEF TriggersLawful
<1>4. \A id \in SystemTriggers : state(id) = SystemState(e, id)
  BY <1>2
<1>5. \A t \in e.triggers : state(t.id) = StateOf(t)
  BY <1>3
<1>6. DOMAIN TriggerStates(x) = ids /\ \A id \in ids : TriggerStates(x)[id] = state(id)
  <2>. HIDE DEF state, ids
  <2>. QED
    BY <1>1
<1>. HIDE DEF state, system
<1>. QED
  BY <1>4, <1>5, <1>6

(* The triggers of a holding that loses something: none is new, and all are *)
(* there only when none is gone.                                            *)
LEMMA TriggersSayLess ==
    ASSUME NEW e, IsExit(e), NEW w \in WithheldHolding(e), TriggersLawful(e.triggers)
    PROVE  /\ \A u \in w.triggers : \E t \in e.triggers :
                  u.id = t.id /\ u.kind = t.kind /\ StateOf(u) \in {StateOf(t), "unknown"}
           /\ {u.kind : u \in w.triggers} = EvidenceKinds =>
                  /\ {t.id : t \in e.triggers} = {u.id : u \in w.triggers}
                  /\ {t.kind : t \in e.triggers} = EvidenceKinds
<1>1. \A t \in e.triggers : t.kind \in EvidenceKinds /\ {"id", "kind", "state", "facts"} \subseteq DOMAIN t
  BY DEF IsExit, IsTrigger
<1>2. CASE w.triggers = e.triggers
  BY <1>2
<1>3. ASSUME NEW t \in e.triggers
      PROVE  LET u == Factless(t) IN
             u.id = t.id /\ u.kind = t.kind /\ StateOf(u) \in {StateOf(t), "unknown"}
  <2>. DEFINE u == Factless(t)
  <2>1. u.id = t.id /\ u.kind = t.kind /\ u.state = t.state /\ ~u.facts
    BY <1>1 DEF Factless
  <2>. HIDE DEF u
  <2>2. StateOf(u) \in {StateOf(t), "unknown"}
    BY <2>1 DEF StateOf
  <2>. QED
    BY <2>1, <2>2 DEF u
<1>4. ASSUME NEW t \in e.triggers, w.triggers = e.triggers \ {t}
      PROVE  {u.kind : u \in w.triggers} # EvidenceKinds
  <2>1. t.kind \notin {u.kind : u \in w.triggers}
    BY <1>4 DEF TriggersLawful
  <2>. QED
    BY <1>1, <2>1
<1>5. CASE \E t \in e.triggers : w.triggers = e.triggers \ {t}
  BY <1>4, <1>5
<1>6. ASSUME NEW t \in e.triggers, NEW q, q.id = t.id, q.kind = t.kind, StateOf(q) \in {StateOf(t), "unknown"},
             w.triggers = (e.triggers \ {t}) \cup {q}
      PROVE  /\ \A u \in w.triggers : \E s \in e.triggers :
                    u.id = s.id /\ u.kind = s.kind /\ StateOf(u) \in {StateOf(s), "unknown"}
             /\ {s.id : s \in e.triggers} = {u.id : u \in w.triggers}
             /\ {s.kind : s \in e.triggers} = {u.kind : u \in w.triggers}
  BY <1>6
<1>7. CASE \E t \in e.triggers : w.triggers = (e.triggers \ {t}) \cup {Factless(t)}
  <2>1. PICK t \in e.triggers : w.triggers = (e.triggers \ {t}) \cup {Factless(t)}
    BY <1>7
  <2>. DEFINE q == Factless(t)
  <2>2. q.id = t.id /\ q.kind = t.kind /\ StateOf(q) \in {StateOf(t), "unknown"}
    BY <1>3
  <2>3. w.triggers = (e.triggers \ {t}) \cup {q}
    BY <2>1
  <2>. HIDE DEF q
  <2>. QED
    BY <1>6, <2>2, <2>3
<1>8. OneTriggerLess(e.triggers, w.triggers)
  BY HoldingFields
<1>. QED
  BY <1>2, <1>5, <1>7, <1>8 DEF OneTriggerLess

(* Of every trigger a holding that loses something says what was said       *)
(* before, or that it is unknown.                                           *)
LEMMA StatesSayLess ==
    ASSUME NEW x, IsExit(x.exit), NEW y, y.exit \in WithheldHolding(x.exit),
           TriggersLawful(x.exit.triggers), TriggersLawful(y.exit.triggers)
    PROVE  /\ \A id \in DOMAIN TriggerStates(y) :
                  id \in DOMAIN TriggerStates(x) /\ TriggerStates(y)[id] \in {TriggerStates(x)[id], "unknown"}
           /\ {t.kind : t \in y.exit.triggers} = EvidenceKinds =>
                  /\ DOMAIN TriggerStates(y) = DOMAIN TriggerStates(x)
                  /\ {t.kind : t \in x.exit.triggers} = EvidenceKinds
<1>. DEFINE e == x.exit
            w == y.exit
<1>1. /\ DOMAIN TriggerStates(x) = SystemTriggers \cup {t.id : t \in e.triggers}
      /\ \A id \in SystemTriggers : TriggerStates(x)[id] = SystemState(e, id)
      /\ \A t \in e.triggers : TriggerStates(x)[t.id] = StateOf(t)
  BY StatesOf
<1>2. /\ DOMAIN TriggerStates(y) = SystemTriggers \cup {t.id : t \in w.triggers}
      /\ \A id \in SystemTriggers : TriggerStates(y)[id] = SystemState(w, id)
      /\ \A t \in w.triggers : TriggerStates(y)[t.id] = StateOf(t)
  BY StatesOf
<1>3. /\ \A u \in w.triggers : \E t \in e.triggers :
             u.id = t.id /\ u.kind = t.kind /\ StateOf(u) \in {StateOf(t), "unknown"}
      /\ {u.kind : u \in w.triggers} = EvidenceKinds =>
             /\ {t.id : t \in e.triggers} = {u.id : u \in w.triggers}
             /\ {t.kind : t \in e.triggers} = EvidenceKinds
  BY TriggersSayLess
<1>4. \A id \in SystemTriggers : SystemState(w, id) \in {SystemState(e, id), "unknown"}
  BY SystemSaysLess
<1>. HIDE DEF e, w
<1>5. ASSUME NEW u \in w.triggers
      PROVE  u.id \in DOMAIN TriggerStates(x) /\ TriggerStates(y)[u.id] \in {TriggerStates(x)[u.id], "unknown"}
  <2>1. PICK t \in e.triggers : u.id = t.id /\ StateOf(u) \in {StateOf(t), "unknown"}
    BY <1>3
  <2>2. TriggerStates(x)[u.id] = StateOf(t) /\ TriggerStates(y)[u.id] = StateOf(u) /\ u.id \in {s.id : s \in e.triggers}
    BY <1>1, <1>2, <2>1
  <2>. QED
    BY <1>1, <2>1, <2>2
<1>6. ASSUME NEW id \in SystemTriggers
      PROVE  id \in DOMAIN TriggerStates(x) /\ TriggerStates(y)[id] \in {TriggerStates(x)[id], "unknown"}
  BY <1>1, <1>2, <1>4
<1>7. \A id \in DOMAIN TriggerStates(y) :
          id \in DOMAIN TriggerStates(x) /\ TriggerStates(y)[id] \in {TriggerStates(x)[id], "unknown"}
  BY <1>2, <1>5, <1>6
<1>. QED
  BY <1>1, <1>2, <1>3, <1>7 DEF e, w

LEMMA DispositionSaysLess ==
    ASSUME NEW x, IsExit(x.exit), NEW y, y.exit \in WithheldHolding(x.exit),
           TriggersLawful(x.exit.triggers), TriggersLawful(y.exit.triggers), DispositionOf(y).disposition # None
    PROVE  DispositionOf(y).disposition = DispositionOf(x).disposition
<1>. DEFINE S == TriggerStates(x)
            U == TriggerStates(y)
            confirmed(states) == {id \in DOMAIN states : states[id] = "confirmed"}
            full(z) == {t.kind : t \in z.exit.triggers} = EvidenceKinds
<1>1. /\ \A id \in DOMAIN U : id \in DOMAIN S /\ U[id] \in {S[id], "unknown"}
      /\ full(y) => DOMAIN U = DOMAIN S /\ full(x)
  BY StatesSayLess
<1>2. ASSUME NEW z
      PROVE  /\ confirmed(TriggerStates(z)) # {} => DispositionOf(z).disposition = "EXIT_CANDIDATE"
             /\ confirmed(TriggerStates(z)) = {} /\ ("unknown" \in Range(TriggerStates(z)) \/ ~full(z)) =>
                    DispositionOf(z).disposition = None
             /\ confirmed(TriggerStates(z)) = {} /\ "unknown" \notin Range(TriggerStates(z)) /\ full(z) =>
                    DispositionOf(z).disposition =
                        IF z.exit.newEvidence THEN "REUNDERWRITE_REQUIRED"
                        ELSE IF z.exit.reunderwritten = TRUE THEN "HOLD" ELSE None
  BY DEF DispositionOf, Left, Evaluated
<1>3. U["value_exit"] = ValueTrigger(y.exit) /\ "value_exit" \in DOMAIN U
  <2>1. "value_exit" \in SystemTriggers /\ U["value_exit"] = SystemState(y.exit, "value_exit") /\ SystemTriggers \subseteq DOMAIN U
    BY StatesOf DEF SystemTriggers
  <2>. QED
    BY <2>1 DEF SystemState
<1>4. y.exit.newEvidence \in {x.exit.newEvidence, None} /\ y.exit.reunderwritten \in {x.exit.reunderwritten, None}
  BY HoldingFields
<1>. HIDE DEF S, U
<1>5. CASE confirmed(U) # {}
  <2>1. confirmed(S) # {}
    <3>1. PICK id \in DOMAIN U : U[id] = "confirmed"
      BY <1>5
    <3>2. id \in DOMAIN S /\ S[id] = "confirmed"
      BY <1>1, <3>1
    <3>. QED
      BY <3>2
  <2>. QED
    BY <1>2, <1>5, <2>1 DEF S, U
<1>6. CASE confirmed(U) = {}
  <2>1. "unknown" \notin Range(U) /\ full(y)
    BY <1>2, <1>6 DEF U
  <2>2. DOMAIN U = DOMAIN S /\ full(x) /\ \A id \in DOMAIN S : U[id] # "unknown" /\ U[id] = S[id]
    <3>1. \A id \in DOMAIN U : U[id] # "unknown"
      BY <2>1 DEF Range
    <3>. QED
      BY <1>1, <2>1, <3>1
  <2>3. confirmed(S) = {} /\ "unknown" \notin Range(S)
    BY <1>6, <2>2 DEF Range
  <2>4. y.exit.newEvidence = x.exit.newEvidence
    <3>1. ValueTrigger(y.exit) # "unknown"
      BY <1>3, <2>2
    <3>2. y.exit.newEvidence # None
      BY <3>1 DEF ValueTrigger
    <3>. QED
      BY <1>4, <3>2
  <2>5. y.exit.reunderwritten = TRUE <=> (y.exit.reunderwritten = TRUE /\ x.exit.reunderwritten = TRUE)
    BY <1>4, NoneIsNoApproval
  <2>6. DispositionOf(y).disposition =
            IF y.exit.newEvidence THEN "REUNDERWRITE_REQUIRED" ELSE IF y.exit.reunderwritten = TRUE THEN "HOLD" ELSE None
    BY <1>2, <1>6, <2>1 DEF U
  <2>7. DispositionOf(x).disposition =
            IF x.exit.newEvidence THEN "REUNDERWRITE_REQUIRED" ELSE IF x.exit.reunderwritten = TRUE THEN "HOLD" ELSE None
    BY <1>2, <2>2, <2>3 DEF S
  <2>. QED
    BY <2>4, <2>5, <2>6, <2>7
<1>. QED
  BY <1>5, <1>6

(* What is still said of a holding that loses something was said before.    *)
LEMMA ExitSaysLess ==
    ASSUME NEW x, IsExit(x.exit), NEW y, y.exit \in WithheldHolding(x.exit),
           EvaluateExit(x).state = "evaluated", EvaluateExit(y).disposition # None
    PROVE  EvaluateExit(y).disposition = EvaluateExit(x).disposition
<1>1. ExitBlocked.state # "evaluated" /\ ExitBlocked.disposition = None
  BY DEF ExitBlocked, Left
<1>2. y.exit.holding = x.exit.holding
  BY HoldingFields
<1>3. CASE ~x.exit.holding
  <2>1. EvaluateExit(x) = Evaluated("NOT_APPLICABLE") /\ EvaluateExit(y) = Evaluated("NOT_APPLICABLE")
    BY <1>1, <1>2, <1>3 DEF EvaluateExit
  <2>. QED
    BY <2>1
<1>4. CASE x.exit.holding
  <2>1. EvaluateExit(x) = DispositionOf(x) /\ TriggersLawful(x.exit.triggers)
    BY <1>1, <1>4 DEF EvaluateExit
  <2>2. EvaluateExit(y) = DispositionOf(y) /\ TriggersLawful(y.exit.triggers)
    BY <1>1, <1>2, <1>4 DEF EvaluateExit
  <2>. QED
    BY <2>1, <2>2, DispositionSaysLess
<1>. QED
  BY <1>3, <1>4

(* Something is said of the holding only when the whole report was reached. *)
LEMMA ExitReported ==
    ASSUME NEW d, CompleteReport(d).exit.state = "evaluated" \/ CompleteReport(d).exit.disposition # None
    PROVE  CompleteReport(d).exit = EvaluateExit(ValuationInput(d, GateReport(GateInput(d))))
<1>. DEFINE gates == GateReport(GateInput(d))
            x == ValuationInput(d, gates)
<1>1. \A state, view : /\ Stopped(state, view).exit.state # "evaluated"
                       /\ Stopped(state, view).exit.disposition = None
  BY NoneIsNoApproval DEF Stopped, Left
<1>2. Preflight(d)
  BY <1>1 DEF CompleteReport
<1>3. BoundTo(d, gates)
  <2>1. CompleteReport(d) = Composed(d, gates)
    BY <1>2, ReportOfPreflight
  <2>. HIDE DEF gates
  <2>. QED
    BY <1>1, <2>1 DEF Composed
<1>4. CompleteReport(d).exit = ValuationReport(x).exit
  <2>1. CompleteReport(d) = Completed(View(gates, ValuationReport(x).three.gate, ValuationReport(x).four), ValuationReport(x))
    BY <1>2, <1>3, ReportOfBound
  <2>. HIDE DEF gates, x
  <2>. QED
    BY <2>1 DEF Completed
<1>. HIDE DEF gates, x
<1>5. ArtifactsLawful(x)
  <2>1. ExitBlocked.state # "evaluated" /\ ExitBlocked.disposition = None
    BY DEF ExitBlocked, Left
  <2>2. ~ArtifactsLawful(x) => ValuationReport(x).exit = ExitBlocked
    BY DEF ValuationReport
  <2>. QED
    BY <1>4, <2>1, <2>2
<1>6. ValuationReport(x).exit = EvaluateExit(x)
  BY <1>5 DEF ValuationReport, GatesThreeFour
<1>. QED
  BY <1>4, <1>6 DEF x, gates

LEMMA SameExit ==
    ASSUME NEW x, NEW y, y.exit = x.exit, y.case = x.case, y.cutoff = x.cutoff
    PROVE  EvaluateExit(y) = EvaluateExit(x)
<1>1. HoldingLawful(y) <=> HoldingLawful(x)
  BY DEF HoldingLawful
<1>2. TriggerStates(y) = TriggerStates(x)
  BY DEF TriggerStates
<1>3. DispositionOf(y) = DispositionOf(x)
  BY <1>2 DEF DispositionOf
<1>. QED
  BY <1>1, <1>3 DEF EvaluateExit

LEMMA LossSaysLess ==
    ASSUME NEW d, IsStage4Case(d), NEW c, Loss(d, c),
           CompleteReport(d).exit.state = "evaluated", CompleteReport(c).exit.disposition # None
    PROVE  CompleteReport(c).exit.disposition = CompleteReport(d).exit.disposition
<1>. DEFINE x == ValuationInput(d, GateReport(GateInput(d)))
            y == ValuationInput(c, GateReport(GateInput(c)))
<1>1. CompleteReport(d).exit = EvaluateExit(x) /\ CompleteReport(c).exit = EvaluateExit(y)
  BY ExitReported
<1>2. CaseParts \subseteq DOMAIN d /\ CaseParts \subseteq DOMAIN c /\ IsExit(d.exit)
  BY LossLeavesACase DEF IsStage4Case
<1>3. /\ x.exit = d.exit /\ x.case = d.case /\ x.cutoff = d.cutoff
      /\ y.exit = c.exit /\ y.case = c.case /\ y.cutoff = c.cutoff
  <2>1. {"case", "exit"} \subseteq ValuationParts \cup {"case", "expectation", "exit"} /\ "cutoff" \in ValuationParts
    BY DEF ValuationParts
  <2>. QED
    BY <1>2, <2>1, ValuationParted
<1>. HIDE DEF x, y
<1>4. {"case", "cutoff", "exit"} \subseteq DOMAIN d
  BY <1>2 DEF CaseParts
<1>5. CASE Differs(d, c, "exit") /\ c.exit \in WithheldHolding(d.exit)
  BY <1>1, <1>2, <1>3, <1>5, ExitSaysLess
<1>6. CASE \E part : Differs(d, c, part) /\ part \notin {"case", "cutoff", "exit"}
  <2>1. c.exit = d.exit /\ c.case = d.case /\ c.cutoff = d.cutoff
    BY <1>4, <1>6 DEF Differs
  <2>. QED
    BY <1>1, <1>3, <2>1, SameExit
<1>. QED
  BY <1>5, <1>6 DEF Loss, GateLoss, ValuationLoss

(* Whatever is submitted and withheld, no case gets ready by losing         *)
(* something it had, and of a holding the case then says what it said       *)
(* before or nothing.                                                       *)
THEOREM CaseWithholdingNeverHelps == CaseSpec => WithholdingNeverHelps
<1>1. ASSUME CaseInv, [CaseNext]_caseVars, dossier' # dossier
      PROVE  /\ verdict'.label = "TRADE_READY" => Ready
             /\ verdict.exit.state = "evaluated" /\ verdict'.exit.disposition # None =>
                    verdict'.exit.disposition = verdict.exit.disposition
  <2>1. PICK d \in Withheld(dossier) : dossier' = d /\ verdict' = CompleteReport(d)
    BY <1>1 DEF CaseNext, Withhold, Execute, caseVars
  <2>2. IsStage4Case(dossier) /\ verdict = CompleteReport(dossier)
    BY <1>1 DEF CaseInv
  <2>3. Loss(dossier, d)
    BY <2>2, LossIs
  <2>4. CompleteReport(d).label = "TRADE_READY" => CompleteReport(dossier).label = "TRADE_READY"
    BY <2>2, <2>3, ReadyIs, ReadyBefore
  <2>5. CompleteReport(dossier).exit.state = "evaluated" /\ CompleteReport(d).exit.disposition # None =>
            CompleteReport(d).exit.disposition = CompleteReport(dossier).exit.disposition
    BY <2>2, <2>3, LossSaysLess
  <2>. QED
    BY <2>1, <2>2, <2>4, <2>5 DEF Ready
<1>. QED
  BY <1>1, CaseStep, CaseStarts, PTL DEF CaseSpec, WithholdingNeverHelps
=============================================================================
