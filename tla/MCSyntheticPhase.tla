---------------------------- MODULE MCSyntheticPhase ----------------------------
(***************************************************************************)
(* Studies small enough to vary: one trade a year would pass, and each     *)
(* family changes one part of the inventory or of the evidence.  Labels,   *)
(* embargo, years and the resolution of p-values are the program's own;    *)
(* the counts it asks for are scaled down.                                 *)
(***************************************************************************)
EXTENDS SyntheticPhase

MCFeatures == {"cap", "beta"}
MCDimensions == {"industry", "state"}
MCAblations == {"ablate"}
MCStresses == {"stress"}

-----------------------------------------------------------------------------
(* Candidates. *)

Candidate(id, year, offset, length) ==
    [id |-> id, event |-> id, company |-> <<"co", id>>, year |-> year,
     decision |-> YearStart(year) + offset, labelEnd |-> YearStart(year) + offset + length,
     disposition |-> "TRADE_READY", supported |-> TRUE,
     features |-> [f \in MCFeatures |-> 10], traits |-> [industry |-> "steel", state |-> "NORMAL"]]

Core == {Candidate(y, y, 0, 60) : y \in FoldYears}

(* Labels that end at the last session before the embargo and at its first. *)
Before == Candidate(1, 2021, 200, 31)
Inside == Candidate(2, 2021, 200, 32)
(* Judged in 2022, but not yet learnt from in 2023.                         *)
Purged == Candidate(3, 2022, 244, 100)
(* A trade whose label would end in the holdout.                            *)
Crossing == Candidate(4, 2025, 188, 64)
Shadow == [Candidate(5, 2024, 30, 60) EXCEPT !.disposition = "SHADOW_ONLY"]
Lost(id, year, cap) ==
    [Candidate(id, year, 100, 60) EXCEPT !.supported = FALSE, !.disposition = "BLOCKED", !.features["cap"] = cap]

MCInventories ==
    {Core \cup extras : extras \in {{}, {Before}, {Inside}, {Purged}, {Crossing}, {Shadow}, {Before, Crossing},
                                    {Lost(6, 2020, 10)}, {Lost(6, 2020, 90)}, {Lost(6, 2023, 10)},
                                    {Lost(6, 2020, 10), Lost(7, 2019, 10)},
                                    {Lost(6, 2020, 10), Before, Purged, Shadow,
                                     [Lost(7, 2021, 10) EXCEPT !.traits["state"] = "SUSPENDED"]},
                                    {[Lost(i, 2020, 10) EXCEPT !.traits["industry"] = "coal"] : i \in {6, 7}}}}
    \cup {Core \ {c} : c \in Core} \cup {{Lost(6, 2020, 10)}}

-----------------------------------------------------------------------------
(* Series. *)

Point(s, b) == [strategy |-> s, benchmark |-> b]

Nav(id, points) ==
    [id |-> id, points |-> points, decidesBefore |-> HoldoutStart, holdoutFrom |-> HoldoutStart,
     boundsApproved |-> TRUE, projectedFrom |-> "closure", committedFrom |-> "closure", evidenceBound |-> TRUE,
     access |-> FALSE, mounted |-> FALSE, canaryDenied |-> TRUE, reads |-> 0]
Good(id) == Nav(id, <<Point(100, 100), Point(110, 100)>>)

(* Each way a series can fail to be isolated from the holdout.              *)
Exposed(nav) ==
    {[nav EXCEPT !.decidesBefore = HoldoutStart + 1], [nav EXCEPT !.boundsApproved = FALSE],
     [nav EXCEPT !.committedFrom = "other"], [nav EXCEPT !.evidenceBound = FALSE], [nav EXCEPT !.access = TRUE],
     [nav EXCEPT !.mounted = TRUE], [nav EXCEPT !.canaryDenied = FALSE], [nav EXCEPT !.reads = 1]}

Paths(id) == {Nav(id, <<Point(100, 100)>> \o tail) :
    tail \in {<<Point(100, 100)>>, <<Point(95, 100)>>, <<Point(90, 100)>>, <<Point(89, 100)>>, <<Point(110, 109)>>,
              <<Point(102, 100)>>, <<Point(101, 100)>>, <<Point(85, 90), Point(110, 100)>>,
              <<Point(84, 90), Point(110, 100)>>, <<Point(120, 100), Point(101, 100), Point(130, 100)>>}}

-----------------------------------------------------------------------------
(* Evidence. *)

Member(id, industry, size, beta) ==
    [security |-> <<"co", id>>, industry |-> industry, size |-> size, beta |-> beta,
     available |-> 0, eligible |-> TRUE, supported |-> TRUE]
Market(members) == [industry |-> "steel", size |-> 3, beta |-> 3, members |-> members]
Crowd == {Member(101, "steel", 3, 3), Member(102, "steel", 3, 3)}

Ids == FoldYears \cup 1..7

Claim(id, full) == [candidate |-> id, company |-> <<"co", id>>, full |-> full, rival |-> 0]
Claims(ids, full) == {Claim(id, IF id \in FoldYears THEN full ELSE 0) : id \in ids}

Likely(p) == [p |-> p, calendar |-> TRUE, company |-> TRUE, risk |-> TRUE]

Registered(id, kind, scenario) == [id |-> id, kind |-> kind, scenario |-> scenario, parent |-> "prereg", at |-> 1]
TheRegistrations == {Registered(1, "ABLATION", "ablate"), Registered(2, "STRESS", "stress")}
OutcomeOf(r) == [id |-> r.id, registration |-> r, status |-> "COMPLETED"]

Base ==
    [capability |-> "STAGE6_DEVELOPMENT_WALK_FORWARD_VALIDATION",
     navs |-> [s \in Series |-> Good(s)], market |-> [id \in Ids |-> Market(Crowd)],
     claims |-> [i \in Family |-> Claims(Ids, 10)], deltas |-> [i \in Family |-> 40],
     completed |-> FoldYears, audit |-> [bias |-> 0, reconciliation |-> 0], draws |-> [i \in Family |-> Likely(1)],
     registrations |-> TheRegistrations, outcomes |-> {OutcomeOf(r) : r \in TheRegistrations},
     parent |-> "prereg", started |-> 2]

WithSeries(s, navs) == {[Base EXCEPT !.navs[s] = nav] : nav \in navs}
SeriesFamilies ==
    WithSeries(FoldSeries(2022), Paths(FoldSeries(2022)) \cup Exposed(Good(FoldSeries(2022))))
    \cup WithSeries(CaseSeries(Matched), Paths(CaseSeries(Matched)))
    \cup WithSeries(CaseSeries(FrozenBest), Paths(CaseSeries(FrozenBest)) \cup Exposed(Good(CaseSeries(FrozenBest))))
    \cup WithSeries(FrictionSeries, Paths(FrictionSeries))
    \cup {[Base EXCEPT !.navs[FoldSeries(2022)].points[2].strategy = 100, !.navs[FoldSeries(2023)].points[2].strategy = 100]}

(* A friction replay that was not isolated.                                 *)
FrictionFamilies == WithSeries(FrictionSeries, Exposed(Good(FrictionSeries)))

ClaimFamilies ==
    {[Base EXCEPT !.claims[i] = claims, !.deltas[i] = delta] :
        i \in {NoTrade, Matched}, delta \in {-40, 40, 41},
        claims \in {Claims(Ids, -10), Claims(Ids \ {2022}, 10),
                    (Claims(Ids, 10) \ {Claim(2022, 10), Claim(2023, 10)}) \cup {Claim(2022, 9), Claim(2023, 11)},
                    (Claims(Ids, 10) \ {Claim(2022, 10), Claim(4, 0)}) \cup {Claim(2022, 0), Claim(4, 10)},
                    (Claims(Ids, 10) \ {Claim(2022, 10)}) \cup {[Claim(2022, 10) EXCEPT !.company = <<"co", 99>>]}}}
    \cup {[Base EXCEPT !.completed = ids] : ids \in {FoldYears \ {2024}, FoldYears \cup {4}, FoldYears \cup {5}}}
    \cup {[Base EXCEPT !.completed = FoldYears \ {2024}, !.deltas[NoTrade] = 30,
                         !.claims[NoTrade] = (Claims(Ids, 10) \ {Claim(2024, 10)}) \cup {Claim(2024, 0)}]}
    \cup {[Base EXCEPT !.audit.bias = 1], [Base EXCEPT !.audit.reconciliation = 1]}

PeerFamilies ==
    {[Base EXCEPT !.market[2023].members = members] :
        members \in {{Member(101, "steel", 3, 3), Member(102, "coal", 3, 3)},
                     {Member(101, "steel", 3, 3), Member(102, "coal", 3, 1)},
                     {Member(101, "steel", 3, 3), Member(102, "steel", 1, 3)},
                     {Member(101, "steel", 3, 3), Member(2023, "steel", 3, 3)},
                     {Member(101, "steel", 3, 3), [Member(102, "steel", 3, 3) EXCEPT !.supported = FALSE]},
                     {Member(101, "steel", 3, 3), [Member(102, "steel", 3, 3) EXCEPT !.eligible = FALSE]}}}
    \cup {[Base EXCEPT !.market[2023].industry = "coal"]}

ExperimentFamilies ==
    {[Base EXCEPT !.registrations = TheRegistrations \cup {r}, !.outcomes = @ \cup {OutcomeOf(r)}] :
        r \in {Registered(3, "EXPLORATORY", "idea"), Registered(3, "EXPLORATORY", "stress"),
               Registered(3, "STRESS", "stress"), [Registered(3, "EXPLORATORY", "idea") EXCEPT !.at = 2],
               [Registered(3, "EXPLORATORY", "idea") EXCEPT !.parent = "other"]}}
    \cup {[Base EXCEPT !.outcomes = {[OutcomeOf(r) EXCEPT !.status = IF r.id = 1 THEN "FAILED" ELSE "COMPLETED"]
                                        : r \in TheRegistrations}],
          [Base EXCEPT !.outcomes = {OutcomeOf(r) : r \in TheRegistrations \ {Registered(1, "ABLATION", "ablate")}}],
          [Base EXCEPT !.registrations = {Registered(2, "STRESS", "stress")},
                       !.outcomes = {OutcomeOf(Registered(2, "STRESS", "stress"))}]}

(* p-values around each of the five thresholds, in an order that is not     *)
(* that of the names; and one path at a time that is not positive.          *)
Place == <<3, 1, 4, 5, 2>>
DrawFamilies ==
    {[Base EXCEPT !.draws = [i \in Family |-> Likely(ps[Place[i]])]] :
        ps \in {f \in [Family -> {100, 101, 166, 250, 501}] : \A i \in 1..4 : f[i] <= f[i + 1]}}
    \cup {[Base EXCEPT !.draws[i].company = FALSE] : i \in {Matched, SimpleE4}}

Pair(i, e) == [inventory |-> i, evidence |-> e]
MCStudies ==
    {Pair(i, Base) : i \in MCInventories}
    \cup {Pair(i, [Base EXCEPT !.completed = FoldYears \cup {4}]) : i \in {Core \cup {Crossing}, Core \cup {Before, Crossing}}}
    \cup {Pair(Core, e) : e \in SeriesFamilies \cup FrictionFamilies \cup ClaimFamilies \cup PeerFamilies
                                \cup ExperimentFamilies \cup DrawFamilies
                                \cup {[Base EXCEPT !.capability = "draft"]}}

MCLate == {Inside, Crossing}
MCCorrections ==
    {[series |-> s, nav |-> Nav(s, <<Point(100, 100), Point(104, 100)>>)] : 
        s \in {FoldSeries(2023), CaseSeries(SimpleE4), FrictionSeries}}
MCAttestations ==
    {[completed |-> FoldYears, audit |-> [bias |-> 1, reconciliation |-> 0]],
     [completed |-> FoldYears \ {2025}, audit |-> [bias |-> 0, reconciliation |-> 0]]}
=============================================================================
