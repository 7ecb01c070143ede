--------------------------- MODULE RetentionGraph ---------------------------
(***************************************************************************)
(* _validate_release_graph of retention.py, loop by loop: it decides which *)
(* retention closures exist at all.  A closure is the root Release and     *)
(* every Release it was derived from; a run keeps all of them readable.    *)
(*                                                                         *)
(* Both work lists are Python lists popped at the end.  Neither result     *)
(* depends on the order, so a list is the set of its members and any of    *)
(* them may be next.                                                       *)
(***************************************************************************)
EXTENDS Integers, FiniteSets

CONSTANTS ReleaseIds, Cutoffs

ASSUME ReleasesAssumption == IsFiniteSet(ReleaseIds)
ASSUME CutoffsAssumption == Cutoffs \subseteq Int

VARIABLES root,       \* root_release_id
          nodes,      \* by_id: dependencies and knowledge cutoff of each node
          phase,      \* where the function is, or what it answered
          reachable,  \* Releases met from the root
          pending,    \* Releases still to be looked at
          indegree,   \* dependents not yet visited
          ready,      \* unvisited Releases without such dependents
          visited,    \* Releases taken from ready (the code only counts them)
          visitedCount

graphVars == <<root, nodes, phase, reachable, pending, indegree, ready, visited, visitedCount>>

Members == DOMAIN nodes
Deps(r) == nodes[r].deps
Dependents(r) == {p \in Members : r \in Deps(p)}

(* What a ReleaseRetentionNode admits: no Release depends on itself. *)
Closures == {f \in UNION {[rs -> [deps: SUBSET ReleaseIds, cutoff: Cutoffs]] :
                             rs \in SUBSET ReleaseIds} : \A r \in DOMAIN f : r \notin f[r].deps}

GraphTypeOK ==
    /\ root \in ReleaseIds
    /\ nodes \in Closures
    /\ phase \in {"edges", "reach", "order", "accepted", "rejected"}
    /\ reachable \subseteq Members
    /\ pending \subseteq Members
    /\ indegree \in [Members -> Int]
    /\ ready \subseteq Members
    /\ visited \subseteq Members
    /\ visitedCount \in Nat

GraphInit ==
    /\ root \in ReleaseIds
    /\ nodes \in Closures
    /\ phase = "edges"
    /\ reachable = {} /\ pending = {}
    /\ indegree = [r \in Members |-> 0]
    /\ ready = {} /\ visited = {} /\ visitedCount = 0

(* Mutant: equal cutoffs are refused. *)
EdgesStrictlyEarlier ==
    \A r \in Members : \A d \in Deps(r) :
        d \in Members /\ nodes[d].cutoff < nodes[r].cutoff

(* Every dependency is a member and was known no later than its parent. *)
EdgesValid ==
    \A r \in Members : \A d \in Deps(r) :
        d \in Members /\ nodes[d].cutoff <= nodes[r].cutoff

CheckEdges ==
    /\ phase = "edges"
    /\ IF root \in Members /\ EdgesValid
       THEN phase' = "reach" /\ pending' = {root}
       ELSE phase' = "rejected" /\ UNCHANGED pending
    /\ UNCHANGED <<root, nodes, reachable, indegree, ready, visited, visitedCount>>

(* Mutant: a Release met before is expanded once more. *)
ReachAgain(r) ==
    /\ pending' = (pending \ {r}) \cup Deps(r)
    /\ reachable' = reachable \cup {r}

(* One turn of the search: a Release met before is skipped. *)
ReachOne(r) ==
    /\ pending' = IF r \in reachable THEN pending \ {r} ELSE (pending \ {r}) \cup Deps(r)
    /\ reachable' = reachable \cup {r}

Search ==
    /\ phase = "reach"
    /\ \E r \in pending : ReachOne(r)
    /\ UNCHANGED <<root, nodes, phase, indegree, ready, visited, visitedCount>>

(* Mutant: nothing is asked of the Releases the search did not meet. *)
OrderWhateverReached == IF pending = {} THEN "order" ELSE "rejected"

PhaseAfterSearch == IF reachable = Members THEN "order" ELSE "rejected"

(* The search is over; Kahn's counters are set up, one per Release. *)
BeginOrder ==
    /\ phase = "reach" /\ pending = {}
    /\ LET degree == [r \in Members |-> Cardinality(Dependents(r))] IN
         /\ phase' = PhaseAfterSearch
         /\ indegree' = degree
         /\ ready' = {r \in Members : degree[r] = 0}
    /\ UNCHANGED <<root, nodes, reachable, pending, visited, visitedCount>>

NewlyReady(r, degree) == {d \in Deps(r) : degree[d] = 0}

Visit ==
    /\ phase = "order"
    /\ \E r \in ready :
         LET degree == [d \in Members |-> IF d \in Deps(r) THEN indegree[d] - 1 ELSE indegree[d]] IN
         /\ indegree' = degree
         /\ ready' = (ready \ {r}) \cup NewlyReady(r, degree)
         /\ visited' = visited \cup {r}
         /\ visitedCount' = visitedCount + 1
    /\ UNCHANGED <<root, nodes, phase, reachable, pending>>

Conclude ==
    /\ phase = "order" /\ ready = {}
    /\ phase' = IF visitedCount = Cardinality(Members) THEN "accepted" ELSE "rejected"
    /\ UNCHANGED <<root, nodes, reachable, pending, indegree, ready, visited, visitedCount>>

(* The function has answered. *)
Answered == phase \in {"accepted", "rejected"} /\ UNCHANGED graphVars

GraphNext == CheckEdges \/ Search \/ BeginOrder \/ Visit \/ Conclude \/ Answered

GraphSpec == GraphInit /\ [][GraphNext]_graphVars

(* A Python loop that can take a turn takes it. *)
FairGraphSpec == GraphSpec /\ WF_graphVars(GraphNext)

(***************************************************************************)
(* What a retention closure has to be, said without any search: rooted,    *)
(* closed under dependencies, with cutoffs that never grow towards the     *)
(* sources, and without a cycle - every group of Releases has one that no  *)
(* other Release of the group depends on.                                  *)
(***************************************************************************)
Rooted == root \in Members /\ \A S \in SUBSET Members :
    (root \in S /\ \A r \in S : Deps(r) \subseteq S) => S = Members

TopOf(S, t) == t \in S /\ \A p \in S : t \notin Deps(p)

Acyclic == \A S \in (SUBSET Members) \ {{}} : \E t \in S : TopOf(S, t)

SourcesKept == \A r \in Members : Deps(r) \subseteq Members
SourcesNoLater == \A r, p \in Members : p \in Dependents(r) => nodes[r].cutoff <= nodes[p].cutoff

ProperClosure == Rooted /\ SourcesKept /\ SourcesNoLater /\ Acyclic

(***************************************************************************)
(* The loops answer exactly that question: nothing improper is accepted (a *)
(* run would then retain too little, or its replay would never end) and    *)
(* nothing proper is rejected.                                             *)
(***************************************************************************)
AcceptsProperOnly == phase = "accepted" => ProperClosure
RejectsImproperOnly == phase = "rejected" => ~ProperClosure

(* Kahn's counters are exact at every turn: each one counts the dependents *)
(* still to be visited, and no Release is taken from the list twice.       *)
CountsExact ==
    phase = "order" =>
        /\ visitedCount = Cardinality(visited)
        /\ ready \cap visited = {}
        /\ \A r \in Members : indegree[r] = Cardinality(Dependents(r) \ visited)

(* Validation ends on every graph, cyclic ones included. *)
AlwaysAnswers == <>(phase \in {"accepted", "rejected"})
=============================================================================
