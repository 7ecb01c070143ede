-------------------------- MODULE ThresholdProofs ---------------------------
(***************************************************************************)
(* What happens before a store can take anything, as in MCThreshold: the   *)
(* opening of the database, the validation of a retention closure, and one *)
(* Stage 6B admission.  Each part speaks of its own specification.         *)
(***************************************************************************)
EXTENDS StoreOpening, RetentionGraph, AdmissionSession, FiniteSetTheorems, SequenceTheorems, TLAPS

-----------------------------------------------------------------------------
(***************************************************************************)
(* Proofs about _initialize for any number of openers and attempts.  The   *)
(* strengthening follows each opener: until it is rejected or has a store, *)
(* what it saw and what it drafted still say something of the database.    *)
(***************************************************************************)

Holding == {"migrate", "commit"}
Switched == {"begin", "migrate", "commit", "ready"}
Accepted == {"wal"} \cup Switched

UpToDate(s) == s.version = 3 /\ s.tables = "v3"

(* The write lock is held by exactly the opener in its transaction, whose   *)
(* draft is the migration of what is committed.                             *)
TransactionsAlone ==
    \A o \in Openers :
        /\ pc[o] \in Holding <=> writer = o
        /\ pc[o] = "commit" => Openable(schema) /\ draft[o] = Migrated(schema)

(* How far an opener got says what it saw, and what has become of the file. *)
ProgressMeans ==
    \A o \in Openers :
        /\ pc[o] = "connected" => seen[o] = None
        /\ pc[o] = "preflight" => seen[o] \in Schemas /\ (~Openable(seen[o]) => ~Openable(schema))
        /\ pc[o] \in Accepted => seen[o] \in Schemas /\ Openable(seen[o])
        /\ pc[o] \in {"connected", "preflight"} => attempts[o] = 0
        /\ pc[o] = "wal" => attempts[o] < Attempts
        /\ pc[o] \in Switched => mode = "wal"
        /\ pc[o] = "ready" => UpToDate(schema)
        /\ pc[o] = "rejected" => ~Openable(schema)

OpeningInvariant == OpeningTypeOK /\ TransactionsAlone /\ ProgressMeans

-----------------------------------------------------------------------------
(* What migration and foreign writes do to a database. *)

(* The result of a migration is current, and only an empty one loses rows.  *)
LEMMA MigrationSound ==
    ASSUME NEW s \in Schemas, Openable(s)
    PROVE  /\ Migrated(s) \in Schemas /\ UpToDate(Migrated(s)) /\ Openable(Migrated(s))
           /\ s.rows => Migrated(s).rows
<1>1. Created \in Schemas /\ Schema(3, "v3", s.rows) \in Schemas
  BY DEF Created, Schema, Schemas
<1>2. CASE s.version \in {0, 1}
  <2>1. ~s.rows
    BY <1>2 DEF Openable, Schema
  <2> QED
    BY <1>1, <1>2, <2>1 DEF Migrated, Created, Schema, UpToDate, Openable
<1>3. CASE s.version \notin {0, 1}
  BY <1>1, <1>3 DEF Migrated, Schema, UpToDate, Openable
<1> QED
  BY <1>2, <1>3

(* A row that is stored meanwhile makes no database acceptable, and leaves a *)
(* current one current.                                                      *)
LEMMA RowsChangeNoVerdict ==
    ASSUME NEW s \in Schemas
    PROVE  LET t == [s EXCEPT !.rows = TRUE] IN
           /\ t \in Schemas /\ t.rows
           /\ UpToDate(s) => UpToDate(t)
           /\ ~Openable(s) => ~Openable(t)
BY DEF Schemas, UpToDate, Openable, Schema

-----------------------------------------------------------------------------
(* The steps. *)

LEMMA PreflightBegins ==
    ASSUME OpeningInvariant, NEW o \in Openers, BeginPreflight(o)
    PROVE  OpeningInvariant'
<1> USE DEF BeginPreflight, Goto
<1>1. OpeningTypeOK'
  BY DEF OpeningInvariant, OpeningTypeOK
<1>2. TransactionsAlone'
  BY DEF OpeningInvariant, OpeningTypeOK, TransactionsAlone, Holding
<1>3. ProgressMeans'
  BY DEF OpeningInvariant, OpeningTypeOK, ProgressMeans, Accepted, Switched
<1> QED
  BY <1>1, <1>2, <1>3 DEF OpeningInvariant

LEMMA PreflightEnds ==
    ASSUME OpeningInvariant, NEW o \in Openers, EndPreflight(o)
    PROVE  OpeningInvariant'
<1> DEFINE view == [PreflightView(o) EXCEPT !.version = seen[o].version]
<1>1. pc[o] = "preflight" /\ seen[o] \in Schemas /\ (~Openable(seen[o]) => ~Openable(schema))
  BY DEF EndPreflight, OpeningInvariant, ProgressMeans
<1>2. view = seen[o]
  BY <1>1 DEF PreflightView, Schemas
<1> HIDE DEF view
<1>3. pc' = [pc EXCEPT ![o] = IF Openable(seen[o]) THEN "wal" ELSE "rejected"]
  BY <1>2 DEF EndPreflight, Goto, Acceptable, view
<1>4. UNCHANGED <<mode, schema, writer, seen, draft, attempts>>
  BY DEF EndPreflight
<1>5. OpeningTypeOK'
  BY <1>3, <1>4 DEF OpeningInvariant, OpeningTypeOK, Ended
<1>6. TransactionsAlone'
  BY <1>1, <1>3, <1>4 DEF OpeningInvariant, OpeningTypeOK, TransactionsAlone, Holding
<1>7. ProgressMeans'
  <2>1. attempts[o] < Attempts
    BY <1>1, AttemptsAssumption DEF OpeningInvariant, ProgressMeans
  <2> QED
    BY <1>1, <1>3, <1>4, <2>1 DEF OpeningInvariant, OpeningTypeOK, ProgressMeans, Accepted, Switched
<1> QED
  BY <1>5, <1>6, <1>7 DEF OpeningInvariant

(* Waiting for the switch to WAL, and making it.                            *)
LEMMA WalSwitches ==
    ASSUME OpeningInvariant, NEW o \in Openers, EnableWal(o)
    PROVE  OpeningInvariant'
<1> USE DEF EnableWal, Goto, GivesUp, AfterLastAttempt
<1>1. pc[o] = "wal" /\ attempts[o] \in 0..Attempts /\ attempts[o] < Attempts /\ Attempts \in Nat
  BY AttemptsAssumption DEF OpeningInvariant, OpeningTypeOK, ProgressMeans
<1>2. UNCHANGED <<schema, writer, seen, draft>>
  OBVIOUS
<1>3. OpeningTypeOK'
  BY <1>1, <1>2 DEF OpeningInvariant, OpeningTypeOK, Ended
<1>4. TransactionsAlone'
  BY <1>1, <1>2 DEF OpeningInvariant, OpeningTypeOK, TransactionsAlone, Holding
<1>5. ProgressMeans'
  BY <1>1, <1>2 DEF OpeningInvariant, OpeningTypeOK, ProgressMeans, Accepted, Switched
<1> QED
  BY <1>3, <1>4, <1>5 DEF OpeningInvariant

LEMMA LockTakenOrNot ==
    ASSUME OpeningInvariant, NEW o \in Openers, BeginImmediate(o) \/ BusyTimeout(o)
    PROVE  OpeningInvariant'
<1> USE DEF BeginImmediate, BusyTimeout, Goto
<1>1. pc[o] = "begin" /\ UNCHANGED <<mode, schema, seen, draft, attempts>>
  OBVIOUS
<1>2. OpeningTypeOK'
  BY DEF OpeningInvariant, OpeningTypeOK, Ended
<1>3. TransactionsAlone'
  <2>1. CASE BeginImmediate(o)
    BY <2>1, NoneAssumption DEF OpeningInvariant, OpeningTypeOK, TransactionsAlone, Holding
  <2>2. CASE BusyTimeout(o)
    BY <2>2 DEF OpeningInvariant, OpeningTypeOK, TransactionsAlone, Holding
  <2> QED
    BY <2>1, <2>2
<1>4. ProgressMeans'
  BY <1>1 DEF OpeningInvariant, OpeningTypeOK, ProgressMeans, Accepted, Switched
<1> QED
  BY <1>2, <1>3, <1>4 DEF OpeningInvariant

LEMMA MigrationDrafts ==
    ASSUME OpeningInvariant, NEW o \in Openers, Migrate(o)
    PROVE  OpeningInvariant'
<1> USE DEF Migrate, Goto, TransactionView
<1>1. pc[o] = "migrate" /\ writer = o /\ UNCHANGED <<mode, schema, seen, attempts>>
  BY DEF OpeningInvariant, TransactionsAlone, Holding
<1>2. schema \in Schemas
  BY DEF OpeningInvariant, OpeningTypeOK
<1>3. CASE Openable(schema)
  <2>1. /\ pc' = [pc EXCEPT ![o] = "commit"] /\ writer' = writer
        /\ draft' = [draft EXCEPT ![o] = Migrated(schema)]
    BY <1>3
  <2>2. Migrated(schema) \in Schemas
    BY <1>2, <1>3, MigrationSound
  <2>3. OpeningTypeOK'
    BY <1>1, <2>1, <2>2 DEF OpeningInvariant, OpeningTypeOK
  <2>4. TransactionsAlone'
    BY <1>1, <1>3, <2>1 DEF OpeningInvariant, OpeningTypeOK, TransactionsAlone, Holding
  <2>5. ProgressMeans'
    BY <1>1, <2>1 DEF OpeningInvariant, OpeningTypeOK, ProgressMeans, Accepted, Switched
  <2> QED
    BY <2>3, <2>4, <2>5 DEF OpeningInvariant
<1>4. CASE ~Openable(schema)
  <2>1. pc' = [pc EXCEPT ![o] = "rejected"] /\ writer' = None /\ UNCHANGED draft
    BY <1>4
  <2>2. OpeningTypeOK'
    BY <1>1, <2>1 DEF OpeningInvariant, OpeningTypeOK, Ended
  <2>3. TransactionsAlone'
    BY <1>1, <2>1, NoneAssumption DEF OpeningInvariant, OpeningTypeOK, TransactionsAlone, Holding
  <2>4. ProgressMeans'
    BY <1>1, <1>4, <2>1 DEF OpeningInvariant, OpeningTypeOK, ProgressMeans, Accepted, Switched
  <2> QED
    BY <2>2, <2>3, <2>4 DEF OpeningInvariant
<1> QED
  BY <1>3, <1>4

(* The commit replaces what nobody could have changed since it was drafted. *)
LEMMA CommitPublishes ==
    ASSUME OpeningInvariant, NEW o \in Openers, Commit(o)
    PROVE  OpeningInvariant'
<1> USE DEF Commit, Goto
<1>1. pc[o] = "commit" /\ UNCHANGED <<mode, seen, attempts>> /\ schema \in Schemas
  BY DEF OpeningInvariant, OpeningTypeOK
<1>2. writer = o /\ Openable(schema) /\ schema' = Migrated(schema)
  BY <1>1 DEF OpeningInvariant, TransactionsAlone, Holding
<1>3. schema' \in Schemas /\ UpToDate(schema') /\ Openable(schema')
  BY <1>1, <1>2, MigrationSound
<1>4. OpeningTypeOK'
  BY <1>1, <1>3 DEF OpeningInvariant, OpeningTypeOK, Ended
<1>5. TransactionsAlone'
  BY <1>1, <1>2, NoneAssumption DEF OpeningInvariant, OpeningTypeOK, TransactionsAlone, Holding
<1>6. ProgressMeans'
  BY <1>1, <1>2, <1>3 DEF OpeningInvariant, OpeningTypeOK, ProgressMeans, Accepted, Switched
<1> QED
  BY <1>4, <1>5, <1>6 DEF OpeningInvariant

LEMMA CrashForgets ==
    ASSUME OpeningInvariant, NEW o \in Openers, Crash(o)
    PROVE  OpeningInvariant'
<1> USE DEF Crash, Goto
<1>1. OpeningTypeOK'
  BY DEF OpeningInvariant, OpeningTypeOK, Ended
<1>2. TransactionsAlone'
  BY NoneAssumption DEF OpeningInvariant, OpeningTypeOK, TransactionsAlone, Holding
<1>3. ProgressMeans'
  BY DEF OpeningInvariant, OpeningTypeOK, ProgressMeans, Accepted, Switched
<1> QED
  BY <1>1, <1>2, <1>3 DEF OpeningInvariant

LEMMA ForeignWrite ==
    ASSUME OpeningInvariant, OpenProgramWrites
    PROVE  OpeningInvariant'
<1> USE DEF OpenProgramWrites
<1>1. schema \in Schemas /\ writer = None /\ UNCHANGED <<mode, writer, pc, seen, draft, attempts>>
  BY DEF OpeningInvariant, OpeningTypeOK
<1>2. /\ schema' \in Schemas
      /\ UpToDate(schema) => UpToDate(schema')
      /\ ~Openable(schema) => ~Openable(schema')
  BY <1>1, RowsChangeNoVerdict
<1>3. \A o \in Openers : pc[o] # "commit"
  BY <1>1, NoneAssumption DEF OpeningInvariant, TransactionsAlone, Holding
<1>4. OpeningTypeOK'
  BY <1>1, <1>2 DEF OpeningInvariant, OpeningTypeOK
<1>5. TransactionsAlone'
  BY <1>1, <1>3 DEF OpeningInvariant, TransactionsAlone
<1>6. ProgressMeans'
  BY <1>1, <1>2 DEF OpeningInvariant, ProgressMeans
<1> QED
  BY <1>4, <1>5, <1>6 DEF OpeningInvariant

-----------------------------------------------------------------------------
(* The theorems. *)

(* _initialize: whatever an opener saw and drafted is still true of the     *)
(* file when it acts on it.                                                 *)
THEOREM OpeningInvariantHolds == OpeningSpec => []OpeningInvariant
<1>1. OpeningInit => OpeningInvariant
  <2> SUFFICES ASSUME OpeningInit
               PROVE  OpeningInvariant
    OBVIOUS
  <2> USE DEF OpeningInit
  <2>1. OpeningTypeOK
    BY AttemptsAssumption DEF OpeningTypeOK
  <2>2. TransactionsAlone
    BY NoneAssumption DEF TransactionsAlone, Holding
  <2>3. ProgressMeans
    BY DEF ProgressMeans, Accepted, Switched
  <2> QED
    BY <2>1, <2>2, <2>3 DEF OpeningInvariant
<1>2. OpeningInvariant /\ [OpeningNext]_openVars => OpeningInvariant'
  <2> SUFFICES ASSUME OpeningInvariant, [OpeningNext]_openVars
               PROVE  OpeningInvariant'
    OBVIOUS
  <2>1. ASSUME NEW o \in Openers, Open(o) \/ Crash(o)
        PROVE  OpeningInvariant'
    BY <2>1, PreflightBegins, PreflightEnds, WalSwitches, LockTakenOrNot, MigrationDrafts,
       CommitPublishes, CrashForgets DEF Open
  <2>2. CASE OpenProgramWrites
    BY <2>2, ForeignWrite
  <2>3. CASE AllEnded \/ UNCHANGED openVars
    BY <2>3 DEF AllEnded, openVars, OpeningInvariant, OpeningTypeOK, TransactionsAlone, ProgressMeans
  <2> QED
    BY <2>1, <2>2, <2>3 DEF OpeningNext
<1> QED
  BY <1>1, <1>2, PTL DEF OpeningSpec

(* Whoever has a store has it over the current schema in WAL mode, however  *)
(* many processes created or migrated it.                                   *)
THEOREM OpeningReadyMeansCurrent == OpeningSpec => []ReadyMeansCurrent
<1>1. OpeningInvariant => ReadyMeansCurrent
  BY DEF OpeningInvariant, ProgressMeans, ReadyMeansCurrent, Switched, UpToDate
<1> QED
  BY <1>1, OpeningInvariantHolds, PTL

(* _preflight_initialization: one snapshot, so nobody is turned away from a *)
(* database that another process was just making.                           *)
THEOREM OpeningNoSpuriousRejection == OpeningSpec => []NoSpuriousRejection
<1>1. OpeningInvariant => NoSpuriousRejection
  BY DEF OpeningInvariant, ProgressMeans, NoSpuriousRejection
<1> QED
  BY <1>1, OpeningInvariantHolds, PTL

(* A file nobody found acceptable keeps its journal mode and its schema; at *)
(* most the program that has it open stores a row.                          *)
THEOREM OpeningRefusedFileUntouched == OpeningSpec => RefusedFileUntouched
<1> DEFINE Untouched ==
      (\A o \in Openers : seen[o] = None \/ ~Openable(seen[o]))
          => mode' = mode /\ (schema' # schema => schema'.rows)
<1>1. OpeningInvariant /\ [OpeningNext]_openVars => [Untouched]_openVars
  <2> SUFFICES ASSUME OpeningInvariant, OpeningNext,
                      \A o \in Openers : seen[o] = None \/ ~Openable(seen[o])
               PROVE  mode' = mode /\ (schema' # schema => schema'.rows)
    BY DEF openVars
  <2>1. \A o \in Openers : pc[o] \notin Accepted
    BY NoneAssumption DEF OpeningInvariant, ProgressMeans
  <2>2. ASSUME NEW o \in Openers, Open(o) \/ Crash(o)
        PROVE  UNCHANGED <<mode, schema>>
    BY <2>1, <2>2 DEF Open, Crash, BeginPreflight, EndPreflight, EnableWal, BeginImmediate, BusyTimeout,
       Migrate, Commit, Accepted, Switched
  <2>3. CASE OpenProgramWrites
    BY <2>3, RowsChangeNoVerdict DEF OpenProgramWrites, OpeningInvariant, OpeningTypeOK
  <2> QED
    BY <2>2, <2>3 DEF OpeningNext, AllEnded, openVars
<1> QED
  BY <1>1, OpeningInvariantHolds, PTL DEF OpeningSpec, RefusedFileUntouched

(* _initialize: no migration drops rows, not even those stored after the   *)
(* preflight found none.                                                    *)
THEOREM OpeningRowsSurvive == OpeningSpec => RowsSurvive
<1>1. OpeningInvariant /\ [OpeningNext]_openVars => [schema.rows => schema'.rows]_openVars
  <2> SUFFICES ASSUME OpeningInvariant, OpeningNext, schema.rows
               PROVE  schema'.rows
    BY DEF openVars
  <2>1. ASSUME NEW o \in Openers, Commit(o)
        PROVE  schema'.rows
    <3>1. schema \in Schemas /\ Openable(schema) /\ schema' = Migrated(schema)
      BY <2>1 DEF Commit, OpeningInvariant, OpeningTypeOK, TransactionsAlone
    <3> QED
      BY <3>1, MigrationSound
  <2>2. ASSUME NEW o \in Openers, (Open(o) /\ ~Commit(o)) \/ Crash(o)
        PROVE  UNCHANGED schema
    BY <2>2 DEF Open, Crash, BeginPreflight, EndPreflight, EnableWal, BeginImmediate, BusyTimeout, Migrate
  <2>3. CASE OpenProgramWrites
    BY <2>3 DEF OpenProgramWrites
  <2> QED
    BY <2>1, <2>2, <2>3 DEF OpeningNext, AllEnded, openVars
<1> QED
  BY <1>1, OpeningInvariantHolds, PTL DEF OpeningSpec, RowsSurvive

-----------------------------------------------------------------------------
(***************************************************************************)
(* What the runs of RetentionGraph show for three Releases holds for every *)
(* finite set of them.  The heart of it is what each loop has established: *)
(* the search has met exactly what any closed set holding the root must    *)
(* contain, and the visited Releases can always be laid out top down.      *)
(***************************************************************************)

ClosedUnderDeps(S) == \A r \in S : Deps(r) \subseteq S

EdgesFine == root \in Members /\ SourcesKept /\ SourcesNoLater

Unvisited == visited = {} /\ visitedCount = 0

(* The search: nothing met is beyond need, and what is missing is pending. *)
SearchInv ==
    /\ root \in reachable \cup pending
    /\ \A r \in reachable : Deps(r) \subseteq reachable \cup pending
    /\ \A S \in SUBSET Members :
         root \in S /\ ClosedUnderDeps(S) => reachable \cup pending \subseteq S

(* The order: ready and visited Releases are those without open dependents.*)
OrderInv ==
    /\ \A r \in visited \cup ready : Dependents(r) \subseteq visited
    /\ \A r \in Members \ (visited \cup ready) : ~(Dependents(r) \subseteq visited)
    /\ \A S \in SUBSET visited : S # {} => \E t \in S : TopOf(S, t)

GraphInv ==
    /\ GraphTypeOK
    /\ phase = "edges" => Unvisited /\ reachable = {}
    /\ phase = "reach" => Unvisited /\ EdgesFine /\ SearchInv
    /\ phase = "order" => EdgesFine /\ Rooted /\ OrderInv
    /\ CountsExact
    /\ AcceptsProperOnly
    /\ RejectsImproperOnly

(* What the type of nodes says of one node. *)
LEMMA ClosureFacts ==
    ASSUME nodes \in Closures
    PROVE  /\ IsFiniteSet(Members)
           /\ \A r \in Members : /\ r \in ReleaseIds
                                 /\ Deps(r) \subseteq ReleaseIds
                                 /\ nodes[r].cutoff \in Int
                                 /\ r \notin Deps(r)
<1>1. PICK rs \in SUBSET ReleaseIds : nodes \in [rs -> [deps: SUBSET ReleaseIds, cutoff: Cutoffs]]
  BY DEF Closures
<1>2. Members = rs
  BY <1>1 DEF Members
<1>3. IsFiniteSet(Members)
  BY <1>2, ReleasesAssumption, FS_Subset
<1>4. ASSUME NEW r \in Members
      PROVE  /\ r \in ReleaseIds
             /\ Deps(r) \subseteq ReleaseIds
             /\ nodes[r].cutoff \in Int
             /\ r \notin Deps(r)
  <2>1. nodes[r] \in [deps: SUBSET ReleaseIds, cutoff: Cutoffs]
    BY <1>1, <1>2
  <2>2. nodes[r].deps \in SUBSET ReleaseIds /\ nodes[r].cutoff \in Cutoffs
    BY <2>1
  <2>3. r \notin nodes[r].deps
    BY DEF Closures, Members
  <2> QED
    BY <1>2, <2>2, <2>3, CutoffsAssumption DEF Deps
<1> QED
  BY <1>3, <1>4

(* The first loop asks for exactly the two conditions on edges. *)
LEMMA EdgesValidMeans ==
    ASSUME nodes \in Closures
    PROVE  EdgesValid <=> SourcesKept /\ SourcesNoLater
BY ClosureFacts DEF EdgesValid, SourcesKept, SourcesNoLater, Dependents

(* Initially every loop is fresh. *)
LEMMA GraphInvInit == GraphInit => GraphInv
<1> SUFFICES ASSUME GraphInit PROVE GraphInv
  OBVIOUS
<1>1. indegree \in [Members -> Int]
  BY DEF GraphInit
<1> QED
  BY <1>1 DEF GraphInit, GraphInv, GraphTypeOK, Unvisited, CountsExact, AcceptsProperOnly,
     RejectsImproperOnly

(* The edge loop either leaves a well-edged graph or rightly rejects. *)
LEMMA CheckEdgesStep == GraphInv /\ CheckEdges => GraphInv'
<1> SUFFICES ASSUME GraphInv, CheckEdges PROVE GraphInv'
  OBVIOUS
<1> USE DEF GraphInv, CheckEdges
<1>0. root' = root /\ nodes' = nodes /\ Members' = Members /\ nodes \in Closures
  BY DEF Members, GraphTypeOK
<1>1. CASE root \in Members /\ EdgesValid
  <2>1. GraphTypeOK'
    BY <1>0, <1>1 DEF GraphTypeOK
  <2>2. Unvisited' /\ EdgesFine
    BY <1>0, <1>1, EdgesValidMeans DEF Unvisited, EdgesFine
  <2>3. EdgesFine'
    BY <2>2, <1>0 DEF EdgesFine, SourcesKept, SourcesNoLater, Dependents, Deps
  <2>4. pending' = {root} /\ phase' = "reach" /\ reachable' = reachable
    BY <1>1
  <2>5. reachable = {}
    OBVIOUS
  <2>6. SearchInv'
    BY <2>4, <2>5, <1>0 DEF SearchInv, ClosedUnderDeps
  <2> QED
    BY <2>1, <2>2, <2>3, <2>4, <2>6 DEF CountsExact, AcceptsProperOnly, RejectsImproperOnly
<1>2. CASE ~(root \in Members /\ EdgesValid)
  <2>1. ~ProperClosure
    BY <1>0, <1>2, EdgesValidMeans DEF ProperClosure, Rooted
  <2>2. (~ProperClosure)'
    BY <2>1, <1>0 DEF ProperClosure, Rooted, SourcesKept, SourcesNoLater, Acyclic, TopOf, Dependents, Deps
  <2>3. GraphTypeOK' /\ phase' = "rejected"
    BY <1>0, <1>2 DEF GraphTypeOK
  <2> QED
    BY <2>2, <2>3 DEF CountsExact, AcceptsProperOnly, RejectsImproperOnly
<1> QED
  BY <1>1, <1>2

(* One turn of the search keeps the frontier complete and needed. *)
LEMMA SearchStep == GraphInv /\ Search => GraphInv'
<1> SUFFICES ASSUME GraphInv, Search PROVE GraphInv'
  OBVIOUS
<1> USE DEF GraphInv
<1>1. PICK r \in pending : ReachOne(r)
  BY DEF Search
<1>2. /\ root' = root /\ nodes' = nodes /\ Members' = Members /\ nodes \in Closures
      /\ phase = "reach" /\ phase' = "reach" /\ indegree' = indegree
      /\ ready' = ready /\ visited' = visited /\ visitedCount' = visitedCount
      /\ EdgesFine /\ Unvisited /\ SearchInv
  BY DEF Search, Members, GraphTypeOK
<1>3. Deps(r) \subseteq Members /\ r \in Members
  BY <1>1, <1>2 DEF EdgesFine, SourcesKept, GraphTypeOK
<1>4. GraphTypeOK'
  BY <1>1, <1>2, <1>3 DEF GraphTypeOK, ReachOne
<1>5. EdgesFine' /\ Unvisited'
  BY <1>2 DEF EdgesFine, SourcesKept, SourcesNoLater, Dependents, Deps, Unvisited
<1>6. SearchInv'
  <2> DEFINE met == reachable \cup pending
  <2>1. reachable' \cup pending' = met \cup Deps(r)
    BY <1>1, <1>2 DEF ReachOne, SearchInv
  <2>2. root \in reachable' \cup pending'
    BY <1>2, <2>1 DEF SearchInv
  <2>3. ASSUME NEW q \in reachable' PROVE Deps(q) \subseteq reachable' \cup pending'
    BY <1>1, <1>2, <2>1 DEF ReachOne, SearchInv
  <2>4. ASSUME NEW S \in SUBSET Members, root \in S, ClosedUnderDeps(S)
        PROVE  reachable' \cup pending' \subseteq S
    BY <1>1, <1>2, <2>1, <2>4 DEF SearchInv, ClosedUnderDeps
  <2> QED
    BY <1>2, <2>2, <2>3, <2>4 DEF SearchInv, ClosedUnderDeps, Deps
<1> QED
  BY <1>2, <1>4, <1>5, <1>6 DEF CountsExact, AcceptsProperOnly, RejectsImproperOnly

(* The search is over: the graph is rooted, or it is rightly rejected; the *)
(* counters start at the number of all dependents.                         *)
LEMMA BeginOrderStep == GraphInv /\ BeginOrder => GraphInv'
<1> SUFFICES ASSUME GraphInv, BeginOrder PROVE GraphInv'
  OBVIOUS
<1> USE DEF GraphInv
<1>1. /\ root' = root /\ nodes' = nodes /\ Members' = Members /\ nodes \in Closures
      /\ phase = "reach" /\ phase' = PhaseAfterSearch /\ pending = {}
      /\ indegree' = [r \in Members |-> Cardinality(Dependents(r))]
      /\ ready' = {r \in Members : Cardinality(Dependents(r)) = 0}
      /\ reachable' = reachable /\ pending' = pending
      /\ visited' = {} /\ visitedCount' = 0 /\ visited = {}
      /\ EdgesFine /\ SearchInv
  BY DEF BeginOrder, Members, GraphTypeOK, Unvisited
<1>2. /\ IsFiniteSet(Members)
      /\ \A r \in Members : /\ Dependents(r) \subseteq Members
                            /\ IsFiniteSet(Dependents(r))
                            /\ Cardinality(Dependents(r)) \in Nat
                            /\ Cardinality(Dependents(r)) = 0 <=> Dependents(r) = {}
  BY <1>1, ClosureFacts, FS_Subset, FS_CardinalityType, FS_EmptySet DEF Dependents
<1>3. GraphTypeOK'
  <2>1. indegree' \in [Members -> Int]
    BY <1>1, <1>2
  <2> QED
    BY <1>1, <2>1 DEF GraphTypeOK, PhaseAfterSearch
<1>4. EdgesFine'
  BY <1>1 DEF EdgesFine, SourcesKept, SourcesNoLater, Dependents, Deps
<1>5. reachable \subseteq Members /\ root \in reachable /\ ClosedUnderDeps(reachable)
  BY <1>1 DEF SearchInv, ClosedUnderDeps, GraphTypeOK
<1>6. CASE reachable = Members
  <2>1. Rooted
    BY <1>1, <1>5, <1>6 DEF Rooted, SearchInv, ClosedUnderDeps
  <2>2. Rooted'
    BY <1>1, <2>1 DEF Rooted, Deps
  <2>3. /\ \A r \in Members : Dependents(r)' = Dependents(r)
        /\ \A r \in Members : Dependents(r) \ {} = Dependents(r)
    BY <1>1 DEF Dependents, Deps
  <2>4. OrderInv'
    BY <1>1, <1>2, <2>3 DEF OrderInv
  <2>5. CountsExact'
    <3>1. Cardinality({}) = 0
      BY FS_EmptySet
    <3>2. ASSUME NEW r \in Members PROVE indegree'[r] = Cardinality(Dependents(r)' \ visited')
      BY <1>1, <2>3
    <3> QED
      BY <1>1, <3>1, <3>2 DEF CountsExact
  <2> QED
    BY <1>1, <1>3, <1>4, <1>6, <2>2, <2>4, <2>5 DEF PhaseAfterSearch, AcceptsProperOnly, RejectsImproperOnly
<1>7. CASE reachable # Members
  <2>1. ~Rooted
    BY <1>5, <1>7 DEF Rooted, ClosedUnderDeps
  <2>2. (~ProperClosure)'
    BY <2>1, <1>1 DEF ProperClosure, Rooted, Deps
  <2> QED
    BY <1>1, <1>3, <1>7, <2>2 DEF PhaseAfterSearch, CountsExact, AcceptsProperOnly, RejectsImproperOnly
<1> QED
  BY <1>6, <1>7

(* One turn of the order: a Release all of whose dependents were visited.  *)
LEMMA VisitStep == GraphInv /\ Visit => GraphInv'
<1> SUFFICES ASSUME GraphInv, Visit PROVE GraphInv'
  OBVIOUS
<1> USE DEF GraphInv
<1> DEFINE After(r) == [d \in Members |-> IF d \in Deps(r) THEN indegree[d] - 1 ELSE indegree[d]]
<1>1. PICK r \in ready : /\ indegree' = After(r)
                         /\ ready' = (ready \ {r}) \cup NewlyReady(r, After(r))
                         /\ visited' = visited \cup {r}
                         /\ visitedCount' = visitedCount + 1
  BY DEF Visit
<1>2. /\ root' = root /\ nodes' = nodes /\ Members' = Members /\ nodes \in Closures
      /\ phase = "order" /\ phase' = "order" /\ reachable' = reachable /\ pending' = pending
      /\ EdgesFine /\ Rooted /\ OrderInv /\ CountsExact /\ GraphTypeOK
  BY DEF Visit, Members, GraphTypeOK
<1>3. /\ r \in Members /\ r \notin visited /\ r \notin Deps(r) /\ Deps(r) \subseteq Members
      /\ Dependents(r) \subseteq visited
  BY <1>2, ClosureFacts DEF CountsExact, EdgesFine, SourcesKept, OrderInv, GraphTypeOK
<1>4. /\ IsFiniteSet(Members) /\ IsFiniteSet(visited)
      /\ \A d \in Members : IsFiniteSet(Dependents(d) \ visited)
  BY <1>2, ClosureFacts, FS_Subset DEF GraphTypeOK, Dependents
<1>5. \A d \in Members : d \in Deps(r) <=> r \in Dependents(d)
  BY <1>3 DEF Dependents
<1>6. \A d \in Members : After(r)[d] = Cardinality(Dependents(d) \ visited')
  <2> SUFFICES ASSUME NEW d \in Members
               PROVE  After(r)[d] = Cardinality(Dependents(d) \ visited')
    OBVIOUS
  <2>1. indegree[d] = Cardinality(Dependents(d) \ visited)
    BY <1>2 DEF CountsExact
  <2>2. CASE d \in Deps(r)
    <3>1. r \in Dependents(d) \ visited
      BY <1>3, <1>5, <2>2
    <3>2. Cardinality((Dependents(d) \ visited) \ {r}) = Cardinality(Dependents(d) \ visited) - 1
      BY <1>4, <3>1, FS_RemoveElement
    <3>3. (Dependents(d) \ visited) \ {r} = Dependents(d) \ visited'
      BY <1>1
    <3> QED
      BY <2>1, <2>2, <3>2, <3>3
  <2>3. CASE d \notin Deps(r)
    <3>1. Dependents(d) \ visited' = Dependents(d) \ visited
      BY <1>1, <1>5, <2>3
    <3> QED
      BY <2>1, <2>3, <3>1
  <2> QED
    BY <2>2, <2>3
<1>7. \A d \in Members : /\ After(r)[d] \in Nat
                         /\ After(r)[d] = 0 <=> Dependents(d) \subseteq visited'
  <2> SUFFICES ASSUME NEW d \in Members
               PROVE  /\ After(r)[d] \in Nat
                      /\ After(r)[d] = 0 <=> Dependents(d) \subseteq visited'
    OBVIOUS
  <2>1. IsFiniteSet(Dependents(d) \ visited')
    <3>1. Dependents(d) \ visited' \subseteq Dependents(d) \ visited
      BY <1>1
    <3> QED
      BY <1>4, <3>1, FS_Subset
  <2>2. Cardinality(Dependents(d) \ visited') \in Nat
    BY <2>1, FS_CardinalityType
  <2>3. Cardinality(Dependents(d) \ visited') = 0 <=> Dependents(d) \ visited' = {}
    BY <2>1, FS_EmptySet
  <2>4. Dependents(d) \ visited' = {} <=> Dependents(d) \subseteq visited'
    OBVIOUS
  <2> QED
    BY <1>6, <2>2, <2>3, <2>4
<1>8. \A d \in Members : d \in NewlyReady(r, After(r)) <=> d \in Deps(r) /\ Dependents(d) \subseteq visited'
  BY <1>7 DEF NewlyReady
<1>9. NewlyReady(r, After(r)) \subseteq Members
  BY <1>3 DEF NewlyReady
<1> HIDE DEF After
<1>10. GraphTypeOK'
  <2>1. After(r) \in [Members -> Int]
    BY <1>7 DEF After
  <2>2. ready' \subseteq Members /\ visited' \subseteq Members
    BY <1>1, <1>2, <1>3, <1>9 DEF GraphTypeOK
  <2> QED
    BY <1>1, <1>2, <2>1, <2>2 DEF GraphTypeOK
<1>11. EdgesFine' /\ Rooted'
  BY <1>2 DEF EdgesFine, SourcesKept, SourcesNoLater, Dependents, Deps, Rooted
<1>12. \A d \in Members : Dependents(d)' = Dependents(d)
  BY <1>2 DEF Dependents, Deps
<1>13. visited' \subseteq Members /\ ready' \subseteq Members
  BY <1>10, <1>2 DEF GraphTypeOK
<1>14. OrderInv'
  <2>1. ASSUME NEW d \in visited' \cup ready' PROVE Dependents(d) \subseteq visited'
    BY <1>1, <1>2, <1>3, <1>8, <1>9 DEF OrderInv
  <2>2. ASSUME NEW d \in Members, d \notin visited', d \notin ready'
        PROVE  ~(Dependents(d) \subseteq visited')
    <3>1. CASE d \in Deps(r)
      BY <1>1, <1>8, <2>2, <3>1
    <3>2. CASE d \notin Deps(r)
      <4>1. ~(Dependents(d) \subseteq visited)
        BY <1>1, <1>2, <2>2 DEF OrderInv
      <4> QED
        BY <1>1, <1>5, <3>2, <4>1
    <3> QED
      BY <3>1, <3>2
  <2>3. ASSUME NEW S \in SUBSET visited', S # {} PROVE \E t \in S : TopOf(S, t)
    <3>1. CASE S \ {r} = {}
      <4>1. S = {r}
        BY <2>3, <3>1
      <4> QED
        BY <1>3, <4>1 DEF TopOf
    <3>2. CASE S \ {r} # {}
      <4>1. S \ {r} \in SUBSET visited
        BY <1>1
      <4>2. PICK t \in S \ {r} : TopOf(S \ {r}, t)
        BY <1>2, <3>2, <4>1 DEF OrderInv
      <4>3. t \notin Deps(r)
        BY <1>2, <1>3, <1>5, <4>1, <4>2 DEF OrderInv, GraphTypeOK
      <4> QED
        BY <4>2, <4>3 DEF TopOf
    <3> QED
      BY <3>1, <3>2
  <2>4. \A S, t : TopOf(S, t)' <=> TopOf(S, t)
    BY <1>2 DEF TopOf, Deps
  <2>5. \A d \in visited' \cup ready' : Dependents(d)' \subseteq visited'
    BY <2>1, <1>12, <1>13
  <2>6. \A d \in Members' \ (visited' \cup ready') : ~(Dependents(d)' \subseteq visited')
    BY <2>2, <1>12, <1>2
  <2>7. \A S \in SUBSET visited' : S # {} => \E t \in S : TopOf(S, t)'
    BY <2>3, <1>2 DEF TopOf, Deps
  <2> QED
    BY <2>5, <2>6, <2>7 DEF OrderInv
<1>15. CountsExact'
  <2>1. visitedCount' = Cardinality(visited')
    <3>1. Cardinality(visited \cup {r}) = Cardinality(visited) + 1
      BY <1>3, <1>4, FS_AddElement
    <3> QED
      BY <1>1, <1>2, <3>1 DEF CountsExact
  <2>2. ready' \cap visited' = {}
    <3>1. ASSUME NEW d \in NewlyReady(r, After(r)) PROVE d \notin visited'
      <4>1. d \in Deps(r) /\ d \in Members
        BY <1>9 DEF NewlyReady
      <4>2. r \in Dependents(d)
        BY <1>5, <4>1
      <4>3. d \notin visited
        BY <1>2, <1>3, <4>2 DEF OrderInv
      <4> QED
        BY <1>1, <1>3, <4>1, <4>3
    <3> QED
      BY <1>1, <1>2, <3>1 DEF CountsExact
  <2>3. \A d \in Members : indegree'[d] = Cardinality(Dependents(d)' \ visited')
    BY <1>1, <1>6, <1>12
  <2> QED
    BY <1>2, <2>1, <2>2, <2>3 DEF CountsExact
<1> QED
  BY <1>2, <1>10, <1>11, <1>14, <1>15 DEF AcceptsProperOnly, RejectsImproperOnly

(* Everything was visited exactly when the graph has no cycle.             *)
LEMMA ConcludeStep == GraphInv /\ Conclude => GraphInv'
<1> SUFFICES ASSUME GraphInv, Conclude PROVE GraphInv'
  OBVIOUS
<1> USE DEF GraphInv
<1>1. /\ root' = root /\ nodes' = nodes /\ Members' = Members /\ nodes \in Closures
      /\ phase = "order" /\ ready = {} /\ reachable' = reachable /\ pending' = pending
      /\ indegree' = indegree /\ ready' = ready /\ visited' = visited
      /\ visitedCount' = visitedCount
      /\ phase' = IF visitedCount = Cardinality(Members) THEN "accepted" ELSE "rejected"
      /\ EdgesFine /\ Rooted /\ OrderInv /\ CountsExact /\ GraphTypeOK
  BY DEF Conclude, Members, GraphTypeOK
<1>2. IsFiniteSet(Members) /\ visited \subseteq Members
  BY <1>1, ClosureFacts DEF GraphTypeOK
<1>3. visitedCount = Cardinality(Members) <=> visited = Members
  BY <1>1, <1>2, FS_Subset DEF CountsExact
<1>4. ProperClosure <=> visited = Members
  <2>1. ASSUME visited = Members PROVE Acyclic
    <3>1. \A S \in SUBSET visited : S # {} => \E t \in S : TopOf(S, t)
      BY <1>1 DEF OrderInv
    <3>2. ASSUME NEW S \in (SUBSET Members) \ {{}} PROVE \E t \in S : TopOf(S, t)
      <4>1. S \in SUBSET visited /\ S # {}
        BY <2>1
      <4> QED
        BY <3>1, <4>1
    <3> QED
      BY <3>2 DEF Acyclic
  <2>2. ASSUME visited # Members PROVE ~Acyclic
    <3> DEFINE rest == Members \ visited
    <3>1. rest \in SUBSET Members /\ rest # {}
      BY <1>2, <2>2
    <3>2. \A t \in rest : \E p \in rest : t \in Deps(p)
      BY <1>1 DEF OrderInv, Dependents
    <3>3. \A t \in rest : ~TopOf(rest, t)
      BY <3>2 DEF TopOf
    <3> HIDE DEF rest
    <3> QED
      BY <3>1, <3>3 DEF Acyclic
  <2> QED
    BY <1>1, <2>1, <2>2 DEF ProperClosure, EdgesFine
<1>5. ProperClosure' <=> ProperClosure
  BY <1>1 DEF ProperClosure, Rooted, SourcesKept, SourcesNoLater, Acyclic, TopOf, Dependents, Deps
<1>6. GraphTypeOK'
  BY <1>1 DEF GraphTypeOK
<1> QED
  BY <1>1, <1>3, <1>4, <1>5, <1>6 DEF CountsExact, AcceptsProperOnly, RejectsImproperOnly

(* The strengthened invariant holds of every reachable state.              *)
THEOREM GraphInvariant == GraphSpec => []GraphInv
<1>1. GraphInit => GraphInv
  BY GraphInvInit
<1>2. GraphInv /\ [GraphNext]_graphVars => GraphInv'
  <2> SUFFICES ASSUME GraphInv, [GraphNext]_graphVars PROVE GraphInv'
    OBVIOUS
  <2>1. CASE UNCHANGED graphVars
    <3> USE <2>1 DEF graphVars, Members, Deps, Dependents
    <3>1. GraphTypeOK' <=> GraphTypeOK
      BY DEF GraphTypeOK
    <3>2. (Unvisited' <=> Unvisited) /\ (EdgesFine' <=> EdgesFine)
      BY DEF Unvisited, EdgesFine, SourcesKept, SourcesNoLater
    <3>3. SearchInv' <=> SearchInv
      BY DEF SearchInv, ClosedUnderDeps
    <3>4. OrderInv' <=> OrderInv
      BY DEF OrderInv, TopOf
    <3>5. Rooted' <=> Rooted
      BY DEF Rooted
    <3>6. ProperClosure' <=> ProperClosure
      BY <3>5 DEF ProperClosure, SourcesKept, SourcesNoLater, Acyclic, TopOf
    <3>7. CountsExact' <=> CountsExact
      BY DEF CountsExact
    <3> QED
      BY <3>1, <3>2, <3>3, <3>4, <3>5, <3>6, <3>7 DEF GraphInv, AcceptsProperOnly, RejectsImproperOnly
  <2>2. CASE Answered
    BY <2>1, <2>2 DEF Answered
  <2> QED
    BY <2>1, <2>2, CheckEdgesStep, SearchStep, BeginOrderStep, VisitStep, ConcludeStep DEF GraphNext
<1> QED
  BY <1>1, <1>2, PTL DEF GraphSpec

(* The state of the loops keeps its type for every finite set of Releases. *)
THEOREM GraphTypeCorrect == GraphSpec => []GraphTypeOK
<1>1. GraphInv => GraphTypeOK
  BY DEF GraphInv
<1> QED
  BY <1>1, GraphInvariant, PTL

(* Kahn's counters count the unvisited dependents, whatever the order in   *)
(* which ready Releases are taken.                                         *)
THEOREM CountersCorrect == GraphSpec => []CountsExact
<1>1. GraphInv => CountsExact
  BY DEF GraphInv
<1> QED
  BY <1>1, GraphInvariant, PTL

(* Soundness: a closure that is accepted is rooted, closed under           *)
(* dependencies, ordered in time and free of cycles.                       *)
THEOREM AcceptanceSound == GraphSpec => []AcceptsProperOnly
<1>1. GraphInv => AcceptsProperOnly
  BY DEF GraphInv
<1> QED
  BY <1>1, GraphInvariant, PTL

(* Completeness: a closure that is rejected lacks one of these.            *)
THEOREM RejectionSound == GraphSpec => []RejectsImproperOnly
<1>1. GraphInv => RejectsImproperOnly
  BY DEF GraphInv
<1> QED
  BY <1>1, GraphInvariant, PTL

-----------------------------------------------------------------------------
(***************************************************************************)
(* One Stage 6B admission, for every closure, every number of sessions and *)
(* every limit of age, skew and lifetime: a withdrawal stops the seals,    *)
(* and what is sealed was published as a whole at one moment.              *)
(*                                                                         *)
(* The parts of the invariant take the story and the provider's day as     *)
(* parameters, so that a lemma can relate a part before and after a step.  *)
(***************************************************************************)

-----------------------------------------------------------------------------
(* The invariant. *)

Events == [status : {"building", "published", "withdrawn"}, recorded : Times]

(* The events of a Release follow the course, at times that do not go back. *)
TaleOK(tale, day) ==
    /\ tale \in [Releases -> Seq(Events)]
    /\ \A r \in Releases :
         /\ Len(tale[r]) \in 1..3
         /\ \A i \in 1..Len(tale[r]) :
              /\ tale[r][i].status = Course[i]
              /\ tale[r][i].recorded <= day
              /\ \A k \in 1..i : tale[r][k].recorded <= tale[r][i].recorded

(* A Release was published by a time, and not withdrawn before it.         *)
TrueOf(r, at, tale, day) ==
    /\ at \in Times /\ at <= day
    /\ Len(tale[r]) >= 2
    /\ tale[r][2].recorded <= at
    /\ Len(tale[r]) = 3 => at <= tale[r][3].recorded

(* A reply that the checks let pass is true of its Release. *)
ReplyOK(r, reply, tale, day) ==
    /\ reply \in [head : 1..3, events : 1..3, at : Times]
    /\ reply.head <= Len(tale[r])
    /\ reply.head = reply.events /\ tale[r][reply.head].status = "published"
         => TrueOf(r, reply.at, tale, day)

EvidenceOK(evidence, tale, day) ==
    /\ DOMAIN evidence \subseteq Releases
    /\ evidence \in [DOMAIN evidence -> Evidence]
    /\ \A r \in DOMAIN evidence : TrueOf(r, evidence[r].snapshot, tale, day)

(* At this time every Release had been published; no evidence is older.    *)
Together(t, evidence, tale, day) ==
    /\ t \in Times /\ t <= day
    /\ \A r \in Releases : Len(tale[r]) >= 2 /\ tale[r][2].recorded <= t
    /\ \A r \in DOMAIN evidence : t <= evidence[r].snapshot

(* What may be sealed. *)
SealableOK(evidence, committed, tale, day) ==
    /\ DOMAIN evidence = Releases
    /\ EvidenceOK(evidence, tale, day)
    /\ committed \in Times
    /\ \A r \in Releases : Fresh(evidence[r].snapshot, committed)
    /\ \E t \in Times : Together(t, evidence, tale, day)

Fields == {"requested", "phase", "todo", "reply", "evidence",
           "confirmed", "observed", "created", "committed"}
Phases == {"bundle", "status", "observe", "manifest", "commit", "begin"}

(* The documents a session has written, by phase. *)
WrittenOK(j) ==
    /\ DOMAIN j = Fields
    /\ j.phase \in Phases
    /\ j.requested \in Times
    /\ j.todo \subseteq Releases
    /\ j.todo = {} => j.reply = None
    /\ j.phase \notin {"bundle", "status"} => j.todo = {} /\ j.confirmed \in Times
    /\ j.phase \in {"commit", "begin"} => j.created \in Times

(* The first pass found each Release published. *)
FirstPassOK(j, tale) ==
    j.phase = "bundle" =>
      /\ j.evidence = <<>>
      /\ \A r \in Releases : r \in j.todo \/ Len(tale[r]) >= 2

(* The second pass began when all of them had been. *)
SecondPassOK(j, tale, day) ==
    j.phase # "bundle" =>
      /\ DOMAIN j.evidence = Releases \ j.todo
      /\ \E t \in Times :
           /\ Together(t, j.evidence, tale, day)
           /\ j.phase = "status" /\ j.reply # None => t <= j.reply.at

AwaitedOK(j, tale, day) ==
    j.phase = "status" /\ j.reply # None =>
      j.todo # {} /\ ReplyOK(CHOOSE r \in j.todo : TRUE, j.reply, tale, day)

JobOK(j, tale, day) ==
    /\ WrittenOK(j)
    /\ EvidenceOK(j.evidence, tale, day)
    /\ FirstPassOK(j, tale)
    /\ SecondPassOK(j, tale, day)
    /\ AwaitedOK(j, tale, day)
    /\ j.phase = "begin" => SealableOK(j.evidence, j.committed, tale, day)

JobsOK == /\ job = [s \in Sessions |-> job[s]]
          /\ \A s \in Sessions : job[s] # None => JobOK(job[s], story, today)

BookOK == /\ book \in Seq(Envelopes)
          /\ \A i \in DOMAIN book : SealableOK(book[i].evidence, book[i].committed, story, today)

AdmissionInv ==
    /\ today \in Times /\ now \in Times
    /\ TaleOK(story, today)
    /\ JobsOK
    /\ BookOK

-----------------------------------------------------------------------------
(* The story only goes on. *)

Grows(tale, day, tale2, day2) ==
    /\ day <= day2
    /\ \A r \in Releases :
         /\ Len(tale[r]) <= Len(tale2[r])
         /\ \A i \in 1..Len(tale[r]) : tale2[r][i] = tale[r][i]
         /\ Len(tale[r]) < 3 /\ Len(tale2[r]) = 3 => tale2[r][3].recorded >= day

LEMMA TrueStaysTrue ==
    ASSUME NEW tale, NEW day \in Times, NEW tale2, NEW day2 \in Times,
           TaleOK(tale, day), TaleOK(tale2, day2), Grows(tale, day, tale2, day2),
           NEW r \in Releases, NEW at, TrueOf(r, at, tale, day)
    PROVE  TrueOf(r, at, tale2, day2)
<1>1. tale[r] \in Seq(Events) /\ tale2[r] \in Seq(Events)
  BY DEF TaleOK
<1>2. /\ Len(tale[r]) \in 1..3 /\ Len(tale2[r]) \in 1..3
      /\ Len(tale[r]) <= Len(tale2[r])
      /\ \A i \in 1..Len(tale[r]) : tale2[r][i] = tale[r][i]
      /\ Len(tale[r]) < 3 /\ Len(tale2[r]) = 3 => tale2[r][3].recorded >= day
  BY DEF TaleOK, Grows
<1>3. at \in Nat /\ day \in Nat /\ day2 \in Nat /\ day <= day2 /\ at <= day
  BY ClockAssumption DEF TrueOf, Grows
<1>4. Len(tale2[r]) = 3 => tale2[r][3].recorded \in Nat
  <2>1. Len(tale2[r]) = 3 => tale2[r][3] \in Events
    BY <1>1, ElementOfSeq
  <2> QED
    BY <2>1, ClockAssumption DEF Events
<1>5. Len(tale2[r]) = 3 => at <= tale2[r][3].recorded
  <2>1. CASE Len(tale[r]) = 3
    BY <1>1, <1>2, <2>1 DEF TrueOf
  <2>2. ASSUME Len(tale[r]) < 3, Len(tale2[r]) = 3
        PROVE  at <= tale2[r][3].recorded
    BY <1>1, <1>2, <1>3, <1>4, <2>2
  <2> QED
    BY <1>1, <1>2, <2>1, <2>2
<1>6. Len(tale2[r]) >= 2 /\ tale2[r][2] = tale[r][2] /\ at <= day2
  BY <1>1, <1>2, <1>3 DEF TrueOf
<1> QED
  BY <1>5, <1>6 DEF TrueOf

LEMMA JobStaysOK ==
    ASSUME NEW tale, NEW day \in Times, NEW tale2, NEW day2 \in Times,
           TaleOK(tale, day), TaleOK(tale2, day2), Grows(tale, day, tale2, day2)
    PROVE  /\ \A evidence : EvidenceOK(evidence, tale, day) => EvidenceOK(evidence, tale2, day2)
           /\ \A t, evidence : Together(t, evidence, tale, day) => Together(t, evidence, tale2, day2)
           /\ \A evidence, at : SealableOK(evidence, at, tale, day) => SealableOK(evidence, at, tale2, day2)
           /\ \A j : JobOK(j, tale, day) => JobOK(j, tale2, day2)
<1>1. ASSUME NEW evidence, EvidenceOK(evidence, tale, day)
      PROVE  EvidenceOK(evidence, tale2, day2)
  BY <1>1, TrueStaysTrue DEF EvidenceOK
<1>2. ASSUME NEW r \in Releases, Len(tale[r]) >= 2
      PROVE  Len(tale2[r]) >= 2 /\ tale2[r][2] = tale[r][2]
  <2>1. tale[r] \in Seq(Events) /\ tale2[r] \in Seq(Events)
    BY DEF TaleOK
  <2> QED
    BY <1>2, <2>1 DEF Grows
<1>3. ASSUME NEW t, NEW evidence, Together(t, evidence, tale, day)
      PROVE  Together(t, evidence, tale2, day2)
  <2>1. t \in Nat /\ day \in Nat /\ day2 \in Nat /\ t <= day /\ day <= day2
    BY <1>3, ClockAssumption DEF Together, Grows
  <2> QED
    BY <1>2, <1>3, <2>1 DEF Together
<1>4. ASSUME NEW evidence, NEW at, SealableOK(evidence, at, tale, day)
      PROVE  SealableOK(evidence, at, tale2, day2)
  BY <1>1, <1>3, <1>4 DEF SealableOK
<1>5. ASSUME NEW r \in Releases, NEW reply, ReplyOK(r, reply, tale, day)
      PROVE  ReplyOK(r, reply, tale2, day2)
  <2>0. tale[r] \in Seq(Events) /\ tale2[r] \in Seq(Events)
    BY DEF TaleOK
  <2>1. /\ reply.head \in 1..Len(tale[r])
        /\ Len(tale[r]) \in Nat /\ Len(tale2[r]) \in Nat
        /\ tale2[r][reply.head] = tale[r][reply.head] /\ Len(tale[r]) <= Len(tale2[r])
    BY <1>5, <2>0 DEF ReplyOK, Grows
  <2>2. TrueOf(r, reply.at, tale, day) => TrueOf(r, reply.at, tale2, day2)
    BY TrueStaysTrue
  <2> QED
    BY <1>5, <2>1, <2>2 DEF ReplyOK
<1>6. ASSUME NEW j, JobOK(j, tale, day)
      PROVE  JobOK(j, tale2, day2)
  <2>1. FirstPassOK(j, tale2)
    BY <1>2, <1>6 DEF JobOK, FirstPassOK
  <2>2. SecondPassOK(j, tale2, day2)
    BY <1>3, <1>6 DEF JobOK, SecondPassOK
  <2>3. AwaitedOK(j, tale2, day2)
    BY <1>5, <1>6 DEF JobOK, AwaitedOK, WrittenOK
  <2> QED
    BY <1>1, <1>4, <1>6, <2>1, <2>2, <2>3 DEF JobOK
<1> QED
  BY <1>1, <1>3, <1>4, <1>6

(* What a step of the provider leaves of the invariant. *)
LEMMA GrownInv ==
    AdmissionInv /\ TaleOK(story', today') /\ today' \in Times /\ now' \in Times
      /\ Grows(story, today, story', today') /\ UNCHANGED <<job, book>>
    => AdmissionInv'
<1> SUFFICES ASSUME AdmissionInv, TaleOK(story', today'), today' \in Times, now' \in Times,
                    Grows(story, today, story', today'), UNCHANGED <<job, book>>
             PROVE  AdmissionInv'
  OBVIOUS
<1>1. today \in Times /\ TaleOK(story, today)
  BY DEF AdmissionInv
<1>2. JobsOK'
  BY <1>1, JobStaysOK DEF AdmissionInv, JobsOK
<1>3. BookOK'
  BY <1>1, JobStaysOK DEF AdmissionInv, BookOK
<1> QED
  BY <1>2, <1>3 DEF AdmissionInv

(* The provider's next event extends the story of one Release. *)
LEMMA AdvanceInv ==
    ASSUME AdmissionInv, NEW r \in Releases, Advance(r)
    PROVE  AdmissionInv'
<1> DEFINE event == Event(Len(story[r]) + 1, today)
<1>1. /\ today \in Times /\ now \in Times /\ today \in Nat
      /\ TaleOK(story, today) /\ story \in [Releases -> Seq(Events)]
      /\ \A x \in Releases : story[x] \in Seq(Events)
  BY ClockAssumption DEF AdmissionInv, TaleOK
<1>2. story' = [story EXCEPT ![r] = Append(@, event)] /\ UNCHANGED <<today, now, job, book>>
  BY DEF Advance
<1>0. story[r] \in Seq(Events)
  BY <1>1
<1>3. Len(story[r]) \in {1, 2}
  BY <1>0, <1>1 DEF Advance, TaleOK, Course
<1>4. event \in Events /\ event.status = Course[Len(story[r]) + 1] /\ event.recorded = today
  <2>1. Course[Len(story[r]) + 1] \in {"published", "withdrawn"}
    <3>1. CASE Len(story[r]) = 1
      BY <3>1 DEF Course
    <3>2. CASE Len(story[r]) = 2
      BY <3>2 DEF Course
    <3> QED
      BY <1>3, <3>1, <3>2
  <2> QED
    BY <1>1, <2>1 DEF Event, Events
<1> HIDE DEF event
<1>5. \A x \in Releases : story'[x] = IF x = r THEN Append(story[r], event) ELSE story[x]
  BY <1>1, <1>2
<1>6. /\ Append(story[r], event) \in Seq(Events)
      /\ Len(Append(story[r], event)) = Len(story[r]) + 1
      /\ \A i \in 1..Len(story[r]) : Append(story[r], event)[i] = story[r][i]
      /\ Append(story[r], event)[Len(story[r]) + 1] = event
  BY <1>1, <1>4
<1>7. story' \in [Releases -> Seq(Events)]
  BY <1>1, <1>2, <1>6
<1>8. ASSUME NEW x \in Releases
      PROVE  /\ Len(story'[x]) \in 1..3
             /\ \A i \in 1..Len(story'[x]) :
                  /\ story'[x][i].status = Course[i]
                  /\ story'[x][i].recorded <= today'
                  /\ \A k \in 1..i : story'[x][k].recorded <= story'[x][i].recorded
  <2>1. CASE x # r
    BY <1>1, <1>2, <1>5, <2>1 DEF TaleOK
  <2>2. CASE x = r
    <3>1. Len(story'[r]) = Len(story[r]) + 1 /\ story'[r] \in Seq(Events)
      BY <1>5, <1>6
    <3>2. ASSUME NEW i \in 1..Len(story[r])
          PROVE  /\ story'[r][i].status = Course[i]
                 /\ story'[r][i].recorded <= today'
                 /\ \A k \in 1..i : story'[r][k].recorded <= story'[r][i].recorded
      <4>1. \A k \in 1..i : story'[r][k] = story[r][k]
        <5>1. \A k \in 1..i : k \in 1..Len(story[r])
          BY <1>0
        <5> QED
          BY <1>5, <1>6, <5>1
      <4>2. /\ story[r][i].status = Course[i] /\ story[r][i].recorded <= today
            /\ \A k \in 1..i : story[r][k].recorded <= story[r][i].recorded
        BY <1>1 DEF TaleOK
      <4> QED
        BY <1>2, <4>1, <4>2
    <3>3. /\ story'[r][Len(story[r]) + 1] = event
          /\ \A k \in 1..Len(story[r]) : story'[r][k] = story[r][k] /\ story[r][k].recorded <= today
      BY <1>1, <1>5, <1>6 DEF TaleOK
    <3>4. \A k \in 1..(Len(story[r]) + 1) : story'[r][k].recorded <= event.recorded
      BY <1>1, <1>3, <1>4, <3>3
    <3>5. ASSUME NEW i \in 1..Len(story'[r])
          PROVE  /\ story'[r][i].status = Course[i]
                 /\ story'[r][i].recorded <= today'
                 /\ \A k \in 1..i : story'[r][k].recorded <= story'[r][i].recorded
      <4>1. i \in 1..Len(story[r]) \/ i = Len(story[r]) + 1
        BY <1>3, <3>1
      <4>2. CASE i = Len(story[r]) + 1
        BY <1>1, <1>2, <1>3, <1>4, <3>3, <3>4, <4>2
      <4> QED
        BY <3>2, <4>1, <4>2
    <3>6. Len(story'[r]) \in 1..3
      <4>1. CASE Len(story[r]) = 1
        BY <3>1, <4>1
      <4>2. CASE Len(story[r]) = 2
        BY <3>1, <4>2
      <4> QED
        BY <1>3, <4>1, <4>2
    <3> QED
      BY <2>2, <3>5, <3>6
  <2> QED
    BY <2>1, <2>2
<1>9. TaleOK(story', today')
  BY <1>7, <1>8 DEF TaleOK
<1>10. Grows(story, today, story', today')
  <2>1. ASSUME NEW x \in Releases
        PROVE  /\ Len(story[x]) <= Len(story'[x])
               /\ \A i \in 1..Len(story[x]) : story'[x][i] = story[x][i]
               /\ Len(story[x]) < 3 /\ Len(story'[x]) = 3 => story'[x][3].recorded >= today
    <3>1. CASE x # r
      BY <1>1, <1>5, <3>1
    <3>2. CASE x = r
      <4>1. Len(story[x]) <= Len(story'[x])
        <5>1. story'[r] = Append(story[r], event)
          BY <1>5
        <5>2. Len(story[r]) <= Len(story[r]) + 1
          BY <1>0
        <5> QED
          BY <1>6, <3>2, <5>1, <5>2
      <4>2. \A i \in 1..Len(story[x]) : story'[x][i] = story[x][i]
        BY <1>5, <1>6, <3>2
      <4>3. Len(story'[x]) = 3 => story'[x][3] = event
        BY <1>3, <1>5, <1>6, <3>2
      <4> QED
        BY <1>1, <1>4, <4>1, <4>2, <4>3
    <3> QED
      BY <3>1, <3>2
  <2> QED
    BY <1>1, <1>2, <2>1 DEF Grows
<1> QED
  BY <1>1, <1>2, <1>9, <1>10, GrownInv

LEMMA ClocksInv ==
    ASSUME AdmissionInv, Tick \/ SetClock
    PROVE  AdmissionInv'
<1>1. /\ today \in Times /\ now \in Times /\ TaleOK(story, today)
      /\ \A x \in Releases : story[x] \in Seq(Events)
  BY DEF AdmissionInv, TaleOK
<1>2. /\ UNCHANGED <<story, job, book>> /\ today' \in Times /\ now' \in Times
      /\ today' = today \/ today' = today + 1
  BY <1>1 DEF Tick, SetClock
<1>3. today \in Nat /\ today' \in Nat /\ today <= today'
  BY <1>1, <1>2, ClockAssumption
<1>4. TaleOK(story', today')
  <2>1. ASSUME NEW r \in Releases, NEW i \in 1..Len(story[r])
        PROVE  story[r][i].recorded <= today'
    <3>1. story[r][i].recorded <= today
      BY <1>1 DEF TaleOK
    <3>2. story[r][i].recorded \in Nat
      <4>1. story[r] \in Seq(Events)
        BY <1>1
      <4>2. story[r][i] \in Events
        BY <4>1, ElementOfSeq
      <4> QED
        BY <4>2, ClockAssumption DEF Events
    <3> QED
      BY <1>3, <3>1, <3>2
  <2> QED
    BY <1>1, <1>2, <2>1 DEF TaleOK
<1>5. Grows(story, today, story', today')
  BY <1>1, <1>2, <1>3 DEF Grows
<1> QED
  BY <1>2, <1>4, <1>5, GrownInv

(* A session's own step changes its record only. *)
LEMMA KeepsInv ==
    ASSUME AdmissionInv, NEW s \in Sessions, NEW j, j = None \/ JobOK(j, story, today), Keeps(s, j)
    PROVE  AdmissionInv'
<1>1. UNCHANGED <<today, now, story, book>> /\ job' = [job EXCEPT ![s] = j]
  BY DEF Keeps
<1>2. JobsOK'
  <2>1. \A x \in Sessions : job'[x] = IF x = s THEN j ELSE job[x]
    BY <1>1 DEF AdmissionInv, JobsOK
  <2>2. job' = [x \in Sessions |-> job'[x]]
    BY <1>1 DEF AdmissionInv, JobsOK
  <2>3. \A x \in Sessions : job'[x] # None => JobOK(job'[x], story, today)
    BY <2>1 DEF AdmissionInv, JobsOK
  <2> QED
    BY <1>1, <2>2, <2>3 DEF JobsOK
<1> QED
  BY <1>1, <1>2 DEF AdmissionInv, BookOK

LEMMA PrepareInv ==
    ASSUME AdmissionInv, NEW s \in Sessions, NEW t \in Times, Prepare(s, t)
    PROVE  AdmissionInv'
<1> DEFINE j == Begun(t)
<1>1. Keeps(s, j)
  BY DEF Prepare, Keeps
<1>2. WrittenOK(j)
  BY DEF Begun, WrittenOK, Fields, Phases
<1>3. j.evidence = <<>> /\ j.phase = "bundle" /\ j.todo = Releases
  BY DEF Begun
<1> HIDE DEF j
<1>4. DOMAIN j.evidence = {} /\ j.evidence \in [{} -> Evidence]
  BY <1>3
<1>5. JobOK(j, story, today)
  BY <1>2, <1>3, <1>4 DEF JobOK, EvidenceOK, FirstPassOK, SecondPassOK, AwaitedOK
<1> QED
  BY <1>1, <1>5, KeepsInv

(* What AdmissionInv says of a busy session, and of the Release whose turn it is. *)
LEMMA BusySession ==
    ASSUME AdmissionInv, NEW s \in Sessions, job[s] # None
    PROVE  /\ JobOK(job[s], story, today) /\ WrittenOK(job[s])
           /\ today \in Nat /\ now \in Nat /\ today \in Times /\ now \in Times
           /\ \A r \in Releases : story[r] \in Seq(Events) /\ Len(story[r]) \in 1..3
           /\ job[s].todo # {} => Turn(s) \in job[s].todo /\ Turn(s) \in Releases
<1>1. JobOK(job[s], story, today) /\ WrittenOK(job[s])
  BY DEF AdmissionInv, JobsOK, JobOK
<1>2. job[s].todo # {} => Turn(s) \in job[s].todo
  BY DEF Turn
<1> QED
  BY <1>1, <1>2, ClockAssumption DEF AdmissionInv, TaleOK, WrittenOK

(* Only the second event of a Release says that it is published. *)
LEMMA OnlySecondPublished ==
    ASSUME AdmissionInv, NEW r \in Releases, NEW i \in 1..Len(story[r]),
           story[r][i].status = "published"
    PROVE  i = 2 /\ Len(story[r]) >= 2
<1>1. Len(story[r]) \in 1..3 /\ story[r] \in Seq(Events) /\ story[r][i].status = Course[i]
  BY DEF AdmissionInv, TaleOK
<1>2. i = 1 \/ i = 2 \/ i = 3
  BY <1>1
<1>3. Course[1] = "building" /\ Course[3] = "withdrawn"
  BY DEF Course
<1>4. i = 2
  BY <1>1, <1>2, <1>3
<1> QED
  BY <1>1, <1>4

-----------------------------------------------------------------------------
(* The steps of a session, in their order. *)

LEMMA ReadReleaseInv ==
    ASSUME AdmissionInv, NEW s \in Sessions, ReadRelease(s)
    PROVE  AdmissionInv'
<1> DEFINE k == job[s]
           j == [k EXCEPT !.reply = Len(story[Turn(s)])]
<1>1. JobOK(k, story, today) /\ WrittenOK(k) /\ k.phase = "bundle" /\ k.todo # {} /\ Keeps(s, j)
  BY BusySession DEF ReadRelease, In
<1>2. /\ DOMAIN j = DOMAIN k
      /\ j.phase = k.phase /\ j.todo = k.todo /\ j.evidence = k.evidence /\ j.requested = k.requested
  BY <1>1 DEF WrittenOK, Fields
<1> HIDE DEF j, k
<1>3. JobOK(j, story, today)
  BY <1>1, <1>2 DEF JobOK, WrittenOK, FirstPassOK, SecondPassOK, AwaitedOK
<1> QED
  BY <1>1, <1>3, KeepsInv

LEMMA ReadBundleStatusInv ==
    ASSUME AdmissionInv, NEW s \in Sessions, ReadBundleStatus(s)
    PROVE  AdmissionInv'
<1> DEFINE k == job[s]
           r == Turn(s)
           j == [k EXCEPT !.todo = @ \ {r}, !.reply = None]
<1>1. /\ JobOK(k, story, today) /\ WrittenOK(k) /\ k.phase = "bundle" /\ Keeps(s, j)
      /\ r \in Releases /\ story[r] \in Seq(Events) /\ Len(story[r]) \in 1..3
  BY BusySession DEF ReadBundleStatus, In
<1>2. Len(story[r]) >= 2
  <2>1. PICK reply \in Histories(r) : BundleMatches(r, k.reply, reply)
    BY DEF ReadBundleStatus
  <2>2. reply.head \in 1..Len(story[r]) /\ story[r][reply.head].status = "published"
    BY <2>1 DEF Histories, BundleMatches, Published
  <2> QED
    BY <1>1, <2>2, OnlySecondPublished
<1>3. /\ DOMAIN j = DOMAIN k
      /\ j.phase = k.phase /\ j.todo = k.todo \ {r} /\ j.evidence = k.evidence
      /\ j.requested = k.requested /\ j.reply = None
  BY <1>1 DEF WrittenOK, Fields
<1> HIDE DEF j, k, r
<1>4. FirstPassOK(j, story)
  BY <1>1, <1>2, <1>3 DEF JobOK, FirstPassOK
<1>5. JobOK(j, story, today)
  BY <1>1, <1>3, <1>4 DEF JobOK, WrittenOK, SecondPassOK, AwaitedOK
<1> QED
  BY <1>1, <1>5, KeepsInv

(* The first pass is over: now is a moment after every publication. *)
LEMMA OpenWindowInv ==
    ASSUME AdmissionInv, NEW s \in Sessions, OpenWindow(s)
    PROVE  AdmissionInv'
<1> DEFINE k == job[s]
           j == [k EXCEPT !.phase = "status", !.todo = Releases]
<1>1. /\ JobOK(k, story, today) /\ WrittenOK(k) /\ k.phase = "bundle" /\ k.todo = {} /\ Keeps(s, j)
      /\ today \in Times /\ today \in Nat
  BY BusySession DEF OpenWindow, In
<1>2. /\ DOMAIN j = DOMAIN k
      /\ j.phase = "status" /\ j.todo = Releases /\ j.evidence = k.evidence
      /\ j.requested = k.requested /\ j.reply = k.reply
  BY <1>1 DEF WrittenOK, Fields
<1>3. ASSUME NEW r \in Releases
      PROVE  Len(story[r]) >= 2 /\ story[r][2].recorded <= today
  <2>1. Len(story[r]) >= 2 /\ story[r] \in Seq(Events)
    BY <1>1, BusySession DEF JobOK, FirstPassOK, AdmissionInv, TaleOK
  <2>2. 2 \in 1..Len(story[r])
    BY <2>1
  <2> QED
    BY <2>1, <2>2 DEF AdmissionInv, TaleOK
<1> HIDE DEF j, k
<1>4. DOMAIN j.evidence = {} /\ j.reply = None
  BY <1>1, <1>2 DEF JobOK, FirstPassOK, WrittenOK
<1>5. Together(today, j.evidence, story, today)
  BY <1>1, <1>3, <1>4 DEF Together
<1>6. SecondPassOK(j, story, today)
  BY <1>1, <1>2, <1>4, <1>5 DEF SecondPassOK
<1>7. WrittenOK(j)
  BY <1>1, <1>2, <1>4 DEF WrittenOK, Phases
<1>8. JobOK(j, story, today)
  BY <1>1, <1>2, <1>4, <1>6, <1>7 DEF JobOK, FirstPassOK, AwaitedOK
<1> QED
  BY <1>1, <1>8, KeepsInv

LEMMA HistoryShape ==
    ASSUME AdmissionInv, NEW r \in Releases, NEW reply \in Histories(r)
    PROVE  /\ reply \in [head : 1..3, events : 1..3, at : Times]
           /\ reply.head \in 1..Len(story[r]) /\ reply.at = today
<1>1. PICK h \in 1..Len(story[r]), n \in 1..Len(story[r]) :
             reply = [head |-> h, events |-> n, at |-> today]
  BY DEF Histories
<1>2. story[r] \in Seq(Events) /\ Len(story[r]) \in 1..3 /\ today \in Times
  BY DEF AdmissionInv, TaleOK
<1>3. \A m \in 1..Len(story[r]) : m \in 1..3
  <2>1. ASSUME NEW length \in 1..3, NEW m \in 1..length PROVE m \in 1..3
    OBVIOUS
  <2> QED
    BY <1>2, <2>1
<1> QED
  BY <1>1, <1>2, <1>3

(* A reply is asked for no earlier than that moment. *)
LEMMA AskStatusInv ==
    ASSUME AdmissionInv, NEW s \in Sessions, AskStatus(s)
    PROVE  AdmissionInv'
<1> DEFINE k == job[s]
           r == Turn(s)
<1>1. /\ JobOK(k, story, today) /\ WrittenOK(k) /\ k.phase = "status" /\ k.todo # {} /\ k.reply = None
      /\ r \in Releases /\ story[r] \in Seq(Events) /\ Len(story[r]) \in 1..3
      /\ today \in Times /\ today \in Nat
  BY BusySession DEF AskStatus, In
<1>2. PICK reply \in Histories(r) : Current(r, reply) /\ Keeps(s, [k EXCEPT !.reply = reply])
  BY DEF AskStatus
<1> DEFINE j == [k EXCEPT !.reply = reply]
<1>3. /\ DOMAIN j = DOMAIN k
      /\ j.phase = "status" /\ j.todo = k.todo /\ j.evidence = k.evidence
      /\ j.requested = k.requested /\ j.reply = reply
  BY <1>1 DEF WrittenOK, Fields
<1>4. /\ reply \in [head : 1..3, events : 1..3, at : Times]
      /\ reply.head \in 1..Len(story[r]) /\ reply.at = today
  BY <1>1, <1>2, HistoryShape
<1>5. ReplyOK(r, reply, story, today)
  <2> SUFFICES ASSUME reply.head = reply.events, story[r][reply.head].status = "published"
               PROVE  TrueOf(r, today, story, today)
    BY <1>1, <1>4 DEF ReplyOK
  <2>1. reply.head = 2 /\ Len(story[r]) = 2
    <3>1. reply.head = 2
      BY <1>1, <1>4, OnlySecondPublished
    <3> QED
      BY <1>2, <3>1 DEF Current
  <2>2. 2 \in 1..Len(story[r])
    BY <1>1, <2>1
  <2>3. story[r][2].recorded <= today
    BY <1>1, <2>2 DEF AdmissionInv, TaleOK
  <2> QED
    BY <1>1, <2>1, <2>3 DEF TrueOf
<1>6. r = CHOOSE x \in k.todo : TRUE
  BY DEF Turn
<1> HIDE DEF j, k, r
<1>7. AwaitedOK(j, story, today)
  BY <1>1, <1>3, <1>5, <1>6 DEF AwaitedOK
<1>8. SecondPassOK(j, story, today)
  BY <1>1, <1>3, <1>4 DEF JobOK, SecondPassOK, Together
<1>9. WrittenOK(j)
  BY <1>1, <1>3 DEF WrittenOK
<1>10. JobOK(j, story, today)
  BY <1>1, <1>3, <1>7, <1>8, <1>9 DEF JobOK, FirstPassOK
<1>11. Keeps(s, j)
  BY <1>2 DEF j, k
<1> QED
  BY <1>10, <1>11, KeepsInv

(* What a reply proves goes into the evidence, and is no older than that moment. *)
LEMMA ReceiveStatusInv ==
    ASSUME AdmissionInv, NEW s \in Sessions, ReceiveStatus(s)
    PROVE  AdmissionInv'
<1> DEFINE k == job[s]
           r == Turn(s)
           item == [snapshot |-> k.reply.at, checked |-> now]
           evidence == [x \in (DOMAIN k.evidence) \cup {r} |-> IF x = r THEN item ELSE k.evidence[x]]
           j == [k EXCEPT !.todo = @ \ {r}, !.reply = None, !.evidence = evidence]
<1>1. /\ JobOK(k, story, today) /\ WrittenOK(k) /\ k.phase = "status" /\ k.todo # {} /\ k.reply # None
      /\ r \in Releases /\ r \in k.todo /\ now \in Times
  BY BusySession DEF ReceiveStatus, In
<1>2. Keeps(s, j) /\ HistoryVerifies(k.reply) /\ Published(r, k.reply)
  BY DEF ReceiveStatus
<1>3. /\ DOMAIN j = DOMAIN k
      /\ j.phase = "status" /\ j.todo = k.todo \ {r} /\ j.evidence = evidence
      /\ j.requested = k.requested /\ j.reply = None
  BY <1>1 DEF WrittenOK, Fields
<1>4. ReplyOK(r, k.reply, story, today)
  BY <1>1 DEF JobOK, AwaitedOK, Turn
<1>5. TrueOf(r, k.reply.at, story, today) /\ item \in Evidence /\ item.snapshot = k.reply.at
  BY <1>1, <1>2, <1>4 DEF ReplyOK, HistoryVerifies, Published, Evidence
<1>6. /\ DOMAIN evidence = (DOMAIN k.evidence) \cup {r}
      /\ \A x \in DOMAIN evidence : evidence[x] = IF x = r THEN item ELSE k.evidence[x]
      /\ evidence \in [DOMAIN evidence -> {evidence[x] : x \in DOMAIN evidence}]
  OBVIOUS
<1> HIDE DEF j, k, r, item, evidence
<1>7. EvidenceOK(evidence, story, today)
  <2>1. EvidenceOK(k.evidence, story, today)
    BY <1>1 DEF JobOK
  <2>2. \A x \in DOMAIN evidence : evidence[x] \in Evidence
    BY <1>5, <1>6, <2>1 DEF EvidenceOK
  <2>3. evidence \in [DOMAIN evidence -> Evidence]
    BY <1>6, <2>2
  <2> QED
    BY <1>1, <1>5, <1>6, <2>1, <2>3 DEF EvidenceOK
<1>8. SecondPassOK(j, story, today)
  <2>1. PICK t \in Times : Together(t, k.evidence, story, today) /\ t <= k.reply.at
    BY <1>1 DEF JobOK, SecondPassOK
  <2>2. Together(t, evidence, story, today)
    BY <1>5, <1>6, <2>1 DEF Together
  <2>3. DOMAIN k.evidence = Releases \ k.todo
    BY <1>1 DEF JobOK, SecondPassOK
  <2> QED
    BY <1>1, <1>3, <1>6, <2>2, <2>3 DEF SecondPassOK
<1>9. WrittenOK(j)
  BY <1>1, <1>3 DEF WrittenOK
<1>10. JobOK(j, story, today)
  BY <1>3, <1>7, <1>8, <1>9 DEF JobOK, FirstPassOK, AwaitedOK
<1> QED
  BY <1>2, <1>10, KeepsInv

(* The status pass is over; what follows only adds times. *)
LEMMA ConfirmInv ==
    ASSUME AdmissionInv, NEW s \in Sessions, Confirm(s)
    PROVE  AdmissionInv'
<1> DEFINE k == job[s]
           j == [k EXCEPT !.phase = "observe", !.confirmed = now]
<1>1. /\ JobOK(k, story, today) /\ WrittenOK(k) /\ k.phase = "status" /\ k.todo = {}
      /\ now \in Times /\ Keeps(s, j)
  BY BusySession DEF Confirm, In
<1>2. /\ DOMAIN j = DOMAIN k
      /\ j.phase = "observe" /\ j.todo = k.todo /\ j.evidence = k.evidence
      /\ j.requested = k.requested /\ j.reply = k.reply /\ j.confirmed = now
  BY <1>1 DEF WrittenOK, Fields
<1> HIDE DEF j, k
<1>3. WrittenOK(j)
  BY <1>1, <1>2 DEF WrittenOK, Phases
<1>4. JobOK(j, story, today)
  BY <1>1, <1>2, <1>3 DEF JobOK, FirstPassOK, SecondPassOK, AwaitedOK
<1> QED
  BY <1>1, <1>4, KeepsInv

LEMMA ObserveAdmissionInv ==
    ASSUME AdmissionInv, NEW s \in Sessions, ObserveAdmission(s)
    PROVE  AdmissionInv'
<1> DEFINE k == job[s]
           j == [k EXCEPT !.phase = "manifest", !.observed = now]
<1>1. /\ JobOK(k, story, today) /\ WrittenOK(k) /\ k.phase = "observe" /\ Keeps(s, j)
  BY BusySession DEF ObserveAdmission, In
<1>2. /\ DOMAIN j = DOMAIN k
      /\ j.phase = "manifest" /\ j.todo = k.todo /\ j.evidence = k.evidence
      /\ j.requested = k.requested /\ j.reply = k.reply /\ j.confirmed = k.confirmed
  BY <1>1 DEF WrittenOK, Fields
<1> HIDE DEF j, k
<1>3. WrittenOK(j)
  BY <1>1, <1>2 DEF WrittenOK, Phases
<1>4. JobOK(j, story, today)
  BY <1>1, <1>2, <1>3 DEF JobOK, FirstPassOK, SecondPassOK, AwaitedOK
<1> QED
  BY <1>1, <1>4, KeepsInv

LEMMA BuildEnvelopeInv ==
    ASSUME AdmissionInv, NEW s \in Sessions, BuildEnvelope(s)
    PROVE  AdmissionInv'
<1> DEFINE k == job[s]
           j == [k EXCEPT !.phase = "commit", !.created = now]
<1>1. /\ JobOK(k, story, today) /\ WrittenOK(k) /\ k.phase = "manifest" /\ Keeps(s, j)
      /\ now \in Times
  BY BusySession DEF BuildEnvelope, In
<1>2. /\ DOMAIN j = DOMAIN k
      /\ j.phase = "commit" /\ j.todo = k.todo /\ j.evidence = k.evidence
      /\ j.requested = k.requested /\ j.reply = k.reply /\ j.confirmed = k.confirmed
      /\ j.created = now
  BY <1>1 DEF WrittenOK, Fields
<1> HIDE DEF j, k
<1>3. WrittenOK(j)
  BY <1>1, <1>2 DEF WrittenOK, Phases
<1>4. JobOK(j, story, today)
  BY <1>1, <1>2, <1>3 DEF JobOK, FirstPassOK, SecondPassOK, AwaitedOK
<1> QED
  BY <1>1, <1>4, KeepsInv

(* The commit time is judged against every snapshot. *)
LEMMA JudgeTimeInv ==
    ASSUME AdmissionInv, NEW s \in Sessions, JudgeTime(s)
    PROVE  AdmissionInv'
<1> DEFINE k == job[s]
           j == [k EXCEPT !.phase = "begin", !.committed = now]
<1>1. /\ JobOK(k, story, today) /\ WrittenOK(k) /\ k.phase = "commit" /\ Keeps(s, j)
      /\ now \in Times
  BY BusySession DEF JudgeTime, In
<1>2. /\ DOMAIN j = DOMAIN k
      /\ j.phase = "begin" /\ j.todo = k.todo /\ j.evidence = k.evidence
      /\ j.requested = k.requested /\ j.reply = k.reply /\ j.confirmed = k.confirmed
      /\ j.created = k.created /\ j.committed = now
  BY <1>1 DEF WrittenOK, Fields
<1>3. \A r \in Releases : Fresh(k.evidence[r].snapshot, now)
  BY DEF JudgeTime, Consumable
<1> HIDE DEF j, k
<1>4. WrittenOK(j)
  BY <1>1, <1>2 DEF WrittenOK, Phases
<1>5. DOMAIN k.evidence = Releases
  BY <1>1 DEF JobOK, SecondPassOK, WrittenOK
<1>6. \E t \in Times : Together(t, k.evidence, story, today)
  BY <1>1 DEF JobOK, SecondPassOK
<1>7. SealableOK(k.evidence, now, story, today)
  BY <1>1, <1>3, <1>5, <1>6 DEF SealableOK, JobOK
<1>8. JobOK(j, story, today)
  BY <1>1, <1>2, <1>4, <1>7 DEF JobOK, FirstPassOK, SecondPassOK, AwaitedOK
<1> QED
  BY <1>1, <1>8, KeepsInv

LEMMA SealRunInv ==
    ASSUME AdmissionInv, NEW s \in Sessions, SealRun(s)
    PROVE  AdmissionInv'
<1> DEFINE k == job[s]
           e == Envelope(k)
<1>1. /\ JobOK(k, story, today) /\ WrittenOK(k) /\ k.phase = "begin"
      /\ SealableOK(k.evidence, k.committed, story, today)
  BY BusySession DEF SealRun, In, JobOK
<1>2. /\ book' = Append(book, e) /\ job' = [job EXCEPT ![s] = None]
      /\ UNCHANGED <<today, now, story>>
  BY DEF SealRun, Seals!Admit
<1>3. e.evidence = k.evidence /\ e.committed = k.committed
  BY DEF Envelope
<1>4. e \in Envelopes
  <2>1. k.evidence \in [Releases -> Evidence]
    BY <1>1 DEF SealableOK, EvidenceOK
  <2>2. k.requested \in Times /\ k.confirmed \in Times /\ k.created \in Times /\ k.committed \in Times
    BY <1>1 DEF WrittenOK, SealableOK
  <2> HIDE DEF k
  <2> QED
    BY <2>1, <2>2 DEF Envelope, Envelopes
<1> HIDE DEF e, k
<1>5. book \in Seq(Envelopes) /\ book' \in Seq(Envelopes)
  BY <1>2, <1>4 DEF AdmissionInv, BookOK
<1>6. ASSUME NEW i \in DOMAIN book'
      PROVE  SealableOK(book'[i].evidence, book'[i].committed, story, today)
  <2>1. (i \in DOMAIN book /\ book'[i] = book[i]) \/ book'[i] = e
    BY <1>2, <1>4, <1>5
  <2> QED
    BY <1>1, <1>3, <2>1 DEF AdmissionInv, BookOK
<1>7. BookOK'
  BY <1>2, <1>5, <1>6 DEF BookOK
<1>8. JobsOK'
  <2>1. /\ job' = [x \in Sessions |-> job'[x]]
        /\ \A x \in Sessions : job'[x] = IF x = s THEN None ELSE job[x]
    BY <1>2 DEF AdmissionInv, JobsOK
  <2> QED
    BY <1>2, <2>1 DEF AdmissionInv, JobsOK
<1> QED
  BY <1>2, <1>7, <1>8 DEF AdmissionInv

-----------------------------------------------------------------------------
(* The theorems. *)

LEMMA AdmissionInit_Inv == AdmissionInit => AdmissionInv
<1> SUFFICES ASSUME AdmissionInit PROVE AdmissionInv
  OBVIOUS
<1>1. today = 0 /\ 0 \in Times /\ today \in Times /\ now \in Times /\ book = <<>>
  BY ClockAssumption DEF AdmissionInit, Seals!BookInit
<1>2. TaleOK(story, today)
  <2>1. Event(1, 0) \in Events /\ Event(1, 0).status = Course[1] /\ Event(1, 0).recorded = 0
    BY <1>1 DEF Event, Events, Course
  <2>2. story = [r \in Releases |-> <<Event(1, 0)>>]
    BY DEF AdmissionInit
  <2>3. <<Event(1, 0)>> \in Seq(Events) /\ Len(<<Event(1, 0)>>) = 1 /\ <<Event(1, 0)>>[1] = Event(1, 0)
    BY <2>1
  <2>4. ASSUME NEW r \in Releases, NEW i \in 1..Len(story[r])
        PROVE  i = 1 /\ story[r][i] = Event(1, 0)
    BY <2>2, <2>3
  <2>5. \A r \in Releases : Len(story[r]) \in 1..3
    BY <2>2, <2>3
  <2>6. story \in [Releases -> Seq(Events)]
    BY <2>2, <2>3
  <2>7. ASSUME NEW r \in Releases, NEW i \in 1..Len(story[r])
        PROVE  /\ story[r][i].status = Course[i] /\ story[r][i].recorded <= today
               /\ \A m \in 1..i : story[r][m].recorded <= story[r][i].recorded
    <3>1. i = 1 /\ story[r][1] = Event(1, 0)
      BY <2>4
    <3>2. \A m \in 1..i : m = 1
      BY <3>1
    <3> QED
      BY <1>1, <2>1, <3>1, <3>2
  <2> QED
    BY <2>5, <2>6, <2>7 DEF TaleOK
<1>3. JobsOK
  BY DEF AdmissionInit, JobsOK
<1>4. BookOK
  BY <1>1 DEF BookOK
<1> QED
  BY <1>1, <1>2, <1>3, <1>4 DEF AdmissionInv

LEMMA AdmissionNext_Inv == AdmissionInv /\ [AdmissionNext]_admissionVars => AdmissionInv'
<1> SUFFICES ASSUME AdmissionInv, [AdmissionNext]_admissionVars PROVE AdmissionInv'
  OBVIOUS
<1>1. CASE \E r \in Releases : Advance(r)
  BY <1>1, AdvanceInv
<1>2. CASE Tick \/ SetClock
  BY <1>2, ClocksInv
<1>3. CASE \E s \in Sessions, t \in Times : Prepare(s, t)
  BY <1>3, PrepareInv
<1>4. CASE \E s \in Sessions : Abandon(s)
  BY <1>4, KeepsInv DEF Abandon
<1>5. CASE \E s \in Sessions : Step(s)
  <2> SUFFICES ASSUME NEW s \in Sessions, Step(s) PROVE AdmissionInv'
    BY <1>5
  <2>1. CASE ReadRelease(s)
    BY <2>1, ReadReleaseInv
  <2>2. CASE ReadBundleStatus(s)
    BY <2>2, ReadBundleStatusInv
  <2>3. CASE OpenWindow(s)
    BY <2>3, OpenWindowInv
  <2>4. CASE AskStatus(s)
    BY <2>4, AskStatusInv
  <2>5. CASE ReceiveStatus(s)
    BY <2>5, ReceiveStatusInv
  <2>6. CASE Confirm(s)
    BY <2>6, ConfirmInv
  <2>7. CASE ObserveAdmission(s)
    BY <2>7, ObserveAdmissionInv
  <2>8. CASE BuildEnvelope(s)
    BY <2>8, BuildEnvelopeInv
  <2>9. CASE JudgeTime(s)
    BY <2>9, JudgeTimeInv
  <2>10. CASE SealRun(s)
    BY <2>10, SealRunInv
  <2> QED
    BY <2>1, <2>2, <2>3, <2>4, <2>5, <2>6, <2>7, <2>8, <2>9, <2>10 DEF Step
<1>6. CASE UNCHANGED admissionVars
  BY <1>6 DEF admissionVars, AdmissionInv, JobsOK, BookOK
<1> QED
  BY <1>1, <1>2, <1>3, <1>4, <1>5, <1>6 DEF AdmissionNext

(* Whatever a session has read so far is true of the closure (AdmissionInv): *)
(* its evidence was true when it was given, and replies that the checks let  *)
(* pass will stay so; http_client.py and stage6b_status.py read the replies. *)
THEOREM AdmissionInvariant == AdmissionSpec => []AdmissionInv
  BY AdmissionInit_Inv, AdmissionNext_Inv, PTL DEF AdmissionSpec

(* No seal carries a commit time later than MaxAge after a withdrawal: each  *)
(* snapshot is no later than the withdrawal, and _validate_commit_time       *)
(* compares the commit time with every snapshot.                             *)
THEOREM AdmissionStopsAtWithdrawal == AdmissionSpec => []WithdrawalStopsSeals
<1>1. AdmissionInv => WithdrawalStopsSeals
  <2> SUFFICES ASSUME AdmissionInv, NEW r \in Releases, Len(story[r]) = Len(Course),
                      NEW i \in DOMAIN book
               PROVE  book[i].committed <= story[r][Len(Course)].recorded + MaxAge
    BY DEF WithdrawalStopsSeals
  <2>1. Len(Course) = 3
    BY DEF Course
  <2>2. SealableOK(book[i].evidence, book[i].committed, story, today)
    BY DEF AdmissionInv, BookOK
  <2> DEFINE snapshot == book[i].evidence[r].snapshot
             withdrawn == story[r][3].recorded
             committed == book[i].committed
  <2>3. snapshot \in Times /\ snapshot <= withdrawn
    BY <2>1, <2>2 DEF SealableOK, EvidenceOK, TrueOf
  <2>4. committed \in Times /\ committed - snapshot <= MaxAge
    BY <2>2 DEF SealableOK, Fresh
  <2>5. withdrawn \in Nat
    <3>1. story[r] \in Seq(Events) /\ 3 \in 1..Len(story[r])
      BY <2>1 DEF AdmissionInv, TaleOK
    <3>2. story[r][3] \in Events
      BY <3>1, ElementOfSeq
    <3> QED
      BY <3>2, ClockAssumption DEF Events
  <2>6. snapshot \in Nat /\ committed \in Nat /\ MaxAge \in Nat
    BY <2>3, <2>4, ClockAssumption
  <2> HIDE DEF snapshot, withdrawn, committed
  <2>7. committed <= withdrawn + MaxAge
    BY <2>3, <2>4, <2>5, <2>6
  <2> QED
    BY <2>1, <2>7 DEF withdrawn, committed
<1> QED
  BY <1>1, AdmissionInvariant, PTL

(* A sealed closure was published as a whole at one moment: the one between  *)
(* the bundles of prepare_stage6b_producer_handoff_validation and the status *)
(* requests of fetch_stage6b_closure_status_evidence.                        *)
THEOREM AdmissionPublishedAtOnce == AdmissionSpec => []AllPublishedAtOnce
<1>1. AdmissionInv => AllPublishedAtOnce
  <2> SUFFICES ASSUME AdmissionInv, book # <<>>
               PROVE  \E t \in Times : \A r \in Releases : PublishedAt(r, t)
    BY DEF AllPublishedAtOnce
  <2>1. 1 \in DOMAIN book
    BY DEF AdmissionInv, BookOK
  <2>2. SealableOK(book[1].evidence, book[1].committed, story, today)
    BY <2>1 DEF AdmissionInv, BookOK
  <2> DEFINE evidence == book[1].evidence
  <2>3. PICK t \in Times : Together(t, evidence, story, today)
    BY <2>2 DEF SealableOK
  <2>4. ASSUME NEW r \in Releases
        PROVE  PublishedAt(r, t)
    <3>1. /\ story[r] \in Seq(Events) /\ Len(story[r]) \in 1..3 /\ Len(story[r]) >= 2
          /\ story[r][2].recorded <= t
          /\ \A i \in 1..Len(story[r]) : story[r][i].status = Course[i]
      BY <2>3 DEF Together, AdmissionInv, TaleOK
    <3>2. /\ evidence[r].snapshot \in Times /\ t <= evidence[r].snapshot
          /\ Len(story[r]) = 3 => evidence[r].snapshot <= story[r][3].recorded
      BY <2>2, <2>3 DEF SealableOK, EvidenceOK, TrueOf, Together
    <3>3. 2 \in 1..Len(story[r]) /\ Course[1] = "building" /\ Course[2] = "published"
      BY <3>1 DEF Course
    <3>4. \E i \in DOMAIN story[r] : story[r][i].status = "published" /\ story[r][i].recorded <= t
      BY <3>1, <3>3
    <3>5. ASSUME NEW i \in DOMAIN story[r], story[r][i].status = "withdrawn"
          PROVE  t <= story[r][i].recorded
      <4>1. i \in 1..Len(story[r]) /\ i # 1 /\ i # 2
        BY <3>1, <3>3, <3>5
      <4>2. i = 3 /\ Len(story[r]) = 3
        BY <3>1, <4>1
      <4>3. story[r][3].recorded \in Nat
        <5>1. story[r][3] \in Events
          BY <3>1, <4>2, ElementOfSeq
        <5> QED
          BY <5>1, ClockAssumption DEF Events
      <4>4. t \in Nat /\ evidence[r].snapshot \in Nat
        BY <3>2, ClockAssumption
      <4> QED
        BY <3>2, <4>2, <4>3, <4>4
    <3> QED
      BY <3>4, <3>5 DEF PublishedAt
  <2> QED
    BY <2>4
<1> QED
  BY <1>1, AdmissionInvariant, PTL
=============================================================================
