------------------------ MODULE ValidationStoreProofs ------------------------
(***************************************************************************)
(* The Stage 6B validation store, for every set of sessions, envelopes and *)
(* payloads: its types, that the database holds whole admissions only,     *)
(* that sealed payloads are in their files, that it keeps the book, and    *)
(* that callers are told the truth.                                        *)
(***************************************************************************)
EXTENDS ValidationStore, FiniteSetTheorems, SequenceTheorems, TLAPS

-----------------------------------------------------------------------------
(* Which tables the rows of an admission are in. *)

OrdinaryTables == {"document", "link", "release_head", "cas_object", "cas_link",
                   "pin_release", "pin_artifact"}
InTables(rows, tables) == \A row \in rows : row.key[1] \in tables

(* Only the last two steps write the tables of generations and of seals. *)
LEMMA OrdinaryRows ==
    ASSUME NEW seal, NEW step \in 1..8
    PROVE  InTables(StepRows(step, seal), OrdinaryTables)
<1> DEFINE e == seal.envelope
<1>1. InTables(IdentityRows(e), OrdinaryTables)
  BY DEF IdentityRows, InTables, OrdinaryTables, Document, Row
<1>2. InTables(ReceiptLinks(e), OrdinaryTables) /\ InTables(ClosureLinks(e), OrdinaryTables)
  BY DEF ReceiptLinks, ClosureLinks, InTables, OrdinaryTables, Link, Row
<1>3. InTables(ReceiptClosureRows(e), OrdinaryTables)
  BY <1>2 DEF ReceiptClosureRows, InTables, OrdinaryTables, Document, Row
<1>4. InTables(ObservationRows(e), OrdinaryTables)
  BY DEF ObservationRows, HeadRows, InTables, OrdinaryTables, Document, Row
<1>5. InTables(PreregistrationRows(e), OrdinaryTables) /\ InTables(ManifestRows(e), OrdinaryTables)
  BY DEF PreregistrationRows, ManifestRows, InTables, OrdinaryTables, Document, Row
<1>6. InTables(ConfirmationRows(e), OrdinaryTables)
  BY DEF ConfirmationRows, ConfirmationLinks, InTables, OrdinaryTables, Document, Link, Row
<1>7. InTables(PinsRows(e), OrdinaryTables)
  BY DEF PinsRows, CasLinkRows, PinRows, ArtifactPinRows, InTables, OrdinaryTables, Row
<1>8. InTables(EnvelopeRows(e), OrdinaryTables)
  BY DEF EnvelopeRows, EnvelopeLinks, InTables, OrdinaryTables, Document, Link, Row
<1> QED
  BY <1>1, <1>3, <1>4, <1>5, <1>6, <1>7, <1>8 DEF StepRows

(* The seal and the generation of an admission are one row each. *)
LEMMA OwnRows ==
    ASSUME NEW seal
    PROVE  /\ {row \in AllRows(seal) : row.key[1] = "seal"} = {SealRow(seal)}
           /\ {row \in AllRows(seal) : row.key[1] = "generation"}
                = {GenerationRow(seal.envelope.run, seal.generation)}
<1>1. AllRows(seal) = (UNION {StepRows(step, seal) : step \in 1..8})
                        \cup {GenerationRow(seal.envelope.run, seal.generation)} \cup {SealRow(seal)}
  <2>1. StepRows(9, seal) = {GenerationRow(seal.envelope.run, seal.generation)}
    BY DEF StepRows
  <2>2. StepRows(10, seal) = {SealRow(seal)}
    BY DEF StepRows
  <2>3. 1..LastStep = 1..8 \cup {9, 10}
    BY DEF LastStep
  <2>4. ASSUME NEW row
        PROVE  row \in AllRows(seal) <=>
                 \/ \E step \in 1..8 : row \in StepRows(step, seal)
                 \/ row \in StepRows(9, seal) \/ row \in StepRows(10, seal)
    BY <2>3 DEF AllRows
  <2> QED
    BY <2>1, <2>2, <2>4
<1>2. InTables(UNION {StepRows(step, seal) : step \in 1..8}, OrdinaryTables)
  BY OrdinaryRows DEF InTables
<1>3. /\ SealRow(seal).key[1] = "seal"
      /\ GenerationRow(seal.envelope.run, seal.generation).key[1] = "generation"
  BY DEF SealRow, GenerationRow, Row
<1>4. "seal" \notin OrdinaryTables /\ "generation" \notin OrdinaryTables
  BY DEF OrdinaryTables
<1>5. ASSUME NEW row \in AllRows(seal)
      PROVE  /\ row.key[1] = "seal" => row = SealRow(seal)
             /\ row.key[1] = "generation" => row = GenerationRow(seal.envelope.run, seal.generation)
  BY <1>1, <1>2, <1>3, <1>4 DEF InTables
<1>6. SealRow(seal) \in AllRows(seal) /\ GenerationRow(seal.envelope.run, seal.generation) \in AllRows(seal)
  BY <1>1
<1> QED
  BY <1>3, <1>5, <1>6

(* A database of whole admissions holds exactly their seals and generations. *)
LEMMA SealsOfWhole ==
    ASSUME NEW S, NEW rows, rows = UNION {AllRows(seal) : seal \in S}
    PROVE  /\ {row.value : row \in {x \in rows : x.key[1] = "seal"}} = S
           /\ {row.value.generation : row \in {x \in rows : x.key[1] = "generation"}}
                = {seal.generation : seal \in S}
<1>1. \A seal : SealRow(seal).value = seal
  BY DEF SealRow, Row
<1>2. \A seal : GenerationRow(seal.envelope.run, seal.generation).value.generation = seal.generation
  BY DEF GenerationRow, Row
<1>3. {x \in rows : x.key[1] = "seal"} = {SealRow(seal) : seal \in S}
  <2>1. ASSUME NEW x \in rows, x.key[1] = "seal"
        PROVE  \E seal \in S : x = SealRow(seal)
    <3>1. PICK seal \in S : x \in AllRows(seal)
      BY <2>1
    <3> QED
      BY <2>1, <3>1, OwnRows
  <2>2. ASSUME NEW seal \in S
        PROVE  SealRow(seal) \in rows /\ SealRow(seal).key[1] = "seal"
    <3>1. SealRow(seal) \in {row \in AllRows(seal) : row.key[1] = "seal"}
      BY OwnRows
    <3> QED
      BY <3>1
  <2> QED
    BY <2>1, <2>2
<1>4. {x \in rows : x.key[1] = "generation"}
        = {GenerationRow(seal.envelope.run, seal.generation) : seal \in S}
  <2>1. ASSUME NEW x \in rows, x.key[1] = "generation"
        PROVE  \E seal \in S : x = GenerationRow(seal.envelope.run, seal.generation)
    <3>1. PICK seal \in S : x \in AllRows(seal)
      BY <2>1
    <3> QED
      BY <2>1, <3>1, OwnRows
  <2>2. ASSUME NEW seal \in S
        PROVE  LET row == GenerationRow(seal.envelope.run, seal.generation)
               IN  row \in rows /\ row.key[1] = "generation"
    <3>1. GenerationRow(seal.envelope.run, seal.generation)
            \in {row \in AllRows(seal) : row.key[1] = "generation"}
      BY OwnRows
    <3> QED
      BY <3>1
  <2> QED
    BY <2>1, <2>2
<1>5. {row.value : row \in {SealRow(seal) : seal \in S}} = S
  BY <1>1
<1>6. {row.value.generation : row \in {GenerationRow(seal.envelope.run, seal.generation) : seal \in S}}
        = {seal.generation : seal \in S}
  BY <1>2
<1> QED
  BY <1>3, <1>4, <1>5, <1>6

-----------------------------------------------------------------------------
(* The invariant. *)

SealSet == [envelope: Envelopes, generation: Nat, at: Times]
AnyRows == UNION {AllRows(seal) : seal \in SealSet}
Jobs == [seal: SealSet, todo: SUBSET Digests, temp: BOOLEAN, step: 0..Verifying,
         view: SUBSET AnyRows]

JobsTyped == job \in [Sessions -> Jobs \cup {None}]
SealsTyped == Seals \subseteq SealSet /\ IsFiniteSet(Seals)

(* One generation, one seal; they are numbered from one without gaps. *)
SealsNumbered ==
    /\ GenerationsDense
    /\ \A a, b \in Seals : a.generation = b.generation => a = b

OneWriter == \A s, t \in Sessions : InTransaction(s) /\ InTransaction(t) => s = t

Inserted(seal, step) == UNION {StepRows(j, seal) : j \in 1..(step - 1)}

(* An open transaction sees the committed rows and what it inserted itself; *)
(* meanwhile nobody seals the run or takes its generation.                  *)
Draft(j) ==
    /\ j.todo = {}
    /\ j.view = db \cup Inserted(j.seal, j.step)
    /\ SealOf(j.seal.envelope.run) = {}
    /\ j.seal.generation = Cardinality(Seals) + 1
DraftsExact == \A s \in Sessions : InTransaction(s) => Draft(job[s])

DatabaseInv == JobsTyped /\ SealsTyped /\ SealsNumbered /\ OneWriter /\ DraftsExact
               /\ OnlyWholeAdmissions

LEMMA SealsAre ==
    OnlyWholeAdmissions => Generations = {seal.generation : seal \in Seals}
BY SealsOfWhole DEF OnlyWholeAdmissions, Generations

(* The next generation is one more than the number of seals. *)
LEMMA NextGenerationIs ==
    ASSUME DatabaseInv
    PROVE  NextGeneration(Generations) = Cardinality(Seals) + 1
<1> DEFINE n == Cardinality(Seals)
<1>1. n \in Nat
  BY FS_CardinalityType DEF DatabaseInv, SealsTyped
<1>2. Generations = 1..n
  BY SealsAre DEF DatabaseInv, SealsNumbered, GenerationsDense
<1>3. Generations \cup {0} = 0..n
  BY <1>1, <1>2
<1>4. Max(0..n) = n
  BY <1>1 DEF Max
<1> QED
  BY <1>3, <1>4 DEF NextGeneration

LEMMA WholeIsTyped ==
    ASSUME DatabaseInv
    PROVE  db \subseteq AnyRows
BY DEF DatabaseInv, OnlyWholeAdmissions, AnyRows, SealsTyped

(* A step that writes nothing and leaves no transaction of its own open. *)
LEMMA QuietStep ==
    ASSUME DatabaseInv, NEW s \in Sessions, NEW j \in Jobs \cup {None},
           job' = [job EXCEPT ![s] = j], db' = db,
           j = None \/ j.step \notin 1..Committing
    PROVE  DatabaseInv'
<1>1. JobsTyped'
  BY DEF DatabaseInv, JobsTyped
<1>2. Seals' = Seals
  BY DEF Seals
<1>3. SealsTyped' /\ SealsNumbered' /\ OnlyWholeAdmissions'
  BY <1>2 DEF DatabaseInv, SealsTyped, SealsNumbered, GenerationsDense, OnlyWholeAdmissions
<1>4. ASSUME NEW t \in Sessions
      PROVE  InTransaction(t)' => t # s /\ InTransaction(t) /\ job'[t] = job[t]
  BY DEF InTransaction, Busy, DatabaseInv, JobsTyped
<1>5. OneWriter'
  BY <1>4 DEF DatabaseInv, OneWriter
<1>6. DraftsExact'
  <2>1. SUFFICES ASSUME NEW t \in Sessions, InTransaction(t)'
                 PROVE  Draft(job[t])'
    BY DEF DraftsExact
  <2>2. Draft(job[t]) /\ job'[t] = job[t]
    BY <1>4, <2>1 DEF DatabaseInv, DraftsExact
  <2> QED
    BY <1>2, <2>2 DEF Draft, SealOf
<1> QED
  BY <1>1, <1>3, <1>5, <1>6 DEF DatabaseInv

LEMMA InsertedNext ==
    ASSUME NEW seal, NEW step \in 1..LastStep
    PROVE  /\ Inserted(seal, 1) = {}
           /\ Inserted(seal, step + 1) = Inserted(seal, step) \cup StepRows(step, seal)
           /\ Inserted(seal, Committing) = AllRows(seal)
           /\ StepRows(step, seal) \subseteq AllRows(seal)
<1>1. 1..(1 - 1) = {} /\ 1..((step + 1) - 1) = 1..(step - 1) \cup {step} /\ 1..(Committing - 1) = 1..LastStep
  BY DEF LastStep, Committing
<1>2. Inserted(seal, 1) = {}
  BY <1>1 DEF Inserted
<1>3. Inserted(seal, step + 1) = Inserted(seal, step) \cup StepRows(step, seal)
  <2>1. ASSUME NEW row
        PROVE  row \in Inserted(seal, step + 1)
                 <=> row \in Inserted(seal, step) \/ row \in StepRows(step, seal)
    BY <1>1 DEF Inserted
  <2> QED
    BY <2>1
<1>4. Inserted(seal, Committing) = AllRows(seal)
  BY <1>1 DEF Inserted, AllRows
<1>5. StepRows(step, seal) \subseteq AllRows(seal)
  BY DEF AllRows
<1> QED
  BY <1>2, <1>3, <1>4, <1>5

LEMMA Renumbered ==
    ASSUME NEW seal \in SealSet, NEW generation \in Nat
    PROVE  LET other == [seal EXCEPT !.generation = generation]
           IN  other \in SealSet /\ other.envelope = seal.envelope /\ other.generation = generation
BY DEF SealSet

LEMMA BeginStep ==
    ASSUME DatabaseInv, NEW s \in Sessions, Begin(s)
    PROVE  DatabaseInv'
<1>1. job[s] \in Jobs /\ job[s].todo = {} /\ WriterFree /\ db' = db
      /\ SealOf(job[s].seal.envelope.run) = {}
  BY DEF Begin, Prepared, Busy, DatabaseInv, JobsTyped
<1>2. Cardinality(Seals) + 1 \in Nat
  BY FS_CardinalityType DEF DatabaseInv, SealsTyped
<1> DEFINE seal == [job[s].seal EXCEPT !.generation = Cardinality(Seals) + 1]
           j == [job[s] EXCEPT !.seal = seal, !.step = 1, !.view = db]
<1>3. seal \in SealSet /\ seal.envelope = job[s].seal.envelope /\ seal.generation = Cardinality(Seals) + 1
  BY <1>1, <1>2, Renumbered DEF Jobs
<1>5. job' = [job EXCEPT ![s] = j]
  BY <1>1, NextGenerationIs DEF Begin, DatabaseInv, JobsTyped, Jobs, SealSet
<1> HIDE DEF seal
<1>4. j \in Jobs /\ j.todo = {} /\ j.view = db /\ j.step = 1 /\ j.seal = seal
  <2>1. db \subseteq AnyRows /\ 1 \in 0..Verifying
    BY WholeIsTyped DEF Verifying, LastStep
  <2> QED
    BY <1>1, <1>3, <2>1 DEF Jobs
<1> HIDE DEF j
<1>6. JobsTyped'
  BY <1>4, <1>5 DEF DatabaseInv, JobsTyped
<1>7. Seals' = Seals
  BY <1>1 DEF Seals
<1>8. SealsTyped' /\ SealsNumbered' /\ OnlyWholeAdmissions'
  BY <1>1, <1>7 DEF DatabaseInv, SealsTyped, SealsNumbered, GenerationsDense, OnlyWholeAdmissions
<1>9. \A t \in Sessions \ {s} : ~InTransaction(t)'
  BY <1>1, <1>5 DEF InTransaction, Busy, WriterFree, DatabaseInv, JobsTyped
<1>10. OneWriter'
  BY <1>9 DEF OneWriter
<1>11. DraftsExact'
  <2>1. job'[s] = j
    BY <1>5 DEF DatabaseInv, JobsTyped
  <2>2. Inserted(seal, 1) = {}
    BY InsertedNext DEF LastStep
  <2>3. Draft(job[s])'
    BY <1>1, <1>3, <1>4, <1>7, <2>1, <2>2 DEF Draft, SealOf
  <2> QED
    BY <1>9, <2>3 DEF DraftsExact
<1> QED
  BY <1>6, <1>8, <1>10, <1>11 DEF DatabaseInv

LEMMA WriteStep ==
    ASSUME DatabaseInv, NEW s \in Sessions, Write(s)
    PROVE  DatabaseInv'
<1> DEFINE k == job[s].step
<1>1. job[s] \in Jobs /\ InTransaction(s) /\ k \in 1..LastStep /\ db' = db
  BY DEF Write, InTransaction, Busy, DatabaseInv, JobsTyped
<1>2. Draft(job[s])
  BY <1>1 DEF DatabaseInv, DraftsExact
<1> DEFINE view == job[s].view \cup StepOf(s)
           j == [job[s] EXCEPT !.seal = job[s].seal, !.step = k + 1, !.view = view]
<1>4. job' = [job EXCEPT ![s] = j]
  BY <1>1 DEF Write, DatabaseInv, JobsTyped, Jobs
<1>3. j \in Jobs /\ j.todo = {} /\ j.view = view /\ j.step = k + 1 /\ j.seal = job[s].seal
  <2>1. StepOf(s) \subseteq AnyRows
    BY <1>1, InsertedNext DEF StepOf, AnyRows, Jobs
  <2>2. /\ view \in SUBSET AnyRows /\ job[s].seal \in SealSet
        /\ k + 1 \in 0..Verifying
    BY <1>1, <2>1 DEF Jobs, Verifying, LastStep
  <2>3. job[s].todo = {}
    BY <1>2 DEF Draft
  <2> HIDE DEF view
  <2> QED
    BY <1>1, <2>2, <2>3 DEF Jobs
<1> HIDE DEF j
<1>5. JobsTyped'
  BY <1>3, <1>4 DEF DatabaseInv, JobsTyped
<1>6. Seals' = Seals
  BY <1>1 DEF Seals
<1>7. SealsTyped' /\ SealsNumbered' /\ OnlyWholeAdmissions'
  BY <1>1, <1>6 DEF DatabaseInv, SealsTyped, SealsNumbered, GenerationsDense, OnlyWholeAdmissions
<1>8. \A t \in Sessions \ {s} : ~InTransaction(t)'
  BY <1>1, <1>4 DEF InTransaction, Busy, OneWriter, DatabaseInv, JobsTyped
<1>9. OneWriter'
  BY <1>8 DEF OneWriter
<1>10. DraftsExact'
  <2>1. job'[s] = j
    BY <1>4 DEF DatabaseInv, JobsTyped
  <2>2. Inserted(j.seal, j.step) = Inserted(job[s].seal, k) \cup StepOf(s)
    BY <1>1, <1>3, InsertedNext DEF StepOf
  <2>3. Draft(job[s])'
    BY <1>1, <1>2, <1>3, <1>6, <2>1, <2>2 DEF Draft, SealOf
  <2> QED
    BY <1>8, <2>3 DEF DraftsExact
<1> QED
  BY <1>5, <1>7, <1>9, <1>10 DEF DatabaseInv

(* A commit makes the draft the database: one more seal, with its rows. *)
LEMMA CommitSeals ==
    ASSUME DatabaseInv, NEW s \in Sessions, Commit(s)
    PROVE  /\ OnlyWholeAdmissions'
           /\ Seals' = Seals \cup {job[s].seal}
           /\ job[s].seal \in SealSet /\ job[s].seal \notin Seals
           /\ job[s].seal.generation = Cardinality(Seals) + 1
           /\ SealOf(job[s].seal.envelope.run) = {}
<1> DEFINE seal == job[s].seal
           S == Seals \cup {seal}
<1>1. InTransaction(s) /\ job[s].step = Committing /\ db' = job[s].view /\ seal \in SealSet
  BY DEF Commit, InTransaction, Busy, DatabaseInv, JobsTyped, Jobs, Committing, LastStep
<1>2. /\ db' = db \cup AllRows(seal) /\ SealOf(seal.envelope.run) = {}
      /\ seal.generation = Cardinality(Seals) + 1
  <2>1. Draft(job[s])
    BY <1>1 DEF DatabaseInv, DraftsExact
  <2> QED
    BY <1>1, <2>1, InsertedNext DEF Draft, LastStep
<1>3. db = UNION {AllRows(x) : x \in Seals}
  BY DEF DatabaseInv, OnlyWholeAdmissions
<1> HIDE DEF seal
<1>4. db' = UNION {AllRows(x) : x \in S}
  BY <1>2, <1>3
<1>5. Seals' = S
  BY <1>4, SealsOfWhole DEF Seals
<1>6. OnlyWholeAdmissions'
  BY <1>4, <1>5 DEF OnlyWholeAdmissions
<1>7. seal \notin Seals
  BY <1>2 DEF SealOf
<1> QED
  BY <1>1, <1>2, <1>5, <1>6, <1>7 DEF seal

LEMMA CommitStep ==
    ASSUME DatabaseInv, NEW s \in Sessions, Commit(s)
    PROVE  DatabaseInv'
<1> DEFINE seal == job[s].seal
           n == Cardinality(Seals)
<1>1. /\ Seals' = Seals \cup {seal} /\ seal \in SealSet /\ seal \notin Seals
      /\ seal.generation = n + 1
  BY CommitSeals
<1>2. n \in Nat /\ IsFiniteSet(Seals') /\ Cardinality(Seals') = n + 1
  BY <1>1, FS_CardinalityType, FS_AddElement DEF DatabaseInv, SealsTyped
<1>3. SealsTyped'
  BY <1>1, <1>2 DEF DatabaseInv, SealsTyped
<1>4. {x.generation : x \in Seals} = 1..n
  BY DEF DatabaseInv, SealsNumbered, GenerationsDense
<1> HIDE DEF seal, n
<1>5. SealsNumbered'
  <2>1. {x.generation : x \in Seals'} = 1..(n + 1)
    BY <1>1, <1>2, <1>4
  <2>2. \A x \in Seals : x.generation \in 1..n
    BY <1>4
  <2>3. \A x \in Seals : x.generation # n + 1
    BY <1>2, <2>2
  <2>4. \A x, y \in Seals' : x.generation = y.generation => x = y
    BY <1>1, <2>3 DEF DatabaseInv, SealsNumbered
  <2> QED
    BY <1>2, <2>1, <2>4 DEF SealsNumbered, GenerationsDense
<1>6. /\ job[s] \in Jobs /\ InTransaction(s)
  BY DEF Commit, InTransaction, Busy, DatabaseInv, JobsTyped, Jobs, Committing, LastStep
<1> DEFINE j == [job[s] EXCEPT !.step = Verifying, !.view = {}]
<1>9. job' = [job EXCEPT ![s] = j]
  BY <1>6 DEF Commit, DatabaseInv, JobsTyped, Jobs
<1>10. j \in Jobs /\ j.step = Verifying
  <2>1. Verifying \in 0..Verifying /\ {} \in SUBSET AnyRows
    BY DEF Verifying, LastStep
  <2> QED
    BY <1>6, <2>1 DEF Jobs
<1> HIDE DEF j
<1>7. JobsTyped'
  BY <1>9, <1>10 DEF DatabaseInv, JobsTyped
<1>8. \A t \in Sessions : ~InTransaction(t)'
  <2>1. ASSUME NEW t \in Sessions, t # s
        PROVE  ~InTransaction(t) /\ job'[t] = job[t]
    BY <1>6, <1>9, <2>1 DEF OneWriter, DatabaseInv, JobsTyped
  <2>2. job'[s] = j /\ Verifying \notin 1..Committing
    BY <1>9 DEF DatabaseInv, JobsTyped, Verifying, Committing, LastStep
  <2> QED
    BY <1>10, <2>1, <2>2 DEF InTransaction, Busy
<1> QED
  BY <1>3, <1>5, <1>7, <1>8, CommitSeals DEF DatabaseInv, OneWriter, DraftsExact

LEMMA DatabaseInvInit == StoreInit => DatabaseInv
<1> SUFFICES ASSUME StoreInit PROVE DatabaseInv
  OBVIOUS
<1>1. Seals = {} /\ db = {}
  BY DEF StoreInit, Seals
<1>2. OnlyWholeAdmissions
  BY <1>1 DEF OnlyWholeAdmissions
<1>3. SealsTyped /\ SealsNumbered
  <2>1. Cardinality({}) = 0 /\ IsFiniteSet({})
    BY FS_EmptySet
  <2> QED
    BY <1>1, <2>1 DEF SealsTyped, SealsNumbered, GenerationsDense
<1>4. JobsTyped /\ OneWriter /\ DraftsExact
  BY DEF StoreInit, JobsTyped, OneWriter, DraftsExact, InTransaction, Busy
<1> QED
  BY <1>2, <1>3, <1>4 DEF DatabaseInv

(* Every other action is quiet. *)
LEMMA CallIsTyped ==
    ASSUME NEW e \in Envelopes, NEW at \in Times, StagedDigests(e) \subseteq Digests
    PROVE  [seal |-> Seal(e, 0, at), todo |-> StagedDigests(e), temp |-> FALSE, step |-> 0,
            view |-> {}] \in Jobs
BY DEF Jobs, SealSet, Seal, Verifying, LastStep

LEMMA StagedAreDigests ==
    ASSUME NEW e \in Envelopes
    PROVE  StagedDigests(e) \subseteq Digests
<1>1. IsEnvelope(e)
  BY EnvelopesAssumption
<1>2. ASSUME NEW p \in Staged(e)
      PROVE  p[4] \in Digests
  <2>1. CASE \E r \in Members(e) : p = <<"manifest", r, None, e.nodes[r].manifest>>
    BY <1>1, <2>1 DEF IsEnvelope, Members
  <2>2. CASE \E r \in Members(e) : p = <<"status_response", r, None, e.status[r].response>>
    BY <1>1, <2>2 DEF IsEnvelope, Members
  <2>3. CASE \E k \in ArtifactKeys(e) : p = <<"artifact", k[1], k[2], ArtifactAt(e, k)>>
    <3>1. PICK k \in ArtifactKeys(e) : p = <<"artifact", k[1], k[2], ArtifactAt(e, k)>>
      BY <2>3
    <3>2. PICK r \in Members(e) : k \in {r} \X DOMAIN e.nodes[r].artifacts
      BY <3>1 DEF ArtifactKeys
    <3>3. k[1] = r /\ k[2] \in DOMAIN e.nodes[r].artifacts
      BY <3>2
    <3>4. ArtifactAt(e, k) \in Digests
      BY <1>1, <3>3 DEF ArtifactAt, IsEnvelope, Members
    <3> QED
      BY <3>1, <3>4
  <2> QED
    BY <1>2, <2>1, <2>2, <2>3 DEF Staged
<1> QED
  BY <1>2 DEF StagedDigests

LEMMA StagingStep ==
    ASSUME DatabaseInv, NEW s \in Sessions,
           Reuse(s) \/ WriteTemporary(s) \/ Publish(s)
    PROVE  DatabaseInv'
<1> DEFINE todo == job[s].todo \ {NextPayload(s)}
<1>1. job[s] \in Jobs /\ job[s].step = 0 /\ db' = db
  BY DEF Reuse, WriteTemporary, Publish, TargetIs, Staging, Busy, DatabaseInv, JobsTyped
<1>4. 0 \notin 1..Committing /\ todo \in SUBSET Digests
  BY <1>1 DEF Jobs, Committing, LastStep
<1> HIDE DEF todo
<1>2. CASE WriteTemporary(s)
  <2> DEFINE j == [job[s] EXCEPT !.temp = TRUE]
  <2>1. job' = [job EXCEPT ![s] = j]
    BY <1>1, <1>2 DEF WriteTemporary, DatabaseInv, JobsTyped, Jobs
  <2>2. j \in Jobs /\ j.step \notin 1..Committing
    BY <1>1, <1>4 DEF Jobs
  <2> HIDE DEF j
  <2> QED
    BY <1>1, <2>1, <2>2, QuietStep
<1>3. CASE Reuse(s) \/ Publish(s)
  <2> DEFINE j == [job[s] EXCEPT !.todo = todo, !.temp = FALSE]
  <2>1. job' = [job EXCEPT ![s] = j]
    BY <1>1, <1>3 DEF Reuse, Publish, DatabaseInv, JobsTyped, Jobs, todo
  <2>2. j \in Jobs /\ j.step \notin 1..Committing
    BY <1>1, <1>4 DEF Jobs
  <2> HIDE DEF j
  <2> QED
    BY <1>1, <2>1, <2>2, QuietStep
<1> QED
  BY <1>2, <1>3

LEMMA AnswerStep ==
    ASSUME DatabaseInv, NEW s \in Sessions, NEW result, NEW e, Answers(s, result, e), db' = db
    PROVE  DatabaseInv'
<1>1. job' = [job EXCEPT ![s] = None]
  BY DEF Answers
<1> QED
  BY <1>1, QuietStep

LEMMA BeginSealedStep ==
    ASSUME DatabaseInv, NEW s \in Sessions, NEW seal \in Seals, BeginSealed(s, seal)
    PROVE  DatabaseInv'
<1> DEFINE j == [job[s] EXCEPT !.step = Verifying, !.seal = seal]
<1>1. job[s] \in Jobs /\ db' = db /\ seal \in SealSet
  BY DEF BeginSealed, Prepared, Busy, DatabaseInv, JobsTyped, SealsTyped
<1>2. job' = [job EXCEPT ![s] = j]
  BY <1>1 DEF BeginSealed, DatabaseInv, JobsTyped, Jobs
<1>3. Verifying \in 0..Verifying /\ Verifying \notin 1..Committing
  BY DEF Verifying, Committing, LastStep
<1>4. j \in Jobs /\ j.step \notin 1..Committing
  BY <1>1, <1>3 DEF Jobs
<1> HIDE DEF j
<1> QED
  BY <1>1, <1>2, <1>4, QuietStep

LEMMA DatabaseInvStep ==
    ASSUME DatabaseInv, [StoreNext]_vars
    PROVE  DatabaseInv'
<1>1. CASE UNCHANGED vars
  <2>1. db' = db /\ job' = job /\ Seals' = Seals
    BY <1>1 DEF vars, Seals
  <2>2. \A t \in Sessions : InTransaction(t)' <=> InTransaction(t)
    BY <2>1 DEF InTransaction, Busy
  <2>3. JobsTyped' /\ SealsTyped' /\ SealsNumbered' /\ OnlyWholeAdmissions'
    BY <2>1 DEF DatabaseInv, JobsTyped, SealsTyped, SealsNumbered, GenerationsDense, OnlyWholeAdmissions
  <2>4. OneWriter' /\ DraftsExact'
    BY <2>1, <2>2 DEF DatabaseInv, OneWriter, DraftsExact, Draft, SealOf
  <2> QED
    BY <2>3, <2>4 DEF DatabaseInv
<1>2. ASSUME NEW s \in Sessions, Progress(s)
      PROVE  DatabaseInv'
  <2>1. CASE Reuse(s) \/ WriteTemporary(s) \/ Publish(s)
    BY <2>1, StagingStep
  <2>2. CASE StagingConflict(s) \/ BusyTimeout(s) \/ WriteConflict(s) \/ Verify(s)
    BY <2>2, AnswerStep DEF StagingConflict, BusyTimeout, WriteConflict, Verify
  <2>3. CASE Begin(s) \/ Write(s) \/ Commit(s)
    BY <2>3, BeginStep, WriteStep, CommitStep
  <2>4. ASSUME NEW seal \in Seals, BeginSealed(s, seal) \/ BeginRemapped(s, seal)
        PROVE  DatabaseInv'
    BY <2>4, BeginSealedStep, AnswerStep DEF BeginRemapped
  <2> QED
    BY <1>2, <2>1, <2>2, <2>3, <2>4 DEF Progress
<1>3. ASSUME NEW s \in Sessions, Fail(s) \/ Crash(s)
      PROVE  DatabaseInv'
  <2>1. CASE Fail(s)
    BY <2>1, AnswerStep DEF Fail, RowsAfterRollback
  <2>2. CASE Crash(s)
    BY <2>2, QuietStep DEF Crash
  <2> QED
    BY <1>3, <2>1, <2>2
<1>4. ASSUME NEW s \in Sessions, NEW e \in Envelopes, NEW at \in Times,
             Call(s, e, at) \/ Refuse(s, e, at)
      PROVE  DatabaseInv'
  <2>1. CASE Call(s, e, at)
    <3> DEFINE j == [seal |-> Seal(e, 0, at), todo |-> StagedDigests(e), temp |-> FALSE,
                     step |-> 0, view |-> {}]
    <3>1. j \in Jobs /\ j.step \notin 1..Committing
      BY CallIsTyped, StagedAreDigests
    <3>2. job' = [job EXCEPT ![s] = j] /\ db' = db
      BY <2>1 DEF Call
    <3> HIDE DEF j
    <3> QED
      BY <3>1, <3>2, QuietStep
  <2>2. CASE Refuse(s, e, at)
    BY <2>2, AnswerStep DEF Refuse
  <2> QED
    BY <1>4, <2>1, <2>2
<1>5. ASSUME NEW s \in Sessions, NEW seal \in Seals, ReadSeal(s, seal)
      PROVE  DatabaseInv'
  BY <1>5, AnswerStep DEF ReadSeal
<1>6. ASSUME NEW d \in Damageable, Damage(d)
      PROVE  DatabaseInv'
  <2>1. db' = db /\ job' = job /\ Seals' = Seals
    BY <1>6 DEF Damage, Seals
  <2>2. \A t \in Sessions : InTransaction(t)' <=> InTransaction(t)
    BY <2>1 DEF InTransaction, Busy
  <2>3. JobsTyped' /\ SealsTyped' /\ SealsNumbered' /\ OnlyWholeAdmissions'
    BY <2>1 DEF DatabaseInv, JobsTyped, SealsTyped, SealsNumbered, GenerationsDense, OnlyWholeAdmissions
  <2>4. OneWriter' /\ DraftsExact'
    BY <2>1, <2>2 DEF DatabaseInv, OneWriter, DraftsExact, Draft, SealOf
  <2> QED
    BY <2>3, <2>4 DEF DatabaseInv
<1> QED
  BY <1>1, <1>2, <1>3, <1>4, <1>5, <1>6 DEF StoreNext

(* The inductive invariant of the sealing transaction: one writer, whose    *)
(* draft is the database and its own inserts, for a run nobody has sealed   *)
(* and the next generation (commit_validation_admission).                   *)
THEOREM DatabaseInvariant == StoreSpec => []DatabaseInv
<1>1. DatabaseInv /\ [StoreNext]_vars => DatabaseInv'
  BY DatabaseInvStep
<1> QED
  BY <1>1, DatabaseInvInit, PTL DEF StoreSpec

(* The database holds complete admissions and nothing else.                 *)
THEOREM AdmissionsWhole == StoreSpec => []OnlyWholeAdmissions
<1>1. DatabaseInv => OnlyWholeAdmissions
  BY DEF DatabaseInv
<1> QED
  BY <1>1, DatabaseInvariant, PTL

(* Commit generations number the seals without gaps.                        *)
THEOREM GenerationsCorrect == StoreSpec => []GenerationsDense
<1>1. DatabaseInv => GenerationsDense
  BY DEF DatabaseInv, SealsNumbered
<1> QED
  BY <1>1, DatabaseInvariant, PTL

(* No row is ever taken back or rewritten.                                  *)
THEOREM CommittedRowsKept == StoreSpec => RowsKept
<1>1. DatabaseInv /\ [StoreNext]_vars => [db \subseteq db']_vars
  <2> SUFFICES ASSUME DatabaseInv, StoreNext PROVE db \subseteq db'
    BY DEF vars
  <2>1. ASSUME NEW s \in Sessions, Commit(s)
        PROVE  db \subseteq db'
    <3>1. Draft(job[s])
      BY <2>1 DEF DatabaseInv, DraftsExact, InTransaction, Commit, Busy, Committing, LastStep
    <3> QED
      BY <2>1, <3>1 DEF Commit, Draft
  <2>2. ASSUME NEW s \in Sessions, Progress(s)
        PROVE  db \subseteq db'
    BY <2>1, <2>2 DEF Progress, Reuse, StagingConflict, WriteTemporary, Publish, Begin, BusyTimeout,
                      Write, WriteConflict, Verify, BeginSealed, BeginRemapped
  <2>3. ASSUME NEW s \in Sessions, Fail(s) \/ Crash(s)
        PROVE  db \subseteq db'
    BY <2>3 DEF Fail, Crash, RowsAfterRollback
  <2> QED
    BY <2>2, <2>3 DEF StoreNext, Call, Refuse, ReadSeal, Damage
<1> QED
  BY <1>1, DatabaseInvariant, PTL DEF StoreSpec, RowsKept

-----------------------------------------------------------------------------
(* The files. *)

Placed(j) ==
    /\ j.todo \subseteq StagedDigests(j.seal.envelope)
    /\ j.temp => j.todo # {}
    /\ j.step # Verifying =>
         \A d \in StagedDigests(j.seal.envelope) \ (j.todo \cup damaged) : object[d] = "whole"

FilesTyped == /\ object \in [Digests -> {"absent", "whole", "bad"}]
              /\ orphans \subseteq Digests /\ damaged \subseteq Damageable

FilesInv == FilesTyped /\ SealedFilesWhole /\ \A s \in Sessions : Busy(s) => Placed(job[s])

(* A whole file stays whole unless it is damaged, which is remembered.      *)
FilesKept ==
    /\ damaged \subseteq damaged'
    /\ \A d \in Digests \ damaged' : object[d] = "whole" => object'[d] = "whole"

LEMMA FilesStay ==
    ASSUME FilesTyped, UNCHANGED <<object, damaged>>
    PROVE  FilesKept
BY DEF FilesKept

LEMMA PlacedStays ==
    ASSUME NEW j \in Jobs, Placed(j), FilesKept
    PROVE  /\ j.todo \subseteq StagedDigests(j.seal.envelope)
           /\ j.temp => j.todo # {}
           /\ j.step # Verifying =>
                \A d \in StagedDigests(j.seal.envelope) \ (j.todo \cup damaged') : object'[d] = "whole"
<1>1. StagedDigests(j.seal.envelope) \subseteq Digests
  BY StagedAreDigests DEF Jobs, SealSet
<1> QED
  BY <1>1 DEF Placed, FilesKept

LEMMA SealedStays ==
    ASSUME SealedFilesWhole, FilesKept, SealsTyped, Seals' = Seals
    PROVE  SealedFilesWhole'
<1>1. \A seal \in Seals : StagedDigests(seal.envelope) \subseteq Digests
  BY StagedAreDigests DEF SealsTyped, SealSet
<1> QED
  BY <1>1 DEF SealedFilesWhole, FilesKept

(* A step of one session that seals nothing: it is enough to look at its own job. *)
LEMMA OthersPlaced ==
    ASSUME FilesInv, DatabaseInv, NEW s \in Sessions, NEW j, job' = [job EXCEPT ![s] = j],
           FilesKept, FilesTyped', Seals' = Seals,
           j # None => /\ j.todo \subseteq StagedDigests(j.seal.envelope)
                       /\ j.temp => j.todo # {}
                       /\ j.step # Verifying =>
                            \A d \in StagedDigests(j.seal.envelope) \ (j.todo \cup damaged') :
                               object'[d] = "whole"
    PROVE  FilesInv'
<1>1. SealedFilesWhole'
  BY SealedStays DEF FilesInv, DatabaseInv
<1>2. ASSUME NEW t \in Sessions, Busy(t)', t # s
      PROVE  Placed(job[t])'
  <2>1. job'[t] = job[t] /\ Placed(job[t]) /\ job[t] \in Jobs
    BY <1>2 DEF DatabaseInv, JobsTyped, FilesInv, Busy
  <2> QED
    BY <2>1, PlacedStays DEF Placed
<1>3. ASSUME Busy(s)'
      PROVE  Placed(job[s])'
  <2>1. job'[s] = j /\ j # None
    BY <1>3 DEF DatabaseInv, JobsTyped, Busy
  <2> QED
    BY <2>1 DEF Placed
<1> QED
  BY <1>1, <1>2, <1>3 DEF FilesInv

LEMMA AnswerFiles ==
    ASSUME FilesInv, DatabaseInv, NEW s \in Sessions, NEW result, NEW e, Answers(s, result, e),
           UNCHANGED fileVars, db' = db
    PROVE  FilesInv'
<1>1. job' = [job EXCEPT ![s] = None] /\ FilesTyped' /\ Seals' = Seals
  BY DEF Answers, FilesInv, FilesTyped, fileVars, Seals
<1>2. FilesKept
  BY FilesStay DEF FilesInv, fileVars
<1> QED
  BY <1>1, <1>2, OthersPlaced

LEMMA StagingFiles ==
    ASSUME FilesInv, DatabaseInv, NEW s \in Sessions, Reuse(s) \/ WriteTemporary(s) \/ Publish(s)
    PROVE  FilesInv'
<1> DEFINE d == NextPayload(s)
<1>1. /\ job[s] \in Jobs /\ job[s].step = 0 /\ db' = db /\ Busy(s) /\ job[s].todo # {}
      /\ d \in job[s].todo /\ damaged' = damaged /\ orphans' = orphans
  BY DEF Reuse, WriteTemporary, Publish, TargetIs, Staging, NextPayload, Busy, DatabaseInv, JobsTyped, fileVars
<1>2. Seals' = Seals
  BY <1>1 DEF Seals
<1>3. Placed(job[s])
  BY <1>1 DEF FilesInv
<1>4. FilesTyped' /\ FilesKept
  <2>1. CASE Reuse(s) \/ WriteTemporary(s)
    BY <2>1, FilesStay DEF FilesInv, FilesTyped, Reuse, WriteTemporary, fileVars
  <2>2. CASE Publish(s)
    <3>1. object' = [object EXCEPT ![d] = "whole"]
      BY <2>2 DEF Publish
    <3> HIDE DEF d
    <3> QED
      BY <1>1, <3>1 DEF FilesInv, FilesTyped, FilesKept
  <2> QED
    BY <2>1, <2>2
<1>5. CASE WriteTemporary(s)
  <2> DEFINE j == [job[s] EXCEPT !.temp = TRUE]
  <2>1. job' = [job EXCEPT ![s] = j] /\ object' = object
    BY <1>1, <1>5 DEF WriteTemporary, DatabaseInv, JobsTyped, Jobs, fileVars
  <2>2. j.todo = job[s].todo /\ j.seal = job[s].seal /\ j.step = job[s].step
    BY <1>1 DEF Jobs
  <2> HIDE DEF j
  <2>3. /\ j.todo \subseteq StagedDigests(j.seal.envelope)
        /\ j.temp => j.todo # {}
        /\ j.step # Verifying =>
             \A x \in StagedDigests(j.seal.envelope) \ (j.todo \cup damaged') : object'[x] = "whole"
    BY <1>1, <1>3, <1>4, <2>1, <2>2, PlacedStays
  <2> QED
    BY <1>2, <1>4, <2>1, <2>3, OthersPlaced
<1>6. CASE Reuse(s) \/ Publish(s)
  <2> DEFINE j == [job[s] EXCEPT !.todo = @ \ {d}, !.temp = FALSE]
  <2>1. job' = [job EXCEPT ![s] = j]
    BY <1>1, <1>6 DEF Reuse, Publish, DatabaseInv, JobsTyped, Jobs
  <2>2. object'[d] = "whole"
    <3>1. d \in DOMAIN object
      BY <1>1 DEF FilesInv, FilesTyped, Jobs
    <3> QED
      BY <1>6, <3>1 DEF Reuse, Publish, TargetIs, fileVars
  <2>3. /\ j.todo = job[s].todo \ {d} /\ j.seal = job[s].seal /\ j.step = job[s].step
        /\ j.temp = FALSE
    BY <1>1 DEF Jobs
  <2> HIDE DEF j, d
  <2>4. /\ j.todo \subseteq StagedDigests(j.seal.envelope)
        /\ j.temp => j.todo # {}
        /\ j.step # Verifying =>
             \A x \in StagedDigests(j.seal.envelope) \ (j.todo \cup damaged') : object'[x] = "whole"
    BY <1>1, <1>3, <1>4, <2>2, <2>3, PlacedStays
  <2> QED
    BY <1>2, <1>4, <2>1, <2>4, OthersPlaced
<1> QED
  BY <1>5, <1>6

(* Steps of the transaction, and of verifying, leave the files alone.       *)
LEMMA TransactionFiles ==
    ASSUME FilesInv, DatabaseInv, NEW s \in Sessions, Begin(s) \/ Write(s) \/ Commit(s)
    PROVE  FilesInv'
<1>1. job[s] \in Jobs /\ UNCHANGED fileVars /\ Busy(s)
  BY DEF Begin, Prepared, Write, InTransaction, Commit, Busy, DatabaseInv, JobsTyped
<1>2. Placed(job[s])
  BY <1>1 DEF FilesInv
<1>3. FilesTyped' /\ FilesKept
  BY <1>1, FilesStay DEF FilesInv, FilesTyped, fileVars
<1>4. job[s].step # Verifying /\ job[s].todo = {} /\ job[s].temp = FALSE
  <2>1. CASE Begin(s)
    BY <1>1, <1>2, <2>1 DEF Begin, Prepared, Placed, Verifying, LastStep, Jobs
  <2>2. CASE Write(s) \/ Commit(s)
    <3>1. InTransaction(s)
      BY <2>2 DEF Write, Commit, InTransaction, Busy, Committing, LastStep
    <3>2. Draft(job[s])
      BY <3>1 DEF DatabaseInv, DraftsExact
    <3> QED
      BY <1>1, <1>2, <3>1, <3>2 DEF Draft, Placed, InTransaction, Verifying, Committing, LastStep, Jobs
  <2> QED
    BY <2>1, <2>2
<1>5. \A d \in StagedDigests(job[s].seal.envelope) \ damaged : object[d] = "whole"
  BY <1>2, <1>4 DEF Placed
<1>6. /\ job'[s].todo = {} /\ job'[s].temp = FALSE
      /\ job'[s].seal.envelope = job[s].seal.envelope
      /\ \A t \in Sessions \ {s} : job'[t] = job[t]
  <2>1. DOMAIN job = Sessions /\ job[s].seal \in SealSet
    BY <1>1 DEF DatabaseInv, JobsTyped, Jobs
  <2>2. CASE Begin(s)
    <3> DEFINE j == [job[s] EXCEPT !.step = 1, !.view = db, !.seal.generation = NextGeneration(Generations)]
    <3>1. job' = [job EXCEPT ![s] = j]
      BY <1>1, <2>1, <2>2 DEF Begin, Jobs, SealSet
    <3>2. j.todo = job[s].todo /\ j.temp = job[s].temp /\ j.seal.envelope = job[s].seal.envelope
      BY <1>1, <2>1 DEF Jobs, SealSet
    <3> HIDE DEF j
    <3> QED
      BY <1>4, <2>1, <3>1, <3>2
  <2>3. CASE Write(s)
    <3> DEFINE j == [job[s] EXCEPT !.view = @ \cup StepOf(s), !.step = @ + 1]
    <3>1. job' = [job EXCEPT ![s] = j]
      BY <1>1, <2>1, <2>3 DEF Write, Jobs
    <3>2. j.todo = job[s].todo /\ j.temp = job[s].temp /\ j.seal = job[s].seal
      BY <1>1 DEF Jobs
    <3> HIDE DEF j
    <3> QED
      BY <1>4, <2>1, <3>1, <3>2
  <2>4. CASE Commit(s)
    <3> DEFINE j == [job[s] EXCEPT !.step = Verifying, !.view = {}]
    <3>1. job' = [job EXCEPT ![s] = j]
      BY <1>1, <2>1, <2>4 DEF Commit, Jobs
    <3>2. j.todo = job[s].todo /\ j.temp = job[s].temp /\ j.seal = job[s].seal
      BY <1>1 DEF Jobs
    <3> HIDE DEF j
    <3> QED
      BY <1>4, <2>1, <3>1, <3>2
  <2> QED
    BY <2>2, <2>3, <2>4
<1>7. Placed(job[s])'
  BY <1>1, <1>5, <1>6 DEF Placed, fileVars
<1>8. ASSUME NEW t \in Sessions, Busy(t)', t # s
      PROVE  Placed(job[t])'
  <2>1. job'[t] = job[t] /\ Placed(job[t]) /\ job[t] \in Jobs
    BY <1>6, <1>8 DEF FilesInv, Busy, DatabaseInv, JobsTyped
  <2> QED
    BY <1>3, <2>1, PlacedStays DEF Placed
<1>9. SealedFilesWhole'
  <2>1. CASE Commit(s)
    <3>1. Seals' = Seals \cup {job[s].seal}
      BY <2>1, CommitSeals
    <3>2. object' = object /\ damaged' = damaged
      BY <1>1 DEF fileVars
    <3> QED
      BY <1>5, <3>1, <3>2 DEF FilesInv, SealedFilesWhole
  <2>2. CASE Begin(s) \/ Write(s)
    <3>1. Seals' = Seals
      BY <2>2 DEF Begin, Write, Seals
    <3> QED
      BY <1>3, <3>1, SealedStays DEF FilesInv, DatabaseInv
  <2> QED
    BY <2>1, <2>2
<1> QED
  BY <1>3, <1>7, <1>8, <1>9 DEF FilesInv

LEMMA BeginSealedFiles ==
    ASSUME FilesInv, DatabaseInv, NEW s \in Sessions, NEW seal \in Seals, BeginSealed(s, seal)
    PROVE  FilesInv'
<1> DEFINE j == [job[s] EXCEPT !.step = Verifying, !.seal = seal]
<1>1. /\ job[s] \in Jobs /\ db' = db /\ Busy(s) /\ job[s].todo = {} /\ UNCHANGED fileVars
      /\ seal \in SealSet
  BY DEF BeginSealed, Prepared, Busy, DatabaseInv, JobsTyped, SealsTyped
<1>2. job' = [job EXCEPT ![s] = j]
  BY <1>1 DEF BeginSealed, DatabaseInv, JobsTyped, Jobs
<1>3. FilesTyped' /\ FilesKept /\ Seals' = Seals
  BY <1>1, FilesStay DEF FilesInv, FilesTyped, fileVars, Seals
<1>4. job[s].temp = FALSE
  BY <1>1 DEF FilesInv, Placed, Jobs
<1>5. j.todo = {} /\ j.temp = FALSE /\ j.step = Verifying
  BY <1>1, <1>4 DEF Jobs
<1> HIDE DEF j
<1> QED
  BY <1>2, <1>3, <1>5, OthersPlaced DEF DatabaseInv

LEMMA CallFiles ==
    ASSUME FilesInv, DatabaseInv, NEW s \in Sessions, NEW e \in Envelopes, NEW at \in Times, Call(s, e, at)
    PROVE  FilesInv'
<1> DEFINE j == [seal |-> Seal(e, 0, at), todo |-> StagedDigests(e), temp |-> FALSE,
                 step |-> 0, view |-> {}]
<1>1. job' = [job EXCEPT ![s] = j] /\ UNCHANGED fileVars /\ db' = db
  BY DEF Call
<1>2. j.todo = StagedDigests(j.seal.envelope) /\ j.temp = FALSE
  BY DEF Seal
<1>3. FilesTyped' /\ FilesKept /\ Seals' = Seals
  BY <1>1, FilesStay DEF FilesInv, FilesTyped, fileVars, Seals
<1> HIDE DEF j
<1> QED
  BY <1>1, <1>2, <1>3, OthersPlaced

LEMMA CrashFiles ==
    ASSUME FilesInv, DatabaseInv, NEW s \in Sessions, Crash(s)
    PROVE  FilesInv'
<1>1. job' = [job EXCEPT ![s] = None] /\ UNCHANGED <<object, damaged, db>>
  BY DEF Crash
<1>2. job[s].temp => NextPayload(s) \in Digests
  BY DEF Crash, Busy, FilesInv, Placed, DatabaseInv, JobsTyped, Jobs, NextPayload
<1>3. FilesTyped' /\ FilesKept /\ Seals' = Seals
  BY <1>1, <1>2, FilesStay DEF Crash, FilesInv, FilesTyped, Seals
<1> QED
  BY <1>1, <1>3, OthersPlaced

(* Nobody's job changes: damage, or nothing at all. *)
LEMMA IdleFiles ==
    ASSUME FilesInv, DatabaseInv, job' = job, db' = db, FilesTyped', FilesKept
    PROVE  FilesInv'
<1>1. SealedFilesWhole'
  BY SealedStays DEF FilesInv, DatabaseInv, Seals
<1>2. ASSUME NEW t \in Sessions, Busy(t)'
      PROVE  Placed(job[t])'
  <2>1. Placed(job[t]) /\ job[t] \in Jobs
    BY <1>2 DEF FilesInv, Busy, DatabaseInv, JobsTyped
  <2> QED
    BY <2>1, PlacedStays DEF Placed
<1> QED
  BY <1>1, <1>2 DEF FilesInv

LEMMA FilesInvStep ==
    ASSUME FilesInv, DatabaseInv, [StoreNext]_vars
    PROVE  FilesInv'
<1>1. CASE UNCHANGED vars
  <2>1. FilesTyped' /\ FilesKept
    BY <1>1, FilesStay DEF vars, FilesInv, FilesTyped
  <2> QED
    BY <1>1, <2>1, IdleFiles DEF vars
<1>2. ASSUME NEW s \in Sessions, Progress(s)
      PROVE  FilesInv'
  <2>1. CASE Reuse(s) \/ WriteTemporary(s) \/ Publish(s)
    BY <2>1, StagingFiles
  <2>2. CASE StagingConflict(s) \/ BusyTimeout(s) \/ WriteConflict(s) \/ Verify(s)
    BY <2>2, AnswerFiles DEF StagingConflict, BusyTimeout, WriteConflict, Verify
  <2>3. CASE Begin(s) \/ Write(s) \/ Commit(s)
    BY <2>3, TransactionFiles
  <2>4. ASSUME NEW seal \in Seals, BeginSealed(s, seal) \/ BeginRemapped(s, seal)
        PROVE  FilesInv'
    BY <2>4, BeginSealedFiles, AnswerFiles DEF BeginRemapped
  <2> QED
    BY <1>2, <2>1, <2>2, <2>3, <2>4 DEF Progress
<1>3. ASSUME NEW s \in Sessions, Fail(s) \/ Crash(s)
      PROVE  FilesInv'
  BY <1>3, AnswerFiles, CrashFiles DEF Fail, RowsAfterRollback
<1>4. ASSUME NEW s \in Sessions, NEW e \in Envelopes, NEW at \in Times,
             Call(s, e, at) \/ Refuse(s, e, at)
      PROVE  FilesInv'
  BY <1>4, CallFiles, AnswerFiles DEF Refuse
<1>5. ASSUME NEW s \in Sessions, NEW seal \in Seals, ReadSeal(s, seal)
      PROVE  FilesInv'
  BY <1>5, AnswerFiles DEF ReadSeal
<1>6. ASSUME NEW d \in Damageable, Damage(d)
      PROVE  FilesInv'
  <2>1. PICK content \in {"absent", "bad"} : object' = [object EXCEPT ![d] = content]
    BY <1>6 DEF Damage
  <2>2. FilesTyped' /\ FilesKept
    BY <1>6, <2>1 DEF Damage, FilesInv, FilesTyped, FilesKept
  <2> QED
    BY <1>6, <2>2, IdleFiles DEF Damage
<1> QED
  BY <1>1, <1>2, <1>3, <1>4, <1>5, <1>6 DEF StoreNext

(* With the database, the files: what a session has staged is in its file. *)
THEOREM FilesInvariant == StoreSpec => [](DatabaseInv /\ FilesInv)
<1>1. StoreInit => FilesInv
  <2> SUFFICES ASSUME StoreInit PROVE FilesInv
    OBVIOUS
  <2>1. Seals = {}
    BY DEF StoreInit, Seals
  <2> QED
    BY <2>1 DEF StoreInit, FilesInv, FilesTyped, SealedFilesWhole, Busy
<1>2. DatabaseInv /\ FilesInv /\ [StoreNext]_vars => FilesInv'
  BY FilesInvStep
<1> QED
  BY <1>1, <1>2, DatabaseInvariant, PTL DEF StoreSpec

(* Every payload of a sealed admission is whole in its file, unless it was  *)
(* damaged from outside since: _stage_cas comes before BEGIN IMMEDIATE.     *)
THEOREM SealedFilesCorrect == StoreSpec => []SealedFilesWhole
<1>1. FilesInv => SealedFilesWhole
  BY DEF FilesInv
<1> QED
  BY <1>1, FilesInvariant, PTL

-----------------------------------------------------------------------------
(* Types. *)

CountersTyped == DOMAIN answer = Sessions /\ failures \in 0..MaxFailures

LEMMA CountersStep ==
    ASSUME CountersTyped, [StoreNext]_vars
    PROVE  CountersTyped'
<1> USE DEF CountersTyped
<1>1. CASE UNCHANGED vars
  BY <1>1 DEF vars
<1>2. ASSUME NEW s \in Sessions, Progress(s)
      PROVE  CountersTyped'
  BY <1>2 DEF Progress, Answers, Reuse, StagingConflict, WriteTemporary, Publish, Begin, BusyTimeout,
              Write, WriteConflict, Commit, Verify, BeginSealed, BeginRemapped
<1>3. ASSUME NEW s \in Sessions, Fail(s) \/ Crash(s)
      PROVE  CountersTyped'
  BY <1>3, StoreTimesAssumption DEF Fail, Crash, Answers
<1>4. ASSUME NEW s \in Sessions, NEW e \in Envelopes, NEW at \in Times,
             Call(s, e, at) \/ Refuse(s, e, at)
      PROVE  CountersTyped'
  BY <1>4 DEF Call, Refuse, Answers
<1>5. ASSUME NEW s \in Sessions, NEW seal \in Seals, ReadSeal(s, seal)
      PROVE  CountersTyped'
  BY <1>5 DEF ReadSeal, Answers
<1>6. ASSUME NEW d \in Damageable, Damage(d)
      PROVE  CountersTyped'
  BY <1>6 DEF Damage
<1> QED
  BY <1>1, <1>2, <1>3, <1>4, <1>5, <1>6 DEF StoreNext

(* Jobs, files, rows of seals and answers have the shape of the code's.     *)
THEOREM StoreTypeCorrect == StoreSpec => []StoreTypeOK
<1>1. StoreInit => CountersTyped
  BY StoreTimesAssumption DEF StoreInit, CountersTyped
<1>2. CountersTyped /\ [StoreNext]_vars => CountersTyped'
  BY CountersStep
<1>3. DatabaseInv /\ FilesInv /\ CountersTyped => StoreTypeOK
  <2> SUFFICES ASSUME DatabaseInv, FilesInv, CountersTyped PROVE StoreTypeOK
    OBVIOUS
  <2>1. ASSUME NEW s \in Sessions, Busy(s)
        PROVE  /\ job[s].seal.envelope \in Envelopes /\ job[s].seal.at \in Times
               /\ job[s].seal.generation \in Nat
               /\ job[s].todo \subseteq StagedDigests(job[s].seal.envelope)
               /\ job[s].temp \in BOOLEAN
               /\ job[s].step \in 0..Verifying
    BY <2>1 DEF DatabaseInv, JobsTyped, Busy, Jobs, SealSet, FilesInv, Placed
  <2>2. Seals \subseteq [envelope: Envelopes, generation: Nat \ {0}, at: Times]
    <3>1. Cardinality(Seals) \in Nat
      BY FS_CardinalityType DEF DatabaseInv, SealsTyped
    <3>2. \A seal \in Seals : seal.generation \in 1..Cardinality(Seals)
      BY DEF DatabaseInv, SealsNumbered, GenerationsDense
    <3> QED
      BY <3>1, <3>2 DEF DatabaseInv, SealsTyped, SealSet
  <2> QED
    BY <2>1, <2>2 DEF StoreTypeOK, CountersTyped, FilesInv, FilesTyped, DatabaseInv, JobsTyped
<1> QED
  BY <1>1, <1>2, <1>3, FilesInvariant, PTL DEF StoreSpec

-----------------------------------------------------------------------------
(* The store implements the book. *)

(* What Book is: the envelopes in the order of their generations. *)
BookInOrder ==
    /\ Cardinality(Seals) \in Nat
    /\ Book \in Seq(Envelopes) /\ Len(Book) = Cardinality(Seals)
    /\ \A seal \in Seals : seal.generation \in 1..Cardinality(Seals)
                           /\ Book[seal.generation] = seal.envelope
    /\ \A i \in 1..Cardinality(Seals) : \E seal \in Seals : seal.generation = i

LEMMA BookOfSeals == DatabaseInv => BookInOrder
<1> SUFFICES ASSUME DatabaseInv PROVE BookInOrder
  OBVIOUS
<1> DEFINE n == Cardinality(Seals)
           Of(i) == CHOOSE seal \in Seals : seal.generation = i
<1>1. n \in Nat
  BY FS_CardinalityType DEF DatabaseInv, SealsTyped
<1>2. {seal.generation : seal \in Seals} = 1..n
  BY DEF DatabaseInv, SealsNumbered, GenerationsDense
<1>3. \A i \in 1..n : \E seal \in Seals : seal.generation = i
  BY <1>2
<1>4. \A i \in 1..n : Of(i) \in Seals /\ Of(i).generation = i
  BY <1>3
<1>5. \A seal \in Seals : seal.generation \in 1..n /\ Of(seal.generation) = seal
  BY <1>2, <1>4 DEF DatabaseInv, SealsNumbered
<1>6. Book = [i \in 1..n |-> Of(i).envelope]
  BY DEF Book
<1> HIDE DEF n, Of
<1>7. \A i \in 1..n : Of(i).envelope \in Envelopes
  BY <1>4 DEF DatabaseInv, SealsTyped, SealSet
<1>8. Book \in [1..n -> Envelopes]
  BY <1>6, <1>7
<1>9. Book \in Seq(Envelopes) /\ Len(Book) = n
  BY <1>1, <1>8
<1>10. \A seal \in Seals : seal.generation \in 1..n /\ Book[seal.generation] = seal.envelope
  BY <1>5, <1>6
<1> QED
  BY <1>1, <1>3, <1>9, <1>10 DEF n, BookInOrder

LEMMA CommitAdmits ==
    ASSUME DatabaseInv, NEW s \in Sessions, Commit(s), BookInOrder, BookInOrder'
    PROVE  SealBook!Admit(job[s].seal.envelope) /\ job[s].seal.envelope \in Envelopes
<1> DEFINE seal == job[s].seal
           n == Cardinality(Seals)
<1>1. /\ Seals' = Seals \cup {seal} /\ seal \in SealSet /\ seal \notin Seals
      /\ seal.generation = n + 1 /\ SealOf(seal.envelope.run) = {}
  BY CommitSeals
<1>2. Cardinality(Seals') = n + 1 /\ n \in Nat
  BY <1>1, FS_CardinalityType, FS_AddElement DEF DatabaseInv, SealsTyped
<1>3. /\ Book \in Seq(Envelopes) /\ Len(Book) = n
      /\ \A x \in Seals : x.generation \in 1..n /\ Book[x.generation] = x.envelope
      /\ \A i \in 1..n : \E x \in Seals : x.generation = i
  BY DEF BookInOrder
<1>4. /\ Book' \in Seq(Envelopes) /\ Len(Book') = n + 1
      /\ \A x \in Seals' : Book'[x.generation] = x.envelope
  BY <1>2 DEF BookInOrder
<1> HIDE DEF seal, n
<1>5. seal.envelope \in Envelopes
  BY <1>1 DEF SealSet
<1>6. \A i \in 1..n : Book'[i] = Book[i]
  BY <1>1, <1>3, <1>4
<1>7. Book'[n + 1] = seal.envelope
  BY <1>1, <1>4
<1>8. Book' = Append(Book, seal.envelope)
  <2> DEFINE longer == Append(Book, seal.envelope)
  <2>1. /\ longer \in Seq(Envelopes) /\ Len(longer) = n + 1
        /\ \A i \in 1..n : longer[i] = Book[i]
        /\ longer[n + 1] = seal.envelope
    BY <1>2, <1>3, <1>5
  <2>2. 1..(n + 1) = 1..n \cup {n + 1}
    BY <1>2
  <2> HIDE DEF longer
  <2>3. \A i \in 1..(n + 1) : Book'[i] = longer[i]
    BY <1>6, <1>7, <2>1, <2>2
  <2>4. Book' = longer
    BY <1>4, <2>1, <2>3, SeqEqual
  <2> QED
    BY <2>4 DEF longer
<1>9. seal.envelope.run \notin {Book[i].run : i \in DOMAIN Book}
  <2>1. DOMAIN Book = 1..n
    BY <1>2, <1>3
  <2>2. \A x \in Seals : x.envelope.run # seal.envelope.run
    BY <1>1 DEF SealOf
  <2> QED
    BY <1>3, <2>1, <2>2
<1> QED
  BY <1>5, <1>8, <1>9 DEF SealBook!Admit, SealBook!SealedRuns, seal

(* Every behaviour of the store is one of the book: a commit admits one     *)
(* envelope under the next generation, everything else leaves the book.     *)
THEOREM StoreKeepsTheBook == StoreSpec => KeepsTheBook
<1>1. StoreInit => SealBook!BookInit
  <2> SUFFICES ASSUME StoreInit PROVE Book = <<>>
    BY DEF SealBook!BookInit
  <2>1. DatabaseInv /\ Seals = {}
    BY DatabaseInvInit DEF StoreInit, Seals
  <2>2. Book \in Seq(Envelopes) /\ Len(Book) = 0
    BY <2>1, BookOfSeals, FS_EmptySet DEF BookInOrder
  <2> QED
    BY <2>2
<1>2. DatabaseInv /\ BookInOrder /\ BookInOrder' /\ [StoreNext]_vars => [SealBook!BookNext]_Book
  <2> SUFFICES ASSUME DatabaseInv, BookInOrder, BookInOrder', [StoreNext]_vars
               PROVE  SealBook!BookNext \/ Book' = Book
    OBVIOUS
  <2>1. ASSUME NEW s \in Sessions, Commit(s)
        PROVE  SealBook!BookNext
    BY <2>1, CommitAdmits DEF SealBook!BookNext
  <2>2. db' = db \/ \E s \in Sessions : Commit(s)
    BY DEF StoreNext, vars, Progress, Reuse, StagingConflict, WriteTemporary, Publish, Begin,
           BusyTimeout, Write, WriteConflict, Verify, BeginSealed, BeginRemapped, Fail, Crash,
           RowsAfterRollback, Call, Refuse, ReadSeal, Damage
  <2>3. db' = db => Book' = Book
    BY DEF Book, Seals
  <2> QED
    BY <2>1, <2>2, <2>3
<1> QED
  BY <1>1, <1>2, BookOfSeals, DatabaseInvariant, PTL DEF StoreSpec, KeepsTheBook, SealBook!BookSpec

-----------------------------------------------------------------------------
(* What the key of a row says of its value. *)

(* The payload a link of the run to its files stands for. *)
PayloadAt(e, role, release, artifact) ==
    CASE role = "manifest" -> e.nodes[release].manifest
      [] role = "status_response" -> e.status[release].response
      [] role = "artifact" -> ArtifactAt(e, <<release, artifact>>)

RunTables == {"generation", "seal", "release_head", "cas_link", "pin_release", "pin_artifact"}

TableFits(seal, row) ==
    LET e == seal.envelope
        key == row.key
    IN  /\ key[1] \in OrdinaryTables \cup {"generation", "seal"}
        /\ key[1] \in RunTables => key[2] = e.run
        /\ key[1] \in {"cas_object", "pin_release"} => row.value = Itself
        /\ key[1] = "generation" => row.value = [generation |-> seal.generation]
        /\ key[1] = "seal" => row.value = seal
        /\ key[1] = "release_head" => row.value = [seen |-> e.status[key[3]]]
        /\ key[1] = "pin_artifact" => row.value = [cas |-> ArtifactAt(e, key[3])]
        /\ key[1] = "cas_link" => row.value = [cas |-> PayloadAt(e, key[3], key[4], key[5])]

ContentKinds == {"receipt", "closure", "status_evidence", "admission_envelope"}
RunKinds == {"request", "fetch_observation", "admission_observation", "preregistration",
             "strategy_run_manifest", "confirmation"}
ReleaseKinds == {"release_identity", "release_manifest_index", "release_artifact_index"}

OfRun(e, kind) ==
    CASE kind \in {"request", "preregistration"} -> [request |-> e.request]
      [] kind = "fetch_observation" -> [receipt |-> Receipt(e)]
      [] kind = "admission_observation" -> [seen |-> e.status[e.root], confirmed |-> e.confirmed]
      [] kind = "strategy_run_manifest" ->
           [request |-> e.request, receipt |-> Receipt(e), created |-> e.confirmed]
      [] kind = "confirmation" -> [items |-> e.status, confirmed |-> e.confirmed]

DocumentFits(e, row) ==
    LET kind == row.key[2]
        id == row.key[3]
    IN  /\ kind \in ContentKinds \cup RunKinds \cup ReleaseKinds \cup {"status_observation"}
        /\ kind \in ContentKinds => row.value = Itself
        /\ kind \in RunKinds => id = e.run /\ row.value = OfRun(e, kind)
        /\ kind = "status_observation" => id[1] = e.run /\ row.value = [seen |-> e.status[id[2]]]
        /\ kind = "release_identity" => id \in Members(e) /\ row.value = [ref |-> e.nodes[id].ref]
        /\ kind = "release_manifest_index" => id \in Members(e) /\ row.value = [cas |-> e.nodes[id].manifest]
        /\ kind = "release_artifact_index" => id \in ArtifactKeys(e) /\ row.value = [cas |-> ArtifactAt(e, id)]

(* The links of an admission: a parent and all its children. *)
Families(e) ==
    {<<ReceiptName(e), ReceiptLinks(e)>>, <<ClosureName(e), ClosureLinks(e)>>,
     <<ConfirmationName(e), ConfirmationLinks(e)>>, <<EnvelopeName(e), EnvelopeLinks(e)>>}

Fits(seal, row) ==
    /\ TableFits(seal, row)
    /\ row.key[1] = "document" => DocumentFits(seal.envelope, row)
    /\ row.key[1] = "link" => \E f \in Families(seal.envelope) : row.key[2] = f[1] /\ row \in f[2]

LEMMA DocumentIs ==
    ASSUME NEW seal, NEW kind, NEW id, NEW value,
           DocumentFits(seal.envelope, Document(kind, id, value))
    PROVE  Fits(seal, Document(kind, id, value))
BY DEF Fits, TableFits, OrdinaryTables, RunTables, Document, Row

LEMMA FamilyIs ==
    ASSUME NEW e, NEW f \in Families(e), NEW row \in f[2]
    PROVE  row.key[1] = "link" /\ row.key[2] = f[1]
<1>1. ASSUME NEW x \in ReceiptLinks(e) PROVE x.key[1] = "link" /\ x.key[2] = ReceiptName(e)
  BY DEF ReceiptLinks, Link, Row
<1>2. ASSUME NEW x \in ClosureLinks(e) PROVE x.key[1] = "link" /\ x.key[2] = ClosureName(e)
  BY DEF ClosureLinks, Link, Row
<1>3. ASSUME NEW x \in ConfirmationLinks(e) PROVE x.key[1] = "link" /\ x.key[2] = ConfirmationName(e)
  BY DEF ConfirmationLinks, Link, Row
<1>4. ASSUME NEW x \in EnvelopeLinks(e) PROVE x.key[1] = "link" /\ x.key[2] = EnvelopeName(e)
  BY DEF EnvelopeLinks, Link, Row
<1>. QED
  BY <1>1, <1>2, <1>3, <1>4 DEF Families

LEMMA LinkFits ==
    ASSUME NEW seal, NEW f \in Families(seal.envelope), NEW row \in f[2]
    PROVE  Fits(seal, row)
<1>1. row.key[1] = "link" /\ row.key[2] = f[1]
  BY FamilyIs
<1>. QED
  BY <1>1 DEF Fits, TableFits, OrdinaryTables, RunTables

LEMMA RowsFit ==
    ASSUME NEW seal, NEW step \in 1..LastStep, NEW row \in StepRows(step, seal)
    PROVE  Fits(seal, row)
<1>. DEFINE e == seal.envelope
<1>1. ASSUME NEW x \in IdentityRows(e) PROVE Fits(seal, x)
  <2>1. CASE \E r \in Members(e) : x = Document("release_identity", r, [ref |-> e.nodes[r].ref])
    BY <2>1, DocumentIs DEF DocumentFits, ContentKinds, RunKinds, ReleaseKinds, Document, Row
  <2>2. CASE \E r \in Members(e) : x = Document("release_manifest_index", r, [cas |-> e.nodes[r].manifest])
    BY <2>2, DocumentIs DEF DocumentFits, ContentKinds, RunKinds, ReleaseKinds, Document, Row
  <2>3. CASE \E k \in ArtifactKeys(e) : x = Document("release_artifact_index", k, [cas |-> ArtifactAt(e, k)])
    BY <2>3, DocumentIs DEF DocumentFits, ContentKinds, RunKinds, ReleaseKinds, Document, Row
  <2>. QED
    BY <1>1, <2>1, <2>2, <2>3 DEF IdentityRows
<1>2. \A x \in ReceiptLinks(e) \cup ClosureLinks(e) \cup ConfirmationLinks(e) \cup EnvelopeLinks(e) : Fits(seal, x)
  <2>1. \A f \in Families(e) : \A x \in f[2] : Fits(seal, x)
    BY LinkFits
  <2>. QED
    BY <2>1 DEF Families
<1>3. ASSUME NEW kind \in ContentKinds, NEW id PROVE Fits(seal, Document(kind, id, Itself))
  <2>1. DocumentFits(e, Document(kind, id, Itself))
    BY <1>3 DEF DocumentFits, ContentKinds, RunKinds, ReleaseKinds, Document, Row
  <2>. QED
    BY <2>1, DocumentIs
<1>4. ASSUME NEW kind \in RunKinds PROVE Fits(seal, Document(kind, e.run, OfRun(e, kind)))
  <2>1. DocumentFits(e, Document(kind, e.run, OfRun(e, kind)))
    BY <1>4 DEF DocumentFits, ContentKinds, RunKinds, ReleaseKinds, Document, Row
  <2>. QED
    BY <2>1, DocumentIs
<1>5. ASSUME NEW x \in ReceiptClosureRows(e) PROVE Fits(seal, x)
  <2>1. OfRun(e, "request") = [request |-> e.request]
    BY DEF OfRun
  <2>. QED
    BY <1>2, <1>3, <1>4, <1>5, <2>1 DEF ReceiptClosureRows, ContentKinds, RunKinds
<1>6. ASSUME NEW x \in ObservationRows(e) PROVE Fits(seal, x)
  <2>1. /\ OfRun(e, "fetch_observation") = [receipt |-> Receipt(e)]
        /\ OfRun(e, "admission_observation") = [seen |-> e.status[e.root], confirmed |-> e.confirmed]
    BY DEF OfRun
  <2>2. CASE \E r \in Members(e) : x = Document("status_observation", <<e.run, r>>, [seen |-> e.status[r]])
    BY <2>2, DocumentIs DEF DocumentFits, ContentKinds, RunKinds, ReleaseKinds, Document, Row
  <2>3. CASE \E r \in Members(e) : x = Document("status_evidence", <<e.run, r, e.status[r]>>, Itself)
    BY <1>3, <2>3 DEF ContentKinds
  <2>4. CASE x \in HeadRows(e)
    BY <2>4 DEF HeadRows, Fits, TableFits, OrdinaryTables, RunTables, Row
  <2>. QED
    BY <1>4, <1>6, <2>1, <2>2, <2>3, <2>4 DEF ObservationRows, RunKinds
<1>7. ASSUME NEW x \in PreregistrationRows(e) \cup ManifestRows(e) \cup ConfirmationRows(e) PROVE Fits(seal, x)
  <2>1. /\ OfRun(e, "preregistration") = [request |-> e.request]
        /\ OfRun(e, "strategy_run_manifest") =
             [request |-> e.request, receipt |-> Receipt(e), created |-> e.confirmed]
        /\ OfRun(e, "confirmation") = [items |-> e.status, confirmed |-> e.confirmed]
    BY DEF OfRun
  <2>. QED
    BY <1>2, <1>4, <1>7, <2>1 DEF PreregistrationRows, ManifestRows, ConfirmationRows, RunKinds
<1>8. ASSUME NEW x \in PinsRows(e) PROVE Fits(seal, x)
  <2>1. CASE \E d \in StagedDigests(e) : x = Row(<<"cas_object", d>>, Itself)
    BY <2>1 DEF Fits, TableFits, OrdinaryTables, RunTables, Row
  <2>2. CASE x \in CasLinkRows(e)
    <3>1. PICK p \in Staged(e) : x = Row(<<"cas_link", e.run, p[1], p[2], p[3]>>, [cas |-> p[4]])
      BY <2>2 DEF CasLinkRows
    <3>2. p[4] = PayloadAt(e, p[1], p[2], p[3])
      <4>1. CASE \E r \in Members(e) : p = <<"manifest", r, None, e.nodes[r].manifest>>
        BY <4>1 DEF PayloadAt
      <4>2. CASE \E r \in Members(e) : p = <<"status_response", r, None, e.status[r].response>>
        BY <4>2 DEF PayloadAt
      <4>3. CASE \E k \in ArtifactKeys(e) : p = <<"artifact", k[1], k[2], ArtifactAt(e, k)>>
        BY <4>3 DEF PayloadAt, ArtifactKeys
      <4>. QED
        BY <4>1, <4>2, <4>3 DEF Staged
    <3>. QED
      BY <3>1, <3>2 DEF Fits, TableFits, OrdinaryTables, RunTables, Row
  <2>3. CASE x \in PinRows(e)
    BY <2>3 DEF PinRows, Fits, TableFits, OrdinaryTables, RunTables, Row
  <2>4. CASE x \in ArtifactPinRows(e)
    BY <2>4 DEF ArtifactPinRows, Fits, TableFits, OrdinaryTables, RunTables, Row
  <2>. QED
    BY <1>8, <2>1, <2>2, <2>3, <2>4 DEF PinsRows
<1>9. ASSUME NEW x \in EnvelopeRows(e) PROVE Fits(seal, x)
  BY <1>2, <1>3, <1>9 DEF EnvelopeRows, ContentKinds
<1>10. Fits(seal, GenerationRow(e.run, seal.generation))
  BY DEF GenerationRow, Fits, TableFits, OrdinaryTables, RunTables, Row
<1>11. Fits(seal, SealRow(seal))
  BY DEF SealRow, Fits, TableFits, OrdinaryTables, RunTables, Row
<1>12. step \in 1..10
  BY DEF LastStep
<1>13. /\ StepRows(1, seal) = IdentityRows(e) /\ StepRows(2, seal) = ReceiptClosureRows(e)
       /\ StepRows(3, seal) = ObservationRows(e) /\ StepRows(4, seal) = PreregistrationRows(e)
       /\ StepRows(5, seal) = ManifestRows(e) /\ StepRows(6, seal) = ConfirmationRows(e)
       /\ StepRows(7, seal) = PinsRows(e) /\ StepRows(8, seal) = EnvelopeRows(e)
       /\ StepRows(9, seal) = {GenerationRow(e.run, seal.generation)} /\ StepRows(10, seal) = {SealRow(seal)}
  BY DEF StepRows
<1>. HIDE DEF e
<1>14. step \in {1, 2, 3, 4, 5, 6, 7, 8, 9, 10}
  BY <1>12
<1>. QED
  BY <1>1, <1>5, <1>6, <1>7, <1>8, <1>9, <1>10, <1>11, <1>13, <1>14

(* Admissions of one run are one admission. *)
Apart(a, b) == a.envelope.run = b.envelope.run => a = b

(* Two families of one parent are the same. *)
LEMMA FamiliesAgree ==
    ASSUME NEW a, NEW b, Apart(a, b),
           NEW f \in Families(a.envelope), NEW g \in Families(b.envelope), f[1] = g[1]
    PROVE  f[2] = g[2]
<1>. DEFINE d == a.envelope
            e == b.envelope
<1>1. ReceiptName(d) = ReceiptName(e) => ReceiptLinks(d) = ReceiptLinks(e)
  BY DEF ReceiptName, ReceiptLinks
<1>2. ClosureName(d) = ClosureName(e) => ClosureLinks(d) = ClosureLinks(e)
  BY DEF ClosureName, ClosureLinks, ArtifactKeys, ArtifactAt, Members
<1>3. ConfirmationName(d) = ConfirmationName(e) => ConfirmationLinks(d) = ConfirmationLinks(e)
  <2>1. ConfirmationName(d) = ConfirmationName(e) => a = b
    BY DEF ConfirmationName, Apart
  <2>. QED
    BY <2>1
<1>4. EnvelopeName(d) = EnvelopeName(e) => EnvelopeLinks(d) = EnvelopeLinks(e)
  BY DEF EnvelopeName
<1>5. \A x \in {d, e} : /\ ReceiptName(x)[1] = "receipt" /\ ClosureName(x)[1] = "closure"
                        /\ ConfirmationName(x)[1] = "confirmation" /\ EnvelopeName(x)[1] = "admission_envelope"
  BY DEF ReceiptName, ClosureName, ConfirmationName, EnvelopeName
<1>. HIDE DEF d, e
<1>. QED
  BY <1>1, <1>2, <1>3, <1>4, <1>5 DEF Families, d, e

(* In a family the role of a child says which child it is. *)
LEMMA ChildrenDiffer ==
    ASSUME NEW e, NEW f \in Families(e), NEW x \in f[2], NEW y \in f[2], x.key = y.key
    PROVE  x.value = y.value
<1>1. CASE x \in ReceiptLinks(e) /\ y \in ReceiptLinks(e)
  BY <1>1 DEF ReceiptLinks, Link, Row
<1>2. CASE x \in ClosureLinks(e) /\ y \in ClosureLinks(e)
  <2>1. ASSUME NEW z \in ClosureLinks(e)
        PROVE  z.value = CASE z.key[3][1] = "release" -> [node |-> e.nodes[z.key[3][2]]]
                           [] z.key[3][1] = "artifact" -> [target |-> ArtifactAt(e, z.key[3][2])]
                           [] z.key[3][1] = "dependency" -> Itself
    <3>1. CASE \E r \in Members(e) : z = Link(ClosureName(e), <<"release", r>>, [node |-> e.nodes[r]])
      BY <3>1 DEF Link, Row
    <3>2. CASE \E k \in ArtifactKeys(e) : z = Link(ClosureName(e), <<"artifact", k>>, [target |-> ArtifactAt(e, k)])
      BY <3>2 DEF Link, Row
    <3>3. CASE \E r \in Members(e) : \E d \in e.nodes[r].deps :
                 z = Link(ClosureName(e), <<"dependency", <<r, d>>>>, Itself)
      BY <3>3 DEF Link, Row
    <3>. QED
      BY <2>1, <3>1, <3>2, <3>3 DEF ClosureLinks
  <2>. QED
    BY <1>2, <2>1
<1>3. CASE x \in ConfirmationLinks(e) /\ y \in ConfirmationLinks(e)
  BY <1>3 DEF ConfirmationLinks, Link, Row
<1>4. CASE x \in EnvelopeLinks(e) /\ y \in EnvelopeLinks(e)
  <2>. DEFINE children == {<<"request", e.request>>, ReceiptName(e), ClosureName(e),
                           <<"manifest", e.run>>, ConfirmationName(e)}
  <2>1. PICK p \in children, q \in children :
          x = Link(EnvelopeName(e), <<p[1]>>, [child |-> p]) /\ y = Link(EnvelopeName(e), <<q[1]>>, [child |-> q])
    BY <1>4 DEF EnvelopeLinks
  <2>2. p[1] = q[1]
    BY <2>1 DEF Link, Row
  <2>3. p = q
    BY <2>2 DEF ReceiptName, ClosureName, ConfirmationName
  <2>. QED
    BY <2>1, <2>3
<1>5. f[2] \in {ReceiptLinks(e), ClosureLinks(e), ConfirmationLinks(e), EnvelopeLinks(e)}
  BY DEF Families
<1>. QED
  BY <1>1, <1>2, <1>3, <1>4, <1>5

(* The children of a parent are written in one step. *)
LEMMA FamilyTogether ==
    ASSUME NEW seal, NEW step \in 1..LastStep, NEW row \in StepRows(step, seal),
           NEW f \in Families(seal.envelope), row.key[1] = "link", row.key[2] = f[1]
    PROVE  f[2] \subseteq StepRows(step, seal)
<1>. DEFINE e == seal.envelope
<1>1. /\ ReceiptName(e)[1] = "receipt" /\ ClosureName(e)[1] = "closure"
      /\ ConfirmationName(e)[1] = "confirmation" /\ EnvelopeName(e)[1] = "admission_envelope"
  BY DEF ReceiptName, ClosureName, ConfirmationName, EnvelopeName
<1>2. \A g \in Families(e) : \A x \in g[2] : x.key[1] = "link" /\ x.key[2] = g[1]
  BY FamilyIs
<1>3. /\ \A x \in ReceiptLinks(e) : x.key[2] = ReceiptName(e)
      /\ \A x \in ClosureLinks(e) : x.key[2] = ClosureName(e)
      /\ \A x \in ConfirmationLinks(e) : x.key[2] = ConfirmationName(e)
      /\ \A x \in EnvelopeLinks(e) : x.key[2] = EnvelopeName(e)
  BY <1>2 DEF Families
<1>4. \A kind, id, value : Document(kind, id, value).key[1] = "document"
  BY DEF Document, Row
<1>5. \A x \in IdentityRows(e) \cup PreregistrationRows(e) \cup ManifestRows(e) : x.key[1] # "link"
  BY <1>4 DEF IdentityRows, PreregistrationRows, ManifestRows
<1>6. ASSUME NEW x \in ObservationRows(e)
      PROVE  x.key[1] # "link"
  <2>1. CASE x \in HeadRows(e)
    BY <2>1 DEF HeadRows, Row
  <2>2. CASE \E kind, id, value : x = Document(kind, id, value)
    BY <1>4, <2>2
  <2>. QED
    BY <2>1, <2>2 DEF ObservationRows
<1>7. \A x \in PinsRows(e) : x.key[1] # "link"
  BY DEF PinsRows, CasLinkRows, PinRows, ArtifactPinRows, Row
<1>8. GenerationRow(e.run, seal.generation).key[1] # "link" /\ SealRow(seal).key[1] # "link"
  BY DEF GenerationRow, SealRow, Row
<1>9. \A x \in ReceiptClosureRows(e) : x.key[1] = "link" => x \in ReceiptLinks(e) \cup ClosureLinks(e)
  BY <1>4 DEF ReceiptClosureRows
<1>10. \A x \in ConfirmationRows(e) : x.key[1] = "link" => x \in ConfirmationLinks(e)
  BY <1>4 DEF ConfirmationRows
<1>11. \A x \in EnvelopeRows(e) : x.key[1] = "link" => x \in EnvelopeLinks(e)
  BY <1>4 DEF EnvelopeRows
<1>12. /\ ReceiptLinks(e) \cup ClosureLinks(e) \subseteq ReceiptClosureRows(e)
       /\ ConfirmationLinks(e) \subseteq ConfirmationRows(e) /\ EnvelopeLinks(e) \subseteq EnvelopeRows(e)
  BY DEF ReceiptClosureRows, ConfirmationRows, EnvelopeRows
<1>13. /\ StepRows(1, seal) = IdentityRows(e) /\ StepRows(2, seal) = ReceiptClosureRows(e)
       /\ StepRows(3, seal) = ObservationRows(e) /\ StepRows(4, seal) = PreregistrationRows(e)
       /\ StepRows(5, seal) = ManifestRows(e) /\ StepRows(6, seal) = ConfirmationRows(e)
       /\ StepRows(7, seal) = PinsRows(e) /\ StepRows(8, seal) = EnvelopeRows(e)
       /\ StepRows(9, seal) = {GenerationRow(e.run, seal.generation)} /\ StepRows(10, seal) = {SealRow(seal)}
  BY DEF StepRows
<1>14. step \in {1, 2, 3, 4, 5, 6, 7, 8, 9, 10}
  BY DEF LastStep
<1>. DEFINE names == {ReceiptName(e), ClosureName(e), ConfirmationName(e), EnvelopeName(e)}
<1>15. /\ f[1] = ReceiptName(e) => f[2] = ReceiptLinks(e)
       /\ f[1] = ClosureName(e) => f[2] = ClosureLinks(e)
       /\ f[1] = ConfirmationName(e) => f[2] = ConfirmationLinks(e)
       /\ f[1] = EnvelopeName(e) => f[2] = EnvelopeLinks(e)
       /\ f[1] \in names
  BY <1>1 DEF Families
<1>. HIDE DEF e
<1>16. CASE step = 2
  BY <1>3, <1>9, <1>12, <1>13, <1>15, <1>16
<1>17. CASE step = 6
  BY <1>3, <1>10, <1>12, <1>13, <1>15, <1>17
<1>18. CASE step = 8
  BY <1>3, <1>11, <1>12, <1>13, <1>15, <1>18
<1>19. step \in {2, 6, 8}
  BY <1>5, <1>6, <1>7, <1>8, <1>13, <1>14
<1>. QED
  BY <1>16, <1>17, <1>18, <1>19

-----------------------------------------------------------------------------
(* Rows that conflict are of admissions that disagree. *)

LEMMA KeysAre ==
    ASSUME NEW e, NEW k \in ArtifactKeys(e)
    PROVE  k[1] \in Members(e) /\ k[2] \in DOMAIN e.nodes[k[1]].artifacts
BY DEF ArtifactKeys

(* A key stands for one value. *)
LEMMA KeysAgree ==
    ASSUME NEW a, NEW b, Apart(a, b), ~Disagree(a.envelope, b.envelope),
           NEW x, NEW y, Fits(a, x), Fits(b, y), x.key = y.key
    PROVE  x.value = y.value
<1>. DEFINE d == a.envelope
            e == b.envelope
<1>1. CASE x.key[1] = "link"
  <2>1. PICK f \in Families(d) : x.key[2] = f[1] /\ x \in f[2]
    BY <1>1 DEF Fits
  <2>2. PICK g \in Families(e) : y.key[2] = g[1] /\ y \in g[2]
    BY <1>1 DEF Fits
  <2>3. f[2] = g[2]
    BY <2>1, <2>2, FamiliesAgree
  <2>. QED
    BY <2>2, <2>1, <2>3, ChildrenDiffer
<1>2. CASE x.key[1] = "document"
  <2>1. DocumentFits(d, x) /\ DocumentFits(e, y)
    BY <1>2 DEF Fits
  <2>. DEFINE kind == x.key[2]
              id == x.key[3]
  <2>2. y.key[2] = kind /\ y.key[3] = id
    OBVIOUS
  <2>3. CASE kind \in ContentKinds
    BY <2>1, <2>3 DEF DocumentFits
  <2>4. CASE kind \in RunKinds
    <3>1. id = d.run /\ id = e.run
      BY <2>1, <2>2, <2>4 DEF DocumentFits
    <3>2. a = b
      BY <3>1 DEF Apart
    <3>. QED
      BY <2>1, <2>2, <2>4, <3>2 DEF DocumentFits
  <2>5. CASE kind = "status_observation"
    <3>1. id[1] = d.run /\ id[1] = e.run
      BY <2>1, <2>2, <2>5 DEF DocumentFits
    <3>2. a = b
      BY <3>1 DEF Apart
    <3>. QED
      BY <2>1, <2>2, <2>5, <3>2 DEF DocumentFits
  <2>6. CASE kind = "release_identity"
    BY <2>1, <2>2, <2>6 DEF DocumentFits, Disagree
  <2>7. CASE kind = "release_manifest_index"
    BY <2>1, <2>2, <2>7 DEF DocumentFits, Disagree
  <2>8. CASE kind = "release_artifact_index"
    <3>1. /\ id \in ArtifactKeys(d) /\ id \in ArtifactKeys(e)
          /\ x.value = [cas |-> ArtifactAt(d, id)] /\ y.value = [cas |-> ArtifactAt(e, id)]
      BY <2>1, <2>2, <2>8 DEF DocumentFits
    <3>2. id[1] \in Members(d) \cap Members(e)
          /\ id[2] \in DOMAIN d.nodes[id[1]].artifacts \cap DOMAIN e.nodes[id[1]].artifacts
      BY <3>1, KeysAre
    <3>3. d.nodes[id[1]].artifacts[id[2]] = e.nodes[id[1]].artifacts[id[2]]
      BY <3>2 DEF Disagree
    <3>. QED
      BY <3>1, <3>3 DEF ArtifactAt
  <2>. QED
    BY <2>1, <2>3, <2>4, <2>5, <2>6, <2>7, <2>8 DEF DocumentFits, ReleaseKinds
<1>3. CASE x.key[1] \in RunTables
  <2>1. d.run = e.run
    BY <1>3 DEF Fits, TableFits
  <2>2. a = b
    BY <2>1 DEF Apart
  <2>. QED
    BY <1>3, <2>2 DEF Fits, TableFits, RunTables
<1>4. CASE x.key[1] = "cas_object"
  BY <1>4 DEF Fits, TableFits
<1>. QED
  BY <1>1, <1>2, <1>3, <1>4 DEF Fits, TableFits, OrdinaryTables, RunTables

(* The rows of one admission conflict with those of another one, or with its *)
(* own, only when the two disagree.                                         *)
LEMMA NoConflict ==
    ASSUME NEW a, NEW b, Apart(a, b), ~Disagree(a.envelope, b.envelope),
           NEW step \in 1..LastStep, NEW x, Fits(a, x)
    PROVE  /\ ~Injects(x, StepRows(step, b))
           /\ \A y \in StepRows(step, b) : ~Remaps(x, y)
<1>1. ASSUME NEW y \in StepRows(step, b), Remaps(x, y)
      PROVE  FALSE
  BY <1>1, RowsFit, KeysAgree DEF Remaps
<1>2. ASSUME Injects(x, StepRows(step, b))
      PROVE  FALSE
  <2>1. PICK y \in StepRows(step, b) : y.key[1] = "link" /\ y.key[2] = x.key[2]
    BY <1>2 DEF Injects
  <2>2. x.key[1] = "link" /\ x \notin StepRows(step, b)
    BY <1>2 DEF Injects
  <2>3. PICK f \in Families(a.envelope) : x.key[2] = f[1] /\ x \in f[2]
    BY <2>2 DEF Fits
  <2>4. PICK g \in Families(b.envelope) : y.key[2] = g[1] /\ y \in g[2]
    BY <2>1, RowsFit DEF Fits
  <2>5. f[2] = g[2]
    BY <2>1, <2>3, <2>4, FamiliesAgree
  <2>6. g[2] \subseteq StepRows(step, b)
    BY <2>1, <2>4, FamilyTogether
  <2>. QED
    BY <2>2, <2>3, <2>5, <2>6
<1>. QED
  BY <1>1, <1>2

-----------------------------------------------------------------------------
(* A sealed admission is verified as long as its payloads are undamaged. *)

RunsSealedOnce == \A a, b \in Seals : Apart(a, b)

LEMMA RowsOfSeal ==
    ASSUME DatabaseInv, NEW seal \in Seals, NEW step \in 1..LastStep, NEW row \in StepRows(step, seal)
    PROVE  row \in db
BY DEF DatabaseInv, OnlyWholeAdmissions, AllRows

LEMMA RowFitsASeal ==
    ASSUME DatabaseInv, NEW row \in db
    PROVE  \E seal \in Seals : \E step \in 1..LastStep : row \in StepRows(step, seal) /\ Fits(seal, row)
<1>1. PICK seal \in Seals : row \in AllRows(seal)
  BY DEF DatabaseInv, OnlyWholeAdmissions
<1>2. PICK step \in 1..LastStep : row \in StepRows(step, seal)
  BY <1>1 DEF AllRows
<1>. QED
  BY <1>2, RowsFit

(* The rows a table has of a sealed run are those of its admission. *)
LEMMA RowsOfRun ==
    ASSUME DatabaseInv, RunsSealedOnce, NEW seal \in Seals, NEW table \in RunTables,
           NEW row \in RowsOf(table, seal.envelope.run)
    PROVE  row \in AllRows(seal) /\ row.key[1] = table
<1>1. row \in db /\ row.key[1] = table /\ row.key[2] = seal.envelope.run
  BY DEF RowsOf
<1>2. PICK other \in Seals, step \in 1..LastStep : row \in StepRows(step, other) /\ Fits(other, row)
  BY <1>1, RowFitsASeal
<1>3. other.envelope.run = seal.envelope.run
  BY <1>1, <1>2 DEF Fits, TableFits
<1>4. other = seal
  BY <1>3 DEF RunsSealedOnce, Apart
<1>. QED
  BY <1>1, <1>2, <1>4 DEF AllRows

LEMMA LinksOfFamily ==
    ASSUME DatabaseInv, RunsSealedOnce, NEW seal \in Seals, NEW f \in Families(seal.envelope),
           f[2] \subseteq db
    PROVE  LinksOf(f[1]) = f[2]
<1>1. ASSUME NEW row \in LinksOf(f[1])
      PROVE  row \in f[2]
  <2>1. row \in db /\ row.key[1] = "link" /\ row.key[2] = f[1]
    BY DEF LinksOf, RowsOf
  <2>2. PICK other \in Seals, step \in 1..LastStep : row \in StepRows(step, other) /\ Fits(other, row)
    BY <2>1, RowFitsASeal
  <2>3. PICK g \in Families(other.envelope) : row.key[2] = g[1] /\ row \in g[2]
    BY <2>1, <2>2 DEF Fits
  <2>4. g[2] = f[2]
    <3>1. Apart(other, seal) /\ g[1] = f[1]
      BY <2>1, <2>3 DEF RunsSealedOnce
    <3>. QED
      BY <3>1, FamiliesAgree
  <2>. QED
    BY <2>3, <2>4
<1>2. ASSUME NEW row \in f[2]
      PROVE  row \in LinksOf(f[1])
  BY <1>2, FamilyIs DEF LinksOf, RowsOf
<1>. QED
  BY <1>1, <1>2

(* Which rows of an admission are in the tables of pins, heads and files. *)
LEMMA TablesAre ==
    ASSUME NEW seal, NEW row \in AllRows(seal)
    PROVE  LET e == seal.envelope
           IN  /\ row.key[1] = "pin_release" => row \in PinRows(e)
               /\ row.key[1] = "pin_artifact" => row \in ArtifactPinRows(e)
               /\ row.key[1] = "cas_link" => row \in CasLinkRows(e)
               /\ row.key[1] = "release_head" => row \in HeadRows(e)
<1>. DEFINE e == seal.envelope
            Tables == {"pin_release", "pin_artifact", "cas_link", "release_head"}
<1>1. \A kind, id, value : Document(kind, id, value).key[1] \notin Tables
  BY DEF Document, Row
<1>2. \A f \in Families(e) : \A x \in f[2] : x.key[1] \notin Tables
  BY FamilyIs
<1>3. \A x \in ReceiptLinks(e) \cup ClosureLinks(e) \cup ConfirmationLinks(e) \cup EnvelopeLinks(e) :
        x.key[1] \notin Tables
  BY <1>2 DEF Families
<1>4. \A x \in IdentityRows(e) \cup PreregistrationRows(e) \cup ManifestRows(e) : x.key[1] \notin Tables
  BY <1>1 DEF IdentityRows, PreregistrationRows, ManifestRows
<1>5. \A x \in ReceiptClosureRows(e) \cup ConfirmationRows(e) \cup EnvelopeRows(e) : x.key[1] \notin Tables
  BY <1>1, <1>3 DEF ReceiptClosureRows, ConfirmationRows, EnvelopeRows
<1>6. \A x \in ObservationRows(e) : x.key[1] \in Tables => x \in HeadRows(e)
  <2>1. ASSUME NEW x \in ObservationRows(e), x \notin HeadRows(e)
        PROVE  x.key[1] \notin Tables
    <3>1. CASE x \in {Document("fetch_observation", e.run, [receipt |-> Receipt(e)]),
                     Document("admission_observation", e.run,
                              [seen |-> e.status[e.root], confirmed |-> e.confirmed])}
      BY <1>1, <3>1
    <3>2. CASE \E r \in Members(e) : x = Document("status_observation", <<e.run, r>>, [seen |-> e.status[r]])
      BY <1>1, <3>2
    <3>3. CASE \E r \in Members(e) : x = Document("status_evidence", <<e.run, r, e.status[r]>>, Itself)
      BY <1>1, <3>3
    <3>. QED
      BY <2>1, <3>1, <3>2, <3>3 DEF ObservationRows
  <2>. QED
    BY <2>1
<1>7. \A x \in PinsRows(e) : x.key[1] \in Tables => x \in CasLinkRows(e) \cup PinRows(e) \cup ArtifactPinRows(e)
  BY DEF PinsRows, Row
<1>8. /\ \A x \in CasLinkRows(e) : x.key[1] = "cas_link"
      /\ \A x \in PinRows(e) : x.key[1] = "pin_release"
      /\ \A x \in ArtifactPinRows(e) : x.key[1] = "pin_artifact"
      /\ \A x \in HeadRows(e) : x.key[1] = "release_head"
  BY DEF CasLinkRows, PinRows, ArtifactPinRows, HeadRows, Row
<1>9. GenerationRow(e.run, seal.generation).key[1] \notin Tables /\ SealRow(seal).key[1] \notin Tables
  BY DEF GenerationRow, SealRow, Row
<1>10. /\ StepRows(1, seal) = IdentityRows(e) /\ StepRows(2, seal) = ReceiptClosureRows(e)
       /\ StepRows(3, seal) = ObservationRows(e) /\ StepRows(4, seal) = PreregistrationRows(e)
       /\ StepRows(5, seal) = ManifestRows(e) /\ StepRows(6, seal) = ConfirmationRows(e)
       /\ StepRows(7, seal) = PinsRows(e) /\ StepRows(8, seal) = EnvelopeRows(e)
       /\ StepRows(9, seal) = {GenerationRow(e.run, seal.generation)} /\ StepRows(10, seal) = {SealRow(seal)}
  BY DEF StepRows
<1>11. PICK step \in {1, 2, 3, 4, 5, 6, 7, 8, 9, 10} : row \in StepRows(step, seal)
  <2>1. 1..LastStep = {1, 2, 3, 4, 5, 6, 7, 8, 9, 10}
    BY DEF LastStep
  <2>. QED
    BY <2>1 DEF AllRows
<1>. HIDE DEF e
<1>12. row.key[1] \in Tables => row \in HeadRows(e) \cup CasLinkRows(e) \cup PinRows(e) \cup ArtifactPinRows(e)
  BY <1>4, <1>5, <1>6, <1>7, <1>9, <1>10, <1>11
<1>. QED
  BY <1>8, <1>12 DEF e

LEMMA SealedIsVerified ==
    ASSUME DatabaseInv, RunsSealedOnce, SealedFilesWhole, NEW seal \in Seals,
           damaged \cap StagedDigests(seal.envelope) = {}
    PROVE  Verified(seal)
<1>. DEFINE e == seal.envelope
            run == seal.envelope.run
<1>1. /\ e \in Envelopes /\ DOMAIN e.status = DOMAIN e.nodes /\ e.root \in Members(e)
  BY EnvelopesAssumption DEF DatabaseInv, SealsTyped, SealSet, IsEnvelope, Members
<1>2. /\ 2 \in 1..LastStep /\ 3 \in 1..LastStep /\ 6 \in 1..LastStep
      /\ 7 \in 1..LastStep /\ 8 \in 1..LastStep /\ 10 \in 1..LastStep
  BY DEF LastStep
<1>3. /\ ReceiptClosureRows(e) \subseteq db /\ ObservationRows(e) \subseteq db /\ ConfirmationRows(e) \subseteq db
      /\ PinsRows(e) \subseteq db /\ EnvelopeRows(e) \subseteq db /\ SealRow(seal) \in db
  <2>1. /\ StepRows(2, seal) = ReceiptClosureRows(e) /\ StepRows(3, seal) = ObservationRows(e)
        /\ StepRows(6, seal) = ConfirmationRows(e) /\ StepRows(7, seal) = PinsRows(e)
        /\ StepRows(8, seal) = EnvelopeRows(e) /\ StepRows(10, seal) = {SealRow(seal)}
    BY DEF StepRows
  <2>. QED
    BY <1>2, <2>1, RowsOfSeal
<1>4. /\ ReceiptLinks(e) \subseteq db /\ ClosureLinks(e) \subseteq db /\ ConfirmationLinks(e) \subseteq db
      /\ EnvelopeLinks(e) \subseteq db /\ Document("admission_envelope", e, Itself) \in db
      /\ HeadRows(e) \subseteq db /\ PinRows(e) \subseteq db /\ ArtifactPinRows(e) \subseteq db
      /\ CasLinkRows(e) \subseteq db
  BY <1>3 DEF ReceiptClosureRows, ConfirmationRows, EnvelopeRows, PinsRows, ObservationRows
<1>5. /\ LinksOf(ReceiptName(e)) = ReceiptLinks(e) /\ LinksOf(ClosureName(e)) = ClosureLinks(e)
      /\ LinksOf(ConfirmationName(e)) = ConfirmationLinks(e) /\ LinksOf(EnvelopeName(e)) = EnvelopeLinks(e)
  <2>1. \A f \in Families(e) : f[2] \subseteq db => LinksOf(f[1]) = f[2]
    BY LinksOfFamily
  <2>2. \A parent, links : <<parent, links>> \in Families(e) /\ links \subseteq db => LinksOf(parent) = links
    BY <2>1
  <2>. QED
    BY <1>4, <2>2 DEF Families
<1>6. /\ RowsOf("pin_artifact", run) \subseteq ArtifactPinRows(e) /\ RowsOf("cas_link", run) \subseteq CasLinkRows(e)
      /\ RowsOf("pin_release", run) \subseteq PinRows(e) /\ RowsOf("release_head", run) \subseteq HeadRows(e)
  <2>1. \A table \in RunTables : \A row \in RowsOf(table, run) : row \in AllRows(seal) /\ row.key[1] = table
    BY RowsOfRun
  <2>. QED
    BY <2>1, TablesAre DEF RunTables
<1>7. /\ \A x \in ArtifactPinRows(e) : x.key[1] = "pin_artifact" /\ x.key[2] = run
      /\ \A x \in CasLinkRows(e) : x.key[1] = "cas_link" /\ x.key[2] = run
      /\ \A x \in PinRows(e) : x.key[1] = "pin_release" /\ x.key[2] = run
      /\ \A x \in HeadRows(e) : x.key[1] = "release_head" /\ x.key[2] = run
  BY DEF ArtifactPinRows, CasLinkRows, PinRows, HeadRows, Row
<1>8. /\ RowsOf("pin_artifact", run) = ArtifactPinRows(e) /\ RowsOf("cas_link", run) = CasLinkRows(e)
      /\ RowsOf("pin_release", run) = PinRows(e) /\ RowsOf("release_head", run) = HeadRows(e)
  BY <1>4, <1>6, <1>7 DEF RowsOf
<1>9. \A d \in FilesOf(run) : object[d] = "whole"
  <2>1. ASSUME NEW d \in FilesOf(run)
        PROVE  d \in StagedDigests(e)
    <3>1. PICK row \in CasLinkRows(e) : d = row.value.cas
      BY <1>8 DEF FilesOf
    <3>2. PICK p \in Staged(e) : row = Row(<<"cas_link", e.run, p[1], p[2], p[3]>>, [cas |-> p[4]])
      BY DEF CasLinkRows
    <3>. QED
      BY <3>1, <3>2 DEF StagedDigests, Row
  <2>. QED
    BY <2>1 DEF SealedFilesWhole
<1>10. PinsOf(run) = Members(e)
  <2>. DEFINE pin(r) == Row(<<"pin_release", e.run, r>>, Itself)
  <2>1. \A r \in Members(e) : pin(r).key[3] = r
    BY DEF Row
  <2>2. PinRows(e) = {pin(r) : r \in Members(e)}
    BY DEF PinRows
  <2>. HIDE DEF pin
  <2>3. {x.key[3] : x \in {pin(r) : r \in Members(e)}} = Members(e)
    BY <2>1
  <2>. QED
    BY <1>8, <2>2, <2>3 DEF PinsOf
<1>11. HeadsOf(run) = Members(e)
  <2>. DEFINE head(r) == Row(<<"release_head", e.run, r>>, [seen |-> e.status[r]])
  <2>1. \A r \in Members(e) : head(r).key[3] = r
    BY DEF Row
  <2>2. HeadRows(e) = {head(r) : r \in Members(e)}
    BY DEF HeadRows
  <2>. HIDE DEF head
  <2>3. {x.key[3] : x \in {head(r) : r \in Members(e)}} = Members(e)
    BY <2>1
  <2>. QED
    BY <1>8, <2>2, <2>3 DEF HeadsOf
<1>12. {row.key[3][2] : row \in LinksOf(ConfirmationName(e))} = Members(e)
  <2>. DEFINE item(r) == Link(ConfirmationName(e), <<"item", r>>, [seen |-> e.status[r]])
  <2>1. \A r \in Members(e) : item(r).key[3][2] = r
    BY DEF Link, Row
  <2>2. ConfirmationLinks(e) = {item(r) : r \in Members(e)}
    BY DEF ConfirmationLinks
  <2>. HIDE DEF item
  <2>3. {x.key[3][2] : x \in {item(r) : r \in Members(e)}} = Members(e)
    BY <2>1
  <2>. QED
    BY <1>5, <2>2, <2>3
<1>. QED
  BY <1>1, <1>3, <1>4, <1>5, <1>8, <1>9, <1>10, <1>11, <1>12 DEF Verified

-----------------------------------------------------------------------------
(* Answers. *)

Told(a, seals, hurt) ==
    /\ a.result = "SEALED" => \E seal \in seals : seal.envelope = a.envelope
    /\ a.result = "IMMUTABLE_IDENTITY_CONFLICT" =>
         hurt # {} \/ \E seal \in seals : Disagree(seal.envelope, a.envelope)
    /\ a.result = "RECONCILIATION_BLOCKED" => hurt \cap StagedDigests(a.envelope) # {}

(* What is read back is a seal that stands; a file is bad by damage only. *)
VerifiesSeals == \A s \in Sessions : Busy(s) /\ job[s].step = Verifying => job[s].seal \in Seals
BadIsDamaged == \A d \in Digests : object[d] = "bad" => d \in damaged

Results == {"SEALED", "RECONCILIATION_BLOCKED", "IMMUTABLE_IDENTITY_CONFLICT",
            "ATOMIC_COMMIT_BLOCKED", "STATUS_UNCONFIRMED"}
Answer == [result: Results, envelope: Envelopes]
AnswersTold ==
    /\ answer \in [Sessions -> Answer \cup {None}]
    /\ \A s \in Sessions : answer[s] # None => Told(answer[s], Seals, damaged)

TruthInv == RunsSealedOnce /\ VerifiesSeals /\ BadIsDamaged /\ AnswersTold

(* A seal never goes, nor does what is known of damage. *)
Grows == Seals \subseteq Seals' /\ damaged \subseteq damaged'

LEMMA ToldStays ==
    ASSUME Grows, NEW a, Told(a, Seals, damaged)
    PROVE  Told(a, Seals', damaged')
BY DEF Grows, Told

(* An answer that is so, or none, keeps all that was answered. *)
LEMMA AnswersStay ==
    ASSUME AnswersTold, Grows,
           \/ answer' = answer
           \/ \E s \in Sessions : answer' = [answer EXCEPT ![s] = None]
           \/ \E s \in Sessions : \E a \in Answer :
                Told(a, Seals, damaged) /\ answer' = [answer EXCEPT ![s] = a]
    PROVE  AnswersTold'
<1>1. /\ answer' \in [Sessions -> Answer \cup {None}]
      /\ \A s \in Sessions : answer'[s] # None => Told(answer'[s], Seals, damaged)
  <2>1. CASE answer' = answer
    BY <2>1 DEF AnswersTold
  <2>2. CASE \E s \in Sessions : answer' = [answer EXCEPT ![s] = None]
    BY <2>2 DEF AnswersTold
  <2>3. CASE \E s \in Sessions : \E a \in Answer :
               Told(a, Seals, damaged) /\ answer' = [answer EXCEPT ![s] = a]
    BY <2>3 DEF AnswersTold
  <2>. QED
    BY <2>1, <2>2, <2>3
<1>2. \A s \in Sessions : answer'[s] # None => Told(answer'[s], Seals', damaged')
  BY <1>1, ToldStays
<1>. QED
  BY <1>1, <1>2 DEF AnswersTold

(* A session that answers truly and leaves the store as it is. *)
LEMMA AnswerIsTold ==
    ASSUME DatabaseInv, TruthInv, NEW s \in Sessions, NEW result \in Results, NEW e \in Envelopes,
           Answers(s, result, e), UNCHANGED fileVars, db' = db,
           Told([result |-> result, envelope |-> e], Seals, damaged)
    PROVE  TruthInv'
<1>1. Seals' = Seals /\ object' = object /\ damaged' = damaged
  BY DEF Seals, fileVars
<1>2. RunsSealedOnce' /\ BadIsDamaged' /\ Grows
  BY <1>1 DEF TruthInv, RunsSealedOnce, BadIsDamaged, Grows
<1>3. VerifiesSeals'
  <2>1. ASSUME NEW t \in Sessions, Busy(t)'
        PROVE  Busy(t) /\ job'[t] = job[t]
    BY <2>1 DEF Answers, Busy, DatabaseInv, JobsTyped
  <2>. QED
    BY <1>1, <2>1 DEF TruthInv, VerifiesSeals
<1>4. AnswersTold'
  <2>1. [result |-> result, envelope |-> e] \in Answer
    BY DEF Answer
  <2>. QED
    BY <1>2, <2>1, AnswersStay DEF TruthInv, Answers
<1>. QED
  BY <1>2, <1>3, <1>4 DEF TruthInv

(* A step of one session that seals, damages and answers nothing. *)
LEMMA GoesOn ==
    ASSUME DatabaseInv, TruthInv, NEW s \in Sessions, NEW j, job' = [job EXCEPT ![s] = j], db' = db,
           \A d \in Digests : object'[d] = "bad" => object[d] = "bad", damaged' = damaged,
           answer' = answer \/ answer' = [answer EXCEPT ![s] = None],
           j # None /\ j.step = Verifying => j.seal \in Seals
    PROVE  TruthInv'
<1>1. Seals' = Seals /\ damaged' = damaged
  BY DEF Seals
<1>2. RunsSealedOnce' /\ BadIsDamaged' /\ Grows
  BY <1>1 DEF TruthInv, RunsSealedOnce, BadIsDamaged, Grows
<1>3. VerifiesSeals'
  <2>1. ASSUME NEW t \in Sessions, Busy(t)', t # s
        PROVE  Busy(t) /\ job'[t] = job[t]
    BY <2>1 DEF Busy, DatabaseInv, JobsTyped
  <2>2. job'[s] = j
    BY DEF DatabaseInv, JobsTyped
  <2>. QED
    BY <1>1, <2>1, <2>2 DEF TruthInv, VerifiesSeals, Busy
<1>4. AnswersTold'
  BY <1>2, AnswersStay DEF TruthInv
<1>. QED
  BY <1>2, <1>3, <1>4 DEF TruthInv

(* An insert is refused because of a sealed admission that disagrees. *)
LEMMA ConflictsAreReal ==
    ASSUME DatabaseInv, TruthInv, NEW s \in Sessions, WriteConflict(s)
    PROVE  \E seal \in Seals : Disagree(seal.envelope, job[s].seal.envelope)
<1>. DEFINE b == job[s].seal
            step == job[s].step
<1>1. InTransaction(s) /\ step \in 1..LastStep /\ Conflicts(StepRows(step, b), job[s].view)
  BY DEF WriteConflict, StepOf
<1>2. /\ job[s].view = db \cup Inserted(b, step) /\ SealOf(b.envelope.run) = {}
  BY <1>1 DEF DatabaseInv, DraftsExact, Draft
<1>3. PICK x \in db \cup Inserted(b, step) :
        Injects(x, StepRows(step, b)) \/ \E y \in StepRows(step, b) : Remaps(x, y)
  BY <1>1, <1>2 DEF Conflicts
<1>. HIDE DEF b, step
<1>4. ~Disagree(b.envelope, b.envelope) /\ Apart(b, b)
  BY DEF Disagree, Apart
<1>5. x \notin Inserted(b, step)
  <2>1. ASSUME NEW j \in 1..(step - 1), x \in StepRows(j, b)
        PROVE  FALSE
    <3>1. j \in 1..LastStep
      BY <1>1 DEF LastStep
    <3>2. Fits(b, x)
      BY <2>1, <3>1, RowsFit
    <3>. QED
      BY <1>1, <1>3, <1>4, <3>2, NoConflict
  <2>. QED
    BY <2>1 DEF Inserted
<1>6. PICK a \in Seals : \E j \in 1..LastStep : x \in StepRows(j, a) /\ Fits(a, x)
  BY <1>3, <1>5, RowFitsASeal
<1>7. Apart(a, b)
  BY <1>2 DEF SealOf, Apart
<1>8. Disagree(a.envelope, b.envelope)
  BY <1>1, <1>3, <1>6, <1>7, NoConflict
<1>. QED
  BY <1>8 DEF b

LEMMA VerdictIsTold ==
    ASSUME DatabaseInv, FilesInv, TruthInv, NEW seal \in Seals
    PROVE  /\ VerdictOf(seal) \in Results /\ seal.envelope \in Envelopes
           /\ Told([result |-> VerdictOf(seal), envelope |-> seal.envelope], Seals, damaged)
<1>1. seal.envelope \in Envelopes
  BY DEF DatabaseInv, SealsTyped, SealSet
<1>2. ~Verified(seal) => damaged \cap StagedDigests(seal.envelope) # {}
  BY SealedIsVerified DEF TruthInv, FilesInv
<1>. QED
  BY <1>1, <1>2 DEF VerdictOf, Told, Results

LEMMA BlockedIsTold ==
    ASSUME NEW e
    PROVE  /\ Told([result |-> "ATOMIC_COMMIT_BLOCKED", envelope |-> e], Seals, damaged)
           /\ Told([result |-> "STATUS_UNCONFIRMED", envelope |-> e], Seals, damaged)
BY DEF Told

LEMMA JobIs ==
    ASSUME DatabaseInv, NEW s \in Sessions, Busy(s)
    PROVE  /\ job[s].seal.envelope \in Envelopes /\ job[s].todo \subseteq Digests
           /\ job[s] \in Jobs
BY DEF DatabaseInv, JobsTyped, Busy, Jobs, SealSet

LEMMA StagingTold ==
    ASSUME DatabaseInv, TruthInv, NEW s \in Sessions,
           Reuse(s) \/ WriteTemporary(s) \/ Publish(s) \/ StagingConflict(s)
    PROVE  TruthInv'
<1>. DEFINE d == NextPayload(s)
<1>1. Busy(s) /\ job[s].step = 0 /\ d \in job[s].todo /\ d \in Digests /\ job[s].seal.envelope \in Envelopes
  <2>1. Busy(s) /\ job[s].step = 0 /\ job[s].todo # {}
    BY DEF Reuse, WriteTemporary, Publish, StagingConflict, TargetIs, Staging
  <2>2. d \in job[s].todo
    BY <2>1 DEF NextPayload
  <2>. QED
    BY <2>1, <2>2, JobIs
<1>2. Verifying # 0
  BY DEF Verifying, LastStep
<1>3. CASE StagingConflict(s)
  <2>1. object[d] = "bad"
    BY <1>3 DEF StagingConflict, TargetIs
  <2>2. damaged # {}
    BY <1>1, <2>1 DEF TruthInv, BadIsDamaged
  <2>3. Told([result |-> "IMMUTABLE_IDENTITY_CONFLICT", envelope |-> job[s].seal.envelope], Seals, damaged)
    BY <2>2 DEF Told
  <2>. QED
    BY <1>1, <1>3, <2>3, AnswerIsTold DEF StagingConflict, Results
<1>4. CASE Reuse(s) \/ WriteTemporary(s) \/ Publish(s)
  <2>1. \E j : /\ job' = [job EXCEPT ![s] = j] /\ (j.step = Verifying => j.seal \in Seals)
    <3>1. CASE Reuse(s) \/ Publish(s)
      <4>. DEFINE j == [job[s] EXCEPT !.todo = @ \ {d}, !.temp = FALSE]
      <4>1. job' = [job EXCEPT ![s] = j] /\ j.step = job[s].step
        BY <1>1, <3>1, JobIs DEF Reuse, Publish, Jobs
      <4>. QED
        BY <1>1, <1>2, <4>1
    <3>2. CASE WriteTemporary(s)
      <4>. DEFINE j == [job[s] EXCEPT !.temp = TRUE]
      <4>1. job' = [job EXCEPT ![s] = j] /\ j.step = job[s].step
        BY <1>1, <3>2, JobIs DEF WriteTemporary, Jobs
      <4>. QED
        BY <1>1, <1>2, <4>1
    <3>. QED
      BY <1>4, <3>1, <3>2
  <2>2. \A x \in Digests : object'[x] = "bad" => object[x] = "bad"
    <3>1. CASE Publish(s)
      <4>1. object' = [object EXCEPT ![d] = "whole"]
        BY <3>1 DEF Publish
      <4>2. ASSUME NEW x \in Digests, object'[x] = "bad"
            PROVE  object[x] = "bad"
        <5>1. CASE x \in DOMAIN object
          BY <4>1, <4>2, <5>1
        <5>2. CASE x \notin DOMAIN object
          BY <4>1, <4>2, <5>2
        <5>. QED
          BY <5>1, <5>2
      <4>. QED
        BY <4>2
    <3>2. CASE ~Publish(s)
      BY <1>4, <3>2 DEF Reuse, WriteTemporary, fileVars
    <3>. QED
      BY <3>1, <3>2
  <2>3. db' = db /\ damaged' = damaged /\ answer' = answer
    BY <1>4 DEF Reuse, WriteTemporary, Publish, fileVars
  <2>. QED
    BY <2>1, <2>2, <2>3, GoesOn
<1>. QED
  BY <1>3, <1>4

LEMMA TransactionTold ==
    ASSUME DatabaseInv, FilesInv, TruthInv, NEW s \in Sessions,
           Begin(s) \/ BusyTimeout(s) \/ Write(s) \/ WriteConflict(s) \/ Verify(s)
    PROVE  TruthInv'
<1>1. Busy(s) /\ job[s] \in Jobs /\ job[s].seal.envelope \in Envelopes
  <2>1. Busy(s)
    BY DEF Begin, BusyTimeout, Prepared, Write, WriteConflict, InTransaction, Verify
  <2>. QED
    BY <2>1, JobIs
<1>2. \A step \in 1..LastStep : step + 1 # Verifying /\ 1 # Verifying
  BY DEF Verifying, LastStep
<1>3. CASE Begin(s)
  <2>. DEFINE j == [job[s] EXCEPT !.step = 1, !.view = db, !.seal.generation = NextGeneration(Generations)]
  <2>1. job' = [job EXCEPT ![s] = j] /\ j.step = 1
    BY <1>1, <1>3 DEF Begin, Jobs
  <2>2. j.step # Verifying
    BY <2>1 DEF Verifying, LastStep
  <2>. HIDE DEF j
  <2>. QED
    BY <1>3, <2>1, <2>2, GoesOn DEF Begin, fileVars
<1>4. CASE Write(s)
  <2>. DEFINE j == [job[s] EXCEPT !.view = @ \cup StepOf(s), !.step = @ + 1]
  <2>1. job' = [job EXCEPT ![s] = j] /\ j.step = job[s].step + 1
    BY <1>1, <1>4 DEF Write, Jobs
  <2>2. j.step # Verifying
    BY <1>2, <1>4, <2>1 DEF Write
  <2>. HIDE DEF j
  <2>. QED
    BY <1>4, <2>1, <2>2, GoesOn DEF Write, fileVars
<1>5. CASE BusyTimeout(s)
  BY <1>1, <1>5, AnswerIsTold, BlockedIsTold DEF BusyTimeout, Results
<1>6. CASE WriteConflict(s)
  <2>1. Told([result |-> "IMMUTABLE_IDENTITY_CONFLICT", envelope |-> job[s].seal.envelope], Seals, damaged)
    BY <1>6, ConflictsAreReal DEF Told
  <2>. QED
    BY <1>1, <1>6, <2>1, AnswerIsTold DEF WriteConflict, Results
<1>7. CASE Verify(s)
  <2>1. job[s].seal \in Seals
    BY <1>7 DEF Verify, TruthInv, VerifiesSeals
  <2>. QED
    BY <1>1, <1>7, <2>1, VerdictIsTold, AnswerIsTold DEF Verify
<1>. QED
  BY <1>3, <1>4, <1>5, <1>6, <1>7

LEMMA CommitTold ==
    ASSUME DatabaseInv, TruthInv, NEW s \in Sessions, Commit(s)
    PROVE  TruthInv'
<1>. DEFINE seal == job[s].seal
<1>1. /\ Seals' = Seals \cup {seal} /\ SealOf(seal.envelope.run) = {}
      /\ object' = object /\ damaged' = damaged /\ answer' = answer
  BY CommitSeals DEF Commit, fileVars
<1>2. RunsSealedOnce'
  <2>1. \A a \in Seals : a.envelope.run # seal.envelope.run
    BY <1>1 DEF SealOf
  <2>. QED
    BY <1>1, <2>1 DEF TruthInv, RunsSealedOnce, Apart
<1>3. VerifiesSeals'
  <2>1. ASSUME NEW t \in Sessions, Busy(t)', t # s
        PROVE  Busy(t) /\ job'[t] = job[t]
    BY <2>1 DEF Commit, Busy, DatabaseInv, JobsTyped
  <2>2. job'[s].seal = seal
    BY JobIs DEF Commit, DatabaseInv, JobsTyped, Jobs
  <2>. QED
    BY <1>1, <2>1, <2>2 DEF TruthInv, VerifiesSeals
<1>4. BadIsDamaged' /\ Grows
  BY <1>1 DEF TruthInv, BadIsDamaged, Grows
<1>5. AnswersTold'
  BY <1>1, <1>4, AnswersStay DEF TruthInv
<1>. QED
  BY <1>2, <1>3, <1>4, <1>5 DEF TruthInv

LEMMA SealedAgainTold ==
    ASSUME DatabaseInv, TruthInv, NEW s \in Sessions, NEW seal \in Seals,
           BeginSealed(s, seal) \/ BeginRemapped(s, seal)
    PROVE  TruthInv'
<1>1. job[s] \in Jobs /\ job[s].seal.envelope \in Envelopes
  BY JobIs DEF BeginSealed, BeginRemapped, Prepared
<1>2. CASE BeginSealed(s, seal)
  <2>. DEFINE j == [job[s] EXCEPT !.step = Verifying, !.seal = seal]
  <2>1. job' = [job EXCEPT ![s] = j] /\ j.seal = seal
    BY <1>1, <1>2 DEF BeginSealed, Jobs
  <2>. HIDE DEF j
  <2>. QED
    BY <1>2, <2>1, GoesOn DEF BeginSealed, fileVars
<1>3. CASE BeginRemapped(s, seal)
  <2>1. Disagree(seal.envelope, job[s].seal.envelope)
    BY <1>3 DEF BeginRemapped, SealOf, Disagree
  <2>2. Told([result |-> "IMMUTABLE_IDENTITY_CONFLICT", envelope |-> job[s].seal.envelope], Seals, damaged)
    BY <2>1 DEF Told
  <2>. QED
    BY <1>1, <1>3, <2>2, AnswerIsTold DEF BeginRemapped, Results
<1>. QED
  BY <1>2, <1>3

LEMMA TruthStep ==
    ASSUME DatabaseInv, FilesInv, TruthInv, [StoreNext]_vars
    PROVE  TruthInv'
<1>1. CASE UNCHANGED vars
  <2>1. Seals' = Seals /\ Grows /\ UNCHANGED <<object, job, answer, damaged>>
    BY <1>1 DEF vars, fileVars, Seals, Grows
  <2>2. AnswersTold'
    BY <2>1, AnswersStay DEF TruthInv
  <2>. QED
    BY <2>1, <2>2 DEF TruthInv, RunsSealedOnce, VerifiesSeals, BadIsDamaged, Busy
<1>2. ASSUME NEW s \in Sessions, Progress(s)
      PROVE  TruthInv'
  BY <1>2, StagingTold, TransactionTold, CommitTold, SealedAgainTold DEF Progress
<1>3. ASSUME NEW s \in Sessions, Fail(s)
      PROVE  TruthInv'
  <2>1. job[s].seal.envelope \in Envelopes
    BY <1>3, JobIs DEF Fail
  <2>. QED
    BY <1>3, <2>1, BlockedIsTold, AnswerIsTold DEF Fail, RowsAfterRollback, Results
<1>4. ASSUME NEW s \in Sessions, Crash(s)
      PROVE  TruthInv'
  BY <1>4, GoesOn DEF Crash
<1>5. ASSUME NEW s \in Sessions, NEW e \in Envelopes, NEW at \in Times, Call(s, e, at)
      PROVE  TruthInv'
  <2>. DEFINE j == [seal |-> Seal(e, 0, at), todo |-> StagedDigests(e), temp |-> FALSE, step |-> 0, view |-> {}]
  <2>1. job' = [job EXCEPT ![s] = j] /\ j.step # Verifying
    BY <1>5 DEF Call, Verifying, LastStep
  <2>. HIDE DEF j
  <2>. QED
    BY <1>5, <2>1, GoesOn DEF Call, fileVars
<1>6. ASSUME NEW s \in Sessions, NEW e \in Envelopes, NEW at \in Times, Refuse(s, e, at)
      PROVE  TruthInv'
  BY <1>6, BlockedIsTold, AnswerIsTold DEF Refuse, Results
<1>7. ASSUME NEW s \in Sessions, NEW seal \in Seals, ReadSeal(s, seal)
      PROVE  TruthInv'
  BY <1>7, VerdictIsTold, AnswerIsTold DEF ReadSeal
<1>8. ASSUME NEW d \in Damageable, Damage(d)
      PROVE  TruthInv'
  <2>1. Seals' = Seals /\ UNCHANGED <<job, answer>> /\ damaged' = damaged \cup {d} /\ Grows
    BY <1>8 DEF Damage, Seals, Grows
  <2>2. BadIsDamaged'
    <3>1. PICK content \in {"absent", "bad"} : object' = [object EXCEPT ![d] = content]
      BY <1>8 DEF Damage
    <3>2. object \in [Digests -> {"absent", "whole", "bad"}]
      BY DEF FilesInv, FilesTyped
    <3>3. \A x \in Digests : x # d => object'[x] = object[x]
      BY <3>1, <3>2
    <3>. QED
      BY <2>1, <3>3 DEF TruthInv, BadIsDamaged
  <2>3. AnswersTold'
    BY <2>1, AnswersStay DEF TruthInv
  <2>. QED
    BY <2>1, <2>2, <2>3 DEF TruthInv, RunsSealedOnce, VerifiesSeals, Busy
<1>. QED
  BY <1>1, <1>2, <1>3, <1>4, <1>5, <1>6, <1>7, <1>8 DEF StoreNext

(* What a caller of the validation store is told is so, however many sessions *)
(* share it, fail or die, for all envelopes: SEALED only of a sealed one, a   *)
(* conflict only where a sealed admission disagrees, a failed verification    *)
(* only after damage (commit_validation_admission, _insert_exact_row,         *)
(* _verify_seal_files).                                                       *)
THEOREM AnswersAreTrue == StoreSpec => []AnswersTrue
<1>1. StoreInit => TruthInv
  <2>. SUFFICES ASSUME StoreInit PROVE TruthInv
    OBVIOUS
  <2>1. Seals = {}
    BY DEF StoreInit, Seals
  <2>. QED
    BY <2>1 DEF StoreInit, TruthInv, RunsSealedOnce, VerifiesSeals, BadIsDamaged, AnswersTold, Busy
<1>2. DatabaseInv /\ FilesInv /\ TruthInv /\ [StoreNext]_vars => TruthInv'
  BY TruthStep
<1>3. TruthInv => AnswersTrue
  BY DEF TruthInv, AnswersTold, AnswersTrue, Told
<1>. QED
  BY <1>1, <1>2, <1>3, FilesInvariant, PTL DEF StoreSpec
=============================================================================
