--------------------------- MODULE ValidationStore ---------------------------
(***************************************************************************)
(* Stage6BValidationStore: the isolated store that admits a historical     *)
(* validation run by sealing its envelope.  commit_validation_admission    *)
(* stages every payload in its own content-addressed files (_stage_cas),   *)
(* then writes one BEGIN IMMEDIATE transaction step by step, the seal      *)
(* last, and reads everything back (_verify_seal_files).  Sessions share    *)
(* the store; each may fail or die between any two steps.                  *)
(*                                                                         *)
(* The nine append-only tables are one set of rows: the key is the table   *)
(* and its primary key, the value the other columns.  persisted_at is left *)
(* out: no insert compares it.  A content-addressed document is its        *)
(* content; the ids of the other documents derive from the run.            *)
(***************************************************************************)
EXTENDS Integers, FiniteSetsExt

CONSTANTS Sessions,     \* callers of commit_validation_admission
          Runs, Releases, ArtifactIds, Digests,
          Envelopes,    \* reconciled Stage6BHistoricalAdmissionEnvelopes
          Times,        \* values of committed_at
          Ttl,          \* STAGE6B_CONFIRMATION_TTL
          MaxAge,       \* STAGE6B_PROVIDER_SNAPSHOT_MAX_AGE
          MaxSkew,      \* STAGE6B_MAX_CLOCK_SKEW
          Damageable,   \* objects something outside the store may damage
          MaxFailures,  \* bound on the calls that fail or die half-way
          None

(* nodes is the retention closure; status is the evidence of each Release. *)
IsEnvelope(e) ==
    /\ e.run \in Runs /\ e.confirmed \in Int
    /\ DOMAIN e.nodes \subseteq Releases /\ e.root \in DOMAIN e.nodes
    /\ DOMAIN e.status = DOMAIN e.nodes
    /\ \A r \in DOMAIN e.nodes :
         /\ e.nodes[r].manifest \in Digests /\ e.nodes[r].deps \subseteq Releases
         /\ DOMAIN e.nodes[r].artifacts \subseteq ArtifactIds
         /\ \A i \in DOMAIN e.nodes[r].artifacts : e.nodes[r].artifacts[i] \in Digests
         /\ e.status[r].response \in Digests /\ e.status[r].snapshot \in Int

ASSUME EnvelopesAssumption == \A e \in Envelopes : IsEnvelope(e)
ASSUME StoreTimesAssumption == Times \subseteq Int /\ {Ttl, MaxAge, MaxSkew, MaxFailures} \subseteq Nat

Members(e) == DOMAIN e.nodes

(* _validate_commit_time; its boundaries pass. *)
Consumable(e, at) ==
    /\ e.confirmed <= at /\ at <= e.confirmed + Ttl
    /\ \A r \in Members(e) : /\ at - e.status[r].snapshot <= MaxAge
                             /\ e.status[r].snapshot - at <= MaxSkew

VARIABLES object,    \* objects/sha256/<xx>/<digest>: absent, whole or bad
          orphans,   \* temporary files that dead processes left
          db,        \* the committed rows
          job,       \* what each session is doing, None between calls
          answer,    \* what each session was told last
          failures,
          damaged    \* objects something outside the store ever damaged

fileVars == <<object, orphans, damaged>>
vars == <<object, orphans, db, job, answer, failures, damaged>>

-----------------------------------------------------------------------------
(* The rows of an admission, table by table. *)

Row(key, value) == [key |-> key, value |-> value]
Itself == [hash |-> "own content"]      \* the id is the hash of the content

Document(kind, id, value) == Row(<<"document", kind, id>>, value)
Link(parent, role, target) == Row(<<"link", parent, role>>, target)

Receipt(e) == [root |-> e.root, ref |-> e.nodes[e.root].ref,
               artifacts |-> e.nodes[e.root].artifacts]
ArtifactKeys(e) == UNION {{r} \X DOMAIN e.nodes[r].artifacts : r \in Members(e)}
ArtifactAt(e, k) == e.nodes[k[1]].artifacts[k[2]]

IdentityRows(e) ==
    {Document("release_identity", r, [ref |-> e.nodes[r].ref]) : r \in Members(e)}
    \cup {Document("release_manifest_index", r, [cas |-> e.nodes[r].manifest]) : r \in Members(e)}
    \cup {Document("release_artifact_index", k, [cas |-> ArtifactAt(e, k)]) : k \in ArtifactKeys(e)}

ReceiptName(e) == <<"receipt", Receipt(e)>>
ClosureName(e) == <<"closure", e.nodes>>
ConfirmationName(e) == <<"confirmation", e.run>>
EnvelopeName(e) == <<"admission_envelope", e>>

ReceiptLinks(e) ==
    {Link(ReceiptName(e), <<"artifact", i>>, [target |-> Receipt(e).artifacts[i]]) :
        i \in DOMAIN Receipt(e).artifacts}

ClosureLinks(e) ==
    {Link(ClosureName(e), <<"release", r>>, [node |-> e.nodes[r]]) : r \in Members(e)}
    \cup {Link(ClosureName(e), <<"artifact", k>>, [target |-> ArtifactAt(e, k)]) : k \in ArtifactKeys(e)}
    \cup UNION {{Link(ClosureName(e), <<"dependency", <<r, d>>>>, Itself) : d \in e.nodes[r].deps} :
                    r \in Members(e)}

ReceiptClosureRows(e) ==
    {Document("request", e.run, [request |-> e.request]),
     Document("receipt", Receipt(e), Itself), Document("closure", e.nodes, Itself)}
    \cup ReceiptLinks(e) \cup ClosureLinks(e)

HeadRows(e) == {Row(<<"release_head", e.run, r>>, [seen |-> e.status[r]]) : r \in Members(e)}

ObservationRows(e) ==
    {Document("fetch_observation", e.run, [receipt |-> Receipt(e)]),
     Document("admission_observation", e.run, [seen |-> e.status[e.root], confirmed |-> e.confirmed])}
    \cup {Document("status_observation", <<e.run, r>>, [seen |-> e.status[r]]) : r \in Members(e)}
    \cup {Document("status_evidence", <<e.run, r, e.status[r]>>, Itself) : r \in Members(e)}
    \cup HeadRows(e)

PreregistrationRows(e) == {Document("preregistration", e.run, [request |-> e.request])}

ManifestRows(e) ==
    {Document("strategy_run_manifest", e.run,
              [request |-> e.request, receipt |-> Receipt(e), created |-> e.confirmed])}

ConfirmationLinks(e) ==
    {Link(ConfirmationName(e), <<"item", r>>, [seen |-> e.status[r]]) : r \in Members(e)}

ConfirmationRows(e) ==
    {Document("confirmation", e.run, [items |-> e.status, confirmed |-> e.confirmed])}
    \cup ConfirmationLinks(e)

(* The payloads of an admission: (role, Release, artifact id) and digest. *)
Staged(e) ==
    {<<"manifest", r, None, e.nodes[r].manifest>> : r \in Members(e)}
    \cup {<<"status_response", r, None, e.status[r].response>> : r \in Members(e)}
    \cup {<<"artifact", k[1], k[2], ArtifactAt(e, k)>> : k \in ArtifactKeys(e)}

StagedDigests(e) == {p[4] : p \in Staged(e)}

CasLinkRows(e) == {Row(<<"cas_link", e.run, p[1], p[2], p[3]>>, [cas |-> p[4]]) : p \in Staged(e)}

(* Mutant: only the root Release is pinned. *)
RootPinRows(e) == {Row(<<"pin_release", e.run, e.root>>, Itself)}

PinRows(e) == {Row(<<"pin_release", e.run, r>>, Itself) : r \in Members(e)}
ArtifactPinRows(e) ==
    {Row(<<"pin_artifact", e.run, k>>, [cas |-> ArtifactAt(e, k)]) : k \in ArtifactKeys(e)}

PinsRows(e) ==
    {Row(<<"cas_object", d>>, Itself) : d \in StagedDigests(e)}
    \cup CasLinkRows(e) \cup PinRows(e) \cup ArtifactPinRows(e)

EnvelopeLinks(e) ==
    {Link(EnvelopeName(e), <<child[1]>>, [child |-> child]) :
        child \in {<<"request", e.request>>, ReceiptName(e), ClosureName(e),
                   <<"manifest", e.run>>, ConfirmationName(e)}}

EnvelopeRows(e) == {Document("admission_envelope", e, Itself)} \cup EnvelopeLinks(e)

GenerationRow(run, generation) == Row(<<"generation", run>>, [generation |-> generation])
Seal(e, generation, at) == [envelope |-> e, generation |-> generation, at |-> at]
SealRow(seal) == Row(<<"seal", seal.envelope.run>>, seal)

(* The inserts between one failure point (_fail_after) and the next. *)
StepRows(step, seal) ==
    LET e == seal.envelope IN
    CASE step = 1 -> IdentityRows(e)
      [] step = 2 -> ReceiptClosureRows(e)
      [] step = 3 -> ObservationRows(e)
      [] step = 4 -> PreregistrationRows(e)
      [] step = 5 -> ManifestRows(e)
      [] step = 6 -> ConfirmationRows(e)
      [] step = 7 -> PinsRows(e)
      [] step = 8 -> EnvelopeRows(e)
      [] step = 9 -> {GenerationRow(e.run, seal.generation)}
      [] step = 10 -> {SealRow(seal)}

LastStep == 10
Committing == LastStep + 1
Verifying == LastStep + 2

AllRows(seal) == UNION {StepRows(step, seal) : step \in 1..LastStep}

Seals == {row.value : row \in {x \in db : x.key[1] = "seal"}}
SealOf(run) == {seal \in Seals : seal.envelope.run = run}

-----------------------------------------------------------------------------
(* Sessions. *)

Idle(s) == job[s] = None
Busy(s) == job[s] # None
InTransaction(s) == Busy(s) /\ job[s].step \in 1..Committing

StoreTypeOK ==
    /\ object \in [Digests -> {"absent", "whole", "bad"}]
    /\ orphans \subseteq Digests /\ damaged \subseteq Damageable
    /\ DOMAIN job = Sessions /\ DOMAIN answer = Sessions
    /\ \A s \in Sessions : Busy(s) =>
         /\ job[s].seal.envelope \in Envelopes /\ job[s].seal.at \in Times
         /\ job[s].seal.generation \in Nat
         /\ job[s].todo \subseteq StagedDigests(job[s].seal.envelope)
         /\ job[s].temp \in BOOLEAN
         /\ job[s].step \in 0..Verifying
    /\ Seals \subseteq [envelope: Envelopes, generation: Nat \ {0}, at: Times]
    /\ failures \in 0..MaxFailures

StoreInit ==
    /\ object = [d \in Digests |-> "absent"]
    /\ orphans = {} /\ damaged = {}
    /\ db = {}
    /\ job = [s \in Sessions |-> None] /\ answer = [s \in Sessions |-> None]
    /\ failures = 0

(* The call returns or raises. *)
Answers(s, result, envelope) ==
    /\ answer' = [answer EXCEPT ![s] = [result |-> result, envelope |-> envelope]]
    /\ job' = [job EXCEPT ![s] = None]

(* The payloads have been reconciled with the envelope; staging begins. *)
Call(s, e, at) ==
    /\ Idle(s) /\ Consumable(e, at)
    /\ job' = [job EXCEPT ![s] = [seal |-> Seal(e, 0, at), todo |-> StagedDigests(e),
                                  temp |-> FALSE, step |-> 0, view |-> {}]]
    /\ answer' = [answer EXCEPT ![s] = None]
    /\ UNCHANGED <<fileVars, db, failures>>

(* The time is judged before the store is looked at. *)
Refuse(s, e, at) ==
    /\ Idle(s) /\ ~Consumable(e, at)
    /\ Answers(s, "STATUS_UNCONFIRMED", e)
    /\ UNCHANGED <<fileVars, db, failures>>

-----------------------------------------------------------------------------
(* _stage_cas *)

Staging(s) == Busy(s) /\ job[s].step = 0 /\ job[s].todo # {}
NextPayload(s) == CHOOSE d \in job[s].todo : TRUE     \* the order is fixed, and immaterial
TargetIs(s, content) == Staging(s) /\ object[NextPayload(s)] = content

(* Mutant: a target that another session links in the meantime is not expected. *)
ReuseOnlyAtFirst(s) ==
    /\ TargetIs(s, "whole") /\ ~job[s].temp
    /\ job' = [job EXCEPT ![s].todo = @ \ {NextPayload(s)}]
    /\ UNCHANGED <<fileVars, db, answer, failures>>

(* The target exists, before or after a temporary file was made: compare. *)
Reuse(s) ==
    /\ TargetIs(s, "whole")
    /\ job' = [job EXCEPT ![s].todo = @ \ {NextPayload(s)}, ![s].temp = FALSE]
    /\ UNCHANGED <<fileVars, db, answer, failures>>

(* The target holds other bytes. *)
StagingConflict(s) ==
    /\ TargetIs(s, "bad")
    /\ Answers(s, "IMMUTABLE_IDENTITY_CONFLICT", job[s].seal.envelope)
    /\ UNCHANGED <<fileVars, db, failures>>

(* mkstemp, write, flush and fsync. *)
WriteTemporary(s) ==
    /\ TargetIs(s, "absent") /\ ~job[s].temp
    /\ job' = [job EXCEPT ![s].temp = TRUE]
    /\ UNCHANGED <<fileVars, db, answer, failures>>

(* os.link creates the target or fails: nothing is ever overwritten. *)
Publish(s) ==
    /\ TargetIs(s, "absent") /\ job[s].temp
    /\ object' = [object EXCEPT ![NextPayload(s)] = "whole"]
    /\ job' = [job EXCEPT ![s].todo = @ \ {NextPayload(s)}, ![s].temp = FALSE]
    /\ UNCHANGED <<orphans, damaged, db, answer, failures>>

-----------------------------------------------------------------------------
(* The transaction. *)

(* Mutant: BEGIN DEFERRED takes no lock. *)
AnyWriter == TRUE

WriterFree == \A s \in Sessions : ~InTransaction(s)

Generations == {row.value.generation : row \in {x \in db : x.key[1] = "generation"}}
NextGeneration(used) == Max(used \cup {0}) + 1

Prepared(s) == Busy(s) /\ job[s].step = 0 /\ job[s].todo = {}

(* BEGIN IMMEDIATE, and no seal yet: the rows of the transaction start from here. *)
Begin(s) ==
    /\ Prepared(s) /\ WriterFree
    /\ SealOf(job[s].seal.envelope.run) = {}
    /\ job' = [job EXCEPT ![s].step = 1, ![s].view = db, ![s].seal.generation = NextGeneration(Generations)]
    /\ UNCHANGED <<fileVars, db, answer, failures>>

(* The same envelope again: the seal it has is verified and returned. *)
BeginSealed(s, seal) ==
    /\ Prepared(s) /\ WriterFree
    /\ seal \in SealOf(job[s].seal.envelope.run) /\ seal.envelope = job[s].seal.envelope
    /\ job' = [job EXCEPT ![s].step = Verifying, ![s].seal = seal]
    /\ UNCHANGED <<fileVars, db, answer, failures>>

BeginRemapped(s, seal) ==
    /\ Prepared(s) /\ WriterFree
    /\ seal \in SealOf(job[s].seal.envelope.run) /\ seal.envelope # job[s].seal.envelope
    /\ Answers(s, "IMMUTABLE_IDENTITY_CONFLICT", job[s].seal.envelope)
    /\ UNCHANGED <<fileVars, db, failures>>

(* Another session holds the write lock for longer than the busy timeout. *)
BusyTimeout(s) ==
    /\ Prepared(s) /\ ~WriterFree
    /\ Answers(s, "ATOMIC_COMMIT_BLOCKED", job[s].seal.envelope)
    /\ UNCHANGED <<fileVars, db, failures>>

Remaps(old, new) == old.key = new.key /\ old.value # new.value
Injects(old, rows) ==       \* a child of a parent that is not among its children
    /\ old.key[1] = "link" /\ old \notin rows
    /\ \E new \in rows : new.key[1] = "link" /\ new.key[2] = old.key[2]

Conflicts(rows, view) ==
    \E old \in view : Injects(old, rows) \/ \E new \in rows : Remaps(old, new)

StepOf(s) == StepRows(job[s].step, job[s].seal)

(* _insert_document, _insert_links_exact and _insert_exact_row. *)
Write(s) ==
    /\ InTransaction(s) /\ job[s].step \in 1..LastStep
    /\ ~Conflicts(StepOf(s), job[s].view)
    /\ job' = [job EXCEPT ![s].view = @ \cup StepOf(s), ![s].step = @ + 1]
    /\ UNCHANGED <<fileVars, db, answer, failures>>

WriteConflict(s) ==
    /\ InTransaction(s) /\ job[s].step \in 1..LastStep
    /\ Conflicts(StepOf(s), job[s].view)
    /\ Answers(s, "IMMUTABLE_IDENTITY_CONFLICT", job[s].seal.envelope)
    /\ UNCHANGED <<fileVars, db, failures>>

Commit(s) ==
    /\ Busy(s) /\ job[s].step = Committing
    /\ db' = job[s].view
    /\ job' = [job EXCEPT ![s].step = Verifying, ![s].view = {}]
    /\ UNCHANGED <<fileVars, answer, failures>>

-----------------------------------------------------------------------------
(* _verify_seal_files and read_validation_seal.  The rows a seal stands for  *)
(* are there before the seal and stay: reading them is one step.             *)

RowsOf(table, id) == {row \in db : row.key[1] = table /\ row.key[2] = id}
LinksOf(parent) == RowsOf("link", parent)
HeadsOf(run) == {row.key[3] : row \in RowsOf("release_head", run)}
PinsOf(run) == {row.key[3] : row \in RowsOf("pin_release", run)}
FilesOf(run) ==    \* the join of the objects with the links of the run
    {row.value.cas : row \in RowsOf("cas_link", run)} \cap {row.key[2] : row \in {x \in db : x.key[1] = "cas_object"}}

Verified(seal) ==
    LET e == seal.envelope IN
    /\ SealRow(seal) \in db
    /\ Document("admission_envelope", e, Itself) \in db
    /\ LinksOf(ReceiptName(e)) = ReceiptLinks(e)
    /\ LinksOf(ClosureName(e)) = ClosureLinks(e)
    /\ LinksOf(ConfirmationName(e)) = ConfirmationLinks(e)
    /\ LinksOf(EnvelopeName(e)) = EnvelopeLinks(e)
    /\ \A d \in FilesOf(e.run) : object[d] = "whole"
    /\ PinsOf(e.run) # {} /\ HeadsOf(e.run) = PinsOf(e.run)
    /\ {row.key[3][2] : row \in LinksOf(ConfirmationName(e))} = PinsOf(e.run)
    /\ RowsOf("pin_artifact", e.run) = ArtifactPinRows(e)
    /\ RowsOf("cas_link", e.run) = CasLinkRows(e)

VerdictOf(seal) == IF Verified(seal) THEN "SEALED" ELSE "RECONCILIATION_BLOCKED"

(* The transaction is committed: a seal that fails here stays. *)
Verify(s) ==
    /\ Busy(s) /\ job[s].step = Verifying
    /\ Answers(s, VerdictOf(job[s].seal), job[s].seal.envelope)
    /\ UNCHANGED <<fileVars, db, failures>>

ReadSeal(s, seal) ==
    /\ Idle(s) /\ seal \in Seals
    /\ Answers(s, VerdictOf(seal), seal.envelope)
    /\ UNCHANGED <<fileVars, db, failures>>

-----------------------------------------------------------------------------
(* Mutant: each insert is committed by itself. *)
RowsOfFailed(s) == IF InTransaction(s) THEN db \cup job[s].view ELSE db

RowsAfterRollback(s) == db

(* An OSError, a busy or full database, an injected failure: ROLLBACK, and   *)
(* "finally" unlinks the temporary file.                                     *)
Fail(s) ==
    /\ Busy(s) /\ failures < MaxFailures
    /\ failures' = failures + 1
    /\ Answers(s, "ATOMIC_COMMIT_BLOCKED", job[s].seal.envelope)
    /\ db' = RowsAfterRollback(s)
    /\ UNCHANGED fileVars

(* The process dies: SQLite rolls back, the temporary file stays. *)
Crash(s) ==
    /\ Busy(s) /\ failures < MaxFailures
    /\ failures' = failures + 1
    /\ orphans' = IF job[s].temp THEN orphans \cup {NextPayload(s)} ELSE orphans
    /\ job' = [job EXCEPT ![s] = None]
    /\ UNCHANGED <<object, damaged, db, answer>>

(* Something outside the store removes or alters a file, once. *)
Damage(d) ==
    /\ d \in Damageable \ damaged /\ object[d] = "whole"
    /\ object' \in {[object EXCEPT ![d] = content] : content \in {"absent", "bad"}}
    /\ damaged' = damaged \cup {d}
    /\ UNCHANGED <<orphans, db, job, answer, failures>>

Progress(s) ==
    \/ Reuse(s) \/ StagingConflict(s) \/ WriteTemporary(s) \/ Publish(s)
    \/ Begin(s) \/ BusyTimeout(s) \/ Write(s) \/ WriteConflict(s) \/ Commit(s) \/ Verify(s)
    \/ \E seal \in Seals : BeginSealed(s, seal) \/ BeginRemapped(s, seal)

StoreNext ==
    \/ \E s \in Sessions : Progress(s) \/ Fail(s) \/ Crash(s)
    \/ \E s \in Sessions, e \in Envelopes, at \in Times : Call(s, e, at) \/ Refuse(s, e, at)
    \/ \E s \in Sessions : \E seal \in Seals : ReadSeal(s, seal)
    \/ \E d \in Damageable : Damage(d)

StoreSpec == StoreInit /\ [][StoreNext]_vars

(* A call that started goes on; BEGIN either gets the lock or times out. *)
StoreFairSpec == StoreSpec /\ \A s \in Sessions : WF_vars(Progress(s))

-----------------------------------------------------------------------------
(* Properties *)

(* The database holds complete admissions and nothing else: no failure,     *)
(* crash or conflict between two inserts leaves a row, so an attempt that   *)
(* failed can never stand in the way of the next one of the same run.       *)
OnlyWholeAdmissions == db = UNION {AllRows(seal) : seal \in Seals}

(* Every payload of a sealed admission is in its file, whole, whoever       *)
(* staged it (_stage_cas before BEGIN), unless the file was damaged since.  *)
SealedFilesWhole ==
    \A seal \in Seals : \A d \in StagedDigests(seal.envelope) \ damaged : object[d] = "whole"

(* Commit generations number the seals without gaps, rollbacks or not.      *)
GenerationsDense == {seal.generation : seal \in Seals} = 1..Cardinality(Seals)

(* Admissions that cannot both be sealed: the run or a Release is remapped. *)
Disagree(a, b) ==
    \/ a.run = b.run /\ a # b
    \/ \E r \in Members(a) \cap Members(b) :
         \/ a.nodes[r].ref # b.nodes[r].ref \/ a.nodes[r].manifest # b.nodes[r].manifest
         \/ \E i \in DOMAIN a.nodes[r].artifacts \cap DOMAIN b.nodes[r].artifacts :
              a.nodes[r].artifacts[i] # b.nodes[r].artifacts[i]

(* What a caller is told is so: SEALED only of a sealed envelope, a conflict *)
(* only where a sealed admission disagrees, and a seal fails verification    *)
(* only after damage, however the admissions of other runs interleave.       *)
AnswersTrue ==
    \A s \in Sessions : answer[s] # None =>
        LET e == answer[s].envelope IN
        /\ answer[s].result = "SEALED" => \E seal \in Seals : seal.envelope = e
        /\ answer[s].result = "IMMUTABLE_IDENTITY_CONFLICT" =>
             damaged # {} \/ \E seal \in Seals : Disagree(seal.envelope, e)
        /\ answer[s].result = "RECONCILIATION_BLOCKED" => damaged \cap StagedDigests(e) # {}

(* No table is ever rewritten: what was committed stays (the triggers of    *)
(* _APPEND_ONLY_TABLES forbid anything else, the inserts never ask for it). *)
RowsKept == [][db \subseteq db']_vars

(* Towards its callers the store is the book of SealBook. *)
Book == [generation \in 1..Cardinality(Seals) |->
            (CHOOSE seal \in Seals : seal.generation = generation).envelope]
SealBook == INSTANCE SealBook WITH Admissible <- Envelopes, book <- Book
KeepsTheBook == SealBook!BookSpec

(* Every call ends: nothing it waits for waits for it. *)
CallsEnd == \A s \in Sessions : Busy(s) ~> Idle(s)
=============================================================================
