# InvestSystem: models, checks and proofs

TLA+ models of InvestSystem (`src/src/invest_system`), the TLC runs that check
them on small instances, and TLAPS proofs of what matters most for every
instance. Paths below are relative to `src/src/invest_system` unless they start
with `src/`.

- `tlc -config LedgerStory.cfg MCObservationLedger.tla` checks a run (every run
  and its module is listed under "Runs").
- `tlapm ReceiptRegistryProofs.tla` checks the proofs of a component.

## 1. Inventory of the system

InvestSystem consumes immutable *Releases* of a provider (the knowledge base,
"KB"), decides whether a strategy run may use one, and keeps everything a run
used readable for audit. Around that core are pure strategy engines, all of
them synthetic-validation only.

| Part | State it keeps | Operations | What makes it hard |
|---|---|---|---|
| `storage.py` receipts and closures | SQLite: release identities, Manifest snapshots, artifact mappings, CAS registry, closures, receipts | `record_verified_consumption` | conflicts found half-way through a transaction; rows shared by several closures |
| `storage.py` observations | three append-only chains per Release with their heads | `append_observation` | clock steps back; incremental checks must match a full re-verification; withdrawal must be final |
| `storage.py` pins | run pins, confirmations, quarantined v2 pins | `pin_run`, `read_artifact`, `replay_*` | decisions from evidence that is stale by the time it is used; retries; later observations |
| `storage.py` files | content-addressed objects and temporary files | `_atomic_write`, `quota_report` | processes sharing a cache; failures and crashes between a file and its row |
| `storage.py` opening | journal mode, schema version | `_initialize` | concurrent creation and migration, bounded retries |
| `retention.py` | none | closure graph validation | cycles, diamonds, unreachable members |
| `status_confirmation.py` | authority policies | building and checking a run's confirmation | freshness, one use only |
| Stage 6B store (`stage6b_validation_store.py`) | an isolated SQLite store with its own content-addressed files; a seal is its last row | `commit_validation_admission`, `read_validation_seal` | failure between any two of ten insert steps, two sessions with overlapping closures, files staged outside the transaction |
| Stage 6B admission (`stage6b_admission.py`, `stage6b_http_admission.py`, `stage6b_live_validation.py`) | none between calls | prepare, confirm, reconcile, commit | the provider moves between requests; the clock is read many times |
| `http_client.py`, `transport.py` | a verified status chain | read-only requests | gaps, rewinds and duplicates in the chain |
| Stage 5 market execution (`stage5_market_execution.py`) | none between calls | one approved intent taken through the windows of a calendar | rules, costs and data that change between windows; rounding; the first window that can execute |
| Stage 5 risk and engine (`stage5_portfolio_risk.py`, `stage5_portfolio_ledger_engine.py`) | none between calls | sizing, then execution, then settlement, under one injected clock | limits computed at the proposal's price and used at the market's |
| Stage 5 ledgers (`stage5_ledger.py`, `stage5_fill_projection.py`, `stage5d_ledger_v2.py`, `stage5d_stage5c_adapter.py`) | append-only journals, lots, settlement in progress | replay, projection of a fill, reversals and replacements | two ledgers written by different code; corrections of corrected events; four settlement moments in any order |
| Stage 5D lifecycle (`stage5d_normal_lifecycle.py`, `stage5d_bounded_replay.py`) | none | comparisons of computed results | - |
| Stage 6C (`stage6c_*`) | none in the program; the researcher keeps inventories, plans and replays and hands all of them to the phase | folds, coverage, peer baskets, experiments, replays, Holm's procedure, champion gate, phase seal | sources that went stale between two calls; step-down off-by-ones; labels that reach into a fold |
| Stage 4 events (`stage4_event_semantics.py`) | none; each case cites the snapshot before it | one evaluation per revision: knowledge graph, parties, contract, passports E0 to E7 | evidence that comes, goes and contradicts itself from one revision to the next; a graph whose times may be equal |
| Stage 4 context, gates, valuation, exit and the complete engine (`stage4_context_industry.py`, `stage4_gate_profit_scenarios.py`, `stage4_expectation_valuation_exit.py`, `stage4_complete_engine.py`) | none | one case through preflight, context, event, gates 1 to 4, scenarios and exit to one label | dozens of optional inputs behind nested early returns; parts that must be parts of one case; sums of intervals; gates 3 and 4, which Stage 5B has a second time |
| Stage 2B engine | none | gate evaluation in a fixed order | - |
| governance, canonical encoding, models | none | stateless comparisons with pinned hashes | - |

How the parts meet: the HTTP client and the adapters hand verified documents to
`record_verified_consumption` (files, then metadata); a fetch, a status and an
admission observation are appended for the Release; `pin_run` admits a run from
those heads and a fresh confirmation of every retained Release; reads go through
the pin. Every database change is one `BEGIN IMMEDIATE` transaction
(`ReleaseCacheStore._write`), so it is one step of a model, and an exception is
a step that changes nothing. The files are outside the transaction, which is
why they have a model of their own.

A trade goes another way: Stage 4 approves a case, whose intent and values are
taken over, Stage 5C sizes it against
an account, Stage 5B takes it through the market within the ceilings that leaves,
the fill is projected into the 5C ledger, and Stage 5D writes the same trade into
a second ledger. Stage 6C judges a whole study of such trades, in one call, from
sources that were computed one after another. None of this code keeps state
between calls, so the order of its steps is the order inside a call (Stage 5) or
the order in which a researcher makes the calls (Stage 6C).

What makes each part correct:

- receipts: whole, unique per contract, never rewritten;
- observations: whatever is appended, the history still verifies; access is
  given only by a fresh admission of the current status; withdrawal is final;
- pins: nothing is read as a strategy unless every retained Release is still
  what was confirmed; audit reads are never lost; retries are recognised;
- files: metadata never outruns the files; inventories are right while others write;
- opening: no half-made schema is ever seen or blamed; refused files stay untouched;
- the Stage 6B store: a sealed run is complete, in the database and in the
  files; what fails leaves nothing; every answer is true;
- closures: exactly the rooted, closed, time-ordered, acyclic graphs are accepted;
- events: nothing that is missing lowers what an event had reached; knowledge that
  passes rests on earlier lawful facts, however indirectly;
- the complete Stage 4: knowing less never helps a case; what gates pass at the
  ends of intervals holds all through them; every number was known when the
  contract was; what was approved stays approved on better terms;
- execution and risk: what was filled, at the price it got, is within every limit;
  nothing is bought for a stopped account; what could not be judged is never
  reported as judged;
- the Stage 5 ledgers: every legal journal replays, both ledgers say the same, a
  correction leaves no trace of what it corrected;
- Stage 6C: no fold learns from what it is judged on, the significance of the
  family is the closed test's, and a seal describes its sources as they are.

## 2. Modules

| Module | Models | Proved in |
|---|---|---|
| `ReceiptRegistry` | the metadata transaction of `record_verified_consumption` | `ReceiptRegistryProofs` |
| `ObservationLedger` (extends `ReceiptRegistry`) | `append_observation`, chain verification, `_current_access` | `RunPinningProofs` |
| `AccessGate` | abstract specification: what a caller may rely on about access to one Release after another | implemented by `ObservationLedger` (`ImplementsGate`) |
| `RunPinning` (extends `ObservationLedger`) | `pin_run`, confirmation checks, `_upgrade_v2`, strategy and audit reads | `RunPinningProofs` |
| `ContentStore` (extends `ReceiptRegistry`) | `_atomic_write`, the file half of `record_verified_consumption`, `quota_report` | `ContentStoreProofs` |
| `StoreOpening` | `_initialize` of several processes | `ThresholdProofs` |
| `RetentionGraph` | `_validate_release_graph` | `ThresholdProofs` |
| `ValidationStore` | the Stage 6B store: staging, the ten insert steps, commit, verification | `ValidationStoreProofs` |
| `SealBook` | abstract specification: a book of seals, one per run, never taken back | implemented by `ValidationStore` (`KeepsTheBook`) |
| `AdmissionSession` (uses `SealBook`) | one Stage 6B admission from handoff to seal, with the provider and the clocks | `ThresholdProofs` |
| `MarketRules` | Stage 5B's inputs, rules in force, quotes, costs, impact, the greatest affordable lot, the Stage 4 gates at the market's price | `TradeCaseProofs` |
| `MarketExecution` (extends `MarketRules`) | the scan over sessions and windows, `_evaluate_stage5_market_execution` | `TradeCaseProofs` |
| `PortfolioTarget` (extends `MarketRules`) | `evaluate_stage5_portfolio_target`: limits, drawdown stops, sizing | `TradeCaseProofs` |
| `PortfolioLedger` | `replay_stage5c_ledger`: ordering, postings, lots, semantics of every event type | - |
| `FillProjection` (extends `PortfolioLedger`) | `project_stage5_fill_to_ledger` and the legality of settlement terms | - |
| `LedgerV2`, `SourceDrivenLedger` | `replay_stage5d_v2_slice`; the adapter that writes a Stage 5C result into it | - |
| `TradeCase` (composes the five above) | `evaluate_stage5_portfolio_ledger` and `evaluate_stage5d_source_driven_ledger_slice` for one trade | `TradeCaseProofs` |
| `JournalCorrections` (extends `PortfolioLedger`) | a journal that grows by reversals and replacements | - |
| `WalkForwardFolds` | candidate inventory, fold plan, coverage audit | `SyntheticPhaseProofs` |
| `PeerExperiments` | peer baskets; the ledger of ablations and stress replays | `SyntheticPhaseProofs` |
| `ComparisonFamily` | the replay kernel, inference of a comparison, Holm's step-down | `SyntheticPhaseProofs` |
| `ChampionGate` (extends `ComparisonFamily`) | `evaluate_stage6c_synthetic_champion_gate` | `SyntheticPhaseProofs` |
| `SyntheticPhase` (composes the four above) | the calls a researcher makes, and `evaluate_stage6c_synthetic_phase` | `SyntheticPhaseProofs` |
| `EventPassports` | `evaluate_stage4_event` and the revisions of one event | `Stage4Proofs` |
| `IndustryContext` | `evaluate_stage4_context_industry`: history, admission, bottleneck, beneficiary | - |
| `ResearchGates` | `evaluate_stage4_gates`: gate 1, the scenario set, the profit bridges, gate 2 | `Stage4Proofs` |
| `ValuationExit` (extends `ResearchGates`) | `evaluate_stage4_expectation_valuation_exit`: gates 3 and 4, the exit of a holding | `Stage4Proofs` |
| `CompleteStage4` (composes the four above with `MarketRules`) | `evaluate_complete_stage4`, cases that lose evidence, and Stage 5B's `_gate_recheck` of what it approved | `Stage4Proofs` |
| `Absent` | `None`, shared by the modules that need no other constant of the stores | |
| `MC*` | small instances for TLC; `MCThreshold` puts `StoreOpening`, `RetentionGraph` and `AdmissionSession` side by side, `MCStage4` an event and a complete case | |

Correspondence. A document whose name is the hash of its content is its content
(`Receipt(b)`, `Closure(b)`): two names are equal exactly when the documents
are. A table is a function from keys to rows, `None` for an absent row, except
`cache_objects`, of which only the set of digests matters. A caller's arguments
range over `Bundles`, and in `ObservationLedger` over all rows that pass the
constructors of `consumption.py`. Times are small naturals, because the stored
text has fixed width and compares like numbers; the clock (`now`) may move both
ways in every model, because the code reads the wall clock. SHA-256 collisions
and SQLite corruption are outside the models; altered files are inside
(`ContentStore!Damage`).

Some definitions come in two forms, the second introduced as a mutant. A mutant
is the definition with a plausible bug (a dropped guard, a swapped order); it is
used by no specification and documents which mistake a property would catch.

### ReceiptRegistry
State: `identity`, `manifests`, `artifacts`, `cached`, `closures`, `receipts`.
The one action, `RecordVerifiedConsumption`, has the checks of the code
(`IdentityAgrees`, `ContractUnused`, `NodeAgrees`) as guards (`Recordable`) and
all inserts as its effect. A repeated call changes nothing and is a stutter.

### ObservationLedger and AccessGate
State: the chains `fetches`, `statuses`, `admissions` of each Release; a head is
the last row. `AppendFetch`, `AppendStatus` and `AppendAdmission` carry the
incremental validation of the code; `ChainsVerify` is the *other* algorithm, the
full re-verification that every read performs. That the first implies the second
is the central property: if it failed, one accepted observation would make the
Release unreadable for good. `AccessGate` forgets chains and rows and keeps, per
Release, what the provider was last known to say, whether that is confirmed by
the latest observation, and whether access is open.

### RunPinning
`PinRun` has the guard of the code in its order: material stored, heads admit,
every confirmation item current, terms hold, confirmation unused, nothing cited
from the future. `OrdinaryReadAllowed`, `AuditReadAllowed` and `RetryAccepted`
are the decisions of the read paths and of a repeated `pin_run`. `PinLegacy`
stands for the v2 release of the program, which is not in the repository.

### ContentStore
Every call of `record_verified_consumption` is a small state machine (`job`):
adopt an existing object or open a temporary file, write and verify it, replace,
and so on for every digest, then verify all files again and commit. `Fail` is
any exception (the `finally` clause unlinks the temporary file), `Crash` the
death of the process. `quota_report` is split where others can come between: the
rows, each directory listing, each `stat`, each comparison.

### StoreOpening
One opener per process: the preflight in a read snapshot, the WAL switch that a
reader in delete mode makes busy, `BEGIN IMMEDIATE`, migration, commit. `Crash`
may happen anywhere. `OpenProgramWrites` is another process with the database
open.

### ValidationStore and SealBook
The nine tables are one set of rows, `db`; a row's key is its table and primary
key. A call of `commit_validation_admission` is a `job`: it stages every payload
(`Reuse`, `WriteTemporary`, `Publish`), begins its transaction, performs the
inserts between two `_fail_after` points of the code as one step (`step` 1 to 10,
the seal in the tenth) on its own `view` of the database, commits, and verifies
what it reads back. Between any two of these the other session may act, and the
call may fail (`Fail`: the code's `except` and `finally` clauses) or its process
die (`Crash`). `Damage` alters a staged file from outside. Conflicts are found
where the code finds them: an existing key with other columns (`Remaps`), or a
stored child that the parent should not have (`Injects`). Left out: `persisted_at`
and ordinals, which no insert compares on its own, and the reconciliation of the
payloads with the envelope, which reads no store and is a precondition (`Call`).
`SealBook` keeps of all this one sequence: the sealed envelopes in the order of
their commit generations.

### AdmissionSession
`story` is the provider: the status events of each Release with the provider's
time. `now` is the local clock, read anew for every document. A session (`job`)
has the two passes of the code: bundles in `prepare_stage6b_producer_handoff_validation`
(`ReadRelease`, `ReadBundleStatus`), then status histories in
`fetch_stage6b_closure_status_evidence` (`AskStatus`, `ReceiveStatus`: the reply
is made before the clock is read for it), then confirmation, observation,
Manifest and commit, each with its own reading of the clock. A reply may be torn
(`Histories`: head and events from both sides of a new event). Any check that
fails ends the session (`Abandon`), as do errors and crashes. The seal itself is
`SealBook!Admit`, which `ValidationStore` is shown to implement. Left out: the
documents' hashes and artifacts, which are compared with the handoff and do not
change, and the older `prepare_stage6b_live_validation`. The provider is assumed
to answer with its current state in at least one of head and events and to stamp
the reply with its own clock; that clock does not go back.

### RetentionGraph
Both loops, one turn per step; stacks are sets because no result depends on the
order. `ProperClosure` states what a closure has to be without any search.

### PortfolioLedger, FillProjection and JournalCorrections
A journal is a set of events; `Replay` sorts it as the code does (moment, priority
of the type, id), posts each event into balances and lots, and gives up at the
first that does not fit. `Fits` has the semantics of each event type, `Meanings`
those of reversals and replacements; `Premature` tells the two ways of giving up
apart. `ProjectedJournal` is what a fill becomes: the opening, the order and its
reservation, the fill, fees and taxes, and the settlement events; `Projectable`
has the code's conditions on the settlement terms. `JournalCorrections` grows a
journal event by event (`Post`, `Reject`): because the journal is append-only and
a replay up to a clock is the replay of a prefix, this is the replay of every
journal of the pool. `Inverts` compares the rows of a reversal with those of its
event one by one, as `_inverse_matches` does with two sorted lists.

### EventPassports
`brief` is the case last written about an event, `report` what
`evaluate_stage4_event` made of it; the evaluation is one operator per rule of the
code (`AuditLayers`, `PartyOutcome`, `E4Outcome`, `EventStateOf`), and an action is
whoever follows the event: he writes the next case (`Revise`), meets the same
material again (`Observe`), replays it under new rules (`Migrate`) or chains the
revision wrongly (`Mischain`). He cites the revision before it with the state it
reached or had last confirmed (`Cited`). Facts and nodes of the knowledge graph
are one sequence, because the code walks them in a fixed order; the claims of a
passport are the set of their conclusions, because only that is aggregated.
`Circular` says without a search what the code's search for cycles finds. Left
out: texts, hashes and the constructors' format checks.

### IndustryContext, ResearchGates, ValuationExit and CompleteStage4
The four batches are functions of a case, one operator per rule; a rule's early
returns are the branches of its operator, in the code's order wherever two of them
differ in outcome. The reason code is left out, so returns with the same outcome
are one condition. `dossier` is the case, `verdict` what
`evaluate_complete_stage4` makes of it. `Withhold` submits the case again with one
thing it had missing or unknown: an optional field, a claim, a fact's date, a
trigger. Of the parties it withholds what the case has of them: the one lawful link
of a role (`Founded`). `Execute` is Stage 5B asking gates 3 and 4 again at an executable quote,
with the operators `MarketExecution` uses (`MarketRules!GatesAt`), so that the two
copies of the gates in the program are two in the model. Profit components,
drivers and financial lines that the code treats alike are represented by one
each (one added and one deducted, one of either sign); rates are hundredths,
moments days. Of a hash, a method or a reference only whether it is there and
right is kept. Identities of the batches' rules are fixed by types.

### MarketRules and MarketExecution
A case is the record of one intent with all data of the market. The scan
(`place`) stands before a session or at a window; every early exit, `continue` and
day stop of the code is an action (`Ruleless`, `SessionBlind`, `Untradable`,
`TooSmall`, `Priced` and so on). `Quote` is the price, slippage, fees and tax of a
quantity in a window with the code's roundings; `AffordableQuote` is the binary
search over lots.

### PortfolioTarget and TradeCase
`PortfolioTargetOf` sizes a proposal under each limit (`Limits`), drawdown stop
and regime. `TradeCase` is the engine: `Size` or `Unsized`, `Submit` (the scan,
action by action), then `Return` (nothing was filled), `Refuse`, `Abstain`,
`Unprojectable`, `Book` or `Raise`, and `Write5D`. Hash and scope comparisons
between the call's own results hold by construction; those of inputs are flags.

### LedgerV2 and SourceDrivenLedger
The second ledger has other accounts (a cost is kept by component), names the
whole past in each event, and knows no reservations. Costs are counted in a unit
in which every share that terminates is whole; a share that does not is what the
code refuses (`Divisible`).

### WalkForwardFolds to SyntheticPhase
Time is counted in trading sessions. The inventory is its own hash, and so is
every other document. `Studies` gives the raw material; the actions are the
functions of the program a researcher calls (`PlanFolds`, `AuditCoverage`,
`Replay`, `Bind`, `Evaluate`) and what he may do in between: enrol a candidate
late, correct a series, attest anew. `Evaluate` is the whole of
`evaluate_stage6c_synthetic_phase` with its precedence of refusals: peers, then
experiments, then the gate, which recomputes folds, coverage and every replay
before it applies the formula. Abstracted: what resampling returns is an input
(`draws`: a p-value in units of 1/10001 and a flag for each lower bound); the
annualising exponent is one (series cover 252 sessions); peers weigh 1/N.

## 3. Runs

| Run | Module, configuration | Question |
|---|---|---|
| `ledger_story` | `MCObservationLedger`, `LedgerStory.cfg` | five observations with true and false provider events, a clock that moves both ways |
| `pinning_story` | `MCRunPinning`, `PinningStory.cfg` | two runs over a parent and a dependency, pinned before, between and after observations and the upgrade |
| `threshold` | `MCThreshold`, `Threshold.cfg` | three openers of every kind of database; every graph over three Releases; one admission of two Releases while they are published and withdrawn and the clock jumps |
| `store_writers` | `MCContentStore`, `StoreWriters.cfg` | two processes sharing an object, failing, dying and calling again |
| `store_inventory` | `MCContentStore`, `StoreInventory.cfg` | an inventory while others write and a file is damaged |
| `seal_rivals` | `MCValidationStore`, `SealRivals.cfg` | two sessions admit three envelopes that share a Release or a run; one fails or dies |
| `seal_book` | `MCValidationStore`, `SealBook.cfg` | a remapped Release, a damaged file, expired confirmations: refinement, and every call ends |
| `stage4` | `MCStage4`, `Stage4.cfg` | one event over two revisions, its evidence complete or faulty in one place besides its contract; or one complete case with at most one fault, from which one thing may be withheld, and which is asked again at executable quotes |
| `stage5_books` | `MCStage5`, `Stage5.cfg` | seven thousand trades from proposal to both ledgers, and every journal of a purchase, a sale and their corrections |
| `walk_forward` | `MCSyntheticPhase`, `Phase.cfg` | studies of every shape through the phase, with late candidates, corrected series and forged sources |
| `downgrade` | `MCStage4`, `Downgrade.cfg` | expected violation, see "Findings" |
| `friction` | `MCSyntheticPhase`, `Friction.cfg` | expected violation, see "Findings" |

What each shows, by property (the comment over the definition states it in full):

- `ledger_story`: `ChainsVerify` (what is appended still verifies),
  `WithdrawnNeverAuthorized`, `IdsNeverRemapped`, and the refinement
  `ImplementsGate`.
- `pinning_story`: `OrdinaryMeansAllPublished`, `AuditAlwaysAllowed`,
  `RetryStaysAccepted`.
- `threshold`: of opening, `NoSpuriousRejection` and `RefusedFileUntouched`; of
  closures, `AcceptsProperOnly` and `RejectsImproperOnly` (the
  search decides exactly `ProperClosure`) and `AlwaysAnswers`; of admissions,
  `WithdrawalStopsSeals` (no seal is committed later than the snapshot's age limit
  after a withdrawal) and `AllPublishedAtOnce` (a closure read Release by Release
  was nevertheless published as a whole at one moment). The three never meet in the
  program; they share a run because each is small.
- `store_writers`, `store_inventory`: `RegisteredFilesWhole`, `RetrySucceeds`;
  `NoFalseAlarm`, `DamageReported`.
- `seal_rivals`, `seal_book`: `OnlyWholeAdmissions`, `AnswersTrue`;
  `KeepsTheBook`, `CallsEnd`.
- `stage4`, of events: `MissingEvidenceNeverLowers` (the state on record falls only
  by a refutation), `KnowledgeRestsOnFacts` (what the edge-by-edge check lets pass
  is grounded in lawful facts and older than what rests on it); of cases:
  `ApprovalHoldsAtBetterPrice` (the two copies of gates 3 and 4 agree where it
  counts), `PassHoldsThroughoutIntervals` (the gates' look at interval ends against
  every point of every interval), `NumbersPredateContract` (nothing a ready case
  counts with, derived values included, can only be traced to what was learnt
  later), `WithholdingNeverHelps` (whatever is withheld, no case becomes ready by
  it and no holding is told something else instead). Event and case share a run
  because the second evaluates the first.
- `stage5_books`: `JournalsReplay` (a projected journal can be replayed as of each
  of its moments and leaves nothing in transit), `TwoLedgersAgree` (both ledgers
  show the same cash and shares at every moment), `LimitsHoldAfterFill`,
  `NoNewRiskWhenStopped`, `GreatestLotBought` (the binary search against all
  quantities), `AbstentionSurvives`, `CorrectionsLeaveNoTrace` (the books are the
  sum of the standing events), `FillsBookedOnce`.
- `walk_forward`: `NoLeakage`, `HolmIsClosedTesting` (the step-down against the
  closed testing procedure over Bonferroni's tests), `SealedTradesAreAccountable`,
  `SealMatchesItsSources`.

Bounds and why they are enough. *Ledger*: one
Release, since chains of different Releases share only their ids (which
`IdsNeverRemapped` is about, with ids fewer than rows); five observations cover
publish, failure, repetition, withdrawal and what is tried after it. Observations
that arrive late (`MaxLag` above 0) are left to the proofs, which hold for every
`MaxLag`. *Pinning*: a parent and a dependency are the smallest closure in which
the root alone can mislead; two runs compete for two confirmations; the run opens
when the parent is admitted, and two more observations follow in any order.
*Graphs*: three Releases give every shape that matters (a diamond needs two paths,
a cycle may lie on or off the root's paths), and the proofs lift the bound.
*Files*: two writers, because a race needs two and a third adds no new pair; a
failure and a crash so that litter meets a retry. *Opening*: three openers, so
that one can read while two others race; two WAL attempts instead of 200, so that
giving up happens. *Stage 6B store*: two sessions, because SQLite has one writer
and a third could only wait like the second; one failure in either run, so that
every prefix of a call is abandoned once while the other goes on; a pair of
Releases shared with a single one, so that rows, files and links overlap. The
proofs lift the bounds for everything but `CallsEnd`. *Admission*:
two Releases, because one can change while the other is read; one session, since
sessions meet only in the store; four times with limits of one, so that a reply
can be fresh, at the limit, and stale; one seal. The proofs lift all of these.
*Events*: the first revision leaves each state of the ladder on record, the second
varies every part of a dossier through all its conclusions while the contract is
confirmed, refuted or doubted; a third revision would cite the second as the second
cites the first. The knowledge graph has two facts and five nodes, enough for a
cycle of two, one of one, and an inverted time at either end of a chain. *Cases*:
a sound case that passes every gate near its threshold (materiality, return,
reward, proof window and exit limits all have cases at, above and below), and every
one with a single fault in one of its parts; then one thing is withheld
(`MaxLosses`), because a second fault hides behind the first in a chain of early
returns. Quotes lie two above and below the assumed price, with costs below, at and
above the assumed ones; `Quantity` is fixed, since the gates divide by it. Intervals
are at most thirty wide, so every point of them is looked at. *Stage 5*: four dates with five sittings, because a purchase is tried on three
days and must be seen to give up after the third; prices near a hundred and lots
of ten, so that roundings, fees and slippage decide whether one more lot can be
paid; two lots of different cost, so that the order of selling shows. A trade is a
long record, so the cases are families: each varies one part of a trade that
would otherwise be filled (sessions, rules, account and risk, approvals, settlement
of purchases, settlement of sales), through all combinations of that part.
Corrections: a purchase with a fee, a sale and corrections of each at two moments,
in every order. *Stage 6C*: the program's own label length (120), embargo (20),
year (252 sessions) and resolution (10001), with candidates on both sides of each
edge; the counts it asks for are scaled (two peers for 5, four trades for 30, one
trade a fold for 5, two candidates for 15 to make a category material, one
ablation and one stress for 8 and 16), since the code compares them with a
threshold and nothing else; one revision of a study, which is enough to make any
computed source stale.

Symmetry is declared for ids, runs and writers that differ only in name, in
`ledger_story`, `pinning_story` and `store_inventory`; these check no liveness.

Fairness. `ThresholdSpec` assumes of the closure validation that a Python loop that
can take a turn takes it. `ContentStore!PersistentSpec` assumes that a live process goes on (weak
fairness of its steps) and that a caller whose Receipt is not recorded calls
again whenever it keeps getting the chance (strong fairness, because its process
may be busy in between). `ValidationStore!StoreFairSpec` assumes only that the
operating system runs a process that has called the store: while another holds
the write lock the step that is due is the busy timeout, so weak fairness is
enough. Failures and crashes are bounded by `MaxFailures` and `MaxCrashes`, since
no caller can outlast a machine that always fails. Nothing else assumes fairness.

Deadlock is checked in every run of the stores, where a state in which the
program is done stutters by an explicit action where needed (`Answered`,
`AllEnded`). `stage5_books`, `stage4`, `downgrade`, `walk_forward` and `friction`
end: a trade that is written, a journal to which nothing can be added, an event
nobody revises, a case that was executed and a study that is sealed have no further step, and the
configurations say so.

## 4. Proofs

| Theorem | States |
|---|---|
| `RegistryTypeCorrect`, `RegistryReceiptsWhole`, `RegistryOneReceipt`, `RegistryRowsImmutable` | the registry properties for any Releases, digests and bundles |
| `LedgerTypeCorrect`, `LedgerInvariant`, `LedgerChainsVerify`, `LedgerStoryGoesForward`, `LedgerWithdrawnNeverAuthorized`, `LedgerFreshAdmission`, `LedgerIdsNeverRemapped` | the ledger properties for chains of any length |
| `LedgerImplementsGate` | the ledger implements `AccessGate` |
| `PinInvariant`, `PinAuditAlwaysAllowed`, `PinsOnlyCiteThePast`, `PinRetryStaysAccepted`, `PinOrdinaryMeansPublished`, `PinLostAccessStaysLost` | the pinning properties for any closures, runs, confirmations and clock readings |
| `OpeningInvariantHolds`, `OpeningReadyMeansCurrent`, `OpeningNoSpuriousRejection`, `OpeningRefusedFileUntouched`, `OpeningRowsSurvive` | the opening properties for any number of openers and attempts |
| `GraphTypeCorrect`, `GraphInvariant`, `CountersCorrect`, `AcceptanceSound`, `RejectionSound` | the closure validation for any finite set of Releases |
| `FilesTypeCorrect`, `FilesImplementRegistry`, `FilesRegisteredWhole` | the files for any writers, digests, failures and crashes; what they do to the rows is what `ReceiptRegistry` allows, so its theorems hold of it |
| `InventoryNoFalseAlarm`, `InventoryReportsDamage` | the inventory of a cache that others are writing |
| `StoreTypeCorrect`, `DatabaseInvariant`, `AdmissionsWhole`, `GenerationsCorrect`, `CommittedRowsKept` | the Stage 6B database for any sessions, envelopes and number of failures |
| `SealedFilesCorrect` | its files: sealed payloads are whole unless damaged from outside |
| `AnswersAreTrue` | what its callers are told about seals and admissions |
| `StoreKeepsTheBook` | the Stage 6B store implements `SealBook` |
| `AdmissionInvariant`, `AdmissionStopsAtWithdrawal`, `AdmissionPublishedAtOnce` | the admission properties for any closure, sessions, times and limits |
| `AbstentionIsKept` | the scan of the market, for any calendar, windows and rules |
| `StoppedAccountsBuyNothing`, `LimitsHold`, `GreatestLot` | a trade from sizing to fill, for any account, limits, prices, fees, slippage curves and ceilings |
| `JournalFillsBookedOnce`, `JournalCorrectionsLeaveNoTrace` | a Stage 5C journal, for any events, lots, accounts and corrections in any order |
| `PlansComeFromInventories`, `PhaseNoLeakage`, `PhaseSealMatches` | the phase properties for any calendar, label length, embargo, studies and number of revisions |
| `EventKnowledgeRestsOnFacts`, `EventMissingEvidenceNeverLowers` | an event, for any knowledge graph, passports and number of revisions |
| `CaseNumbersPredateContract`, `CasePassHoldsThroughoutIntervals`, `CaseApprovalHoldsAtBetterPrice`, `CaseWithholdingNeverHelps` | a complete case, for any amounts, intervals, quotes and withheld evidence |
| `StepDownIsClosedTesting`, `PhaseTradesAccountable` | Holm's step-down for any p-values; the trades of a seal, for any inventories, baskets and contributions |

*Registry.* `ReceiptsWhole` is not inductive without types; with them, a step
can disturb an older receipt only by changing a row it rests on, and the guards
`IdentityAgrees` and `NodeAgrees` make every rewritten row equal to the old one.

*Ledger.* `ChainsVerify` alone is not inductive: an appended status is compared
with the *highest* passed event only, while verification compares neighbours. The
strengthening (`LedgerInvariant`) adds that the passed events of a chain are
ordered by sequence number with at most one identity per number; then the
highest event is the last one, and the two comparisons agree. The refinement
maps a Release's chain to its last passed event; each append is a step of the
gate or leaves it unchanged. That an id keeps its row needs no more than types:
an append adds one row, of an id that no chain had (`AppendKeepsNames`).

*Pinning.* `PinInvariant` says of every admitted run that it is *grounded* (its
material is stored as its Manifest names it), *predated* (all of it is older than
the Manifest) and *witnessed* (each retained status is a published row of its
Release's chain). All three speak of rows, and rows are neither taken away nor
replaced (`RegistryKept`, `ChainsKept`), so they survive every step of the ledger;
a pin establishes them. Audit reads, retries and citation follow at once.
Ordinary access also needs that the pinned row is the head: by the ledger's
invariant the head is the last row, which is then the provider's latest event.
Access does not come back because a head that moved names a fresh id
(`MayAppend`), while what a pin cites is a used one.

*Opening.* An opener acts on what its preflight saw and, once it has the write
lock, on what it read after that. `OpeningInvariantHolds` says which of the two is
still true of the file: a schema found acceptable can only have been upgraded
since, an unacceptable file stays so because nobody but an opener that accepted
it changes it, and a draft differs from the file by the opener's own migration.

*Phase.* `PlanOf` separates training and evaluation for every inventory that the
constructor admits, so `NoLeakage` needs only that a plan is the plan of *some*
such inventory; enrolling late does not make a plan anything else. That a seal
matches its sources is the gate's recomputation: whatever was changed between
two calls, the gate compares with the plan, audit and replays of the bundle it
was given, and the bundle holds the current inventory and series.

*Holm.* The closed test asks, of every set of hypotheses with `i` among them, that
its least p-value times its size is within the threshold. Ranks are an order of
the family (`AheadOrders`), so every such set has a first member (`FirstAhead`);
its multiplier is the number of those that do not stand ahead of it
(`MultiplierCounts`), which is at least the size of the set, and it is reached
by the set of all of them. So a rejection one by one down to `i` and the closed
test agree (`RejectedIsClosed`), and the adjusted p-value is the largest product up
to `i` (`AdjustedIs`). P-values are at least one over the number of resamples plus
one, because the observation counts as one draw (`IsDraw`).

*Accountability.* A seal needs the attested ids to be tradable in the plan it was
sealed with, and the ids of an inventory are unique: so the trades are as many as
the ids, and being judged in two folds is excluded by the plan (`TradesJudged`).
Every judged candidate has a snapshot, the snapshot's basket is large enough, and
its peers are different securities, none of them the target (`BasketSuffices`).
That no trade made more than a quarter of the profit needs the sum of the
contributions to be a number: it is a fold over a finite set, which is
determined and exists by the smallest set for which it would not (`TotalsAgree`,
`TotalExists`).
`SoundSource` gathers the conditions of the constructors, and `StudyInv` carries
them over the calls of the researcher.

*Graph.* The search invariant: what was met is closed except for what is pending,
and every closed set with the root contains both. So when nothing is pending,
"met = all" is the same as `Rooted`. The order invariant: visited or ready means
every dependent was visited, and every nonempty set of visited Releases has a
top. So all visited means acyclic; and if some are left while none is ready, the
rest is a set without a top, which is a cycle.

*Stage 6B store.* `OnlyWholeAdmissions` speaks of committed rows only, so it says
nothing of the transaction that will replace them. `DatabaseInvariant` adds the
writer: at most one session is in a transaction; its view is the database plus
exactly its own inserts so far; its run has no seal; its generation is the next
one. Then the commit adds one whole admission, whatever failed before. The file
invariant says that a payload a session no longer has to do is whole or was
damaged, which is what the seal relies on. The book is the seals in the order
of their generations, which `GenerationsCorrect` makes a sequence.

*Files.* `RegisteredFilesWhole` follows from who may put what where: a file is bad
only by damage, and a writer that has verified its last object has found all of
its bundle's whole since. A file that was whole can only get worse by `Damage`,
which `damaged` remembers. For the inventory the order in which `quota_report`
reads is what counts: rows first, directories after them. `ScanTrue` says that a
row that was read has its object in a directory still to be listed, among the
names listed, or among the files found whole, unless it was damaged; `HurtReported`
follows an object that was broken before the rows were read until the comparison
that reports it.

*Answers.* `AnswersTrue` compares what a caller was told with the database as it
is now, so it must be known that a conflict is a conflict. A row's key fixes its
value for one family of rows after the other (`RowsFit`): documents are what they
are named by, and heads and links are those of one admission. So two admissions
that both fit have no conflict unless they disagree on a Release or a run
(`NoConflict`), a call told of one has one (`ConflictsAreReal`), and the rows
that verification looks for are exactly those of the sealed envelope
(`SealedIsVerified`). `TruthInv` adds that a run is sealed once and that a bad
file was damaged; what an answer says is then stable (`ToldStays`): seals are not
taken back and damage is not undone.

*Trades.* What the code computes is written as it computes it, so most of the
proof is arithmetic. The search for the greatest lot is a function over reaches
(lowest, highest, best so far); `SearchFinds` shows by the least counterexample
that it returns the greatest good quantity *if goodness is monotone*. That it is,
is the larger part (`LessIsAffordable`): fees with minima, taxes rounded up,
prices rounded to ticks, and the slippage curve, which is piecewise linear with
its own rounding (`SlippageGrows`), all grow with the quantity, so what can be
paid for more can be paid for less. `ScanInv` ties the scan's place to the
attempts it has behind it; an order is called expired only from its last place.
`TradeInv` says of every step what the sizing, the ceilings of the submission and
the fill have to do with each other: the target is within each limit at the
proposal's price, the ceilings carry the target's caps over, and the fill is
within the ceilings at the price it got (`FillWithin`) and the greatest that is
(`Greatest`). Sums over positions are folds, about which `SumExists` and
`SumGrows` are proved by the smallest set that would fail. So
`LimitsHoldAfterFill` does not rest on the price at which the trade was sized.

*Journals.* A correction is told from what it corrects by ids only, so the
invariant (`JournalInvariant`) is about links: ids name one event each, an event is
reversed once and only if it is no correction, a reversal is replaced once
(`CorrectionsLinked`), and of two fills with one source one stands for the other
(`FillsLinked`). Each rule is needed: a second reversal or replacement, or a
reversed replacement, would let a source back in. That an event stands from its
posting to its reversal (`StandingMoves`) then makes one more term, or one less, of
every sum over what stands (`SumPosted`); that the term lost is the one the
reversal posts is `ReversedAmounts` and `ReversedRows`. Both are about sums over
sets that correspond row for row (`SumOpposed`), proved by the smallest set that
would fail. A lot that is not in the books yet is in no standing event
(`LotsKnown`).

*Events.* The audit compares ids and times edge by edge. When it passes no two
items share an id (`AuditFinds`), so the item an edge was checked against is *the*
item of that name, and is no younger (`BasesAreOlder`): all that is as old as an
item is a basis of it (`OlderIsABasis`). Times alone do not lead to a fact, as
they may be equal along an edge; but a basis without facts would be a set every
member of which rests on another one, which is what the search for cycles
refuses (`BasesMeetFacts`). Of the states, `RecordInv` says that what is on
record is a state of the ladder and that the last revision left it no lower, or
refuted something; each way out of `evaluate_event_state` is one case of that.

*Cases.* `CaseInv` says that the verdict is that of the case as it stands and that a
quote was made for a ready one; withholding keeps a case constructible
(`WithheldIsACase`). What the gates pass is then a matter of their text. The
lower end of a bridge is a fold over the names of its components, and that it is
revenue less the highest expense and finance plus income is proved as
`LowSumIs`: by the smallest set of names whose sum would be another, as above. The
numbers of a ready case go through the audit of *Events*: a cited derived
value that was known at publication has its older items as a basis
(`ReadyNumbers`). That an approval holds at a better price is inequalities of
products: both copies of gate 4 are cleared of denominators, one by the market
capitalisation, the other by that and the gross, and `SmallerCapital` takes the
one to the other.

That withholding never helps compares two evaluations of all of Stage 4. `Loss`
sorts what can be withheld by the part it is taken from, and a case is `Ready`
exactly when every rule passes (`Passing`, `ReadyIs`). Most losses are missed: a case
without a component, a driver, a line, a date, a binding or a figure passes no more
(`MissedBeforeGates`, `MissedByValuation`), so one that passes has not lost any of
these. The others may go unnoticed, each for a reason of its own: a claim about E5 or
E6 when the state is reached without (`ContractAlike`), a party nobody is asked about
behind a secret buyer (`PartiesKept`), a prior the public's explicit ignorance makes
superfluous (`PriorNotMissed`), anything about the holding. For these the case before
passes with the same reports (`PassedBefore`), rule by rule, as the parts the rules
look at are the same. Of the holding each trigger says what it said or nothing
(`StatesSayLess`): what is confirmed was confirmed before, and where none is unknown
and every kind is there, nothing was lost that the disposition looks at
(`DispositionSaysLess`). The first attempt failed at the parties, and TLC confirmed
why: behind a secret buyer a procurement link that is confirmed without an entity
blocks the case, and the same link left unknown does not. Nothing the case *had* is
lost there, which is what `Founded` says.

*Admission.* What a session has read is about a story that has gone on since. The
invariant says what stays true: a reply that the checks will let pass was
published when it was made, and its Release is not withdrawn earlier than that
(`TrueOf`). A story only grows, so these facts are stable; this is proved once
(`JobStaysOK`) and used for every step of the provider. The moment of
`AllPublishedAtOnce` is the provider's time at `OpenWindow`: by then the first
pass has seen every Release published, and no status of the second pass was
asked for earlier.

Not among the properties of the runs, because a theorem states them for every
instance: the type invariants, `ReceiptsWhole`, `OneReceiptPerContract` and
`RowsImmutable` of the registry, `StoryGoesForward` and
`AccessNeedsFreshAdmission` of the ledger, `CountsExact` of the graph,
`ReadyMeansCurrent` and `RowsSurvive` of opening, `PinsCiteThePast` and
`LostAccessStaysLost` of pinning, and `GenerationsDense`, `RowsKept` and
`SealedFilesWhole` of the Stage 6B store.

Assumptions: the named `ASSUME`s of the modules only: times are naturals, `None`
is not a value, a bundle's root is one of its members, Releases are finite,
cutoffs are integers, bounds are naturals, and a temporary file is not named like
an object (`NamesAssumption`: the code puts the two in different forms). TLC
evaluates each of them in a run. What is assumed of a journal's events is
what their classes check and that the rows are finitely many (`IsEvent`, `HasRows`);
what is assumed of a trade is what the
constructors of the code check (`IsCase`, `IsDesk` and the operators under them),
and stands in `Trades`, the initial condition. In the same way
`StudiesAreConstructible`, `EventsAreConstructible` and `CasesAreConstructible` say
of studies, events and cases what their dataclasses check (only a fact may be
undated; an amount is missing or a number; an interval has its ends in order;
resampling counts the observation), and `QuotesAreConstructible` that a quote has a
price and no negative costs. `NoneIsNoReference` and `NoneIsNoApproval` keep `None`
apart from references, states, outcomes, truth values, holdings and the record Stage
5B is handed.

Only model-checked, and why: `JournalsReplay` and `TwoLedgersAgree`, which need the
outcome of replaying the dozen events of a projected fill, and of each prefix, in
two ledgers with symbolic amounts; and liveness (`AlwaysAnswers`, `RetrySucceeds`, `CallsEnd`), which is out of the
prover's reach.

## 5. Findings

`downgrade`: `src/tests/unit/test_stage4_event_semantics.py:538` is called
"downgrade requires explicit superseding refutation" and refutes an E5 passport:
the result is `ABSTAIN` until a refutation is supplied, as the rule package (4A-2,
line 85) has it. A refuted E1, E2 or E3 passport takes another way: unless E4
passes, `evaluate_event_state` returns at stage4_event_semantics.py:1767 before
`_apply_downgrade_policy` is asked, and an event that had reached E4 is classified
E0 to E2 with `PASS` and no refutation.

`friction`: `src/docs/validation/stage6c-synthetic-champion-gate-acceptance.md:33`
asks for a net excess of at least zero under one and a half times the frictions.
The gate compares the friction replay with its recomputation, but not that it has
a result: a replay that was `PRECHECK_BLOCKED` has no figure, `or "0"`
(stage6c_champion.py:789) takes zero for it, and zero is not negative. The run
seals a champion of which the figure was never measured.

Three more disagreements were met while modelling and have no run:

- `src/docs/storage-and-cache.md:41` says that files must first reach the disk
  before the metadata becomes visible. `_atomic_write` fsyncs the content of the
  temporary file but not the directory that `os.replace` (storage.py:1201) changes,
  while SQLite fsyncs its commit; after a power loss a registered object may be
  missing. Reads then fail closed (`_verified_read`), and recording the same bytes
  again repairs the file: the cost is availability, not integrity.
- `Stage6_6B历史准入状态确认与原子留存精确规则包_v0.1.md:170` promises that a retry with
  the same bytes returns the existing result. `commit_validation_admission` judges
  the commit time before it looks for a seal (stage6b_validation_store.py:717), so
  a caller that lost the answer and repeats the call after the confirmation has
  expired is told `STATUS_UNCONFIRMED` although the run is sealed.
  `read_validation_seal` still returns the seal.
- `Stage5_5A成交组合账本与确定性回放精确规则包_v0.1.md:411`: a lot describes the fill
  that opened it. A `REPLACEMENT` that opens a reversed lot again reuses its record
  with the wrong fill's quantity and moment (stage5_ledger.py, from 1039).

Smaller observations, kept because a reader of the models will ask:

- `_validate_terms` admits a sale whose cash becomes available at the moment it
  settles, but a release sorts before a settlement, so the journal cannot be
  replayed and the trade ends `RECONCILIATION_BLOCKED` (`FreedTooSoon`). The second
  ledger sorts them the other way round and writes the trade.
- A sale that earns exactly its charges raises `ValueError` instead of giving a
  status (`Raise`), and so does the 5D adapter for a purchase without fee or
  slippage (`Chargeless`).
- Windows are scanned by their end and id (stage5_market_execution.py:427); the 5A
  package speaks of their start.
- Tightening a constraint may turn a refusal by the gates into a fill, since a
  smaller order has less slippage; the scan does not stop at the injected clock.
- A rule that allows selling on the day of purchase has no legal settlement terms
  when the settlement cycle is a day or more.
- The shares of the market before the contract are compared with nothing; only
  those of the assumed price are compared with the valuation's
  (stage4_expectation_valuation_exit.py:1297), while the 4A-4 package fixes one
  share basis (lines 200 and 445). Gate 3 may pass on other shares than
  Stage 5B computes with, hence the precondition in `ApprovalHoldsAtBetterPrice`.
- Scenario equity values are declared, and never compared with base business plus
  event value, which is how the 4A-4 package (5.2) defines them.
- An unresolved industry claim leaves the company without the tier, so gate 1 says
  `REJECT` (stage4_gate_profit_scenarios.py:746) where the 4A-3 package (line 106)
  has unknown upstream results `ABSTAIN`.
- The 4A-2 package (line 37) ranks `BLOCKED` over `REJECT` over `ABSTAIN` within a
  rule; the scenario and valuation rules return the first fault they meet.
- The profit gates are to abstain when an amount is confidential (4A-2, line 116);
  the event's result says so in `future_profit_gate_must_abstain`, which no gate
  reads.
- Cost and slippage are each to be non-negative (4A-4, 5.4); only their sum is
  checked, so a negative slippage can offset a cost.
- A buyer whose name is secret by law may stay unknown, and a case is ready with
  one; this is the only unknown that helps. `WithheldEvent` therefore withholds the
  grounds of secrecy together with the buyer. A procurement link that is claimed
  without an entity blocks such a case; left unknown it is not asked about
  (stage4_event_semantics.py:1351 comes before 1416).
- If an inference case is blocked, Holm's procedure raises (stage6c_inference.py:743)
  through the phase, which the model calls `RAISED`; the documents speak of a seal
  that says so.
- A fold's replay is not bound to the fold's interval; the drawdown of a study
  starts anew in each fold; `COVERAGE_READY` does not mean that every fold has a
  candidate to evaluate.

## 6. Not modelled, and why

Byte totals, soft limits, and symlink or hard-link checks of the cache (they
refuse, and keep no state); the two separate SELECTs of `quota_report`, listed as
a hazard; canonical encoding, hashing and schema validation of documents (pure
functions, taken as exact); governance documents (constants compared with
hashes); the lifecycle and bounded replay of Stage 5D (comparisons of results that
are modelled); the resampling of Stage 6C (its outcome is an input).
Stage 2B is left to the plan.

## 7. Plan

1. `AdmissionSession` joined with the staging of `ValidationStore`: the rule
   package (`Stage6_6B...精确规则包_v0.1.md:109`) limits the snapshot's age when the
   transaction begins, while `_validate_commit_time` judges the time the caller
   passed in, before staging and before the write lock is waited for.
2. Stage 5B fed with cases of `CompleteStage4` in place of the Stage 4 flags of
   `MarketRules`; Stage 2B as operators.
