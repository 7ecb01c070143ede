----------------------------- MODULE RunPinning -----------------------------
(***************************************************************************)
(* ReleaseCacheStore.pin_run, the v2 to v3 upgrade that quarantines older  *)
(* pins, and what read_artifact decides about a pinned run.                *)
(*                                                                         *)
(* A run is admitted once, against the current heads and a confirmation of *)
(* the provider's status for every member of the retained closure.  Later  *)
(* reads either need all of it to be current still (ordinary access) or    *)
(* only that nothing retained was changed (audit replay).  Each call is a  *)
(* single SQLite transaction.  The pinned files are ContentStore's part.   *)
(***************************************************************************)
EXTENDS ObservationLedger

CONSTANTS Runs,             \* run_id
          ConfirmationIds,  \* confirmation_id
          Authorities,      \* authority_id with its contract hash
          Policies,         \* the store's CurrentStatusAuthorityPolicy per trusted authority
          Answers,          \* [snapshot, checked]: times of one provider answer
          Terms             \* [confirmed, expires]: times of one confirmation

ASSUME PoliciesAssumption ==
    /\ DOMAIN Policies \subseteq Authorities
    /\ \A a \in DOMAIN Policies : Policies[a].maxAge \in Nat \ {0} /\ Policies[a].skew \in Nat
ASSUME TimingAssumption ==
    /\ Answers \subseteq [snapshot: Times, checked: Times]
    /\ \A t \in Terms : t.confirmed \in Times /\ t.expires \in Nat /\ t.confirmed < t.expires
ASSUME ConfirmationIdsAssumption == None \notin ConfirmationIds

VARIABLES version,      \* PRAGMA user_version
          pins,         \* strategy_run_pins, pin_releases and the bound confirmation
          quarantined   \* legacy_v2_quarantined_run_pins

pinVars == <<version, pins, quarantined>>
storeVars == <<ledgerVars, pinVars>>

PinInit ==
    /\ LedgerInit
    /\ version \in {2, 3}
    /\ pins = [run \in Runs |-> None]
    /\ quarantined = {}

(* A StrategyRunManifest, as far as the store reads it. *)
Manifests == [run: Runs, root: Releases, ident: Identities, receipt: ReceiptDocs,
              fetch: ObsIds, status: ObsIds, admission: ObsIds, created: Times]

(* The Manifests a caller can present for r; one citing a row that is not stored is refused. *)
PresentableManifests(r) ==
    [run: Runs, root: {r}, ident: Identities, receipt: ReceiptDocs,
     fetch: RowIds(fetches[r]), status: RowIds(statuses[r]),
     admission: RowIds(admissions[r]), created: Recent]

RowOf(s, id) == CHOOSE row \in {s[i] : i \in DOMAIN s} : row.id = id

(* The row the status head of r points at is a passed, published one. *)
CurrentlyPublished(r) ==
    statusHead[r] # None /\ Published(RowOf(statuses[r], statusHead[r]))

Before(t, row) == row.at <= t /\ row.persisted <= t

(* What pin_run checks of the root Release against its three current heads. *)
HeadsAdmit(m) ==
    LET r == m.root IN
    /\ m.fetch = fetchHead[r] /\ RowOf(fetches[r], m.fetch).receipt = m.receipt
    /\ m.status = statusHead[r] /\ CurrentlyPublished(r)
    /\ m.admission = admissionHead[r]
    /\ LET adm == RowOf(admissions[r], m.admission) IN
         adm.target = m.status /\ adm.admission = "authorized"
    /\ Before(m.created, RowOf(fetches[r], m.fetch))
    /\ Before(m.created, RowOf(statuses[r], m.status))
    /\ Before(m.created, RowOf(admissions[r], m.admission))
    /\ ReleaseVerifies(r)

(* The receipt and its closure are stored, and were before the manifest was written. *)
MaterialStored(m) ==
    /\ m.created <= now
    /\ identity[m.root] = m.ident
    /\ receipts[m.receipt] # None /\ m.receipt.root = m.root
    /\ LET c == receipts[m.receipt].closure IN
         /\ c.root = m.root /\ closures[c] # None /\ ClosureStored(c)
         /\ receipts[m.receipt].at <= m.created /\ closures[c] <= m.created

MaterialPredates(m, c) ==
    \A r \in DOMAIN c.nodes :
        /\ manifests[r].at <= m.created
        /\ \A i \in DOMAIN c.nodes[r].artifacts : artifacts[r][i].at <= m.created

SameEvent(e, f) == e.id = f.id /\ e.hash = f.hash /\ e.seq = f.seq

(* What an item of a confirmation says of r; its covered Releases and its  *)
(* run, Receipt and closure are the run's own, or it is refused at once.   *)
Items == [ident: Identities, obs: ObsIds, event: StatusEvents, answer: Answers]

(* One item of a confirmation still describes the current status head of r. *)
ItemCurrent(r, item, policy, created) ==
    /\ item.ident = identity[r]
    /\ item.answer.checked <= now + policy.skew
    /\ item.answer.snapshot <= now + policy.skew
    /\ item.answer.snapshot <= item.answer.checked + policy.skew
    /\ now <= item.answer.snapshot + policy.maxAge + policy.skew
    /\ CurrentlyPublished(r)
    /\ item.obs = statusHead[r]
    /\ LET row == RowOf(statuses[r], statusHead[r]) IN
         /\ SameEvent(item.event, row.event)
         /\ row.event.recorded <= item.answer.snapshot + policy.skew
         /\ Before(created, row)
    /\ ReleaseVerifies(r)

TermsHold(m, authority, terms) ==
    /\ authority \in DOMAIN Policies
    /\ terms.confirmed <= m.created
    /\ terms.confirmed <= now + Policies[authority].skew
    /\ terms.expires > now

(* UNIQUE(confirmation_id): no other run's confirmation has this id. *)
ConfirmationUnused(cid) ==
    \A run \in Runs : pins[run] # None => pins[run].confirmation # cid

(* What is kept of an admitted run.  `confirmation` None: pinned by a v2 store. *)
Pin(m, cid) ==
    [manifest |-> m, closure |-> receipts[m.receipt].closure, at |-> now,
     statuses |-> [r \in DOMAIN receipts[m.receipt].closure.nodes |-> statusHead[r]],
     confirmation |-> cid]

(* The run's first admission.  For a run already pinned an exact repetition *)
(* returns False (see RetryAccepted) and any other Manifest is rejected.    *)
PinRun(m) ==
    /\ version = 3
    /\ m.run \notin quarantined
    /\ MaterialStored(m)
    /\ pins[m.run] = None
    /\ HeadsAdmit(m)
    /\ LET c == receipts[m.receipt].closure IN
       \E authority \in Authorities, terms \in Terms, cid \in ConfirmationIds :
         /\ TermsHold(m, authority, terms)
         /\ \A r \in DOMAIN c.nodes : \E item \in Items :
              /\ item.answer.checked <= terms.confirmed
              /\ ItemCurrent(r, item, Policies[authority], m.created)
         /\ MaterialPredates(m, c)
         /\ ConfirmationUnused(cid)
         /\ pins' = [pins EXCEPT ![m.run] = Pin(m, cid)]
    /\ UNCHANGED <<version, quarantined, ledgerVars>>

(* The v2 release of the program pinned runs without any confirmation. *)
PinLegacy(m) ==
    /\ version = 2
    /\ MaterialStored(m)
    /\ pins[m.run] = None
    /\ HeadsAdmit(m)
    /\ LET c == receipts[m.receipt].closure IN
         /\ \A r \in DOMAIN c.nodes : CurrentlyPublished(r)
         /\ MaterialPredates(m, c)
    /\ pins' = [pins EXCEPT ![m.run] = Pin(m, None)]
    /\ UNCHANGED <<version, quarantined, ledgerVars>>

UpgradeV2 ==
    /\ version = 2
    /\ version' = 3
    /\ quarantined' = {run \in Runs : pins[run] # None}
    /\ UNCHANGED <<pins, ledgerVars>>

PinNext ==
    \/ LedgerNext /\ UNCHANGED pinVars
    \/ \E r \in Releases : \E m \in PresentableManifests(r) : PinRun(m) \/ PinLegacy(m)
    \/ UpgradeV2

PinSpec == PinInit /\ [][PinNext]_storeVars

(***************************************************************************)
(* read_artifact.  Both kinds of read need the pin, its confirmation and   *)
(* everything it retained to be unchanged and every retained chain to      *)
(* verify; for a quarantined pin the confirmation is not looked at.        *)
(***************************************************************************)
StatusRowPublished(r, id) == \E i \in DOMAIN statuses[r] :
    statuses[r][i].id = id /\ Published(statuses[r][i])

(* Mutant: audit asks for current publication, like an ordinary read. *)
AuditReadCurrent(run) ==
    /\ pins[run] # None
    /\ ClosureStored(pins[run].closure)
    /\ \A r \in DOMAIN pins[run].statuses : CurrentlyPublished(r)

AuditReadAllowed(run) ==
    LET p == pins[run] IN
    /\ p # None
    /\ receipts[p.manifest.receipt] # None
    /\ receipts[p.manifest.receipt].closure = p.closure
    /\ p.closure.root = p.manifest.root
    /\ ClosureStored(p.closure)
    /\ DOMAIN p.statuses = DOMAIN p.closure.nodes
    /\ \A r \in DOMAIN p.statuses : StatusRowPublished(r, p.statuses[r]) /\ ReleaseVerifies(r)

(* Mutants: only the root is checked; publication is checked, but not that *)
(* the heads are still the pinned ones.                                    *)
OrdinaryReadRootOnly(run) ==
    LET p == pins[run] IN
    /\ AuditReadAllowed(run)
    /\ run \notin quarantined /\ p.confirmation # None
    /\ statusHead[p.manifest.root] = p.manifest.status
    /\ Authorized(p.manifest.root)

OrdinaryReadAllowed(run) ==
    LET p == pins[run] IN
    /\ AuditReadAllowed(run)
    /\ run \notin quarantined /\ p.confirmation # None
    /\ fetchHead[p.manifest.root] = p.manifest.fetch
    /\ statusHead[p.manifest.root] = p.manifest.status
    /\ admissionHead[p.manifest.root] = p.manifest.admission
    /\ Authorized(p.manifest.root)
    /\ \A r \in DOMAIN p.statuses :
           statusHead[r] = p.statuses[r] /\ StatusRowPublished(r, statusHead[r])

(* Mutant: the heads are looked at before the repetition is recognised. *)
RetryNeedsHeads(run) ==
    /\ run \notin quarantined
    /\ MaterialStored(pins[run].manifest)
    /\ HeadsAdmit(pins[run].manifest)

(* The checks pin_run makes of an exact repetition of an admitted run. *)
RetryAccepted(run) ==
    /\ run \notin quarantined
    /\ MaterialStored(pins[run].manifest)
    /\ pins[run].confirmation # None
    /\ receipts[pins[run].manifest.receipt].closure = pins[run].closure
    /\ \A r \in DOMAIN pins[run].statuses : StatusRowPublished(r, pins[run].statuses[r])

PinTypeOK ==
    /\ LedgerTypeOK
    /\ version \in {2, 3}
    /\ quarantined \subseteq Runs
    /\ pins \in [Runs -> {None} \cup
           [manifest: Manifests, closure: ClosureDocs, at: Times,
            statuses: UNION {[rs -> ObsIds] : rs \in SUBSET Releases},
            confirmation: ConfirmationIds \cup {None}]]

(***************************************************************************)
(* Ordinary access of a running strategy means that, for the root and for  *)
(* every retained Release, the provider's own latest validated event is    *)
(* "published" and no later answer failed: withdrawing a dependency, even  *)
(* after the run was pinned, cuts off the parent's run.                    *)
(***************************************************************************)
OrdinaryMeansAllPublished ==
    \A run \in Runs : OrdinaryReadAllowed(run) =>
        \A r \in DOMAIN pins[run].closure.nodes :
            /\ LatestEvent(r).status = "published"
            /\ LastRow(statuses[r]).event = LatestEvent(r)

(***************************************************************************)
(* Access that was lost stays lost: no re-observation, new admission, new  *)
(* fetch or repeated pin gives a pinned run its ordinary access back.      *)
(***************************************************************************)
LostAccessStaysLost ==
    [][\A run \in Runs : (pins[run] # None /\ ~OrdinaryReadAllowed(run))
                            => ~OrdinaryReadAllowed(run)']_storeVars

(***************************************************************************)
(* Audit replay outlives everything: whatever is appended, withdrawn or    *)
(* migrated after a run was pinned, its retained material stays readable.  *)
(***************************************************************************)
AuditAlwaysAllowed == \A run \in Runs : pins[run] # None => AuditReadAllowed(run)

(***************************************************************************)
(* An exact retry of an admitted run is accepted for as long as the clock  *)
(* has not been set back before its Manifest: an expired confirmation, a   *)
(* withdrawal or a newer head does not turn the retry into an error.       *)
(***************************************************************************)
RetryStaysAccepted ==
    \A run \in Runs :
        (pins[run] # None /\ run \notin quarantined /\ version = 3
            /\ pins[run].manifest.created <= now) => RetryAccepted(run)

(***************************************************************************)
(* A Manifest cites only its past: everything the pin rests on was both    *)
(* observed and persisted no later than the Manifest says it was created,  *)
(* although the clock may have been stepped back in between.               *)
(***************************************************************************)
CitedBefore(s, id, t) ==
    \E i \in DOMAIN s : s[i].id = id /\ s[i].at <= t /\ s[i].persisted <= t

PinsCiteThePast ==
    \A run \in Runs : pins[run] # None =>
        LET m == pins[run].manifest
            c == pins[run].closure IN
        /\ m.created <= pins[run].at
        /\ receipts[m.receipt].at <= m.created /\ closures[c] <= m.created
        /\ CitedBefore(fetches[m.root], m.fetch, m.created)
        /\ CitedBefore(admissions[m.root], m.admission, m.created)
        /\ MaterialPredates(m, c)
        /\ pins[run].confirmation # None => \A r \in DOMAIN c.nodes :
               CitedBefore(statuses[r], pins[run].statuses[r], m.created)
=============================================================================
