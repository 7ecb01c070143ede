------------------------- MODULE ObservationLedger -------------------------
(***************************************************************************)
(* The three append-only observation chains of a Release and their heads:  *)
(* ReleaseCacheStore.append_observation with everything it validates.      *)
(*                                                                         *)
(* A chain is kept in the order its rows were committed.  The code keeps   *)
(* rows and rebuilds the order from `supersedes`; ChainsVerify is what the *)
(* rebuilding accepts, with every rule it re-applies to the whole history. *)
(* Observations come from callers: any value the dataclasses of            *)
(* consumption.py accept may be handed over, stale, repeated or invented.  *)
(***************************************************************************)
EXTENDS ReceiptRegistry, Sequences

CONSTANTS ObsIds,        \* observation ids
          StatusEvents,  \* provider status events a caller may present
          MaxLag         \* bound: an observation is at most this old when appended

Statuses == {"building", "validated", "published", "withdrawn"}
AdmissionStatuses == {"authorized", "unconfirmed", "denied"}

(* A provider status event, as ReleaseStatusObservation admits it. *)
EventShape(e) ==
    /\ e.status \in Statuses
    /\ e.seq \in Nat \ {0}
    /\ e.recorded \in Times
    /\ e.seq = 1 => e.prev = None /\ e.status = "building"
    /\ e.seq > 1 => e.prev # None

ASSUME EventsAssumption == None \notin StatusEvents /\ \A e \in StatusEvents : EventShape(e)
ASSUME LedgerAssumption == None \notin ObsIds /\ None \notin ReceiptDocs /\ MaxLag \in Nat

(* A passed fetch names its receipt and a passed status its event; a failed *)
(* one has None.  A passed fetch lists exactly its receipt's artifact ids,  *)
(* so the list is not repeated here.  `at` is observed_at.                  *)
FetchRows(ats, prevs, stamps) ==
    [id: ObsIds, ident: Identities, at: ats, supersedes: prevs \cup {None},
     persisted: stamps, receipt: ReceiptDocs \cup {None}]

StatusRows(ats, prevs, stamps) ==
    [id: ObsIds, ident: Identities, at: ats, supersedes: prevs \cup {None},
     persisted: stamps, event: StatusEvents \cup {None}]

AdmissionRows(ats, prevs, stamps, targets) ==
    [id: ObsIds, ident: Identities, at: ats, supersedes: prevs \cup {None},
     persisted: stamps, target: targets, admission: AdmissionStatuses]

FetchRow == FetchRows(Times, ObsIds, Times)
StatusRow == StatusRows(Times, ObsIds, Times)
AdmissionRow == AdmissionRows(Times, ObsIds, Times, ObsIds)

VARIABLES fetches,        \* artifact_fetch_observations of each Release
          statuses,       \* release_status_observations
          admissions,     \* release_admission_observations
          fetchHead,      \* release_heads.current_fetch_observation_id
          statusHead,     \* release_heads.current_status_observation_id
          admissionHead   \* release_heads.current_admission_observation_id

chainVars == <<fetches, statuses, admissions, fetchHead, statusHead, admissionHead>>
ledgerVars == <<now, registryVars, chainVars>>

LedgerTypeOK ==
    /\ RegistryTypeOK
    /\ fetches \in [Releases -> Seq(FetchRow)]
    /\ statuses \in [Releases -> Seq(StatusRow)]
    /\ admissions \in [Releases -> Seq(AdmissionRow)]
    /\ fetchHead \in [Releases -> ObsIds \cup {None}]
    /\ statusHead \in [Releases -> ObsIds \cup {None}]
    /\ admissionHead \in [Releases -> ObsIds \cup {None}]

LedgerInit ==
    /\ RegistryInit
    /\ fetches = [r \in Releases |-> <<>>]
    /\ statuses = [r \in Releases |-> <<>>]
    /\ admissions = [r \in Releases |-> <<>>]
    /\ fetchHead = [r \in Releases |-> None]
    /\ statusHead = [r \in Releases |-> None]
    /\ admissionHead = [r \in Releases |-> None]

RowIds(s) == {s[i].id : i \in DOMAIN s}

UsedIds ==
    UNION {RowIds(fetches[r]) \cup RowIds(statuses[r]) \cup RowIds(admissions[r]) :
                r \in Releases}

LastRow(s) == s[Len(s)]

(* Mutant: observation ids are looked up per Release chain only. *)
MayAppendRemapped(r, s, head, o) ==
    /\ IdentityAgrees(r, o.ident)
    /\ o.supersedes = head
    /\ s # <<>> => LastRow(s).at <= o.at
    /\ o.id \notin RowIds(s)

(***************************************************************************)
(* What append_observation asks of every observation.  An id that is taken *)
(* either repeats the stored observation, which changes nothing, or is     *)
(* rejected; `supersedes` must be the exact current head.                  *)
(***************************************************************************)
MayAppend(r, s, head, o) ==
    /\ IdentityAgrees(r, o.ident)
    /\ o.supersedes = head
    /\ s # <<>> => LastRow(s).at <= o.at
    /\ o.id \notin UsedIds

EnsureIdentity(r, ident) ==
    /\ identity' = [identity EXCEPT ![r] = ident]
    /\ UNCHANGED <<now, manifests, artifacts, cached, closures, receipts>>

(* A passed fetch needs a stored receipt of its own Release. *)
FetchAdmissible(r, rc) == rc # None => receipts[rc] # None /\ rc.root = r

AppendFetch(r, o) ==
    /\ MayAppend(r, fetches[r], fetchHead[r], o)
    /\ FetchAdmissible(r, o.receipt)
    /\ EnsureIdentity(r, o.ident)
    /\ fetches' = [fetches EXCEPT ![r] = Append(@, o)]
    /\ fetchHead' = [fetchHead EXCEPT ![r] = o.id]
    /\ UNCHANGED <<statuses, admissions, statusHead, admissionHead>>

PassedEvents(s) == {s[i].event : i \in DOMAIN s} \ {None}

(* Mutants: withdrawal is not terminal; sequence numbers may be skipped. *)
SucceedsWithdrawal(p, e) == e.seq = p.seq + 1 /\ e.prev = p.hash /\ p.recorded <= e.recorded
SucceedsWithGaps(p, e) == p.status # "withdrawn" /\ e.seq > p.seq /\ p.recorded <= e.recorded

(* The provider's next event: one sequence step, chained by hash, not after withdrawal. *)
Succeeds(p, e) ==
    /\ p.status # "withdrawn"
    /\ e.seq = p.seq + 1
    /\ e.prev = p.hash
    /\ p.recorded <= e.recorded

SameEventIdentity(e, f) == e.id = f.id \/ e.hash = f.hash

(* Mutant: an event is compared with the latest one only, not with every earlier one. *)
StatusAdmissibleLatest(s, e) ==
    /\ PassedEvents(s) = {} => e.seq = 1
    /\ PassedEvents(s) # {} =>
         \E p \in PassedEvents(s) : /\ \A f \in PassedEvents(s) : f.seq <= p.seq
                                    /\ e = p \/ Succeeds(p, e)

(* _validate_status_observation compares only with the passed event of the *)
(* highest sequence, wherever in the chain it was observed.                *)
StatusAdmissible(s, e) ==
    /\ \A f \in PassedEvents(s) : SameEventIdentity(e, f) => e = f
    /\ PassedEvents(s) = {} => e.seq = 1
    /\ PassedEvents(s) # {} =>
         \E p \in PassedEvents(s) : /\ \A f \in PassedEvents(s) : f.seq <= p.seq
                                    /\ e = p \/ Succeeds(p, e)

AppendStatus(r, o) ==
    /\ MayAppend(r, statuses[r], statusHead[r], o)
    /\ o.event # None => o.event.recorded <= o.at /\ StatusAdmissible(statuses[r], o.event)
    /\ EnsureIdentity(r, o.ident)
    /\ statuses' = [statuses EXCEPT ![r] = Append(@, o)]
    /\ statusHead' = [statusHead EXCEPT ![r] = o.id]
    /\ UNCHANGED <<fetches, admissions, fetchHead, admissionHead>>

Published(row) == row.event # None /\ row.event.status = "published"

(* The status row an admission speaks about may carry that admission. *)
TargetAdmits(row, o) ==
    /\ row.id = o.target
    /\ row.at <= o.at
    /\ o.admission = "authorized" => Published(row)

AppendAdmission(r, o) ==
    /\ MayAppend(r, admissions[r], admissionHead[r], o)
    /\ o.target = statusHead[r]
    /\ \E i \in DOMAIN statuses[r] : TargetAdmits(statuses[r][i], o)
    /\ EnsureIdentity(r, o.ident)
    /\ admissions' = [admissions EXCEPT ![r] = Append(@, o)]
    /\ admissionHead' = [admissionHead EXCEPT ![r] = o.id]
    /\ UNCHANGED <<fetches, statuses, fetchHead, statusHead>>

(* observed_at is not after the storage clock, which stamps the row. *)
Recent == {t \in Times : t <= now /\ now - t <= MaxLag}

(* A row that cites an id outside the chain it belongs to is refused at once. *)
AppendObservation(r) ==
    \/ \E o \in FetchRows(Recent, RowIds(fetches[r]), {now}) : AppendFetch(r, o)
    \/ \E o \in StatusRows(Recent, RowIds(statuses[r]), {now}) : AppendStatus(r, o)
    \/ \E o \in AdmissionRows(Recent, RowIds(admissions[r]), {now}, RowIds(statuses[r])) :
           AppendAdmission(r, o)

LedgerNext ==
    \/ RegistryNext /\ UNCHANGED chainVars
    \/ \E r \in Releases : AppendObservation(r)

LedgerSpec == LedgerInit /\ [][LedgerNext]_ledgerVars

(***************************************************************************)
(* Incremental validation is as strict as the full one: whatever append_   *)
(* observation let through, _verify_observation_chain accepts when it      *)
(* rebuilds the history, on every later append, pin and read.  Otherwise a *)
(* single accepted observation would make a Release unusable for good.     *)
(***************************************************************************)
LinearChain(s, head) ==
    /\ s = <<>> => head = None
    /\ s # <<>> => head = LastRow(s).id
    /\ \A i \in DOMAIN s : s[i].supersedes = IF i = 1 THEN None ELSE s[i - 1].id
    /\ \A i \in DOMAIN s : i > 1 => s[i - 1].at <= s[i].at
    /\ \A i, j \in DOMAIN s : s[i].id = s[j].id => i = j

RowsTimely(r, s) ==
    \A i \in DOMAIN s : s[i].at <= s[i].persisted /\ s[i].ident = identity[r]

(* i is the passed row that the passed row j directly follows. *)
FollowsPassed(s, i, j) ==
    /\ i < j /\ s[i].event # None
    /\ \A k \in DOMAIN s : i < k /\ k < j => s[k].event = None

StatusHistoryVerifies(s) ==
    \A j \in DOMAIN s : s[j].event # None =>
        /\ \A i \in DOMAIN s : (/\ i < j /\ s[i].event # None
                               /\ SameEventIdentity(s[i].event, s[j].event))
                               => s[i].event = s[j].event
        /\ (\A i \in DOMAIN s : i < j => s[i].event = None)
               => s[j].event.seq = 1 /\ s[j].event.status = "building"
        /\ \A i \in DOMAIN s : FollowsPassed(s, i, j) =>
               s[i].event = s[j].event \/ Succeeds(s[i].event, s[j].event)

AdmissionHistoryVerifies(r) ==
    \A j \in DOMAIN admissions[r] :
        \E i \in DOMAIN statuses[r] : TargetAdmits(statuses[r][i], admissions[r][j])

FetchHistoryVerifies(r) ==
    \A j \in DOMAIN fetches[r] : FetchAdmissible(r, fetches[r][j].receipt)

ReleaseVerifies(r) ==
    /\ LinearChain(fetches[r], fetchHead[r])
    /\ LinearChain(statuses[r], statusHead[r])
    /\ LinearChain(admissions[r], admissionHead[r])
    /\ RowsTimely(r, fetches[r]) /\ RowsTimely(r, statuses[r]) /\ RowsTimely(r, admissions[r])
    /\ FetchHistoryVerifies(r)
    /\ StatusHistoryVerifies(statuses[r])
    /\ AdmissionHistoryVerifies(r)

ChainsVerify == \A r \in Releases : ReleaseVerifies(r)

(***************************************************************************)
(* The provider's story only goes forward: of two validated observations   *)
(* of a Release, the later one never shows an earlier event, two events    *)
(* never share a sequence number, and nothing follows a withdrawal - over  *)
(* any distance in the chain and whatever failed in between.               *)
(***************************************************************************)
EventsOrdered(s) ==
    \A i, j \in DOMAIN s : (i < j /\ s[i].event # None /\ s[j].event # None) =>
        /\ s[i].event.seq <= s[j].event.seq
        /\ s[i].event.seq = s[j].event.seq => s[i].event = s[j].event
        /\ s[i].event.status = "withdrawn" => s[j].event = s[i].event

StoryGoesForward == \A r \in Releases : EventsOrdered(statuses[r])

(* ReleaseAccessContext.authorized, over the two head rows _current_access joins. *)
AuthorizedBy(s, status, a, admission) ==
    \E i \in DOMAIN s, j \in DOMAIN a :
        /\ s[i].id = status /\ Published(s[i])
        /\ a[j].id = admission /\ a[j].admission = "authorized"
        /\ a[j].target = status

Authorized(r) == AuthorizedBy(statuses[r], statusHead[r], admissions[r], admissionHead[r])

(***************************************************************************)
(* A withdrawal is final: once any observation of a Release showed the     *)
(* provider's withdrawal, no failed, repeated, re-chained or later         *)
(* observation and no new local admission authorizes that Release again.   *)
(***************************************************************************)
Withdrawn(r) == \E e \in PassedEvents(statuses[r]) : e.status = "withdrawn"

WithdrawnNeverAuthorized == \A r \in Releases : Withdrawn(r) => ~Authorized(r)

(***************************************************************************)
(* Access is only gained by an admission of its own: whatever is appended  *)
(* to a status chain, even a repetition of the very event that was         *)
(* admitted, leaves the Release unauthorized until it is admitted again.   *)
(***************************************************************************)
AccessNeedsFreshAdmission ==
    [][\A r \in Releases :
          /\ statuses'[r] # statuses[r] => ~Authorized(r)'
          /\ (~Authorized(r) /\ Authorized(r)') => admissions'[r] # admissions[r]
      ]_ledgerVars

(***************************************************************************)
(* History is append-only and moves one row at a time: an id, wherever it  *)
(* is stored, keeps naming the same row for ever ("observation identifier  *)
(* was remapped"), over all Releases and all three kinds.                  *)
(***************************************************************************)
RowsNamed(id) ==
    {row \in UNION {{s[i] : i \in DOMAIN s} :
                       s \in {fetches[r] : r \in Releases} \cup {statuses[r] : r \in Releases}
                            \cup {admissions[r] : r \in Releases}} : row.id = id}

IdsNeverRemapped ==
    [][\A id \in UsedIds : RowsNamed(id)' = RowsNamed(id)]_ledgerVars

(***************************************************************************)
(* The ledger implements AccessGate: read through the code's own rules for *)
(* the prior event and for authorization, every committed observation is   *)
(* one step of the gate, and nothing else moves it.                        *)
(***************************************************************************)
LatestOf(s) ==
    IF PassedEvents(s) = {} THEN None
    ELSE CHOOSE p \in PassedEvents(s) : \A f \in PassedEvents(s) : f.seq <= p.seq

LatestEvent(r) == LatestOf(statuses[r])
Confirmed(r) == statuses[r] # <<>> /\ LastRow(statuses[r]).event # None

Gate == INSTANCE AccessGate WITH
            Events <- StatusEvents,
            provider <- [r \in Releases |-> LatestEvent(r)],
            confirmed <- {r \in Releases : Confirmed(r)},
            open <- {r \in Releases : Authorized(r)}

ImplementsGate == Gate!GateSpec
=============================================================================
