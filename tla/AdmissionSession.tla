-------------------------- MODULE AdmissionSession --------------------------
(***************************************************************************)
(* One Stage 6B admission, from the producer's handoff to the seal.  The   *)
(* caller reads every Release of the closure over HTTPS twice: as bundles  *)
(* when the admission is prepared, and its status history again in the     *)
(* confirmation window.  Meanwhile the provider publishes and withdraws,   *)
(* replies are late, torn or lost, and the local clock - read anew for     *)
(* every document - may be set in both directions.                         *)
(*                                                                         *)
(* What the store does with the finished envelope is SealBook's part.  The *)
(* documents' identities (hashes, cutoffs, artifacts) are compared with    *)
(* the handoff and do not change; they are left out.                       *)
(***************************************************************************)
EXTENDS Absent, Integers, Sequences, FiniteSets

CONSTANTS Sessions,      \* admissions that run at the same time
          Releases,      \* the closure of the handoff
          Root,
          Times,         \* what a clock can show
          MaxAge,        \* STAGE6B_PROVIDER_SNAPSHOT_MAX_AGE
          MaxSkew,       \* STAGE6B_MAX_CLOCK_SKEW
          Ttl,           \* STAGE6B_CONFIRMATION_TTL
          CredentialEnd, \* handoff.credential_expires_at
          MaxSeals       \* bound on the seals

ASSUME ClosureAssumption == Root \in Releases /\ IsFiniteSet(Releases)
ASSUME ClockAssumption ==
    /\ Times \subseteq Nat /\ 0 \in Times
    /\ {MaxAge, MaxSkew, Ttl, MaxSeals} \subseteq Nat /\ CredentialEnd \in Int

VARIABLES today,   \* the provider's clock
          now,     \* the local clock
          story,   \* the status events of each Release, oldest first
          job,     \* what each session has so far, None between calls
          book     \* the seals, as SealBook has them

admissionVars == <<today, now, story, job, book>>

-----------------------------------------------------------------------------
(* The provider.  "validated" is to the code what "building" is: not published. *)

Course == <<"building", "published", "withdrawn">>
Event(i, t) == [status |-> Course[i], recorded |-> t]

Advance(r) ==
    /\ Len(story[r]) < Len(Course)
    /\ story' = [story EXCEPT ![r] = Append(@, Event(Len(@) + 1, today))]
    /\ UNCHANGED <<today, now, job, book>>

Tick ==
    /\ today + 1 \in Times
    /\ today' = today + 1
    /\ UNCHANGED <<now, story, job, book>>

(* It goes on, is corrected, or is set. *)
SetClock ==
    /\ now' \in Times \ {now}
    /\ UNCHANGED <<today, story, job, book>>

(* A status history as of now.  Head and events are read one after the     *)
(* other, so an event recorded in between may be in only one of them.      *)
Histories(r) ==
    {[head |-> h, events |-> n, at |-> today] : h \in 1..Len(story[r]), n \in 1..Len(story[r])}

Current(r, reply) == Len(story[r]) \in {reply.head, reply.events}

(* Mutant: head and events are not compared. *)
HistoryTrusted(reply) == TRUE

(* _verify_status_chain: the head is the last event of the complete chain. *)
HistoryVerifies(reply) == reply.head = reply.events

Published(r, reply) == story[r][reply.head].status = "published"

-----------------------------------------------------------------------------
(* prepare_stage6b_producer_handoff_validation *)

Begun(requested) ==
    [requested |-> requested, phase |-> "bundle", todo |-> Releases, reply |-> None,
     evidence |-> <<>>, confirmed |-> None, observed |-> None, created |-> None, committed |-> None]

(* observed_at may be the caller's: it is not read from the clock. *)
Prepare(s, requested) ==
    /\ job[s] = None /\ Len(book) < MaxSeals
    /\ requested < CredentialEnd
    /\ job' = [job EXCEPT ![s] = Begun(requested)]
    /\ UNCHANGED <<today, now, story, book>>

In(s, phase) == job[s] # None /\ job[s].phase = phase
Turn(s) == CHOOSE r \in job[s].todo : TRUE       \* the order is fixed, and immaterial
Keeps(s, j) == job' = [job EXCEPT ![s] = j] /\ UNCHANGED <<today, now, story, book>>

(* get_release, and get_manifest, which never changes. *)
ReadRelease(s) ==
    /\ In(s, "bundle") /\ job[s].todo # {} /\ job[s].reply = None
    /\ Keeps(s, [job[s] EXCEPT !.reply = Len(story[Turn(s)])])

(* Mutant: the bundle is taken whatever its status. *)
BundleAnyStatus(r, current, reply) == HistoryVerifies(reply)

(* get_release_bundle and _require_producer_release_bundle: both replies   *)
(* show the published event that the handoff names.                        *)
BundleMatches(r, current, reply) ==
    HistoryVerifies(reply) /\ current = reply.head /\ Published(r, reply)

ReadBundleStatus(s) ==
    LET r == Turn(s) IN
    /\ In(s, "bundle") /\ job[s].todo # {} /\ job[s].reply # None
    /\ \E reply \in Histories(r) :
         /\ Current(r, reply) /\ BundleMatches(r, job[s].reply, reply)
         /\ Keeps(s, [job[s] EXCEPT !.todo = @ \ {r}, !.reply = None])

(* The admission is prepared; execute_stage6b_live_validation follows. *)
OpenWindow(s) ==
    /\ In(s, "bundle") /\ job[s].todo = {}
    /\ Keeps(s, [job[s] EXCEPT !.phase = "status", !.todo = Releases])

-----------------------------------------------------------------------------
(* fetch_stage6b_closure_status_evidence *)

AskStatus(s) ==
    /\ In(s, "status") /\ job[s].todo # {} /\ job[s].reply = None
    /\ \E reply \in Histories(Turn(s)) :
         /\ Current(Turn(s), reply)
         /\ Keeps(s, [job[s] EXCEPT !.reply = reply])

Fresh(snapshot, at) == snapshot - at <= MaxSkew /\ at - snapshot <= MaxAge

(* The clock is read after the reply; status events and snapshot are the reply's. *)
ReceiveStatus(s) ==
    LET r == Turn(s)
        reply == job[s].reply IN
    /\ In(s, "status") /\ job[s].todo # {} /\ reply # None
    /\ HistoryVerifies(reply) /\ Published(r, reply)
    /\ story[r][reply.head].recorded <= reply.at
    /\ Fresh(reply.at, now)
    /\ Keeps(s, [job[s] EXCEPT !.todo = @ \ {r}, !.reply = None,
                   !.evidence = [x \in (DOMAIN @) \cup {r} |->
                       IF x = r THEN [snapshot |-> reply.at, checked |-> now] ELSE @[x]]])

(* issue_stage6b_validation_confirmation *)
Confirm(s) ==
    /\ In(s, "status") /\ job[s].todo = {}
    /\ \A r \in Releases :
         LET item == job[s].evidence[r] IN
         /\ Fresh(item.snapshot, now)
         /\ job[s].requested <= item.checked /\ item.checked <= now
    /\ job[s].requested <= now
    /\ Keeps(s, [job[s] EXCEPT !.phase = "observe", !.confirmed = now])

ObserveAdmission(s) ==
    /\ In(s, "observe")
    /\ Keeps(s, [job[s] EXCEPT !.phase = "manifest", !.observed = now])

(* The Manifest, and the order that Stage6BHistoricalAdmissionEnvelope.create demands. *)
BuildEnvelope(s) ==
    /\ In(s, "manifest")
    /\ job[s].requested <= job[s].evidence[Root].checked
    /\ job[s].evidence[Root].checked <= job[s].observed /\ job[s].observed <= now
    /\ job[s].confirmed <= now /\ now <= job[s].confirmed + Ttl
    /\ Keeps(s, [job[s] EXCEPT !.phase = "commit", !.created = now])

-----------------------------------------------------------------------------
(* commit_validation_admission *)

(* Mutant: only the confirmation is judged, not the snapshots in it. *)
ConfirmationConsumable(j, at) == j.confirmed <= at /\ at <= j.confirmed + Ttl

(* _validate_commit_time *)
Consumable(j, at) ==
    /\ j.confirmed <= at /\ at <= j.confirmed + Ttl
    /\ \A r \in Releases : Fresh(j.evidence[r].snapshot, at)

(* committed_at is read and judged; staging the payloads follows. *)
JudgeTime(s) ==
    /\ In(s, "commit") /\ Consumable(job[s], now)
    /\ Keeps(s, [job[s] EXCEPT !.phase = "begin", !.committed = now])

(* run_id derives from the handoff and observed_at. *)
Envelope(j) == [run |-> j.requested, evidence |-> j.evidence, confirmed |-> j.confirmed,
                created |-> j.created, committed |-> j.committed]

Evidence == [snapshot: Times, checked: Times]
Envelopes == [run: Times, evidence: [Releases -> Evidence],
              confirmed: Times, created: Times, committed: Times]

Seals == INSTANCE SealBook WITH Admissible <- Envelopes

(* BEGIN IMMEDIATE to COMMIT, as SealBook has it. *)
SealRun(s) ==
    /\ In(s, "begin")
    /\ Seals!Admit(Envelope(job[s]))
    /\ job' = [job EXCEPT ![s] = None]
    /\ UNCHANGED <<today, now, story>>

(* Any check that fails, HTTP error, lost reply, conflict, or the end of the process. *)
Abandon(s) ==
    /\ job[s] # None
    /\ Keeps(s, None)

Step(s) ==
    \/ ReadRelease(s) \/ ReadBundleStatus(s) \/ OpenWindow(s)
    \/ AskStatus(s) \/ ReceiveStatus(s) \/ Confirm(s)
    \/ ObserveAdmission(s) \/ BuildEnvelope(s) \/ JudgeTime(s) \/ SealRun(s)

AdmissionInit ==
    /\ today = 0 /\ now \in Times
    /\ story = [r \in Releases |-> <<Event(1, 0)>>]
    /\ job = [s \in Sessions |-> None]
    /\ Seals!BookInit

AdmissionNext ==
    \/ \E r \in Releases : Advance(r)
    \/ Tick \/ SetClock
    \/ \E s \in Sessions, t \in Times : Prepare(s, t)
    \/ \E s \in Sessions : Step(s) \/ Abandon(s)

AdmissionSpec == AdmissionInit /\ [][AdmissionNext]_admissionVars

-----------------------------------------------------------------------------
(* Properties *)

(* A withdrawal stops the seals: whichever member of the closure it was,     *)
(* and however replies and clocks went, nothing is sealed with a commit time *)
(* later than MaxAge after the provider recorded it.                         *)
WithdrawalStopsSeals ==
    \A r \in Releases : Len(story[r]) = Len(Course) =>
        \A i \in DOMAIN book : book[i].committed <= story[r][Len(Course)].recorded + MaxAge

(* The closure is read Release by Release while the provider moves.  Still   *)
(* there was a moment at which all of it was published together, because     *)
(* every status is read twice, the second time after every first.            *)
PublishedAt(r, t) ==
    /\ \E i \in DOMAIN story[r] : story[r][i].status = "published" /\ story[r][i].recorded <= t
    /\ \A i \in DOMAIN story[r] : story[r][i].status = "withdrawn" => t <= story[r][i].recorded

AllPublishedAtOnce == book # <<>> => \E t \in Times : \A r \in Releases : PublishedAt(r, t)

=============================================================================
