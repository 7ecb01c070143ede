---------------------------- MODULE PeerExperiments ----------------------------
(***************************************************************************)
(* stage6c_peer_experiments.py: the matched benchmark of Stage 6C and its  *)
(* ledger of experiments.  Each evaluated candidate gets an equal-weight   *)
(* basket of comparable shares, taken from the narrowest of three pools    *)
(* that is large enough, or no basket at all.  Every ablation, stress      *)
(* replay and exploratory variant is registered under one preregistration  *)
(* before execution starts, and every registration has exactly one         *)
(* outcome, the failed ones too.                                           *)
(***************************************************************************)
EXTENDS Integers, FiniteSets, Absent

CONSTANTS
    MinPeers,          \* the fewest members of a basket
    Ablations,         \* the scenarios each ablation must cover once
    Stresses           \* the same for the stress replays

ASSUME PeerConstants == MinPeers \in Nat \ {0}
ASSUME ScenarioConstants == Ablations \cap Stresses = {}

-----------------------------------------------------------------------------
(* The matched benchmark. *)

(* The snapshot's constructor: members known by the decision, each once.    *)
IsSnapshot(s) ==
    /\ s.members # {} /\ IsFiniteSet(s.members)
    /\ \A m \in s.members : m.available <= s.decision
    /\ \A m, k \in s.members : m.security = k.security => m = k

(* What the snapshot says of its target is what the candidate says.         *)
Describes(s, c) ==
    /\ s.candidate = c /\ s.target = c.company
    /\ s.decision = c.decision /\ s.industry = c.traits["industry"]

EligiblePeers(s) ==
    {m \in s.members : m.security # s.target /\ m.eligible /\ m.supported /\ m.available <= s.decision}

SameSize(s) == {m \in EligiblePeers(s) : m.size = s.size}
SameSizeBeta(s) == {m \in SameSize(s) : m.beta = s.beta}
SameIndustrySizeBeta(s) == {m \in SameSizeBeta(s) : m.industry = s.industry}

FallbackLevels == <<"SAME_INDUSTRY_SIZE_BETA", "SAME_SIZE_BETA_ALL_A_SHARE", "SAME_SIZE_ALL_A_SHARE">>
Pools(s) == <<SameIndustrySizeBeta(s), SameSizeBeta(s), SameSize(s)>>

(* Each chosen peer weighs 1/N, so the basket is its set of members.        *)
BasketOf(s) ==
    LET pools == Pools(s)
        large == {i \in 1..3 : Cardinality(pools[i]) >= MinPeers}
        least == CHOOSE i \in large : \A j \in large : i <= j
    IN  IF large = {} THEN [candidate |-> s.candidate, level |-> "INSUFFICIENT_PEERS", peers |-> {}]
        ELSE [candidate |-> s.candidate, level |-> FallbackLevels[least], peers |-> pools[least]]

(* Every evaluated candidate has exactly one snapshot, and it describes it. *)
SnapshotsCover(snapshots, evaluated) ==
    /\ {s.candidate : s \in snapshots} = evaluated
    /\ \A s, t \in snapshots : s.candidate = t.candidate => s = t
    /\ \A s \in snapshots : Describes(s, s.candidate)

BasketsOf(snapshots) == {BasketOf(s) : s \in snapshots}
Lacking(baskets) == {b \in baskets : b.level = "INSUFFICIENT_PEERS"}

-----------------------------------------------------------------------------
(* The ledger of experiments. *)

Kinds == {"ABLATION", "STRESS", "EXPLORATORY"}

OfKind(registrations, kind) == {r \in registrations : r.kind = kind}
Scenarios(registrations) == {r.scenario : r \in registrations}

UniqueIds(records) == \A r, t \in records : r.id = t.id => r = t

(* Each required scenario is registered once, none is missing or invented.  *)
ClosedWorld(registrations, required) ==
    /\ Scenarios(registrations) = required
    /\ Cardinality(registrations) = Cardinality(required)

ExperimentsSound(registrations, outcomes, parent, started) ==
    /\ UniqueIds(registrations) /\ UniqueIds(outcomes)
    /\ {r.id : r \in registrations} = {o.id : o \in outcomes}
    /\ \A r \in registrations : r.parent = parent /\ r.at < started
    /\ \A r \in registrations, o \in outcomes : r.id = o.id => o.registration = r
    /\ ClosedWorld(OfKind(registrations, "ABLATION"), Ablations)
    /\ ClosedWorld(OfKind(registrations, "STRESS"), Stresses)
    /\ Scenarios(OfKind(registrations, "EXPLORATORY")) \cap (Ablations \cup Stresses) = {}

AllCompleted(outcomes) == \A o \in outcomes : o.status = "COMPLETED"
=============================================================================
