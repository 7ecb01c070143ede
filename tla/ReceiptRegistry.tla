-------------------------- MODULE ReceiptRegistry --------------------------
(***************************************************************************)
(* The metadata transaction of ReleaseCacheStore.record_verified_          *)
(* consumption: one root receipt, its retention closure, and the Release   *)
(* identities, Manifest snapshots and artifact mappings they rest on.      *)
(*                                                                         *)
(* A Receipt, a closure and a CAS object are named by the SHA-256 of their *)
(* content, so here each one IS its content: two documents have the same   *)
(* name exactly when they are equal.  BEGIN IMMEDIATE makes the whole      *)
(* transaction one step; every exception rolls it back, so a guard that    *)
(* fails leaves every table as it was.  ContentStore models the files that *)
(* the same call writes before the transaction.                            *)
(***************************************************************************)
EXTENDS Naturals

CONSTANTS Releases,     \* dataset_release_id
          Identities,   \* the other four fields of a StrategyInputRef
          ArtifactIds,  \* provider artifact ids
          Digests,      \* SHA-256 names of CAS objects
          Contracts,    \* consumer_contract_version
          Bundles,      \* receipt + closure + payloads a caller may hand over
          Times,        \* values the storage clock can show
          None          \* SQL NULL / an absent row

(* One node of a retention closure: ReleaseRetentionNode. *)
IsNode(node) ==
    /\ node.ident \in Identities /\ node.manifest \in Digests
    /\ DOMAIN node.artifacts \subseteq ArtifactIds
    /\ \A i \in DOMAIN node.artifacts : node.artifacts[i] \in Digests
    /\ node.deps \subseteq Releases

(* One Receipt with the closure it derives its retained Releases from. *)
IsBundle(b) ==
    /\ b \in [contract: Contracts, root: Releases, nodes: {b.nodes}]
    /\ DOMAIN b.nodes \subseteq Releases /\ b.root \in DOMAIN b.nodes
    /\ \A r \in DOMAIN b.nodes : IsNode(b.nodes[r])

ASSUME TimesAssumption == Times \subseteq Nat
ASSUME NoneAssumption == None \notin Identities \cup Times \cup [digest: Digests, at: Times]
ASSUME BundlesAssumption == \A b \in Bundles : IsBundle(b)

Members(b) == DOMAIN b.nodes

Receipt(b) == [contract |-> b.contract, root |-> b.root,
               ident |-> b.nodes[b.root].ident,
               artifacts |-> b.nodes[b.root].artifacts]

Closure(b) == [root |-> b.root, nodes |-> b.nodes]

ReceiptDocs == {Receipt(b) : b \in Bundles}
ClosureDocs == {Closure(b) : b \in Bundles}

NodeDigests(node) == {node.manifest} \cup {node.artifacts[i] : i \in DOMAIN node.artifacts}

BundleDigests(b) == UNION {NodeDigests(b.nodes[r]) : r \in Members(b)}

VARIABLES now,        \* the injected Clock; it may be stepped backwards
          identity,   \* release_identities
          manifests,  \* release_manifests: document digest and persisted_at
          artifacts,  \* release_artifacts: digest and persisted_at
          cached,     \* cache_objects: registered digests
          closures,   \* retention_closures: persisted_at
          receipts    \* receipts and receipt_closures: closure and persisted_at

registryVars == <<identity, manifests, artifacts, cached, closures, receipts>>

Stamped == [digest: Digests, at: Times]

RegistryTypeOK ==
    /\ now \in Times
    /\ identity \in [Releases -> Identities \cup {None}]
    /\ manifests \in [Releases -> Stamped \cup {None}]
    /\ artifacts \in [Releases -> [ArtifactIds -> Stamped \cup {None}]]
    /\ cached \subseteq Digests
    /\ closures \in [ClosureDocs -> Times \cup {None}]
    /\ receipts \in [ReceiptDocs -> [closure: ClosureDocs, at: Times] \cup {None}]

RegistryInit ==
    /\ now \in Times
    /\ identity = [r \in Releases |-> None]
    /\ manifests = [r \in Releases |-> None]
    /\ artifacts = [r \in Releases |-> [i \in ArtifactIds |-> None]]
    /\ cached = {}
    /\ closures = [c \in ClosureDocs |-> None]
    /\ receipts = [rc \in ReceiptDocs |-> None]

(* The host clock is not monotonic: any later reading may be any time. *)
ClockMoves ==
    /\ now' \in Times \ {now}
    /\ UNCHANGED registryVars

IdentityAgrees(r, ident) == identity[r] \in {None, ident}

(* No row for the mapping yet, or one with exactly the same digest. *)
MappingAgrees(row, digest) == row # None => row.digest = digest

NodeAgrees(r, node) ==
    /\ MappingAgrees(manifests[r], node.manifest)
    /\ \A i \in DOMAIN node.artifacts : MappingAgrees(artifacts[r][i], node.artifacts[i])

(* UNIQUE(release_id, consumer_contract_version) *)
ContractUnused(b) ==
    \A rc \in ReceiptDocs :
        (rc.root = b.root /\ rc.contract = b.contract /\ receipts[rc] # None) => rc = Receipt(b)

Keep(row, digest) == IF row = None THEN [digest |-> digest, at |-> now] ELSE row

Recordable(b) ==
    /\ \A r \in Members(b) : IdentityAgrees(r, b.nodes[r].ident)
    /\ ContractUnused(b)
    /\ receipts[Receipt(b)] = None
    /\ \A r \in Members(b) : NodeAgrees(r, b.nodes[r])

(* The first recording of b's receipt.  An exact repetition finds the receipt *)
(* row, verifies it and returns False: it changes nothing, so it is no step.  *)
RecordVerifiedConsumption(b) ==
    /\ Recordable(b)
    /\ identity' = [r \in Releases |->
                       IF r \in Members(b) THEN b.nodes[r].ident ELSE identity[r]]
    /\ manifests' = [r \in Releases |->
                       IF r \in Members(b) THEN Keep(manifests[r], b.nodes[r].manifest)
                                           ELSE manifests[r]]
    /\ artifacts' = [r \in Releases |-> [i \in ArtifactIds |->
                       IF r \in Members(b) /\ i \in DOMAIN b.nodes[r].artifacts
                       THEN Keep(artifacts[r][i], b.nodes[r].artifacts[i])
                       ELSE artifacts[r][i]]]
    /\ cached' = cached \cup BundleDigests(b)
    /\ closures' = [closures EXCEPT ![Closure(b)] = IF @ = None THEN now ELSE @]
    /\ receipts' = [receipts EXCEPT ![Receipt(b)] = [closure |-> Closure(b), at |-> now]]
    /\ UNCHANGED now

RegistryNext == ClockMoves \/ \E b \in Bundles : RecordVerifiedConsumption(b)

RegistrySpec == RegistryInit /\ [][RegistryNext]_<<now, registryVars>>

(***************************************************************************)
(* Every committed receipt is whole: its closure is stored, and every      *)
(* member of the closure has the identity, the Manifest and the artifact   *)
(* digests the closure names, all of them registered in the CAS.  The      *)
(* transaction of record_verified_consumption promises it, and _verify_    *)
(* closure_aggregate and _verify_pin_objects reject a store without it.    *)
(***************************************************************************)
MemberStored(r, node) ==
    /\ identity[r] = node.ident
    /\ manifests[r] # None /\ manifests[r].digest = node.manifest
    /\ \A i \in DOMAIN node.artifacts :
           artifacts[r][i] # None /\ artifacts[r][i].digest = node.artifacts[i]
    /\ NodeDigests(node) \subseteq cached

ClosureStored(c) == \A r \in DOMAIN c.nodes : MemberStored(r, c.nodes[r])

ReceiptsWhole ==
    \A rc \in ReceiptDocs : receipts[rc] # None =>
        /\ receipts[rc].closure.root = rc.root
        /\ closures[receipts[rc].closure] # None
        /\ ClosureStored(receipts[rc].closure)

(***************************************************************************)
(* A Release is described once and for all: no step replaces an identity,  *)
(* a Manifest snapshot, an artifact mapping, a closure or a receipt, with  *)
(* its time of persistence ("immutable identity conflict" triggers).       *)
(***************************************************************************)
RowsImmutable ==
    [][/\ \A r \in Releases : identity[r] # None => identity'[r] = identity[r]
       /\ \A r \in Releases : manifests[r] # None => manifests'[r] = manifests[r]
       /\ \A r \in Releases, i \in ArtifactIds :
              artifacts[r][i] # None => artifacts'[r][i] = artifacts[r][i]
       /\ \A c \in ClosureDocs : closures[c] # None => closures'[c] = closures[c]
       /\ \A rc \in ReceiptDocs : receipts[rc] # None => receipts'[rc] = receipts[rc]
      ]_<<now, registryVars>>

(* One consumer contract has at most one receipt per Release: a second one *)
(* would give the same run input two different retained closures.          *)
OneReceiptPerContract ==
    \A x, y \in ReceiptDocs :
        (receipts[x] # None /\ receipts[y] # None /\ x.root = y.root /\ x.contract = y.contract)
            => x = y
=============================================================================
