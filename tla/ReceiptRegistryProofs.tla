----------------------- MODULE ReceiptRegistryProofs -----------------------
(***************************************************************************)
(* For any Releases, documents and clock: the registry is type correct,    *)
(* no row is ever replaced, and every committed receipt stays whole.       *)
(***************************************************************************)
EXTENDS ReceiptRegistry, TLAPS

(* What the documents a caller hands over are made of. *)
LEMMA BundleParts ==
    ASSUME NEW b \in Bundles
    PROVE  /\ b.contract \in Contracts
           /\ b.root \in Releases
           /\ b.root \in Members(b)
           /\ Members(b) \subseteq Releases
           /\ \A r \in Members(b) :
                 /\ b.nodes[r].ident \in Identities
                 /\ b.nodes[r].manifest \in Digests
                 /\ DOMAIN b.nodes[r].artifacts \subseteq ArtifactIds
                 /\ \A i \in DOMAIN b.nodes[r].artifacts : b.nodes[r].artifacts[i] \in Digests
BY BundlesAssumption DEF IsBundle, IsNode, Members

LEMMA BundleDigestsRegistered ==
    ASSUME NEW b \in Bundles
    PROVE  BundleDigests(b) \subseteq Digests
BY BundleParts DEF BundleDigests, NodeDigests

LEMMA RegistryTypeStep ==
    ASSUME RegistryTypeOK, [RegistryNext]_<<now, registryVars>>
    PROVE  RegistryTypeOK'
<1>. USE DEF RegistryTypeOK
<1>1. CASE ClockMoves
  BY <1>1 DEF ClockMoves, registryVars
<1>2. ASSUME NEW b \in Bundles, RecordVerifiedConsumption(b)
      PROVE  RegistryTypeOK'
  <2>. USE <1>2 DEF RecordVerifiedConsumption, Recordable
  <2>1. now' \in Times
    OBVIOUS
  <2>2. identity' \in [Releases -> Identities \cup {None}]
    BY BundleParts
  <2>3. manifests' \in [Releases -> Stamped \cup {None}]
    BY BundleParts DEF Keep, Stamped
  <2>4. artifacts' \in [Releases -> [ArtifactIds -> Stamped \cup {None}]]
    BY BundleParts DEF Keep, Stamped
  <2>5. cached' \subseteq Digests
    BY BundleDigestsRegistered
  <2>6. closures' \in [ClosureDocs -> Times \cup {None}]
    BY DEF ClosureDocs
  <2>7. receipts' \in [ReceiptDocs -> [closure: ClosureDocs, at: Times] \cup {None}]
    BY DEF ReceiptDocs, ClosureDocs
  <2>. QED
    BY <2>1, <2>2, <2>3, <2>4, <2>5, <2>6, <2>7
<1>3. CASE UNCHANGED <<now, registryVars>>
  BY <1>3 DEF registryVars
<1>. QED
  BY <1>1, <1>2, <1>3 DEF RegistryNext

(* Every value the registry holds has the type of its column, from the     *)
(* documents' shapes alone and whatever the clock shows.                   *)
THEOREM RegistryTypeCorrect == RegistrySpec => []RegistryTypeOK
<1>1. RegistryInit => RegistryTypeOK
  BY DEF RegistryInit, RegistryTypeOK
<1>2. RegistryTypeOK /\ [RegistryNext]_<<now, registryVars>> => RegistryTypeOK'
  BY RegistryTypeStep
<1>. QED
  BY <1>1, <1>2, PTL DEF RegistrySpec

(* No step of the registry replaces a row, its time of persistence included: *)
(* a later document that agrees adds nothing, one that does not is rejected. *)
THEOREM RegistryRowsImmutable == RegistrySpec => RowsImmutable
<1>. DEFINE Kept ==
       /\ \A r \in Releases : identity[r] # None => identity'[r] = identity[r]
       /\ \A r \in Releases : manifests[r] # None => manifests'[r] = manifests[r]
       /\ \A r \in Releases, i \in ArtifactIds :
              artifacts[r][i] # None => artifacts'[r][i] = artifacts[r][i]
       /\ \A c \in ClosureDocs : closures[c] # None => closures'[c] = closures[c]
       /\ \A rc \in ReceiptDocs : receipts[rc] # None => receipts'[rc] = receipts[rc]
<1>1. RegistryTypeOK /\ RegistryNext => Kept
  <2>. SUFFICES ASSUME RegistryTypeOK, RegistryNext
                PROVE  Kept
    OBVIOUS
  <2>1. CASE ClockMoves
    BY <2>1 DEF ClockMoves, registryVars
  <2>2. ASSUME NEW b \in Bundles, RecordVerifiedConsumption(b)
        PROVE  Kept
    BY <2>2 DEF RecordVerifiedConsumption, Recordable, IdentityAgrees, Keep, RegistryTypeOK
  <2>. QED
    BY <2>1, <2>2 DEF RegistryNext
<1>2. RegistryTypeOK /\ [RegistryNext]_<<now, registryVars>> => [Kept]_<<now, registryVars>>
  BY <1>1
<1>. QED
  BY <1>2, RegistryTypeCorrect, PTL DEF RegistrySpec, RowsImmutable

(* A closure stays stored once it is: rows are kept and CAS names only added. *)
LEMMA StoredIsKept ==
    ASSUME RegistryTypeOK, RegistryNext,
           NEW c \in ClosureDocs, ClosureStored(c)
    PROVE  ClosureStored(c)'
<1>1. PICK b \in Bundles : c = Closure(b)
  BY DEF ClosureDocs
<1>2. DOMAIN c.nodes = Members(b)
  BY <1>1 DEF Closure, Members
<1>3. ASSUME NEW r \in DOMAIN c.nodes
      PROVE  MemberStored(r, c.nodes[r])'
  <2>1. r \in Members(b) /\ r \in Releases /\ c.nodes[r] = b.nodes[r]
    BY <1>1, <1>2, BundleParts DEF Closure
  <2>2. MemberStored(r, c.nodes[r])
    BY DEF ClosureStored
  <2>3. /\ b.nodes[r].ident \in Identities
        /\ DOMAIN b.nodes[r].artifacts \subseteq ArtifactIds
    BY <2>1, BundleParts
  <2>4. CASE ClockMoves
    BY <2>2, <2>4 DEF ClockMoves, registryVars, MemberStored
  <2>5. ASSUME NEW d \in Bundles, RecordVerifiedConsumption(d)
        PROVE  MemberStored(r, c.nodes[r])'
    <3>1. identity'[r] = identity[r]
      BY <2>1, <2>2, <2>3, <2>5, NoneAssumption
         DEF RecordVerifiedConsumption, Recordable, MemberStored, IdentityAgrees, RegistryTypeOK
    <3>2. manifests'[r] = manifests[r]
      BY <2>1, <2>2, <2>5 DEF RecordVerifiedConsumption, Recordable, MemberStored, Keep
    <3>3. \A i \in DOMAIN c.nodes[r].artifacts : artifacts'[r][i] = artifacts[r][i]
      BY <2>1, <2>2, <2>3, <2>5 DEF RecordVerifiedConsumption, Recordable, MemberStored, Keep
    <3>4. cached \subseteq cached'
      BY <2>5 DEF RecordVerifiedConsumption, Recordable
    <3>. QED
      BY <2>2, <3>1, <3>2, <3>3, <3>4 DEF MemberStored
  <2>. QED
    BY <2>4, <2>5 DEF RegistryNext
<1>. QED
  BY <1>3 DEF ClosureStored

(* What one recording leaves behind is a stored closure. *)
LEMMA RecordingStores ==
    ASSUME RegistryTypeOK, NEW b \in Bundles, RecordVerifiedConsumption(b)
    PROVE  ClosureStored(Closure(b))'
<1>1. ASSUME NEW r \in Members(b)
      PROVE  MemberStored(r, b.nodes[r])'
  <2>. USE DEF RecordVerifiedConsumption, Recordable
  <2>1. r \in Releases /\ b.nodes[r].ident \in Identities /\ b.nodes[r].manifest \in Digests
    BY BundleParts
  <2>2. /\ DOMAIN b.nodes[r].artifacts \subseteq ArtifactIds
        /\ \A i \in DOMAIN b.nodes[r].artifacts : b.nodes[r].artifacts[i] \in Digests
    BY BundleParts
  <2>3. identity'[r] = b.nodes[r].ident
    BY <2>1
  <2>4. manifests'[r] # None /\ manifests'[r].digest = b.nodes[r].manifest
    BY <2>1, NoneAssumption DEF NodeAgrees, MappingAgrees, Keep, RegistryTypeOK
  <2>5. ASSUME NEW i \in DOMAIN b.nodes[r].artifacts
        PROVE  artifacts'[r][i] # None /\ artifacts'[r][i].digest = b.nodes[r].artifacts[i]
    BY <2>1, <2>2, NoneAssumption DEF NodeAgrees, MappingAgrees, Keep, RegistryTypeOK
  <2>6. NodeDigests(b.nodes[r]) \subseteq cached'
    BY DEF BundleDigests
  <2>. QED
    BY <2>3, <2>4, <2>5, <2>6 DEF MemberStored
<1>. QED
  BY <1>1 DEF ClosureStored, Closure, Members

(* A receipt is committed with everything it names, and nothing that       *)
(* happens afterwards, in whatever order, takes any of it away.            *)
THEOREM RegistryReceiptsWhole == RegistrySpec => []ReceiptsWhole
<1>1. RegistryInit => ReceiptsWhole
  BY DEF RegistryInit, ReceiptsWhole
<1>2. RegistryTypeOK /\ RegistryTypeOK' /\ ReceiptsWhole /\ [RegistryNext]_<<now, registryVars>>
        => ReceiptsWhole'
  <2>. SUFFICES ASSUME RegistryTypeOK, RegistryTypeOK', ReceiptsWhole,
                       [RegistryNext]_<<now, registryVars>>
                PROVE  ReceiptsWhole'
    OBVIOUS
  <2>1. CASE UNCHANGED <<now, registryVars>>
    BY <2>1 DEF registryVars, ReceiptsWhole, ClosureStored, MemberStored
  <2>2. CASE RegistryNext
    <3>1. ASSUME NEW rc \in ReceiptDocs, receipts'[rc] # None,
                 NEW c \in ClosureDocs, receipts'[rc].closure = c
          PROVE  c.root = rc.root /\ closures'[c] # None /\ ClosureStored(c)'
      <4>1. CASE receipts[rc] # None /\ receipts'[rc] = receipts[rc]
        <5>1. c.root = rc.root /\ closures[c] # None /\ ClosureStored(c)
          BY <3>1, <4>1 DEF ReceiptsWhole
        <5>2. closures'[c] # None
          BY <5>1, <2>2
             DEF RegistryNext, ClockMoves, RecordVerifiedConsumption, registryVars, RegistryTypeOK
        <5>. QED
          BY <5>1, <5>2, <2>2, StoredIsKept
      <4>2. ASSUME NEW b \in Bundles, RecordVerifiedConsumption(b), rc = Receipt(b)
            PROVE  c.root = rc.root /\ closures'[c] # None /\ ClosureStored(c)'
        <5>1. c = Closure(b)
          BY <3>1, <4>2 DEF RecordVerifiedConsumption, Recordable, RegistryTypeOK
        <5>2. c.root = rc.root
          BY <4>2, <5>1 DEF Closure, Receipt
        <5>3. closures'[c] # None
          BY <3>1, <4>2, <5>1, NoneAssumption DEF RecordVerifiedConsumption, Recordable, RegistryTypeOK
        <5>. QED
          BY <4>2, <5>1, <5>2, <5>3, RecordingStores
      <4>. QED
        BY <2>2, <3>1, <4>1, <4>2
           DEF RegistryNext, ClockMoves, RecordVerifiedConsumption, registryVars, RegistryTypeOK
    <3>2. ASSUME NEW rc \in ReceiptDocs, receipts'[rc] # None
          PROVE  receipts'[rc].closure \in ClosureDocs
      BY <3>2 DEF RegistryTypeOK
    <3>. QED
      BY <3>1, <3>2 DEF ReceiptsWhole, ClosureStored, MemberStored
  <2>. QED
    BY <2>1, <2>2
<1>. QED
  BY <1>1, <1>2, RegistryTypeCorrect, PTL DEF RegistrySpec

(* Two receipts never compete for the same consumer contract of a Release. *)
THEOREM RegistryOneReceipt == RegistrySpec => []OneReceiptPerContract
<1>1. RegistryInit => OneReceiptPerContract
  BY DEF RegistryInit, OneReceiptPerContract
<1>2. RegistryTypeOK /\ OneReceiptPerContract /\ [RegistryNext]_<<now, registryVars>>
        => OneReceiptPerContract'
  <2>. SUFFICES ASSUME RegistryTypeOK, OneReceiptPerContract,
                       [RegistryNext]_<<now, registryVars>>
                PROVE  OneReceiptPerContract'
    OBVIOUS
  <2>1. CASE UNCHANGED <<now, registryVars>> \/ ClockMoves
    BY <2>1 DEF ClockMoves, registryVars, OneReceiptPerContract
  <2>2. ASSUME NEW b \in Bundles, RecordVerifiedConsumption(b)
        PROVE  OneReceiptPerContract'
    <3>1. Receipt(b).root = b.root /\ Receipt(b).contract = b.contract
      BY DEF Receipt
    <3>2. \A rc \in ReceiptDocs : rc # Receipt(b) => receipts'[rc] = receipts[rc]
      BY <2>2 DEF RecordVerifiedConsumption, Recordable, RegistryTypeOK
    <3>. QED
      BY <2>2, <3>1, <3>2 DEF RecordVerifiedConsumption, Recordable, ContractUnused, OneReceiptPerContract
  <2>. QED
    BY <2>1, <2>2 DEF RegistryNext
<1>. QED
  BY <1>1, <1>2, RegistryTypeCorrect, PTL DEF RegistrySpec
=============================================================================
