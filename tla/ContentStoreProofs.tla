-------------------------- MODULE ContentStoreProofs --------------------------
(***************************************************************************)
(* For any number of writers, documents, failures, crashes, damages and    *)
(* inventories: the metadata never outruns the files, and an inventory     *)
(* taken meanwhile neither cries wolf nor overlooks a broken object.       *)
(***************************************************************************)
EXTENDS ContentStore, ReceiptRegistryProofs, FiniteSetTheorems, WellFoundedInduction

-----------------------------------------------------------------------------
(* Types. *)

(* Every set of naturals that is not empty has a least element. *)
Less == {ss \in Nat \X Nat : ss[1] < ss[2]}

LEMMA LessWellFounded == IsWellFoundedOn(Less, Nat)
BY NatLessThanWellFounded DEF OpToRel, Less

LEMMA LeastExists ==
    ASSUME NEW S \in SUBSET Nat, S # {}
    PROVE  Min(S) \in S /\ \A y \in S : Min(S) <= y
<1>1. PICK x \in S : \A y \in S : ~(<<y, x>> \in Less)
  BY LessWellFounded, WFMin
<1>2. ASSUME NEW y \in S
      PROVE  x <= y
  <2>1. x \in Nat /\ y \in Nat
    OBVIOUS
  <2>2. <<y, x>> \in Less <=> y < x
    BY <2>1 DEF Less
  <2>. QED
    BY <1>1, <2>1, <2>2
<1>. QED
  BY <1>2 DEF Min

(* Only finitely many names are in use, so there is a fresh one. *)
FilesFinite == IsFiniteSet(temps) /\ (scan # None => IsFiniteSet(scan.listed))

LEMMA FreshNameType ==
    ASSUME StoreTypeOK, FilesFinite
    PROVE  FreshName \in Nat \ NamesInUse
<1>. DEFINE Listed == IF scan = None THEN {} ELSE scan.listed \ Digests
            Files == temps \cup Listed
            n == Cardinality(NamesInUse)
<1>1. IsFiniteSet(Listed)
  <2>1. CASE scan = None
    BY <2>1, FS_EmptySet
  <2>2. CASE scan # None
    BY <2>2, FS_Difference DEF FilesFinite
  <2>. QED
    BY <2>1, <2>2
<1>2. IsFiniteSet(Files)
  BY <1>1, FS_Union DEF FilesFinite
<1>3. NamesInUse = {t.name : t \in Files}
  BY DEF NamesInUse
<1>4. IsFiniteSet(NamesInUse) /\ n \in Nat
  <2>. DEFINE f == [t \in Files |-> t.name]
  <2>1. f \in Surjection(Files, NamesInUse)
    BY <1>3 DEF Surjection
  <2>. QED
    BY <1>2, <2>1, FS_Surjection, FS_CardinalityType
<1>5. (1..(n + 1)) \ NamesInUse # {}
  <2>1. IsFiniteSet(1..(n + 1)) /\ Cardinality(1..(n + 1)) = n + 1
    BY <1>4, FS_Interval
  <2>2. ~(1..(n + 1) \subseteq NamesInUse)
    <3>1. SUFFICES ASSUME 1..(n + 1) \subseteq NamesInUse
                   PROVE  FALSE
      OBVIOUS
    <3>2. Cardinality(1..(n + 1)) <= Cardinality(NamesInUse)
      BY <1>4, <3>1, FS_Subset
    <3>. QED
      BY <1>4, <2>1, <3>2
  <2>. QED
    BY <2>2
<1>. QED
  BY <1>4, <1>5, LeastExists DEF FreshName

StoreInv == StoreTypeOK /\ FilesFinite

LEMMA JobTypes ==
    ASSUME StoreTypeOK, NEW w \in Writers, Working(w)
    PROVE  job[w] \in Jobs
BY DEF StoreTypeOK, Working

LEMMA InitTypes == StoreInit => StoreInv
<1>. SUFFICES ASSUME StoreInit
              PROVE  StoreInv
  OBVIOUS
<1>1. RegistryTypeOK
  BY DEF StoreInit, RegistryInit, RegistryTypeOK
<1>2. /\ object \in [Digests -> Contents] /\ temps \subseteq Temps
      /\ job \in [Writers -> Jobs \cup {None}] /\ damaged \subseteq Damageable
  BY DEF StoreInit, Contents
<1>3. failures \in 0..MaxFailures /\ crashes \in 0..MaxCrashes /\ scans \in 0..MaxScans
  BY BoundsAssumption DEF StoreInit
<1>. QED
  BY <1>1, <1>2, <1>3, FS_EmptySet DEF StoreInv, StoreTypeOK, FilesFinite, StoreInit

(* Rows change as in the registry alone, and nothing else changes them. *)
LEMMA RowsStep ==
    ASSUME StoreTypeOK, [StoreNext]_storeVars
    PROVE  [RegistryNext]_<<now, registryVars>>
<1>1. CASE UNCHANGED <<now, registryVars>>
  BY <1>1
<1>2. CASE ClockMoves
  BY <1>2 DEF RegistryNext
<1>3. ASSUME NEW w \in Writers, Commit(w)
      PROVE  \E b \in Bundles : RecordVerifiedConsumption(b)
  BY <1>3, JobTypes DEF Commit, FilesVerified, Between, Jobs
<1>4. ASSUME NEW w \in Writers, Step(w), ~Commit(w)
      PROVE  UNCHANGED <<now, registryVars>>
  BY <1>4 DEF Step, Adopt, Open, Write, Place, EndsUnrecorded
<1>5. ASSUME NEW w \in Writers, Fail(w) \/ Crash(w) \/ \E b \in Bundles : Call(w, b)
      PROVE  UNCHANGED <<now, registryVars>>
  BY <1>5 DEF Fail, Crash, Call
<1>6. CASE (\E d \in Digests : Damage(d)) \/ Scan
  BY <1>6 DEF Damage, Scan, ScanRows, ScanDirectory, ScanObject, ScanTemporary, ScanJudge
<1>. QED
  BY <1>1, <1>2, <1>3, <1>4, <1>5, <1>6 DEF StoreNext, storeVars, RegistryNext

LEMMA TypesStep ==
    ASSUME StoreInv, [StoreNext]_storeVars
    PROVE  StoreInv'
<1>. USE DEF StoreInv
<1>1. RegistryTypeOK'
  BY RowsStep, RegistryTypeStep DEF StoreTypeOK
<1>. DEFINE FilesOK == /\ object \in [Digests -> Contents]
                       /\ temps \subseteq Temps /\ IsFiniteSet(temps)
                       /\ damaged \subseteq Damageable
            BoundsOK == failures \in 0..MaxFailures /\ crashes \in 0..MaxCrashes /\ scans \in 0..MaxScans
            JobsOK == job \in [Writers -> Jobs \cup {None}]
            ScanOK == scan = None \/ (scan \in Scans /\ IsFiniteSet(scan.listed))
<1>2. SUFFICES FilesOK' /\ BoundsOK' /\ JobsOK' /\ ScanOK'
  BY <1>1 DEF StoreTypeOK, FilesFinite
<1>3. FilesOK /\ BoundsOK /\ JobsOK /\ ScanOK
  BY DEF StoreTypeOK, FilesFinite
<1>. HIDE DEF StoreInv
<1>4. CASE UNCHANGED <<fileVars, boundVars, job, scan>>
  BY <1>3, <1>4 DEF fileVars, boundVars
<1>5. ASSUME NEW w \in Writers, Step(w)
      PROVE  FilesOK' /\ BoundsOK' /\ JobsOK' /\ ScanOK'
  <2>1. ASSUME NEW d \in Digests, Adopt(w, d)
        PROVE  FilesOK' /\ BoundsOK' /\ JobsOK' /\ ScanOK'
    BY <1>3, <2>1, JobTypes DEF Adopt, Between, Working, Jobs, fileVars, boundVars, StoreInv
  <2>2. ASSUME NEW d \in Digests, Open(w, d)
        PROVE  FilesOK' /\ BoundsOK' /\ JobsOK' /\ ScanOK'
    <3>1. [name |-> FreshName, digest |-> d] \in Temps
      BY FreshNameType DEF Temps, StoreInv
    <3>2. IsFiniteSet(temps')
      BY <1>3, <2>2, FS_AddElement DEF Open
    <3>. QED
      <4>. DEFINE t == [name |-> FreshName, digest |-> d]
      <4>1. /\ temps' = temps \cup {t} /\ job[w] \in Jobs
            /\ job' = [job EXCEPT ![w].temp = t, ![w].written = FALSE]
            /\ UNCHANGED <<object, damaged, boundVars, scan>>
        BY <2>2, JobTypes DEF Open, Between, StoreInv
      <4>2. t \in Temps
        BY <3>1
      <4>. HIDE DEF t
      <4>3. JobsOK'
        BY <1>3, <4>1, <4>2 DEF Jobs
      <4>. QED
        BY <1>3, <3>2, <4>1, <4>2, <4>3 DEF boundVars
  <2>3. CASE Write(w)
    BY <1>3, <2>3, JobTypes DEF Write, Working, Jobs, fileVars, boundVars, StoreInv
  <2>4. CASE Place(w)
    <3>1. IsFiniteSet(temps')
      BY <1>3, <2>4, FS_Subset DEF Place
    <3>2. job[w] \in Jobs
      BY <2>4, JobTypes DEF Place, Placeable, StoreInv
    <3>3. FilesOK' /\ BoundsOK'
      BY <1>3, <2>4, <3>1 DEF Place, Placeable, Contents, boundVars
    <3>4. JobsOK'
      BY <1>3, <2>4, <3>2 DEF Place, Jobs
    <3>5. ScanOK'
      BY <1>3, <2>4 DEF Place, Scans
    <3>. QED
      BY <3>3, <3>4, <3>5
  <2>5. CASE Commit(w)
    BY <1>3, <2>5 DEF Commit, fileVars, boundVars
  <2>6. CASE EndsUnrecorded(w)
    BY <1>3, <2>6 DEF EndsUnrecorded, fileVars, boundVars
  <2>. QED
    BY <1>5, <2>1, <2>2, <2>3, <2>4, <2>5, <2>6 DEF Step
<1>6. ASSUME NEW w \in Writers, Fail(w) \/ Crash(w)
      PROVE  FilesOK' /\ BoundsOK' /\ JobsOK' /\ ScanOK'
  <2>1. FilesOK'
    BY <1>3, <1>6, FS_Subset DEF Fail, Crash, TempsUnlinked, fileVars
  <2>. QED
    BY <1>3, <1>6, <2>1, BoundsAssumption DEF Fail, Crash, fileVars, boundVars
<1>7. ASSUME NEW w \in Writers, NEW b \in Bundles, Call(w, b)
      PROVE  FilesOK' /\ BoundsOK' /\ JobsOK' /\ ScanOK'
  BY <1>3, <1>7, BundleDigestsRegistered DEF Call, Jobs, fileVars, boundVars
<1>8. ASSUME NEW d \in Digests, Damage(d)
      PROVE  FilesOK' /\ BoundsOK' /\ JobsOK' /\ ScanOK'
  BY <1>3, <1>8 DEF Damage, Contents, boundVars
<1>9. CASE Scan
  <2>1. FilesOK' /\ BoundsOK' /\ JobsOK'
    <3>1. CASE ScanRows
      BY <1>3, <3>1, BoundsAssumption DEF ScanRows, fileVars
    <3>2. CASE ~ScanRows
      BY <1>3, <1>9, <3>2 DEF Scan, ScanDirectory, ScanObject, ScanTemporary, ScanJudge, fileVars, boundVars
    <3>. QED
      BY <3>1, <3>2
  <2>2. ScanOK'
    <3>1. CASE ScanRows
      <4>. DEFINE broken == {d \in Registered : object[d] # "whole"}
      <4>1. cached \subseteq Digests /\ broken \subseteq Digests
        BY <1>1, <3>1 DEF ScanRows, Registered, RegistryTypeOK, registryVars
      <4>2. <<>> \in UNION {[ds -> Contents] : ds \in SUBSET Digests}
        <5>1. <<>> \in [{} -> Contents]
          OBVIOUS
        <5>. QED
          BY <5>1
      <4>3. scan' = [rows |-> cached, dirs |-> Digests, listed |-> {}, physical |-> <<>>,
                     judged |-> {}, issues |-> {}, hurt |-> broken]
        BY <3>1 DEF ScanRows, Registered
      <4>. HIDE DEF broken
      <4>. QED
        BY <4>1, <4>2, <4>3, FS_EmptySet DEF Scans
    <3>2. ASSUME NEW d \in Digests, ScanDirectory(d)
          PROVE  ScanOK'
      <4>. DEFINE new == {t \in temps : t.digest = d} \cup {o \in {d} : object[o] # "absent"}
      <4>1. IsFiniteSet(new) /\ new \subseteq Digests \cup Temps
        <5>1. IsFiniteSet({t \in temps : t.digest = d}) /\ IsFiniteSet({o \in {d} : object[o] # "absent"})
          BY <1>3, FS_Subset, FS_Singleton
        <5>. QED
          BY <1>3, <5>1, FS_Union
      <4>2. scan' = [scan EXCEPT !.dirs = @ \ {d}, !.listed = @ \cup new] /\ scan # None
        BY <3>2 DEF ScanDirectory, Walking
      <4>. HIDE DEF new
      <4>3. IsFiniteSet(scan.listed \cup new)
        BY <1>3, <4>1, <4>2, FS_Union
      <4>. QED
        BY <1>3, <4>1, <4>2, <4>3 DEF Scans
    <3>3. ASSUME NEW d \in Digests, ScanObject(d)
          PROVE  ScanOK'
      <4>1. scan \in Scans /\ IsFiniteSet(scan.listed \ {d})
        BY <1>3, <3>3, FS_Subset DEF ScanObject, Walking
      <4>2. CASE object[d] = "absent"
        <5>1. {Issue("scan_failure", d)} \subseteq Issues
          BY DEF Issue, Issues
        <5>2. scan' = [scan EXCEPT !.listed = @ \ {d}, !.issues = @ \cup {Issue("scan_failure", d)}]
          BY <3>3, <4>2 DEF ScanObject
        <5>. QED
          BY <4>1, <5>1, <5>2 DEF Scans
      <4>3. CASE object[d] # "absent"
        <5>. DEFINE found == FoundWith(d)
        <5>1. found \in UNION {[ds -> Contents] : ds \in SUBSET Digests}
          <6>1. PICK ds \in SUBSET Digests : scan.physical \in [ds -> Contents]
            BY <4>1 DEF Scans
          <6>2. found \in [ds \cup {d} -> Contents]
            BY <1>3, <6>1 DEF FoundWith
          <6>. QED
            BY <6>2
        <5>2. scan' = [scan EXCEPT !.listed = @ \ {d}, !.physical = found]
          BY <3>3, <4>3 DEF ScanObject
        <5>. HIDE DEF found
        <5>. QED
          BY <4>1, <5>1, <5>2 DEF Scans
      <4>. QED
        BY <4>2, <4>3
    <3>4. ASSUME NEW d \in Digests, ScanJudge(d)
          PROVE  ScanOK'
      <4>1. IssuesOf(d) \subseteq Issues
        BY DEF IssuesOf, Issue, Issues
      <4>2. scan # None /\ scan' = [scan EXCEPT !.judged = @ \cup {d}, !.issues = @ \cup IssuesOf(d)]
        BY <3>4 DEF ScanJudge
      <4>. QED
        BY <1>3, <4>1, <4>2 DEF Scans
    <3>5. ASSUME scan # None, NEW t \in scan.listed, ScanTemporary(t)
          PROVE  ScanOK'
      <4>1. IsFiniteSet(scan.listed \ {t})
        BY <1>3, <3>5, FS_Subset
      <4>. QED
        <5>. DEFINE new == {Issue("scan_failure", "temporary") : u \in {t} \ temps}
        <5>1. new \subseteq Issues
          BY DEF Issue, Issues
        <5>2. scan' = [scan EXCEPT !.listed = @ \ {t}, !.issues = @ \cup new]
          BY <3>5 DEF ScanTemporary
        <5>. HIDE DEF new
        <5>. QED
          BY <1>3, <3>5, <4>1, <5>1, <5>2 DEF Scans
    <3>. QED
      BY <1>9, <3>1, <3>2, <3>3, <3>4, <3>5 DEF Scan
  <2>. QED
    BY <2>1, <2>2
<1>. QED
  BY <1>4, <1>5, <1>6, <1>7, <1>8, <1>9 DEF StoreNext, storeVars

(* Every file, every call and every inventory keeps its shape, and however *)
(* many temporary files lie about, the next one gets a name of its own.    *)
THEOREM FilesTypeCorrect == StoreSpec => []StoreTypeOK
<1>1. StoreInv /\ [StoreNext]_storeVars => StoreInv'
  BY TypesStep
<1>2. StoreInv => StoreTypeOK
  BY DEF StoreInv
<1>. QED
  BY <1>1, <1>2, InitTypes, PTL DEF StoreSpec

-----------------------------------------------------------------------------
(* The store is a registry: whatever files, failures and inventories add,  *)
(* its rows change as the registry's do, so what is proved there holds.    *)
THEOREM FilesImplementRegistry == StoreSpec => RegistrySpec
<1>1. StoreInit => RegistryInit
  BY DEF StoreInit
<1>2. StoreInv /\ [StoreNext]_storeVars => [RegistryNext]_<<now, registryVars>>
  BY RowsStep DEF StoreInv
<1>3. StoreInv /\ [StoreNext]_storeVars => StoreInv'
  BY TypesStep
<1>. QED
  BY <1>1, <1>2, <1>3, InitTypes, PTL DEF StoreSpec, RegistrySpec

-----------------------------------------------------------------------------
(* Files. *)

(* A file is bad only by damage: nobody places one that was not written    *)
(* and verified.                                                           *)
OnlyDamageSpoils == \A d \in Digests \ damaged : object[d] # "bad"

FilesInv == OnlyDamageSpoils /\ RegisteredFilesWhole

(* How one step treats an object: unless damaged it gets no worse, and if  *)
(* it gets whole an inventory under way no longer counts it as broken.     *)
LEMMA ObjectsStep ==
    ASSUME StoreInv, [StoreNext]_storeVars, NEW d \in Digests
    PROVE  /\ damaged \subseteq damaged'
           /\ d \notin damaged' => object'[d] \in {object[d], "whole"}
           /\ object'[d] = "whole" /\ scan' # None => object[d] = "whole" \/ d \notin scan'.hurt
<1>. USE DEF StoreInv
<1>1. CASE UNCHANGED <<object, damaged>>
  BY <1>1
<1>2. ASSUME NEW w \in Writers, Step(w), ~Place(w)
      PROVE  UNCHANGED <<object, damaged>>
  BY <1>2 DEF Step, Adopt, Open, Write, Commit, EndsUnrecorded, fileVars
<1>3. ASSUME NEW w \in Writers, Place(w)
      PROVE  /\ damaged' = damaged
             /\ object'[d] \in {object[d], "whole"}
             /\ object'[d] = "whole" /\ scan' # None => object[d] = "whole" \/ d \notin scan'.hurt
  <2>. DEFINE t == job[w].temp
  <2>1. damaged' = damaged /\ object' = [object EXCEPT ![t.digest] = "whole"]
    BY <1>3 DEF Place, Placeable
  <2>2. scan' # None => scan # None /\ scan' = [scan EXCEPT !.hurt = @ \ {t.digest}]
    BY <1>3 DEF Place
  <2>3. scan' # None => scan'.hurt = scan.hurt \ {t.digest}
    BY <2>2 DEF StoreTypeOK, Scans
  <2>. QED
    BY <2>1, <2>3 DEF StoreTypeOK
<1>4. ASSUME NEW w \in Writers, Fail(w) \/ Crash(w) \/ \E b \in Bundles : Call(w, b)
      PROVE  UNCHANGED <<object, damaged>>
  BY <1>4 DEF Fail, Crash, Call, fileVars
<1>5. ASSUME NEW e \in Digests, Damage(e)
      PROVE  /\ damaged \subseteq damaged'
             /\ d \notin damaged' => object'[d] = object[d]
             /\ object'[d] = "whole" => object[d] = "whole"
  BY <1>5 DEF Damage, StoreTypeOK
<1>6. ASSUME Scan
      PROVE  UNCHANGED <<object, damaged>>
  BY <1>6 DEF Scan, ScanRows, ScanDirectory, ScanObject, ScanTemporary, ScanJudge, fileVars
<1>7. ASSUME UNCHANGED storeVars \/ (ClockMoves /\ UNCHANGED <<fileVars, boundVars, job, scan>>)
      PROVE  UNCHANGED <<object, damaged>>
  BY <1>7 DEF fileVars, storeVars
<1>. QED
  BY <1>1, <1>2, <1>3, <1>4, <1>5, <1>6, <1>7 DEF StoreNext, Step

LEMMA RowsGrow ==
    ASSUME StoreInv, [StoreNext]_storeVars
    PROVE  cached \subseteq cached'
BY RowsStep DEF StoreInv, RegistryNext, ClockMoves, registryVars, RecordVerifiedConsumption

(* What is registered was registered, or is whole now. *)
LEMMA CachedStep ==
    ASSUME StoreInv, [StoreNext]_storeVars, NEW d \in cached'
    PROVE  d \in Digests /\ (d \in cached \/ object'[d] = "whole")
<1>. USE DEF StoreInv
<1>1. d \in Digests
  BY TypesStep DEF StoreTypeOK, RegistryTypeOK
<1>2. ASSUME NEW w \in Writers, Commit(w)
      PROVE  d \in cached \/ object'[d] = "whole"
  BY <1>2 DEF Commit, FilesVerified, RecordVerifiedConsumption, fileVars
<1>3. ASSUME NEW w \in Writers, Step(w), ~Commit(w)
      PROVE  cached' = cached
  BY <1>3 DEF Step, Adopt, Open, Write, Place, EndsUnrecorded, registryVars
<1>4. ASSUME NEW w \in Writers, Fail(w) \/ Crash(w) \/ \E b \in Bundles : Call(w, b)
      PROVE  cached' = cached
  BY <1>4 DEF Fail, Crash, Call, registryVars
<1>5. ASSUME Scan
      PROVE  cached' = cached
  BY <1>5 DEF Scan, ScanRows, ScanDirectory, ScanObject, ScanTemporary, ScanJudge, registryVars
<1>6. ASSUME ClockMoves \/ (\E e \in Digests : Damage(e)) \/ UNCHANGED storeVars
      PROVE  cached' = cached
  BY <1>6 DEF ClockMoves, Damage, registryVars, storeVars
<1>. QED
  BY <1>1, <1>2, <1>3, <1>4, <1>5, <1>6 DEF StoreNext

LEMMA FilesStep ==
    ASSUME StoreInv, FilesInv, [StoreNext]_storeVars
    PROVE  FilesInv'
<1>1. OnlyDamageSpoils'
  BY ObjectsStep DEF FilesInv, OnlyDamageSpoils
<1>2. RegisteredFilesWhole'
  <2>. SUFFICES ASSUME NEW d \in cached' \ damaged'
                PROVE  object'[d] = "whole"
    BY DEF RegisteredFilesWhole
  <2>1. d \in Digests /\ (d \in cached \/ object'[d] = "whole")
    BY CachedStep
  <2>. QED
    BY <2>1, ObjectsStep DEF FilesInv, RegisteredFilesWhole
<1>. QED
  BY <1>1, <1>2 DEF FilesInv

(* Metadata never outruns the files: whichever processes share the cache,  *)
(* fail between any two steps or die with a file half placed, a registered *)
(* object is whole under its name unless it was damaged from outside.      *)
THEOREM FilesRegisteredWhole == StoreSpec => []RegisteredFilesWhole
<1>1. StoreInit => FilesInv
  BY DEF StoreInit, RegistryInit, FilesInv, OnlyDamageSpoils, RegisteredFilesWhole
<1>2. StoreInv /\ FilesInv /\ [StoreNext]_storeVars => StoreInv' /\ FilesInv'
  BY TypesStep, FilesStep
<1>3. FilesInv => RegisteredFilesWhole
  BY DEF FilesInv
<1>. QED
  BY <1>1, <1>2, <1>3, InitTypes, PTL DEF StoreSpec

-----------------------------------------------------------------------------
(* Inventories. *)

(* What an inventory has seen may have changed since, but only by damage   *)
(* or for the better: a row it read is a registered object it has still to *)
(* list, has listed or has looked at, and what it saw was whole.           *)
ScanTrue ==
    scan # None =>
      /\ scan.rows \subseteq cached
      /\ \A d \in Digests \ damaged :
           /\ d \in scan.listed => object[d] # "absent"
           /\ d \in scan.rows => d \in scan.dirs \cup scan.listed \cup DOMAIN scan.physical
           /\ d \in DOMAIN scan.physical => scan.physical[d] = "whole"

(* An object broken since the rows were read is reported once it is judged. *)
HurtReported ==
    scan # None =>
      \A d \in scan.hurt :
        /\ d \in scan.rows /\ object[d] # "whole"
        /\ d \in scan.judged => d \in {i.subject : i \in scan.issues}

ScanInv == ScanTrue /\ NoFalseAlarm /\ HurtReported

LEMMA DamageStays ==
    ASSUME StoreInv, [StoreNext]_storeVars
    PROVE  damaged \subseteq damaged'
<1>1. CASE \E d \in Digests : Damage(d)
  BY <1>1 DEF Damage
<1>2. ASSUME NEW w \in Writers, Step(w) \/ Fail(w) \/ Crash(w) \/ \E b \in Bundles : Call(w, b)
      PROVE  damaged' = damaged
  BY <1>2 DEF Step, Adopt, Open, Write, Place, Commit, EndsUnrecorded, Fail, Crash, Call, fileVars
<1>3. ASSUME Scan
      PROVE  damaged' = damaged
  BY <1>3 DEF Scan, ScanRows, ScanDirectory, ScanObject, ScanTemporary, ScanJudge, fileVars
<1>. QED
  BY <1>1, <1>2, <1>3 DEF StoreNext, storeVars, fileVars

LEMMA ScanStep ==
    ASSUME StoreInv, FilesInv, ScanInv, [StoreNext]_storeVars
    PROVE  ScanInv'
<1>. USE DEF StoreInv
<1>1. StoreTypeOK'
  BY TypesStep
<1>2. ASSUME UNCHANGED scan \/ (\E w \in Writers : Place(w))
      PROVE  ScanInv'
  <2>. SUFFICES ASSUME scan' # None
                PROVE  ScanInv'
    BY DEF ScanInv, ScanTrue, NoFalseAlarm, HurtReported
  <2>1. /\ scan # None /\ scan \in Scans /\ scan' \in Scans
        /\ scan'.rows = scan.rows /\ scan'.dirs = scan.dirs /\ scan'.listed = scan.listed
        /\ scan'.physical = scan.physical /\ scan'.judged = scan.judged /\ scan'.issues = scan.issues
        /\ scan'.hurt \subseteq scan.hurt
    <3>1. scan' \in Scans
      BY <1>1 DEF StoreTypeOK
    <3>2. CASE UNCHANGED scan
      BY <3>1, <3>2
    <3>3. ASSUME NEW w \in Writers, Place(w)
          PROVE  /\ scan # None /\ scan \in Scans
                 /\ \E d : scan' = [scan EXCEPT !.hurt = @ \ {d}]
      <4>1. scan # None /\ scan' = [scan EXCEPT !.hurt = @ \ {job[w].temp.digest}]
        BY <3>3 DEF Place
      <4>. QED
        BY <4>1 DEF StoreTypeOK
    <3>4. ASSUME scan \in Scans, NEW d, scan' = [scan EXCEPT !.hurt = @ \ {d}]
          PROVE  /\ scan'.rows = scan.rows /\ scan'.dirs = scan.dirs /\ scan'.listed = scan.listed
                 /\ scan'.physical = scan.physical /\ scan'.judged = scan.judged /\ scan'.issues = scan.issues
                 /\ scan'.hurt \subseteq scan.hurt
      BY <3>4 DEF Scans
    <3>. QED
      BY <1>2, <3>1, <3>2, <3>3, <3>4
  <2>2. cached \subseteq cached' /\ \A d \in Digests \ damaged' : d \notin damaged
    BY RowsGrow, DamageStays
  <2>3. ScanTrue'
    <3>1. scan'.rows \subseteq cached'
      BY <2>1, <2>2 DEF ScanInv, ScanTrue
    <3>2. ASSUME NEW d \in Digests \ damaged'
          PROVE  /\ d \in scan'.listed => object'[d] # "absent"
                 /\ d \in scan'.rows => d \in scan'.dirs \cup scan'.listed \cup DOMAIN scan'.physical
                 /\ d \in DOMAIN scan'.physical => scan'.physical[d] = "whole"
      BY <2>1, <2>2, ObjectsStep DEF ScanInv, ScanTrue
    <3>. QED
      BY <3>1, <3>2 DEF ScanTrue
  <2>4. NoFalseAlarm'
    <3>1. ASSUME NEW i \in scan.issues, i.subject \in damaged
          PROVE  i.subject \in damaged'
      BY <3>1, DamageStays
    <3>. QED
      BY <2>1, <3>1 DEF ScanInv, NoFalseAlarm
  <2>5. HurtReported'
    <3>1. ASSUME NEW d \in scan'.hurt
          PROVE  d \in scan'.rows /\ object'[d] # "whole"
                 /\ (d \in scan'.judged => d \in {i.subject : i \in scan'.issues})
      <4>1. d \in Digests
        BY <2>1 DEF Scans
      <4>. QED
        BY <2>1, <3>1, <4>1, ObjectsStep DEF ScanInv, HurtReported
    <3>. QED
      BY <3>1 DEF HurtReported
  <2>. QED
    BY <2>3, <2>4, <2>5 DEF ScanInv
<1>3. CASE ScanRows
  <2>1. /\ scan'.rows = cached /\ scan'.dirs = Digests /\ scan'.listed = {} /\ scan'.physical = <<>>
        /\ scan'.judged = {} /\ scan'.issues = {} /\ scan'.hurt = {d \in cached : object[d] # "whole"}
        /\ cached' = cached /\ object' = object /\ DOMAIN scan'.physical = {}
    BY <1>3 DEF ScanRows, Registered, registryVars, fileVars
  <2>. QED
    BY <2>1 DEF ScanInv, ScanTrue, NoFalseAlarm, HurtReported
<1>. DEFINE Looks == UNCHANGED <<cached, object, damaged>> /\ scan # None /\ scan \in Scans
<1>4. ASSUME NEW d \in Digests, ScanDirectory(d)
      PROVE  ScanInv'
  <2>. DEFINE new == {t \in temps : t.digest = d} \cup {o \in {d} : object[o] # "absent"}
  <2>1. Looks
    BY <1>4 DEF ScanDirectory, Walking, registryVars, fileVars, StoreTypeOK
  <2>2. scan' = [scan EXCEPT !.dirs = @ \ {d}, !.listed = @ \cup new]
    BY <1>4 DEF ScanDirectory
  <2>3. /\ scan'.rows = scan.rows /\ scan'.dirs = scan.dirs \ {d} /\ scan'.listed = scan.listed \cup new
        /\ scan'.physical = scan.physical /\ scan'.judged = scan.judged /\ scan'.issues = scan.issues
        /\ scan'.hurt = scan.hurt
    BY <2>1, <2>2 DEF Scans
  <2>4. \A e \in Digests : e \in new <=> e = d /\ object[e] # "absent"
    BY NamesAssumption DEF StoreTypeOK
  <2>5. d \in scan.rows \ damaged => object[d] # "absent"
    BY <2>1 DEF ScanInv, ScanTrue, FilesInv, RegisteredFilesWhole
  <2>. HIDE DEF new
  <2>6. ScanTrue'
    BY <2>1, <2>3, <2>4, <2>5 DEF ScanInv, ScanTrue
  <2>. QED
    BY <2>1, <2>3, <2>6 DEF ScanInv, NoFalseAlarm, HurtReported
<1>5. ASSUME NEW d \in Digests, ScanObject(d)
      PROVE  ScanInv'
  <2>1. Looks /\ d \in scan.listed
    BY <1>5 DEF ScanObject, Walking, registryVars, fileVars, StoreTypeOK
  <2>2. CASE object[d] = "absent"
    <3>1. scan' = [scan EXCEPT !.listed = @ \ {d}, !.issues = @ \cup {Issue("scan_failure", d)}]
      BY <1>5, <2>2 DEF ScanObject
    <3>2. /\ scan'.rows = scan.rows /\ scan'.dirs = scan.dirs /\ scan'.listed = scan.listed \ {d}
          /\ scan'.physical = scan.physical /\ scan'.judged = scan.judged
          /\ scan'.issues = scan.issues \cup {Issue("scan_failure", d)} /\ scan'.hurt = scan.hurt
      BY <2>1, <3>1 DEF Scans
    <3>3. d \in damaged /\ Issue("scan_failure", d).subject = d
      BY <2>1, <2>2 DEF ScanInv, ScanTrue, Issue
    <3>4. ScanTrue'
      BY <2>1, <3>2, <3>3 DEF ScanInv, ScanTrue
    <3>. QED
      BY <2>1, <3>2, <3>3, <3>4 DEF ScanInv, NoFalseAlarm, HurtReported
  <2>3. CASE object[d] # "absent"
    <3>1. scan' = [scan EXCEPT !.listed = @ \ {d}, !.physical = FoundWith(d)]
      BY <1>5, <2>3 DEF ScanObject
    <3>2. /\ scan'.rows = scan.rows /\ scan'.dirs = scan.dirs /\ scan'.listed = scan.listed \ {d}
          /\ scan'.physical = FoundWith(d) /\ scan'.judged = scan.judged
          /\ scan'.issues = scan.issues /\ scan'.hurt = scan.hurt
      BY <2>1, <3>1 DEF Scans
    <3>3. d \notin damaged => object[d] = "whole"
      BY <2>3 DEF FilesInv, OnlyDamageSpoils, StoreTypeOK, Contents
    <3>4. /\ DOMAIN FoundWith(d) = DOMAIN scan.physical \cup {d}
          /\ \A e \in DOMAIN FoundWith(d) : FoundWith(d)[e] = IF e = d THEN object[d] ELSE scan.physical[e]
      BY DEF FoundWith
    <3>5. ScanTrue'
      BY <2>1, <3>2, <3>3, <3>4 DEF ScanInv, ScanTrue
    <3>. QED
      BY <2>1, <3>2, <3>5 DEF ScanInv, NoFalseAlarm, HurtReported
  <2>. QED
    BY <2>2, <2>3
<1>6. ASSUME NEW d \in Digests, ScanJudge(d)
      PROVE  ScanInv'
  <2>1. Looks /\ d \in scan.rows /\ scan.dirs = {} /\ scan.listed = {}
    BY <1>6 DEF ScanJudge, Walking, RowsJudged, registryVars, fileVars, StoreTypeOK
  <2>2. scan' = [scan EXCEPT !.judged = @ \cup {d}, !.issues = @ \cup IssuesOf(d)]
    BY <1>6 DEF ScanJudge
  <2>3. /\ scan'.rows = scan.rows /\ scan'.dirs = scan.dirs /\ scan'.listed = scan.listed
        /\ scan'.physical = scan.physical /\ scan'.judged = scan.judged \cup {d}
        /\ scan'.issues = scan.issues \cup IssuesOf(d) /\ scan'.hurt = scan.hurt
    BY <2>1, <2>2 DEF Scans
  <2>4. \A i \in IssuesOf(d) : i.subject = d
    BY DEF IssuesOf, Issue
  <2>5. d \notin damaged => IssuesOf(d) = {}
    <3>1. d \notin damaged => d \in DOMAIN scan.physical /\ scan.physical[d] = "whole" /\ object[d] = "whole"
      BY <2>1 DEF ScanInv, ScanTrue, FilesInv, RegisteredFilesWhole
    <3>. QED
      BY <3>1 DEF IssuesOf
  <2>6. object[d] # "whole" => \E i \in IssuesOf(d) : i.subject = d
    BY DEF IssuesOf, Issue, StoreTypeOK, Contents
  <2>7. NoFalseAlarm'
    BY <2>1, <2>3, <2>4, <2>5 DEF ScanInv, NoFalseAlarm
  <2>8. HurtReported'
    BY <2>1, <2>3, <2>6 DEF ScanInv, HurtReported
  <2>. QED
    BY <2>1, <2>3, <2>7, <2>8 DEF ScanInv, ScanTrue
<1>7. ASSUME scan # None, NEW t \in scan.listed, ScanTemporary(t)
      PROVE  ScanInv'
  <2>. DEFINE new == {Issue("scan_failure", "temporary") : u \in {t} \ temps}
  <2>1. Looks /\ t \notin Digests
    BY <1>7 DEF ScanTemporary, registryVars, fileVars, StoreTypeOK
  <2>2. scan' = [scan EXCEPT !.listed = @ \ {t}, !.issues = @ \cup new]
    BY <1>7 DEF ScanTemporary
  <2>3. \A i \in new : i.subject = "temporary"
    BY DEF Issue
  <2>. HIDE DEF new
  <2>4. /\ scan'.rows = scan.rows /\ scan'.dirs = scan.dirs /\ scan'.listed = scan.listed \ {t}
        /\ scan'.physical = scan.physical /\ scan'.judged = scan.judged
        /\ scan'.issues = scan.issues \cup new /\ scan'.hurt = scan.hurt
    BY <2>1, <2>2 DEF Scans
  <2>5. ScanTrue'
    BY <2>1, <2>4 DEF ScanInv, ScanTrue
  <2>. QED
    BY <2>1, <2>3, <2>4, <2>5 DEF ScanInv, NoFalseAlarm, HurtReported
<1>8. ASSUME NEW w \in Writers, Step(w), ~Place(w)
      PROVE  UNCHANGED scan
  BY <1>8 DEF Step, Adopt, Open, Write, Commit, EndsUnrecorded
<1>9. ASSUME NEW w \in Writers, Fail(w) \/ Crash(w) \/ \E b \in Bundles : Call(w, b)
      PROVE  UNCHANGED scan
  BY <1>9 DEF Fail, Crash, Call
<1>10. ASSUME UNCHANGED storeVars \/ (ClockMoves /\ UNCHANGED <<fileVars, boundVars, job, scan>>)
                \/ \E d \in Digests : Damage(d)
       PROVE  UNCHANGED scan
  BY <1>10 DEF storeVars, Damage
<1>11. ASSUME Scan, ~ScanRows
       PROVE  ScanInv'
  BY <1>4, <1>5, <1>6, <1>7, <1>11 DEF Scan
<1>. QED
  BY <1>2, <1>3, <1>8, <1>9, <1>10, <1>11 DEF StoreNext

LEMMA ScanHolds == StoreSpec => []ScanInv
<1>1. StoreInit => FilesInv /\ ScanInv
  BY DEF StoreInit, RegistryInit, FilesInv, OnlyDamageSpoils, RegisteredFilesWhole, ScanInv, ScanTrue, NoFalseAlarm, HurtReported
<1>2. StoreInv /\ FilesInv /\ ScanInv /\ [StoreNext]_storeVars => StoreInv' /\ FilesInv' /\ ScanInv'
  BY TypesStep, FilesStep, ScanStep
<1>. QED
  BY <1>1, <1>2, InitTypes, PTL DEF StoreSpec

(* An inventory taken while others write, fail, die and repair says        *)
(* nothing of an object that is not or was not broken from outside.        *)
THEOREM InventoryNoFalseAlarm == StoreSpec => []NoFalseAlarm
<1>1. ScanInv => NoFalseAlarm
  BY DEF ScanInv
<1>. QED
  BY <1>1, ScanHolds, PTL

(* And a registered object that was broken when the inventory began and    *)
(* was repaired by nobody is in its report.                                *)
THEOREM InventoryReportsDamage == StoreSpec => []DamageReported
<1>1. ScanInv => DamageReported
  BY DEF ScanInv, HurtReported, DamageReported, Reported, RowsJudged
<1>. QED
  BY <1>1, ScanHolds, PTL
=============================================================================
