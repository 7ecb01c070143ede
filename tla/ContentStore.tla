---------------------------- MODULE ContentStore ----------------------------
(***************************************************************************)
(* The content-addressed files of ReleaseCacheStore and the calls that     *)
(* write them: record_verified_consumption puts every payload under its    *)
(* digest (_atomic_write: temporary file, fsync, verify, os.replace) and   *)
(* only then commits the metadata of ReceiptRegistry.  Several processes   *)
(* share the cache; each may fail or die between any two steps, and        *)
(* quota_report may take inventory meanwhile.                              *)
(*                                                                         *)
(* A payload is its digest, so a file under a digest is whole, bad         *)
(* (of another size) or absent.  Every digest has a directory of its      *)
(* own here; listing several at once is listing one after the other.       *)
(***************************************************************************)
EXTENDS ReceiptRegistry, FiniteSetsExt, TLC

CONSTANTS Writers,      \* processes calling record_verified_consumption
          Damageable,   \* objects something outside the store may damage
          MaxFailures,  \* bound on writes and transactions that fail
          MaxCrashes,   \* bound on processes that die
          MaxScans      \* bound on inventories

ASSUME BoundsAssumption == MaxFailures \in Nat /\ MaxCrashes \in Nat /\ MaxScans \in Nat

VARIABLES object,    \* sha256/<xx>/<digest>: absent, whole or bad
          temps,     \* temporary files: name (a uuid) and digest
          job,       \* what each writer is doing, None between calls
          failures, crashes, scans,
          damaged,   \* objects something outside the store ever damaged
          scan       \* the inventory being taken, or the last report

fileVars == <<object, temps, damaged>>
boundVars == <<failures, crashes, scans>>
storeVars == <<now, registryVars, fileVars, boundVars, job, scan>>

Contents == {"absent", "whole", "bad"}
Temps == [name: Nat, digest: Digests]

(* A temporary file is never taken for an object: they have other names.    *)
ASSUME NamesAssumption == \A d \in Digests : d \notin Temps

Jobs == [bundle: Bundles, todo: SUBSET Digests, temp: Temps \cup {None}, written: BOOLEAN]
Issues == [kind: {"missing", "corrupt", "scan_failure"}, subject: Digests \cup {"temporary"}]
Scans == [rows: SUBSET Digests, dirs: SUBSET Digests, listed: SUBSET (Digests \cup Temps),
          physical: UNION {[ds -> Contents] : ds \in SUBSET Digests}, judged: SUBSET Digests, issues: SUBSET Issues,
          hurt: SUBSET Digests]

StoreTypeOK ==
    /\ RegistryTypeOK
    /\ object \in [Digests -> Contents]
    /\ temps \subseteq Temps
    /\ job \in [Writers -> Jobs \cup {None}]
    /\ failures \in 0..MaxFailures /\ crashes \in 0..MaxCrashes /\ scans \in 0..MaxScans
    /\ damaged \subseteq Damageable
    /\ scan = None \/ scan \in Scans

StoreInit ==
    /\ RegistryInit
    /\ object = [d \in Digests |-> "absent"]
    /\ temps = {} /\ damaged = {}
    /\ job = [w \in Writers |-> None]
    /\ failures = 0 /\ crashes = 0 /\ scans = 0
    /\ scan = None

-----------------------------------------------------------------------------
(* record_verified_consumption *)

Idle(w) == job[w] = None
Working(w) == job[w] # None
Between(w) == Working(w) /\ job[w].temp = None  \* between two files

(* The payloads were checked against the closure: all that is left to do is *)
(* to place them.  A dict of digests gives the order; any order will do.    *)
Call(w, b) ==
    /\ Idle(w)
    /\ job' = [job EXCEPT ![w] =
                 [bundle |-> b, todo |-> BundleDigests(b), temp |-> None, written |-> FALSE]]
    /\ UNCHANGED <<now, registryVars, fileVars, boundVars, scan>>

(* The object is there already: it is verified, not written. *)
Adopt(w, d) ==
    /\ Between(w) /\ d \in job[w].todo /\ object[d] = "whole"
    /\ job' = [job EXCEPT ![w].todo = @ \ {d}]
    /\ UNCHANGED <<now, registryVars, fileVars, boundVars, scan>>

(* A name in use nowhere: what a fresh uuid amounts to. *)
NamesInUse ==
    {t.name : t \in temps \cup (IF scan = None THEN {} ELSE scan.listed \ Digests)}
FreshName == Min((1..(Cardinality(NamesInUse) + 1)) \ NamesInUse)

(* Mutant: one fixed temporary name per digest; "xb" refuses an existing file. *)
CanOpenFixedName(d) == object[d] = "absent" /\ \A t \in temps : t.digest # d

CanOpen(d) == object[d] = "absent"

Open(w, d) ==
    /\ Between(w) /\ d \in job[w].todo /\ CanOpen(d)
    /\ LET t == [name |-> FreshName, digest |-> d] IN
         /\ temps' = temps \cup {t}
         /\ job' = [job EXCEPT ![w].temp = t, ![w].written = FALSE]
    /\ UNCHANGED <<now, registryVars, object, damaged, boundVars, scan>>

(* write, flush, fsync and the verification of the temporary file. *)
Write(w) ==
    /\ Working(w) /\ job[w].temp # None /\ ~job[w].written
    /\ job' = [job EXCEPT ![w].written = TRUE]
    /\ UNCHANGED <<now, registryVars, fileVars, boundVars, scan>>

Placeable(w) == Working(w) /\ job[w].temp # None /\ job[w].written

(* os.replace; another writer's copy of the same object is replaced by ours. *)
Place(w) ==
    /\ Placeable(w)
    /\ LET t == job[w].temp IN
         /\ object' = [object EXCEPT ![t.digest] = IF job[w].written THEN "whole" ELSE "bad"]
         /\ temps' = temps \ {t}
         /\ job' = [job EXCEPT ![w].todo = @ \ {t.digest}, ![w].temp = None, ![w].written = FALSE]
         /\ scan' = IF scan = None THEN None ELSE [scan EXCEPT !.hurt = @ \ {t.digest}]
    /\ UNCHANGED <<now, registryVars, damaged, boundVars>>

(* Mutant: the transaction does not wait for the files. *)
FilesLater(w) == Between(w) /\ \A d \in BundleDigests(job[w].bundle) : object[d] # "bad"

(* _ensure_cache_object reads and verifies every file again. *)
FilesVerified(w) ==
    /\ Between(w) /\ job[w].todo = {}
    /\ \A d \in BundleDigests(job[w].bundle) : object[d] = "whole"

Commit(w) ==
    /\ FilesVerified(w)
    /\ RecordVerifiedConsumption(job[w].bundle)
    /\ job' = [job EXCEPT ![w] = None]
    /\ UNCHANGED <<fileVars, boundVars, scan>>

(* A conflict, a repetition or a damaged object ends the call without a trace. *)
EndsUnrecorded(w) ==
    /\ Between(w)
    /\ \/ \E d \in job[w].todo : object[d] = "bad"
       \/ job[w].todo = {} /\ ~(FilesVerified(w) /\ Recordable(job[w].bundle))
    /\ job' = [job EXCEPT ![w] = None]
    /\ UNCHANGED <<now, registryVars, fileVars, boundVars, scan>>

TempsUnlinked(w) == temps \ {job[w].temp}

(* An OSError or a busy database; "finally" unlinks the temporary file. *)
Fail(w) ==
    /\ Working(w) /\ failures < MaxFailures
    /\ failures' = failures + 1
    /\ temps' = TempsUnlinked(w)
    /\ job' = [job EXCEPT ![w] = None]
    /\ UNCHANGED <<now, registryVars, object, damaged, crashes, scans, scan>>

(* The process dies: SQLite rolls back, the temporary file stays. *)
Crash(w) ==
    /\ Working(w) /\ crashes < MaxCrashes
    /\ crashes' = crashes + 1
    /\ job' = [job EXCEPT ![w] = None]
    /\ UNCHANGED <<now, registryVars, fileVars, failures, scans, scan>>

(* Something outside the store removes or alters a file, once. *)
Damage(d) ==
    /\ d \in Damageable \ damaged /\ object[d] = "whole"
    /\ object' \in {[object EXCEPT ![d] = c] : c \in {"absent", "bad"}}
    /\ damaged' = damaged \cup {d}
    /\ UNCHANGED <<now, registryVars, temps, boundVars, job, scan>>

-----------------------------------------------------------------------------
(* quota_report *)

Registered == cached

(* The rows are one read snapshot, closed before the files are looked at. *)
ScanRows ==
    /\ scan = None /\ scans < MaxScans
    /\ scans' = scans + 1
    /\ scan' = [rows |-> Registered, dirs |-> Digests, listed |-> {},
                physical |-> <<>>, judged |-> {}, issues |-> {},
                hurt |-> {d \in Registered : object[d] # "whole"}]
    /\ UNCHANGED <<now, registryVars, fileVars, failures, crashes, job>>

Walking == scan # None /\ (scan.dirs # {} \/ scan.listed # {})

(* os.walk lists a directory: names only. *)
ScanDirectory(d) ==
    /\ Walking /\ d \in scan.dirs
    /\ scan' = [scan EXCEPT !.dirs = @ \ {d},
                            !.listed = @ \cup {t \in temps : t.digest = d}
                                         \cup {o \in {d} : object[o] # "absent"}]
    /\ UNCHANGED <<now, registryVars, fileVars, boundVars, job>>

Issue(kind, subject) == [kind |-> kind, subject |-> subject]

(* path.stat(): a listed file may be gone by now. *)
FoundWith(d) == [o \in DOMAIN scan.physical \cup {d} |-> IF o = d THEN object[d] ELSE scan.physical[o]]
ScanObject(d) ==
    /\ Walking /\ d \in scan.listed \cap Digests
    /\ scan' = IF object[d] = "absent"
               THEN [scan EXCEPT !.listed = @ \ {d},
                                 !.issues = @ \cup {Issue("scan_failure", d)}]
               ELSE [scan EXCEPT !.listed = @ \ {d}, !.physical = FoundWith(d)]
    /\ UNCHANGED <<now, registryVars, fileVars, boundVars, job>>

ScanTemporary(t) ==
    /\ Walking /\ t \in scan.listed \ Digests
    /\ scan' = [scan EXCEPT !.listed = @ \ {t},
                            !.issues = @ \cup {Issue("scan_failure", "temporary") : u \in {t} \ temps}]
    /\ UNCHANGED <<now, registryVars, fileVars, boundVars, job>>

(* Mutants: the rows are read again after the walk; only presence is checked. *)
RowsReadLate == cached
IssuesOfAbsence(d) == IF d \in DOMAIN scan.physical THEN {} ELSE {Issue("missing", d)}

RowsJudged == scan.rows

IssuesOf(d) ==
    IF d \notin DOMAIN scan.physical THEN {Issue("missing", d)}
    ELSE IF object[d] = "absent" THEN {Issue("scan_failure", d)}
    ELSE IF "bad" \in {scan.physical[d], object[d]} THEN {Issue("corrupt", d)}
    ELSE {}

(* Each registered object is looked up in the walk's findings and read. *)
ScanJudge(d) ==
    /\ scan # None /\ ~Walking
    /\ d \in RowsJudged \ scan.judged
    /\ scan' = [scan EXCEPT !.judged = @ \cup {d}, !.issues = @ \cup IssuesOf(d)]
    /\ UNCHANGED <<now, registryVars, fileVars, boundVars, job>>

Scan ==
    \/ ScanRows
    \/ \E d \in Digests : ScanDirectory(d) \/ ScanObject(d) \/ ScanJudge(d)
    \/ scan # None /\ \E t \in scan.listed : ScanTemporary(t)

Reported == scan # None /\ ~Walking /\ scan.judged = RowsJudged

-----------------------------------------------------------------------------
Step(w) == Write(w) \/ Place(w) \/ Commit(w) \/ EndsUnrecorded(w)
             \/ \E d \in Digests : Adopt(w, d) \/ Open(w, d)

StoreNext ==
    \/ ClockMoves /\ UNCHANGED <<fileVars, boundVars, job, scan>>
    \/ \E w \in Writers : Step(w) \/ Fail(w) \/ Crash(w) \/ \E b \in Bundles : Call(w, b)
    \/ \E d \in Digests : Damage(d)
    \/ Scan

StoreSpec == StoreInit /\ [][StoreNext]_storeVars

(* A process that lives goes on, and its caller calls again until the      *)
(* receipt is recorded; failures, crashes and damage are under no such duty.*)
RecordedAlready(b) == receipts[Receipt(b)] # None

PersistentSpec ==
    /\ StoreSpec
    /\ \A w \in Writers : WF_storeVars(Step(w))
    /\ \A w \in Writers, b \in Bundles : SF_storeVars(Call(w, b) /\ ~RecordedAlready(b))

(***************************************************************************)
(* Metadata never outruns the files: a registered object is whole under    *)
(* its name unless something outside the store damaged it, whoever failed  *)
(* or died, and whenever (docs/storage-and-cache.md: files first, then the *)
(* metadata at once).                                                      *)
(***************************************************************************)
RegisteredFilesWhole == \A d \in cached \ damaged : object[d] = "whole"

(***************************************************************************)
(* An inventory taken while writers work raises no false alarm: whatever   *)
(* it says is missing, corrupt or unreadable was damaged from outside, or  *)
(* is a temporary file that had gone by the time it was looked at.         *)
(***************************************************************************)
NoFalseAlarm ==
    scan # None => \A i \in scan.issues : i.subject = "temporary" \/ i.subject \in damaged

(* And it overlooks no registered object that was broken all along.        *)
DamageReported ==
    Reported => scan.hurt \subseteq {i.subject : i \in scan.issues}

(* Neither failures nor the litter of dead processes stand in the way of   *)
(* recording a receipt for good.                                           *)
RetrySucceeds == \A b \in Bundles : <>RecordedAlready(b)
=============================================================================
