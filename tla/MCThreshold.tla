------------------------------ MODULE MCThreshold ------------------------------
(***************************************************************************)
(* What happens before a store can take anything: a process opens the      *)
(* database, a retention closure is validated in memory, and the closure   *)
(* of a Stage 6B admission is read from the provider.  None of the three   *)
(* sees another, so a behaviour does one of them (scene) while the other   *)
(* two are at rest.                                                        *)
(***************************************************************************)
EXTENDS StoreOpening, RetentionGraph, AdmissionSession

VARIABLE scene   \* which of the three

NobodyOpens ==
    /\ mode = "wal" /\ schema = Created /\ writer = None
    /\ pc = [o \in Openers |-> "crashed"]
    /\ seen = [o \in Openers |-> None] /\ draft = [o \in Openers |-> None]
    /\ attempts = [o \in Openers |-> 0]

NothingValidated ==
    /\ root = (CHOOSE r \in ReleaseIds : TRUE) /\ nodes = <<>>
    /\ phase = "rejected"
    /\ reachable = {} /\ pending = {} /\ indegree = <<>>
    /\ ready = {} /\ visited = {} /\ visitedCount = 0

NobodyAdmits == AdmissionInit /\ now = 0

ThresholdInit ==
    \/ scene = "opening" /\ OpeningInit /\ NothingValidated /\ NobodyAdmits
    \/ scene = "closure" /\ NobodyOpens /\ GraphInit /\ NobodyAdmits
    \/ scene = "admission" /\ NobodyOpens /\ NothingValidated /\ AdmissionInit

ThresholdNext ==
    \/ scene = "opening" /\ OpeningNext /\ UNCHANGED <<graphVars, admissionVars, scene>>
    \/ scene = "closure" /\ GraphNext /\ UNCHANGED <<openVars, admissionVars, scene>>
    \/ scene = "admission" /\ AdmissionNext /\ UNCHANGED <<openVars, graphVars, scene>>

thresholdVars == <<openVars, graphVars, admissionVars, scene>>

(* A Python loop that can take a turn takes it. *)
ThresholdSpec ==
    /\ ThresholdInit /\ [][ThresholdNext]_thresholdVars
    /\ WF_thresholdVars(scene = "closure" /\ GraphNext /\ UNCHANGED <<openVars, admissionVars, scene>>)
=============================================================================
