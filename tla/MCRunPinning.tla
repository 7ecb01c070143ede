---------------------------- MODULE MCRunPinning ----------------------------
(***************************************************************************)
(* A parent r1 that retains its dependency r2, opened when both have been  *)
(* built and published: their receipt and closure are stored, r1 has been  *)
(* fetched and admitted.  From there every observation,                    *)
(* admission, pin, clock step and the v2 upgrade may come in any order.    *)
(***************************************************************************)
EXTENDS RunPinning, TLC

CONSTANTS r1, r2, i1, a1, m1, m2, d1, d2, c1, NewIds, x1, x2

Node(manifest, digest, deps) ==
    [ident |-> i1, manifest |-> manifest, artifacts |-> a1 :> digest, deps |-> deps]

TheBundle == [contract |-> c1, root |-> r1,
              nodes |-> r1 :> Node(m1, d1, {r2}) @@ r2 :> Node(m2, d2, {})]

MCBundles == {TheBundle}

MCObsIds == {"f1", "s1", "s2", "t1", "t2", "adm1"} \cup NewIds

Event(id, hash, prev, seq, status) ==
    [id |-> id, hash |-> hash, prev |-> prev, seq |-> seq, status |-> status, recorded |-> 0]

Built == Event("e1", "h1", None, 1, "building")
PublishedEvent == Event("e2", "h2", "h1", 2, "published")
WithdrawnEvent == Event("e3", "h3", "h2", 3, "withdrawn")

MCStatusEvents == {Built, PublishedEvent, WithdrawnEvent}

MCPolicies == x1 :> [maxAge |-> 1, skew |-> 0]

(* An answer of the present, an old one, and one from before the provider asked. *)
MCAnswers == {[snapshot |-> 0, checked |-> 0], [snapshot |-> 0, checked |-> 1]}
MCTerms == {[confirmed |-> 0, expires |-> 1], [confirmed |-> 1, expires |-> 3]}

Observed(id, prev, event) == [id |-> id, ident |-> i1, at |-> 0, supersedes |-> prev,
                               persisted |-> 0, event |-> event]

PreparedInit ==
    /\ now = 0
    /\ identity = [r \in Releases |-> i1]
    /\ manifests = r1 :> [digest |-> m1, at |-> 0] @@ r2 :> [digest |-> m2, at |-> 0]
    /\ artifacts = r1 :> (a1 :> [digest |-> d1, at |-> 0]) @@ r2 :> (a1 :> [digest |-> d2, at |-> 0])
    /\ cached = {m1, m2, d1, d2}
    /\ closures = Closure(TheBundle) :> 0
    /\ receipts = Receipt(TheBundle) :> [closure |-> Closure(TheBundle), at |-> 0]
    /\ fetches = r1 :> <<[id |-> "f1", ident |-> i1, at |-> 0, supersedes |-> None,
                          persisted |-> 0, receipt |-> Receipt(TheBundle)]>> @@ r2 :> <<>>
    /\ statuses = r1 :> <<Observed("s1", None, Built), Observed("s2", "s1", PublishedEvent)>>
               @@ r2 :> <<Observed("t1", None, Built), Observed("t2", "t1", PublishedEvent)>>
    /\ admissions = r1 :> <<[id |-> "adm1", ident |-> i1, at |-> 0, supersedes |-> None,
                             persisted |-> 0, target |-> "s2", admission |-> "authorized"]>>
                 @@ r2 :> <<>>
    /\ fetchHead = r1 :> "f1" @@ r2 :> None
    /\ statusHead = r1 :> "s2" @@ r2 :> "t2"
    /\ admissionHead = r1 :> "adm1" @@ r2 :> None
    /\ version \in {2, 3}
    /\ pins = [run \in Runs |-> None]
    /\ quarantined = {}

PreparedSpec == PreparedInit /\ [][PinNext]_storeVars

Interchangeable == Permutations(NewIds) \cup Permutations(Runs) \cup Permutations(ConfirmationIds)
=============================================================================
