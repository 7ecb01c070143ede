------------------------ MODULE MCObservationLedger ------------------------
(***************************************************************************)
(* One Release with one Receipt, and the provider's events: its true story *)
(* (built, published, withdrawn) and false ones, each breaking a rule.     *)
(***************************************************************************)
EXTENDS ObservationLedger, TLC

CONSTANTS r1, i1, a1, m1, d1, c1

MCBundles == {[contract |-> c1, root |-> r1,
               nodes |-> r1 :> [ident |-> i1, manifest |-> m1,
                                artifacts |-> a1 :> d1, deps |-> {}]]}

Event(id, hash, prev, seq, status, recorded) ==
    [id |-> id, hash |-> hash, prev |-> prev, seq |-> seq,
     status |-> status, recorded |-> recorded]

Built == Event("e1", "h1", None, 1, "building", 0)
PublishedEvent == Event("e2", "h2", "h1", 2, "published", 0)
WithdrawnEvent == Event("e3", "h3", "h2", 3, "withdrawn", 0)

MCStatusEvents == {
    Built, PublishedEvent, WithdrawnEvent,
    \* published again after the withdrawal
    Event("e4", "h4", "h3", 4, "published", 0),
    \* another second event, recorded later; the second event's id with another content
    Event("f2", "g2", "h1", 2, "published", 1),
    Event("e2", "g3", "h2", 3, "published", 0)}

IdSymmetry == Permutations(ObsIds)
=============================================================================
