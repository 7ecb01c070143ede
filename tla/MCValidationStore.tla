-------------------------- MODULE MCValidationStore --------------------------
(* Admissions over two Releases: a root with one source, and that source     *)
(* alone.  "again" is the first run rebuilt after a new status read.         *)
EXTENDS ValidationStore, TLC

CONSTANTS s1, s2, r1, r2, x, y, i1, mx, my, ax, rx, rx2, ry, ref1, ref2, q1, q2, seen

Node(ref, manifest, artifacts, deps) ==
    [ref |-> ref, manifest |-> manifest, artifacts |-> artifacts, deps |-> deps]
Status(response, snapshot) == [event |-> seen, response |-> response, snapshot |-> snapshot]

Source == Node(ref1, mx, i1 :> ax, {})
Alone(run, request, source, response, confirmed) ==
    [run |-> run, root |-> x, request |-> request, confirmed |-> confirmed,
     nodes |-> x :> source, status |-> x :> Status(response, confirmed)]

First == Alone(r1, q1, Source, rx, 1)
Again == Alone(r1, q1, Source, rx2, 2)
Remapped == Alone(r2, q2, [Source EXCEPT !.ref = ref2], rx, 1)
Pair == [run |-> r2, root |-> y, request |-> q2, confirmed |-> 1,
         nodes |-> x :> Source @@ y :> Node(ref2, my, <<>>, {x}),
         status |-> x :> Status(rx, 1) @@ y :> Status(ry, 1)]

RivalEnvelopes == {First, Again, Pair}
RemappingEnvelopes == {First, Remapped}
=============================================================================
