--------------------------- MODULE MCContentStore ---------------------------
(***************************************************************************)
(* Two Releases that share an artifact: whoever records the second one     *)
(* meets an object the first one is placing, has placed or has registered. *)
(***************************************************************************)
EXTENDS ContentStore

CONSTANTS r1, r2, i1, a1, m1, m2, d1, c1

Bundle(root, manifest) ==
    [contract |-> c1, root |-> root,
     nodes |-> root :> [ident |-> i1, manifest |-> manifest, artifacts |-> a1 :> d1, deps |-> {}]]

OneBundle == {Bundle(r1, m1)}
TwoBundles == {Bundle(r1, m1), Bundle(r2, m2)}

(* Writers differ in nothing but their name. *)
WriterSymmetry == Permutations(Writers)
=============================================================================
