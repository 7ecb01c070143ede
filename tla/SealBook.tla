------------------------------ MODULE SealBook ------------------------------
(***************************************************************************)
(* What the Stage 6B validation store promises its callers: a book of      *)
(* seals.  A run is admitted in one step, once, under the next commit      *)
(* generation, and what the book says is never taken back.                 *)
(***************************************************************************)
EXTENDS Naturals, Sequences

CONSTANT Admissible   \* envelopes a caller may ask to have sealed; each names its run

VARIABLE book         \* the sealed envelopes; the position is the commit generation

SealedRuns == {book[i].run : i \in DOMAIN book}

BookInit == book = <<>>

Admit(envelope) ==
    /\ envelope.run \notin SealedRuns
    /\ book' = Append(book, envelope)

BookNext == \E envelope \in Admissible : Admit(envelope)

BookSpec == BookInit /\ [][BookNext]_book

=============================================================================
