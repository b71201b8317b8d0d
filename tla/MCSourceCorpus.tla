--------------------------- MODULE MCSourceCorpus ---------------------------
(***************************************************************************)
(* SourceCorpus for TLC: the texts, comments, images and index runs of an  *)
(* instance are interchangeable.                                           *)
(***************************************************************************)
EXTENDS SourceCorpus, TLC

Symmetry ==
    Permutations(Content) \cup Permutations(Comments) \cup Permutations(Media)
        \cup Permutations(Indexers)

=============================================================================
