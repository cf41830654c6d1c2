--------------------------- MODULE MC_ApolloWatch ---------------------------
(* Small instances of ApolloWatch for TLC.                                 *)
EXTENDS ApolloWatch, TLC

(* Contents are interchangeable.                                           *)
MCSymmetry == Permutations(Vals)
=============================================================================
