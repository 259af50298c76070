------------------------- MODULE MCSourceRootLoading -------------------------
(* Small instances of SourceRootLoading for TLC.                             *)
EXTENDS SourceRootLoading, TLC

\* Jobs and paths are interchangeable (safety runs only).
Symmetry == Permutations(PathKeys) \union Permutations(Jobs)
=============================================================================
