---------------------------- MODULE MCDocumentSync ----------------------------
(* Instances of DocumentSync for TLC.                                        *)
EXTENDS DocumentSync, TLC

\* No document and no handler is treated differently from another.
Symmetry == Permutations(Docs) \cup Permutations(Handlers)
=============================================================================
