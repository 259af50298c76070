---------------------------- MODULE MCReadPrewarm ----------------------------
(* Small instances of ReadPrewarm for TLC.                                   *)
EXTENDS ReadPrewarm, TLC

\* Handlers are interchangeable (safety runs only).
Symmetry == Permutations(Handlers)
=============================================================================
