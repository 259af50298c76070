---------------------------- MODULE MCSessionLock ----------------------------
(* Instances of SessionLock for TLC.                                         *)
EXTENDS SessionLock, TLC

\* Handlers of one kind are interchangeable.
Symmetry == Permutations(Symbols) \union Permutations(Readers) \union Permutations(Writers)
=============================================================================
