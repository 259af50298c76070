---------------------------- MODULE MCModelWorkers ----------------------------
(***************************************************************************)
(* Two queue threads of which one at a time has the tokens for a daemon.    *)
(***************************************************************************)
EXTENDS ModelWorkers

CONSTANTS q1, q2
=============================================================================
