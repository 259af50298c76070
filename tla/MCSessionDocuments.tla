-------------------------- MODULE MCSessionDocuments --------------------------
(***************************************************************************)
(* Two files of an external root and one of a workspace root.               *)
(***************************************************************************)
EXTENDS SessionDocuments, TLC

CONSTANTS a, b, c, lib, ws, t1, t2, bad

MCFilesOf == lib :> {a, b} @@ ws :> {c}
=============================================================================
