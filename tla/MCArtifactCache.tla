--------------------------- MODULE MCArtifactCache ---------------------------
(***************************************************************************)
(* Two processes and a file that is edited to a second content.             *)
(***************************************************************************)
EXTENDS ArtifactCache

CONSTANTS p1, p2, c1, c2
=============================================================================
