--------------------------- MODULE MCCompileCaches ---------------------------
(* Instances of CompileCaches for TLC: two requests, each pair of kinds once. *)
EXTENDS CompileCaches, TLC

CONSTANTS r1, r2

Pair(k1, k2) == r1 :> k1 @@ r2 :> k2

MCKinds ==
    {Pair("hover", "hover"), Pair("hover", "config"), Pair("config", "config"), Pair("simulate", "hover"),
     Pair("simulate", "simulate")}

MCSimulations == {Pair("simulate", "simulate")}
=============================================================================
