------------------------------ MODULE MCServer ------------------------------
(* Instances of Server for TLC.                                            *)
EXTENDS Server, TLC
CONSTANTS r1, r2, r3
MCKinds ==
  r1 :> {"config"} @@ r2 :> {"set", "metrics", "ready"} @@ r3 :> {"stream"}
===========================================================================
