----------------------------- MODULE MCSharded -----------------------------
(* Instances of Sharded for TLC.                                           *)
EXTENDS Sharded, TLC
CONSTANTS k1, k2, k3, k4, k5, c1, c2
MCshardFor == k1 :> 1 @@ k2 :> 1 @@ k3 :> 1 @@ k4 :> 2 @@ k5 :> 2
MCCalls == c1 :> AllCalls @@ c2 :> {"purge"}
KeySymmetry == {p @@ q : p \in Permutations({k1, k2, k3}), q \in Permutations({k4, k5})}
===========================================================================
