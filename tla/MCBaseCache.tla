---------------------------- MODULE MCBaseCache ----------------------------
(* Instances of BaseCache for TLC.  A value is a number of bytes.          *)
EXTENDS BaseCache

MCSizeOf == [v \in Values |-> v]

KeySymmetry == Permutations(Keys)
===========================================================================
