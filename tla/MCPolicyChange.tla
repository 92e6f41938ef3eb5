-------------------------- MODULE MCPolicyChange --------------------------
(* Instances of PolicyChange for TLC.                                      *)
EXTENDS PolicyChange, TLC
Symmetry == {p @@ q : p \in Permutations(Keys), q \in Permutations(Values)}

(* States are told apart without dirtyCount: only the guard of SetInner    *)
(* reads it, and MaxDrift is out of its reach here.                        *)
WithoutCount ==
  <<now, live, lock, dirty, owes, store, gate, st, latest, writePolicy, late, until, excused>>
===========================================================================
