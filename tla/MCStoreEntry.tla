---------------------------- MODULE MCStoreEntry ----------------------------
(* Instances of StoreEntry for TLC.                                        *)
EXTENDS StoreEntry, TLC

Symmetry == Permutations(Keys) \cup Permutations(Values) \cup Permutations(Clients)
===========================================================================
