----------------------------- MODULE MCTTLWheel -----------------------------
(* Instances of TTLWheel for TLC.                                          *)
EXTENDS TTLWheel
===========================================================================
