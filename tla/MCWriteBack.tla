---------------------------- MODULE MCWriteBack ----------------------------
(* Instances of WriteBack for TLC.                                         *)
EXTENDS WriteBack, TLC

KeySymmetry == Permutations(Keys)

(* States are told apart without latest, which no step reads.              *)
WithoutHistory == <<now, live, lock, dirty, dirtyCount, owes, store, gate, st>>

(* A bound: at the last instant no request is in flushAll.                 *)
InFlush(p) == "rest" \in DOMAIN st[p] \/ st[p].at \in {"range", "purge"}
NoLateFlush == now = MaxTime => \A c \in Clients : ~InFlush(c)
===========================================================================
