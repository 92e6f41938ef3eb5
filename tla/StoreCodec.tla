---------------------------- MODULE StoreCodec ----------------------------
(***************************************************************************)
(* internal/store/codec.go: what the write policies put in the backing     *)
(* store.  A value without a deadline is stored as it is; one with a       *)
(* deadline is stored in an envelope that carries it.  Instants are        *)
(* numbers; the zero time.Time, "no deadline", is 0.                       *)
(***************************************************************************)
EXTENDS Integers

Raw(v) == [kind |-> "raw", value |-> v]

Envelope(v, exp) == [kind |-> "ttl", value |-> v, expiresAt |-> exp]

(* Mutant: the deadline is not stored.                                     *)
encodeForStoreRaw(v, exp) == Raw(v)

encodeForStore(v, exp) == IF exp = 0 THEN Raw(v) ELSE Envelope(v, exp)

decodeFromStore(raw) ==
  [value     |-> raw.value,
   expiresAt |-> IF raw.kind = "raw" THEN 0 ELSE raw.expiresAt]

(* ttlFromExpiry at the instant t: what is left, and whether nothing is.   *)
(* An entry is over at its deadline here; the caches keep it until after.  *)
ttlExpired(exp, t) == exp # 0 /\ exp <= t
ttlLeft(exp, t) == IF exp = 0 THEN 0 ELSE exp - t

Stored(Values, Times) ==
  [kind : {"raw"}, value : Values]
    \cup [kind : {"ttl"}, value : Values, expiresAt : Times]
===========================================================================
