---------------------------- MODULE CacheTypes ----------------------------
(***************************************************************************)
(* What every implementation of cache.Cache shares: keys, values, entry    *)
(* deadlines, the clock, and what one call shows its caller.               *)
(*                                                                         *)
(* A value stands for a byte string; SizeOf[v] is its length.  Every cache *)
(* stores append([]byte(nil), value...), which is nil for the empty value, *)
(* so "n.value != nil" in the code is SizeOf[v] > 0 here.                  *)
(*                                                                         *)
(* Every operation of a cache runs under its mutex, from the first line to *)
(* the last, so each of them is one step.  time.Now is read once per       *)
(* operation; the clock moves between operations.                          *)
(***************************************************************************)
EXTENDS Integers, FiniteSets, Sequences, SequencesExt

CONSTANTS
  Keys,      \* the keys callers use
  Values,    \* the values callers store
  SizeOf,    \* the length in bytes of each value
  NoValue,   \* the nil value of a ghost or of a miss
  TTLs,      \* the ttl arguments callers pass; 0 is "no ttl"
  Capacity,  \* New replaces a capacity below 1 by 1
  MaxTime    \* bound: the clock stops here

ASSUME CapacityAssumption == Capacity \in Nat \ {0}
ASSUME ValuesAssumption == SizeOf \in [Values -> Nat] /\ NoValue \notin Values
ASSUME TimeAssumption == TTLs \subseteq Nat /\ MaxTime \in Nat

VARIABLES
  now,       \* time.Now()
  ret        \* what the last call returned, reported and counted

(* The zero time.Time is 0, a deadline no ttl > 0 can produce.             *)
ExpiryOf(ttl) == IF ttl > 0 THEN now + ttl ELSE 0

Expired(e) == e.expiresAt # 0 /\ now > e.expiresAt

(* One call's outcome: the value and the flag returned, the onEvict calls  *)
(* made, and the counters of stats.Stats incremented by one.               *)
Reply(op, k, found, value, calls, counted) ==
  [op |-> op, key |-> k, found |-> found, value |-> value,
   calls |-> calls, counted |-> counted]

Miss(op, k, counted) == Reply(op, k, FALSE, NoValue, {}, counted)

Counters == {"Hits", "Misses", "Sets", "Deletes", "Evictions", "TTLExpiries"}

NoKey == "none"

(* make(map[string]*node)                                                  *)
EmptyMap == [k \in {} |-> NoValue]

Calls == [key : Keys, value : Values]

Replies ==
  [op : {"new", "get", "set", "delete", "peek", "purge"}, key : Keys \cup {NoKey},
   found : BOOLEAN, value : Values \cup {NoValue},
   calls : SUBSET Calls, counted : SUBSET Counters]

InitTypes == now = 0 /\ ret = Reply("new", NoKey, FALSE, NoValue, {}, {})

TypesOK == now \in Nat /\ ret \in Replies
===========================================================================
