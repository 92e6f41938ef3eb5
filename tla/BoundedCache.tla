--------------------------- MODULE BoundedCache ---------------------------
(***************************************************************************)
(* What the cache.Cache interface promises, whatever the eviction policy:  *)
(* a map of at most Capacity entries in which a key holds the value last   *)
(* set for it until it is deleted, purged, seen to be past its deadline or *)
(* evicted.  Only a Set that adds a key evicts, it evicts at most one      *)
(* other entry, and the eviction callback is told of that entry.           *)
(***************************************************************************)
EXTENDS CacheTypes

VARIABLE live   \* the entries a Get can return: key -> value and deadline

Entries == [value : Values, expiresAt : Nat]

Held == DOMAIN live

Without(S) == [x \in Held \ S |-> live[x]]

Init == live = EmptyMap /\ InitTypes

Tick == now < MaxTime /\ now' = now + 1 /\ UNCHANGED <<live, ret>>

(* Get and Peek: an entry past its deadline is removed and missed.         *)
Read(op, k, onHit, onMiss) ==
  /\ UNCHANGED now
  /\ \/ /\ k \in Held /\ ~Expired(live[k])
        /\ live' = live
        /\ ret' = Reply(op, k, TRUE, live[k].value, {}, onHit)
     \/ /\ k \in Held /\ Expired(live[k])
        /\ live' = Without({k})
        /\ ret' = Miss(op, k, onMiss \cup {"TTLExpiries"})
     \/ /\ k \notin Held
        /\ live' = live
        /\ ret' = Miss(op, k, onMiss)

Get(k) == Read("get", k, {"Hits"}, {"Misses"})

Peek(k) == Read("peek", k, {}, {})

(* The victims a Set of k may have: none for a key already held.           *)
VictimSets(k) ==
  {{}} \cup (IF k \in Held THEN {} ELSE {{x} : x \in Held})

Set(k, v, ttl) ==
  \E gone \in VictimSets(k), extra \in SUBSET {"Evictions"} :
    /\ Cardinality((Held \ gone) \cup {k}) <= Capacity
    /\ live' = [x \in (Held \ gone) \cup {k} |->
                  IF x = k THEN [value |-> v, expiresAt |-> ExpiryOf(ttl)]
                           ELSE live[x]]
    /\ gone # {} => extra = {"Evictions"}
    /\ ret' = Reply("set", k, TRUE, NoValue,
                    {[key |-> x, value |-> live[x].value] : x \in gone},
                    {"Sets"} \cup extra)
    /\ UNCHANGED now

(* Delete reports whether it removed something.  A key that is not held    *)
(* may still be reported as found: ARC also removes its ghost.             *)
Delete(k) ==
  /\ live' = Without({k})
  /\ \E found \in BOOLEAN :
       /\ k \in Held => found
       /\ ret' = Reply("delete", k, found, NoValue, {},
                       IF found THEN {"Deletes"} ELSE {})
  /\ UNCHANGED now

Purge ==
  /\ live' = EmptyMap
  /\ ret' = Miss("purge", NoKey, {})
  /\ UNCHANGED now

Next ==
  \/ Tick
  \/ Purge
  \/ \E k \in Keys :
       \/ Get(k)
       \/ Peek(k)
       \/ Delete(k)
       \/ \E v \in Values, ttl \in TTLs : Set(k, v, ttl)

vars == <<live, now, ret>>

Spec == Init /\ [][Next]_vars
===========================================================================
