----------------------------- MODULE StoreEntry -----------------------------
(***************************************************************************)
(* A store of the server under the write-through and write-around policies *)
(* (internal/store/writethrough.go, writearound.go), and the change from   *)
(* one to the other at run time (reconfigureWritePolicy in api/handler.go).*)
(*                                                                         *)
(* A request holds entry.mu for reading from its first step to its last; a *)
(* change of policy holds it for writing.  A step of a request is one call *)
(* of the inner cache or of the backing store.  The inner cache is any     *)
(* cache.Cache: to add an entry it may evict any other.                    *)
(*                                                                         *)
(* Left out: the policies write-back (see WriteBack) and none.             *)
(***************************************************************************)
EXTENDS StoreCodec, FiniteSets

CONSTANTS
  Keys, Values, TTLs,
  NoValue,       \* no value: a key never set, or deleted
  Capacity,      \* of the inner cache
  Clients,       \* requests in progress at once
  WritePolicies, \* the policies the store is given
  StoreFails,    \* whether a call of the backing store may fail
  MaxTime        \* bound: the clock stops here

ASSUME EntryConstants ==
  /\ NoValue \notin Values
  /\ TTLs \subseteq Nat
  /\ Capacity \in Nat \ {0}
  /\ WritePolicies \subseteq {"write-through", "write-around"}
  /\ StoreFails \in BOOLEAN
  /\ MaxTime \in Nat

VARIABLES
  now,           \* time.Now()
  writePolicy,   \* entry.WritePolicy
  live,          \* the inner cache: key -> value and deadline
  store,         \* the backing store: key -> encoded value
  st,            \* where each request is, with its local variables
  latest,        \* history: the value last stored for a key, and its deadline
  acked,         \* history: the values the store has accepted for a key
  disturbed      \* history: the keys no undisturbed write has settled since
                 \* requests overlapped on them or a delete failed

vars == <<now, writePolicy, live, store, st, latest, acked, disturbed>>

Empty == [k \in {} |-> NoValue]
Idle == [at |-> "idle"]
Entry(v, exp) == [value |-> v, expiresAt |-> exp]
At(c, where) == st[c].at = where

Drop(f, k) == [x \in DOMAIN f \ {k} |-> f[x]]
Put(f, k, v) == [x \in DOMAIN f \cup {k} |-> IF x = k THEN v ELSE f[x]]

Deadline(ttl) == IF ttl > 0 THEN now + ttl ELSE 0

(* The inner cache serves an entry up to its deadline, that instant too.   *)
Fresh(k) == k \in DOMAIN live /\ (live[k].expiresAt = 0 \/ now <= live[k].expiresAt)

Init ==
  /\ now = 0
  /\ writePolicy \in WritePolicies
  /\ live = Empty /\ store = Empty
  /\ st = [c \in Clients |-> Idle]
  /\ latest = [k \in Keys |-> Entry(NoValue, 0)]
  /\ acked = [k \in Keys |-> {}]
  /\ disturbed = {}

---------------------------------------------------------------------------
(* History: which requests overlap on a key.  alone becomes FALSE for all  *)
(* the requests in progress on a key when one more begins.                 *)
Busy(k) == {c \in Clients : ~At(c, "idle") /\ st[c].key = k}

Begin(c, k, where, value, ttl, failed) ==
  st' = [x \in Clients |->
           IF x = c THEN [at |-> where, key |-> k, value |-> value, exp |-> Deadline(ttl),
                          ttl |-> ttl, alone |-> Busy(k) = {}, failed |-> failed]
           ELSE IF x \in Busy(k) THEN [st[x] EXCEPT !.alone = FALSE]
           ELSE st[x]]

Goto(c, where) == st' = [st EXCEPT ![c] = [st[c] EXCEPT !.at = where]]

End(c) == st' = [st EXCEPT ![c] = Idle]

(* A write of the key is over; it settles the key if nothing disturbed it. *)
Settle(c, good) ==
  disturbed' = IF st[c].alone /\ good THEN disturbed \ {st[c].key}
                                      ELSE disturbed \cup {st[c].key}

(* A read is over: it may only have disturbed others.                      *)
Leave(c) ==
  disturbed' = IF st[c].alone THEN disturbed ELSE disturbed \cup {st[c].key}

---------------------------------------------------------------------------
(* Mutant: a full cache evicts nothing.                                    *)
InsertKeepsAll(k, v, ttl) == live' = Put(live, k, Entry(v, Deadline(ttl)))

(* inner.Set: a full cache evicts one entry for a key it does not hold.    *)
Insert(k, v, ttl) ==
  IF k \in DOMAIN live \/ Cardinality(DOMAIN live) < Capacity
    THEN live' = Put(live, k, Entry(v, Deadline(ttl)))
    ELSE \E x \in DOMAIN live : live' = Put(Drop(live, x), k, Entry(v, Deadline(ttl)))

(* Set: the deadline is computed and the value encoded, then stored.       *)
SetBegin(c) ==
  /\ At(c, "idle")
  /\ \E k \in Keys, v \in Values, ttl \in TTLs : Begin(c, k, "setStore", v, ttl, FALSE)
  /\ UNCHANGED <<now, writePolicy, live, store, latest, acked, disturbed>>

Stores(c) ==
  LET s == st[c]
  IN /\ store' = Put(store, s.key, encodeForStore(s.value, s.exp))
     /\ latest' = [latest EXCEPT ![s.key] = Entry(s.value, s.exp)]
     /\ acked' = [acked EXCEPT ![s.key] = @ \cup {s.value}]

(* Mutant: the cache is updated though the store failed.                   *)
SetStoreFailsGoesOn(c) ==
  /\ At(c, "setStore") /\ StoreFails
  /\ Goto(c, "setInner")
  /\ UNCHANGED <<now, writePolicy, live, store, latest, acked, disturbed>>

(* The store failed: Set returns the error and the cache is not touched.   *)
SetStoreFails(c) ==
  /\ At(c, "setStore") /\ StoreFails
  /\ End(c)
  /\ UNCHANGED <<now, writePolicy, live, store, latest, acked, disturbed>>

SetStore(c) ==
  /\ writePolicy = "write-through"
  /\ At(c, "setStore")
  /\ Stores(c)
  /\ Goto(c, "setInner")
  /\ UNCHANGED <<now, writePolicy, live, disturbed>>

SetInner(c) ==
  /\ At(c, "setInner")
  /\ Insert(st[c].key, st[c].value, st[c].ttl)
  /\ Settle(c, TRUE)
  /\ End(c)
  /\ UNCHANGED <<now, writePolicy, store, latest, acked>>

(* Write-around leaves a cached copy of the key as it is.                  *)
SetAround(c) ==
  /\ writePolicy = "write-around"
  /\ At(c, "setStore")
  /\ Stores(c)
  /\ Settle(c, st[c].key \notin DOMAIN live)
  /\ End(c)
  /\ UNCHANGED <<now, writePolicy, live>>

---------------------------------------------------------------------------
(* Get: a hit changes nothing here; a miss reads the store, and            *)
(* write-through fills the cache.                                          *)
GetMiss(c, k) ==
  /\ At(c, "idle") /\ ~Fresh(k)
  /\ live' = Drop(live, k)
  /\ Begin(c, k, "load", NoValue, 0, FALSE)
  /\ UNCHANGED <<now, writePolicy, store, latest, acked, disturbed>>

GetNotFound(c) ==
  /\ At(c, "load")
  /\ st[c].key \notin DOMAIN store \/ StoreFails
  /\ End(c)
  /\ UNCHANGED <<now, writePolicy, live, store, latest, acked, disturbed>>

GetLoad(c) ==
  /\ At(c, "load") /\ st[c].key \in DOMAIN store
  /\ LET d == decodeFromStore(store[st[c].key])
     IN IF ttlExpired(d.expiresAt, now) THEN Goto(c, "loadedExpired")
        ELSE IF writePolicy = "write-around" THEN End(c)
        ELSE st' = [st EXCEPT ![c] = [st[c] EXCEPT !.at = "fill", !.value = d.value,
                                               !.ttl = ttlLeft(d.expiresAt, now)]]
  /\ UNCHANGED <<now, writePolicy, live, store, latest, acked, disturbed>>

GetDropsExpired(c) ==
  /\ At(c, "loadedExpired")
  /\ store' = Drop(store, st[c].key) \/ (StoreFails /\ store' = store)
  /\ Leave(c)
  /\ End(c)
  /\ UNCHANGED <<now, writePolicy, live, latest, acked>>

GetFill(c) ==
  /\ At(c, "fill")
  /\ Insert(st[c].key, st[c].value, st[c].ttl)
  /\ Leave(c)
  /\ End(c)
  /\ UNCHANGED <<now, writePolicy, store, latest, acked>>

---------------------------------------------------------------------------
(* Delete: the store, whose failure is only logged, then the cache.        *)
(* Mutant: only the cache is told.                                         *)
DeleteStoreNever(c) ==
  /\ At(c, "idle")
  /\ \E k \in Keys : Begin(c, k, "deleteInner", NoValue, 0, FALSE)
  /\ UNCHANGED <<now, writePolicy, live, store, latest, acked, disturbed>>

DeleteStore(c) ==
  /\ At(c, "idle")
  /\ \E k \in Keys :
       \/ store' = Drop(store, k) /\ Begin(c, k, "deleteInner", NoValue, 0, FALSE)
       \/ /\ StoreFails /\ store' = store
          /\ Begin(c, k, "deleteInner", NoValue, 0, TRUE)
  /\ UNCHANGED <<now, writePolicy, live, latest, acked, disturbed>>

DeleteInner(c) ==
  /\ At(c, "deleteInner")
  /\ live' = Drop(live, st[c].key)
  /\ latest' = [latest EXCEPT ![st[c].key] = Entry(NoValue, 0)]
  /\ Settle(c, ~st[c].failed)
  /\ End(c)
  /\ UNCHANGED <<now, writePolicy, store, acked>>

Purge(c) ==
  /\ At(c, "idle")
  /\ live' = Empty
  /\ UNCHANGED <<now, writePolicy, store, st, latest, acked, disturbed>>

---------------------------------------------------------------------------
(* cloneEntriesIntoCache: what is left of the ttl, and none if nothing is  *)
(* left: an entry past its deadline, and not yet looked at, loses it.      *)
CloneExpiry(exp) == IF exp > now THEN exp ELSE 0

reconfigureWritePolicy(policy) ==
  /\ policy # writePolicy
  /\ \A c \in Clients : At(c, "idle")
  /\ writePolicy' = policy
  /\ live' = [k \in DOMAIN live |-> Entry(live[k].value, CloneExpiry(live[k].expiresAt))]
  /\ UNCHANGED <<now, store, st, latest, acked, disturbed>>

Tick ==
  /\ now < MaxTime
  /\ now' = now + 1
  /\ UNCHANGED <<writePolicy, live, store, st, latest, acked, disturbed>>

Set(c) == SetBegin(c) \/ SetStoreFails(c) \/ SetStore(c) \/ SetInner(c) \/ SetAround(c)

Get(c) ==
  \/ \E k \in Keys : GetMiss(c, k)
  \/ GetNotFound(c) \/ GetLoad(c) \/ GetDropsExpired(c) \/ GetFill(c)

Delete(c) == DeleteStore(c) \/ DeleteInner(c)

Next ==
  \/ Tick
  \/ \E c \in Clients : Set(c) \/ Get(c) \/ Delete(c) \/ Purge(c)
  \/ \E policy \in WritePolicies : reconfigureWritePolicy(policy)

Spec == Init /\ [][Next]_vars

---------------------------------------------------------------------------
Places ==
  {"setStore", "setInner", "load", "loadedExpired", "fill", "deleteInner"}

(* Type invariant.  The inner cache stays within its capacity.             *)
TypeOK ==
  /\ now \in Nat /\ writePolicy \in WritePolicies
  /\ DOMAIN live \subseteq Keys /\ Cardinality(DOMAIN live) <= Capacity
  /\ live \in [DOMAIN live -> [value : Values, expiresAt : Nat]]
  /\ DOMAIN store \subseteq Keys /\ store \in [DOMAIN store -> Stored(Values, Nat)]
  /\ st \in [Clients -> {Idle} \cup [at : Places, key : Keys, value : Values \cup {NoValue},
                                     exp : Nat, ttl : Nat, alone : BOOLEAN, failed : BOOLEAN]]
  /\ latest \in [Keys -> [value : Values \cup {NoValue}, expiresAt : Nat]]
  /\ acked \in [Keys -> SUBSET Values]
  /\ disturbed \subseteq Keys

(* ARCHITECTURE.md:292: the store is written first, and if that fails the  *)
(* cache is not updated; so, whatever overlaps and fails, and through a    *)
(* change of policy, the cache serves no value the store has not accepted. *)
NeverAheadOfStore == \A k \in DOMAIN live : live[k].value \in acked[k]

(* What a Get of k returns when nothing else runs.                         *)
Reads(k) ==
  IF Fresh(k) THEN live[k].value
  ELSE IF k \in DOMAIN store /\ ~ttlExpired(decodeFromStore(store[k]).expiresAt, now)
         THEN decodeFromStore(store[k]).value
         ELSE NoValue

(* A Set or Delete of a key that met no other request for it and whose     *)
(* store call did not fail is what later Gets see, until requests overlap  *)
(* on the key, a Delete fails in the store, or write-around writes past a  *)
(* cached copy: evictions, refills, purges, expiry, failed Sets and        *)
(* changes of policy do not count.  A value goes before it is overwritten  *)
(* only when its deadline has come.                                        *)
ReadsLastWrite ==
  \A k \in Keys :
    Busy(k) = {} /\ k \notin disturbed =>
      \/ Reads(k) = latest[k].value
      \/ Reads(k) = NoValue /\ latest[k].expiresAt \in 1 .. now
===========================================================================
