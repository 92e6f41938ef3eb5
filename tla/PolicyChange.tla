---------------------------- MODULE PolicyChange ----------------------------
(***************************************************************************)
(* A store of the server whose write policy changes while it is in use     *)
(* (reconfigureWritePolicy in api/handler.go), write-back among them: the  *)
(* composition of WriteBack with the other policies.                       *)
(*                                                                         *)
(* A change of policy holds entry.mu for writing (the gate of WriteBack is *)
(* not open): it flushes the old cache, clones what the cache holds,       *)
(* closes the old cache, which flushes again, and puts the clone in its    *)
(* place.  Only the ticker runs beside it; it stops when it sees that done *)
(* is closed, and what it has in hand then it may still write.             *)
(*                                                                         *)
(* The requests of the other policies are one step here; StoreEntry has    *)
(* their steps and overlaps.                                               *)
(***************************************************************************)
EXTENDS WriteBack

CONSTANTS
  WritePolicies,
  MaxLate        \* bound: no write-back cache is closed while the tickers of
                 \* those closed before have more than this many things to do

ASSUME PolicyConstants ==
  /\ WritePolicies \subseteq {"write-back", "write-through", "write-around"}
  /\ MaxLate \in Nat

VARIABLES
  writePolicy,   \* entry.WritePolicy
  late,          \* what the tickers of closed caches may still write
  until,         \* history: the deadline of the last write of a key
  excused        \* history: the keys that no undisturbed write has settled since
                 \* processes met on them or the store failed them

pvars == <<vars, writePolicy, late, until, excused>>

PInit ==
  /\ Init
  /\ writePolicy \in WritePolicies
  /\ late = {}
  /\ until = [k \in Keys |-> 0]
  /\ excused = {}

---------------------------------------------------------------------------
(* History.  A process touches the key it works on, and the victim of the  *)
(* eviction it is in.                                                      *)
Touches(s, k) ==
  /\ "key" \in DOMAIN s
  /\ s.key = k \/ (s.at = "evict" /\ s.victim = k)

(* What a process is about to do after its flush, or does now.             *)
Then(s) == CASE "rest" \in DOMAIN s -> s.rest.then.at
             [] s.at = "range"       -> s.then.at
             [] OTHER                -> s.at

Late == {e.key : e \in late}

(* Another process is on the key, or purges all of them.                   *)
Disputed(p, k) ==
  k \in Late \/ \E q \in Procs \ {p} : Touches(st[q], k) \/ Then(st[q]) = "purge"

(* The step of p meets another process on the key, or takes the key out of *)
(* the cache behind its back.                                              *)
Meets(p, k) ==
  /\ Disputed(p, k)
  /\ Touches(st'[p], k) \/ (k \in DOMAIN live /\ k \notin DOMAIN live')

(* The store failed to take the victim of an eviction or a deletion, or    *)
(* the last flush before the cache is purged or closed fails for the key   *)
(* or passes it by because another process has it in hand.                 *)
LastFlush(p) == Then(st[p]) \in {"purge", "close", "swap"}

Loses(p, k) ==
  \/ At(p, "evict") /\ st[p].victim = k /\ store' # flushValue(k, st[p].old, st[p].expiresAt)
  \/ At(p, "deleteStore") /\ st[p].key = k /\ k \in DOMAIN store'
  \/ LastFlush(p) /\ At(p, "requeue") /\ st[p].key = k
  \/ LastFlush(p) /\ At(p, "range") /\ k \in st[p].todo /\ Disputed(p, k)

(* A Set or Delete of the key begins, and nothing else is on it.           *)
Settles(p, k) ==
  /\ At(p, "idle") /\ st'[p].at \in {"mark", "evict", "deleteStore"} /\ st'[p].key = k
  /\ ~Disputed(p, k)

Observe(p) ==
  /\ excused' = {k \in Keys : \/ Meets(p, k) \/ Loses(p, k)
                              \/ k \in excused /\ ~Settles(p, k)}
  /\ until' = [k \in Keys |->
                 IF k \in excused' THEN 0
                 ELSE IF st'[p].at = "mark" /\ st'[p].key = k /\ ~At(p, "mark")
                   THEN live'[k].expiresAt
                 ELSE IF At(p, "deleteInner") /\ st[p].key = k THEN 0
                 ELSE until[k]]

---------------------------------------------------------------------------
(* The store under write-back.                                             *)
WriteBackStep(p) ==
  /\ \/ writePolicy = "write-back" /\ (Call(p) \/ TickerFires(p))
     \/ Continue(p)
  /\ Observe(p)
  /\ UNCHANGED <<writePolicy, late>>

CountStep(p) == Count(p) /\ UNCHANGED <<writePolicy, late, until, excused>>

(* The store under write-through and write-around.                         *)
Other(p) == p \in Clients /\ writePolicy # "write-back" /\ At(p, "idle") /\ gate = "open"

Cached(k, v, exp) ==
  IF ~Full(k) THEN live' = Put(live, k, Entry(v, exp))
  ELSE \E x \in DOMAIN live : live' = Put(Drop(live, x), k, Entry(v, exp))

OtherSet(p) ==
  \E k \in Keys, v \in Values, ttl \in TTLs :
    /\ Other(p) /\ "Set" \in Ops
    /\ StoreDoes(Put(store, k, encodeForStore(v, Deadline(ttl))))
    /\ IF writePolicy = "write-through" THEN Cached(k, v, Deadline(ttl)) ELSE UNCHANGED live
    /\ latest' = [latest EXCEPT ![k] = v]
    /\ until' = [until EXCEPT ![k] = Deadline(ttl)]
    /\ excused' = IF k \in Late \/ (writePolicy = "write-around" /\ k \in DOMAIN live)
                    THEN excused \cup {k} ELSE excused \ {k}
    /\ UNCHANGED <<now, lock, dirty, dirtyCount, owes, gate, st, writePolicy, late>>

OtherGet(p) ==
  \E k \in Keys :
    /\ Other(p) /\ "Get" \in Ops /\ ~Fresh(k)
    /\ IF k \notin DOMAIN store THEN live' = Drop(live, k) /\ UNCHANGED store
       ELSE LET d == decodeFromStore(store[k])
            IN IF ttlExpired(d.expiresAt, now) \/ writePolicy = "write-around"
                 THEN /\ live' = Drop(live, k)
                      /\ \/ ttlExpired(d.expiresAt, now) /\ StoreDoes(Drop(store, k))
                         \/ UNCHANGED store
                 ELSE /\ Cached(k, d.value, Deadline(ttlLeft(d.expiresAt, now)))
                      /\ UNCHANGED store
    /\ UNCHANGED <<now, lock, dirty, dirtyCount, owes, gate, st, latest, writePolicy, late, until, excused>>

OtherDelete(p) ==
  \E k \in Keys :
    /\ Other(p) /\ "Delete" \in Ops
    /\ StoreDoes(Drop(store, k)) \/ StoreFailed
    /\ live' = Drop(live, k)
    /\ latest' = [latest EXCEPT ![k] = NoValue]
    /\ until' = [until EXCEPT ![k] = 0]
    /\ excused' = IF k \in Late \/ k \in DOMAIN store' THEN excused \cup {k}
                  ELSE excused \ {k}
    /\ UNCHANGED <<now, lock, dirty, dirtyCount, owes, gate, st, writePolicy, late>>

OtherPurge(p) ==
  /\ Other(p) /\ "Purge" \in Ops
  /\ live' = Empty
  /\ UNCHANGED <<now, lock, dirty, dirtyCount, owes, store, gate, st, latest, writePolicy, late, until, excused>>

---------------------------------------------------------------------------
(* cloneEntriesIntoCache: a new cache, with what is left of the ttls; an   *)
(* entry at or past its deadline, and not yet looked at, loses it.         *)
CloneForgets(exp) == 0      \* mutant
CloneExpiry(exp) == IF exp > now THEN exp ELSE 0

cloneEntriesIntoCache ==
  [k \in DOMAIN live |-> Entry(live[k].value, CloneExpiry(live[k].expiresAt))]

Revived == {k \in DOMAIN live : live[k].expiresAt \in 1 .. now}

Changes(p, policy) ==
  /\ p \in Clients /\ policy # writePolicy /\ gate = "open"
  /\ NoRequests

reconfigureOther(p) ==
  \E policy \in WritePolicies :
    /\ Changes(p, policy) /\ writePolicy # "write-back"
    /\ live' = cloneEntriesIntoCache
    /\ writePolicy' = policy
    /\ excused' = excused \cup Revived
    /\ UNCHANGED <<now, lock, dirty, dirtyCount, owes, store, gate, st, latest, late, until>>

reconfigureFlush(p) ==
  \E policy \in WritePolicies :
    /\ Changes(p, policy) /\ writePolicy = "write-back"
    /\ Cardinality(late) <= MaxLate
    /\ gate' = "closing"
    /\ FlushStart(p, [at |-> "clone", policy |-> policy])
    /\ UNCHANGED <<now, live, lock, dirty, dirtyCount, owes, store, latest, writePolicy, late, until, excused>>

reconfigureClone(p) ==
  /\ At(p, "clone")
  /\ FlushStart(p, [at |-> "swap", policy |-> st[p].policy, clone |-> cloneEntriesIntoCache])
  /\ excused' = excused \cup Revived
  /\ UNCHANGED <<now, live, lock, dirty, dirtyCount, owes, store, gate, latest, writePolicy, late, until>>

(* The ticker of the old cache has a value to write or to delete, or a key *)
(* to peek at, or may go over what is dirty once more before it looks at   *)
(* done.  What it does then: write a value, or delete the key (NoValue)    *)
(* once its deadline has passed.                                           *)
InHand(t, k) ==
  Touches(st[t], k) /\ st[t].at \in {"take", "peek", "flushExpired", "write", "requeue"}

LeftOf(k) ==
  LET hands == {t \in Tickers : InHand(t, k)}
      writers == {t \in hands : At(t, "write")}
      peekers == IF StoreFails THEN hands ELSE hands \ writers
      due == {st[t].expiresAt : t \in peekers} \cup {dirty[x] : x \in {k} \cap DOMAIN dirty}
      value == IF k \in DOMAIN live THEN live[k].value ELSE NoValue
  IN [key : {k}, value : {value}, expiresAt : due]
     \cup {[key |-> k, value |-> st[t].value, expiresAt |-> st[t].expiresAt] : t \in writers}

LeftBehind == UNION {LeftOf(k) : k \in Keys}

reconfigureSwap(p) ==
  /\ At(p, "swap") /\ lock = Nobody
  /\ live' = st[p].clone
  /\ dirty' = Empty /\ dirtyCount' = 0 /\ owes' = [q \in Procs |-> 0]
  /\ late' = late \cup LeftBehind
  /\ excused' = excused \cup {k \in Keys : \E t \in Tickers : InHand(t, k)}
  /\ writePolicy' = st[p].policy
  /\ gate' = "open"
  /\ st' = [q \in Procs |-> Idle]
  /\ UNCHANGED <<now, lock, store, latest, until>>

LateWrite ==
  \E e \in late :
    /\ IF e.value = NoValue
         THEN ttlExpired(e.expiresAt, now) /\ StoreDoes(Drop(store, e.key))
         ELSE StoreDoes(flushValue(e.key, e.value, e.expiresAt))
    /\ late' = late \ {e}
    /\ UNCHANGED <<now, live, lock, dirty, dirtyCount, owes, gate, st, latest, writePolicy, until, excused>>

(* It finds nothing to do, the store fails it, or it stops.                *)
LateStops ==
  \E e \in late :
    /\ late' = late \ {e}
    /\ UNCHANGED <<vars, writePolicy, until, excused>>

---------------------------------------------------------------------------
PNext ==
  \/ Tick /\ UNCHANGED <<writePolicy, late, until, excused>>
  \/ LateWrite \/ LateStops
  \/ \E p \in Procs :
       \/ WriteBackStep(p) \/ CountStep(p)
       \/ OtherSet(p) \/ OtherGet(p) \/ OtherDelete(p) \/ OtherPurge(p)
       \/ reconfigureOther(p) \/ reconfigureFlush(p)
       \/ reconfigureClone(p) \/ reconfigureSwap(p)

PSpec == PInit /\ [][PNext]_pvars

---------------------------------------------------------------------------
Untouched(k) == \A p \in Procs : ~Touches(st[p], k)

(* What a Get of k returns when nothing else runs.                         *)
Serves(k) ==
  IF Fresh(k) THEN live[k].value
  ELSE IF k \in DOMAIN store /\ ~ttlExpired(decodeFromStore(store[k]).expiresAt, now)
         THEN decodeFromStore(store[k]).value
         ELSE NoValue

(* The deadline of what was last set for the key has passed.               *)
Over(k) == until[k] \in 1 .. now

KeepsDeadline(k) ==
  k \in DOMAIN live => (live[k].expiresAt = 0 <=> until[k] = 0)

(* A Set or Delete that met nobody on its key and that the store did not   *)
(* fail is what later Gets see until its deadline, and the deadline stays  *)
(* with it: through evictions, refills, flushes, purges and every change   *)
(* of policy, until processes meet on the key, the flush of an eviction, a *)
(* purge or a change of policy fails, or a clone is made at the deadline.  *)
UndisturbedReads ==
  \A k \in Keys \ excused :
    gate = "open" /\ Untouched(k) /\ ~Over(k) => Serves(k) = latest[k] /\ KeepsDeadline(k)

(* Close flushes: what such a write set is in the store when Close has     *)
(* returned, after which the process may exit.                             *)
ClosedDurably ==
  gate = "closed" => \A k \in Keys \ excused :
    Untouched(k) /\ ~Over(k) => StoredValue(k) = latest[k]
===========================================================================
