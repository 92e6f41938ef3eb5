-------------------------------- MODULE LFU --------------------------------
(***************************************************************************)
(* internal/cache/lfu: least frequently used, least recently used first    *)
(* among equals.                                                           *)
(*                                                                         *)
(* freqList maps a frequency to the list of the nodes that have it; a      *)
(* frequency with no node has no list.  minFreq is where evictOne looks:   *)
(* it is advanced when a node leaves the list it names, but not when       *)
(* Delete or expiry empties that list.                                     *)
(*                                                                         *)
(* Left out: hitCount and createdAt, which only Snapshot shows.            *)
(***************************************************************************)
EXTENDS CacheTypes

CONSTANTS
  MaxFreq,    \* bound: no node is used more often than this
  Nil         \* the nil pointer

L == INSTANCE LinkedList

VARIABLES
  items,      \* c.items: key -> node
  freqList,   \* c.freqList: frequency -> list, most recently used first
  minFreq,    \* c.minFreq
  bytes,      \* c.st.BytesStored
  recency     \* history: the keys held, most recently used first

vars == <<items, freqList, minFreq, bytes, recency, now, ret>>

Nodes == [value : Values, freq : Nat \ {0}, expiresAt : Nat]

Node(v, f, exp) == [value |-> v, freq |-> f, expiresAt |-> exp]

Held(k) == k \in DOMAIN items

(* items without, and with, a key.                                         *)
Drop(m, k) == [x \in DOMAIN m \ {k} |-> m[x]]
Put(m, k, n) == [x \in DOMAIN m \cup {k} |-> IF x = k THEN n ELSE m[x]]

(* list.Remove from the list of frequency f, which goes if it is empty.    *)
Unlink(fl, f, k) ==
  LET rest == L!Remove(fl[f], k)
  IN IF rest.len = 0 THEN Drop(fl, f) ELSE [fl EXCEPT ![f] = rest]

(* list.PushFront on the list of frequency f, which is made if need be.    *)
Link(fl, f, k) ==
  Put(fl, f, L!PushFront(IF f \in DOMAIN fl THEN fl[f] ELSE L!New, k))

Touched(k) == Cons(k, RemoveFirst(recency, k))

Init ==
  /\ items = EmptyMap
  /\ freqList = EmptyMap
  /\ minFreq = 0
  /\ bytes = 0
  /\ recency = <<>>
  /\ InitTypes

---------------------------------------------------------------------------
(* Mutant: minFreq stays behind when the last node leaves its list.        *)
incrementFreqStale(k) ==
  /\ items[k].freq < MaxFreq
  /\ freqList' = Link(Unlink(freqList, items[k].freq, k), items[k].freq + 1, k)
  /\ minFreq' = minFreq
  /\ recency' = Touched(k)

(* incrementFreq: the node moves to the front of the next frequency.       *)
incrementFreq(k) ==
  LET old == items[k].freq
      left == Unlink(freqList, old, k)
  IN /\ old < MaxFreq
     /\ freqList' = Link(left, old + 1, k)
     /\ minFreq' = IF old \notin DOMAIN left /\ old = minFreq THEN old + 1 ELSE minFreq
     /\ recency' = Touched(k)

(* Delete, and Get and Peek of an entry past its deadline.                 *)
RemoveNode(k) ==
  /\ items' = Drop(items, k)
  /\ freqList' = Unlink(freqList, items[k].freq, k)
  /\ bytes' = bytes - SizeOf[items[k].value]
  /\ recency' = RemoveFirst(recency, k)
  /\ UNCHANGED <<minFreq, now>>

ReadMiss(op, k, counted) ==
  /\ ~Held(k)
  /\ ret' = Miss(op, k, counted)
  /\ UNCHANGED <<items, freqList, minFreq, bytes, recency, now>>

ReadExpired(op, k, counted) ==
  /\ Held(k) /\ Expired(items[k])
  /\ RemoveNode(k)
  /\ ret' = Miss(op, k, counted \cup {"TTLExpiries"})

GetHit(k) ==
  /\ Held(k) /\ ~Expired(items[k])
  /\ incrementFreq(k)
  /\ items' = [items EXCEPT ![k] = Node(@.value, @.freq + 1, @.expiresAt)]
  /\ ret' = Reply("get", k, TRUE, items[k].value, {}, {"Hits"})
  /\ UNCHANGED <<bytes, now>>

Get(k) ==
  \/ ReadMiss("get", k, {"Misses"})
  \/ ReadExpired("get", k, {"Misses"})
  \/ GetHit(k)

PeekHit(k) ==
  /\ Held(k) /\ ~Expired(items[k])
  /\ ret' = Reply("peek", k, TRUE, items[k].value, {}, {})
  /\ UNCHANGED <<items, freqList, minFreq, bytes, recency, now>>

Peek(k) ==
  \/ ReadMiss("peek", k, {})
  \/ ReadExpired("peek", k, {})
  \/ PeekHit(k)

Delete(k) ==
  \/ /\ ~Held(k)
     /\ ret' = Miss("delete", k, {})
     /\ UNCHANGED <<items, freqList, minFreq, bytes, recency, now>>
  \/ /\ Held(k)
     /\ RemoveNode(k)
     /\ ret' = Reply("delete", k, TRUE, NoValue, {}, {"Deletes"})

Purge ==
  /\ items' = EmptyMap
  /\ freqList' = EmptyMap
  /\ minFreq' = 0
  /\ bytes' = 0
  /\ recency' = <<>>
  /\ ret' = Miss("purge", NoKey, {})
  /\ UNCHANGED now

---------------------------------------------------------------------------
(* A key already held is updated in place, even if past its deadline.      *)
SetHeld(k, v, ttl) ==
  /\ Held(k)
  /\ incrementFreq(k)
  /\ items' = [items EXCEPT ![k] = Node(v, @.freq + 1, ExpiryOf(ttl))]
  /\ bytes' = bytes + SizeOf[v] - SizeOf[items[k].value]
  /\ ret' = Reply("set", k, TRUE, NoValue, {}, {"Sets"})
  /\ UNCHANGED now

(* evictOne: the key it evicts, if minFreq names a list.                   *)
evictOne(full) ==
  IF full /\ minFreq \in DOMAIN freqList THEN {L!Back(freqList[minFreq])} ELSE {}

(* A new key: evict one entry if the cache is full, then add the node with *)
(* frequency 1.                                                            *)
SetNew(k, v, ttl) ==
  /\ ~Held(k)
  /\ LET gone == evictOne(Cardinality(DOMAIN items) >= Capacity)
         kept == [x \in DOMAIN items \ gone |-> items[x]]
         x == CHOOSE y \in gone : TRUE
     IN /\ items' = Put(kept, k, Node(v, 1, ExpiryOf(ttl)))
        /\ freqList' = Link(IF gone = {} THEN freqList ELSE Unlink(freqList, minFreq, x), 1, k)
        /\ bytes' = bytes + SizeOf[v] - (IF gone = {} THEN 0 ELSE SizeOf[items[x].value])
        /\ recency' = Cons(k, IF gone = {} THEN recency ELSE RemoveFirst(recency, x))
        /\ ret' = Reply("set", k, TRUE, NoValue,
                        {[key |-> y, value |-> items[y].value] : y \in gone},
                        {"Sets"} \cup (IF gone = {} THEN {} ELSE {"Evictions"}))
  /\ minFreq' = 1
  /\ UNCHANGED now

Set(k, v, ttl) == SetHeld(k, v, ttl) \/ SetNew(k, v, ttl)

Tick ==
  /\ now < MaxTime
  /\ now' = now + 1
  /\ UNCHANGED <<items, freqList, minFreq, bytes, recency, ret>>

Next ==
  \/ Tick
  \/ Purge
  \/ \E k \in Keys :
       \/ Get(k)
       \/ Peek(k)
       \/ Delete(k)
       \/ \E v \in Values, ttl \in TTLs : Set(k, v, ttl)

Spec == Init /\ [][Next]_vars

---------------------------------------------------------------------------
(* Type invariant.  The cache never holds more than its capacity: evictOne *)
(* of an insertion into a full cache always finds a victim.                *)
TypeOK ==
  /\ DOMAIN items \subseteq Keys /\ Cardinality(DOMAIN items) <= Capacity
  /\ items \in [DOMAIN items -> Nodes]
  /\ DOMAIN freqList \subseteq Nat \ {0}
  /\ \A f \in DOMAIN freqList : freqList[f].head \in Keys /\ freqList[f].tail \in Keys
  /\ minFreq \in Nat
  /\ bytes \in Int
  /\ TypesOK

(* k was used less recently than j.                                        *)
LessRecent(k, j) ==
  \E a, b \in DOMAIN recency : recency[a] = j /\ recency[b] = k /\ a < b

(* The keys of S, most recently used first.                                *)
MostRecentFirst(S) ==
  CHOOSE s \in [1 .. Cardinality(S) -> S] :
    \A i, j \in DOMAIN s : i < j => LessRecent(s[j], s[i])

(* The list of a frequency, read from either end, is the order of last use *)
(* of exactly the keys with that frequency, and no list is empty: Get,     *)
(* Peek and Delete of the LFU cache must drop an emptied list, since       *)
(* evictOne takes a list's existence for a victim.                         *)
ListsMatchItems ==
  /\ DOMAIN freqList = {items[k].freq : k \in DOMAIN items}
  /\ \A f \in DOMAIN freqList :
       L!IsList(freqList[f], MostRecentFirst({k \in DOMAIN items : items[k].freq = f}))

(* minFreq may be stale after a Delete or an expiry, but never when the    *)
(* cache is full, which is when evictOne relies on it.                     *)
MinFreqExactWhenFull ==
  Cardinality(DOMAIN items) >= Capacity =>
    /\ minFreq \in DOMAIN freqList
    /\ \A k \in DOMAIN items : minFreq <= items[k].freq

(* The entry a step evicts is the least frequently used one and, among    *)
(* those, the least recently used, by the history of uses.                 *)
VictimIsLeastFrequent ==
  ret' # ret =>
    \A c \in ret'.calls : \A j \in DOMAIN items \ {c.key} :
      \/ items[c.key].freq < items[j].freq
      \/ items[c.key].freq = items[j].freq /\ LessRecent(c.key, j)

(* What a Get can return.                                                  *)
LiveEntries ==
  [k \in DOMAIN items |-> [value |-> items[k].value, expiresAt |-> items[k].expiresAt]]
===========================================================================
