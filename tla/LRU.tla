-------------------------------- MODULE LRU --------------------------------
(***************************************************************************)
(* internal/cache/lru: least recently used, on its own doubly-linked list. *)
(*                                                                         *)
(* A key has at most one node, the one items maps it to, so a node is      *)
(* named by its key and a pointer is a key or Nil.  recency is a history   *)
(* variable: what "recently used" means, kept without looking at the       *)
(* pointers; the list is right when it says the same.                      *)
(*                                                                         *)
(* Left out: hitCount and createdAt, which only Snapshot shows.            *)
(***************************************************************************)
EXTENDS CacheTypes

CONSTANT Nil   \* the nil pointer

VARIABLES
  items,     \* c.items: key -> value and deadline of its node
  list,      \* c.head, c.tail, and prev and next of every node
  bytes,     \* c.st.BytesStored
  recency    \* history: the keys held, most recently used first

vars == <<items, list, bytes, recency, now, ret>>

Nodes == [value : Values, expiresAt : Nat]

Node(v, exp) == [value |-> v, expiresAt |-> exp]

Pointers == Keys \cup {Nil}

(* The pointers of the nodes that exist.                                   *)
Lists ==
  [head : Pointers, tail : Pointers,
   prev : UNION {[S -> Pointers] : S \in SUBSET Keys},
   next : UNION {[S -> Pointers] : S \in SUBSET Keys}]

EmptyList == [head |-> Nil, tail |-> Nil, prev |-> EmptyMap, next |-> EmptyMap]

Drop(f, k) == [x \in DOMAIN f \ {k} |-> f[x]]
Put(f, k, v) == [x \in DOMAIN f \cup {k} |-> IF x = k THEN v ELSE f[x]]

(* f[k] = v, if k is a node.                                               *)
Assign(f, k, v) == IF k = Nil THEN f ELSE [f EXCEPT ![k] = v]

(* Mutant: the old head does not point back.                               *)
pushFrontOneWay(l, n) ==
  [head |-> n,
   tail |-> IF l.tail = Nil THEN n ELSE l.tail,
   prev |-> Put(l.prev, n, Nil),
   next |-> Put(l.next, n, l.head)]

pushFront(l, n) ==
  [head |-> n,
   tail |-> IF l.tail = Nil THEN n ELSE l.tail,
   prev |-> Assign(Put(l.prev, n, Nil), l.head, n),
   next |-> Put(l.next, n, l.head)]

removeNode(l, n) ==
  LET before == l.prev[n]
      after == l.next[n]
  IN [head |-> IF before = Nil THEN after ELSE l.head,
      tail |-> IF after = Nil THEN before ELSE l.tail,
      prev |-> Drop(Assign(l.prev, after, before), n),
      next |-> Drop(Assign(l.next, before, after), n)]

(* Mutant: a hit leaves the order alone.                                   *)
moveToFrontNever(l, n) == l

moveToFront(l, n) == IF n = l.head THEN l ELSE pushFront(removeNode(l, n), n)

Held(k) == k \in DOMAIN items

Without(S) == [x \in DOMAIN items \ S |-> items[x]]

Touched(k) == Cons(k, RemoveFirst(recency, k))

Init ==
  /\ items = EmptyMap
  /\ list = EmptyList
  /\ bytes = 0
  /\ recency = <<>>
  /\ InitTypes

---------------------------------------------------------------------------
(* Delete, and Get and Peek of an entry past its deadline.                 *)
RemoveEntry(k) ==
  /\ items' = Without({k})
  /\ list' = removeNode(list, k)
  /\ bytes' = bytes - SizeOf[items[k].value]
  /\ recency' = RemoveFirst(recency, k)
  /\ UNCHANGED now

ReadMiss(op, k, counted) ==
  /\ ~Held(k)
  /\ ret' = Miss(op, k, counted)
  /\ UNCHANGED <<items, list, bytes, recency, now>>

ReadExpired(op, k, counted) ==
  /\ Held(k) /\ Expired(items[k])
  /\ RemoveEntry(k)
  /\ ret' = Miss(op, k, counted \cup {"TTLExpiries"})

GetHit(k) ==
  /\ Held(k) /\ ~Expired(items[k])
  /\ list' = moveToFront(list, k)
  /\ recency' = Touched(k)
  /\ ret' = Reply("get", k, TRUE, items[k].value, {}, {"Hits"})
  /\ UNCHANGED <<items, bytes, now>>

Get(k) ==
  \/ ReadMiss("get", k, {"Misses"})
  \/ ReadExpired("get", k, {"Misses"})
  \/ GetHit(k)

PeekHit(k) ==
  /\ Held(k) /\ ~Expired(items[k])
  /\ ret' = Reply("peek", k, TRUE, items[k].value, {}, {})
  /\ UNCHANGED <<items, list, bytes, recency, now>>

Peek(k) ==
  \/ ReadMiss("peek", k, {})
  \/ ReadExpired("peek", k, {})
  \/ PeekHit(k)

Delete(k) ==
  \/ /\ ~Held(k)
     /\ ret' = Miss("delete", k, {})
     /\ UNCHANGED <<items, list, bytes, recency, now>>
  \/ /\ Held(k)
     /\ RemoveEntry(k)
     /\ ret' = Reply("delete", k, TRUE, NoValue, {}, {"Deletes"})

Purge ==
  /\ items' = EmptyMap
  /\ list' = EmptyList
  /\ bytes' = 0
  /\ recency' = <<>>
  /\ ret' = Miss("purge", NoKey, {})
  /\ UNCHANGED now

---------------------------------------------------------------------------
(* A key already held is updated in place, even if past its deadline.      *)
SetHeld(k, v, ttl) ==
  /\ Held(k)
  /\ items' = [items EXCEPT ![k] = Node(v, ExpiryOf(ttl))]
  /\ list' = moveToFront(list, k)
  /\ bytes' = bytes + SizeOf[v] - SizeOf[items[k].value]
  /\ recency' = Touched(k)
  /\ ret' = Reply("set", k, TRUE, NoValue, {}, {"Sets"})
  /\ UNCHANGED now

(* Set evicts the tail when the cache is full.                             *)
Victims ==
  IF Cardinality(DOMAIN items) >= Capacity /\ list.tail # Nil THEN {list.tail} ELSE {}

EvictCalls(gone) == {[key |-> x, value |-> items[x].value] : x \in gone}

SetNew(k, v, ttl) ==
  /\ ~Held(k)
  /\ LET gone == Victims
         x == CHOOSE y \in gone : TRUE
     IN /\ items' = [y \in (DOMAIN items \ gone) \cup {k} |->
                       IF y = k THEN Node(v, ExpiryOf(ttl)) ELSE items[y]]
        /\ list' = pushFront(IF gone = {} THEN list ELSE removeNode(list, x), k)
        /\ bytes' = bytes + SizeOf[v] - (IF gone = {} THEN 0 ELSE SizeOf[items[x].value])
        /\ recency' = Cons(k, IF gone = {} THEN recency ELSE RemoveFirst(recency, x))
        /\ ret' = Reply("set", k, TRUE, NoValue, EvictCalls(gone),
                        {"Sets"} \cup (IF gone = {} THEN {} ELSE {"Evictions"}))
  /\ UNCHANGED now

Set(k, v, ttl) == SetHeld(k, v, ttl) \/ SetNew(k, v, ttl)

Tick == now < MaxTime /\ now' = now + 1 /\ UNCHANGED <<items, list, bytes, recency, ret>>

Next ==
  \/ Tick
  \/ Purge
  \/ \E k \in Keys :
       \/ Get(k)
       \/ Peek(k)
       \/ Delete(k)
       \/ \E v \in Values, ttl \in TTLs : Set(k, v, ttl)

Spec == Init /\ [][Next]_vars

---------------------------------------------------------------------------
(* Type invariant.  The cache never holds more than its capacity.          *)
TypeOK ==
  /\ DOMAIN items \subseteq Keys /\ Cardinality(DOMAIN items) <= Capacity
  /\ items \in [DOMAIN items -> Nodes]
  /\ list \in Lists
  /\ bytes \in Int
  /\ recency \in Seq(Keys)
  /\ TypesOK

(* The linked list of the LRU cache, read from either end, is the order of *)
(* last use of exactly the keys in items: pushFront, removeNode and        *)
(* moveToFront never lose, duplicate or misorder a node.                   *)
ListIsRecencyOrder ==
  LET n == Len(recency)
  IN /\ ToSet(recency) = DOMAIN items
     /\ IsInjective(recency)
     /\ list.head = IF n = 0 THEN Nil ELSE recency[1]
     /\ list.tail = IF n = 0 THEN Nil ELSE recency[n]
     /\ \A i \in 1 .. n :
          /\ list.prev[recency[i]] = IF i = 1 THEN Nil ELSE recency[i - 1]
          /\ list.next[recency[i]] = IF i = n THEN Nil ELSE recency[i + 1]

(* The entry a step evicts is the one used least recently.                 *)
VictimIsLeastRecent == ret' # ret => \A c \in ret'.calls : c.key = Last(recency)

(* What a Get can return.                                                  *)
LiveEntries == items
===========================================================================
