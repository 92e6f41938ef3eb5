-------------------------------- MODULE ARC --------------------------------
(***************************************************************************)
(* internal/cache/arc: the Adaptive Replacement Cache.                     *)
(*                                                                         *)
(* A node of itemMap says in which of the four lists it is: T1 and T2 hold *)
(* live entries, B1 and B2 the ghosts of entries evicted from them.  The   *)
(* lists are sequences of keys, front (most recent) first.  A ghost has no *)
(* value and keeps the deadline it had.                                    *)
(*                                                                         *)
(* Left out: hitCount and createdAt, which only Snapshot shows.            *)
(***************************************************************************)
EXTENDS CacheTypes

VARIABLES
  lists,     \* c.T1, c.T2, c.B1, c.B2
  p,         \* c.p, the target size of T1
  itemMap,   \* c.itemMap: key -> node
  bytes      \* c.st.BytesStored

vars == <<lists, p, itemMap, bytes, now, ret>>

LiveLists == {"T1", "T2"}
ListNames == {"T1", "T2", "B1", "B2"}

Nodes == [list : ListNames, value : Values \cup {NoValue}, expiresAt : Nat]

Node(name, v, exp) == [list |-> name, value |-> v, expiresAt |-> exp]

IsIn(k, names) == k \in DOMAIN itemMap /\ itemMap[k].list \in names

len(v) == IF v = NoValue THEN 0 ELSE SizeOf[v]

(* itemMap without, and with, a key.                                       *)
Drop(m, k) == [x \in DOMAIN m \ {k} |-> m[x]]
Put(m, k, n) == [x \in DOMAIN m \cup {k} |-> IF x = k THEN n ELSE m[x]]

(* removeFromList and list.PushFront, on the list a node names.            *)
removeFromList(l, name, k) == [l EXCEPT ![name] = RemoveFirst(@, k)]
PushFront(l, name, k) == [l EXCEPT ![name] = Cons(k, @)]

Init ==
  /\ lists = [name \in ListNames |-> <<>>]
  /\ p = 0
  /\ itemMap = EmptyMap
  /\ bytes = 0
  /\ InitTypes

---------------------------------------------------------------------------
(* replace(preferT2): which list gives up its least recent entry.          *)
ReplaceFrom(l, target, preferT2) ==
  CASE Len(l.T1) > 0 /\ \/ Len(l.T1) > target
                        \/ preferT2 /\ Len(l.T1) = target -> {"T1"}
    [] OTHER -> IF Len(l.T2) > 0 THEN {"T2"} ELSE {}

GhostOf(name) == IF name = "T1" THEN "B1" ELSE "B2"

(* The lists, the map and the victims after replace: the victim becomes a  *)
(* ghost at the front of the ghost list, its value dropped.                *)
Demote(l, m, name) ==
  LET victim == Last(l[name])
  IN [lists  |-> [l EXCEPT ![name] = Front(@),
                           ![GhostOf(name)] = Cons(victim, @)],
      map    |-> [m EXCEPT ![victim] =
                             Node(GhostOf(name), NoValue, m[victim].expiresAt)],
      gone   |-> {victim}]

Replace(l, m, target, preferT2) ==
  LET from == ReplaceFrom(l, target, preferT2)
  IN IF from = {} THEN [lists |-> l, map |-> m, gone |-> {}]
     ELSE Demote(l, m, CHOOSE name \in from : TRUE)

(* replace reports a victim only if its value is not nil.                  *)
ReplaceCalls(gone) ==
  {[key |-> x, value |-> itemMap[x].value] :
     x \in {y \in gone : len(itemMap[y].value) > 0}}

(* Mutant: the victim's bytes stay counted.                                *)
BytesOfNothing(gone) == 0

BytesOf(gone) ==
  IF gone = {} THEN 0 ELSE len(itemMap[CHOOSE x \in gone : TRUE].value)

---------------------------------------------------------------------------
(* Get and Peek of an entry past its deadline, and Delete.                 *)
RemoveNode(k) ==
  /\ lists' = removeFromList(lists, itemMap[k].list, k)
  /\ itemMap' = Drop(itemMap, k)
  /\ bytes' = bytes - len(itemMap[k].value)
  /\ UNCHANGED <<p, now>>

ReadMiss(op, k, counted) ==
  /\ ~IsIn(k, LiveLists)
  /\ ret' = Miss(op, k, counted)
  /\ UNCHANGED <<lists, p, itemMap, bytes, now>>

ReadExpired(op, k, counted) ==
  /\ IsIn(k, LiveLists)
  /\ Expired(itemMap[k])
  /\ RemoveNode(k)
  /\ ret' = Miss(op, k, counted \cup {"TTLExpiries"})

(* A hit promotes the entry to the front of T2, from T1 as from T2.        *)
GetHit(k) ==
  /\ IsIn(k, LiveLists)
  /\ ~Expired(itemMap[k])
  /\ lists' = PushFront(removeFromList(lists, itemMap[k].list, k), "T2", k)
  /\ itemMap' = [itemMap EXCEPT ![k] =
                   Node("T2", itemMap[k].value, itemMap[k].expiresAt)]
  /\ ret' = Reply("get", k, TRUE, itemMap[k].value, {}, {"Hits"})
  /\ UNCHANGED <<p, bytes, now>>

Get(k) ==
  \/ ReadMiss("get", k, {"Misses"})
  \/ ReadExpired("get", k, {"Misses"})
  \/ GetHit(k)

PeekHit(k) ==
  /\ IsIn(k, LiveLists)
  /\ ~Expired(itemMap[k])
  /\ ret' = Reply("peek", k, TRUE, itemMap[k].value, {}, {})
  /\ UNCHANGED <<lists, p, itemMap, bytes, now>>

Peek(k) ==
  \/ ReadMiss("peek", k, {})
  \/ ReadExpired("peek", k, {})
  \/ PeekHit(k)

(* A ghost is deleted, and reported as found, like a live entry.           *)
Delete(k) ==
  \/ /\ k \notin DOMAIN itemMap
     /\ ret' = Miss("delete", k, {})
     /\ UNCHANGED <<lists, p, itemMap, bytes, now>>
  \/ /\ k \in DOMAIN itemMap
     /\ RemoveNode(k)
     /\ ret' = Reply("delete", k, TRUE, NoValue, {}, {"Deletes"})

Purge ==
  /\ lists' = [name \in ListNames |-> <<>>]
  /\ p' = 0
  /\ itemMap' = EmptyMap
  /\ bytes' = 0
  /\ ret' = Miss("purge", NoKey, {})
  /\ UNCHANGED now

---------------------------------------------------------------------------
SetReply(k, calls, counted) ==
  ret' = Reply("set", k, TRUE, NoValue, calls, counted)

(* Case 1: a live key is updated in place and moves to the front of T2,    *)
(* even if its old entry is past its deadline.                             *)
SetLive(k, v, ttl) ==
  /\ IsIn(k, LiveLists)
  /\ lists' = PushFront(removeFromList(lists, itemMap[k].list, k), "T2", k)
  /\ itemMap' = [itemMap EXCEPT ![k] = Node("T2", v, ExpiryOf(ttl))]
  /\ bytes' = bytes + SizeOf[v] - len(itemMap[k].value)
  /\ SetReply(k, {}, {"Sets"})
  /\ UNCHANGED <<p, now>>

(* The steps cases 2 and 3 share once p is known: replace, then the ghost  *)
(* leaves its list and comes back to life at the front of T2.              *)
Revive(k, v, ttl, ghosts, target, preferT2) ==
  LET r == Replace(lists, itemMap, target, preferT2)
  IN /\ p' = target
     /\ lists' = PushFront(removeFromList(r.lists, ghosts, k), "T2", k)
     /\ itemMap' = [r.map EXCEPT ![k] = Node("T2", v, ExpiryOf(ttl))]
     /\ bytes' = bytes + SizeOf[v] - BytesOf(r.gone)
     /\ SetReply(k, ReplaceCalls(r.gone), {"Sets", "Evictions"})
     /\ UNCHANGED now

(* By how much p moves when the ghost was found in a list of length mine,  *)
(* the other ghost list having length other.                               *)
Delta(mine, other) ==
  IF mine > 0 /\ other > mine THEN other \div mine ELSE 1

(* Case 2: a B1 ghost raises p.                                            *)
SetGhost1(k, v, ttl) ==
  /\ IsIn(k, {"B1"})
  /\ LET up == p + Delta(Len(lists.B1), Len(lists.B2))
     IN Revive(k, v, ttl, "B1", IF up < Capacity THEN up ELSE Capacity, FALSE)

(* Mutant: p is lowered without max(.., 0).                                *)
SetGhost2NoFloor(k, v, ttl) ==
  /\ IsIn(k, {"B2"})
  /\ Revive(k, v, ttl, "B2", p - Delta(Len(lists.B2), Len(lists.B1)), TRUE)

(* Case 3: a B2 ghost lowers p.                                            *)
SetGhost2(k, v, ttl) ==
  /\ IsIn(k, {"B2"})
  /\ LET down == p - Delta(Len(lists.B2), Len(lists.B1))
     IN Revive(k, v, ttl, "B2", IF down > 0 THEN down ELSE 0, TRUE)

(* The tail of case 4: a new node at the front of T1.                      *)
AddNew(k, v, ttl, l, m, gone) ==
  /\ lists' = PushFront(l, "T1", k)
  /\ itemMap' = Put(m, k, Node("T1", v, ExpiryOf(ttl)))
  /\ bytes' = bytes + SizeOf[v] - BytesOf(gone)
  /\ UNCHANGED <<p, now>>

Live == Len(lists.T1) + Len(lists.T2)
Total == Live + Len(lists.B1) + Len(lists.B2)
FirstFull == Len(lists.T1) + Len(lists.B1) = Capacity

(* Case 4 with |T1| + |B1| = capacity and room for a ghost: the oldest B1  *)
(* ghost is forgotten, then replace.                                       *)
NewDropsGhost1(k, v, ttl) ==
  /\ k \notin DOMAIN itemMap /\ FirstFull /\ Len(lists.T1) < Capacity
  /\ LET old == Last(lists.B1)
         r == Replace([lists EXCEPT !.B1 = Front(@)], Drop(itemMap, old), p, FALSE)
     IN /\ AddNew(k, v, ttl, r.lists, r.map, r.gone)
        /\ SetReply(k, ReplaceCalls(r.gone), {"Sets", "Evictions"})

(* Case 4 with T1 full: its least recent entry goes, and leaves no ghost.  *)
NewDropsT1(k, v, ttl) ==
  /\ k \notin DOMAIN itemMap /\ FirstFull /\ Len(lists.T1) >= Capacity
  /\ LET old == Last(lists.T1)
     IN /\ AddNew(k, v, ttl, [lists EXCEPT !.T1 = Front(@)], Drop(itemMap, old), {old})
        /\ SetReply(k, {[key |-> old, value |-> itemMap[old].value]},
                    {"Sets", "Evictions"})

(* The ghost case 4 forgets when all four lists hold 2 * capacity.         *)
(* Mutants: no ghost is forgotten; the ghost's node stays in itemMap.      *)
TrimGhost2Never(l, m) == [lists |-> l, map |-> m]
TrimGhost2KeepsNode(l, m) ==
  IF Total >= 2 * Capacity /\ Len(l.B2) > 0
    THEN [lists |-> [l EXCEPT !.B2 = Front(@)], map |-> m]
    ELSE [lists |-> l, map |-> m]

TrimGhost2(l, m) ==
  IF Total >= 2 * Capacity /\ Len(l.B2) > 0
    THEN [lists |-> [l EXCEPT !.B2 = Front(@)], map |-> Drop(m, Last(l.B2))]
    ELSE [lists |-> l, map |-> m]

(* Case 4 with the cache full: forget a B2 ghost if need be, then replace. *)
NewReplaces(k, v, ttl) ==
  /\ k \notin DOMAIN itemMap /\ ~FirstFull /\ Live >= Capacity
  /\ LET t == TrimGhost2(lists, itemMap)
         r == Replace(t.lists, t.map, p, FALSE)
     IN /\ AddNew(k, v, ttl, r.lists, r.map, r.gone)
        /\ SetReply(k, ReplaceCalls(r.gone), {"Sets", "Evictions"})

(* Case 4 with room to spare.                                              *)
NewFits(k, v, ttl) ==
  /\ k \notin DOMAIN itemMap /\ ~FirstFull /\ Live < Capacity
  /\ AddNew(k, v, ttl, lists, itemMap, {})
  /\ SetReply(k, {}, {"Sets"})

Set(k, v, ttl) ==
  \/ SetLive(k, v, ttl)
  \/ SetGhost1(k, v, ttl)
  \/ SetGhost2(k, v, ttl)
  \/ NewDropsGhost1(k, v, ttl)
  \/ NewDropsT1(k, v, ttl)
  \/ NewReplaces(k, v, ttl)
  \/ NewFits(k, v, ttl)

Tick == now < MaxTime /\ now' = now + 1 /\ UNCHANGED <<lists, p, itemMap, bytes, ret>>

Next ==
  \/ Tick
  \/ Purge
  \/ \E k \in Keys :
       \/ Get(k)
       \/ Peek(k)
       \/ Delete(k)
       \/ \E v \in Values, ttl \in TTLs : Set(k, v, ttl)

Spec == Init /\ [][Next]_vars

---------------------------------------------------------------------------
(* Type invariant of ARC, of the clock and of replies; SPEC.md's           *)
(* "0 <= p <= capacity" is part of it.  What LRU and LFU keep has types of *)
(* its own, in those modules.                                              *)
TypeOK ==
  /\ lists \in [ListNames -> Seq(Keys)]
  /\ p \in 0 .. Capacity
  /\ DOMAIN itemMap \subseteq Keys
  /\ itemMap \in [DOMAIN itemMap -> Nodes]
  /\ \A k \in DOMAIN itemMap : itemMap[k].value = NoValue <=> itemMap[k].list \in {"B1", "B2"}
  /\ bytes \in Int
  /\ TypesOK

(* Every node of itemMap is in the list it names, once, and in no other;   *)
(* no list holds a key itemMap does not.  removeFromList unlinks a node    *)
(* from the list named in it, so it corrupts a list when this fails.       *)
ListsMatchMap ==
  \A name \in ListNames :
    /\ IsInjective(lists[name])
    /\ \A k \in Keys : k \in ToSet(lists[name]) <=> IsIn(k, {name})

(* The bounds that keep the cache and its memory of ghosts finite.  The    *)
(* bound on |B1| + |B2| is what gives |T1|+|T2|+|B1|+|B2| <= 2 * capacity  *)
(* when Delete and expiry, unlike the algorithm's own steps, shrink T1 and *)
(* T2: Set compares the total with 2 * capacity only in one branch.        *)
ListBounds ==
  /\ Live <= Capacity
  /\ Len(lists.T1) + Len(lists.B1) <= Capacity
  /\ Len(lists.B1) + Len(lists.B2) <= Capacity
  /\ Total <= 2 * Capacity

(* What a Get can return.                                                  *)
LiveEntries ==
  [k \in {x \in DOMAIN itemMap : IsIn(x, LiveLists)} |->
     [value |-> itemMap[k].value, expiresAt |-> itemMap[k].expiresAt]]
===========================================================================
