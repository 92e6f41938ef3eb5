---------------------------- MODULE LinkedList ----------------------------
(***************************************************************************)
(* internal/cache/list: the doubly-linked list of LFU and ARC, pointer by  *)
(* pointer.  A node is named by the key it holds, which it keeps for life; *)
(* prev and next are those of the nodes in the list.                       *)
(*                                                                         *)
(* Left out: PushBack, MoveToFront and ToSlice, which nothing calls.       *)
(***************************************************************************)
EXTENDS Naturals, Sequences

CONSTANT Nil   \* the nil pointer

Put(f, n, v) == [x \in DOMAIN f \cup {n} |-> IF x = n THEN v ELSE f[x]]
Drop(f, n) == [x \in DOMAIN f \ {n} |-> f[x]]

(* f[n] = v, if n is a node.                                               *)
Assign(f, n, v) == IF n = Nil THEN f ELSE [f EXCEPT ![n] = v]

New ==
  LET none == [n \in {} |-> Nil]
  IN [head |-> Nil, tail |-> Nil, len |-> 0, prev |-> none, next |-> none]

Back(l) == l.tail

PushFront(l, n) ==
  [head |-> n,
   tail |-> IF l.head = Nil THEN n ELSE l.tail,
   len  |-> l.len + 1,
   prev |-> Assign(Put(l.prev, n, Nil), l.head, n),
   next |-> Put(l.next, n, l.head)]

(* Mutant: the node behind is left pointing at the one removed.            *)
RemoveOneWay(l, n) ==
  [head |-> IF l.prev[n] = Nil THEN l.next[n] ELSE l.head,
   tail |-> IF l.next[n] = Nil THEN l.prev[n] ELSE l.tail,
   len  |-> l.len - 1,
   prev |-> Drop(l.prev, n),
   next |-> Drop(Assign(l.next, l.prev[n], l.next[n]), n)]

Remove(l, n) ==
  [head |-> IF l.prev[n] = Nil THEN l.next[n] ELSE l.head,
   tail |-> IF l.next[n] = Nil THEN l.prev[n] ELSE l.tail,
   len  |-> l.len - 1,
   prev |-> Drop(Assign(l.prev, l.next[n], l.prev[n]), n),
   next |-> Drop(Assign(l.next, l.prev[n], l.next[n]), n)]

(* The list, read from either end, holds the nodes of s in this order.     *)
IsList(l, s) ==
  LET Nth(i) == IF i \in DOMAIN s THEN s[i] ELSE Nil
      nodes == {s[i] : i \in DOMAIN s}
  IN /\ l.len = Len(s) /\ l.head = Nth(1) /\ l.tail = Nth(Len(s))
     /\ DOMAIN l.prev = nodes /\ DOMAIN l.next = nodes
     /\ \A i \in DOMAIN s : l.prev[s[i]] = Nth(i - 1) /\ l.next[s[i]] = Nth(i + 1)
===========================================================================
